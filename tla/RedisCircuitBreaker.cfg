SPECIFICATION FairSpec
CONSTANTS
    r1 = r1  r2 = r2  r3 = r3
    Requests <- MCRequests
    NoToken = NoToken
    Threshold = 2
    Cooldown = 2
    MaxCount = 4
INVARIANT MarkersSettle
PROPERTIES TrialWindow NeverWedged
