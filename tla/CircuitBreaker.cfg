SPECIFICATION FairSpec
CONSTANTS
    r1 = r1  r2 = r2  r3 = r3  r4 = r4
    Requests <- MCRequests
    NoToken = NoToken
    Threshold = 3
    Cooldown = 2
INVARIANT OneTrial
PROPERTIES OnlyTrialResolves RecoveredProviderCloses
