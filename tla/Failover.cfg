SPECIFICATION FairSpec
CONSTANTS
    q1 = q1  q2 = q2  q3 = q3
    m1 = m1  m2 = m2
    Requests <- MCRequests
    Streams <- MCStreams
    Timed <- MCTimed
    Candidates <- MCCandidates
    Chain <- MCChain
    NoToken = NoToken
    Threshold = 1
    Cooldown = 1
    MaxAttempts = 2
    Deadline = 1
CHECK_DEADLOCK FALSE
INVARIANTS PaidOnce NothingHeldBetween
PROPERTIES UsesBreakers EveryRequestEnds
