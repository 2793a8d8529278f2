SPECIFICATION FairSpec
CONSTANTS
    q1 = q1  q2 = q2  s1 = s1  k1 = k1  k2 = k2
    Requests = {q1, q2, s1}
    Streams = {s1}
    Keys = {k1, k2}
    CappedKeys = {k1}
    KeyOf <- MCKeyOf
    Team = Team
    Limit <- MCLimit
    Amount <- MCAmount
    Costs = {0, 2}
    TTL = 2
CHECK_DEADLOCK FALSE
INVARIANTS ClaimsCover CapHolds
PROPERTY HeadroomRecovers
