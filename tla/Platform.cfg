SPECIFICATION MCSpec
CONSTANTS
    p1 = p1
    p2 = p2
    p3 = p3
    k1 = k1
    k2 = k2
    x = x
    y = y
    h1 = h1
    h2 = h2
    h3 = h3
    e1 = e1
    e2 = e2
    v1 = v1
    v2 = v2
    r1 = r1
    r2 = r2
    r3 = r3
    Tasks = {p1, p2, p3}
    ClientKeys = {k1, k2}
    Capacity = 1
    Closer = Closer
    NoEntry = NoEntry
    RateKeys = {x, y}
    Hits = {h1, h2, h3}
    WindowOf <- MCWindowOf
    LimitOf <- MCLimitOf
    MaxSecond = 5
    MaxDelay = 1
    Never = Never
    Replicas = {r1, r2, r3}
    Editors = {e1, e2}
    Secrets = {s1}
    SecretValues = {v1, v2}
    NoRow = NoRow
    Nobody = Nobody
    TokenTTL = 1
    MaxDay = 4
    ProviderAnswers <- MCAnswers
    Forced = "forced"
CHECK_DEADLOCK FALSE
INVARIANTS ClientsSound WindowsSound VaultSound AnswersSound
PROPERTY EveryLeaseAnswered
