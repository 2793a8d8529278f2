SPECIFICATION MCSpec
CONSTANTS
    Users = {u1, u2}
    Emails = {e1, e2}
    Subjects = {s1, s2}
    Keys = {k1, k2, k3}
    SPs = {sp1}
    Tokens = {t1}
    Procs = {p1, p2}
    NoOne = NoOne
    AdminEmail = e1
    DefaultAdmin = FALSE
    MAX_FAILED_LOGINS = 2
    MaxTokenVersion = 2
    MaxCycles = 1
CONSTRAINT MCBound
SYMMETRY Ids
CHECK_DEADLOCK FALSE
INVARIANTS AccountsGuarded CredentialsDie
PROPERTY AdminDisableSticks
