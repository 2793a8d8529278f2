SPECIFICATION FairSpec
CONSTANTS
    e1 = e1  e2 = e2  t1 = t1  r1 = r1  r2 = r2
    Events = {e1, e2}
    Teams = {t1}
    TeamOf <- OneTeam
    Reconcilers = {r1, r2}
    NoRow = NoRow
    MaxAttempts = 2
    BatchLimit = 1
CHECK_DEADLOCK FALSE
INVARIANT LedgerInv
PROPERTIES RefinesBillingRecord OutboxConverges
