SPECIFICATION FairSpec
CONSTANTS
    d1 = d1  d2 = d2
    Dispatchers = {d1, d2}
    MaxAlerts = 2
    Unroutable = {1}
    MaxAttempts = 2
    BatchLimit = 2
    Lease = 0
    MaxAge = 1
CHECK_DEADLOCK FALSE
INVARIANTS OneOwner DeliveredOnce GoneOnlyIfSent
PROPERTY OutboxDrains
