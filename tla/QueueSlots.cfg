SPECIFICATION Spec
CONSTANTS
    r1 = r1
    r2 = r2
    Requests = {r1, r2}
    TicketIds <- MCTicketIds
    ChanCap = 1
    BatchSize = 2
    MaxConcurrent = 1
    Creations <- MCCreations
    MaxDeliveries = 2
INVARIANT CreationsBounded
CHECK_DEADLOCK FALSE
