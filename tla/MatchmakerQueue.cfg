SPECIFICATION FairSpec
CONSTANTS
    r1 = r1
    r2 = r2
    Requests = {r1, r2}
    TicketIds <- MCTicketIds
    ChanCap = 1
    BatchSize = 2
    MaxConcurrent = 1
    Creations <- MCCreations
    MaxDeliveries = 2
INVARIANTS
    TypeOK
    PlayerMatchableOnce
    NotifiedOnce
    OkIsAccountedFor
    TrackedUntilHandled
PROPERTIES
    ActivationSpec
    EveryRequestAnswered
    EveryIdSettled
    EveryAssignmentHandled
\* Once every request is answered and every roster handled, the queue waits.
CHECK_DEADLOCK FALSE
