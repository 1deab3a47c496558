SPECIFICATION FairSpec
CONSTANTS
    Node <- MCNode
    Owner <- MCOwner
    Upstreams <- MCUpstreams
    Capacity <- MCCapacity
    Preloaded <- MCPreloaded
    Writes <- MCWrites
    Admins <- MCAdmins
    Profiles = {"composed", "memory"}
    Budgets <- MCBudgets
    MaxBatches = 1
    MaxBytes = 2
    MaxSequence = 2
    MaxEpoch = 3
INVARIANTS PositionsIdentifyHistory ReadersSeeOneCut AckedIsDurable PrimaryOwnsEpoch
PROPERTIES PromotionIsFinal Converges
CHECK_DEADLOCK FALSE
