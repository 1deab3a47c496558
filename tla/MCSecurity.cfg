SPECIFICATION MCSpec
CONSTANTS
    Scenarios <- MCScenarios
    MAX_OVERLAP = 2
    BUCKET_TOKENS = 2
    REFILL = 1
    MAX_BUCKETS = 1
    MAX_FAILURES = 2
    RUNNING = 1
    ADMITTED = 2
    Streams <- MCStreams
    RespLimits <- MCRespLimits
    MAX_INPUT = 24
    INTEGER_MAX = 99
INVARIANTS AcceptedUnderActive OpenMatchesPolicy ExecIsWhatWasQueued LoadedIsWhole ExportIsWhole FragmentsDoNotMatter CodecAgrees
PROPERTIES ActivationEnds
CHECK_DEADLOCK FALSE
