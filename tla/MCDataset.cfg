SPECIFICATION Spec
CONSTANTS
    Scenarios <- MCScenarios
    I64_MAX = 1999
    MAX_DIMENSION = 2
    MAX_MEMBERS = 3
    MAX_COLLECTION_BYTES = 1200
    MAX_COMPONENTS = 4
    MAX_SEARCH_K = 2
    MAX_EDITS = 8
    MAX_CONTENT = 4
    MAX_METADATA = 1
INVARIANTS AccountingHolds RecoveryReproduces WatchSeesChange SplitIsWhole SearchIsTopK RecordsAlwaysFit GenerationIsWhole
CHECK_DEADLOCK FALSE
