CONSTANTS
    b1 = b1
    b2 = b2
    Batch <- MCBatch
    Images <- MCImages
    Policies = {"always", "periodic"}
    Failures = {"power"}
    MaxSequence = 2
    MaxGen = 2
    MaxDelta = 1
SPECIFICATION Spec
INVARIANTS AlwaysIsRecoverable SyncedSurvives
