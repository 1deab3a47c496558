CONSTANTS
    b1 = b1
    b2 = b2
    Batch <- MCBatch
    Images <- MCImages
    Policies = {"periodic"}
    Failures = {"process"}
    MaxSequence = 2
    MaxGen = 1
    MaxDelta = 1
SPECIFICATION Spec
INVARIANT SyncedIsSynchronised
