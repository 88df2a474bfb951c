SPECIFICATION Spec
CONSTANTS
    r1 = r1
    r2 = r2
    NoObject = NoObject
    Replicas <- MCReplicasOne
    MaxWrites = 4
    MaxUid = 2
    Steps = 2
    RelistSpans = TRUE
PROPERTY
    CatchesUp
CHECK_DEADLOCK FALSE
