SPECIFICATION Spec
CONSTANTS
    r1 = r1
    r2 = r2
    NoObject = NoObject
    Replicas <- MCReplicas
    MaxWrites = 3
    MaxUid = 2
    Steps = 2
    RelistSpans = FALSE
INVARIANTS
    TypeOK
    ObservedIsPast
PROPERTIES
    ObservedNeverDecreases
    ImplementsObservedGeneration
CHECK_DEADLOCK FALSE
