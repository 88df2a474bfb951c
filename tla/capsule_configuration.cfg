SPECIFICATION Spec
CONSTANTS
    t1 = t1
    NoConfiguration = NoConfiguration
    Threads <- MCThreads
    Callers <- MCCallers
    Configurations <- MCConfigurations
    MaxWrites = 3
    MaxExits = 2
INVARIANTS
    TypeOK
    DecisionJustified
PROPERTIES
    ConfigurationApplied
CHECK_DEADLOCK FALSE
