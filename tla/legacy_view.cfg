SPECIFICATION Spec
CONSTANTS
    oil = oil
    gas = gas
    NoLabel = NoLabel
    NoSelector = NoSelector
    NoObject = NoObject
    Kinds <- MCAllKinds
    Names = {1, 2}
    LongNames = {2}
    Objects <- MCObjects
    Keys <- MCKeys
    ProxyTenants <- MCProxyTenants
    Methods = {"GET", "PUT", "DELETE", "POST"}
    CallsFail = TRUE
    MaxWrites = 1
INVARIANTS
    TypeOK
    CollectionIsAllowed
    ReachedIsAllowed
    ListedIsFound
