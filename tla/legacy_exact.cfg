SPECIFICATION Spec
CONSTANTS
    oil = oil
    gas = gas
    NoLabel = NoLabel
    NoSelector = NoSelector
    NoObject = NoObject
    Kinds <- MCStorage
    Names = {1, 2, 3}
    LongNames = {}
    Objects <- MCObjectsPlain
    Keys <- MCKeys
    ProxyTenants <- MCProxyTenantsExact
    Methods = {"GET"}
    CallsFail = FALSE
    MaxWrites = 0
INVARIANT
    AllowedIsListed
