SPECIFICATION Spec
CONSTANTS
    alice = alice
    devs = devs
    bob = bob
    oil = oil
    gas = gas
    NoLabel = NoLabel
    NoSelector = NoSelector
    NoObject = NoObject
    NoTenant = NoTenant
    Names = {"dev", "prod"}
    NamespaceObjects <- MCNamespaceObjects
    Tenants = {oil, gas}
    Subjects <- MCSubjects
    OwnerSets <- MCOwnerSets
    ProxySettingIds = {"s"}
    ProxySettingObjects <- MCProxySettingObjects
    GlobalIds = {"g"}
    GlobalObjects <- MCGlobalObjects
    ClusterScoped = TRUE
    Cached = TRUE
    CallsFail = TRUE
    MaxWrites = 1
INVARIANTS
    TypeOK
    ShownIsEntitled
    ListedIsFound
    MissingNamespaceTold
