SPECIFICATION Spec
CONSTANTS
    t1 = t1
    t2 = t2
    oil = oil
    gas = gas
    NoObject = NoObject
    NoTenant = NoTenant
    NoResult = NoResult
    Threads <- MCThreads
    Queries <- MCQueries
    BindingIds <- MCBindingIds
    BindingObjects <- MCBindingObjects
    RoleIds <- MCRoleIds
    RoleObjects <- MCRoleObjects
    NamespaceIds <- MCNamespaceIds
    NamespaceObjects <- MCNamespaceObjects
    KubeNamespace = "dev"
    MaxWrites = 1
INVARIANTS
    TypeOK
    CacheCoherent
    LookupCoherent
PROPERTIES
    StaleResultDropped
    LookupReturns
