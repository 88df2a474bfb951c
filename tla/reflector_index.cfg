SPECIFICATION Spec
CONSTANTS
    t1 = t1
    t2 = t2
    oil = oil
    gas = gas
    NoObject = NoObject
    NoTenant = NoTenant
    NoResult = NoResult
    Threads <- MCThreads
    Queries <- MCQueriesServiceAccount
    BindingIds <- MCBindingIds
    BindingObjects <- MCBindingObjectsServiceAccount
    RoleIds <- MCClusterRoleIds
    RoleObjects <- MCRoleObjects
    NamespaceIds <- MCNamespaceIds
    NamespaceObjects <- MCNamespaceObjects
    KubeNamespace = "dev"
    MaxWrites = 2
INVARIANT
    FoundIsBound
