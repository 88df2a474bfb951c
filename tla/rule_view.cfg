SPECIFICATION Spec
CONSTANTS
    NoLabel = NoLabel
    NoSelector = NoSelector
    NoObject = NoObject
    NoResource = NoResource
    Resources <- MCResources
    Names = {"fast", "usage", "pod", "oil", "gas"}
    ResourceOf <- MCResourceOf
    Keys = {"team", "env"}
    LabelSets <- MCLabelSets
    TenantOf <- MCTenantOf
    Callers <- MCCallers
    Tenants = {"oil", "gas"}
    LongNames = {"gas"}
    TenantNamespaces <- MCTenantNamespaces
    Namespaces = {"dev", "prod"}
    MaxWrites = 1
    CallsFail = TRUE
INVARIANTS
    TypeOK
    ShownIsEntitled
    ListedIsFound
    SelectedIsServed
    ValidIsServed
    ReviewAgrees
