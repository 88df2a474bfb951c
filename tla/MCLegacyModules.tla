-------------------------- MODULE MCLegacyModules --------------------------
(***************************************************************************)
(* A caller in up to two tenants, which allow classes by name, by regular  *)
(* expression or by one label, volumes by their tenant and nodes by their  *)
(* labels, for some of the operations and kinds.                           *)
(***************************************************************************)
EXTENDS LegacyModules

CONSTANTS oil, gas

MCAllKinds == LegacyKinds
MCStorage == {"StorageClasses"}
MCKeys == {"tier", "tenant"}

Obj(labelled, tier, tenant) ==
    [labelled |-> labelled, labels |-> [key \in MCKeys |-> IF key = "tier" THEN tier ELSE tenant]]
MCObjects == {Obj(TRUE, "gold", oil), Obj(TRUE, "silver", gas), Obj(FALSE, "gold", NoLabel)}
MCObjectsPlain == {Obj(TRUE, "gold", oil)}

In(key, values) == [key |-> key, operator |-> "In", values |-> values]
NotIn(key, values) == [key |-> key, operator |-> "NotIn", values |-> values]
Spec_(exact, default, regex, selector) ==
    [exact |-> exact, default |-> default, regex |-> regex, selector |-> selector]
None == Spec_(<< >>, NoObject, {}, NoSelector)

\* Operations and specification for all kinds of classes but the priority
\* classes, which are not allowed.
Tenant(name, operations, spec, nodeSelector) ==
    [tenant |-> name,
     operations |-> [kind \in MCAllKinds |-> IF kind = "PriorityClasses" THEN {} ELSE operations],
     spec |-> [kind \in MCAllKinds |-> IF kind = "PriorityClasses" THEN None ELSE spec],
     nodeSelector |-> nodeSelector]

Label(key, value) == [key |-> key, value |-> value]
all == {"List", "Update", "Delete"}
oilExact == Tenant(oil, all, Spec_(<<2>>, 1, {}, NoSelector), {Label("tier", "gold"), Label("tenant", oil)})
oilGold == Tenant(oil, {"List", "Delete"}, Spec_(<<2>>, NoObject, {}, {In("tier", {"gold"})}), {})
oilRegex == Tenant(oil, {"List"}, Spec_(<< >>, NoObject, {1}, {}), {Label("tier", "silver")})
gasSilver == Tenant(gas, {"List"}, Spec_(<< >>, NoObject, {}, {In("tier", {"silver"})}), {Label("tenant", gas)})
gasNotGold == Tenant(gas, all, Spec_(<< >>, NoObject, {}, {NotIn("tier", {"gold"})}), {Label("tier", "gold")})
gasNone == Tenant(gas, {}, Spec_(<<1, 2>>, NoObject, {}, NoSelector), {Label("tier", "bronze")})

MCProxyTenants ==
    {<< >>, <<oilExact>>, <<oilGold, gasSilver>>, <<gasNone, oilRegex>>, <<gasNotGold, oilGold>>,
     <<oilRegex, gasNone, oilExact>>}

\* Names that a tenant lists in this order; the default comes last.
MCProxyTenantsExact == {<<Tenant(oil, {"List"}, Spec_(<<1, 3>>, 2, {}, NoSelector), {})>>}

ASSUME SelectorsArePlain == PlainSelectors

=============================================================================
