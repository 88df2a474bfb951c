----------------------- MODULE MCRoleBindingReflector -----------------------
(***************************************************************************)
(* A small instance: one user in one group, a RoleBinding that names the   *)
(* group and grants through a Role of its namespace, and a namespace that  *)
(* is a tenant's by its label and another's by its owner, or nobody's.     *)
(***************************************************************************)
EXTENDS RoleBindingReflector

CONSTANTS t1, t2, oil, gas

Subject(kind, name) == [kind |-> kind, name |-> <<name>>, namespace |-> << >>]
alice == Subject("User", "alice")
devs == Subject("Group", "devs")

PodQuery == [user |-> alice, groups |-> {devs}, verb |-> "list", apiGroup |-> "", resource |-> "pods"]

MCThreads == {t1, t2}
MCQueries == {PodQuery}

Binding(ns) == [name |-> "view", namespace |-> ns]
MCBindingIds == {Binding("dev")}

RoleBinding(labelled, subject, kind) ==
    [labelled |-> labelled, subjects |-> {subject},
     roleRef |-> [kind |-> kind, name |-> "viewer", apiGroup |-> "rbac.authorization.k8s.io"]]
MCBindingObjects == {RoleBinding(TRUE, devs, "Role")}

MCRoleIds == {[kind |-> "Role", name |-> "viewer", namespace |-> "dev"]}
MCClusterRoleIds == {[kind |-> "ClusterRole", name |-> "viewer", namespace |-> ""]}

Rule(verbs, groups, resources, names) ==
    [verbs |-> verbs, resources |-> resources, apiGroups |-> groups, resourceNames |-> names]
MCRoleObjects == {{Rule({"list"}, {""}, {"*"}, {})}}

MCNamespaceIds == {"dev"}

NamespaceOf(newLabel, label, owners) ==
    [newLabel |-> newLabel, label |-> label, owners |-> owners]
MCNamespaceObjects == {NamespaceOf(NoTenant, NoTenant, << >>),
                       NamespaceOf(NoTenant, oil, <<[kind |-> "Tenant", name |-> gas]>>)}

\* Two service accounts, ci in namespace team-a and a-ci in namespace team.
ServiceAccount(ns, name) == [kind |-> "ServiceAccount", name |-> name, namespace |-> ns]
teamACi == ServiceAccount(<<"team", "a">>, <<"ci">>)
teamACiOther == ServiceAccount(<<"team">>, <<"a", "ci">>)
MCQueriesServiceAccount == {[PodQuery EXCEPT !.user = teamACi, !.groups = {}]}
MCBindingObjectsServiceAccount ==
    {RoleBinding(TRUE, teamACi, "ClusterRole"), RoleBinding(TRUE, teamACiOther, "ClusterRole")}

=============================================================================
