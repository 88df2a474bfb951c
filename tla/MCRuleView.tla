----------------------------- MODULE MCRuleView -----------------------------
(***************************************************************************)
(* A caller with up to two rules on storage classes, which are served in   *)
(* two versions, on tenants and on a resource that can be listed but not   *)
(* read by name, and with permissions on pods in the namespaces of two     *)
(* tenants.                                                                *)
(***************************************************************************)
EXTENDS RuleView

Resource(group, version, rank, resource, namespaced, verbs) ==
    [group |-> group, version |-> <<version>>, rank |-> rank, resource |-> resource,
     namespaced |-> namespaced, verbs |-> verbs]

classes == Resource(<<"storage", ".k8s.io">>, "v1", 1, "storageclasses", FALSE, {"get", "list"})
oldClasses == [classes EXCEPT !.version = <<"v1beta1">>, !.rank = 2]
metrics == Resource(<<"metrics", ".k8s.io">>, "v1", 1, "usages", FALSE, {"list"})
tenants == Resource(<<"capsule.clastix.io">>, "v1beta2", 1, "tenants", FALSE, {"get", "list"})
pods == Resource(<< >>, "v1", 1, "pods", TRUE, {"get", "list", "watch"})

MCResources == {classes, oldClasses, metrics, tenants, pods}
MCResourceOf == [n \in Names |-> IF n = "fast" THEN classes
                                 ELSE IF n = "usage" THEN metrics
                                 ELSE IF n = "pod" THEN pods ELSE tenants]
MCTenantOf == [n \in Names |-> IF n = "pod" THEN "oil" ELSE NoLabel]
MCTenantNamespaces == [t \in {"oil", "gas"} |-> IF t = "oil" THEN <<"prod", "dev">> ELSE << >>]

LabelSet(team, env) == [key \in {"team", "env"} |-> IF key = "team" THEN team ELSE env]
MCLabelSets ==
    [n \in Names |-> IF n \in {"fast", "oil"} THEN {LabelSet("web", "prod"), LabelSet(NoLabel, "dev")}
                     ELSE {LabelSet(NoLabel, "dev")}]

Req(key, operator, values) == [key |-> key, operator |-> operator, values |-> values]
Rule(groups, resources, operations, req) ==
    [resources |-> resources, apiGroups |-> groups, operations |-> operations,
     selector |-> IF req = NoSelector THEN NoSelector ELSE {req}]

web == Req("team", "In", {"web"})
anyEnv == Req("env", "NotIn", {"prod"})
noTeam == Req("team", "DoesNotExist", {})

storageByTeam == Rule({<<"storage", "*">>}, {"storageclasses"}, {"List"}, web)
getsByEnv == Rule({<<"*", ".k8s.io", "/", "*">>}, {"*"}, {"Get"}, anyEnv)

\* Rules that are merged with the one on storage classes, and rules alone.
MergedRules ==
    {storageByTeam, getsByEnv, Rule({<<"storage", ".k8s.io">>}, {"storageclasses"}, {}, anyEnv)}

SingleRules ==
    {getsByEnv,
     Rule({<<"metrics", ".k8s.io">>}, {"usages"}, {"List"}, noTeam),
     Rule({<<"*">>}, {"tenants"}, {}, web),
     Rule({<<"capsule.clastix.io", "/", "v1beta2">>}, {"*"}, {"Get"}, noTeam),
     Rule({<<"*">>}, {"*"}, {}, NoSelector)}

Caller(rules, own, owned, mayList, reflected) ==
    [rules |-> rules, own |-> own, owned |-> owned, mayList |-> mayList, reflected |-> reflected]

\* By rules, alone or with the one on storage classes, or by permissions.
MCCallers ==
    {Caller({rule}, {}, {}, {}, {}) : rule \in SingleRules}
    \cup {Caller({storageByTeam, rule}, {"oil"}, {}, {"prod"}, {}) : rule \in MergedRules}
    \cup {Caller({}, {"oil"}, {"oil"}, {namespace}, {}) : namespace \in {"dev", "prod"}}
    \cup {Caller({}, {"oil", "gas"}, {"oil"}, {}, {tenant}) : tenant \in {"oil", "gas"}}

\* The rules above are such that what is shown can be compared with them.
ASSUME RulesArePlain == PlainRules

=============================================================================
