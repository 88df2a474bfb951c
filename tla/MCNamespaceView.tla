-------------------------- MODULE MCNamespaceView --------------------------
(***************************************************************************)
(* alice, who is in the group devs, and namespaces of one of two tenants   *)
(* and of none; rules that select namespaces by one label.                 *)
(***************************************************************************)
EXTENDS NamespaceView

CONSTANTS alice, devs, bob, oil, gas

MCSubjects == <<alice, devs>>
MCOwnerSets == {{alice, devs}, {bob}}

Labels(team, env) == [key \in {"team", "env"} |-> IF key = "team" THEN team ELSE env]
Namespace(owner, labels) == [owner |-> owner, labels |-> labels]

MCNamespaceObjects ==
    {Namespace(gas, Labels("web", NoLabel)), Namespace(NoTenant, Labels("web", "prod"))}

In(key, values) == [key |-> key, operator |-> "In", values |-> values]
NotIn(key, values) == [key |-> key, operator |-> "NotIn", values |-> values]
Rule(operations, selector) ==
    [resources |-> {"namespaces"}, apiGroups |-> {<< >>}, operations |-> operations,
     selector |-> selector]

web == Rule({"List"}, {In("team", {"web"})})
notDev == Rule({"Get"}, {NotIn("env", {"dev", "prod"})})
notProd == Rule({}, {NotIn("env", {"prod"})})

Setting(ns, rules) ==
    [namespace |-> ns, subjects |-> <<[subject |-> bob, clusterResources |-> {}],
                                      [subject |-> devs, clusterResources |-> rules]>>]
MCProxySettingObjects == {Setting("dev", {notProd})}
MCGlobalObjects == {{[subjects |-> {alice}, clusterResources |-> {Rule({}, NoSelector)}],
                     [subjects |-> {bob}, clusterResources |-> {notDev}],
                     [subjects |-> {devs}, clusterResources |-> {web}]}}

\* The rules above are such that what is shown can be compared with them.
ASSUME RulesArePlain == PlainRules

=============================================================================
