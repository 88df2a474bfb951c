------------------------------ MODULE RuleView ------------------------------
(***************************************************************************)
(* What a Capsule user sees of cluster-scoped resources by the rules of    *)
(* its ProxySettings (modules/clusterscoped, modules/tenants), what it     *)
(* sees of namespaced resources across namespaces (modules/namespaced),    *)
(* and what self reviews tell it about both (internal/authorization).      *)
(*                                                                         *)
(* The routes are registered once, when the proxy starts, from the         *)
(* resources that the API server serves at that time.  A rule that         *)
(* internal/runtime/validation accepts is compared with what the routes    *)
(* then do.  The rules and tenants of the caller are collected as in       *)
(* NamespaceView.                                                          *)
(***************************************************************************)
EXTENDS Selectors

CONSTANTS
    Resources,         \* [group, version, rank, resource, namespaced, verbs]
    Names,             \* objects
    ResourceOf,        \* object -> its resource, in one of the versions
    Keys,              \* of labels that users set
    LabelSets,         \* object -> the values that it may have for them
    TenantOf,          \* object -> the tenant in the label that Capsule sets, or NoLabel
    Callers,           \* [rules, own, owned, mayList, reflected]
    Tenants,           \* the objects of the resource tenants
    LongNames,         \* the tenants whose name is no value of a label
    TenantNamespaces,  \* tenant -> sequence of namespaces in its status
    Namespaces,
    MaxWrites,         \* bound: changes of objects, settings and resources
    CallsFail,         \* whether reads may fail
    NoObject, NoResource

ASSUME RuleViewAssumption ==
    /\ ResourceOf \in [Names -> Resources]
    /\ LongNames \subseteq Tenants /\ NoLabel \notin Tenants \cup {"global"}
    /\ TenantOf \in [Names -> (Tenants \ LongNames) \cup {NoLabel}]
    /\ TenantNamespaces \in [Tenants -> Seq(Namespaces)]
    /\ \A n \in Names : NoObject \notin LabelSets[n]
    /\ \A c \in Callers : /\ c.own \cup c.reflected \subseteq Tenants /\ c.owned \subseteq c.own
                          /\ c.mayList \subseteq Namespaces
    /\ NoResource \notin Resources
    /\ MaxWrites \in Nat
    /\ CallsFail \in BOOLEAN

VARIABLES
    served,     \* the resources that the API server serves
    routes,     \* [generic, catchAll]: the resources with a module
    objects,    \* the objects in the API server, as the labels that users set
    cached,     \* and of tenants in the informer cache
    caller,     \* its rules, its tenants (owned as an owner, the others by
                \* ProxySettings), where it may list namespaced resources, and the
                \* tenants that the reflector finds for it
    request,    \* the request being served
    last,       \* what a LIST of a cluster-scoped resource or a self review of one
                \* with a generic module answered before this request, if nothing
                \* changed since and no read for the review failed
    writes

world == <<served, routes, objects, cached, caller, writes>>
vars == <<served, routes, objects, cached, caller, request, last, writes>>

-----------------------------------------------------------------------------
(* The routes. *)

namespacesResource == <<<< >>, "namespaces">>
tenantsResource == <<<<"capsule.clastix.io">>, "tenants">>
tenantsGVK ==
    [group |-> <<"capsule.clastix.io">>, version |-> <<"v1beta2">>, resource |-> "tenants"]

isTenants(r) == <<r.group, r.resource>> = tenantsResource

\* Namespaces and tenants have modules of their own.
moduleGroupKindPresent(r) == <<r.group, r.resource>> \in {namespacesResource, tenantsResource}

\* A resource may be served in several versions.
SameKind(r, s) == r.group = s.group /\ r.resource = s.resource

\* The names of API groups have no wildcards and slashes.  The versions of a
\* resource are ranked, the one that the API server prefers first, and share the
\* scope.  Tenants are served in the version that the proxy reads; namespaces are
\* left to NamespaceView.
ASSUME ResourcesAssumption ==
    /\ \A r \in Resources :
          /\ r.group \in Seq(STRING) /\ \A i \in DOMAIN r.group : r.group[i] \notin {"*", "/"}
          /\ r.version \in Seq(STRING) /\ r.rank \in Nat
          /\ <<r.group, r.resource>> # namespacesResource
          /\ isTenants(r) => r.version = tenantsGVK.version
    /\ \A r, s \in Resources : SameKind(r, s) =>
          r.namespaced = s.namespaced /\ (r.rank = s.rank => r = s)
    /\ \A c \in Callers : \A rule \in c.rules : rule.apiGroups \subseteq Seq(STRING)
    /\ Tenants = {n \in Names : isTenants(ResourceOf[n])}

\* discovery.ServerPreferredResources: one version of every resource.
ServerPreferred ==
    {r \in served : \A s \in served : SameKind(r, s) => r.rank <= s.rank}

serverPreferredResources == {r \in ServerPreferred : ~r.namespaced /\ "get" \in r.verbs}

\* Mutant: the resources without a namespace are not left out.
discoverAPIAny == {r \in ServerPreferred : {"get", "list"} \subseteq r.verbs}

discoverAPI ==
    {r \in ServerPreferred : r.namespaced /\ {"get", "list", "watch"} \subseteq r.verbs}

registerModules ==
    [generic |-> {r \in serverPreferredResources : ~moduleGroupKindPresent(r)},
     catchAll |-> discoverAPI]

-----------------------------------------------------------------------------
(* Validation of a rule against what is served. *)

\* A rule with the operation List is one with Get.
EffectiveOperations(rule) == {operation \in {"List", "Get"} : AllowsOperation(rule, operation)}

verb(operation) == IF operation = "List" THEN "list" ELSE "get"

DiscoverClusterResources == {r \in ServerPreferred : ~r.namespaced}

\* Mutant: only the configured operations are asked of a resource.
validateConfiguredOperations(r, rule) == {verb(op) : op \in rule.operations} \subseteq r.verbs

validateDiscoveredClusterResource(r, rule) ==
    {verb(op) : op \in EffectiveOperations(rule)} \subseteq r.verbs

\* A wildcard stands alone; explicit groups and resources are all discovered,
\* every group with every resource.
ValidateClusterResourceBlock(rule) ==
    LET index == DiscoverClusterResources
        groups == IF <<"*">> \in rule.apiGroups THEN {r.group : r \in served} ELSE rule.apiGroups
        named == {r \in index : r.group \in groups /\ rule.resources \cap {"*", r.resource} # {}}
    IN  /\ rule.apiGroups # {} /\ rule.resources # {}
        /\ rule.operations \subseteq {"List", "Get"}
        /\ <<"*">> \in rule.apiGroups => rule.apiGroups = {<<"*">>}
        /\ "*" \in rule.resources => rule.resources = {"*"}
        /\ groups \subseteq {r.group : r \in served}
        /\ "*" \notin rule.resources =>
              \A group \in groups, resource \in rule.resources :
                  \E r \in named : r.group = group /\ r.resource = resource
        /\ \A r \in named : validateDiscoveredClusterResource(r, rule)

-----------------------------------------------------------------------------
(* The world around a request. *)

\* Users set none of the labels below, and no rule asks for the last one.
ASSUME LabelsAssumption ==
    /\ Keys \cap {"metadata.name", "tenant", "dontexistsignoreme"} = {}
    /\ \A c \in Callers : \A rule \in c.rules : rule.selector # NoSelector =>
          \A req \in rule.selector : req.key # "dontexistsignoreme"

\* metadata.name and tenant stand for the labels kubernetes.io/metadata.name
\* and capsule.clastix.io/managed-by.
Labels(n, obj) ==
    [key \in Keys \cup {"metadata.name", "tenant", "dontexistsignoreme"} |->
        IF key \in Keys THEN obj[key]
        ELSE IF key = "metadata.name" /\ n \in Tenants \ LongNames THEN n
        ELSE IF key = "tenant" THEN TenantOf[n]
        ELSE NoLabel]

NoRequest ==
    [pc |-> "idle", operation |-> "List", resource |-> NoResource, name |-> NoObject,
     version |-> << >>, rules |-> {}, own |-> {}, pending |-> {}, sources |-> {}, selector |-> NoSelector,
     shown |-> {}, steady |-> FALSE, synced |-> FALSE, failed |-> FALSE]

NoAnswer ==
    [operation |-> "none", resource |-> NoResource, version |-> << >>,
     shown |-> {}, granted |-> FALSE, advertised |-> {}]

\* Of the request that is being served.
Answer ==
    [NoAnswer EXCEPT !.operation = request.operation, !.resource = request.resource,
                     !.version = request.version]

Changed ==
    /\ request' = [request EXCEPT !.steady = FALSE]
    /\ last' = NoAnswer

Write ==
    /\ writes < MaxWrites
    /\ writes' = writes + 1
    /\ Changed

WriteObject ==
    /\ \E n \in Names : \E labels \in LabelSets[n] \cup {NoObject} :
          objects' = [objects EXCEPT ![n] = labels]
    /\ Write
    /\ UNCHANGED <<served, routes, cached, caller>>

SyncTenant ==
    /\ \E t \in Tenants :
          /\ cached[t] # objects[t]
          /\ cached' = [cached EXCEPT ![t] = objects[t]]
    /\ Changed
    /\ UNCHANGED <<served, routes, objects, caller, writes>>

WriteCaller ==
    /\ caller' \in Callers
    /\ Write
    /\ UNCHANGED <<served, routes, objects, cached>>

\* A resource definition is installed or removed; the routes stay.
WriteDiscovery ==
    /\ \E r \in Resources :
          served' = IF r \in served THEN served \ {r} ELSE served \cup {r}
    /\ Write
    /\ UNCHANGED <<routes, objects, cached, caller>>

\* The proxy is started again; a request that was being served is lost.
Start ==
    /\ routes' = registerModules
    /\ routes' # routes
    /\ request' = NoRequest
    /\ last' = NoAnswer
    /\ UNCHANGED <<served, objects, cached, caller, writes>>

-----------------------------------------------------------------------------
(***************************************************************************)
(* A request: List and Get, Create for the other methods on a collection,  *)
(* Change for those on a name, and self access reviews, in which the       *)
(* client may leave out the version of the resource.                       *)
(***************************************************************************)
Ended == {"shown", "asCaller", "notFound", "error", "reviewed"}

Collection == {"List", "Create"}
Named == {"Get", "Change"}
Reviews == {"reviewList", "reviewWatch", "reviewGet", "reviewUpdate"}

Begin(operation, r, version, n) ==
    /\ request.pc = "idle"
    /\ request' = [NoRequest EXCEPT !.pc = "collect", !.operation = operation, !.resource = r,
                                    !.version = version, !.name = n, !.steady = TRUE,
                                    !.synced = \A t \in Tenants : cached[t] = objects[t]]
    /\ last' = IF operation \in {"List", "Get"} /\ last.resource \in {r, NoResource}
               THEN last ELSE NoAnswer
    /\ UNCHANGED world

Advance(r) ==
    /\ request' = r
    /\ UNCHANGED <<world, last>>

\* Once it has ended, what a request has collected is forgotten.
Ending(pc) ==
    [request EXCEPT !.pc = pc, !.rules = {}, !.own = {}, !.pending = {}, !.sources = {},
                    !.selector = NoSelector]

End(pc) == Advance(Ending(pc))

\* The client has its answer.
Return == request.pc \in Ended /\ Advance(NoRequest)

Fail == CallsFail /\ Advance([Ending("error") EXCEPT !.failed = TRUE])

\* A module yields a selector: the request is sent under the proxy's token.
Filter(selector) == Advance([request EXCEPT !.pc = "send", !.selector = selector])

In(key, values) == {[key |-> key, operator |-> "In", values |-> values]}

Nothing == {[key |-> "dontexistsignoreme", operator |-> "Exists", values |-> {}]}

\* Where the router leads: a request without a module is sent as the caller.
Route ==
    LET r == request.resource
    IN  IF request.operation \in Reviews \cup {"reviewRules"} THEN "review"
        ELSE IF isTenants(r) /\ request.operation = "List" THEN "tenantsList"
        ELSE IF isTenants(r) /\ request.operation = "Get" THEN "tenantsGet"
        ELSE IF r \in routes.generic /\ request.operation \in Collection THEN "genericList"
        ELSE IF r \in routes.generic THEN "genericGet"
        ELSE IF r \in routes.catchAll /\ request.operation = "List" THEN "catchAll"
        ELSE "asCaller"

Collected(rules, own, failed) ==
    IF Route = "asCaller" THEN Advance([Ending(Route) EXCEPT !.failed = failed])
    ELSE Advance([request EXCEPT !.pc = Route, !.rules = rules, !.own = own, !.pending = own,
                                 !.failed = failed])

\* getTenantsForOwner.  The request fails if the tenants of an owner cannot be
\* read.  If settings or their tenants cannot, for one of the caller's names,
\* that is only logged, and the request goes on with what was read.
Collect ==
    /\ request.pc = "collect"
    /\ \/ Collected(caller.rules, caller.own, FALSE)
       \/ /\ CallsFail
          /\ \E rules \in SUBSET caller.rules, own \in SUBSET caller.own :
                /\ caller.owned \subseteq own /\ <<rules, own>> # <<caller.rules, caller.own>>
                /\ Collected(rules, own, TRUE)
       \/ Fail

-----------------------------------------------------------------------------
(* The generic modules. *)

Requirements(operation) == GetClusterScopeRequirements(request.resource, operation, request.rules)

genericList ==
    /\ request.pc = "genericList"
    /\ LET reqs == Requirements("List")
       IN  IF reqs = {} THEN Filter(Nothing)
           ELSE IF request.operation = "List" THEN Filter(HandleListSelector(reqs))
           ELSE End("asCaller")

\* Mutant: a match of all requirements is asked for.
genericGetAll ==
    /\ request.pc = "genericGet"
    /\ LET reqs == Requirements("Get")
           obj == objects[request.name]
       IN  IF reqs = {} \/ request.operation # "Get" THEN End("asCaller")
           ELSE IF request.resource \notin served THEN End("error")
           ELSE IF obj = NoObject THEN End("notFound")
           ELSE IF SelectorMatches(reqs, Labels(request.name, obj)) THEN Filter({})
           ELSE End("asCaller")

\* The object is read from the API server, by a kind that is looked up in its
\* discovery documents.
genericGet ==
    /\ request.pc = "genericGet"
    /\ LET reqs == Requirements("Get")
           obj == objects[request.name]
       IN  IF reqs = {} \/ request.operation # "Get" THEN End("asCaller")
           ELSE \/ IF request.resource \notin served THEN End("error")
                   ELSE IF obj = NoObject THEN End("notFound")
                   ELSE IF MatchesOne(reqs, Labels(request.name, obj)) THEN Filter({})
                   ELSE End("asCaller")
                \/ Fail

-----------------------------------------------------------------------------
(* The tenant modules. *)

\* A ProxyTenant for GlobalProxySettings has the name "global".
userTenants == request.own \cup (IF request.rules = {} THEN {} ELSE {"global"})

\* Mutant: the selector is not passed to the read.
clusterScopedTenantNamesAll(reqs) ==
    IF reqs = {} THEN {} ELSE {t \in Tenants : cached[t] # NoObject}

clusterScopedTenantNames(reqs) ==
    IF reqs = {} THEN {}
    ELSE {t \in Tenants : /\ cached[t] # NoObject
                          /\ SelectorMatches(HandleListSelector(reqs), Labels(t, cached[t]))}

TenantRequirements(operation) == GetClusterScopeRequirements(tenantsGVK, operation, request.rules)

tenantsList ==
    /\ request.pc = "tenantsList"
    /\ \/ LET names == userTenants \cup clusterScopedTenantNames(TenantRequirements("List"))
          IN  IF names \cap LongNames # {} THEN End("error")
              ELSE Filter(IF names = {} THEN Nothing ELSE In("metadata.name", names))
       \/ TenantRequirements("List") # {} /\ Fail

tenantsGet ==
    /\ request.pc = "tenantsGet"
    /\ IF request.name \in userTenants THEN Filter({})
       ELSE \/ IF cached[request.name] # NoObject
                  /\ MatchesOne(TenantRequirements("Get"),
                                Labels(request.name, cached[request.name]))
               THEN Filter({}) ELSE End("notFound")
            \/ Fail

-----------------------------------------------------------------------------
(* The catch-all module: one review for each tenant, then the reflector. *)

\* The first namespace of the tenant is reviewed, the others are not.
ReviewTenant ==
    /\ request.pc = "catchAll"
    /\ \E t \in request.pending :
          LET allowed == TenantNamespaces[t] # << >> /\ TenantNamespaces[t][1] \in caller.mayList
          IN  \/ Advance([request EXCEPT !.pending = @ \ {t},
                                         !.sources = IF allowed THEN @ \cup {t} ELSE @])
              \/ TenantNamespaces[t] # << >> /\ Fail

\* A name that is no value of a label leaves a nil pointer, which panics; the
\* panic is answered.
ReflectTenants ==
    /\ request.pc = "catchAll"
    /\ request.pending = {}
    /\ \/ LET sources == request.sources \cup caller.reflected
          IN  IF sources \cap LongNames # {} THEN End("error")
              ELSE Filter(IF sources = {} THEN Nothing ELSE In("tenant", sources))
       \/ Fail

-----------------------------------------------------------------------------
(* The API server's answer, and reviews. *)

\* An object is there in every version of its resource that is served.
Present(n) ==
    /\ SameKind(ResourceOf[n], request.resource) /\ objects[n] # NoObject
    /\ request.resource \in served

\* A selector narrows a collection and is ignored for a name.
Send ==
    /\ request.pc = "send" /\ request.operation # "Create"
    /\ LET shown == {n \in Names : /\ Present(n)
                                   /\ IF request.operation \in Named THEN n = request.name
                                      ELSE SelectorMatches(request.selector, Labels(n, objects[n]))}
       IN  /\ request' = [Ending("shown") EXCEPT !.shown = shown]
           /\ last' = IF /\ request.operation = "List" /\ request.steady
                         /\ ~request.resource.namespaced
                      THEN [Answer EXCEPT !.shown = shown] ELSE last
    /\ UNCHANGED world

\* A POST on a collection is sent in the same way, where no rule is for LIST:
\* the API server ignores the selector and creates an object, or refuses it.
SendCreate ==
    /\ request.pc = "send" /\ request.operation = "Create"
    /\ \/ Advance([Ending("shown") EXCEPT !.shown = {}])
       \/ /\ request.resource \in served
          /\ \E n \in Names : \E labels \in LabelSets[n] :
                /\ SameKind(ResourceOf[n], request.resource) /\ objects[n] = NoObject
                /\ objects' = [objects EXCEPT ![n] = labels]
          /\ request' = [Ending("shown") EXCEPT !.shown = {}, !.steady = FALSE]
          /\ last' = NoAnswer
          /\ UNCHANGED <<served, routes, cached, caller, writes>>

clusterResourceOperation(operation) == IF operation = "reviewList" THEN "List" ELSE "Get"

\* accessReviewGvk: the version is the one that the client has told.
Told(r, version) == [group |-> r.group, version |-> version, resource |-> r.resource]

\* Mutant: a rule for any operation grants a list.
byRulesOfAnyOperation ==
    GetClusterScopeRequirements(Told(request.resource, request.version), "Get", request.rules) # {}

byRules ==
    /\ request.operation \in {"reviewList", "reviewGet"}
    /\ GetClusterScopeRequirements(Told(request.resource, request.version),
                                   clusterResourceOperation(request.operation),
                                   request.rules) # {}

acrossNamespaces ==
    /\ request.own # {} \/ request.rules # {}
    /\ request.operation \in {"reviewList", "reviewWatch"}
    /\ \E r \in routes.catchAll : SameKind(r, request.resource)

\* A self access review; what the API server answered counts as a refusal.  That
\* a list of namespaces is always granted is left to RequestPipeline.
MutateAuthorization ==
    /\ request.pc = "review"
    /\ request.operation \in Reviews
    /\ request' = Ending("reviewed")
    /\ LET granted == acrossNamespaces \/ byRules
       IN  last' = IF /\ request.steady /\ ~request.failed
                      /\ request.resource \in routes.generic
                   THEN [Answer EXCEPT !.granted = granted] ELSE last
    /\ UNCHANGED world

\* The rules that a self rules review shows next to those of the API server.
getAllResourceRules ==
    {[apiGroups |-> rule.apiGroups, resources |-> rule.resources,
      verbs |-> {verb(op) : op \in EffectiveOperations(rule)}] : rule \in request.rules}

MutateRules ==
    /\ request.pc = "review"
    /\ request.operation = "reviewRules"
    /\ request' = Ending("reviewed")
    /\ last' = IF request.steady /\ ~request.failed
               THEN [Answer EXCEPT !.advertised = getAllResourceRules]
               ELSE last
    /\ UNCHANGED world

-----------------------------------------------------------------------------
Init ==
    /\ served = Resources
    /\ routes = registerModules
    /\ objects \in [Names -> UNION {LabelSets[n] : n \in Names}]
    /\ \A n \in Names : objects[n] \in LabelSets[n]
    /\ cached = [t \in Tenants |-> objects[t]]
    /\ caller \in Callers
    /\ request = NoRequest
    /\ last = NoAnswer
    /\ writes = 0

World == WriteObject \/ SyncTenant \/ WriteCaller \/ WriteDiscovery \/ Start

Serve ==
    \/ Collect
    \/ genericList \/ genericGet
    \/ tenantsList \/ tenantsGet
    \/ ReviewTenant \/ ReflectTenants
    \/ Send \/ SendCreate \/ MutateAuthorization \/ MutateRules \/ Return

Next ==
    \/ World
    \/ \E r \in Resources, operation \in Collection : Begin(operation, r, << >>, NoObject)
    \/ \E r \in Resources, n \in Names, operation \in Named :
          SameKind(ResourceOf[n], r) /\ Begin(operation, r, << >>, n)
    \/ \E r \in Resources, operation \in Reviews : \E version \in {<< >>, r.version} :
          Begin(operation, r, version, NoObject)
    \/ Begin("reviewRules", NoResource, << >>, NoObject)
    \/ Serve

Spec == Init /\ [][Next]_vars

-----------------------------------------------------------------------------
(* Properties. *)

\* The type invariant of the world and of the request.
TypeOK ==
    /\ served \subseteq Resources
    /\ routes.generic \subseteq Resources /\ routes.catchAll \subseteq Resources
    /\ routes.generic \cap routes.catchAll = {}
    /\ \A n \in Names : objects[n] \in LabelSets[n] \cup {NoObject}
    /\ \A t \in Tenants : cached[t] \in LabelSets[t] \cup {NoObject}
    /\ caller \in Callers
    /\ request.pc \in Ended \cup {"idle", "collect", "genericList", "genericGet", "tenantsList",
                                  "tenantsGet", "catchAll", "review", "send"}
    /\ request.pending \subseteq Tenants /\ request.sources \subseteq Tenants
    /\ request.shown \subseteq Names /\ last.shown \subseteq Names
    /\ writes \in 0..MaxWrites

\* Where the proxy keeps to the rules: every rule has at most one requirement,
\* for of several a GET asks for one (MatchesOne), and no Tenant has the name
\* that NewClusterProxy gives to GlobalProxySettings.
PlainRules ==
    /\ \A c \in Callers : \A rule \in c.rules : rule.selector # NoSelector =>
          \A req, other \in rule.selector : req = other
    /\ "global" \notin Tenants

\* By what the caller may see an object: a rule that selects it, its own
\* tenants, or a tenant where it may list resources of this kind.
Entitled(n) ==
    LET r == request.resource
        byRule == Selected(caller.rules, r, request.operation, Labels(n, objects[n]))
    IN  IF isTenants(r) THEN n \in caller.own \/ byRule
        ELSE IF r.namespaced
        THEN \/ TenantOf[n] \in caller.reflected
             \/ /\ TenantOf[n] \in caller.own
                /\ \E i \in DOMAIN TenantNamespaces[TenantOf[n]] :
                      TenantNamespaces[TenantOf[n]][i] \in caller.mayList
        ELSE byRule

\* If nothing changes under the request and the cache of tenants is up to date,
\* a filtered request shows only objects that the caller is entitled to: the
\* merged selector of a LIST, the single requirements of a GET and the reviews
\* of the catch-all module never reach further than the rules and permissions,
\* for PlainRules, also where some of the settings could not be read.
ShownIsEntitled ==
    request.pc = "shown" /\ request.steady /\ request.synced =>
        \A n \in request.shown : Entitled(n)

\* An object that a LIST has shown is found by a GET in the same version, if
\* nothing changed in between and no read of the GET failed.
ListedIsFound ==
    /\ request.pc \in {"asCaller", "notFound", "error"}
    /\ request.operation = "Get" /\ ~request.failed
    /\ last.resource = request.resource
    => request.name \notin last.shown

\* A rule names the resource, with patterns for its group or for its group and
\* version.
NamesResource(rule, r) ==
    /\ rule.resources \cap {"*", r.resource} # {}
    /\ \E pattern \in rule.apiGroups :
          \/ Glob(pattern, r.group)
          \/ /\ \E i \in DOMAIN pattern : pattern[i] = "/"
             /\ Glob(pattern, r.group \o <<"/">> \o r.version)

\* A rule is for the resource and the operation, and selects the object.
Selects(rule, r, operation, labels) ==
    /\ rule.selector # NoSelector /\ rule.selector # {}
    /\ NamesResource(rule, r)
    /\ AllowsOperation(rule, operation)
    /\ SelectorMatches(rule.selector, labels)

\* A GET of an object that a rule of the caller selects is not left to the
\* caller's own permissions, if the resource was there when the proxy started,
\* nothing changes under the request and its settings could be read: the pattern
\* matching and the match of one requirement miss nothing that the rule means.
SelectedIsServed ==
    request.pc = "asCaller" /\ request.operation = "Get" /\ request.steady /\ ~request.failed
    /\ request.resource \in routes.generic /\ objects[request.name] # NoObject =>
        ~\E rule \in caller.rules :
            Selects(rule, request.resource, "Get", Labels(request.name, objects[request.name]))

\* A rule that the validation accepts takes effect for every resource that it
\* names, in the preferred version, if the routes are those of the resources
\* that are served and the settings could be read: none of them is without a
\* route.
ValidIsServed ==
    request.pc = "asCaller" /\ request.operation \in {"List", "Get"}
    /\ request.steady /\ ~request.failed /\ routes = registerModules
    /\ request.resource \in ServerPreferred /\ ~request.resource.namespaced =>
        ~\E rule \in caller.rules :
            /\ ValidateClusterResourceBlock(rule)
            /\ matchResource(request.resource, rule)
            /\ AllowsOperation(rule, request.operation)
            /\ request.operation = "Get" =>
                  Selected({rule}, request.resource, "Get",
                           Labels(request.name, objects[request.name]))

\* The last answer is a review of what is now asked for, and the version that
\* was told makes no difference: it is the resource's, or no rule asks for one.
ReviewOf(operation) ==
    /\ last.operation = operation /\ last.resource = request.resource
    /\ \/ last.version = request.resource.version
       \/ \A rule \in caller.rules : \A pattern \in rule.apiGroups : ~Contains(pattern, "/")

\* A self review and the request it is about agree, if nothing changed in
\* between, for a resource with a generic module: a LIST is filtered by rules if
\* the review granted it and only then, an object that a GET is to show was not
\* denied, and what is filtered by rules was advertised by a rules review
\* (MutateAuthorization, list.Handle, get.Handle).  Only settings that could not
\* be read make a LIST empty that was granted.
ReviewAgrees ==
    request.pc = "send" /\ request.steady /\ request.resource \in routes.generic =>
        /\ ReviewOf("reviewList") /\ request.operation = "List" =>
              /\ last.granted /\ ~request.failed => request.selector # Nothing
              /\ request.selector # Nothing => last.granted
        /\ ReviewOf("reviewGet") /\ request.operation = "Get" => last.granted
        /\ last.operation = "reviewRules" /\ request.selector # Nothing =>
              \E rule \in last.advertised :
                  /\ matchResource(request.resource, rule)
                  /\ verb(request.operation) \in rule.verbs

=============================================================================
