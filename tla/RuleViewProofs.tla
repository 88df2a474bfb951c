--------------------------- MODULE RuleViewProofs ---------------------------
(***************************************************************************)
(* Proofs about what a Capsule user sees of cluster-scoped and namespaced  *)
(* resources, for all resources, objects, rules, tenants and callers.      *)
(*                                                                         *)
(* A request that nothing disturbs works on the caller's present rules and *)
(* tenants (Snapshot).  So what it decides can be compared with what an    *)
(* earlier LIST or review of the same rules decided, as long as nothing    *)
(* changed since (LastCurrent).                                            *)
(***************************************************************************)
EXTENDS RuleView, SelectorsProofs, TLAPS

PossibleRules == UNION {c.rules : c \in Callers}
PossibleLabels == UNION {LabelSets[n] : n \in Names}

Requests(selector) ==
    [pc : Ended \cup {"idle", "collect", "genericList", "genericGet", "tenantsList",
                      "tenantsGet", "catchAll", "review", "send"},
     operation : Collection \cup Named \cup Reviews \cup {"reviewRules"},
     resource : Resources \cup {NoResource}, name : Names \cup {NoObject},
     version : {<< >>} \cup {r.version : r \in Resources}, rules : SUBSET PossibleRules, own : SUBSET Tenants,
     pending : SUBSET Tenants, sources : SUBSET Tenants, selector : {selector},
     shown : SUBSET Names, steady : BOOLEAN, synced : BOOLEAN, failed : BOOLEAN]

\* The world, as far as the type invariant leaves it open.
WorldType ==
    /\ served \in SUBSET Resources
    /\ routes \in [generic : SUBSET {r \in Resources : ~r.namespaced /\ ~moduleGroupKindPresent(r)},
                   catchAll : SUBSET {r \in Resources : r.namespaced}]
    /\ objects \in [Names -> PossibleLabels \cup {NoObject}]
    /\ \A n \in Names : objects[n] \in LabelSets[n] \cup {NoObject}
    /\ cached \in [Tenants -> PossibleLabels \cup {NoObject}]
    /\ \A t \in Tenants : cached[t] \in LabelSets[t] \cup {NoObject}
    /\ caller \in Callers
    /\ writes \in 0..MaxWrites

\* Which requests reach which module.
Stages(r) ==
    /\ r.pc # "idle" /\ r.operation # "reviewRules" => r.resource \in Resources
    /\ r.operation \in Named => r.name \in Names /\ SameKind(ResourceOf[r.name], r.resource)
    /\ r.pc = "genericList" => r.operation \in Collection /\ r.resource \in routes.generic
    /\ r.pc = "genericGet" => r.operation \in Named /\ r.resource \in routes.generic
    /\ r.pc = "tenantsList" => r.operation = "List" /\ isTenants(r.resource)
    /\ r.pc = "tenantsGet" => r.operation = "Get" /\ isTenants(r.resource)
    /\ r.pc = "catchAll" => /\ r.operation = "List" /\ r.resource \in routes.catchAll
                            /\ ~isTenants(r.resource)
    /\ r.pc = "send" => r.operation \in {"List", "Get", "Create"}

\* The tenant has a namespace where the caller may list.
MayList(t) ==
    /\ t \in caller.own /\ TenantNamespaces[t] # << >>
    /\ TenantNamespaces[t][1] \in caller.mayList

Working == {"genericList", "genericGet", "tenantsList", "tenantsGet", "catchAll", "review"}

Snapshot(r) ==
    r.steady =>
        /\ r.pc \in Working => /\ r.rules \subseteq caller.rules /\ r.own \subseteq caller.own
                               /\ ~r.failed => r.rules = caller.rules /\ r.own = caller.own
        /\ r.pc = "catchAll" => r.pending \subseteq caller.own
        /\ r.pc \in {"collect", "catchAll"} => \A t \in r.sources : MayList(t)
        /\ r.synced => \A t \in Tenants : cached[t] = objects[t]

\* The caller's requirements for a resource.
Reqs(gvk, operation) == GetClusterScopeRequirements(gvk, operation, caller.rules)

Admits(gvk, n) == MatchesOne(Reqs(gvk, "Get"), Labels(n, objects[n]))

\* What the generic modules send.
SelectorKnown(r) ==
    r.pc = "send" /\ r.steady /\ r.resource \in routes.generic =>
        /\ r.operation = "List" =>
              /\ r.selector # Nothing => Reqs(r.resource, "List") # {}
              /\ ~r.failed /\ Reqs(r.resource, "List") # {} => r.selector # Nothing
        /\ r.operation = "Create" => r.selector = Nothing
        /\ r.operation = "Get" => Admits(r.resource, r.name)

\* A GET of the object is let through, if no read fails.
callerTenants == caller.own \cup (IF caller.rules = {} THEN {} ELSE {"global"})

Reach(r, n) ==
    IF isTenants(r)
    THEN \/ n \in callerTenants
         \/ /\ cached[n] # NoObject
            /\ MatchesOne(Reqs(tenantsGVK, "Get"), Labels(n, cached[n]))
    ELSE /\ r \in routes.generic /\ r \in served /\ objects[n] # NoObject
         /\ Admits(r, n)

\* What the API server shows of a collection.
Presents(r, n) ==
    /\ SameKind(ResourceOf[n], r.resource) /\ objects[n] # NoObject /\ r.resource \in served
    /\ SelectorMatches(r.selector, Labels(n, objects[n]))

ListReaches(r) ==
    r.pc = "send" /\ r.steady /\ r.operation = "List" /\ ~r.resource.namespaced =>
        \A n \in Names : Presents(r, n) => Reach(r.resource, n)

\* What is left to the caller's own permissions.
LeftToCaller(r) ==
    r.pc = "asCaller" /\ r.steady =>
        /\ r.operation \in {"List", "Get"} => ~isTenants(r.resource)
        /\ r.operation = "List" => r.resource \notin routes.generic
        /\ r.operation = "Get" /\ r.resource \in routes.generic /\ ~r.failed =>
              ~Admits(r.resource, r.name)

RequestInv(r) ==
    /\ Stages(r) /\ Snapshot(r) /\ SelectorKnown(r) /\ ListReaches(r) /\ LeftToCaller(r)

\* What the last LIST or review answered is from the present state.
Advertised ==
    {[apiGroups |-> rule.apiGroups, resources |-> rule.resources,
      verbs |-> {verb(op) : op \in EffectiveOperations(rule)}] : rule \in caller.rules}

LastCurrent ==
    /\ last.shown \subseteq Names
    /\ last.shown # {} => last.operation = "List"
    /\ \A n \in last.shown : Reach(last.resource, n)
    /\ last.operation = "reviewList" =>
          (last.granted <=> Reqs(Told(last.resource, last.version), "List") # {})
    /\ last.operation = "reviewGet" =>
          (Reqs(Told(last.resource, last.version), "Get") # {} => last.granted)
    /\ last.operation = "reviewRules" => last.advertised = Advertised
    /\ last.operation # "none" => request.pc = "idle" \/ request.steady

\* The inductive invariant.
IndInv ==
    /\ WorldType
    /\ request \in Requests(request.selector)
    /\ RequestInv(request)
    /\ LastCurrent
    /\ ListedIsFound

-----------------------------------------------------------------------------
(* Steps that leave the world alone, and steps of the world. *)

LEMMA SameWorld ==
    ASSUME UNCHANGED world
    PROVE  /\ \A t : MayList(t)' = MayList(t)
           /\ \A gvk, op : Reqs(gvk, op)' = Reqs(gvk, op)
           /\ \A gvk, n : Admits(gvk, n)' = Admits(gvk, n)
           /\ \A r, n : Reach(r, n)' = Reach(r, n)
           /\ \A r, n : Presents(r, n)' = Presents(r, n)
           /\ Advertised' = Advertised
<1> USE DEF world
<1>1. \A gvk, op : Reqs(gvk, op)' = Reqs(gvk, op)
    BY DEF Reqs
<1>2. \A gvk, n : Admits(gvk, n)' = Admits(gvk, n)
    BY <1>1 DEF Admits
<1>3. \A r, n : Reach(r, n)' = Reach(r, n)
    BY <1>1, <1>2 DEF Reach, callerTenants
<1>4. \A t : MayList(t)' = MayList(t)
    BY DEF MayList
<1>5. \A r, n : Presents(r, n)' = Presents(r, n)
    BY DEF Presents
<1>6. Advertised' = Advertised
    BY DEF Advertised
<1>7. QED
    BY <1>1, <1>2, <1>3, <1>4, <1>5, <1>6

\* A step of the request alone keeps the invariant if the next request has it.
LEMMA RequestKept ==
    ASSUME UNCHANGED world, NEW r, request' = r, RequestInv(r)
    PROVE  RequestInv(request)'
<1> USE SameWorld DEF world
<1>1. Stages(request)'
    BY DEF RequestInv, Stages
<1>2. Snapshot(request)'
    BY DEF RequestInv, Snapshot
<1>3. SelectorKnown(request)'
    BY DEF RequestInv, SelectorKnown
<1>4. ListReaches(request)'
    BY DEF RequestInv, ListReaches
<1>5. LeftToCaller(request)'
    BY DEF RequestInv, LeftToCaller
<1>6. QED
    BY <1>1, <1>2, <1>3, <1>4, <1>5 DEF RequestInv

\* After a change, nothing is claimed of the last answer.
LEMMA NothingKnown ==
    ASSUME last' = NoAnswer
    PROVE  LastCurrent' /\ ListedIsFound'
<1>1. last'.shown = {} /\ last'.operation = "none"
    BY DEF NoAnswer
<1>2. QED
    BY <1>1 DEF LastCurrent, ListedIsFound

\* Fewer rules have fewer requirements.
LEMMA FewerReqs ==
    ASSUME NEW gvk, NEW operation, NEW rules, rules \subseteq caller.rules
    PROVE  GetClusterScopeRequirements(gvk, operation, rules) \subseteq Reqs(gvk, operation)
    BY DEF Reqs, GetClusterScopeRequirements

LEMMA Unsteady ==
    ASSUME IndInv, Changed, UNCHANGED routes
    PROVE  /\ (request \in Requests(request.selector))' /\ RequestInv(request)'
           /\ LastCurrent' /\ ListedIsFound' /\ ~request'.steady
<1>1. (request \in Requests(request.selector))'
    BY DEF IndInv, Changed, Requests
<1>2. /\ ~request'.steady /\ request'.pc = request.pc /\ request'.operation = request.operation
      /\ request'.name = request.name /\ request'.resource = request.resource
    BY DEF IndInv, Changed, Requests
<1>3. Stages(request)'
    BY <1>2 DEF IndInv, RequestInv, Stages
<1>4. /\ Snapshot(request)' /\ SelectorKnown(request)' /\ ListReaches(request)'
      /\ LeftToCaller(request)'
    BY <1>2 DEF Snapshot, SelectorKnown, ListReaches, LeftToCaller
<1>5. LastCurrent' /\ ListedIsFound'
    BY NothingKnown DEF Changed
<1>6. QED
    BY <1>1, <1>2, <1>3, <1>4, <1>5 DEF RequestInv

\* The proxy starts without a request.
LEMMA NoRequestInv ==
    /\ NoRequest \in Requests(NoSelector) /\ NoRequest.selector = NoSelector
    /\ NoRequest.pc = "idle" /\ NoRequest.operation = "List" /\ RequestInv(NoRequest)
<1>1. NoRequest \in Requests(NoSelector)
    BY DEF NoRequest, Requests, Collection
<1>2. /\ NoRequest.pc = "idle" /\ NoRequest.operation = "List" /\ NoRequest.selector = NoSelector
      /\ NoRequest.steady = FALSE
    BY DEF NoRequest
<1>3. RequestInv(NoRequest)
    BY <1>2 DEF RequestInv, Stages, Snapshot, SelectorKnown, ListReaches, LeftToCaller, Named
<1>4. QED
    BY <1>1, <1>2, <1>3

LEMMA RoutesType ==
    ASSUME served \in SUBSET Resources
    PROVE  registerModules \in
               [generic : SUBSET {r \in Resources : ~r.namespaced /\ ~moduleGroupKindPresent(r)},
                catchAll : SUBSET {r \in Resources : r.namespaced}]
    BY DEF registerModules, serverPreferredResources, discoverAPI, ServerPreferred

LEMMA InitIndInv == Init => IndInv
<1> SUFFICES ASSUME Init PROVE IndInv
    OBVIOUS
<1>1. served \in SUBSET Resources
    BY DEF Init
<1>2. WorldType
    <2>1. Tenants \subseteq Names
        BY ResourcesAssumption
    <2>2. QED
        BY <1>1, <2>1, RoutesType, RuleViewAssumption DEF Init, WorldType, PossibleLabels
<1>3. request \in Requests(request.selector) /\ RequestInv(request)
    BY NoRequestInv DEF Init
<1>4. LastCurrent /\ ListedIsFound
    BY DEF Init, LastCurrent, ListedIsFound, NoAnswer
<1>5. QED
    BY <1>2, <1>3, <1>4 DEF IndInv

LEMMA WorldStep ==
    ASSUME IndInv, World
    PROVE  IndInv'
<1> USE DEF IndInv, WorldType
<1>0. Tenants \subseteq Names
    BY ResourcesAssumption
<1>1. CASE WriteObject
    <2>1. WorldType'
        BY <1>1, RuleViewAssumption DEF WriteObject, Write, PossibleLabels
    <2>2. QED
        BY <1>1, <2>1, Unsteady DEF WriteObject, Write
<1>2. CASE SyncTenant
    <2>1. WorldType'
        BY <1>0, <1>2 DEF SyncTenant
    <2>2. QED
        BY <1>2, <2>1, Unsteady DEF SyncTenant
<1>3. CASE WriteCaller
    <2>1. WorldType'
        BY <1>3, RuleViewAssumption DEF WriteCaller, Write
    <2>2. QED
        BY <1>3, <2>1, Unsteady DEF WriteCaller, Write
<1>4. CASE WriteDiscovery
    <2>1. WorldType'
        BY <1>4, RuleViewAssumption DEF WriteDiscovery, Write
    <2>2. QED
        BY <1>4, <2>1, Unsteady DEF WriteDiscovery, Write
<1>5. CASE Start
    <2>1. WorldType'
        BY <1>5, RoutesType DEF Start
    <2>2. (request \in Requests(request.selector))'
        BY <1>5, NoRequestInv DEF Start
    <2>3. RequestInv(request)'
        <3>1. /\ request'.pc = "idle" /\ request'.operation = "List" /\ request'.steady = FALSE
            BY <1>5 DEF Start, NoRequest
        <3>2. QED
            BY <3>1
               DEF RequestInv, Stages, Snapshot, SelectorKnown, ListReaches, LeftToCaller, Named
    <2>4. LastCurrent' /\ ListedIsFound'
        BY <1>5, NothingKnown DEF Start
    <2>5. QED
        BY <2>1, <2>2, <2>3, <2>4
<1>6. QED
    BY <1>1, <1>2, <1>3, <1>4, <1>5 DEF World

\* The invariant after a step of the request, from what it is afterwards.
LEMMA RequestStep ==
    ASSUME IndInv, UNCHANGED world, last' = last \/ last' = NoAnswer,
           NEW r, r \in Requests(r.selector), request' = r, RequestInv(r),
           request.pc = "idle" \/ request.steady => r.pc = "idle" \/ r.steady,
           r.pc \in {"asCaller", "notFound", "error"} /\ r.operation = "Get" /\ ~r.failed
           /\ last.resource = r.resource => r.name \notin last.shown
    PROVE  IndInv'
<1>1. WorldType'
    BY DEF IndInv, WorldType, world
<1>2. RequestInv(request)'
    BY RequestKept
<1>3. CASE last' = NoAnswer
    BY <1>1, <1>2, <1>3, NothingKnown DEF IndInv
<1>4. CASE last' = last
    <2>1. LastCurrent'
        BY <1>4, SameWorld DEF IndInv, LastCurrent, world
    <2>2. ListedIsFound'
        BY <1>4 DEF ListedIsFound
    <2>3. QED
        BY <1>1, <1>2, <2>1, <2>2 DEF IndInv
<1>5. QED
    BY <1>3, <1>4

-----------------------------------------------------------------------------
(* The beginning and the end of a request. *)

LEMMA BeginStep ==
    ASSUME IndInv,
           NEW operation \in Collection \cup Named \cup Reviews \cup {"reviewRules"},
           NEW resource \in Resources \cup {NoResource}, NEW name \in Names \cup {NoObject},
           NEW version \in {<< >>} \cup {r.version : r \in Resources},
           operation # "reviewRules" => resource \in Resources,
           operation \in Named => name \in Names /\ SameKind(ResourceOf[name], resource),
           Begin(operation, resource, version, name)
    PROVE  IndInv'
<1>1. PICK r : r = [NoRequest EXCEPT !.pc = "collect", !.operation = operation,
                                     !.resource = resource, !.version = version,
                                     !.name = name, !.steady = TRUE,
                                     !.synced = \A t \in Tenants : cached[t] = objects[t]]
    OBVIOUS
<1>2. /\ r.pc = "collect" /\ r.operation = operation /\ r.resource = resource /\ r.name = name
      /\ r.steady = TRUE /\ r.synced = (\A t \in Tenants : cached[t] = objects[t])
      /\ r.selector = NoSelector /\ r.sources = {}
    BY <1>1 DEF NoRequest
<1>3. r \in Requests(r.selector)
    <2>1. PICK synced \in BOOLEAN : synced = (\A t \in Tenants : cached[t] = objects[t])
        OBVIOUS
    <2>2. r = [NoRequest EXCEPT !.pc = "collect", !.operation = operation, !.resource = resource,
                                !.version = version, !.name = name, !.steady = TRUE,
                                !.synced = synced]
        BY <1>1, <2>1
    <2>3. QED
        BY <1>2, <2>2, NoRequestInv DEF Requests
<1>4. Stages(r)
    BY <1>2 DEF Stages
<1>5. Snapshot(r) /\ SelectorKnown(r) /\ ListReaches(r) /\ LeftToCaller(r)
    BY <1>2 DEF Snapshot, SelectorKnown, ListReaches, LeftToCaller, Working
<1>6. RequestInv(r)
    BY <1>4, <1>5 DEF RequestInv
<1>7. request' = r /\ UNCHANGED world /\ (last' = last \/ last' = NoAnswer)
    BY <1>1 DEF Begin
<1>8. QED
    BY <1>2, <1>3, <1>6, <1>7, RequestStep

LEMMA ReturnStep ==
    ASSUME IndInv, Return
    PROVE  IndInv'
<1>1. request' = NoRequest /\ UNCHANGED <<world, last>>
    BY DEF Return, Advance
<1>2. QED
    BY <1>1, NoRequestInv, RequestStep

\* A request that has ended.
LEMMA EndStep ==
    ASSUME IndInv, request.pc # "idle", UNCHANGED <<world, last>>,
           NEW pc \in {"asCaller", "notFound", "error"}, NEW failed \in BOOLEAN,
           request' = [Ending(pc) EXCEPT !.failed = failed],
           pc = "asCaller" /\ request.steady =>
               /\ request.operation \in {"List", "Get"} => ~isTenants(request.resource)
               /\ request.operation = "List" => request.resource \notin routes.generic
               /\ request.operation = "Get" /\ request.resource \in routes.generic /\ ~failed =>
                     ~Admits(request.resource, request.name),
           request.steady /\ request.operation = "Get" /\ ~failed =>
               ~Reach(request.resource, request.name)
    PROVE  IndInv'
<1>1. PICK r : r = [Ending(pc) EXCEPT !.failed = failed]
    OBVIOUS
<1>2. /\ r.pc = pc /\ r.operation = request.operation /\ r.resource = request.resource
      /\ r.name = request.name /\ r.steady = request.steady /\ r.synced = request.synced
      /\ r.failed = failed /\ r.selector = NoSelector
    BY <1>1 DEF IndInv, Requests, Ending
<1>3. r \in Requests(r.selector)
    BY <1>1, <1>2 DEF IndInv, Requests, Ended, Ending
<1>4. Stages(r)
    BY <1>2 DEF IndInv, RequestInv, Stages
<1>5. Snapshot(r)
    BY <1>2 DEF IndInv, RequestInv, Snapshot, Working
<1>6. SelectorKnown(r) /\ ListReaches(r) /\ LeftToCaller(r)
    BY <1>2 DEF SelectorKnown, ListReaches, LeftToCaller
<1>7. RequestInv(r)
    BY <1>4, <1>5, <1>6 DEF RequestInv
<1>8. r.operation = "Get" /\ ~r.failed /\ last.resource = r.resource => r.name \notin last.shown
    BY <1>2 DEF IndInv, LastCurrent
<1>9. QED
    BY <1>1, <1>2, <1>3, <1>7, <1>8, RequestStep

LEMMA LeftStep ==
    ASSUME IndInv, request.pc # "idle",
           NEW pc \in {"asCaller", "notFound", "error"}, End(pc),
           pc = "asCaller" /\ request.steady =>
               /\ request.operation \in {"List", "Get"} => ~isTenants(request.resource)
               /\ request.operation = "List" => request.resource \notin routes.generic
               /\ request.operation = "Get" /\ request.resource \in routes.generic
                  /\ ~request.failed => ~Admits(request.resource, request.name),
           request.steady /\ request.operation = "Get" /\ ~request.failed =>
               ~Reach(request.resource, request.name)
    PROVE  IndInv'
<1>1. PICK failed \in BOOLEAN : failed = request.failed
    BY DEF IndInv, Requests
<1>2. /\ request' = [Ending(pc) EXCEPT !.failed = failed]
      /\ UNCHANGED <<world, last>>
    BY <1>1 DEF End, Advance, Ending, IndInv, Requests
<1>3. QED
    BY <1>1, <1>2, EndStep

LEMMA FailStep ==
    ASSUME IndInv, request.pc # "idle", Fail
    PROVE  IndInv'
<1>1. PICK pc \in {"asCaller", "notFound", "error"} : pc = "error"
    OBVIOUS
<1>2. PICK failed \in BOOLEAN : failed = TRUE
    OBVIOUS
<1>3. /\ request' = [Ending(pc) EXCEPT !.failed = failed]
      /\ UNCHANGED <<world, last>>
    BY <1>1, <1>2 DEF Fail, Advance
<1>4. QED
    BY <1>1, <1>2, <1>3, EndStep

\* Where the router leads.
LEMMA Routing ==
    ASSUME IndInv
    PROVE  /\ Route \in {"review", "tenantsList", "tenantsGet", "genericList", "genericGet",
                         "catchAll", "asCaller"}
           /\ Route = "genericList" => /\ request.operation \in Collection
                                       /\ request.resource \in routes.generic
           /\ Route = "genericGet" => /\ request.operation \in Named
                                      /\ request.resource \in routes.generic
           /\ Route = "tenantsList" => request.operation = "List" /\ isTenants(request.resource)
           /\ Route = "tenantsGet" => request.operation = "Get" /\ isTenants(request.resource)
           /\ Route = "catchAll" =>
                 /\ request.operation = "List" /\ request.resource \in routes.catchAll
                 /\ ~isTenants(request.resource)
           /\ Route = "asCaller" /\ request.operation \in {"List", "Get"} =>
                 ~isTenants(request.resource) /\ request.resource \notin routes.generic
<1>1. request.operation \in Collection \cup Named \cup Reviews \cup {"reviewRules"}
    BY DEF IndInv, Requests
<1>2. QED
    BY <1>1 DEF Route, Collection, Named, Reviews

\* What a request has collected, which is everything if no read failed.
LEMMA Collecting ==
    ASSUME IndInv, Collect, ~Fail
    PROVE  \E rules \in SUBSET caller.rules, own \in SUBSET caller.own, failed \in BOOLEAN :
              /\ ~failed => rules = caller.rules /\ own = caller.own
              /\ Collected(rules, own, failed)
<1>1. CASE Collected(caller.rules, caller.own, FALSE)
    BY <1>1
<1>2. CASE \E rules \in SUBSET caller.rules, own \in SUBSET caller.own : Collected(rules, own, TRUE)
    BY <1>2
<1>3. QED
    BY <1>1, <1>2 DEF Collect

LEMMA CollectStep ==
    ASSUME IndInv, Collect
    PROVE  IndInv'
<1>1. request.pc = "collect"
    BY DEF Collect
<1>2. CASE Fail
    BY <1>1, <1>2, FailStep
<1>3. CASE ~Fail
    <2>1. PICK rules \in SUBSET caller.rules, own \in SUBSET caller.own, failed \in BOOLEAN :
              /\ ~failed => rules = caller.rules /\ own = caller.own
              /\ Collected(rules, own, failed)
        BY <1>3, Collecting
    <2>2. PICK route : route = Route
        OBVIOUS
    <2>3. CASE route = "asCaller"
        <3>1. PICK pc \in {"asCaller", "notFound", "error"} : pc = route
            BY <2>3
        <3>2. request' = [Ending(pc) EXCEPT !.failed = failed] /\ UNCHANGED <<world, last>>
            BY <2>1, <2>2, <2>3, <3>1 DEF Collected, Advance
        <3>3. request.operation \in {"List", "Get"} =>
                  ~isTenants(request.resource) /\ request.resource \notin routes.generic
            BY <2>2, <2>3, Routing
        <3>4. request.operation = "Get" => ~Reach(request.resource, request.name)
            BY <3>3 DEF Reach
        <3>5. QED
            BY <1>1, <3>2, <3>3, <3>4, EndStep
    <2>4. CASE route # "asCaller"
        <3>1. PICK r : r = [request EXCEPT !.pc = route, !.rules = rules, !.own = own,
                                           !.pending = own, !.failed = failed]
            OBVIOUS
        <3>2. request' = r /\ UNCHANGED <<world, last>>
            BY <2>1, <2>2, <2>4, <3>1 DEF Collected, Advance
        <3>3. /\ r.pc = route /\ r.operation = request.operation /\ r.resource = request.resource
              /\ r.name = request.name /\ r.steady = request.steady /\ r.synced = request.synced
              /\ r.rules = rules /\ r.own = own /\ r.pending = own /\ r.failed = failed
              /\ r.sources = request.sources /\ r.selector = request.selector
            BY <3>1 DEF IndInv, Requests
        <3>4. rules \in SUBSET PossibleRules /\ own \in SUBSET Tenants
            BY RuleViewAssumption DEF IndInv, WorldType, PossibleRules
        <3>5. r \in Requests(r.selector)
            <4>1. route \in Ended \cup {"idle", "collect", "genericList", "genericGet",
                                        "tenantsList", "tenantsGet", "catchAll", "review", "send"}
                BY <2>2, Routing DEF Ended
            <4>2. QED
                BY <3>1, <3>3, <3>4, <4>1 DEF IndInv, Requests
        <3>6. Stages(r)
            BY <1>1, <2>2, <3>3, Routing DEF IndInv, RequestInv, Stages
        <3>7. Snapshot(r)
            BY <1>1, <2>1, <3>3 DEF IndInv, RequestInv, Snapshot
        <3>8. SelectorKnown(r) /\ ListReaches(r) /\ LeftToCaller(r)
            BY <2>2, <2>4, <3>3, Routing DEF SelectorKnown, ListReaches, LeftToCaller
        <3>9. RequestInv(r)
            BY <3>6, <3>7, <3>8 DEF RequestInv
        <3>10. r.pc \notin {"asCaller", "notFound", "error"}
            BY <2>2, <2>4, <3>3, Routing
        <3>11. QED
            BY <1>1, <3>2, <3>3, <3>5, <3>9, <3>10, RequestStep
    <2>5. QED
        BY <2>3, <2>4
<1>4. QED
    BY <1>2, <1>3

-----------------------------------------------------------------------------
(* Labels and selectors. *)

LEMMA LabelValues ==
    ASSUME NEW n, NEW obj
    PROVE  /\ Labels(n, obj)["dontexistsignoreme"] = NoLabel
           /\ Labels(n, obj)["tenant"] = TenantOf[n]
           /\ n \in Tenants => Labels(n, obj)["metadata.name"] \in {n, NoLabel}
<1>1. /\ "metadata.name" \notin Keys /\ "tenant" \notin Keys /\ "dontexistsignoreme" \notin Keys
    BY LabelsAssumption
<1>2. Labels(n, obj)["dontexistsignoreme"] = NoLabel
    BY <1>1 DEF Labels
<1>3. Labels(n, obj)["tenant"] = TenantOf[n]
    BY <1>1 DEF Labels
<1>4. n \in Tenants => Labels(n, obj)["metadata.name"] \in {n, NoLabel}
    BY <1>1 DEF Labels
<1>5. QED
    BY <1>2, <1>3, <1>4

\* No object has the label that stands for nothing.
LEMMA NothingMatches ==
    ASSUME NEW n, NEW obj
    PROVE  ~SelectorMatches(Nothing, Labels(n, obj))
<1>1. PICK req : req = [key |-> "dontexistsignoreme", operator |-> "Exists", values |-> {}]
    OBVIOUS
<1>2. req.key = "dontexistsignoreme" /\ req.operator = "Exists" /\ req \in Nothing
    BY <1>1 DEF Nothing
<1>3. ~Matches(req, Labels(n, obj))
    BY <1>2, LabelValues DEF Matches
<1>4. QED
    BY <1>2, <1>3 DEF SelectorMatches

LEMMA InMatches ==
    ASSUME NEW key, NEW values, NEW labels, SelectorMatches(In(key, values), labels)
    PROVE  labels[key] \in values
<1>1. PICK req : req = [key |-> key, operator |-> "In", values |-> values]
    OBVIOUS
<1>2. req.key = key /\ req.operator = "In" /\ req.values = values /\ req \in In(key, values)
    BY <1>1 DEF In
<1>3. QED
    BY <1>2 DEF SelectorMatches, Matches

\* A selector made of rules is not the one that stands for nothing.
LEMMA RulesAreNotNothing ==
    ASSUME IndInv, NEW gvk, NEW operation, NEW reqs, reqs # {}, reqs \subseteq Reqs(gvk, operation)
    PROVE  HandleListSelector(reqs) # Nothing
<1>1. PICK req \in reqs : TRUE
    OBVIOUS
<1>2. PICK rule \in caller.rules : rule.selector # NoSelector /\ req \in rule.selector
    BY <1>1 DEF Reqs, GetClusterScopeRequirements
<1>3. req.key # "dontexistsignoreme"
    BY <1>2, LabelsAssumption DEF IndInv, WorldType
<1>4. PICK values : [key |-> req.key, operator |-> req.operator, values |-> values]
                        \in HandleListSelector(reqs)
    BY <1>1 DEF HandleListSelector
<1>5. QED
    BY <1>3, <1>4 DEF Nothing

-----------------------------------------------------------------------------
(* The modules. *)

\* A module sends the request, under the proxy's token.
LEMMA SentStep ==
    ASSUME IndInv, request.pc \in Working, NEW selector, Filter(selector),
           request.operation \in {"List", "Get", "Create"},
           request.steady /\ request.resource \in routes.generic =>
               /\ request.operation = "List" =>
                     /\ selector # Nothing => Reqs(request.resource, "List") # {}
                     /\ ~request.failed /\ Reqs(request.resource, "List") # {} =>
                           selector # Nothing
               /\ request.operation = "Create" => selector = Nothing
               /\ request.operation = "Get" => Admits(request.resource, request.name),
           request.steady /\ request.operation = "List" /\ ~request.resource.namespaced =>
               \A n \in Names :
                   /\ SameKind(ResourceOf[n], request.resource) /\ objects[n] # NoObject
                   /\ request.resource \in served
                   /\ SelectorMatches(selector, Labels(n, objects[n]))
                   => Reach(request.resource, n)
    PROVE  IndInv'
<1>1. PICK r : r = [request EXCEPT !.pc = "send", !.selector = selector]
    OBVIOUS
<1>2. request' = r /\ UNCHANGED <<world, last>>
    BY <1>1 DEF Filter, Advance
<1>3. /\ r.pc = "send" /\ r.operation = request.operation /\ r.resource = request.resource
      /\ r.name = request.name /\ r.steady = request.steady /\ r.synced = request.synced
      /\ r.failed = request.failed /\ r.selector = selector
    BY <1>1 DEF IndInv, Requests
<1>4. r \in Requests(r.selector)
    BY <1>1, <1>3 DEF IndInv, Requests
<1>5. Stages(r)
    BY <1>3 DEF IndInv, RequestInv, Stages, Working
<1>6. Snapshot(r) /\ LeftToCaller(r)
    BY <1>3 DEF IndInv, RequestInv, Snapshot, LeftToCaller, Working
<1>7. SelectorKnown(r)
    BY <1>3 DEF SelectorKnown
<1>8. ListReaches(r)
    BY <1>3 DEF ListReaches, Presents
<1>9. RequestInv(r)
    BY <1>5, <1>6, <1>7, <1>8 DEF RequestInv
<1>10. QED
    BY <1>2, <1>3, <1>4, <1>9, RequestStep DEF Working

\* Resources with a generic module are neither tenants nor namespaced.
LEMMA GenericResources ==
    ASSUME IndInv, NEW r \in routes.generic
    PROVE  ~isTenants(r) /\ ~r.namespaced /\ r \notin routes.catchAll /\ r \in Resources
    BY DEF IndInv, WorldType, moduleGroupKindPresent, isTenants

\* The requirements of a request are among those of the caller.
LEMMA RequirementsKnown ==
    ASSUME IndInv, request.pc \in Working, request.steady, NEW operation, NEW gvk
    PROVE  LET reqs == GetClusterScopeRequirements(gvk, operation, request.rules)
           IN  /\ reqs \subseteq Reqs(gvk, operation)
               /\ ~request.failed => reqs = Reqs(gvk, operation)
<1>1. /\ request.rules \subseteq caller.rules
      /\ ~request.failed => request.rules = caller.rules
    BY DEF IndInv, RequestInv, Snapshot
<1>2. QED
    BY <1>1, FewerReqs DEF Reqs

\* The versions of a resource are all namespaced or none is.
LEMMA OneScope ==
    ASSUME IndInv, NEW r \in routes.catchAll, NEW s \in routes.generic
    PROVE  ~SameKind(r, s)
    BY ResourcesAssumption DEF IndInv, WorldType

LEMMA genericListStep ==
    ASSUME IndInv, genericList
    PROVE  IndInv'
<1>1. PICK reqs : reqs = Requirements("List")
    OBVIOUS
<1>2. request.pc = "genericList" /\ request.pc \in Working
    BY DEF genericList, Working
<1>3. request.operation \in Collection /\ request.resource \in routes.generic
    BY <1>2 DEF IndInv, RequestInv, Stages
<1>4. request.steady => /\ reqs \subseteq Reqs(request.resource, "List")
                        /\ ~request.failed => reqs = Reqs(request.resource, "List")
    BY <1>1, <1>2, RequirementsKnown DEF Requirements
<1>5. CASE reqs = {} /\ Filter(Nothing)
    BY <1>2, <1>3, <1>4, <1>5, NothingMatches, SentStep DEF Collection
<1>6. CASE reqs # {} /\ request.operation = "List" /\ Filter(HandleListSelector(reqs))
    <2>1. PICK selector : selector = HandleListSelector(reqs)
        OBVIOUS
    <2>2. ASSUME request.steady, NEW n \in Names, objects[n] # NoObject,
                 request.resource \in served, SelectorMatches(selector, Labels(n, objects[n]))
          PROVE  Reach(request.resource, n)
        <3>1. MatchesOne(GetClusterScopeRequirements(request.resource, "Get", request.rules),
                         Labels(n, objects[n]))
            BY <1>1, <1>6, <2>1, <2>2, ListImpliesGet DEF Requirements
        <3>2. MatchesOne(Reqs(request.resource, "Get"), Labels(n, objects[n]))
            BY <1>2, <2>2, <3>1, RequirementsKnown DEF MatchesOne
        <3>3. QED
            BY <1>3, <2>2, <3>2, GenericResources DEF Reach, Admits
    <2>3. request.steady => selector # Nothing /\ Reqs(request.resource, "List") # {}
        BY <1>4, <1>6, <2>1, RulesAreNotNothing
    <2>4. QED
        BY <1>2, <1>6, <2>1, <2>2, <2>3, SentStep
<1>7. CASE request.operation # "List" /\ End("asCaller")
    <2>1. request.operation = "Create"
        BY <1>3, <1>7 DEF Collection
    <2>2. QED
        BY <1>2, <1>7, <2>1, LeftStep
<1>8. QED
    BY <1>1, <1>5, <1>6, <1>7 DEF genericList

LEMMA genericGetStep ==
    ASSUME IndInv, genericGet
    PROVE  IndInv'
<1>1. PICK reqs : reqs = Requirements("Get")
    OBVIOUS
<1>2. request.pc = "genericGet" /\ request.pc \in Working
    BY DEF genericGet, Working
<1>3. /\ request.operation \in Named /\ request.resource \in routes.generic
      /\ ~isTenants(request.resource)
    BY <1>2, GenericResources DEF IndInv, RequestInv, Stages
<1>4. request.steady => /\ reqs \subseteq Reqs(request.resource, "Get")
                        /\ ~request.failed => reqs = Reqs(request.resource, "Get")
    BY <1>1, <1>2, RequirementsKnown DEF Requirements
<1>5. Reach(request.resource, request.name) =>
          /\ request.resource \in served /\ objects[request.name] # NoObject
          /\ Admits(request.resource, request.name)
    BY <1>3 DEF Reach
<1>6. CASE Fail
    BY <1>2, <1>6, FailStep
<1>7. CASE (reqs = {} \/ request.operation # "Get") /\ End("asCaller")
    <2>1. request.steady /\ request.operation = "Get" /\ ~request.failed =>
              ~Admits(request.resource, request.name)
        BY <1>4, <1>7 DEF Admits, MatchesOne
    <2>2. request.operation # "List"
        BY <1>3 DEF Named
    <2>3. QED
        BY <1>2, <1>3, <1>5, <1>7, <2>1, <2>2, LeftStep
<1>8. CASE request.resource \notin served /\ End("error")
    BY <1>2, <1>5, <1>8, LeftStep
<1>9. CASE objects[request.name] = NoObject /\ End("notFound")
    BY <1>2, <1>5, <1>9, LeftStep
<1>10. CASE /\ MatchesOne(reqs, Labels(request.name, objects[request.name])) /\ Filter({})
            /\ request.operation = "Get"
    <2>1. request.steady => Admits(request.resource, request.name)
        BY <1>4, <1>10 DEF Admits, MatchesOne
    <2>2. QED
        BY <1>2, <1>10, <2>1, SentStep
<1>11. CASE /\ ~MatchesOne(reqs, Labels(request.name, objects[request.name]))
            /\ End("asCaller")
    <2>1. request.steady /\ ~request.failed => ~Admits(request.resource, request.name)
        BY <1>4, <1>11 DEF Admits
    <2>2. request.operation # "List"
        BY <1>3 DEF Named
    <2>3. QED
        BY <1>2, <1>3, <1>5, <1>11, <2>1, <2>2, LeftStep
<1>12. QED
    BY <1>1, <1>6, <1>7, <1>8, <1>9, <1>10, <1>11 DEF genericGet

\* The names that a LIST of tenants is narrowed to are those that GET lets through.
LEMMA TenantNamesReach ==
    ASSUME IndInv, request.steady, request.pc = "tenantsList", NEW r, isTenants(r),
           NEW n \in userTenants \cup clusterScopedTenantNames(TenantRequirements("List"))
    PROVE  Reach(r, n)
<1>1. request.rules \subseteq caller.rules /\ request.own \subseteq caller.own
    BY DEF IndInv, RequestInv, Snapshot, Working
<1>2. CASE n \in userTenants
    BY <1>1, <1>2 DEF userTenants, Reach, callerTenants
<1>3. CASE n \in clusterScopedTenantNames(TenantRequirements("List"))
    <2>1. PICK reqs : reqs = TenantRequirements("List")
        OBVIOUS
    <2>2. /\ reqs # {} /\ cached[n] # NoObject
          /\ SelectorMatches(HandleListSelector(reqs), Labels(n, cached[n]))
        BY <1>3, <2>1 DEF clusterScopedTenantNames
    <2>3. MatchesOne(GetClusterScopeRequirements(tenantsGVK, "Get", request.rules),
                     Labels(n, cached[n]))
        BY <2>1, <2>2, ListImpliesGet DEF TenantRequirements
    <2>4. MatchesOne(Reqs(tenantsGVK, "Get"), Labels(n, cached[n]))
        BY <1>1, <2>3, FewerReqs DEF MatchesOne
    <2>5. QED
        BY <2>2, <2>4 DEF Reach
<1>4. QED
    BY <1>2, <1>3

\* A tenant that the API server shows for the label of its name has one of the
\* names that were asked for.
LEMMA LabelledTenant ==
    ASSUME IndInv, NEW n \in Tenants, NEW obj, NEW reqs, NEW names,
           names = userTenants \cup clusterScopedTenantNames(reqs),
           SelectorMatches(IF names = {} THEN Nothing ELSE In("metadata.name", names),
                           Labels(n, obj))
    PROVE  n \in names
<1>1. Labels(n, obj)["metadata.name"] \in names
    BY NothingMatches, InMatches
<1>2. Labels(n, obj)["metadata.name"] \in {n, NoLabel}
    BY LabelValues
<1>3. names \subseteq Tenants \cup {"global"}
    BY DEF userTenants, clusterScopedTenantNames, IndInv, Requests
<1>4. QED
    BY <1>1, <1>2, <1>3, RuleViewAssumption

\* A tenant is a tenant in every version.
LEMMA TenantKind ==
    ASSUME NEW n \in Names, NEW r, isTenants(r), SameKind(ResourceOf[n], r)
    PROVE  n \in Tenants
    BY ResourcesAssumption DEF isTenants, SameKind

LEMMA tenantsListStep ==
    ASSUME IndInv, tenantsList
    PROVE  IndInv'
<1>1. PICK names : names = userTenants \cup clusterScopedTenantNames(TenantRequirements("List"))
    OBVIOUS
<1>2. PICK selector : selector = IF names = {} THEN Nothing ELSE In("metadata.name", names)
    OBVIOUS
<1>3. request.pc = "tenantsList"
    BY DEF tenantsList
<1>4. request.operation = "List" /\ isTenants(request.resource)
    BY <1>3 DEF IndInv, RequestInv, Stages
<1>5. CASE Fail
    BY <1>3, <1>5, FailStep
<1>6. CASE Filter(selector)
    <2>1. request.resource \notin routes.generic
        BY <1>4, GenericResources
    <2>2. ASSUME request.steady, NEW n \in Names, SameKind(ResourceOf[n], request.resource),
                 SelectorMatches(selector, Labels(n, objects[n]))
          PROVE  Reach(request.resource, n)
        <3>1. n \in Tenants
            BY <1>4, <2>2, TenantKind
        <3>2. n \in names
            BY <1>1, <1>2, <2>2, <3>1, LabelledTenant
        <3>3. QED
            BY <1>1, <1>3, <1>4, <2>2, <3>2, TenantNamesReach
    <2>3. request.pc \in Working
        BY <1>3 DEF Working
    <2>4. QED
        BY <1>4, <1>6, <2>1, <2>2, <2>3, SentStep
<1>7. CASE End("error")
    BY <1>3, <1>4, <1>7, LeftStep
<1>8. QED
    BY <1>1, <1>2, <1>5, <1>6, <1>7 DEF tenantsList

LEMMA tenantsGetStep ==
    ASSUME IndInv, tenantsGet
    PROVE  IndInv'
<1>1. request.pc = "tenantsGet"
    BY DEF tenantsGet
<1>2. request.operation = "Get" /\ isTenants(request.resource)
    BY <1>1 DEF IndInv, RequestInv, Stages, Named
<1>3. request.steady /\ ~request.failed => request.rules = caller.rules /\ request.own = caller.own
    BY <1>1 DEF IndInv, RequestInv, Snapshot, Working
<1>4. CASE Fail
    BY <1>1, <1>4, FailStep
<1>5. CASE Filter({})
    BY <1>1, <1>2, <1>5, GenericResources, SentStep DEF Working
<1>6. CASE /\ request.name \notin userTenants
           /\ ~(/\ cached[request.name] # NoObject
                /\ MatchesOne(TenantRequirements("Get"),
                              Labels(request.name, cached[request.name])))
           /\ End("notFound")
    <2>1. request.steady /\ ~request.failed => ~Reach(request.resource, request.name)
        BY <1>2, <1>3, <1>6 DEF Reach, callerTenants, userTenants, TenantRequirements, Reqs
    <2>2. QED
        BY <1>1, <1>6, <2>1, LeftStep
<1>7. QED
    BY <1>4, <1>5, <1>6 DEF tenantsGet

LEMMA ReviewTenantStep ==
    ASSUME IndInv, ReviewTenant
    PROVE  IndInv'
<1>1. PICK t \in request.pending, allowed \in BOOLEAN :
          /\ allowed = (TenantNamespaces[t] # << >> /\ TenantNamespaces[t][1] \in caller.mayList)
          /\ \/ Advance([request EXCEPT !.pending = @ \ {t},
                                        !.sources = IF allowed THEN @ \cup {t} ELSE @])
             \/ Fail
    BY DEF ReviewTenant
<1>2. request.pc = "catchAll"
    BY DEF ReviewTenant
<1>3. CASE Fail
    BY <1>2, <1>3, FailStep
<1>4. CASE ~Fail
    <2>1. PICK r : r = [request EXCEPT !.pending = @ \ {t},
                                       !.sources = IF allowed THEN @ \cup {t} ELSE @]
        OBVIOUS
    <2>2. request' = r /\ UNCHANGED <<world, last>>
        BY <1>1, <1>4, <2>1 DEF Advance
    <2>3. /\ r.pc = "catchAll" /\ r.operation = request.operation /\ r.resource = request.resource
          /\ r.name = request.name /\ r.steady = request.steady /\ r.synced = request.synced
          /\ r.rules = request.rules /\ r.own = request.own /\ r.selector = request.selector
          /\ r.pending = request.pending \ {t}
          /\ r.sources = IF allowed THEN request.sources \cup {t} ELSE request.sources
          /\ r.failed = request.failed
        BY <1>2, <2>1 DEF IndInv, Requests
    <2>4. r \in Requests(r.selector)
        <3>1. t \in Tenants
            BY <1>1 DEF IndInv, Requests
        <3>2. (IF allowed THEN request.sources \cup {t} ELSE request.sources) \in SUBSET Tenants
            BY <3>1 DEF IndInv, Requests
        <3>3. QED
            BY <2>1, <2>3, <3>2 DEF IndInv, Requests
    <2>5. Stages(r)
        BY <1>2, <2>3 DEF IndInv, RequestInv, Stages
    <2>6. Snapshot(r)
        <3>1. request.steady /\ allowed => MayList(t)
            BY <1>1, <1>2 DEF IndInv, RequestInv, Snapshot, MayList
        <3>2. QED
            BY <1>2, <2>3, <3>1 DEF IndInv, RequestInv, Snapshot, Working
    <2>7. SelectorKnown(r) /\ ListReaches(r) /\ LeftToCaller(r)
        BY <2>3 DEF SelectorKnown, ListReaches, LeftToCaller
    <2>8. RequestInv(r)
        BY <2>5, <2>6, <2>7 DEF RequestInv
    <2>9. QED
        BY <1>2, <2>2, <2>3, <2>4, <2>8, RequestStep
<1>5. QED
    BY <1>3, <1>4

LEMMA ReflectTenantsStep ==
    ASSUME IndInv, ReflectTenants
    PROVE  IndInv'
<1>1. request.pc = "catchAll"
    BY DEF ReflectTenants
<1>2. request.operation = "List" /\ request.resource \in routes.catchAll
    BY <1>1 DEF IndInv, RequestInv, Stages
<1>3. request.resource.namespaced /\ request.resource \notin routes.generic
    BY <1>2 DEF IndInv, WorldType
<1>4. CASE Fail
    BY <1>1, <1>4, FailStep
<1>5. CASE End("error")
    BY <1>1, <1>2, <1>5, LeftStep
<1>6. CASE ~Fail /\ ~End("error")
    <2>1. PICK selector : Filter(selector)
        BY <1>6 DEF ReflectTenants
    <2>2. request.pc \in Working
        BY <1>1 DEF Working
    <2>3. QED
        BY <1>2, <1>3, <2>1, <2>2, SentStep
<1>7. QED
    BY <1>4, <1>5, <1>6

-----------------------------------------------------------------------------
(* Answers that are kept. *)

\* A request ends with an answer; the last one is kept or replaced.
LEMMA AnswerStep ==
    ASSUME IndInv, request.pc \in Working \cup {"send"}, UNCHANGED world,
           NEW pc \in {"shown", "reviewed"}, NEW shown \in SUBSET Names,
           request' = [Ending(pc) EXCEPT !.shown = shown]
    PROVE  /\ WorldType' /\ (request \in Requests(request.selector))' /\ RequestInv(request)'
           /\ ListedIsFound' /\ request'.steady = request.steady /\ request'.pc = pc
           /\ last' = last => LastCurrent'
<1>1. PICK r : r = [Ending(pc) EXCEPT !.shown = shown]
    OBVIOUS
<1>2. /\ r.pc = pc /\ r.operation = request.operation /\ r.resource = request.resource
      /\ r.name = request.name /\ r.steady = request.steady /\ r.synced = request.synced
      /\ r.selector = NoSelector
    BY <1>1 DEF IndInv, Requests, Ending
<1>3. r \in Requests(r.selector)
    BY <1>1, <1>2 DEF IndInv, Requests, Ended, Ending
<1>4. Stages(r)
    BY <1>2 DEF IndInv, RequestInv, Stages, Working
<1>5. Snapshot(r)
    BY <1>2 DEF IndInv, RequestInv, Snapshot, Working
<1>6. SelectorKnown(r) /\ ListReaches(r) /\ LeftToCaller(r)
    BY <1>2 DEF SelectorKnown, ListReaches, LeftToCaller
<1>7. RequestInv(r)
    BY <1>4, <1>5, <1>6 DEF RequestInv
<1>8. RequestInv(request)'
    BY <1>1, <1>7, RequestKept
<1>9. WorldType'
    BY DEF IndInv, WorldType, world
<1>10. ListedIsFound'
    BY <1>1, <1>2 DEF ListedIsFound
<1>11. last' = last => LastCurrent'
    BY <1>1, <1>2, SameWorld DEF IndInv, LastCurrent, world, Working
<1>12. QED
    BY <1>1, <1>2, <1>3, <1>8, <1>9, <1>10, <1>11

LEMMA SendStep ==
    ASSUME IndInv, Send
    PROVE  IndInv'
<1>1. PICK shown : shown = {n \in Names :
                              /\ Present(n)
                              /\ IF request.operation \in Named THEN n = request.name
                                 ELSE SelectorMatches(request.selector, Labels(n, objects[n]))}
    OBVIOUS
<1>2. shown \in SUBSET Names
    BY <1>1
<1>3. /\ request.pc = "send" /\ UNCHANGED world
      /\ request' = [Ending("shown") EXCEPT !.shown = shown]
      /\ last' = IF request.operation = "List" /\ request.steady /\ ~request.resource.namespaced
                 THEN [Answer EXCEPT !.shown = shown] ELSE last
    BY <1>1 DEF Send
<1>4. /\ WorldType' /\ (request \in Requests(request.selector))' /\ RequestInv(request)'
      /\ ListedIsFound' /\ request'.steady = request.steady /\ request'.pc = "shown"
      /\ last' = last => LastCurrent'
    <2>1. PICK pc \in {"shown", "reviewed"} : pc = "shown"
        OBVIOUS
    <2>2. QED
        BY <1>2, <1>3, <2>1, AnswerStep
<1>5. ASSUME request.operation = "List", request.steady, ~request.resource.namespaced
      PROVE  LastCurrent'
    <2>1. /\ last'.operation = "List" /\ last'.resource = request.resource
          /\ last'.shown = shown
        BY <1>3, <1>5 DEF Answer, NoAnswer
    <2>2. ASSUME NEW n \in shown PROVE Reach(request.resource, n)
        <3>1. n \in Names /\ Presents(request, n)
            BY <1>1, <1>5, <2>2 DEF Named, Presents, Present
        <3>2. QED
            BY <1>3, <1>5, <3>1 DEF IndInv, RequestInv, ListReaches
    <2>3. \A r, n : Reach(r, n)' = Reach(r, n)
        BY <1>3, SameWorld
    <2>4. QED
        BY <1>2, <1>4, <1>5, <2>1, <2>2, <2>3 DEF LastCurrent
<1>6. LastCurrent'
    BY <1>3, <1>4, <1>5
<1>7. QED
    BY <1>4, <1>6 DEF IndInv

LEMMA SendCreateStep ==
    ASSUME IndInv, SendCreate
    PROVE  IndInv'
<1>1. request.pc = "send" /\ request.operation = "Create"
    BY DEF SendCreate
<1>2. CASE Advance([Ending("shown") EXCEPT !.shown = {}])
    <2>1. PICK pc \in {"shown", "reviewed"} : pc = "shown"
        OBVIOUS
    <2>2. PICK shown \in SUBSET Names : shown = {}
        OBVIOUS
    <2>3. request' = [Ending(pc) EXCEPT !.shown = shown] /\ UNCHANGED <<world, last>>
        BY <1>2, <2>1, <2>2 DEF Advance
    <2>4. QED
        BY <1>1, <2>3, AnswerStep DEF IndInv
<1>3. CASE ~Advance([Ending("shown") EXCEPT !.shown = {}])
    <2>1. PICK n \in Names : \E labels \in LabelSets[n] : objects' = [objects EXCEPT ![n] = labels]
        BY <1>3 DEF SendCreate
    <2>2. /\ request' = [Ending("shown") EXCEPT !.shown = {}, !.steady = FALSE]
          /\ last' = NoAnswer
          /\ UNCHANGED <<served, routes, cached, caller, writes>>
        BY <1>3 DEF SendCreate
    <2>3. WorldType'
        BY <2>1, <2>2 DEF IndInv, WorldType, PossibleLabels
    <2>4. /\ request'.pc = "shown" /\ request'.operation = "Create" /\ ~request'.steady
          /\ request'.selector = NoSelector /\ request'.resource = request.resource
        BY <1>1, <2>2 DEF IndInv, Requests, Ending
    <2>5. (request \in Requests(request.selector))'
        BY <2>2, <2>4 DEF IndInv, Requests, Ending, Ended
    <2>6. RequestInv(request)'
        <3>1. request.resource \in Resources
            BY <1>1 DEF IndInv, RequestInv, Stages
        <3>2. QED
            BY <2>4, <3>1
               DEF RequestInv, Stages, Snapshot, SelectorKnown, ListReaches, LeftToCaller, Named
    <2>7. QED
        BY <2>2, <2>3, <2>5, <2>6, NothingKnown DEF IndInv
<1>4. QED
    BY <1>2, <1>3

\* A review ends.
LEMMA Reviewed ==
    ASSUME IndInv, request.pc = "review", UNCHANGED world, request' = Ending("reviewed")
    PROVE  /\ WorldType' /\ (request \in Requests(request.selector))' /\ RequestInv(request)'
           /\ ListedIsFound' /\ request'.steady = request.steady /\ request'.pc = "reviewed"
           /\ last' = last => LastCurrent'
           /\ request.steady /\ ~request.failed => request.rules = caller.rules
<1>1. PICK pc \in {"shown", "reviewed"} : pc = "reviewed"
    OBVIOUS
<1>2. request.pc \in Working
    BY DEF Working
<1>3. request.steady /\ ~request.failed => request.rules = caller.rules
    BY <1>2 DEF IndInv, RequestInv, Snapshot
<1>4. PICK shown \in SUBSET Names : shown = request.shown
    BY DEF IndInv, Requests
<1>5. request' = [Ending(pc) EXCEPT !.shown = shown]
    BY <1>1, <1>4 DEF Ending, IndInv, Requests
<1>6. QED
    BY <1>1, <1>2, <1>3, <1>5, AnswerStep

LEMMA MutateAuthorizationStep ==
    ASSUME IndInv, MutateAuthorization
    PROVE  IndInv'
<1>1. /\ request.pc = "review" /\ UNCHANGED world /\ request' = Ending("reviewed")
      /\ request.operation \in Reviews
    BY DEF MutateAuthorization
<1>2. /\ WorldType' /\ (request \in Requests(request.selector))' /\ RequestInv(request)'
      /\ ListedIsFound' /\ request'.steady = request.steady /\ request'.pc = "reviewed"
      /\ last' = last => LastCurrent'
      /\ request.steady /\ ~request.failed => request.rules = caller.rules
    BY <1>1, Reviewed
<1>3. ASSUME request.steady, ~request.failed, request.resource \in routes.generic
      PROVE  LastCurrent'
    <2>1. PICK granted \in BOOLEAN : granted = (acrossNamespaces \/ byRules)
        OBVIOUS
    <2>2. /\ last'.operation = request.operation /\ last'.resource = request.resource
          /\ last'.version = request.version /\ last'.shown = {} /\ last'.granted = granted
        BY <1>3, <2>1 DEF MutateAuthorization, Answer, NoAnswer
    <2>3. PICK gvk : gvk = Told(request.resource, request.version)
        OBVIOUS
    <2>4. \A op : GetClusterScopeRequirements(gvk, op, request.rules) = Reqs(gvk, op)
        BY <1>2, <1>3 DEF Reqs
    <2>5. ~acrossNamespaces
        BY <1>3, OneScope DEF acrossNamespaces
    <2>6. request.operation = "reviewList" => (granted <=> Reqs(gvk, "List") # {})
        BY <2>1, <2>3, <2>4, <2>5 DEF byRules, clusterResourceOperation
    <2>7. request.operation = "reviewGet" => (granted <=> Reqs(gvk, "Get") # {})
        BY <2>1, <2>3, <2>4, <2>5 DEF byRules, clusterResourceOperation
    <2>8. \A op : Reqs(Told(last.resource, last.version), op)' = Reqs(gvk, op)
        <3>1. Told(last.resource, last.version)' = gvk
            BY <2>2, <2>3 DEF Told
        <3>2. caller' = caller
            BY <1>1 DEF world
        <3>3. QED
            BY <3>1, <3>2 DEF Reqs
    <2>9. last'.operation = "reviewList" =>
              (last'.granted <=> Reqs(Told(last.resource, last.version), "List")' # {})
        BY <2>2, <2>6, <2>8
    <2>10. last'.operation = "reviewGet" =>
              (Reqs(Told(last.resource, last.version), "Get")' # {} => last'.granted)
        BY <2>2, <2>7, <2>8
    <2>11. last'.operation # "reviewRules" /\ last'.operation # "List"
        BY <1>1, <2>2 DEF Reviews
    <2>12. QED
        BY <1>2, <1>3, <2>2, <2>9, <2>10, <2>11 DEF LastCurrent
<1>4. ~(request.steady /\ ~request.failed /\ request.resource \in routes.generic) => last' = last
    BY DEF MutateAuthorization
<1>5. QED
    BY <1>2, <1>3, <1>4 DEF IndInv

LEMMA MutateRulesStep ==
    ASSUME IndInv, MutateRules
    PROVE  IndInv'
<1>1. /\ request.pc = "review" /\ UNCHANGED world /\ request' = Ending("reviewed")
    BY DEF MutateRules
<1>2. /\ WorldType' /\ (request \in Requests(request.selector))' /\ RequestInv(request)'
      /\ ListedIsFound' /\ request'.steady = request.steady /\ request'.pc = "reviewed"
      /\ last' = last => LastCurrent'
      /\ request.steady /\ ~request.failed => request.rules = caller.rules
    BY <1>1, Reviewed
<1>3. ASSUME request.steady, ~request.failed PROVE LastCurrent'
    <2>1. /\ last'.operation = request.operation /\ last'.shown = {}
          /\ last'.advertised = getAllResourceRules /\ request.operation = "reviewRules"
        BY <1>3 DEF MutateRules, NoAnswer, Answer
    <2>2. getAllResourceRules = Advertised
        BY <1>2, <1>3 DEF getAllResourceRules, Advertised
    <2>3. Advertised' = Advertised
        BY <1>1, SameWorld
    <2>4. QED
        BY <1>2, <1>3, <2>1, <2>2, <2>3 DEF LastCurrent
<1>4. request.failed \/ ~request.steady => last' = last
    BY DEF MutateRules
<1>5. QED
    BY <1>2, <1>3, <1>4 DEF IndInv

-----------------------------------------------------------------------------
\* Every step keeps the invariant.
LEMMA NextKeepsIndInv == IndInv /\ [Next]_vars => IndInv'
<1> SUFFICES ASSUME IndInv, [Next]_vars PROVE IndInv'
    OBVIOUS
<1>1. CASE World
    BY <1>1, WorldStep
<1>2. ASSUME NEW r \in Resources, NEW operation \in Collection \cup Reviews,
             NEW version \in {<< >>, r.version}, Begin(operation, r, version, NoObject)
      PROVE  IndInv'
    BY <1>2, BeginStep DEF Collection, Named, Reviews
<1>3. ASSUME NEW r \in Resources, NEW n \in Names, NEW operation \in Named,
             SameKind(ResourceOf[n], r), Begin(operation, r, << >>, n)
      PROVE  IndInv'
    BY <1>3, BeginStep
<1>4. CASE Begin("reviewRules", NoResource, << >>, NoObject)
    BY <1>4, BeginStep DEF Named
<1>5. CASE Serve
    <2>1. CASE Collect \/ Return
        BY <2>1, CollectStep, ReturnStep
    <2>2. CASE genericList \/ genericGet \/ tenantsList \/ tenantsGet
        BY <2>2, genericListStep, genericGetStep, tenantsListStep, tenantsGetStep
    <2>3. CASE ReviewTenant \/ ReflectTenants
        BY <2>3, ReviewTenantStep, ReflectTenantsStep
    <2>4. CASE Send \/ SendCreate \/ MutateAuthorization \/ MutateRules
        BY <2>4, SendStep, SendCreateStep, MutateAuthorizationStep, MutateRulesStep
    <2>5. QED
        BY <1>5, <2>1, <2>2, <2>3, <2>4 DEF Serve
<1>6. CASE UNCHANGED vars
    <2>1. UNCHANGED world /\ request' = request /\ last' = last
        BY <1>6 DEF vars, world
    <2>2. RequestInv(request)'
        BY <2>1, RequestKept DEF IndInv
    <2>3. LastCurrent'
        BY <2>1, SameWorld DEF IndInv, LastCurrent, world
    <2>4. WorldType' /\ ListedIsFound'
        BY <2>1 DEF IndInv, WorldType, ListedIsFound, world
    <2>5. QED
        BY <2>1, <2>2, <2>3, <2>4 DEF IndInv
<1>7. QED
    BY <1>1, <1>2, <1>3, <1>4, <1>5, <1>6 DEF Next

\* The inductive invariant holds in every state of every behaviour.
LEMMA Invariance == Spec => []IndInv
    BY InitIndInv, NextKeepsIndInv, PTL DEF Spec

\* The world, the request and its answers are well-formed in every interleaving
\* of requests, changes and restarts; no resource has two modules.
THEOREM TypeCorrect == Spec => []TypeOK
<1>1. IndInv => TypeOK
    <2> SUFFICES ASSUME IndInv PROVE TypeOK
        OBVIOUS
    <2>1. /\ routes.generic \subseteq Resources /\ routes.catchAll \subseteq Resources
          /\ routes.generic \cap routes.catchAll = {}
        BY GenericResources DEF IndInv, WorldType
    <2>2. /\ request.pc \in Ended \cup {"idle", "collect", "genericList", "genericGet",
                                        "tenantsList", "tenantsGet", "catchAll", "review", "send"}
          /\ request.pending \subseteq Tenants /\ request.sources \subseteq Tenants
          /\ request.shown \subseteq Names
        BY DEF IndInv, Requests
    <2>3. QED
        BY <2>1, <2>2 DEF IndInv, WorldType, LastCurrent, TypeOK
<1>2. QED
    BY <1>1, Invariance, PTL

\* An object of a cluster-scoped resource that a LIST has shown is found by a
\* GET, for all rules and tenants of the caller: one of the merged requirements
\* matches (list.Handle, get.Handle of the generic and the tenant modules).
THEOREM ListedFound == Spec => []ListedIsFound
<1>1. IndInv => ListedIsFound
    BY DEF IndInv
<1>2. QED
    BY <1>1, Invariance, PTL

-----------------------------------------------------------------------------
(* Reviews and the requests that they are about. *)

\* A requirement comes from a rule, which a rules review advertises.
LEMMA RuleAdvertised ==
    ASSUME NEW gvk, NEW operation \in {"List", "Get"}, Reqs(gvk, operation) # {}
    PROVE  \E rule \in Advertised : matchResource(gvk, rule) /\ verb(operation) \in rule.verbs
<1>1. PICK rule \in caller.rules : matchResource(gvk, rule) /\ AllowsOperation(rule, operation)
    BY DEF Reqs, GetClusterScopeRequirements
<1>2. PICK a : a = [apiGroups |-> rule.apiGroups, resources |-> rule.resources,
                    verbs |-> {verb(op) : op \in EffectiveOperations(rule)}]
    OBVIOUS
<1>3. a \in Advertised
    BY <1>2 DEF Advertised
<1>4. a.apiGroups = rule.apiGroups /\ a.resources = rule.resources
    BY <1>2
<1>5. matchResource(gvk, a)
    BY <1>1, <1>4 DEF matchResource
<1>6. operation \in EffectiveOperations(rule)
    BY <1>1 DEF EffectiveOperations
<1>7. verb(operation) \in a.verbs
    BY <1>2, <1>6
<1>8. QED
    BY <1>3, <1>5, <1>7

\* The version that a client tells makes no difference if it is the resource's,
\* or if no rule asks for a version.
LEMMA ToldReqs ==
    ASSUME NEW r, NEW version, NEW operation,
           \/ version = r.version
           \/ \A rule \in caller.rules : \A pattern \in rule.apiGroups : ~Contains(pattern, "/")
    PROVE  Reqs(Told(r, version), operation) = Reqs(r, operation)
<1>1. PICK gvk : gvk = Told(r, version)
    OBVIOUS
<1>2. gvk.group = r.group /\ gvk.version = version /\ gvk.resource = r.resource
    BY <1>1 DEF Told
<1>3. \A rule \in caller.rules : matchResource(gvk, rule) <=> matchResource(r, rule)
    BY <1>2 DEF matchResource
<1>4. QED
    BY <1>1, <1>3 DEF Reqs, GetClusterScopeRequirements

\* A self review tells the truth about the request it is about, if nothing
\* changed in between, for all rules of the caller, if it names the version of
\* the resource or no rule asks for one: LIST is filtered by rules if and only if
\* the review granted it, what GET shows was not denied, and what is filtered was
\* advertised (MutateAuthorization, list.Handle, get.Handle).
THEOREM ReviewsAgree == Spec => []ReviewAgrees
<1>1. IndInv => ReviewAgrees
    <2>1. SUFFICES ASSUME IndInv, request.pc = "send", request.steady,
                          request.resource \in routes.generic
                   PROVE  /\ ReviewOf("reviewList") /\ request.operation = "List" =>
                                /\ last.granted /\ ~request.failed => request.selector # Nothing
                                /\ request.selector # Nothing => last.granted
                          /\ ReviewOf("reviewGet") /\ request.operation = "Get" => last.granted
                          /\ last.operation = "reviewRules" /\ request.selector # Nothing =>
                                \E rule \in last.advertised :
                                    /\ matchResource(request.resource, rule)
                                    /\ verb(request.operation) \in rule.verbs
        BY DEF ReviewAgrees
    <2>2. request.operation \in {"List", "Get", "Create"}
        BY <2>1 DEF IndInv, RequestInv, Stages
    <2>3. request.operation = "List" =>
              /\ request.selector # Nothing => Reqs(request.resource, "List") # {}
              /\ ~request.failed /\ Reqs(request.resource, "List") # {} =>
                    request.selector # Nothing
        BY <2>1 DEF IndInv, RequestInv, SelectorKnown
    <2>4. request.operation = "Get" => Reqs(request.resource, "Get") # {}
        BY <2>1 DEF IndInv, RequestInv, SelectorKnown, Admits, MatchesOne
    <2>5. request.operation = "Create" => request.selector = Nothing
        BY <2>1 DEF IndInv, RequestInv, SelectorKnown
    <2>6. ASSUME NEW operation, ReviewOf(operation), NEW op
          PROVE  Reqs(Told(last.resource, last.version), op) = Reqs(request.resource, op)
        BY <2>6, ToldReqs DEF ReviewOf
    <2>7. ASSUME ReviewOf("reviewList"), request.operation = "List"
          PROVE  /\ last.granted /\ ~request.failed => request.selector # Nothing
                 /\ request.selector # Nothing => last.granted
        <3>1. last.granted <=> Reqs(Told(last.resource, last.version), "List") # {}
            BY <2>1, <2>7 DEF IndInv, LastCurrent, ReviewOf
        <3>2. QED
            BY <2>3, <2>6, <2>7, <3>1
    <2>8. ASSUME ReviewOf("reviewGet"), request.operation = "Get"
          PROVE  last.granted
        <3>1. Reqs(Told(last.resource, last.version), "Get") # {} => last.granted
            BY <2>1, <2>8 DEF IndInv, LastCurrent, ReviewOf
        <3>2. QED
            BY <2>4, <2>6, <2>8, <3>1
    <2>9. ASSUME last.operation = "reviewRules", request.selector # Nothing
          PROVE  \E rule \in last.advertised :
                    /\ matchResource(request.resource, rule)
                    /\ verb(request.operation) \in rule.verbs
        <3>1. last.advertised = Advertised
            BY <2>1, <2>9 DEF IndInv, LastCurrent
        <3>2. /\ request.operation \in {"List", "Get"}
              /\ Reqs(request.resource, request.operation) # {}
            BY <2>2, <2>3, <2>4, <2>5, <2>9
        <3>3. QED
            BY <3>1, <3>2, RuleAdvertised
    <2>10. QED
        BY <2>7, <2>8, <2>9
<1>2. QED
    BY <1>1, Invariance, PTL

-----------------------------------------------------------------------------
(* Validation. *)

\* A valid rule for an operation gives every resource that it matches the verbs
\* of that operation, and get.
LEMMA ValidHasGet ==
    ASSUME served \in SUBSET Resources,
           NEW rule, ValidateClusterResourceBlock(rule),
           NEW r \in ServerPreferred, ~r.namespaced, matchResource(r, rule),
           NEW operation \in {"List", "Get"}, AllowsOperation(rule, operation)
    PROVE  "get" \in r.verbs
<1>0. r \in served
    BY DEF ServerPreferred
<1>1. PICK groups : groups = IF <<"*">> \in rule.apiGroups THEN {q.group : q \in served}
                             ELSE rule.apiGroups
    OBVIOUS
<1>2. /\ groups \subseteq {q.group : q \in served}
      /\ \A q \in DiscoverClusterResources :
            q.group \in groups /\ rule.resources \cap {"*", q.resource} # {} =>
                validateDiscoveredClusterResource(q, rule)
    BY <1>1 DEF ValidateClusterResourceBlock
<1>3. r.group \in groups
    <2>1. CASE <<"*">> \in rule.apiGroups
        BY <1>0, <1>1, <2>1
    <2>2. CASE <<"*">> \notin rule.apiGroups
        <3>1. \A pattern \in rule.apiGroups :
                  /\ pattern \in Seq(STRING)
                  /\ \A i \in DOMAIN pattern : pattern[i] \notin {"*", "/"}
            BY <1>1, <1>2, <2>2, ResourcesAssumption
        <3>2. QED
            BY <1>1, <2>2, <3>1, ExactResource
    <2>3. QED
        BY <2>1, <2>2
<1>4. r \in DiscoverClusterResources /\ rule.resources \cap {"*", r.resource} # {}
    BY DEF DiscoverClusterResources, matchResource
<1>5. validateDiscoveredClusterResource(r, rule)
    BY <1>2, <1>3, <1>4
<1>6. "Get" \in EffectiveOperations(rule) /\ verb("Get") = "get"
    BY DEF EffectiveOperations, AllowsOperation, verb
<1>7. QED
    BY <1>5, <1>6 DEF validateDiscoveredClusterResource

\* A rule that the validation accepts takes effect for every resource that it
\* matches, in the preferred version, for all sets of served resources, if the
\* routes were registered from them and the settings could be read: none is left
\* to the caller's own permissions (ValidateClusterResourceBlock,
\* serverPreferredResources, registerModules).
THEOREM ValidServed == Spec => []ValidIsServed
<1>1. IndInv => ValidIsServed
    <2>1. SUFFICES ASSUME IndInv, request.pc = "asCaller", request.operation \in {"List", "Get"},
                          request.steady, ~request.failed, routes = registerModules,
                          request.resource \in ServerPreferred, ~request.resource.namespaced,
                          NEW rule \in caller.rules,
                          ValidateClusterResourceBlock(rule),
                          matchResource(request.resource, rule),
                          AllowsOperation(rule, request.operation),
                          request.operation = "Get" =>
                              Selected({rule}, request.resource, "Get",
                                       Labels(request.name, objects[request.name]))
                   PROVE  FALSE
        BY DEF ValidIsServed
    <2>2. /\ ~isTenants(request.resource)
          /\ request.operation = "List" => request.resource \notin routes.generic
          /\ request.operation = "Get" /\ request.resource \in routes.generic =>
                ~Admits(request.resource, request.name)
        BY <2>1 DEF IndInv, RequestInv, LeftToCaller
    <2>3. served \in SUBSET Resources /\ request.resource \in Resources
        BY <2>1 DEF IndInv, WorldType, ServerPreferred
    <2>4. "get" \in request.resource.verbs
        BY <2>1, <2>3, ValidHasGet
    <2>5. ~moduleGroupKindPresent(request.resource)
        BY <2>2, <2>3, ResourcesAssumption DEF moduleGroupKindPresent, isTenants
    <2>6. request.resource \in routes.generic
        BY <2>1, <2>4, <2>5 DEF registerModules, serverPreferredResources
    <2>7. request.operation = "Get" => Admits(request.resource, request.name)
        <3>1. SUFFICES ASSUME request.operation = "Get"
                       PROVE  Admits(request.resource, request.name)
            OBVIOUS
        <3>2. /\ rule.selector # NoSelector /\ rule.selector # {}
              /\ SelectorMatches(rule.selector, Labels(request.name, objects[request.name]))
            BY <2>1, <3>1 DEF Selected
        <3>3. rule.selector \subseteq Reqs(request.resource, "Get")
            BY <2>1, <3>1, <3>2 DEF Reqs, GetClusterScopeRequirements
        <3>4. QED
            BY <3>2, <3>3 DEF Admits, MatchesOne, SelectorMatches
    <2>8. QED
        BY <2>1, <2>2, <2>6, <2>7
<1>2. QED
    BY <1>1, Invariance, PTL

\* The pattern matching finds every resource that a rule names: a pattern with
\* a slash is not meant for a group, whose name has none.
LEMMA NamedMatches ==
    ASSUME NEW c \in Callers, NEW rule \in c.rules, NEW r \in Resources,
           NamesResource(rule, r)
    PROVE  matchResource(r, rule)
<1>1. PICK pattern \in rule.apiGroups :
          \/ Glob(pattern, r.group)
          \/ /\ \E i \in DOMAIN pattern : pattern[i] = "/"
             /\ Glob(pattern, r.group \o <<"/">> \o r.version)
    BY DEF NamesResource
<1>2. rule.resources \cap {"*", r.resource} # {}
    BY DEF NamesResource
<1>3. /\ pattern \in Seq(STRING) /\ r.group \in Seq(STRING) /\ r.version \in Seq(STRING)
      /\ \A i \in DOMAIN r.group : r.group[i] # "/"
    BY ResourcesAssumption
<1>4. CASE Glob(pattern, r.group)
    <2>1. ~Contains(pattern, "/")
        <3>1. SUFFICES ASSUME NEW i \in 1..Len(pattern), pattern[i] = "/"
                       PROVE  FALSE
            BY DEF Contains
        <3>2. \E g \in 1..Len(r.group) : r.group[g] = "/"
            BY <1>3, <1>4, <3>1, GlobElements
        <3>3. QED
            BY <1>3, <3>2
    <2>2. matchPattern(pattern, r.group)
        BY <1>3, <1>4, GlobMatches
    <2>3. QED
        BY <1>2, <2>1, <2>2 DEF matchResource
<1>5. CASE /\ \E i \in DOMAIN pattern : pattern[i] = "/"
           /\ Glob(pattern, r.group \o <<"/">> \o r.version)
    <2> DEFINE groupVersion == r.group \o <<"/">> \o r.version
    <2>1. Contains(pattern, "/")
        BY <1>3, <1>5 DEF Contains
    <2>2. groupVersion \in Seq(STRING)
        <3>1. <<"/">> \in Seq(STRING)
            <4>1. "/" \in STRING
                BY <1>3, <1>5
            <4>2. \A S : \A e \in S : <<e>> \in Seq(S)
                OBVIOUS
            <4>3. QED
                BY <4>1, <4>2
        <3>2. QED
            BY <1>3, <3>1
    <2> HIDE DEF groupVersion
    <2>3. matchPattern(pattern, groupVersion)
        BY <1>3, <1>5, <2>2, GlobMatches DEF groupVersion
    <2>4. QED
        BY <1>2, <2>1, <2>3 DEF matchResource, groupVersion
<1>6. QED
    BY <1>1, <1>4, <1>5

\* A GET of an object that a rule selects is not left to the caller's own
\* permissions, for all rules, patterns, resources and objects, if no read of
\* the settings failed: the pattern
\* matching finds every resource that the rule names, and the match of one
\* requirement misses nothing (get.Handle, matchPattern, HandleGetSelector).
THEOREM SelectedServed == Spec => []SelectedIsServed
<1>1. IndInv => SelectedIsServed
    <2>1. SUFFICES ASSUME IndInv, request.pc = "asCaller", request.operation = "Get",
                          request.steady, ~request.failed, request.resource \in routes.generic,
                          NEW rule \in caller.rules,
                          Selects(rule, request.resource, "Get",
                                  Labels(request.name, objects[request.name]))
                   PROVE  FALSE
        BY DEF SelectedIsServed
    <2>2. /\ rule.selector # NoSelector /\ rule.selector # {}
          /\ NamesResource(rule, request.resource) /\ AllowsOperation(rule, "Get")
          /\ SelectorMatches(rule.selector, Labels(request.name, objects[request.name]))
        BY <2>1 DEF Selects
    <2>3. request.resource \in Resources /\ caller \in Callers
        BY <2>1, GenericResources DEF IndInv, WorldType
    <2>4. matchResource(request.resource, rule)
        BY <2>1, <2>2, <2>3, NamedMatches
    <2>5. rule.selector \subseteq Reqs(request.resource, "Get")
        BY <2>1, <2>2, <2>4 DEF Reqs, GetClusterScopeRequirements
    <2>6. Admits(request.resource, request.name)
        BY <2>2, <2>5 DEF Admits, MatchesOne, SelectorMatches
    <2>7. QED
        BY <2>1, <2>6 DEF IndInv, RequestInv, LeftToCaller
<1>2. QED
    BY <1>1, Invariance, PTL

-----------------------------------------------------------------------------
(***************************************************************************)
(* What is shown is due to the caller, where the rules have one            *)
(* requirement each.                                                       *)
(***************************************************************************)
ByRule(r, n, operation) == Selected(caller.rules, r, operation, Labels(n, objects[n]))

EntitledTo(r, n, operation) ==
    IF isTenants(r) THEN n \in caller.own \/ ByRule(r, n, operation)
    ELSE IF r.namespaced
    THEN \/ TenantOf[n] \in caller.reflected
         \/ /\ TenantOf[n] \in caller.own
            /\ \E i \in DOMAIN TenantNamespaces[TenantOf[n]] :
                  TenantNamespaces[TenantOf[n]][i] \in caller.mayList
    ELSE ByRule(r, n, operation)

\* The API server would show the object, asked with this selector.
WouldShow(n, selector) ==
    /\ SameKind(ResourceOf[n], request.resource) /\ objects[n] # NoObject
    /\ \/ request.operation = "Get" /\ n = request.name
       \/ request.operation = "List" /\ SelectorMatches(selector, Labels(n, objects[n]))

SentIsEntitled ==
    request.pc = "send" /\ request.steady /\ request.synced =>
        \A n \in Names : WouldShow(n, request.selector) =>
                            EntitledTo(request.resource, n, request.operation)

AnsweredIsEntitled ==
    request.pc = "shown" /\ request.steady /\ request.synced =>
        \A n \in request.shown : EntitledTo(request.resource, n, request.operation)

EntitledInv == SentIsEntitled /\ AnsweredIsEntitled

LEMMA EntitledSame ==
    ASSUME UNCHANGED world
    PROVE  \A r, n, operation : EntitledTo(r, n, operation)' = EntitledTo(r, n, operation)
<1>1. \A r, n, operation : ByRule(r, n, operation)' = ByRule(r, n, operation)
    BY DEF ByRule, world
<1>2. QED
    BY <1>1 DEF EntitledTo, world

\* With one requirement in each rule, a requirement that matches is a rule that
\* selects.
LEMMA RequirementSelects ==
    ASSUME PlainRules, IndInv, NEW gvk, NEW operation, NEW labels, NEW reqs,
           reqs \subseteq Reqs(gvk, operation), MatchesOne(reqs, labels)
    PROVE  Selected(caller.rules, gvk, operation, labels)
<1>1. PICK req \in Reqs(gvk, operation) : Matches(req, labels)
    BY DEF MatchesOne
<1>2. PICK rule \in caller.rules :
          /\ rule.selector # NoSelector /\ matchResource(gvk, rule)
          /\ AllowsOperation(rule, operation) /\ req \in rule.selector
    BY <1>1 DEF Reqs, GetClusterScopeRequirements
<1>3. caller \in Callers
    BY DEF IndInv, WorldType
<1>4. SelectorMatches(rule.selector, labels)
    BY <1>1, <1>2, <1>3 DEF PlainRules, SelectorMatches
<1>5. QED
    BY <1>2, <1>4 DEF Selected

\* The rules for tenants are asked for by the kind that the proxy knows.
LEMMA TenantRulesSelect ==
    ASSUME NEW r \in Resources, isTenants(r), NEW operation, NEW labels,
           Selected(caller.rules, tenantsGVK, operation, labels)
    PROVE  Selected(caller.rules, r, operation, labels)
<1>1. /\ r.group = tenantsGVK.group /\ r.version = tenantsGVK.version
      /\ r.resource = tenantsGVK.resource
    BY ResourcesAssumption DEF isTenants, tenantsResource, tenantsGVK
<1>2. \A rule : matchResource(tenantsGVK, rule) => matchResource(r, rule)
    BY <1>1 DEF matchResource
<1>3. QED
    BY <1>2 DEF Selected

\* A request is sent with a selector for what the caller is entitled to.
LEMMA SentEntitled ==
    ASSUME IndInv, NEW selector, Filter(selector),
           request.steady /\ request.synced =>
               \A n \in Names : WouldShow(n, selector) =>
                                   EntitledTo(request.resource, n, request.operation)
    PROVE  EntitledInv'
<1>1. UNCHANGED world /\ request' = [request EXCEPT !.pc = "send", !.selector = selector]
    BY DEF Filter, Advance
<1>2. /\ request'.pc = "send" /\ request'.selector = selector
      /\ request'.steady = request.steady /\ request'.synced = request.synced
      /\ request'.operation = request.operation /\ request'.resource = request.resource
      /\ request'.name = request.name
    BY <1>1 DEF IndInv, Requests
<1>3. \A n : WouldShow(n, request.selector)' => WouldShow(n, selector)
    BY <1>1, <1>2 DEF WouldShow, world
<1>4. SentIsEntitled'
    BY <1>1, <1>2, <1>3, EntitledSame DEF SentIsEntitled
<1>5. QED
    BY <1>2, <1>4 DEF EntitledInv, AnsweredIsEntitled

\* All other steps show nothing.
LEMMA OtherEntitled ==
    ASSUME request'.pc \notin {"send", "shown"} \/ ~request'.steady
    PROVE  EntitledInv'
    BY DEF EntitledInv, SentIsEntitled, AnsweredIsEntitled

LEMMA EndEntitled ==
    ASSUME IndInv,
           Fail \/ \E pc \in {"asCaller", "notFound", "error"} : End(pc)
    PROVE  EntitledInv'
<1>1. request'.pc \in {"asCaller", "notFound", "error"}
    BY DEF IndInv, Requests, Fail, End, Ending, Advance
<1>2. QED
    BY <1>1, OtherEntitled

LEMMA genericListEntitled ==
    ASSUME PlainRules, IndInv, genericList
    PROVE  EntitledInv'
<1>1. PICK reqs : reqs = Requirements("List")
    OBVIOUS
<1>2. request.pc = "genericList" /\ request.pc \in Working
    BY DEF genericList, Working
<1>3. request.operation \in Collection /\ request.resource \in routes.generic
    BY <1>2 DEF IndInv, RequestInv, Stages
<1>4. request.steady => reqs \subseteq Reqs(request.resource, "List")
    BY <1>1, <1>2, RequirementsKnown DEF Requirements
<1>5. CASE Filter(Nothing)
    <2>1. \A n \in Names : ~WouldShow(n, Nothing)
        BY <1>3, NothingMatches DEF WouldShow, Collection
    <2>2. QED
        BY <1>5, <2>1, SentEntitled
<1>6. CASE reqs # {} /\ request.operation = "List" /\ Filter(HandleListSelector(reqs))
    <2>1. PICK selector : selector = HandleListSelector(reqs)
        OBVIOUS
    <2>2. ASSUME request.steady, NEW n \in Names, WouldShow(n, selector)
          PROVE  EntitledTo(request.resource, n, "List")
        <3>1. SelectorMatches(HandleListSelector(reqs), Labels(n, objects[n]))
            BY <1>6, <2>1, <2>2 DEF WouldShow
        <3>2. MatchesOne(reqs, Labels(n, objects[n]))
            BY <1>6, <3>1, MergedMatchesOne
        <3>3. ByRule(request.resource, n, "List")
            BY <1>4, <2>2, <3>2, RequirementSelects DEF ByRule
        <3>4. QED
            BY <1>3, <3>3, GenericResources DEF EntitledTo
    <2>3. QED
        BY <1>6, <2>1, <2>2, SentEntitled
<1>7. CASE End("asCaller")
    BY <1>7, EndEntitled
<1>8. QED
    BY <1>1, <1>5, <1>6, <1>7 DEF genericList

LEMMA genericGetEntitled ==
    ASSUME PlainRules, IndInv, genericGet
    PROVE  EntitledInv'
<1>1. PICK reqs : reqs = Requirements("Get")
    OBVIOUS
<1>2. request.pc = "genericGet" /\ request.pc \in Working
    BY DEF genericGet, Working
<1>3. request.resource \in routes.generic
    BY <1>2 DEF IndInv, RequestInv, Stages
<1>4. request.steady => reqs \subseteq Reqs(request.resource, "Get")
    BY <1>1, <1>2, RequirementsKnown DEF Requirements
<1>5. CASE Fail \/ End("asCaller") \/ End("error") \/ End("notFound")
    BY <1>5, EndEntitled
<1>6. CASE /\ MatchesOne(reqs, Labels(request.name, objects[request.name])) /\ Filter({})
           /\ request.operation = "Get"
    <2>1. ASSUME request.steady, NEW n \in Names, WouldShow(n, {})
          PROVE  EntitledTo(request.resource, n, "Get")
        <3>1. n = request.name
            BY <1>6, <2>1 DEF WouldShow
        <3>2. ByRule(request.resource, n, "Get")
            BY <1>4, <1>6, <2>1, <3>1, RequirementSelects DEF ByRule
        <3>3. QED
            BY <1>3, <3>2, GenericResources DEF EntitledTo
    <2>2. QED
        BY <1>6, <2>1, SentEntitled
<1>7. QED
    BY <1>1, <1>5, <1>6 DEF genericGet

\* A tenant of the caller, or one that a rule for tenants matches.
LEMMA TenantEntitled ==
    ASSUME PlainRules, IndInv, NEW r \in Resources, isTenants(r), NEW n \in Tenants,
           NEW operation, NEW reqs, reqs \subseteq Reqs(tenantsGVK, operation),
           n \in callerTenants \/ MatchesOne(reqs, Labels(n, objects[n]))
    PROVE  EntitledTo(r, n, operation)
<1>1. CASE n \in callerTenants
    BY <1>1 DEF callerTenants, PlainRules, EntitledTo
<1>2. CASE MatchesOne(reqs, Labels(n, objects[n]))
    <2>1. Selected(caller.rules, tenantsGVK, operation, Labels(n, objects[n]))
        BY <1>2, RequirementSelects
    <2>2. ByRule(r, n, operation)
        BY <2>1, TenantRulesSelect DEF ByRule
    <2>3. QED
        BY <2>2 DEF EntitledTo
<1>3. QED
    BY <1>1, <1>2

\* What a tenant module works on is the caller's.
LEMMA TenantSnapshot ==
    ASSUME IndInv, request.pc \in {"tenantsList", "tenantsGet"}, request.steady, NEW operation
    PROVE  /\ userTenants \subseteq callerTenants
           /\ TenantRequirements(operation) \subseteq Reqs(tenantsGVK, operation)
           /\ request.resource \in Resources
<1>1. request.rules \subseteq caller.rules /\ request.own \subseteq caller.own
    BY DEF IndInv, RequestInv, Snapshot, Working
<1>2. request.resource \in Resources
    BY DEF IndInv, RequestInv, Stages, Requests
<1>3. QED
    BY <1>1, <1>2, FewerReqs DEF userTenants, callerTenants, TenantRequirements

LEMMA tenantsListEntitled ==
    ASSUME PlainRules, IndInv, tenantsList
    PROVE  EntitledInv'
<1>1. PICK reqs : reqs = TenantRequirements("List")
    OBVIOUS
<1>2. PICK names : names = userTenants \cup clusterScopedTenantNames(reqs)
    OBVIOUS
<1>3. PICK selector : selector = IF names = {} THEN Nothing ELSE In("metadata.name", names)
    OBVIOUS
<1>4. request.pc = "tenantsList"
    BY DEF tenantsList
<1>5. request.operation = "List" /\ isTenants(request.resource)
    BY <1>4 DEF IndInv, RequestInv, Stages
<1>6. CASE Fail \/ End("error")
    BY <1>6, EndEntitled
<1>7. CASE Filter(selector)
    <2>1. ASSUME request.steady, request.synced, NEW n \in Names, WouldShow(n, selector)
          PROVE  EntitledTo(request.resource, n, "List")
        <3>1. /\ SameKind(ResourceOf[n], request.resource)
              /\ SelectorMatches(selector, Labels(n, objects[n]))
            BY <1>5, <2>1 DEF WouldShow
        <3>2. n \in Tenants
            BY <1>5, <3>1, TenantKind
        <3>3. n \in names
            BY <1>2, <1>3, <3>1, <3>2, LabelledTenant
        <3>4. cached[n] = objects[n]
            BY <2>1, <3>2 DEF IndInv, RequestInv, Snapshot
        <3>5. /\ userTenants \subseteq callerTenants /\ reqs \subseteq Reqs(tenantsGVK, "List")
              /\ request.resource \in Resources
            BY <1>1, <1>4, <2>1, TenantSnapshot
        <3>6. CASE n \in userTenants
            BY <1>5, <3>2, <3>5, <3>6, TenantEntitled
        <3>7. CASE n \in clusterScopedTenantNames(reqs)
            <4>1. reqs # {} /\ SelectorMatches(HandleListSelector(reqs), Labels(n, objects[n]))
                BY <3>4, <3>7 DEF clusterScopedTenantNames
            <4>2. MatchesOne(reqs, Labels(n, objects[n]))
                BY <4>1, MergedMatchesOne
            <4>3. QED
                BY <1>5, <3>2, <3>5, <4>2, TenantEntitled
        <3>8. QED
            BY <1>2, <3>3, <3>6, <3>7
    <2>2. QED
        BY <1>5, <1>7, <2>1, SentEntitled
<1>8. QED
    BY <1>1, <1>2, <1>3, <1>6, <1>7 DEF tenantsList

LEMMA tenantsGetEntitled ==
    ASSUME PlainRules, IndInv, tenantsGet
    PROVE  EntitledInv'
<1>1. request.pc = "tenantsGet"
    BY DEF tenantsGet
<1>2. request.operation = "Get" /\ isTenants(request.resource)
    BY <1>1 DEF IndInv, RequestInv, Stages
<1>3. CASE Fail \/ End("notFound")
    BY <1>3, EndEntitled
<1>4. CASE /\ Filter({})
           /\ \/ request.name \in userTenants
              \/ MatchesOne(TenantRequirements("Get"),
                            Labels(request.name, cached[request.name]))
    <2>1. ASSUME request.steady, request.synced, NEW n \in Names, WouldShow(n, {})
          PROVE  EntitledTo(request.resource, n, "Get")
        <3>1. n = request.name /\ SameKind(ResourceOf[n], request.resource)
            BY <1>2, <2>1 DEF WouldShow
        <3>2. n \in Tenants
            BY <1>2, <2>1, <3>1, TenantKind
        <3>3. cached[n] = objects[n]
            BY <2>1, <3>2 DEF IndInv, RequestInv, Snapshot
        <3>4. /\ userTenants \subseteq callerTenants
              /\ TenantRequirements("Get") \subseteq Reqs(tenantsGVK, "Get")
              /\ request.resource \in Resources
            BY <1>1, <2>1, TenantSnapshot
        <3>5. QED
            BY <1>2, <1>4, <3>1, <3>2, <3>3, <3>4, TenantEntitled
    <2>2. QED
        BY <1>2, <1>4, <2>1, SentEntitled
<1>5. QED
    BY <1>3, <1>4 DEF tenantsGet

\* The catch-all module asks for tenants where the caller may list.
LEMMA ReflectTenantsEntitled ==
    ASSUME IndInv, ReflectTenants
    PROVE  EntitledInv'
<1>1. PICK sources : sources = request.sources \cup caller.reflected
    OBVIOUS
<1>2. PICK selector : selector = IF sources = {} THEN Nothing ELSE In("tenant", sources)
    OBVIOUS
<1>3. request.pc = "catchAll"
    BY DEF ReflectTenants
<1>4. /\ request.operation = "List" /\ request.resource.namespaced
      /\ ~isTenants(request.resource)
    BY <1>3 DEF IndInv, RequestInv, Stages, WorldType
<1>5. CASE Fail \/ End("error")
    BY <1>5, EndEntitled
<1>6. CASE Filter(selector)
    <2>1. ASSUME request.steady, NEW n \in Names, WouldShow(n, selector)
          PROVE  EntitledTo(request.resource, n, "List")
        <3>1. SelectorMatches(selector, Labels(n, objects[n]))
            BY <1>4, <2>1 DEF WouldShow
        <3>2. PICK t \in sources : t = TenantOf[n]
            <4>1. Labels(n, objects[n])["tenant"] \in sources
                BY <1>2, <3>1, NothingMatches, InMatches
            <4>2. QED
                BY <4>1, LabelValues
        <3>3. CASE t \in caller.reflected
            BY <1>4, <3>1, <3>2, <3>3 DEF EntitledTo
        <3>4. CASE t \in request.sources
            <4>1. MayList(t)
                BY <1>3, <2>1, <3>4 DEF IndInv, RequestInv, Snapshot
            <4>2. TenantNamespaces[t] \in Seq(Namespaces)
                BY <3>4, RuleViewAssumption DEF IndInv, Requests
            <4>3. 1 \in DOMAIN TenantNamespaces[t]
                BY <4>1, <4>2 DEF MayList
            <4>4. QED
                BY <1>4, <3>1, <3>2, <4>1, <4>3 DEF EntitledTo, MayList
        <3>5. QED
            BY <1>1, <3>2, <3>3, <3>4
    <2>2. QED
        BY <1>4, <1>6, <2>1, SentEntitled
<1>7. QED
    BY <1>1, <1>2, <1>5, <1>6 DEF ReflectTenants

\* The API server shows what the selector or the name asks for.
LEMMA SendEntitled ==
    ASSUME IndInv, EntitledInv, Send
    PROVE  EntitledInv'
<1>1. PICK shown : shown = {n \in Names :
                              /\ Present(n)
                              /\ IF request.operation \in Named THEN n = request.name
                                 ELSE SelectorMatches(request.selector, Labels(n, objects[n]))}
    OBVIOUS
<1>2. /\ request.pc = "send" /\ request.operation # "Create" /\ UNCHANGED world
      /\ request' = [Ending("shown") EXCEPT !.shown = shown]
    BY <1>1 DEF Send
<1>3. /\ request'.pc = "shown" /\ request'.shown = shown
      /\ request'.operation = request.operation /\ request'.resource = request.resource
      /\ request'.steady = request.steady /\ request'.synced = request.synced
    BY <1>2 DEF Ending, IndInv, Requests
<1>4. ASSUME request.steady, request.synced, NEW n \in shown
      PROVE  EntitledTo(request.resource, n, request.operation)
    <2>1. request.operation \in {"List", "Get"}
        BY <1>2 DEF IndInv, RequestInv, Stages
    <2>2. n \in Names /\ WouldShow(n, request.selector)
        BY <1>1, <1>4, <2>1 DEF WouldShow, Named, Present
    <2>3. QED
        BY <1>2, <1>4, <2>2 DEF EntitledInv, SentIsEntitled
<1>5. AnsweredIsEntitled'
    BY <1>2, <1>3, <1>4, EntitledSame DEF AnsweredIsEntitled
<1>6. QED
    BY <1>3, <1>5 DEF EntitledInv, SentIsEntitled

\* A POST shows nothing.
LEMMA SendCreateEntitled ==
    ASSUME IndInv, SendCreate
    PROVE  EntitledInv'
<1>1. request'.pc = "shown" /\ request'.shown = {}
    BY DEF SendCreate, Advance, Ending, IndInv, Requests
<1>2. QED
    BY <1>1 DEF EntitledInv, SentIsEntitled, AnsweredIsEntitled

LEMMA NextKeepsEntitled ==
    ASSUME PlainRules, IndInv, EntitledInv, [Next]_vars
    PROVE  EntitledInv'
<1>0. request \in Requests(request.selector)
    BY DEF IndInv
<1>1. CASE World
    <2>1. Changed \/ request' = NoRequest
        BY <1>1 DEF World, WriteObject, SyncTenant, WriteCaller, WriteDiscovery, Write, Start
    <2>2. ~request'.steady
        BY <1>0, <2>1 DEF Changed, NoRequest, Requests
    <2>3. QED
        BY <2>2, OtherEntitled
<1>2. ASSUME NEW operation, NEW r, NEW version, NEW n, Begin(operation, r, version, n)
      PROVE  EntitledInv'
    BY <1>2, OtherEntitled DEF Begin, NoRequest
<1>3. CASE Collect
    <2>1. CASE Fail
        BY <2>1, EndEntitled
    <2>2. CASE ~Fail
        <3>1. request'.pc = Route
            BY <1>0, <1>3, <2>2, Collecting DEF Collected, Advance, Ending, Requests
        <3>2. QED
            BY <3>1, Routing, OtherEntitled
    <2>3. QED
        BY <2>1, <2>2
<1>4. CASE genericList \/ genericGet
    BY <1>4, genericListEntitled, genericGetEntitled
<1>5. CASE tenantsList \/ tenantsGet
    BY <1>5, tenantsListEntitled, tenantsGetEntitled
<1>6. CASE ReviewTenant
    <2>1. CASE Fail
        BY <2>1, EndEntitled
    <2>2. CASE ~Fail
        <3>1. request'.pc = "catchAll"
            BY <1>0, <1>6, <2>2 DEF ReviewTenant, Advance, Requests
        <3>2. QED
            BY <3>1, OtherEntitled
    <2>3. QED
        BY <2>1, <2>2
<1>7. CASE ReflectTenants
    BY <1>7, ReflectTenantsEntitled
<1>8. CASE Send \/ SendCreate
    BY <1>8, SendEntitled, SendCreateEntitled
<1>9. CASE MutateAuthorization \/ MutateRules
    <2>1. request'.pc = "reviewed"
        BY <1>0, <1>9 DEF MutateAuthorization, MutateRules, Ending, Requests
    <2>2. QED
        BY <2>1, OtherEntitled
<1>10. CASE Return
    BY <1>10, OtherEntitled DEF Return, Advance, NoRequest
<1>11. CASE UNCHANGED vars
    <2>1. UNCHANGED world /\ request' = request
        BY <1>11 DEF vars, world
    <2>2. SentIsEntitled'
        BY <2>1, EntitledSame DEF EntitledInv, SentIsEntitled, WouldShow, world
    <2>3. AnsweredIsEntitled'
        BY <2>1, EntitledSame DEF EntitledInv, AnsweredIsEntitled, world
    <2>4. QED
        BY <2>2, <2>3 DEF EntitledInv
<1>12. QED
    BY <1>1, <1>2, <1>3, <1>4, <1>5, <1>6, <1>7, <1>8, <1>9, <1>10, <1>11 DEF Next, Serve

\* If nothing changes under a request and the cache of tenants is up to date,
\* it shows only what the caller is entitled to, whatever the rules, tenants,
\* resources and permissions, if every rule has one requirement and no Tenant is
\* called "global": by merged requirements, single requirements, names of
\* tenants or reviewed tenants (list.Handle, get.Handle, namespaced.CatchAll).
THEOREM ShownEntitled ==
    ASSUME PlainRules
    PROVE  Spec => []ShownIsEntitled
<1>1. Init => EntitledInv
    BY DEF Init, NoRequest, EntitledInv, SentIsEntitled, AnsweredIsEntitled
<1>2. IndInv /\ EntitledInv /\ [Next]_vars => EntitledInv'
    BY NextKeepsEntitled
<1>3. EntitledInv => ShownIsEntitled
    BY DEF EntitledInv, AnsweredIsEntitled, ShownIsEntitled, EntitledTo, ByRule, Entitled
<1>4. QED
    BY <1>1, <1>2, <1>3, Invariance, PTL DEF Spec

=============================================================================
