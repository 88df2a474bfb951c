--------------------------- MODULE LegacyModules ---------------------------
(***************************************************************************)
(* The modules that are registered without the feature gate                *)
(* ProxyClusterScoped: storage, priority, ingress and runtime classes,     *)
(* persistent volumes, nodes and node metrics.                             *)
(*                                                                         *)
(* A module's Handle decides from the caller's ProxyTenants and one read   *)
(* of the informer cache.  With a selector, the request is sent to the API *)
(* server under the proxy's token: the selector narrows a request for the  *)
(* collection, and is ignored in one for a named object.                   *)
(***************************************************************************)
EXTENDS Selectors, Naturals, Sequences

CONSTANTS
    Kinds,          \* the resources that are requested
    Names,          \* objects, ordered as their names are
    LongNames,      \* names that are too long for the value of a label
    Objects,        \* [labelled, labels]: whether its name is a label, and other labels
    Keys,           \* of labels
    ProxyTenants,   \* sequences of [tenant, operations, spec, nodeSelector]
    Methods,
    CallsFail,      \* whether reads may fail
    MaxWrites,      \* bound: changes of objects
    NoObject

LegacyKinds == {"StorageClasses", "PriorityClasses", "IngressClasses", "RuntimeClasses",
                "PersistentVolumes", "Nodes", "NodeMetrics"}

ASSUME LegacyAssumption ==
    /\ Kinds \subseteq LegacyKinds
    /\ Names \subseteq Nat
    /\ LongNames \subseteq Names
    /\ Methods \subseteq {"GET", "PUT", "PATCH", "DELETE", "POST"}
    /\ NoObject \notin Names /\ NoObject \notin Objects /\ NoObject \notin Kinds
    /\ NoLabel \notin Names
    /\ "dontexistsignoreme" \notin Keys
    /\ CallsFail \in BOOLEAN
    /\ MaxWrites \in Nat

\* The tenants, and the names in each specification, are sequences.
ASSUME ProxyTenantsAssumption ==
    \A pts \in ProxyTenants :
        /\ Len(pts) \in Nat /\ DOMAIN pts = 1..Len(pts)
        /\ \A i \in DOMAIN pts, kind \in Kinds :
              /\ pts[i].spec[kind].exact \in Seq(Names)
              /\ pts[i].spec[kind].default \in Names \cup {NoObject}

VARIABLES
    caller,     \* the resource it asks for, and its ProxyTenants
    objects,    \* the objects in the API server
    cache,      \* in the informer cache
    request,    \* the request being served
    listed,     \* what the last LIST showed, if nothing changed since
    writes

vars == <<caller, objects, cache, request, listed, writes>>

\* The labels kubernetes.io/metadata.name and kubernetes.io/hostname hold the
\* object's name, if they are there.  The modules decide by the name and select
\* by the label (storageclass/utils.go:96, utils/node.go:25): that the two agree
\* is an assumption about the cluster, which nothing in the proxy checks.
Labels(n, obj) ==
    [key \in Keys \cup {"name", "dontexistsignoreme"} |->
        IF key = "name" THEN (IF obj.labelled THEN n ELSE NoLabel)
        ELSE IF key \in Keys THEN obj.labels[key]
        ELSE NoLabel]

-----------------------------------------------------------------------------
(* Operations and ProxyTenants. *)

\* Mutant: to update, List is enough.
IsAllowedList(operations, method) ==
    "List" \in operations /\ method \in {"GET", "PUT", "PATCH", "DELETE"}

IsAllowed(operations, method) ==
    /\ "List" \in operations
    /\ \/ method = "GET"
       \/ method \in {"PUT", "PATCH"} /\ "Update" \in operations
       \/ method = "DELETE" /\ "Delete" \in operations

RequestAllowed(pt, kind, method) == IsAllowed(pt.operations[kind], method)

\* The indices of the tenants that allow the method.
AllowedTenants(kind, pts, method) ==
    {i \in DOMAIN pts : RequestAllowed(pts[i], kind, method)}

-----------------------------------------------------------------------------
(***************************************************************************)
(* The classes that the tenants allow: names, what regular expressions     *)
(* match, and requirements.  A tenant without a specification for the kind *)
(* allows nothing.                                                         *)
(***************************************************************************)

\* sort.SliceStable with less(i, _) = exact[i] < exact[0], for up to 20 names:
\* insertion sort moves a name that is less than the first one to the front.
SliceStable(exact) ==
    LET sorted[i \in 0..Len(exact)] ==
            IF i = 0 THEN << >>
            ELSE IF i > 1 /\ exact[i] < sorted[i - 1][1] THEN <<exact[i]>> \o sorted[i - 1]
            ELSE Append(sorted[i - 1], exact[i])
    IN  sorted[Len(exact)]

\* sort.SearchStrings: the least index from which on the names are not less,
\* if the sequence is sorted; counted from 0.
SearchStrings(exact, name) ==
    LET search[i \in 0..Len(exact), j \in 0..Len(exact)] ==
            LET h == (i + j) \div 2
            IN  IF i >= j THEN i
                ELSE IF exact[h + 1] < name THEN search[h + 1, j]
                ELSE search[i, h]
    IN  search[0, Len(exact)]

FoundExact(exact, name) ==
    \E i \in DOMAIN exact : i = SearchStrings(exact, name) + 1 /\ exact[i] = name

ExactOf(spec) == spec.exact \o (IF spec.default # NoObject THEN <<spec.default>> ELSE << >>)

\* The collection that the class modules have in common.
Collect(kind, pts, method) ==
    LET allowed == AllowedTenants(kind, pts, method)
        spec(i) == pts[i].spec[kind]
    IN  [allowed |-> allowed # {},
         exact |-> SliceStable(FlattenSeq(
                     [i \in DOMAIN pts |-> IF i \in allowed THEN ExactOf(spec(i)) ELSE << >>])),
         regex |-> UNION {spec(i).regex : i \in allowed},
         requirements |-> UNION {spec(i).selector :
                                   i \in {j \in allowed : spec(j).selector # NoSelector}}]

\* Mutant: the settings of the storage classes.
getPriorityClassOfStorage(r) == Collect("StorageClasses", r.proxyTenants, r.method)

getStorageClasses(r) == Collect("StorageClasses", r.proxyTenants, r.method)
getPriorityClass(r) == Collect("PriorityClasses", r.proxyTenants, r.method)
getIngressClasses(r) == Collect("IngressClasses", r.proxyTenants, r.method)
getRuntimeClass(r) == Collect("RuntimeClasses", r.proxyTenants, r.method)

\* Without names, or with one that no label can have, there is an error.
NamesRequirement(names) ==
    IF names = {} \/ names \cap LongNames # {} THEN {}
    ELSE {[key |-> "name", operator |-> "In", values |-> names]}

\* The names among the classes that were read.
ClassSelector(classes, c) ==
    NamesRequirement({n \in classes : n \in c.regex \/ FoundExact(c.exact, n)})

getStorageClassSelector(classes, c) == ClassSelector(classes, c)
getPriorityClassSelector(classes, c) == ClassSelector(classes, c)
getIngressClassSelector(classes, c) == ClassSelector(classes, c)

-----------------------------------------------------------------------------
(* Decisions: filter with a selector, impersonate, or an error.  A selector *)
(* is a set of requirements, which is empty if there is none.               *)

Filter(selector) == [outcome |-> "filter", selector |-> selector]
Impersonate == [outcome |-> "impersonate", selector |-> {}]
Refuse(outcome) == [outcome |-> outcome, selector |-> {}]

Nothing == {[key |-> "dontexistsignoreme", operator |-> "Exists", values |-> {}]}

Cached == {n \in Names : cache[n] # NoObject}
CachedWithLabel(name) == {n \in Cached : Labels(n, cache[n])["name"] = name}

\* Mutant: all requirements must match.
HandleGetSelectorAll(requirements, name) ==
    IF name \notin Cached THEN Refuse("notFound")
    ELSE IF SelectorMatches(requirements, Labels(name, cache[name])) THEN Filter(requirements)
    ELSE Refuse("notFound")

\* One match is enough.  The code filters by the first requirement that
\* matches, here by all that do: the API server ignores it.
HandleGetSelector(requirements, name) ==
    IF name \notin Cached THEN Refuse("notFound")
    ELSE LET labels == Labels(name, cache[name])
         IN  IF MatchesOne(requirements, labels)
             THEN Filter({req \in requirements : Matches(req, labels)})
             ELSE Refuse("notFound")

\* Mutant: the error for no names is not looked at.
ListClassesUnchecked(c, selector) ==
    IF c.requirements # {} THEN Filter(HandleListSelector(c.requirements))
    ELSE Filter(selector)

\* Handle of the three class modules for a collection, and for a name.
ListClasses(c, selector) ==
    IF c.requirements # {} THEN Filter(HandleListSelector(c.requirements))
    ELSE IF selector # {} THEN Filter(selector)
    ELSE IF ~c.allowed THEN Refuse("notAllowed")
    ELSE Filter(Nothing)

GetClass(r, c, selector) ==
    IF c.requirements # {} THEN HandleGetSelector(c.requirements, r.name)
    ELSE IF selector # {} THEN Filter(selector)
    ELSE IF r.method = "GET" THEN Refuse("notFound")
    ELSE Impersonate

storageclassList(r) ==
    LET c == getStorageClasses(r) IN ListClasses(c, getStorageClassSelector(Cached, c))

storageclassGet(r) ==
    LET c == getStorageClasses(r)
    IN  GetClass(r, c, getStorageClassSelector(CachedWithLabel(r.name), c))

priorityclassList(r) ==
    LET c == getPriorityClass(r) IN ListClasses(c, getPriorityClassSelector(Cached, c))

priorityclassGet(r) ==
    LET c == getPriorityClass(r)
    IN  GetClass(r, c, getPriorityClassSelector(CachedWithLabel(r.name), c))

\* Ingress classes exist in two versions; a LIST by labels takes any.
Supported(r) == r.version = "v1"

ingressclassList(r) ==
    LET c == getIngressClasses(r)
    IN  IF c.requirements = {} /\ ~Supported(r) THEN Refuse("badRequest")
        ELSE ListClasses(c, getIngressClassSelector(Cached, c))

ingressclassGet(r) ==
    LET c == getIngressClasses(r)
    IN  IF ~Supported(r) THEN Refuse("badRequest")
        ELSE GetClass(r, c, getIngressClassSelector(CachedWithLabel(r.name), c))

runtimeclassList(r) ==
    LET c == getRuntimeClass(r)
    IN  IF ~c.allowed THEN Refuse("notAllowed")
        ELSE IF c.requirements = {} THEN Filter(Nothing)
        ELSE Filter(HandleListSelector(c.requirements))

runtimeclassGet(r) ==
    LET c == getRuntimeClass(r)
    IN  IF c.requirements = {} THEN Refuse("notFound")
        ELSE HandleGetSelector(c.requirements, r.name)

\* The tenants whose volumes the caller may see.  Without one, there is no
\* requirement to dereference.
getPersistentVolume(r) ==
    [key |-> "tenant", operator |-> "In",
     values |-> {r.proxyTenants[i].tenant :
                   i \in AllowedTenants("PersistentVolumes", r.proxyTenants, r.method)}]

persistentvolumeList(r) ==
    LET req == getPersistentVolume(r)
    IN  IF req.values = {} THEN Refuse("panic") ELSE Filter(HandleListSelector({req}))

persistentvolumeGet(r) ==
    LET req == getPersistentVolume(r)
    IN  IF req.values = {} THEN Refuse("panic") ELSE HandleGetSelector({req}, r.name)

\* The nodes that have all labels of some tenant's node selector.
GetNodeSelector(nodes, selectors) ==
    NamesRequirement({n \in nodes : \E s \in selectors : \A l \in s :
                        Labels(n, cache[n])[l.key] = l.value})

GetNodeSelectors(r) == {r.proxyTenants[i].nodeSelector : i \in DOMAIN r.proxyTenants}

nodeList(r) ==
    LET selector == GetNodeSelector(Cached, GetNodeSelectors(r))
    IN  Filter(IF selector # {} THEN selector ELSE Nothing)

nodeGet(r) ==
    LET selector == GetNodeSelector(CachedWithLabel(r.name), GetNodeSelectors(r))
    IN  IF selector # {} THEN Filter(selector)
        ELSE IF r.method = "GET" THEN Refuse("notFound")
        ELSE Impersonate

\* Metrics of nodes are filtered by what the nodes' cache says.
metricList(r) == nodeList(r)
metricGet(r) == nodeGet(r)

ListDecision(r) ==
    CASE r.kind = "StorageClasses" -> storageclassList(r)
      [] r.kind = "PriorityClasses" -> priorityclassList(r)
      [] r.kind = "IngressClasses" -> ingressclassList(r)
      [] r.kind = "RuntimeClasses" -> runtimeclassList(r)
      [] r.kind = "PersistentVolumes" -> persistentvolumeList(r)
      [] r.kind = "Nodes" -> nodeList(r)
      [] r.kind = "NodeMetrics" -> metricList(r)

GetDecision(r) ==
    CASE r.kind = "StorageClasses" -> storageclassGet(r)
      [] r.kind = "PriorityClasses" -> priorityclassGet(r)
      [] r.kind = "IngressClasses" -> ingressclassGet(r)
      [] r.kind = "RuntimeClasses" -> runtimeclassGet(r)
      [] r.kind = "PersistentVolumes" -> persistentvolumeGet(r)
      [] r.kind = "Nodes" -> nodeGet(r)
      [] r.kind = "NodeMetrics" -> metricGet(r)

-----------------------------------------------------------------------------
(* Actions. *)

NoRequest ==
    [pc |-> "idle", kind |-> NoObject, method |-> "GET", name |-> NoObject, version |-> "v1",
     proxyTenants |-> << >>, decision |-> Impersonate, shown |-> {},
     steady |-> FALSE, synced |-> FALSE]

Changed ==
    /\ request' = [request EXCEPT !.steady = FALSE]
    /\ listed' = {}

\* An object is created, changed or deleted in the API server.
Write ==
    /\ writes < MaxWrites
    /\ \E n \in Names, obj \in Objects \cup {NoObject} :
          /\ obj # objects[n]
          /\ objects' = [objects EXCEPT ![n] = obj]
    /\ writes' = writes + 1
    /\ Changed
    /\ UNCHANGED <<caller, cache>>

\* The informer catches up with an object.
Sync ==
    /\ \E n \in Names :
          /\ cache[n] # objects[n]
          /\ cache' = [cache EXCEPT ![n] = objects[n]]
    /\ Changed
    /\ UNCHANGED <<caller, objects, writes>>

Begin(method, name, version) ==
    /\ request.pc \in {"idle", "answered", "impersonated", "refused"}
    /\ request' = [NoRequest EXCEPT !.pc = "handle", !.kind = caller.kind,
                                    !.proxyTenants = caller.proxyTenants, !.method = method,
                                    !.name = name, !.version = version,
                                    !.steady = TRUE, !.synced = cache = objects]
    /\ UNCHANGED <<caller, objects, cache, listed, writes>>

Named == request.name # NoObject

\* The module reads the cache and decides; an error ends the request.
Handle ==
    /\ request.pc = "handle"
    /\ LET d == IF Named THEN GetDecision(request) ELSE ListDecision(request)
           next == CASE d.outcome = "filter" -> "send"
                     [] d.outcome = "impersonate" -> "impersonated"
                     [] OTHER -> "refused"
       IN  request' = [request EXCEPT !.pc = next, !.decision = d]
    /\ UNCHANGED <<caller, objects, cache, listed, writes>>

\* Whether the module reads the cache: not for a collection that is filtered
\* by labels, nor where there is nothing to filter by.
Reads(r) ==
    CASE r.kind \in {"StorageClasses", "PriorityClasses", "IngressClasses"} ->
             /\ Named \/ Collect(r.kind, r.proxyTenants, r.method).requirements = {}
             /\ Supported(r)
      [] r.kind = "RuntimeClasses" -> Named /\ getRuntimeClass(r).requirements # {}
      [] r.kind = "PersistentVolumes" -> Named /\ getPersistentVolume(r).values # {}
      [] OTHER -> TRUE

\* Whether a regular expression is compiled: MustCompile panics if it is not
\* valid, which the recovery middleware answers.
Compiles(r) ==
    /\ r.kind \in {"StorageClasses", "PriorityClasses", "IngressClasses"}
    /\ Collect(r.kind, r.proxyTenants, r.method).regex # {}

ReadFails ==
    /\ CallsFail
    /\ request.pc = "handle"
    /\ Reads(request) \/ Compiles(request)
    /\ request' = [request EXCEPT !.pc = "refused", !.decision = Refuse("error")]
    /\ UNCHANGED <<caller, objects, cache, listed, writes>>

\* A request that creates an object: the methods of the node modules are not
\* limited, so that it is sent under the proxy's token.
Creates == request.method = "POST" /\ ~Named

\* The API server creates an object that does not exist, or refuses to.
SendCreate ==
    /\ request.pc = "send" /\ Creates
    /\ \/ /\ \E n \in Names, obj \in Objects :
                /\ objects[n] = NoObject
                /\ objects' = [objects EXCEPT ![n] = obj]
          /\ request' = [request EXCEPT !.pc = "answered", !.shown = {}, !.steady = FALSE]
          /\ listed' = {}
       \/ /\ request' = [request EXCEPT !.pc = "answered", !.shown = {}]
          /\ UNCHANGED <<objects, listed>>
    /\ UNCHANGED <<caller, cache, writes>>

\* The API server serves the filtered request.
Send ==
    /\ request.pc = "send" /\ ~Creates
    /\ LET matched == {n \in Names :
                         /\ objects[n] # NoObject
                         /\ IF Named THEN n = request.name
                            ELSE SelectorMatches(request.decision.selector, Labels(n, objects[n]))}
           shown == {<<n, Labels(n, objects[n])>> : n \in matched}
       IN  /\ request' = [request EXCEPT !.pc = "answered", !.shown = shown]
           /\ listed' = IF ~Named /\ request.method = "GET" /\ request.steady /\ request.synced
                        THEN matched ELSE listed
    /\ UNCHANGED <<caller, objects, cache, writes>>

Init ==
    /\ caller \in [kind : Kinds, proxyTenants : ProxyTenants]
    /\ objects \in [Names -> Objects \cup {NoObject}]
    /\ cache = objects
    /\ request = NoRequest
    /\ listed = {}
    /\ writes = 0

Next ==
    \/ Write
    \/ Sync
    \/ \E method \in Methods, name \in Names \cup {NoObject}, version \in {"v1", "other"} :
          /\ version = "other" => caller.kind = "IngressClasses"
          /\ Begin(method, name, version)
    \/ Handle
    \/ ReadFails
    \/ Send \/ SendCreate

Spec == Init /\ [][Next]_vars

-----------------------------------------------------------------------------
(* Properties. *)

\* The type invariant of the caches and of the request.
TypeOK ==
    /\ objects \in [Names -> Objects \cup {NoObject}]
    /\ cache \in [Names -> Objects \cup {NoObject}]
    /\ request.pc \in {"idle", "handle", "send", "answered", "impersonated", "refused"}
    /\ request.kind \in Kinds \cup {NoObject}
    /\ request.name \in Names \cup {NoObject}
    /\ request.pc = "send" => request.decision.selector # {}
    /\ listed \subseteq Names
    /\ writes \in 0..MaxWrites

\* The operations that a method needs; nothing allows to create.
Needed ==
    [GET |-> {"List"}, PUT |-> {"List", "Update"}, PATCH |-> {"List", "Update"},
     DELETE |-> {"List", "Delete"}, POST |-> {"Create"}]

\* A tenant allows the object, for the method.
AllowedBy(pt, kind, method, n, labels) ==
    IF kind \in {"Nodes", "NodeMetrics"}
    THEN \A l \in pt.nodeSelector : labels[l.key] = l.value
    ELSE /\ Needed[method] \subseteq pt.operations[kind]
         /\ IF kind = "PersistentVolumes" THEN labels["tenant"] = pt.tenant
            ELSE LET spec == pt.spec[kind]
                 IN  \/ n = spec.default \/ n \in spec.regex
                     \/ \E i \in DOMAIN spec.exact : spec.exact[i] = n
                     \/ /\ spec.selector \notin {NoSelector, {}}
                        /\ SelectorMatches(spec.selector, labels)

\* A tenant of the caller does.
Allowed(r, n, labels) ==
    \E i \in DOMAIN r.proxyTenants : AllowedBy(r.proxyTenants[i], r.kind, r.method, n, labels)

ShownIsAllowed == \A s \in request.shown : Allowed(request, s[1], s[2])

\* Every selector of a tenant is one requirement at most.  The requirements of
\* a selector with more of them are taken apart by the union over the tenants.
PlainSelectors ==
    \A pts \in ProxyTenants : \A i \in DOMAIN pts, kind \in Kinds :
        LET selector == pts[i].spec[kind].selector
        IN  selector # NoSelector => \A req, other \in selector : req = other

\* However stale the cache is, a filtered request for a collection (to list,
\* or to delete it) reaches only objects that a tenant of the caller allows
\* for the method, nodes excepted: the names or labels in the selector are
\* compared by the API server (storageclass, priorityclass, ingressclass,
\* runtimeclass and persistentvolume list.go).
CollectionIsAllowed ==
    /\ request.pc = "answered"
    /\ ~Named
    /\ request.kind \notin {"Nodes", "NodeMetrics"}
    => ShownIsAllowed

\* With an up to date cache, every filtered request reaches only objects that
\* a tenant of the caller allows for the method (IsAllowed, HandleGetSelector,
\* GetNodeSelector).  The node modules look at no operations: a tenant
\* allows its nodes for every method.
ReachedIsAllowed ==
    request.pc = "answered" /\ request.steady /\ request.synced => ShownIsAllowed

\* What a LIST has shown is found by a GET, if nothing changed in between: the
\* two decide by merged requirements and by single ones, by all names that
\* were read and by one (HandleListSelector, HandleGetSelector).
ListedIsFound ==
    /\ request.pc = "refused" /\ request.decision.outcome = "notFound"
    /\ request.method = "GET"
    => request.name \notin listed

\* "List storageClasses with List operation": a LIST shows every class that a
\* tenant of the caller allows by its name.
AllowedIsListed ==
    /\ request.pc = "answered" /\ request.steady /\ request.synced
    /\ ~Named /\ request.method = "GET"
    => \A n \in Names :
          objects[n] # NoObject /\ objects[n].labelled /\ Allowed(request, n, Labels(n, objects[n]))
              => \E s \in request.shown : s[1] = n

=============================================================================
