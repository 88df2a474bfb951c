------------------------ MODULE RoleBindingReflector ------------------------
(***************************************************************************)
(* The RoleBinding reflector (internal/controllers/role_bindings.go): from *)
(* the informer caches of RoleBindings, Roles, ClusterRoles and Namespaces *)
(* it computes the tenants in which a user may use a resource, and keeps   *)
(* the answers in a result cache that informer events invalidate.          *)
(*                                                                         *)
(* Lookups run concurrently, one per HTTP request, and read the informer   *)
(* caches one List or Get at a time, without a snapshot; the handlers that *)
(* invalidate the results run later than the cache updates they report,    *)
(* and are only registered some time after the first requests are served.  *)
(***************************************************************************)
EXTENDS Naturals, Sequences, FiniteSets

CONSTANTS
    Threads,           \* goroutines that serve requests
    Queries,           \* arguments of GetUserTenantNamesForResource
    BindingIds,        \* RoleBindings: [namespace, name]
    BindingObjects,    \* [labelled, subjects, roleRef]
    RoleIds,           \* Roles, ClusterRoles: [kind, namespace, name]
    RoleObjects,       \* sets of policy rules
    NamespaceIds,
    NamespaceObjects,  \* [newLabel, label, owners]
    KubeNamespace,     \* a namespace that the API server never deletes
    NoObject,          \* no such object in the informer cache
    NoTenant,          \* the empty tenant name
    NoResult,          \* no entry in the result cache
    MaxWrites          \* bound: informer cache updates

ASSUME ConstantsAssumption ==
    /\ IsFiniteSet(BindingIds) /\ IsFiniteSet(RoleIds) /\ IsFiniteSet(NamespaceIds)
    /\ KubeNamespace \in NamespaceIds
    /\ NoObject \notin BindingObjects
    /\ NoObject \notin RoleObjects
    /\ NoObject \notin NamespaceObjects
    /\ \A r \in RoleIds : r.kind \in {"Role", "ClusterRole"}
    /\ MaxWrites \in Nat

VARIABLES
    roleBindings, roles, namespaces,   \* the informer caches
    pending,            \* informer -> notifications its handler has not seen
    registered,         \* how many informers Start has given the handler
    results,            \* r.results
    resultsGeneration,  \* r.resultsGeneration
    lookup,             \* thread -> state of its lookup
    writes              \* informer cache updates so far

objects == <<roleBindings, roles, namespaces>>
vars == <<roleBindings, roles, namespaces, pending, registered, results,
          resultsGeneration, lookup, writes>>

-----------------------------------------------------------------------------
(***************************************************************************)
(* Index keys.  A name is the sequence of its parts between dashes, so     *)
(* joining strings with "-" is concatenation, and an empty namespace adds  *)
(* nothing to the key.                                                     *)
(***************************************************************************)
subjectKey(subject) == <<subject.kind>> \o subject.namespace \o subject.name

OwnerRoleBindingsIndexFunc(rb) == {subjectKey(s) : s \in rb.subjects}

ReflectionRoleBindingsIndexFunc(rb) ==
    IF rb.labelled THEN OwnerRoleBindingsIndexFunc(rb) ELSE {}

\* The keys getRoleBindingsForSubject looks up: the user or service account,
\* and each of its groups.
SubjectKeys(q) == {subjectKey(s) : s \in {q.user} \cup q.groups}

\* List with MatchingFields{reflectionSubjectIndex: key}
Indexed(rb, key) ==
    /\ rb # NoObject
    /\ key \in ReflectionRoleBindingsIndexFunc(rb)

-----------------------------------------------------------------------------
(* RBAC matching and tenant names. *)

matchesRBACValue(values, requested) == values \cap {"*", requested} # {}

policyRuleAllows(rule, q) ==
    /\ rule.resourceNames = {}
    /\ matchesRBACValue(rule.verbs, q.verb)
    /\ matchesRBACValue(rule.apiGroups, q.apiGroup)
    /\ matchesRBACValue(rule.resources, q.resource)

\* The role a binding refers to: a Role in the binding's own namespace, or a
\* ClusterRole.
RoleKey(b, ref) ==
    [kind |-> ref.kind,
     namespace |-> IF ref.kind = "Role" THEN b.namespace ELSE "",
     name |-> ref.name]

\* The loop body of GetUserNamespacesForResource for binding b, read as rb.
Grants(b, rb, q) ==
    LET id == RoleKey(b, rb.roleRef)
    IN  /\ rb.roleRef.apiGroup = "rbac.authorization.k8s.io"
        /\ rb.roleRef.kind \in {"Role", "ClusterRole"}
        /\ id \in RoleIds
        /\ roles[id] # NoObject
        /\ \E rule \in roles[id] : policyRuleAllows(rule, q)

reflectedTenantName(ns) ==
    LET tenantOwners == SelectSeq(ns.owners, LAMBDA o : o.kind = "Tenant")
    IN  IF ns.newLabel # NoTenant THEN ns.newLabel
        ELSE IF ns.label # NoTenant THEN ns.label
        ELSE IF tenantOwners # << >> THEN tenantOwners[1].name
        ELSE NoTenant

\* Mutant: the empty tenant name is inserted as well.
TenantsOfAny(n) ==
    IF n \in NamespaceIds /\ namespaces[n] # NoObject
    THEN {reflectedTenantName(namespaces[n])}
    ELSE {}

\* What the loop over the namespaces inserts for namespace n.
TenantsOf(n) ==
    IF n \in NamespaceIds /\ namespaces[n] # NoObject
    THEN {reflectedTenantName(namespaces[n])} \ {NoTenant}
    ELSE {}

\* The answer to q if all reads were made now.
FreshTenants(q) ==
    UNION {TenantsOf(b.namespace) :
              b \in {c \in BindingIds :
                        /\ \E key \in SubjectKeys(q) : Indexed(roleBindings[c], key)
                        /\ Grants(c, roleBindings[c], q)}}

-----------------------------------------------------------------------------
(***************************************************************************)
(* The informers.  Start registers the handler in this order.              *)
(***************************************************************************)
Informers == <<"RoleBinding", "Role", "ClusterRole", "Namespace">>
InformerNames == {"RoleBinding", "Role", "ClusterRole", "Namespace"}

Registered(i) == \E k \in 1..registered : Informers[k] = i

\* The objects in an informer's cache.
Objects(i) ==
    IF i = "RoleBinding" THEN {b \in BindingIds : roleBindings[b] # NoObject}
    ELSE IF i = "Namespace" THEN {n \in NamespaceIds : namespaces[n] # NoObject}
    ELSE {r \in RoleIds : r.kind = i /\ roles[r] # NoObject}

\* An informer updates its cache and notifies its handlers, if there are any.
Notify(i) ==
    /\ writes < MaxWrites
    /\ writes' = writes + 1
    /\ pending' = IF Registered(i) THEN [pending EXCEPT ![i] = @ + 1] ELSE pending
    /\ UNCHANGED <<registered, results, resultsGeneration, lookup>>

\* An object is created, updated, deleted or resynced (written unchanged).
WriteRoleBinding ==
    \E b \in BindingIds, rb \in BindingObjects \cup {NoObject} :
        /\ roleBindings[b] # NoObject \/ rb # NoObject
        /\ roleBindings' = [roleBindings EXCEPT ![b] = rb]
        /\ UNCHANGED <<roles, namespaces>>
        /\ Notify("RoleBinding")

WriteRole ==
    \E r \in RoleIds, role \in RoleObjects \cup {NoObject} :
        /\ roles[r] # NoObject \/ role # NoObject
        /\ roles' = [roles EXCEPT ![r] = role]
        /\ UNCHANGED <<roleBindings, namespaces>>
        /\ Notify(r.kind)

WriteNamespace ==
    \E n \in NamespaceIds, ns \in NamespaceObjects \cup {NoObject} :
        /\ namespaces[n] # NoObject \/ ns # NoObject
        /\ n = KubeNamespace => ns # NoObject
        /\ namespaces' = [namespaces EXCEPT ![n] = ns]
        /\ UNCHANGED <<roleBindings, roles>>
        /\ Notify("Namespace")

\* Start: AddEventHandler on the next informer, which replays the objects in
\* its cache to the new handler as additions.
Start ==
    /\ registered < Len(Informers)
    /\ registered' = registered + 1
    /\ LET i == Informers[registered + 1]
       IN  pending' = [pending EXCEPT ![i] = Cardinality(Objects(i))]
    /\ UNCHANGED <<objects, results, resultsGeneration, lookup, writes>>

\* Mutant: the results are cleared, the generation stays.
invalidateResultsKeepGeneration(i) ==
    /\ pending[i] > 0
    /\ pending' = [pending EXCEPT ![i] = @ - 1]
    /\ results' = [q \in Queries |-> NoResult]
    /\ UNCHANGED <<objects, registered, lookup, writes, resultsGeneration>>

\* Mutant: an event that was queued while the handlers were being registered
\* invalidates nothing.
invalidateResultsWhenStarted(i) ==
    /\ pending[i] > 0
    /\ pending' = [pending EXCEPT ![i] = @ - 1]
    /\ results' = IF registered = 4 THEN results ELSE [q \in Queries |-> NoResult]
    /\ UNCHANGED <<objects, registered, lookup, writes, resultsGeneration>>

\* The handler runs for one notification of informer i.
invalidateResults(i) ==
    /\ pending[i] > 0
    /\ pending' = [pending EXCEPT ![i] = @ - 1]
    /\ resultsGeneration' = resultsGeneration + 1
    /\ results' = [q \in Queries |-> NoResult]
    /\ UNCHANGED <<objects, registered, lookup, writes>>

-----------------------------------------------------------------------------
(***************************************************************************)
(* GetUserTenantNamesForResource.  A lookup records the generation it      *)
(* read, the index keys it has still to List, the RoleBindings it found    *)
(* (the last copy it read of each), the ones whose role it has read, the   *)
(* namespaces they grant, the ones it has read, and their tenants.         *)
(***************************************************************************)
Idle == [pc |-> "idle"]

Called(q) == [pc |-> "called", query |-> q]

Reading(q, generation) ==
    [pc |-> "reading", query |-> q, generation |-> generation,
     keys |-> SubjectKeys(q), found |-> [b \in BindingIds |-> NoObject],
     rolesRead |-> {}, granted |-> {}, namespacesRead |-> {}, tenants |-> {}]

Bound(l) == {b \in BindingIds : l.found[b] # NoObject}

\* The lookup has a list of namespaces: it has read every binding and role.
Listed(l) == l.keys = {} /\ Bound(l) \subseteq l.rolesRead

SetLookup(t, l) ==
    /\ lookup' = [lookup EXCEPT ![t] = l]
    /\ UNCHANGED <<objects, pending, registered, resultsGeneration, writes>>

\* cachedResult.  On a hit the lookup returns the stored tenants at once.
cachedResult(t, q) ==
    /\ lookup[t].pc = "idle"
    /\ LET hit == results[q] # NoResult /\ results[q].generation = resultsGeneration
       IN  SetLookup(t, IF hit THEN Idle ELSE Called(q))
    /\ UNCHANGED results

resultGeneration(t) ==
    /\ lookup[t].pc = "called"
    /\ SetLookup(t, Reading(lookup[t].query, resultsGeneration))
    /\ UNCHANGED results

\* A lookup with the outcome of one more read: a List of the bindings under
\* an index key, a Get of a binding's role, a Get of a namespace.
WithBindings(l, key) ==
    [l EXCEPT !.keys = @ \ {key},
              !.found = [b \in BindingIds |->
                            IF Indexed(roleBindings[b], key)
                            THEN roleBindings[b] ELSE @[b]]]

WithRole(l, b) ==
    [l EXCEPT !.rolesRead = @ \cup {b},
              !.granted = IF Grants(b, l.found[b], l.query)
                          THEN @ \cup {b.namespace} ELSE @]

WithNamespace(l, n) ==
    [l EXCEPT !.namespacesRead = @ \cup {n},
              !.tenants = @ \cup TenantsOf(n)]

\* getRoleBindingsForSubject: one List of the subject index.
ListRoleBindings(t) ==
    LET l == lookup[t]
    IN  /\ l.pc = "reading"
        /\ \E key \in l.keys :
              SetLookup(t, WithBindings(l, key))
        /\ UNCHANGED results

\* Mutant: a role that is not found is tried again.
GetRoleRetry(t) ==
    LET l == lookup[t]
    IN  /\ l.pc = "reading"
        /\ l.keys = {}
        /\ \E b \in Bound(l) \ l.rolesRead :
              /\ roles[RoleKey(b, l.found[b].roleRef)] # NoObject
              /\ SetLookup(t, WithRole(l, b))
        /\ UNCHANGED results

\* GetUserNamespacesForResource: Get the role of one binding, in the order of
\* a map iteration.
GetRole(t) ==
    LET l == lookup[t]
    IN  /\ l.pc = "reading"
        /\ l.keys = {}
        /\ \E b \in Bound(l) \ l.rolesRead :
              SetLookup(t, WithRole(l, b))
        /\ UNCHANGED results

\* GetUserTenantNamesForResource: Get one of the granted namespaces.
GetNamespace(t) ==
    LET l == lookup[t]
    IN  /\ l.pc = "reading"
        /\ Listed(l)
        /\ \E n \in l.granted \ l.namespacesRead :
              SetLookup(t, WithNamespace(l, n))
        /\ UNCHANGED results

\* Mutant: the answer is stored whatever happened since the reads began.
storeResultUnchecked(t) ==
    LET l == lookup[t]
    IN  /\ l.pc = "reading"
        /\ Listed(l)
        /\ l.granted \subseteq l.namespacesRead
        /\ results' = [results EXCEPT ![l.query] =
                          [generation |-> resultsGeneration, tenants |-> l.tenants]]
        /\ SetLookup(t, Idle)

\* storeResult, and the return of the answer.
storeResult(t) ==
    LET l == lookup[t]
    IN  /\ l.pc = "reading"
        /\ Listed(l)
        /\ l.granted \subseteq l.namespacesRead
        /\ results' = IF l.generation = resultsGeneration
                      THEN [results EXCEPT ![l.query] =
                              [generation |-> l.generation, tenants |-> l.tenants]]
                      ELSE results
        /\ SetLookup(t, Idle)

\* A read fails with an error other than NotFound, or the service account's
\* user name cannot be parsed: the lookup returns the error, storing nothing.
LookupError(t) ==
    /\ lookup[t].pc = "reading"
    /\ ~ (Listed(lookup[t]) /\ lookup[t].granted \subseteq lookup[t].namespacesRead)
    /\ SetLookup(t, Idle)
    /\ UNCHANGED results

-----------------------------------------------------------------------------
\* The informer caches are synced before the web server starts.
Init ==
    /\ roleBindings \in [BindingIds -> BindingObjects \cup {NoObject}]
    /\ roles \in [RoleIds -> RoleObjects \cup {NoObject}]
    /\ namespaces \in [NamespaceIds -> NamespaceObjects \cup {NoObject}]
    /\ namespaces[KubeNamespace] # NoObject
    /\ pending = [i \in InformerNames |-> 0]
    /\ registered = 0
    /\ results = [q \in Queries |-> NoResult]
    /\ resultsGeneration = 0
    /\ lookup = [t \in Threads |-> Idle]
    /\ writes = 0

Read(t) == ListRoleBindings(t) \/ GetRole(t) \/ GetNamespace(t)

LookupStep(t) ==
    \/ \E q \in Queries : cachedResult(t, q)
    \/ resultGeneration(t)
    \/ Read(t)
    \/ storeResult(t)
    \/ LookupError(t)

Write == WriteRoleBinding \/ WriteRole \/ WriteNamespace

Next ==
    \/ Write
    \/ Start
    \/ \E i \in InformerNames : invalidateResults(i)
    \/ \E t \in Threads : LookupStep(t)

\* Start runs to its end, informers deliver what they queued, and a request
\* that was begun is carried on.  Nothing is assumed of new requests, of
\* errors or of the objects' writers.
Fairness ==
    /\ WF_vars(Start)
    /\ \A i \in InformerNames : WF_vars(invalidateResults(i))
    /\ \A t \in Threads : WF_vars(resultGeneration(t) \/ Read(t) \/ storeResult(t))

Spec == Init /\ [][Next]_vars /\ Fairness

-----------------------------------------------------------------------------
(* Types. *)

AllTenants == {reflectedTenantName(ns) : ns \in NamespaceObjects} \ {NoTenant}
Generations == Nat

Result == [generation : Generations, tenants : SUBSET AllTenants]

LookupFields ==
    [pc : {"reading"}, query : Queries, generation : Generations,
     keys : SUBSET UNION {SubjectKeys(q) : q \in Queries},
     found : [BindingIds -> BindingObjects \cup {NoObject}],
     rolesRead : SUBSET BindingIds,
     granted : SUBSET {b.namespace : b \in BindingIds},
     namespacesRead : SUBSET {b.namespace : b \in BindingIds},
     tenants : SUBSET AllTenants]

\* Roles are read once the bindings are found, namespaces once they are
\* granted.
ReadingLookup ==
    {l \in LookupFields :
        /\ l.keys \subseteq SubjectKeys(l.query)
        /\ l.rolesRead \subseteq Bound(l)
        /\ l.rolesRead # {} => l.keys = {}
        /\ l.namespacesRead \subseteq l.granted
        /\ l.namespacesRead # {} => Listed(l)}

Lookup == {Idle} \cup {Called(q) : q \in Queries} \cup ReadingLookup

\* The type invariant of the reflector, its result cache and its lookups.
TypeOK ==
    /\ roleBindings \in [BindingIds -> BindingObjects \cup {NoObject}]
    /\ roles \in [RoleIds -> RoleObjects \cup {NoObject}]
    /\ namespaces \in [NamespaceIds -> NamespaceObjects \cup {NoObject}]
    /\ pending \in [InformerNames -> Nat]
    /\ registered \in 0..4
    /\ \A q \in Queries : results[q] = NoResult \/ results[q] \in Result
    /\ DOMAIN results = Queries
    /\ resultsGeneration \in Generations
    /\ DOMAIN lookup = Threads
    /\ \A t \in Threads : lookup[t] \in Lookup
    /\ writes \in 0..MaxWrites

-----------------------------------------------------------------------------
(* Safety. *)

\* Every informer has the handler, and every cache update so far has been
\* handled.
Quiet == registered = 4 /\ \A i \in InformerNames : pending[i] = 0

\* An entry that cachedResult would return.
Served(q) == results[q] # NoResult /\ results[q].generation = resultsGeneration

\* Once every informer event has been handled, each answer the result cache
\* serves is the one a new computation would give: no lookup that read RBAC
\* objects or namespaces before they changed leaves its answer behind, not
\* even one that read some before and some after, or that ran before Start
\* had registered the handlers (cachedResult, storeResult, invalidateResults).
CacheCoherent ==
    Quiet => \A q \in Queries : Served(q) => results[q].tenants = FreshTenants(q)

\* What a lookup has read so far is what it would read now.
ReadsCurrent(l) ==
    /\ \A b \in BindingIds :
          l.found[b] = IF \E key \in SubjectKeys(l.query) \ l.keys :
                              Indexed(roleBindings[b], key)
                       THEN roleBindings[b] ELSE NoObject
    /\ l.granted = {b.namespace : b \in {c \in l.rolesRead : Grants(c, l.found[c], l.query)}}
    /\ l.tenants = UNION {TenantsOf(n) : n \in l.namespacesRead}

\* The reason: a lookup whose generation is still the current one when every
\* event has been handled has read nothing that changed since.
LookupCoherent ==
    Quiet => \A t \in Threads :
        lookup[t].pc = "reading" /\ lookup[t].generation = resultsGeneration
            => ReadsCurrent(lookup[t])

\* A namespace that never disappears keeps the Namespace informer's replay
\* from being empty; no lookup has a generation from the future.
KubeNamespaceExists == namespaces[KubeNamespace] # NoObject
GenerationsPast ==
    \A t \in Threads : lookup[t].pc = "reading" => lookup[t].generation <= resultsGeneration

\* The inductive invariant: the two facts above make coherence inductive, as
\* every change of the objects either leaves a notification pending or comes
\* before the replay that ends Start.
IndInv ==
    /\ TypeOK
    /\ KubeNamespaceExists
    /\ GenerationsPast
    /\ CacheCoherent
    /\ LookupCoherent

\* Each RoleBinding that getRoleBindingsForSubject finds for a user has that
\* user or one of its groups as a subject.
FoundIsBound ==
    \A t \in Threads : lookup[t].pc = "reading" =>
        \A b \in Bound(lookup[t]) :
            LET q == lookup[t].query
            IN  lookup[t].found[b].subjects \cap ({q.user} \cup q.groups) # {}

-----------------------------------------------------------------------------
(* Liveness. *)

\* A served answer that the informer caches contradict.
Stale(q) == Served(q) /\ results[q].tenants # FreshTenants(q)

\* A stale answer does not stay: an event that is still to be handled, or the
\* replay of the objects when Start registers the handlers, removes it.
StaleResultDropped == \A q \in Queries : Stale(q) ~> ~Stale(q)

\* A lookup that missed the cache returns, whatever changes while it reads:
\* GetUserTenantNamesForResource retries nothing.
LookupReturns == \A t \in Threads : lookup[t].pc # "idle" ~> lookup[t].pc = "idle"

=============================================================================
