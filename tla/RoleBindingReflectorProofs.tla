--------------------- MODULE RoleBindingReflectorProofs ---------------------
(***************************************************************************)
(* Proofs about RoleBindingReflector: its types, and the coherence of its  *)
(* result cache, for any number of requests, objects and changes.          *)
(***************************************************************************)
EXTENDS RoleBindingReflector, FiniteSetTheorems, TLAPS

-----------------------------------------------------------------------------
(* Types of the operators. *)

\* The names that the loop over namespaces inserts are tenant names.
LEMMA TenantsOfType ==
    ASSUME TypeOK, NEW n
    PROVE  TenantsOf(n) \subseteq AllTenants
  BY DEF TypeOK, TenantsOf, AllTenants

\* A lookup that starts reading has the type of a reading lookup.
LEMMA ReadingType ==
    ASSUME NEW q \in Queries, NEW g \in Nat
    PROVE  Reading(q, g) \in ReadingLookup
  BY DEF Reading, ReadingLookup, LookupFields, Generations, Bound

\* The three forms of a lookup are told apart by pc.
LEMMA LookupCases ==
    ASSUME NEW l \in Lookup
    PROVE  /\ l.pc = "reading" => l \in ReadingLookup
           /\ l.pc = "called" => l.query \in Queries
           /\ l.pc \in {"idle", "called", "reading"}
  BY DEF Lookup, Idle, Called, ReadingLookup, LookupFields

\* Setting a thread's lookup to a well-typed one keeps all lookups well typed.
LEMMA SetLookupType ==
    ASSUME TypeOK, NEW t \in Threads, NEW l \in Lookup, SetLookup(t, l),
           \/ UNCHANGED results
           \/ \E q \in Queries, r \in Result : results' = [results EXCEPT ![q] = r]
    PROVE  TypeOK'
  BY DEF TypeOK, SetLookup, objects, AllTenants, Result, Lookup, ReadingLookup, LookupFields, Idle, Called, Bound, Listed

-----------------------------------------------------------------------------
(* The three updates of a reading lookup. *)

\* One more read keeps the reads of a lookup current.
LEMMA ListCurrent ==
    ASSUME NEW l \in ReadingLookup, NEW key \in l.keys, ReadsCurrent(l), NEW m,
           m.query = l.query, m.keys = l.keys \ {key},
           m.found = [b \in BindingIds |->
                        IF Indexed(roleBindings[b], key) THEN roleBindings[b] ELSE l.found[b]],
           m.rolesRead = l.rolesRead, m.granted = l.granted,
           m.namespacesRead = l.namespacesRead, m.tenants = l.tenants,
           l.rolesRead = {}, l.namespacesRead = {}
    PROVE  ReadsCurrent(m)
  <1>1. SubjectKeys(l.query) \ m.keys = (SubjectKeys(l.query) \ l.keys) \cup {key}
    BY DEF ReadingLookup
  <1>2. \A b \in BindingIds :
          m.found[b] = IF \E k \in SubjectKeys(m.query) \ m.keys : Indexed(roleBindings[b], k)
                       THEN roleBindings[b] ELSE NoObject
    BY <1>1 DEF ReadsCurrent
  <1>3. m.granted = {b.namespace : b \in {c \in m.rolesRead : Grants(c, m.found[c], m.query)}}
    BY DEF ReadsCurrent
  <1> QED BY <1>2, <1>3 DEF ReadsCurrent

\* A role that is read while nothing changes keeps the lookup's reads current.
LEMMA RoleCurrent ==
    ASSUME NEW l \in ReadingLookup, NEW b \in Bound(l) \ l.rolesRead, ReadsCurrent(l), NEW m,
           m.query = l.query, m.keys = l.keys, m.found = l.found,
           m.rolesRead = l.rolesRead \cup {b},
           m.granted = IF Grants(b, l.found[b], l.query)
                       THEN l.granted \cup {b.namespace} ELSE l.granted,
           m.namespacesRead = l.namespacesRead, m.tenants = l.tenants
    PROVE  ReadsCurrent(m)
  <1>1. m.granted = {c.namespace : c \in {d \in m.rolesRead : Grants(d, m.found[d], m.query)}}
    BY DEF ReadsCurrent
  <1> QED BY <1>1 DEF ReadsCurrent

\* A namespace that is read while nothing changes keeps the lookup's reads
\* current.
LEMMA NamespaceCurrent ==
    ASSUME NEW l \in ReadingLookup, NEW n, ReadsCurrent(l), NEW m,
           m.query = l.query, m.keys = l.keys, m.found = l.found,
           m.rolesRead = l.rolesRead, m.granted = l.granted,
           m.namespacesRead = l.namespacesRead \cup {n},
           m.tenants = l.tenants \cup TenantsOf(n)
    PROVE  ReadsCurrent(m)
  <1>1. m.tenants = UNION {TenantsOf(k) : k \in m.namespacesRead}
    BY DEF ReadsCurrent
  <1> QED BY <1>1 DEF ReadsCurrent

\* The update of ListRoleBindings keeps the lookup's type, its generation
\* and the currency of its reads.
LEMMA ListUpdate ==
    ASSUME NEW l \in ReadingLookup, NEW key \in l.keys, TypeOK, NEW m,
           m = WithBindings(l, key)
    PROVE  /\ m \in ReadingLookup
           /\ m.generation = l.generation
           /\ ReadsCurrent(l) => ReadsCurrent(m)
  <1> DEFINE found == [b \in BindingIds |->
                         IF Indexed(roleBindings[b], key)
                         THEN roleBindings[b] ELSE l.found[b]]
  <1>1. found \in [BindingIds -> BindingObjects \cup {NoObject}]
    BY DEF TypeOK, ReadingLookup, LookupFields
  <1>2. /\ m \in LookupFields
        /\ m.pc = "reading" /\ m.query = l.query /\ m.generation = l.generation
        /\ m.keys = l.keys \ {key}
        /\ m.found = found
        /\ m.rolesRead = l.rolesRead /\ m.granted = l.granted
        /\ m.namespacesRead = l.namespacesRead /\ m.tenants = l.tenants
    <2> HIDE DEF found
    <2> QED BY <1>1 DEF WithBindings, ReadingLookup, LookupFields, found
  <1>3. l.rolesRead = {} /\ l.namespacesRead = {}
    BY DEF ReadingLookup, Listed
  <1>4. m \in ReadingLookup
    BY <1>2, <1>3 DEF ReadingLookup, Bound
  <1>5. ReadsCurrent(l) => ReadsCurrent(m)
    BY <1>2, <1>3, ListCurrent
  <1> QED BY <1>2, <1>3, <1>4, <1>5

\* The update of GetRole keeps the lookup's type, its generation
\* and the currency of its reads.
LEMMA RoleUpdate ==
    ASSUME NEW l \in ReadingLookup, l.keys = {}, NEW b \in Bound(l) \ l.rolesRead, TypeOK,
           NEW m,
           m = WithRole(l, b)
    PROVE  /\ m \in ReadingLookup
           /\ m.generation = l.generation
           /\ ReadsCurrent(l) => ReadsCurrent(m)
  <1> DEFINE granted == IF Grants(b, l.found[b], l.query)
                        THEN l.granted \cup {b.namespace} ELSE l.granted
  <1>1. granted \in SUBSET {c.namespace : c \in BindingIds} /\ b \in BindingIds
    BY DEF ReadingLookup, LookupFields, Bound
  <1>2. /\ m \in LookupFields
        /\ m.pc = "reading" /\ m.query = l.query /\ m.generation = l.generation
        /\ m.keys = {} /\ m.found = l.found
        /\ m.rolesRead = l.rolesRead \cup {b}
        /\ m.granted = granted
        /\ m.namespacesRead = l.namespacesRead /\ m.tenants = l.tenants
    <2> HIDE DEF granted
    <2> QED BY <1>1 DEF WithRole, ReadingLookup, LookupFields, granted
  <1>3. l.namespacesRead = {}
    BY DEF ReadingLookup, Listed
  <1>4. m \in ReadingLookup
    BY <1>2, <1>3 DEF ReadingLookup, Bound
  <1>5. ReadsCurrent(l) => ReadsCurrent(m)
    BY <1>2, RoleCurrent
  <1> QED BY <1>2, <1>3, <1>4, <1>5

\* The update of GetNamespace keeps the lookup's type, its generation
\* and the currency of its reads.
LEMMA NamespaceUpdate ==
    ASSUME NEW l \in ReadingLookup, Listed(l), NEW n \in l.granted \ l.namespacesRead,
           TypeOK, NEW m,
           m = WithNamespace(l, n)
    PROVE  /\ m \in ReadingLookup
           /\ m.generation = l.generation
           /\ ReadsCurrent(l) => ReadsCurrent(m)
  <1>1. TenantsOf(n) \subseteq AllTenants
    BY TenantsOfType
  <1>2. /\ m \in LookupFields
        /\ m.pc = "reading" /\ m.query = l.query /\ m.generation = l.generation
        /\ m.keys = l.keys /\ m.found = l.found
        /\ m.rolesRead = l.rolesRead /\ m.granted = l.granted
        /\ m.namespacesRead = l.namespacesRead \cup {n}
        /\ m.tenants = l.tenants \cup TenantsOf(n)
    BY <1>1 DEF WithNamespace, ReadingLookup, LookupFields
  <1>3. m \in ReadingLookup
    BY <1>2 DEF ReadingLookup, Bound, Listed
  <1>4. ReadsCurrent(l) => ReadsCurrent(m)
    BY <1>2, NamespaceCurrent
  <1> QED BY <1>2, <1>3, <1>4

-----------------------------------------------------------------------------
(* Type correctness. *)

\* The initial states are well typed.
LEMMA InitType == Init => TypeOK
  BY ConstantsAssumption DEF Init, TypeOK, Generations, Lookup, InformerNames

\* A change of the informer caches, the registration of a handler and its
\* calls keep the types.
LEMMA EnvironmentType ==
    ASSUME TypeOK, Write \/ Start \/ \E i \in InformerNames : invalidateResults(i)
    PROVE  TypeOK'
  <1> USE ConstantsAssumption
  <1>1. CASE WriteRoleBinding
    BY <1>1 DEF WriteRoleBinding, Notify, TypeOK, AllTenants, Result, Lookup, InformerNames
  <1>2. CASE WriteRole
    BY <1>2 DEF WriteRole, Notify, TypeOK, AllTenants, Result, Lookup, InformerNames
  <1>3. CASE WriteNamespace
    BY <1>3 DEF WriteNamespace, Notify, TypeOK, AllTenants, Result, Lookup, InformerNames
  <1>4. CASE Start
    <2>1. registered \in 0..3 /\ registered + 1 \in 1..4
      BY <1>4 DEF Start, TypeOK, Informers
    <2> DEFINE i == Informers[registered + 1]
    <2>2. i \in InformerNames
      BY <2>1 DEF Informers, InformerNames
    <2>3. IsFiniteSet(Objects(i))
      <3>1. \/ Objects(i) \subseteq BindingIds
            \/ Objects(i) \subseteq RoleIds
            \/ Objects(i) \subseteq NamespaceIds
        BY <2>2 DEF Objects, InformerNames
      <3> QED BY <3>1, FS_Subset
    <2>4. Cardinality(Objects(i)) \in Nat
      BY <2>3, FS_CardinalityType
    <2> QED BY <1>4, <2>1, <2>2, <2>4 DEF Start, TypeOK, objects, AllTenants, Result, Lookup
  <1>5. ASSUME NEW i \in InformerNames, invalidateResults(i)
        PROVE  TypeOK'
    BY <1>5 DEF invalidateResults, TypeOK, objects, Lookup, Generations
  <1> QED BY <1>1, <1>2, <1>3, <1>4, <1>5 DEF Write

\* Every step of a lookup keeps the types.
LEMMA LookupType ==
    ASSUME TypeOK, NEW t \in Threads, LookupStep(t)
    PROVE  TypeOK'
  <1> DEFINE l == lookup[t]
  <1>0. l \in Lookup /\ resultsGeneration \in Nat
    BY DEF TypeOK, Generations
  <1>1. ASSUME NEW q \in Queries, cachedResult(t, q)
        PROVE  TypeOK'
    BY <1>1, SetLookupType DEF cachedResult, Lookup
  <1>2. CASE resultGeneration(t)
    BY <1>0, <1>2, LookupCases, ReadingType, SetLookupType DEF resultGeneration, Lookup
  <1>3. CASE ListRoleBindings(t)
    <2>1. l \in ReadingLookup
      BY <1>0, <1>3, LookupCases DEF ListRoleBindings
    <2>2. PICK key \in l.keys :
             SetLookup(t, WithBindings(l, key))
      BY <1>3 DEF ListRoleBindings
    <2> QED BY <1>3, <2>1, <2>2, ListUpdate, SetLookupType DEF ListRoleBindings, Lookup
  <1>4. CASE GetRole(t)
    <2>1. l \in ReadingLookup /\ l.keys = {}
      BY <1>0, <1>4, LookupCases DEF GetRole
    <2>2. PICK b \in Bound(l) \ l.rolesRead :
              SetLookup(t, WithRole(l, b))
      BY <1>4 DEF GetRole
    <2> QED BY <1>4, <2>1, <2>2, RoleUpdate, SetLookupType DEF GetRole, Lookup
  <1>5. CASE GetNamespace(t)
    <2>1. l \in ReadingLookup /\ Listed(l)
      BY <1>0, <1>5, LookupCases DEF GetNamespace
    <2>2. PICK n \in l.granted \ l.namespacesRead :
              SetLookup(t, WithNamespace(l, n))
      BY <1>5 DEF GetNamespace
    <2> QED BY <1>5, <2>1, <2>2, NamespaceUpdate, SetLookupType DEF GetNamespace, Lookup
  <1>6. CASE storeResult(t)
    <2>1. l \in ReadingLookup
      BY <1>0, <1>6, LookupCases DEF storeResult
    <2>2. /\ l.query \in Queries
          /\ [generation |-> l.generation, tenants |-> l.tenants] \in Result
      BY <2>1 DEF ReadingLookup, LookupFields, Result
    <2> QED BY <1>6, <2>2, SetLookupType DEF storeResult, Lookup
  <1>7. CASE LookupError(t)
    BY <1>7, SetLookupType DEF LookupError, Lookup
  <1> QED BY <1>1, <1>2, <1>3, <1>4, <1>5, <1>6, <1>7 DEF LookupStep, Read

\* Type correctness of the reflector: every reachable state has the types of
\* the Go structures the model abstracts.
THEOREM TypeCorrect == Spec => []TypeOK
  <1>1. TypeOK /\ [Next]_vars => TypeOK'
    <2> SUFFICES ASSUME TypeOK, [Next]_vars PROVE TypeOK'
      OBVIOUS
    <2>1. CASE Next
      BY <2>1, EnvironmentType, LookupType DEF Next
    <2>2. CASE UNCHANGED vars
      BY <2>2 DEF vars, TypeOK, Lookup
    <2> QED BY <2>1, <2>2
  <1> QED BY InitType, <1>1, PTL DEF Spec

-----------------------------------------------------------------------------
(* Coherence. *)

\* While the objects stay, so do the answers and what a lookup would read.
LEMMA SameObjects ==
    ASSUME UNCHANGED objects
    PROVE  /\ \A q : FreshTenants(q)' = FreshTenants(q)
           /\ \A l : ReadsCurrent(l)' = ReadsCurrent(l)
  <1>1. roleBindings' = roleBindings /\ roles' = roles /\ namespaces' = namespaces
    BY DEF objects
  <1>2. \A b, rb, q : Grants(b, rb, q)' = Grants(b, rb, q)
    BY <1>1 DEF Grants
  <1>3. \A n : TenantsOf(n)' = TenantsOf(n)
    BY <1>1 DEF TenantsOf
  <1> QED BY <1>1, <1>2, <1>3 DEF FreshTenants, ReadsCurrent

\* A lookup that has read everything, and whose reads are current, has the
\* answer that a new computation would give.
LEMMA CurrentAnswer ==
    ASSUME NEW l \in ReadingLookup, ReadsCurrent(l), Listed(l),
           l.granted \subseteq l.namespacesRead
    PROVE  l.tenants = FreshTenants(l.query)
  <1> DEFINE q == l.query
             Indexes(c) == \E key \in SubjectKeys(q) : Indexed(roleBindings[c], key)
             Granting == {c \in BindingIds : Indexes(c) /\ Grants(c, roleBindings[c], q)}
  <1>1. \A b \in BindingIds : l.found[b] = IF Indexes(b) THEN roleBindings[b] ELSE NoObject
    BY DEF ReadsCurrent, Listed
  <1>2. \A b \in BindingIds : Indexes(b) => roleBindings[b] # NoObject
    BY DEF Indexed
  <1>3. l.rolesRead = {b \in BindingIds : Indexes(b)}
    BY <1>1, <1>2 DEF ReadingLookup, Listed, Bound
  <1>4. {c \in l.rolesRead : Grants(c, l.found[c], q)} = Granting
    BY <1>1, <1>3
  <1>5. l.namespacesRead = {b.namespace : b \in Granting}
    BY <1>4 DEF ReadsCurrent, ReadingLookup
  <1>6. l.tenants = UNION {TenantsOf(n) : n \in l.namespacesRead}
    BY DEF ReadsCurrent
  <1>7. UNION {TenantsOf(n) : n \in {b.namespace : b \in Granting}}
          = UNION {TenantsOf(b.namespace) : b \in Granting}
    OBVIOUS
  <1> QED BY <1>5, <1>6, <1>7 DEF FreshTenants

\* A change of an object leaves its notification pending, or finds Start
\* not finished: coherence is not claimed yet.
LEMMA WriteKeepsIndInv ==
    ASSUME IndInv, Write
    PROVE  IndInv'
  <1> USE ConstantsAssumption
  <1>1. TypeOK'
    BY EnvironmentType DEF IndInv
  <1>2. ~Quiet'
    <2>1. ASSUME NEW i \in InformerNames, Notify(i) PROVE ~Quiet'
      <3>1. CASE registered = 4
        <4>1. Registered(i)
          BY <3>1 DEF Registered, Informers, InformerNames
        <4> QED BY <2>1, <4>1 DEF Notify, Quiet, IndInv, TypeOK
      <3>2. CASE registered # 4
        BY <2>1, <3>2 DEF Notify, Quiet
      <3> QED BY <3>1, <3>2
    <2>2. \E i \in InformerNames : Notify(i)
      BY DEF Write, WriteRoleBinding, WriteRole, WriteNamespace, InformerNames
    <2> QED BY <2>1, <2>2
  <1>3. KubeNamespaceExists'
    BY DEF IndInv, TypeOK, KubeNamespaceExists, Write, WriteRoleBinding, WriteRole, WriteNamespace
  <1>4. GenerationsPast'
    BY DEF IndInv, GenerationsPast, Write, WriteRoleBinding, WriteRole, WriteNamespace, Notify
  <1> QED BY <1>1, <1>2, <1>3, <1>4 DEF IndInv, CacheCoherent, LookupCoherent

\* Registering the last handler replays at least one namespace.
LEMMA StartKeepsIndInv ==
    ASSUME IndInv, Start
    PROVE  IndInv'
  <1>1. TypeOK'
    BY EnvironmentType DEF IndInv
  <1>2. ~Quiet'
    <2>1. CASE registered = 3
      <3>1. KubeNamespace \in Objects("Namespace")
        BY ConstantsAssumption DEF Objects, IndInv, KubeNamespaceExists
      <3>2. IsFiniteSet(Objects("Namespace"))
        BY ConstantsAssumption, FS_Subset DEF Objects
      <3>3. Cardinality(Objects("Namespace")) # 0
        BY <3>1, <3>2, FS_EmptySet
      <3>4. Informers[registered + 1] = "Namespace"
        BY <2>1 DEF Informers
      <3>5. pending' = [pending EXCEPT !["Namespace"] = Cardinality(Objects("Namespace"))]
        BY <3>4 DEF Start
      <3> QED BY <3>3, <3>5 DEF Quiet, IndInv, TypeOK, InformerNames
    <2>2. CASE registered # 3
      BY <2>2 DEF Start, Quiet, IndInv, TypeOK
    <2> QED BY <2>1, <2>2
  <1>3. KubeNamespaceExists' /\ GenerationsPast'
    BY DEF Start, objects, IndInv, KubeNamespaceExists, GenerationsPast
  <1> QED BY <1>1, <1>2, <1>3 DEF IndInv, CacheCoherent, LookupCoherent

\* An invalidation empties the result cache and leaves every lookup that is
\* reading with an old generation.
LEMMA InvalidateKeepsIndInv ==
    ASSUME IndInv, NEW i \in InformerNames, invalidateResults(i)
    PROVE  IndInv'
  <1>1. TypeOK'
    BY EnvironmentType DEF IndInv
  <1>2. CacheCoherent'
    BY DEF CacheCoherent, Served, invalidateResults
  <1>3. \A t \in Threads : lookup'[t].pc = "reading" =>
           /\ lookup'[t].generation <= resultsGeneration
           /\ lookup'[t].generation \in Nat
    BY LookupCases DEF invalidateResults, IndInv, TypeOK, GenerationsPast, ReadingLookup,
                       LookupFields, Generations
  <1>4. resultsGeneration \in Nat /\ resultsGeneration' = resultsGeneration + 1
    BY DEF invalidateResults, IndInv, TypeOK, Generations
  <1>5. GenerationsPast' /\ LookupCoherent'
    BY <1>3, <1>4 DEF GenerationsPast, LookupCoherent
  <1>6. KubeNamespaceExists'
    BY DEF invalidateResults, objects, IndInv, KubeNamespaceExists
  <1> QED BY <1>1, <1>2, <1>5, <1>6 DEF IndInv

\* A step of a lookup leaves the objects and the generation alone.  What is
\* left to show is that thread t's own lookup stays current, and that what it
\* stores is the current answer.
LEMMA LookupFrame ==
    ASSUME IndInv, NEW t \in Threads, NEW m \in Lookup, SetLookup(t, m), TypeOK',
           m.pc = "reading" => m.generation <= resultsGeneration,
           Quiet /\ m.pc = "reading" /\ m.generation = resultsGeneration => ReadsCurrent(m),
           \/ UNCHANGED results
           \/ \E q \in Queries, r \in Result :
                 /\ results' = [results EXCEPT ![q] = r]
                 /\ Quiet => r.tenants = FreshTenants(q)
    PROVE  IndInv'
  <1>1. UNCHANGED objects /\ UNCHANGED resultsGeneration /\ Quiet' = Quiet
    BY DEF SetLookup, Quiet
  <1>2. /\ \A q : FreshTenants(q)' = FreshTenants(q)
        /\ \A l : ReadsCurrent(l)' = ReadsCurrent(l)
    BY <1>1, SameObjects
  <1>3. /\ lookup'[t] = m
        /\ \A u \in Threads \ {t} : lookup'[u] = lookup[u]
    BY DEF SetLookup, IndInv, TypeOK
  <1>4. KubeNamespaceExists'
    BY <1>1 DEF objects, IndInv, KubeNamespaceExists
  <1>5. GenerationsPast'
    BY <1>1, <1>3 DEF IndInv, GenerationsPast
  <1>6. CacheCoherent'
    <2> SUFFICES ASSUME Quiet, NEW q \in Queries, Served(q)'
                 PROVE  results'[q].tenants = FreshTenants(q)
      BY <1>1, <1>2 DEF CacheCoherent
    <2>1. CASE results'[q] = results[q]
      BY <1>1, <2>1 DEF IndInv, CacheCoherent, Served
    <2>2. CASE results'[q] # results[q]
      BY <2>2 DEF IndInv, TypeOK
    <2> QED BY <2>1, <2>2
  <1>7. LookupCoherent'
    <2> SUFFICES ASSUME Quiet, NEW u \in Threads, lookup'[u].pc = "reading",
                        lookup'[u].generation = resultsGeneration
                 PROVE  ReadsCurrent(lookup'[u])
      BY <1>1, <1>2 DEF LookupCoherent
    <2> QED BY <1>3 DEF IndInv, LookupCoherent
  <1> QED BY <1>4, <1>5, <1>6, <1>7 DEF IndInv

\* Each step of a lookup keeps the inductive invariant.
LEMMA LookupKeepsIndInv ==
    ASSUME IndInv, NEW t \in Threads, LookupStep(t)
    PROVE  IndInv'
  <1> DEFINE l == lookup[t]
  <1>0. TypeOK /\ TypeOK' /\ l \in Lookup /\ resultsGeneration \in Nat
    BY LookupType DEF IndInv, TypeOK, Generations
  <1>a. ASSUME l.pc = "reading"
        PROVE  /\ l \in ReadingLookup
               /\ l.generation <= resultsGeneration
               /\ Quiet /\ l.generation = resultsGeneration => ReadsCurrent(l)
    BY <1>0, <1>a, LookupCases DEF IndInv, GenerationsPast, LookupCoherent
  <1>1. ASSUME NEW q \in Queries, cachedResult(t, q)
        PROVE  IndInv'
    <2>1. PICK m \in {Idle, Called(q)} : SetLookup(t, m) /\ UNCHANGED results
      BY <1>1 DEF cachedResult
    <2>2. m \in Lookup /\ m.pc # "reading"
      BY <2>1 DEF Lookup, Idle, Called
    <2> QED BY <1>0, <2>1, <2>2, LookupFrame
  <1>2. CASE resultGeneration(t)
    <2> DEFINE m == Reading(l.query, resultsGeneration)
    <2>1. SetLookup(t, m) /\ UNCHANGED results
      BY <1>2 DEF resultGeneration
    <2>2. m \in ReadingLookup
      BY <1>0, <1>2, LookupCases, ReadingType DEF resultGeneration
    <2>3. m.generation = resultsGeneration /\ ReadsCurrent(m)
      BY DEF Reading, ReadsCurrent
    <2> HIDE DEF m
    <2> QED BY <1>0, <2>1, <2>2, <2>3, LookupFrame DEF Lookup
  <1>3. CASE ListRoleBindings(t)
    <2>1. l.pc = "reading"
      BY <1>3 DEF ListRoleBindings
    <2>2. PICK key \in l.keys :
             /\ SetLookup(t, WithBindings(l, key))
             /\ UNCHANGED results
      BY <1>3 DEF ListRoleBindings
    <2> DEFINE m == WithBindings(l, key)
    <2>3. l \in ReadingLookup
      BY <1>a, <2>1
    <2>4. /\ m \in ReadingLookup
          /\ m.generation = l.generation
          /\ ReadsCurrent(l) => ReadsCurrent(m)
      BY <1>0, <2>1, <2>3, ListUpdate
    <2> QED BY <1>0, <1>a, <2>1, <2>2, <2>4, LookupFrame DEF Lookup
  <1>4. CASE GetRole(t)
    <2>1. l.pc = "reading" /\ l.keys = {}
      BY <1>4 DEF GetRole
    <2>2. PICK b \in Bound(l) \ l.rolesRead :
              /\ SetLookup(t, WithRole(l, b))
              /\ UNCHANGED results
      BY <1>4 DEF GetRole
    <2> DEFINE m == WithRole(l, b)
    <2>3. l \in ReadingLookup
      BY <1>a, <2>1
    <2>4. /\ m \in ReadingLookup
          /\ m.generation = l.generation
          /\ ReadsCurrent(l) => ReadsCurrent(m)
      BY <1>0, <2>1, <2>3, RoleUpdate
    <2> QED BY <1>0, <1>a, <2>1, <2>2, <2>4, LookupFrame DEF Lookup
  <1>5. CASE GetNamespace(t)
    <2>1. l.pc = "reading" /\ Listed(l)
      BY <1>5 DEF GetNamespace
    <2>2. PICK n \in l.granted \ l.namespacesRead :
              /\ SetLookup(t, WithNamespace(l, n))
              /\ UNCHANGED results
      BY <1>5 DEF GetNamespace
    <2> DEFINE m == WithNamespace(l, n)
    <2>3. l \in ReadingLookup
      BY <1>a, <2>1
    <2>4. /\ m \in ReadingLookup
          /\ m.generation = l.generation
          /\ ReadsCurrent(l) => ReadsCurrent(m)
      BY <1>0, <2>1, <2>3, NamespaceUpdate
    <2> QED BY <1>0, <1>a, <2>1, <2>2, <2>4, LookupFrame DEF Lookup
  <1>6. CASE storeResult(t)
    <2>1. l.pc = "reading" /\ Listed(l) /\ l.granted \subseteq l.namespacesRead
      BY <1>6 DEF storeResult
    <2> DEFINE r == [generation |-> l.generation, tenants |-> l.tenants]
    <2>2. l.query \in Queries /\ r \in Result /\ r.tenants = l.tenants
      BY <1>a, <2>1 DEF ReadingLookup, LookupFields, Result
    <2>3. Quiet /\ l.generation = resultsGeneration => r.tenants = FreshTenants(l.query)
      BY <1>a, <2>1, <2>2, CurrentAnswer
    <2>4. SetLookup(t, Idle) /\ Idle \in Lookup /\ Idle.pc # "reading"
      BY <1>6 DEF storeResult, Lookup, Idle
    <2>5. \/ UNCHANGED results
          \/ /\ l.generation = resultsGeneration
             /\ results' = [results EXCEPT ![l.query] = r]
      BY <1>6 DEF storeResult
    <2> HIDE DEF r
    <2> QED BY <1>0, <2>2, <2>3, <2>4, <2>5, LookupFrame
  <1>7. CASE LookupError(t)
    <2>1. SetLookup(t, Idle) /\ UNCHANGED results
      BY <1>7 DEF LookupError
    <2>2. Idle \in Lookup /\ Idle.pc # "reading"
      BY DEF Lookup, Idle
    <2> QED BY <1>0, <2>1, <2>2, LookupFrame
  <1> QED BY <1>1, <1>2, <1>3, <1>4, <1>5, <1>6, <1>7 DEF LookupStep, Read

\* The initial states satisfy the inductive invariant: no result is cached and
\* no lookup runs.
LEMMA InitIndInv == Init => IndInv
  <1> SUFFICES ASSUME Init PROVE IndInv
    OBVIOUS
  <1>1. TypeOK
    BY InitType
  <1>2. ~Quiet
    BY DEF Init, Quiet
  <1>3. KubeNamespaceExists /\ GenerationsPast
    BY DEF Init, KubeNamespaceExists, GenerationsPast, Idle
  <1> QED BY <1>1, <1>2, <1>3 DEF IndInv, CacheCoherent, LookupCoherent

\* Every step of the informers, of Start and of the lookups preserves the
\* inductive invariant.
LEMMA NextKeepsIndInv == IndInv /\ [Next]_vars => IndInv'
  <1> SUFFICES ASSUME IndInv, [Next]_vars PROVE IndInv'
    OBVIOUS
  <1>1. CASE Next
    BY <1>1, WriteKeepsIndInv, StartKeepsIndInv, InvalidateKeepsIndInv, LookupKeepsIndInv
       DEF Next
  <1>2. CASE UNCHANGED vars
    <2>1. UNCHANGED objects
      BY <1>2 DEF vars, objects
    <2>2. /\ \A q : FreshTenants(q)' = FreshTenants(q)
          /\ \A l : ReadsCurrent(l)' = ReadsCurrent(l)
      BY <2>1, SameObjects
    <2>3. TypeOK' /\ KubeNamespaceExists' /\ GenerationsPast'
      BY <1>2 DEF vars, IndInv, TypeOK, Lookup, KubeNamespaceExists, GenerationsPast
    <2>4. CacheCoherent' /\ LookupCoherent'
      BY <1>2, <2>2 DEF vars, IndInv, CacheCoherent, LookupCoherent, Quiet, Served
    <2> QED BY <2>3, <2>4 DEF IndInv
  <1> QED BY <1>1, <1>2

\* Once every informer event has been handled, the result cache serves only
\* answers that a new computation would give, whatever the interleaving of
\* lookups, changes, invalidations and the registration of the handlers.
THEOREM Coherent == Spec => []CacheCoherent
  <1>1. IndInv => CacheCoherent
    BY DEF IndInv
  <1> QED BY InitIndInv, NextKeepsIndInv, <1>1, PTL DEF Spec

\* The reason the cache may be trusted: a lookup that is under way when every
\* event has been handled, and that will be allowed to store its answer, has
\* read nothing that changed since (GetUserNamespacesFromRequest).
THEOREM LookupsCoherent == Spec => []LookupCoherent
  <1>1. IndInv => LookupCoherent
    BY DEF IndInv
  <1> QED BY InitIndInv, NextKeepsIndInv, <1>1, PTL DEF Spec

=============================================================================
