------------------------ MODULE NamespaceViewProofs ------------------------
(***************************************************************************)
(* Proofs about what a Capsule user sees of namespaces, for every number   *)
(* of namespaces, tenants, settings, rules and groups of the caller.       *)
(*                                                                         *)
(* A request that nothing disturbs has, at every point of the collection,  *)
(* what the subjects that it has passed are due (Complete), and nothing    *)
(* that is not due to some subject of the caller (Justified).  A LIST that *)
(* some reads failed has less than a complete GET, which is why what it    *)
(* shows is found.                                                         *)
(***************************************************************************)
EXTENDS NamespaceView, SelectorsProofs, TLAPS

ProxyTenants ==
    [tenant : Tenants \cup {GlobalTenant}, namespaces : SUBSET Names,
     clusterResources : SUBSET PossibleRules]

Requests ==
    [pc : {"idle", "tenants", "settings", "settingTenants", "global", "select",
           "reflect", "decide", "send", "sendObject", "forbidden",
           "shown", "refused", "notFound", "error"},
     operation : {"List", "Get"} \cup ObjectOperations,
     name : Names \cup {NoObject},
     subjects : Seq(UNION OwnerSets),
     settings : SUBSET ProxySettingObjects,
     proxyTenants : SUBSET ProxyTenants,
     namespace : NamespaceObjects \cup {NoObject},
     reflected : SUBSET Names, shown : SUBSET Names,
     steady : BOOLEAN, synced : BOOLEAN, failed : BOOLEAN]

\* The world and the request, as far as the type invariant leaves them open.
WorldType ==
    /\ apiNamespaces \in [Names -> NamespaceObjects \cup {NoObject}]
    /\ namespaces \in [Names -> NamespaceObjects \cup {NoObject}]
    /\ tenants \in [Tenants -> [owners : OwnerSets, namespaces : SUBSET Names]]
    /\ proxySettings \in [ProxySettingIds -> ProxySettingObjects \cup {NoObject}]
    /\ globalProxySettings \in [GlobalIds -> GlobalObjects \cup {NoObject}]
    /\ bound \in SUBSET Names
    /\ writes \in 0..MaxWrites

\* Which operations reach which part of the proxy.
Stages(r) ==
    /\ r.operation # "List" => r.name \in Names
    /\ r.pc \in {"tenants", "settings", "settingTenants", "global", "send"}
          => r.operation \in {"List", "Get"}
    /\ r.pc \in {"settings", "settingTenants", "global"} => r.subjects # << >>
    /\ r.pc \in {"select", "reflect", "decide"} => r.subjects = << >>
    /\ r.pc = "select" => r.operation = "List"
    /\ r.pc \in {"reflect", "decide"} => r.operation = "Get"
    /\ r.pc \in {"sendObject", "forbidden"} => r.operation \in ObjectOperations

-----------------------------------------------------------------------------
(* What the caches yield for a subject. *)

\* The rules of a ProxySetting for the subject: its last entry.
OwnRules(subject, setting) ==
    LET mine == {i \in DOMAIN setting.subjects : setting.subjects[i].subject = subject}
        last == {i \in mine : \A j \in mine : j <= i}
    IN  UNION {setting.subjects[i].clusterResources : i \in last}

InTenant(setting) == \E t \in Tenants : setting.namespace \in OwnedBy(t)

GlobalRulesFor(subject) ==
    {rule \in PossibleRules :
        /\ ClusterScoped
        /\ \E g \in GlobalIds :
              /\ globalProxySettings[g] # NoObject
              /\ rule \in NewClusterProxy(subject, globalProxySettings[g]).clusterResources}

CollectedRules ==
    {rule \in PossibleRules : \E s \in CallerSubjects :
        \/ \E setting \in SettingsOf(s) : InTenant(setting) /\ rule \in OwnRules(s, setting)
        \/ rule \in GlobalRulesFor(s)}

\* What has been collected is due to the caller.
JustifiedTenant(pt) ==
    /\ \/ pt.tenant = GlobalTenant /\ pt.namespaces = {}
       \/ pt.tenant \in CallerTenants /\ pt.namespaces = OwnedBy(pt.tenant)
    /\ pt.clusterResources \subseteq CollectedRules

Remaining(subjects) == {subjects[i] : i \in DOMAIN subjects}

Justified(r) ==
    /\ Remaining(r.subjects) \subseteq CallerSubjects
    /\ r.steady /\ InSync =>
          /\ r.pc = "settingTenants" => r.settings \subseteq SettingsOf(Head(r.subjects))
          /\ \A pt \in r.proxyTenants : JustifiedTenant(pt)

\* What is due to a subject has been collected.
HasTenant(pts, t) == \E pt \in pts : pt.tenant = t

OwnedCovered(s, pts) == \A t \in Tenants : s \in tenants[t].owners => HasTenant(pts, t)

SettingCovered(s, setting, pts) ==
    \A t \in Tenants : setting.namespace \in OwnedBy(t) =>
        HasTenant(pts, t) /\ OwnRules(s, setting) \subseteq ClusterResources(pts)

SettingsCovered(s, settings, pts) ==
    \A setting \in SettingsOf(s) \ settings : SettingCovered(s, setting, pts)

GlobalCovered(s, pts) == GlobalRulesFor(s) \subseteq ClusterResources(pts)

Covered(s, pts) == OwnedCovered(s, pts) /\ SettingsCovered(s, {}, pts) /\ GlobalCovered(s, pts)

Complete(r) ==
    r.steady /\ InSync /\ ~r.failed =>
        /\ r.pc \in {"tenants", "settings", "settingTenants", "global",
                     "select", "reflect", "decide"} =>
              \A s \in CallerSubjects \ Remaining(r.subjects) : Covered(s, r.proxyTenants)
        /\ r.pc \in {"settings", "settingTenants", "global"} =>
              OwnedCovered(Head(r.subjects), r.proxyTenants)
        /\ r.pc = "settingTenants" =>
              SettingsCovered(Head(r.subjects), r.settings, r.proxyTenants)
        /\ r.pc = "global" => SettingsCovered(Head(r.subjects), {}, r.proxyTenants)

\* What the modules have read is still what they would read.
Current(r) ==
    r.steady =>
        /\ r.synced => InSync
        /\ r.pc \in {"select", "decide"} => r.reflected = bound
        /\ r.pc \in {"reflect", "decide"} =>
              /\ r.namespace = ReaderNamespaces[r.name]
              /\ r.namespace # NoObject

\* A GET of the namespace is let through, if no read fails.
Found(n) ==
    \/ apiNamespaces[n].owner \in CallerTenants
    \/ n \in bound
    \/ MatchesOne(GetClusterScopeRequirements(namespacesGVK, "Get", CollectedRules),
                  apiNamespaces[n].labels)

ListFound(r) ==
    r.steady /\ r.synced /\ r.pc = "send" /\ r.operation = "List" =>
        \A n \in r.shown : apiNamespaces[n] # NoObject => Found(n)

\* What the last LIST showed is from the present state.
ListedCurrent ==
    listed # {} => /\ request.steady /\ InSync
                   /\ \A n \in listed : apiNamespaces[n] # NoObject /\ Found(n)

\* The inductive invariant.
RequestInv(r) == Stages(r) /\ Justified(r) /\ Complete(r) /\ Current(r) /\ ListFound(r)

IndInv ==
    /\ WorldType
    /\ listed \subseteq Names
    /\ request \in Requests
    /\ RequestInv(request)
    /\ ListedCurrent
    /\ ListedIsFound
    /\ MissingNamespaceTold

-----------------------------------------------------------------------------
(* The subjects, and what is collected for them. *)

LEMMA Subjects1 ==
    ASSUME NEW S, NEW q \in Seq(S), q # << >>
    PROVE  /\ Tail(q) \in Seq(S)
           /\ Head(q) \in Remaining(q)
           /\ Remaining(q) = Remaining(Tail(q)) \cup {Head(q)}
<1>1. /\ Len(q) \in Nat /\ Len(q) >= 1 /\ DOMAIN q = 1..Len(q)
      /\ Tail(q) \in Seq(S) /\ DOMAIN Tail(q) = 1..(Len(q) - 1)
      /\ \A i \in 1..(Len(q) - 1) : Tail(q)[i] = q[i + 1]
      /\ Head(q) = q[1]
    OBVIOUS
<1>2. Head(q) \in Remaining(q)
    BY <1>1 DEF Remaining
<1>3. ASSUME NEW x \in Remaining(Tail(q)) PROVE x \in Remaining(q)
    <2>1. PICK i \in 1..(Len(q) - 1) : x = q[i + 1]
        BY <1>1, <1>3 DEF Remaining
    <2>2. i + 1 \in DOMAIN q
        BY <1>1
    <2>3. QED
        BY <2>1, <2>2 DEF Remaining
<1>4. ASSUME NEW x \in Remaining(q), x # Head(q) PROVE x \in Remaining(Tail(q))
    <2>1. PICK i \in 1..Len(q) : x = q[i]
        BY <1>1, <1>4 DEF Remaining
    <2>2. i - 1 \in DOMAIN Tail(q) /\ Tail(q)[i - 1] = x
        BY <1>1, <1>4, <2>1
    <2>3. QED
        BY <2>2 DEF Remaining
<1>5. QED
    BY <1>1, <1>2, <1>3, <1>4

\* More proxy tenants cover as much.
LEMMA CoverMore ==
    ASSUME NEW pts, NEW more, pts \subseteq more
    PROVE  /\ \A s : OwnedCovered(s, pts) => OwnedCovered(s, more)
           /\ \A s, setting : SettingCovered(s, setting, pts) => SettingCovered(s, setting, more)
           /\ \A s, settings : SettingsCovered(s, settings, pts) => SettingsCovered(s, settings, more)
           /\ \A s : GlobalCovered(s, pts) => GlobalCovered(s, more)
           /\ \A s : Covered(s, pts) => Covered(s, more)
<1>1. ClusterResources(pts) \subseteq ClusterResources(more)
    BY DEF ClusterResources
<1>2. \A t : HasTenant(pts, t) => HasTenant(more, t)
    BY DEF HasTenant
<1>3. /\ \A s : OwnedCovered(s, pts) => OwnedCovered(s, more)
      /\ \A s, setting : SettingCovered(s, setting, pts) => SettingCovered(s, setting, more)
      /\ \A s : GlobalCovered(s, pts) => GlobalCovered(s, more)
    BY <1>1, <1>2 DEF OwnedCovered, SettingCovered, GlobalCovered
<1>4. \A s, settings : SettingsCovered(s, settings, pts) => SettingsCovered(s, settings, more)
    BY <1>3 DEF SettingsCovered
<1>5. QED
    BY <1>3, <1>4 DEF Covered

\* The rules of the settings are among the possible ones.
LEMMA SettingRulePossible ==
    ASSUME NEW setting \in ProxySettingObjects, NEW i \in DOMAIN setting.subjects,
           NEW rule \in setting.subjects[i].clusterResources
    PROVE  rule \in PossibleRules
<1>1. rule \in EntryRules(setting)
    BY DEF EntryRules
<1>2. QED
    BY <1>1 DEF PossibleRules

LEMMA GlobalRulePossible ==
    ASSUME NEW rules \in GlobalObjects, NEW r \in rules, NEW rule \in r.clusterResources
    PROVE  rule \in PossibleRules
<1>1. rule \in GlobalEntryRules(rules)
    BY DEF GlobalEntryRules
<1>2. QED
    BY <1>1 DEF PossibleRules

LEMMA ProxyTenantMade ==
    ASSUME NEW t \in Tenants, NEW subject, WorldType
    PROVE  /\ NewProxyTenant(t, subject, << >>) \in ProxyTenants
           /\ NewProxyTenant(t, subject, << >>).tenant = t
           /\ NewProxyTenant(t, subject, << >>).namespaces = tenants[t].namespaces
           /\ NewProxyTenant(t, subject, << >>).clusterResources = {}
<1> DEFINE pt == NewProxyTenant(t, subject, << >>)
<1>1. pt.tenant = t /\ pt.namespaces = tenants[t].namespaces
    BY DEF NewProxyTenant
<1>2. pt.clusterResources = {}
    BY DEF NewProxyTenant
<1>3. pt = [tenant |-> t, namespaces |-> tenants[t].namespaces, clusterResources |-> {}]
    BY <1>1, <1>2 DEF NewProxyTenant
<1>4. tenants[t].namespaces \in SUBSET Names
    BY DEF WorldType
<1> HIDE DEF pt
<1>5. pt \in ProxyTenants
    BY <1>3, <1>4 DEF ProxyTenants
<1>6. QED
    BY <1>1, <1>2, <1>5 DEF pt

LEMMA SettingTenantMade ==
    ASSUME NEW t \in Tenants, NEW subject, NEW setting \in ProxySettingObjects, WorldType
    PROVE  LET pt == NewProxyTenant(t, subject, setting.subjects)
           IN  /\ pt \in ProxyTenants
               /\ pt.tenant = t
               /\ pt.namespaces = tenants[t].namespaces
               /\ pt.clusterResources = OwnRules(subject, setting)
<1> DEFINE pt == NewProxyTenant(t, subject, setting.subjects)
<1>1. pt = [tenant |-> t, namespaces |-> tenants[t].namespaces,
            clusterResources |-> OwnRules(subject, setting)]
    BY DEF NewProxyTenant, OwnRules
<1>2. OwnRules(subject, setting) \subseteq PossibleRules
    <2>1. SUFFICES ASSUME NEW rule \in OwnRules(subject, setting)
                   PROVE  rule \in PossibleRules
        OBVIOUS
    <2>2. PICK i \in DOMAIN setting.subjects : rule \in setting.subjects[i].clusterResources
        BY <2>1 DEF OwnRules
    <2>3. QED
        BY <2>2, SettingRulePossible
<1>3. tenants[t].namespaces \in SUBSET Names
    BY DEF WorldType
<1> HIDE DEF pt
<1>4. pt \in ProxyTenants
    BY <1>1, <1>2, <1>3 DEF ProxyTenants
<1>5. QED
    BY <1>1, <1>4 DEF pt

LEMMA ClusterProxyMade ==
    ASSUME NEW rules \in GlobalObjects, NEW subject
    PROVE  /\ NewClusterProxy(subject, rules) \in ProxyTenants
           /\ NewClusterProxy(subject, rules).tenant = GlobalTenant
           /\ NewClusterProxy(subject, rules).namespaces = {}
<1>1. NewClusterProxy(subject, rules).clusterResources \subseteq PossibleRules
    <2>1. SUFFICES ASSUME NEW rule \in NewClusterProxy(subject, rules).clusterResources
                   PROVE  rule \in PossibleRules
        OBVIOUS
    <2>2. PICK r \in rules : rule \in r.clusterResources
        BY <2>1 DEF NewClusterProxy
    <2>3. QED
        BY <2>2, GlobalRulePossible
<1>2. QED
    BY <1>1 DEF NewClusterProxy, ProxyTenants

-----------------------------------------------------------------------------
(* Steps that leave the world alone, and steps of the world. *)

\* What is due to the caller depends on the world only.
LEMMA SameWorld ==
    ASSUME UNCHANGED world
    PROVE  /\ \A t : OwnedBy(t)' = OwnedBy(t)
           /\ InSync' = InSync
           /\ \A s : SettingsOf(s)' = SettingsOf(s)
           /\ CallerTenants' = CallerTenants
           /\ \A s : GlobalRulesFor(s)' = GlobalRulesFor(s)
           /\ CollectedRules' = CollectedRules
           /\ \A n : Found(n)' = Found(n)
<1> USE DEF world
<1>1. \A t : OwnedBy(t)' = OwnedBy(t)
    BY DEF OwnedBy
<1>2. InSync' = InSync
    BY <1>1 DEF InSync
<1>3. \A s : SettingsOf(s)' = SettingsOf(s)
    BY DEF SettingsOf
<1>4. CallerTenants' = CallerTenants
    BY <1>1, <1>3 DEF CallerTenants
<1>5. \A s : GlobalRulesFor(s)' = GlobalRulesFor(s)
    BY DEF GlobalRulesFor
<1>6. CollectedRules' = CollectedRules
    BY <1>1, <1>3, <1>5 DEF CollectedRules, InTenant
<1>7. \A n : Found(n)' = Found(n)
    BY <1>4, <1>6 DEF Found
<1>8. QED
    BY <1>1, <1>2, <1>3, <1>4, <1>5, <1>6, <1>7

\* A step of the request alone keeps the invariant if the next request has it.
LEMMA RequestKept ==
    ASSUME UNCHANGED world, NEW r, request' = r, RequestInv(r)
    PROVE  RequestInv(request)'
<1> USE SameWorld
<1>1. Stages(request)'
    BY DEF RequestInv, Stages
<1>2. Justified(request)'
    <2>1. \A pt : JustifiedTenant(pt)' = JustifiedTenant(pt)
        BY DEF JustifiedTenant
    <2>2. QED
        BY <2>1 DEF RequestInv, Justified
<1>3. Complete(request)'
    <2>1. \A s, pts : OwnedCovered(s, pts)' = OwnedCovered(s, pts)
        BY DEF OwnedCovered, world
    <2>2. \A s, st, pts : SettingsCovered(s, st, pts)' = SettingsCovered(s, st, pts)
        BY DEF SettingsCovered, SettingCovered
    <2>3. \A s, pts : Covered(s, pts)' = Covered(s, pts)
        BY <2>1, <2>2 DEF Covered, GlobalCovered
    <2>4. QED
        BY <2>1, <2>2, <2>3 DEF RequestInv, Complete
<1>4. Current(request)'
    <2>1. ReaderNamespaces' = ReaderNamespaces
        BY DEF ReaderNamespaces, world
    <2>2. QED
        BY <2>1 DEF RequestInv, Current, world
<1>5. ListFound(request)'
    BY DEF RequestInv, ListFound, world
<1>6. QED
    BY <1>1, <1>2, <1>3, <1>4, <1>5 DEF RequestInv

\* Nothing is claimed of a request under which something has changed.
LEMMA Unsteady ==
    ASSUME NEW r \in Requests, RequestInv(r), Changed, r = request
    PROVE  /\ request' \in Requests /\ RequestInv(request)'
           /\ ~request'.steady /\ listed' = {}
<1>1. request' \in Requests
    BY DEF Changed, Requests
<1>2. /\ ~request'.steady /\ listed' = {}
      /\ request'.pc = r.pc /\ request'.operation = r.operation
      /\ request'.name = r.name /\ request'.subjects = r.subjects
    BY DEF Changed, Requests
<1>3. Stages(request)'
    BY <1>2 DEF RequestInv, Stages
<1>4. Justified(request)' /\ Complete(request)' /\ Current(request)' /\ ListFound(request)'
    BY <1>2 DEF RequestInv, Justified, Complete, Current, ListFound
<1>5. QED
    BY <1>1, <1>2, <1>3, <1>4 DEF RequestInv

\* Every change of the world is a change under the request.
LEMMA WorldStep ==
    ASSUME IndInv, World
    PROVE  IndInv'
<1>1. Changed
    BY DEF World, WriteNamespace, WriteTenantOwners, WriteSettings, WriteRoleBindings, Write,
           SyncNamespace, ReconcileTenant
<1>2. /\ request' \in Requests /\ RequestInv(request)'
      /\ ~request'.steady /\ listed' = {}
    BY <1>1, Unsteady DEF IndInv
<1>3. WorldType'
    <2>1. \A t : OwnedBy(t) \in SUBSET Names
        BY DEF OwnedBy
    <2>2. MaxWrites \in Nat
        BY ViewAssumption
    <2>3. CASE WriteNamespace
        BY <2>3, <2>2 DEF WriteNamespace, Write, IndInv, WorldType
    <2>4. CASE WriteTenantOwners
        BY <2>4, <2>2 DEF WriteTenantOwners, Write, IndInv, WorldType
    <2>5. CASE WriteSettings
        BY <2>5, <2>2 DEF WriteSettings, Write, IndInv, WorldType
    <2>6. CASE WriteRoleBindings
        BY <2>6, <2>2 DEF WriteRoleBindings, Write, IndInv, WorldType
    <2>7. CASE SyncNamespace
        BY <2>7 DEF SyncNamespace, IndInv, WorldType
    <2>8. CASE ReconcileTenant
        BY <2>1, <2>8 DEF ReconcileTenant, IndInv, WorldType
    <2>9. QED
        BY <2>3, <2>4, <2>5, <2>6, <2>7, <2>8 DEF World
<1>4. ListedCurrent' /\ ListedIsFound'
    BY <1>2 DEF ListedCurrent, ListedIsFound
<1>5. MissingNamespaceTold'
    BY <1>2 DEF MissingNamespaceTold
<1>6. QED
    BY <1>2, <1>3, <1>4, <1>5 DEF IndInv

-----------------------------------------------------------------------------
(* The beginning and the end of a request. *)

LEMMA EmptySubjects == Remaining(<< >>) = {}
    BY DEF Remaining

LEMMA InitIndInv == Init => IndInv
<1> SUFFICES ASSUME Init PROVE IndInv
    OBVIOUS
<1>1. WorldType
    <2>1. \A t : OwnedBy(t) \in SUBSET Names
        BY DEF OwnedBy
    <2>2. PICK owners \in [Tenants -> OwnerSets] :
              tenants = [t \in Tenants |-> [owners |-> owners[t], namespaces |-> OwnedBy(t)]]
        BY DEF Init
    <2>3. tenants \in [Tenants -> [owners : OwnerSets, namespaces : SUBSET Names]]
        BY <2>1, <2>2
    <2>4. QED
        BY <2>3, ViewAssumption DEF Init, WorldType
<1>2. request \in Requests
    BY DEF Init, NoRequest, Requests
<1>3. RequestInv(request)
    BY EmptySubjects
       DEF Init, NoRequest, RequestInv, Stages, Justified, Complete, Current, ListFound
<1>4. ListedCurrent /\ ListedIsFound /\ MissingNamespaceTold
    BY DEF Init, NoRequest, ListedCurrent, ListedIsFound, MissingNamespaceTold
<1>5. listed \subseteq Names
    BY DEF Init
<1>6. QED
    BY <1>1, <1>2, <1>3, <1>4, <1>5 DEF IndInv

\* The invariant after a step of the request, from what it is afterwards.
LEMMA RequestStep ==
    ASSUME IndInv, UNCHANGED <<world, listed>>,
           NEW r \in Requests, request' = r, RequestInv(r),
           request.steady => r.steady,
           r.pc = "refused" /\ r.operation = "Get" /\ ~r.failed /\ r.name \in listed
               => apiNamespaces[r.name].owner = NoTenant,
           r.operation = "GetObject" /\ r.steady /\ ~r.failed =>
               /\ r.pc = "notFound" => apiNamespaces[r.name] = NoObject
               /\ r.pc = "refused" => apiNamespaces[r.name] # NoObject
    PROVE  IndInv'
<1>1. WorldType' /\ (listed \subseteq Names)'
    BY DEF IndInv, WorldType, world
<1>2. RequestInv(request)'
    BY RequestKept
<1>3. ListedCurrent'
    BY SameWorld DEF IndInv, ListedCurrent, world
<1>4. ListedIsFound' /\ MissingNamespaceTold'
    BY DEF ListedIsFound, MissingNamespaceTold, world
<1>5. QED
    BY <1>1, <1>2, <1>3, <1>4 DEF IndInv

LEMMA BeginStep ==
    ASSUME IndInv,
           NEW operation \in {"List", "Get"} \cup ObjectOperations, NEW name,
           IF operation = "List" THEN name = NoObject ELSE name \in Names,
           Begin(operation, name)
    PROVE  IndInv'
<1>1. PICK r : r = [NoRequest EXCEPT !.pc = IF operation \in ObjectOperations THEN "sendObject"
                                           ELSE "tenants",
                                     !.operation = operation, !.name = name,
                                     !.subjects = Subjects, !.steady = TRUE,
                                     !.synced = InSync]
    OBVIOUS
<1>2. /\ r.pc = (IF operation \in ObjectOperations THEN "sendObject" ELSE "tenants")
      /\ r.operation = operation /\ r.name = name /\ r.subjects = Subjects
      /\ r.settings = {} /\ r.proxyTenants = {} /\ r.steady = TRUE /\ r.synced = InSync
      /\ r.failed = FALSE
    BY <1>1 DEF NoRequest
<1>3. r \in Requests
    BY <1>1, ViewAssumption DEF NoRequest, Requests, InSync
<1>4. RequestInv(r)
    <2>1. Stages(r)
        BY <1>2 DEF Stages, ObjectOperations
    <2>2. Remaining(r.subjects) = CallerSubjects
        BY <1>2 DEF Remaining, CallerSubjects
    <2>3. Justified(r) /\ Complete(r)
        BY <1>2, <2>2 DEF Justified, Complete
    <2>4. Current(r) /\ ListFound(r)
        BY <1>2 DEF Current, ListFound
    <2>5. QED
        BY <2>1, <2>3, <2>4 DEF RequestInv
<1>5. request' = r /\ UNCHANGED <<world, listed>>
    BY <1>1 DEF Begin
<1>6. QED
    BY <1>2, <1>3, <1>4, <1>5, RequestStep

\* A request that has ended keeps nothing of what was collected.
LEMMA Answered ==
    ASSUME IndInv,
           NEW pc \in {"shown", "refused", "notFound", "error"}, NEW shown \in SUBSET Names
    PROVE  LET r == Answer(pc, shown)
           IN  /\ r \in Requests /\ RequestInv(r)
               /\ r.pc = pc /\ r.operation = request.operation /\ r.name = request.name
               /\ r.steady = request.steady /\ r.synced = request.synced
               /\ r.failed = request.failed /\ r.shown = shown
<1>1. PICK r : r = Answer(pc, shown)
    OBVIOUS
<1>2. /\ r.pc = pc /\ r.operation = request.operation /\ r.name = request.name
      /\ r.steady = request.steady /\ r.synced = request.synced /\ r.failed = request.failed
      /\ r.subjects = << >> /\ r.proxyTenants = {} /\ r.shown = shown
    BY <1>1 DEF Answer, NoRequest
<1>3. r \in Requests
    <2>1. /\ request.operation \in {"List", "Get"} \cup ObjectOperations
          /\ request.name \in Names \cup {NoObject}
          /\ request.steady \in BOOLEAN /\ request.synced \in BOOLEAN /\ request.failed \in BOOLEAN
        BY DEF IndInv, Requests
    <2>2. << >> \in Seq(UNION OwnerSets)
        OBVIOUS
    <2>3. QED
        BY <1>1, <2>1, <2>2 DEF Answer, NoRequest, Requests
<1>4. Stages(r)
    BY <1>2 DEF Stages, IndInv, RequestInv
<1>5. Justified(r) /\ Complete(r)
    BY <1>2, EmptySubjects DEF Justified, Complete
<1>6. Current(r) /\ ListFound(r)
    BY <1>2 DEF Current, ListFound, IndInv, RequestInv
<1>7. QED
    BY <1>1, <1>2, <1>3, <1>4, <1>5, <1>6 DEF RequestInv

LEMMA ReadFailsStep ==
    ASSUME IndInv, NEW pc, ReadFails(pc)
    PROVE  IndInv'
<1>1. PICK r : r = Answer("error", {})
    OBVIOUS
<1>2. /\ r \in Requests /\ RequestInv(r)
      /\ r.pc = "error" /\ r.steady = request.steady
    BY <1>1, Answered
<1>3. request' = r /\ UNCHANGED <<world, listed>>
    BY <1>1 DEF ReadFails, Advance
<1>4. QED
    BY <1>2, <1>3, RequestStep

-----------------------------------------------------------------------------
(* The collection. *)

\* The subject whose objects are read is one of the caller's.
LEMMA HeadIsCaller ==
    ASSUME IndInv, request.subjects # << >>
    PROVE  /\ Head(request.subjects) \in CallerSubjects
           /\ Tail(request.subjects) \in Seq(UNION OwnerSets)
           /\ Remaining(request.subjects)
                  = Remaining(Tail(request.subjects)) \cup {Head(request.subjects)}
<1>1. request.subjects \in Seq(UNION OwnerSets)
    BY DEF IndInv, Requests
<1>2. Remaining(request.subjects) \subseteq CallerSubjects
    BY DEF IndInv, RequestInv, Justified
<1>3. QED
    BY <1>1, <1>2, Subjects1

LEMMA ListTenantsStep ==
    ASSUME IndInv, ListTenants
    PROVE  IndInv'
<1>1. CASE ReadFails("tenants")
    BY <1>1, ReadFailsStep
<1>2. CASE ~ReadFails("tenants")
    <2>1. PICK subject : subject = Head(request.subjects)
        OBVIOUS
    <2>2. PICK made : made = {NewProxyTenant(t, subject, << >>) :
                                t \in {u \in Tenants : subject \in tenants[u].owners}}
        OBVIOUS
    <2>3. PICK r : r = [request EXCEPT !.pc = "settings", !.proxyTenants = @ \cup made]
        OBVIOUS
    <2>4. /\ request.pc = "tenants" /\ request.subjects # << >>
          /\ request' = r /\ UNCHANGED <<world, listed>>
        BY <1>2, <2>1, <2>2, <2>3 DEF ListTenants, Advance
    <2>5. /\ r.pc = "settings" /\ r.operation = request.operation /\ r.name = request.name
          /\ r.subjects = request.subjects /\ r.steady = request.steady
          /\ r.synced = request.synced /\ r.failed = request.failed
          /\ r.proxyTenants = request.proxyTenants \cup made
        BY <2>3 DEF IndInv, Requests
    <2>6. made \subseteq ProxyTenants
        BY <2>2, ProxyTenantMade DEF IndInv
    <2>7. r \in Requests
        BY <2>3, <2>6 DEF IndInv, Requests
    <2>8. Stages(r)
        BY <2>4, <2>5 DEF IndInv, RequestInv, Stages
    <2>9. Justified(r)
        <3>1. ASSUME InSync, NEW pt \in made PROVE JustifiedTenant(pt)
            <4>1. PICK t \in Tenants : subject \in tenants[t].owners
                                       /\ pt = NewProxyTenant(t, subject, << >>)
                BY <2>2, <3>1
            <4>2. pt.tenant = t /\ pt.namespaces = OwnedBy(t) /\ pt.clusterResources = {}
                BY <3>1, <4>1, ProxyTenantMade DEF IndInv, InSync
            <4>3. t \in CallerTenants
                BY <2>1, <2>4, <4>1, HeadIsCaller DEF CallerTenants
            <4>4. QED
                BY <4>2, <4>3 DEF JustifiedTenant
        <3>2. QED
            BY <2>4, <2>5, <3>1 DEF IndInv, RequestInv, Justified
    <2>10. Complete(r)
        <3>1. OwnedCovered(subject, made)
            <4>1. SUFFICES ASSUME NEW t \in Tenants, subject \in tenants[t].owners
                           PROVE  HasTenant(made, t)
                BY DEF OwnedCovered
            <4>2. NewProxyTenant(t, subject, << >>) \in made
                BY <2>2, <4>1
            <4>3. QED
                BY <4>2, ProxyTenantMade DEF HasTenant, IndInv
        <3>2. OwnedCovered(subject, r.proxyTenants)
            BY <2>5, <3>1, CoverMore
        <3>3. \A s : Covered(s, request.proxyTenants) => Covered(s, r.proxyTenants)
            BY <2>5, CoverMore
        <3>4. QED
            BY <2>1, <2>4, <2>5, <3>2, <3>3 DEF IndInv, RequestInv, Complete
    <2>11. Current(r) /\ ListFound(r)
        BY <2>4, <2>5 DEF IndInv, RequestInv, Current, ListFound
    <2>12. RequestInv(r)
        BY <2>8, <2>9, <2>10, <2>11 DEF RequestInv
    <2>13. QED
        BY <2>4, <2>5, <2>7, <2>12, RequestStep
<1>3. QED
    BY <1>1, <1>2

LEMMA ListProxySettingsStep ==
    ASSUME IndInv, ListProxySettings
    PROVE  IndInv'
<1>1. PICK subject : subject = Head(request.subjects)
    OBVIOUS
<1>2. request.pc = "settings" /\ request.subjects # << >>
    BY DEF ListProxySettings, IndInv, RequestInv, Stages
<1>3. CASE request' = [request EXCEPT !.pc = "global", !.failed = TRUE]
           /\ UNCHANGED <<world, listed>>
    <2>1. PICK r : r = [request EXCEPT !.pc = "global", !.failed = TRUE]
        OBVIOUS
    <2>2. /\ r.pc = "global" /\ r.operation = request.operation /\ r.name = request.name
          /\ r.subjects = request.subjects /\ r.steady = request.steady
          /\ r.synced = request.synced /\ r.failed = TRUE
          /\ r.proxyTenants = request.proxyTenants
        BY <2>1 DEF IndInv, Requests
    <2>3. r \in Requests
        BY <2>1 DEF IndInv, Requests
    <2>4. RequestInv(r)
        BY <1>2, <2>2
           DEF IndInv, RequestInv, Stages, Justified, Complete, Current, ListFound
    <2>5. QED
        BY <1>3, <2>1, <2>2, <2>3, <2>4, RequestStep
<1>4. CASE request' = [request EXCEPT !.pc = "settingTenants", !.settings = SettingsOf(subject)]
           /\ UNCHANGED <<world, listed>>
    <2>1. PICK r : r = [request EXCEPT !.pc = "settingTenants", !.settings = SettingsOf(subject)]
        OBVIOUS
    <2>2. /\ r.pc = "settingTenants" /\ r.operation = request.operation /\ r.name = request.name
          /\ r.subjects = request.subjects /\ r.steady = request.steady
          /\ r.synced = request.synced /\ r.failed = request.failed
          /\ r.proxyTenants = request.proxyTenants /\ r.settings = SettingsOf(subject)
        BY <2>1 DEF IndInv, Requests
    <2>3. SettingsOf(subject) \subseteq ProxySettingObjects
        BY DEF SettingsOf, IndInv, WorldType
    <2>4. r \in Requests
        BY <2>1, <2>3 DEF IndInv, Requests
    <2>5. SettingsCovered(subject, SettingsOf(subject), r.proxyTenants)
        BY DEF SettingsCovered
    <2>6. Stages(r) /\ Justified(r)
        BY <1>1, <1>2, <2>2 DEF IndInv, RequestInv, Stages, Justified
    <2>7. Complete(r)
        BY <1>1, <1>2, <2>2, <2>5 DEF IndInv, RequestInv, Complete
    <2>8. Current(r) /\ ListFound(r)
        BY <1>2, <2>2 DEF IndInv, RequestInv, Current, ListFound
    <2>9. RequestInv(r)
        BY <2>6, <2>7, <2>8 DEF RequestInv
    <2>10. QED
        BY <1>4, <2>1, <2>2, <2>4, <2>9, RequestStep
<1>5. QED
    BY <1>1, <1>3, <1>4 DEF ListProxySettings, Advance, SettingsOf

\* A ProxySetting is done, with the proxy tenants made of it.
LEMMA SettingDone ==
    ASSUME IndInv, request.pc = "settingTenants",
           NEW setting \in request.settings, NEW made \in SUBSET ProxyTenants,
           NEW failed \in BOOLEAN, request.failed => failed,
           InSync /\ request.steady => \A pt \in made : JustifiedTenant(pt),
           InSync /\ ~failed => SettingCovered(Head(request.subjects), setting, made),
           request' = [request EXCEPT !.settings = @ \ {setting},
                                      !.proxyTenants = @ \cup made, !.failed = failed],
           UNCHANGED <<world, listed>>
    PROVE  IndInv'
<1>1. PICK r : r = [request EXCEPT !.settings = @ \ {setting},
                                   !.proxyTenants = @ \cup made, !.failed = failed]
    OBVIOUS
<1>2. /\ r.pc = "settingTenants" /\ r.operation = request.operation /\ r.name = request.name
      /\ r.subjects = request.subjects /\ r.steady = request.steady
      /\ r.synced = request.synced /\ r.failed = failed
      /\ r.proxyTenants = request.proxyTenants \cup made
      /\ r.settings = request.settings \ {setting}
    BY <1>1 DEF IndInv, Requests
<1>3. r \in Requests
    BY <1>1 DEF IndInv, Requests
<1>4. Stages(r)
    BY <1>2 DEF IndInv, RequestInv, Stages
<1>5. Justified(r)
    BY <1>2 DEF IndInv, RequestInv, Justified
<1>6. Complete(r)
    <2>1. /\ \A s : Covered(s, request.proxyTenants) => Covered(s, r.proxyTenants)
          /\ \A s : OwnedCovered(s, request.proxyTenants) => OwnedCovered(s, r.proxyTenants)
          /\ \A s, x : SettingCovered(s, x, request.proxyTenants)
                           => SettingCovered(s, x, r.proxyTenants)
          /\ \A s, x : SettingCovered(s, x, made) => SettingCovered(s, x, r.proxyTenants)
        BY <1>2, CoverMore
    <2>2. ASSUME InSync, ~failed,
                 SettingsCovered(Head(request.subjects), request.settings, request.proxyTenants)
          PROVE  SettingsCovered(Head(request.subjects), r.settings, r.proxyTenants)
        BY <1>2, <2>1, <2>2 DEF SettingsCovered
    <2>3. QED
        BY <1>2, <2>1, <2>2 DEF IndInv, RequestInv, Complete
<1>7. Current(r) /\ ListFound(r)
    BY <1>2 DEF IndInv, RequestInv, Current, ListFound
<1>8. RequestInv(r)
    BY <1>4, <1>5, <1>6, <1>7 DEF RequestInv
<1>9. QED
    BY <1>1, <1>2, <1>3, <1>8, RequestStep

LEMMA ListSettingTenantsStep ==
    ASSUME IndInv, ListSettingTenants
    PROVE  IndInv'
<1>1. /\ request.pc = "settingTenants" /\ request.subjects # << >>
      /\ UNCHANGED <<world, listed>>
    BY DEF ListSettingTenants, Advance, IndInv, RequestInv, Stages
<1>2. CASE request.settings = {} /\ request' = [request EXCEPT !.pc = "global"]
    <2>1. PICK r : r = [request EXCEPT !.pc = "global"]
        OBVIOUS
    <2>2. /\ r.pc = "global" /\ r.operation = request.operation /\ r.name = request.name
          /\ r.subjects = request.subjects /\ r.steady = request.steady
          /\ r.synced = request.synced /\ r.failed = request.failed
          /\ r.proxyTenants = request.proxyTenants
        BY <2>1 DEF IndInv, Requests
    <2>3. r \in Requests
        BY <2>1 DEF IndInv, Requests
    <2>4. RequestInv(r)
        BY <1>1, <1>2, <2>2
           DEF IndInv, RequestInv, Stages, Justified, Complete, Current, ListFound
    <2>5. QED
        BY <1>1, <1>2, <2>1, <2>2, <2>3, <2>4, RequestStep
<1>3. CASE ~(request.settings = {} /\ request' = [request EXCEPT !.pc = "global"])
    <2>1. PICK setting \in request.settings :
             LET owning == {t \in Tenants : setting.namespace \in tenants[t].namespaces}
                 rest == [request EXCEPT !.settings = @ \ {setting}]
             IN  \/ \E t \in owning :
                       request' = [rest EXCEPT !.proxyTenants = @ \cup
                           {NewProxyTenant(t, Head(request.subjects), setting.subjects)}]
                 \/ owning = {} /\ request' = rest
                 \/ request' = [rest EXCEPT !.failed = TRUE]
        BY <1>3 DEF ListSettingTenants, Advance
    <2>2. setting \in ProxySettingObjects
        BY <2>1 DEF IndInv, Requests
    <2>3. CASE \E t \in Tenants :
                  /\ setting.namespace \in tenants[t].namespaces
                  /\ request' = [request EXCEPT !.settings = @ \ {setting},
                         !.proxyTenants = @ \cup
                             {NewProxyTenant(t, Head(request.subjects), setting.subjects)}]
        <3>1. PICK t \in Tenants :
                  /\ setting.namespace \in tenants[t].namespaces
                  /\ request' = [request EXCEPT !.settings = @ \ {setting},
                         !.proxyTenants = @ \cup
                             {NewProxyTenant(t, Head(request.subjects), setting.subjects)}]
            BY <2>3
        <3>2. PICK subject : subject = Head(request.subjects)
            OBVIOUS
        <3>3. PICK pt : pt = NewProxyTenant(t, subject, setting.subjects)
            OBVIOUS
        <3>4. /\ pt \in ProxyTenants /\ pt.tenant = t /\ pt.namespaces = tenants[t].namespaces
              /\ pt.clusterResources = OwnRules(subject, setting)
            BY <2>2, <3>3, SettingTenantMade DEF IndInv
        <3>5. ASSUME InSync, request.steady PROVE JustifiedTenant(pt)
            <4>1. setting \in SettingsOf(subject) /\ subject \in CallerSubjects
                BY <1>1, <2>1, <3>2, <3>5, HeadIsCaller DEF IndInv, RequestInv, Justified
            <4>2. pt.namespaces = OwnedBy(t) /\ setting.namespace \in OwnedBy(t)
                BY <3>1, <3>4, <3>5 DEF InSync
            <4>3. t \in CallerTenants
                BY <4>1, <4>2 DEF CallerTenants
            <4>4. pt.clusterResources \subseteq PossibleRules
                BY <3>4 DEF ProxyTenants
            <4>5. pt.clusterResources \subseteq CollectedRules
                BY <3>4, <4>1, <4>2, <4>4 DEF CollectedRules, InTenant
            <4>6. QED
                BY <3>4, <4>2, <4>3, <4>5 DEF JustifiedTenant
        <3>6. ASSUME InSync PROVE SettingCovered(subject, setting, {pt})
            <4>1. SUFFICES ASSUME NEW u \in Tenants, setting.namespace \in OwnedBy(u)
                           PROVE  /\ HasTenant({pt}, u)
                                  /\ OwnRules(subject, setting) \subseteq ClusterResources({pt})
                BY DEF SettingCovered
            <4>2. setting.namespace \in OwnedBy(t)
                BY <3>1, <3>6 DEF InSync
            <4>3. u = t
                BY <4>1, <4>2 DEF OwnedBy
            <4>4. QED
                BY <3>4, <4>3 DEF HasTenant, ClusterResources
        <3>7. request' = [request EXCEPT !.settings = @ \ {setting},
                              !.proxyTenants = @ \cup {pt}, !.failed = request.failed]
            BY <3>1, <3>2, <3>3 DEF IndInv, Requests
        <3>8. {pt} \in SUBSET ProxyTenants /\ request.failed \in BOOLEAN
            BY <3>4 DEF IndInv, Requests
        <3>9. /\ InSync /\ request.steady => \A q \in {pt} : JustifiedTenant(q)
              /\ InSync => SettingCovered(Head(request.subjects), setting, {pt})
            BY <3>2, <3>5, <3>6
        <3>10. PICK made \in SUBSET ProxyTenants : made = {pt}
            BY <3>8
        <3>11. QED
            BY <1>1, <2>1, <3>7, <3>8, <3>9, <3>10, SettingDone
    <2>4. CASE /\ {t \in Tenants : setting.namespace \in tenants[t].namespaces} = {}
               /\ request' = [request EXCEPT !.settings = @ \ {setting}]
        <3>1. InSync => SettingCovered(Head(request.subjects), setting, {})
            BY <2>4 DEF InSync, SettingCovered
        <3>2. request' = [request EXCEPT !.settings = @ \ {setting},
                              !.proxyTenants = @ \cup {}, !.failed = request.failed]
            BY <2>4 DEF IndInv, Requests
        <3>3. {} \in SUBSET ProxyTenants /\ request.failed \in BOOLEAN
            BY DEF IndInv, Requests
        <3>4. QED
            BY <1>1, <2>1, <3>1, <3>2, <3>3, SettingDone
    <2>5. CASE request' = [request EXCEPT !.settings = @ \ {setting}, !.failed = TRUE]
        <3>1. request' = [request EXCEPT !.settings = @ \ {setting},
                              !.proxyTenants = @ \cup {}, !.failed = TRUE]
            BY <2>5 DEF IndInv, Requests
        <3>2. {} \in SUBSET ProxyTenants
            OBVIOUS
        <3>3. PICK failed \in BOOLEAN : failed = TRUE
            OBVIOUS
        <3>4. request' = [request EXCEPT !.settings = @ \ {setting},
                              !.proxyTenants = @ \cup {}, !.failed = failed]
            BY <3>1, <3>3
        <3>5. QED
            BY <1>1, <2>1, <3>2, <3>3, <3>4, SettingDone
    <2>6. QED
        BY <2>1, <2>3, <2>4, <2>5
<1>4. QED
    BY <1>2, <1>3

\* A subject is done, with the proxy tenants made of its GlobalProxySettings.
LEMMA SubjectDone ==
    ASSUME IndInv, request.pc = "global", request.subjects # << >>,
           NEW made \in SUBSET ProxyTenants, NEW failed \in BOOLEAN, request.failed => failed,
           \A pt \in made : JustifiedTenant(pt),
           ~failed => GlobalCovered(Head(request.subjects), made),
           request' = [request EXCEPT !.pc = "tenants", !.subjects = Tail(@),
                                      !.proxyTenants = @ \cup made, !.failed = failed],
           UNCHANGED <<world, listed>>
    PROVE  IndInv'
<1>1. PICK r : r = [request EXCEPT !.pc = "tenants", !.subjects = Tail(@),
                                   !.proxyTenants = @ \cup made, !.failed = failed]
    OBVIOUS
<1>2. PICK subject : subject = Head(request.subjects)
    OBVIOUS
<1>3. /\ r.pc = "tenants" /\ r.operation = request.operation /\ r.name = request.name
      /\ r.subjects = Tail(request.subjects) /\ r.steady = request.steady
      /\ r.synced = request.synced /\ r.failed = failed
      /\ r.proxyTenants = request.proxyTenants \cup made
    BY <1>1 DEF IndInv, Requests
<1>4. /\ Tail(request.subjects) \in Seq(UNION OwnerSets)
      /\ Remaining(request.subjects) = Remaining(r.subjects) \cup {subject}
    BY <1>2, <1>3, HeadIsCaller
<1>5. r \in Requests
    BY <1>1, <1>4 DEF IndInv, Requests
<1>6. Stages(r)
    BY <1>3 DEF IndInv, RequestInv, Stages
<1>7. Justified(r)
    BY <1>3, <1>4 DEF IndInv, RequestInv, Justified
<1>8. Complete(r)
    <2>1. /\ \A s : Covered(s, request.proxyTenants) => Covered(s, r.proxyTenants)
          /\ OwnedCovered(subject, request.proxyTenants) => OwnedCovered(subject, r.proxyTenants)
          /\ SettingsCovered(subject, {}, request.proxyTenants)
                 => SettingsCovered(subject, {}, r.proxyTenants)
          /\ GlobalCovered(subject, made) => GlobalCovered(subject, r.proxyTenants)
        BY <1>3, CoverMore
    <2>2. ASSUME request.steady, InSync, ~failed PROVE Covered(subject, r.proxyTenants)
        BY <1>2, <2>1, <2>2 DEF IndInv, RequestInv, Complete, Covered
    <2>3. QED
        BY <1>3, <1>4, <2>1, <2>2 DEF IndInv, RequestInv, Complete
<1>9. Current(r) /\ ListFound(r)
    BY <1>3 DEF IndInv, RequestInv, Current, ListFound
<1>10. RequestInv(r)
    BY <1>6, <1>7, <1>8, <1>9 DEF RequestInv
<1>11. QED
    BY <1>1, <1>3, <1>5, <1>10, RequestStep

\* The rules of a GlobalProxySettings object that names the subject.
LEMMA GlobalRuleFound ==
    ASSUME NEW subject, NEW rules, NEW rule \in NewClusterProxy(subject, rules).clusterResources
    PROVE  \E r \in rules : subject \in r.subjects /\ rule \in r.clusterResources
    BY DEF NewClusterProxy

LEMMA ListGlobalProxySettingsStep ==
    ASSUME IndInv, ListGlobalProxySettings
    PROVE  IndInv'
<1>1. /\ request.pc = "global" /\ request.subjects # << >>
      /\ UNCHANGED <<world, listed>>
    BY DEF ListGlobalProxySettings, Advance, IndInv, RequestInv, Stages
<1>2. PICK subject : subject = Head(request.subjects)
    OBVIOUS
<1>3. PICK found : found = IF ~ClusterScoped THEN {}
                           ELSE {g \in GlobalIds :
                                   /\ globalProxySettings[g] # NoObject
                                   /\ \E r \in globalProxySettings[g] : subject \in r.subjects}
    OBVIOUS
<1>4. PICK made : made = {NewClusterProxy(subject, globalProxySettings[g]) : g \in found}
    OBVIOUS
<1>5. CASE request' = [request EXCEPT !.pc = "tenants", !.subjects = Tail(@),
                                      !.proxyTenants = @ \cup made]
    <2>1. \A g \in found : g \in GlobalIds /\ ClusterScoped
                           /\ globalProxySettings[g] \in GlobalObjects
        BY <1>3 DEF IndInv, WorldType
    <2>2. made \in SUBSET ProxyTenants
        BY <1>4, <2>1, ClusterProxyMade
    <2>3. ASSUME NEW pt \in made PROVE JustifiedTenant(pt)
        <3>1. PICK g \in found : pt = NewClusterProxy(subject, globalProxySettings[g])
            BY <1>4, <2>3
        <3>2. pt.tenant = GlobalTenant /\ pt.namespaces = {}
              /\ pt.clusterResources \subseteq PossibleRules
            BY <2>1, <3>1, ClusterProxyMade DEF ProxyTenants
        <3>3. globalProxySettings[g] # NoObject
            BY <2>1, ViewAssumption
        <3>4. pt.clusterResources \subseteq GlobalRulesFor(subject)
            BY <2>1, <3>1, <3>2, <3>3 DEF GlobalRulesFor
        <3>5. subject \in CallerSubjects
            BY <1>1, <1>2, HeadIsCaller
        <3>6. QED
            BY <3>2, <3>4, <3>5 DEF JustifiedTenant, CollectedRules
    <2>4. GlobalCovered(subject, made)
        <3>1. SUFFICES ASSUME NEW rule \in GlobalRulesFor(subject)
                       PROVE  rule \in ClusterResources(made)
            BY DEF GlobalCovered
        <3>2. PICK g \in GlobalIds :
                  /\ ClusterScoped /\ globalProxySettings[g] # NoObject
                  /\ rule \in NewClusterProxy(subject, globalProxySettings[g]).clusterResources
            BY <3>1 DEF GlobalRulesFor
        <3>3. g \in found
            BY <1>3, <3>2, GlobalRuleFound
        <3>4. NewClusterProxy(subject, globalProxySettings[g]) \in made
            BY <1>4, <3>3
        <3>5. QED
            BY <3>2, <3>4 DEF ClusterResources
    <2>5. request' = [request EXCEPT !.pc = "tenants", !.subjects = Tail(@),
                          !.proxyTenants = @ \cup made, !.failed = request.failed]
        BY <1>5 DEF IndInv, Requests
    <2>6. request.failed \in BOOLEAN
        BY DEF IndInv, Requests
    <2>7. QED
        BY <1>1, <1>2, <2>2, <2>3, <2>4, <2>5, <2>6, SubjectDone
<1>6. CASE request' = [request EXCEPT !.pc = "tenants", !.subjects = Tail(@), !.failed = TRUE]
    <2>1. PICK none \in SUBSET ProxyTenants : none = {}
        OBVIOUS
    <2>2. PICK failed \in BOOLEAN : failed = TRUE
        OBVIOUS
    <2>3. request' = [request EXCEPT !.pc = "tenants", !.subjects = Tail(@),
                          !.proxyTenants = @ \cup none, !.failed = failed]
        BY <1>6, <2>1, <2>2 DEF IndInv, Requests
    <2>4. QED
        BY <1>1, <2>1, <2>2, <2>3, SubjectDone
<1>7. QED
    BY <1>2, <1>3, <1>4, <1>5, <1>6 DEF ListGlobalProxySettings, Advance

-----------------------------------------------------------------------------
(* The modules. *)

LEMMA MoreRules ==
    ASSUME NEW gvk, NEW operation, NEW rules, NEW more, rules \subseteq more
    PROVE  GetClusterScopeRequirements(gvk, operation, rules)
               \subseteq GetClusterScopeRequirements(gvk, operation, more)
    BY DEF GetClusterScopeRequirements

\* A request that nothing disturbs has only rules of the caller, and if no read
\* failed, all of them and all of its tenants.
LEMMA CollectedIsDue ==
    ASSUME IndInv, request.steady, InSync
    PROVE  ClusterResources(request.proxyTenants) \subseteq CollectedRules
<1>1. \A pt \in request.proxyTenants : pt.clusterResources \subseteq CollectedRules
    BY DEF IndInv, RequestInv, Justified, JustifiedTenant
<1>2. QED
    BY <1>1 DEF ClusterResources

LEMMA DueIsCollected ==
    ASSUME IndInv, request.steady, InSync, ~request.failed, request.pc = "decide"
    PROVE  /\ CollectedRules \subseteq ClusterResources(request.proxyTenants)
           /\ CallerTenants \subseteq TenantNames
<1>1. \A s \in CallerSubjects : Covered(s, request.proxyTenants)
    BY EmptySubjects DEF IndInv, RequestInv, Complete, Stages
<1>2. ASSUME NEW s \in CallerSubjects, NEW setting \in SettingsOf(s)
      PROVE  SettingCovered(s, setting, request.proxyTenants)
    BY <1>1 DEF Covered, SettingsCovered
<1>3. ASSUME NEW rule \in CollectedRules PROVE rule \in ClusterResources(request.proxyTenants)
    <2>1. PICK s \in CallerSubjects :
             \/ \E setting \in SettingsOf(s) : InTenant(setting) /\ rule \in OwnRules(s, setting)
             \/ rule \in GlobalRulesFor(s)
        BY <1>3 DEF CollectedRules
    <2>2. CASE rule \in GlobalRulesFor(s)
        BY <1>1, <2>2 DEF Covered, GlobalCovered
    <2>3. CASE \E setting \in SettingsOf(s) : InTenant(setting) /\ rule \in OwnRules(s, setting)
        <3>1. PICK setting \in SettingsOf(s) : InTenant(setting) /\ rule \in OwnRules(s, setting)
            BY <2>3
        <3>2. QED
            BY <1>2, <3>1 DEF SettingCovered, InTenant
    <2>4. QED
        BY <2>1, <2>2, <2>3
<1>4. ASSUME NEW t \in CallerTenants PROVE t \in TenantNames
    <2>1. PICK s \in CallerSubjects :
             \/ s \in tenants[t].owners
             \/ \E setting \in SettingsOf(s) : setting.namespace \in OwnedBy(t)
        BY <1>4 DEF CallerTenants
    <2>2. t \in Tenants
        BY <1>4 DEF CallerTenants
    <2>3. HasTenant(request.proxyTenants, t)
        BY <1>1, <1>2, <2>1, <2>2 DEF Covered, OwnedCovered, SettingCovered
    <2>4. QED
        BY <2>3 DEF HasTenant, TenantNames
<1>5. QED
    BY <1>3, <1>4

LEMMA ReflectedStep ==
    ASSUME IndInv, ListReflected \/ GetReflected
    PROVE  IndInv'
<1>1. PICK next : /\ next = IF ListReflected THEN "select" ELSE "decide"
                  /\ ReadRoleBindings(next)
    BY DEF ListReflected, GetReflected
<1>2. CASE ReadFails(request.pc)
    BY <1>2, ReadFailsStep
<1>3. CASE ~ReadFails(request.pc)
    <2>1. PICK r : r = [request EXCEPT !.pc = next, !.reflected = bound]
        OBVIOUS
    <2>2. request' = r /\ UNCHANGED <<world, listed>>
        BY <1>1, <1>3, <2>1 DEF ReadRoleBindings, Advance
    <2>3. /\ r.pc = next /\ r.operation = request.operation /\ r.name = request.name
          /\ r.subjects = request.subjects /\ r.steady = request.steady
          /\ r.synced = request.synced /\ r.failed = request.failed
          /\ r.proxyTenants = request.proxyTenants /\ r.namespace = request.namespace
          /\ r.reflected = bound
        BY <2>1 DEF IndInv, Requests
    <2>4. /\ next = "select" => request.pc = "tenants" /\ request.subjects = << >>
                                /\ request.operation = "List"
          /\ next = "decide" => request.pc = "reflect"
          /\ next \in {"select", "decide"}
        BY <1>1 DEF ListReflected, GetReflected, Collected
    <2>5. r \in Requests
        BY <2>1, <2>4 DEF IndInv, Requests, WorldType
    <2>6. Stages(r)
        BY <2>3, <2>4 DEF IndInv, RequestInv, Stages
    <2>7. Justified(r) /\ Complete(r)
        BY <2>3, <2>4 DEF IndInv, RequestInv, Justified, Complete
    <2>8. Current(r) /\ ListFound(r)
        BY <2>3, <2>4 DEF IndInv, RequestInv, Current, ListFound
    <2>9. RequestInv(r)
        BY <2>6, <2>7, <2>8 DEF RequestInv
    <2>10. QED
        BY <2>2, <2>3, <2>4, <2>5, <2>9, RequestStep
<1>4. QED
    BY <1>2, <1>3

\* A module sends the request, under the proxy's token.
LEMMA Sent ==
    ASSUME IndInv, NEW shown \in SUBSET Names,
           request.operation \in {"List", "Get"},
           request.operation = "List" /\ request.steady /\ request.synced =>
               \A n \in shown : apiNamespaces[n] # NoObject => Found(n),
           request' = [request EXCEPT !.pc = "send", !.shown = shown],
           UNCHANGED <<world, listed>>
    PROVE  IndInv'
<1>1. PICK r : r = [request EXCEPT !.pc = "send", !.shown = shown]
    OBVIOUS
<1>2. /\ r.pc = "send" /\ r.operation = request.operation /\ r.name = request.name
      /\ r.subjects = request.subjects /\ r.steady = request.steady
      /\ r.synced = request.synced /\ r.failed = request.failed
      /\ r.proxyTenants = request.proxyTenants /\ r.shown = shown
    BY <1>1 DEF IndInv, Requests
<1>3. r \in Requests
    BY <1>1 DEF IndInv, Requests
<1>4. Stages(r)
    BY <1>2 DEF IndInv, RequestInv, Stages
<1>5. Justified(r) /\ Complete(r)
    BY <1>2 DEF IndInv, RequestInv, Justified, Complete
<1>6. Current(r) /\ ListFound(r)
    BY <1>2 DEF IndInv, RequestInv, Current, ListFound
<1>7. RequestInv(r)
    BY <1>4, <1>5, <1>6 DEF RequestInv
<1>8. QED
    BY <1>1, <1>2, <1>3, <1>7, RequestStep

\* The namespaces that LIST finds, and where they come from.
LEMMA Listing ==
    ASSUME IndInv, ListHandle, ~ReadFails("select")
    PROVE  LET rules == ClusterResources(request.proxyTenants)
               reqs == GetClusterScopeRequirements(namespacesGVK, "List", rules)
               owned == UNION {pt.namespaces : pt \in request.proxyTenants}
               selected == IF reqs = {} THEN {}
                           ELSE {n \in Names :
                                   /\ ReaderNamespaces[n] # NoObject
                                   /\ SelectorMatches(HandleListSelector(reqs),
                                                      ReaderNamespaces[n].labels)}
               shown == owned \cup request.reflected \cup selected
           IN  /\ request.pc = "select" /\ request.operation = "List"
               /\ UNCHANGED <<world, listed>>
               /\ request' = [request EXCEPT !.pc = "send", !.shown = shown]
               /\ shown \in SUBSET Names
               /\ request.steady /\ InSync =>
                     /\ ReaderNamespaces = apiNamespaces
                     /\ \A n \in owned : apiNamespaces[n].owner \in CallerTenants
                     /\ request.reflected = bound
<1> DEFINE owned == UNION {pt.namespaces : pt \in request.proxyTenants}
<1>1. request.pc = "select" /\ request.operation = "List"
    BY DEF ListHandle, IndInv, RequestInv, Stages
<1>2. owned \subseteq Names /\ request.reflected \subseteq Names
    BY DEF IndInv, Requests, ProxyTenants
<1>3. ASSUME request.steady, InSync PROVE
          /\ ReaderNamespaces = apiNamespaces
          /\ \A n \in owned : apiNamespaces[n].owner \in CallerTenants
          /\ request.reflected = bound
    <2>1. ReaderNamespaces = apiNamespaces
        BY <1>3 DEF ReaderNamespaces, InSync
    <2>2. ASSUME NEW n \in owned PROVE apiNamespaces[n].owner \in CallerTenants
        <3>1. PICK pt \in request.proxyTenants : n \in pt.namespaces
            BY <2>2
        <3>2. pt.tenant \in CallerTenants /\ n \in OwnedBy(pt.tenant)
            BY <1>3, <3>1 DEF IndInv, RequestInv, Justified, JustifiedTenant
        <3>3. QED
            BY <3>2 DEF OwnedBy
    <2>3. request.reflected = bound
        BY <1>1, <1>3 DEF IndInv, RequestInv, Current
    <2>4. QED
        BY <2>1, <2>2, <2>3
<1>4. QED
    BY <1>1, <1>2, <1>3 DEF ListHandle, Advance

LEMMA ListHandleStep ==
    ASSUME IndInv, ListHandle
    PROVE  IndInv'
<1>1. CASE ReadFails("select")
    BY <1>1, ReadFailsStep
<1>2. CASE ~ReadFails("select")
    <2>1. PICK rules : rules = ClusterResources(request.proxyTenants)
        OBVIOUS
    <2>2. PICK reqs : reqs = GetClusterScopeRequirements(namespacesGVK, "List", rules)
        OBVIOUS
    <2>3. PICK owned : owned = UNION {pt.namespaces : pt \in request.proxyTenants}
        OBVIOUS
    <2>4. PICK selected : selected =
              IF reqs = {} THEN {}
              ELSE {n \in Names :
                      /\ ReaderNamespaces[n] # NoObject
                      /\ SelectorMatches(HandleListSelector(reqs), ReaderNamespaces[n].labels)}
        OBVIOUS
    <2>5. PICK shown : shown = owned \cup request.reflected \cup selected
        OBVIOUS
    <2>6. /\ request.operation = "List" /\ UNCHANGED <<world, listed>>
          /\ request' = [request EXCEPT !.pc = "send", !.shown = shown]
          /\ shown \in SUBSET Names
          /\ request.steady /\ InSync =>
                /\ ReaderNamespaces = apiNamespaces
                /\ \A n \in owned : apiNamespaces[n].owner \in CallerTenants
                /\ request.reflected = bound
        BY <1>2, <2>1, <2>2, <2>3, <2>4, <2>5, Listing
    <2>7. ASSUME request.steady, request.synced, NEW n \in shown, apiNamespaces[n] # NoObject
          PROVE  Found(n)
        <3>1. InSync
            BY <2>7 DEF IndInv, RequestInv, Current
        <3>2. CASE n \in owned \cup request.reflected
            BY <2>6, <2>7, <3>1, <3>2 DEF Found
        <3>3. CASE n \in selected
            <4>1. reqs # {} /\ SelectorMatches(HandleListSelector(reqs), apiNamespaces[n].labels)
                BY <2>4, <2>6, <2>7, <3>1, <3>3
            <4>2. MatchesOne(GetClusterScopeRequirements(namespacesGVK, "Get", rules),
                             apiNamespaces[n].labels)
                BY <2>2, <4>1, ListImpliesGet
            <4>3. rules \subseteq CollectedRules
                BY <2>1, <2>7, <3>1, CollectedIsDue
            <4>4. GetClusterScopeRequirements(namespacesGVK, "Get", rules) \subseteq
                  GetClusterScopeRequirements(namespacesGVK, "Get", CollectedRules)
                BY <4>3, MoreRules
            <4>5. QED
                BY <4>2, <4>4 DEF MatchesOne, Found
        <3>4. QED
            BY <2>5, <2>7, <3>2, <3>3
    <2>8. QED
        BY <2>6, <2>7, Sent
<1>3. QED
    BY <1>1, <1>2

\* The request ends without being shown anything.
LEMMA EndStep ==
    ASSUME IndInv, UNCHANGED <<world, listed>>,
           NEW pc \in {"shown", "refused", "notFound", "error"},
           request' = Answer(pc, {}),
           pc = "refused" /\ request.operation = "Get" /\ ~request.failed
               /\ request.name \in listed => apiNamespaces[request.name].owner = NoTenant,
           request.operation = "GetObject" =>
               /\ pc = "notFound" => apiNamespaces[request.name] = NoObject
               /\ pc = "refused" => apiNamespaces[request.name] # NoObject
    PROVE  IndInv'
<1>1. PICK r : r = Answer(pc, {})
    OBVIOUS
<1>2. /\ r \in Requests /\ RequestInv(r)
      /\ r.pc = pc /\ r.operation = request.operation /\ r.name = request.name
      /\ r.steady = request.steady /\ r.failed = request.failed
    BY <1>1, Answered
<1>3. QED
    BY <1>1, <1>2, RequestStep

\* A read fails, and the request is refused.
LEMMA RefusedStep ==
    ASSUME IndInv, Advance([Answer("refused", {}) EXCEPT !.failed = TRUE])
    PROVE  IndInv'
<1>1. PICK a : a = Answer("refused", {})
    OBVIOUS
<1>2. a \in Requests /\ RequestInv(a) /\ a.pc = "refused" /\ a.steady = request.steady
    BY <1>1, Answered
<1>3. PICK r : r = [a EXCEPT !.failed = TRUE]
    OBVIOUS
<1>4. /\ r.pc = "refused" /\ r.steady = request.steady /\ r.failed = TRUE
      /\ r.operation = a.operation /\ r.name = a.name /\ r.subjects = a.subjects
      /\ r.proxyTenants = a.proxyTenants /\ r.synced = a.synced
    BY <1>2, <1>3 DEF Requests
<1>5. r \in Requests
    BY <1>2, <1>3 DEF Requests
<1>6. RequestInv(r)
    BY <1>2, <1>4 DEF RequestInv, Stages, Justified, Complete, Current, ListFound
<1>7. QED
    BY <1>1, <1>3, <1>4, <1>5, <1>6, RequestStep DEF Advance

LEMMA GetReadStep ==
    ASSUME IndInv, GetRead
    PROVE  IndInv'
<1>1. PICK ns : ns = ReaderNamespaces[request.name]
    OBVIOUS
<1>2. /\ request.pc = "tenants" /\ request.subjects = << >> /\ request.operation = "Get"
      /\ UNCHANGED <<world, listed>>
      /\ request' = IF ns = NoObject THEN [request EXCEPT !.pc = "send", !.shown = {request.name}]
                    ELSE IF ns.owner = NoTenant THEN Answer("refused", {})
                    ELSE [request EXCEPT !.pc = "reflect", !.namespace = ns]
    BY <1>1 DEF GetRead, Collected, Advance
<1>3. request.name \in Names
    BY <1>2 DEF IndInv, RequestInv, Stages
<1>4. CASE ns = NoObject
    BY <1>2, <1>3, <1>4, Sent
<1>5. CASE ns # NoObject /\ ns.owner = NoTenant
    <2>1. request.name \in listed => ns = apiNamespaces[request.name]
        BY <1>1 DEF IndInv, ListedCurrent, InSync, ReaderNamespaces
    <2>2. QED
        BY <1>2, <1>5, <2>1, EndStep
<1>6. CASE ns # NoObject /\ ns.owner # NoTenant
    <2>1. PICK r : r = [request EXCEPT !.pc = "reflect", !.namespace = ns]
        OBVIOUS
    <2>2. /\ r.pc = "reflect" /\ r.operation = request.operation /\ r.name = request.name
          /\ r.subjects = request.subjects /\ r.steady = request.steady
          /\ r.synced = request.synced /\ r.failed = request.failed
          /\ r.proxyTenants = request.proxyTenants /\ r.namespace = ns
        BY <2>1 DEF IndInv, Requests
    <2>3. ns \in NamespaceObjects \cup {NoObject}
        BY <1>1, <1>3 DEF IndInv, WorldType, ReaderNamespaces
    <2>4. r \in Requests
        BY <2>1, <2>3 DEF IndInv, Requests
    <2>5. Stages(r)
        BY <1>2, <2>2 DEF IndInv, RequestInv, Stages
    <2>6. Justified(r) /\ Complete(r)
        BY <1>2, <2>2 DEF IndInv, RequestInv, Justified, Complete
    <2>7. Current(r) /\ ListFound(r)
        BY <1>1, <1>6, <2>2 DEF IndInv, RequestInv, Current, ListFound
    <2>8. RequestInv(r)
        BY <2>5, <2>6, <2>7 DEF RequestInv
    <2>9. QED
        BY <1>2, <1>6, <2>1, <2>2, <2>4, <2>8, RequestStep
<1>7. QED
    BY <1>4, <1>5, <1>6

LEMMA GetHandleStep ==
    ASSUME IndInv, GetHandle
    PROVE  IndInv'
<1>1. PICK reqs : reqs = GetClusterScopeRequirements(namespacesGVK, "Get",
                             ClusterResources(request.proxyTenants))
    OBVIOUS
<1>2. PICK allowed : allowed = (\/ request.namespace.owner \in TenantNames
                                \/ request.name \in request.reflected
                                \/ MatchesOne(reqs, request.namespace.labels))
    OBVIOUS
<1>3. /\ request.pc = "decide" /\ UNCHANGED <<world, listed>>
      /\ request' = IF allowed THEN [request EXCEPT !.pc = "send", !.shown = {request.name}]
                    ELSE Answer("refused", {})
    BY <1>1, <1>2 DEF GetHandle, Advance
<1>4. request.operation = "Get" /\ request.name \in Names
    BY <1>3 DEF IndInv, RequestInv, Stages
<1>5. CASE allowed
    BY <1>3, <1>4, <1>5, Sent
<1>6. CASE ~allowed
    <2>1. ASSUME ~request.failed, request.name \in listed PROVE FALSE
        <3>1. /\ request.steady /\ InSync /\ Found(request.name)
            BY <2>1 DEF IndInv, ListedCurrent
        <3>2. request.reflected = bound /\ request.namespace = apiNamespaces[request.name]
            BY <1>3, <3>1 DEF IndInv, RequestInv, Current, InSync, ReaderNamespaces
        <3>3. CollectedRules \subseteq ClusterResources(request.proxyTenants)
              /\ CallerTenants \subseteq TenantNames
            BY <1>3, <2>1, <3>1, DueIsCollected
        <3>4. GetClusterScopeRequirements(namespacesGVK, "Get", CollectedRules) \subseteq reqs
            BY <1>1, <3>3, MoreRules
        <3>5. QED
            BY <1>2, <1>6, <3>1, <3>2, <3>3, <3>4 DEF Found, MatchesOne
    <2>2. QED
        BY <1>3, <1>4, <1>6, <2>1, EndStep
<1>7. QED
    BY <1>5, <1>6

\* The answer of the API server; what a LIST showed is kept.
LEMMA SendStep ==
    ASSUME IndInv, Send
    PROVE  IndInv'
<1>1. PICK shown : shown = {n \in request.shown : apiNamespaces[n] # NoObject}
    OBVIOUS
<1>2. PICK r : r = Answer("shown", shown)
    OBVIOUS
<1>3. /\ request.pc = "send" /\ request' = r /\ UNCHANGED world
      /\ listed' = IF request.operation = "List" /\ request.steady /\ request.synced
                   THEN shown ELSE listed
    BY <1>1, <1>2 DEF Send
<1>4. shown \in SUBSET Names
    BY <1>1 DEF IndInv, Requests
<1>5. /\ r \in Requests /\ RequestInv(r) /\ r.pc = "shown" /\ r.steady = request.steady
    BY <1>2, <1>4, Answered
<1>6. RequestInv(request)'
    BY <1>3, <1>5, RequestKept
<1>7. WorldType' /\ (listed \subseteq Names)'
    BY <1>3, <1>4 DEF IndInv, WorldType, world
<1>8. ListedCurrent'
    <2>1. CASE request.operation = "List" /\ request.steady /\ request.synced
        <3>1. InSync /\ \A n \in shown : apiNamespaces[n] # NoObject /\ Found(n)
            BY <1>1, <1>3, <2>1 DEF IndInv, RequestInv, Current, ListFound
        <3>2. QED
            BY <1>3, <1>5, <2>1, <3>1, SameWorld DEF ListedCurrent, world
    <2>2. CASE ~(request.operation = "List" /\ request.steady /\ request.synced)
        BY <1>3, <1>5, <2>2, SameWorld DEF IndInv, ListedCurrent, world
    <2>3. QED
        BY <2>1, <2>2
<1>9. ListedIsFound' /\ MissingNamespaceTold'
    BY <1>3, <1>5 DEF ListedIsFound, MissingNamespaceTold
<1>10. QED
    BY <1>3, <1>5, <1>6, <1>7, <1>8, <1>9 DEF IndInv

-----------------------------------------------------------------------------
(* The namespace gate. *)

LEMMA SendObjectStep ==
    ASSUME IndInv, SendObject
    PROVE  IndInv'
<1>1. request.pc = "sendObject" /\ UNCHANGED <<world, listed>>
    BY DEF SendObject, Advance
<1>2. CASE request' = [request EXCEPT !.pc = "forbidden"]
    <2>1. PICK r : r = [request EXCEPT !.pc = "forbidden"]
        OBVIOUS
    <2>2. /\ r.pc = "forbidden" /\ r.operation = request.operation /\ r.name = request.name
          /\ r.subjects = request.subjects /\ r.steady = request.steady
          /\ r.synced = request.synced /\ r.failed = request.failed
          /\ r.proxyTenants = request.proxyTenants
        BY <2>1 DEF IndInv, Requests
    <2>3. r \in Requests
        BY <2>1 DEF IndInv, Requests
    <2>4. RequestInv(r)
        BY <1>1, <2>2
           DEF IndInv, RequestInv, Stages, Justified, Complete, Current, ListFound
    <2>5. QED
        BY <1>1, <1>2, <2>1, <2>2, <2>3, <2>4, RequestStep
<1>3. CASE apiNamespaces[request.name] = NoObject /\ request' = Answer("notFound", {})
    BY <1>1, <1>3, EndStep
<1>4. CASE request' = Answer("shown", {})
    BY <1>1, <1>4, EndStep
<1>5. QED
    BY <1>2, <1>3, <1>4 DEF SendObject, Advance

LEMMA ModifyResponseStep ==
    ASSUME IndInv, ModifyResponse
    PROVE  IndInv'
<1>1. request.pc = "forbidden" /\ UNCHANGED <<world, listed>>
    BY DEF ModifyResponse, Advance
<1>2. request.operation \in ObjectOperations
    BY <1>1 DEF IndInv, RequestInv, Stages
<1>3. CASE request.operation = "GetObject" /\ apiNamespaces[request.name] = NoObject
           /\ request' = Answer("notFound", {})
    BY <1>1, <1>3, EndStep
<1>4. CASE ~(request.operation = "GetObject" /\ apiNamespaces[request.name] = NoObject)
           /\ request' = Answer("refused", {})
    BY <1>1, <1>2, <1>4, EndStep DEF ObjectOperations
<1>5. CASE Advance([Answer("refused", {}) EXCEPT !.failed = TRUE])
    BY <1>5, RefusedStep
<1>6. QED
    BY <1>3, <1>4, <1>5 DEF ModifyResponse, Advance

-----------------------------------------------------------------------------
\* Every step keeps the invariant.
LEMMA NextKeepsIndInv == IndInv /\ [Next]_vars => IndInv'
<1> SUFFICES ASSUME IndInv, [Next]_vars PROVE IndInv'
    OBVIOUS
<1>1. CASE World
    BY <1>1, WorldStep
<1>2. ASSUME NEW n \in Names, NEW operation \in {"Get"} \cup ObjectOperations,
             Begin(operation, n)
      PROVE  IndInv'
    BY <1>2, BeginStep DEF ObjectOperations
<1>3. CASE Begin("List", NoObject)
    BY <1>3, BeginStep
<1>4. CASE Serve
    <2>1. CASE ListTenants \/ ListProxySettings \/ ListSettingTenants \/ ListGlobalProxySettings
        BY <2>1, ListTenantsStep, ListProxySettingsStep, ListSettingTenantsStep,
           ListGlobalProxySettingsStep
    <2>2. CASE ListReflected \/ ListHandle \/ GetRead \/ GetReflected \/ GetHandle
        BY <2>2, ReflectedStep, ListHandleStep, GetReadStep, GetHandleStep
    <2>3. CASE GetReadFails
        BY <2>3, RefusedStep DEF GetReadFails
    <2>4. CASE Send \/ SendObject \/ ModifyResponse
        BY <2>4, SendStep, SendObjectStep, ModifyResponseStep
    <2>5. QED
        BY <1>4, <2>1, <2>2, <2>3, <2>4 DEF Serve
<1>5. CASE UNCHANGED vars
    <2>1. UNCHANGED <<world, listed>> /\ UNCHANGED request
        BY <1>5 DEF vars, world
    <2>2. QED
        BY <2>1, RequestStep DEF IndInv, ListedIsFound, MissingNamespaceTold
<1>6. QED
    BY <1>1, <1>2, <1>3, <1>4, <1>5 DEF Next

\* The inductive invariant holds in every state of every behaviour.
LEMMA Invariance == Spec => []IndInv
    BY InitIndInv, NextKeepsIndInv, PTL DEF Spec

\* The caches and the request are well-formed in every interleaving of requests
\* and changes.
THEOREM TypeCorrect == Spec => []TypeOK
<1>1. IndInv => TypeOK
    <2>1. SUFFICES ASSUME IndInv, NEW pt \in request.proxyTenants
                   PROVE  [tenant |-> pt.tenant, namespaces |-> pt.namespaces] \in ProxyTenantType
        BY DEF IndInv, WorldType, Requests, TypeOK
    <2>2. pt.tenant \in Tenants \cup {GlobalTenant} /\ pt.namespaces \in SUBSET Names
        BY <2>1 DEF IndInv, Requests, ProxyTenants
    <2>3. QED
        BY <2>2 DEF ProxyTenantType
<1>2. QED
    BY <1>1, Invariance, PTL

\* A namespace of a Tenant that a LIST has shown is found by a GET, for any
\* rules, any number of subjects, and also if reads failed under the LIST: GET
\* collects at least what LIST did, and one requirement of the merged ones
\* matches (namespace.List, namespace.Get).
THEOREM ListedFound == Spec => []ListedIsFound
<1>1. IndInv => ListedIsFound
    BY DEF IndInv
<1>2. QED
    BY <1>1, Invariance, PTL

\* What the namespace gate tells a client about a missing namespace is true,
\* however far the informer cache is behind (maskForbiddenForMissingNamespace).
THEOREM MissingTold == Spec => []MissingNamespaceTold
<1>1. IndInv => MissingNamespaceTold
    BY DEF IndInv
<1>2. QED
    BY <1>1, Invariance, PTL

-----------------------------------------------------------------------------
(***************************************************************************)
(* What is shown is due to the caller, where the rules have one            *)
(* requirement each.                                                       *)
(***************************************************************************)
EntitledTo(n, operation) ==
    \/ apiNamespaces[n].owner \in CallerTenants
    \/ n \in bound
    \/ Selected(CallerRules, namespacesGVK, operation, apiNamespaces[n].labels)

SentIsEntitled ==
    request.pc \in {"send", "shown"} /\ request.steady /\ request.synced =>
        \A n \in request.shown : apiNamespaces[n] # NoObject =>
            EntitledTo(n, request.operation)

ShownExists ==
    request.pc = "shown" /\ request.steady =>
        \A n \in request.shown : apiNamespaces[n] # NoObject

EntitledInv == SentIsEntitled /\ ShownExists

\* The rules that a complete collection yields name the caller.
LEMMA CollectedNameCaller == CollectedRules \subseteq CallerRules
<1>1. SUFFICES ASSUME NEW rule \in CollectedRules PROVE rule \in CallerRules
    OBVIOUS
<1>2. PICK s \in CallerSubjects :
          \/ \E setting \in SettingsOf(s) : InTenant(setting) /\ rule \in OwnRules(s, setting)
          \/ rule \in GlobalRulesFor(s)
    BY <1>1 DEF CollectedRules
<1>3. ASSUME NEW setting \in SettingsOf(s), InTenant(setting), rule \in OwnRules(s, setting)
      PROVE  rule \in CallerRules
    <2>1. PICK i \in DOMAIN setting.subjects :
              setting.subjects[i].subject = s /\ rule \in setting.subjects[i].clusterResources
        BY <1>3 DEF OwnRules
    <2>2. rule \in SettingRules(setting)
        BY <2>1 DEF SettingRules
    <2>3. setting \in {st \in UNION {SettingsOf(q) : q \in CallerSubjects} :
                         \E t \in Tenants : st.namespace \in OwnedBy(t)}
        BY <1>3 DEF InTenant
    <2>4. QED
        BY <2>2, <2>3 DEF CallerRules
<1>4. ASSUME rule \in GlobalRulesFor(s) PROVE rule \in CallerRules
    <2>1. PICK g \in GlobalIds :
              /\ globalProxySettings[g] # NoObject
              /\ rule \in NewClusterProxy(s, globalProxySettings[g]).clusterResources
        BY <1>4 DEF GlobalRulesFor
    <2>2. PICK r \in globalProxySettings[g] : s \in r.subjects /\ rule \in r.clusterResources
        BY <2>1, GlobalRuleFound
    <2>3. rule \in GlobalRules(globalProxySettings[g])
        BY <2>2 DEF GlobalRules
    <2>4. QED
        BY <2>1, <2>3 DEF CallerRules
<1>5. QED
    BY <1>2, <1>3, <1>4

\* With one requirement in each rule, a requirement that matches is a rule that
\* selects.
LEMMA RequirementSelects ==
    ASSUME PlainRules, NEW gvk, NEW operation, NEW labels,
           NEW rules, rules \subseteq CollectedRules,
           MatchesOne(GetClusterScopeRequirements(gvk, operation, rules), labels)
    PROVE  Selected(CallerRules, gvk, operation, labels)
<1>1. PICK req \in GetClusterScopeRequirements(gvk, operation, rules) : Matches(req, labels)
    BY DEF MatchesOne
<1>2. PICK rule \in rules :
          /\ rule.selector # NoSelector /\ matchResource(gvk, rule)
          /\ AllowsOperation(rule, operation) /\ req \in rule.selector
    BY <1>1 DEF GetClusterScopeRequirements
<1>3. rule \in PossibleRules /\ rule \in CallerRules
    BY <1>2, CollectedNameCaller DEF CollectedRules
<1>4. SelectorMatches(rule.selector, labels)
    BY <1>1, <1>2, <1>3 DEF PlainRules, SelectorMatches
<1>5. QED
    BY <1>2, <1>3, <1>4 DEF Selected

LEMMA EntitledSame ==
    ASSUME UNCHANGED world
    PROVE  \A n, operation : EntitledTo(n, operation)' = EntitledTo(n, operation)
<1>1. CallerRules' = CallerRules
    <2>1. \A setting : (\E t \in Tenants : setting.namespace \in OwnedBy(t))' <=>
                       (\E t \in Tenants : setting.namespace \in OwnedBy(t))
        BY SameWorld
    <2>2. QED
        BY <2>1, SameWorld DEF CallerRules, world
<1>2. QED
    BY <1>1, SameWorld DEF EntitledTo, world

\* A request is sent with namespaces that the caller is entitled to.
LEMMA SentEntitled ==
    ASSUME UNCHANGED world, NEW shown,
           request' = [request EXCEPT !.pc = "send", !.shown = shown], request \in Requests,
           request.steady /\ request.synced =>
               \A n \in shown : apiNamespaces[n] # NoObject => EntitledTo(n, request.operation)
    PROVE  EntitledInv'
<1>1. /\ request'.pc = "send" /\ request'.shown = shown /\ request'.steady = request.steady
      /\ request'.synced = request.synced /\ request'.operation = request.operation
    BY DEF Requests
<1>2. ShownExists'
    BY <1>1 DEF ShownExists
<1>3. SentIsEntitled'
    BY <1>1, EntitledSame DEF SentIsEntitled, world
<1>4. QED
    BY <1>2, <1>3 DEF EntitledInv

LEMMA ListEntitled ==
    ASSUME PlainRules, IndInv, ListHandle, ~ReadFails("select")
    PROVE  EntitledInv'
<1>1. PICK rules : rules = ClusterResources(request.proxyTenants)
    OBVIOUS
<1>2. PICK reqs : reqs = GetClusterScopeRequirements(namespacesGVK, "List", rules)
    OBVIOUS
<1>3. PICK owned : owned = UNION {pt.namespaces : pt \in request.proxyTenants}
    OBVIOUS
<1>4. PICK selected : selected =
          IF reqs = {} THEN {}
          ELSE {n \in Names :
                  /\ ReaderNamespaces[n] # NoObject
                  /\ SelectorMatches(HandleListSelector(reqs), ReaderNamespaces[n].labels)}
    OBVIOUS
<1>5. PICK shown : shown = owned \cup request.reflected \cup selected
    OBVIOUS
<1>6. /\ request.operation = "List" /\ UNCHANGED world
      /\ request' = [request EXCEPT !.pc = "send", !.shown = shown]
      /\ request.steady /\ InSync =>
            /\ ReaderNamespaces = apiNamespaces
            /\ \A n \in owned : apiNamespaces[n].owner \in CallerTenants
            /\ request.reflected = bound
    BY <1>1, <1>2, <1>3, <1>4, <1>5, Listing
<1>7. ASSUME request.steady, request.synced, NEW n \in shown
      PROVE  EntitledTo(n, request.operation)
    <2>1. InSync
        BY <1>7 DEF IndInv, RequestInv, Current
    <2>2. CASE n \in owned \cup request.reflected
        BY <1>6, <1>7, <2>1, <2>2 DEF EntitledTo
    <2>3. CASE n \in selected
        <3>1. reqs # {} /\ SelectorMatches(HandleListSelector(reqs), apiNamespaces[n].labels)
            BY <1>4, <1>6, <1>7, <2>1, <2>3
        <3>2. MatchesOne(reqs, apiNamespaces[n].labels)
            BY <3>1, MergedMatchesOne
        <3>3. rules \subseteq CollectedRules
            BY <1>1, <1>7, <2>1, CollectedIsDue
        <3>4. Selected(CallerRules, namespacesGVK, "List", apiNamespaces[n].labels)
            BY <1>2, <3>2, <3>3, RequirementSelects
        <3>5. QED
            BY <1>6, <3>4 DEF EntitledTo
    <2>4. QED
        BY <1>5, <1>7, <2>2, <2>3
<1>8. QED
    BY <1>6, <1>7, SentEntitled DEF IndInv

LEMMA GetEntitled ==
    ASSUME PlainRules, IndInv, GetHandle, request'.pc = "send"
    PROVE  EntitledInv'
<1>1. PICK rules : rules = ClusterResources(request.proxyTenants)
    OBVIOUS
<1>2. PICK reqs : reqs = GetClusterScopeRequirements(namespacesGVK, "Get", rules)
    OBVIOUS
<1>3. /\ request.pc = "decide" /\ UNCHANGED world
      /\ request' = [request EXCEPT !.pc = "send", !.shown = {request.name}]
      /\ \/ request.namespace.owner \in TenantNames
         \/ request.name \in request.reflected
         \/ MatchesOne(reqs, request.namespace.labels)
    BY <1>1, <1>2 DEF GetHandle, Advance, Answer, NoRequest
<1>4. request.operation = "Get" /\ request.name \in Names
    BY <1>3 DEF IndInv, RequestInv, Stages
<1>5. ASSUME request.steady, request.synced PROVE EntitledTo(request.name, request.operation)
    <2>1. InSync
        BY <1>5 DEF IndInv, RequestInv, Current
    <2>2. /\ request.reflected = bound /\ request.namespace = apiNamespaces[request.name]
          /\ request.namespace # NoObject
        BY <1>3, <1>5, <2>1 DEF IndInv, RequestInv, Current, InSync, ReaderNamespaces
    <2>3. CASE request.namespace.owner \in TenantNames
        <3>1. PICK pt \in request.proxyTenants : pt.tenant = request.namespace.owner
            BY <2>3 DEF TenantNames
        <3>2. request.namespace.owner # GlobalTenant
            BY <2>2 DEF PlainRules, IndInv, Requests
        <3>3. pt.tenant \in CallerTenants
            BY <1>5, <2>1, <3>1, <3>2 DEF IndInv, RequestInv, Justified, JustifiedTenant
        <3>4. QED
            BY <2>2, <3>1, <3>3 DEF EntitledTo
    <2>4. CASE MatchesOne(reqs, request.namespace.labels)
        <3>1. rules \subseteq CollectedRules
            BY <1>1, <1>5, <2>1, CollectedIsDue
        <3>2. Selected(CallerRules, namespacesGVK, "Get", request.namespace.labels)
            BY <1>2, <2>4, <3>1, RequirementSelects
        <3>3. QED
            BY <1>4, <2>2, <3>2 DEF EntitledTo
    <2>5. CASE request.name \in request.reflected
        BY <2>2, <2>5 DEF EntitledTo
    <2>6. QED
        BY <1>3, <2>3, <2>4, <2>5
<1>6. QED
    BY <1>3, <1>5, SentEntitled DEF IndInv

\* A namespace that the reader does not know is sent, and does not exist.
LEMMA MissingEntitled ==
    ASSUME IndInv, GetRead, request'.pc = "send"
    PROVE  EntitledInv'
<1>1. /\ ReaderNamespaces[request.name] = NoObject /\ UNCHANGED world
      /\ request' = [request EXCEPT !.pc = "send", !.shown = {request.name}]
    BY DEF GetRead, Advance, Answer, NoRequest, IndInv, Requests
<1>2. ASSUME request.steady, request.synced PROVE apiNamespaces[request.name] = NoObject
    BY <1>1, <1>2 DEF IndInv, RequestInv, Current, InSync, ReaderNamespaces
<1>3. QED
    BY <1>1, <1>2, SentEntitled DEF IndInv

\* The API server shows what it was asked for.
LEMMA SendEntitled ==
    ASSUME IndInv, EntitledInv, Send
    PROVE  EntitledInv'
<1>1. /\ request.pc = "send" /\ UNCHANGED world
      /\ request' = Answer("shown", {n \in request.shown : apiNamespaces[n] # NoObject})
    BY DEF Send
<1>2. /\ request'.pc = "shown" /\ request'.operation = request.operation
      /\ request'.steady = request.steady /\ request'.synced = request.synced
      /\ request'.shown = {n \in request.shown : apiNamespaces[n] # NoObject}
    BY <1>1 DEF Answer, NoRequest
<1>3. ShownExists'
    BY <1>1, <1>2 DEF ShownExists, world
<1>4. SentIsEntitled'
    BY <1>1, <1>2, EntitledSame DEF EntitledInv, SentIsEntitled, world
<1>5. QED
    BY <1>3, <1>4 DEF EntitledInv

\* All other steps show nothing.
LEMMA OtherEntitled ==
    ASSUME request'.pc \notin {"send", "shown"} \/ ~request'.steady \/ request'.shown = {}
    PROVE  EntitledInv'
    BY DEF EntitledInv, SentIsEntitled, ShownExists

LEMMA NextKeepsEntitled ==
    ASSUME PlainRules, IndInv, EntitledInv, [Next]_vars
    PROVE  EntitledInv'
<1>0. request \in Requests
    BY DEF IndInv
<1>1. CASE World
    <2>1. Changed
        BY <1>1 DEF World, WriteNamespace, WriteTenantOwners, WriteSettings, WriteRoleBindings,
                    Write, SyncNamespace, ReconcileTenant
    <2>2. QED
        BY <1>0, <2>1, OtherEntitled DEF Changed, Requests
<1>2. ASSUME NEW n, NEW operation, Begin(operation, n)
      PROVE  EntitledInv'
    BY <1>2, OtherEntitled DEF Begin, NoRequest
<1>3. ASSUME NEW pc, ReadFails(pc) PROVE EntitledInv'
    BY <1>3, OtherEntitled DEF ReadFails, Advance, Answer, NoRequest
<1>4. CASE ListTenants
    <2>1. ~ReadFails("tenants") => request'.pc = "settings"
        BY <1>0, <1>4 DEF ListTenants, Advance, Requests
    <2>2. QED
        BY <1>3, <2>1, OtherEntitled
<1>5. CASE ListProxySettings
    BY <1>0, <1>5, OtherEntitled DEF ListProxySettings, Advance, Requests
<1>6. CASE ListSettingTenants
    <2>1. request.pc = "settingTenants" /\ request'.pc \in {"global", "settingTenants"}
        BY <1>0, <1>6 DEF ListSettingTenants, Advance, Requests
    <2>2. QED
        BY <2>1, OtherEntitled
<1>7. CASE ListGlobalProxySettings
    <2>1. request'.pc = "tenants"
        BY <1>0, <1>7 DEF ListGlobalProxySettings, Advance, Requests
    <2>2. QED
        BY <2>1, OtherEntitled
<1>8. CASE ListReflected \/ GetReflected
    <2>1. ~ReadFails(request.pc) => request'.pc \in {"select", "decide"}
        BY <1>0, <1>8 DEF ListReflected, GetReflected, ReadRoleBindings, Advance, Requests
    <2>2. QED
        BY <1>3, <2>1, OtherEntitled
<1>9. CASE ListHandle
    BY <1>3, <1>9, ListEntitled
<1>10. CASE GetRead
    <2>1. request'.pc \in {"send", "refused", "reflect"}
        BY <1>0, <1>10 DEF GetRead, Advance, Answer, NoRequest, Requests
    <2>2. QED
        BY <1>10, <2>1, MissingEntitled, OtherEntitled
<1>11. CASE GetHandle
    <2>1. request'.pc \in {"send", "refused"}
        BY <1>0, <1>11 DEF GetHandle, Advance, Answer, NoRequest, Requests
    <2>2. QED
        BY <1>11, <2>1, GetEntitled, OtherEntitled
<1>12. CASE GetReadFails
    BY <1>12, OtherEntitled DEF GetReadFails, Advance, Answer, NoRequest
<1>13. CASE Send
    BY <1>13, SendEntitled
<1>14. CASE SendObject
    <2>1. request'.pc \in {"forbidden", "notFound"} \/ request'.shown = {}
        BY <1>0, <1>14 DEF SendObject, Advance, Answer, NoRequest, Requests
    <2>2. QED
        BY <2>1, OtherEntitled
<1>15. CASE ModifyResponse
    BY <1>15, OtherEntitled DEF ModifyResponse, Advance, Answer, NoRequest
<1>16. CASE UNCHANGED vars
    <2>1. UNCHANGED world /\ request' = request
        BY <1>16 DEF vars, world
    <2>2. QED
        BY <2>1, EntitledSame DEF EntitledInv, SentIsEntitled, ShownExists, world
<1>17. QED
    BY <1>1, <1>2, <1>4, <1>5, <1>6, <1>7, <1>8, <1>9, <1>10, <1>11, <1>12, <1>13, <1>14,
       <1>15, <1>16 DEF Next, Serve

\* With caches and statuses up to date, a request shows only namespaces that the
\* caller is entitled to, whatever the rules, settings, tenants and groups, and
\* also when some of the reads behind it failed, if every rule has one
\* requirement and no Tenant is called "global" (namespace.List, namespace.Get,
\* getProxyTenantsForOwnerKind).
THEOREM ShownEntitled ==
    ASSUME PlainRules
    PROVE  Spec => []ShownIsEntitled
<1>1. Init => EntitledInv
    BY DEF Init, NoRequest, EntitledInv, SentIsEntitled, ShownExists
<1>2. IndInv /\ EntitledInv /\ [Next]_vars => EntitledInv'
    BY NextKeepsEntitled
<1>3. EntitledInv => ShownIsEntitled
    BY DEF EntitledInv, SentIsEntitled, ShownExists, ShownIsEntitled, EntitledTo, Entitled
<1>4. QED
    BY <1>1, <1>2, <1>3, Invariance, PTL DEF Spec

=============================================================================
