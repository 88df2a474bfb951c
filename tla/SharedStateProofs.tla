------------------------- MODULE SharedStateProofs -------------------------
(***************************************************************************)
(* Proofs about the state of the process that the goroutines of requests   *)
(* share without a lock: the sets of Capsule users and the proxy's own     *)
(* token.                                                                  *)
(*                                                                         *)
(* The sets, for every set of requests, callers and configurations: the    *)
(* decision about a caller is justified, although the reconciler writes    *)
(* the two sets one by one while requests read them one by one.            *)
(*                                                                         *)
(* The token, for every set of tokens and every number of goroutines: a    *)
(* refresh that no other one overlapped leaves the token with its own      *)
(* expiration time, or an empty token that the next request replaces.      *)
(***************************************************************************)
EXTENDS CapsuleConfiguration, ProxyToken, FiniteSetTheorems, TLAPS

AnyConfiguration == Configurations \cup {NoConfiguration}

\* What the two sets hold if they come from configuration c.
GroupsOf(c) == IF c = NoConfiguration THEN {} ELSE c.groups
UsersOf(c) == IF c = NoConfiguration THEN {} ELSE c.users

Deciding ==
    [pc : {"groups", "users"}, caller : Callers, left : SUBSET UNION {c.groups : c \in Callers},
     inForce : SUBSET AnyConfiguration]

DecidedRequest ==
    [pc : {"decided"}, caller : Callers, inForce : SUBSET AnyConfiguration, capsule : BOOLEAN]

\* The requests as records, which the type invariant leaves open.
RequestType == request \in [Threads -> {Idle} \cup Deciding \cup DecidedRequest]

\* The groups come from g and the users from u: two configurations between the
\* two assignments of Reconcile, and one at all other times.
SetsFrom(g, u) ==
    /\ origin = {g, u}
    /\ CapsuleUserGroups = GroupsOf(g)
    /\ CapsuleUsers = UsersOf(u)
    /\ IF reconcile.pc = "users" THEN g = reconcile.configuration ELSE g = u

SetsHaveOrigin == \E g, u \in AnyConfiguration : SetsFrom(g, u)

\* A request that is being decided has seen the configurations in force, finitely
\* many; if it is only one, then no group that it has looked for is in it.
DecidingSees(r) ==
    /\ origin \subseteq r.inForce /\ IsFiniteSet(r.inForce)
    /\ r.left \subseteq r.caller.groups
    /\ r.pc = "users" => r.left = {}
    /\ \A c : r.inForce = {c} => (r.caller.groups \ r.left) \cap GroupsOf(c) = {}

\* The decision is justified, without counting the configurations.
DecidedSees(r) ==
    /\ IsFiniteSet(r.inForce)
    /\ r.capsule => \E c \in r.inForce : IsCapsuleUser(c, r.caller)
    /\ \A c : r.inForce = {c} => (r.capsule <=> IsCapsuleUser(c, r.caller))

RequestSees ==
    \A t \in Threads :
        /\ request[t] \in Deciding => DecidingSees(request[t])
        /\ request[t] \in DecidedRequest => DecidedSees(request[t])

\* The inductive invariant.
IndInv == TypeOK /\ RequestType /\ SetsHaveOrigin /\ RequestSees

-----------------------------------------------------------------------------
(* Requests and sets. *)

\* The three kinds of requests are told apart by the program counter.
LEMMA RequestKinds ==
    ASSUME NEW r \in {Idle} \cup Deciding \cup DecidedRequest
    PROVE  /\ r.pc \in {"idle", "groups", "users", "decided"}
           /\ r.pc = "idle" <=> r = Idle
           /\ r.pc \in {"groups", "users"} <=> r \in Deciding
           /\ r.pc = "decided" <=> r \in DecidedRequest
    BY DEF Idle, Deciding, DecidedRequest

\* The type invariant for requests follows from their being such records.
LEMMA RequestRecords ==
    ASSUME RequestType, NEW t \in Threads
    PROVE  \/ request[t] = Idle
           \/ /\ request[t].pc \in {"groups", "users", "decided"}
              /\ request[t].caller \in Callers
              /\ request[t].inForce \subseteq Configurations \cup {NoConfiguration}
    BY DEF RequestType, Deciding, DecidedRequest, AnyConfiguration

\* A new process: the sets are empty and no request is served.
LEMMA FreshSees ==
    ASSUME TypeOK, Fresh, phase' \in {"down", "starting", "serving"},
           exits' \in 0..MaxExits, UNCHANGED cluster
    PROVE  IndInv'
<1>1. reconcile' = Idle /\ request' = [t \in Threads |-> Idle] /\ origin' = {NoConfiguration}
      /\ CapsuleUserGroups' = {} /\ CapsuleUsers' = {} /\ seen' = NoConfiguration /\ queued' = "no"
    BY DEF Fresh
<1>2. TypeOK'
    BY <1>1 DEF TypeOK, cluster
<1>3. RequestType'
    BY <1>1 DEF RequestType
<1>4. SetsHaveOrigin'
    <2>1. reconcile'.pc # "users"
        BY <1>1 DEF Idle
    <2>2. SetsFrom(NoConfiguration, NoConfiguration)'
        BY <1>1, <2>1 DEF SetsFrom, GroupsOf, UsersOf
    <2>3. QED
        BY <2>2 DEF SetsHaveOrigin, AnyConfiguration
<1>5. RequestSees'
    BY <1>1 DEF RequestSees, Idle, Deciding, DecidedRequest
<1>6. QED
    BY <1>2, <1>3, <1>4, <1>5 DEF IndInv

\* The inductive invariant holds initially.
LEMMA InitIndInv == Init => IndInv
<1> SUFFICES ASSUME Init PROVE IndInv
    OBVIOUS
<1>1. TypeOK
    BY BoundsAssumption DEF Init, TypeOK
<1>2. RequestType
    BY DEF Init, RequestType
<1>3. SetsHaveOrigin
    <2>1. SetsFrom(NoConfiguration, NoConfiguration)
        BY DEF Init, SetsFrom, GroupsOf, UsersOf, Idle
    <2>2. QED
        BY <2>1 DEF SetsHaveOrigin, AnyConfiguration
<1>4. RequestSees
    BY DEF Init, RequestSees, Idle, Deciding, DecidedRequest
<1>5. QED
    BY <1>1, <1>2, <1>3, <1>4 DEF IndInv

-----------------------------------------------------------------------------
(* Steps that leave the sets alone. *)

\* A step of the cluster, the process or the controller that assigns neither of
\* the two sets.
LEMMA SetsKept ==
    ASSUME IndInv, TypeOK', UNCHANGED <<userSets, request>>,
           reconcile' = reconcile \/ (reconcile.pc # "users" /\ reconcile'.pc # "users")
    PROVE  IndInv'
<1>1. UNCHANGED <<CapsuleUserGroups, CapsuleUsers, origin, request>>
    BY DEF userSets
<1>2. RequestType'
    BY <1>1 DEF IndInv, RequestType
<1>3. SetsHaveOrigin'
    <2>1. PICK g, u \in AnyConfiguration : SetsFrom(g, u)
        BY DEF IndInv, SetsHaveOrigin
    <2>2. SetsFrom(g, u)'
        BY <1>1, <2>1 DEF SetsFrom
    <2>3. QED
        BY <2>2 DEF SetsHaveOrigin
<1>4. RequestSees'
    BY <1>1 DEF IndInv, RequestSees, DecidingSees
<1>5. QED
    BY <1>2, <1>3, <1>4 DEF IndInv

\* The writes of the configuration, the listener and the work queue.
LEMMA WorldStep ==
    ASSUME IndInv,
           \/ \E c \in Configurations \cup {NoConfiguration} : WriteConfiguration(c)
           \/ Listen \/ SyncConfiguration \/ Reconcile \/ GetFails \/ Requeue
    PROVE  IndInv'
<1> USE DEF IndInv, TypeOK, cluster, process, controller, userSets
<1>1. ASSUME NEW c \in Configurations \cup {NoConfiguration}, WriteConfiguration(c)
      PROVE  IndInv'
    <2>1. writes' \in 0..MaxWrites
        BY <1>1, BoundsAssumption DEF WriteConfiguration
    <2>2. TypeOK'
        BY <1>1, <2>1 DEF WriteConfiguration
    <2>3. QED
        BY <1>1, <2>2, SetsKept DEF WriteConfiguration
<1>2. CASE Listen
    <2>1. TypeOK'
        BY <1>2 DEF Listen
    <2>2. QED
        BY <1>2, <2>1, SetsKept DEF Listen
<1>3. CASE SyncConfiguration
    <2>1. TypeOK'
        BY <1>3 DEF SyncConfiguration
    <2>2. QED
        BY <1>3, <2>1, SetsKept DEF SyncConfiguration
<1>4. CASE Reconcile
    <2>1. TypeOK'
        BY <1>4 DEF Reconcile
    <2>2. reconcile' = reconcile \/ (reconcile.pc # "users" /\ reconcile'.pc # "users")
        BY <1>4 DEF Reconcile, Idle
    <2>3. QED
        BY <1>4, <2>1, <2>2, SetsKept DEF Reconcile
<1>5. CASE GetFails \/ Requeue
    <2>1. TypeOK'
        BY <1>5 DEF GetFails, Requeue
    <2>2. QED
        BY <1>5, <2>1, SetsKept DEF GetFails, Requeue
<1>6. QED
    BY <1>1, <1>2, <1>3, <1>4, <1>5

\* A new or an ended process.
LEMMA ProcessStep ==
    ASSUME IndInv, Start \/ Exit
    PROVE  IndInv'
<1>1. exits \in 0..MaxExits /\ TypeOK
    BY DEF IndInv, TypeOK
<1>2. CASE Start
    BY <1>1, <1>2, FreshSees DEF Start, cluster
<1>3. CASE Exit
    <2>1. exits' \in 0..MaxExits
        BY <1>1, <1>3, BoundsAssumption DEF Exit
    <2>2. QED
        BY <1>1, <1>3, <2>1, FreshSees DEF Exit
<1>4. QED
    BY <1>2, <1>3

-----------------------------------------------------------------------------
(* Requests. *)

\* A request whose next state sees what it must.
LEMMA RequestStep ==
    ASSUME IndInv, NEW t \in Threads, NEW r \in {Idle} \cup Deciding \cup DecidedRequest,
           SetRequest(t, r),
           r \in Deciding => DecidingSees(r),
           r \in DecidedRequest => DecidedSees(r)
    PROVE  IndInv'
<1>1. /\ request' = [request EXCEPT ![t] = r]
      /\ UNCHANGED <<configuration, writes, phase, exits, seen, queued, reconcile,
                     CapsuleUserGroups, CapsuleUsers, origin>>
    BY DEF SetRequest, cluster, process, controller, userSets
<1>2. RequestType'
    BY <1>1 DEF IndInv, RequestType
<1>3. TypeOK'
    <2>1. \A u \in Threads :
              \/ request'[u] = Idle
              \/ /\ request'[u].pc \in {"groups", "users", "decided"}
                 /\ request'[u].caller \in Callers
                 /\ request'[u].inForce \subseteq Configurations \cup {NoConfiguration}
        BY <1>2 DEF RequestType, Deciding, DecidedRequest, AnyConfiguration
    <2>2. QED
        BY <1>1, <2>1 DEF IndInv, TypeOK
<1>4. SetsHaveOrigin'
    <2>1. PICK g, u \in AnyConfiguration : SetsFrom(g, u)
        BY DEF IndInv, SetsHaveOrigin
    <2>2. SetsFrom(g, u)'
        BY <1>1, <2>1 DEF SetsFrom
    <2>3. QED
        BY <2>2 DEF SetsHaveOrigin
<1>5. RequestSees'
    <2> SUFFICES ASSUME NEW v \in Threads
                 PROVE  /\ request'[v] \in Deciding => DecidingSees(request[v])'
                        /\ request'[v] \in DecidedRequest => DecidedSees(request[v])'
        BY DEF RequestSees
    <2>1. request'[v] = IF v = t THEN r ELSE request[v]
        BY <1>1 DEF IndInv, RequestType
    <2>2. QED
        BY <1>1, <2>1 DEF IndInv, RequestSees, DecidingSees, DecidedSees
<1>6. QED
    BY <1>2, <1>3, <1>4, <1>5 DEF IndInv

\* A name that is found in the sets makes the caller a Capsule user of a
\* configuration in force, and one that is not found is not in a single one.
LEMMA SetsTell ==
    ASSUME IndInv, NEW r \in Deciding, DecidingSees(r), NEW x
    PROVE  /\ x \in CapsuleUserGroups =>
                 \E c \in r.inForce : c # NoConfiguration /\ x \in c.groups
           /\ x \in CapsuleUsers =>
                 \E c \in r.inForce : c # NoConfiguration /\ x \in c.users
           /\ \A c : r.inForce = {c} =>
                 CapsuleUserGroups = GroupsOf(c) /\ CapsuleUsers = UsersOf(c)
<1>1. PICK g, u \in AnyConfiguration : SetsFrom(g, u)
    BY DEF IndInv, SetsHaveOrigin
<1>2. g \in r.inForce /\ u \in r.inForce
    BY <1>1 DEF SetsFrom, DecidingSees
<1>3. QED
    BY <1>1, <1>2 DEF SetsFrom, GroupsOf, UsersOf

\* A request begins with the configurations that the sets come from.
LEMMA BeginStep ==
    ASSUME IndInv, NEW t \in Threads, NEW caller \in Callers, Begin(t, caller)
    PROVE  IndInv'
<1> DEFINE r == [pc |-> "groups", caller |-> caller, left |-> caller.groups, inForce |-> origin]
<1>1. r \in Deciding
    BY DEF IndInv, TypeOK, Deciding, AnyConfiguration
<1>2. IsFiniteSet(origin)
    <2>1. PICK g, u \in AnyConfiguration : SetsFrom(g, u)
        BY DEF IndInv, SetsHaveOrigin
    <2>2. origin = {g} \cup {u}
        BY <2>1 DEF SetsFrom
    <2>3. QED
        BY <2>2, FS_Singleton, FS_Union
<1>3. DecidingSees(r)
    BY <1>2 DEF DecidingSees
<1>4. r \notin DecidedRequest
    BY DEF DecidedRequest
<1>5. QED
    BY <1>1, <1>3, <1>4, RequestStep DEF Begin

\* slices.ContainsFunc looks at one group.
LEMMA CheckGroupStep ==
    ASSUME IndInv, NEW t \in Threads, CheckGroup(t)
    PROVE  IndInv'
<1> DEFINE r == request[t]
<1>1. r \in Deciding /\ r.pc = "groups" /\ DecidingSees(r)
    BY RequestKinds DEF CheckGroup, IndInv, RequestType, RequestSees
<1>2. PICK g \in r.left :
          SetRequest(t, IF g \in CapsuleUserGroups THEN Decided(r, TRUE)
                        ELSE [r EXCEPT !.left = @ \ {g}])
    BY DEF CheckGroup
<1> HIDE DEF r
<1>3. CASE g \in CapsuleUserGroups
    <2> DEFINE d == Decided(r, TRUE)
    <2>1. d \in DecidedRequest /\ d \notin Deciding
        BY <1>1 DEF Decided, DecidedRequest, Deciding
    <2>2. PICK c \in r.inForce : c # NoConfiguration /\ g \in c.groups
        BY <1>1, <1>3, SetsTell
    <2>3. g \in r.caller.groups
        BY <1>1 DEF DecidingSees
    <2>4. IsCapsuleUser(c, r.caller)
        BY <2>2, <2>3 DEF IsCapsuleUser
    <2>5. DecidedSees(d)
        BY <1>1, <2>2, <2>4 DEF DecidedSees, Decided, DecidingSees
    <2>6. QED
        BY <1>2, <1>3, <2>1, <2>5, RequestStep
<1>4. CASE g \notin CapsuleUserGroups
    <2> DEFINE d == [r EXCEPT !.left = @ \ {g}]
    <2>1. d \in Deciding /\ d \notin DecidedRequest
        BY <1>1 DEF DecidedRequest, Deciding
    <2>2. /\ d.left = r.left \ {g} /\ d.inForce = r.inForce
          /\ d.caller = r.caller /\ d.pc = "groups"
        BY <1>1 DEF Deciding
    <2>3. \A c : r.inForce = {c} => g \notin GroupsOf(c)
        BY <1>1, <1>4, SetsTell
    <2> HIDE DEF d
    <2>4. DecidingSees(d)
        BY <1>1, <2>2, <2>3 DEF DecidingSees
    <2>5. SetRequest(t, d)
        BY <1>2, <1>4 DEF d
    <2>6. QED
        BY <2>1, <2>4, <2>5, RequestStep
<1>5. QED
    BY <1>3, <1>4

\* All groups have been looked at; then the user is.
LEMMA NoGroupStep ==
    ASSUME IndInv, NEW t \in Threads, NoGroup(t)
    PROVE  IndInv'
<1> DEFINE r == request[t]
<1> DEFINE d == [r EXCEPT !.pc = "users"]
<1>1. r \in Deciding /\ r.pc = "groups" /\ r.left = {} /\ DecidingSees(r)
    BY RequestKinds DEF NoGroup, IndInv, RequestType, RequestSees
<1>2. SetRequest(t, d)
    BY DEF NoGroup
<1> HIDE DEF r
<1>3. /\ d \in Deciding /\ d \notin DecidedRequest
      /\ d.left = r.left /\ d.inForce = r.inForce /\ d.caller = r.caller
    BY <1>1 DEF Deciding, DecidedRequest
<1> HIDE DEF d
<1>4. DecidingSees(d)
    BY <1>1, <1>3 DEF DecidingSees
<1>5. QED
    BY <1>2, <1>3, <1>4, RequestStep

\* The user is looked for: the decision is made.
LEMMA CheckUserStep ==
    ASSUME IndInv, NEW t \in Threads, CheckUser(t)
    PROVE  IndInv'
<1> DEFINE r == request[t]
<1> DEFINE found == r.caller.user \in CapsuleUsers
<1> DEFINE d == Decided(r, found)
<1>1. r \in Deciding /\ r.pc = "users" /\ DecidingSees(r)
    BY RequestKinds DEF CheckUser, IndInv, RequestType, RequestSees
<1>2. SetRequest(t, d)
    BY DEF CheckUser
<1> HIDE DEF r
<1>3. d \in DecidedRequest /\ d \notin Deciding
    BY <1>1 DEF Decided, DecidedRequest, Deciding
<1>4. d.inForce = r.inForce /\ d.caller = r.caller /\ (d.capsule <=> found)
    BY DEF Decided
<1> HIDE DEF d
<1>5. found => \E c \in r.inForce : IsCapsuleUser(c, r.caller)
    BY <1>1, SetsTell DEF IsCapsuleUser
<1>6. \A c : r.inForce = {c} => (found <=> IsCapsuleUser(c, r.caller))
    <2> TAKE c
    <2> HAVE r.inForce = {c}
    <2>1. CapsuleUsers = UsersOf(c) /\ r.caller.groups \cap GroupsOf(c) = {}
        BY <1>1, SetsTell DEF DecidingSees
    <2>2. QED
        BY <2>1 DEF IsCapsuleUser, UsersOf, GroupsOf
<1>7. DecidedSees(d)
    BY <1>1, <1>4, <1>5, <1>6 DEF DecidedSees, DecidingSees
<1>8. QED
    BY <1>2, <1>3, <1>7, RequestStep

\* The request is over.
LEMMA FinishStep ==
    ASSUME IndInv, NEW t \in Threads, Finish(t)
    PROVE  IndInv'
<1>1. Idle \notin Deciding /\ Idle \notin DecidedRequest
    BY DEF Idle, Deciding, DecidedRequest
<1>2. QED
    BY <1>1, RequestStep DEF Finish

-----------------------------------------------------------------------------
(* The assignments of the reconciler. *)

\* Configuration c comes into force under every request that is being decided.
LEMMA InForceStep ==
    ASSUME IndInv, NEW c \in Configurations, InForce(c),
           origin' \subseteq origin \cup {c}
    PROVE  RequestType' /\ RequestSees'
<1> DEFINE next(r) == [r EXCEPT !.inForce = @ \cup {c}]
<1>1. request' = [t \in Threads |-> IF request[t] \in Deciding THEN next(request[t])
                                   ELSE request[t]]
    BY RequestKinds DEF InForce, IndInv, RequestType
<1>2. ASSUME NEW r \in Deciding, DecidingSees(r)
      PROVE  next(r) \in Deciding /\ next(r) \notin DecidedRequest /\ DecidingSees(next(r))'
    <2> DEFINE n == next(r)
    <2>1. n \in Deciding /\ n \notin DecidedRequest
        BY DEF Deciding, DecidedRequest, AnyConfiguration
    <2>2. /\ n.inForce = r.inForce \cup {c} /\ n.left = r.left
          /\ n.caller = r.caller /\ n.pc = r.pc
        BY DEF Deciding
    <2> HIDE DEF n
    <2>3. IsFiniteSet(n.inForce)
        BY <1>2, <2>2, FS_AddElement DEF DecidingSees
    <2>4. r.inForce # {}
        BY <1>2 DEF DecidingSees, IndInv, SetsHaveOrigin, SetsFrom
    <2>5. \A d : n.inForce = {d} => r.inForce = {d}
        BY <2>2, <2>4
    <2>6. DecidingSees(n)'
        BY <1>2, <2>2, <2>3, <2>5 DEF DecidingSees
    <2>7. QED
        BY <2>1, <2>6 DEF n
<1> HIDE DEF next
<1>3. \A t \in Threads : request[t] \in Deciding => DecidingSees(request[t])
    BY DEF IndInv, RequestSees
<1>4. RequestType'
    BY <1>1, <1>2, <1>3 DEF IndInv, RequestType
<1>5. RequestSees'
    <2> SUFFICES ASSUME NEW t \in Threads
                 PROVE  /\ request'[t] \in Deciding => DecidingSees(request[t])'
                        /\ request'[t] \in DecidedRequest => DecidedSees(request[t])'
        BY DEF RequestSees
    <2>1. CASE request[t] \in Deciding
        BY <1>1, <1>2, <1>3, <2>1
    <2>2. CASE request[t] \notin Deciding
        BY <1>1, <2>2 DEF IndInv, RequestSees, DecidedSees
    <2>3. QED
        BY <2>1, <2>2
<1>6. QED
    BY <1>4, <1>5

\* The first assignment: the groups are those of the new configuration, the
\* users still those of the one before.
LEMMA SetGroupsStep ==
    ASSUME IndInv, SetGroups
    PROVE  IndInv'
<1>1. PICK c \in Configurations : c = reconcile.configuration /\ reconcile.pc = "groups"
    BY DEF SetGroups, IndInv, TypeOK, Idle
<1>2. /\ CapsuleUserGroups' = c.groups
      /\ reconcile' = [pc |-> "users", configuration |-> c]
      /\ origin' = origin \cup {c} /\ InForce(c)
      /\ UNCHANGED <<configuration, writes, phase, exits, seen, queued, CapsuleUsers>>
    BY <1>1 DEF SetGroups, cluster, process
<1>3. RequestType' /\ RequestSees'
    BY <1>1, <1>2, InForceStep
<1>4. TypeOK'
    <2>1. /\ reconcile' \in [pc : {"groups", "users"}, configuration : Configurations]
          /\ CapsuleUserGroups' \subseteq UNION {d.groups : d \in Configurations}
          /\ origin' \subseteq Configurations \cup {NoConfiguration}
        BY <1>1, <1>2 DEF IndInv, TypeOK
    <2>2. \A t \in Threads :
              \/ request'[t] = Idle
              \/ /\ request'[t].pc \in {"groups", "users", "decided"}
                 /\ request'[t].caller \in Callers
                 /\ request'[t].inForce \subseteq Configurations \cup {NoConfiguration}
        BY <1>3 DEF RequestType, Deciding, DecidedRequest, AnyConfiguration
    <2>3. QED
        BY <1>2, <2>1, <2>2 DEF IndInv, TypeOK
<1>5. SetsHaveOrigin'
    <2>1. PICK g, u \in AnyConfiguration : SetsFrom(g, u)
        BY DEF IndInv, SetsHaveOrigin
    <2>2. SetsFrom(c, u)'
        BY <1>1, <1>2, <2>1, NoConfigurationAssumption DEF SetsFrom, GroupsOf
    <2>3. QED
        BY <1>1, <2>2 DEF SetsHaveOrigin, AnyConfiguration
<1>6. QED
    BY <1>3, <1>4, <1>5 DEF IndInv

\* The second assignment: both sets are those of the configuration.
LEMMA SetUsersStep ==
    ASSUME IndInv, SetUsers
    PROVE  IndInv'
<1>1. PICK c \in Configurations : c = reconcile.configuration /\ reconcile.pc = "users"
    BY DEF SetUsers, IndInv, TypeOK, Idle
<1>2. /\ CapsuleUsers' = c.users
      /\ reconcile' = Idle
      /\ origin' = {c} /\ InForce(c)
      /\ UNCHANGED <<configuration, writes, phase, exits, seen, queued, CapsuleUserGroups>>
    BY <1>1 DEF SetUsers, cluster, process
<1>3. PICK g, u \in AnyConfiguration : SetsFrom(g, u)
    BY DEF IndInv, SetsHaveOrigin
<1>4. g = c /\ CapsuleUserGroups = GroupsOf(c)
    BY <1>1, <1>3 DEF SetsFrom
<1>5. RequestType' /\ RequestSees'
    BY <1>1, <1>2, InForceStep
<1>6. TypeOK'
    <2>1. /\ CapsuleUsers' \subseteq UNION {d.users : d \in Configurations}
          /\ origin' \subseteq Configurations \cup {NoConfiguration}
        BY <1>1, <1>2 DEF IndInv, TypeOK
    <2>2. \A t \in Threads :
              \/ request'[t] = Idle
              \/ /\ request'[t].pc \in {"groups", "users", "decided"}
                 /\ request'[t].caller \in Callers
                 /\ request'[t].inForce \subseteq Configurations \cup {NoConfiguration}
        BY <1>5 DEF RequestType, Deciding, DecidedRequest, AnyConfiguration
    <2>3. QED
        BY <1>2, <2>1, <2>2 DEF IndInv, TypeOK
<1>7. SetsHaveOrigin'
    <2>1. SetsFrom(c, c)'
        BY <1>1, <1>2, <1>4, NoConfigurationAssumption DEF SetsFrom, UsersOf, Idle
    <2>2. QED
        BY <1>1, <2>1 DEF SetsHaveOrigin, AnyConfiguration
<1>8. QED
    BY <1>5, <1>6, <1>7 DEF IndInv

-----------------------------------------------------------------------------
\* Every step preserves the inductive invariant.
LEMMA StepIndInv == IndInv /\ [Next]_vars => IndInv'
<1> SUFFICES ASSUME IndInv, [Next]_vars PROVE IndInv'
    OBVIOUS
<1>1. CASE UNCHANGED vars
    <2>1. UNCHANGED <<cluster, process, controller, userSets, request>>
        BY <1>1 DEF vars
    <2>2. TypeOK' /\ reconcile' = reconcile
        BY <2>1 DEF IndInv, TypeOK, cluster, process, controller, userSets
    <2>3. QED
        BY <2>1, <2>2, SetsKept
<1>2. CASE Next
    BY <1>2, WorldStep, ProcessStep, SetGroupsStep, SetUsersStep,
       BeginStep, CheckGroupStep, NoGroupStep, CheckUserStep, FinishStep
    DEF Next, Controller, CheckUserInCapsuleGroup
<1>3. QED
    BY <1>1, <1>2

\* The process, its sets and its requests keep their types.
THEOREM TypeCorrect == Spec => []TypeOK
<1>1. IndInv => TypeOK
    BY DEF IndInv
<1>2. QED
    BY <1>1, InitIndInv, StepIndInv, PTL DEF Spec

\* However the assignments of the reconciler and the reads of the requests
\* interleave, a decision is that of a configuration in force meanwhile.
THEOREM DecisionsJustified == Spec => []DecisionJustified
<1>1. IndInv => DecisionJustified
    <2> SUFFICES ASSUME IndInv, NEW t \in Threads, request[t].pc = "decided"
                 PROVE  LET r == request[t]
                        IN  /\ r.capsule => \E c \in r.inForce : IsCapsuleUser(c, r.caller)
                            /\ Cardinality(r.inForce) = 1 =>
                                  \A c \in r.inForce : r.capsule <=> IsCapsuleUser(c, r.caller)
        BY DEF DecisionJustified
    <2>1. DecidedSees(request[t])
        BY RequestKinds DEF IndInv, RequestType, RequestSees
    <2>2. Cardinality(request[t].inForce) = 1 => \E x : request[t].inForce = {x}
        BY <2>1, FS_Singleton DEF DecidedSees
    <2>3. QED
        BY <2>1, <2>2 DEF DecidedSees
<1>2. QED
    BY <1>1, InitIndInv, StepIndInv, PTL DEF Spec

-----------------------------------------------------------------------------
(* The proxy's own token: ProxyToken. *)

Content == Tokens \cup {Empty}
Plain == [pc : {"idle", "read", "return"}]
Storing == [pc : {"bytes", "length", "expiration"}, token : Content]

\* The calls as records, which the type invariant leaves open.
CallType == call \in [Goroutines -> Plain \cup Storing]

\* A refresh that did not begin within another is the only one.
Alone == ~overlapped => \A t, u \in Refreshing : t = u

\* It has found the time expired, and has stored what it holds so far.
Stores(t) ==
    LET c == call[t]
    IN  /\ Expired(bearerTokenExpirationTime)
        /\ c.pc \in {"length", "expiration"} => bearerToken.bytes = c.token
        /\ c.pc = "expiration" => bearerToken.length = c.token

AloneStores == ~overlapped => \A t \in Refreshing : Stores(t)

\* The inductive invariant.
TokenIndInv == TokenTypeOK /\ CallType /\ Alone /\ AloneStores /\ RefreshConsistent

-----------------------------------------------------------------------------
(* The tokens that are valid. *)

\* The kubelet appends a token that is not valid yet.
LEMMA AppendValid ==
    ASSUME NEW s \in Seq(Tokens), IsInjective(s),
           NEW token \in Tokens, token \notin ToSet(s)
    PROVE  /\ Append(s, token) \in Seq(Tokens) /\ Append(s, token) # << >>
           /\ IsInjective(Append(s, token))
           /\ ToSet(Append(s, token)) = ToSet(s) \cup {token}
<1> DEFINE a == Append(s, token)
<1>1. /\ a \in Seq(Tokens) /\ Len(a) = Len(s) + 1 /\ Len(s) \in Nat
      /\ DOMAIN a = 1..(Len(s) + 1) /\ DOMAIN s = 1..Len(s)
      /\ a[Len(s) + 1] = token
      /\ \A i \in 1..Len(s) : a[i] = s[i]
    OBVIOUS
<1> HIDE DEF a
<1>2. \A i \in 1..Len(s) : s[i] # token
    BY <1>1 DEF ToSet
<1>3. IsInjective(a)
    BY <1>1, <1>2 DEF IsInjective
<1>4. ToSet(a) = ToSet(s) \cup {token}
    BY <1>1 DEF ToSet
<1>5. a # << >>
    BY <1>1
<1>6. QED
    BY <1>1, <1>3, <1>4, <1>5 DEF a

\* The oldest token leaves the sequence.
LEMMA TailValid ==
    ASSUME NEW s \in Seq(Tokens), IsInjective(s), Len(s) > 1
    PROVE  /\ Tail(s) \in Seq(Tokens) /\ Tail(s) # << >>
           /\ IsInjective(Tail(s))
           /\ ToSet(Tail(s)) \subseteq ToSet(s)
<1> DEFINE a == Tail(s)
<1>1. /\ a \in Seq(Tokens) /\ Len(a) = Len(s) - 1 /\ Len(s) \in Nat
      /\ DOMAIN a = 1..(Len(s) - 1) /\ DOMAIN s = 1..Len(s)
      /\ \A i \in 1..(Len(s) - 1) : a[i] = s[i + 1]
    OBVIOUS
<1> HIDE DEF a
<1>2. IsInjective(a)
    BY <1>1 DEF IsInjective
<1>3. ToSet(a) \subseteq ToSet(s)
    BY <1>1 DEF ToSet
<1>4. a # << >>
    BY <1>1
<1>5. QED
    BY <1>1, <1>2, <1>3, <1>4 DEF a

\* The token in the file is a token.
LEMMA LastValid ==
    ASSUME NEW s \in Seq(Tokens), s # << >>
    PROVE  Last(s) \in Tokens
    BY DEF Last

\* A call is refreshing, or idle or about to return.
LEMMA CallKinds ==
    ASSUME CallType, NEW t \in Goroutines
    PROVE  /\ t \in Refreshing <=> call[t].pc \in {"read", "bytes", "length", "expiration"}
           /\ call[t].pc \in {"bytes", "length", "expiration"} <=> call[t] \in Storing
           /\ call[t] \in Storing => call[t].token \in Content
    BY DEF CallType, Plain, Storing, Refreshing

\* The inductive invariant holds initially.
LEMMA TokenInitIndInv == TokenInit => TokenIndInv
<1> SUFFICES ASSUME TokenInit PROVE TokenIndInv
    OBVIOUS
<1>1. PICK token \in Tokens :
          /\ valid = <<token>> /\ readable = TRUE
          /\ bearerToken = [bytes |-> token, length |-> token]
          /\ bearerTokenExpirationTime = token
          /\ call = [t \in Goroutines |-> NoCall]
          /\ overlapped = FALSE
    BY DEF TokenInit
<1>2. CallType
    BY <1>1 DEF CallType, Plain, NoCall
<1>3. TokenTypeOK
    <2>1. valid \in Seq(Tokens) /\ valid # << >> /\ IsInjective(valid)
        BY <1>1 DEF IsInjective
    <2>2. QED
        BY <1>1, <2>1 DEF TokenTypeOK, Strings, NoCall
<1>4. Refreshing = {}
    BY <1>1 DEF Refreshing, NoCall
<1>5. QED
    BY <1>1, <1>2, <1>3, <1>4 DEF TokenIndInv, Alone, AloneStores, RefreshConsistent

-----------------------------------------------------------------------------
(* The kubelet and the clock. *)

\* A step that changes the valid tokens only, and makes no expired one valid
\* that the fields refer to.
LEMMA ValidStep ==
    ASSUME TokenIndInv, valid' \in Seq(Tokens), valid' # << >>, IsInjective(valid'),
           readable' \in BOOLEAN,
           Expired(bearerTokenExpirationTime) =>
               bearerTokenExpirationTime \notin ToSet(valid'),
           UNCHANGED <<bearerToken, bearerTokenExpirationTime, call, overlapped>>
    PROVE  TokenIndInv'
<1>1. TokenTypeOK' /\ CallType'
    BY DEF TokenIndInv, TokenTypeOK, CallType
<1>2. Refreshing' = Refreshing
    BY DEF Refreshing
<1>3. Expired(bearerTokenExpirationTime) => Expired(bearerTokenExpirationTime)'
    BY DEF Expired
<1>4. Alone' /\ AloneStores'
    BY <1>2, <1>3 DEF TokenIndInv, Alone, AloneStores, Stores
<1>5. RefreshConsistent'
    BY <1>2, <1>3 DEF TokenIndInv, RefreshConsistent
<1>6. QED
    BY <1>1, <1>4, <1>5 DEF TokenIndInv

\* The kubelet and the clock preserve the inductive invariant.
LEMMA TokenWorldStep ==
    ASSUME TokenIndInv, Rotate \/ Expire \/ ChangeReadable
    PROVE  TokenIndInv'
<1>1. /\ valid \in Seq(Tokens) /\ valid # << >> /\ IsInjective(valid) /\ readable \in BOOLEAN
    BY DEF TokenIndInv, TokenTypeOK
<1>2. CASE Rotate
    <2>1. PICK token \in Tokens \ InUse : valid' = Append(valid, token)
        BY <1>2 DEF Rotate
    <2>2. token \notin ToSet(valid) /\ token # bearerTokenExpirationTime
        BY <2>1 DEF InUse
    <2>3. /\ valid' \in Seq(Tokens) /\ valid' # << >> /\ IsInjective(valid')
          /\ ToSet(valid') = ToSet(valid) \cup {token}
        BY <1>1, <2>1, <2>2, AppendValid
    <2>4. QED
        BY <1>1, <1>2, <2>2, <2>3, ValidStep DEF Rotate, Expired
<1>3. CASE Expire
    <2>1. /\ valid' \in Seq(Tokens) /\ valid' # << >> /\ IsInjective(valid')
          /\ ToSet(valid') \subseteq ToSet(valid)
        BY <1>1, <1>3, TailValid DEF Expire
    <2>2. QED
        BY <1>1, <1>3, <2>1, ValidStep DEF Expire, Expired
<1>4. CASE ChangeReadable
    BY <1>1, <1>4, ValidStep DEF ChangeReadable, Expired
<1>5. QED
    BY <1>2, <1>3, <1>4

-----------------------------------------------------------------------------
(* BearerToken. *)

\* What a step of a call does to the types and to the set of refreshes.
LEMMA CallStep ==
    ASSUME TokenIndInv, NEW t \in Goroutines, NEW c \in Plain \cup Storing, SetCall(t, c),
           bearerToken' \in Strings, bearerTokenExpirationTime' \in Tokens
    PROVE  /\ TokenTypeOK' /\ CallType'
           /\ \A u \in Goroutines : call'[u] = IF u = t THEN c ELSE call[u]
           /\ overlapped' = IF c.pc = "read" THEN Refreshing # {} ELSE overlapped
           /\ Refreshing' = IF c.pc \in {"idle", "return"} THEN Refreshing \ {t}
                            ELSE Refreshing \cup {t}
           /\ \A token : Expired(token)' <=> Expired(token)
<1>1. /\ call' = [call EXCEPT ![t] = c]
      /\ overlapped' = IF c.pc = "read" THEN Refreshing # {} ELSE overlapped
      /\ UNCHANGED <<valid, readable>>
    BY DEF SetCall
<1>2. \A u \in Goroutines : call'[u] = IF u = t THEN c ELSE call[u]
    BY <1>1 DEF TokenIndInv, CallType
<1>3. CallType'
    BY <1>1 DEF TokenIndInv, CallType
<1>4. TokenTypeOK'
    <2>1. \A u \in Goroutines :
              \/ call'[u] \in [pc : {"idle", "read", "return"}]
              \/ call'[u] \in [pc : {"bytes", "length", "expiration"}, token : Tokens \cup {Empty}]
        BY <1>3 DEF CallType, Plain, Storing, Content
    <2>2. overlapped' \in BOOLEAN
        BY <1>1 DEF TokenIndInv, TokenTypeOK
    <2>3. QED
        BY <1>1, <2>1, <2>2 DEF TokenIndInv, TokenTypeOK
<1>5. Refreshing' = IF c.pc \in {"idle", "return"} THEN Refreshing \ {t}
                    ELSE Refreshing \cup {t}
    <2>1. c.pc \in {"idle", "return"} \/ c.pc \in {"read", "bytes", "length", "expiration"}
        BY DEF Plain, Storing
    <2>2. QED
        BY <1>2, <2>1 DEF Refreshing
<1>6. \A token : Expired(token)' <=> Expired(token)
    BY <1>1 DEF Expired
<1>7. QED
    BY <1>1, <1>2, <1>3, <1>4, <1>5, <1>6

\* A request that finds the time expired begins a refresh; others return.
LEMMA BearerTokenStep ==
    ASSUME TokenIndInv, NEW t \in Goroutines, BearerToken(t)
    PROVE  TokenIndInv'
<1>1. PICK c \in Plain : /\ SetCall(t, c)
                         /\ c.pc = IF Expired(bearerTokenExpirationTime) THEN "read" ELSE "return"
    BY DEF BearerToken, Plain
<1>2. UNCHANGED <<bearerToken, bearerTokenExpirationTime>> /\ t \notin Refreshing
    BY DEF BearerToken, Refreshing
<1>3. bearerToken \in Strings /\ bearerTokenExpirationTime \in Tokens
    BY DEF TokenIndInv, TokenTypeOK
<1>4. /\ TokenTypeOK' /\ CallType'
      /\ \A u \in Goroutines : call'[u] = IF u = t THEN c ELSE call[u]
      /\ overlapped' = IF c.pc = "read" THEN Refreshing # {} ELSE overlapped
      /\ Refreshing' = IF c.pc \in {"idle", "return"} THEN Refreshing \ {t}
                       ELSE Refreshing \cup {t}
      /\ \A token : Expired(token)' <=> Expired(token)
    BY <1>1, <1>2, <1>3, CallStep
<1>5. CASE Expired(bearerTokenExpirationTime)
    <2>1. c.pc = "read" /\ Refreshing' = Refreshing \cup {t} /\ (~overlapped' => Refreshing' = {t})
        BY <1>1, <1>4, <1>5
    <2>2. Alone'
        BY <2>1 DEF Alone
    <2>3. AloneStores'
        BY <1>2, <1>4, <1>5, <2>1 DEF AloneStores, Stores
    <2>4. RefreshConsistent'
        BY <2>1 DEF RefreshConsistent
    <2>5. QED
        BY <1>4, <2>2, <2>3, <2>4 DEF TokenIndInv
<1>6. CASE ~Expired(bearerTokenExpirationTime)
    <2>1. Refreshing' = Refreshing /\ overlapped' = overlapped
        BY <1>1, <1>2, <1>4, <1>6
    <2>2. \A u \in Refreshing : u \in Goroutines /\ call'[u] = call[u]
        BY <1>2, <1>4 DEF Refreshing
    <2>3. Alone' /\ AloneStores' /\ RefreshConsistent'
        BY <1>2, <1>4, <2>1, <2>2
        DEF TokenIndInv, Alone, AloneStores, Stores, RefreshConsistent
    <2>4. QED
        BY <1>4, <2>3 DEF TokenIndInv
<1>7. QED
    BY <1>5, <1>6

\* A step within a refresh: it goes on, and if it is alone, it has stored what
\* it holds up to its next step.
LEMMA WithinStep ==
    ASSUME TokenIndInv, NEW t \in Refreshing, NEW c \in Storing, SetCall(t, c),
           bearerToken' \in Strings, UNCHANGED bearerTokenExpirationTime,
           ~overlapped /\ c.pc \in {"length", "expiration"} => bearerToken'.bytes = c.token,
           ~overlapped /\ c.pc = "expiration" => bearerToken'.length = c.token
    PROVE  TokenIndInv'
<1>1. t \in Goroutines /\ bearerTokenExpirationTime \in Tokens
      /\ c.pc \in {"bytes", "length", "expiration"}
    BY DEF Refreshing, TokenIndInv, TokenTypeOK, Storing
<1>2. /\ TokenTypeOK' /\ CallType'
      /\ \A u \in Goroutines : call'[u] = IF u = t THEN c ELSE call[u]
      /\ overlapped' = IF c.pc = "read" THEN Refreshing # {} ELSE overlapped
      /\ Refreshing' = IF c.pc \in {"idle", "return"} THEN Refreshing \ {t}
                       ELSE Refreshing \cup {t}
      /\ \A token : Expired(token)' <=> Expired(token)
    BY <1>1, CallStep
<1>3. overlapped' = overlapped /\ Refreshing' = Refreshing
    BY <1>1, <1>2
<1>4. Alone'
    BY <1>3 DEF TokenIndInv, Alone
<1>5. AloneStores'
    <2> SUFFICES ASSUME ~overlapped', NEW u \in Refreshing' PROVE Stores(u)'
        BY DEF AloneStores
    <2>1. u = t
        BY <1>3 DEF TokenIndInv, Alone
    <2>2. Expired(bearerTokenExpirationTime)'
        BY <1>2, <1>3 DEF TokenIndInv, AloneStores, Stores
    <2>3. QED
        BY <1>1, <1>2, <1>3, <2>1, <2>2 DEF Stores
<1>6. RefreshConsistent'
    BY <1>3 DEF RefreshConsistent
<1>7. QED
    BY <1>2, <1>4, <1>5, <1>6 DEF TokenIndInv

\* Reading the file and storing the two halves of the string.
LEMMA StoreStep ==
    ASSUME TokenIndInv, NEW t \in Goroutines,
           ReadFile(t) \/ StoreBytes(t) \/ StoreLength(t)
    PROVE  TokenIndInv'
<1>1. bearerToken \in [bytes : Content, length : Content] /\ CallType
    BY DEF TokenIndInv, TokenTypeOK, Strings, Content
<1>2. t \in Refreshing
    BY DEF Refreshing, ReadFile, StoreBytes, StoreLength
<1>3. CASE ReadFile(t)
    <2> DEFINE c == [pc |-> "bytes", token |-> IF readable THEN Last(valid) ELSE Empty]
    <2>1. c \in Storing
        BY LastValid DEF TokenIndInv, TokenTypeOK, Storing, Content
    <2>2. SetCall(t, c) /\ UNCHANGED <<bearerToken, bearerTokenExpirationTime>>
        BY <1>3 DEF ReadFile
    <2>3. QED
        BY <1>1, <1>2, <2>1, <2>2, WithinStep DEF Strings, Content
<1>4. CASE StoreBytes(t)
    <2> DEFINE c == [call[t] EXCEPT !.pc = "length"]
    <2>1. call[t] \in Storing /\ call[t].token \in Content
        BY <1>1, <1>4, CallKinds DEF StoreBytes
    <2>2. c \in Storing /\ c.pc = "length" /\ c.token = call[t].token
        BY <2>1 DEF Storing
    <2>3. bearerToken' \in Strings /\ bearerToken'.bytes = call[t].token
        BY <1>1, <1>4, <2>1 DEF StoreBytes, Strings, Content
    <2>4. SetCall(t, c) /\ UNCHANGED bearerTokenExpirationTime
        BY <1>4 DEF StoreBytes
    <2> HIDE DEF c
    <2>5. QED
        BY <1>2, <2>2, <2>3, <2>4, WithinStep
<1>5. CASE StoreLength(t)
    <2> DEFINE c == [call[t] EXCEPT !.pc = "expiration"]
    <2>1. call[t] \in Storing /\ call[t].token \in Content /\ call[t].pc = "length"
        BY <1>1, <1>5, CallKinds DEF StoreLength
    <2>2. c \in Storing /\ c.pc = "expiration" /\ c.token = call[t].token
        BY <2>1 DEF Storing
    <2>3. /\ bearerToken' \in Strings /\ bearerToken'.length = call[t].token
          /\ bearerToken'.bytes = bearerToken.bytes
        BY <1>1, <1>5, <2>1 DEF StoreLength, Strings, Content
    <2>4. ~overlapped => bearerToken.bytes = call[t].token
        BY <1>2, <2>1 DEF TokenIndInv, AloneStores, Stores
    <2>5. SetCall(t, c) /\ UNCHANGED bearerTokenExpirationTime
        BY <1>5 DEF StoreLength
    <2> HIDE DEF c
    <2>6. QED
        BY <1>2, <2>2, <2>3, <2>4, <2>5, WithinStep
<1>6. QED
    BY <1>3, <1>4, <1>5

\* The end of a refresh: the time is stored, or the call panics with it kept.
LEMMA StoreExpirationStep ==
    ASSUME TokenIndInv, NEW t \in Goroutines, StoreExpiration(t)
    PROVE  TokenIndInv'
<1>1. /\ t \in Refreshing /\ call[t].pc = "expiration"
      /\ call[t].token \in Content /\ bearerToken \in Strings /\ bearerTokenExpirationTime \in Tokens
    BY CallKinds DEF StoreExpiration, TokenIndInv, TokenTypeOK
<1>2. PICK c \in Plain : SetCall(t, c) /\ c.pc \in {"idle", "return"}
    BY DEF StoreExpiration, Plain, NoCall
<1>3. /\ UNCHANGED bearerToken
      /\ bearerTokenExpirationTime' = IF call[t].token = Empty THEN bearerTokenExpirationTime
                                      ELSE call[t].token
    BY DEF StoreExpiration
<1>4. bearerToken' \in Strings /\ bearerTokenExpirationTime' \in Tokens
    BY <1>1, <1>3 DEF Content
<1>5. /\ TokenTypeOK' /\ CallType'
      /\ \A u \in Goroutines : call'[u] = IF u = t THEN c ELSE call[u]
      /\ overlapped' = IF c.pc = "read" THEN Refreshing # {} ELSE overlapped
      /\ Refreshing' = IF c.pc \in {"idle", "return"} THEN Refreshing \ {t}
                       ELSE Refreshing \cup {t}
      /\ \A token : Expired(token)' <=> Expired(token)
    BY <1>2, <1>4, CallStep
<1>6. overlapped' = overlapped /\ Refreshing' = Refreshing \ {t}
    BY <1>2, <1>5
<1>7. ~overlapped' => Refreshing' = {}
    BY <1>1, <1>6 DEF TokenIndInv, Alone
<1>8. Alone' /\ AloneStores'
    BY <1>7 DEF Alone, AloneStores
<1>9. RefreshConsistent'
    <2> SUFFICES ASSUME ~overlapped
                 PROVE  LET time == bearerTokenExpirationTime'
                        IN  \/ bearerToken' = [bytes |-> time, length |-> time]
                            \/ /\ bearerToken' = [bytes |-> Empty, length |-> Empty]
                               /\ Expired(bearerTokenExpirationTime)'
        BY <1>6 DEF RefreshConsistent
    <2>1. /\ bearerToken.bytes = call[t].token /\ bearerToken.length = call[t].token
          /\ Expired(bearerTokenExpirationTime)
        BY <1>1 DEF TokenIndInv, AloneStores, Stores
    <2>2. bearerToken = [bytes |-> call[t].token, length |-> call[t].token]
        BY <1>1, <2>1 DEF Strings
    <2>3. QED
        BY <1>3, <1>5, <2>1, <2>2
<1>10. QED
    BY <1>5, <1>8, <1>9 DEF TokenIndInv

\* A call that is no refresh returns.
LEMMA ReturnStep ==
    ASSUME TokenIndInv, NEW t \in Goroutines, Return(t)
    PROVE  TokenIndInv'
<1>1. /\ t \notin Refreshing /\ SetCall(t, NoCall)
      /\ UNCHANGED <<bearerToken, bearerTokenExpirationTime>>
    BY DEF Return, Refreshing
<1>2. NoCall \in Plain /\ NoCall.pc = "idle"
    BY DEF NoCall, Plain
<1>3. bearerToken \in Strings /\ bearerTokenExpirationTime \in Tokens
    BY DEF TokenIndInv, TokenTypeOK
<1>4. /\ TokenTypeOK' /\ CallType'
      /\ \A u \in Goroutines : call'[u] = IF u = t THEN NoCall ELSE call[u]
      /\ overlapped' = IF NoCall.pc = "read" THEN Refreshing # {} ELSE overlapped
      /\ Refreshing' = IF NoCall.pc \in {"idle", "return"} THEN Refreshing \ {t}
                       ELSE Refreshing \cup {t}
      /\ \A token : Expired(token)' <=> Expired(token)
    BY <1>1, <1>2, <1>3, CallStep
<1>5. Refreshing' = Refreshing /\ overlapped' = overlapped
    BY <1>1, <1>2, <1>4
<1>6. \A u \in Refreshing : u \in Goroutines /\ call'[u] = call[u]
    BY <1>1, <1>4 DEF Refreshing
<1>7. Alone' /\ AloneStores' /\ RefreshConsistent'
    BY <1>1, <1>4, <1>5, <1>6 DEF TokenIndInv, Alone, AloneStores, Stores, RefreshConsistent
<1>8. QED
    BY <1>4, <1>7 DEF TokenIndInv

-----------------------------------------------------------------------------
\* Every step preserves the inductive invariant.
LEMMA TokenStepIndInv == TokenIndInv /\ [TokenNext]_(tokenVars) => TokenIndInv'
<1> SUFFICES ASSUME TokenIndInv, [TokenNext]_(tokenVars) PROVE TokenIndInv'
    OBVIOUS
<1>1. CASE UNCHANGED tokenVars
    <2>1. /\ valid \in Seq(Tokens) /\ valid # << >> /\ IsInjective(valid) /\ readable \in BOOLEAN
        BY DEF TokenIndInv, TokenTypeOK
    <2>2. QED
        BY <1>1, <2>1, ValidStep DEF tokenVars, Expired
<1>2. CASE TokenNext
    BY <1>2, TokenWorldStep, BearerTokenStep, StoreStep, StoreExpirationStep, ReturnStep
    DEF TokenNext, Call
<1>3. QED
    BY <1>1, <1>2

\* The token, its time and the calls keep their types; in particular the time
\* is always that of some token.
THEOREM TokenTypeCorrect == TokenSpec => []TokenTypeOK
<1>1. TokenIndInv => TokenTypeOK
    BY DEF TokenIndInv
<1>2. QED
    BY <1>1, TokenInitIndInv, TokenStepIndInv, PTL DEF TokenSpec

\* However many goroutines there are, refreshes that did not race leave the
\* token with its own time, or no token and a time that has passed.
THEOREM RefreshesConsistent == TokenSpec => []RefreshConsistent
<1>1. TokenIndInv => RefreshConsistent
    BY DEF TokenIndInv
<1>2. QED
    BY <1>1, TokenInitIndInv, TokenStepIndInv, PTL DEF TokenSpec

=============================================================================
