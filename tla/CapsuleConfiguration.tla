------------------------ MODULE CapsuleConfiguration ------------------------
(***************************************************************************)
(* The process of the proxy and the two sets that tell it who is a Capsule *)
(* user (internal/controllers/capsule_configuration.go).  The reconciler   *)
(* of the CapsuleConfiguration assigns the global variables                *)
(* CapsuleUserGroups and CapsuleUsers, one after the other and without a   *)
(* lock; every request reads them, one after the other, to decide whether  *)
(* the modules filter it (internal/webserver/middleware/user_in_group.go). *)
(* The web server answers before the reconciler has run (main.go,          *)
(* webserver.go), and the process may end at any time and is started anew. *)
(***************************************************************************)
EXTENDS Naturals, FiniteSets

CONSTANTS
    Threads,           \* goroutines that serve requests
    Callers,           \* [user, groups] of the requests
    Configurations,    \* [groups, users]: status.users of a CapsuleConfiguration
    NoConfiguration,
    MaxWrites,         \* bound: writes of the CapsuleConfiguration
    MaxExits           \* bound: ends of the process

ASSUME BoundsAssumption == MaxWrites \in Nat /\ MaxExits \in Nat
ASSUME NoConfigurationAssumption == NoConfiguration \notin Configurations

VARIABLES
    configuration,       \* the CapsuleConfiguration in the API server
    writes,
    phase,               \* the process: "down", "starting" or "serving"
    exits,
    seen,                \* the configuration in the informer cache
    queued,              \* the reconciler's work queue: "no", "yes" or "backoff"
    reconcile,           \* what Reconcile is about to do
    CapsuleUserGroups,
    CapsuleUsers,
    origin,              \* history: the configurations the two sets come from
    request              \* thread -> its request

cluster == <<configuration, writes>>
process == <<phase, exits>>
controller == <<seen, queued, reconcile>>
userSets == <<CapsuleUserGroups, CapsuleUsers, origin>>
vars == <<cluster, process, controller, userSets, request>>

-----------------------------------------------------------------------------
(* The API server. *)

\* Capsule writes the status of the configuration; it may be deleted as well.
WriteConfiguration(c) ==
    /\ writes < MaxWrites
    /\ c # configuration
    /\ configuration' = c
    /\ writes' = writes + 1
    /\ UNCHANGED <<process, controller, userSets, request>>

-----------------------------------------------------------------------------
(* The process. *)

Idle == [pc |-> "idle"]

\* The globals of a new process are nil, which no name is in.
Fresh ==
    /\ seen' = NoConfiguration
    /\ queued' = "no"
    /\ reconcile' = Idle
    /\ CapsuleUserGroups' = {}
    /\ CapsuleUsers' = {}
    /\ origin' = {NoConfiguration}
    /\ request' = [t \in Threads |-> Idle]

\* The configuration has to be there.
SetupWithManager == configuration # NoConfiguration

\* main ends the process if SetupWithManager fails; otherwise the manager starts
\* the web server.
Start ==
    /\ phase = "down"
    /\ SetupWithManager
    /\ phase' = "starting"
    /\ Fresh
    /\ UNCHANGED <<cluster, exits>>

\* The goroutine of kubeFilter.Start creates the server and listens.
Listen ==
    /\ phase = "starting"
    /\ phase' = "serving"
    /\ UNCHANGED <<cluster, exits, controller, userSets, request>>

\* The process ends, by a crash or by a signal.  Upon a signal Start shuts the
\* server down with the context that is done already, so that no request is
\* waited for, and the goroutine that listens panics on ErrServerClosed (before
\* Listen, Start dereferences a nil server).
Exit ==
    /\ phase # "down"
    /\ exits < MaxExits
    /\ exits' = exits + 1
    /\ phase' = "down"
    /\ Fresh
    /\ UNCHANGED cluster

-----------------------------------------------------------------------------
(* The reconciler of the CapsuleConfiguration. *)

\* Mutant: only creations, deletions and changes of the spec are reconciled;
\* the users are in the status.
SyncConfigurationGeneration ==
    /\ phase # "down"
    /\ seen # configuration
    /\ seen' = configuration
    /\ queued' = IF NoConfiguration \in {seen, configuration} THEN "yes" ELSE queued
    /\ UNCHANGED <<cluster, process, reconcile, userSets, request>>

\* The informer: every event of the configuration's name passes the predicate.
SyncConfiguration ==
    /\ phase # "down"
    /\ seen # configuration
    /\ seen' = configuration
    /\ queued' = "yes"
    /\ UNCHANGED <<cluster, process, reconcile, userSets, request>>

\* Mutant: a configuration that is not found is taken for an empty one.
ReconcileNotFound ==
    /\ queued = "yes"
    /\ reconcile = Idle
    /\ reconcile' = [pc |-> "groups", configuration |-> seen]
    /\ queued' = "no"
    /\ UNCHANGED <<cluster, process, seen, userSets, request>>

\* Reconcile: Get panics on an error, NotFound included; the controller turns
\* the panic into an error, and tries the key again after a while.
Reconcile ==
    /\ queued = "yes"
    /\ reconcile = Idle
    /\ IF seen = NoConfiguration
       THEN queued' = "backoff" /\ UNCHANGED reconcile
       ELSE queued' = "no" /\ reconcile' = [pc |-> "groups", configuration |-> seen]
    /\ UNCHANGED <<cluster, process, seen, userSets, request>>

\* The Get fails for another reason, such as a cache that is not in sync.
GetFails ==
    /\ queued = "yes"
    /\ reconcile = Idle
    /\ queued' = "backoff"
    /\ UNCHANGED <<cluster, process, seen, reconcile, userSets, request>>

Requeue ==
    /\ queued = "backoff"
    /\ queued' = "yes"
    /\ UNCHANGED <<cluster, process, seen, reconcile, userSets, request>>

\* A request that is being decided sees configuration c from now on.
InForce(c) ==
    request' = [t \in Threads |->
                   IF request[t].pc \in {"groups", "users"}
                   THEN [request[t] EXCEPT !.inForce = @ \cup {c}]
                   ELSE request[t]]

SetGroups ==
    /\ reconcile.pc = "groups"
    /\ LET c == reconcile.configuration
       IN  /\ CapsuleUserGroups' = c.groups
           /\ reconcile' = [pc |-> "users", configuration |-> c]
           /\ origin' = origin \cup {c}
           /\ InForce(c)
    /\ UNCHANGED <<cluster, process, seen, queued, CapsuleUsers>>

\* Mutant: the users are inserted into the set that is there.
SetUsersInsert ==
    /\ reconcile.pc = "users"
    /\ LET c == reconcile.configuration
       IN  /\ CapsuleUsers' = CapsuleUsers \cup c.users
           /\ origin' = {c}
           /\ InForce(c)
    /\ reconcile' = Idle
    /\ UNCHANGED <<cluster, process, seen, queued, CapsuleUserGroups>>

SetUsers ==
    /\ reconcile.pc = "users"
    /\ LET c == reconcile.configuration
       IN  /\ CapsuleUsers' = c.users
           /\ origin' = {c}
           /\ InForce(c)
    /\ reconcile' = Idle
    /\ UNCHANGED <<cluster, process, seen, queued, CapsuleUserGroups>>

-----------------------------------------------------------------------------
(* CheckUserInCapsuleGroupMiddleware. *)

SetRequest(t, r) ==
    /\ request' = [request EXCEPT ![t] = r]
    /\ UNCHANGED <<cluster, process, controller, userSets>>

Decided(r, capsule) ==
    [pc |-> "decided", caller |-> r.caller, inForce |-> r.inForce, capsule |-> capsule]

Begin(t, caller) ==
    /\ phase = "serving"
    /\ request[t].pc = "idle"
    /\ SetRequest(t, [pc |-> "groups", caller |-> caller, left |-> caller.groups,
                      inForce |-> origin])

\* slices.ContainsFunc reads the global anew for each group.
CheckGroup(t) ==
    /\ request[t].pc = "groups"
    /\ \E g \in request[t].left :
          SetRequest(t, IF g \in CapsuleUserGroups THEN Decided(request[t], TRUE)
                        ELSE [request[t] EXCEPT !.left = @ \ {g}])

NoGroup(t) ==
    /\ request[t].pc = "groups"
    /\ request[t].left = {}
    /\ SetRequest(t, [request[t] EXCEPT !.pc = "users"])

CheckUser(t) ==
    /\ request[t].pc = "users"
    /\ SetRequest(t, Decided(request[t], request[t].caller.user \in CapsuleUsers))

\* The request is filtered by a module, or impersonated and passed on.
Finish(t) ==
    /\ request[t].pc = "decided"
    /\ SetRequest(t, Idle)

CheckUserInCapsuleGroup(t) == CheckGroup(t) \/ NoGroup(t) \/ CheckUser(t)

-----------------------------------------------------------------------------
Init ==
    /\ configuration \in Configurations \cup {NoConfiguration}
    /\ writes = 0
    /\ phase = "down"
    /\ exits = 0
    /\ seen = NoConfiguration
    /\ queued = "no"
    /\ reconcile = Idle
    /\ CapsuleUserGroups = {}
    /\ CapsuleUsers = {}
    /\ origin = {NoConfiguration}
    /\ request = [t \in Threads |-> Idle]

Controller ==
    \/ SyncConfiguration \/ Reconcile \/ GetFails \/ Requeue
    \/ SetGroups \/ SetUsers

Next ==
    \/ \E c \in Configurations \cup {NoConfiguration} : WriteConfiguration(c)
    \/ Start \/ Listen \/ Exit
    \/ Controller
    \/ \E t \in Threads :
          \/ \E caller \in Callers : Begin(t, caller)
          \/ CheckUserInCapsuleGroup(t) \/ Finish(t)

\* The kubelet starts the process anew, informers and workers go on, a Get that
\* is repeated succeeds in the end, and requests are decided.
Fairness ==
    /\ WF_vars(Start) /\ WF_vars(Listen)
    /\ WF_vars(SyncConfiguration)
    /\ SF_vars(Reconcile)
    /\ WF_vars(Requeue)
    /\ WF_vars(SetGroups) /\ WF_vars(SetUsers)
    /\ \A t \in Threads : WF_vars(CheckUserInCapsuleGroup(t))

Spec == Init /\ [][Next]_vars /\ Fairness

-----------------------------------------------------------------------------
(* Properties. *)

\* The type invariant of the process, its sets and its requests.
TypeOK ==
    /\ configuration \in Configurations \cup {NoConfiguration}
    /\ writes \in 0..MaxWrites
    /\ phase \in {"down", "starting", "serving"}
    /\ exits \in 0..MaxExits
    /\ seen \in Configurations \cup {NoConfiguration}
    /\ queued \in {"no", "yes", "backoff"}
    /\ reconcile \in {Idle} \cup [pc : {"groups", "users"}, configuration : Configurations]
    /\ CapsuleUserGroups \subseteq UNION {c.groups : c \in Configurations}
    /\ CapsuleUsers \subseteq UNION {c.users : c \in Configurations}
    /\ origin \subseteq Configurations \cup {NoConfiguration}
    /\ \A t \in Threads :
          \/ request[t] = Idle
          \/ /\ request[t].pc \in {"groups", "users", "decided"}
             /\ request[t].caller \in Callers
             /\ request[t].inForce \subseteq Configurations \cup {NoConfiguration}

IsCapsuleUser(c, caller) ==
    /\ c # NoConfiguration
    /\ caller.user \in c.users \/ caller.groups \cap c.groups # {}

\* A request is decided by a configuration: a caller that is let through to the
\* modules is a Capsule user of one that was in force while it was decided,
\* although the two sets are read and written one by one; and if only one was,
\* the decision is that configuration's.  Before the first reconciliation of a
\* process that is none, and everybody is foreign.
DecisionJustified ==
    \A t \in Threads : request[t].pc = "decided" =>
        LET r == request[t]
        IN  /\ r.capsule => \E c \in r.inForce : IsCapsuleUser(c, r.caller)
            /\ Cardinality(r.inForce) = 1 =>
                  \A c \in r.inForce : r.capsule <=> IsCapsuleUser(c, r.caller)

\* Once the configuration is left alone the process takes it over for good:
\* through crashes, failed reads, and a deletion in the meantime, upon which
\* Reconcile panics.
ConfigurationApplied ==
    <>[]\/ configuration = NoConfiguration
        \/ /\ phase = "serving"
           /\ CapsuleUserGroups = configuration.groups
           /\ CapsuleUsers = configuration.users

=============================================================================
