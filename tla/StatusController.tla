-------------------------- MODULE StatusController --------------------------
(***************************************************************************)
(* The reconcilers of ProxySetting and GlobalProxySettings                 *)
(* (internal/controllers/proxy_setting.go, global_proxy_settings.go; the   *)
(* two are alike), which copy metadata.generation to                       *)
(* status.observedGeneration.  Leader election is off (main.go), so every  *)
(* replica of the proxy runs them: the replicas write one object's status  *)
(* concurrently, each from its own informer cache and work queue, while    *)
(* users create, change and delete the object.                             *)
(***************************************************************************)
EXTENDS Naturals, Sequences

CONSTANTS
    Replicas,
    NoObject,
    MaxWrites,     \* bound: writes by users
    MaxUid,        \* bound: incarnations of the object
    Steps,         \* retry.DefaultBackoff.Steps
    RelistSpans    \* whether a relist may span a deletion and a new creation

ASSUME BoundsAssumption ==
    /\ MaxWrites \in Nat /\ MaxUid \in Nat
    /\ Steps \in Nat \ {0}
    /\ RelistSpans \in BOOLEAN

VARIABLES
    object,     \* the object in the API server
    revision,   \* the resource version of the last write
    uid,        \* the last object created
    writes,     \* writes by users so far
    events,     \* replica -> watch events its informer has not seen
    cache,      \* replica -> the object in its informer cache
    queued,     \* replica -> whether its work queue holds the object's key
    reconcile   \* replica -> [pc, latest, tries]

vars == <<object, revision, uid, writes, events, cache, queued, reconcile>>

Object == [uid : Nat, generation : Nat, version : Nat,
           observedGeneration : Nat, ready : Nat]

VisibleObject == [generation : Nat, observed : Nat]

ASSUME NoObjectAssumption == NoObject \notin Object \cup VisibleObject

-----------------------------------------------------------------------------
(* The API server. *)

\* A write of the object, or its deletion, is sent to every watch.
Store(obj) ==
    /\ object' = obj
    /\ revision' = revision + 1
    /\ events' = [r \in Replicas |-> Append(events[r], obj)]

UserWrite(obj) ==
    /\ writes < MaxWrites
    /\ writes' = writes + 1
    /\ Store(obj)
    /\ UNCHANGED <<cache, queued, reconcile>>

Create ==
    /\ object = NoObject
    /\ uid < MaxUid
    /\ uid' = uid + 1
    /\ UserWrite([uid |-> uid + 1, generation |-> 1, version |-> revision + 1,
                  observedGeneration |-> 0, ready |-> 0])

UpdateSpec ==
    /\ object # NoObject
    /\ UserWrite([object EXCEPT !.generation = @ + 1, !.version = revision + 1])
    /\ UNCHANGED uid

\* Labels and annotations do not change the generation.
UpdateMetadata ==
    /\ object # NoObject
    /\ UserWrite([object EXCEPT !.version = revision + 1])
    /\ UNCHANGED uid

Delete ==
    /\ object # NoObject
    /\ UserWrite(NoObject)
    /\ UNCHANGED uid

-----------------------------------------------------------------------------
(* A replica's informer and work queue. *)

\* GenerationChangedPredicate: creations and deletions pass, and updates that
\* change the generation.
GenerationChanged(old, new) ==
    \/ old = NoObject
    \/ new = NoObject
    \/ old.generation # new.generation

Handle(r, new) ==
    /\ cache' = [cache EXCEPT ![r] = new]
    /\ queued' = [queued EXCEPT ![r] = @ \/ GenerationChanged(cache[r], new)]
    /\ UNCHANGED <<object, revision, uid, writes, reconcile>>

WatchEvent(r) ==
    /\ events[r] # << >>
    /\ Handle(r, Head(events[r]))
    /\ events' = [events EXCEPT ![r] = Tail(@)]

\* The watch broke: the informer lists the objects anew, and sees what it
\* missed as one change of the object under its key.  With RelistSpans this may
\* be the change from one object to another of the same name.
Relist(r) ==
    /\ events[r] # << >>
    /\ ~RelistSpans /\ cache[r] # NoObject /\ object # NoObject
          => cache[r].uid = object.uid
    /\ Handle(r, object)
    /\ events' = [events EXCEPT ![r] = << >>]

-----------------------------------------------------------------------------
(* Reconcile and updateStatus. *)

Idle == [pc |-> "idle"]
Reading(tries) == [pc |-> "read", tries |-> tries]
Updating(tries, obj) == [pc |-> "update", tries |-> tries, latest |-> obj]

SetReconcile(r, to) == reconcile' = [reconcile EXCEPT ![r] = to]

\* Mutant: the new process does not reconcile what its first list finds.
RestartUnqueued(r) ==
    /\ events' = [events EXCEPT ![r] = << >>]
    /\ cache' = [cache EXCEPT ![r] = object]
    /\ queued' = [queued EXCEPT ![r] = FALSE]
    /\ SetReconcile(r, Idle)
    /\ UNCHANGED <<object, revision, uid, writes>>

\* The process of a replica crashes and is started again: queue, cache and the
\* reconciliation are lost, and the controller set up by the new process lists
\* the objects, each of which is a creation to it.
Restart(r) ==
    /\ events' = [events EXCEPT ![r] = << >>]
    /\ cache' = [cache EXCEPT ![r] = object]
    /\ queued' = [queued EXCEPT ![r] = object # NoObject]
    /\ SetReconcile(r, Idle)
    /\ UNCHANGED <<object, revision, uid, writes>>

\* The key is taken from the queue; an object that is not in the cache is done.
Reconcile(r) ==
    /\ reconcile[r].pc = "idle"
    /\ queued[r]
    /\ queued' = [queued EXCEPT ![r] = FALSE]
    /\ SetReconcile(r, IF cache[r] = NoObject THEN Idle ELSE Reading(0))
    /\ UNCHANGED <<object, revision, uid, writes, events, cache>>

\* The latest object is read from the API server.
ReadLatest(r) ==
    /\ reconcile[r].pc = "read"
    /\ SetReconcile(r, IF object = NoObject THEN Idle
                       ELSE Updating(reconcile[r].tries, object))
    /\ UNCHANGED <<object, revision, uid, writes, events, cache, queued>>

\* Mutant: the condition keeps the generation it was set at before.
ObservedStaleCondition(obj) == [obj EXCEPT !.observedGeneration = obj.generation]

\* The object with its generation as the observed one, also in the condition.
Observed(obj) ==
    [obj EXCEPT !.observedGeneration = obj.generation, !.ready = obj.generation]

\* Mutant: the status is written whatever the object's version is now.
StatusUpdateUnversioned(r) ==
    /\ reconcile[r].pc = "update"
    /\ object # NoObject
    /\ Store([object EXCEPT !.observedGeneration = reconcile[r].latest.generation,
                            !.ready = reconcile[r].latest.generation,
                            !.version = revision + 1])
    /\ SetReconcile(r, Idle)
    /\ UNCHANGED <<uid, writes, cache, queued>>

\* Status().Update succeeds: the object is still the one that was read.  An
\* update that changes nothing is not a write.
StatusUpdate(r) ==
    LET latest == reconcile[r].latest
    IN  /\ reconcile[r].pc = "update"
        /\ object # NoObject
        /\ object.version = latest.version
        /\ IF Observed(latest) = latest
           THEN UNCHANGED <<object, revision, events>>
           ELSE Store([Observed(latest) EXCEPT !.version = revision + 1])
        /\ SetReconcile(r, Idle)
        /\ UNCHANGED <<uid, writes, cache, queued>>

\* Mutant: one attempt more than the backoff has steps.
StatusConflictOneMore(r) ==
    /\ reconcile[r].pc = "update"
    /\ object # NoObject => object.version # reconcile[r].latest.version
    /\ LET exhausted == reconcile[r].tries = Steps
       IN  /\ SetReconcile(r, IF object = NoObject \/ exhausted THEN Idle
                              ELSE Reading(reconcile[r].tries + 1))
           /\ queued' = [queued EXCEPT ![r] = @ \/ (object # NoObject /\ exhausted)]
    /\ UNCHANGED <<object, revision, uid, writes, events, cache>>

\* Status().Update fails: the object is gone, which ends the reconciliation,
\* or it conflicts, which is retried, and after the last step returned as an
\* error, upon which the key is queued again.
StatusConflict(r) ==
    /\ reconcile[r].pc = "update"
    /\ object # NoObject => object.version # reconcile[r].latest.version
    /\ LET exhausted == reconcile[r].tries + 1 = Steps
       IN  /\ SetReconcile(r, IF object = NoObject \/ exhausted THEN Idle
                              ELSE Reading(reconcile[r].tries + 1))
           /\ queued' = [queued EXCEPT ![r] = @ \/ (object # NoObject /\ exhausted)]
    /\ UNCHANGED <<object, revision, uid, writes, events, cache>>

\* Reading the object or updating its status fails for another reason: the
\* error is returned, and the key is queued again.
ReconcileError(r) ==
    /\ reconcile[r].pc \in {"read", "update"}
    /\ SetReconcile(r, Idle)
    /\ queued' = [queued EXCEPT ![r] = TRUE]
    /\ UNCHANGED <<object, revision, uid, writes, events, cache>>

-----------------------------------------------------------------------------
Init ==
    /\ object = NoObject
    /\ revision = 0
    /\ uid = 0
    /\ writes = 0
    /\ events = [r \in Replicas |-> << >>]
    /\ cache = [r \in Replicas |-> NoObject]
    /\ queued = [r \in Replicas |-> FALSE]
    /\ reconcile = [r \in Replicas |-> Idle]

User == Create \/ UpdateSpec \/ UpdateMetadata \/ Delete

Replica(r) ==
    \/ WatchEvent(r) \/ Relist(r)
    \/ Reconcile(r) \/ ReadLatest(r) \/ StatusUpdate(r) \/ StatusConflict(r)
    \/ ReconcileError(r)
    \/ Restart(r)

Next == User \/ \E r \in Replicas : Replica(r)

\* Watches deliver and workers run; a call to the API server that is repeated
\* for ever succeeds in the end, also by a process that is restarted over and
\* over.  Users need not do anything.
Fairness ==
    \A r \in Replicas :
        /\ WF_vars(WatchEvent(r))
        /\ WF_vars(Reconcile(r))
        /\ SF_vars(ReadLatest(r))
        /\ SF_vars(StatusUpdate(r) \/ StatusConflict(r))

Spec == Init /\ [][Next]_vars /\ Fairness

-----------------------------------------------------------------------------
(* Properties. *)

\* The states of a reconciliation.
WellFormed(state) ==
    \/ state = Idle
    \/ \E n \in 0..(Steps - 1) : state = Reading(n)
    \/ /\ DOMAIN state = {"pc", "tries", "latest"}
       /\ state.pc = "update"
       /\ state.tries \in 0..(Steps - 1)
       /\ state.latest \in Object

\* The type invariant of the object and of the replicas.
TypeOK ==
    /\ object \in Object \cup {NoObject}
    /\ revision \in Nat
    /\ uid \in 0..MaxUid
    /\ writes \in 0..MaxWrites
    /\ events \in [Replicas -> Seq(Object \cup {NoObject})]
    /\ cache \in [Replicas -> Object \cup {NoObject}]
    /\ queued \in [Replicas -> BOOLEAN]
    /\ DOMAIN reconcile = Replicas
    /\ \A r \in Replicas : WellFormed(reconcile[r])

\* status.observedGeneration never runs ahead of metadata.generation, and the
\* Ready condition was observed at the same generation (updateStatus).
ObservedIsPast ==
    object # NoObject =>
        /\ object.observedGeneration <= object.generation
        /\ object.ready = object.observedGeneration

\* A replica that read an older object never takes observedGeneration back,
\* whatever the other replicas wrote since: conflicting updates are rejected
\* and retried from a new read.
ObservedNeverDecreases ==
    [][object # NoObject /\ object' # NoObject /\ object'.uid = object.uid
         => object'.observedGeneration >= object.observedGeneration]_vars

\* What a replica is about to write is based on the current object if the
\* versions agree.
LatestIsCurrent ==
    /\ object # NoObject => object.version <= revision
    /\ \A r \in Replicas : reconcile[r].pc = "update" =>
          LET latest == reconcile[r].latest
          IN  /\ latest.version <= revision
              /\ object # NoObject /\ object.version = latest.version => object = latest

\* "keeps status.observedGeneration in sync with metadata.generation": the
\* status catches up with the spec once the users leave the object alone.
CatchesUp ==
    <>[](object = NoObject \/ object.observedGeneration = object.generation)

\* What a user sees of the object, without the versions and the condition.
Visible(obj) ==
    IF obj = NoObject THEN NoObject
    ELSE [generation |-> obj.generation, observed |-> obj.observedGeneration]

Abstract == INSTANCE ObservedGeneration WITH None <- NoObject, resource <- Visible(object)

\* The reconcilers implement what they promise: every status that becomes
\* visible is the generation of the spec next to it, whichever replicas race,
\* crash or give up, and the status comes in sync again and again
\* (ObservedGeneration).
ImplementsObservedGeneration == Abstract!Spec

\* The safety half of ImplementsObservedGeneration.
ImplementsSafe == Abstract!Safe

=============================================================================
