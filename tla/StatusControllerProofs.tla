----------------------- MODULE StatusControllerProofs -----------------------
(***************************************************************************)
(* Proofs about the status reconcilers, for any number of replicas and of  *)
(* writes: the status never runs ahead of the spec, and never goes back.   *)
(***************************************************************************)
EXTENDS StatusController, TLAPS

\* The inductive invariant: what a replica holds is tied to the object by its
\* version (LatestIsCurrent), which makes the two claims inductive.
IndInv == TypeOK /\ LatestIsCurrent /\ ObservedIsPast

-----------------------------------------------------------------------------
(* Objects and their updates. *)

\* UpdateSpec and UpdateMetadata: only the generation and the version change.
LEMMA SpecUpdates ==
    ASSUME NEW o \in Object, NEW v \in Nat, NEW new,
           new = [o EXCEPT !.generation = @ + 1, !.version = v]
    PROVE  /\ new \in Object
           /\ new.version = v /\ new.generation = o.generation + 1
           /\ new.observedGeneration = o.observedGeneration /\ new.ready = o.ready
<1> DEFINE mid == [o EXCEPT !.generation = @ + 1]
<1>1. o.generation + 1 \in Nat
    BY DEF Object
<1>2. /\ mid \in Object /\ mid.generation = o.generation + 1
      /\ mid.observedGeneration = o.observedGeneration /\ mid.ready = o.ready
    BY <1>1 DEF Object
<1>3. new = [mid EXCEPT !.version = v]
    BY DEF Object
<1> HIDE DEF mid
<1>4. QED
    BY <1>2, <1>3 DEF Object

\* The same of an update of labels or annotations.
LEMMA MetadataUpdates ==
    ASSUME NEW o \in Object, NEW v \in Nat, NEW new, new = [o EXCEPT !.version = v]
    PROVE  /\ new \in Object
           /\ new.version = v /\ new.generation = o.generation
           /\ new.observedGeneration = o.observedGeneration /\ new.ready = o.ready
    BY DEF Object

\* updateStatus: the generation is copied to both observed generations.
LEMMA StatusUpdates ==
    ASSUME NEW o \in Object, NEW v \in Nat, NEW new,
           new = [Observed(o) EXCEPT !.version = v]
    PROVE  /\ new \in Object
           /\ new.version = v /\ new.generation = o.generation
           /\ new.observedGeneration = o.generation /\ new.ready = o.generation
<1>1. /\ Observed(o) \in Object
      /\ Observed(o).generation = o.generation
      /\ Observed(o).observedGeneration = o.generation
      /\ Observed(o).ready = o.generation
    BY DEF Object, Observed
<1>2. QED
    BY <1>1, MetadataUpdates

\* The three states of a reconciliation are told apart by pc.
LEMMA States ==
    ASSUME NEW s, WellFormed(s)
    PROVE  /\ s.pc \in {"idle", "read", "update"}
           /\ s.pc = "read" => s.tries \in 0..(Steps - 1)
           /\ s.pc = "update" => s.tries \in 0..(Steps - 1) /\ s.latest \in Object
    BY DEF WellFormed, Idle, Reading

\* The three states of a reconciliation are well formed.
LEMMA StatesFormed ==
    /\ WellFormed(Idle) /\ Idle.pc = "idle"
    /\ \A n \in 0..(Steps - 1) : WellFormed(Reading(n)) /\ Reading(n).pc = "read"
    /\ \A n \in 0..(Steps - 1), o \in Object :
          WellFormed(Updating(n, o)) /\ Updating(n, o).latest = o
    BY DEF WellFormed, Idle, Reading, Updating

-----------------------------------------------------------------------------
(* Steps. *)

\* The initial states satisfy the inductive invariant.
LEMMA InitIndInv == Init => IndInv
    BY StatesFormed, BoundsAssumption
    DEF Init, IndInv, TypeOK, LatestIsCurrent, ObservedIsPast

\* What a write of the object preserves, given a version of its own.
LEMMA StoreStep ==
    ASSUME IndInv, NEW obj \in Object \cup {NoObject}, Store(obj),
           obj # NoObject => /\ obj.version = revision + 1
                             /\ obj.observedGeneration <= obj.generation
                             /\ obj.ready = obj.observedGeneration
    PROVE  /\ object' \in Object \cup {NoObject}
           /\ revision' \in Nat
           /\ events' \in [Replicas -> Seq(Object \cup {NoObject})]
           /\ ObservedIsPast'
           /\ object' # NoObject => object'.version <= revision'
           /\ \A r \in Replicas : reconcile[r].pc = "update" =>
                 /\ reconcile[r].latest.version <= revision'
                 /\ object' # NoObject => object'.version # reconcile[r].latest.version
<1>1. \A r \in Replicas : reconcile[r].pc = "update" =>
          reconcile[r].latest \in Object /\ reconcile[r].latest.version <= revision
    BY States DEF IndInv, TypeOK, LatestIsCurrent
<1>2. \A r \in Replicas : reconcile[r].pc = "update" =>
          reconcile[r].latest.version \in Nat /\ reconcile[r].latest.version <= revision
    BY <1>1 DEF Object
<1>3. object' = obj /\ revision' = revision + 1 /\ revision \in Nat
    BY DEF Store, IndInv, TypeOK
<1>4. events' \in [Replicas -> Seq(Object \cup {NoObject})]
    BY DEF Store, IndInv, TypeOK
<1>5. \A r \in Replicas : reconcile[r].pc = "update" =>
          /\ reconcile[r].latest.version <= revision'
          /\ object' # NoObject => object'.version # reconcile[r].latest.version
    BY <1>2, <1>3
<1>6. object' # NoObject => object'.version <= revision'
    BY <1>3
<1>7. ObservedIsPast'
    BY <1>3 DEF ObservedIsPast
<1>8. QED
    BY <1>3, <1>4, <1>5, <1>6, <1>7

\* A user's write takes a version that no replica has read, and so preserves
\* the inductive invariant.
LEMMA UserStep ==
    ASSUME IndInv, User
    PROVE  IndInv' /\ (object # NoObject /\ object' # NoObject =>
                          object'.observedGeneration = object.observedGeneration)
<1>1. PICK obj \in Object \cup {NoObject} :
          /\ UserWrite(obj)
          /\ obj # NoObject => /\ obj.version = revision + 1
                               /\ obj.observedGeneration <= obj.generation
                               /\ obj.ready = obj.observedGeneration
                               /\ object # NoObject =>
                                    obj.observedGeneration = object.observedGeneration
          /\ uid' \in 0..MaxUid
    <2>1. revision + 1 \in Nat /\ uid \in 0..MaxUid /\ object \in Object \cup {NoObject}
        BY DEF IndInv, TypeOK
    <2>2. CASE Create
        <3> DEFINE new == [uid |-> uid + 1, generation |-> 1, version |-> revision + 1,
                           observedGeneration |-> 0, ready |-> 0]
        <3>1. new \in Object /\ UserWrite(new) /\ object = NoObject /\ uid' \in 0..MaxUid
            BY <2>1, <2>2, BoundsAssumption DEF Create, Object
        <3>2. QED  BY <3>1
    <2>3. CASE UpdateSpec
        <3> DEFINE new == [object EXCEPT !.generation = @ + 1, !.version = revision + 1]
        <3>1. object \in Object /\ UserWrite(new) /\ uid' = uid
            BY <2>1, <2>3 DEF UpdateSpec
        <3>2. /\ new \in Object
              /\ new.version = revision + 1 /\ new.generation = object.generation + 1
              /\ new.observedGeneration = object.observedGeneration /\ new.ready = object.ready
            BY <2>1, <3>1, SpecUpdates
        <3>3. object.generation \in Nat /\ object.observedGeneration \in Nat
            BY <3>1 DEF Object
        <3>4. object.observedGeneration <= object.generation
              /\ object.ready = object.observedGeneration
            BY <3>1, NoObjectAssumption DEF IndInv, ObservedIsPast
        <3> HIDE DEF new
        <3>5. QED
            BY <2>1, <3>1, <3>2, <3>3, <3>4
    <2>4. CASE UpdateMetadata
        <3> DEFINE new == [object EXCEPT !.version = revision + 1]
        <3>1. object \in Object /\ UserWrite(new) /\ uid' = uid
            BY <2>1, <2>4 DEF UpdateMetadata
        <3>2. /\ new \in Object
              /\ new.version = revision + 1 /\ new.generation = object.generation
              /\ new.observedGeneration = object.observedGeneration /\ new.ready = object.ready
            BY <2>1, <3>1, MetadataUpdates
        <3>3. object.generation \in Nat /\ object.observedGeneration \in Nat
            BY <3>1 DEF Object
        <3>4. object.observedGeneration <= object.generation
              /\ object.ready = object.observedGeneration
            BY <3>1, NoObjectAssumption DEF IndInv, ObservedIsPast
        <3> HIDE DEF new
        <3>5. QED
            BY <2>1, <3>1, <3>2, <3>3, <3>4
    <2>5. CASE Delete
        BY <2>1, <2>5 DEF Delete
    <2>6. QED
        BY <2>2, <2>3, <2>4, <2>5 DEF User
<1>2. Store(obj) /\ UNCHANGED <<cache, queued, reconcile>> /\ writes' \in 0..MaxWrites
    BY <1>1, BoundsAssumption DEF UserWrite, IndInv, TypeOK
<1>3. /\ object' \in Object \cup {NoObject}
      /\ revision' \in Nat
      /\ events' \in [Replicas -> Seq(Object \cup {NoObject})]
      /\ ObservedIsPast'
      /\ object' # NoObject => object'.version <= revision'
      /\ \A r \in Replicas : reconcile[r].pc = "update" =>
            /\ reconcile[r].latest.version <= revision'
            /\ object' # NoObject => object'.version # reconcile[r].latest.version
    BY <1>1, <1>2, StoreStep
<1>4. TypeOK'
    BY <1>1, <1>2, <1>3 DEF IndInv, TypeOK
<1>5. LatestIsCurrent'
    BY <1>2, <1>3 DEF LatestIsCurrent
<1>6. QED
    BY <1>1, <1>2, <1>3, <1>4, <1>5 DEF IndInv, Store

\* The informer's steps touch neither the object nor the reconciliations.
LEMMA InformerStep ==
    ASSUME IndInv, NEW r \in Replicas, WatchEvent(r) \/ Relist(r)
    PROVE  IndInv' /\ object' = object
<1>1. PICK new \in Object \cup {NoObject} : Handle(r, new)
    <2>1. CASE WatchEvent(r)
        <3>1. Head(events[r]) \in Object \cup {NoObject}
            BY <2>1 DEF WatchEvent, IndInv, TypeOK
        <3>2. QED  BY <2>1, <3>1 DEF WatchEvent
    <2>2. CASE Relist(r)
        BY <2>2 DEF Relist, IndInv, TypeOK
    <2>3. QED  BY <2>1, <2>2
<1>2. events' \in [Replicas -> Seq(Object \cup {NoObject})]
    <2>1. events \in [Replicas -> Seq(Object \cup {NoObject})]
        BY DEF IndInv, TypeOK
    <2>2. CASE WatchEvent(r)
        <3>1. Tail(events[r]) \in Seq(Object \cup {NoObject})
            BY <2>1, <2>2 DEF WatchEvent
        <3>2. QED  BY <2>1, <2>2, <3>1 DEF WatchEvent
    <2>3. CASE Relist(r)
        <3>1. << >> \in Seq(Object \cup {NoObject})
            OBVIOUS
        <3>2. QED  BY <2>1, <2>3, <3>1 DEF Relist
    <2>4. QED  BY <2>2, <2>3
<1>3. /\ cache' \in [Replicas -> Object \cup {NoObject}]
      /\ UNCHANGED <<object, revision, uid, writes, reconcile>>
    BY <1>1 DEF Handle, IndInv, TypeOK
<1>4. queued' \in [Replicas -> BOOLEAN]
    <2>1. queued' = [queued EXCEPT ![r] = queued[r] \/ GenerationChanged(cache[r], new)]
        BY <1>1 DEF Handle
    <2>2. (queued[r] \/ GenerationChanged(cache[r], new)) \in BOOLEAN
        BY DEF GenerationChanged
    <2>3. QED  BY <2>1, <2>2 DEF IndInv, TypeOK
<1>5. QED
    BY <1>2, <1>3, <1>4 DEF IndInv, TypeOK, LatestIsCurrent, ObservedIsPast

\* A step that leaves the object alone and moves one reconciliation to a
\* state that holds nothing, or the current object.
LEMMA QuietReconcileStep ==
    ASSUME IndInv, NEW r \in Replicas, NEW s, WellFormed(s), SetReconcile(r, s),
           s.pc = "update" => object # NoObject /\ s.latest = object,
           queued' \in [Replicas -> BOOLEAN],
           UNCHANGED <<object, revision, uid, writes, events, cache>>
    PROVE  IndInv'
<1>1. reconcile' = [reconcile EXCEPT ![r] = s] /\ DOMAIN reconcile = Replicas
    BY DEF SetReconcile, IndInv, TypeOK
<1>2. /\ DOMAIN reconcile' = Replicas
      /\ reconcile'[r] = s
      /\ \A q \in Replicas : q # r => reconcile'[q] = reconcile[q]
    BY <1>1
<1>3. TypeOK'
    BY <1>2 DEF IndInv, TypeOK
<1>4. LatestIsCurrent'
    BY <1>2 DEF IndInv, LatestIsCurrent
<1>5. QED
    BY <1>3, <1>4 DEF IndInv, ObservedIsPast

\* A replica that reads the object preserves the inductive invariant.
LEMMA ReadStep ==
    ASSUME IndInv, NEW r \in Replicas,
           Reconcile(r) \/ ReadLatest(r) \/ StatusConflict(r) \/ ReconcileError(r)
    PROVE  IndInv' /\ object' = object
<1>0. /\ WellFormed(reconcile[r]) /\ queued \in [Replicas -> BOOLEAN]
      /\ object \in Object \cup {NoObject}
    BY DEF IndInv, TypeOK
<1>1. CASE Reconcile(r)
    <2>1. /\ WellFormed(Idle) /\ Idle.pc # "update"
          /\ WellFormed(Reading(0)) /\ Reading(0).pc # "update"
        BY StatesFormed, BoundsAssumption
    <2>2. queued' \in [Replicas -> BOOLEAN]
        BY <1>0, <1>1 DEF Reconcile
    <2>3. QED
        BY <1>1, <2>1, <2>2, QuietReconcileStep DEF Reconcile
<1>2. CASE ReadLatest(r)
    <2>1. reconcile[r].tries \in 0..(Steps - 1)
        BY <1>0, <1>2, States DEF ReadLatest
    <2>2. object # NoObject =>
              /\ WellFormed(Updating(reconcile[r].tries, object))
              /\ Updating(reconcile[r].tries, object).latest = object
        BY <1>0, <2>1, StatesFormed
    <2>3. WellFormed(Idle) /\ Idle.pc # "update"
        BY StatesFormed
    <2>4. queued' = queued /\ UNCHANGED <<object, revision, uid, writes, events, cache>>
        BY <1>2 DEF ReadLatest
    <2>5. QED
        BY <1>0, <1>2, <2>2, <2>3, <2>4, QuietReconcileStep DEF ReadLatest
<1>3. CASE StatusConflict(r)
    <2>1. reconcile[r].tries \in 0..(Steps - 1)
        BY <1>0, <1>3, States DEF StatusConflict
    <2>2. reconcile[r].tries + 1 # Steps =>
              /\ WellFormed(Reading(reconcile[r].tries + 1))
              /\ Reading(reconcile[r].tries + 1).pc # "update"
        BY <2>1, StatesFormed, BoundsAssumption
    <2>3. WellFormed(Idle) /\ Idle.pc # "update"
        BY StatesFormed
    <2>4. queued' \in [Replicas -> BOOLEAN]
        BY <1>0, <1>3 DEF StatusConflict
    <2>5. QED
        BY <1>3, <2>2, <2>3, <2>4, QuietReconcileStep DEF StatusConflict
<1>4. CASE ReconcileError(r)
    <2>1. WellFormed(Idle) /\ Idle.pc # "update"
        BY StatesFormed
    <2>2. queued' \in [Replicas -> BOOLEAN]
        BY <1>0, <1>4 DEF ReconcileError
    <2>3. QED
        BY <1>4, <2>1, <2>2, QuietReconcileStep DEF ReconcileError
<1>5. QED
    BY <1>1, <1>2, <1>3, <1>4

\* A crash loses what a replica holds and leaves the object alone.
LEMMA RestartStep ==
    ASSUME IndInv, NEW r \in Replicas, Restart(r)
    PROVE  IndInv' /\ object' = object
<1>1. /\ WellFormed(Idle) /\ Idle.pc # "update"
      /\ object \in Object \cup {NoObject}
    BY StatesFormed DEF IndInv, TypeOK
<1>2. /\ reconcile' = [reconcile EXCEPT ![r] = Idle] /\ DOMAIN reconcile = Replicas
      /\ UNCHANGED <<object, revision, uid, writes>>
    BY DEF Restart, SetReconcile, IndInv, TypeOK
<1>3. /\ DOMAIN reconcile' = Replicas
      /\ reconcile'[r] = Idle
      /\ \A q \in Replicas : q # r => reconcile'[q] = reconcile[q]
    BY <1>2
<1>4. events' \in [Replicas -> Seq(Object \cup {NoObject})]
    <2>1. << >> \in Seq(Object \cup {NoObject})
        OBVIOUS
    <2>2. QED  BY <2>1 DEF Restart, IndInv, TypeOK
<1>5. cache' \in [Replicas -> Object \cup {NoObject}] /\ queued' \in [Replicas -> BOOLEAN]
    BY <1>1 DEF Restart, IndInv, TypeOK
<1>6. TypeOK'
    BY <1>1, <1>2, <1>3, <1>4, <1>5 DEF IndInv, TypeOK
<1>7. LatestIsCurrent'
    BY <1>1, <1>2, <1>3 DEF IndInv, LatestIsCurrent
<1>8. QED
    BY <1>2, <1>6, <1>7 DEF IndInv, ObservedIsPast

\* A status update that the API server accepts preserves the inductive
\* invariant: it writes what was read of the object that is still there.
LEMMA StatusUpdateStep ==
    ASSUME IndInv, NEW r \in Replicas, StatusUpdate(r)
    PROVE  /\ IndInv'
           /\ object # NoObject /\ object' # NoObject
           /\ object'.observedGeneration >= object.observedGeneration
           /\ object' # object => /\ object'.generation = object.generation
                                  /\ object'.observedGeneration = object.generation
<1> DEFINE latest == reconcile[r].latest
<1>1. object \in Object /\ object = latest /\ object # NoObject
    BY DEF StatusUpdate, IndInv, TypeOK, LatestIsCurrent
<1>2. object.generation \in Nat /\ object.observedGeneration \in Nat
      /\ object.observedGeneration <= object.generation
    BY <1>1 DEF Object, IndInv, ObservedIsPast
<1>3. SetReconcile(r, Idle) /\ WellFormed(Idle) /\ Idle.pc # "update"
    BY StatesFormed DEF StatusUpdate
<1>4. CASE Observed(latest) = latest
    <2>1. UNCHANGED <<object, revision, events, uid, writes, cache, queued>>
        BY <1>4 DEF StatusUpdate
    <2>2. queued' \in [Replicas -> BOOLEAN]
        BY <2>1 DEF IndInv, TypeOK
    <2>3. IndInv'
        BY <1>3, <2>1, <2>2, QuietReconcileStep
    <2>4. QED
        BY <1>1, <1>2, <2>1, <2>3
<1>5. CASE Observed(latest) # latest
    <2> DEFINE new == [Observed(object) EXCEPT !.version = revision + 1]
    <2>1. Store(new) /\ UNCHANGED <<uid, writes, cache, queued>>
        BY <1>1, <1>5 DEF StatusUpdate
    <2>2. revision + 1 \in Nat
        BY DEF IndInv, TypeOK
    <2>3. /\ new \in Object
          /\ new.version = revision + 1 /\ new.generation = object.generation
          /\ new.observedGeneration = object.generation /\ new.ready = object.generation
        <3>1. new = [Observed(object) EXCEPT !.version = revision + 1]
            OBVIOUS
        <3> HIDE DEF new
        <3>2. object \in Object
            BY <1>1
        <3>3. QED
            BY <3>1, <3>2, <2>2, StatusUpdates, ZenonT(60)
    <2> HIDE DEF new
    <2>6. /\ object' \in Object \cup {NoObject}
          /\ revision' \in Nat
          /\ events' \in [Replicas -> Seq(Object \cup {NoObject})]
          /\ ObservedIsPast'
          /\ object' # NoObject => object'.version <= revision'
          /\ \A q \in Replicas : reconcile[q].pc = "update" =>
                /\ reconcile[q].latest.version <= revision'
                /\ object' # NoObject => object'.version # reconcile[q].latest.version
        BY <1>2, <2>1, <2>3, StoreStep
    <2>7. /\ DOMAIN reconcile' = Replicas
          /\ reconcile'[r] = Idle
          /\ \A q \in Replicas : q # r => reconcile'[q] = reconcile[q]
        BY <1>3 DEF SetReconcile, IndInv, TypeOK
    <2>8. TypeOK'
        BY <1>3, <2>1, <2>6, <2>7 DEF IndInv, TypeOK
    <2>9. LatestIsCurrent'
        BY <1>3, <2>6, <2>7 DEF LatestIsCurrent
    <2>10. object' = new /\ new # NoObject
        BY <2>1, <2>3, NoObjectAssumption DEF Store
    <2>11. QED
        BY <1>1, <1>2, <2>3, <2>6, <2>8, <2>9, <2>10 DEF IndInv
<1>6. QED
    BY <1>4, <1>5

\* What a step may never do to the status, as a relation on states.
StatusForward ==
    object # NoObject /\ object' # NoObject /\ object'.uid = object.uid
        => object'.observedGeneration >= object.observedGeneration

\* Every step of the users and of the replicas preserves the inductive
\* invariant.
LEMMA StepIndInv ==
    ASSUME IndInv, [Next]_vars
    PROVE  IndInv' /\ StatusForward
<1>0. object # NoObject => object.observedGeneration \in Nat
    BY DEF IndInv, TypeOK, Object
<1>1. CASE User
    BY <1>0, <1>1, UserStep DEF StatusForward
<1>2. ASSUME NEW r \in Replicas, Replica(r)
      PROVE  IndInv' /\ StatusForward
    <2>1. CASE WatchEvent(r) \/ Relist(r)
        BY <1>0, <2>1, InformerStep DEF StatusForward
    <2>2. CASE Reconcile(r) \/ ReadLatest(r) \/ StatusConflict(r) \/ ReconcileError(r)
        BY <1>0, <2>2, ReadStep DEF StatusForward
    <2>3. CASE StatusUpdate(r)
        BY <2>3, StatusUpdateStep DEF StatusForward
    <2>4. CASE Restart(r)
        BY <1>0, <2>4, RestartStep DEF StatusForward
    <2>5. QED
        BY <1>2, <2>1, <2>2, <2>3, <2>4 DEF Replica
<1>3. CASE UNCHANGED vars
    BY <1>0, <1>3 DEF StatusForward, IndInv, TypeOK, LatestIsCurrent, ObservedIsPast, vars
<1>4. QED
    BY <1>1, <1>2, <1>3 DEF Next

\* The inductive invariant holds in every state of every behaviour.
LEMMA Invariance == Spec => []IndInv
<1>1. IndInv /\ [Next]_vars => IndInv'
    BY StepIndInv
<1>2. QED
    BY <1>1, InitIndInv, PTL DEF Spec

\* The state of the object, of the caches and of the replicas is well-formed in
\* every interleaving of users, informers, reconcilers and crashes.
THEOREM TypeCorrect == Spec => []TypeOK
<1>1. IndInv => TypeOK
    BY DEF IndInv
<1>2. QED
    BY <1>1, Invariance, PTL

\* status.observedGeneration never exceeds metadata.generation, and the Ready
\* condition agrees with it, whichever replicas reconcile at the same time.
THEOREM ObservedPast == Spec => []ObservedIsPast
<1>1. IndInv => ObservedIsPast
    BY DEF IndInv
<1>2. QED
    BY <1>1, Invariance, PTL

\* No replica takes the observed generation of an object back: an update based
\* on an older read is rejected by its resource version.
THEOREM ObservedForward == Spec => ObservedNeverDecreases
<1>1. IndInv /\ [Next]_vars => [StatusForward]_vars
    BY StepIndInv
<1>2. QED
    BY <1>1, Invariance, PTL DEF Spec, ObservedNeverDecreases, StatusForward

-----------------------------------------------------------------------------
(* The refinement. *)

\* An object that is there is visible as something.
LEMMA VisibleIsSome ==
    ASSUME NEW o \in Object \cup {NoObject}, o # NoObject
    PROVE  Visible(o) # NoObject
<1>1. Visible(o) \in VisibleObject
    BY DEF Visible, VisibleObject, Object
<1>2. QED
    BY <1>1, NoObjectAssumption

\* A user's write is a step of the abstract machine, or changes nothing that is
\* visible.
LEMMA UserRefines ==
    ASSUME IndInv, User
    PROVE  Abstract!Next \/ Visible(object)' = Visible(object)
<1>1. revision + 1 \in Nat /\ object \in Object \cup {NoObject}
    BY DEF IndInv, TypeOK
<1>2. CASE Create
    <2> DEFINE new == [uid |-> uid + 1, generation |-> 1, version |-> revision + 1,
                       observedGeneration |-> 0, ready |-> 0]
    <2>1. object = NoObject /\ object' = new
        BY <1>2 DEF Create, UserWrite, Store
    <2>2. new \in Object /\ new.generation = 1 /\ new.observedGeneration = 0
        BY <1>1, <1>2 DEF Object, IndInv, TypeOK, Create
    <2>3. Visible(object) = NoObject
        BY <2>1 DEF Visible
    <2>4. Visible(object)' = [generation |-> 1, observed |-> 0]
        BY <2>1, <2>2, NoObjectAssumption DEF Visible
    <2>5. QED
        BY <2>3, <2>4 DEF Abstract!Next, Abstract!Create
<1>3. CASE UpdateSpec
    <2> DEFINE new == [object EXCEPT !.generation = @ + 1, !.version = revision + 1]
    <2>1. object \in Object /\ object # NoObject /\ object' = new
        BY <1>1, <1>3 DEF UpdateSpec, UserWrite, Store
    <2>2. /\ new \in Object /\ new.generation = object.generation + 1
          /\ new.observedGeneration = object.observedGeneration
        <3>1. new = [object EXCEPT !.generation = @ + 1, !.version = revision + 1]
            OBVIOUS
        <3> HIDE DEF new
        <3>2. object \in Object /\ revision + 1 \in Nat
            BY <1>1, <2>1
        <3>3. QED
            BY <3>1, <3>2, SpecUpdates, Zenon
    <2> HIDE DEF new
    <2>3. Visible(object) = [generation |-> object.generation,
                             observed |-> object.observedGeneration]
        BY <2>1 DEF Visible
    <2>4. Visible(object)' = [generation |-> object.generation + 1,
                              observed |-> object.observedGeneration]
        BY <2>1, <2>2, NoObjectAssumption DEF Visible
    <2>5. Visible(object) # NoObject
        BY <2>1, <2>3, NoObjectAssumption, VisibleIsSome
    <2>6. Visible(object)' = [Visible(object) EXCEPT !.generation = @ + 1]
        BY <2>3, <2>4
    <2>7. QED
        BY <2>5, <2>6 DEF Abstract!Next, Abstract!UpdateSpec
<1>4. CASE UpdateMetadata
    <2> DEFINE new == [object EXCEPT !.version = revision + 1]
    <2>1. object \in Object /\ object # NoObject /\ object' = new
        BY <1>1, <1>4 DEF UpdateMetadata, UserWrite, Store
    <2>2. /\ new \in Object /\ new.generation = object.generation
          /\ new.observedGeneration = object.observedGeneration
        BY <1>1, <2>1, MetadataUpdates
    <2> HIDE DEF new
    <2>3. QED
        BY <2>1, <2>2, NoObjectAssumption DEF Visible
<1>5. CASE Delete
    <2>1. object \in Object /\ object # NoObject /\ object' = NoObject
        BY <1>1, <1>5 DEF Delete, UserWrite, Store
    <2>2. Visible(object) # NoObject /\ Visible(object)' = NoObject
        BY <2>1, VisibleIsSome DEF Visible
    <2>3. QED
        BY <2>2 DEF Abstract!Next, Abstract!Delete
<1>6. QED
    BY <1>2, <1>3, <1>4, <1>5 DEF User

\* A status update is an Observe of the abstract machine, or changes nothing
\* that is visible.
LEMMA StatusUpdateRefines ==
    ASSUME IndInv, NEW r \in Replicas, StatusUpdate(r)
    PROVE  Abstract!Next \/ Visible(object)' = Visible(object)
<1>1. CASE object' = object
    BY <1>1 DEF Visible
<1>2. CASE object' # object
    <2>1. /\ object # NoObject /\ object' # NoObject
          /\ object'.generation = object.generation
          /\ object'.observedGeneration = object.generation
        BY <1>2, StatusUpdateStep
    <2>2. Visible(object) = [generation |-> object.generation,
                             observed |-> object.observedGeneration]
        BY <2>1 DEF Visible
    <2>3. Visible(object)' = [generation |-> object.generation,
                              observed |-> object.generation]
        BY <2>1 DEF Visible
    <2>4. Visible(object) # NoObject
        BY <2>1, VisibleIsSome DEF IndInv, TypeOK
    <2>5. Visible(object)' = [Visible(object) EXCEPT !.observed = Visible(object).generation]
        BY <2>2, <2>3
    <2>6. QED
        BY <2>4, <2>5 DEF Abstract!Next, Abstract!Observe
<1>3. QED
    BY <1>1, <1>2

\* Every step of the detailed machine is one of the abstract one or a stutter.
LEMMA StepRefines ==
    ASSUME IndInv, [Next]_vars
    PROVE  [Abstract!Next]_(Visible(object))
<1>1. CASE User
    BY <1>1, UserRefines
<1>2. ASSUME NEW r \in Replicas, Replica(r)
      PROVE  Abstract!Next \/ Visible(object)' = Visible(object)
    <2>1. CASE StatusUpdate(r)
        BY <2>1, StatusUpdateRefines
    <2>2. CASE ~StatusUpdate(r)
        <3>1. object' = object
            BY <1>2, <2>2, InformerStep, ReadStep, RestartStep DEF Replica
        <3>2. QED
            BY <3>1 DEF Visible
    <2>3. QED
        BY <2>1, <2>2
<1>3. CASE UNCHANGED vars
    BY <1>3 DEF vars, Visible
<1>4. QED
    BY <1>1, <1>2, <1>3 DEF Next

\* The reconcilers implement the safety half of ObservedGeneration, for any
\* number of replicas, writes, crashes and retries: each change of the status
\* that becomes visible copies the generation of the spec it stands next to.
THEOREM Refinement == Spec => ImplementsSafe
<1>1. Init => Abstract!Init
    BY DEF Init, Abstract!Init, Visible
<1>2. IndInv /\ [Next]_vars => [Abstract!Next]_(Visible(object))
    BY StepRefines
<1>3. QED
    BY <1>1, <1>2, Invariance, PTL DEF Spec, ImplementsSafe, Abstract!Safe

=============================================================================
