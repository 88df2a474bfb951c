------------------------- MODULE ObservedGeneration -------------------------
(***************************************************************************)
(* What the reconcilers of ProxySetting and GlobalProxySettings promise to *)
(* the users of these objects, as one machine with one step per change     *)
(* that a user can see: "keeps status.observedGeneration in sync with      *)
(* metadata.generation".  Replicas, caches, queues, conflicts and retries  *)
(* have no place here; StatusController is shown to implement this.        *)
(***************************************************************************)
EXTENDS Naturals

CONSTANT None

VARIABLE resource    \* None, or [generation, observed]

Create ==
    /\ resource = None
    /\ resource' = [generation |-> 1, observed |-> 0]

UpdateSpec ==
    /\ resource # None
    /\ resource' = [resource EXCEPT !.generation = @ + 1]

Delete ==
    /\ resource # None
    /\ resource' = None

\* The status takes the generation of the very spec it is written next to.
Observe ==
    /\ resource # None
    /\ resource' = [resource EXCEPT !.observed = resource.generation]

InSync == resource = None \/ resource.observed = resource.generation

Init == resource = None

Next == Create \/ UpdateSpec \/ Delete \/ Observe

\* The safety half: each visible change is one of the four.
Safe == Init /\ [][Next]_resource

\* Weak fairness of Observe: it changes the resource exactly when the two are
\* not in sync, and brings them in sync.
Spec == Safe /\ []<>InSync

=============================================================================
