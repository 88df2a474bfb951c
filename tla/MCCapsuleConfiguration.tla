----------------------- MODULE MCCapsuleConfiguration -----------------------
(***************************************************************************)
(* A caller that is a Capsule user by its group under one configuration,   *)
(* by its name under another, and not at all under a third.                *)
(***************************************************************************)
EXTENDS CapsuleConfiguration

CONSTANTS t1

MCThreads == {t1}
MCCallers == {[user |-> "alice", groups |-> {"devs", "ops"}]}
MCConfigurations == {[groups |-> {"devs"}, users |-> {}],
                     [groups |-> {}, users |-> {"alice"}],
                     [groups |-> {"qa"}, users |-> {"bob"}]}

=============================================================================
