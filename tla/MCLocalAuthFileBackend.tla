----------------------- MODULE MCLocalAuthFileBackend -----------------------
(***************************************************************************)
(* Instances of LocalAuthFileBackend for TLC.  OneProcess is the supported *)
(* deployment (one persistent Node instance); OwnProcess puts every call   *)
(* in a process of its own, as when a second Node process shares the       *)
(* store.                                                                  *)
(***************************************************************************)
EXTENDS LocalAuthFileBackend, TLC

CONSTANTS c1, c2, p1, p2

OneProcess == [c \in Call |-> p1]
OwnProcess == [c \in Call |-> IF c = c1 THEN p1 ELSE p2]
TxSymmetry == Permutations(Tx)

=============================================================================
