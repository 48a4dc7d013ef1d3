-------------------------- MODULE MCWorkspaceMembers --------------------------
(* Instances of WorkspaceMembers for TLC. *)
EXTENDS WorkspaceMembers, TLC

CONSTANTS owner, guest, q1, q2

SlotSymmetry == Permutations(Slot)

=============================================================================
