------------------------- MODULE MCWorkspaceRealtime -------------------------
(* Instances of WorkspaceRealtime for TLC. *)
EXTENDS WorkspaceRealtime, TLC

CONSTANTS owner, guest, t1, q1, q2

GuestTab == [t \in Tab |-> guest]

=============================================================================
