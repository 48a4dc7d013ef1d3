----------------------- MODULE MCGoogleRewardedService -----------------------
(* Instances of GoogleRewardedService for TLC. *)
EXTENDS GoogleRewardedService, TLC

CONSTANTS g1, g2, w1, w2, w3, q1, q2

Symmetry == Permutations(Watch) \union Permutations(Slot)

=============================================================================
