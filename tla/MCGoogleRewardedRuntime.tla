----------------------- MODULE MCGoogleRewardedRuntime -----------------------
(* Instances of GoogleRewardedRuntime for TLC. *)
EXTENDS GoogleRewardedRuntime, TLC

CONSTANTS g1, w1, w2, q1, q2, q3, r1, r2, r3

Symmetry == Permutations(Watch) \union Permutations(Slot) \union Permutations(Prompt)

=============================================================================
