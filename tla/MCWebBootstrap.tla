---------------------------- MODULE MCWebBootstrap ----------------------------
(* Instances of WebBootstrap for TLC: two pages of workspace a, one of b.  *)
EXTENDS WebBootstrap, TLC

CONSTANTS a, b, none, a1, a2, b1

SlugOfPath == [p \in Path |-> CASE p \in {a1, a2} -> a [] p = b1 -> b [] OTHER -> none]

PageSymmetry == Permutations({a1, a2})

=============================================================================
