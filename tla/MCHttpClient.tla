----------------------------- MODULE MCHttpClient -----------------------------
(* Instances of HttpClient for TLC: two requests share a client, another   *)
(* client shares the cookie.                                               *)
EXTENDS HttpClient, TLC

CONSTANTS r1, r2, c1, c2

Clients == [r \in Request |-> c1]

RequestSymmetry == Permutations(Request)

=============================================================================
