------------------------- MODULE MCLocalAuthService -------------------------
(***************************************************************************)
(* An instance of LocalAuthService for TLC: four mixes of operations, each *)
(* of which is checked with every interleaving of its own.  Fits bounds    *)
(* the records: three sessions and two tokens are for password recovery,   *)
(* two sessions and one token for the others; one record may expire.       *)
(***************************************************************************)
EXTENDS LocalAuthService, FiniteSets, TLC

CONSTANTS u1, b1, q1, q2, s1, s2, s3, t1, t2

Resetting == {"register", "login", "requestReset", "recover", "reset"}
SharedBrowser == {"register", "session", "requestReset", "recover", "signOutOthers", "logout"}
Changing == {"register", "login", "devLogin", "session", "change"}
Leaving == {"register", "login", "devLogin", "signOutOthers", "logout"}
EachMix == {Resetting, SharedBrowser, Changing, Leaving}

Fits ==
    /\ Cardinality({s \in Session : session[s].expired} \union
                   {t \in Token : token[t].expired}) <= 1
    /\ mix # Resetting =>
           /\ Cardinality({s \in Session : session[s] # NoRow}) <= 2
           /\ Cardinality({t \in Token : token[t] # NoRecord}) <= 1
           /\ \A u \in User : password[u] <= 2

RecordSymmetry == Permutations(Session) \union Permutations(Token) \union Permutations(Slot)

=============================================================================
