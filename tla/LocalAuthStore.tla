--------------------------- MODULE LocalAuthStore ---------------------------
(***************************************************************************)
(* What a local-auth backend promises to the auth service: withTransaction *)
(* runs a callback against the users, sessions and recovery records and    *)
(* applies what it touched to all of them or to none.  A record set is     *)
(* abstracted to the set of transactions whose changes it contains.        *)
(***************************************************************************)
CONSTANTS Tx,      \* one element per call of withTransaction
          File     \* the record sets: users, sessions, recovery

VARIABLES store,   \* store[f]: the transactions applied to record set f
          status,  \* status[t]: where the promise of call t stands
          wrote    \* wrote[t]: the record sets its callback touched

vars == <<store, status, wrote>>

(***************************************************************************)
(* A promise is acked when it resolves, refused when it rejects and the    *)
(* transaction has no effect, and lost when the caller cannot tell: the    *)
(* process died, or the promise rejected after the commit point.           *)
(***************************************************************************)
Status == {"new", "running", "acked", "refused", "lost"}

TypeOK ==
    /\ store \in [File -> SUBSET Tx]
    /\ status \in [Tx -> Status]
    /\ wrote \in [Tx -> SUBSET File]

Init ==
    /\ store = [f \in File |-> {}]
    /\ status = [t \in Tx |-> "new"]
    /\ wrote = [t \in Tx |-> {}]

Applied(t) == \E f \in File : t \in store[f]

Settle(t, result) ==
    /\ status[t] = "running"
    /\ status' = [status EXCEPT ![t] = result]
    /\ UNCHANGED <<store, wrote>>

Begin(t) ==
    /\ status[t] = "new"
    /\ status' = [status EXCEPT ![t] = "running"]
    /\ UNCHANGED <<store, wrote>>

RunCallback(t, touched) ==
    /\ status[t] = "running"
    /\ wrote[t] = {}
    /\ wrote' = [wrote EXCEPT ![t] = touched]
    /\ UNCHANGED <<store, status>>

(* The commit adds t to every record set it touched, in one step, on top   *)
(* of everything committed before it.                                      *)
Commit(t) ==
    /\ status[t] = "running"
    /\ ~Applied(t)
    /\ store' = [f \in File |-> IF f \in wrote[t] THEN store[f] \union {t} ELSE store[f]]
    /\ UNCHANGED <<status, wrote>>

Ack(t) == (\A f \in wrote[t] : t \in store[f]) /\ Settle(t, "acked")

Refuse(t) == ~Applied(t) /\ Settle(t, "refused")

(* A crash takes every call of the process with it. *)
Lose(S) ==
    /\ \A t \in S : status[t] = "running"
    /\ status' = [t \in Tx |-> IF t \in S THEN "lost" ELSE status[t]]
    /\ UNCHANGED <<store, wrote>>

Next ==
    \/ \E t \in Tx : Begin(t) \/ Commit(t) \/ Ack(t) \/ Refuse(t)
    \/ \E t \in Tx, touched \in SUBSET File : RunCallback(t, touched)
    \/ \E S \in SUBSET Tx : Lose(S)

Spec == Init /\ [][Next]_vars

-----------------------------------------------------------------------------
(* Whatever has crashed or failed in between, the store contains a         *)
(* transaction in every record set its callback touched or in none.        *)
AllOrNothing ==
    \A t \in Tx : Applied(t) => wrote[t] = {f \in File : t \in store[f]}

(* A transaction whose promise resolved is never lost again, neither to a  *)
(* crash nor to a later writer working on an older copy of the records.    *)
AckedIsDurable ==
    \A t \in Tx : status[t] = "acked" => \A f \in wrote[t] : t \in store[f]

(* A transaction whose promise rejected before its commit point never      *)
(* shows up in the store, not even through a journal replayed later.       *)
RefusedHasNoEffect ==
    \A t \in Tx : status[t] = "refused" => ~Applied(t)

(* Part of the inductive invariant: a call that has not begun left no trace. *)
NewUntouched ==
    \A t \in Tx : status[t] = "new" => wrote[t] = {} /\ ~Applied(t)

=============================================================================
