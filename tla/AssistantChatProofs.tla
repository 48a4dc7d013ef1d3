------------------------- MODULE AssistantChatProofs -------------------------
(***************************************************************************)
(* What AssistantChat does for any number of turns, rounds, calls and      *)
(* failures.                                                               *)
(*                                                                         *)
(* A step of the server changes one turn.  TurnOK and RowsOK say what the  *)
(* stage of a turn means for what it has stored, EventsOK what its stream  *)
(* may carry then, and Uses who answers for an active conversation.        *)
(* ConvInv says how the tab comes to know a turn's conversation.           *)
(***************************************************************************)
EXTENDS AssistantChat, SequenceTheorems, TLAPS

TurnType == [stage : Stage, conv : Turn \union {None}, kind : Kind, seq : Nat, calls : Nat,
             round : Nat, pass : Nat, recovering : BOOLEAN, toolFailed : BOOLEAN,
             said : BOOLEAN, linked : BOOLEAN,
             status : Ended \union {""}, outcome : Ended \union {"", "rejected"}]
ShownType == [live : BOOLEAN, reply : {"", "streaming", "done", "error", "canceled"}]
ReadingType == [turn : Turn \union {None}, failed : BOOLEAN, done : Ended \union {""}]
RestoreType == [conv : Turn, before : Turn \union {None}, dropped : BOOLEAN]

Runs(r) == r.stage \notin {"idle", "find", "ended"}

TurnOK(r) ==
    /\ r \in TurnType
    /\ r.round < MaxRounds /\ r.pass < MaxPasses
    /\ Runs(r) => r.conv \in Turn
    /\ r.stage = "catch" => r.status \in Ended
    /\ r.outcome = "rejected" => r.stage = "ended"

(* A transcript of a turn without its reply: after an odd number of rows a *)
(* tool call or the reply may follow, after an even one only a result.     *)
Half(q) ==
    /\ Len(q) > 0 /\ q[1] = "user"
    /\ \A i \in 2..Len(q) : q[i] = IF i % 2 = 0 THEN "call" ELSE "result"
HalfOdd(q) == Half(q) /\ Len(q) % 2 = 1
HalfEven(q) == Half(q) /\ Len(q) % 2 = 0
HasReply(q) == \E i \in DOMAIN q : q[i] = "assistant"

RowsOK(r, q) ==
    /\ r.stage \in {"idle", "find", "reopen"} => q = << >>
    /\ r.stage \in {"seq", "insert"} =>
           CASE r.kind = "user" -> q = << >>
             [] r.kind = "result" -> HalfEven(q)
             [] OTHER -> HalfOdd(q)
    /\ r.stage \in {"prompt", "ask"} => HalfOdd(q)
    /\ r.stage = "execute" => HalfEven(q)
    /\ r.stage = "complete" => Whole(q)
    /\ HasReply(q) => Whole(q)

Has(es, e) == \E i \in DOMAIN es : es[i] = e
EndsOnce(es) == \A i \in DOMAIN es : es[i] = "end" => i = Len(es)

EventsOK(r, q, es) ==
    /\ r.stage # "ended" => \A i \in DOMAIN es : es[i] = "meta"
    /\ Has(es, "message") => Whole(q)
    /\ Has(es, "end") /\ ~Has(es, "error") => Whole(q)
    /\ EndsOnce(es)

Uses(r, c) == r.conv = c /\ (Runs(r) \/ r.outcome = "rejected")

-----------------------------------------------------------------------------
(* What the helpers make of a turn's record.                               *)
LEMMA AppendingOK ==
    ASSUME NEW r, TurnOK(r), r.conv \in Turn, r.outcome # "rejected", NEW k \in Kind
    PROVE  /\ TurnOK(Appending(r, k))
           /\ Appending(r, k).stage = "seq" /\ Appending(r, k).kind = k
           /\ Appending(r, k).conv = r.conv /\ Appending(r, k).outcome = r.outcome /\ Appending(r, k).linked = r.linked
<1> DEFINE e == Appending(r, k)
<1>1. r \in TurnType /\ r.round < MaxRounds /\ r.pass < MaxPasses
  BY DEF TurnOK
<1>2. e \in TurnType
  BY <1>1 DEF Appending, TurnType, Stage
<1>3. /\ e.stage = "seq" /\ e.kind = k /\ e.conv = r.conv /\ e.outcome = r.outcome /\ e.linked = r.linked
      /\ e.round = r.round /\ e.pass = r.pass
  BY <1>1 DEF Appending, TurnType
<1> QED
  BY <1>1, <1>2, <1>3 DEF TurnOK, Runs

LEMMA RecoversOK ==
    ASSUME NEW r, TurnOK(r), r.conv \in Turn, r.outcome # "rejected"
    PROVE  /\ TurnOK(Recovers(r)) /\ Recovers(r).stage = "ask"
           /\ Recovers(r).conv = r.conv /\ Recovers(r).outcome = r.outcome /\ Recovers(r).linked = r.linked
<1> DEFINE e == Recovers(r)
<1>1. r \in TurnType /\ r.pass < MaxPasses
  BY DEF TurnOK
<1>2. e \in TurnType
  BY <1>1 DEF Recovers, TurnType, Stage
<1>3. e.stage = "ask" /\ e.conv = r.conv /\ e.outcome = r.outcome /\ e.linked = r.linked /\ e.round = 0 /\ e.pass = r.pass
  BY <1>1 DEF Recovers, TurnType
<1>4. 0 < MaxRounds
  BY ChatAssumption
<1> QED
  BY <1>1, <1>2, <1>3, <1>4 DEF TurnOK, Runs

LEMMA RepliesOK ==
    ASSUME NEW r, TurnOK(r), r.conv \in Turn, r.outcome # "rejected"
    PROVE  /\ TurnOK(Replies(r)) /\ Replies(r).stage = "seq" /\ Replies(r).kind = "assistant"
           /\ Replies(r).conv = r.conv /\ Replies(r).outcome = r.outcome /\ Replies(r).linked = r.linked
<1> DEFINE e == [Recovers(r) EXCEPT !.recovering = FALSE, !.pass = 0]
<1>1. /\ TurnOK(Recovers(r)) /\ Recovers(r).stage = "ask"
      /\ Recovers(r).conv = r.conv /\ Recovers(r).outcome = r.outcome /\ Recovers(r).linked = r.linked
  BY RecoversOK
<1>2. Recovers(r) \in TurnType /\ Recovers(r).round < MaxRounds
  BY <1>1 DEF TurnOK
<1>3. e \in TurnType /\ e.stage = "ask" /\ e.conv = r.conv /\ e.outcome = r.outcome /\ e.linked = r.linked
      /\ e.round = Recovers(r).round /\ e.pass = 0
  BY <1>1, <1>2 DEF TurnType
<1>4. 0 < MaxPasses /\ "assistant" \in Kind
  BY ChatAssumption DEF Kind
<1>5. TurnOK(e)
  BY <1>2, <1>3, <1>4 DEF TurnOK, Runs
<1>6. Replies(r) = Appending(e, "assistant")
  BY DEF Replies
<1> HIDE DEF e
<1> QED
  BY <1>3, <1>4, <1>5, <1>6, AppendingOK

LEMMA NextAnswerOK ==
    ASSUME NEW r, TurnOK(r), r.conv \in Turn, r.outcome # "rejected"
    PROVE  LET e == NextAnswer(r)
           IN  /\ TurnOK(e) /\ e.conv = r.conv /\ e.outcome = r.outcome /\ e.linked = r.linked
               /\ e.stage = "ask" \/ (e.stage = "seq" /\ e.kind = "assistant")
<1>1. /\ TurnOK(Recovers(r)) /\ Recovers(r).stage = "ask"
      /\ Recovers(r).conv = r.conv /\ Recovers(r).outcome = r.outcome /\ Recovers(r).linked = r.linked
  BY RecoversOK
<1>2. r \in TurnType /\ r.round \in Nat /\ r.pass \in Nat /\ r.round < MaxRounds /\ r.pass < MaxPasses
  BY DEF TurnOK, TurnType
<1>3. CASE ~r.recovering /\ r.round + 1 = MaxRounds
  BY <1>1, <1>3 DEF NextAnswer
<1>4. CASE ~r.recovering /\ r.round + 1 # MaxRounds
  <2> DEFINE e == [r EXCEPT !.stage = "ask", !.seq = 0, !.round = r.round + 1]
  <2>1. r.round + 1 \in Nat /\ r.round + 1 < MaxRounds
    BY <1>2, <1>4, ChatAssumption
  <2>2. e \in TurnType
    BY <1>2, <2>1 DEF TurnType, Stage
  <2>3. e.stage = "ask" /\ e.conv = r.conv /\ e.outcome = r.outcome /\ e.linked = r.linked
        /\ e.round = r.round + 1 /\ e.pass = r.pass
    BY <1>2 DEF TurnType
  <2>4. NextAnswer(r) = e
    BY <1>4 DEF NextAnswer
  <2> HIDE DEF e
  <2> QED
    BY <1>2, <2>1, <2>2, <2>3, <2>4 DEF TurnOK, Runs
<1>5. CASE r.recovering /\ r.pass + 1 = MaxPasses
  BY <1>5, RepliesOK DEF NextAnswer
<1>6. CASE r.recovering /\ r.pass + 1 # MaxPasses
  <2> DEFINE e == [Recovers(r) EXCEPT !.pass = r.pass + 1]
  <2>1. r.pass + 1 \in Nat /\ r.pass + 1 < MaxPasses
    BY <1>2, <1>6, ChatAssumption
  <2>2. Recovers(r) \in TurnType /\ Recovers(r).round < MaxRounds
    BY <1>1 DEF TurnOK
  <2>3. e \in TurnType
    BY <2>1, <2>2 DEF TurnType
  <2>4. e.stage = "ask" /\ e.conv = r.conv /\ e.outcome = r.outcome /\ e.linked = r.linked
        /\ e.round = Recovers(r).round /\ e.pass = r.pass + 1
    BY <1>1, <2>2 DEF TurnType
  <2>5. NextAnswer(r) = e
    BY <1>6 DEF NextAnswer
  <2> HIDE DEF e
  <2> QED
    BY <2>1, <2>2, <2>3, <2>4, <2>5 DEF TurnOK, Runs
<1> QED
  BY <1>3, <1>4, <1>5, <1>6

LEMMA InsertedOK ==
    ASSUME NEW r, TurnOK(r), r.conv \in Turn, r.outcome # "rejected"
    PROVE  LET e == Inserted(r)
           IN  /\ TurnOK(e) /\ e.conv = r.conv /\ e.outcome = r.outcome /\ e.linked = r.linked
               /\ r.kind = "user" => e.stage = "prompt"
               /\ r.kind = "call" => e.stage = "execute"
               /\ r.kind = "result" => \/ e.stage = "ask"
                                       \/ e.stage = "seq" /\ e.kind \in {"call", "assistant"}
               /\ r.kind = "assistant" => e.stage = "complete"
<1>1. r \in TurnType /\ r.kind \in Kind /\ r.round < MaxRounds /\ r.pass < MaxPasses
  BY DEF TurnOK, TurnType
<1>2. ASSUME NEW s \in {"prompt", "execute", "complete"}
      PROVE  /\ TurnOK([r EXCEPT !.stage = s]) /\ [r EXCEPT !.stage = s].conv = r.conv
             /\ [r EXCEPT !.stage = s].outcome = r.outcome /\ [r EXCEPT !.stage = s].linked = r.linked /\ [r EXCEPT !.stage = s].stage = s
  <2> DEFINE e == [r EXCEPT !.stage = s]
  <2>1. e \in TurnType /\ e.stage = s /\ e.conv = r.conv /\ e.outcome = r.outcome /\ e.linked = r.linked
        /\ e.round = r.round /\ e.pass = r.pass
    BY <1>1 DEF TurnType, Stage
  <2> QED
    BY <1>1, <2>1 DEF TurnOK, Runs
<1>3. ASSUME NEW n \in Nat
      PROVE  /\ TurnOK([r EXCEPT !.calls = n]) /\ [r EXCEPT !.calls = n].conv = r.conv
             /\ [r EXCEPT !.calls = n].outcome = r.outcome /\ [r EXCEPT !.calls = n].linked = r.linked
  <2> DEFINE e == [r EXCEPT !.calls = n]
  <2>1. e \in TurnType /\ e.stage = r.stage /\ e.conv = r.conv /\ e.outcome = r.outcome /\ e.linked = r.linked
        /\ e.round = r.round /\ e.pass = r.pass /\ e.status = r.status
    BY <1>1 DEF TurnType
  <2> QED
    BY <1>1, <2>1 DEF TurnOK, Runs
<1>4. CASE r.kind = "result" /\ r.calls > 1
  <2> DEFINE e == [r EXCEPT !.calls = r.calls - 1]
  <2>1. r.calls \in Nat
    BY <1>1 DEF TurnType
  <2>2. r.calls - 1 \in Nat
    BY <1>4, <2>1
  <2>3. TurnOK(e) /\ e.conv = r.conv /\ e.outcome = r.outcome /\ e.linked = r.linked
    BY <1>3, <2>2
  <2>4. Inserted(r) = Appending(e, "call") /\ "call" \in Kind
    BY <1>4 DEF Inserted, Kind
  <2> HIDE DEF e
  <2> QED
    BY <1>4, <2>3, <2>4, AppendingOK
<1>5. CASE r.kind = "result" /\ ~(r.calls > 1)
  <2> DEFINE e == [r EXCEPT !.calls = 0]
  <2>1. TurnOK(e) /\ e.conv = r.conv /\ e.outcome = r.outcome /\ e.linked = r.linked
    BY <1>3
  <2>2. Inserted(r) = NextAnswer(e)
    BY <1>5 DEF Inserted
  <2> HIDE DEF e
  <2> QED
    BY <1>5, <2>1, <2>2, NextAnswerOK
<1>6. CASE r.kind = "user"
  BY <1>2, <1>6 DEF Inserted
<1>7. CASE r.kind = "call"
  BY <1>2, <1>7 DEF Inserted
<1>8. CASE r.kind = "assistant"
  BY <1>2, <1>8 DEF Inserted
<1> QED
  BY <1>1, <1>4, <1>5, <1>6, <1>7, <1>8 DEF Kind

LEMMA EndOfOK ==
    ASSUME NEW t \in Turn, TurnOK(turn[t]), NEW why \in Ended \union {"rejected"}
    PROVE  /\ TurnOK(EndOf(t, why)) /\ EndOf(t, why).stage = "ended"
           /\ EndOf(t, why).conv = turn[t].conv /\ EndOf(t, why).outcome = why
           /\ EndOf(t, why).linked = turn[t].linked
<1> DEFINE e == EndOf(t, why)
<1>1. turn[t].conv \in Turn \union {None} /\ turn[t].linked \in BOOLEAN
  BY DEF TurnOK, TurnType
<1>2. NoTurn \in TurnType /\ NoTurn.round = 0 /\ NoTurn.pass = 0
  BY DEF NoTurn, TurnType, Stage, Kind
<1>3. e \in TurnType
  BY <1>1, <1>2 DEF EndOf, TurnType, Stage
<1>4. e.stage = "ended" /\ e.conv = turn[t].conv /\ e.outcome = why /\ e.linked = turn[t].linked /\ e.round = 0 /\ e.pass = 0
  BY <1>1, <1>2 DEF EndOf, TurnType
<1>5. 0 < MaxRounds /\ 0 < MaxPasses
  BY ChatAssumption
<1> HIDE DEF e
<1>6. TurnOK(e)
  BY <1>3, <1>4, <1>5 DEF TurnOK, Runs
<1> QED
  BY <1>4, <1>6 DEF e

-----------------------------------------------------------------------------
(* What a row more makes of a transcript.                                  *)
LEMMA HalfHasNoReply ==
    ASSUME NEW q \in Seq(Kind), Half(q)
    PROVE  ~HasReply(q) /\ ~Whole(q) /\ q # << >>
<1>1. Len(q) \in Nat /\ DOMAIN q = 1..Len(q)
  BY LenProperties
<1>2. ASSUME NEW i \in 1..Len(q) PROVE q[i] # "assistant"
  BY <1>1, <1>2 DEF Half
<1> QED
  BY <1>1, <1>2 DEF Half, HasReply, Whole

LEMMA WholeHasReply ==
    ASSUME NEW q \in Seq(Kind), Whole(q)
    PROVE  HasReply(q) /\ q # << >>
<1>1. Len(q) \in Nat /\ DOMAIN q = 1..Len(q)
  BY LenProperties
<1> QED
  BY <1>1 DEF Whole, HasReply

LEMMA RowAdded ==
    ASSUME NEW q \in Seq(Kind), NEW k \in Kind
    PROVE  LET p == Append(q, k)
           IN  /\ p \in Seq(Kind)
               /\ q = << >> /\ k = "user" => HalfOdd(p)
               /\ HalfOdd(q) /\ k = "call" => HalfEven(p)
               /\ HalfEven(q) /\ k = "result" => HalfOdd(p)
               /\ HalfOdd(q) /\ k = "assistant" => Whole(p)
<1> DEFINE p == Append(q, k)
<1>1. /\ p \in Seq(Kind) /\ Len(q) \in Nat /\ Len(p) = Len(q) + 1 /\ p[Len(q) + 1] = k
      /\ \A i \in 1..Len(q) : p[i] = q[i]
  BY AppendProperties, LenProperties
<1> HIDE DEF p
<1>2. ASSUME q = << >>, k = "user" PROVE HalfOdd(p)
  <2>1. Len(q) = 0
    BY <1>2
  <2>2. Len(p) = 1 /\ p[1] = "user"
    BY <1>1, <1>2, <2>1
  <2> QED
    BY <2>2 DEF HalfOdd, Half
<1>3. ASSUME HalfOdd(q), k = "call" PROVE HalfEven(p)
  <2>1. Len(p) > 0 /\ p[1] = "user" /\ Len(p) % 2 = 0
    BY <1>1, <1>3 DEF HalfOdd, Half
  <2>2. ASSUME NEW i \in 2..Len(p) PROVE p[i] = IF i % 2 = 0 THEN "call" ELSE "result"
    BY <1>1, <1>3, <2>1, <2>2 DEF HalfOdd, Half
  <2> QED
    BY <2>1, <2>2 DEF HalfEven, Half
<1>4. ASSUME HalfEven(q), k = "result" PROVE HalfOdd(p)
  <2>1. Len(p) > 0 /\ p[1] = "user" /\ Len(p) % 2 = 1
    BY <1>1, <1>4 DEF HalfEven, Half
  <2>2. ASSUME NEW i \in 2..Len(p) PROVE p[i] = IF i % 2 = 0 THEN "call" ELSE "result"
    BY <1>1, <1>4, <2>1, <2>2 DEF HalfEven, Half
  <2> QED
    BY <2>1, <2>2 DEF HalfOdd, Half
<1>5. ASSUME HalfOdd(q), k = "assistant" PROVE Whole(p)
  <2>1. Len(p) > 1 /\ p[1] = "user" /\ p[Len(p)] = "assistant" /\ Len(p) % 2 = 0
    BY <1>1, <1>5 DEF HalfOdd, Half
  <2>2. ASSUME NEW i \in 2..(Len(p) - 1) PROVE p[i] = IF i % 2 = 0 THEN "call" ELSE "result"
    BY <1>1, <1>5, <2>2 DEF HalfOdd, Half
  <2> QED
    BY <2>1, <2>2 DEF Whole
<1> QED
  BY <1>1, <1>2, <1>3, <1>4, <1>5 DEF p

(* What the events of a step make of a stream.                             *)
LEMMA HasConcat ==
    ASSUME NEW a \in Seq(Event), NEW b \in Seq(Event)
    PROVE  /\ a \o b \in Seq(Event)
           /\ \A e : Has(a \o b, e) <=> Has(a, e) \/ Has(b, e)
<1>1. /\ a \o b \in Seq(Event) /\ Len(a) \in Nat /\ Len(b) \in Nat /\ Len(a \o b) = Len(a) + Len(b)
      /\ \A i \in 1..(Len(a) + Len(b)) : (a \o b)[i] = IF i <= Len(a) THEN a[i] ELSE b[i - Len(a)]
      /\ DOMAIN a = 1..Len(a) /\ DOMAIN b = 1..Len(b) /\ DOMAIN (a \o b) = 1..(Len(a) + Len(b))
  BY ConcatProperties, LenProperties
<1>2. ASSUME NEW e, Has(a \o b, e) PROVE Has(a, e) \/ Has(b, e)
  <2>1. PICK i \in 1..(Len(a) + Len(b)) : (a \o b)[i] = e
    BY <1>1, <1>2 DEF Has
  <2>2. CASE i <= Len(a)
    BY <1>1, <2>1, <2>2 DEF Has
  <2>3. CASE ~(i <= Len(a))
    <3>1. i - Len(a) \in 1..Len(b) /\ b[i - Len(a)] = e
      BY <1>1, <2>1, <2>3
    <3> QED
      BY <1>1, <3>1 DEF Has
  <2> QED
    BY <2>2, <2>3
<1>3. ASSUME NEW e, Has(a, e) PROVE Has(a \o b, e)
  <2>1. PICK i \in 1..Len(a) : a[i] = e
    BY <1>1, <1>3 DEF Has
  <2>2. i \in 1..(Len(a) + Len(b)) /\ (a \o b)[i] = e
    BY <1>1, <2>1
  <2> QED
    BY <1>1, <2>2 DEF Has
<1>4. ASSUME NEW e, Has(b, e) PROVE Has(a \o b, e)
  <2>1. PICK i \in 1..Len(b) : b[i] = e
    BY <1>1, <1>4 DEF Has
  <2>2. i + Len(a) \in 1..(Len(a) + Len(b)) /\ (a \o b)[i + Len(a)] = e
    BY <1>1, <2>1
  <2> QED
    BY <1>1, <2>2 DEF Has
<1> QED
  BY <1>1, <1>2, <1>3, <1>4

LEMMA EndsConcat ==
    ASSUME NEW a \in Seq(Event), NEW b \in Seq(Event), ~Has(a, "end"), EndsOnce(b)
    PROVE  EndsOnce(a \o b)
<1>1. /\ Len(a) \in Nat /\ Len(b) \in Nat /\ Len(a \o b) = Len(a) + Len(b)
      /\ \A i \in 1..(Len(a) + Len(b)) : (a \o b)[i] = IF i <= Len(a) THEN a[i] ELSE b[i - Len(a)]
      /\ a \o b \in Seq(Event)
  BY ConcatProperties, LenProperties
<1>2. DOMAIN a = 1..Len(a) /\ DOMAIN b = 1..Len(b) /\ DOMAIN (a \o b) = 1..(Len(a) + Len(b))
  BY <1>1, LenProperties
<1>3. ASSUME NEW i \in 1..(Len(a) + Len(b)), (a \o b)[i] = "end" PROVE i = Len(a) + Len(b)
  <2>1. ~(i <= Len(a))
    BY <1>1, <1>2, <1>3 DEF Has
  <2>2. i - Len(a) \in 1..Len(b) /\ b[i - Len(a)] = "end"
    BY <1>1, <1>3, <2>1
  <2>3. i - Len(a) = Len(b)
    BY <1>2, <2>2 DEF EndsOnce
  <2> QED
    BY <1>1, <2>3
<1> QED
  BY <1>1, <1>2, <1>3 DEF EndsOnce

(* What is left of a stream when an event has been read.                   *)
LEMMA TailOf ==
    ASSUME NEW q \in Seq(Event), q # << >>
    PROVE  /\ Tail(q) \in Seq(Event) /\ Head(q) \in Event /\ Has(q, Head(q))
           /\ \A e : Has(Tail(q), e) => Has(q, e)
           /\ \A e : Has(q, e) => e = Head(q) \/ Has(Tail(q), e)
           /\ EndsOnce(q) => EndsOnce(Tail(q)) /\ (Head(q) = "end" => \A e : Has(q, e) => e = "end")
<1>1. /\ Len(q) \in Nat \ {0} /\ DOMAIN q = 1..Len(q) /\ Head(q) = q[1] /\ q[1] \in Event
      /\ Tail(q) \in Seq(Event) /\ Len(Tail(q)) = Len(q) - 1
      /\ \A i \in 1..(Len(q) - 1) : Tail(q)[i] = q[i + 1]
  BY EmptySeq, LenProperties, HeadTailProperties, ElementOfSeq
<1>2. DOMAIN Tail(q) = 1..(Len(q) - 1)
  BY <1>1, LenProperties
<1>3. Has(q, Head(q))
  BY <1>1 DEF Has
<1>4. ASSUME NEW e, Has(Tail(q), e) PROVE Has(q, e)
  <2>1. PICK i \in 1..(Len(q) - 1) : Tail(q)[i] = e
    BY <1>2, <1>4 DEF Has
  <2>2. i + 1 \in 1..Len(q) /\ q[i + 1] = e
    BY <1>1, <2>1
  <2> QED
    BY <1>1, <2>2 DEF Has
<1>5. ASSUME NEW e, Has(q, e) PROVE e = Head(q) \/ Has(Tail(q), e)
  <2>1. PICK i \in 1..Len(q) : q[i] = e
    BY <1>1, <1>5 DEF Has
  <2>2. CASE i = 1
    BY <1>1, <2>1, <2>2
  <2>3. CASE i # 1
    <3>1. i - 1 \in 1..(Len(q) - 1) /\ Tail(q)[i - 1] = e
      BY <1>1, <2>1, <2>3
    <3> QED
      BY <1>2, <3>1 DEF Has
  <2> QED
    BY <2>2, <2>3
<1>6. ASSUME EndsOnce(q) PROVE EndsOnce(Tail(q))
  <2>1. ASSUME NEW i \in 1..(Len(q) - 1), Tail(q)[i] = "end" PROVE i = Len(q) - 1
    <3> DEFINE j == i + 1
    <3>1. j \in DOMAIN q /\ q[j] = "end" /\ i = j - 1 /\ j \in Nat
      BY <1>1, <2>1
    <3> HIDE DEF j
    <3>2. j = Len(q)
      BY <1>6, <3>1 DEF EndsOnce
    <3> QED
      BY <1>1, <3>1, <3>2
  <2> QED
    BY <1>1, <1>2, <2>1 DEF EndsOnce
<1>7. ASSUME EndsOnce(q), Head(q) = "end", NEW e, Has(q, e) PROVE e = "end"
  <2>1. Len(q) = 1
    BY <1>1, <1>7 DEF EndsOnce
  <2> QED
    BY <1>1, <1>7, <2>1 DEF Has
<1> QED
  BY <1>1, <1>3, <1>4, <1>5, <1>6, <1>7

-----------------------------------------------------------------------------
TablesInv ==
    /\ status \in [Turn -> Ended \union {"", "active"}]
    /\ rows \in [Turn -> Seq(Kind)] /\ last \in [Turn -> Nat]

TabInv ==
    /\ shown \in [Turn -> ShownType] /\ cid \in Turn \union {None}
    /\ reading \in ReadingType /\ restores \subseteq RestoreType

(* What the tab has not read of a turn's stream.                           *)
StreamOK(t) ==
    /\ turn[t].stage # "ended" => \A i \in DOMAIN chan[t] : chan[t][i] = "meta"
    /\ Has(chan[t], "message") => Whole(rows[t])
    /\ reading.turn = t /\ ~reading.failed /\ Has(chan[t], "end") /\ ~Has(chan[t], "error")
           => Whole(rows[t])
    /\ EndsOnce(chan[t])

TurnsInv ==
    /\ turn \in [Turn -> TurnType] /\ chan \in [Turn -> Seq(Event)]
    /\ \A t \in Turn : TurnOK(turn[t]) /\ RowsOK(turn[t], rows[t]) /\ StreamOK(t)

ActiveInv == \A c \in Turn : status[c] = "active" => \E t \in Turn : Uses(turn[t], c)

IInv == TablesInv /\ TabInv /\ TurnsInv /\ ActiveInv /\ DoneIsWhole

LEMMA InitIInv == Init => IInv
<1> SUFFICES ASSUME Init PROVE IInv
  OBVIOUS
<1>1. NoTurn \in TurnType /\ TurnOK(NoTurn) /\ NoTurn.stage = "idle"
  <2>1. NoTurn \in TurnType /\ NoTurn.stage = "idle" /\ NoTurn.round = 0 /\ NoTurn.pass = 0
        /\ NoTurn.outcome = ""
    BY DEF NoTurn, TurnType, Stage, Kind
  <2>2. 0 < MaxRounds /\ 0 < MaxPasses
    BY ChatAssumption
  <2> QED
    BY <2>1, <2>2 DEF TurnOK, Runs
<1>2. << >> \in Seq(Kind) /\ << >> \in Seq(Event) /\ DOMAIN << >> = {}
  OBVIOUS
<1>3. TablesInv
  BY <1>2 DEF Init, TablesInv, Ended
<1>4. TabInv
  BY DEF Init, TabInv, NotShown, NotReading, ShownType, ReadingType
<1>5. RowsOK(NoTurn, << >>)
  BY <1>1, <1>2 DEF RowsOK, HasReply
<1>6. TurnsInv
  <2>1. turn \in [Turn -> TurnType] /\ chan \in [Turn -> Seq(Event)]
    BY <1>1, <1>2 DEF Init
  <2>2. ASSUME NEW t \in Turn PROVE StreamOK(t)
    BY <1>2 DEF Init, StreamOK, Has, EndsOnce
  <2> QED
    BY <1>1, <1>5, <2>1, <2>2 DEF Init, TurnsInv
<1>7. ActiveInv /\ DoneIsWhole
  BY DEF Init, ActiveInv, DoneIsWhole, NotShown
<1> QED
  BY <1>3, <1>4, <1>6, <1>7 DEF IInv

(* A step of the server: turn t becomes r, with rows q, and writes es.     *)
LEMMA ServerGoes ==
    ASSUME IInv, NEW t \in Turn, turn[t].stage # "ended",
           NEW r, TurnOK(r), NEW q \in Seq(Kind), RowsOK(r, q), NEW es \in Seq(Event), EventsOK(r, q, es),
           Goes(t, r, es), rows' = [rows EXCEPT ![t] = q], Whole(rows[t]) => Whole(q),
           TablesInv', UNCHANGED tab,
           \A c \in Turn : status'[c] = "active" =>
               /\ status[c] = "active" \/ Uses(r, c)
               /\ Uses(turn[t], c) => Uses(r, c)
    PROVE  IInv'
<1> USE DEF tab
<1>1. /\ turn \in [Turn -> TurnType] /\ chan \in [Turn -> Seq(Event)] /\ rows \in [Turn -> Seq(Kind)]
      /\ \A s \in Turn : TurnOK(turn[s]) /\ RowsOK(turn[s], rows[s]) /\ StreamOK(s)
  BY DEF IInv, TurnsInv, TablesInv
<1>2. /\ turn' = [turn EXCEPT ![t] = r]
      /\ chan' = [chan EXCEPT ![t] = IF turn[t].linked THEN @ \o es ELSE @]
  BY DEF Goes
<1>3. /\ turn'[t] = r /\ rows'[t] = q
      /\ \A s \in Turn \ {t} : turn'[s] = turn[s] /\ rows'[s] = rows[s] /\ chan'[s] = chan[s]
  BY <1>1, <1>2
<1>4. chan'[t] = chan[t] \/ chan'[t] = chan[t] \o es
  BY <1>1, <1>2
<1>5. /\ chan[t] \in Seq(Event) /\ chan[t] \o es \in Seq(Event)
      /\ \A e : Has(chan[t] \o es, e) <=> Has(chan[t], e) \/ Has(es, e)
  BY <1>1, HasConcat
<1>6. turn' \in [Turn -> TurnType] /\ chan' \in [Turn -> Seq(Event)]
  BY <1>1, <1>2, <1>5 DEF TurnOK
<1>7. \A e : e # "meta" => ~Has(chan[t], e)
  BY <1>1 DEF StreamOK, Has
<1>8. StreamOK(t)'
  <2>1. \A e : e # "meta" => (Has(chan'[t], e) => Has(es, e))
    BY <1>4, <1>5, <1>7
  <2>2. Has(chan'[t], "error") \/ chan'[t] = chan[t] \/ ~Has(es, "error")
    BY <1>4, <1>5
  <2>3. Has(chan'[t], "end") => chan'[t] # chan[t]
    BY <1>7
  <2>4. ASSUME r.stage # "ended", NEW i \in DOMAIN chan'[t] PROVE chan'[t][i] = "meta"
    <3>1. Has(chan'[t], chan'[t][i])
      BY DEF Has
    <3>2. ~Has(es, chan'[t][i]) \/ chan'[t][i] = "meta"
      BY <2>4 DEF EventsOK, Has
    <3> QED
      BY <2>1, <3>1, <3>2
  <2>5. Has(chan'[t], "message") => Whole(q)
    BY <2>1 DEF EventsOK
  <2>6. Has(chan'[t], "end") /\ ~Has(chan'[t], "error") => Whole(q)
    BY <2>1, <2>2, <2>3 DEF EventsOK
  <2>7. EndsOnce(chan'[t])
    <3>1. CASE chan'[t] = chan[t]
      BY <1>1, <3>1 DEF StreamOK
    <3>2. CASE chan'[t] = chan[t] \o es
      BY <1>5, <1>7, <3>2, EndsConcat DEF EventsOK
    <3> QED
      BY <1>4, <3>1, <3>2
  <2> QED
    BY <1>3, <2>4, <2>5, <2>6, <2>7 DEF StreamOK
<1>9. ASSUME NEW s \in Turn \ {t} PROVE StreamOK(s)'
  BY <1>1, <1>3 DEF StreamOK
<1>10. TurnsInv'
  <2>1. ASSUME NEW s \in Turn PROVE (TurnOK(turn[s]) /\ RowsOK(turn[s], rows[s]))'
    <3>1. CASE s = t
      BY <1>3, <3>1
    <3>2. CASE s # t
      BY <1>1, <1>3, <3>2
    <3> QED
      BY <3>1, <3>2
  <2>2. ASSUME NEW s \in Turn PROVE StreamOK(s)'
    BY <1>8, <1>9
  <2> QED
    BY <1>6, <2>1, <2>2 DEF TurnsInv
<1>11. ActiveInv'
  <2> SUFFICES ASSUME NEW c \in Turn, status'[c] = "active" PROVE \E s \in Turn : Uses(turn'[s], c)
    BY DEF ActiveInv
  <2>1. CASE Uses(r, c)
    BY <1>3, <2>1
  <2>2. CASE ~Uses(r, c)
    <3>1. PICK s \in Turn : Uses(turn[s], c)
      BY <2>2 DEF IInv, ActiveInv
    <3>2. s # t
      BY <2>2, <3>1
    <3> QED
      BY <1>3, <3>1, <3>2
  <2> QED
    BY <2>1, <2>2
<1>12. DoneIsWhole'
  <2> SUFFICES ASSUME NEW s \in Turn, shown'[s].reply = "done" PROVE Whole(rows'[s])
    BY DEF DoneIsWhole
  <2>1. Whole(rows[s])
    BY DEF IInv, DoneIsWhole
  <2> QED
    BY <1>3, <2>1
<1>13. TabInv'
  BY DEF IInv, TabInv
<1> QED
  BY <1>10, <1>11, <1>12, <1>13 DEF IInv

-----------------------------------------------------------------------------
(* The steps of the server.                                                *)
LEMMA Facts ==
    ASSUME IInv, NEW t \in Turn
    PROVE  /\ TurnOK(turn[t]) /\ RowsOK(turn[t], rows[t]) /\ turn[t] \in TurnType
           /\ rows[t] \in Seq(Kind) /\ [rows EXCEPT ![t] = rows[t]] = rows
           /\ turn[t].conv \in Turn \union {None} /\ (Runs(turn[t]) => turn[t].conv \in Turn)
           /\ turn[t].outcome = "rejected" => turn[t].stage = "ended"
BY DEF IInv, TablesInv, TurnsInv, TurnOK, TurnType

LEMMA EventsFacts ==
    ASSUME NEW r, NEW q
    PROVE  /\ << >> \in Seq(Event) /\ EventsOK(r, q, << >>)
           /\ <<"meta">> \in Seq(Event) /\ EventsOK(r, q, <<"meta">>)
           /\ r.stage = "ended" =>
                  /\ <<"refused">> \in Seq(Event) /\ EventsOK(r, q, <<"refused">>)
                  /\ \A w \in Ended : /\ <<"error", w, "end">> \in Seq(Event)
                                      /\ EventsOK(r, q, <<"error", w, "end">>)
           /\ r.stage = "ended" /\ Whole(q) =>
                  /\ <<"message", "completed", "end">> \in Seq(Event)
                  /\ EventsOK(r, q, <<"message", "completed", "end">>)
<1>1. << >> \in Seq(Event) /\ EventsOK(r, q, << >>)
  BY DEF EventsOK, Has, EndsOnce
<1>2. <<"meta">> \in Seq(Event) /\ EventsOK(r, q, <<"meta">>)
  <2>1. <<"meta">> \in Seq(Event)
    BY DEF Event
  <2>2. \A i \in DOMAIN <<"meta">> : <<"meta">>[i] = "meta"
    OBVIOUS
  <2> QED
    BY <2>1, <2>2 DEF EventsOK, Has, EndsOnce
<1>3. ASSUME r.stage = "ended" PROVE <<"refused">> \in Seq(Event) /\ EventsOK(r, q, <<"refused">>)
  <2>1. <<"refused">> \in Seq(Event)
    BY DEF Event
  <2>2. \A i \in DOMAIN <<"refused">> : <<"refused">>[i] = "refused"
    OBVIOUS
  <2> QED
    BY <1>3, <2>1, <2>2 DEF EventsOK, Has, EndsOnce
<1>4. ASSUME r.stage = "ended", NEW w \in Ended
      PROVE  <<"error", w, "end">> \in Seq(Event) /\ EventsOK(r, q, <<"error", w, "end">>)
  <2> DEFINE es == <<"error", w, "end">>
  <2>1. es \in Seq(Event)
    BY DEF Event
  <2>2. DOMAIN es = 1..3 /\ Len(es) = 3 /\ es[1] = "error" /\ es[2] = w /\ es[3] = "end" /\ w # "message"
    BY DEF Ended
  <2> HIDE DEF es
  <2>3. Has(es, "error") /\ ~Has(es, "message") /\ EndsOnce(es)
    BY <2>2 DEF Has, EndsOnce, Ended
  <2>4. EventsOK(r, q, es)
    BY <1>4, <2>3 DEF EventsOK
  <2> QED
    BY <2>1, <2>4 DEF es
<1>5. ASSUME r.stage = "ended", Whole(q)
      PROVE  /\ <<"message", "completed", "end">> \in Seq(Event)
             /\ EventsOK(r, q, <<"message", "completed", "end">>)
  <2>1. <<"message", "completed", "end">> \in Seq(Event)
    BY DEF Event, Ended
  <2>2. EndsOnce(<<"message", "completed", "end">>)
    BY DEF EndsOnce
  <2> QED
    BY <1>5, <2>1, <2>2 DEF EventsOK
<1> QED
  BY <1>1, <1>2, <1>3, <1>4, <1>5

(* A turn that goes on answers for the conversation it answered for.       *)
LEMMA KeepsGoing ==
    ASSUME IInv, NEW t \in Turn, Runs(turn[t]),
           NEW r, TurnOK(r), Runs(r), r.conv = turn[t].conv,
           NEW q \in Seq(Kind), RowsOK(r, q), NEW es \in Seq(Event), EventsOK(r, q, es),
           Goes(t, r, es), rows' = [rows EXCEPT ![t] = q], Whole(rows[t]) => Whole(q),
           last' \in [Turn -> Nat], UNCHANGED <<status, tab>>
    PROVE  IInv'
<1>1. turn[t].stage # "ended"
  BY DEF Runs
<1>2. TablesInv'
  BY DEF IInv, TablesInv
<1>3. \A c \in Turn : status'[c] = "active" =>
          (status[c] = "active" \/ Uses(r, c)) /\ (Uses(turn[t], c) => Uses(r, c))
  BY DEF Uses
<1> QED
  BY <1>1, <1>2, <1>3, ServerGoes

(* A turn that rejects is excepted for good, whatever it leaves behind.    *)
LEMMA RejectsStep ==
    ASSUME IInv, NEW t \in Turn, turn[t].stage \notin {"idle", "ended"}, NEW sent \in BOOLEAN, Rejects(t, sent),
           NEW q \in Seq(Kind), HasReply(q) => Whole(q), rows' = [rows EXCEPT ![t] = q],
           Whole(rows[t]) => Whole(q), last' \in [Turn -> Nat], UNCHANGED tab,
           \/ status' = status
           \/ Runs(turn[t]) /\ \E x \in Ended \union {"active"} : status' = [status EXCEPT ![turn[t].conv] = x]
    PROVE  IInv'
<1> DEFINE r == EndOf(t, "rejected")
           es == IF sent THEN <<"error", "failed", "end">> ELSE <<"refused">>
<1>1. TurnOK(turn[t]) /\ (Runs(turn[t]) => turn[t].conv \in Turn)
  BY Facts
<1>2. TurnOK(r) /\ r.stage = "ended" /\ r.conv = turn[t].conv /\ r.outcome = "rejected"
  BY <1>1, EndOfOK
<1>3. Goes(t, r, es)
  BY DEF Rejects
<1>4. "failed" \in Ended
  BY DEF Ended
<1>5. es \in Seq(Event) /\ EventsOK(r, q, es)
  BY <1>2, <1>4, EventsFacts
<1> HIDE DEF r, es
<1>6. RowsOK(r, q)
  BY <1>2 DEF RowsOK
<1>7. status \in [Turn -> Ended \union {"", "active"}]
  BY DEF IInv, TablesInv
<1>8. TablesInv'
  BY <1>1, <1>7 DEF IInv, TablesInv
<1>9. ASSUME NEW c \in Turn, status'[c] = "active"
      PROVE  (status[c] = "active" \/ Uses(r, c)) /\ (Uses(turn[t], c) => Uses(r, c))
  <2>1. Uses(r, c) <=> turn[t].conv = c
    BY <1>2 DEF Uses
  <2>2. status[c] = "active" \/ turn[t].conv = c
    BY <1>1, <1>7, <1>9
  <2> QED
    BY <2>1, <2>2 DEF Uses
<1> QED
  BY <1>2, <1>3, <1>5, <1>6, <1>8, <1>9, ServerGoes

LEMMA ThrowsStep ==
    ASSUME IInv, NEW t \in Turn, Runs(turn[t]), NEW why \in Ended, Throws(t, why),
           NEW q \in Seq(Kind), HasReply(q) => Whole(q), rows' = [rows EXCEPT ![t] = q],
           Whole(rows[t]) => Whole(q), last' \in [Turn -> Nat], UNCHANGED <<status, tab>>
    PROVE  IInv'
<1> DEFINE r == [turn[t] EXCEPT !.stage = "catch", !.status = why]
<1>1. TurnOK(turn[t]) /\ turn[t] \in TurnType /\ turn[t].conv \in Turn /\ turn[t].outcome # "rejected"
  BY Facts DEF Runs
<1>2. r \in TurnType
  BY <1>1 DEF TurnType, Stage
<1>3. /\ r.stage = "catch" /\ r.status = why /\ r.conv = turn[t].conv /\ r.outcome = turn[t].outcome
      /\ r.round = turn[t].round /\ r.pass = turn[t].pass
  BY <1>1 DEF TurnType
<1>4. Goes(t, r, << >>)
  BY DEF Throws
<1> HIDE DEF r
<1>5. TurnOK(r) /\ Runs(r) /\ RowsOK(r, q)
  BY <1>1, <1>2, <1>3 DEF TurnOK, Runs, RowsOK
<1> QED
  BY <1>3, <1>4, <1>5, EventsFacts, KeepsGoing

LEMMA OpenStep ==
    ASSUME IInv, NEW t \in Turn, Open(t)
    PROVE  IInv'
<1>1. /\ TurnOK(turn[t]) /\ RowsOK(turn[t], rows[t]) /\ turn[t] \in TurnType
      /\ rows[t] \in Seq(Kind) /\ [rows EXCEPT ![t] = rows[t]] = rows
      /\ turn[t].conv \in Turn \union {None} /\ turn[t].outcome # "rejected"
      /\ turn[t].stage = "find"
  BY Facts DEF Open
<1>2. rows[t] = << >> /\ ~HasReply(<< >>) /\ ~Whole(<< >>)
  BY <1>1 DEF RowsOK, HasReply, Whole
<1>3. rows' = [rows EXCEPT ![t] = rows[t]] /\ last' = last /\ UNCHANGED tab /\ "user" \in Kind
  BY <1>1 DEF Open, messages, Kind
<1>4. status \in [Turn -> Ended \union {"", "active"}] /\ last \in [Turn -> Nat]
  BY DEF IInv, TablesInv
<1>5. CASE turn[t].conv = None
  <2> DEFINE e == [turn[t] EXCEPT !.conv = t]
             r == Appending(e, "user")
  <2>1. e \in TurnType /\ e.conv = t /\ e.stage = "find" /\ e.outcome = turn[t].outcome
        /\ e.round = turn[t].round /\ e.pass = turn[t].pass
    BY <1>1 DEF TurnType
  <2>2. TurnOK(e)
    BY <1>1, <2>1 DEF TurnOK, Runs
  <2>3. TurnOK(r) /\ r.stage = "seq" /\ r.kind = "user" /\ r.conv = t
    BY <1>1, <1>3, <2>1, <2>2, AppendingOK
  <2>4. Goes(t, r, << >>) /\ status' = [status EXCEPT ![t] = "active"]
    BY <1>5 DEF Open
  <2> HIDE DEF r, e
  <2>5. RowsOK(r, rows[t]) /\ Runs(r)
    BY <1>2, <2>3 DEF RowsOK, Runs
  <2>6. TablesInv'
    BY <1>3, <1>4, <2>4 DEF IInv, TablesInv
  <2>7. ASSUME NEW c \in Turn, status'[c] = "active"
        PROVE  (status[c] = "active" \/ Uses(r, c)) /\ (Uses(turn[t], c) => Uses(r, c))
    BY <1>1, <1>4, <2>3, <2>4, <2>5, <2>7 DEF Uses, Runs
  <2> QED
    BY <1>1, <1>2, <1>3, <2>3, <2>4, <2>5, <2>6, <2>7, ServerGoes, EventsFacts
<1>6. CASE turn[t].conv # None
  <2> DEFINE e == [turn[t] EXCEPT !.stage = "reopen"]
             r == IF status[turn[t].conv] = "active" THEN Appending(turn[t], "user") ELSE e
  <2>1. turn[t].conv \in Turn
    BY <1>1, <1>6
  <2>2. e \in TurnType /\ e.stage = "reopen" /\ e.conv = turn[t].conv /\ e.outcome = turn[t].outcome
        /\ e.round = turn[t].round /\ e.pass = turn[t].pass
    BY <1>1 DEF TurnType, Stage
  <2>3. TurnOK(e)
    BY <1>1, <2>1, <2>2 DEF TurnOK, Runs
  <2>4. /\ TurnOK(r) /\ r.conv = turn[t].conv
        /\ r.stage = "reopen" \/ (r.stage = "seq" /\ r.kind = "user")
    BY <1>1, <1>3, <2>1, <2>2, <2>3, AppendingOK
  <2>5. Goes(t, r, << >>) /\ status' = status
    BY <1>6 DEF Open
  <2> HIDE DEF r, e
  <2>6. RowsOK(r, rows[t]) /\ Runs(r)
    BY <1>2, <2>4 DEF RowsOK, Runs
  <2>7. TablesInv'
    BY <1>3, <1>4, <2>5 DEF IInv, TablesInv
  <2>8. ASSUME NEW c \in Turn, status'[c] = "active"
        PROVE  (status[c] = "active" \/ Uses(r, c)) /\ (Uses(turn[t], c) => Uses(r, c))
    BY <2>4, <2>5, <2>6, <2>8 DEF Uses
  <2> QED
    BY <1>1, <1>2, <1>3, <2>4, <2>5, <2>6, <2>7, <2>8, ServerGoes, EventsFacts
<1> QED
  BY <1>5, <1>6

LEMMA ReopenStep ==
    ASSUME IInv, NEW t \in Turn, Reopen(t)
    PROVE  IInv'
<1> DEFINE r == Appending(turn[t], "user")
<1>1. /\ TurnOK(turn[t]) /\ RowsOK(turn[t], rows[t]) /\ rows[t] \in Seq(Kind)
      /\ [rows EXCEPT ![t] = rows[t]] = rows /\ turn[t].conv \in Turn /\ turn[t].outcome # "rejected"
      /\ turn[t].stage = "reopen"
  BY Facts DEF Reopen, Runs
<1>2. rows[t] = << >> /\ ~HasReply(<< >>) /\ ~Whole(<< >>)
  BY <1>1 DEF RowsOK, HasReply, Whole
<1>3. /\ rows' = [rows EXCEPT ![t] = rows[t]] /\ last' = last /\ UNCHANGED tab /\ "user" \in Kind
      /\ Goes(t, r, << >>) /\ status' = [status EXCEPT ![turn[t].conv] = "active"]
  BY <1>1 DEF Reopen, messages, Kind
<1>4. status \in [Turn -> Ended \union {"", "active"}] /\ last \in [Turn -> Nat]
  BY DEF IInv, TablesInv
<1>5. TurnOK(r) /\ r.stage = "seq" /\ r.kind = "user" /\ r.conv = turn[t].conv
  BY <1>1, <1>3, AppendingOK
<1> HIDE DEF r
<1>6. RowsOK(r, rows[t]) /\ Runs(r)
  BY <1>2, <1>5 DEF RowsOK, Runs
<1>7. TablesInv'
  BY <1>3, <1>4 DEF IInv, TablesInv
<1>8. ASSUME NEW c \in Turn, status'[c] = "active"
      PROVE  (status[c] = "active" \/ Uses(r, c)) /\ (Uses(turn[t], c) => Uses(r, c))
  BY <1>1, <1>3, <1>4, <1>5, <1>6, <1>8 DEF Uses
<1> QED
  BY <1>1, <1>2, <1>3, <1>5, <1>6, <1>7, <1>8, ServerGoes, EventsFacts

LEMMA ReadSeqStep ==
    ASSUME IInv, NEW t \in Turn, ReadSeq(t)
    PROVE  IInv'
<1> DEFINE r == [turn[t] EXCEPT !.stage = "insert", !.seq = last[turn[t].conv] + 1]
<1>1. /\ TurnOK(turn[t]) /\ RowsOK(turn[t], rows[t]) /\ turn[t] \in TurnType /\ rows[t] \in Seq(Kind)
      /\ [rows EXCEPT ![t] = rows[t]] = rows /\ turn[t].conv \in Turn /\ turn[t].outcome # "rejected"
      /\ turn[t].stage = "seq" /\ Runs(turn[t])
  BY Facts DEF ReadSeq, Runs
<1>2. last \in [Turn -> Nat] /\ last[turn[t].conv] + 1 \in Nat
  <2>1. last \in [Turn -> Nat] /\ turn[t].conv \in Turn
    BY <1>1 DEF IInv, TablesInv
  <2>2. last[turn[t].conv] \in Nat
    BY <2>1
  <2> QED
    BY <2>1, <2>2
<1>3. r \in TurnType
  BY <1>1, <1>2 DEF TurnType, Stage
<1>4. r.stage = "insert" /\ r.kind = turn[t].kind /\ r.conv = turn[t].conv /\ r.outcome = turn[t].outcome
      /\ r.round = turn[t].round /\ r.pass = turn[t].pass
  BY <1>1 DEF TurnType
<1>5. Goes(t, r, << >>) /\ UNCHANGED <<status, rows, last, tab>>
  BY DEF ReadSeq, database, messages
<1> HIDE DEF r
<1>6. TurnOK(r) /\ Runs(r)
  BY <1>1, <1>3, <1>4 DEF TurnOK, Runs
<1>7. RowsOK(r, rows[t])
  BY <1>1, <1>4 DEF RowsOK
<1> QED
  BY <1>1, <1>2, <1>4, <1>5, <1>6, <1>7, EventsFacts, KeepsGoing

(* The row that is inserted, for each kind.                                *)
LEMMA AddRowEffect ==
    ASSUME IInv, NEW t \in Turn, turn[t].stage = "insert", AddRow(t), NEW q, q = Append(rows[t], turn[t].kind)
    PROVE  /\ rows' = [rows EXCEPT ![t] = q] /\ last' \in [Turn -> Nat] /\ q \in Seq(Kind) /\ ~Whole(rows[t])
           /\ turn[t].kind \in {"user", "result"} => HalfOdd(q)
           /\ turn[t].kind = "call" => HalfEven(q)
           /\ turn[t].kind = "assistant" => Whole(q)
           /\ HasReply(q) => Whole(q)
<1>1. /\ TurnOK(turn[t]) /\ RowsOK(turn[t], rows[t]) /\ turn[t] \in TurnType /\ rows[t] \in Seq(Kind)
      /\ turn[t].conv \in Turn
  BY Facts DEF Runs
<1>2. turn[t].kind \in Kind /\ turn[t].seq \in Nat
  BY <1>1 DEF TurnType
<1>3. rows' = [rows EXCEPT ![t] = q] /\ last' \in [Turn -> Nat]
  BY <1>1, <1>2 DEF AddRow, IInv, TablesInv
<1>4. /\ turn[t].kind = "user" => rows[t] = << >>
      /\ turn[t].kind = "result" => HalfEven(rows[t])
      /\ turn[t].kind \in {"call", "assistant"} => HalfOdd(rows[t])
  BY <1>1 DEF RowsOK
<1>5. /\ q \in Seq(Kind)
      /\ turn[t].kind \in {"user", "result"} => HalfOdd(q)
      /\ turn[t].kind = "call" => HalfEven(q)
      /\ turn[t].kind = "assistant" => Whole(q)
  BY <1>1, <1>2, <1>4, RowAdded
<1>6. ~Whole(rows[t])
  <2>1. rows[t] = << >> \/ Half(rows[t])
    BY <1>2, <1>4 DEF Kind, HalfEven, HalfOdd
  <2> QED
    BY <1>1, <2>1, HalfHasNoReply, WholeHasReply
<1>7. HasReply(q) => Whole(q)
  <2>1. Half(q) \/ Whole(q)
    BY <1>2, <1>5 DEF Kind, HalfEven, HalfOdd
  <2> QED
    BY <1>5, <2>1, HalfHasNoReply
<1> QED
  BY <1>3, <1>5, <1>6, <1>7

LEMMA SeqForgotten ==
    ASSUME NEW r, TurnOK(r)
    PROVE  LET e == [r EXCEPT !.seq = 0]
           IN  /\ TurnOK(e) /\ e.conv = r.conv /\ e.kind = r.kind
               /\ e.outcome = r.outcome /\ e.linked = r.linked
<1> DEFINE e == [r EXCEPT !.seq = 0]
<1>1. r \in TurnType
  BY DEF TurnOK
<1>2. /\ e \in TurnType /\ e.stage = r.stage /\ e.conv = r.conv /\ e.kind = r.kind /\ e.outcome = r.outcome
      /\ e.linked = r.linked /\ e.round = r.round /\ e.pass = r.pass /\ e.status = r.status
  BY <1>1 DEF TurnType
<1> QED
  BY <1>2 DEF TurnOK, Runs

LEMMA InsertedForgotten ==
    ASSUME NEW r, TurnOK(r), r.conv \in Turn, r.outcome # "rejected"
    PROVE  LET e == Inserted([r EXCEPT !.seq = 0])
           IN  /\ TurnOK(e) /\ e.conv = r.conv /\ e.outcome = r.outcome /\ e.linked = r.linked
               /\ r.kind = "user" => e.stage = "prompt"
               /\ r.kind = "call" => e.stage = "execute"
               /\ r.kind = "result" => \/ e.stage = "ask"
                                       \/ e.stage = "seq" /\ e.kind \in {"call", "assistant"}
               /\ r.kind = "assistant" => e.stage = "complete"
<1> DEFINE p == [r EXCEPT !.seq = 0]
<1>1. TurnOK(p) /\ p.conv = r.conv /\ p.kind = r.kind /\ p.outcome = r.outcome /\ p.linked = r.linked
  BY SeqForgotten
<1> HIDE DEF p
<1>2. p.conv \in Turn /\ p.outcome # "rejected"
  BY <1>1
<1>3. LET e == Inserted(p)
      IN  /\ TurnOK(e) /\ e.conv = r.conv /\ e.outcome = r.outcome /\ e.linked = r.linked
          /\ r.kind = "user" => e.stage = "prompt"
          /\ r.kind = "call" => e.stage = "execute"
          /\ r.kind = "result" => \/ e.stage = "ask"
                                  \/ e.stage = "seq" /\ e.kind \in {"call", "assistant"}
          /\ r.kind = "assistant" => e.stage = "complete"
  BY <1>1, <1>2, InsertedOK
<1> QED
  BY <1>3 DEF p

LEMMA InsertStep ==
    ASSUME IInv, NEW t \in Turn, Insert(t)
    PROVE  IInv'
<1> DEFINE q == Append(rows[t], turn[t].kind)
           r == Inserted([turn[t] EXCEPT !.seq = 0])
<1>1. turn[t].stage = "insert" /\ AddRow(t) /\ Goes(t, r, << >>) /\ UNCHANGED <<status, tab>>
  BY DEF Insert
<1>2. /\ TurnOK(turn[t]) /\ turn[t].conv \in Turn /\ turn[t].outcome # "rejected" /\ Runs(turn[t])
      /\ turn[t].kind \in Kind
  BY <1>1, Facts DEF Runs, TurnType
<1>3. /\ rows' = [rows EXCEPT ![t] = q] /\ last' \in [Turn -> Nat] /\ q \in Seq(Kind) /\ ~Whole(rows[t])
      /\ turn[t].kind \in {"user", "result"} => HalfOdd(q)
      /\ turn[t].kind = "call" => HalfEven(q)
      /\ turn[t].kind = "assistant" => Whole(q)
      /\ HasReply(q) => Whole(q)
  BY <1>1, AddRowEffect
<1>4. /\ TurnOK(r) /\ r.conv = turn[t].conv
      /\ turn[t].kind = "user" => r.stage = "prompt"
      /\ turn[t].kind = "call" => r.stage = "execute"
      /\ turn[t].kind = "result" => r.stage = "ask" \/ (r.stage = "seq" /\ r.kind \in {"call", "assistant"})
      /\ turn[t].kind = "assistant" => r.stage = "complete"
  BY <1>2, InsertedForgotten
<1> HIDE DEF q, r
<1>5. RowsOK(r, q) /\ Runs(r)
  BY <1>2, <1>3, <1>4 DEF RowsOK, Runs, Kind
<1> QED
  BY <1>1, <1>2, <1>3, <1>4, <1>5, EventsFacts, KeepsGoing

LEMMA InsertFailsStep ==
    ASSUME IInv, NEW t \in Turn, turn[t].stage = "insert", InsertFails(t),
           AddRow(t) \/ UNCHANGED messages, UNCHANGED <<status, tab>>
    PROVE  IInv'
<1>1. PICK q \in Seq(Kind) : /\ HasReply(q) => Whole(q)
                             /\ rows' = [rows EXCEPT ![t] = q] /\ (Whole(rows[t]) => Whole(q))
                             /\ last' \in [Turn -> Nat]
  <2>1. CASE AddRow(t)
    BY <2>1, AddRowEffect
  <2>2. CASE UNCHANGED messages
    <3>1. rows[t] \in Seq(Kind) /\ [rows EXCEPT ![t] = rows[t]] = rows /\ RowsOK(turn[t], rows[t])
      BY Facts
    <3>2. last' \in [Turn -> Nat] /\ rows' = rows
      BY <2>2 DEF messages, IInv, TablesInv
    <3>3. HasReply(rows[t]) => Whole(rows[t])
      BY <3>1 DEF RowsOK
    <3> QED
      BY <3>1, <3>2, <3>3
  <2> QED
    BY <2>1, <2>2
<1>2. Runs(turn[t]) /\ turn[t].stage \notin {"idle", "ended"}
  BY DEF Runs
<1>3. (\E sent \in BOOLEAN : Rejects(t, sent)) \/ Throws(t, "failed")
  BY DEF InsertFails
<1>4. "failed" \in Ended
  BY DEF Ended
<1> QED
  BY <1>1, <1>2, <1>3, <1>4, RejectsStep, ThrowsStep

(* What fails before the stream has begun: a query, or what it is to write. *)
LEMMA QueryFailsStep ==
    ASSUME IInv, NEW t \in Turn, QueryFails(t)
    PROVE  IInv'
<1>1. /\ TurnOK(turn[t]) /\ RowsOK(turn[t], rows[t]) /\ rows[t] \in Seq(Kind)
      /\ [rows EXCEPT ![t] = rows[t]] = rows /\ turn[t].conv \in Turn \union {None}
      /\ turn[t].outcome # "rejected" /\ turn[t].stage \in {"find", "reopen", "prompt"}
  BY Facts DEF QueryFails
<1>2. rows' = [rows EXCEPT ![t] = rows[t]] /\ last' = last /\ last \in [Turn -> Nat] /\ UNCHANGED tab
  BY <1>1 DEF QueryFails, messages, IInv, TablesInv
<1>3. HasReply(rows[t]) => Whole(rows[t])
  BY <1>1 DEF RowsOK
<1>4. CASE Rejects(t, FALSE) /\ UNCHANGED status
  BY <1>1, <1>2, <1>3, <1>4, RejectsStep
<1>5. CASE /\ turn[t].stage = "reopen" /\ Rejects(t, FALSE)
           /\ status' = [status EXCEPT ![turn[t].conv] = "active"]
  BY <1>1, <1>2, <1>3, <1>5, RejectsStep DEF Runs
<1>6. CASE /\ turn[t].stage = "find" /\ turn[t].conv = None
           /\ status' = [status EXCEPT ![t] = "active"]
           /\ Goes(t, [EndOf(t, "rejected") EXCEPT !.conv = t], <<"refused">>)
  <2> DEFINE e == EndOf(t, "rejected")
             r == [e EXCEPT !.conv = t]
  <2>1. TurnOK(e) /\ e.stage = "ended" /\ e.outcome = "rejected"
    BY <1>1, EndOfOK
  <2> HIDE DEF e
  <2>2. e \in TurnType /\ e.round < MaxRounds /\ e.pass < MaxPasses
    BY <2>1 DEF TurnOK
  <2>3. r \in TurnType /\ r.stage = "ended" /\ r.outcome = "rejected" /\ r.conv = t
        /\ r.round = e.round /\ r.pass = e.pass
    BY <2>1, <2>2 DEF TurnType
  <2>4. Goes(t, r, <<"refused">>)
    BY <1>6 DEF e
  <2> HIDE DEF r
  <2>5. TurnOK(r) /\ RowsOK(r, rows[t])
    BY <1>3, <2>2, <2>3 DEF TurnOK, RowsOK, Runs
  <2>6. status \in [Turn -> Ended \union {"", "active"}]
    BY DEF IInv, TablesInv
  <2>7. TablesInv'
    BY <1>2, <1>6, <2>6 DEF IInv, TablesInv
  <2>8. ASSUME NEW c \in Turn, status'[c] = "active"
        PROVE  (status[c] = "active" \/ Uses(r, c)) /\ (Uses(turn[t], c) => Uses(r, c))
    <3>1. ~Uses(turn[t], c)
      BY <1>1, <1>6 DEF Uses, Runs
    <3>2. status[c] = "active" \/ c = t
      BY <1>6, <2>6, <2>8
    <3> QED
      BY <2>3, <3>1, <3>2 DEF Uses
  <2> QED
    BY <1>1, <1>2, <2>3, <2>4, <2>5, <2>7, <2>8, ServerGoes, EventsFacts
<1> QED
  BY <1>4, <1>5, <1>6 DEF QueryFails

(* Between the rows of a turn only its record changes.                     *)
LEMMA GoesOn ==
    ASSUME IInv, NEW t \in Turn, Runs(turn[t]), NEW r, TurnOK(r), Runs(r), r.conv = turn[t].conv,
           RowsOK(r, rows[t]), NEW es \in {<< >>, <<"meta">>}, Goes(t, r, es), UNCHANGED <<database, tab>>
    PROVE  IInv'
<1>1. rows[t] \in Seq(Kind) /\ [rows EXCEPT ![t] = rows[t]] = rows
  BY Facts
<1>2. rows' = [rows EXCEPT ![t] = rows[t]] /\ last' \in [Turn -> Nat] /\ UNCHANGED <<status, tab>>
  BY <1>1 DEF database, messages, IInv, TablesInv
<1>3. es \in Seq(Event) /\ EventsOK(r, rows[t], es)
  BY EventsFacts
<1> QED
  BY <1>1, <1>2, <1>3, KeepsGoing

LEMMA GivesUp ==
    ASSUME IInv, NEW t \in Turn, Runs(turn[t]), UNCHANGED <<messages, tab>>,
           \/ Rejects(t, TRUE) /\ \/ UNCHANGED status
                                  \/ \E x \in Ended : status' = [status EXCEPT ![turn[t].conv] = x]
           \/ UNCHANGED status /\ \E why \in Ended : Throws(t, why)
    PROVE  IInv'
<1>1. /\ rows[t] \in Seq(Kind) /\ [rows EXCEPT ![t] = rows[t]] = rows
      /\ RowsOK(turn[t], rows[t])
  BY Facts
<1>2. rows' = [rows EXCEPT ![t] = rows[t]] /\ last' \in [Turn -> Nat] /\ UNCHANGED tab
  BY <1>1 DEF messages, IInv, TablesInv
<1>3. HasReply(rows[t]) => Whole(rows[t])
  BY <1>1 DEF RowsOK
<1>4. turn[t].stage \notin {"idle", "ended"}
  BY DEF Runs
<1> QED
  BY <1>1, <1>2, <1>3, <1>4, RejectsStep, ThrowsStep

LEMMA ResolvePromptStep ==
    ASSUME IInv, NEW t \in Turn, ResolvePrompt(t)
    PROVE  IInv'
<1> DEFINE r == [turn[t] EXCEPT !.stage = "ask"]
<1>1. /\ TurnOK(turn[t]) /\ RowsOK(turn[t], rows[t]) /\ turn[t] \in TurnType /\ turn[t].conv \in Turn
      /\ turn[t].outcome # "rejected" /\ turn[t].stage = "prompt" /\ Runs(turn[t])
  BY Facts DEF ResolvePrompt, Runs
<1>2. r \in TurnType /\ r.stage = "ask" /\ r.conv = turn[t].conv /\ r.outcome = turn[t].outcome
      /\ r.round = turn[t].round /\ r.pass = turn[t].pass
  BY <1>1 DEF TurnType, Stage
<1>3. Goes(t, r, <<"meta">>) /\ UNCHANGED <<database, tab>>
  BY DEF ResolvePrompt
<1> HIDE DEF r
<1>4. TurnOK(r) /\ Runs(r) /\ RowsOK(r, rows[t])
  BY <1>1, <1>2 DEF TurnOK, Runs, RowsOK
<1> QED
  BY <1>1, <1>2, <1>3, <1>4, GoesOn

LEMMA AnswerCallsStep ==
    ASSUME IInv, NEW t \in Turn, NEW has \in BOOLEAN, NEW n \in 1..MaxCalls, AnswerCalls(t, has, n)
    PROVE  IInv'
<1> DEFINE e == [turn[t] EXCEPT !.said = (~turn[t].recovering /\ (turn[t].said \/ has)), !.calls = n]
           r == Appending(e, "call")
<1>1. /\ TurnOK(turn[t]) /\ RowsOK(turn[t], rows[t]) /\ turn[t] \in TurnType /\ turn[t].conv \in Turn
      /\ turn[t].outcome # "rejected" /\ turn[t].stage = "ask" /\ Runs(turn[t])
  BY Facts DEF AnswerCalls, Runs
<1>2. n \in Nat /\ "call" \in Kind
  BY ChatAssumption DEF Kind
<1>3. e \in TurnType
  BY <1>1, <1>2 DEF TurnType
<1>4. e.stage = "ask" /\ e.conv = turn[t].conv /\ e.outcome = turn[t].outcome
      /\ e.round = turn[t].round /\ e.pass = turn[t].pass
  BY <1>1 DEF TurnType
<1>5. Goes(t, r, << >>) /\ UNCHANGED <<database, tab>>
  BY DEF AnswerCalls
<1> HIDE DEF e
<1>6. TurnOK(e)
  BY <1>1, <1>3, <1>4 DEF TurnOK, Runs
<1>7. TurnOK(r) /\ r.stage = "seq" /\ r.kind = "call" /\ r.conv = turn[t].conv
  BY <1>1, <1>2, <1>4, <1>6, AppendingOK
<1> HIDE DEF r
<1>8. Runs(r) /\ RowsOK(r, rows[t])
  BY <1>1, <1>7 DEF Runs, RowsOK
<1> QED
  BY <1>1, <1>5, <1>7, <1>8, GoesOn

LEMMA AnswerEndsStep ==
    ASSUME IInv, NEW t \in Turn, NEW has \in BOOLEAN, AnswerEnds(t, has)
    PROVE  IInv'
<1>1. /\ TurnOK(turn[t]) /\ RowsOK(turn[t], rows[t]) /\ turn[t].conv \in Turn
      /\ turn[t].outcome # "rejected" /\ turn[t].stage = "ask" /\ Runs(turn[t])
  BY Facts DEF AnswerEnds, Runs
<1>2. UNCHANGED <<database, tab>>
  BY DEF AnswerEnds
<1>3. CASE Rejects(t, TRUE)
  BY <1>1, <1>2, <1>3, GivesUp DEF database
<1>4. ASSUME NEW r \in {Replies(turn[t]), NextAnswer(turn[t]), Recovers(turn[t])}, Goes(t, r, << >>)
      PROVE  IInv'
  <2>1. /\ TurnOK(r) /\ r.conv = turn[t].conv
        /\ r.stage = "ask" \/ (r.stage = "seq" /\ r.kind = "assistant")
    BY <1>1, RepliesOK, NextAnswerOK, RecoversOK
  <2>2. Runs(r) /\ RowsOK(r, rows[t])
    BY <1>1, <2>1 DEF Runs, RowsOK
  <2> QED
    BY <1>1, <1>2, <1>4, <2>1, <2>2, GoesOn
<1>5. \/ Rejects(t, TRUE)
      \/ \E r \in {Replies(turn[t]), NextAnswer(turn[t]), Recovers(turn[t])} : Goes(t, r, << >>)
  BY DEF AnswerEnds
<1> QED
  BY <1>3, <1>4, <1>5

LEMMA AnswerFailsStep ==
    ASSUME IInv, NEW t \in Turn, AnswerFails(t)
    PROVE  IInv'
<1>1. Runs(turn[t]) /\ UNCHANGED <<database, tab>>
  BY DEF AnswerFails, Runs
<1>2. Rejects(t, TRUE) \/ \E why \in Ended : Throws(t, why)
  BY DEF AnswerFails, Ended
<1> QED
  BY <1>1, <1>2, GivesUp DEF database

LEMMA ExecuteStep ==
    ASSUME IInv, NEW t \in Turn, Execute(t)
    PROVE  IInv'
<1>1. /\ TurnOK(turn[t]) /\ RowsOK(turn[t], rows[t]) /\ turn[t] \in TurnType /\ turn[t].conv \in Turn
      /\ turn[t].outcome # "rejected" /\ turn[t].stage = "execute" /\ Runs(turn[t])
  BY Facts DEF Execute, Runs
<1>2. PICK ok \in BOOLEAN :
          Goes(t, Appending([turn[t] EXCEPT !.toolFailed = (~turn[t].recovering /\ (turn[t].toolFailed \/ ~ok))],
                            "result"), << >>)
  BY DEF Execute
<1> DEFINE e == [turn[t] EXCEPT !.toolFailed = (~turn[t].recovering /\ (turn[t].toolFailed \/ ~ok))]
           r == Appending(e, "result")
<1>3. e \in TurnType
  BY <1>1 DEF TurnType
<1>4. e.stage = "execute" /\ e.conv = turn[t].conv /\ e.outcome = turn[t].outcome
      /\ e.round = turn[t].round /\ e.pass = turn[t].pass
  BY <1>1 DEF TurnType
<1>5. Goes(t, r, << >>) /\ UNCHANGED <<database, tab>> /\ "result" \in Kind
  BY <1>2 DEF Execute, Kind
<1> HIDE DEF e
<1>6. TurnOK(e)
  BY <1>1, <1>3, <1>4 DEF TurnOK, Runs
<1>7. TurnOK(r) /\ r.stage = "seq" /\ r.kind = "result" /\ r.conv = turn[t].conv
  BY <1>1, <1>4, <1>5, <1>6, AppendingOK
<1> HIDE DEF r
<1>8. Runs(r) /\ RowsOK(r, rows[t])
  BY <1>1, <1>7 DEF Runs, RowsOK
<1> QED
  BY <1>1, <1>5, <1>7, <1>8, GoesOn

(* A turn that ends as its conversation does: it answers for it no longer. *)
LEMMA EndsStep ==
    ASSUME IInv, NEW t \in Turn, Runs(turn[t]), NEW why \in Ended, NEW es \in Seq(Event),
           EventsOK(EndOf(t, why), rows[t], es), Goes(t, EndOf(t, why), es),
           status' = [status EXCEPT ![turn[t].conv] = why], UNCHANGED <<messages, tab>>
    PROVE  IInv'
<1> DEFINE r == EndOf(t, why)
<1>1. /\ TurnOK(turn[t]) /\ RowsOK(turn[t], rows[t]) /\ rows[t] \in Seq(Kind)
      /\ [rows EXCEPT ![t] = rows[t]] = rows /\ turn[t].conv \in Turn /\ turn[t].outcome # "rejected"
      /\ turn[t].stage # "ended"
  BY Facts DEF Runs
<1>2. TurnOK(r) /\ r.stage = "ended" /\ r.conv = turn[t].conv /\ r.outcome = why
  BY <1>1, EndOfOK
<1>3. Goes(t, r, es) /\ EventsOK(r, rows[t], es)
  OBVIOUS
<1> HIDE DEF r
<1>4. RowsOK(r, rows[t])
  BY <1>1, <1>2 DEF RowsOK
<1>5. status \in [Turn -> Ended \union {"", "active"}] /\ rows' = [rows EXCEPT ![t] = rows[t]]
  BY <1>1 DEF IInv, TablesInv, messages
<1>6. TablesInv'
  BY <1>5 DEF IInv, TablesInv, messages
<1>7. ASSUME NEW c \in Turn, status'[c] = "active"
      PROVE  (status[c] = "active" \/ Uses(r, c)) /\ (Uses(turn[t], c) => Uses(r, c))
  <2>1. c # turn[t].conv
    BY <1>1, <1>5, <1>7 DEF Ended
  <2> QED
    BY <1>5, <1>7, <2>1 DEF Uses
<1> QED
  BY <1>1, <1>2, <1>3, <1>4, <1>5, <1>6, <1>7, ServerGoes

LEMMA CompleteStep ==
    ASSUME IInv, NEW t \in Turn, Complete(t)
    PROVE  IInv'
<1>1. /\ turn[t].stage = "complete" /\ TurnOK(turn[t]) /\ Whole(rows[t]) /\ "completed" \in Ended
  BY Facts DEF Complete, RowsOK, Ended
<1>2. EndOf(t, "completed").stage = "ended"
  BY <1>1, EndOfOK
<1> QED
  BY <1>1, <1>2, EventsFacts, EndsStep DEF Complete, Finish, Runs

LEMMA CatchStep ==
    ASSUME IInv, NEW t \in Turn, Catch(t)
    PROVE  IInv'
<1>1. turn[t].stage = "catch" /\ TurnOK(turn[t]) /\ turn[t].status \in Ended
  BY Facts DEF Catch, TurnOK
<1>2. EndOf(t, turn[t].status).stage = "ended"
  BY <1>1, EndOfOK
<1> QED
  BY <1>1, <1>2, EventsFacts, EndsStep DEF Catch, Finish, Runs

LEMMA FinishFailsStep ==
    ASSUME IInv, NEW t \in Turn, FinishFails(t)
    PROVE  IInv'
<1>1. turn[t].stage \in {"complete", "catch"} /\ Runs(turn[t]) /\ UNCHANGED <<messages, tab>>
      /\ Rejects(t, TRUE) /\ TurnOK(turn[t])
  BY Facts DEF FinishFails, Runs
<1>2. "completed" \in Ended /\ (turn[t].stage = "catch" => turn[t].status \in Ended)
  BY <1>1 DEF TurnOK, Ended
<1>3. \/ UNCHANGED status
      \/ \E x \in Ended : status' = [status EXCEPT ![turn[t].conv] = x]
  BY <1>1, <1>2 DEF FinishFails, Finish
<1> QED
  BY <1>1, <1>3, GivesUp

LEMMA ServerKept ==
    ASSUME IInv, NEW t \in Turn, ServerStep(t)
    PROVE  IInv'
<1>1. CASE SeqTaken(t)
  BY <1>1, InsertFailsStep DEF SeqTaken, database
<1>2. CASE InsertBreaks(t)
  BY <1>2, InsertFailsStep DEF InsertBreaks
<1>3. CASE Open(t) \/ Reopen(t) \/ ReadSeq(t) \/ Insert(t) \/ ResolvePrompt(t) \/ QueryFails(t)
  BY <1>3, OpenStep, ReopenStep, ReadSeqStep, InsertStep, ResolvePromptStep, QueryFailsStep
<1>4. CASE \E has \in BOOLEAN : AnswerEnds(t, has) \/ \E n \in 1..MaxCalls : AnswerCalls(t, has, n)
  BY <1>4, AnswerEndsStep, AnswerCallsStep
<1>5. CASE AnswerFails(t) \/ Execute(t) \/ Complete(t) \/ Catch(t) \/ FinishFails(t)
  BY <1>5, AnswerFailsStep, ExecuteStep, CompleteStep, CatchStep, FinishFailsStep
<1> QED
  BY <1>1, <1>2, <1>3, <1>4, <1>5 DEF ServerStep

-----------------------------------------------------------------------------
(* The steps of the tab.  They may unlink a turn or begin one.             *)
Like(a, b) ==
    /\ a \in TurnType
    /\ a.stage = b.stage /\ a.conv = b.conv /\ a.kind = b.kind /\ a.outcome = b.outcome
    /\ a.round = b.round /\ a.pass = b.pass /\ a.status = b.status

LEMMA TabGoes ==
    ASSUME IInv, UNCHANGED database, TabInv',
           turn' \in [Turn -> TurnType], chan' \in [Turn -> Seq(Event)],
           \A s \in Turn :
               /\ \/ Like(turn'[s], turn[s])
                  \/ turn[s].stage = "idle" /\ TurnOK(turn'[s]) /\ turn'[s].stage = "find"
               /\ (\A e : Has(chan'[s], e) => Has(chan[s], e)) /\ EndsOnce(chan'[s])
               /\ reading'.turn = s /\ ~reading'.failed /\ Has(chan'[s], "end") /\ ~Has(chan'[s], "error")
                      => Whole(rows[s])
               /\ shown'[s].reply = "done" => Whole(rows[s])
    PROVE  IInv'
<1>1. rows' = rows /\ status' = status /\ TablesInv'
  BY DEF database, messages, IInv, TablesInv
<1>2. ASSUME NEW s \in Turn
      PROVE  /\ (TurnOK(turn[s]) /\ RowsOK(turn[s], rows[s]))'
             /\ turn'[s].stage # "ended" => turn[s].stage # "ended"
             /\ \A c \in Turn : Uses(turn[s], c) => Uses(turn'[s], c)
  <2>1. TurnOK(turn[s]) /\ RowsOK(turn[s], rows[s])
    BY Facts
  <2>2. CASE Like(turn'[s], turn[s])
    BY <1>1, <2>1, <2>2 DEF Like, TurnOK, RowsOK, Runs, Uses
  <2>3. CASE turn[s].stage = "idle" /\ TurnOK(turn'[s]) /\ turn'[s].stage = "find"
    BY <1>1, <2>1, <2>3 DEF TurnOK, RowsOK, Runs, Uses
  <2> QED
    BY <2>2, <2>3
<1>3. ASSUME NEW s \in Turn PROVE StreamOK(s)'
  <2>1. StreamOK(s)
    BY DEF IInv, TurnsInv
  <2>2. ASSUME turn'[s].stage # "ended", NEW i \in DOMAIN chan'[s] PROVE chan'[s][i] = "meta"
    <3>1. Has(chan[s], chan'[s][i])
      BY DEF Has
    <3> QED
      BY <1>2, <2>1, <2>2, <3>1 DEF StreamOK, Has
  <2>3. Has(chan'[s], "message") => Whole(rows[s])
    BY <2>1 DEF StreamOK
  <2> QED
    BY <1>1, <2>2, <2>3 DEF StreamOK
<1>4. TurnsInv'
  BY <1>2, <1>3 DEF TurnsInv
<1>5. ActiveInv'
  BY <1>1, <1>2 DEF IInv, ActiveInv
<1>6. DoneIsWhole'
  BY <1>1 DEF DoneIsWhole
<1> QED
  BY <1>1, <1>4, <1>5, <1>6 DEF IInv

(* Nothing happens to the turns and their streams.                         *)
LEMMA TurnsStay ==
    ASSUME IInv, UNCHANGED <<turn, chan>>
    PROVE  /\ turn' \in [Turn -> TurnType] /\ chan' \in [Turn -> Seq(Event)]
           /\ \A s \in Turn : /\ Like(turn'[s], turn[s]) /\ EndsOnce(chan'[s])
                              /\ \A e : Has(chan'[s], e) => Has(chan[s], e)
BY DEF IInv, TurnsInv, Like, StreamOK

LEMMA NoneIsNoTurn == None \notin Turn
BY ChatAssumption DEF Turn

LEMMA SendMessageStep ==
    ASSUME IInv, NEW t \in Turn, SendMessage(t)
    PROVE  IInv'
<1> DEFINE r == [NoTurn EXCEPT !.stage = "find", !.conv = cid, !.linked = TRUE]
<1>1. cid \in Turn \union {None} /\ turn \in [Turn -> TurnType] /\ chan \in [Turn -> Seq(Event)]
      /\ shown \in [Turn -> ShownType] /\ restores \subseteq RestoreType
  BY DEF IInv, TabInv, TurnsInv
<1>2. NoTurn \in TurnType /\ NoTurn.round = 0 /\ NoTurn.pass = 0 /\ NoTurn.outcome = ""
  BY DEF NoTurn, TurnType, Stage, Kind
<1>3. r \in TurnType /\ r.stage = "find" /\ r.round = 0 /\ r.pass = 0 /\ r.outcome = ""
  BY <1>1, <1>2 DEF TurnType, Stage
<1>4. 0 < MaxRounds /\ 0 < MaxPasses
  BY ChatAssumption
<1>5. /\ turn[t].stage = "idle" /\ turn' = [turn EXCEPT ![t] = r]
      /\ reading' = [NotReading EXCEPT !.turn = t]
      /\ shown' = [shown EXCEPT ![t] = [live |-> TRUE, reply |-> "streaming"]]
      /\ UNCHANGED <<database, chan, cid, restores>>
  BY DEF SendMessage
<1> HIDE DEF r
<1>6. TurnOK(r)
  BY <1>3, <1>4 DEF TurnOK, Runs
<1>7. reading' \in ReadingType /\ reading'.turn = t
  BY <1>5 DEF NotReading, ReadingType
<1>8. shown' \in [Turn -> ShownType] /\ shown'[t].reply = "streaming"
      /\ \A s \in Turn \ {t} : shown'[s] = shown[s]
  BY <1>1, <1>5 DEF ShownType
<1>9. TabInv'
  BY <1>1, <1>5, <1>7, <1>8 DEF TabInv
<1>10. turn' \in [Turn -> TurnType] /\ turn'[t] = r /\ \A s \in Turn \ {t} : turn'[s] = turn[s]
  BY <1>1, <1>3, <1>5
<1>11. ASSUME NEW s \in Turn
       PROVE  /\ \/ Like(turn'[s], turn[s])
                 \/ turn[s].stage = "idle" /\ TurnOK(turn'[s]) /\ turn'[s].stage = "find"
              /\ (\A e : Has(chan'[s], e) => Has(chan[s], e)) /\ EndsOnce(chan'[s])
              /\ reading'.turn = s /\ ~reading'.failed /\ Has(chan'[s], "end") /\ ~Has(chan'[s], "error")
                     => Whole(rows[s])
              /\ shown'[s].reply = "done" => Whole(rows[s])
  <2>1. StreamOK(s) /\ (shown[s].reply = "done" => Whole(rows[s])) /\ turn[s] \in TurnType
    BY DEF IInv, TurnsInv, DoneIsWhole
  <2>2. \/ Like(turn'[s], turn[s])
        \/ turn[s].stage = "idle" /\ TurnOK(turn'[s]) /\ turn'[s].stage = "find"
    BY <1>3, <1>5, <1>6, <1>10, <2>1 DEF Like
  <2>3. s = t => ~Has(chan'[s], "end")
    BY <1>5, <2>1 DEF StreamOK, Has
  <2>4. EndsOnce(chan'[s])
    BY <1>5, <2>1 DEF StreamOK
  <2> QED
    BY <1>5, <1>7, <1>8, <2>1, <2>2, <2>3, <2>4
<1> QED
  BY <1>1, <1>5, <1>9, <1>10, <1>11, TabGoes

LEMMA StartNewConversationStep ==
    ASSUME IInv, StartNewConversation
    PROVE  IInv'
<1>1. /\ cid' = None /\ shown' = [t \in Turn |-> NotShown] /\ reading' = reading /\ reading.turn = None
      /\ restores' = {[r EXCEPT !.dropped = TRUE] : r \in restores}
      /\ UNCHANGED <<database, turn, chan>>
  BY DEF StartNewConversation, server
<1>2. restores' \subseteq RestoreType
  BY <1>1 DEF IInv, TabInv, RestoreType
<1>3. TabInv'
  BY <1>1, <1>2 DEF IInv, TabInv, NotShown, ShownType
<1>4. \A s \in Turn : shown'[s].reply # "done" /\ reading'.turn # s
  BY <1>1, NoneIsNoTurn DEF NotShown
<1> QED
  BY <1>1, <1>3, <1>4, TurnsStay, TabGoes

(* While nothing is read or shown anew, the rest of the tab may change.    *)
LEMMA TabChanges ==
    ASSUME IInv, UNCHANGED <<server, reading>>, TabInv',
           \A s \in Turn : shown'[s].reply = "done" => Whole(rows[s])
    PROVE  IInv'
<1>1. UNCHANGED <<database, turn, chan, reading>>
  BY DEF server
<1>2. \A s \in Turn : StreamOK(s)
  BY DEF IInv, TurnsInv
<1>3. \A s \in Turn : reading'.turn = s /\ ~reading'.failed /\ Has(chan'[s], "end") /\ ~Has(chan'[s], "error")
          => Whole(rows[s])
  BY <1>1, <1>2 DEF StreamOK
<1> QED
  BY <1>1, <1>3, TurnsStay, TabGoes

LEMMA SelectConversationStep ==
    ASSUME IInv, NEW c \in Turn, SelectConversation(c)
    PROVE  IInv'
<1>1. /\ cid' = c /\ restores' = restores \union {[conv |-> c, before |-> cid, dropped |-> FALSE]}
      /\ UNCHANGED <<server, reading, shown>>
  BY DEF SelectConversation
<1>2. restores' \subseteq RestoreType
  <2>1. cid \in Turn \union {None} /\ restores \subseteq RestoreType
    BY DEF IInv, TabInv
  <2>2. [conv |-> c, before |-> cid, dropped |-> FALSE] \in RestoreType
    BY <2>1 DEF RestoreType
  <2> QED
    BY <1>1, <2>1, <2>2
<1>3. TabInv'
  BY <1>1, <1>2 DEF IInv, TabInv
<1>4. \A s \in Turn : shown'[s].reply = "done" => Whole(rows[s])
  BY <1>1 DEF IInv, DoneIsWhole
<1> QED
  BY <1>1, <1>3, <1>4, TabChanges

LEMMA RestoreArrivesStep ==
    ASSUME IInv, NEW r \in restores, RestoreArrives(r)
    PROVE  IInv'
<1>1. shown' = Restored(r.conv) /\ restores' = restores \ {r} /\ UNCHANGED <<server, cid, reading>>
  BY DEF RestoreArrives
<1>2. shown' \in [Turn -> ShownType]
  BY <1>1 DEF Restored, ShownType
<1>3. TabInv'
  BY <1>1, <1>2 DEF IInv, TabInv
<1>4. ASSUME NEW s \in Turn, shown'[s].reply = "done" PROVE Whole(rows[s])
  <2>1. HasReply(rows[s])
    BY <1>1, <1>4 DEF Restored, HasReply
  <2> QED
    BY <2>1, Facts DEF RowsOK
<1> QED
  BY <1>1, <1>3, <1>4, TabChanges

LEMMA RestoreFailsStep ==
    ASSUME IInv, NEW r \in restores, RestoreFails(r)
    PROVE  IInv'
<1>1. cid' = r.before /\ restores' = restores \ {r} /\ UNCHANGED <<server, reading, shown>>
  BY DEF RestoreFails
<1>2. r.before \in Turn \union {None}
  BY DEF IInv, TabInv, RestoreType
<1>3. TabInv'
  BY <1>1, <1>2 DEF IInv, TabInv
<1>4. \A s \in Turn : shown'[s].reply = "done" => Whole(rows[s])
  BY <1>1 DEF IInv, DoneIsWhole
<1> QED
  BY <1>1, <1>3, <1>4, TabChanges

(* The tab has read of turn t what it wanted to.                           *)
LEMMA Unlinked ==
    ASSUME IInv, NEW t \in Turn, turn' = [turn EXCEPT ![t].linked = FALSE]
    PROVE  turn' \in [Turn -> TurnType] /\ \A s \in Turn : Like(turn'[s], turn[s])
<1> DEFINE r == [turn[t] EXCEPT !.linked = FALSE]
<1>1. turn \in [Turn -> TurnType] /\ turn[t] \in TurnType
  BY DEF IInv, TurnsInv
<1>2. Like(r, turn[t])
  BY <1>1 DEF Like, TurnType
<1>3. turn' = [turn EXCEPT ![t] = r]
  OBVIOUS
<1> HIDE DEF r
<1>4. r \in TurnType
  BY <1>2 DEF Like
<1>5. \A s \in Turn : turn[s] \in TurnType /\ Like(turn[s], turn[s])
  BY <1>1 DEF Like
<1> QED
  BY <1>1, <1>2, <1>3, <1>4, <1>5

(* A reply is settled: it is done only if all of it has been stored.       *)
LEMMA SettlesStep ==
    ASSUME IInv, NEW t \in Turn, NEW reply \in {"", "streaming", "done", "error", "canceled"}, Settles(t, reply),
           reply = "done" => ~shown[t].live \/ Whole(rows[t]),
           NEW q \in Seq(Event), chan' = [chan EXCEPT ![t] = q], EndsOnce(q), \A e : Has(q, e) => Has(chan[t], e),
           cid' \in Turn \union {None}, UNCHANGED <<database, restores>>
    PROVE  IInv'
<1>1. /\ turn' = [turn EXCEPT ![t].linked = FALSE] /\ reading' = NotReading
      /\ shown' = IF shown[t].live THEN [shown EXCEPT ![t].reply = reply] ELSE shown
  BY DEF Settles, Update
<1>2. shown \in [Turn -> ShownType] /\ chan \in [Turn -> Seq(Event)]
      /\ \A s \in Turn : EndsOnce(chan[s]) /\ (shown[s].reply = "done" => Whole(rows[s]))
  BY DEF IInv, TabInv, TurnsInv, StreamOK, DoneIsWhole
<1>3. /\ shown' \in [Turn -> ShownType]
      /\ \A s \in Turn : shown'[s].reply = "done" => Whole(rows[s])
  <2>1. CASE ~shown[t].live
    BY <1>1, <1>2, <2>1
  <2>2. CASE shown[t].live
    <3>1. shown' = [shown EXCEPT ![t].reply = reply]
      BY <1>1, <2>2
    <3>2. shown' \in [Turn -> ShownType] /\ shown'[t].reply = reply
      BY <1>2, <3>1 DEF ShownType
    <3>3. \A s \in Turn \ {t} : shown'[s] = shown[s]
      BY <1>2, <3>1
    <3> QED
      BY <1>2, <2>2, <3>2, <3>3
  <2> QED
    BY <2>1, <2>2
<1>4. reading' \in ReadingType /\ \A s \in Turn : reading'.turn # s
  BY <1>1, NoneIsNoTurn DEF NotReading, ReadingType
<1>5. TabInv'
  BY <1>3, <1>4 DEF IInv, TabInv
<1>6. chan' \in [Turn -> Seq(Event)]
      /\ \A s \in Turn : EndsOnce(chan'[s]) /\ \A e : Has(chan'[s], e) => Has(chan[s], e)
  BY <1>2
<1>7. turn' \in [Turn -> TurnType] /\ \A s \in Turn : Like(turn'[s], turn[s])
  BY <1>1, Unlinked
<1> QED
  BY <1>3, <1>4, <1>5, <1>6, <1>7, TabGoes

LEMMA StopReadingStep ==
    ASSUME IInv, NEW t \in Turn, StopReading(t)
    PROVE  IInv'
<1>1. /\ Settles(t, "canceled") \/ Settles(t, "error")
      /\ chan' = [chan EXCEPT ![t] = << >>] /\ UNCHANGED <<database, cid, restores>>
  BY DEF StopReading
<1>2. << >> \in Seq(Event) /\ EndsOnce(<< >>) /\ \A e : ~Has(<< >>, e)
  BY DEF EndsOnce, Has
<1>3. cid' \in Turn \union {None}
  BY <1>1 DEF IInv, TabInv
<1> QED
  BY <1>1, <1>2, <1>3, SettlesStep

LEMMA ReadEventStep ==
    ASSUME IInv, NEW t \in Turn, ReadEvent(t)
    PROVE  IInv'
<1> DEFINE e == Head(chan[t])
           q == Tail(chan[t])
<1>1. /\ reading.turn = t /\ chan[t] # << >> /\ Apply(t, e)
      /\ chan' = [chan EXCEPT ![t] = q] /\ UNCHANGED <<database, restores>>
  BY DEF ReadEvent
<1>2. /\ shown \in [Turn -> ShownType] /\ chan \in [Turn -> Seq(Event)] /\ turn \in [Turn -> TurnType]
      /\ reading \in ReadingType
      /\ \A s \in Turn : StreamOK(s) /\ (shown[s].reply = "done" => Whole(rows[s]))
  BY DEF IInv, TabInv, TurnsInv, DoneIsWhole
<1>3. /\ q \in Seq(Event) /\ e \in Event /\ Has(chan[t], e) /\ EndsOnce(q)
      /\ \A x : Has(q, x) => Has(chan[t], x)
      /\ \A x : Has(chan[t], x) => x = e \/ Has(q, x)
      /\ e = "end" => \A x : Has(chan[t], x) => x = "end"
  BY <1>1, <1>2, TailOf DEF StreamOK
<1> HIDE DEF e, q
<1>4. cid' \in Turn \union {None}
  <2>1. turn[t].conv \in Turn \union {None} /\ cid \in Turn \union {None}
    BY Facts DEF IInv, TabInv
  <2>2. cid' = IF e = "meta" THEN turn[t].conv ELSE cid
    BY <1>1 DEF Apply
  <2> QED
    BY <2>1, <2>2
<1>5. CASE e = "end"
  <2>1. PICK reply \in SettledReplies(t) : Settles(t, reply)
    BY <1>1, <1>5 DEF Apply, Ended
  <2>2. ~reading.failed => Whole(rows[t])
    <3>1. Has(chan[t], "end") /\ ~Has(chan[t], "error")
      BY <1>3, <1>5
    <3> QED
      BY <1>1, <1>2, <3>1 DEF StreamOK
  <2>3. reply = "done" => Whole(rows[t])
    BY <2>1, <2>2 DEF SettledReplies
  <2>4. reply \in {"", "streaming", "done", "error", "canceled"}
    BY <1>2, <2>1 DEF SettledReplies, ShownType
  <2> QED
    BY <1>1, <1>3, <1>4, <2>1, <2>3, <2>4, SettlesStep
<1>6. CASE e = "refused"
  <2>1. Settles(t, "error")
    BY <1>1, <1>6 DEF Apply, Ended
  <2> QED
    BY <1>1, <1>3, <1>4, <2>1, SettlesStep
<1>7. CASE e \notin {"end", "refused"}
  <2>1. /\ turn' = turn
        /\ \/ shown' = shown
           \/ e \in {"message", "error"} /\ Update(t, IF e = "message" THEN "done" ELSE "error")
    BY <1>1, <1>7 DEF Apply, Ended
  <2>2. \/ reading' = reading
        \/ e = "error" /\ reading' = [reading EXCEPT !.failed = TRUE]
        \/ e \in Ended /\ reading' = [reading EXCEPT !.done = e]
    BY <1>1, <1>7 DEF Apply
  <2>3. reading' \in ReadingType /\ reading'.turn = t /\ (reading'.failed = reading.failed \/ reading'.failed)
    BY <1>1, <1>2, <2>2 DEF ReadingType
  <2>4. e = "error" => reading'.failed
    BY <1>1, <1>2, <1>7 DEF Apply, Ended, ReadingType
  <2>5. \/ shown' = shown
        \/ shown' = [shown EXCEPT ![t].reply = "error"]
        \/ e = "message" /\ shown' = [shown EXCEPT ![t].reply = "done"]
    BY <2>1 DEF Update
  <2>6. shown' \in [Turn -> ShownType]
    BY <1>2, <2>5 DEF ShownType
  <2>7. ASSUME NEW s \in Turn, shown'[s].reply = "done" PROVE Whole(rows[s])
    <3>1. shown[s].reply = "done" \/ (s = t /\ e = "message")
      <4>1. CASE s # t
        BY <1>2, <2>5, <2>7, <4>1
      <4>2. CASE s = t /\ shown' = [shown EXCEPT ![t].reply = "error"]
        <5>1. shown[t] \in ShownType /\ shown'[t] = [shown[t] EXCEPT !.reply = "error"]
          BY <1>2, <4>2
        <5>2. shown'[t].reply = "error"
          BY <5>1 DEF ShownType
        <5> QED
          BY <2>7, <4>2, <5>2
      <4> QED
        BY <2>5, <2>7, <4>1, <4>2
    <3> QED
      BY <1>2, <1>3, <3>1 DEF StreamOK
  <2>8. TabInv'
    BY <1>1, <1>4, <2>3, <2>6 DEF IInv, TabInv
  <2>9. chan' \in [Turn -> Seq(Event)] /\ chan'[t] = q /\ \A s \in Turn \ {t} : chan'[s] = chan[s]
    BY <1>1, <1>2, <1>3
  <2>10. turn' \in [Turn -> TurnType] /\ \A s \in Turn : Like(turn'[s], turn[s])
    BY <1>2, <2>1 DEF Like
  <2>11. ASSUME NEW s \in Turn
         PROVE  /\ EndsOnce(chan'[s]) /\ \A x : Has(chan'[s], x) => Has(chan[s], x)
                /\ reading'.turn = s /\ ~reading'.failed /\ Has(chan'[s], "end") /\ ~Has(chan'[s], "error")
                      => Whole(rows[s])
    <3>1. EndsOnce(chan'[s]) /\ \A x : Has(chan'[s], x) => Has(chan[s], x)
      BY <1>2, <1>3, <2>9 DEF StreamOK
    <3>2. ASSUME s = t, ~reading'.failed, Has(chan'[s], "end"), ~Has(chan'[s], "error") PROVE Whole(rows[s])
      <4>1. ~Has(chan[t], "error") /\ Has(chan[t], "end")
        BY <1>3, <2>4, <2>9, <3>1, <3>2
      <4>2. ~reading.failed
        BY <2>3, <3>2
      <4> QED
        BY <1>1, <1>2, <3>2, <4>1, <4>2 DEF StreamOK
    <3> QED
      BY <2>3, <3>1, <3>2
  <2> QED
    BY <1>1, <2>7, <2>8, <2>9, <2>10, <2>11, TabGoes
<1> QED
  BY <1>5, <1>6, <1>7

-----------------------------------------------------------------------------
(* Whose replies the tab shows.  Nothing has been written of a turn that is *)
(* early; "meta", the first event of the others, tells their conversation. *)
Early(r) ==
    \/ r.stage \in {"idle", "find", "reopen", "prompt"}
    \/ r.stage \in {"seq", "insert"} /\ r.kind = "user"

LinkInv ==
    \A t \in Turn :
        /\ Early(turn[t]) => chan[t] = << >>
        /\ rows[t] # << >> => turn[t].conv \in Turn
        /\ reading.turn = t => turn[t].stage # "idle" /\ turn[t].linked /\ ~restoring

(* The tab is in the conversation of the turn it reads, or is to be told.  *)
KnowsConv(t) ==
    \/ turn[t].conv = cid
    \/ cid = None /\ \/ Early(turn[t]) \/ chan[t] = <<"refused">>
                     \/ chan[t] # << >> /\ Head(chan[t]) = "meta"

ReadInv == ~crossed => \A t \in Turn : reading.turn = t => KnowsConv(t)

(* One selection that counts is under way at most.                         *)
RestoreInv ==
    ~crossed => \A r \in restores : ~r.dropped =>
        /\ restoring /\ cid = r.conv
        /\ \A t \in Turn : shown[t].reply = "done" => turn[t].conv = r.before
        /\ \A s \in restores : ~s.dropped => s = r

ConvInv == LinkInv /\ ReadInv /\ RestoreInv /\ RepliesAreOfConversation

LEMMA InitConvInv == Init => ConvInv
<1> SUFFICES ASSUME Init PROVE ConvInv
  OBVIOUS
<1>1. LinkInv
  BY NoneIsNoTurn DEF Init, LinkInv, NotReading
<1>2. ReadInv /\ RestoreInv
  BY NoneIsNoTurn DEF Init, ReadInv, RestoreInv, NotReading
<1>3. RepliesAreOfConversation
  BY DEF Init, RepliesAreOfConversation, NotShown
<1> QED
  BY <1>1, <1>2, <1>3 DEF ConvInv

LEMMA DoneHasConv ==
    ASSUME IInv, LinkInv, NEW t \in Turn, shown[t].reply = "done"
    PROVE  turn[t].conv \in Turn /\ turn[t].stage \notin {"idle", "find"}
<1>1. Whole(rows[t]) /\ rows[t] \in Seq(Kind) /\ RowsOK(turn[t], rows[t])
  BY Facts DEF IInv, DoneIsWhole
<1>2. rows[t] # << >>
  BY <1>1, WholeHasReply
<1> QED
  BY <1>1, <1>2 DEF LinkInv, RowsOK

(* What every step of the server's turn t has in common.                   *)
Shape(t, r, es) ==
    /\ Goes(t, r, es) /\ r.linked = turn[t].linked /\ r.stage # "idle" /\ turn[t].stage \notin {"idle", "ended"}
    /\ \/ r.conv = turn[t].conv
       \/ turn[t].stage = "find" /\ turn[t].conv = None /\ r.conv = t
    /\ Early(r) => Early(turn[t]) /\ es = << >>
    /\ Early(turn[t]) => Early(r) \/ es \in {<<"meta">>, <<"refused">>}
    /\ \A s \in Turn \ {t} : rows'[s] = rows[s]
    /\ rows'[t] = rows[t] \/ Runs(turn[t])

LEMMA ShapeKeeps ==
    ASSUME IInv, ConvInv, NEW t \in Turn, NEW r, NEW es \in Seq(Event), Shape(t, r, es), UNCHANGED tab
    PROVE  ConvInv'
<1> USE DEF tab
<1>1. /\ turn \in [Turn -> TurnType] /\ chan \in [Turn -> Seq(Event)] /\ StreamOK(t) /\ chan[t] \in Seq(Event)
      /\ RowsOK(turn[t], rows[t]) /\ (Runs(turn[t]) => turn[t].conv \in Turn)
  BY Facts DEF IInv, TurnsInv
<1>2. /\ turn' = [turn EXCEPT ![t] = r]
      /\ chan' = [chan EXCEPT ![t] = IF turn[t].linked THEN @ \o es ELSE @]
  BY DEF Shape, Goes
<1>3. /\ turn'[t] = r /\ chan'[t] = IF turn[t].linked THEN chan[t] \o es ELSE chan[t]
      /\ \A s \in Turn \ {t} : turn'[s] = turn[s] /\ chan'[s] = chan[s] /\ rows'[s] = rows[s]
  BY <1>1, <1>2 DEF Shape
<1>4. << >> \o es = es /\ chan[t] \o << >> = chan[t]
  BY <1>1, ConcatEmptySeq
<1>5. LinkInv'
  <2>1. ASSUME Early(r) PROVE chan'[t] = << >>
    <3>1. chan[t] = << >> /\ es = << >>
      BY <2>1 DEF Shape, ConvInv, LinkInv
    <3> QED
      BY <1>3, <1>4, <3>1
  <2>2. rows'[t] # << >> => r.conv \in Turn
    <3>1. turn[t].stage = "find" => rows[t] = << >> /\ ~Runs(turn[t])
      BY <1>1 DEF RowsOK, Runs
    <3>2. rows'[t] # << >> => turn[t].conv \in Turn /\ turn[t].stage # "find"
      BY <1>1, <3>1 DEF Shape, ConvInv, LinkInv
    <3> QED
      BY <3>2 DEF Shape
  <2> QED
    BY <1>3, <2>1, <2>2 DEF Shape, ConvInv, LinkInv
<1>6. ReadInv'
  <2> SUFFICES ASSUME ~crossed, NEW s \in Turn, reading.turn = s PROVE KnowsConv(s)'
    BY DEF ReadInv
  <2>1. KnowsConv(s) /\ turn[s].linked /\ (Early(turn[s]) => chan[s] = << >>)
    BY DEF ConvInv, ReadInv, LinkInv
  <2>2. CASE s # t
    BY <1>3, <2>1, <2>2 DEF KnowsConv
  <2>3. CASE s = t /\ r.conv = turn[t].conv /\ turn[t].conv = cid
    BY <1>3, <2>3 DEF KnowsConv
  <2>4. CASE s = t /\ cid = None /\ Early(turn[t])
    <3>1. chan'[t] = es
      BY <1>3, <1>4, <2>1, <2>4
    <3>2. Early(r) \/ es = <<"meta">> \/ es = <<"refused">>
      BY <2>4 DEF Shape
    <3>3. <<"meta">> # << >> /\ Head(<<"meta">>) = "meta"
      OBVIOUS
    <3> QED
      BY <1>3, <2>4, <3>1, <3>2, <3>3 DEF KnowsConv
  <2>5. ~(s = t /\ chan[t] = <<"refused">>)
    <3>1. Len(<<"refused">>) = 1 /\ 1 \in DOMAIN <<"refused">> /\ <<"refused">>[1] = "refused"
      OBVIOUS
    <3> QED
      BY <1>1, <3>1 DEF StreamOK, Shape
  <2>6. CASE s = t /\ cid = None /\ chan[t] # << >> /\ Head(chan[t]) = "meta"
    <3>1. chan[t] \o es # << >> /\ Head(chan[t] \o es) = "meta"
      <4>1. Len(chan[t]) \in Nat \ {0} /\ Len(es) \in Nat /\ chan[t] \o es \in Seq(Event)
            /\ Len(chan[t] \o es) = Len(chan[t]) + Len(es) /\ (chan[t] \o es)[1] = chan[t][1]
        BY <1>1, <2>6, EmptySeq, ConcatProperties, LenProperties
      <4>2. chan[t] \o es # << >>
        BY <4>1
      <4>3. Head(chan[t] \o es) = (chan[t] \o es)[1] /\ Head(chan[t]) = chan[t][1]
        BY <1>1, <2>6, <4>1, <4>2
      <4> QED
        BY <2>6, <4>1, <4>2, <4>3
    <3>2. chan'[t] # << >> /\ Head(chan'[t]) = "meta"
      BY <1>3, <2>6, <3>1
    <3> QED
      BY <2>6, <3>2 DEF KnowsConv
  <2>7. CASE s = t /\ turn[t].conv = cid /\ r.conv # turn[t].conv
    <3>1. cid = None /\ Early(turn[t])
      BY <2>7 DEF Shape, Early
    <3> QED
      BY <2>4, <2>7, <3>1
  <2> QED
    BY <2>1, <2>2, <2>3, <2>4, <2>5, <2>6, <2>7 DEF KnowsConv
<1>7. \A s \in Turn : shown[s].reply = "done" => turn'[s].conv = turn[s].conv
  BY <1>3, DoneHasConv DEF ConvInv, Shape
<1>8. RestoreInv' /\ RepliesAreOfConversation'
  BY <1>7 DEF ConvInv, RestoreInv, RepliesAreOfConversation
<1> QED
  BY <1>5, <1>6, <1>8 DEF ConvInv

Shaped(t) == \E r : \E es \in Seq(Event) : Shape(t, r, es)

(* A turn that has written something goes on, or ends.                     *)
LEMMA LateShape ==
    ASSUME NEW t \in Turn, Runs(turn[t]), ~Early(turn[t]), NEW r, NEW es \in Seq(Event), Goes(t, r, es),
           r.linked = turn[t].linked, r.stage # "idle", r.conv = turn[t].conv, ~Early(r),
           \A s \in Turn \ {t} : rows'[s] = rows[s]
    PROVE  Shaped(t)
<1>1. turn[t].stage \notin {"idle", "ended"}
  BY DEF Runs
<1>2. Shape(t, r, es)
  BY <1>1 DEF Shape
<1> QED
  BY <1>2 DEF Shaped

LEMMA RejectsShape ==
    ASSUME IInv, NEW t \in Turn, turn[t].stage \notin {"idle", "ended"}, NEW sent \in BOOLEAN, Rejects(t, sent),
           sent => ~Early(turn[t]),
           \A s \in Turn \ {t} : rows'[s] = rows[s], rows'[t] = rows[t] \/ Runs(turn[t])
    PROVE  Shaped(t)
<1> DEFINE r == EndOf(t, "rejected")
           es == IF sent THEN <<"error", "failed", "end">> ELSE <<"refused">>
<1>1. TurnOK(turn[t])
  BY Facts
<1>2. r.stage = "ended" /\ r.conv = turn[t].conv /\ r.linked = turn[t].linked
  BY <1>1, EndOfOK
<1>3. es \in Seq(Event)
  BY <1>2, EventsFacts DEF Ended
<1>4. Goes(t, r, es) /\ (~sent => es = <<"refused">>)
  BY DEF Rejects
<1> HIDE DEF r, es
<1>5. ~Early(r) /\ r.stage # "idle"
  BY <1>2 DEF Early
<1>6. Shape(t, r, es)
  BY <1>2, <1>4, <1>5 DEF Shape
<1> QED
  BY <1>3, <1>6 DEF Shaped

LEMMA ThrowsShape ==
    ASSUME IInv, NEW t \in Turn, Runs(turn[t]), ~Early(turn[t]), NEW why \in Ended, Throws(t, why),
           \A s \in Turn \ {t} : rows'[s] = rows[s]
    PROVE  Shaped(t)
<1> DEFINE r == [turn[t] EXCEPT !.stage = "catch", !.status = why]
<1>1. turn[t] \in TurnType
  BY Facts
<1>2. r.stage = "catch" /\ r.conv = turn[t].conv /\ r.linked = turn[t].linked
  BY <1>1 DEF TurnType
<1>3. Goes(t, r, << >>)
  BY DEF Throws
<1> HIDE DEF r
<1>4. ~Early(r) /\ r.stage # "idle" /\ << >> \in Seq(Event)
  BY <1>2 DEF Early
<1> QED
  BY <1>2, <1>3, <1>4, LateShape

LEMMA OpenShape ==
    ASSUME IInv, NEW t \in Turn, Open(t)
    PROVE  Shaped(t)
<1>1. /\ TurnOK(turn[t]) /\ turn[t] \in TurnType /\ turn[t].conv \in Turn \union {None}
      /\ turn[t].outcome # "rejected" /\ turn[t].stage = "find"
  BY Facts DEF Open
<1>2. rows' = rows /\ "user" \in Kind /\ Early(turn[t])
  BY <1>1 DEF Open, messages, Kind, Early
<1>3. CASE turn[t].conv = None
  <2> DEFINE e == [turn[t] EXCEPT !.conv = t]
             r == Appending(e, "user")
  <2>1. e \in TurnType /\ e.conv = t /\ e.stage = "find" /\ e.outcome = turn[t].outcome
        /\ e.round = turn[t].round /\ e.pass = turn[t].pass /\ e.linked = turn[t].linked
    BY <1>1 DEF TurnType
  <2>2. TurnOK(e)
    BY <1>1, <2>1 DEF TurnOK, Runs
  <2>3. r.stage = "seq" /\ r.kind = "user" /\ r.conv = t /\ r.linked = turn[t].linked
    BY <1>1, <1>2, <2>1, <2>2, AppendingOK
  <2>4. Goes(t, r, << >>)
    BY <1>3 DEF Open
  <2> HIDE DEF r, e
  <2>5. Shape(t, r, << >>)
    BY <1>1, <1>2, <1>3, <2>3, <2>4 DEF Shape, Early
  <2> QED
    BY <2>5, EventsFacts DEF Shaped
<1>4. CASE turn[t].conv # None
  <2> DEFINE e == [turn[t] EXCEPT !.stage = "reopen"]
             r == IF status[turn[t].conv] = "active" THEN Appending(turn[t], "user") ELSE e
  <2>1. turn[t].conv \in Turn
    BY <1>1, <1>4
  <2>2. e.stage = "reopen" /\ e.conv = turn[t].conv /\ e.linked = turn[t].linked
    BY <1>1 DEF TurnType
  <2>3. /\ r.conv = turn[t].conv /\ r.linked = turn[t].linked
        /\ r.stage = "reopen" \/ (r.stage = "seq" /\ r.kind = "user")
    BY <1>1, <1>2, <2>1, <2>2, AppendingOK
  <2>4. Goes(t, r, << >>)
    BY <1>4 DEF Open
  <2> HIDE DEF r, e
  <2>5. Shape(t, r, << >>)
    BY <1>1, <1>2, <2>3, <2>4 DEF Shape, Early
  <2> QED
    BY <2>5, EventsFacts DEF Shaped
<1> QED
  BY <1>3, <1>4

LEMMA ReopenShape ==
    ASSUME IInv, NEW t \in Turn, Reopen(t)
    PROVE  Shaped(t)
<1> DEFINE r == Appending(turn[t], "user")
<1>1. /\ TurnOK(turn[t]) /\ turn[t].conv \in Turn /\ turn[t].outcome # "rejected"
      /\ turn[t].stage = "reopen"
  BY Facts DEF Reopen, Runs
<1>2. rows' = rows /\ Goes(t, r, << >>) /\ "user" \in Kind
  BY DEF Reopen, messages, Kind
<1>3. r.stage = "seq" /\ r.kind = "user" /\ r.conv = turn[t].conv /\ r.linked = turn[t].linked
  BY <1>1, <1>2, AppendingOK
<1> HIDE DEF r
<1>4. Shape(t, r, << >>)
  BY <1>1, <1>2, <1>3 DEF Shape, Early
<1> QED
  BY <1>4, EventsFacts DEF Shaped

LEMMA ReadSeqShape ==
    ASSUME IInv, NEW t \in Turn, ReadSeq(t)
    PROVE  Shaped(t)
<1> DEFINE r == [turn[t] EXCEPT !.stage = "insert", !.seq = last[turn[t].conv] + 1]
<1>1. turn[t] \in TurnType /\ turn[t].stage = "seq"
  BY Facts DEF ReadSeq
<1>2. r.stage = "insert" /\ r.kind = turn[t].kind /\ r.conv = turn[t].conv /\ r.linked = turn[t].linked
  BY <1>1 DEF TurnType
<1>3. Goes(t, r, << >>) /\ rows' = rows
  BY DEF ReadSeq, database, messages
<1> HIDE DEF r
<1>4. Shape(t, r, << >>)
  BY <1>1, <1>2, <1>3 DEF Shape, Early
<1> QED
  BY <1>4, EventsFacts DEF Shaped

LEMMA AddRowOthers ==
    ASSUME IInv, NEW t \in Turn, AddRow(t) \/ UNCHANGED messages
    PROVE  \A s \in Turn \ {t} : rows'[s] = rows[s]
BY DEF AddRow, messages, IInv, TablesInv

LEMMA InsertShape ==
    ASSUME IInv, NEW t \in Turn, Insert(t)
    PROVE  Shaped(t)
<1> DEFINE r == Inserted([turn[t] EXCEPT !.seq = 0])
<1>1. turn[t].stage = "insert" /\ AddRow(t) /\ Goes(t, r, << >>)
  BY DEF Insert
<1>2. /\ TurnOK(turn[t]) /\ turn[t].conv \in Turn /\ turn[t].outcome # "rejected" /\ Runs(turn[t])
      /\ turn[t].kind \in Kind
  BY <1>1, Facts DEF Runs, TurnType
<1>3. /\ r.conv = turn[t].conv /\ r.linked = turn[t].linked
      /\ turn[t].kind = "user" => r.stage = "prompt"
      /\ turn[t].kind = "call" => r.stage = "execute"
      /\ turn[t].kind = "result" => r.stage = "ask" \/ (r.stage = "seq" /\ r.kind \in {"call", "assistant"})
      /\ turn[t].kind = "assistant" => r.stage = "complete"
  BY <1>2, InsertedForgotten
<1>4. \A s \in Turn \ {t} : rows'[s] = rows[s]
  BY <1>1, AddRowOthers
<1> HIDE DEF r
<1>5. Early(turn[t]) <=> turn[t].kind = "user"
  BY <1>1 DEF Early
<1>6. Early(r) <=> turn[t].kind = "user"
  BY <1>2, <1>3 DEF Early, Kind
<1>7. r.stage # "idle"
  BY <1>2, <1>3 DEF Kind
<1>8. Shape(t, r, << >>)
  BY <1>1, <1>2, <1>3, <1>4, <1>5, <1>6, <1>7 DEF Shape
<1> QED
  BY <1>8, EventsFacts DEF Shaped

LEMMA InsertFailsShape ==
    ASSUME IInv, NEW t \in Turn, turn[t].stage = "insert", InsertFails(t),
           AddRow(t) \/ UNCHANGED messages
    PROVE  Shaped(t)
<1>1. \A s \in Turn \ {t} : rows'[s] = rows[s]
  BY AddRowOthers
<1>2. Runs(turn[t]) /\ turn[t].stage \notin {"idle", "ended"}
  BY DEF Runs
<1>3. CASE \E sent \in BOOLEAN : Rejects(t, sent) /\ (sent => turn[t].kind # "user")
  BY <1>1, <1>2, <1>3, RejectsShape DEF Early
<1>4. CASE Throws(t, "failed") /\ turn[t].kind # "user"
  BY <1>1, <1>2, <1>4, ThrowsShape DEF Early, Ended
<1> QED
  BY <1>3, <1>4 DEF InsertFails

LEMMA QueryFailsShape ==
    ASSUME IInv, NEW t \in Turn, QueryFails(t)
    PROVE  Shaped(t)
<1>1. TurnOK(turn[t]) /\ turn[t].stage \in {"find", "reopen", "prompt"} /\ rows' = rows
  BY Facts DEF QueryFails, messages
<1>2. CASE Rejects(t, FALSE)
  BY <1>1, <1>2, RejectsShape
<1>3. CASE /\ turn[t].stage = "find" /\ turn[t].conv = None
           /\ Goes(t, [EndOf(t, "rejected") EXCEPT !.conv = t], <<"refused">>)
  <2> DEFINE e == EndOf(t, "rejected")
             r == [e EXCEPT !.conv = t]
  <2>1. TurnOK(e) /\ e.stage = "ended" /\ e.linked = turn[t].linked
    BY <1>1, EndOfOK
  <2> HIDE DEF e
  <2>2. e \in TurnType
    BY <2>1 DEF TurnOK
  <2>3. r.stage = "ended" /\ r.conv = t /\ r.linked = turn[t].linked
    BY <2>1, <2>2 DEF TurnType
  <2>4. Goes(t, r, <<"refused">>)
    BY <1>3 DEF e
  <2> HIDE DEF r
  <2>5. <<"refused">> \in Seq(Event)
    BY <2>3, EventsFacts
  <2>6. Shape(t, r, <<"refused">>)
    BY <1>1, <1>3, <2>3, <2>4 DEF Shape, Early
  <2> QED
    BY <2>5, <2>6 DEF Shaped
<1> QED
  BY <1>2, <1>3 DEF QueryFails

LEMMA ResolvePromptShape ==
    ASSUME IInv, NEW t \in Turn, ResolvePrompt(t)
    PROVE  Shaped(t)
<1> DEFINE r == [turn[t] EXCEPT !.stage = "ask"]
<1>1. turn[t] \in TurnType /\ turn[t].stage = "prompt"
  BY Facts DEF ResolvePrompt
<1>2. r.stage = "ask" /\ r.conv = turn[t].conv /\ r.linked = turn[t].linked
  BY <1>1 DEF TurnType
<1>3. Goes(t, r, <<"meta">>) /\ rows' = rows /\ <<"meta">> \in Seq(Event)
  BY EventsFacts DEF ResolvePrompt, database, messages
<1> HIDE DEF r
<1>4. Shape(t, r, <<"meta">>)
  BY <1>1, <1>2, <1>3 DEF Shape, Early
<1> QED
  BY <1>3, <1>4 DEF Shaped

LEMMA AnswerCallsShape ==
    ASSUME IInv, NEW t \in Turn, NEW has \in BOOLEAN, NEW n \in 1..MaxCalls, AnswerCalls(t, has, n)
    PROVE  Shaped(t)
<1> DEFINE e == [turn[t] EXCEPT !.said = (~turn[t].recovering /\ (turn[t].said \/ has)), !.calls = n]
           r == Appending(e, "call")
<1>1. /\ TurnOK(turn[t]) /\ turn[t] \in TurnType /\ turn[t].conv \in Turn
      /\ turn[t].outcome # "rejected" /\ turn[t].stage = "ask" /\ Runs(turn[t])
  BY Facts DEF AnswerCalls, Runs
<1>2. n \in Nat /\ "call" \in Kind
  BY ChatAssumption DEF Kind
<1>3. e \in TurnType
  BY <1>1, <1>2 DEF TurnType
<1>4. e.stage = "ask" /\ e.conv = turn[t].conv /\ e.outcome = turn[t].outcome /\ e.linked = turn[t].linked
      /\ e.round = turn[t].round /\ e.pass = turn[t].pass
  BY <1>1 DEF TurnType
<1>5. Goes(t, r, << >>) /\ rows' = rows
  BY DEF AnswerCalls, database, messages
<1> HIDE DEF e
<1>6. TurnOK(e)
  BY <1>1, <1>3, <1>4 DEF TurnOK, Runs
<1>7. r.stage = "seq" /\ r.kind = "call" /\ r.conv = turn[t].conv /\ r.linked = turn[t].linked
  BY <1>1, <1>2, <1>4, <1>6, AppendingOK
<1> HIDE DEF r
<1>8. ~Early(r) /\ ~Early(turn[t]) /\ << >> \in Seq(Event)
  BY <1>1, <1>7 DEF Early
<1> QED
  BY <1>1, <1>5, <1>7, <1>8, LateShape

LEMMA AnswerEndsShape ==
    ASSUME IInv, NEW t \in Turn, NEW has \in BOOLEAN, AnswerEnds(t, has)
    PROVE  Shaped(t)
<1>1. /\ TurnOK(turn[t]) /\ turn[t].conv \in Turn
      /\ turn[t].outcome # "rejected" /\ turn[t].stage = "ask" /\ Runs(turn[t])
  BY Facts DEF AnswerEnds, Runs
<1>2. rows' = rows /\ ~Early(turn[t]) /\ << >> \in Seq(Event)
  BY <1>1 DEF AnswerEnds, database, messages, Early
<1>3. CASE Rejects(t, TRUE)
  BY <1>1, <1>2, <1>3, RejectsShape
<1>4. ASSUME NEW r \in {Replies(turn[t]), NextAnswer(turn[t]), Recovers(turn[t])}, Goes(t, r, << >>)
      PROVE  Shaped(t)
  <2>1. /\ r.conv = turn[t].conv /\ r.linked = turn[t].linked
        /\ r.stage = "ask" \/ (r.stage = "seq" /\ r.kind = "assistant")
    BY <1>1, RepliesOK, NextAnswerOK, RecoversOK
  <2>2. ~Early(r) /\ r.stage # "idle"
    BY <2>1 DEF Early
  <2> QED
    BY <1>1, <1>2, <1>4, <2>1, <2>2, LateShape
<1>5. \/ Rejects(t, TRUE)
      \/ \E r \in {Replies(turn[t]), NextAnswer(turn[t]), Recovers(turn[t])} : Goes(t, r, << >>)
  BY DEF AnswerEnds
<1> QED
  BY <1>3, <1>4, <1>5

LEMMA AnswerFailsShape ==
    ASSUME IInv, NEW t \in Turn, AnswerFails(t)
    PROVE  Shaped(t)
<1>1. Runs(turn[t]) /\ ~Early(turn[t]) /\ turn[t].stage = "ask" /\ rows' = rows
  BY DEF AnswerFails, Runs, Early, database, messages
<1>2. Rejects(t, TRUE) \/ \E why \in Ended : Throws(t, why)
  BY DEF AnswerFails, Ended
<1>3. CASE Rejects(t, TRUE)
  BY <1>1, <1>3, RejectsShape
<1> QED
  BY <1>1, <1>2, <1>3, ThrowsShape

LEMMA ExecuteShape ==
    ASSUME IInv, NEW t \in Turn, Execute(t)
    PROVE  Shaped(t)
<1>1. /\ TurnOK(turn[t]) /\ turn[t] \in TurnType /\ turn[t].conv \in Turn
      /\ turn[t].outcome # "rejected" /\ turn[t].stage = "execute" /\ Runs(turn[t])
  BY Facts DEF Execute, Runs
<1>2. PICK ok \in BOOLEAN :
          Goes(t, Appending([turn[t] EXCEPT !.toolFailed = (~turn[t].recovering /\ (turn[t].toolFailed \/ ~ok))],
                            "result"), << >>)
  BY DEF Execute
<1> DEFINE e == [turn[t] EXCEPT !.toolFailed = (~turn[t].recovering /\ (turn[t].toolFailed \/ ~ok))]
           r == Appending(e, "result")
<1>3. e \in TurnType
  BY <1>1 DEF TurnType
<1>4. e.stage = "execute" /\ e.conv = turn[t].conv /\ e.outcome = turn[t].outcome /\ e.linked = turn[t].linked
      /\ e.round = turn[t].round /\ e.pass = turn[t].pass
  BY <1>1 DEF TurnType
<1>5. Goes(t, r, << >>) /\ rows' = rows /\ "result" \in Kind
  BY <1>2 DEF Execute, database, messages, Kind
<1> HIDE DEF e
<1>6. TurnOK(e)
  BY <1>1, <1>3, <1>4 DEF TurnOK, Runs
<1>7. r.stage = "seq" /\ r.kind = "result" /\ r.conv = turn[t].conv /\ r.linked = turn[t].linked
  BY <1>1, <1>4, <1>5, <1>6, AppendingOK
<1> HIDE DEF r
<1>8. ~Early(r) /\ ~Early(turn[t]) /\ << >> \in Seq(Event)
  BY <1>1, <1>7 DEF Early
<1> QED
  BY <1>1, <1>5, <1>7, <1>8, LateShape

LEMMA EndsShape ==
    ASSUME IInv, NEW t \in Turn, turn[t].stage \in {"complete", "catch"}, NEW why \in Ended, NEW es \in Seq(Event),
           Goes(t, EndOf(t, why), es), rows' = rows
    PROVE  Shaped(t)
<1> DEFINE r == EndOf(t, why)
<1>1. TurnOK(turn[t]) /\ Runs(turn[t]) /\ ~Early(turn[t])
  BY Facts DEF Runs, Early
<1>2. r.stage = "ended" /\ r.conv = turn[t].conv /\ r.linked = turn[t].linked
  BY <1>1, EndOfOK
<1>3. Goes(t, r, es)
  OBVIOUS
<1> HIDE DEF r
<1>4. ~Early(r) /\ r.stage # "idle"
  BY <1>2 DEF Early
<1> QED
  BY <1>1, <1>2, <1>3, <1>4, LateShape

LEMMA FinishShape ==
    ASSUME IInv, NEW t \in Turn, Complete(t) \/ Catch(t) \/ FinishFails(t)
    PROVE  Shaped(t)
<1>1. turn[t].stage \in {"complete", "catch"} /\ rows' = rows /\ TurnOK(turn[t])
  BY Facts DEF Complete, Catch, FinishFails, messages
<1>2. CASE Complete(t)
  <2>1. "completed" \in Ended /\ <<"message", "completed", "end">> \in Seq(Event)
    BY DEF Ended, Event
  <2> QED
    BY <1>1, <1>2, <2>1, EndsShape DEF Complete
<1>3. CASE Catch(t)
  <2>1. turn[t].status \in Ended
    BY <1>1, <1>3 DEF Catch, TurnOK
  <2>2. <<"error", turn[t].status, "end">> \in Seq(Event)
    BY <2>1 DEF Event
  <2> QED
    BY <1>1, <1>3, <2>1, <2>2, EndsShape DEF Catch
<1>4. CASE FinishFails(t)
  <2>1. Rejects(t, TRUE) /\ ~Early(turn[t]) /\ turn[t].stage \notin {"idle", "ended"}
    BY <1>1, <1>4 DEF FinishFails, Early
  <2> QED
    BY <1>1, <2>1, RejectsShape
<1> QED
  BY <1>2, <1>3, <1>4

LEMMA ServerShaped ==
    ASSUME IInv, NEW t \in Turn, ServerStep(t)
    PROVE  Shaped(t)
<1>1. CASE SeqTaken(t)
  BY <1>1, InsertFailsShape DEF SeqTaken, database
<1>2. CASE InsertBreaks(t)
  BY <1>2, InsertFailsShape DEF InsertBreaks
<1>3. CASE Open(t) \/ Reopen(t) \/ ReadSeq(t) \/ Insert(t) \/ ResolvePrompt(t) \/ QueryFails(t)
  BY <1>3, OpenShape, ReopenShape, ReadSeqShape, InsertShape, ResolvePromptShape, QueryFailsShape
<1>4. CASE \E has \in BOOLEAN : AnswerEnds(t, has) \/ \E n \in 1..MaxCalls : AnswerCalls(t, has, n)
  BY <1>4, AnswerEndsShape, AnswerCallsShape
<1>5. CASE AnswerFails(t) \/ Execute(t) \/ Complete(t) \/ Catch(t) \/ FinishFails(t)
  BY <1>5, AnswerFailsShape, ExecuteShape, FinishShape
<1> QED
  BY <1>1, <1>2, <1>3, <1>4, <1>5 DEF ServerStep

LEMMA ServerConv ==
    ASSUME IInv, ConvInv, NEW t \in Turn, ServerStep(t)
    PROVE  ConvInv'
<1>1. UNCHANGED tab
  BY DEF ServerStep, Open, Reopen, ReadSeq, Insert, SeqTaken, InsertBreaks, ResolvePrompt, QueryFails,
         AnswerFails, AnswerEnds, AnswerCalls, Execute, Complete, Catch, FinishFails
<1> QED
  BY <1>1, ServerShaped, ShapeKeeps DEF Shaped

LEMMA SendMessageConv ==
    ASSUME IInv, ConvInv, NEW t \in Turn, SendMessage(t)
    PROVE  ConvInv'
<1> DEFINE r == [NoTurn EXCEPT !.stage = "find", !.conv = cid, !.linked = TRUE]
<1>1. /\ reading.turn = None /\ ~restoring /\ turn[t].stage = "idle" /\ turn' = [turn EXCEPT ![t] = r]
      /\ reading' = [NotReading EXCEPT !.turn = t]
      /\ shown' = [shown EXCEPT ![t] = [live |-> TRUE, reply |-> "streaming"]]
      /\ UNCHANGED <<rows, chan, cid, restoring, restores, crossed>>
  BY DEF SendMessage, database, messages
<1>2. r.stage = "find" /\ r.conv = cid /\ r.linked = TRUE
  BY DEF NoTurn
<1> HIDE DEF r
<1>3. turn \in [Turn -> TurnType] /\ shown \in [Turn -> ShownType] /\ RowsOK(turn[t], rows[t])
  BY Facts DEF IInv, TurnsInv, TabInv
<1>4. /\ turn'[t] = r /\ shown'[t].reply = "streaming"
      /\ \A s \in Turn \ {t} : turn'[s] = turn[s] /\ shown'[s] = shown[s]
  BY <1>1, <1>3
<1>5. reading'.turn = t /\ rows[t] = << >> /\ chan[t] = << >>
  BY <1>1, <1>3 DEF NotReading, RowsOK, ConvInv, LinkInv, Early
<1>6. LinkInv'
  BY <1>1, <1>2, <1>4, <1>5 DEF ConvInv, LinkInv
<1>7. ReadInv'
  BY <1>1, <1>2, <1>4, <1>5 DEF ReadInv, KnowsConv
<1>8. RestoreInv'
  BY <1>1 DEF ConvInv, RestoreInv
<1>9. RepliesAreOfConversation'
  BY <1>1, <1>4 DEF ConvInv, RepliesAreOfConversation
<1> QED
  BY <1>6, <1>7, <1>8, <1>9 DEF ConvInv

(* While a turn is read no selection that counts is under way.             *)
LEMMA NoneSelected ==
    ASSUME ConvInv, NEW t \in Turn, reading.turn = t
    PROVE  ~restoring /\ (~crossed => \A r \in restores : r.dropped)
BY DEF ConvInv, LinkInv, RestoreInv

LEMMA SettlesConv ==
    ASSUME IInv, ConvInv, NEW t \in Turn, reading.turn = t, NEW reply, Settles(t, reply),
           UNCHANGED <<database, cid, restoring, restores, crossed>>,
           \A s \in Turn : Early(turn[s]) => chan'[s] = << >>,
           reply = "done" /\ ~crossed => turn[t].conv = cid
    PROVE  ConvInv'
<1>1. /\ reading' = NotReading /\ turn' = [turn EXCEPT ![t].linked = FALSE] /\ rows' = rows
      /\ shown' = shown \/ shown' = [shown EXCEPT ![t].reply = reply]
  BY DEF Settles, Update, database, messages
<1>2. \A s \in Turn : Like(turn'[s], turn[s])
  BY <1>1, Unlinked
<1>3. \A s \in Turn : turn'[s].conv = turn[s].conv /\ (Early(turn'[s]) <=> Early(turn[s]))
  BY <1>2 DEF Like, Early
<1>4. \A s \in Turn : reading'.turn # s
  BY <1>1, NoneIsNoTurn DEF NotReading
<1>5. LinkInv' /\ ReadInv'
  BY <1>1, <1>3, <1>4 DEF ConvInv, LinkInv, ReadInv
<1>6. RestoreInv'
  BY NoneSelected DEF RestoreInv
<1>7. ASSUME NEW s \in Turn, shown'[s].reply = "done" PROVE shown[s].reply = "done" \/ (s = t /\ reply = "done")
  <2>1. shown \in [Turn -> ShownType]
    BY DEF IInv, TabInv
  <2>2. CASE s = t /\ shown' = [shown EXCEPT ![t].reply = reply]
    <3>1. shown[t] \in ShownType /\ shown'[t] = [shown[t] EXCEPT !.reply = reply]
      BY <2>1, <2>2
    <3>2. shown'[t].reply = reply
      BY <3>1 DEF ShownType
    <3> QED
      BY <1>7, <2>2, <3>2
  <2>3. CASE shown' = shown \/ s # t
    BY <1>1, <1>7, <2>1, <2>3
  <2> QED
    BY <1>1, <2>2, <2>3
<1>8. RepliesAreOfConversation'
  BY <1>3, <1>7, NoneSelected DEF ConvInv, RepliesAreOfConversation
<1> QED
  BY <1>5, <1>6, <1>8 DEF ConvInv

LEMMA StopReadingConv ==
    ASSUME IInv, ConvInv, NEW t \in Turn, StopReading(t)
    PROVE  ConvInv'
<1>1. /\ reading.turn = t /\ chan' = [chan EXCEPT ![t] = << >>]
      /\ UNCHANGED <<database, cid, restoring, restores, crossed>>
  BY DEF StopReading
<1>2. \A s \in Turn : Early(turn[s]) => chan'[s] = << >>
  BY <1>1 DEF IInv, TurnsInv, ConvInv, LinkInv
<1>3. CASE Settles(t, "canceled")
  BY <1>1, <1>2, <1>3, SettlesConv
<1>4. CASE Settles(t, "error")
  BY <1>1, <1>2, <1>4, SettlesConv
<1> QED
  BY <1>3, <1>4 DEF StopReading

LEMMA ReadEventConv ==
    ASSUME IInv, ConvInv, NEW t \in Turn, ReadEvent(t)
    PROVE  ConvInv'
<1> DEFINE e == Head(chan[t])
           q == Tail(chan[t])
<1>1. /\ reading.turn = t /\ chan[t] # << >> /\ Apply(t, e) /\ chan' = [chan EXCEPT ![t] = q]
      /\ cid' = IF e = "meta" THEN turn[t].conv ELSE cid
      /\ UNCHANGED <<database, restoring, restores, crossed>>
  BY DEF ReadEvent, Apply
<1>2. chan \in [Turn -> Seq(Event)] /\ shown \in [Turn -> ShownType] /\ reading \in ReadingType
  BY DEF IInv, TurnsInv, TabInv
<1>3. ~restoring /\ ~Early(turn[t]) /\ (~crossed => \A r \in restores : r.dropped)
  BY <1>1, NoneSelected DEF ConvInv, LinkInv
<1>4. \A s \in Turn : Early(turn[s]) => chan'[s] = << >>
  BY <1>1, <1>2, <1>3 DEF ConvInv, LinkInv
<1>5. ~crossed /\ e \notin {"meta", "refused"} => turn[t].conv = cid
  <2>1. chan[t] = <<"refused">> => e = "refused"
    OBVIOUS
  <2> QED
    BY <1>1, <1>3, <2>1 DEF ConvInv, ReadInv, KnowsConv
<1>6. ~crossed => turn[t].conv = cid \/ cid = None
  BY <1>1 DEF ConvInv, ReadInv, KnowsConv
<1> HIDE DEF e, q
<1>7. CASE e = "end"
  <2>1. PICK reply : Settles(t, reply)
    BY <1>1, <1>7 DEF Apply, Ended
  <2>2. cid' = cid
    BY <1>1, <1>7
  <2> QED
    BY <1>1, <1>4, <1>5, <1>7, <2>1, <2>2, SettlesConv
<1>8. CASE e = "refused"
  <2>1. Settles(t, "error")
    BY <1>1, <1>8 DEF Apply, Ended
  <2>2. cid' = cid
    BY <1>1, <1>8
  <2> QED
    BY <1>1, <1>4, <1>8, <2>1, <2>2, SettlesConv
<1>9. CASE e \notin {"end", "refused"}
  <2>1. /\ turn' = turn /\ rows' = rows
        /\ \/ shown' = shown
           \/ e # "meta" /\ \E reply : Update(t, reply)
    BY <1>1, <1>9 DEF Apply, Ended, database, messages
  <2>2. reading'.turn = t
    BY <1>1, <1>2, <1>9 DEF Apply, ReadingType
  <2>3. ~crossed => turn[t].conv = cid'
    BY <1>1, <1>5, <1>9
  <2>4. ASSUME NEW s \in Turn, shown'[s].reply = "done" PROVE shown[s].reply = "done" \/ s = t
    BY <1>2, <2>1, <2>4 DEF Update
  <2>5. ASSUME ~crossed, NEW s \in Turn, shown[s].reply = "done" PROVE turn[s].conv = cid'
    <3>1. turn[s].conv = cid /\ turn[s].conv \in Turn
      BY <1>3, <2>5, DoneHasConv DEF ConvInv, RepliesAreOfConversation
    <3>2. cid # None
      BY <3>1, NoneIsNoTurn
    <3> QED
      BY <1>1, <1>6, <2>5, <3>1, <3>2
  <2>6. LinkInv'
    BY <1>1, <1>3, <1>4, <2>1, <2>2 DEF ConvInv, LinkInv
  <2>7. ReadInv'
    BY <1>1, <2>1, <2>2, <2>3 DEF ReadInv, KnowsConv
  <2>8. RestoreInv'
    BY <1>1, <1>3 DEF RestoreInv
  <2>9. RepliesAreOfConversation'
    BY <1>1, <2>1, <2>3, <2>4, <2>5 DEF RepliesAreOfConversation
  <2> QED
    BY <2>6, <2>7, <2>8, <2>9 DEF ConvInv
<1> QED
  BY <1>7, <1>8, <1>9

LEMMA StartNewConversationConv ==
    ASSUME IInv, ConvInv, StartNewConversation
    PROVE  ConvInv'
<1>1. /\ shown' = [t \in Turn |-> NotShown] /\ reading' = reading /\ reading.turn = None
      /\ restores' = {[r EXCEPT !.dropped = TRUE] : r \in restores}
      /\ UNCHANGED <<rows, turn, chan>>
  BY DEF StartNewConversation, server, database, messages
<1>2. \A s \in Turn : reading'.turn # s
  BY <1>1, NoneIsNoTurn
<1>3. LinkInv' /\ ReadInv'
  BY <1>1, <1>2 DEF ConvInv, LinkInv, ReadInv
<1>4. \A r \in restores' : r.dropped
  BY <1>1 DEF IInv, TabInv, RestoreType
<1>5. RestoreInv' /\ RepliesAreOfConversation'
  BY <1>1, <1>4 DEF RestoreInv, RepliesAreOfConversation, NotShown
<1> QED
  BY <1>3, <1>5 DEF ConvInv

LEMMA SelectConversationConv ==
    ASSUME IInv, ConvInv, NEW c \in Turn, SelectConversation(c)
    PROVE  ConvInv'
<1> DEFINE new == [conv |-> c, before |-> cid, dropped |-> FALSE]
<1>1. /\ reading.turn = None /\ ~restoring /\ cid' = c /\ restoring' = TRUE
      /\ restores' = restores \union {new}
      /\ UNCHANGED <<rows, turn, chan, reading, shown, crossed>>
  BY DEF SelectConversation, server, database, messages
<1>2. new.conv = c /\ new.before = cid /\ ~new.dropped
  OBVIOUS
<1> HIDE DEF new
<1>3. \A s \in Turn : reading'.turn # s
  BY <1>1, NoneIsNoTurn
<1>4. LinkInv' /\ ReadInv'
  BY <1>1, <1>3 DEF ConvInv, LinkInv, ReadInv
<1>5. ~crossed => \A r \in restores : r.dropped
  BY <1>1 DEF ConvInv, RestoreInv
<1>6. ~crossed => \A s \in Turn : shown[s].reply = "done" => turn[s].conv = cid
  BY <1>1 DEF ConvInv, RepliesAreOfConversation
<1>7. RestoreInv'
  BY <1>1, <1>2, <1>5, <1>6 DEF RestoreInv
<1>8. RepliesAreOfConversation'
  BY <1>1 DEF RepliesAreOfConversation
<1> QED
  BY <1>4, <1>7, <1>8 DEF ConvInv

(* The answer that counts is the only one, and nothing is read before it.  *)
LEMMA AnswerConv ==
    ASSUME IInv, ConvInv, NEW r \in restores, UNCHANGED <<server, reading>>,
           restores' = restores \ {r}, restoring' = FALSE, crossed' = (r.dropped \/ crossed),
           ~crossed /\ ~r.dropped => \A s \in Turn : shown'[s].reply = "done" => turn[s].conv = cid'
    PROVE  ConvInv'
<1>1. UNCHANGED <<rows, turn, chan, reading>>
  BY DEF server, database, messages
<1>2. ~crossed' => ~crossed /\ ~r.dropped
  OBVIOUS
<1>3. ~crossed' => restoring /\ \A s \in restores' : s.dropped
  BY <1>2 DEF ConvInv, RestoreInv
<1>4. LinkInv'
  BY <1>1 DEF ConvInv, LinkInv
<1>5. ReadInv'
  BY <1>1, <1>3 DEF ConvInv, LinkInv, ReadInv
<1>6. RestoreInv'
  BY <1>3 DEF RestoreInv
<1>7. RepliesAreOfConversation'
  BY <1>1, <1>2 DEF RepliesAreOfConversation
<1> QED
  BY <1>4, <1>5, <1>6, <1>7 DEF ConvInv

LEMMA RestoreArrivesConv ==
    ASSUME IInv, ConvInv, NEW r \in restores, RestoreArrives(r)
    PROVE  ConvInv'
<1>1. /\ shown' = Restored(r.conv) /\ restores' = restores \ {r} /\ restoring' = FALSE
      /\ crossed' = (r.dropped \/ crossed) /\ UNCHANGED <<server, cid, reading>>
  BY DEF RestoreArrives
<1>2. \A s \in Turn : shown'[s].reply = "done" => turn[s].conv = r.conv
  BY <1>1 DEF Restored
<1>3. ~crossed /\ ~r.dropped => r.conv = cid
  BY DEF ConvInv, RestoreInv
<1> QED
  BY <1>1, <1>2, <1>3, AnswerConv

LEMMA RestoreFailsConv ==
    ASSUME IInv, ConvInv, NEW r \in restores, RestoreFails(r)
    PROVE  ConvInv'
<1>1. /\ cid' = r.before /\ restores' = restores \ {r} /\ restoring' = FALSE
      /\ crossed' = (r.dropped \/ crossed) /\ UNCHANGED <<server, reading, shown>>
  BY DEF RestoreFails
<1>2. ~crossed /\ ~r.dropped => \A s \in Turn : shown[s].reply = "done" => turn[s].conv = r.before
  BY DEF ConvInv, RestoreInv
<1> QED
  BY <1>1, <1>2, AnswerConv

LEMMA ConvKept ==
    ASSUME IInv, ConvInv, [Next]_vars
    PROVE  ConvInv'
<1>1. CASE \E t \in Turn : ServerStep(t) \/ SendMessage(t) \/ ReadEvent(t) \/ StopReading(t)
  BY <1>1, ServerConv, SendMessageConv, ReadEventConv, StopReadingConv
<1>2. CASE StartNewConversation \/ \E c \in Turn : SelectConversation(c)
  BY <1>2, StartNewConversationConv, SelectConversationConv
<1>3. CASE \E r \in restores : RestoreArrives(r) \/ RestoreFails(r)
  BY <1>3, RestoreArrivesConv, RestoreFailsConv
<1>4. CASE UNCHANGED vars
  <2>1. UNCHANGED <<rows, turn, chan, cid, restoring, restores, reading, shown, crossed>>
    BY <1>4 DEF vars, server, database, messages, tab
  <2>2. LinkInv' /\ ReadInv'
    BY <2>1 DEF ConvInv, LinkInv, ReadInv, KnowsConv
  <2>3. RestoreInv' /\ RepliesAreOfConversation'
    BY <2>1 DEF ConvInv, RestoreInv, RepliesAreOfConversation
  <2> QED
    BY <2>2, <2>3 DEF ConvInv
<1> QED
  BY <1>1, <1>2, <1>3, <1>4 DEF Next

-----------------------------------------------------------------------------
LEMMA NextKept ==
    ASSUME IInv, [Next]_vars
    PROVE  IInv'
<1>1. CASE \E t \in Turn : ServerStep(t) \/ SendMessage(t) \/ ReadEvent(t) \/ StopReading(t)
  BY <1>1, ServerKept, SendMessageStep, ReadEventStep, StopReadingStep
<1>2. CASE StartNewConversation \/ \E c \in Turn : SelectConversation(c)
  BY <1>2, StartNewConversationStep, SelectConversationStep
<1>3. CASE \E r \in restores : RestoreArrives(r) \/ RestoreFails(r)
  BY <1>3, RestoreArrivesStep, RestoreFailsStep
<1>4. CASE UNCHANGED vars
  <2>1. UNCHANGED <<server, tab>>
    BY <1>4 DEF vars
  <2>2. TabInv' /\ \A s \in Turn : shown'[s].reply = "done" => Whole(rows[s])
    BY <2>1 DEF IInv, TabInv, DoneIsWhole, tab
  <2> QED
    BY <2>1, <2>2, TabChanges DEF tab
<1> QED
  BY <1>1, <1>2, <1>3, <1>4 DEF Next

THEOREM IInvHolds == Spec => []IInv
BY InitIInv, NextKept, PTL DEF Spec

(* The types of turns, streams, transcripts and the tab, and the limits of *)
(* a turn's rounds and passes, for any values of the constants.            *)
THEOREM TypeOKHolds == Spec => []TypeOK
<1>1. IInv => TypeOK
  <2> SUFFICES ASSUME IInv PROVE TypeOK
    OBVIOUS
  <2>1. ASSUME NEW t \in Turn
        PROVE  /\ turn[t].stage \in Stage /\ turn[t].conv \in Turn \union {None}
               /\ turn[t].round < MaxRounds /\ turn[t].pass < MaxPasses
               /\ turn[t].stage \notin {"idle", "find", "ended"} => turn[t].conv \in Turn
    BY Facts DEF TurnOK, TurnType, Runs
  <2>2. ASSUME NEW t \in Turn
        PROVE  chan[t] \in Seq(Event) /\ shown[t].reply \in {"", "streaming", "done", "error", "canceled"}
    BY DEF IInv, TurnsInv, TabInv, ShownType
  <2>3. cid \in Turn \union {None} /\ reading.turn \in Turn \union {None}
    BY DEF IInv, TabInv, ReadingType
  <2> QED
    BY <2>1, <2>2, <2>3 DEF IInv, TablesInv, TypeOK
<1> QED
  BY <1>1, IInvHolds, PTL

(* A reply is shown as done only when the transcript has all of its turn:  *)
(* whatever fails, is taken or read late, and whoever has stopped reading. *)
THEOREM DoneIsWholeHolds == Spec => []DoneIsWhole
<1>1. IInv => DoneIsWhole
  BY DEF IInv
<1> QED
  BY <1>1, IInvHolds, PTL

(* An active conversation has a turn that runs, or one that rejected: no   *)
(* interleaving of turns leaves it active for another reason.              *)
THEOREM ActiveIsInUseHolds == Spec => []ActiveIsInUse
<1>1. IInv => ActiveIsInUse
  BY DEF IInv, ActiveInv, ActiveIsInUse, Uses, Runs
<1> QED
  BY <1>1, IInvHolds, PTL

(* The tab shows as done only replies of the conversation it is in, for    *)
(* any order of turns, selections and late answers, but for what a dropped *)
(* selection's answer may do.                                              *)
THEOREM RepliesAreOfConversationHolds == Spec => []RepliesAreOfConversation
<1>1. ConvInv => RepliesAreOfConversation
  BY DEF ConvInv
<1>2. IInv /\ ConvInv /\ [Next]_vars => ConvInv'
  BY ConvKept
<1> QED
  BY <1>1, <1>2, IInvHolds, InitConvInv, PTL DEF Spec

=============================================================================
