---------------------------- MODULE AssistantChat ----------------------------
(***************************************************************************)
(* One user's chat with the assistant: a browser tab (assistant-runtime's  *)
(* client), the server's turns that stream answers to it, and the          *)
(* conversations and messages in the database.                             *)
(*                                                                         *)
(* A turn is one call of streamChat.  A conversation has the number of the *)
(* turn that created it.  rows[t] are the messages turn t stored, in the   *)
(* order of their seq; a conversation's largest seq is last[c], and the    *)
(* index on conversation and seq refuses one a second time.  The tab may   *)
(* stop reading a turn that the server goes on with, and send the next one *)
(* meanwhile.                                                              *)
(***************************************************************************)
EXTENDS Naturals, Sequences, FiniteSets

CONSTANTS
    MaxTurns,
    MaxRounds,  \* MAX_TOOL_ROUNDS, 4 in the code
    MaxPasses,  \* MAX_RECOVERY_PASSES, 3 in the code
    MaxCalls,   \* bound: tool calls of one answer
    MaxFetches, \* bound: requests for a transcript at a time
    MaxFaults,  \* bound: failures of the database, the provider and the network
    None

Turn == 1..MaxTurns

ASSUME ChatAssumption ==
    /\ MaxTurns \in Nat /\ MaxRounds \in Nat \ {0} /\ MaxPasses \in Nat \ {0}
    /\ MaxCalls \in Nat \ {0} /\ {MaxFetches, MaxFaults} \subseteq Nat /\ None \notin Nat

VARIABLES
    status,        \* the database: assistant_conversations
    rows, last,    \* and assistant_messages
    turn,          \* the server's turns
    chan,          \* events of each turn's stream that the tab has not read
    cid,           \* conversationId
    restoring,     \* isRestoringConversation
    restores,      \* requests for the messages of a selected conversation
    reading,       \* the stream being read: isStreaming and abortController
    shown,         \* messages.value
    crossed,       \* history: has a dropped selection been answered since the last new chat?
    faults

messages == <<rows, last>>
database == <<status, messages>>
server == <<database, turn, chan>>
tab == <<cid, restoring, restores, reading, shown, crossed>>
vars == <<server, tab, faults>>

Ended == {"completed", "aborted", "failed"}
Stage == {"idle", "find", "reopen", "seq", "insert", "prompt", "ask", "execute",
          "complete", "catch", "ended"}
Kind == {"user", "call", "result", "assistant"}
Event == {"meta", "message", "error", "end", "refused"} \union Ended

NoTurn == [stage |-> "idle", conv |-> None, kind |-> "user", seq |-> 0, calls |-> 0,
           round |-> 0, pass |-> 0, recovering |-> FALSE, toolFailed |-> FALSE,
           said |-> FALSE, linked |-> FALSE,
           status |-> "", outcome |-> ""]
NotShown == [live |-> FALSE, reply |-> ""]
NotReading == [turn |-> None, failed |-> FALSE, done |-> ""]

Init ==
    /\ status = [c \in Turn |-> ""]
    /\ rows = [t \in Turn |-> << >>] /\ last = [c \in Turn |-> 0]
    /\ turn = [t \in Turn |-> NoTurn] /\ chan = [t \in Turn |-> << >>]
    /\ cid = None /\ restoring = FALSE /\ restores = {} /\ reading = NotReading
    /\ shown = [t \in Turn |-> NotShown]
    /\ crossed = FALSE /\ faults = 0

-----------------------------------------------------------------------------
(* The server.  Goes(t, r, es): turn t becomes r and writes events es.      *)

Goes(t, r, es) ==
    /\ turn' = [turn EXCEPT ![t] = r]
    /\ chan' = [chan EXCEPT ![t] = IF turn[t].linked THEN @ \o es ELSE @]

Fault == faults < MaxFaults /\ faults' = faults + 1

EndOf(t, why) ==
    [NoTurn EXCEPT !.stage = "ended", !.outcome = why, !.conv = turn[t].conv,
                   !.linked = turn[t].linked]

(* appendMessage begins: the row of kind k is to follow the rows now there. *)
Appending(r, k) == [r EXCEPT !.stage = "seq", !.kind = k, !.seq = 0]

(* streamChat rejects: the route ends the stream, or answers with an error  *)
(* if nothing was sent yet.  No conversation is touched.                    *)
Rejects(t, sent) ==
    Goes(t, EndOf(t, "rejected"),
         IF sent THEN <<"error", "failed", "end">> ELSE <<"refused">>)

(* A failure inside the try of streamChat, in code that is awaited there.   *)
Throws(t, why) ==
    Goes(t, [turn[t] EXCEPT !.stage = "catch", !.status = why], << >>)

(* The conversation of a turn: a new one, or the one asked for.             *)
Open(t) ==
    /\ turn[t].stage = "find"
    /\ IF turn[t].conv = None
       THEN /\ status' = [status EXCEPT ![t] = "active"]
            /\ Goes(t, Appending([turn[t] EXCEPT !.conv = t], "user"), << >>)
       ELSE /\ Goes(t, IF status[turn[t].conv] = "active" THEN Appending(turn[t], "user")
                       ELSE [turn[t] EXCEPT !.stage = "reopen"], << >>)
            /\ UNCHANGED status
    /\ UNCHANGED <<messages, tab, faults>>

Reopen(t) ==
    /\ turn[t].stage = "reopen"
    /\ status' = [status EXCEPT ![turn[t].conv] = "active"]
    /\ Goes(t, Appending(turn[t], "user"), << >>)
    /\ UNCHANGED <<messages, tab, faults>>

ReadSeq(t) ==
    /\ turn[t].stage = "seq"
    /\ Goes(t, [turn[t] EXCEPT !.stage = "insert", !.seq = last[turn[t].conv] + 1], << >>)
    /\ UNCHANGED <<database, tab, faults>>

(* recoverWithoutTools begins, or the reply is to be stored: the record     *)
(* forgets what only earlier steps look at.                                 *)
Recovers(r) ==
    [r EXCEPT !.stage = "ask", !.seq = 0, !.round = 0, !.recovering = TRUE,
              !.toolFailed = FALSE, !.said = FALSE]
Replies(r) == Appending([Recovers(r) EXCEPT !.recovering = FALSE, !.pass = 0], "assistant")

(* After the tool calls of an answer: the next round, or the next pass of   *)
(* recovery, until they run out and a fixed text stands in for the answer.  *)
MutNextAnswer(r) ==
    IF ~r.recovering
    THEN IF r.round = MaxRounds THEN Recovers(r)
         ELSE [r EXCEPT !.stage = "ask", !.seq = 0, !.round = @ + 1]
    ELSE IF r.pass + 1 = MaxPasses THEN Replies(r)
    ELSE [Recovers(r) EXCEPT !.pass = r.pass + 1]

NextAnswer(r) ==
    IF ~r.recovering
    THEN IF r.round + 1 = MaxRounds THEN Recovers(r)
         ELSE [r EXCEPT !.stage = "ask", !.seq = 0, !.round = @ + 1]
    ELSE IF r.pass + 1 = MaxPasses THEN Replies(r)
    ELSE [Recovers(r) EXCEPT !.pass = r.pass + 1]

(* What follows the insertion of each kind of message.                      *)
Inserted(r) ==
    CASE r.kind = "user" -> [r EXCEPT !.stage = "prompt"]
      [] r.kind = "call" -> [r EXCEPT !.stage = "execute"]
      [] r.kind = "result" -> IF r.calls > 1 THEN Appending([r EXCEPT !.calls = @ - 1], "call")
                              ELSE NextAnswer([r EXCEPT !.calls = 0])
      [] OTHER -> [r EXCEPT !.stage = "complete"]

(* A message that cannot be stored: before the try the turn is refused; in  *)
(* a round's tool calls the failure is caught; recovery and the final reply *)
(* are returned without await, so that theirs is not.                       *)
MutInsertFails(t) ==
    CASE turn[t].kind = "user" -> Rejects(t, FALSE)
      [] turn[t].kind = "result" -> Goes(t, Inserted(turn[t]), << >>)
      [] OTHER -> Rejects(t, TRUE)

InsertFails(t) ==
    IF turn[t].kind = "user" THEN Rejects(t, FALSE)
    ELSE IF turn[t].kind = "assistant" \/ turn[t].recovering THEN Rejects(t, TRUE)
    ELSE Throws(t, "failed")

AddRow(t) ==
    /\ rows' = [rows EXCEPT ![t] = Append(@, turn[t].kind)]
    /\ last' = [last EXCEPT ![turn[t].conv] = turn[t].seq]
SeqIsFree(t) == turn[t].seq > last[turn[t].conv]

Insert(t) ==
    /\ turn[t].stage = "insert" /\ SeqIsFree(t)
    /\ AddRow(t) /\ Goes(t, Inserted([turn[t] EXCEPT !.seq = 0]), << >>)
    /\ UNCHANGED <<status, tab, faults>>

(* Another turn of the conversation took the same seq first.                *)
SeqTaken(t) ==
    /\ turn[t].stage = "insert" /\ ~SeqIsFree(t)
    /\ InsertFails(t) /\ UNCHANGED <<database, tab, faults>>

(* The database fails: at the row or, after it, at the message count.       *)
InsertBreaks(t) ==
    /\ turn[t].stage = "insert" /\ SeqIsFree(t) /\ Fault
    /\ AddRow(t) \/ UNCHANGED messages
    /\ InsertFails(t) /\ UNCHANGED <<status, tab>>

(* A query fails before the stream has begun, the write itself or the read  *)
(* that follows it.                                                         *)
QueryFails(t) ==
    /\ turn[t].stage \in {"find", "reopen", "prompt"} /\ Fault
    /\ \/ Rejects(t, FALSE) /\ UNCHANGED status
       \/ /\ turn[t].stage = "find" /\ turn[t].conv = None
          /\ status' = [status EXCEPT ![t] = "active"]
          /\ Goes(t, [EndOf(t, "rejected") EXCEPT !.conv = t], <<"refused">>)
       \/ /\ turn[t].stage = "reopen"
          /\ status' = [status EXCEPT ![turn[t].conv] = "active"]
          /\ Rejects(t, FALSE)
    /\ UNCHANGED <<messages, tab>>

(* resolveSystemPrompt, then the first event of the stream.                 *)
ResolvePrompt(t) ==
    /\ turn[t].stage = "prompt"
    /\ Goes(t, [turn[t] EXCEPT !.stage = "ask"], <<"meta">>)
    /\ UNCHANGED <<database, tab, faults>>

(* The answer ends in n tool calls; has it any text?  Recovery looks        *)
(* neither at that nor at whether a tool failed.                            *)
AnswerCalls(t, has, n) ==
    /\ turn[t].stage = "ask"
    /\ Goes(t, Appending([turn[t] EXCEPT !.said = ~turn[t].recovering /\ (@ \/ has), !.calls = n], "call"),
            << >>)
    /\ UNCHANGED <<database, tab, faults>>

(* The answer ends without tool calls: its text, or what was streamed       *)
(* before, is the reply; after a failed tool the model is asked again.      *)
AnswerEnds(t, has) ==
    LET r == turn[t] IN
    /\ r.stage = "ask"
    /\ IF has THEN Goes(t, Replies(r), << >>)
       ELSE IF r.recovering THEN Goes(t, NextAnswer(r), << >>)
       ELSE IF r.toolFailed THEN Goes(t, Recovers(r), << >>)
       ELSE IF r.said THEN Goes(t, Replies(r), << >>)
       ELSE Rejects(t, TRUE)
    /\ UNCHANGED <<database, tab, faults>>

(* The provider fails, or, its tab being gone, the turn is aborted; Node    *)
(* may report the request's close event at any time, or never.              *)
AnswerFails(t) ==
    /\ turn[t].stage = "ask"
    /\ \/ Fault /\ IF turn[t].recovering THEN Rejects(t, TRUE) ELSE Throws(t, "failed")
       \/ /\ ~turn[t].linked /\ UNCHANGED faults
          /\ IF turn[t].recovering THEN Rejects(t, TRUE) ELSE Throws(t, "aborted")
    /\ UNCHANGED <<database, tab>>

(* executeToolCall never rejects: a failing tool is a result too.           *)
Execute(t) ==
    /\ turn[t].stage = "execute"
    /\ \E ok \in BOOLEAN :
          Goes(t, Appending([turn[t] EXCEPT !.toolFailed = ~turn[t].recovering /\ (@ \/ ~ok)], "result"),
               << >>)
    /\ UNCHANGED <<database, tab, faults>>

MutFinish(t, why) ==
    status' = IF why = "aborted" THEN status ELSE [status EXCEPT ![turn[t].conv] = why]

Finish(t, why) == status' = [status EXCEPT ![turn[t].conv] = why]

(* completeConversation, then the reply's last events.                      *)
Complete(t) ==
    /\ turn[t].stage = "complete"
    /\ Finish(t, "completed")
    /\ Goes(t, EndOf(t, "completed"), <<"message", "completed", "end">>)
    /\ UNCHANGED <<messages, tab, faults>>

(* The catch of streamChat.                                                 *)
Catch(t) ==
    /\ turn[t].stage = "catch"
    /\ Finish(t, turn[t].status)
    /\ Goes(t, EndOf(t, turn[t].status), <<"error", turn[t].status, "end">>)
    /\ UNCHANGED <<messages, tab, faults>>

FinishFails(t) ==
    /\ turn[t].stage \in {"complete", "catch"} /\ Fault
    /\ \/ UNCHANGED status
       \/ Finish(t, IF turn[t].stage = "complete" THEN "completed" ELSE turn[t].status)
    /\ Rejects(t, TRUE) /\ UNCHANGED <<messages, tab>>

ServerStep(t) ==
    \/ Open(t) \/ Reopen(t) \/ ReadSeq(t) \/ Insert(t) \/ SeqTaken(t) \/ InsertBreaks(t)
    \/ ResolvePrompt(t) \/ QueryFails(t) \/ AnswerFails(t)
    \/ \E has \in BOOLEAN : AnswerEnds(t, has) \/ \E n \in 1..MaxCalls : AnswerCalls(t, has, n)
    \/ Execute(t) \/ Complete(t) \/ Catch(t) \/ FinishFails(t)

-----------------------------------------------------------------------------
(* The tab.  Its buttons are those that AssistantClientElement enables.     *)

(* updateMessage: the reply of t is changed if its bubble is still there.   *)
Update(t, reply) == shown' = IF shown[t].live THEN [shown EXCEPT ![t].reply = reply] ELSE shown

(* sendMessage.                                                             *)
SendMessage(t) ==
    /\ reading.turn = None /\ ~restoring
    /\ turn[t].stage = "idle" /\ \A s \in 1..(t - 1) : turn[s].stage # "idle"
    /\ turn' = [turn EXCEPT ![t] = [NoTurn EXCEPT !.stage = "find", !.conv = cid, !.linked = TRUE]]
    /\ reading' = [NotReading EXCEPT !.turn = t]
    /\ shown' = [shown EXCEPT ![t] = [live |-> TRUE, reply |-> "streaming"]]
    /\ UNCHANGED <<database, chan, cid, restoring, restores, crossed, faults>>

(* streamChat of the tab has returned or thrown.                            *)
Settles(t, reply) ==
    /\ Update(t, reply)
    /\ reading' = NotReading
    /\ turn' = [turn EXCEPT ![t].linked = FALSE]

(* The API's streamChat throws at the stream's end when there was an error  *)
(* event; a bubble still streaming then is done if it has text.             *)
SettledReplies(t) ==
    IF reading.failed THEN {"error"}
    ELSE IF reading.done = "aborted" THEN {"canceled"}
    ELSE IF shown[t].reply = "streaming" THEN {"done", "error"} ELSE {shown[t].reply}

(* onEvent for event e, and what follows the stream's end.                  *)
Apply(t, e) ==
    /\ cid' = IF e = "meta" THEN turn[t].conv ELSE cid
    /\ CASE e = "message" -> Update(t, "done") /\ UNCHANGED <<reading, turn>>
         [] e = "error" -> /\ Update(t, "error")
                           /\ reading' = [reading EXCEPT !.failed = TRUE] /\ UNCHANGED turn
         [] e \in Ended -> reading' = [reading EXCEPT !.done = e] /\ UNCHANGED <<shown, turn>>
         [] e = "end" -> \E reply \in SettledReplies(t) : Settles(t, reply)
         [] e = "refused" -> Settles(t, "error")
         [] OTHER -> UNCHANGED <<shown, reading, turn>>

ReadEvent(t) ==
    /\ reading.turn = t /\ chan[t] # << >>
    /\ Apply(t, Head(chan[t]))
    /\ chan' = [chan EXCEPT ![t] = Tail(@)]
    /\ UNCHANGED <<database, restoring, restores, crossed, faults>>

(* cancelStream by the user or the timer, or the connection breaks.         *)
StopReading(t) ==
    /\ reading.turn = t
    /\ \/ Settles(t, "canceled") /\ UNCHANGED faults
       \/ Settles(t, "error") /\ Fault
    /\ chan' = [chan EXCEPT ![t] = << >>]
    /\ UNCHANGED <<database, cid, restoring, restores, crossed>>

(* startNewConversation: enabled while a conversation is being restored.    *)
StartNewConversation ==
    /\ reading.turn = None
    /\ cid' = None /\ restoring' = FALSE /\ crossed' = FALSE
    /\ shown' = [t \in Turn |-> NotShown]
    /\ restores' = {[r EXCEPT !.dropped = TRUE] : r \in restores}
    /\ UNCHANGED <<server, reading, faults>>

(* selectConversationById, by the user or the watcher of the history.  One  *)
(* that would join a request under way for the same messages is left out.   *)
SelectConversation(c) ==
    /\ reading.turn = None /\ ~restoring /\ status[c] # ""
    /\ \A r \in restores : r.conv # c
    /\ Cardinality(restores) < MaxFetches
    /\ cid' = c /\ restoring' = TRUE
    /\ restores' = restores \union {[conv |-> c, before |-> cid, dropped |-> FALSE]}
    /\ UNCHANGED <<server, reading, shown, crossed, faults>>

(* The messages of conversation c, as the database has them.                *)
Restored(c) ==
    [t \in Turn |-> [live |-> FALSE,
                     reply |-> IF turn[t].conv = c /\ \E i \in DOMAIN rows[t] : rows[t][i] = "assistant"
                               THEN "done" ELSE ""]]

RestoreArrives(r) ==
    /\ r \in restores
    /\ shown' = Restored(r.conv)
    /\ restoring' = FALSE /\ crossed' = (r.dropped \/ crossed)
    /\ restores' = restores \ {r}
    /\ UNCHANGED <<server, cid, reading, faults>>

MutRestoreFails(r) ==
    /\ r \in restores /\ Fault
    /\ restoring' = FALSE /\ crossed' = (r.dropped \/ crossed)
    /\ restores' = restores \ {r}
    /\ UNCHANGED <<server, cid, reading, shown>>

RestoreFails(r) ==
    /\ r \in restores /\ Fault
    /\ cid' = r.before
    /\ restoring' = FALSE /\ crossed' = (r.dropped \/ crossed)
    /\ restores' = restores \ {r}
    /\ UNCHANGED <<server, reading, shown>>

Next ==
    \/ \E t \in Turn : ServerStep(t) \/ SendMessage(t) \/ ReadEvent(t) \/ StopReading(t)
    \/ StartNewConversation
    \/ \E c \in Turn : SelectConversation(c)
    \/ \E r \in restores : RestoreArrives(r) \/ RestoreFails(r)

Spec == Init /\ [][Next]_vars

-----------------------------------------------------------------------------
TypeOK ==
    /\ status \in [Turn -> Ended \union {"", "active"}]
    /\ rows \in [Turn -> Seq(Kind)] /\ last \in [Turn -> Nat]
    /\ \A t \in Turn :
          /\ turn[t].stage \in Stage /\ turn[t].conv \in Turn \union {None}
          /\ turn[t].round < MaxRounds /\ turn[t].pass < MaxPasses
          /\ turn[t].stage \notin {"idle", "find", "ended"} => turn[t].conv \in Turn
          /\ chan[t] \in Seq(Event)
          /\ shown[t].reply \in {"", "streaming", "done", "error", "canceled"}
    /\ cid \in Turn \union {None} /\ reading.turn \in Turn \union {None}

(* A reply shown as done is whole in the transcript: the user's message is  *)
(* stored, then every tool call with its result, then the reply.            *)
Whole(kinds) ==
    /\ Len(kinds) > 1 /\ kinds[1] = "user" /\ kinds[Len(kinds)] = "assistant"
    /\ \A i \in 2..(Len(kinds) - 1) : kinds[i] = IF i % 2 = 0 THEN "call" ELSE "result"
    /\ Len(kinds) % 2 = 0

DoneIsWhole == \A t \in Turn : shown[t].reply = "done" => Whole(rows[t])

(* A conversation is active only while a turn of it runs, unless a turn     *)
(* rejected: then nothing ends it, whatever the reader of the list thinks.  *)
ActiveIsInUse ==
    \A c \in Turn : status[c] = "active" =>
        \E t \in Turn : /\ turn[t].conv = c
                        /\ \/ turn[t].stage \notin {"idle", "find", "ended"}
                           \/ turn[t].outcome = "rejected"

(* The replies shown as done are those of the selected conversation: what   *)
(* the user answers to is where the answer goes.  Excepted is what follows  *)
(* the answer to a selection that "new conversation" has overtaken.         *)
RepliesAreOfConversation ==
    ~restoring /\ ~crossed => \A t \in Turn : shown[t].reply = "done" => turn[t].conv = cid

=============================================================================
