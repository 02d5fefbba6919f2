------------------------------ MODULE ChatTurns ------------------------------
(***************************************************************************)
(* The messages of one chat session.  ChatService.handleMessage reads the  *)
(* next sequence number once, numbers the step events the agent emits and  *)
(* appends them in the background, and waits for those appends before it   *)
(* stores the assistant's answer.  Nothing keeps two requests of a session *)
(* apart: a client that disconnects and asks again overlaps with the run   *)
(* it left behind.                                                         *)
(***************************************************************************)
EXTENDS Sequences, FiniteSetsExt

CONSTANTS
    Turns,          \* requests of the session
    MaxEmit,        \* bound: events one run emits
    MaxChatFaults   \* bound: store writes that fail

ASSUME ChatAssumption == MaxEmit \in Nat /\ MaxChatFaults \in Nat

VARIABLES
    turn,       \* turn -> where handleMessage stands
    seq,        \* turn -> the next sequence number it will use
    emitted,    \* turn -> events emitted so far
    after,      \* turn -> turns that had answered when it read its number
    appending,  \* appends under way
    stored,     \* rows of chat_session_events
    messages,   \* rows of chat_messages, in order
    title,      \* the turn that named the session, or none
    chatFaults

chatVars == <<turn, seq, emitted, after, appending, stored, messages, title, chatFaults>>
eventVars == <<seq, emitted, after, appending, stored>>

Untitled == "untitled"
Records == [turn : Turns, n : 1..MaxEmit, seq : 1..MaxEmit * Cardinality(Turns)]

\* Every variable has its type.
ChatTypeOK ==
    /\ turn \in [Turns -> {"new", "asked", "running", "flush", "answer", "title", "done", "failed"}]
    /\ seq \in [Turns -> 0..MaxEmit * Cardinality(Turns) + 1]
    /\ emitted \in [Turns -> 0..MaxEmit]
    /\ after \in [Turns -> SUBSET Turns]
    /\ appending \subseteq Records /\ stored \subseteq Records
    /\ messages \in Seq(Turns \X {"user", "assistant"})
    /\ title \in Turns \cup {Untitled}
    /\ chatFaults \in 0..MaxChatFaults

ChatInit ==
    /\ turn = [t \in Turns |-> "new"]
    /\ seq = [t \in Turns |-> 0]
    /\ emitted = [t \in Turns |-> 0]
    /\ after = [t \in Turns |-> {}]
    /\ appending = {} /\ stored = {}
    /\ messages = <<>> /\ title = Untitled
    /\ chatFaults = 0

Moves(t, from, to) == turn[t] = from /\ turn' = [turn EXCEPT ![t] = to]

\* A write of one of handleMessage's rows fails, and the request with it.
WriteFails(t, from) ==
    /\ chatFaults < MaxChatFaults
    /\ chatFaults' = chatFaults + 1
    /\ Moves(t, from, "failed")
    /\ UNCHANGED messages

\* The user's message is stored.
Ask(t) ==
    /\ \/ /\ Moves(t, "new", "asked")
          /\ messages' = Append(messages, <<t, "user">>)
          /\ UNCHANGED chatFaults
       \/ WriteFails(t, "new")
    /\ UNCHANGED <<eventVars, title>>

\* nextSeq without the step past the last row.
NextSeqReuses == IF stored = {} THEN 1 ELSE Max({r.seq : r \in stored})

\* nextSeq: one more than the largest stored number.
NextSeq == 1 + Max({0} \cup {r.seq : r \in stored})

\* The session's next number is read, once for the whole turn.
ReadSeq(t) ==
    /\ Moves(t, "asked", "running")
    /\ seq' = [seq EXCEPT ![t] = NextSeq]
    /\ after' = [after EXCEPT ![t] = {u \in Turns : turn[u] = "done"}]
    /\ UNCHANGED <<emitted, appending, stored, messages, title, chatFaults>>

\* wrappedSendEvent: the event goes out, and its append is queued.
EmitEvent(t) ==
    /\ turn[t] = "running" /\ emitted[t] < MaxEmit
    /\ emitted' = [emitted EXCEPT ![t] = @ + 1]
    /\ seq' = [seq EXCEPT ![t] = @ + 1]
    /\ appending' = appending \cup {[turn |-> t, n |-> emitted[t] + 1, seq |-> seq[t]]}
    /\ UNCHANGED <<turn, after, stored, messages, title, chatFaults>>

\* An append ends, in no particular order; a failure is logged and forgotten.
AppendEnds(r) ==
    /\ r \in appending
    /\ appending' = appending \ {r}
    /\ \/ stored' = stored \cup {r} /\ UNCHANGED chatFaults
       \/ /\ chatFaults < MaxChatFaults
          /\ chatFaults' = chatFaults + 1
          /\ UNCHANGED stored
    /\ UNCHANGED <<turn, seq, emitted, after, messages, title>>

\* The agent's run returns, or throws (the client left, a lookup failed): then
\* nothing waits for the appends it queued.
AgentEnds(t) ==
    /\ \/ Moves(t, "running", "flush")
       \/ Moves(t, "running", "failed")
    /\ UNCHANGED <<eventVars, messages, title, chatFaults>>

\* handleMessage goes on although appends are still under way.
FlushSkipped(t) ==
    /\ Moves(t, "flush", "answer")
    /\ UNCHANGED <<eventVars, messages, title, chatFaults>>

\* Promise.all(persistQueue).
Flush(t) ==
    /\ {r \in appending : r.turn = t} = {}
    /\ Moves(t, "flush", "answer")
    /\ UNCHANGED <<eventVars, messages, title, chatFaults>>

\* The assistant's message is stored.
AnswerMessage(t) ==
    /\ \/ /\ Moves(t, "answer", "title")
          /\ messages' = Append(messages, <<t, "assistant">>)
          /\ UNCHANGED chatFaults
       \/ WriteFails(t, "answer")
    /\ UNCHANGED <<eventVars, title>>

\* A session without a title takes it from this message; the client sees done.
SetTitle(t) ==
    /\ Moves(t, "title", "done")
    /\ title' = IF title = Untitled THEN t ELSE title
    /\ UNCHANGED <<eventVars, messages, chatFaults>>

TurnMoves(t) ==
    \/ ReadSeq(t) \/ EmitEvent(t) \/ AgentEnds(t) \/ Flush(t)
    \/ AnswerMessage(t) \/ SetTitle(t)

AppendMoves == \E r \in appending : AppendEnds(r)

ChatNext == AppendMoves \/ \E t \in Turns : Ask(t) \/ TurnMoves(t)

ChatSpec == ChatInit /\ [][ChatNext]_chatVars

\* Store calls settle and runs end.
ChatFairness == WF_chatVars(AppendMoves) /\ \A t \in Turns : WF_chatVars(TurnMoves(t))

-----------------------------------------------------------------------------

\* The stored numbers replay each turn in the order it was seen live, and a
\* turn that had been answered entirely before the turns that began after it,
\* although the appends of a turn run concurrently and land in any order.
ReplayOrder ==
    \A e, f \in stored :
        (IF e.turn = f.turn THEN e.n < f.n ELSE e.turn \in after[f.turn]) => e.seq < f.seq

\* When the answer of a turn is stored, and so when the client sees done, no
\* append of the turn is still under way ("guarantees the step trace is fully
\* durable by the time the client sees 'done'").
TraceBeforeAnswer ==
    \A t \in Turns : <<t, "assistant">> \in Range(messages) =>
        \A r \in appending : r.turn # t

\* Every request that stored its question comes to an end, and so do the appends
\* it started, although a failed append is only logged.
TurnsSettle ==
    LET busy == appending # {} \/ \E t \in Turns : turn[t] \notin {"new", "done", "failed"}
    IN  busy ~> ~busy
=============================================================================
