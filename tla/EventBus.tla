------------------------------- MODULE EventBus -------------------------------
(***************************************************************************)
(* The bus that carries `alert.fired` from the evaluator to its consumers. *)
(* With REDIS_URL set it is RedisEventBus: one Redis stream per topic and  *)
(* one consumer group shared by every api-gateway process, so an event is  *)
(* delivered to ONE process; otherwise it is InMemoryEventBus, an          *)
(* EventEmitter inside the process that publishes.  One topic is modelled, *)
(* its events numbered in publication order.                               *)
(***************************************************************************)
EXTENDS Integers, Sequences, FiniteSets

CONSTANTS
    Procs,          \* the api-gateway processes
    MaxEvents,      \* bound: publications
    StreamMaxLen,   \* DEFAULT_STREAM_MAX_LEN: 10,000 in the code
    Count,          \* XREADGROUP COUNT: 100 in the code
    Limits          \* bounds: the scenarios to explore, see Limit

\* A scenario: the bus in use, the processes that exist, and how often things
\* may happen in one behaviour: clock ticks, crashes + unsubscriptions + failing
\* calls (together), investigation rows, and manual requests.
Limit == [bus : {"memory", "redis"}, procs : SUBSET Procs, ticks : Nat, trouble : Nat,
          rows : Nat, asks : Nat]

ASSUME BusAssumption ==
    /\ {MaxEvents, StreamMaxLen} \subseteq Nat
    /\ Count \in Nat \ {0}
    /\ \A l \in Limits : l \in Limit

NoGroup == -1

VARIABLES
    limit,          \* the scenario; createEventBusFromEnv gives all processes one bus
    published,      \* the last event added to the stream
    trimmed,        \* MAXLEN has removed the events up to this one
    cursor,         \* the group's last delivered event, or NoGroup
    loop,           \* per process: where the read loop of the topic stands
    active,         \* per process: the loop's flag, cleared by unsubscribe
    batch,          \* per process: events read and not handled yet
    handling,       \* per process: the event whose handlers are awaited, or 0
    handed,         \* every event handed to handlers, in that order
    acked,          \* the events acknowledged with XACK
    crashes, stops, faults   \* how often each kind of trouble has struck

busVars == <<limit, published, trimmed, cursor, loop, active, batch, handling,
             handed, acked, crashes, stops, faults>>

Events == 1..MaxEvents

BusTypeOK ==
    /\ limit \in Limits
    /\ published \in 0..MaxEvents
    /\ trimmed \in 0..MaxEvents
    /\ cursor \in {NoGroup} \cup 0..MaxEvents
    /\ loop \in [Procs -> {"down", "create", "read", "batch", "wait", "ack"}]
    /\ active \in [Procs -> BOOLEAN]
    /\ batch \in [Procs -> Seq(Events)]
    /\ handling \in [Procs -> 0..MaxEvents]
    /\ handed \in Seq(Events)
    /\ acked \subseteq Events
    /\ {crashes, stops, faults} \subseteq 0..limit.trouble

BusInit ==
    /\ limit \in Limits
    /\ published = 0 /\ trimmed = 0 /\ cursor = NoGroup
    /\ loop = [p \in Procs |-> "down"]
    /\ active = [p \in Procs |-> FALSE]
    /\ batch = [p \in Procs |-> <<>>]
    /\ handling = [p \in Procs |-> 0]
    /\ handed = <<>> /\ acked = {}
    /\ crashes = 0 /\ stops = 0 /\ faults = 0

Trouble == crashes + stops + faults < limit.trouble

Later(a, b) == IF a >= b THEN a ELSE b

\* publish on Redis: XADD with MAXLEN ~, which trims old entries when it likes
\* (whole radix-tree nodes only) and never below the cap.
XAdd ==
    /\ limit.bus = "redis"
    /\ published < MaxEvents
    /\ \E p \in Procs : loop[p] # "down"
    /\ published' = published + 1
    /\ trimmed' \in {trimmed} \cup
          (IF StreamMaxLen > 0 /\ published' - trimmed > StreamMaxLen
           THEN {published' - StreamMaxLen} ELSE {})
    /\ UNCHANGED <<limit, cursor, loop, active, batch, handling, handed, acked,
                   crashes, stops, faults>>

\* publish in memory: emitter.emit runs the listeners of this process before
\* it returns; every listener discards its handler's promise.
Emit(p) ==
    /\ limit.bus = "memory"
    /\ published < MaxEvents
    /\ loop[p] # "down"
    /\ published' = published + 1
    /\ handed' = IF active[p] THEN Append(handed, published') ELSE handed
    /\ UNCHANGED <<limit, trimmed, cursor, loop, active, batch, handling, acked,
                   crashes, stops, faults>>

\* A process boots and its consumers subscribe (startAlerts); on Redis the
\* first subscription to a topic starts the read loop.
Subscribe(p) ==
    /\ p \in limit.procs
    /\ loop[p] = "down"
    /\ loop' = [loop EXCEPT ![p] = IF limit.bus = "redis" THEN "create" ELSE "read"]
    /\ active' = [active EXCEPT ![p] = TRUE]
    /\ UNCHANGED <<limit, published, trimmed, cursor, batch, handling, handed, acked,
                   crashes, stops, faults>>

\* A group that every starting process sets back to the start of the stream.
CreateGroupResets(p) ==
    /\ loop[p] = "create"
    /\ cursor' = 0
    /\ loop' = [loop EXCEPT ![p] = "read"]
    /\ UNCHANGED <<limit, published, trimmed, active, batch, handling, handed, acked,
                   crashes, stops, faults>>

\* XGROUP CREATE <topic> <group> $ MKSTREAM: a new group starts at the end of
\* the stream; BUSYGROUP, from a group that exists, is swallowed.
CreateGroup(p) ==
    /\ loop[p] = "create"
    /\ cursor' = IF cursor = NoGroup THEN published ELSE cursor
    /\ loop' = [loop EXCEPT ![p] = "read"]
    /\ UNCHANGED <<limit, published, trimmed, active, batch, handling, handed, acked,
                   crashes, stops, faults>>

Unread == Later(cursor, trimmed) + 1 .. published

\* XREADGROUP ... COUNT n STREAMS <topic> >: the next events nobody in the
\* group was given.  A read error only sleeps 500 ms and reads again.
ReadGroup(p) ==
    /\ limit.bus = "redis"
    /\ loop[p] = "read" /\ active[p]
    /\ Unread # {}
    /\ LET first == Later(cursor, trimmed) + 1
           last  == IF first + Count - 1 <= published THEN first + Count - 1 ELSE published
       IN  /\ cursor' = last
           /\ batch' = [batch EXCEPT ![p] = [i \in 1..(last - first + 1) |-> first + i - 1]]
    /\ loop' = [loop EXCEPT ![p] = "batch"]
    /\ UNCHANGED <<limit, published, trimmed, active, handling, handed, acked,
                   crashes, stops, faults>>

\* A read that was blocked when the last handler left: what it returns is
\* dropped by `if (!results || !active) continue`, and the loop ends.
ReadInactive(p) ==
    /\ loop[p] = "read" /\ ~active[p]
    /\ \/ cursor' = cursor
       \/ /\ limit.bus = "redis"
          /\ Unread # {}
          /\ cursor' \in {c \in Unread : c <= Later(cursor, trimmed) + Count}
    /\ loop' = [loop EXCEPT ![p] = "down"]
    /\ UNCHANGED <<limit, published, trimmed, active, batch, handling, handed, acked,
                   crashes, stops, faults>>

\* A loop that acknowledges without awaiting the handlers.
DispatchUnawaited(p) ==
    /\ loop[p] = "batch"
    /\ handling' = [handling EXCEPT ![p] = Head(batch[p])]
    /\ batch' = [batch EXCEPT ![p] = Tail(@)]
    /\ handed' = IF active[p] THEN Append(handed, Head(batch[p])) ELSE handed
    /\ loop' = [loop EXCEPT ![p] = "ack"]
    /\ UNCHANGED <<limit, published, trimmed, cursor, active, acked,
                   crashes, stops, faults>>

\* The next event of the batch: every handler is called and all their promises
\* are awaited.  With no handler left the event goes straight to XACK.
Dispatch(p) ==
    /\ loop[p] = "batch"
    /\ handling' = [handling EXCEPT ![p] = Head(batch[p])]
    /\ batch' = [batch EXCEPT ![p] = Tail(@)]
    /\ handed' = IF active[p] THEN Append(handed, Head(batch[p])) ELSE handed
    /\ loop' = [loop EXCEPT ![p] = IF active[p] THEN "wait" ELSE "ack"]
    /\ UNCHANGED <<limit, published, trimmed, cursor, active, acked,
                   crashes, stops, faults>>

\* Promise.all resolves: the handlers of the event have all finished.
Settle(p) ==
    /\ loop[p] = "wait"
    /\ loop' = [loop EXCEPT ![p] = "ack"]
    /\ UNCHANGED <<limit, published, trimmed, cursor, active, batch, handling, handed,
                   acked, crashes, stops, faults>>

\* After one event the loop reads again and forgets the rest of its batch.
AfterEventReads(p) == "read"

AfterEvent(p) == IF batch[p] = <<>> THEN "read" ELSE "batch"

\* XACK, then the next event of the batch or the next read.
Ack(p) ==
    /\ loop[p] = "ack"
    /\ acked' = acked \cup {handling[p]}
    /\ handling' = [handling EXCEPT ![p] = 0]
    /\ loop' = [loop EXCEPT ![p] = AfterEvent(p)]
    /\ UNCHANGED <<limit, published, trimmed, cursor, active, batch, handed,
                   crashes, stops, faults>>

\* XACK throws: the error is logged and the event stays pending for ever, as
\* the loop only ever reads new events (">").
AckFails(p) ==
    /\ loop[p] = "ack"
    /\ Trouble
    /\ faults' = faults + 1
    /\ handling' = [handling EXCEPT ![p] = 0]
    /\ loop' = [loop EXCEPT ![p] = AfterEvent(p)]
    /\ UNCHANGED <<limit, published, trimmed, cursor, active, batch, handed, acked,
                   crashes, stops>>

\* Every consumer of the topic unsubscribes (shutdown).
Unsubscribe(p) ==
    /\ active[p]
    /\ Trouble
    /\ stops' = stops + 1
    /\ active' = [active EXCEPT ![p] = FALSE]
    /\ UNCHANGED <<limit, published, trimmed, cursor, loop, batch, handling, handed,
                   acked, crashes, faults>>

\* The process dies: what it read and did not handle is lost with it.
Crash(p) ==
    /\ p \in limit.procs
    /\ Trouble
    /\ crashes' = crashes + 1
    /\ loop' = [loop EXCEPT ![p] = "down"]
    /\ active' = [active EXCEPT ![p] = FALSE]
    /\ batch' = [batch EXCEPT ![p] = <<>>]
    /\ handling' = [handling EXCEPT ![p] = 0]
    /\ UNCHANGED <<limit, published, trimmed, cursor, handed, acked, stops, faults>>

Handed == {handed[i] : i \in DOMAIN handed}

\* The events some live process has read and will still hand out.
Held == UNION {{batch[p][i] : i \in DOMAIN batch[p]} : p \in {q \in Procs : active[q]}}

\* The events no handler will ever get: delivered to a process that died or
\* unsubscribed, trimmed or published before anybody could read them.
Gone ==
    {m \in 1..published :
        /\ m \notin Handed \cup Held
        /\ limit.bus = "redis" => m <= Later(cursor, trimmed)}

AtMostOnce == INSTANCE Delivery WITH sent <- published, seen <- handed, gone <- Gone

\* The bus implements at-most-once delivery: whatever crashes, unsubscriptions,
\* trimming and group creation do, no event is handled twice (redis.ts reads
\* new events only) and a lost one never comes back.
DeliversAtMostOnce == AtMostOnce!Spec
=============================================================================
