---------------------------- MODULE CooldownProofs ----------------------------
(***************************************************************************)
(* Proofs about the order in which the consumer of alert.fired works: what *)
(* it acknowledges is finished, a process investigates one alert at a time *)
(* over Redis, and a rule is left alone for the cooldown.                  *)
(***************************************************************************)
EXTENDS InvestigationProofs

-----------------------------------------------------------------------------
(* AutoInvestigation: acknowledgements, and one job at a time.             *)

\* No process will hand out m (again).
Spent(m) == m <= cursor /\ \A p \in Procs : \A i \in DOMAIN batch[p] : batch[p][i] # m

\* What is being handled or was acknowledged is spent, and over before it is
\* acknowledged; a job has begun when its event was handed out; and on Redis
\* the loop of a process waits for the job that is in flight there.
AckInv ==
    /\ \A m \in acked : Spent(m)
    /\ limit.bus = "memory" => acked = {}
    /\ \A p \in Procs : loop[p] \in {"wait", "ack"} => Spent(handling[p])
    /\ \A p \in Procs : loop[p] = "ack" /\ handling[p] \in Handed => job[handling[p]].pc = "done"
    /\ AckedIsFinished
    /\ \A m \in Events : job[m].pc # "none" <=> m \in Handed
    /\ limit.bus = "redis" => \A m \in Events : InFlight(m) =>
           loop[job[m].proc] = "wait" /\ handling[job[m].proc] = m

\* A number that is not zero and not beyond n is an index of a sequence of length n.
LEMMA IsIndex == \A n, k \in Nat : k # 0 /\ k <= n => k \in 1..n
    OBVIOUS

\* The event that a loop waits for or acknowledges is one.
LEMMA Handled ==
    ASSUME BusInv, NEW q \in Procs, loop[q] \in {"wait", "ack"}
    PROVE  handling[q] \in Events
<1>1. handling[q] \in 0..MaxEvents /\ handling[q] # 0
    BY Zenon DEF BusInv, BusTypes, LoopShape
<1>2. \A k \in 0..MaxEvents : k # 0 => k \in Events
    BY BusAssumption DEF Events
<1> QED
    BY Zenon, <1>1, <1>2

\* What is spent stays so, when batches lose events or gain ones past the cursor.
LEMMA SpentStays ==
    ASSUME BusTypes, BusTypes', cursor <= cursor',
           \A p \in Procs : \A i \in DOMAIN batch'[p] :
               \/ cursor < batch'[p][i]
               \/ \E k \in DOMAIN batch[p] : batch'[p][i] = batch[p][k],
           NEW m \in Events, Spent(m)
    PROVE  Spent(m)'
<1>1. m <= cursor'
    BY DEF Spent, BusTypes, Events
<1>2. ASSUME NEW p \in Procs, NEW i \in DOMAIN batch'[p] PROVE batch'[p][i] # m
  <2>1. CASE cursor < batch'[p][i]
    <3>1. batch'[p][i] \in Events /\ m <= cursor /\ cursor \in Int
        BY <1>2 DEF BusTypes, Spent
    <3> QED
        BY <2>1, <3>1 DEF Events
  <2>2. CASE \E k \in DOMAIN batch[p] : batch'[p][i] = batch[p][k]
    BY Zenon, <2>2 DEF Spent
  <2> QED
    BY Zenon, <1>2, <2>1, <2>2
<1> QED
    BY Zenon, <1>1, <1>2 DEF Spent

\* What XREADGROUP returns is past the cursor.
LEMMA ReadIsNew ==
    ASSUME BusInv, NEW p \in Procs, ReadGroup(p)
    PROVE  /\ cursor <= cursor'
           /\ \A q \in Procs : \A i \in DOMAIN batch'[q] :
                 \/ cursor < batch'[q][i]
                 \/ \E k \in DOMAIN batch[q] : batch'[q][i] = batch[q][k]
<1> USE BusAssumption
<1> DEFINE first == Later(cursor, trimmed) + 1
           last  == IF first + Count - 1 <= published THEN first + Count - 1 ELSE published
           read  == [i \in 1..(last - first + 1) |-> first + i - 1]
<1>1. cursor' = last /\ batch' = [batch EXCEPT ![p] = read]
    BY Zenon DEF ReadGroup
<1>2. first <= published
    BY DEF ReadGroup, Unread, BusInv, BusTypes, Later
<1>3. first \in Int /\ last \in Int /\ first <= last /\ cursor < first /\ cursor \in Int
    BY <1>2 DEF BusInv, BusTypes, Later
<1> HIDE DEF first, last
<1>4. \A i \in DOMAIN read : cursor < read[i]
    BY <1>3
<1> HIDE DEF read
<1>5. batch'[p] = read /\ \A q \in Procs \ {p} : batch'[q] = batch[q]
    BY Zenon, <1>1 DEF BusInv, BusTypes
<1> QED
    BY <1>1, <1>3, <1>4, <1>5

\* A step that neither hands out nor acknowledges an event, and disturbs no
\* loop that awaits handlers.
LEMMA QuietStep ==
    ASSUME BusInv, StoreTypes, AckInv, BusInv', UNCHANGED <<job, handed, acked, limit>>,
           cursor <= cursor',
           \A p \in Procs : \A i \in DOMAIN batch'[p] :
               \/ cursor < batch'[p][i]
               \/ \E k \in DOMAIN batch[p] : batch'[p][i] = batch[p][k],
           \A p \in Procs :
               /\ loop'[p] \in {"wait", "ack"} => loop'[p] = loop[p] /\ handling'[p] = handling[p]
               /\ loop[p] = "wait" => loop'[p] = "wait" /\ handling'[p] = handling[p]
    PROVE  AckInv'
<1>1. Handed' = Handed
    BY Zenon DEF Handed
<1>2. ASSUME NEW m \in Events, Spent(m) PROVE Spent(m)'
    BY Zenon, <1>2, SpentStays DEF BusInv
<1>3. \A m \in acked : Spent(m)'
    BY Zenon, <1>2 DEF AckInv, BusInv, BusTypes
<1>4. ASSUME NEW p \in Procs, loop'[p] \in {"wait", "ack"} PROVE Spent(handling[p])'
  <2>1. loop[p] \in {"wait", "ack"} /\ handling'[p] = handling[p]
    BY Zenon, <1>4
  <2>2. handling[p] \in 0..MaxEvents /\ handling[p] # 0
    BY Zenon, <2>1 DEF BusInv, BusTypes, LoopShape
  <2>3. PICK m \in Events : m = handling[p]
    BY <2>2, BusAssumption DEF Events
  <2>4. Spent(m)
    BY Zenon, <2>1, <2>3 DEF AckInv
  <2> QED
    BY <1>2, <2>1, <2>3, <2>4 DEF Spent
<1>5. \A m \in Events : job[m].proc \in Procs
    BY Zenon DEF StoreTypes, AnyJob
<1>6. \A p \in Procs : loop'[p] = "ack" /\ handling'[p] \in Handed => job[handling'[p]].pc = "done"
    BY DEF AckInv
<1>7. AckedIsFinished' /\ \A m \in Events : job[m].pc # "none" <=> m \in Handed'
    BY Zenon, <1>1 DEF AckInv, AckedIsFinished
<1>8. limit.bus = "redis" => \A m \in Events : InFlight(m) =>
          loop'[job[m].proc] = "wait" /\ handling'[job[m].proc] = m
    BY Zenon, <1>5 DEF AckInv
<1>9. \A m \in Events : InFlight(m)' <=> InFlight(m)
    BY Zenon DEF InFlight
<1> QED
    BY Zenon, <1>1, <1>3, <1>4, <1>6, <1>7, <1>8, <1>9 DEF AckInv

\* The steps of the bus that hand out and acknowledge nothing are such steps.
LEMMA QuietBus ==
    ASSUME BusInv, StoreTypes, AckInv, BusInv', UNCHANGED <<job, handed>>,
           \/ XAdd
           \/ \E p \in Procs :
                 \/ Subscribe(p) \/ CreateGroup(p) \/ ReadGroup(p) \/ ReadInactive(p)
                 \/ AckFails(p) \/ Unsubscribe(p) \/ (~active[p] /\ Emit(p))
    PROVE  AckInv'
<1>1. ASSUME UNCHANGED <<limit, acked, cursor, loop, batch, handling>> PROVE AckInv'
    BY <1>1, QuietStep DEF BusInv, BusTypes
<1>2. ASSUME NEW p \in Procs, UNCHANGED <<limit, acked>>, cursor <= cursor', UNCHANGED batch,
             \/ UNCHANGED handling /\ loop[p] \in {"down", "create", "read"}
             \/ handling' = [handling EXCEPT ![p] = 0] /\ loop[p] = "ack",
             NEW l \in {"down", "create", "read", "batch"}, loop' = [loop EXCEPT ![p] = l]
      PROVE  AckInv'
  <2>1. loop'[p] = l /\ \A q \in Procs \ {p} : loop'[q] = loop[q] /\ handling'[q] = handling[q]
    BY Zenon, <1>2 DEF BusInv, BusTypes
  <2>2. \A q \in Procs :
            /\ loop'[q] \in {"wait", "ack"} => loop'[q] = loop[q] /\ handling'[q] = handling[q]
            /\ loop[q] = "wait" => loop'[q] = "wait" /\ handling'[q] = handling[q]
    BY Zenon, <1>2, <2>1
  <2> QED
    BY Zenon, <1>2, <2>2, QuietStep
<1>3. CASE XAdd
    BY Zenon, <1>1, <1>3 DEF XAdd
<1>4. ASSUME NEW p \in Procs, Unsubscribe(p) \/ (~active[p] /\ Emit(p)) PROVE AckInv'
    BY Zenon, <1>1, <1>4 DEF Unsubscribe, Emit
<1>5. ASSUME NEW p \in Procs, Subscribe(p) PROVE AckInv'
  <2> DEFINE l == IF limit.bus = "redis" THEN "create" ELSE "read"
  <2>1. /\ UNCHANGED <<limit, acked, cursor, batch, handling>> /\ loop[p] = "down"
        /\ l \in {"down", "create", "read", "batch"} /\ loop' = [loop EXCEPT ![p] = l]
    BY Zenon, <1>5 DEF Subscribe
  <2>2. cursor <= cursor'
    BY <2>1 DEF BusInv, BusTypes
  <2> HIDE DEF l
  <2> QED
    BY Zenon, <1>2, <2>1, <2>2
<1>6. ASSUME NEW p \in Procs, CreateGroup(p) PROVE AckInv'
  <2>1. cursor <= cursor'
    BY <1>6 DEF CreateGroup, NoGroup, BusInv, BusTypes
  <2> QED
    BY Zenon, <1>2, <1>6, <2>1 DEF CreateGroup
<1>7. ASSUME NEW p \in Procs, ReadInactive(p) PROVE AckInv'
  <2>1. cursor <= cursor'
    BY <1>7 DEF ReadInactive, Unread, Later, BusInv, BusTypes
  <2> QED
    BY Zenon, <1>2, <1>7, <2>1 DEF ReadInactive
<1>8. ASSUME NEW p \in Procs, AckFails(p) PROVE AckInv'
  <2> DEFINE l == AfterEvent(p)
  <2>1. /\ UNCHANGED <<limit, acked, cursor, batch>> /\ loop[p] = "ack"
        /\ l \in {"down", "create", "read", "batch"} /\ loop' = [loop EXCEPT ![p] = l]
        /\ handling' = [handling EXCEPT ![p] = 0]
    BY Zenon, <1>8 DEF AckFails, AfterEvent
  <2>2. cursor <= cursor'
    BY <2>1 DEF BusInv, BusTypes
  <2> HIDE DEF l
  <2> QED
    BY Zenon, <1>2, <2>1, <2>2
<1>9. ASSUME NEW p \in Procs, ReadGroup(p) PROVE AckInv'
  <2>1. /\ UNCHANGED <<limit, acked, handling>> /\ loop[p] = "read"
        /\ loop' = [loop EXCEPT ![p] = "batch"]
    BY Zenon, <1>9 DEF ReadGroup
  <2>2. loop'[p] = "batch" /\ \A q \in Procs \ {p} : loop'[q] = loop[q]
    BY Zenon, <2>1 DEF BusInv, BusTypes
  <2>3. \A q \in Procs :
            /\ loop'[q] \in {"wait", "ack"} => loop'[q] = loop[q] /\ handling'[q] = handling[q]
            /\ loop[q] = "wait" => loop'[q] = "wait" /\ handling'[q] = handling[q]
    BY Zenon, <2>1, <2>2
  <2>4. /\ cursor <= cursor'
        /\ \A q \in Procs : \A i \in DOMAIN batch'[q] :
              \/ cursor < batch'[q][i]
              \/ \E k \in DOMAIN batch[q] : batch'[q][i] = batch[q][k]
    BY Zenon, <1>9, ReadIsNew
  <2> QED
    BY Zenon, <2>1, <2>3, <2>4, QuietStep
<1> QED
    BY Zenon, <1>3, <1>4, <1>5, <1>6, <1>7, <1>8, <1>9

\* All handlers of an event have finished: it may be acknowledged.
LEMMA HandlersDoneAcks ==
    ASSUME BusInv, StoreTypes, AckInv, UNCHANGED job, NEW p \in Procs, HandlersDone(p)
    PROVE  AckInv'
<1>1. /\ UNCHANGED <<limit, cursor, batch, handling, handed, acked>> /\ loop[p] = "wait"
      /\ loop' = [loop EXCEPT ![p] = "ack"] /\ job[handling[p]].pc = "done"
    BY Zenon DEF HandlersDone, Settle
<1>2. loop'[p] = "ack" /\ \A q \in Procs \ {p} : loop'[q] = loop[q]
    BY Zenon, <1>1 DEF BusInv, BusTypes
<1>3. Handed' = Handed /\ \A m : Spent(m)' <=> Spent(m)
    BY Zenon, <1>1 DEF Handed, Spent
<1>4. \A q \in Procs : loop'[q] \in {"wait", "ack"} => loop[q] \in {"wait", "ack"}
    BY Zenon, <1>1, <1>2
<1>5. \A q \in Procs : loop'[q] = "ack" /\ handling[q] \in Handed => job[handling[q]].pc = "done"
    BY Zenon, <1>1, <1>2 DEF AckInv
<1>6. ASSUME limit.bus = "redis", NEW m \in Events, InFlight(m)
      PROVE  loop'[job[m].proc] = "wait" /\ handling[job[m].proc] = m
  <2>1. loop[job[m].proc] = "wait" /\ handling[job[m].proc] = m /\ job[m].proc \in Procs
    BY Zenon, <1>6 DEF AckInv, StoreTypes, AnyJob
  <2>2. job[m].proc # p
    BY Zenon, <1>1, <1>6, <2>1 DEF InFlight
  <2> QED
    BY Zenon, <1>2, <2>1, <2>2
<1>7. AckedIsFinished' /\ \A m \in Events : InFlight(m)' <=> InFlight(m)
    BY Zenon, <1>1, <1>3 DEF AckInv, AckedIsFinished, InFlight
<1>8. \A q \in Procs : loop'[q] \in {"wait", "ack"} => Spent(handling[q])
    BY Zenon, <1>4 DEF AckInv
<1>9. \A q \in Procs : loop'[q] \in {"wait", "ack"} => Spent(handling[q])'
    BY Zenon, <1>1, <1>8 DEF Spent
<1>10. (\A m \in acked : Spent(m)) /\ (limit.bus = "memory" => acked = {})
       /\ \A m \in Events : job[m].pc # "none" <=> m \in Handed
    BY Zenon DEF AckInv
<1> QED
    BY ZenonT(40), <1>1, <1>3, <1>5, <1>6, <1>7, <1>9, <1>10 DEF AckInv

\* XACK.
LEMMA AckAcks ==
    ASSUME BusInv, StoreTypes, AckInv, UNCHANGED job, NEW p \in Procs, Ack(p)
    PROVE  AckInv'
<1>1. /\ UNCHANGED <<limit, cursor, batch, handed>> /\ loop[p] = "ack"
      /\ loop' = [loop EXCEPT ![p] = AfterEvent(p)] /\ acked' = acked \cup {handling[p]}
      /\ handling' = [handling EXCEPT ![p] = 0] /\ AfterEvent(p) \in {"read", "batch"}
    BY Zenon DEF Ack, AfterEvent
<1>2. /\ loop'[p] \in {"read", "batch"}
      /\ \A q \in Procs \ {p} : loop'[q] = loop[q] /\ handling'[q] = handling[q]
    BY Zenon, <1>1 DEF BusInv, BusTypes
<1>3. Handed' = Handed /\ \A m : Spent(m)' <=> Spent(m)
    BY Zenon, <1>1 DEF Handed, Spent
<1>4. limit.bus # "memory"
    BY Zenon, <1>1 DEF BusInv, LoopShape
<1>5. ASSUME NEW m \in acked' PROVE Spent(m) /\ (m \in Handed => job[m].pc = "done")
  <2>1. CASE m \in acked
    BY Zenon, <2>1 DEF AckInv, AckedIsFinished
  <2>2. CASE m = handling[p]
    BY Zenon, <1>1, <2>2 DEF AckInv
  <2> QED
    BY Zenon, <1>1, <2>1, <2>2
<1>6. ASSUME limit.bus = "redis", NEW m \in Events, InFlight(m)
      PROVE  loop'[job[m].proc] = "wait" /\ handling'[job[m].proc] = m
  <2>1. loop[job[m].proc] = "wait" /\ handling[job[m].proc] = m /\ job[m].proc \in Procs
    BY Zenon, <1>6 DEF AckInv, StoreTypes, AnyJob
  <2> QED
    BY Zenon, <1>1, <1>2, <2>1
<1>7. ASSUME NEW q \in Procs, loop'[q] \in {"wait", "ack"}
      PROVE  /\ Spent(handling[q])' /\ handling'[q] = handling[q]
             /\ loop'[q] = "ack" /\ handling'[q] \in Handed => job[handling'[q]].pc = "done"
  <2>1. loop[q] = loop'[q] /\ handling'[q] = handling[q]
    BY Zenon, <1>2, <1>7
  <2>2. Spent(handling[q])
    BY Zenon, <1>7, <2>1 DEF AckInv
  <2>3. Spent(handling[q])'
    BY Zenon, <1>1, <2>1, <2>2 DEF Spent
  <2> QED
    BY Zenon, <2>1, <2>3 DEF AckInv
<1>8. \A m \in Events : InFlight(m)' <=> InFlight(m)
    BY Zenon DEF InFlight
<1>9. \A m \in Events : job[m].pc # "none" <=> m \in Handed
    BY Zenon DEF AckInv
<1> QED
    BY <1>1, <1>3, <1>4, <1>5, <1>6, <1>7, <1>8, <1>9 DEF AckInv, AckedIsFinished

\* The event that is dispatched was not spent, and is.
LEMMA DispatchSpends ==
    ASSUME BusInv, BusInv', NEW p \in Procs, Dispatch(p)
    PROVE  \E m \in Events :
              /\ m = Head(batch[p]) /\ Spent(m)' /\ ~Spent(m)
              /\ \A n \in Events : Spent(n) => Spent(n)'
              /\ handling' = [handling EXCEPT ![p] = m]
              /\ m \notin Handed /\ limit.bus = "redis"
<1>1. batch[p] \in Seq(Events) /\ batch[p] # <<>> /\ loop[p] = "batch"
    BY Zenon DEF Dispatch, BusInv, BusTypes, LoopShape
<1>2. PICK m \in Events : m = Head(batch[p]) /\ m = batch[p][1] /\ 1 \in DOMAIN batch[p]
    BY <1>1
<1>3. /\ handling' = [handling EXCEPT ![p] = m] /\ batch' = [batch EXCEPT ![p] = Tail(batch[p])]
      /\ cursor' = cursor
    BY Zenon, <1>2 DEF Dispatch
<1>4. batch'[p] = Tail(batch[p]) /\ \A q \in Procs \ {p} : batch'[q] = batch[q]
    BY Zenon, <1>3 DEF BusInv, BusTypes
<1>5. \A i \in DOMAIN batch'[p] : i + 1 \in DOMAIN batch[p] /\ i + 1 # 1 /\ batch'[p][i] = batch[p][i + 1]
    BY <1>1, <1>4
<1>6. m <= cursor /\ m \notin Handed /\ ~Spent(m)
    BY <1>2 DEF BusInv, BatchShape, Spent
<1>7. ASSUME NEW q \in Procs, NEW i \in DOMAIN batch'[q] PROVE batch'[q][i] # m
  <2>1. CASE q = p
    <3>1. i + 1 \in DOMAIN batch[p] /\ i + 1 # 1 /\ batch'[q][i] = batch[p][i + 1]
        BY Zenon, <1>5, <1>7, <2>1
    <3> QED
        BY <1>2, <3>1 DEF BusInv, BatchShape
  <2>2. CASE q # p
    BY <1>2, <1>4, <1>7, <2>2 DEF BusInv, BatchShape
  <2> QED
    BY Zenon, <2>1, <2>2
<1>8. Spent(m)'
    BY Zenon, <1>3, <1>6, <1>7 DEF Spent
<1>9. \A q \in Procs : \A i \in DOMAIN batch'[q] : \E k \in DOMAIN batch[q] : batch'[q][i] = batch[q][k]
    BY Zenon, <1>4, <1>5
<1>10. \A n \in Events : Spent(n) => Spent(n)'
    BY SMTT(20), <1>3, <1>9, SpentStays DEF BusInv, BusTypes
<1>11. limit.bus = "redis"
  <2>1. limit \in Limit
    BY Zenon, BusAssumption DEF BusInv, BusTypes
  <2>2. limit.bus # "memory"
    BY Zenon, <1>1 DEF BusInv, LoopShape
  <2> QED
    BY Zenon, <2>1, <2>2 DEF Limit
<1> QED
    BY Zenon, <1>2, <1>3, <1>6, <1>8, <1>10, <1>11

\* An event for which there is no handler left.
LEMMA DispatchUnhandled ==
    ASSUME BusInv, BusInv', StoreTypes, AckInv, UNCHANGED <<job, handed>>,
           NEW p \in Procs, ~active[p], Dispatch(p)
    PROVE  AckInv'
<1>1. PICK m \in Events :
          /\ Spent(m)' /\ ~Spent(m) /\ \A n \in Events : Spent(n) => Spent(n)'
          /\ handling' = [handling EXCEPT ![p] = m] /\ m \notin Handed
    BY Zenon, DispatchSpends
<1>2. loop[p] = "batch" /\ loop' = [loop EXCEPT ![p] = "ack"] /\ UNCHANGED <<limit, acked>>
    BY Zenon DEF Dispatch
<1>3. /\ loop'[p] = "ack" /\ handling'[p] = m
      /\ \A q \in Procs \ {p} : loop'[q] = loop[q] /\ handling'[q] = handling[q]
    BY Zenon, <1>1, <1>2 DEF BusInv, BusTypes
<1>4. Handed' = Handed /\ \A n \in Events : InFlight(n)' <=> InFlight(n)
    BY Zenon DEF Handed, InFlight
<1>5. ASSUME NEW q \in Procs, loop'[q] \in {"wait", "ack"}
      PROVE  /\ Spent(handling[q])'
             /\ loop'[q] = "ack" /\ handling'[q] \in Handed => job[handling'[q]].pc = "done"
  <2>1. CASE q = p
    BY <1>1, <1>3, <2>1 DEF Spent
  <2>2. CASE q # p
    <3>1. loop[q] = loop'[q] /\ handling'[q] = handling[q]
        BY Zenon, <1>3, <2>2
    <3>2. PICK n \in Events : n = handling[q]
        BY Zenon, <1>5, <3>1, Handled
    <3>3. Spent(n)'
        BY Zenon, <1>1, <1>5, <3>1, <3>2 DEF AckInv
    <3>4. Spent(handling[q])'
        BY Zenon, <3>1, <3>2, <3>3 DEF Spent
    <3> QED
        BY Zenon, <3>1, <3>4 DEF AckInv
  <2> QED
    BY Zenon, <2>1, <2>2
<1>6. ASSUME limit.bus = "redis", NEW n \in Events, InFlight(n)
      PROVE  loop'[job[n].proc] = "wait" /\ handling'[job[n].proc] = n
  <2>1. loop[job[n].proc] = "wait" /\ handling[job[n].proc] = n /\ job[n].proc \in Procs
    BY Zenon, <1>6 DEF AckInv, StoreTypes, AnyJob
  <2> QED
    BY Zenon, <1>2, <1>3, <2>1
<1>7. \A n \in acked : Spent(n)'
    BY Zenon, <1>1 DEF AckInv, BusInv, BusTypes
<1>8. (limit.bus = "memory" => acked = {}) /\ AckedIsFinished'
      /\ \A n \in Events : job[n].pc # "none" <=> n \in Handed
    BY Zenon, <1>2, <1>4 DEF AckInv, AckedIsFinished
<1> QED
    BY <1>2, <1>4, <1>5, <1>6, <1>7, <1>8 DEF AckInv

\* A job begins: nobody has acknowledged its event.
LEMMA BeginUnacked ==
    ASSUME BusInv, BusInv', StoreTypes, AckInv, NEW p \in Procs, NEW m \in Events \ Handed,
           active[p], Begin(m, p), handed' = Append(handed, m),
           \/ Emit(p) /\ m = published'
           \/ Dispatch(p) /\ m = Head(batch[p])
    PROVE  AckInv'
<1>1. /\ \A n \in Events \ {m} : job'[n] = job[n]
      /\ job'[m].pc = "rule" /\ job'[m].proc = p
    BY Zenon, BeginFields
<1>2. Handed' = Handed \cup {m}
    BY Zenon, HandedAppend DEF BusInv, BusTypes
<1>3. \A n \in Events : job'[n].pc # "none" <=> n \in Handed'
    BY <1>1, <1>2 DEF AckInv
<1>4. CASE Emit(p)
  <2>1. limit.bus = "memory" /\ UNCHANGED <<limit, cursor, loop, batch, handling, acked>>
    BY Zenon, <1>4 DEF Emit
  <2>2. acked' = {} /\ \A q \in Procs : loop'[q] \in {"down", "read"}
    BY Zenon, <2>1 DEF AckInv, BusInv, LoopShape
  <2> QED
    BY Zenon, <1>3, <2>1, <2>2 DEF AckInv, AckedIsFinished
<1>5. CASE Dispatch(p) /\ m = Head(batch[p])
  <2>1. /\ Spent(m)' /\ ~Spent(m) /\ \A n \in Events : Spent(n) => Spent(n)'
        /\ handling' = [handling EXCEPT ![p] = m] /\ limit.bus = "redis"
    BY Zenon, <1>5, DispatchSpends
  <2>2. loop[p] = "batch" /\ loop' = [loop EXCEPT ![p] = "wait"] /\ UNCHANGED <<limit, acked>>
    BY Zenon, <1>5 DEF Dispatch
  <2>3. /\ loop'[p] = "wait" /\ handling'[p] = m
        /\ \A q \in Procs \ {p} : loop'[q] = loop[q] /\ handling'[q] = handling[q]
    BY Zenon, <2>1, <2>2 DEF BusInv, BusTypes
  <2>4. ASSUME NEW q \in Procs, loop'[q] \in {"wait", "ack"}
        PROVE  /\ Spent(handling[q])'
               /\ loop'[q] = "ack" /\ handling'[q] \in Handed' => job'[handling'[q]].pc = "done"
    <3>1. CASE q = p
        BY <2>1, <2>3, <3>1 DEF Spent
    <3>2. CASE q # p
      <4>1. loop[q] = loop'[q] /\ handling'[q] = handling[q]
        BY Zenon, <2>3, <3>2
      <4>2. PICK n \in Events : n = handling[q]
        BY Zenon, <2>4, <4>1, Handled
      <4>3. Spent(n) /\ Spent(n)' /\ n # m
        BY <2>1, <2>4, <4>1, <4>2 DEF AckInv
      <4>4. Spent(handling[q])'
        BY Zenon, <4>1, <4>2, <4>3 DEF Spent
      <4>5. loop'[q] = "ack" /\ n \in Handed' => job'[n].pc = "done"
        BY <1>1, <1>2, <4>1, <4>2, <4>3 DEF AckInv
      <4> QED
        BY Zenon, <4>1, <4>2, <4>4, <4>5
    <3> QED
        BY Zenon, <3>1, <3>2
  <2>5. ASSUME NEW n \in Events, InFlight(n)'
        PROVE  loop'[job'[n].proc] = "wait" /\ handling'[job'[n].proc] = n
    <3>1. CASE n = m
        BY Zenon, <1>1, <2>3, <3>1
    <3>2. CASE n # m
      <4>1. job'[n] = job[n] /\ InFlight(n)
        BY Zenon, <1>1, <2>5, <3>2 DEF InFlight
      <4>2. loop[job[n].proc] = "wait" /\ handling[job[n].proc] = n /\ job[n].proc \in Procs
        BY Zenon, <2>1, <4>1 DEF AckInv, StoreTypes, AnyJob
      <4> QED
        BY Zenon, <2>2, <2>3, <4>1, <4>2
    <3> QED
        BY Zenon, <3>1, <3>2
  <2>6. \A n \in acked : Spent(n)' /\ n # m /\ n \in Events
    BY ZenonT(40), <2>1 DEF AckInv, BusInv, BusTypes
  <2>7. AckedIsFinished'
    BY <1>1, <1>2, <2>2, <2>6 DEF AckInv, AckedIsFinished
  <2> QED
    BY Zenon, <1>3, <2>1, <2>2, <2>4, <2>5, <2>6, <2>7 DEF AckInv
<1> QED
    BY Zenon, <1>4, <1>5

\* A crash stops the loop of the process whose jobs it takes.
LEMMA CrashUnacked ==
    ASSUME BusInv, BusInv', StoreTypes, AckInv, NEW p \in Procs, Crash(p), job' = Killed(p)
    PROVE  AckInv'
<1>1. \A m \in Events :
          \/ job'[m] = job[m] /\ (InFlight(m) => job[m].proc # p)
          \/ InFlight(m) /\ job'[m].pc = "lost"
    BY Zenon, KilledFields
<1>2. /\ loop' = [loop EXCEPT ![p] = "down"] /\ batch' = [batch EXCEPT ![p] = <<>>]
      /\ handling' = [handling EXCEPT ![p] = 0] /\ UNCHANGED <<limit, cursor, handed, acked>>
    BY Zenon DEF Crash
<1>3. /\ loop'[p] = "down" /\ batch'[p] = <<>>
      /\ \A q \in Procs \ {p} : loop'[q] = loop[q] /\ handling'[q] = handling[q] /\ batch'[q] = batch[q]
    BY Zenon, <1>2 DEF BusInv, BusTypes
<1>4. \A m \in Events : Spent(m) => Spent(m)'
  <2>1. \A q \in Procs : \A i \in DOMAIN batch'[q] : \E k \in DOMAIN batch[q] : batch'[q][i] = batch[q][k]
    BY <1>3
  <2> QED
    BY <1>2, <2>1, SpentStays DEF BusInv, BusTypes
<1>5. Handed' = Handed
    BY Zenon, <1>2 DEF Handed
<1>6. \A m \in Events : (job[m].pc = "done" => job'[m].pc = "done") /\ (job'[m].pc # "none" <=> job[m].pc # "none")
    BY Zenon, <1>1 DEF InFlight
<1>7. ASSUME NEW q \in Procs, loop'[q] \in {"wait", "ack"}
      PROVE  /\ Spent(handling[q])'
             /\ loop'[q] = "ack" /\ handling'[q] \in Handed => job'[handling'[q]].pc = "done"
  <2>1. loop[q] = loop'[q] /\ handling'[q] = handling[q]
    BY Zenon, <1>3, <1>7
  <2>2. PICK n \in Events : n = handling[q]
    BY Zenon, <1>7, <2>1, Handled
  <2>3. Spent(n)'
    BY Zenon, <1>4, <1>7, <2>1, <2>2 DEF AckInv
  <2>4. Spent(handling[q])'
    BY Zenon, <2>1, <2>2, <2>3 DEF Spent
  <2>5. loop[q] = "ack" /\ n \in Handed => job[n].pc = "done"
    BY Zenon, <2>2 DEF AckInv
  <2>6. job[n].pc = "done" => job'[n].pc = "done"
    BY Zenon, <1>6
  <2>7. handling'[q] = n
    BY Zenon, <2>1, <2>2
  <2> QED
    BY Zenon, <2>1, <2>4, <2>5, <2>6, <2>7
<1>8. ASSUME limit.bus = "redis", NEW n \in Events, InFlight(n)'
      PROVE  loop'[job'[n].proc] = "wait" /\ handling'[job'[n].proc] = n
  <2>1. job'[n] = job[n] /\ InFlight(n) /\ job[n].proc # p
    BY Zenon, <1>1, <1>8 DEF InFlight
  <2>2. loop[job[n].proc] = "wait" /\ handling[job[n].proc] = n /\ job[n].proc \in Procs
    BY Zenon, <1>8, <2>1 DEF AckInv, StoreTypes, AnyJob
  <2> QED
    BY <1>3, <2>1, <2>2
<1>9. \A m \in acked : Spent(m)' /\ m \in Events
    BY Zenon, <1>4 DEF AckInv, BusInv, BusTypes
<1>10. AckedIsFinished' /\ \A m \in Events : job'[m].pc # "none" <=> m \in Handed
    BY Zenon, <1>2, <1>5, <1>6, <1>9 DEF AckInv, AckedIsFinished
<1>11. limit.bus = "memory" => acked = {}
    BY Zenon DEF AckInv
<1> QED
    BY <1>2, <1>5, <1>7, <1>8, <1>9, <1>10, <1>11 DEF AckInv

\* A job goes on: it was in flight, so its event is not acknowledged.
LEMMA JobUnacked ==
    ASSUME BusInv, StoreTypes, AckInv, NEW m \in Events, InFlight(m),
           job' = job \/ \E pc \in JobPcs \ {"none", "lost", "rule"} : JobTo(m, pc),
           UNCHANGED <<limit, cursor, loop, batch, handling, handed, acked>>
    PROVE  AckInv'
<1>1. Handed' = Handed /\ Handed \subseteq Events
    BY Zenon, EventsOnly DEF Handed, BusInv
<1>2. \A n : Spent(n)' <=> Spent(n)
    BY Zenon DEF Spent
<1>3. \A n \in Events :
          /\ job[n].pc = "done" => job'[n].pc = "done"
          /\ job'[n].pc # "none" <=> job[n].pc # "none"
          /\ job'[n].proc = job[n].proc
          /\ InFlight(n)' => InFlight(n)
    BY Zenon DEF JobTo, InFlight
<1>4. \A p \in Procs : loop[p] = "ack" /\ handling[p] \in Handed => job'[handling[p]].pc = "done"
    BY Zenon, <1>1, <1>3 DEF AckInv
<1>5. \A n \in acked : n \in Handed => job'[n].pc = "done"
    BY Zenon, <1>1, <1>3 DEF AckInv, AckedIsFinished
<1>6. \A p \in Procs : loop[p] \in {"wait", "ack"} => Spent(handling[p])'
    BY DEF AckInv, Spent
<1>7. limit.bus = "redis" => \A n \in Events : InFlight(n)' =>
          loop[job'[n].proc] = "wait" /\ handling[job'[n].proc] = n
    BY Zenon, <1>3 DEF AckInv
<1>8. (\A n \in acked : Spent(n)') /\ (limit.bus = "memory" => acked = {})
      /\ \A n \in Events : job'[n].pc # "none" <=> n \in Handed
    BY Zenon, <1>2, <1>3 DEF AckInv
<1> QED
    BY Zenon, <1>1, <1>4, <1>5, <1>6, <1>7, <1>8 DEF AckInv, AckedIsFinished

\* Every step keeps it.
LEMMA AckStep ==
    ASSUME BusInv, BusInv', StoreTypes, AckInv, [Next]_vars
    PROVE  AckInv'
<1>1. ASSUME UNCHANGED <<busVars, job>> PROVE AckInv'
  <2>1. Handed' = Handed /\ \A n : (Spent(n)' <=> Spent(n)) /\ (InFlight(n)' <=> InFlight(n))
    BY Zenon, <1>1 DEF busVars, Handed, Spent, InFlight
  <2>2. \A p \in Procs : Spent(handling[p])' <=> Spent(handling[p])
    BY Zenon, <1>1 DEF busVars, Spent
  <2> QED
    BY Zenon, <1>1, <2>1, <2>2 DEF AckInv, AckedIsFinished, busVars
<1>2. CASE UNCHANGED vars \/ Tick \/ AskStep
    BY Zenon, <1>1, <1>2 DEF vars, Tick, jobVars, AskStep, Investigate, InsertRow, LinkAndSpawn, AskedAgent
<1>3. CASE JobStep
  <2>1. PICK m \in Events :
        \/ ReadRule(m) \/ Dedup(m) \/ ResolveIdentity(m)
        \/ AgentCreates(m) \/ AgentCompletes(m) \/ AgentReturns(m)
        \/ FindRow(m) \/ ForceStatus(m) \/ LinkRule(m) \/ StoreFails(m)
    BY Zenon, <1>3 DEF JobStep
  <2>2. /\ InFlight(m)
        /\ job' = job \/ \E pc \in JobPcs \ {"none", "lost", "rule"} : JobTo(m, pc)
    BY Zenon, <2>1, JobMoves
  <2>3. UNCHANGED <<limit, cursor, loop, batch, handling, handed, acked>>
    BY Zenon, <2>1 DEF busVars, ReadRule, Dedup, ResolveIdentity, AgentCreates, AgentCompletes,
                AgentReturns, FindRow, ForceStatus, LinkRule, StoreFails, Fault
  <2> QED
    BY Zenon, <2>2, <2>3, JobUnacked
<1>4. CASE BusStep
  <2>1. ASSUME UNCHANGED <<job, handed>>,
               \/ XAdd
               \/ \E p \in Procs :
                     \/ Subscribe(p) \/ CreateGroup(p) \/ ReadGroup(p) \/ ReadInactive(p)
                     \/ AckFails(p) \/ Unsubscribe(p) \/ (~active[p] /\ Emit(p))
        PROVE  AckInv'
    BY Zenon, <2>1, QuietBus
  <2>2. ASSUME UNCHANGED <<job, handed>>, NEW p \in Procs,
               HandlersDone(p) \/ Ack(p) \/ (~active[p] /\ Dispatch(p))
        PROVE  AckInv'
    BY Zenon, <2>2, HandlersDoneAcks, AckAcks, DispatchUnhandled
  <2>3. ASSUME NEW p \in Procs, NEW m \in Events \ Handed,
               active[p] /\ Begin(m, p) /\ handed' = Append(handed, m),
               \/ Emit(p) /\ m = published'
               \/ Dispatch(p) /\ m = Head(batch[p])
        PROVE  AckInv'
    BY Zenon, <2>3, BeginUnacked
  <2>4. ASSUME NEW p \in Procs, Crash(p), job' = Killed(p) PROVE AckInv'
    BY Zenon, <2>4, CrashUnacked
  <2> HIDE DEF AckInv
  <2> QED
    BY Zenon, <1>4, <2>1, <2>2, <2>3, <2>4, BusStepJobs
<1> QED
    BY Zenon, <1>2, <1>3, <1>4 DEF Next

\* Nothing is acknowledged before anything is published.
LEMMA AckInit == Init => AckInv
<1> SUFFICES ASSUME Init PROVE AckInv
    BY Zenon
<1>1. handed = <<>> /\ acked = {} /\ \A p \in Procs : loop[p] = "down"
    BY Zenon DEF Init, BusInit
<1>2. Handed = {}
    BY <1>1 DEF Handed
<1>3. \A m \in Events : job[m].pc = "none"
    BY Zenon DEF Init
<1> QED
    BY Zenon, <1>1, <1>2, <1>3 DEF AckInv, AckedIsFinished, InFlight

\* The invariants of the bus, of the store and of the acknowledgements together.
LEMMA AckInvHolds == Spec => [](BusInv /\ StoreTypes /\ HasRow /\ AckInv)
<1> DEFINE Inv == BusInv /\ StoreTypes /\ HasRow /\ AckInv
<1>1. Init => Inv
    BY Zenon, BusInvInit, StoreInit, AckInit DEF Init
<1>2. Inv /\ [Next]_vars => Inv'
    BY Zenon, BusSimulation, StoreStep, AckStep
<1> QED
    BY <1>1, <1>2, PTL DEF Spec

\* No event is acknowledged while its investigation is under way, and none
\* whose investigation died with its process, on either bus.
THEOREM AcksComeLast == Spec => []AckedIsFinished
<1>1. AckInv => AckedIsFinished
    BY Zenon DEF AckInv
<1> QED
    BY <1>1, AckInvHolds, PTL

\* On Redis a process never has two investigations in flight: the loop waits
\* for the promise of the one it began.
THEOREM OneJobPerProcess == Spec => []OneAtATime
<1>1. AckInv => OneAtATime
    BY DEF AckInv, OneAtATime
<1> QED
    BY <1>1, AckInvHolds, PTL

-----------------------------------------------------------------------------
(* AutoInvestigation: the cooldown between two investigations of a rule.   *)

\* A row is not written before it is created, and not in the future.
RowTimes == \A i \in 1..Len(rows) : rows[i].at <= rows[i].updated /\ rows[i].updated <= clock

\* What the consumer, when it alone decides, knows at each point of job n: the
\* row its rule is linked to ended longer than the cooldown ago, the row it
\* picked is younger than its start, and what a finished job picked is not
\* younger than what its rule is linked to.
JobCool(n) ==
    LET j == job[n]
        l == link[j.rule]
    IN  /\ j.pc # "lost"
        /\ j.pc = "dedup" => j.seen = l
        /\ j.pc = "identity" /\ l # 0 => clock - rows[l].updated > Cooldown
        /\ j.pc \in {"agent", "finalize", "status", "link"} /\ l # 0 =>
              j.start - rows[l].updated > Cooldown
        /\ j.pc = "status" => rows[j.pick].status \in Running
        /\ j.pc \in {"status", "link"} => rows[j.pick].at >= j.start
        /\ j.pc \notin {"status", "link", "done"} => j.pick = 0
        /\ j.pc = "done" /\ j.pick # 0 =>
              /\ l # 0 /\ rows[j.pick].status \in Terminal
              /\ rows[j.pick].updated <= rows[l].updated

Cool ==
    /\ \A n \in Events : JobCool(n)
    /\ \A r \in Rules : link[r] # 0 => rows[link[r]].status \in Terminal

CoolInv == RowTimes /\ (Undisturbed => Cool)

\* The cooldown follows: no order of the two jobs is needed.
LEMMA CoolKeeps == ASSUME BusInv, StoreTypes, CoolInv PROVE CooldownKept
<1> SUFFICES ASSUME Undisturbed, NEW m \in Events, NEW n \in Events,
                    job[m].rule = job[n].rule, job[m].pc = "done", job[m].pick # 0,
                    job[n].pc \in {"agent", "finalize", "status", "link"}
             PROVE  job[n].start - rows[job[m].pick].updated > Cooldown
  <2>1. \A i \in DOMAIN handed : handed[i] \in Events
    BY DEF BusInv, BusTypes
  <2> QED
    BY Zenon, <2>1 DEF CooldownKept
<1> DEFINE l == link[job[n].rule]
<1>1. JobCool(m) /\ JobCool(n)
    BY Zenon DEF CoolInv, Cool
<1>2. l # 0 /\ rows[job[m].pick].updated <= rows[l].updated
    BY Zenon, <1>1 DEF JobCool
<1>3. job[n].start - rows[l].updated > Cooldown
    BY Zenon, <1>1, <1>2 DEF JobCool
<1>4. job[m].pick \in 1..Len(rows) /\ l \in 1..Len(rows) /\ job[n].start \in Nat
    BY <1>2 DEF StoreTypes, AnyJob
<1> HIDE DEF l
<1>5. rows[job[m].pick].updated \in Nat /\ rows[l].updated \in Nat
  <2>1. \A i \in 1..Len(rows) : rows[i] \in AnyRow
    BY DEF StoreTypes
  <2>2. rows[job[m].pick] \in AnyRow /\ rows[l] \in AnyRow
    BY Zenon, <1>4, <2>1
  <2> QED
    BY Zenon, <2>2 DEF AnyRow
<1> QED
    BY <1>2, <1>3, <1>4, <1>5, InvestigationAssumption

\* With one process and no crash, one job at most is in flight.
LEMMA OnlyOne ==
    ASSUME StoreTypes, AckInv, Undisturbed, NEW m \in Events, NEW n \in Events, InFlight(m), InFlight(n)
    PROVE  m = n
<1>1. m \in Handed /\ n \in Handed
    BY Zenon DEF AckInv, InFlight
<1>2. job[m].proc = job[n].proc
    BY Zenon, <1>1 DEF Undisturbed
<1> QED
    BY <1>2 DEF AckInv, Undisturbed

\* Every manual request that moves is no longer idle.
LEMMA AskDisturbs ==
    ASSUME StoreTypes, AskStep PROVE \E a \in Requests : asked'[a].pc # "idle"
<1>1. PICK a \in Requests : Investigate(a) \/ InsertRow(a) \/ LinkAndSpawn(a) \/ AskedAgent(a)
    BY Zenon DEF AskStep
<1>2. asked[a] \in AnyAsk /\ asked \in [Requests -> AnyAsk]
    BY Zenon DEF StoreTypes
<1>3. CASE Investigate(a)
  <2>1. PICK r \in Rules, pc \in {"done", "insert"} : asked' = [asked EXCEPT ![a].rule = r, ![a].pc = pc]
    BY Zenon, <1>3 DEF Investigate
  <2> QED
    BY Zenon, <1>2, <2>1 DEF AnyAsk
<1>4. CASE InsertRow(a)
    BY Zenon, <1>2, <1>4 DEF InsertRow, AnyAsk
<1>5. CASE LinkAndSpawn(a)
    BY Zenon, <1>2, <1>5 DEF LinkAndSpawn, AnyAsk
<1>6. CASE AskedAgent(a)
  <2>1. asked[a].pc = "agent"
    BY Zenon, <1>6 DEF AskedAgent
  <2>2. \/ \E n : asked' = [asked EXCEPT ![a].own = n]
        \/ asked' = asked
        \/ asked' = [asked EXCEPT ![a].pc = "done", ![a].own = 0]
    BY Zenon, <1>6 DEF AskedAgent
  <2> QED
    BY <1>2, <2>1, <2>2 DEF AnyAsk
<1> QED
    BY Zenon, <1>1, <1>3, <1>4, <1>5, <1>6

\* What disturbs the consumer is not undone.
LEMMA CalmBefore ==
    ASSUME BusInv, StoreTypes, AckInv, [Next]_vars, Undisturbed'
    PROVE  Undisturbed /\ ~AskStep /\ UNCHANGED <<limit, faults, crashes>>
<1>1. limit' = limit /\ faults' \in {faults, faults + 1} /\ crashes' \in {crashes, crashes + 1}
    BY Zenon DEF Next, Tick, BusStep, Bus, Deliver, XAdd, Subscribe, CreateGroup, ReadGroup, ReadInactive,
           HandlersDone, Settle, Ack, AckFails, Unsubscribe, Emit, Dispatch, Crash,
           JobStep, AskStep, vars, busVars, ReadRule, Dedup, ResolveIdentity,
           AgentCreates, AgentCompletes, AgentReturns, FindRow, ForceStatus, LinkRule, StoreFails,
           Fault, Investigate, InsertRow, LinkAndSpawn, AskedAgent
<1>2. limit.bus = "redis" /\ faults = 0 /\ crashes = 0 /\ faults' = 0 /\ crashes' = 0
    BY <1>1 DEF Undisturbed, StoreTypes
<1>3. Requests' = Requests
    BY Zenon, <1>1 DEF Requests
<1>4. ~AskStep
    BY Zenon, <1>3, AskDisturbs DEF Undisturbed
<1>5. asked' = asked
    BY Zenon, <1>4 DEF Next, Tick, jobVars, BusStep, vars, JobStep, ReadRule, Dedup, ResolveIdentity,
           AgentCreates, AgentCompletes, AgentReturns, FindRow, ForceStatus, LinkRule, StoreFails, Fault
<1>6. \A m \in Handed : m \in Handed' /\ job'[m].proc = job[m].proc
  <2>1. Handed \subseteq Events
    BY Zenon, EventsOnly DEF BusInv
  <2>2. CASE UNCHANGED <<job, handed>>
    BY Zenon, <2>2 DEF Handed
  <2>3. CASE JobStep
    <3>1. PICK m \in Events :
        \/ ReadRule(m) \/ Dedup(m) \/ ResolveIdentity(m)
        \/ AgentCreates(m) \/ AgentCompletes(m) \/ AgentReturns(m)
        \/ FindRow(m) \/ ForceStatus(m) \/ LinkRule(m) \/ StoreFails(m)
        BY Zenon, <2>3 DEF JobStep
    <3>2. job' = job \/ \E pc \in JobPcs \ {"none", "lost", "rule"} : JobTo(m, pc)
        BY Zenon, <3>1, JobMoves
    <3>3. handed' = handed
        BY Zenon, <3>1 DEF busVars, ReadRule, Dedup, ResolveIdentity, AgentCreates, AgentCompletes,
                    AgentReturns, FindRow, ForceStatus, LinkRule, StoreFails, Fault
    <3>4. \A n \in Events : job'[n].proc = job[n].proc
        BY Zenon, <3>2 DEF JobTo
    <3> QED
        BY Zenon, <2>1, <3>3, <3>4 DEF Handed
  <2>4. CASE BusStep
    <3>1. ASSUME NEW p \in Procs, Crash(p) PROVE FALSE
        BY <1>2, <3>1 DEF Crash
    <3>2. ASSUME NEW p \in Procs, NEW m \in Events \ Handed, Begin(m, p), handed' = Append(handed, m)
          PROVE  \A n \in Handed : n \in Handed' /\ job'[n].proc = job[n].proc
      <4>1. Handed' = Handed \cup {m}
        BY Zenon, <3>2, HandedAppend DEF BusInv, BusTypes
      <4>2. \A n \in Events \ {m} : job'[n] = job[n]
        BY Zenon, <3>2, BeginFields
      <4> QED
        BY Zenon, <2>1, <4>1, <4>2
    <3>3. \/ UNCHANGED job /\ UNCHANGED handed
          \/ \E p \in Procs, m \in Events \ Handed : Begin(m, p) /\ handed' = Append(handed, m)
          \/ \E p \in Procs : Crash(p)
        BY Zenon, <2>4, BusStepJobs
    <3>4. UNCHANGED job /\ UNCHANGED handed => UNCHANGED <<job, handed>>
        BY Zenon
    <3> DEFINE Goal == \A n \in Handed : n \in Handed' /\ job'[n].proc = job[n].proc
    <3>5. UNCHANGED <<job, handed>> => Goal
        BY Zenon, <2>2
    <3>6. ASSUME NEW p \in Procs, NEW m \in Events \ Handed, Begin(m, p), handed' = Append(handed, m)
          PROVE  Goal
        BY Zenon, <3>2, <3>6
    <3> HIDE DEF Goal
    <3>7. Goal
        BY Zenon, <3>1, <3>3, <3>4, <3>5, <3>6
    <3> QED
        BY Zenon, <3>7 DEF Goal
  <2>5. CASE Tick \/ UNCHANGED vars
    BY Zenon, <2>2, <2>5 DEF Tick, vars, busVars, jobVars
  <2> QED
    BY Zenon, <1>4, <2>3, <2>4, <2>5 DEF Next
<1> QED
    BY Zenon, <1>1, <1>2, <1>3, <1>4, <1>5, <1>6 DEF Undisturbed

\* The rows that ended are not written.
Frozen == \A i \in 1..Len(rows) : rows[i].status \in Terminal => rows'[i] = rows[i]

\* A job that stays what it is keeps what it knows.
LEMMA StaysCool ==
    ASSUME StoreTypes, HasRow, RowsGrow, Frozen, Cool, clock <= clock', clock' \in Nat, link' = link,
           NEW n \in Events, job'[n] = job[n],
           job[n].pc = "status" => rows'[job[n].pick] = rows[job[n].pick]
    PROVE  JobCool(n)'
<1> DEFINE j == job[n]
           l == link[j.rule]
<1>1. j \in AnyJob /\ j.rule \in Rules /\ j.start \in Nat /\ j.pick \in Nat /\ Len(rows) \in Nat
      /\ j.pick <= Len(rows) /\ l \in Nat /\ l <= Len(rows) /\ clock \in Nat
    BY DEF StoreTypes, AnyJob
<1>2. l # 0 => l \in 1..Len(rows) /\ rows'[l] = rows[l] /\ rows[l].updated \in Nat
  <2>1. \A i \in 1..Len(rows) : rows[i] \in AnyRow
    BY DEF StoreTypes
  <2>2. l # 0 => l \in 1..Len(rows) /\ rows[l].status \in Terminal
    BY <1>1 DEF Cool
  <2> HIDE DEF l
  <2> QED
    BY Zenon, <2>1, <2>2 DEF Frozen, AnyRow
<1>3. JobCool(n)
    BY Zenon DEF Cool
<1>4. j.pick # 0 => j.pick \in 1..Len(rows)
    BY <1>1
<1>5. j.pc \in {"status", "link"} => rows'[j.pick].at = rows[j.pick].at
    BY Zenon, <1>4 DEF HasRow, RowsGrow
<1>6. j.pc = "done" /\ j.pick # 0 => rows'[j.pick] = rows[j.pick]
    BY Zenon, <1>3, <1>4 DEF JobCool, Frozen
<1>7. j.pc = "identity" /\ l # 0 => clock' - rows'[l].updated > Cooldown
  <2>1. j.pc = "identity" /\ l # 0 => clock - rows[l].updated > Cooldown
    BY Zenon, <1>3 DEF JobCool
  <2> HIDE DEF j, l
  <2> QED
    BY <1>1, <1>2, <2>1, InvestigationAssumption
<1> QED
    BY Zenon, <1>2, <1>3, <1>5, <1>6, <1>7 DEF JobCool

\* Links that stay lead to the same rows.
LEMMA LinksStay ==
    ASSUME StoreTypes, Frozen, Cool, link' = link
    PROVE  \A r \in Rules : link'[r] # 0 => rows'[link'[r]].status \in Terminal
<1> SUFFICES ASSUME NEW r \in Rules, link[r] # 0 PROVE rows'[link[r]].status \in Terminal
    BY Zenon
<1>1. link[r] \in 1..Len(rows)
    BY DEF StoreTypes
<1> QED
    BY Zenon, <1>1 DEF Cool, Frozen

\* Steps that write no row and no link, and after which the job that moved, if
\* any, is as it should be.
LEMMA ReadsStayCool ==
    ASSUME StoreTypes, HasRow, Cool, UNCHANGED <<clock, rows, link>>, NEW m \in Events,
           JobCool(m)', \A n \in Events \ {m} : job'[n] = job[n]
    PROVE  Cool'
<1>1. RowsGrow /\ Frozen /\ clock <= clock' /\ clock' \in Nat
    BY RowsChange DEF StoreTypes, Frozen
<1>2. \A n \in Events : JobCool(n)'
  <2>1. ASSUME NEW n \in Events, n # m PROVE JobCool(n)'
    BY Zenon, <1>1, <2>1, StaysCool
  <2> QED
    BY Zenon, <2>1
<1>3. \A r \in Rules : link'[r] # 0 => rows'[link'[r]].status \in Terminal
    BY Zenon, <1>1, LinksStay
<1> QED
    BY Zenon, <1>2, <1>3 DEF Cool

\* shouldRun, the identity and the list: the steps of a job that only read.
LEMMA ReadingJobsCool ==
    ASSUME BusInv, StoreTypes, HasRow, Cool, NEW m \in Events,
           ReadRule(m) \/ Dedup(m) \/ ResolveIdentity(m) \/ AgentReturns(m) \/ FindRow(m)
    PROVE  Cool'
<1> DEFINE j == job[m]
           l == link[j.rule]
<1>1. UNCHANGED <<clock, rows, link>>
    BY Zenon DEF ReadRule, Dedup, ResolveIdentity, AgentReturns, FindRow
<1>2. JobCool(m)
    BY Zenon DEF Cool
<1>3. j \in AnyJob /\ l \in Nat /\ clock \in Nat /\ rows \in Seq(AnyRow)
    BY Zenon DEF StoreTypes, AnyJob
<1>4. ASSUME NEW pc \in JobPcs, JobTo(m, pc), JobCool(m)' PROVE Cool'
    BY Zenon, <1>1, <1>4, ReadsStayCool DEF JobTo
<1>5. ASSUME JobTo(m, "done"), job'[m].pick = 0 PROVE Cool'
  <2>1. JobCool(m)'
    BY Zenon, <1>1, <1>5 DEF JobCool, JobTo
  <2> QED
    BY Zenon, <1>4, <1>5, <2>1 DEF JobPcs
<1>6. CASE ReadRule(m)
  <2>1. JobTo(m, IF l = 0 THEN "identity" ELSE "dedup") /\ job'[m].seen = l
        /\ job'[m].pick = j.pick /\ j.pc = "rule"
    BY Zenon, <1>6, ReadRuleFields
  <2>2. j.pick = 0
    BY Zenon, <1>2, <2>1 DEF JobCool
  <2>3. CASE l = 0
    <3>1. JobTo(m, "identity")
        BY Zenon, <2>1, <2>3
    <3>2. JobCool(m)'
        BY Zenon, <1>1, <2>1, <2>2, <2>3, <3>1 DEF JobCool, JobTo
    <3> QED
        BY Zenon, <1>4, <3>1, <3>2 DEF JobPcs
  <2>4. CASE l # 0
    <3>1. JobTo(m, "dedup")
        BY Zenon, <2>1, <2>4
    <3>2. JobCool(m)'
        BY Zenon, <1>1, <2>1, <2>2, <3>1 DEF JobCool, JobTo
    <3> QED
        BY Zenon, <1>4, <3>1, <3>2 DEF JobPcs
  <2> QED
    BY Zenon, <2>3, <2>4
<1>7. CASE Dedup(m)
  <2>1. /\ j.pc = "dedup"
        /\ JobTo(m, "done") \/ (~Fresh(rows[j.seen]) /\ JobTo(m, "identity"))
        /\ job'[m].pick = j.pick
    BY Zenon, <1>7, DedupFields
  <2>2. j.pick = 0 /\ j.seen = l /\ l # 0
    BY Zenon, <1>2, <2>1 DEF JobCool, HasRow
  <2>3. CASE ~Fresh(rows[j.seen]) /\ JobTo(m, "identity")
    <3>1. l \in 1..Len(rows)
        BY <1>3, <2>2 DEF StoreTypes, AnyJob
    <3>2. rows[l] \in AnyRow
        BY <1>3, <3>1
    <3>3. rows[l].updated \in Nat
        BY Zenon, <3>2 DEF AnyRow
    <3>4. clock - rows[l].updated > Cooldown
        BY SMTT(20), <1>3, <2>2, <2>3, <3>3, InvestigationAssumption DEF Fresh
    <3>5. JobCool(m)'
        BY Zenon, <1>1, <2>1, <2>2, <2>3, <3>4 DEF JobCool, JobTo
    <3> QED
        BY Zenon, <1>4, <2>3, <3>5 DEF JobPcs
  <2> QED
    BY Zenon, <1>5, <2>1, <2>2, <2>3
<1>8. CASE ResolveIdentity(m)
  <2>1. /\ j.pc = "identity" /\ job'[m].pick = j.pick
        /\ (JobTo(m, "agent") /\ job'[m].start = clock) \/ JobTo(m, "done")
    BY Zenon, <1>8, ResolveFields
  <2>2. j.pick = 0 /\ (l # 0 => clock - rows[l].updated > Cooldown)
    BY Zenon, <1>2, <2>1 DEF JobCool
  <2>3. CASE JobTo(m, "agent") /\ job'[m].start = clock
    <3>1. JobCool(m)'
        BY Zenon, <1>1, <2>1, <2>2, <2>3 DEF JobCool, JobTo
    <3> QED
        BY Zenon, <1>4, <2>3, <3>1 DEF JobPcs
  <2> QED
    BY Zenon, <1>5, <2>1, <2>2, <2>3
<1>9. CASE AgentReturns(m)
  <2>1. /\ j.pc = "agent" /\ JobTo(m, "finalize") /\ job'[m].pick = j.pick
        /\ job'[m].start = j.start
    BY Zenon, <1>9, ReturnsFields
  <2>2. j.pick = 0 /\ (l # 0 => j.start - rows[l].updated > Cooldown)
    BY Zenon, <1>2, <2>1 DEF JobCool
  <2>3. JobCool(m)'
    BY Zenon, <1>1, <2>1, <2>2 DEF JobCool, JobTo
  <2> QED
    BY Zenon, <1>4, <2>1, <2>3 DEF JobPcs
<1>10. CASE FindRow(m)
  <2>1. /\ j.pc = "finalize"
        /\ \/ JobTo(m, "done") /\ job'[m].pick = j.pick
           \/ \E i \in 1..Len(rows) :
                 /\ job'[m].pick = i /\ job'[m].start = j.start /\ rows[i].at >= j.start
                 /\ \/ rows[i].status \in Terminal /\ JobTo(m, "link")
                    \/ rows[i].status \notin Terminal /\ JobTo(m, "status")
    BY Zenon, <1>10, FindFields
  <2>2. j.pick = 0 /\ (l # 0 => j.start - rows[l].updated > Cooldown)
    BY Zenon, <1>2, <2>1 DEF JobCool
  <2>3. ASSUME NEW i \in 1..Len(rows), job'[m].pick = i, job'[m].start = j.start,
               rows[i].at >= j.start,
               \/ rows[i].status \in Terminal /\ JobTo(m, "link")
               \/ rows[i].status \notin Terminal /\ JobTo(m, "status")
        PROVE  Cool'
    <3>1. rows[i] \in AnyRow
        BY <1>3
    <3>2. rows[i].status \notin Terminal => rows[i].status \in Running
        BY Zenon, <3>1 DEF AnyRow
    <3>3. PICK pc \in {"link", "status"} :
              JobTo(m, pc) /\ (pc = "status" => rows[i].status \in Running)
        BY Zenon, <2>3, <3>2
    <3>4. JobCool(m)'
        BY Zenon, <1>1, <2>2, <2>3, <3>3 DEF JobCool, JobTo
    <3> QED
        BY Zenon, <1>4, <3>3, <3>4 DEF JobPcs
  <2> QED
    BY Zenon, <1>5, <2>1, <2>2, <2>3
<1> QED
    BY Zenon, <1>6, <1>7, <1>8, <1>9, <1>10

\* The steps of a job that write a row: no ended row is among them.
LEMMA WritingJobsCool ==
    ASSUME BusInv, StoreTypes, HasRow, AckInv, Undisturbed, Cool, NEW m \in Events,
           AgentCreates(m) \/ AgentCompletes(m) \/ ForceStatus(m)
    PROVE  Cool'
<1> DEFINE j == job[m]
           l == link[j.rule]
<1>1. UNCHANGED <<clock, link>> /\ clock \in Nat /\ rows \in Seq(AnyRow) /\ Len(rows) \in Nat
    BY DEF AgentCreates, AgentCompletes, ForceStatus, StoreTypes
<1>2. JobCool(m) /\ j \in AnyJob /\ j.own <= Len(rows) /\ j.pick <= Len(rows)
    BY Zenon DEF Cool, StoreTypes
<1>3. InFlight(m) /\ \A n \in Events \ {m} : job'[n] = job[n]
  <2>1. InFlight(m)
    BY Zenon DEF InFlight, At, AgentCreates, AgentCompletes, ForceStatus
  <2>2. job' = job \/ \E pc \in JobPcs \ {"none", "lost", "rule"} : JobTo(m, pc)
    BY Zenon, JobMoves
  <2> QED
    BY Zenon, <2>1, <2>2 DEF JobTo
<1>4. \A n \in Events \ {m} : job[n].pc # "status"
    BY Zenon, <1>3, OnlyOne DEF InFlight
<1>5. ASSUME RowsGrow, Frozen, JobCool(m)' PROVE Cool'
  <2>1. \A n \in Events \ {m} : JobCool(n)'
    BY <1>1, <1>3, <1>4, <1>5, StaysCool
  <2>2. \A r \in Rules : link'[r] # 0 => rows'[link'[r]].status \in Terminal
    BY Zenon, <1>1, <1>5, LinksStay
  <2> QED
    BY Zenon, <1>5, <2>1, <2>2 DEF Cool
<1>6. CASE AgentCreates(m)
  <2>1. /\ j.pc = "agent" /\ JobTo(m, "agent") /\ job'[m].pick = j.pick
        /\ job'[m].start = j.start /\ rows' = Append(rows, NewRow(<<"job", m>>))
    BY Zenon, <1>6, CreatesFields
  <2>2. <<"job", m>> \in {"job", "ask", "askagent"} \X Nat
    BY BusAssumption DEF Events
  <2>3. RowsGrow /\ Frozen
    BY Zenon, <1>1, <2>1, <2>2, RowsChange, RowAdded DEF Frozen
  <2>4. l # 0 => rows'[l] = rows[l]
    BY <1>2, <2>3 DEF Frozen, Cool, StoreTypes, AnyJob
  <2>5. JobCool(m)'
    BY Zenon, <1>1, <1>2, <2>1, <2>4 DEF JobCool, JobTo
  <2> QED
    BY Zenon, <1>5, <2>3, <2>5
<1>7. ASSUME NEW i \in 1..Len(rows), NEW s \in Terminal, SetStatus(i, s), rows[i].status \in Running
      PROVE  RowsGrow /\ Frozen /\ (l # 0 => rows'[l] = rows[l]) /\ rows'[i].at = rows[i].at
  <2>1. /\ \A k \in 1..Len(rows) : k # i => rows'[k] = rows[k]
        /\ rows'[i].at = rows[i].at
    BY Zenon, <1>7, RowSettled
  <2>2. rows[i].status \notin Terminal
    BY Zenon, <1>7 DEF Running, Terminal
  <2>3. RowsGrow
    BY Zenon, <1>7, RowsChange
  <2>4. Frozen
    BY Zenon, <2>1, <2>2 DEF Frozen
  <2>5. l # 0 => rows'[l] = rows[l]
    BY <1>1, <1>2, <2>4 DEF Frozen, Cool, StoreTypes, AnyJob
  <2> QED
    BY Zenon, <2>1, <2>3, <2>4, <2>5
<1>8. CASE AgentCompletes(m)
  <2>1. /\ j.pc = "agent" /\ j.own # 0 /\ rows[j.own].status \in Running /\ job' = job
        /\ SetStatus(j.own, "completed")
    BY Zenon, <1>8 DEF AgentCompletes, At
  <2>2. j.own \in 1..Len(rows) /\ "completed" \in Terminal
    BY <1>1, <1>2, <2>1 DEF AnyJob, Terminal
  <2>3. RowsGrow /\ Frozen /\ (l # 0 => rows'[l] = rows[l])
    BY Zenon, <1>7, <2>1, <2>2
  <2>4. JobCool(m)'
    BY Zenon, <1>1, <1>2, <2>1, <2>3 DEF JobCool
  <2> QED
    BY Zenon, <1>5, <2>3, <2>4
<1>9. CASE ForceStatus(m)
  <2>1. j.pc = "status" /\ Go(m, "link") /\ \E s \in Terminal : SetStatus(j.pick, s)
    BY Zenon, <1>9 DEF ForceStatus, At, Terminal
  <2>2. j.pick \in 1..Len(rows) /\ rows[j.pick].status \in Running
    <3>1. j.pick # 0 /\ rows[j.pick].status \in Running
        BY Zenon, <1>2, <2>1 DEF HasRow, JobCool
    <3>2. j.pick \in Nat
        BY Zenon, <1>2 DEF AnyJob
    <3> QED
        BY Zenon, <1>1, <1>2, <3>1, <3>2, IsIndex
  <2>3. RowsGrow /\ Frozen /\ (l # 0 => rows'[l] = rows[l]) /\ rows'[j.pick].at = rows[j.pick].at
    BY Zenon, <1>7, <2>1, <2>2
  <2>4. JobTo(m, "link") /\ job'[m].pick = j.pick /\ job'[m].start = j.start
    BY Zenon, <2>1, GoFields DEF JobPcs
  <2>5. JobCool(m)'
    BY Zenon, <1>1, <1>2, <2>1, <2>3, <2>4 DEF JobCool, JobTo
  <2> QED
    BY Zenon, <1>5, <2>3, <2>5
<1> QED
    BY Zenon, <1>6, <1>8, <1>9

\* The new link: it was written after everything the rule was linked to before.
LEMMA LinkingJobCool ==
    ASSUME BusInv, StoreTypes, HasRow, AckInv, SettledInv, RowTimes, Undisturbed, Cool,
           NEW m \in Events, LinkRule(m)
    PROVE  Cool'
<1> USE InvestigationAssumption
<1> DEFINE j == job[m]
           l == link[j.rule]
<1>1. /\ j.pc = "link" /\ link' = [link EXCEPT ![j.rule] = j.pick] /\ Go(m, "done")
      /\ UNCHANGED <<clock, rows>>
    BY Zenon DEF LinkRule, At
<1>2. /\ JobCool(m) /\ j \in AnyJob /\ j.rule \in Rules /\ j.start \in Nat
      /\ link \in [Rules -> Nat] /\ l \in Nat /\ l <= Len(rows) /\ Len(rows) \in Nat
    BY DEF Cool, StoreTypes, AnyJob
<1>3. /\ link'[j.rule] = j.pick /\ \A r \in Rules \ {j.rule} : link'[r] = link[r]
    BY Zenon, <1>1, <1>2
<1>4. JobTo(m, "done") /\ job'[m].pick = j.pick
    BY Zenon, <1>1, GoFields DEF JobPcs
<1>5. j.pick \in 1..Len(rows) /\ rows[j.pick].status \in Terminal /\ rows[j.pick].at >= j.start
  <2>1. j.pick # 0 /\ rows[j.pick].status \in Terminal /\ rows[j.pick].at >= j.start
    BY Zenon, <1>1, <1>2 DEF HasRow, SettledInv, Undisturbed, JobCool
  <2>2. j.pick \in Nat /\ j.pick <= Len(rows)
    BY Zenon DEF StoreTypes, AnyJob
  <2> QED
    BY Zenon, <1>2, <2>1, <2>2, IsIndex
<1>6. \A i \in 1..Len(rows) : rows[i].at \in Nat /\ rows[i].updated \in Nat
  <2>1. \A i \in 1..Len(rows) : rows[i] \in AnyRow
    BY DEF StoreTypes
  <2> QED
    BY Zenon, <2>1 DEF AnyRow
<1>7. JobCool(m)'
  <2>1. j.pick # 0 /\ rows[j.pick].updated <= rows[j.pick].updated
    BY <1>5, <1>6
  <2> QED
    BY Zenon, <1>1, <1>3, <1>4, <1>5, <2>1 DEF JobCool, JobTo
<1>8. l # 0 => rows[l].updated <= rows[j.pick].updated
  <2> SUFFICES ASSUME l # 0 PROVE rows[l].updated <= rows[j.pick].updated
    BY Zenon
  <2>1. j.start - rows[l].updated > Cooldown
    BY Zenon, <1>1, <1>2 DEF JobCool
  <2>2. rows[j.pick].at <= rows[j.pick].updated /\ l \in 1..Len(rows)
    BY <1>2, <1>5 DEF RowTimes
  <2> HIDE DEF j, l
  <2> QED
    BY <1>2, <1>5, <1>6, <2>1, <2>2
<1>9. ASSUME NEW n \in Events, n # m PROVE JobCool(n)'
  <2>1. job'[n] = job[n] /\ JobCool(n) /\ job[n] \in AnyJob /\ job[n].rule \in Rules
    BY Zenon, <1>4, <1>9 DEF JobTo, Cool, StoreTypes, AnyJob
  <2>2. ~InFlight(n)
    BY Zenon, <1>1, <1>9, OnlyOne DEF InFlight
  <2>3. CASE job[n].pc # "done" \/ job[n].pick = 0
    BY Zenon, <2>1, <2>2, <2>3 DEF JobCool, InFlight
  <2>4. CASE job[n].pc = "done" /\ job[n].pick # 0
    <3> DEFINE k == link[job[n].rule]
               i == job[n].pick
    <3>1. k # 0 /\ rows[i].status \in Terminal /\ rows[i].updated <= rows[k].updated
        BY Zenon, <2>1, <2>4 DEF JobCool
    <3>2. k \in 1..Len(rows) /\ i \in 1..Len(rows)
      <4>1. k \in Nat /\ k <= Len(rows) /\ i \in Nat /\ i <= Len(rows)
        BY Zenon, <2>1 DEF StoreTypes, AnyJob
      <4> QED
        BY Zenon, <1>2, <2>4, <3>1, <4>1, IsIndex
    <3>3. link'[job[n].rule] # 0 /\ rows[i].updated <= rows[link'[job[n].rule]].updated
      <4>1. CASE job[n].rule # j.rule
        BY Zenon, <1>3, <2>1, <3>1, <4>1
      <4>2. CASE job[n].rule = j.rule
        <5>1. k = l /\ link'[job[n].rule] = j.pick
            BY Zenon, <1>3, <4>2
        <5>2. rows[k].updated <= rows[j.pick].updated
            BY Zenon, <1>8, <3>1, <5>1
        <5> HIDE DEF i, j, k, l
        <5>3. rows[i].updated <= rows[j.pick].updated
            BY <1>5, <1>6, <3>1, <3>2, <5>2
        <5> QED
            BY <1>5, <5>1, <5>3
      <4> QED
        BY Zenon, <4>1, <4>2
    <3> QED
        BY Zenon, <1>1, <2>1, <2>4, <3>1, <3>3 DEF JobCool
  <2> QED
    BY Zenon, <2>3, <2>4
<1>10. \A r \in Rules : link'[r] # 0 => rows'[link'[r]].status \in Terminal
    BY Zenon, <1>1, <1>3, <1>5 DEF Cool
<1> QED
    BY Zenon, <1>7, <1>9, <1>10 DEF Cool

\* A step of the bus begins a job at most.
LEMMA BusStepCool ==
    ASSUME BusInv, StoreTypes, HasRow, AckInv, Cool, BusStep, crashes' = 0
    PROVE  Cool'
<1>1. UNCHANGED <<clock, rows, link>>
    BY Zenon DEF BusStep
<1>2. RowsGrow /\ Frozen /\ clock <= clock' /\ clock' \in Nat
    BY <1>1, RowsChange DEF StoreTypes, Frozen
<1>3. CASE UNCHANGED job
  <2>1. \A n \in Events : JobCool(n)'
    BY Zenon, <1>1, <1>2, <1>3, StaysCool
  <2> QED
    BY Zenon, <1>1, <1>2, <2>1, LinksStay DEF Cool
<1>4. ASSUME NEW p \in Procs, NEW m \in Events \ Handed, Begin(m, p) PROVE Cool'
  <2>1. /\ \A n \in Events \ {m} : job'[n] = job[n]
        /\ job'[m].pc = "rule" /\ job'[m].pick = job[m].pick
    BY Zenon, <1>4, BeginFields
  <2>2. job[m].pick = 0
    BY Zenon, <1>4 DEF AckInv, Cool, JobCool
  <2>3. JobCool(m)'
    BY Zenon, <2>1, <2>2 DEF JobCool
  <2> QED
    BY Zenon, <1>1, <2>1, <2>3, ReadsStayCool
<1>5. ASSUME NEW p \in Procs, Crash(p) PROVE FALSE
    BY <1>5 DEF Crash, StoreTypes
<1> QED
    BY Zenon, <1>3, <1>4, <1>5, BusStepJobs

\* Rows are stamped with the time at which they are written.
LEMMA RowTimesStep ==
    ASSUME BusInv, StoreTypes, HasRow, RowTimes, [Next]_vars
    PROVE  RowTimes'
<1>1. clock' \in {clock, clock + 1} /\ clock \in Nat
    BY Zenon DEF StoreTypes, Next, Tick, BusStep, vars, JobStep, ReadRule, Dedup, ResolveIdentity,
           AgentCreates, AgentCompletes, AgentReturns, FindRow, ForceStatus, LinkRule, StoreFails,
           Fault, AskStep, Investigate, InsertRow, LinkAndSpawn, AskedAgent
<1>2. \A i \in 1..Len(rows) : rows[i].at \in Nat /\ rows[i].updated \in Nat
  <2>1. \A i \in 1..Len(rows) : rows[i] \in AnyRow
    BY DEF StoreTypes
  <2> QED
    BY Zenon, <2>1 DEF AnyRow
<1>3. Len(rows) \in Nat
    BY DEF StoreTypes
<1>4. CASE UNCHANGED rows
    BY <1>1, <1>2, <1>4 DEF RowTimes
<1>5. ASSUME NEW o \in {"job", "ask", "askagent"} \X Nat, rows' = Append(rows, NewRow(o)), clock' = clock
      PROVE  RowTimes'
  <2>1. /\ Len(rows') = Len(rows) + 1 /\ \A i \in 1..Len(rows) : rows'[i] = rows[i]
        /\ rows'[Len(rows')] = NewRow(o)
    BY Zenon, <1>5, RowAdded
  <2>2. NewRow(o).at = clock /\ NewRow(o).updated = clock
    BY Zenon DEF NewRow
  <2> QED
    BY <1>1, <1>3, <1>5, <2>1, <2>2 DEF RowTimes
<1>6. ASSUME NEW i \in 1..Len(rows), NEW s \in Terminal, SetStatus(i, s), clock' = clock
      PROVE  RowTimes'
  <2>1. /\ Len(rows') = Len(rows) /\ \A k \in 1..Len(rows) : k # i => rows'[k] = rows[k]
        /\ rows'[i].updated = clock /\ rows'[i].at = rows[i].at
    BY Zenon, <1>6, RowSettled
  <2> QED
    BY <1>1, <1>2, <1>3, <1>6, <2>1 DEF RowTimes
<1>7. CASE UNCHANGED vars \/ Tick \/ BusStep
    BY Zenon, <1>4, <1>7 DEF vars, Tick, jobVars, BusStep
<1>8. ASSUME NEW m \in Events,
        \/ ReadRule(m) \/ Dedup(m) \/ ResolveIdentity(m)
        \/ AgentCreates(m) \/ AgentCompletes(m) \/ AgentReturns(m)
        \/ FindRow(m) \/ ForceStatus(m) \/ LinkRule(m) \/ StoreFails(m)
      PROVE  RowTimes'
  <2>1. job[m] \in AnyJob /\ job[m].own <= Len(rows) /\ job[m].pick <= Len(rows) /\ m \in Nat
    BY BusAssumption DEF StoreTypes, Events
  <2>2. CASE AgentCreates(m)
    <3>1. <<"job", m>> \in {"job", "ask", "askagent"} \X Nat
        BY Zenon, <2>1
    <3> QED
        BY Zenon, <1>5, <2>2, <3>1 DEF AgentCreates
  <2>3. CASE AgentCompletes(m)
    <3>1. job[m].own \in 1..Len(rows) /\ "completed" \in Terminal
        BY <2>1, <2>3 DEF AgentCompletes, AnyJob, Terminal
    <3> QED
        BY Zenon, <1>6, <2>3, <3>1 DEF AgentCompletes
  <2>4. CASE ForceStatus(m)
    <3>1. job[m].pick \in 1..Len(rows) /\ \E s \in Terminal : SetStatus(job[m].pick, s)
        BY <2>1, <2>4 DEF ForceStatus, At, HasRow, AnyJob, Terminal
    <3> QED
        BY Zenon, <1>6, <2>4, <3>1 DEF ForceStatus
  <2>5. CASE ReadRule(m) \/ Dedup(m) \/ ResolveIdentity(m) \/ AgentReturns(m) \/ FindRow(m)
             \/ LinkRule(m) \/ StoreFails(m)
    BY Zenon, <1>4, <2>5 DEF ReadRule, Dedup, ResolveIdentity, AgentReturns, FindRow, LinkRule, StoreFails, Fault
  <2> QED
    BY Zenon, <1>8, <2>2, <2>3, <2>4, <2>5
<1>9. ASSUME NEW a \in Requests, Investigate(a) \/ InsertRow(a) \/ LinkAndSpawn(a) \/ AskedAgent(a)
      PROVE  RowTimes'
  <2>1. asked[a] \in AnyAsk /\ asked[a].own <= Len(rows) /\ a \in Nat
    <3>1. limit \in Limit
        BY Zenon, BusAssumption DEF BusInv, BusTypes
    <3>2. a \in Nat
        BY <3>1 DEF Requests, Limit
    <3> QED
        BY Zenon, <3>2 DEF StoreTypes
  <2>2. <<"ask", a>> \in {"job", "ask", "askagent"} \X Nat /\ <<"askagent", a>> \in {"job", "ask", "askagent"} \X Nat
    BY Zenon, <2>1
  <2>3. CASE InsertRow(a)
    BY Zenon, <1>5, <2>2, <2>3 DEF InsertRow
  <2>4. CASE AskedAgent(a)
    <3>1. UNCHANGED clock
        BY Zenon, <2>4 DEF AskedAgent
    <3>2. \/ rows' = Append(rows, NewRow(<<"askagent", a>>))
          \/ asked[a].own # 0 /\ SetStatus(asked[a].own, "completed")
          \/ UNCHANGED rows
        BY Zenon, <2>4 DEF AskedAgent
    <3>3. asked[a].own # 0 => asked[a].own \in 1..Len(rows)
        BY <2>1 DEF AnyAsk
    <3>4. "completed" \in Terminal
        BY Zenon DEF Terminal
    <3> QED
        BY Zenon, <1>4, <1>5, <1>6, <2>2, <3>1, <3>2, <3>3, <3>4
  <2>5. CASE Investigate(a) \/ LinkAndSpawn(a)
    BY Zenon, <1>4, <2>5 DEF Investigate, LinkAndSpawn
  <2> QED
    BY Zenon, <1>9, <2>3, <2>4, <2>5
<1> QED
    BY Zenon, <1>7, <1>8, <1>9 DEF Next, JobStep, AskStep

\* Every step keeps the consumer's knowledge, as long as it alone decides.
LEMMA CoolStep ==
    ASSUME BusInv, StoreTypes, HasRow, AckInv, SettledInv, CoolInv, [Next]_vars
    PROVE  CoolInv'
<1>1. RowTimes'
    BY Zenon, RowTimesStep DEF CoolInv
<1> SUFFICES ASSUME Undisturbed' PROVE Cool'
    BY Zenon, <1>1 DEF CoolInv
<1>2. Undisturbed /\ ~AskStep /\ UNCHANGED <<limit, faults, crashes>>
    BY Zenon, CalmBefore
<1>3. Cool /\ RowTimes /\ faults = 0 /\ crashes' = 0
    BY Zenon, <1>2 DEF CoolInv, Undisturbed
<1>4. CASE BusStep
    BY Zenon, <1>3, <1>4, BusStepCool
<1>5. CASE Tick \/ UNCHANGED vars
  <2>1. UNCHANGED <<rows, link, job>> /\ clock <= clock' /\ clock' \in Nat
    BY <1>5 DEF Tick, jobVars, vars, StoreTypes
  <2>2. RowsGrow /\ Frozen
    BY Zenon, <2>1, RowsChange DEF Frozen
  <2>3. \A n \in Events : JobCool(n)'
    BY Zenon, <1>3, <2>1, <2>2, StaysCool
  <2> QED
    BY Zenon, <1>3, <2>1, <2>2, <2>3, LinksStay DEF Cool
<1>6. CASE JobStep
  <2>1. PICK m \in Events :
        \/ ReadRule(m) \/ Dedup(m) \/ ResolveIdentity(m)
        \/ AgentCreates(m) \/ AgentCompletes(m) \/ AgentReturns(m)
        \/ FindRow(m) \/ ForceStatus(m) \/ LinkRule(m) \/ StoreFails(m)
    BY Zenon, <1>6 DEF JobStep
  <2>2. ~StoreFails(m)
    BY <1>2, <1>3 DEF StoreFails, Fault
  <2>3. CASE ReadRule(m) \/ Dedup(m) \/ ResolveIdentity(m) \/ AgentReturns(m) \/ FindRow(m)
    BY Zenon, <1>3, <2>3, ReadingJobsCool
  <2>4. CASE AgentCreates(m) \/ AgentCompletes(m) \/ ForceStatus(m)
    BY Zenon, <1>2, <1>3, <2>4, WritingJobsCool
  <2>5. CASE LinkRule(m)
    BY Zenon, <1>2, <1>3, <2>5, LinkingJobCool
  <2> QED
    BY Zenon, <2>1, <2>2, <2>3, <2>4, <2>5
<1> QED
    BY Zenon, <1>2, <1>4, <1>5, <1>6 DEF Next

\* Nothing has been investigated at the start.
LEMMA CoolInit == Init => CoolInv
<1> SUFFICES ASSUME Init PROVE CoolInv
    OBVIOUS
<1>1. Len(rows) = 0 /\ \A r \in Rules : link[r] = 0
    BY Zenon DEF Init
<1>2. \A m \in Events : job[m].pc = "none" /\ job[m].pick = 0
    BY Zenon DEF Init
<1>3. RowTimes
    BY <1>1 DEF RowTimes
<1>4. \A m \in Events : JobCool(m)
    BY Zenon, <1>2 DEF JobCool
<1> QED
    BY Zenon, <1>1, <1>3, <1>4 DEF CoolInv, Cool

\* One process on Redis, no fault, no crash and no manual request: a rule is
\* investigated again only when more than the cooldown has passed since the
\* investigation that its last one settled on ended.
THEOREM CooldownHolds == Spec => []CooldownKept
<1> DEFINE Inv == BusInv /\ StoreTypes /\ HasRow /\ AckInv /\ SettledInv /\ CoolInv
<1>1. Init => Inv
    BY Zenon, BusInvInit, StoreInit, AckInit, SettledInit, CoolInit DEF Init
<1>2. Inv /\ [Next]_vars => Inv'
    BY Zenon, BusSimulation, StoreStep, AckStep, SettledStep, CoolStep
<1>3. Inv => CooldownKept
    BY Zenon, CoolKeeps
<1> QED
    BY <1>1, <1>2, <1>3, PTL DEF Spec
=============================================================================
