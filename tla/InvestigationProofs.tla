-------------------------- MODULE InvestigationProofs --------------------------
(***************************************************************************)
(* Proofs about the event bus and the consumer that investigates alerts,   *)
(* for every number of processes, rules, events and manual requests, both  *)
(* kinds of bus and any sequence of crashes, unsubscriptions and faults:   *)
(* the bus delivers at most once, rows are what the jobs believe them to   *)
(* be, and links lead to investigations that have ended.                   *)
(***************************************************************************)
EXTENDS AutoInvestigation, TLAPS

-----------------------------------------------------------------------------
(* EventBus implements Delivery.                                           *)

\* The types of what the bus keeps; the bookkeeping of bounds aside.
BusTypes ==
    /\ limit \in Limits
    /\ published \in 0..MaxEvents
    /\ trimmed \in 0..published
    /\ cursor \in Int /\ cursor <= published
    /\ loop \in [Procs -> {"down", "create", "read", "batch", "wait", "ack"}]
    /\ active \in [Procs -> BOOLEAN]
    /\ batch \in [Procs -> Seq(Events)]
    /\ handling \in [Procs -> 0..MaxEvents]
    /\ handed \in Seq(Events)
    /\ acked \subseteq Events

\* The in-memory bus has no read loop; a loop holds a batch while it works on it,
\* and none when it reads.
LoopShape ==
    /\ limit.bus = "memory" => \A p \in Procs : loop[p] \in {"down", "read"}
    /\ \A p \in Procs :
          /\ loop[p] \in {"down", "create", "read"} => batch[p] = <<>>
          /\ loop[p] = "batch" => batch[p] # <<>>
          /\ loop[p] \in {"wait", "ack"} => handling[p] # 0

\* What a process has read and not handled is behind the group's cursor, was
\* handed to nobody, and is in one place only.
BatchShape ==
    /\ \A p \in Procs : \A i \in DOMAIN batch[p] :
          batch[p][i] <= cursor /\ batch[p][i] \notin Handed
    /\ \A p, q \in Procs : \A i \in DOMAIN batch[p], j \in DOMAIN batch[q] :
          batch[p][i] = batch[q][j] => p = q /\ i = j
    /\ \A m \in Handed : m <= published /\ (limit.bus = "redis" => m <= cursor)

BusInv == BusTypes /\ LoopShape /\ BatchShape

\* A bus starts empty.
LEMMA BusInvInit == BusInit => BusInv
<1> SUFFICES ASSUME BusInit PROVE BusInv
    BY Zenon
<1> USE BusAssumption
<1>1. BusTypes
    BY DEF BusInit, BusTypes, NoGroup
<1>2. LoopShape
    BY Zenon DEF BusInit, LoopShape
<1>3. BatchShape
    BY DEF BusInit, BatchShape, Handed
<1> QED
    BY Zenon, <1>1, <1>2, <1>3 DEF BusInv

\* What a handed event adds.
LEMMA HandedAppend ==
    ASSUME handed \in Seq(Events), NEW m \in Events, handed' = Append(handed, m)
    PROVE  handed' \in Seq(Events) /\ Handed' = Handed \cup {m}
<1>1. handed' \in Seq(Events) /\ Len(handed') = Len(handed) + 1 /\ Len(handed) \in Nat
      /\ handed'[Len(handed) + 1] = m /\ \A i \in 1..Len(handed) : handed'[i] = handed[i]
    OBVIOUS
<1>2. DOMAIN handed' = 1..Len(handed) + 1 /\ DOMAIN handed = 1..Len(handed)
    BY <1>1
<1> QED
    BY <1>1, <1>2 DEF Handed

\* Handed events and the members of a batch are events.
LEMMA EventsOnly ==
    ASSUME BusTypes
    PROVE  /\ Handed \subseteq Events
           /\ \A p \in Procs : \A i \in DOMAIN batch[p] : batch[p][i] \in Events
    BY DEF BusTypes, Handed

\* The step a lost event is: nothing is published or handed, and what was gone stays gone.
LEMMA LosesSome ==
    ASSUME UNCHANGED <<published, handed>>, Gone \subseteq Gone'
    PROVE  [AtMostOnce!Next]_<<published, handed, Gone>>
<1>1. Gone' \ Gone \in SUBSET AtMostOnce!Open
    BY Zenon DEF AtMostOnce!Open, AtMostOnce!Seen, Gone, Handed
<1>2. Gone' = Gone \cup (Gone' \ Gone)
    BY Zenon
<1>3. AtMostOnce!Lose
    BY Zenon, <1>1, <1>2 DEF AtMostOnce!Lose
<1> QED
    BY Zenon, <1>3 DEF AtMostOnce!Next

\* A step of the bus as the abstract bus sees it.
DeliveryStep == [AtMostOnce!Next]_<<published, handed, Gone>>

\* Publishing on Redis: the new event is open, and trimming loses open ones.
LEMMA XAddStep == ASSUME BusInv, XAdd PROVE BusInv' /\ DeliveryStep
<1> USE BusAssumption
<1>1. /\ published' = published + 1 /\ published < MaxEvents /\ limit.bus = "redis"
      /\ UNCHANGED <<limit, cursor, loop, active, batch, handling, handed, acked>>
    BY Zenon DEF XAdd
<1>2. trimmed' \in trimmed..published'
    BY <1>1 DEF XAdd, BusInv, BusTypes
<1>3. UNCHANGED <<Handed, Held>>
    BY <1>1 DEF Handed, Held
<1>4. BusInv'
  <2>1. BusTypes'
    BY <1>1, <1>2 DEF BusInv, BusTypes
  <2>2. LoopShape'
    BY Zenon, <1>1 DEF BusInv, LoopShape
  <2>3. \A m \in Handed : m <= published'
    BY <1>1, EventsOnly DEF BusInv, BusTypes, BatchShape, Events
  <2>4. BatchShape'
    BY <1>1, <1>3, <2>3 DEF BusInv, BatchShape
  <2> QED
    BY Zenon, <2>1, <2>2, <2>4 DEF BusInv
<1>5. Gone \subseteq Gone' /\ Gone' \ Gone \subseteq AtMostOnce!Open \cup {published'}
  <2>1. Gone \subseteq Gone'
    BY <1>1, <1>2, <1>3 DEF Gone, Later, BusInv, BusTypes
  <2>2. Gone' \ Gone \subseteq AtMostOnce!Open \cup {published'}
    BY <1>1, <1>3 DEF Gone, AtMostOnce!Open, AtMostOnce!Seen, Handed, BusInv, BusTypes
  <2> QED
    BY Zenon, <2>1, <2>2
<1>6. AtMostOnce!SendThrough
  <2>1. Gone' = Gone \cup (Gone' \ Gone)
    BY Zenon, <1>5
  <2> QED
    BY Zenon, <1>1, <1>5, <2>1 DEF AtMostOnce!SendThrough
<1> QED
    BY Zenon, <1>4, <1>6 DEF DeliveryStep, AtMostOnce!Next

\* Publishing in memory: the event is handed out, or lost, at once.
LEMMA EmitStep == ASSUME BusInv, NEW p \in Procs, Emit(p) PROVE BusInv' /\ DeliveryStep
<1> USE BusAssumption
<1>1. /\ published' = published + 1 /\ published < MaxEvents /\ limit.bus = "memory"
      /\ UNCHANGED <<limit, trimmed, cursor, loop, active, batch, handling, acked>>
    BY Zenon DEF Emit
<1>2. published' \in Events /\ \A m \in Handed : m <= published
    BY <1>1 DEF BusInv, BusTypes, BatchShape, Events
<1>3. \A q \in Procs : batch[q] = <<>>
    BY Zenon, <1>1 DEF BusInv, LoopShape
<1>4. Held = {} /\ Held' = {}
    BY <1>1, <1>3 DEF Held
<1>5. /\ handed' \in Seq(Events)
      /\ \/ handed' = Append(handed, published') /\ Handed' = Handed \cup {published'}
         \/ handed' = handed /\ Handed' = Handed
  <2>1. CASE handed' = Append(handed, published')
    BY Zenon, <1>2, <2>1, HandedAppend DEF BusInv, BusTypes
  <2>2. CASE handed' = handed
    BY Zenon, <2>2 DEF BusInv, BusTypes, Handed
  <2> QED
    BY Zenon, <2>1, <2>2 DEF Emit
<1>6. BusInv'
  <2>1. BusTypes'
    BY <1>1, <1>5 DEF BusInv, BusTypes
  <2>2. LoopShape'
    BY Zenon, <1>1 DEF BusInv, LoopShape
  <2>3. BatchShape'
    <3>1. \A m \in Handed' : m <= published'
        BY SMTT(20), <1>1, <1>2, <1>5, EventsOnly DEF BusInv, BusTypes, Events
    <3>2. limit'.bus # "redis"
        BY Zenon, <1>1
    <3>3. \A q \in Procs : DOMAIN batch'[q] = {}
        BY <1>1, <1>3
    <3> QED
        BY Zenon, <3>1, <3>2, <3>3 DEF BatchShape
  <2> QED
    BY Zenon, <2>1, <2>2, <2>3 DEF BusInv
<1>7. AtMostOnce!SendThrough
  <2>1. CASE handed' = Append(handed, published') /\ Handed' = Handed \cup {published'}
    <3>1. Gone' = Gone
        BY <1>1, <1>4, <2>1 DEF Gone, BusInv, BusTypes
    <3> QED
        BY Zenon, <1>1, <2>1, <3>1 DEF AtMostOnce!SendThrough
  <2>2. CASE handed' = handed /\ Handed' = Handed
    <3>1. Gone' = Gone \cup {published'}
        BY <1>1, <1>2, <1>4, <2>2 DEF Gone, BusInv, BusTypes
    <3>2. {published'} \in SUBSET (AtMostOnce!Open \cup {published'})
        BY Zenon
    <3> QED
        BY Zenon, <1>1, <2>2, <3>1, <3>2 DEF AtMostOnce!SendThrough
  <2> QED
    BY Zenon, <1>5, <2>1, <2>2
<1> QED
    BY Zenon, <1>6, <1>7 DEF DeliveryStep, AtMostOnce!Next

\* Subscribing: the process holds nothing, so nothing comes back.
LEMMA SubscribeStep == ASSUME BusInv, NEW p \in Procs, Subscribe(p) PROVE BusInv' /\ DeliveryStep
<1> USE BusAssumption
<1>1. /\ loop[p] = "down"
      /\ loop' = [loop EXCEPT ![p] = IF limit.bus = "redis" THEN "create" ELSE "read"]
      /\ active' = [active EXCEPT ![p] = TRUE]
      /\ UNCHANGED <<limit, published, trimmed, cursor, batch, handling, handed, acked>>
    BY Zenon DEF Subscribe
<1>2. batch[p] = <<>>
    BY Zenon, <1>1 DEF BusInv, LoopShape
<1>3. UNCHANGED Handed
    BY Zenon, <1>1 DEF Handed
<1>4. Held' \subseteq Held
    BY <1>1, <1>2 DEF Held, BusInv, BusTypes
<1>5. BusTypes'
    BY Zenon, <1>1 DEF BusInv, BusTypes
<1>6. LoopShape'
    BY Zenon, <1>1, <1>2 DEF BusInv, BusTypes, LoopShape
<1>7. BatchShape'
    BY <1>1, <1>3 DEF BusInv, BatchShape
<1>8. Gone \subseteq Gone'
    BY Zenon, <1>1, <1>3, <1>4 DEF Gone
<1> QED
    BY Zenon, <1>1, <1>5, <1>6, <1>7, <1>8, LosesSome DEF BusInv, DeliveryStep

\* Creating the group: what was published before it is lost, if it is new.
LEMMA CreateGroupStep == ASSUME BusInv, NEW p \in Procs, CreateGroup(p) PROVE BusInv' /\ DeliveryStep
<1> USE BusAssumption
<1>1. /\ loop[p] = "create" /\ loop' = [loop EXCEPT ![p] = "read"]
      /\ cursor' = IF cursor = NoGroup THEN published ELSE cursor
      /\ UNCHANGED <<limit, published, trimmed, active, batch, handling, handed, acked>>
    BY Zenon DEF CreateGroup
<1>2. cursor' \in cursor..published
    BY <1>1 DEF BusInv, BusTypes
<1>3. UNCHANGED <<Handed, Held>>
    BY <1>1 DEF Handed, Held
<1>4. BusTypes'
    BY <1>1, <1>2 DEF BusInv, BusTypes
<1>5. LoopShape'
    BY Zenon, <1>1 DEF BusInv, BusTypes, LoopShape
<1>6. BatchShape'
    BY SMTT(20), <1>1, <1>2, <1>3 DEF BusInv, BusTypes, BatchShape, Events
<1>7. Gone \subseteq Gone'
    BY <1>1, <1>2, <1>3 DEF Gone, Later, BusInv, BusTypes
<1> QED
    BY Zenon, <1>1, <1>4, <1>5, <1>6, <1>7, LosesSome DEF BusInv, DeliveryStep

\* Reading: the events that were next for the group are now held by the process.
LEMMA ReadGroupStep == ASSUME BusInv, NEW p \in Procs, ReadGroup(p) PROVE BusInv' /\ DeliveryStep
<1> USE BusAssumption
<1> DEFINE first == Later(cursor, trimmed) + 1
           last  == IF first + Count - 1 <= published THEN first + Count - 1 ELSE published
           read  == [i \in 1..(last - first + 1) |-> first + i - 1]
<1>1. /\ loop[p] = "read" /\ active[p] = TRUE /\ limit.bus = "redis"
      /\ cursor' = last /\ batch' = [batch EXCEPT ![p] = read]
      /\ loop' = [loop EXCEPT ![p] = "batch"]
      /\ UNCHANGED <<limit, published, trimmed, active, handling, handed, acked>>
    BY Zenon DEF ReadGroup, BusInv, BusTypes
<1>2. first <= published
    BY DEF ReadGroup, Unread, BusInv, BusTypes, Later
<1>3. /\ first \in Nat \ {0} /\ last \in Nat /\ first <= last /\ last <= published
      /\ cursor < first /\ trimmed < first /\ cursor \in Int /\ trimmed \in Nat
      /\ published \in Nat /\ published <= MaxEvents /\ MaxEvents \in Nat
      /\ Later(cursor, trimmed) = first - 1
    BY <1>2 DEF BusInv, BusTypes, Later
<1>4. Later(last, trimmed) = last
    BY <1>3 DEF Later
<1>5. batch[p] = <<>>
    BY Zenon, <1>1 DEF BusInv, LoopShape
<1> HIDE DEF first, last
<1>6. /\ DOMAIN read = 1..(last - first + 1)
      /\ \A i \in DOMAIN read : read[i] = first + i - 1 /\ read[i] \in first..last
      /\ \A m \in first..last : m - first + 1 \in DOMAIN read /\ read[m - first + 1] = m
    BY <1>3
<1>7. read \in Seq(Events) /\ read # <<>>
  <2>1. \A i \in 1..(last - first + 1) : first + i - 1 \in Events
    BY <1>3 DEF Events
  <2>2. read \in Seq(Events) /\ Len(read) = last - first + 1
    BY <1>3, <2>1
  <2> QED
    BY <1>3, <2>2
<1> HIDE DEF read
<1>8. UNCHANGED Handed
    BY Zenon, <1>1 DEF Handed
<1>9. /\ batch'[p] = read /\ \A q \in Procs \ {p} : batch'[q] = batch[q]
      /\ \A q \in Procs \ {p} : loop'[q] = loop[q]
      /\ loop'[p] = "batch"
    BY Zenon, <1>1 DEF BusInv, BusTypes
<1>10. BusTypes'
    BY <1>1, <1>3, <1>7 DEF BusInv, BusTypes
<1>11. LoopShape'
    BY <1>1, <1>7, <1>9 DEF BusInv, LoopShape
<1>12. BatchShape'
  <2>1. /\ \A q \in Procs : \A i \in DOMAIN batch[q] : batch[q][i] \in Int /\ batch[q][i] <= cursor
        /\ \A m \in Handed : m \in Int /\ m <= cursor /\ m <= published
    BY <1>1, EventsOnly DEF BusInv, BatchShape, Events
  <2>2. \A m \in Handed : m <= cursor' /\ m <= published'
    BY <1>1, <1>3, <2>1
  <2>3. ASSUME NEW q \in Procs, NEW i \in DOMAIN batch'[q]
        PROVE  batch'[q][i] <= cursor' /\ batch'[q][i] \notin Handed
    <3>1. CASE q = p
        BY <1>1, <1>3, <1>6, <1>9, <2>1, <2>3, <3>1
    <3>2. CASE q # p
        BY <1>1, <1>3, <1>9, <2>1, <2>3, <3>2 DEF BusInv, BatchShape
    <3> QED
        BY Zenon, <3>1, <3>2
  <2>4. ASSUME NEW q \in Procs, NEW r \in Procs, NEW i \in DOMAIN batch'[q], NEW j \in DOMAIN batch'[r],
               batch'[q][i] = batch'[r][j]
        PROVE  q = r /\ i = j
    <3>1. CASE q = p /\ r = p
      <4>1. i \in DOMAIN read /\ j \in DOMAIN read /\ read[i] = read[j]
        BY Zenon, <1>9, <2>4, <3>1
      <4>2. i \in 1..(last - first + 1) /\ j \in 1..(last - first + 1) /\ first + i - 1 = first + j - 1
        BY Zenon, <1>6, <4>1
      <4> QED
        BY <1>3, <3>1, <4>2
    <3>2. CASE q = p /\ r # p
      <4>1. j \in DOMAIN batch[r] /\ i \in DOMAIN read /\ batch[r][j] = read[i]
        BY Zenon, <1>9, <2>4, <3>2
      <4>2. batch[r][j] \in Int /\ batch[r][j] <= cursor /\ read[i] \in first..last
        BY Zenon, <1>6, <2>1, <4>1
      <4> QED
        BY <1>3, <4>1, <4>2
    <3>3. CASE q # p /\ r = p
      <4>1. i \in DOMAIN batch[q] /\ j \in DOMAIN read /\ batch[q][i] = read[j]
        BY Zenon, <1>9, <2>4, <3>3
      <4>2. batch[q][i] \in Int /\ batch[q][i] <= cursor /\ read[j] \in first..last
        BY Zenon, <1>6, <2>1, <4>1
      <4> QED
        BY <1>3, <4>1, <4>2
    <3>4. CASE q # p /\ r # p
        BY <1>9, <2>4, <3>4 DEF BusInv, BatchShape
    <3> QED
        BY Zenon, <3>1, <3>2, <3>3, <3>4
  <2> QED
    BY Zenon, <1>8, <2>2, <2>3, <2>4 DEF BatchShape
<1>13. Gone \subseteq Gone'
  <2>1. Held' \subseteq Held \cup (first..last)
    BY <1>1, <1>6, <1>9 DEF Held
  <2>2. ASSUME NEW m \in Gone PROVE m \in Gone'
    <3>1. /\ m \in 1..published /\ m \notin Handed /\ m \notin Held /\ m <= first - 1
        BY Zenon, <1>1, <1>3, <2>2 DEF Gone
    <3>2. m \notin Held' /\ m <= last
        BY <1>3, <2>1, <3>1
    <3> QED
        BY Zenon, <1>1, <1>4, <1>8, <3>1, <3>2 DEF Gone
  <2> QED
    BY Zenon, <2>2
<1> QED
    BY Zenon, <1>1, <1>10, <1>11, <1>12, <1>13, LosesSome DEF BusInv, DeliveryStep

\* A read nobody wanted any more: what it returned is lost.
LEMMA ReadInactiveStep == ASSUME BusInv, NEW p \in Procs, ReadInactive(p) PROVE BusInv' /\ DeliveryStep
<1> USE BusAssumption
<1>1. /\ loop[p] = "read" /\ loop' = [loop EXCEPT ![p] = "down"]
      /\ UNCHANGED <<limit, published, trimmed, active, batch, handling, handed, acked>>
    BY Zenon DEF ReadInactive
<1>2. cursor' \in cursor..published
    BY DEF ReadInactive, Unread, Later, BusInv, BusTypes
<1>3. UNCHANGED <<Handed, Held>>
    BY <1>1 DEF Handed, Held
<1>4. BusTypes'
    BY <1>1, <1>2 DEF BusInv, BusTypes
<1>5. LoopShape'
    BY Zenon, <1>1 DEF BusInv, BusTypes, LoopShape
<1>6. BatchShape'
  <2>1. \A m \in Events : m <= cursor => m <= cursor'
    BY <1>2 DEF BusInv, BusTypes, Events
  <2>2. /\ \A q \in Procs : \A i \in DOMAIN batch[q] : batch[q][i] <= cursor'
        /\ \A m \in Handed : limit.bus = "redis" => m <= cursor'
    BY Zenon, <2>1, EventsOnly DEF BusInv, BatchShape
  <2> QED
    BY <1>1, <1>3, <2>2 DEF BusInv, BatchShape
<1>7. Gone \subseteq Gone'
    BY <1>1, <1>2, <1>3 DEF Gone, Later, BusInv, BusTypes
<1> QED
    BY Zenon, <1>1, <1>4, <1>5, <1>6, <1>7, LosesSome DEF BusInv, DeliveryStep

\* Dispatching: the event goes from the batch to the handlers, if there are any.
LEMMA DispatchStep == ASSUME BusInv, NEW p \in Procs, Dispatch(p) PROVE BusInv' /\ DeliveryStep
<1> USE BusAssumption
<1> DEFINE b == batch[p]
           m == Head(b)
<1>1. /\ loop[p] = "batch" /\ batch' = [batch EXCEPT ![p] = Tail(b)]
      /\ handling' = [handling EXCEPT ![p] = m]
      /\ handed' = IF active[p] THEN Append(handed, m) ELSE handed
      /\ loop' = [loop EXCEPT ![p] = IF active[p] THEN "wait" ELSE "ack"]
      /\ UNCHANGED <<limit, published, trimmed, cursor, active, acked>>
    BY Zenon DEF Dispatch
<1>2. b \in Seq(Events) /\ b # <<>> /\ limit.bus = "redis"
  <2>1. limit.bus \in {"memory", "redis"}
    BY Zenon DEF BusInv, BusTypes, Limit
  <2> QED
    BY Zenon, <1>1, <2>1 DEF BusInv, BusTypes, LoopShape
<1>3. /\ m \in Events /\ m = b[1] /\ 1 \in DOMAIN b
      /\ Tail(b) \in Seq(Events)
      /\ \A i \in DOMAIN Tail(b) : i + 1 \in DOMAIN b /\ Tail(b)[i] = b[i + 1] /\ i \in Nat \ {0}
      /\ \A i \in DOMAIN b : i = 1 \/ (i - 1 \in DOMAIN Tail(b) /\ b[i] = Tail(b)[i - 1])
    BY <1>2
<1>4. /\ m <= cursor /\ m \notin Handed /\ m <= published
      /\ \A i \in DOMAIN Tail(b) : Tail(b)[i] # m
  <2>1. m <= cursor /\ m \notin Handed
    BY <1>3 DEF BusInv, BatchShape
  <2>2. m <= published
    BY <1>3, <2>1 DEF BusInv, BusTypes, Events
  <2>3. ASSUME NEW i \in DOMAIN Tail(b) PROVE Tail(b)[i] # m
    <3>1. b[i + 1] # b[1]
        BY <1>3, <2>3 DEF BusInv, BatchShape
    <3> QED
        BY Zenon, <1>3, <3>1
  <2> QED
    BY Zenon, <2>1, <2>2, <2>3
<1>5. \A q \in Procs \ {p} : \A i \in DOMAIN batch[q] : batch[q][i] # m
    BY <1>3 DEF BusInv, BatchShape
<1> HIDE DEF b, m
<1>6. /\ batch'[p] = Tail(b) /\ \A q \in Procs \ {p} : batch'[q] = batch[q] /\ loop'[q] = loop[q]
      /\ loop'[p] \in {"wait", "ack"} /\ batch[p] = b /\ handling'[p] # 0
      /\ \A q \in Procs \ {p} : handling'[q] = handling[q]
  <2>1. (IF active[p] THEN "wait" ELSE "ack") \in {"wait", "ack"}
    BY Zenon
  <2>2. handling'[p] = m /\ m # 0 /\ \A q \in Procs \ {p} : handling'[q] = handling[q]
    BY <1>1, <1>3 DEF BusInv, BusTypes, Events
  <2> QED
    BY Zenon, <1>1, <2>1, <2>2 DEF BusInv, BusTypes, b
<1>7. /\ handed' \in Seq(Events)
      /\ \/ active[p] /\ handed' = Append(handed, m) /\ Handed' = Handed \cup {m}
         \/ ~active[p] /\ handed' = handed /\ Handed' = Handed
  <2>1. CASE active[p]
    <3>1. handed' = Append(handed, m)
        BY Zenon, <1>1, <2>1
    <3> QED
        BY Zenon, <1>3, <2>1, <3>1, HandedAppend DEF BusInv, BusTypes
  <2>2. CASE ~active[p]
    BY Zenon, <1>1, <2>2 DEF BusInv, BusTypes, Handed
  <2> QED
    BY Zenon, <2>1, <2>2
<1>8. BusTypes'
  <2>1. loop' \in [Procs -> {"down", "create", "read", "batch", "wait", "ack"}]
    BY Zenon, <1>1, <1>6 DEF BusInv, BusTypes
  <2>2. batch' \in [Procs -> Seq(Events)]
    BY Zenon, <1>1, <1>3 DEF BusInv, BusTypes
  <2>3. handling' \in [Procs -> 0..MaxEvents]
    BY <1>1, <1>3 DEF BusInv, BusTypes, Events
  <2> QED
    BY Zenon, <1>1, <1>7, <2>1, <2>2, <2>3 DEF BusInv, BusTypes
<1>9. LoopShape'
    BY Zenon, <1>1, <1>2, <1>6 DEF BusInv, LoopShape
<1>10. ASSUME NEW q \in Procs, NEW i \in DOMAIN batch'[q]
       PROVE  \E k \in DOMAIN batch[q] : /\ batch'[q][i] = batch[q][k] /\ batch[q][k] # m
                                         /\ k = IF q = p THEN i + 1 ELSE i
  <2>1. CASE q = p
    <3>1. i \in DOMAIN Tail(b) /\ batch'[q][i] = Tail(b)[i] /\ batch[q] = b
        BY Zenon, <1>6, <1>10, <2>1
    <3>2. i + 1 \in DOMAIN b /\ Tail(b)[i] = b[i + 1] /\ Tail(b)[i] # m
        BY Zenon, <1>3, <1>4, <3>1
    <3>3. (IF q = p THEN i + 1 ELSE i) = i + 1
        BY Zenon, <2>1
    <3> QED
        BY Zenon, <3>1, <3>2, <3>3
  <2>2. CASE q # p
    <3>1. i \in DOMAIN batch[q] /\ batch'[q][i] = batch[q][i] /\ batch[q][i] # m
        BY Zenon, <1>5, <1>6, <1>10, <2>2
    <3>2. (IF q = p THEN i + 1 ELSE i) = i
        BY Zenon, <2>2
    <3> QED
        BY Zenon, <3>1, <3>2
  <2> QED
    BY Zenon, <2>1, <2>2
<1>11. BatchShape'
  <2>1. ASSUME NEW q \in Procs, NEW i \in DOMAIN batch'[q]
        PROVE  batch'[q][i] <= cursor' /\ batch'[q][i] \notin Handed'
    BY <1>1, <1>7, <1>10 DEF BusInv, BatchShape
  <2>2. ASSUME NEW q \in Procs, NEW r \in Procs, NEW i \in DOMAIN batch'[q], NEW j \in DOMAIN batch'[r],
               batch'[q][i] = batch'[r][j]
        PROVE  q = r /\ i = j
    <3>1. PICK k \in DOMAIN batch[q] : batch'[q][i] = batch[q][k] /\ k = IF q = p THEN i + 1 ELSE i
        BY Zenon, <1>10
    <3>2. PICK l \in DOMAIN batch[r] : batch'[r][j] = batch[r][l] /\ l = IF r = p THEN j + 1 ELSE j
        BY Zenon, <1>10
    <3>3. q = r /\ k = l
      <4>1. batch[q][k] = batch[r][l]
        BY Zenon, <2>2, <3>1, <3>2
      <4> QED
        BY Zenon, <4>1 DEF BusInv, BatchShape
    <3>4. i \in Nat /\ j \in Nat
        BY <1>8 DEF BusTypes
    <3> QED
        BY <3>1, <3>2, <3>3, <3>4
  <2>3. \A n \in Handed' : n <= published' /\ (limit'.bus = "redis" => n <= cursor')
    BY Zenon, <1>1, <1>4, <1>7 DEF BusInv, BatchShape
  <2> QED
    BY Zenon, <2>1, <2>2, <2>3 DEF BatchShape
<1>12. DeliveryStep
  <2>1. CASE active[p] /\ handed' = Append(handed, m) /\ Handed' = Handed \cup {m}
    <3>1. \A x : x \in Handed' \cup Held' <=> x \in Handed \cup Held
      <4>1. \A x : x \in Held' => x \in Held
        BY <1>1, <1>10 DEF Held
      <4>2. \A x : x \in Held => x = m \/ x \in Held'
        <5>1. ASSUME NEW q \in Procs, active[q], NEW i \in DOMAIN batch[q]
              PROVE  batch[q][i] = m \/ \E k \in DOMAIN batch'[q] : batch'[q][k] = batch[q][i]
          <6>1. CASE q = p
            <7>1. i \in DOMAIN b /\ batch[q][i] = b[i] /\ batch'[q] = Tail(b)
                BY Zenon, <1>6, <5>1, <6>1
            <7>2. i = 1 \/ (i - 1 \in DOMAIN Tail(b) /\ b[i] = Tail(b)[i - 1])
                BY Zenon, <1>3, <7>1
            <7>3. CASE i = 1
                BY Zenon, <1>3, <7>1, <7>3
            <7>4. CASE i - 1 \in DOMAIN Tail(b) /\ b[i] = Tail(b)[i - 1]
                BY Zenon, <7>1, <7>4
            <7> QED
                BY Zenon, <7>2, <7>3, <7>4
          <6>2. CASE q # p
            BY Zenon, <1>6, <5>1, <6>2
          <6> QED
            BY Zenon, <6>1, <6>2
        <5> QED
            BY <1>1, <5>1 DEF Held
      <4>3. m \in Held
        BY <1>3, <1>6, <2>1 DEF Held
      <4> QED
        BY Zenon, <2>1, <4>1, <4>2, <4>3
    <3>2. Gone' = Gone
        BY Zenon, <1>1, <3>1 DEF Gone
    <3>3. m \in AtMostOnce!Open
      <4>1. m \in 1..published
        BY <1>3, <1>4 DEF Events, BusInv, BusTypes
      <4>2. m \in Held
        BY <1>3, <1>6, <2>1 DEF Held
      <4> QED
        BY Zenon, <1>4, <4>1, <4>2 DEF AtMostOnce!Open, AtMostOnce!Seen, Gone, Handed
    <3>4. AtMostOnce!Hand
        BY Zenon, <1>1, <2>1, <3>2, <3>3 DEF AtMostOnce!Hand
    <3> QED
        BY Zenon, <3>4 DEF DeliveryStep, AtMostOnce!Next
  <2>2. CASE ~active[p] /\ handed' = handed /\ Handed' = Handed
    <3>1. Held' \subseteq Held
        BY <1>1, <1>10 DEF Held
    <3>2. Gone \subseteq Gone'
        BY Zenon, <1>1, <2>2, <3>1 DEF Gone
    <3> QED
        BY Zenon, <1>1, <2>2, <3>2, LosesSome DEF DeliveryStep
  <2> QED
    BY Zenon, <1>7, <2>1, <2>2
<1> QED
    BY Zenon, <1>8, <1>9, <1>11, <1>12 DEF BusInv

\* The handlers are done, or the event is acknowledged: the abstract bus stands still.
LEMMA LoopStep ==
    ASSUME BusInv, NEW p \in Procs, Settle(p) \/ Ack(p) \/ AckFails(p)
    PROVE  BusInv' /\ DeliveryStep
<1> USE BusAssumption
<1>1. /\ loop[p] \in {"wait", "ack"}
      /\ UNCHANGED <<limit, published, trimmed, cursor, active, batch, handed>>
    BY Zenon DEF Settle, Ack, AckFails
<1>2. \E to \in {"ack", "read", "batch"} :
         /\ loop' = [loop EXCEPT ![p] = to]
         /\ to = "read" => batch[p] = <<>>
         /\ to = "batch" => batch[p] # <<>>
         /\ to = "ack" => handling' = handling
    BY Zenon DEF Settle, Ack, AckFails, AfterEvent
<1>3. UNCHANGED <<Handed, Held, Gone>>
    BY <1>1 DEF Handed, Held, Gone
<1>4. handling' \in [Procs -> 0..MaxEvents] /\ acked' \subseteq Events
  <2>1. CASE Settle(p)
    BY Zenon, <2>1 DEF Settle, BusInv, BusTypes
  <2>2. CASE AckFails(p)
    BY <2>2 DEF AckFails, BusInv, BusTypes
  <2>3. CASE Ack(p)
    <3>1. handling[p] \in Events
        BY <1>1 DEF BusInv, BusTypes, LoopShape, Events
    <3> QED
        BY <2>3, <3>1 DEF Ack, BusInv, BusTypes
  <2> QED
    BY Zenon, <2>1, <2>2, <2>3
<1>5. BusTypes'
    BY Zenon, <1>1, <1>2, <1>4 DEF BusInv, BusTypes
<1>6. LoopShape'
  <2>1. \A q \in Procs \ {p} : handling'[q] = handling[q]
    BY Zenon DEF Settle, Ack, AckFails, BusInv, BusTypes
  <2>2. limit.bus # "memory"
    BY Zenon, <1>1 DEF BusInv, LoopShape
  <2> QED
    BY Zenon, <1>1, <1>2, <2>1, <2>2 DEF BusInv, BusTypes, LoopShape
<1>7. BatchShape'
    BY <1>1, <1>3 DEF BusInv, BatchShape
<1> QED
    BY Zenon, <1>1, <1>3, <1>5, <1>6, <1>7 DEF BusInv, DeliveryStep

\* Unsubscribing and crashing: what the process held is lost.
LEMMA StopStep ==
    ASSUME BusInv, NEW p \in Procs, Unsubscribe(p) \/ Crash(p)
    PROVE  BusInv' /\ DeliveryStep
<1> USE BusAssumption
<1>1. UNCHANGED <<limit, published, trimmed, cursor, handed, acked>>
    BY Zenon DEF Unsubscribe, Crash
<1>2. active' = [active EXCEPT ![p] = FALSE]
    BY Zenon DEF Unsubscribe, Crash
<1>3. \/ UNCHANGED <<loop, batch, handling>>
      \/ /\ loop' = [loop EXCEPT ![p] = "down"] /\ batch' = [batch EXCEPT ![p] = <<>>]
         /\ handling' = [handling EXCEPT ![p] = 0]
    BY Zenon DEF Unsubscribe, Crash
<1>4. UNCHANGED Handed
    BY Zenon, <1>1 DEF Handed
<1>5. \A q \in Procs : batch'[q] = batch[q] \/ (q = p /\ batch'[q] = <<>>)
    BY Zenon, <1>3 DEF BusInv, BusTypes
<1>6. BusTypes'
  <2>1. active' \in [Procs -> BOOLEAN]
    BY Zenon, <1>2 DEF BusInv, BusTypes
  <2>2. /\ loop' \in [Procs -> {"down", "create", "read", "batch", "wait", "ack"}]
        /\ batch' \in [Procs -> Seq(Events)] /\ handling' \in [Procs -> 0..MaxEvents]
    <3>1. <<>> \in Seq(Events) /\ 0 \in 0..MaxEvents
        OBVIOUS
    <3> QED
        BY Zenon, <1>3, <3>1 DEF BusInv, BusTypes
  <2> QED
    BY Zenon, <1>1, <2>1, <2>2 DEF BusInv, BusTypes
<1>7. LoopShape'
  <2>1. CASE UNCHANGED <<loop, batch, handling>>
    BY Zenon, <1>1, <2>1 DEF BusInv, LoopShape
  <2>2. CASE /\ loop' = [loop EXCEPT ![p] = "down"] /\ batch' = [batch EXCEPT ![p] = <<>>]
             /\ handling' = [handling EXCEPT ![p] = 0]
    BY Zenon, <1>1, <2>2 DEF BusInv, BusTypes, LoopShape
  <2> QED
    BY Zenon, <1>3, <2>1, <2>2
<1>8. BatchShape'
  <2>1. \A q \in Procs : \A i \in DOMAIN batch'[q] : batch'[q] = batch[q]
    BY <1>5
  <2>2. \A q \in Procs : \A i \in DOMAIN batch'[q] : batch'[q][i] <= cursor' /\ batch'[q][i] \notin Handed'
    BY Zenon, <1>1, <1>4, <2>1 DEF BusInv, BatchShape
  <2>3. \A q, r \in Procs : \A i \in DOMAIN batch'[q], j \in DOMAIN batch'[r] :
           batch'[q][i] = batch'[r][j] => q = r /\ i = j
    BY <2>1 DEF BusInv, BatchShape
  <2> QED
    BY Zenon, <1>1, <1>4, <2>2, <2>3 DEF BusInv, BatchShape
<1>9. Held' \subseteq Held
    BY <1>2, <1>5 DEF Held, BusInv, BusTypes
<1>10. Gone \subseteq Gone'
    BY Zenon, <1>1, <1>4, <1>9 DEF Gone
<1> QED
    BY Zenon, <1>1, <1>6, <1>7, <1>8, <1>10, LosesSome DEF BusInv, DeliveryStep

\* What changes nothing but the counter of faults is no step of the bus.
LEMMA OtherStep ==
    ASSUME BusInv, UNCHANGED <<limit, published, trimmed, cursor, loop, active, batch, handling,
                               handed, acked>>
    PROVE  BusInv' /\ DeliveryStep
<1>1. UNCHANGED <<Handed, Held, Gone>>
    BY DEF Handed, Held, Gone
<1> QED
    BY <1>1 DEF BusInv, BusTypes, LoopShape, BatchShape, DeliveryStep

\* Every step of the consumers and the bus together is a step of the abstract
\* bus or none at all.
LEMMA BusSimulation == ASSUME BusInv, [Next]_vars PROVE BusInv' /\ DeliveryStep
<1>1. CASE BusStep
  <2>1. CASE XAdd
    BY Zenon, <2>1, XAddStep
  <2>2. ASSUME NEW p \in Procs,
               Subscribe(p) \/ CreateGroup(p) \/ ReadGroup(p) \/ ReadInactive(p)
                 \/ Settle(p) \/ Ack(p) \/ AckFails(p) \/ Unsubscribe(p) \/ Crash(p)
        PROVE  BusInv' /\ DeliveryStep
    BY Zenon, <2>2, SubscribeStep, CreateGroupStep, ReadGroupStep, ReadInactiveStep, LoopStep, StopStep
  <2>3. ASSUME NEW p \in Procs, Emit(p) \/ Dispatch(p) PROVE BusInv' /\ DeliveryStep
    BY Zenon, <2>3, EmitStep, DispatchStep
  <2> QED
    BY Zenon, <1>1, <2>1, <2>2, <2>3 DEF BusStep, Bus, Deliver, HandlersDone
<1>2. CASE ~BusStep
  <2>1. UNCHANGED <<limit, published, trimmed, cursor, loop, active, batch, handling, handed, acked>>
    BY Zenon, <1>2 DEF Next, Tick, JobStep, AskStep, vars, busVars, ReadRule, Dedup, ResolveIdentity,
        AgentCreates, AgentCompletes, AgentReturns, FindRow, ForceStatus, LinkRule, StoreFails,
        Fault, Investigate, InsertRow, LinkAndSpawn, AskedAgent
  <2> QED
    BY Zenon, <2>1, OtherStep
<1> QED
    BY Zenon, <1>1, <1>2

\* The bus, whatever its kind, implements at-most-once delivery: no event is
\* handled twice, and one that was lost never comes back.
THEOREM BusImplementsDelivery == Spec => DeliversAtMostOnce
<1>1. Init => BusInv
    BY Zenon, BusInvInit DEF Init
<1>2. Init => AtMostOnce!Init
    BY DEF Init, BusInit, AtMostOnce!Init, Gone
<1>3. BusInv /\ [Next]_vars => BusInv' /\ [AtMostOnce!Next]_<<published, handed, Gone>>
    BY Zenon, BusSimulation DEF DeliveryStep
<1> QED
    BY <1>1, <1>2, <1>3, PTL DEF Spec, DeliversAtMostOnce, AtMostOnce!Spec

-----------------------------------------------------------------------------
(* AutoInvestigation: what the jobs of the consumer read and write.        *)

\* Rows, jobs and requests without the bounds.
AnyRow == [by : {"job", "ask", "askagent"} \X Nat, at : Nat, updated : Nat,
           status : Running \cup Terminal]
AnyJob == [pc : JobPcs, rule : Rules, proc : Procs, seen : Nat, start : Nat, own : Nat,
           failed : BOOLEAN, pick : Nat]
AnyAsk == [pc : {"idle", "insert", "link", "agent", "done"}, rule : Rules, row : Nat, own : Nat]

\* The types of what the consumer keeps; references are to rows that exist.
StoreTypes ==
    /\ clock \in Nat /\ faults \in Nat /\ crashes \in Nat
    /\ rows \in Seq(AnyRow)
    /\ link \in [Rules -> Nat] /\ \A r \in Rules : link[r] <= Len(rows)
    /\ job \in [Events -> AnyJob]
    /\ \A m \in Events : job[m].seen <= Len(rows) /\ job[m].own <= Len(rows) /\ job[m].pick <= Len(rows)
    /\ asked \in [Requests -> AnyAsk]
    /\ \A a \in Requests : asked[a].row <= Len(rows) /\ asked[a].own <= Len(rows)

\* A job that reads a linked row, or settles one, has one.
HasRow ==
    /\ \A m \in Events : job[m].pc = "dedup" => job[m].seen # 0
    /\ \A m \in Events : job[m].pc \in {"status", "link"} => job[m].pick # 0
    /\ \A a \in Requests : asked[a].pc = "link" => asked[a].row # 0

\* Job m alone moves, to pc; its alert and its process stay what they are.
JobTo(m, pc) ==
    /\ \A n \in Events \ {m} : job'[n] = job[n]
    /\ job' \in [Events -> AnyJob]
    /\ job'[m].pc = pc /\ job'[m].rule = job[m].rule /\ job'[m].proc = job[m].proc

\* What Goto makes of a job.
LEMMA GotoFields ==
    ASSUME NEW j \in AnyJob, NEW pc \in JobPcs
    PROVE  /\ Goto(j, pc) \in AnyJob
           /\ Goto(j, pc).pc = pc /\ Goto(j, pc).rule = j.rule /\ Goto(j, pc).proc = j.proc
           /\ Goto(j, pc).pick = j.pick
           /\ Goto(j, pc).seen \in {0, j.seen} /\ Goto(j, pc).own \in {0, j.own}
           /\ pc # "done" => Goto(j, pc).start = j.start
<1>1. CASE pc = "done"
    BY Zenon, <1>1 DEF Goto, AnyJob
<1>2. CASE pc # "done"
    BY Zenon, <1>2 DEF Goto, AnyJob
<1> QED
    BY Zenon, <1>1, <1>2

\* A job that goes on without learning anything.
LEMMA GoFields ==
    ASSUME StoreTypes, NEW m \in Events, NEW pc \in JobPcs, Go(m, pc)
    PROVE  /\ JobTo(m, pc) /\ job'[m].pick = job[m].pick
           /\ job'[m].seen \in {0, job[m].seen} /\ job'[m].own \in {0, job[m].own}
           /\ pc # "done" => job'[m].start = job[m].start
<1>1. job[m] \in AnyJob
    BY Zenon DEF StoreTypes
<1>2. job' = [job EXCEPT ![m] = Goto(job[m], pc)]
    BY Zenon DEF Go
<1>3. Goto(job[m], pc) \in AnyJob
    BY Zenon, <1>1, GotoFields
<1>4. job'[m] = Goto(job[m], pc) /\ job' \in [Events -> AnyJob] /\ \A n \in Events \ {m} : job'[n] = job[n]
    BY Zenon, <1>2, <1>3 DEF StoreTypes
<1> QED
    BY <1>1, <1>4, GotoFields DEF JobTo

\* The first read of shouldRun.
LEMMA ReadRuleFields ==
    ASSUME StoreTypes, NEW m \in Events, ReadRule(m)
    PROVE  /\ JobTo(m, IF link[job[m].rule] = 0 THEN "identity" ELSE "dedup")
           /\ job[m].pc = "rule" /\ job'[m].seen = link[job[m].rule]
           /\ job'[m].own = job[m].own /\ job'[m].pick = job[m].pick
<1>1. job[m] \in AnyJob /\ link[job[m].rule] \in Nat
    BY Zenon DEF StoreTypes, AnyJob
<1> DEFINE pc == IF link[job[m].rule] = 0 THEN "identity" ELSE "dedup"
<1>2. pc \in JobPcs
    BY Zenon DEF JobPcs
<1>3. job' = [job EXCEPT ![m].pc = pc, ![m].seen = link[job[m].rule]]
    BY Zenon DEF ReadRule
<1>4. job[m].pc = "rule"
    BY Zenon DEF ReadRule, At
<1> HIDE DEF pc
<1>5. JobTo(m, pc) /\ job'[m].seen = link[job[m].rule]
      /\ job'[m].own = job[m].own /\ job'[m].pick = job[m].pick
    BY Zenon, <1>1, <1>2, <1>3 DEF StoreTypes, AnyJob, JobTo
<1> QED
    BY Zenon, <1>4, <1>5 DEF pc

\* The second read of shouldRun.
LEMMA DedupFields ==
    ASSUME StoreTypes, NEW m \in Events, Dedup(m)
    PROVE  /\ job[m].pc = "dedup"
           /\ \/ Fresh(rows[job[m].seen]) /\ JobTo(m, "done")
              \/ ~Fresh(rows[job[m].seen]) /\ JobTo(m, "identity")
           /\ job'[m].seen = 0 /\ job'[m].own \in {0, job[m].own} /\ job'[m].pick = job[m].pick
<1>1. job[m] \in AnyJob /\ job \in [Events -> AnyJob]
    BY Zenon DEF StoreTypes
<1>2. job[m].pc = "dedup"
    BY Zenon DEF Dedup, At
<1>3. CASE Fresh(rows[job[m].seen])
  <2>1. job' = [job EXCEPT ![m] = Goto(job[m], "done")]
    BY Zenon, <1>3 DEF Dedup
  <2>2. Goto(job[m], "done").seen = 0
    BY Zenon, <1>1 DEF Goto, AnyJob
  <2>3. Go(m, "done") /\ "done" \in JobPcs /\ job'[m] = Goto(job[m], "done")
    BY Zenon, <1>1, <2>1 DEF Go, JobPcs
  <2> QED
    BY Zenon, <1>2, <1>3, <2>2, <2>3, GoFields
<1>4. CASE ~Fresh(rows[job[m].seen])
  <2> DEFINE j == [job[m] EXCEPT !.pc = "identity", !.seen = 0]
  <2>1. job' = [job EXCEPT ![m] = j]
    BY Zenon, <1>4 DEF Dedup
  <2>2. /\ j \in AnyJob /\ j.pc = "identity" /\ j.rule = job[m].rule /\ j.proc = job[m].proc
        /\ j.seen = 0 /\ j.own = job[m].own /\ j.pick = job[m].pick
    BY Zenon, <1>1 DEF AnyJob, JobPcs
  <2> HIDE DEF j
  <2>3. job'[m] = j /\ job' \in [Events -> AnyJob] /\ \A n \in Events \ {m} : job'[n] = job[n]
    BY Zenon, <1>1, <2>1, <2>2
  <2> QED
    BY Zenon, <1>2, <1>4, <2>2, <2>3 DEF JobTo
<1> QED
    BY Zenon, <1>3, <1>4

\* The start of the agent.
LEMMA ResolveFields ==
    ASSUME StoreTypes, NEW m \in Events, ResolveIdentity(m)
    PROVE  /\ job[m].pc = "identity"
           /\ \/ JobTo(m, "agent") /\ job'[m].start = clock
              \/ JobTo(m, "done")
           /\ job'[m].seen \in {0, job[m].seen} /\ job'[m].own \in {0, job[m].own}
           /\ job'[m].pick = job[m].pick
<1>1. job[m] \in AnyJob /\ job \in [Events -> AnyJob] /\ clock \in Nat
    BY Zenon DEF StoreTypes
<1>2. job[m].pc = "identity"
    BY Zenon DEF ResolveIdentity, At
<1>3. CASE job' = [job EXCEPT ![m].pc = "agent", ![m].start = clock]
    BY Zenon, <1>1, <1>2, <1>3 DEF JobTo, AnyJob, JobPcs
<1>4. CASE Go(m, "done")
    BY Zenon, <1>2, <1>4, GoFields DEF JobPcs
<1> QED
    BY Zenon, <1>3, <1>4 DEF ResolveIdentity

\* The agent opens a row.
LEMMA CreatesFields ==
    ASSUME StoreTypes, NEW m \in Events, AgentCreates(m)
    PROVE  /\ job[m].pc = "agent" /\ JobTo(m, "agent") /\ job'[m].own = Len(rows')
           /\ job'[m].seen = job[m].seen /\ job'[m].pick = job[m].pick
           /\ job'[m].start = job[m].start
           /\ rows' = Append(rows, NewRow(<<"job", m>>))
<1>1. job[m] \in AnyJob /\ job \in [Events -> AnyJob]
    BY DEF StoreTypes
<1>2. /\ rows' = Append(rows, NewRow(<<"job", m>>)) /\ job[m].pc = "agent"
      /\ job' = [job EXCEPT ![m].own = Len(rows')]
    BY Zenon DEF AgentCreates, At
<1>3. Len(rows') \in Nat
    BY <1>2 DEF StoreTypes
<1> QED
    BY Zenon, <1>1, <1>2, <1>3 DEF JobTo, AnyJob

\* The agent's run is over.
LEMMA ReturnsFields ==
    ASSUME StoreTypes, NEW m \in Events, AgentReturns(m)
    PROVE  /\ job[m].pc = "agent" /\ JobTo(m, "finalize") /\ job'[m].own = job[m].own
           /\ job'[m].seen = job[m].seen /\ job'[m].pick = job[m].pick
           /\ job'[m].start = job[m].start
<1>1. job[m] \in AnyJob /\ job \in [Events -> AnyJob]
    BY DEF StoreTypes
<1>2. PICK f \in BOOLEAN : job' = [job EXCEPT ![m].pc = "finalize", ![m].failed = f]
    BY Zenon DEF AgentReturns
<1>3. job[m].pc = "agent"
    BY Zenon DEF AgentReturns, At
<1> QED
    BY Zenon, <1>1, <1>2, <1>3 DEF JobTo, AnyJob, JobPcs

\* The row that will be settled and linked.
LEMMA FindFields ==
    ASSUME StoreTypes, NEW m \in Events, FindRow(m)
    PROVE  /\ job[m].pc = "finalize"
           /\ job'[m].seen \in {0, job[m].seen} /\ job'[m].own \in {0, job[m].own}
           /\ \/ JobTo(m, "done") /\ job'[m].pick = job[m].pick
              \/ \E i \in 1..Len(rows) :
                    /\ job'[m].pick = i /\ job'[m].start = job[m].start
                    /\ rows[i].at >= job[m].start
                    /\ \/ rows[i].status \in Terminal /\ JobTo(m, "link")
                       \/ rows[i].status \notin Terminal /\ JobTo(m, "status")
<1>1. job[m] \in AnyJob /\ job \in [Events -> AnyJob] /\ DOMAIN rows = 1..Len(rows) /\ Len(rows) \in Nat
    BY DEF StoreTypes
<1>2. job[m].pc = "finalize"
    BY Zenon DEF FindRow, At
<1>3. CASE Recent(m) = {}
    BY Zenon, <1>2, <1>3, GoFields DEF FindRow, JobPcs
<1>4. CASE Recent(m) # {}
  <2>1. PICK i \in Newest(Recent(m)) :
           job' = [job EXCEPT ![m].pick = i, ![m].own = 0,
                        ![m].pc = IF rows[i].status \in Terminal THEN "link" ELSE "status"]
    BY Zenon, <1>4 DEF FindRow
  <2>2. i \in 1..Len(rows) /\ i \in Nat /\ rows[i].at >= job[m].start
    BY <1>1, <2>1 DEF Newest, Recent
  <2>3. CASE rows[i].status \in Terminal
    <3>1. job' = [job EXCEPT ![m].pick = i, ![m].own = 0, ![m].pc = "link"]
        BY Zenon, <2>1, <2>3
    <3>2. /\ JobTo(m, "link") /\ job'[m].pick = i /\ job'[m].start = job[m].start
          /\ job'[m].seen = job[m].seen /\ job'[m].own = 0
        BY Zenon, <1>1, <2>2, <3>1 DEF JobTo, AnyJob, JobPcs
    <3> QED
        BY Zenon, <1>2, <2>2, <2>3, <3>2
  <2>4. CASE rows[i].status \notin Terminal
    <3>1. job' = [job EXCEPT ![m].pick = i, ![m].own = 0, ![m].pc = "status"]
        BY Zenon, <2>1, <2>4
    <3>2. /\ JobTo(m, "status") /\ job'[m].pick = i /\ job'[m].start = job[m].start
          /\ job'[m].seen = job[m].seen /\ job'[m].own = 0
        BY Zenon, <1>1, <2>2, <3>1 DEF JobTo, AnyJob, JobPcs
    <3> QED
        BY Zenon, <1>2, <2>2, <2>4, <3>2
  <2> QED
    BY Zenon, <2>3, <2>4
<1> QED
    BY Zenon, <1>3, <1>4

\* A new row leaves the others alone.
LEMMA RowAdded ==
    ASSUME StoreTypes, NEW o \in {"job", "ask", "askagent"} \X Nat, rows' = Append(rows, NewRow(o))
    PROVE  /\ rows' \in Seq(AnyRow) /\ Len(rows') = Len(rows) + 1
           /\ \A i \in 1..Len(rows) : rows'[i] = rows[i]
           /\ rows'[Len(rows')] = NewRow(o)
<1>1. NewRow(o) \in AnyRow
    BY Zenon DEF StoreTypes, NewRow, AnyRow, Running
<1>2. rows \in Seq(AnyRow)
    BY Zenon DEF StoreTypes
<1> HIDE DEF NewRow
<1> QED
    BY <1>1, <1>2

\* A row that is settled keeps its owner and its age; the others are left alone.
LEMMA RowSettled ==
    ASSUME StoreTypes, NEW i \in 1..Len(rows), NEW s \in Terminal, SetStatus(i, s)
    PROVE  /\ rows' \in Seq(AnyRow) /\ Len(rows') = Len(rows)
           /\ \A k \in 1..Len(rows) : k # i => rows'[k] = rows[k]
           /\ rows'[i].status = s /\ rows'[i].updated = clock
           /\ rows'[i].by = rows[i].by /\ rows'[i].at = rows[i].at
<1>1. rows \in Seq(AnyRow) /\ rows[i] \in AnyRow /\ clock \in Nat /\ DOMAIN rows = 1..Len(rows)
      /\ Len(rows) \in Nat
    BY DEF StoreTypes
<1> DEFINE r == [rows[i] EXCEPT !.status = s, !.updated = clock]
<1>2. rows' = [rows EXCEPT ![i] = r]
    BY Zenon, <1>1 DEF SetStatus, AnyRow
<1>3. r \in AnyRow /\ r.status = s /\ r.updated = clock /\ r.by = rows[i].by /\ r.at = rows[i].at
    BY Zenon, <1>1 DEF AnyRow
<1> HIDE DEF r
<1>4. rows' \in Seq(AnyRow) /\ Len(rows') = Len(rows) /\ rows'[i] = r
      /\ \A k \in 1..Len(rows) : k # i => rows'[k] = rows[k]
    BY <1>1, <1>2, <1>3
<1> QED
    BY Zenon, <1>3, <1>4

\* The event a process hands out next is one nobody was handed before.
LEMMA DeliversNew ==
    ASSUME BusInv, NEW p \in Procs, Deliver(p), active[p]
    PROVE  \E m \in Events \ Handed :
              /\ Begin(m, p) /\ handed' = Append(handed, m)
              /\ \/ Emit(p) /\ m = published'
                 \/ Dispatch(p) /\ m = Head(batch[p])
<1>1. CASE Emit(p)
  <2>1. published' \in Events \ Handed
    BY <1>1, EventsOnly, BusAssumption DEF Emit, BusInv, BusTypes, BatchShape, Events
  <2>2. handed' = Append(handed, published')
    BY Zenon, <1>1 DEF Emit
  <2>3. Begin(published', p)
    <3>1. loop[p] # "batch"
        BY Zenon, <1>1 DEF Emit, BusInv, LoopShape
    <3> QED
        BY Zenon, <3>1 DEF Deliver, Dispatch
  <2> QED
    BY Zenon, <1>1, <2>1, <2>2, <2>3
<1>2. CASE ~Emit(p)
  <2>1. Dispatch(p) /\ Begin(Head(batch[p]), p)
    BY Zenon, <1>2 DEF Deliver
  <2>2. batch[p] \in Seq(Events) /\ batch[p] # <<>>
    BY Zenon, <2>1 DEF Dispatch, BusInv, BusTypes, LoopShape
  <2>3. Head(batch[p]) \in Events /\ Head(batch[p]) = batch[p][1] /\ 1 \in DOMAIN batch[p]
    BY <2>2
  <2>4. Head(batch[p]) \notin Handed
    BY <2>3 DEF BusInv, BatchShape
  <2>5. handed' = Append(handed, Head(batch[p]))
    BY Zenon, <2>1 DEF Dispatch
  <2> QED
    BY Zenon, <2>1, <2>3, <2>4, <2>5
<1> QED
    BY Zenon, <1>1, <1>2

\* A job that begins.
LEMMA BeginFields ==
    ASSUME StoreTypes, NEW m \in Events, NEW p \in Procs, Begin(m, p)
    PROVE  /\ \A n \in Events \ {m} : job'[n] = job[n]
           /\ job' \in [Events -> AnyJob]
           /\ job'[m].pc = "rule" /\ job'[m].proc = p
           /\ job'[m].rule = job[m].rule /\ job'[m].seen = job[m].seen
           /\ job'[m].own = job[m].own /\ job'[m].pick = job[m].pick
<1>1. job[m] \in AnyJob /\ job \in [Events -> AnyJob]
    BY Zenon DEF StoreTypes
<1>2. job' = [job EXCEPT ![m].pc = "rule", ![m].proc = p]
    BY Zenon DEF Begin
<1> QED
    BY Zenon, <1>1, <1>2 DEF AnyJob, JobPcs

\* The jobs a crash takes with it.
Killed(p) ==
    [m \in Events |->
        IF job[m].proc = p /\ job[m].pc \notin {"none", "done", "lost"}
        THEN [Goto(job[m], "done") EXCEPT !.pc = "lost", !.pick = 0]
        ELSE job[m]]

\* A job that dies keeps its alert and its process, and forgets its rows.
LEMMA KilledFields ==
    ASSUME StoreTypes, NEW p \in Procs, job' = Killed(p)
    PROVE  /\ job' \in [Events -> AnyJob]
           /\ \A m \in Events :
                 \/ job'[m] = job[m] /\ (InFlight(m) => job[m].proc # p)
                 \/ /\ InFlight(m) /\ job[m].proc = p
                    /\ job'[m].pc = "lost" /\ job'[m].pick = 0
                    /\ job'[m].rule = job[m].rule /\ job'[m].proc = p
                    /\ job'[m].seen \in {0, job[m].seen} /\ job'[m].own \in {0, job[m].own}
<1>1. ASSUME NEW m \in Events
      PROVE  /\ job'[m] \in AnyJob
             /\ \/ job'[m] = job[m] /\ (InFlight(m) => job[m].proc # p)
                \/ /\ InFlight(m) /\ job[m].proc = p
                   /\ job'[m].pc = "lost" /\ job'[m].pick = 0
                   /\ job'[m].rule = job[m].rule /\ job'[m].proc = p
                   /\ job'[m].seen \in {0, job[m].seen} /\ job'[m].own \in {0, job[m].own}
  <2>1. job[m] \in AnyJob
    BY Zenon DEF StoreTypes
  <2>2. CASE job[m].proc = p /\ InFlight(m)
    <3>1. job'[m] = [Goto(job[m], "done") EXCEPT !.pc = "lost", !.pick = 0]
        BY Zenon, <2>2 DEF Killed, InFlight
    <3> DEFINE j == Goto(job[m], "done")
    <3>2. /\ j \in AnyJob /\ j.rule = job[m].rule /\ j.proc = p
          /\ j.seen \in {0, job[m].seen} /\ j.own \in {0, job[m].own}
        BY Zenon, <2>1, <2>2, GotoFields DEF JobPcs
    <3> HIDE DEF j
    <3>3. job'[m] = [j EXCEPT !.pc = "lost", !.pick = 0]
        BY Zenon, <3>1 DEF j
    <3>4. /\ job'[m] \in AnyJob /\ job'[m].pc = "lost" /\ job'[m].pick = 0
          /\ job'[m].rule = j.rule /\ job'[m].proc = j.proc
          /\ job'[m].seen = j.seen /\ job'[m].own = j.own
      <4>1. ASSUME NEW k \in AnyJob, NEW l, l = [k EXCEPT !.pc = "lost", !.pick = 0]
            PROVE  /\ l \in AnyJob /\ l.pc = "lost" /\ l.pick = 0 /\ l.rule = k.rule
                   /\ l.proc = k.proc /\ l.seen = k.seen /\ l.own = k.own
        BY Zenon, <4>1 DEF AnyJob, JobPcs
      <4> QED
        BY Zenon, <3>2, <3>3, <4>1
    <3> QED
        BY Zenon, <2>2, <3>2, <3>4
  <2>3. CASE ~(job[m].proc = p /\ InFlight(m))
    <3>1. job'[m] = job[m]
        BY Zenon, <2>3 DEF Killed, InFlight
    <3> QED
        BY Zenon, <2>1, <2>3, <3>1
  <2> QED
    BY Zenon, <2>2, <2>3
<1>2. job' = [m \in Events |-> job'[m]]
    BY Zenon DEF Killed
<1> QED
    BY Zenon, <1>1, <1>2

\* What a step of the bus does to the jobs: nothing, or one begins, or some die.
LEMMA BusStepJobs ==
    ASSUME BusInv, StoreTypes, BusStep
    PROVE  \/ /\ UNCHANGED job /\ UNCHANGED handed
              /\ \/ XAdd
                 \/ \E p \in Procs :
                       \/ Subscribe(p) \/ CreateGroup(p) \/ ReadGroup(p) \/ ReadInactive(p)
                       \/ HandlersDone(p) \/ Ack(p) \/ AckFails(p) \/ Unsubscribe(p)
                       \/ (~active[p] /\ (Emit(p) \/ Dispatch(p)))
           \/ \E p \in Procs, m \in Events \ Handed :
                 /\ active[p] /\ Begin(m, p) /\ handed' = Append(handed, m)
                 /\ \/ Emit(p) /\ m = published'
                    \/ Dispatch(p) /\ m = Head(batch[p])
           \/ \E p \in Procs : Crash(p) /\ job' = Killed(p)
<1>1. CASE XAdd /\ UNCHANGED job
    BY Zenon, <1>1 DEF XAdd
<1>2. ASSUME NEW p \in Procs, UNCHANGED job,
             \/ Subscribe(p) \/ CreateGroup(p) \/ ReadGroup(p) \/ ReadInactive(p)
             \/ HandlersDone(p) \/ Ack(p) \/ AckFails(p) \/ Unsubscribe(p)
      PROVE  UNCHANGED handed
    BY Zenon, <1>2 DEF Subscribe, CreateGroup, ReadGroup, ReadInactive, HandlersDone, Settle, Ack,
                AckFails, Unsubscribe
<1>3. ASSUME NEW p \in Procs, Deliver(p), ~active[p]
      PROVE  UNCHANGED job /\ UNCHANGED handed /\ (Emit(p) \/ Dispatch(p))
    BY Zenon, <1>3 DEF Deliver, Emit, Dispatch
<1>4. ASSUME NEW p \in Procs, Deliver(p), active[p]
      PROVE  \E m \in Events \ Handed :
                 /\ active[p] /\ Begin(m, p) /\ handed' = Append(handed, m)
                 /\ \/ Emit(p) /\ m = published'
                    \/ Dispatch(p) /\ m = Head(batch[p])
    BY Zenon, <1>4, DeliversNew
<1> QED
    BY Zenon, <1>1, <1>2, <1>3, <1>4 DEF BusStep, Bus, Killed

\* Rows are never removed, keep their owner and their age, and an investigation
\* that has ended stays so.
RowsGrow ==
    /\ rows' \in Seq(AnyRow) /\ Len(rows) <= Len(rows')
    /\ \A i \in 1..Len(rows) :
          /\ rows'[i].by = rows[i].by /\ rows'[i].at = rows[i].at
          /\ rows[i].status \in Terminal => rows'[i].status \in Terminal

\* No row changes, or one is added, or one is settled.
LEMMA RowsChange ==
    ASSUME StoreTypes,
           \/ UNCHANGED rows
           \/ \E o \in {"job", "ask", "askagent"} \X Nat : rows' = Append(rows, NewRow(o))
           \/ \E i \in 1..Len(rows), s \in Terminal : SetStatus(i, s)
    PROVE  RowsGrow
<1>1. CASE UNCHANGED rows
    BY <1>1 DEF RowsGrow, StoreTypes
<1>2. ASSUME NEW o \in {"job", "ask", "askagent"} \X Nat, rows' = Append(rows, NewRow(o))
      PROVE  RowsGrow
  <2>1. Len(rows) \in Nat
    BY DEF StoreTypes
  <2> QED
    BY <1>2, <2>1, RowAdded DEF RowsGrow
<1>3. ASSUME NEW i \in 1..Len(rows), NEW s \in Terminal, SetStatus(i, s) PROVE RowsGrow
  <2>1. Len(rows) \in Nat
    BY DEF StoreTypes
  <2>2. /\ rows' \in Seq(AnyRow) /\ Len(rows') = Len(rows)
        /\ \A k \in 1..Len(rows) : k # i => rows'[k] = rows[k]
        /\ rows'[i].status = s /\ rows'[i].by = rows[i].by /\ rows'[i].at = rows[i].at
    BY Zenon, <1>3, RowSettled
  <2> QED
    BY <2>1, <2>2 DEF RowsGrow
<1> QED
    BY Zenon, <1>1, <1>2, <1>3

\* A job's step keeps the types if what it refers to exists.
LEMMA JobKeepsStore ==
    ASSUME StoreTypes, HasRow, RowsGrow, NEW m \in Events, NEW pc, JobTo(m, pc),
           job'[m].seen <= Len(rows'), job'[m].own <= Len(rows'), job'[m].pick <= Len(rows'),
           pc = "dedup" => job'[m].seen # 0, pc \in {"status", "link"} => job'[m].pick # 0,
           UNCHANGED <<limit, clock, asked, crashes>>, faults' \in Nat,
           link' \in [Rules -> Nat], \A r \in Rules : link'[r] <= Len(rows')
    PROVE  StoreTypes' /\ HasRow'
<1>1. Len(rows) \in Nat /\ Len(rows') \in Nat /\ Len(rows) <= Len(rows')
    BY DEF StoreTypes, RowsGrow
<1>2. \A n \in Events : job'[n].seen <= Len(rows') /\ job'[n].own <= Len(rows') /\ job'[n].pick <= Len(rows')
  <2> SUFFICES ASSUME NEW n \in Events, n # m
               PROVE  job'[n].seen <= Len(rows') /\ job'[n].own <= Len(rows') /\ job'[n].pick <= Len(rows')
    BY Zenon
  <2>1. job'[n] = job[n] /\ job[n] \in AnyJob
    BY Zenon DEF JobTo, StoreTypes
  <2>2. job[n].seen <= Len(rows) /\ job[n].own <= Len(rows) /\ job[n].pick <= Len(rows)
        /\ job[n].seen \in Nat /\ job[n].own \in Nat /\ job[n].pick \in Nat
    BY Zenon, <2>1 DEF StoreTypes, AnyJob
  <2> QED
    BY <1>1, <2>1, <2>2
<1>3. \A a \in Requests : asked[a].row <= Len(rows') /\ asked[a].own <= Len(rows')
    BY <1>1 DEF StoreTypes, AnyAsk
<1>4. UNCHANGED Requests
    BY Zenon DEF Requests
<1>5. StoreTypes'
  <2>1. job' \in [Events -> AnyJob] /\ rows' \in Seq(AnyRow)
    BY Zenon DEF JobTo, RowsGrow
  <2>2. asked' = asked /\ clock' = clock /\ crashes' = crashes /\ Requests' = Requests
    BY Zenon, <1>4
  <2> QED
    BY Zenon, <1>2, <1>3, <2>1, <2>2 DEF StoreTypes
<1>6. HasRow'
    BY Zenon, <1>4 DEF HasRow, JobTo
<1> QED
    BY Zenon, <1>5, <1>6

\* Every step of a job keeps the types, and its rows grow.
LEMMA JobStoreStep ==
    ASSUME StoreTypes, HasRow, JobStep
    PROVE  StoreTypes' /\ HasRow' /\ RowsGrow
<1>1. PICK m \in Events :
        \/ ReadRule(m) \/ Dedup(m) \/ ResolveIdentity(m)
        \/ AgentCreates(m) \/ AgentCompletes(m) \/ AgentReturns(m)
        \/ FindRow(m) \/ ForceStatus(m) \/ LinkRule(m) \/ StoreFails(m)
    BY Zenon DEF JobStep
<1>2. /\ Len(rows) \in Nat /\ job[m] \in AnyJob
      /\ job[m].seen \in Nat /\ job[m].own \in Nat /\ job[m].pick \in Nat
      /\ job[m].seen <= Len(rows) /\ job[m].own <= Len(rows) /\ job[m].pick <= Len(rows)
      /\ job[m].rule \in Rules /\ link \in [Rules -> Nat] /\ \A r \in Rules : link[r] <= Len(rows)
      /\ faults \in Nat
    BY DEF StoreTypes, AnyJob
<1>3. CASE ReadRule(m)
  <2>1. UNCHANGED <<limit, clock, asked, crashes, faults, link, rows>>
    BY Zenon, <1>3 DEF ReadRule, busVars
  <2>2. RowsGrow
    BY Zenon, <2>1, RowsChange
  <2>3. link[job[m].rule] \in Nat /\ link[job[m].rule] <= Len(rows)
    BY Zenon, <1>2
  <2>4. CASE link[job[m].rule] = 0
    BY Zenon, <1>2, <1>3, <2>1, <2>2, <2>3, <2>4, ReadRuleFields, JobKeepsStore
  <2>5. CASE link[job[m].rule] # 0
    BY Zenon, <1>2, <1>3, <2>1, <2>2, <2>3, <2>5, ReadRuleFields, JobKeepsStore
  <2> QED
    BY Zenon, <2>4, <2>5
<1>4. CASE Dedup(m)
  <2>1. UNCHANGED <<limit, clock, asked, crashes, faults, link, rows>>
    BY Zenon, <1>4 DEF Dedup, busVars
  <2>2. RowsGrow
    BY <2>1, RowsChange
  <2>3. /\ JobTo(m, "done") \/ JobTo(m, "identity")
        /\ job'[m].seen <= Len(rows) /\ job'[m].own <= Len(rows) /\ job'[m].pick <= Len(rows)
    BY <1>2, <1>4, DedupFields
  <2> QED
    BY Zenon, <1>2, <2>1, <2>2, <2>3, JobKeepsStore
<1>5. CASE ResolveIdentity(m)
  <2>1. UNCHANGED <<limit, clock, asked, crashes, faults, link, rows>>
    BY Zenon, <1>5 DEF ResolveIdentity, busVars
  <2>2. RowsGrow
    BY <2>1, RowsChange
  <2>3. /\ JobTo(m, "done") \/ JobTo(m, "agent")
        /\ job'[m].seen <= Len(rows) /\ job'[m].own <= Len(rows) /\ job'[m].pick <= Len(rows)
    BY <1>2, <1>5, ResolveFields
  <2> QED
    BY Zenon, <1>2, <2>1, <2>2, <2>3, JobKeepsStore
<1>6. CASE AgentCreates(m)
  <2>1. UNCHANGED <<limit, clock, asked, crashes, faults, link>>
    BY Zenon, <1>6 DEF AgentCreates, busVars
  <2>2. <<"job", m>> \in {"job", "ask", "askagent"} \X Nat
    BY DEF Events
  <2>3. RowsGrow /\ Len(rows') = Len(rows) + 1
    BY Zenon, <1>6, <2>2, RowsChange, RowAdded, CreatesFields
  <2>4. \A r \in Rules : link[r] <= Len(rows')
    BY <1>2, <2>3
  <2>5. /\ JobTo(m, "agent")
        /\ job'[m].seen <= Len(rows') /\ job'[m].own <= Len(rows') /\ job'[m].pick <= Len(rows')
    <3>1. /\ JobTo(m, "agent") /\ job'[m].own = Len(rows')
          /\ job'[m].seen = job[m].seen /\ job'[m].pick = job[m].pick
        BY Zenon, <1>6, CreatesFields
    <3>2. Len(rows') \in Nat
        BY <1>2, <2>3
    <3> QED
        BY <1>2, <2>3, <3>1, <3>2
  <2> QED
    BY Zenon, <1>2, <2>1, <2>3, <2>4, <2>5, JobKeepsStore
<1>7. CASE AgentCompletes(m)
  <2>1. UNCHANGED <<limit, clock, asked, crashes, faults, link, job>>
    BY Zenon, <1>7 DEF AgentCompletes, busVars
  <2>2. job[m].own \in 1..Len(rows) /\ SetStatus(job[m].own, "completed") /\ "completed" \in Terminal
    BY <1>2, <1>7 DEF AgentCompletes, Terminal
  <2>3. RowsGrow /\ Len(rows') = Len(rows)
    BY Zenon, <2>2, RowsChange, RowSettled
  <2>4. UNCHANGED Requests
    BY Zenon, <2>1 DEF Requests
  <2> QED
    BY Zenon, <2>1, <2>3, <2>4 DEF StoreTypes, HasRow, RowsGrow
<1>8. CASE AgentReturns(m)
  <2>1. UNCHANGED <<limit, clock, asked, crashes, faults, link, rows>>
    BY Zenon, <1>8 DEF AgentReturns, busVars
  <2>2. RowsGrow
    BY <2>1, RowsChange
  <2>3. /\ JobTo(m, "finalize")
        /\ job'[m].seen <= Len(rows) /\ job'[m].own <= Len(rows) /\ job'[m].pick <= Len(rows)
    BY Zenon, <1>2, <1>8, ReturnsFields
  <2> QED
    BY Zenon, <1>2, <2>1, <2>2, <2>3, JobKeepsStore
<1>9. CASE FindRow(m)
  <2>1. UNCHANGED <<limit, clock, asked, crashes, faults, link, rows>>
    BY Zenon, <1>9 DEF FindRow, busVars
  <2>2. RowsGrow
    BY <2>1, RowsChange
  <2>3. job'[m].seen <= Len(rows) /\ job'[m].own <= Len(rows)
    BY <1>2, <1>9, FindFields
  <2>4. \/ JobTo(m, "done") /\ job'[m].pick = job[m].pick
        \/ (JobTo(m, "link") \/ JobTo(m, "status")) /\ job'[m].pick \in 1..Len(rows)
    BY Zenon, <1>9, FindFields
  <2>5. CASE JobTo(m, "done") /\ job'[m].pick = job[m].pick
    BY Zenon, <1>2, <2>1, <2>2, <2>3, <2>5, JobKeepsStore
  <2>6. CASE (JobTo(m, "link") \/ JobTo(m, "status")) /\ job'[m].pick \in 1..Len(rows)
    <3>1. job'[m].pick <= Len(rows) /\ job'[m].pick # 0
        BY <1>2, <2>6
    <3> QED
        BY Zenon, <1>2, <2>1, <2>2, <2>3, <2>6, <3>1, JobKeepsStore
  <2> QED
    BY Zenon, <2>4, <2>5, <2>6
<1>10. CASE ForceStatus(m)
  <2>1. UNCHANGED <<limit, clock, asked, crashes, faults, link>>
    BY Zenon, <1>10 DEF ForceStatus, busVars
  <2>2. job[m].pc = "status" /\ Go(m, "link") /\ "link" \in JobPcs
        /\ \E s \in Terminal : SetStatus(job[m].pick, s)
    BY Zenon, <1>10 DEF ForceStatus, At, Terminal, JobPcs
  <2>3. job[m].pick \in 1..Len(rows)
    BY <1>2, <2>2 DEF HasRow
  <2>4. RowsGrow /\ Len(rows') = Len(rows)
    BY Zenon, <2>2, <2>3, RowsChange, RowSettled
  <2>5. /\ JobTo(m, "link") /\ job'[m].pick = job[m].pick
        /\ job'[m].seen <= Len(rows) /\ job'[m].own <= Len(rows)
    BY <1>2, <2>2, GoFields
  <2> QED
    BY <1>2, <2>1, <2>3, <2>4, <2>5, JobKeepsStore
<1>11. CASE LinkRule(m)
  <2>1. /\ UNCHANGED <<limit, clock, asked, crashes, faults, rows>>
        /\ link' = [link EXCEPT ![job[m].rule] = job[m].pick]
        /\ Go(m, "done") /\ "done" \in JobPcs
    BY Zenon, <1>11 DEF LinkRule, busVars, JobPcs
  <2>2. RowsGrow
    BY Zenon, <2>1, RowsChange
  <2>3. link' \in [Rules -> Nat] /\ \A r \in Rules : link'[r] <= Len(rows')
    BY Zenon, <1>2, <2>1
  <2>4. /\ JobTo(m, "done")
        /\ job'[m].seen <= Len(rows) /\ job'[m].own <= Len(rows) /\ job'[m].pick <= Len(rows)
    BY <1>2, <2>1, GoFields
  <2> QED
    BY Zenon, <1>2, <2>1, <2>2, <2>3, <2>4, JobKeepsStore
<1>12. CASE StoreFails(m)
  <2>1. PICK pc \in {"done", "link"} : Fault(m, pc) /\ (pc = "link" => job[m].pc = "status")
    BY Zenon, <1>12 DEF StoreFails, At
  <2>2. /\ UNCHANGED <<limit, clock, asked, crashes, rows, link>> /\ faults' \in Nat
        /\ Go(m, pc) /\ pc \in JobPcs
    <3>1. /\ UNCHANGED <<limit, clock, asked, crashes, rows, link>> /\ faults' = faults + 1
          /\ Go(m, pc) /\ pc \in JobPcs
        BY Zenon, <2>1 DEF Fault, JobPcs
    <3>2. faults \in Nat
        BY Zenon DEF StoreTypes
    <3>3. faults' \in Nat
        BY <3>1, <3>2
    <3> QED
        BY Zenon, <3>1, <3>3
  <2>3. RowsGrow
    BY Zenon, <2>2, RowsChange
  <2>4. /\ JobTo(m, pc) /\ job'[m].pick = job[m].pick
        /\ job'[m].seen <= Len(rows) /\ job'[m].own <= Len(rows)
    <3>1. /\ JobTo(m, pc) /\ job'[m].pick = job[m].pick
          /\ job'[m].seen \in {0, job[m].seen} /\ job'[m].own \in {0, job[m].own}
        BY Zenon, <2>2, GoFields
    <3> QED
        BY <1>2, <3>1
  <2>5. pc = "link" => job[m].pick # 0
    BY Zenon, <2>1 DEF HasRow
  <2> QED
    BY Zenon, <1>2, <2>1, <2>2, <2>3, <2>4, <2>5, JobKeepsStore
<1> QED
    BY Zenon, <1>1, <1>3, <1>4, <1>5, <1>6, <1>7, <1>8, <1>9, <1>10, <1>11, <1>12

\* A request's step keeps the types if what it refers to exists.
LEMMA AskKeepsStore ==
    ASSUME StoreTypes, HasRow, RowsGrow, NEW a \in Requests,
           asked' \in [Requests -> AnyAsk], \A b \in Requests \ {a} : asked'[b] = asked[b],
           asked'[a].row <= Len(rows'), asked'[a].own <= Len(rows'),
           asked'[a].pc = "link" => asked'[a].row # 0,
           UNCHANGED <<limit, clock, job, crashes, faults>>,
           link' \in [Rules -> Nat], \A r \in Rules : link'[r] <= Len(rows')
    PROVE  StoreTypes' /\ HasRow'
<1>1. Len(rows) \in Nat /\ Len(rows') \in Nat /\ Len(rows) <= Len(rows')
    BY DEF StoreTypes, RowsGrow
<1>2. \A b \in Requests : asked'[b].row <= Len(rows') /\ asked'[b].own <= Len(rows')
  <2> SUFFICES ASSUME NEW b \in Requests, b # a
               PROVE  asked'[b].row <= Len(rows') /\ asked'[b].own <= Len(rows')
    BY Zenon
  <2>1. asked'[b] = asked[b] /\ asked[b].row \in Nat /\ asked[b].own \in Nat
        /\ asked[b].row <= Len(rows) /\ asked[b].own <= Len(rows)
    BY Zenon DEF StoreTypes, AnyAsk
  <2> QED
    BY <1>1, <2>1
<1>3. \A m \in Events : job[m].seen <= Len(rows') /\ job[m].own <= Len(rows') /\ job[m].pick <= Len(rows')
    BY <1>1 DEF StoreTypes, AnyJob
<1>4. UNCHANGED Requests
    BY Zenon DEF Requests
<1>5. StoreTypes'
  <2>1. job' = job /\ clock' = clock /\ crashes' = crashes /\ faults' = faults /\ Requests' = Requests
    BY Zenon, <1>4
  <2>2. rows' \in Seq(AnyRow)
    BY Zenon DEF RowsGrow
  <2> QED
    BY Zenon, <1>2, <1>3, <2>1, <2>2 DEF StoreTypes
<1>6. HasRow'
    BY Zenon, <1>4 DEF HasRow
<1> QED
    BY Zenon, <1>5, <1>6

\* Every step of a manual request keeps the types.
LEMMA AskStoreStep ==
    ASSUME StoreTypes, HasRow, AskStep
    PROVE  StoreTypes' /\ HasRow' /\ RowsGrow
<1>1. PICK a \in Requests : Investigate(a) \/ InsertRow(a) \/ LinkAndSpawn(a) \/ AskedAgent(a)
    BY Zenon DEF AskStep
<1>2. /\ Len(rows) \in Nat /\ asked[a] \in AnyAsk /\ asked \in [Requests -> AnyAsk]
      /\ asked[a].row \in Nat /\ asked[a].own \in Nat /\ asked[a].rule \in Rules
      /\ asked[a].row <= Len(rows) /\ asked[a].own <= Len(rows)
      /\ link \in [Rules -> Nat] /\ \A r \in Rules : link[r] <= Len(rows)
    BY DEF StoreTypes, AnyAsk
<1>3. /\ <<"ask", a>> \in {"job", "ask", "askagent"} \X Nat
      /\ <<"askagent", a>> \in {"job", "ask", "askagent"} \X Nat
    BY DEF Requests
<1>4. CASE Investigate(a)
  <2>1. UNCHANGED <<limit, clock, job, crashes, faults, link, rows>>
    BY Zenon, <1>4 DEF Investigate, busVars
  <2>2. RowsGrow
    BY Zenon, <2>1, RowsChange
  <2>3. PICK r \in Rules, pc \in {"done", "insert"} : asked' = [asked EXCEPT ![a].rule = r, ![a].pc = pc]
    BY Zenon, <1>4 DEF Investigate
  <2>4. /\ asked' \in [Requests -> AnyAsk] /\ \A b \in Requests \ {a} : asked'[b] = asked[b]
        /\ asked'[a].row = asked[a].row /\ asked'[a].own = asked[a].own /\ asked'[a].pc # "link"
    BY Zenon, <1>2, <2>3 DEF AnyAsk
  <2> QED
    BY Zenon, <1>2, <2>1, <2>2, <2>4, AskKeepsStore
<1>5. CASE InsertRow(a)
  <2>1. /\ UNCHANGED <<limit, clock, job, crashes, faults, link>>
        /\ rows' = Append(rows, NewRow(<<"ask", a>>))
        /\ asked' = [asked EXCEPT ![a].pc = "link", ![a].row = Len(rows')]
    BY Zenon, <1>5 DEF InsertRow, busVars
  <2>2. RowsGrow /\ Len(rows') = Len(rows) + 1
    BY Zenon, <1>3, <2>1, RowsChange, RowAdded
  <2>3. Len(rows') \in Nat /\ Len(rows') # 0 /\ \A r \in Rules : link[r] <= Len(rows')
    BY <1>2, <2>2
  <2>4. /\ asked' \in [Requests -> AnyAsk] /\ \A b \in Requests \ {a} : asked'[b] = asked[b]
        /\ asked'[a].row = Len(rows') /\ asked'[a].own = asked[a].own
    BY Zenon, <1>2, <2>1, <2>3 DEF AnyAsk
  <2>5. asked'[a].own <= Len(rows') /\ asked'[a].row <= Len(rows') /\ asked'[a].row # 0
    BY <1>2, <2>2, <2>3, <2>4
  <2> QED
    BY Zenon, <1>2, <2>1, <2>2, <2>3, <2>4, <2>5, AskKeepsStore
<1>6. CASE LinkAndSpawn(a)
  <2>1. /\ UNCHANGED <<limit, clock, job, crashes, faults, rows>>
        /\ link' = [link EXCEPT ![asked[a].rule] = asked[a].row]
        /\ asked' = [asked EXCEPT ![a].pc = "agent"]
    BY Zenon, <1>6 DEF LinkAndSpawn, busVars
  <2>2. RowsGrow
    BY Zenon, <2>1, RowsChange
  <2>3. link' \in [Rules -> Nat] /\ \A r \in Rules : link'[r] <= Len(rows')
    BY Zenon, <1>2, <2>1
  <2>4. /\ asked' \in [Requests -> AnyAsk] /\ \A b \in Requests \ {a} : asked'[b] = asked[b]
        /\ asked'[a].row = asked[a].row /\ asked'[a].own = asked[a].own /\ asked'[a].pc # "link"
    BY Zenon, <1>2, <2>1 DEF AnyAsk
  <2> QED
    BY Zenon, <1>2, <2>1, <2>2, <2>3, <2>4, AskKeepsStore
<1>7. CASE AskedAgent(a)
  <2>1. UNCHANGED <<limit, clock, job, crashes, faults, link>> /\ asked[a].pc = "agent"
    BY Zenon, <1>7 DEF AskedAgent, busVars
  <2>2. CASE /\ rows' = Append(rows, NewRow(<<"askagent", a>>))
             /\ asked' = [asked EXCEPT ![a].own = Len(rows')]
    <3>1. RowsGrow /\ Len(rows') = Len(rows) + 1
        BY Zenon, <1>3, <2>2, RowsChange, RowAdded
    <3>2. Len(rows') \in Nat /\ asked[a].row <= Len(rows') /\ \A r \in Rules : link[r] <= Len(rows')
        BY <1>2, <3>1
    <3>3. /\ asked' \in [Requests -> AnyAsk] /\ \A b \in Requests \ {a} : asked'[b] = asked[b]
          /\ asked'[a].row = asked[a].row /\ asked'[a].own = Len(rows') /\ asked'[a].pc = "agent"
        BY Zenon, <1>2, <2>1, <2>2, <3>2 DEF AnyAsk
    <3> QED
        BY <1>2, <2>1, <3>1, <3>2, <3>3, AskKeepsStore
  <2>3. CASE /\ asked[a].own # 0 /\ SetStatus(asked[a].own, "completed")
             /\ UNCHANGED asked
    <3>1. asked[a].own \in 1..Len(rows) /\ "completed" \in Terminal
        BY <1>2, <2>3 DEF Terminal
    <3>2. RowsGrow /\ Len(rows') = Len(rows)
        BY Zenon, <2>3, <3>1, RowsChange, RowSettled
    <3> QED
        BY Zenon, <1>2, <2>1, <2>3, <3>2, AskKeepsStore
  <2>4. CASE asked' = [asked EXCEPT ![a].pc = "done", ![a].own = 0] /\ UNCHANGED rows
    <3>1. RowsGrow
        BY Zenon, <2>4, RowsChange
    <3>2. /\ asked' \in [Requests -> AnyAsk] /\ \A b \in Requests \ {a} : asked'[b] = asked[b]
          /\ asked'[a].row = asked[a].row /\ asked'[a].own = 0 /\ asked'[a].pc = "done"
        BY Zenon, <1>2, <2>4 DEF AnyAsk
    <3> QED
        BY <1>2, <2>1, <2>4, <3>1, <3>2, AskKeepsStore
  <2> QED
    BY Zenon, <1>7, <2>2, <2>3, <2>4 DEF AskedAgent
<1> QED
    BY Zenon, <1>1, <1>4, <1>5, <1>6, <1>7

\* The steps of the bus leave the store alone.
LEMMA BusStoreStep ==
    ASSUME BusInv, StoreTypes, HasRow, BusStep
    PROVE  StoreTypes' /\ HasRow' /\ RowsGrow
<1>1. UNCHANGED <<clock, rows, link, asked, limit>>
    BY Zenon DEF BusStep, Bus, Deliver, XAdd, Subscribe, CreateGroup, ReadGroup, ReadInactive,
           HandlersDone, Settle, Ack, AckFails, Unsubscribe, Emit, Dispatch, Crash
<1>2. faults' \in Nat /\ crashes' \in Nat
  <2>1. faults' \in {faults, faults + 1} /\ crashes' \in {crashes, crashes + 1}
    BY Zenon DEF BusStep, Bus, Deliver, XAdd, Subscribe, CreateGroup, ReadGroup, ReadInactive,
           HandlersDone, Settle, Ack, AckFails, Unsubscribe, Emit, Dispatch, Crash
  <2> QED
    BY <2>1 DEF StoreTypes
<1>3. RowsGrow
    BY Zenon, <1>1, RowsChange
<1> DEFINE Fit ==
      /\ job' \in [Events -> AnyJob]
      /\ \A m \in Events :
            /\ job'[m].seen <= Len(rows) /\ job'[m].own <= Len(rows) /\ job'[m].pick <= Len(rows)
            /\ job'[m].pc = "dedup" => job'[m].seen # 0
            /\ job'[m].pc \in {"status", "link"} => job'[m].pick # 0
<1>4. Fit
  <2>1. CASE UNCHANGED job
    BY Zenon, <2>1 DEF StoreTypes, HasRow
  <2>2. ASSUME NEW p \in Procs, NEW m \in Events, Begin(m, p) PROVE Fit
    <3>1. /\ \A n \in Events \ {m} : job'[n] = job[n]
          /\ job' \in [Events -> AnyJob]
          /\ job'[m].pc = "rule" /\ job'[m].seen = job[m].seen
          /\ job'[m].own = job[m].own /\ job'[m].pick = job[m].pick
        BY Zenon, <2>2, BeginFields
    <3> QED
        BY Zenon, <3>1 DEF StoreTypes, HasRow
  <2>3. ASSUME NEW p \in Procs, job' = Killed(p) PROVE Fit
    <3>1. \A m \in Events : job[m].seen \in Nat /\ job[m].own \in Nat /\ job[m].pick \in Nat
                            /\ job[m].seen <= Len(rows) /\ job[m].own <= Len(rows) /\ job[m].pick <= Len(rows)
        BY Zenon DEF StoreTypes, AnyJob
    <3>2. 0 <= Len(rows)
        BY DEF StoreTypes
    <3>3. /\ job' \in [Events -> AnyJob]
          /\ \A m \in Events :
                 \/ job'[m] = job[m]
                 \/ /\ job'[m].pc = "lost" /\ job'[m].pick = 0
                    /\ job'[m].seen \in {0, job[m].seen} /\ job'[m].own \in {0, job[m].own}
        BY Zenon, <2>3, KilledFields
    <3>4. ASSUME NEW m \in Events
          PROVE  /\ job'[m].seen <= Len(rows) /\ job'[m].own <= Len(rows) /\ job'[m].pick <= Len(rows)
                 /\ job'[m].pc = "dedup" => job'[m].seen # 0
                 /\ job'[m].pc \in {"status", "link"} => job'[m].pick # 0
      <4>1. CASE job'[m] = job[m]
        BY Zenon, <3>1, <4>1 DEF HasRow
      <4>2. CASE job'[m] # job[m]
        BY Zenon, <3>1, <3>2, <3>3, <4>2
      <4> QED
        BY Zenon, <4>1, <4>2
    <3> QED
        BY Zenon, <3>3, <3>4
  <2>4. \/ UNCHANGED job
        \/ \E p \in Procs, m \in Events : Begin(m, p)
        \/ \E p \in Procs : job' = Killed(p)
    BY Zenon, BusStepJobs
  <2> HIDE DEF Fit
  <2> QED
    BY Zenon, <2>1, <2>2, <2>3, <2>4
<1>5. UNCHANGED Requests
    BY Zenon, <1>1 DEF Requests
<1>6. StoreTypes'
  <2>1. rows' = rows /\ link' = link /\ asked' = asked /\ clock' = clock /\ Requests' = Requests
    BY Zenon, <1>1, <1>5
  <2> QED
    BY Zenon, <1>2, <1>4, <2>1 DEF StoreTypes
<1>7. HasRow'
    BY Zenon, <1>1, <1>4, <1>5 DEF HasRow
<1> QED
    BY Zenon, <1>3, <1>6, <1>7

\* Every step keeps the types, and no step takes a row away.
LEMMA StoreStep ==
    ASSUME BusInv, StoreTypes, HasRow, [Next]_vars
    PROVE  StoreTypes' /\ HasRow' /\ RowsGrow
<1>1. CASE Tick
  <2>1. clock' \in Nat /\ UNCHANGED <<limit, rows, link, job, asked, faults, crashes>>
    BY <1>1 DEF Tick, busVars, jobVars, StoreTypes
  <2>2. UNCHANGED Requests /\ RowsGrow
    BY Zenon, <2>1, RowsChange DEF Requests
  <2> QED
    BY Zenon, <2>1, <2>2 DEF StoreTypes, HasRow
<1>2. CASE UNCHANGED vars
  <2>1. UNCHANGED <<limit, clock, rows, link, job, asked, faults, crashes>>
    BY Zenon, <1>2 DEF vars, busVars
  <2>2. UNCHANGED Requests /\ RowsGrow
    BY Zenon, <2>1, RowsChange DEF Requests
  <2> QED
    BY Zenon, <2>1, <2>2 DEF StoreTypes, HasRow
<1> QED
    BY Zenon, <1>1, <1>2, BusStoreStep, JobStoreStep, AskStoreStep DEF Next

\* At the start there are no rows.
LEMMA StoreInit == Init => StoreTypes /\ HasRow
<1> SUFFICES ASSUME Init PROVE StoreTypes /\ HasRow
    BY Zenon
<1>1. rows = <<>> /\ Len(rows) = 0 /\ rows \in Seq(AnyRow)
    BY DEF Init
<1>2. /\ job \in [Events -> AnyJob]
      /\ \A m \in Events : /\ job[m].pc = "none" /\ job[m].seen = 0 /\ job[m].own = 0
                           /\ job[m].pick = 0
  <2>1. \A m \in Events : job[m] \in [pc : {"none"}, rule : Rules, proc : Procs, seen : {0},
                                      start : {0}, own : {0}, failed : {FALSE}, pick : {0}]
    BY Zenon DEF Init
  <2>2. \A m \in Events : job[m] \in AnyJob
    <3>1. "none" \in JobPcs /\ 0 \in Nat /\ FALSE \in BOOLEAN
        BY Zenon DEF JobPcs
    <3>2. {"none"} \subseteq JobPcs /\ {0} \subseteq Nat /\ {FALSE} \subseteq BOOLEAN
        BY Zenon, <3>1
    <3>3. ASSUME NEW A, NEW B, NEW C, A \subseteq JobPcs, B \subseteq Nat, C \subseteq BOOLEAN
          PROVE  [pc : A, rule : Rules, proc : Procs, seen : B, start : B, own : B, failed : C,
                  pick : B] \subseteq AnyJob
        BY Zenon, <3>3 DEF AnyJob
    <3>4. [pc : {"none"}, rule : Rules, proc : Procs, seen : {0}, start : {0}, own : {0},
           failed : {FALSE}, pick : {0}] \subseteq AnyJob
        BY Zenon, <3>2, <3>3
    <3> QED
        BY Zenon, <2>1, <3>4
  <2>3. job = [m \in Events |-> job[m]]
    BY Zenon DEF Init
  <2> QED
    BY Zenon, <2>1, <2>2, <2>3
<1>3. /\ asked \in [Requests -> AnyAsk]
      /\ \A a \in Requests : asked[a].pc = "idle" /\ asked[a].row = 0 /\ asked[a].own = 0
  <2>1. (CHOOSE r \in Rules : TRUE) \in Rules
    BY Zenon, InvestigationAssumption
  <2> QED
    BY Zenon, <2>1 DEF Init, AnyAsk
<1>4. clock \in Nat /\ faults \in Nat /\ crashes \in Nat /\ link \in [Rules -> Nat]
      /\ \A r \in Rules : link[r] = 0
    BY Zenon DEF Init, BusInit
<1> QED
    BY <1>1, <1>2, <1>3, <1>4 DEF StoreTypes, HasRow

-----------------------------------------------------------------------------
(* AutoInvestigation: the investigation a rule is linked to.               *)

\* Without faults, a job that is about to link a row has seen or made it end;
\* the row a request is about to link is the one it created.
SettledInv ==
    /\ \A m \in Events : job[m].pc = "link" /\ faults = 0 => rows[job[m].pick].status \in Terminal
    /\ \A a \in Requests : asked[a].pc = "link" => rows[asked[a].row].by[1] = "ask"
    /\ LinkedIsSettled

\* A step of job m moves that job only, forward, and only while it is in flight.
LEMMA JobMoves ==
    ASSUME StoreTypes, NEW m \in Events,
        \/ ReadRule(m) \/ Dedup(m) \/ ResolveIdentity(m)
        \/ AgentCreates(m) \/ AgentCompletes(m) \/ AgentReturns(m)
        \/ FindRow(m) \/ ForceStatus(m) \/ LinkRule(m) \/ StoreFails(m)
    PROVE  /\ InFlight(m)
           /\ job' = job \/ \E pc \in JobPcs \ {"none", "lost", "rule"} : JobTo(m, pc)
<1>1. InFlight(m)
    BY Zenon DEF InFlight, At, ReadRule, Dedup, ResolveIdentity, AgentCreates,
           AgentCompletes, AgentReturns, FindRow, ForceStatus, LinkRule, StoreFails
<1> DEFINE Moved == \E pc \in JobPcs \ {"none", "lost", "rule"} : JobTo(m, pc)
<1>2. ASSUME NEW pc \in {"dedup", "identity", "agent", "finalize", "status", "link", "done"}, JobTo(m, pc)
      PROVE  Moved
    BY Zenon, <1>2 DEF JobPcs
<1> SUFFICES job' = job \/ Moved
    BY Zenon, <1>1
<1> HIDE DEF Moved
<1>3. CASE ReadRule(m)
    BY Zenon, <1>2, <1>3, ReadRuleFields
<1>4. CASE Dedup(m)
    BY Zenon, <1>2, <1>4, DedupFields
<1>5. CASE ResolveIdentity(m)
    BY Zenon, <1>2, <1>5, ResolveFields
<1>6. CASE AgentCreates(m)
    BY Zenon, <1>2, <1>6, CreatesFields
<1>7. CASE AgentReturns(m)
    BY Zenon, <1>2, <1>7, ReturnsFields
<1>8. CASE FindRow(m)
    BY Zenon, <1>2, <1>8, FindFields
<1>9. ASSUME NEW pc \in {"done", "link"}, Go(m, pc) PROVE Moved
    BY Zenon, <1>2, <1>9, GoFields DEF JobPcs
<1>10. CASE ForceStatus(m) \/ LinkRule(m) \/ StoreFails(m)
    BY Zenon, <1>9, <1>10 DEF ForceStatus, LinkRule, StoreFails, Fault
<1>11. CASE AgentCompletes(m)
    BY Zenon, <1>11 DEF AgentCompletes
<1> QED
    BY Zenon, <1>3, <1>4, <1>5, <1>6, <1>7, <1>8, <1>10, <1>11

\* Counters of trouble never go back.
LEMMA FaultsStay == ASSUME StoreTypes, [Next]_vars, faults' = 0 PROVE faults = 0
<1>1. faults' \in {faults, faults + 1}
    BY Zenon DEF Next, Tick, BusStep, Bus, Deliver, XAdd, Subscribe, CreateGroup, ReadGroup, ReadInactive,
           HandlersDone, Settle, Ack, AckFails, Unsubscribe, Emit, Dispatch, Crash,
           JobStep, AskStep, vars, busVars, ReadRule, Dedup, ResolveIdentity,
           AgentCreates, AgentCompletes, AgentReturns, FindRow, ForceStatus, LinkRule, StoreFails,
           Fault, Investigate, InsertRow, LinkAndSpawn, AskedAgent
<1> QED
    BY <1>1 DEF StoreTypes

\* What was settled stays settled as the rows grow.
LEMMA SettledRowsKeep ==
    ASSUME StoreTypes, HasRow, SettledInv, RowsGrow, faults' = 0 => faults = 0
    PROVE  /\ \A m \in Events : job[m].pc = "link" /\ faults' = 0 => rows'[job[m].pick].status \in Terminal
           /\ \A a \in Requests : asked[a].pc = "link" => rows'[asked[a].row].by[1] = "ask"
           /\ \A r \in Rules : link[r] # 0 /\ faults' = 0 =>
                  rows'[link[r]].status \in Terminal \/ rows'[link[r]].by[1] = "ask"
<1>1. ASSUME NEW m \in Events, job[m].pc = "link", faults' = 0 PROVE rows'[job[m].pick].status \in Terminal
  <2>1. job[m].pick \in 1..Len(rows)
    BY <1>1 DEF HasRow, StoreTypes, AnyJob
  <2> QED
    BY Zenon, <1>1, <2>1 DEF SettledInv, RowsGrow
<1>2. ASSUME NEW a \in Requests, asked[a].pc = "link" PROVE rows'[asked[a].row].by[1] = "ask"
  <2>1. asked[a].row \in 1..Len(rows)
    BY <1>2 DEF HasRow, StoreTypes, AnyAsk
  <2> QED
    BY Zenon, <1>2, <2>1 DEF SettledInv, RowsGrow
<1>3. ASSUME NEW r \in Rules, link[r] # 0, faults' = 0
      PROVE  rows'[link[r]].status \in Terminal \/ rows'[link[r]].by[1] = "ask"
  <2>1. link[r] \in 1..Len(rows)
    BY <1>3 DEF StoreTypes
  <2>2. rows[link[r]].status \in Terminal \/ rows[link[r]].by[1] = "ask"
    BY Zenon, <1>3 DEF SettledInv, LinkedIsSettled
  <2> QED
    BY Zenon, <2>1, <2>2 DEF RowsGrow
<1> QED
    BY Zenon, <1>1, <1>2, <1>3

\* A job that comes to its last write has a row that ended, unless a write failed.
LEMMA NewLinkSettled ==
    ASSUME StoreTypes, HasRow, SettledInv, JobStep, faults' = 0, faults = 0,
           NEW n \in Events, job'[n].pc = "link", job[n].pc # "link"
    PROVE  rows'[job'[n].pick].status \in Terminal
<1>1. PICK m \in Events :
        \/ ReadRule(m) \/ Dedup(m) \/ ResolveIdentity(m)
        \/ AgentCreates(m) \/ AgentCompletes(m) \/ AgentReturns(m)
        \/ FindRow(m) \/ ForceStatus(m) \/ LinkRule(m) \/ StoreFails(m)
    BY Zenon DEF JobStep
<1>2. ASSUME NEW pc, JobTo(m, pc) PROVE n = m /\ pc = "link"
    BY Zenon, <1>2 DEF JobTo
<1>3. CASE ReadRule(m) \/ Dedup(m) \/ ResolveIdentity(m) \/ AgentCreates(m) \/ AgentCompletes(m) \/ AgentReturns(m)
  <2>1. CASE ReadRule(m)
    BY <1>2, <2>1, ReadRuleFields
  <2>2. CASE Dedup(m)
    BY <1>2, <2>2, DedupFields
  <2>3. CASE ResolveIdentity(m)
    BY <1>2, <2>3, ResolveFields
  <2>4. CASE AgentCreates(m)
    BY Zenon, <1>2, <2>4, CreatesFields
  <2>5. CASE AgentCompletes(m)
    BY Zenon, <2>5 DEF AgentCompletes
  <2>6. CASE AgentReturns(m)
    BY <1>2, <2>6, ReturnsFields
  <2> QED
    BY Zenon, <1>3, <2>1, <2>2, <2>3, <2>4, <2>5, <2>6
<1>4. CASE FindRow(m)
  <2>1. rows' = rows
    BY Zenon, <1>4 DEF FindRow
  <2>2. ~JobTo(m, "done") /\ ~JobTo(m, "status")
    BY <1>2
  <2> QED
    BY Zenon, <1>2, <1>4, <2>1, <2>2, FindFields
<1>5. CASE ForceStatus(m)
  <2>1. PICK s \in Terminal : SetStatus(job[m].pick, s)
    BY Zenon, <1>5 DEF ForceStatus, Terminal
  <2>2. JobTo(m, "link") /\ job'[m].pick = job[m].pick
    BY Zenon, <1>5, GoFields DEF ForceStatus, JobPcs
  <2>3. job[m].pick \in 1..Len(rows)
    BY SMTT(20), <1>5 DEF ForceStatus, At, HasRow, StoreTypes, AnyJob
  <2>4. rows'[job[m].pick].status = s
    BY Zenon, <2>1, <2>3, RowSettled
  <2> QED
    BY Zenon, <1>2, <2>2, <2>4
<1>6. CASE LinkRule(m)
    BY SMTT(20), <1>2, <1>6, GoFields DEF LinkRule, JobPcs
<1>7. CASE StoreFails(m)
    BY SMTT(20), <1>7 DEF StoreFails, Fault
<1> QED
    BY Zenon, <1>1, <1>3, <1>4, <1>5, <1>6, <1>7

\* The settled investigations stay linked, or are replaced by settled ones.
LEMMA SettledStep ==
    ASSUME BusInv, StoreTypes, HasRow, SettledInv, [Next]_vars
    PROVE  SettledInv'
<1>1. RowsGrow /\ (faults' = 0 => faults = 0) /\ StoreTypes' /\ HasRow'
    BY Zenon, StoreStep, FaultsStay
<1>2. /\ \A m \in Events : job[m].pc = "link" /\ faults' = 0 => rows'[job[m].pick].status \in Terminal
      /\ \A a \in Requests : asked[a].pc = "link" => rows'[asked[a].row].by[1] = "ask"
      /\ \A r \in Rules : link[r] # 0 /\ faults' = 0 =>
             rows'[link[r]].status \in Terminal \/ rows'[link[r]].by[1] = "ask"
    BY Zenon, <1>1, SettledRowsKeep
<1>3. limit' = limit
    BY Zenon DEF Next, Tick, BusStep, Bus, Deliver, XAdd, Subscribe, CreateGroup, ReadGroup, ReadInactive,
           HandlersDone, Settle, Ack, AckFails, Unsubscribe, Emit, Dispatch, Crash,
           JobStep, AskStep, vars, busVars, ReadRule, Dedup, ResolveIdentity,
           AgentCreates, AgentCompletes, AgentReturns, FindRow, ForceStatus, LinkRule, StoreFails,
           Fault, Investigate, InsertRow, LinkAndSpawn, AskedAgent
<1>4. Requests' = Requests
    BY Zenon, <1>3 DEF Requests
<1>5. CASE BusStep
  <2>1. UNCHANGED <<asked, link, rows>>
    BY Zenon, <1>5 DEF BusStep
  <2>2. \A m \in Events : job'[m].pc = "link" => job'[m] = job[m]
    <3>1. CASE UNCHANGED job
        BY Zenon, <3>1
    <3>2. ASSUME NEW p \in Procs, NEW m \in Events, Begin(m, p)
          PROVE  \A n \in Events : job'[n].pc = "link" => job'[n] = job[n]
        BY Zenon, <3>2, BeginFields
    <3>3. ASSUME NEW p \in Procs, job' = Killed(p)
          PROVE  \A n \in Events : job'[n].pc = "link" => job'[n] = job[n]
        BY Zenon, <3>3, KilledFields
    <3>4. \/ UNCHANGED job
          \/ \E p \in Procs, m \in Events : Begin(m, p)
          \/ \E p \in Procs : job' = Killed(p)
        BY Zenon, <1>5, BusStepJobs
    <3> QED
        BY Zenon, <3>1, <3>2, <3>3, <3>4
  <2> QED
    BY Zenon, <1>2, <1>4, <2>1, <2>2 DEF SettledInv, LinkedIsSettled
<1>6. CASE JobStep
  <2>1. asked' = asked
    BY Zenon, <1>6 DEF JobStep, ReadRule, Dedup, ResolveIdentity, AgentCreates, AgentCompletes,
                AgentReturns, FindRow, ForceStatus, LinkRule, StoreFails, Fault
  <2>2. ASSUME NEW n \in Events, job'[n].pc = "link", faults' = 0
        PROVE  rows'[job'[n].pick].status \in Terminal
    <3>1. CASE job[n].pc = "link"
      <4>1. job'[n].pick = job[n].pick
        <5>1. PICK m \in Events :
                \/ ReadRule(m) \/ Dedup(m) \/ ResolveIdentity(m)
                \/ AgentCreates(m) \/ AgentCompletes(m) \/ AgentReturns(m)
                \/ FindRow(m) \/ ForceStatus(m) \/ LinkRule(m) \/ StoreFails(m)
            BY Zenon, <1>6 DEF JobStep
        <5>2. CASE n # m
          <6>1. job' = job \/ \E pc \in JobPcs \ {"none", "lost", "rule"} : JobTo(m, pc)
            BY Zenon, <5>1, JobMoves
          <6> QED
            BY Zenon, <5>2, <6>1 DEF JobTo
        <5>3. CASE n = m
          <6>1. LinkRule(m) \/ StoreFails(m)
            BY Zenon, <3>1, <5>1, <5>3 DEF At, ReadRule, Dedup, ResolveIdentity, AgentCreates,
               AgentCompletes, AgentReturns, FindRow, ForceStatus
          <6>2. Go(m, "done")
            BY Zenon, <3>1, <5>3, <6>1 DEF At, LinkRule, StoreFails, Fault
          <6>3. job'[m].pick = job[m].pick
            BY Zenon, <6>2, GoFields DEF JobPcs
          <6> QED
            BY Zenon, <5>3, <6>3
        <5> QED
            BY Zenon, <5>2, <5>3
      <4> QED
        BY Zenon, <1>2, <2>2, <3>1, <4>1
    <3>2. CASE job[n].pc # "link"
        BY Zenon, <1>1, <1>6, <2>2, <3>2, NewLinkSettled
    <3> QED
        BY Zenon, <3>1, <3>2
  <2>3. ASSUME NEW r \in Rules, link'[r] # 0, faults' = 0
        PROVE  rows'[link'[r]].status \in Terminal \/ rows'[link'[r]].by[1] = "ask"
    <3>1. CASE link' = link
        BY Zenon, <1>2, <2>3, <3>1
    <3>2. CASE \E m \in Events : LinkRule(m)
      <4>1. PICK m \in Events : LinkRule(m)
        BY Zenon, <3>2
      <4>2. link' = [link EXCEPT ![job[m].rule] = job[m].pick] /\ job[m].pc = "link"
        BY Zenon, <4>1 DEF LinkRule, At
      <4>3. rows'[job[m].pick].status \in Terminal
        BY Zenon, <1>2, <2>3, <4>2
      <4>4. link'[r] = link[r] \/ link'[r] = job[m].pick
        BY Zenon, <4>2 DEF StoreTypes
      <4> QED
        BY Zenon, <1>2, <2>3, <4>3, <4>4
    <3>3. link' = link \/ \E m \in Events : LinkRule(m)
        BY Zenon, <1>6 DEF JobStep, ReadRule, Dedup, ResolveIdentity, AgentCreates, AgentCompletes,
                AgentReturns, FindRow, ForceStatus, StoreFails, Fault
    <3> QED
        BY Zenon, <3>1, <3>2, <3>3
  <2> QED
    BY Zenon, <1>2, <1>4, <2>1, <2>2, <2>3 DEF SettledInv, LinkedIsSettled
<1>7. CASE AskStep
  <2>1. PICK a \in Requests : Investigate(a) \/ InsertRow(a) \/ LinkAndSpawn(a) \/ AskedAgent(a)
    BY Zenon, <1>7 DEF AskStep
  <2>2. job' = job
    BY Zenon, <2>1 DEF Investigate, InsertRow, LinkAndSpawn, AskedAgent
  <2>3. \A b \in Requests \ {a} : asked'[b] = asked[b]
    BY Zenon, <2>1 DEF Investigate, InsertRow, LinkAndSpawn, AskedAgent, StoreTypes
  <2>4. asked'[a].pc = "link" => rows'[asked'[a].row].by[1] = "ask"
    <3>1. CASE InsertRow(a)
      <4>1. /\ rows' = Append(rows, NewRow(<<"ask", a>>)) /\ asked'[a].row = Len(rows')
        BY Zenon, <3>1 DEF InsertRow, StoreTypes, AnyAsk
      <4>2. <<"ask", a>> \in {"job", "ask", "askagent"} \X Nat
        BY DEF Requests
      <4>3. rows'[Len(rows')] = NewRow(<<"ask", a>>)
        BY Zenon, <4>1, <4>2, RowAdded
      <4>4. NewRow(<<"ask", a>>).by[1] = "ask"
        BY Zenon DEF NewRow
      <4> QED
        BY Zenon, <4>1, <4>3, <4>4
    <3>2. CASE ~InsertRow(a)
      <4>1. asked[a] \in AnyAsk
        BY Zenon DEF StoreTypes
      <4>2. asked'[a].pc # "link"
        <5>1. CASE Investigate(a)
          <6>1. PICK r \in Rules, pc \in {"done", "insert"} : asked' = [asked EXCEPT ![a].rule = r, ![a].pc = pc]
            BY Zenon, <5>1 DEF Investigate
          <6> QED
            BY Zenon, <4>1, <6>1 DEF StoreTypes, AnyAsk
        <5>2. CASE LinkAndSpawn(a)
            BY Zenon, <4>1, <5>2 DEF LinkAndSpawn, StoreTypes, AnyAsk
        <5>3. CASE AskedAgent(a)
          <6>1. asked[a].pc = "agent"
            BY Zenon, <5>3 DEF AskedAgent
          <6>2. \/ asked' = [asked EXCEPT ![a].own = Len(rows')]
                \/ asked' = asked
                \/ asked' = [asked EXCEPT ![a].pc = "done", ![a].own = 0]
            BY Zenon, <5>3 DEF AskedAgent
          <6> QED
            BY <4>1, <6>1, <6>2 DEF StoreTypes, AnyAsk
        <5> QED
            BY Zenon, <2>1, <3>2, <5>1, <5>2, <5>3
      <4> QED
        BY Zenon, <4>2
    <3> QED
        BY Zenon, <3>1, <3>2
  <2>5. ASSUME NEW r \in Rules, link'[r] # 0, faults' = 0
        PROVE  rows'[link'[r]].status \in Terminal \/ rows'[link'[r]].by[1] = "ask"
    <3>1. CASE LinkAndSpawn(a)
      <4>1. link' = [link EXCEPT ![asked[a].rule] = asked[a].row] /\ asked[a].pc = "link"
        BY Zenon, <3>1 DEF LinkAndSpawn
      <4>2. link'[r] = link[r] \/ link'[r] = asked[a].row
        BY Zenon, <4>1 DEF StoreTypes
      <4> QED
        BY Zenon, <1>2, <2>5, <4>1, <4>2
    <3>2. CASE ~LinkAndSpawn(a)
      <4>1. link' = link
        BY Zenon, <2>1, <3>2 DEF Investigate, InsertRow, AskedAgent
      <4> QED
        BY Zenon, <1>2, <2>5, <4>1
    <3> QED
        BY Zenon, <3>1, <3>2
  <2> QED
    BY Zenon, <1>2, <1>4, <2>2, <2>3, <2>4, <2>5 DEF SettledInv, LinkedIsSettled
<1>8. CASE Tick \/ UNCHANGED vars
  <2>1. UNCHANGED <<job, asked, link, rows>>
    BY Zenon, <1>8 DEF Tick, vars, jobVars
  <2> QED
    BY Zenon, <1>2, <1>4, <2>1 DEF SettledInv, LinkedIsSettled
<1> QED
    BY Zenon, <1>5, <1>6, <1>7, <1>8 DEF Next

\* No rule is linked, and no job or request has begun, at the start.
LEMMA SettledInit == Init => SettledInv
<1> SUFFICES ASSUME Init PROVE SettledInv
    OBVIOUS
<1>1. \A m \in Events : job[m].pc = "none"
    BY Zenon DEF Init
<1>2. (\A a \in Requests : asked[a].pc = "idle") /\ \A r \in Rules : link[r] = 0
    BY Zenon DEF Init
<1> QED
    BY Zenon, <1>1, <1>2 DEF SettledInv, LinkedIsSettled

\* A rule is linked to an investigation that has ended, or to the one a user
\* asked for, as long as no store call failed.
THEOREM LinksAreSettled == Spec => []LinkedIsSettled
<1>1. Init => BusInv /\ StoreTypes /\ HasRow /\ SettledInv
    BY Zenon, BusInvInit, StoreInit, SettledInit DEF Init
<1>2. BusInv /\ StoreTypes /\ HasRow /\ SettledInv /\ [Next]_vars
        => BusInv' /\ StoreTypes' /\ HasRow' /\ SettledInv'
    BY Zenon, BusSimulation, StoreStep, SettledStep
<1>3. SettledInv => LinkedIsSettled
    BY Zenon DEF SettledInv
<1> QED
    BY <1>1, <1>2, <1>3, PTL DEF Spec

=============================================================================
