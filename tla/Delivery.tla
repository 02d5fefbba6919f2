------------------------------- MODULE Delivery -------------------------------
(***************************************************************************)
(* What the event bus promises its subscribers: an event that was          *)
(* published reaches a handler at most once, and an event that was lost    *)
(* never reaches one later.  Nothing is promised about the order in which  *)
(* several processes handle events.                                        *)
(***************************************************************************)
EXTENDS Naturals, Sequences

VARIABLES
    sent,      \* how many events were published; they are numbered from 1
    seen,      \* the events handed to a handler, in that order
    gone       \* the events no handler will ever get

Seen == {seen[i] : i \in DOMAIN seen}

Open == (1..sent) \ (Seen \cup gone)

Init == sent = 0 /\ seen = <<>> /\ gone = {}

Send == sent' = sent + 1 /\ UNCHANGED <<seen, gone>>

\* A send that reaches its handler, or nobody, at once: the in-memory bus.
SendThrough ==
    /\ sent' = sent + 1
    /\ \/ seen' = Append(seen, sent') /\ UNCHANGED gone
       \/ \E lost \in SUBSET (Open \cup {sent'}) :
             gone' = gone \cup lost /\ UNCHANGED seen

Hand == \E m \in Open : seen' = Append(seen, m) /\ UNCHANGED <<sent, gone>>

Lose == \E lost \in SUBSET Open : gone' = gone \cup lost /\ UNCHANGED <<sent, seen>>

Next == Send \/ SendThrough \/ Hand \/ Lose

Spec == Init /\ [][Next]_<<sent, seen, gone>>
=============================================================================
