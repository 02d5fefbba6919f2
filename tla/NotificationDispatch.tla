------------------------- MODULE NotificationDispatch -------------------------
(***************************************************************************)
(* NotificationConsumer: `alert.fired` and `approval.created` become       *)
(* deliveries to contact points.  The bus callback discards the handler's  *)
(* promise, so handlers of several events, and of several processes, run   *)
(* side by side; one step is what happens between two awaits.  A contact   *)
(* point that was sent the same fingerprint less than the group interval   *)
(* ago is skipped, by the notification_dispatch row that upsertSent writes *)
(* after the deliveries.                                                   *)
(***************************************************************************)
EXTENDS NotificationRouting

CONSTANTS
    Tree, Root,       \* the notification policy tree
    Inboxes,          \* bound: the events of a behaviour, sequences of
                      \* [kind, fp, audience]
    Integrations,     \* integrations of a contact point (1..Integrations)
    GroupInterval,    \* groupIntervalSec
    RepeatInterval,   \* repeatIntervalSec
    MaxTime,          \* bound: clock ticks
    MaxStoreFaults    \* bound: failing store calls

LabelSets ==
    UNION {UNION {Range(teams) : teams \in Range(msg.audience)} :
             msg \in UNION {Range(box) : box \in Inboxes}}

\* collectMatchingRoutes, for each set of labels.
RoutesFor == [labels \in LabelSets |-> CollectMatchingRoutes(Tree, Root, labels)]

\* An alert has one set of labels; an approval one list of team labels per user
\* who may approve it.
ASSUME DispatchAssumption ==
    /\ \A box \in Inboxes : \A m \in DOMAIN box :
          /\ box[m].kind \in {"alert", "approval"}
          /\ box[m].audience \in Seq(Seq(LabelSets))
          /\ box[m].kind = "alert" => Len(box[m].audience) = 1 /\ Len(box[m].audience[1]) = 1
    /\ PolicyTree(Tree) /\ Root \in DOMAIN Tree
    /\ Integrations \in Nat \ {0}
    /\ {GroupInterval, RepeatInterval, MaxTime, MaxStoreFaults} \subseteq Nat

VARIABLES
    inbox,        \* the events published in this behaviour
    now,
    sent,         \* the notification_dispatch rows, by fingerprint and contact point
    work,         \* per event: its handler
    outcome,      \* per event and contact point: what came of it
    rounds,       \* the deliveries at least one integration accepted
    storeFaults

dispatchVars == <<inbox, now, sent, work, outcome, rounds, storeFaults>>

Msgs == DOMAIN inbox
ContactPoints == {Tree[n].cp : n \in DOMAIN Tree} \ {NoContactPoint}
Keys == {inbox[m].fp : m \in Msgs} \X ContactPoints
NoRow == [last |-> 0, count |-> 0]

Work == [pc : {"none", "approvers", "tree", "teams", "lookup", "contact", "send", "find",
               "write", "done"},
         user : Nat, routes : Seq(ContactPoints), at : 0..MaxTime, next : 1..Integrations + 1,
         any : BOOLEAN, found : [last : 0..MaxTime, count : Nat]]

\* Every variable has its type.
DispatchTypeOK ==
    /\ inbox \in Inboxes
    /\ now \in 0..MaxTime
    /\ sent \in [Keys -> [last : 0..MaxTime, count : Nat]]
    /\ work \in [Msgs -> Work]
    /\ outcome \in [Msgs -> [ContactPoints ->
                     {"none", "routed", "skipped", "missing", "refused", "delivered"}]]
    /\ rounds \subseteq [key : Keys, msg : Msgs, end : 0..MaxTime]
    /\ storeFaults \in 0..MaxStoreFaults

NoWork == [pc |-> "none", user |-> 1, routes |-> <<>>, at |-> 0, next |-> 1, any |-> FALSE,
         found |-> NoRow]

DispatchInit ==
    /\ inbox \in Inboxes
    /\ now = 0
    /\ sent = [k \in Keys |-> NoRow]
    /\ work = [m \in Msgs |-> NoWork]
    /\ outcome = [m \in Msgs |-> [c \in ContactPoints |-> "none"]]
    /\ rounds = {}
    /\ storeFaults = 0

-----------------------------------------------------------------------------
\* A node's contact point joins the list unless it is there (seen) or there is
\* none.
Join(cps, n) ==
    IF Tree[n].cp \in Range(cps) \cup {NoContactPoint} THEN cps ELSE Append(cps, Tree[n].cp)

\* The contact points of one more set of labels join the list, in route order.
Reach(cps, labels) ==
    LET nodes == RoutesFor[labels]
        upTo[i \in 0..Len(nodes)] == IF i = 0 THEN cps ELSE Join(upTo[i - 1], nodes[i])
    IN  upTo[Len(nodes)]

\* The same for one set of labels after the other.
ReachAll(cps, teams) ==
    LET upTo[i \in 0..Len(teams)] == IF i = 0 THEN cps ELSE Reach(upTo[i - 1], teams[i])
    IN  upTo[Len(teams)]

\* decideDispatch.
SendNow(row, t) ==
    \/ row.count = 0
    \/ t - row.last >= RepeatInterval
    \/ t - row.last >= GroupInterval

\* The handler goes on with these contact points: it looks the first one up,
\* having read the clock, or it returns.
WorkOn(w, cps) ==
    IF cps = <<>> THEN [NoWork EXCEPT !.pc = "done"]
    ELSE [NoWork EXCEPT !.pc = "lookup", !.routes = cps, !.at = now]

Proceed(w) == WorkOn(w, Tail(w.routes))

Key(m) == <<inbox[m].fp, Head(work[m].routes)>>

Set(m, w) == work' = [work EXCEPT ![m] = w]

Became(m, what) == outcome' = [outcome EXCEPT ![m][Head(work[m].routes)] = what]

Route(m, cps) ==
    outcome' = [outcome EXCEPT ![m] = [c \in ContactPoints |->
                  IF c \in Range(cps) THEN "routed" ELSE "none"]]

Keep == UNCHANGED <<inbox, now, sent, rounds, storeFaults>>

Clock ==
    /\ now < MaxTime
    /\ now' = now + 1
    /\ UNCHANGED <<inbox, sent, work, outcome, rounds, storeFaults>>

\* The bus calls the handler.
Receive(m) ==
    /\ work[m].pc = "none"
    /\ Set(m, [NoWork EXCEPT !.pc = IF inbox[m].kind = "alert" THEN "tree" ELSE "approvers"])
    /\ Keep /\ UNCHANGED outcome

\* handleApprovalCreated: the users whose grant covers the approval.
FindApprovers(m) ==
    /\ work[m].pc = "approvers"
    /\ Set(m, [NoWork EXCEPT !.pc = IF inbox[m].audience = <<>> THEN "done" ELSE "tree"])
    /\ Keep /\ UNCHANGED outcome

\* getPolicyTree; an alert's routes follow from its labels at once.
LoadTree(m) ==
    /\ work[m].pc = "tree"
    /\ IF inbox[m].kind = "alert"
       THEN LET cps == Reach(<<>>, inbox[m].audience[1][1])
            IN  Set(m, WorkOn(work[m], cps)) /\ Route(m, cps)
       ELSE Set(m, [NoWork EXCEPT !.pc = "teams"]) /\ UNCHANGED outcome
    /\ Keep

\* The routes of the user's teams join the list; after the last user the
\* deliveries start.
NextUser(m, teams) ==
    LET cps == ReachAll(work[m].routes, teams)
    IN  IF work[m].user < Len(inbox[m].audience)
        THEN Set(m, [work[m] EXCEPT !.user = @ + 1, !.routes = cps]) /\ UNCHANGED outcome
        ELSE Set(m, WorkOn(work[m], cps)) /\ Route(m, cps)

\* listTeamsForUser for the next approver.
ListTeams(m) ==
    /\ work[m].pc = "teams"
    /\ NextUser(m, inbox[m].audience[work[m].user])
    /\ Keep

\* findByKey and decideDispatch; the clock was read before the await.
LookUp(m) ==
    /\ work[m].pc = "lookup"
    /\ IF SendNow(sent[Key(m)], work[m].at)
       THEN Set(m, [work[m] EXCEPT !.pc = "contact"]) /\ UNCHANGED outcome
       ELSE Set(m, Proceed(work[m])) /\ Became(m, "skipped")
    /\ Keep

\* findContactPointById: a contact point may have been deleted.
LoadContactPoint(m) ==
    /\ work[m].pc = "contact"
    /\ \/ Set(m, [work[m] EXCEPT !.pc = "send"]) /\ UNCHANGED outcome
       \/ Set(m, Proceed(work[m])) /\ Became(m, "missing")
    /\ Keep

\* A send that records a round nobody accepted.
SendRecordsRefusal(m) ==
    /\ work[m].pc = "send"
    /\ \E ok \in BOOLEAN :
          LET any == work[m].any \/ ok
          IN  IF work[m].next < Integrations
              THEN /\ Set(m, [work[m] EXCEPT !.next = @ + 1, !.any = any])
                   /\ UNCHANGED <<outcome, rounds>>
              ELSE /\ Set(m, [work[m] EXCEPT !.pc = "find", !.any = any, !.at = now])
                   /\ Became(m, IF any THEN "delivered" ELSE "refused")
                   /\ rounds' = rounds \cup (IF any THEN {[key |-> Key(m), msg |-> m, end |-> now]}
                                             ELSE {})
    /\ UNCHANGED <<inbox, now, sent, storeFaults>>

\* One integration: it accepts, it refuses (or its sender throws, or there is
\* no sender for its type).  After the last one upsertSent runs if any accepted.
Send(m) ==
    /\ work[m].pc = "send"
    /\ \E ok \in BOOLEAN :
          LET any == work[m].any \/ ok
          IN  IF work[m].next < Integrations
              THEN /\ Set(m, [work[m] EXCEPT !.next = @ + 1, !.any = any])
                   /\ UNCHANGED <<outcome, rounds>>
              ELSE IF any
              THEN /\ Set(m, [work[m] EXCEPT !.pc = "find", !.any = any, !.at = now])
                   /\ Became(m, "delivered")
                   /\ rounds' = rounds \cup {[key |-> Key(m), msg |-> m, end |-> now]}
              ELSE /\ Set(m, Proceed(work[m]))
                   /\ Became(m, "refused")
                   /\ UNCHANGED rounds
    /\ UNCHANGED <<inbox, now, sent, storeFaults>>

\* upsertSent, the SELECT.
UpsertFind(m) ==
    /\ work[m].pc = "find"
    /\ Set(m, [work[m] EXCEPT !.pc = "write", !.found = sent[Key(m)]])
    /\ Keep /\ UNCHANGED outcome

\* upsertSent without the INSERT of a missing row.
UpsertUpdatesOnly(m) ==
    /\ work[m].pc = "write"
    /\ sent' = IF work[m].found = NoRow THEN sent
               ELSE [sent EXCEPT ![Key(m)] =
                       [last |-> work[m].at, count |-> work[m].found.count + 1]]
    /\ Set(m, Proceed(work[m]))
    /\ UNCHANGED <<inbox, now, outcome, rounds, storeFaults>>

\* upsertSent, the UPDATE or the INSERT; the unique index turns down the insert
\* of a row that has appeared meanwhile, and the handler logs that and goes on.
UpsertWrite(m) ==
    /\ work[m].pc = "write"
    /\ sent' = IF work[m].found = NoRow /\ sent[Key(m)] # NoRow THEN sent
               ELSE [sent EXCEPT ![Key(m)] =
                       [last |-> work[m].at, count |-> work[m].found.count + 1]]
    /\ Set(m, Proceed(work[m]))
    /\ UNCHANGED <<inbox, now, outcome, rounds, storeFaults>>

\* A store call throws.  Only findContactPointById is not caught: the handler
\* rejects and the contact points after it are not tried.
StoreThrows(m) ==
    /\ storeFaults < MaxStoreFaults
    /\ storeFaults' = storeFaults + 1
    /\ \/ /\ work[m].pc \in {"approvers", "tree", "contact"}
          /\ Set(m, [NoWork EXCEPT !.pc = "done"])
          /\ UNCHANGED outcome
       \/ work[m].pc = "teams" /\ NextUser(m, <<>>)
       \/ /\ work[m].pc \in {"lookup", "find", "write"}
          /\ Set(m, Proceed(work[m]))
          /\ UNCHANGED outcome
    /\ UNCHANGED <<inbox, now, sent, rounds>>

Handler(m) ==
    \/ FindApprovers(m) \/ LoadTree(m) \/ ListTeams(m) \/ LookUp(m)
    \/ LoadContactPoint(m) \/ Send(m) \/ UpsertFind(m) \/ UpsertWrite(m)

DispatchNext == Clock \/ \E m \in Msgs : Receive(m) \/ Handler(m) \/ StoreThrows(m)

DispatchSpec == DispatchInit /\ [][DispatchNext]_dispatchVars

-----------------------------------------------------------------------------
\* Silence is always earned: the row that makes LookUp skip a contact point
\* carries the end of a round in which an integration really accepted a
\* notification of that fingerprint, and counts no more rounds than there were.
SilenceIsEarned ==
    \A k \in Keys :
        sent[k] # NoRow =>
            /\ \E r \in rounds : r.key = k /\ r.end = sent[k].last
            /\ sent[k].count <= Cardinality({r \in rounds : r.key = k})

\* A delivery leaves its mark: once no handler is about to write the row of a
\* contact point it was delivered to, the row is there, whichever of two
\* concurrent inserts lost, unless a store call failed.
DeliveryIsRecorded ==
    \A k \in Keys :
        \/ storeFaults > 0
        \/ sent[k] # NoRow
        \/ \A r \in rounds :
              r.key = k => work[r.msg].pc \in {"find", "write"} /\ Key(r.msg) = k

\* One contact point's refusal, absence or silence never costs another one its
\* notification: a handler that ends without a store failure has dealt with
\* every contact point it was routed to (sendAndRecord goes on after errors).
NobodyForgotten ==
    \A m \in Msgs :
        work[m].pc = "done" /\ storeFaults = 0 =>
            \A c \in ContactPoints : outcome[m][c] # "routed"

\* "a duplicate publish (e.g. retry) does not re-notify"
\* (notification-consumer.ts): two events for one approval deliver at most once
\* to a contact point.
ApprovalNotifiedOnce ==
    \A r, s \in rounds :
        r.key = s.key /\ inbox[r.msg].kind = "approval" => r.msg = s.msg
=============================================================================
