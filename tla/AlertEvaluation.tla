-------------------------- MODULE AlertEvaluation --------------------------
(***************************************************************************)
(* One alert rule: the row, its history, the evaluations that move it      *)
(* (AlertEvaluatorService.tickRule, decideTransition, the repositories'    *)
(* transition and update) and the operators who edit it (routes/           *)
(* alert-rules.ts).                                                        *)
(*                                                                         *)
(* tickRule reads the rule, awaits the metric query, decides on the copy   *)
(* it read, awaits the transition and awaits the publish; anything else    *)
(* may run at each await.  Several evaluators stand for the replicas whose *)
(* timers are alive (EvaluatorLeadership says when that is one).           *)
(*                                                                         *)
(* With SyncStore a repository call is one step (SQLite).  Without it      *)
(* (Postgres) transition and update wait between SELECT and UPDATE, and    *)
(* update writes every column back from what it read.                      *)
(***************************************************************************)
EXTENDS Integers, FiniteSets

CONSTANTS
    Evaluators,  \* replicas that have a timer for the rule
    For,         \* condition.forDurationSec, in units of the model's clock
    SyncStore,   \* TRUE: SQLite, FALSE: Postgres
    Edits,       \* what operators do: a subset of EditKinds
    MaxEdits,    \* bound: operator requests
    MaxFirings,  \* bound: history rows that record a firing
    MaxFaults    \* bound: crashes, failed calls and missing samples

EditKinds == {"disable", "enable", "edit", "delete"}

ASSUME EvaluationAssumption ==
    /\ For \in Nat
    /\ SyncStore \in BOOLEAN
    /\ Edits \subseteq EditKinds
    /\ MaxEdits \in Nat
    /\ MaxFirings \in Nat
    /\ MaxFaults \in Nat

VARIABLES
    rule,      \* the alert_rules row
    history,   \* the alert_history rows: the newest to_state, the firings
    signal,    \* the condition holds of the metric
    tick,      \* tick[e]: the evaluation e has in flight
    edit,      \* the operator request in flight
    sent,      \* alert.fired events published
    edits, faults

vars == <<rule, history, signal, tick, edit, sent, edits, faults>>

RuleState == {"normal", "pending", "firing", "resolved", "disabled"}

\* pendingSince as the time gone by since then; what matters is whether For
\* is over, so it stops there.  NotPending is an empty column.
NotPending == -1

Since == NotPending .. For

Rule == [exists : BOOLEAN, state : RuleState, since : Since, fires : Nat]

Phase == {"idle", "query", "transition", "insert", "update", "write", "publish"}

\* fresh is tickRule's copy, next its decision, old what transition read and
\* seen what update read.
Tick == [at : Phase, fresh : Rule, next : RuleState, old : Rule, seen : Rule]

Edit == [kind : EditKinds \cup {"none"}, seen : Rule]

NewRule == [exists |-> TRUE, state |-> "normal", since |-> NotPending, fires |-> 0]

Idle == [at |-> "idle", fresh |-> NewRule, next |-> "normal",
         old |-> NewRule, seen |-> NewRule]

NoEdit == [kind |-> "none", seen |-> NewRule]

Init ==
    /\ rule = NewRule
    /\ history = [last |-> "normal", firings |-> 0]
    /\ signal = FALSE
    /\ tick = [e \in Evaluators |-> Idle]
    /\ edit = NoEdit
    /\ sent = 0
    /\ edits = 0
    /\ faults = 0

-----------------------------------------------------------------------------
(* The repository.                                                         *)

\* update: the patched columns over what was read a moment before.  An UPDATE
\* of a deleted row changes nothing.
Written(r) == IF rule.exists THEN r ELSE rule

\* Faulty form: fireCount is not incremented.
PatchWithoutCount(r, old, next) ==
    [exists |-> r.exists,
     state |-> next,
     since |-> IF next = "pending" THEN 0 ELSE NotPending,
     fires |-> r.fires]

\* The patch transition builds from `old', applied to what update read.
Patch(r, old, next) ==
    [exists |-> r.exists,
     state |-> next,
     since |-> IF next = "pending" THEN 0 ELSE NotPending,
     fires |-> IF next = "firing" THEN old.fires + 1 ELSE r.fires]

\* Faulty form: only firings leave a row in alert_history.
RecordFirings(next) ==
    [last |-> IF next = "firing" THEN next ELSE history.last,
     firings |-> IF next = "firing" THEN history.firings + 1 ELSE history.firings]

Recorded(next) ==
    [last |-> next,
     firings |-> IF next = "firing" THEN history.firings + 1 ELSE history.firings]

-----------------------------------------------------------------------------
(* tickRule.                                                               *)

Set(e, t) == tick' = [tick EXCEPT ![e] = t]

Goto(e, at) == Set(e, [tick[e] EXCEPT !.at = at])

Finish(e) == Set(e, Idle)

\* The timer fires and no evaluation of the rule is in flight here.
Fetch(e) ==
    /\ tick[e].at = "idle"
    /\ history.firings < MaxFirings
    /\ rule.exists /\ rule.state # "disabled"
    /\ Set(e, [Idle EXCEPT !.at = "query", !.fresh = rule])
    /\ UNCHANGED <<rule, history, signal, edit, sent, edits, faults>>

Waited(r) == r.since # NotPending /\ r.since >= For

\* Faulty form: the for-duration is not waited for.
DecideAtOnce(r, holds) ==
    CASE holds /\ r.state \in {"pending", "normal", "resolved"} -> "firing"
      [] ~holds /\ r.state = "firing" -> "resolved"
      [] ~holds /\ r.state = "pending" -> "normal"
      [] OTHER -> r.state

\* Faulty form: a pending rule whose for-duration is over stays pending.
DecideSticky(r, holds) ==
    CASE holds /\ r.state = "pending" /\ Waited(r) -> "pending"
      [] holds /\ r.state \in {"normal", "resolved"} -> "pending"
      [] ~holds /\ r.state = "firing" -> "resolved"
      [] ~holds /\ r.state = "pending" -> "normal"
      [] OTHER -> r.state

\* decideTransition; the state itself stands for null.
DecideTransition(r, holds) ==
    CASE holds /\ r.state = "pending" /\ Waited(r) -> "firing"
      [] holds /\ r.state \in {"normal", "resolved"} -> IF For = 0 THEN "firing" ELSE "pending"
      [] ~holds /\ r.state = "firing" -> "resolved"
      [] ~holds /\ r.state = "pending" -> "normal"
      [] OTHER -> r.state

\* Faulty form: `null' is not told from a new state.
QueryUnguarded(e) ==
    /\ tick[e].at = "query"
    /\ Set(e, [tick[e] EXCEPT !.at = "transition",
                              !.next = DecideTransition(tick[e].fresh, signal)])
    /\ UNCHANGED <<rule, history, signal, edit, sent, edits, faults>>

\* The sample arrives and the decision is taken on the copy.
Query(e) ==
    /\ tick[e].at = "query"
    /\ LET next == DecideTransition(tick[e].fresh, signal)
       IN  IF next = tick[e].fresh.state THEN Finish(e)
           ELSE Set(e, [tick[e] EXCEPT !.at = "transition", !.next = next])
    /\ UNCHANGED <<rule, history, signal, edit, sent, edits, faults>>

\* What tickRule does once transition returned a rule.
Returned(e) == IF tick[e].next = "firing" THEN Goto(e, "publish") ELSE Finish(e)

\* transition: nothing for a deleted rule; the rule as it is when it is in the
\* new state already.
TransitionMissing(e) ==
    /\ tick[e].at = "transition"
    /\ ~rule.exists
    /\ Finish(e)
    /\ UNCHANGED <<rule, history, signal, edit, sent, edits, faults>>

TransitionNoop(e) ==
    /\ tick[e].at = "transition"
    /\ rule.exists /\ rule.state = tick[e].next
    /\ Returned(e)
    /\ UNCHANGED <<rule, history, signal, edit, sent, edits, faults>>

TransitionSync(e) ==
    /\ SyncStore
    /\ tick[e].at = "transition"
    /\ rule.exists /\ rule.state # tick[e].next
    /\ history' = Recorded(tick[e].next)
    /\ rule' = Patch(rule, rule, tick[e].next)
    /\ Returned(e)
    /\ UNCHANGED <<signal, edit, sent, edits, faults>>

\* The same on Postgres: SELECT, INSERT, SELECT, UPDATE.
TransitionRead(e) ==
    /\ ~SyncStore
    /\ tick[e].at = "transition"
    /\ rule.exists /\ rule.state # tick[e].next
    /\ Set(e, [tick[e] EXCEPT !.at = "insert", !.old = rule])
    /\ UNCHANGED <<rule, history, signal, edit, sent, edits, faults>>

InsertHistory(e) ==
    /\ tick[e].at = "insert"
    /\ history' = Recorded(tick[e].next)
    /\ Goto(e, "update")
    /\ UNCHANGED <<rule, signal, edit, sent, edits, faults>>

\* update returns undefined for a rule deleted meanwhile, and so does
\* transition.
UpdateRead(e) ==
    /\ tick[e].at = "update"
    /\ IF rule.exists THEN Set(e, [tick[e] EXCEPT !.at = "write", !.seen = rule])
       ELSE Finish(e)
    /\ UNCHANGED <<rule, history, signal, edit, sent, edits, faults>>

UpdateWrite(e) ==
    /\ tick[e].at = "write"
    /\ rule' = Written(Patch(tick[e].seen, tick[e].old, tick[e].next))
    /\ IF rule.exists THEN Returned(e) ELSE Finish(e)
    /\ UNCHANGED <<history, signal, edit, sent, edits, faults>>

\* Faulty form: the event is dropped.
PublishNothing(e) ==
    /\ tick[e].at = "publish"
    /\ Finish(e)
    /\ UNCHANGED <<rule, history, signal, edit, sent, edits, faults>>

Publish(e) ==
    /\ tick[e].at = "publish"
    /\ sent' = sent + 1
    /\ Finish(e)
    /\ UNCHANGED <<rule, history, signal, edit, edits, faults>>

\* The query yields no sample, a store call or the publish is rejected, or
\* the process dies: the evaluation ends where it was; inFlightRules is
\* cleared by finally or by the restart.
Abort(e) ==
    /\ tick[e].at # "idle"
    /\ faults < MaxFaults
    /\ faults' = faults + 1
    /\ Finish(e)
    /\ UNCHANGED <<rule, history, signal, edit, sent, edits>>

-----------------------------------------------------------------------------
(* Operators.                                                              *)

\* disable and enable patch the state alone; an edit patches columns that are
\* not modelled.
Edited(r, kind) ==
    CASE kind = "disable" -> [r EXCEPT !.state = "disabled"]
      [] kind = "enable" -> [r EXCEPT !.state = "normal"]
      [] kind = "delete" -> [r EXCEPT !.exists = FALSE]
      [] OTHER -> r

Ask(kind) ==
    /\ edits < MaxEdits
    /\ edit.kind = "none"
    /\ rule.exists
    /\ edits' = edits + 1

RequestSync(kind) ==
    /\ SyncStore
    /\ Ask(kind)
    /\ rule' = Edited(rule, kind)
    /\ UNCHANGED <<history, signal, tick, edit, sent, faults>>

\* On Postgres the SELECT of update or delete comes first.
RequestRead(kind) ==
    /\ ~SyncStore
    /\ Ask(kind)
    /\ edit' = [kind |-> kind, seen |-> rule]
    /\ UNCHANGED <<rule, history, signal, tick, sent, faults>>

RequestWrite ==
    /\ edit.kind # "none"
    /\ rule' = Written(Edited(edit.seen, edit.kind))
    /\ edit' = NoEdit
    /\ UNCHANGED <<history, signal, tick, sent, edits, faults>>

-----------------------------------------------------------------------------
(* The environment.                                                        *)

SignalChanges ==
    /\ signal' = ~signal
    /\ UNCHANGED <<rule, history, tick, edit, sent, edits, faults>>

Older(r) == [r EXCEPT !.since = IF @ = NotPending \/ @ >= For THEN @ ELSE @ + 1]

\* Time passes: for the row and for every copy of it.
Pass ==
    /\ rule' = Older(rule)
    /\ tick' = [e \in Evaluators |->
                  [tick[e] EXCEPT !.fresh = Older(@), !.old = Older(@), !.seen = Older(@)]]
    /\ edit' = [edit EXCEPT !.seen = Older(@)]
    /\ UNCHANGED <<history, signal, sent, edits, faults>>

Evaluate(e) ==
    \/ Fetch(e) \/ Query(e)
    \/ TransitionMissing(e) \/ TransitionNoop(e) \/ TransitionSync(e)
    \/ TransitionRead(e) \/ InsertHistory(e) \/ UpdateRead(e) \/ UpdateWrite(e)
    \/ Publish(e)

Next ==
    \/ \E e \in Evaluators : Evaluate(e) \/ Abort(e)
    \/ \E kind \in Edits : RequestSync(kind) \/ RequestRead(kind)
    \/ RequestWrite
    \/ SignalChanges
    \/ Pass

Spec == Init /\ [][Next]_vars

\* Timers tick, queries and store calls return, time passes.
FairSpec ==
    /\ Spec
    /\ WF_vars(Pass)
    /\ \A e \in Evaluators : WF_vars(Evaluate(e))

-----------------------------------------------------------------------------
(* Properties.                                                             *)

TypeOK ==
    /\ rule \in Rule
    /\ history \in [last : RuleState, firings : Nat]
    /\ signal \in BOOLEAN
    /\ tick \in [Evaluators -> Tick]
    /\ edit \in Edit
    /\ sent \in Nat
    /\ edits \in 0 .. MaxEdits
    /\ faults \in 0 .. MaxFaults

\* transition counts a firing in fireCount and records it in alert_history:
\* the two agree whatever operators do meanwhile (one-step repository).
FireCountExact == rule.exists => rule.fires = history.firings

\* alert_history explains the state: the newest row's to_state is the state of
\* the rule, unless an operator disabled or enabled the rule, which transition
\* has no part in (one-step repository).
HistoryExplainsState ==
    rule.exists => \/ rule.state = history.last
                   \/ edits > 0 /\ rule.state \in {"disabled", "normal"}

\* The evaluations that recorded a firing and have not published it.
Publishing == {e \in Evaluators : /\ tick[e].at \in {"update", "write", "publish"}
                                  /\ tick[e].next = "firing"}

\* No firing gets lost: as long as nothing fails and the rule is not deleted,
\* every firing that any replica recorded has been published by tickRule or is
\* about to be, also when operators or other replicas changed the row since.
EveryFiringAnnounced ==
    faults = 0 /\ rule.exists => sent + Cardinality(Publishing) >= history.firings

\* No firing is announced twice by the one replica that evaluates: a rule
\* cannot re-fire without a new row in alert_history.
AnnouncedOnce == sent + Cardinality(Publishing) <= history.firings

\* A rule fires only if it has been pending for the whole for-duration, and
\* the pending period is the current one (pendingSince of the row, not of the
\* evaluation's copy).
ForRespected == [][rule'.fires > rule.fires => For = 0 \/ Waited(rule)]_vars

Settled(states) == history.firings >= MaxFirings \/ rule.state \in states

\* The state follows the metric: a condition that stays true ends in firing
\* and one that stays false ends out of it, whatever evaluations were in
\* flight with an older copy, unless the rule is deleted or disabled.
StateFollowsSignal ==
    LET Active == rule.exists /\ rule.state # "disabled"
    IN  /\ <>[](signal /\ Active) => <>[]Settled({"firing"})
        /\ <>[](~signal /\ Active) => <>[]Settled({"normal", "resolved"})

\* tickRule: the rule is fetched again so that concurrent updates (a user
\* disables it) are not stomped.  Only an operator enables a disabled rule.
DisabledStays ==
    [][rule.state = "disabled" /\ rule'.state # "disabled" => edits' > edits \/ edit # edit']_vars
=============================================================================
