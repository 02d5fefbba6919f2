--------------------------- MODULE EvaluatorProofs ---------------------------
(***************************************************************************)
(* Proofs about the alert evaluator.  AlertEvaluation: any number of       *)
(* evaluators, any for-duration and any bounds.  EvaluatorLeadership: any  *)
(* set of replicas, any lease and any number of overlapping calls.         *)
(***************************************************************************)
EXTENDS AlertEvaluation, EvaluatorLeadership, FiniteSetTheorems, TLAPS

-----------------------------------------------------------------------------
(* AlertEvaluation: type correctness.                                      *)

\* NotPending and every age up to For are values of the pendingSince column.
LEMMA SinceFacts ==
    /\ NotPending \in Since
    /\ 0 \in Since
    /\ \A s \in Since : s \in Int /\ (s # NotPending /\ ~(s >= For) => s + 1 \in Since)
BY EvaluationAssumption DEF Since, NotPending

\* What the repository and the clock make of a rule is a rule.
LEMMA RuleType ==
    /\ NewRule \in Rule
    /\ \A r \in Rule : Older(r) \in Rule
    /\ \A r, old \in Rule, next \in RuleState : Patch(r, old, next) \in Rule
    /\ \A r \in Rule, kind \in EditKinds : Edited(r, kind) \in Rule
<1>1. NewRule \in Rule
    BY SinceFacts DEF NewRule, Rule, RuleState
<1>2. ASSUME NEW r \in Rule PROVE Older(r) \in Rule
    BY SinceFacts DEF Older, Rule
<1>3. ASSUME NEW r \in Rule, NEW old \in Rule, NEW next \in RuleState
      PROVE Patch(r, old, next) \in Rule
    BY SinceFacts DEF Patch, Rule
<1>4. ASSUME NEW r \in Rule, NEW kind \in EditKinds PROVE Edited(r, kind) \in Rule
    BY Zenon DEF Edited, Rule, RuleState, EditKinds
<1> QED
    BY <1>1, <1>2, <1>3, <1>4

\* decideTransition answers with a state.
LEMMA DecideType ==
    ASSUME NEW r \in Rule, NEW holds \in BOOLEAN
    PROVE  DecideTransition(r, holds) \in RuleState
BY DEF DecideTransition, Rule, RuleState

\* An evaluation that starts, decides, reads or moves on is an evaluation.
LEMMA TickType ==
    /\ Idle \in Tick
    /\ \A t \in Tick, at \in Phase : [t EXCEPT !.at = at] \in Tick
    /\ \A r \in Rule : [Idle EXCEPT !.at = "query", !.fresh = r] \in Tick
    /\ \A t \in Tick, n \in RuleState : [t EXCEPT !.at = "transition", !.next = n] \in Tick
    /\ \A t \in Tick, r \in Rule : [t EXCEPT !.at = "insert", !.old = r] \in Tick
    /\ \A t \in Tick, r \in Rule : [t EXCEPT !.at = "write", !.seen = r] \in Tick
    /\ \A t \in Tick : t.fresh \in Rule /\ t.old \in Rule /\ t.seen \in Rule /\ t.next \in RuleState
<1> USE RuleType
<1> HIDE DEF Rule
<1>1. Idle \in Tick
    BY DEF Idle, Tick, Phase, RuleState
<1> QED
    BY Zenon, <1>1 DEF Tick, Phase

\* A rule that ages in every copy keeps an evaluation an evaluation.
LEMMA AgedTick ==
    ASSUME NEW t \in Tick
    PROVE  [t EXCEPT !.fresh = Older(@), !.old = Older(@), !.seen = Older(@)] \in Tick
BY Zenon, RuleType DEF Tick

\* Every step of an evaluation, an operator or the environment keeps the types.
LEMMA TypeStep == TypeOK /\ [Next]_vars => TypeOK'
<1> SUFFICES ASSUME TypeOK, [Next]_vars PROVE TypeOK'
    OBVIOUS
<1>0. /\ rule \in Rule /\ edit \in Edit /\ tick \in [Evaluators -> Tick]
      /\ \A e \in Evaluators : tick[e] \in Tick
    BY DEF TypeOK
<1>a. \A next \in RuleState : Recorded(next) \in [last : RuleState, firings : Nat]
    BY DEF TypeOK, Recorded
<1>1. ASSUME NEW e \in Evaluators, Fetch(e) PROVE TypeOK'
    BY Zenon, <1>1, <1>0, TickType DEF Fetch, Set, TypeOK
<1>b. ASSUME NEW e \in Evaluators PROVE
        /\ Finish(e) => tick' \in [Evaluators -> Tick]
        /\ \A at \in Phase : Goto(e, at) => tick' \in [Evaluators -> Tick]
        /\ Returned(e) => tick' \in [Evaluators -> Tick]
  <2>1. Finish(e) => tick' \in [Evaluators -> Tick]
    BY Zenon, <1>0, TickType DEF Finish, Set
  <2>2. ASSUME NEW at \in Phase, Goto(e, at) PROVE tick' \in [Evaluators -> Tick]
    <3> DEFINE t == [tick[e] EXCEPT !.at = at]
    <3>1. t \in Tick
        BY Zenon, <1>0, TickType
    <3>2. tick' = [tick EXCEPT ![e] = t]
        BY <2>2 DEF Goto, Set
    <3> HIDE DEF t
    <3> QED
        BY SMTT(40), <1>0, <3>1, <3>2
  <2>3. "publish" \in Phase
    BY DEF Phase
  <2> QED
    BY SMTT(40), <2>1, <2>2, <2>3 DEF Returned
<1>2. ASSUME NEW e \in Evaluators, Query(e) PROVE TypeOK'
  <2>1. DecideTransition(tick[e].fresh, signal) \in RuleState
    BY Zenon, <1>0, TickType, DecideType DEF TypeOK
  <2> DEFINE t == [tick[e] EXCEPT !.at = "transition",
                                  !.next = DecideTransition(tick[e].fresh, signal)]
  <2>2. t \in Tick
    BY Zenon, <1>0, <2>1, TickType
  <2>3. Finish(e) \/ Set(e, t)
    BY <1>2 DEF Query
  <2> HIDE DEF t
  <2>4. tick' \in [Evaluators -> Tick]
    BY <1>0, <1>b, <2>2, <2>3 DEF Set
  <2> QED
    BY SMTT(40), <1>2, <2>4 DEF Query, TypeOK
<1>3. ASSUME NEW e \in Evaluators, TransitionMissing(e) PROVE TypeOK'
    BY <1>3, <1>b DEF TransitionMissing, TypeOK
<1>4. ASSUME NEW e \in Evaluators, TransitionNoop(e) PROVE TypeOK'
    BY <1>4, <1>b DEF TransitionNoop, TypeOK
<1>5. ASSUME NEW e \in Evaluators, TransitionSync(e) PROVE TypeOK'
  <2>1. tick[e].next \in RuleState
    BY Zenon, <1>0, TickType
  <2>2. rule' \in Rule /\ history' \in [last : RuleState, firings : Nat]
    BY SMTT(40), <1>5, <1>0, <1>a, <2>1, RuleType DEF TransitionSync
  <2> QED
    BY SMTT(40), <1>5, <1>b, <2>2 DEF TransitionSync, TypeOK
<1>6. ASSUME NEW e \in Evaluators, TransitionRead(e) PROVE TypeOK'
    BY Zenon, <1>6, <1>0, TickType DEF TransitionRead, Set, TypeOK
<1>7. ASSUME NEW e \in Evaluators, InsertHistory(e) PROVE TypeOK'
  <2>1. tick[e].next \in RuleState /\ "update" \in Phase
    BY Zenon, <1>0, TickType DEF Phase
  <2> QED
    BY SMTT(40), <1>7, <1>a, <1>b, <2>1 DEF InsertHistory, TypeOK
<1>8. ASSUME NEW e \in Evaluators, UpdateRead(e) PROVE TypeOK'
  <2>1. tick' \in [Evaluators -> Tick]
    <3> DEFINE t == [tick[e] EXCEPT !.at = "write", !.seen = rule]
    <3>1. t \in Tick
        BY Zenon, <1>0, TickType
    <3>2. Finish(e) \/ tick' = [tick EXCEPT ![e] = t]
        BY <1>8 DEF UpdateRead, Set
    <3> HIDE DEF t
    <3> QED
        BY SMTT(40), <1>0, <1>b, <3>1, <3>2
  <2> QED
    BY <1>8, <2>1 DEF UpdateRead, TypeOK
<1>9. ASSUME NEW e \in Evaluators, UpdateWrite(e) PROVE TypeOK'
  <2>1. rule' \in Rule
    BY Zenon, <1>9, <1>0, TickType, RuleType DEF UpdateWrite, Written
  <2> QED
    BY SMTT(40), <1>9, <1>b, <2>1 DEF UpdateWrite, TypeOK
<1>10. ASSUME NEW e \in Evaluators, Publish(e) PROVE TypeOK'
    BY <1>10, <1>b DEF Publish, TypeOK
<1>11. ASSUME NEW e \in Evaluators, Abort(e) PROVE TypeOK'
    BY <1>11, <1>b, EvaluationAssumption DEF Abort, TypeOK
<1>c. \A kind \in Edits : kind \in EditKinds
    BY EvaluationAssumption
<1>12. ASSUME NEW kind \in Edits, RequestSync(kind) PROVE TypeOK'
  <2>1. rule' \in Rule
    BY <1>12, <1>0, <1>c, RuleType DEF RequestSync
  <2> QED
    BY <1>12, <2>1, EvaluationAssumption DEF RequestSync, Ask, TypeOK
<1>13. ASSUME NEW kind \in Edits, RequestRead(kind) PROVE TypeOK'
  <2>1. edit' \in Edit
    BY <1>13, <1>0, <1>c DEF RequestRead, Edit
  <2> QED
    BY <1>13, <2>1, EvaluationAssumption DEF RequestRead, Ask, TypeOK
<1>14. ASSUME RequestWrite PROVE TypeOK'
  <2>1. edit.kind \in EditKinds /\ edit.seen \in Rule
    BY <1>14, <1>0 DEF RequestWrite, Edit
  <2>2. rule' \in Rule
    BY <1>14, <1>0, <2>1, RuleType DEF RequestWrite, Written
  <2>3. edit' \in Edit
    BY <1>14, RuleType DEF RequestWrite, NoEdit, Edit
  <2> QED
    BY <1>14, <2>2, <2>3 DEF RequestWrite, TypeOK
<1>15. ASSUME SignalChanges PROVE TypeOK'
    BY SMTT(40), <1>15 DEF SignalChanges, TypeOK
<1>16. ASSUME Pass PROVE TypeOK'
  <2>1. rule' \in Rule
    BY Zenon, <1>16, <1>0, RuleType DEF Pass
  <2>2. edit' \in Edit
    BY Zenon, <1>16, <1>0, RuleType DEF Pass, Edit
  <2>3. tick' \in [Evaluators -> Tick]
    BY Zenon, <1>16, <1>0, AgedTick DEF Pass
  <2> QED
    BY Zenon, <1>16, <2>1, <2>2, <2>3 DEF Pass, TypeOK
<1>17. ASSUME UNCHANGED vars PROVE TypeOK'
    BY <1>17 DEF vars, TypeOK
<1> QED
    BY <1>1, <1>2, <1>3, <1>4, <1>5, <1>6, <1>7, <1>8, <1>9, <1>10, <1>11, <1>12,
       <1>13, <1>14, <1>15, <1>16, <1>17
    DEF Next, Evaluate

\* A new rule, no evaluation and no request are well typed.
LEMMA TypeInit == Init => TypeOK
<1> SUFFICES ASSUME Init PROVE TypeOK
    OBVIOUS
<1>1. rule \in Rule /\ edit \in Edit /\ tick \in [Evaluators -> Tick]
    BY Zenon, RuleType, TickType DEF Init, NoEdit, Edit
<1>2. edits \in 0 .. MaxEdits /\ faults \in 0 .. MaxFaults
    BY EvaluationAssumption DEF Init
<1> QED
    BY Zenon, <1>1, <1>2 DEF Init, TypeOK, RuleState

\* The row, every copy of it and every evaluation always have their types.
THEOREM TypeCorrect == Spec => []TypeOK
BY TypeInit, TypeStep, PTL DEF Spec

-----------------------------------------------------------------------------
(* The count, the history and the state, with the one-step repository.     *)

\* The phases of the one-step repository.
OneStep(t) == t.at \notin {"insert", "update", "write"}

SyncInv ==
    /\ TypeOK
    /\ edit.kind = "none"
    /\ \A e \in Evaluators : OneStep(tick[e])

\* With the one-step repository no call of it is ever half done.
LEMMA SyncStep == ASSUME SyncStore, SyncInv, [Next]_vars PROVE SyncInv'
<1>0. TypeOK'
    BY TypeStep DEF SyncInv
<1>a. \A e \in Evaluators : tick[e] \in Tick /\ OneStep(tick[e]) /\ edit.kind = "none"
    BY DEF SyncInv, TypeOK
<1> DEFINE Kept == edit'.kind = "none" /\ \A e \in Evaluators : OneStep(tick'[e])
<1>b. OneStep(Idle)
    BY DEF OneStep, Idle
<1>c. ASSUME NEW e \in Evaluators, NEW t, OneStep(t), Set(e, t), edit' = edit PROVE Kept
    BY <1>a, <1>c DEF Set, SyncInv, TypeOK
<1>d. ASSUME NEW e \in Evaluators, Returned(e) \/ Finish(e), edit' = edit PROVE Kept
  <2>1. OneStep([tick[e] EXCEPT !.at = "publish"])
    BY <1>a DEF OneStep, Tick
  <2> QED
    BY <1>b, <1>c, <1>d, <2>1 DEF Returned, Goto, Finish
<1>1. ASSUME NEW e \in Evaluators, Fetch(e) PROVE Kept
  <2>1. OneStep([Idle EXCEPT !.at = "query", !.fresh = rule])
    BY DEF OneStep, Idle
  <2> QED
    BY <1>1, <1>c, <2>1 DEF Fetch
<1>2. ASSUME NEW e \in Evaluators, Query(e) PROVE Kept
  <2> DEFINE t == [tick[e] EXCEPT !.at = "transition",
                                  !.next = DecideTransition(tick[e].fresh, signal)]
  <2>1. OneStep(t)
    BY <1>a DEF OneStep, Tick
  <2>2. Finish(e) \/ Set(e, t)
    BY <1>2 DEF Query
  <2> HIDE DEF t
  <2> QED
    BY <1>2, <1>c, <1>d, <2>1, <2>2 DEF Query
<1>3. ASSUME NEW e \in Evaluators,
             TransitionMissing(e) \/ TransitionNoop(e) \/ TransitionSync(e) \/ Publish(e) \/ Abort(e)
      PROVE Kept
    BY <1>3, <1>d DEF TransitionMissing, TransitionNoop, TransitionSync, Publish, Abort
<1>4. ASSUME NEW e \in Evaluators,
             TransitionRead(e) \/ InsertHistory(e) \/ UpdateRead(e) \/ UpdateWrite(e)
      PROVE FALSE
    BY <1>4, <1>a DEF TransitionRead, InsertHistory, UpdateRead, UpdateWrite, OneStep
<1>5. ASSUME NEW kind \in Edits, RequestSync(kind) PROVE Kept
    BY <1>5, <1>a DEF RequestSync, SyncInv
<1>6. ASSUME NEW kind \in Edits, RequestRead(kind) PROVE FALSE
    BY <1>6 DEF RequestRead
<1>7. ASSUME RequestWrite PROVE FALSE
    BY <1>7 DEF RequestWrite, SyncInv
<1>8. ASSUME SignalChanges PROVE Kept
    BY <1>8, <1>a DEF SignalChanges, SyncInv
<1>9. ASSUME Pass PROVE Kept
  <2>1. edit'.kind = edit.kind
    BY Zenon, <1>9 DEF Pass, SyncInv, TypeOK, Edit
  <2>2. ASSUME NEW e \in Evaluators PROVE tick'[e].at = tick[e].at
    BY Zenon, <1>9, <1>a DEF Pass, Tick
  <2> QED
    BY SMTT(40), <1>a, <2>1, <2>2 DEF OneStep, SyncInv
<1>10. ASSUME UNCHANGED vars PROVE Kept
    BY <1>10, <1>a DEF vars, SyncInv
<1>11. Kept
    BY <1>1, <1>2, <1>3, <1>4, <1>5, <1>6, <1>7, <1>8, <1>9, <1>10 DEF Next, Evaluate
<1> QED
    BY <1>0, <1>11 DEF SyncInv

\* The one-step repository starts with nothing half done.
LEMMA SyncInit == Init => SyncInv
BY SMTT(40), TypeInit DEF Init, SyncInv, NoEdit, Idle, OneStep

\* What a step does to the row and to the history, with that repository: a
\* transition does both at once, an edit and the clock touch the row only.
LEMMA RowStep ==
    ASSUME SyncStore, SyncInv, [Next]_vars
    PROVE  \/ \E e \in Evaluators : TransitionSync(e)
           \/ \E kind \in Edits : /\ rule' = Edited(rule, kind)
                                  /\ history' = history /\ edits' = edits + 1
           \/ rule' = Older(rule) /\ history' = history /\ edits' = edits
           \/ UNCHANGED <<rule, history>> /\ edits' \in {edits, edits + 1}
<1>1. \A e \in Evaluators : OneStep(tick[e])
    BY DEF SyncInv
<1>2. \A e \in Evaluators : ~InsertHistory(e) /\ ~UpdateWrite(e)
    BY <1>1 DEF InsertHistory, UpdateWrite, OneStep
<1>3. ~RequestWrite
    BY DEF RequestWrite, SyncInv
<1> QED
    BY Zenon, <1>2, <1>3
    DEF Next, Evaluate, Fetch, Query, TransitionMissing, TransitionNoop, TransitionRead,
        UpdateRead, Publish, Abort, RequestSync, RequestRead, Ask, SignalChanges, Pass, vars

\* fireCount and alert_history agree on the number of firings, whatever
\* replicas overlap and whatever operators do.
THEOREM FireCountAgrees == ASSUME SyncStore PROVE Spec => []FireCountExact
<1>1. Init => FireCountExact
    BY DEF Init, FireCountExact, NewRule
<1>2. SyncInv /\ FireCountExact /\ [Next]_vars => FireCountExact'
  <2> SUFFICES ASSUME SyncInv, FireCountExact, [Next]_vars PROVE FireCountExact'
    OBVIOUS
  <2>0. rule \in Rule /\ \A e \in Evaluators : tick[e] \in Tick
    BY DEF SyncInv, TypeOK
  <2>1. ASSUME NEW e \in Evaluators, TransitionSync(e) PROVE FireCountExact'
    BY <2>1, <2>0 DEF TransitionSync, Patch, Recorded, FireCountExact
  <2>2. ASSUME NEW kind \in Edits, rule' = Edited(rule, kind), history' = history
        PROVE FireCountExact'
    <3>1. rule'.fires = rule.fires /\ (rule'.exists => rule.exists)
        BY <2>0, <2>2 DEF Edited, Rule
    <3> QED
        BY <2>2, <3>1 DEF FireCountExact
  <2>3. ASSUME rule' = Older(rule), history' = history PROVE FireCountExact'
    <3>1. rule'.fires = rule.fires /\ rule'.exists = rule.exists
        BY <2>0, <2>3 DEF Older, Rule
    <3> QED
        BY <2>3, <3>1 DEF FireCountExact
  <2>4. ASSUME UNCHANGED <<rule, history>> PROVE FireCountExact'
    BY <2>4 DEF FireCountExact
  <2> QED
    BY <2>1, <2>2, <2>3, <2>4, RowStep
<1>3. SyncInv /\ [Next]_vars => SyncInv'
    BY SyncStep
<1> QED
    BY <1>1, <1>2, <1>3, SyncInit, PTL DEF Spec

\* The newest history row says which state the rule is in, unless an operator
\* set the state by hand.
THEOREM HistoryIsComplete == ASSUME SyncStore PROVE Spec => []HistoryExplainsState
<1>1. Init => HistoryExplainsState
    BY DEF Init, HistoryExplainsState, NewRule
<1>2. SyncInv /\ HistoryExplainsState /\ [Next]_vars => HistoryExplainsState'
  <2> SUFFICES ASSUME SyncInv, HistoryExplainsState, [Next]_vars PROVE HistoryExplainsState'
    OBVIOUS
  <2>0. rule \in Rule /\ edits \in Nat /\ \A e \in Evaluators : tick[e] \in Tick
    BY EvaluationAssumption DEF SyncInv, TypeOK
  <2>1. ASSUME NEW e \in Evaluators, TransitionSync(e) PROVE HistoryExplainsState'
    BY <2>1, <2>0 DEF TransitionSync, Patch, Recorded, HistoryExplainsState
  <2>2. ASSUME NEW kind \in Edits, rule' = Edited(rule, kind),
               history' = history, edits' = edits + 1
        PROVE HistoryExplainsState'
    <3>1. /\ rule'.state = rule.state \/ rule'.state \in {"disabled", "normal"}
          /\ rule'.exists => rule.exists
        BY <2>0, <2>2 DEF Edited, Rule
    <3>2. edits' > 0
        BY <2>0, <2>2
    <3> QED
        BY <2>2, <3>1, <3>2 DEF HistoryExplainsState
  <2>3. ASSUME rule' = Older(rule), history' = history, edits' = edits PROVE HistoryExplainsState'
    <3>1. rule'.state = rule.state /\ rule'.exists = rule.exists
        BY <2>0, <2>3 DEF Older, Rule
    <3> QED
        BY <2>3, <3>1 DEF HistoryExplainsState
  <2>4. ASSUME UNCHANGED <<rule, history>>, edits' \in {edits, edits + 1}
        PROVE HistoryExplainsState'
    BY <2>0, <2>4 DEF HistoryExplainsState
  <2> QED
    BY <2>1, <2>2, <2>3, <2>4, RowStep
<1>3. SyncInv /\ [Next]_vars => SyncInv'
    BY SyncStep
<1> QED
    BY <1>1, <1>2, <1>3, SyncInit, PTL DEF Spec

-----------------------------------------------------------------------------
(* The for-duration, with one evaluator.                                   *)

\* The copy an evaluation decides on has the pendingSince of the row, and a
\* decision to fire was taken after the for-duration.
CopyIsCurrent(t) ==
    /\ t.at \in {"query", "transition"} => t.fresh.since = rule.since
    /\ t.at = "transition" /\ t.next = "firing" => For = 0 \/ Waited(t.fresh)

\* While the only evaluation is in flight nothing but the clock changes
\* pendingSince (disable, enable and edits leave the column alone), and the
\* clock ages row and copy alike.
LEMMA CopyStep ==
    ASSUME SyncStore, NEW e, Evaluators = {e},
           SyncInv, CopyIsCurrent(tick[e]), [Next]_vars
    PROVE  CopyIsCurrent(tick[e])'
<1>0. e \in Evaluators /\ tick \in [Evaluators -> Tick] /\ tick[e] \in Tick /\ rule \in Rule
      /\ OneStep(tick[e]) /\ edit.kind = "none"
    BY DEF SyncInv, TypeOK
<1>a. Finish(e) => CopyIsCurrent(tick[e])'
    BY <1>0 DEF Finish, Set, Idle, CopyIsCurrent
<1>b. Returned(e) => CopyIsCurrent(tick[e])'
  <2>1. Goto(e, "publish") => tick'[e].at = "publish"
    BY <1>0 DEF Goto, Set, Tick
  <2> QED
    BY <1>a, <2>1 DEF Returned, CopyIsCurrent
<1>1. ASSUME Fetch(e) PROVE CopyIsCurrent(tick[e])'
  <2>1. tick'[e].at = "query" /\ tick'[e].fresh = rule /\ rule' = rule
    BY <1>0, <1>1 DEF Fetch, Set, Idle
  <2> QED
    BY <2>1 DEF CopyIsCurrent
<1>2. ASSUME Query(e) PROVE CopyIsCurrent(tick[e])'
  <2> DEFINE next == DecideTransition(tick[e].fresh, signal)
  <2>1. CASE next = tick[e].fresh.state
    BY <1>2, <1>a, <2>1 DEF Query
  <2>2. CASE next # tick[e].fresh.state
    <3>1. /\ tick'[e].at = "transition" /\ tick'[e].next = next
          /\ tick'[e].fresh = tick[e].fresh /\ rule' = rule /\ tick[e].at = "query"
        BY Zenon, <1>0, <1>2, <2>2 DEF Query, Set, Tick
    <3>2. next = "firing" => For = 0 \/ Waited(tick[e].fresh)
        BY <2>2 DEF DecideTransition
    <3> QED
        BY <3>1, <3>2 DEF CopyIsCurrent, Waited
  <2> QED
    BY <2>1, <2>2
<1>3. ASSUME TransitionMissing(e) \/ TransitionNoop(e) \/ TransitionSync(e) \/ Publish(e) \/ Abort(e)
      PROVE CopyIsCurrent(tick[e])'
    BY <1>3, <1>a, <1>b DEF TransitionMissing, TransitionNoop, TransitionSync, Publish, Abort
<1>4. ASSUME TransitionRead(e) \/ InsertHistory(e) \/ UpdateRead(e) \/ UpdateWrite(e)
      PROVE FALSE
    BY <1>0, <1>4 DEF TransitionRead, InsertHistory, UpdateRead, UpdateWrite, OneStep
<1>5. ASSUME NEW kind \in Edits, RequestSync(kind) PROVE CopyIsCurrent(tick[e])'
  <2>1. tick' = tick /\ rule'.since = rule.since
    BY <1>0, <1>5 DEF RequestSync, Edited, Rule
  <2> QED
    BY <2>1 DEF CopyIsCurrent, Waited
<1>6. ASSUME NEW kind \in Edits, RequestRead(kind) PROVE FALSE
    BY <1>6 DEF RequestRead
<1>7. ASSUME RequestWrite PROVE FALSE
    BY <1>0, <1>7 DEF RequestWrite
<1>8. ASSUME Pass PROVE CopyIsCurrent(tick[e])'
  <2>1. /\ tick'[e].at = tick[e].at /\ tick'[e].next = tick[e].next
        /\ tick'[e].fresh = Older(tick[e].fresh) /\ rule' = Older(rule)
    BY Zenon, <1>0, <1>8 DEF Pass, Tick
  <2>2. tick[e].fresh \in Rule
    BY Zenon, <1>0, TickType
  <2>3. Waited(tick[e].fresh) => Waited(Older(tick[e].fresh))
    BY <2>2, SinceFacts DEF Waited, Older, Rule
  <2>4. tick[e].fresh.since = rule.since => Older(tick[e].fresh).since = Older(rule).since
    BY <1>0, <2>2 DEF Older, Rule
  <2> QED
    BY <2>1, <2>3, <2>4 DEF CopyIsCurrent
<1>9. ASSUME SignalChanges \/ UNCHANGED vars PROVE CopyIsCurrent(tick[e])'
    BY <1>9 DEF SignalChanges, vars, CopyIsCurrent, Waited
<1> QED
    BY <1>1, <1>2, <1>3, <1>4, <1>5, <1>6, <1>7, <1>8, <1>9 DEF Next, Evaluate

\* With one evaluator a rule fires only after it has been pending for the
\* whole for-duration, whatever operators do to the rule meanwhile.
THEOREM FiresAfterFor ==
    ASSUME SyncStore, NEW e, Evaluators = {e}
    PROVE  Spec => ForRespected
<1> DEFINE Copy == CopyIsCurrent(tick[e])
<1>1. Init => Copy
    BY DEF Init, CopyIsCurrent, Idle
<1>2. SyncInv /\ Copy /\ [Next]_vars => Copy'
    BY CopyStep
<1>3. SyncInv /\ [Next]_vars => SyncInv'
    BY SyncStep
<1>4. SyncInv /\ Copy /\ [Next]_vars
        => [rule'.fires > rule.fires => For = 0 \/ Waited(rule)]_vars
  <2> SUFFICES ASSUME SyncInv, Copy, [Next]_vars, rule'.fires > rule.fires
               PROVE  For = 0 \/ Waited(rule)
    OBVIOUS
  <2>0. rule \in Rule /\ rule.fires \in Nat
    BY DEF SyncInv, TypeOK, Rule
  <2>1. ASSUME TransitionSync(e) PROVE For = 0 \/ Waited(rule)
    BY <2>0, <2>1 DEF TransitionSync, Patch, CopyIsCurrent, Waited
  <2>2. ASSUME NEW kind \in Edits, rule' = Edited(rule, kind) PROVE FALSE
    <3>1. rule'.fires = rule.fires
        BY <2>0, <2>2 DEF Edited, Rule
    <3> QED
        BY <2>0, <3>1
  <2>3. ASSUME rule' = Older(rule) PROVE FALSE
    <3>1. rule'.fires = rule.fires
        BY <2>0, <2>3 DEF Older, Rule
    <3> QED
        BY <2>0, <3>1
  <2>4. ASSUME rule' = rule PROVE FALSE
    BY <2>0, <2>4
  <2> QED
    BY <2>1, <2>2, <2>3, <2>4, RowStep
<1> HIDE DEF Copy
<1> QED
    BY <1>1, <1>2, <1>3, <1>4, SyncInit, PTL DEF Spec, ForRespected

-----------------------------------------------------------------------------
(* The events: a firing is announced, and by one evaluator only once.      *)

\* An evaluation that has recorded a firing and has yet to publish it.
Due(t) == t.at \in {"update", "write", "publish"} /\ t.next = "firing"

\* One evaluation moves: it joins, leaves or stays in Publishing.
LEMMA PublishingMoves ==
    ASSUME IsFiniteSet(Evaluators), TypeOK, NEW e \in Evaluators, NEW t, Set(e, t)
    PROVE  /\ Cardinality(Publishing) \in Nat /\ Cardinality(Publishing') \in Nat
           /\ Due(t) /\ Due(tick[e]) => Cardinality(Publishing') = Cardinality(Publishing)
           /\ ~Due(t) /\ ~Due(tick[e]) => Cardinality(Publishing') = Cardinality(Publishing)
           /\ Due(t) /\ ~Due(tick[e]) => Cardinality(Publishing') = Cardinality(Publishing) + 1
           /\ ~Due(t) /\ Due(tick[e]) => Cardinality(Publishing) = Cardinality(Publishing') + 1
<1>1. /\ Publishing = {c \in Evaluators : Due(tick[c])}
      /\ Publishing' = {c \in Evaluators : Due(tick'[c])}
    BY DEF Publishing, Due
<1>2. IsFiniteSet(Publishing) /\ IsFiniteSet(Publishing')
    BY <1>1, FS_Subset, Zenon
<1>3. tick'[e] = t /\ \A c \in Evaluators \ {e} : tick'[c] = tick[c]
    BY DEF Set, TypeOK
<1>4. Due(t) /\ Due(tick[e]) => Publishing' = Publishing
    BY <1>1, <1>3
<1>5. ~Due(t) /\ ~Due(tick[e]) => Publishing' = Publishing
    BY Zenon, <1>1, <1>3
<1>6. Due(t) /\ ~Due(tick[e]) => e \notin Publishing /\ Publishing' = Publishing \cup {e}
    BY <1>1, <1>3
<1>7. ~Due(t) /\ Due(tick[e]) => e \notin Publishing' /\ Publishing = Publishing' \cup {e}
    BY <1>1, <1>3
<1>8. Cardinality(Publishing) \in Nat /\ Cardinality(Publishing') \in Nat
    BY <1>2, FS_CardinalityType
<1>9. e \notin Publishing => Cardinality(Publishing \cup {e}) = Cardinality(Publishing) + 1
    BY Zenon, <1>2, FS_AddElement
<1>10. e \notin Publishing' => Cardinality(Publishing' \cup {e}) = Cardinality(Publishing') + 1
    BY Zenon, <1>2, FS_AddElement
<1> HIDE DEF Due
<1> QED
    BY Zenon, <1>4, <1>5, <1>6, <1>7, <1>8, <1>9, <1>10

\* A deleted rule is not brought back.
LEMMA DeletedStays ==
    ASSUME TypeOK, [Next]_vars, rule'.exists
    PROVE  rule.exists
<1>0. rule \in Rule /\ \A e \in Evaluators : tick[e] \in Tick
    BY DEF TypeOK
<1>1. ASSUME NEW kind \in Edits, RequestSync(kind) PROVE rule.exists
    BY <1>1 DEF RequestSync, Ask
<1>2. ASSUME RequestWrite PROVE rule.exists
    BY <1>2 DEF RequestWrite, Written
<1>3. ASSUME NEW e \in Evaluators, TransitionSync(e) \/ UpdateWrite(e) PROVE rule.exists
    BY <1>3 DEF TransitionSync, UpdateWrite, Written
<1>4. ASSUME Pass PROVE rule.exists
    BY Zenon, <1>0, <1>4 DEF Pass, Older, Rule
<1>5. ASSUME rule' = rule PROVE rule.exists
    BY <1>5
<1> QED
    BY Zenon, <1>1, <1>2, <1>3, <1>4, <1>5
    DEF Next, Evaluate, Fetch, Query, TransitionMissing, TransitionNoop, TransitionRead,
        InsertHistory, UpdateRead, Publish, Abort, RequestRead, SignalChanges, vars

\* What a step of an evaluation makes of it.
LEMMA DuePhases ==
    ASSUME NEW t \in Tick
    PROVE  /\ ~Due(Idle)
           /\ Due([t EXCEPT !.at = "publish"]) <=> t.next = "firing"
           /\ Due([t EXCEPT !.at = "update"]) <=> t.next = "firing"
           /\ \A r : Due([t EXCEPT !.at = "write", !.seen = r]) <=> t.next = "firing"
           /\ \A r : ~Due([t EXCEPT !.at = "insert", !.old = r])
           /\ \A n : ~Due([t EXCEPT !.at = "transition", !.next = n])
           /\ \A r : ~Due([Idle EXCEPT !.at = "query", !.fresh = r])
BY DEF Due, Idle, Tick

\* Any number of evaluators on either store: a step that records a firing owes
\* its event, and an evaluation gives up owing only by publishing, by failing
\* or because the rule is gone.
LEMMA AnnounceStep ==
    ASSUME IsFiniteSet(Evaluators), TypeOK, EveryFiringAnnounced, [Next]_vars
    PROVE  EveryFiringAnnounced'
<1>0. /\ \A e \in Evaluators : tick[e] \in Tick
      /\ sent \in Nat /\ faults \in Nat /\ history.firings \in Nat
    BY EvaluationAssumption DEF TypeOK
<1> DEFINE owed == Cardinality(Publishing)
           owed2 == Cardinality(Publishing')
<1> SUFFICES ASSUME faults' = 0, rule'.exists PROVE sent' + owed2 >= history'.firings
    BY DEF EveryFiringAnnounced
<1>1. rule.exists
    BY DeletedStays
<1>2. faults = 0 => sent + owed >= history.firings
    BY <1>1 DEF EveryFiringAnnounced
<1>3. ASSUME NEW e \in Evaluators, NEW t, Set(e, t), Due(tick[e]) => Due(t),
             UNCHANGED <<sent, history, faults>>
      PROVE  sent' + owed2 >= history'.firings
  <2>1. owed \in Nat /\ owed2 \in Nat /\ owed2 >= owed
    BY <1>3, PublishingMoves
  <2> HIDE DEF owed, owed2
  <2> QED
    BY <1>0, <1>2, <1>3, <2>1
<1>4. ASSUME NEW e \in Evaluators, NEW t, Set(e, t), ~Due(tick[e]), UNCHANGED <<sent, faults>>,
             tick[e].next = "firing" => Due(t), history' = Recorded(tick[e].next)
      PROVE  sent' + owed2 >= history'.firings
  <2>1. owed \in Nat /\ owed2 \in Nat /\ owed2 = (IF Due(t) THEN owed + 1 ELSE owed)
    BY <1>4, PublishingMoves
  <2>2. history'.firings = IF tick[e].next = "firing" THEN history.firings + 1 ELSE history.firings
    BY <1>4 DEF Recorded
  <2> HIDE DEF owed, owed2
  <2> QED
    BY <1>0, <1>2, <1>4, <2>1, <2>2
<1>5. ASSUME NEW e \in Evaluators, Fetch(e) \/ Query(e) \/ TransitionMissing(e) \/ TransitionRead(e)
      PROVE  sent' + owed2 >= history'.firings
  <2>1. ~Due(tick[e]) /\ UNCHANGED <<sent, history, faults>>
    BY <1>5 DEF Due, Fetch, Query, TransitionMissing, TransitionRead
  <2>2. \E t : Set(e, t)
    BY <1>5 DEF Fetch, Query, TransitionMissing, TransitionRead, Finish
  <2> QED
    BY <1>3, <2>1, <2>2
<1>6. ASSUME NEW e \in Evaluators, TransitionNoop(e) PROVE sent' + owed2 >= history'.firings
  <2>1. ~Due(tick[e]) /\ UNCHANGED <<sent, history, faults>>
    BY <1>6 DEF Due, TransitionNoop
  <2>2. \E t : Set(e, t)
    BY <1>6 DEF TransitionNoop, Returned, Goto, Finish
  <2> QED
    BY <1>3, <2>1, <2>2
<1>7. ASSUME NEW e \in Evaluators, TransitionSync(e) \/ InsertHistory(e)
      PROVE  sent' + owed2 >= history'.firings
  <2>1. /\ ~Due(tick[e]) /\ UNCHANGED <<sent, faults>> /\ history' = Recorded(tick[e].next)
        /\ Returned(e) \/ Goto(e, "update")
    BY <1>7 DEF Due, TransitionSync, InsertHistory
  <2>2. \E t : Set(e, t) /\ (tick[e].next = "firing" => Due(t))
    BY Zenon, <1>0, <2>1, DuePhases DEF Returned, Goto, Finish
  <2> QED
    BY <1>4, <2>1, <2>2
<1>8. ASSUME NEW e \in Evaluators, UpdateRead(e) \/ UpdateWrite(e)
      PROVE  sent' + owed2 >= history'.firings
  <2>1. UNCHANGED <<sent, history, faults>>
    BY <1>8 DEF UpdateRead, UpdateWrite
  <2>2. Set(e, [tick[e] EXCEPT !.at = "write", !.seen = rule]) \/ Returned(e)
    BY <1>1, <1>8 DEF UpdateRead, UpdateWrite
  <2>3. Due(tick[e]) => tick[e].next = "firing"
    BY DEF Due
  <2>4. \E t : Set(e, t) /\ (Due(tick[e]) => Due(t))
    BY Zenon, <1>0, <2>2, <2>3, DuePhases DEF Returned, Goto, Finish
  <2> QED
    BY <1>3, <2>1, <2>4
<1>9. ASSUME NEW e \in Evaluators, Publish(e) PROVE sent' + owed2 >= history'.firings
  <2>1. Set(e, Idle) /\ sent' = sent + 1 /\ UNCHANGED <<history, faults>>
    BY <1>9 DEF Publish, Finish
  <2>a. ~Due(Idle)
    BY Zenon, <1>0, DuePhases
  <2>b. /\ owed \in Nat /\ owed2 \in Nat
        /\ owed2 = owed \/ owed = owed2 + 1
    BY <2>1, <2>a, PublishingMoves
  <2>2. owed \in Nat /\ owed2 \in Nat /\ owed2 + 1 >= owed
    <3> HIDE DEF owed, owed2
    <3> QED
        BY <2>b
  <2> HIDE DEF owed, owed2
  <2> QED
    BY <1>0, <1>2, <2>1, <2>2
<1>10. \A e \in Evaluators : ~Abort(e)
    BY <1>0 DEF Abort
<1>11. ASSUME Publishing' = Publishing, UNCHANGED <<sent, history, faults>>
       PROVE  sent' + owed2 >= history'.firings
    BY <1>2, <1>11
<1>12. ASSUME UNCHANGED <<tick, sent, history, faults>> PROVE sent' + owed2 >= history'.firings
  <2>1. Publishing' = Publishing
    BY <1>12 DEF Publishing
  <2> QED
    BY <1>11, <1>12, <2>1
<1>13. CASE Pass
  <2>1. \A e \in Evaluators : tick'[e].at = tick[e].at /\ tick'[e].next = tick[e].next
    BY Zenon, <1>0, <1>13 DEF Pass, Tick
  <2>2. Publishing' = Publishing
    BY Zenon, <2>1 DEF Publishing
  <2> QED
    BY Zenon, <1>11, <1>13, <2>2 DEF Pass
<1> HIDE DEF owed, owed2
<1> QED
    BY Zenon, <1>5, <1>6, <1>7, <1>8, <1>9, <1>10, <1>12, <1>13
    DEF Next, Evaluate, RequestSync, RequestRead, Ask, RequestWrite, SignalChanges, vars

\* As long as nothing fails and the rule is not deleted, every recorded firing
\* has been published or is about to be: for any finite number of replicas
\* that overlap, on either store, and whatever operators do meanwhile.
THEOREM FiringsAreAnnounced ==
    ASSUME IsFiniteSet(Evaluators)
    PROVE  Spec => []EveryFiringAnnounced
<1>1. Init => EveryFiringAnnounced
  <2> SUFFICES ASSUME Init PROVE EveryFiringAnnounced
    OBVIOUS
  <2>1. Publishing = {}
    BY DEF Init, Publishing, Idle
  <2> QED
    BY <2>1, FS_EmptySet DEF Init, EveryFiringAnnounced
<1>2. TypeOK /\ EveryFiringAnnounced /\ [Next]_vars => EveryFiringAnnounced'
    BY AnnounceStep
<1> QED
    BY <1>1, <1>2, TypeInit, TypeStep, PTL DEF Spec

\* The copy the only evaluation decides on has the state of the row, unless an
\* operator set it since; in particular a rule about to fire is not firing.
CopyHasState(t) ==
    /\ t.at \in {"query", "transition"} =>
         rule.state = t.fresh.state \/ rule.state \in {"disabled", "normal"}
    /\ t.at = "transition" /\ t.next = "firing" => t.fresh.state # "firing"
    /\ t.at = "publish" => t.next = "firing"

\* While the only evaluation is in flight, operators alone change the state.
LEMMA StateStep ==
    ASSUME SyncStore, NEW e, Evaluators = {e},
           SyncInv, CopyHasState(tick[e]), [Next]_vars
    PROVE  CopyHasState(tick[e])'
<1>0. e \in Evaluators /\ tick \in [Evaluators -> Tick] /\ tick[e] \in Tick /\ rule \in Rule
      /\ OneStep(tick[e]) /\ edit.kind = "none"
    BY DEF SyncInv, TypeOK
<1>a. Finish(e) => CopyHasState(tick[e])'
    BY <1>0 DEF Finish, Set, Idle, CopyHasState
<1>b. Returned(e) => CopyHasState(tick[e])'
  <2>1. Goto(e, "publish") => tick'[e].at = "publish" /\ tick'[e].next = tick[e].next
    BY <1>0 DEF Goto, Set, Tick
  <2> QED
    BY <1>a, <2>1 DEF Returned, CopyHasState
<1>1. ASSUME Fetch(e) PROVE CopyHasState(tick[e])'
  <2>1. tick'[e].at = "query" /\ tick'[e].fresh = rule /\ rule' = rule
    BY <1>0, <1>1 DEF Fetch, Set, Idle
  <2> QED
    BY <2>1 DEF CopyHasState
<1>2. ASSUME Query(e) PROVE CopyHasState(tick[e])'
  <2> DEFINE next == DecideTransition(tick[e].fresh, signal)
  <2>1. CASE next = tick[e].fresh.state
    BY <1>2, <1>a, <2>1 DEF Query
  <2>2. CASE next # tick[e].fresh.state
    <3>1. /\ tick'[e].at = "transition" /\ tick'[e].next = next
          /\ tick'[e].fresh = tick[e].fresh /\ rule' = rule /\ tick[e].at = "query"
        BY Zenon, <1>0, <1>2, <2>2 DEF Query, Set, Tick
    <3> HIDE DEF next
    <3> QED
        BY <2>2, <3>1 DEF CopyHasState
  <2> QED
    BY <2>1, <2>2
<1>3. ASSUME TransitionMissing(e) \/ TransitionNoop(e) \/ TransitionSync(e) \/ Publish(e) \/ Abort(e)
      PROVE CopyHasState(tick[e])'
    BY <1>3, <1>a, <1>b DEF TransitionMissing, TransitionNoop, TransitionSync, Publish, Abort
<1>4. ASSUME TransitionRead(e) \/ InsertHistory(e) \/ UpdateRead(e) \/ UpdateWrite(e)
      PROVE FALSE
    BY <1>0, <1>4 DEF TransitionRead, InsertHistory, UpdateRead, UpdateWrite, OneStep
<1>5. ASSUME NEW kind \in Edits, RequestSync(kind) PROVE CopyHasState(tick[e])'
  <2>1. tick' = tick /\ (rule'.state = rule.state \/ rule'.state \in {"disabled", "normal"})
    BY <1>0, <1>5 DEF RequestSync, Edited, Rule
  <2> QED
    BY <2>1 DEF CopyHasState
<1>6. ASSUME NEW kind \in Edits, RequestRead(kind) PROVE FALSE
    BY <1>6 DEF RequestRead
<1>7. ASSUME RequestWrite PROVE FALSE
    BY <1>0, <1>7 DEF RequestWrite
<1>8. ASSUME Pass PROVE CopyHasState(tick[e])'
  <2>1. /\ tick'[e].at = tick[e].at /\ tick'[e].next = tick[e].next
        /\ tick'[e].fresh = Older(tick[e].fresh) /\ rule' = Older(rule)
    BY Zenon, <1>0, <1>8 DEF Pass, Tick
  <2>2. tick[e].fresh \in Rule
    BY Zenon, <1>0, TickType
  <2>3. Older(tick[e].fresh).state = tick[e].fresh.state /\ Older(rule).state = rule.state
    BY <1>0, <2>2 DEF Older, Rule
  <2> QED
    BY <2>1, <2>3 DEF CopyHasState
<1>9. ASSUME SignalChanges \/ UNCHANGED vars PROVE CopyHasState(tick[e])'
    BY <1>9 DEF SignalChanges, vars, CopyHasState
<1> QED
    BY <1>1, <1>2, <1>3, <1>4, <1>5, <1>6, <1>7, <1>8, <1>9 DEF Next, Evaluate

\* With one evaluator an event is owed only for a row of alert_history.
LEMMA OnceStep ==
    ASSUME SyncStore, NEW e, Evaluators = {e},
           SyncInv, CopyHasState(tick[e]), AnnouncedOnce, [Next]_vars
    PROVE  AnnouncedOnce'
<1>0. /\ e \in Evaluators /\ tick[e] \in Tick /\ sent \in Nat /\ history.firings \in Nat
      /\ OneStep(tick[e]) /\ edit.kind = "none" /\ TypeOK
    BY DEF SyncInv, TypeOK
<1>a. IsFiniteSet(Evaluators)
    BY Zenon, FS_Singleton
<1>b. ~Due(Idle)
    BY Zenon, <1>0, DuePhases
<1> DEFINE owed == Cardinality(Publishing)
           owed2 == Cardinality(Publishing')
<1>c. sent + owed <= history.firings
    BY DEF AnnouncedOnce
<1> SUFFICES sent' + owed2 <= history'.firings
    BY DEF AnnouncedOnce
<1>1. ASSUME NEW t, Set(e, t), Due(t) => Due(tick[e]), UNCHANGED <<sent, history>>
      PROVE  sent' + owed2 <= history'.firings
  <2>1. owed \in Nat /\ owed2 \in Nat /\ owed >= owed2
    BY <1>0, <1>1, <1>a, PublishingMoves
  <2> HIDE DEF owed, owed2
  <2> QED
    BY <1>0, <1>c, <1>1, <2>1
<1>2. ASSUME Fetch(e) \/ Query(e) PROVE sent' + owed2 <= history'.firings
  <2>1. UNCHANGED <<sent, history>>
    BY <1>2 DEF Fetch, Query
  <2>2. \E t : Set(e, t) /\ ~Due(t)
    BY Zenon, <1>0, <1>2, <1>b, DuePhases DEF Fetch, Query, Finish
  <2> QED
    BY <1>1, <2>1, <2>2
<1>3. ASSUME TransitionMissing(e) \/ TransitionNoop(e) \/ Abort(e)
      PROVE  sent' + owed2 <= history'.firings
  <2>1. UNCHANGED <<sent, history>>
    BY <1>3 DEF TransitionMissing, TransitionNoop, Abort
  <2>2. TransitionNoop(e) => tick[e].next # "firing"
    BY DEF TransitionNoop, CopyHasState
  <2>3. Set(e, Idle)
    BY <1>3, <2>2 DEF TransitionMissing, TransitionNoop, Abort, Returned, Finish
  <2> QED
    BY <1>1, <1>b, <2>1, <2>3
<1>4. ASSUME TransitionSync(e) PROVE sent' + owed2 <= history'.firings
  <2>1. ~Due(tick[e]) /\ sent' = sent /\ Returned(e) /\ history' = Recorded(tick[e].next)
    BY <1>4 DEF TransitionSync, Due
  <2>2. PICK t : Set(e, t) /\ (Due(t) => tick[e].next = "firing")
    BY Zenon, <1>0, <1>b, <2>1, DuePhases DEF Returned, Goto, Finish
  <2>3. owed \in Nat /\ owed2 \in Nat /\ owed2 = (IF Due(t) THEN owed + 1 ELSE owed)
    BY <1>0, <1>a, <2>1, <2>2, PublishingMoves
  <2>4. history'.firings = IF tick[e].next = "firing" THEN history.firings + 1 ELSE history.firings
    BY <2>1 DEF Recorded
  <2> HIDE DEF owed, owed2
  <2> QED
    BY <1>0, <1>c, <2>1, <2>2, <2>3, <2>4
<1>5. ASSUME Publish(e) PROVE sent' + owed2 <= history'.firings
  <2>1. Set(e, Idle) /\ sent' = sent + 1 /\ history' = history
    BY <1>5 DEF Publish, Finish
  <2>2. Due(tick[e])
    BY <1>5 DEF Publish, CopyHasState, Due
  <2>3. owed \in Nat /\ owed2 \in Nat /\ owed = owed2 + 1
    BY <1>0, <1>a, <1>b, <2>1, <2>2, PublishingMoves
  <2> HIDE DEF owed, owed2
  <2> QED
    BY <1>0, <1>c, <2>1, <2>3
<1>6. ASSUME TransitionRead(e) \/ InsertHistory(e) \/ UpdateRead(e) \/ UpdateWrite(e) PROVE FALSE
    BY <1>0, <1>6 DEF TransitionRead, InsertHistory, UpdateRead, UpdateWrite, OneStep
<1>7. ASSUME Publishing' = Publishing, UNCHANGED <<sent, history>>
      PROVE  sent' + owed2 <= history'.firings
    BY <1>c, <1>7
<1>8. ASSUME UNCHANGED <<tick, sent, history>> PROVE sent' + owed2 <= history'.firings
  <2>1. Publishing' = Publishing
    BY <1>8 DEF Publishing
  <2> QED
    BY <1>7, <1>8, <2>1
<1>9. CASE Pass
  <2>1. tick'[e].at = tick[e].at /\ tick'[e].next = tick[e].next
    BY Zenon, <1>0, <1>9 DEF Pass, Tick
  <2>2. Publishing' = Publishing
    BY <2>1 DEF Publishing
  <2> QED
    BY <1>7, <1>9, <2>2 DEF Pass
<1>10. \A c \in Evaluators : c = e
    OBVIOUS
<1> HIDE DEF owed, owed2
<1> QED
    BY Zenon, <1>2, <1>3, <1>4, <1>5, <1>6, <1>8, <1>9, <1>10
    DEF Next, Evaluate, RequestSync, RequestRead, RequestWrite, SignalChanges, vars

\* With one evaluator and the one-step repository no firing is announced
\* twice, also when publishes fail, the process dies and operators reset the
\* state of the rule under the evaluation.
THEOREM NoFiringAnnouncedTwice ==
    ASSUME SyncStore, NEW e, Evaluators = {e}
    PROVE  Spec => []AnnouncedOnce
<1> DEFINE Copy == CopyHasState(tick[e])
<1>1. Init => Copy /\ AnnouncedOnce
  <2> SUFFICES ASSUME Init PROVE Copy /\ AnnouncedOnce
    OBVIOUS
  <2>1. tick[e] = Idle
    BY DEF Init
  <2>2. Publishing = {}
    BY <2>1 DEF Publishing, Idle
  <2> QED
    BY <2>1, <2>2, FS_EmptySet DEF Init, AnnouncedOnce, CopyHasState, Idle
<1>2. SyncInv /\ Copy /\ [Next]_vars => Copy'
    BY StateStep
<1>3. SyncInv /\ Copy /\ AnnouncedOnce /\ [Next]_vars => AnnouncedOnce'
    BY OnceStep
<1>4. SyncInv /\ [Next]_vars => SyncInv'
    BY SyncStep
<1> HIDE DEF Copy
<1> QED
    BY <1>1, <1>2, <1>3, <1>4, SyncInit, PTL DEF Spec

-----------------------------------------------------------------------------
(* EvaluatorLeadership: type correctness.                                  *)

\* The constructors of lock values and calls stay within their types.
LEMMA Constructors ==
    /\ Free \in Lock
    /\ \A r \in Replicas, age \in 0 .. MaxLag : Held(r, age) \in Lock
    /\ \A op \in {"acquire", "heartbeat", "release"} : NewCall(op) \in Call
    /\ \A c \in Call, at \in {"statement", "readback", "answer"} : MovedTo(c, at) \in Call
    /\ \A c \in Call, b \in BOOLEAN : [c EXCEPT !.at = "answer", !.mine = b] \in Call
    /\ \A c \in Call : c.age < MaxLag => OlderCall(c) \in Call
<1>1. Free \in Lock
    BY LeaseAssumption DEF Free, Lock, Left
<1>2. ASSUME NEW r \in Replicas, NEW age \in 0 .. MaxLag PROVE Held(r, age) \in Lock
  <2>1. Ttl - age \in Left
    BY LeaseAssumption DEF Left
  <2> QED
    BY <2>1 DEF Held, Lock
<1>3. ASSUME NEW op \in {"acquire", "heartbeat", "release"} PROVE NewCall(op) \in Call
    BY LeaseAssumption DEF NewCall, Call
<1>4. ASSUME NEW c \in Call, NEW at \in {"statement", "readback", "answer"}
      PROVE MovedTo(c, at) \in Call
    BY DEF MovedTo, Call
<1>5. ASSUME NEW c \in Call, NEW b \in BOOLEAN
      PROVE [c EXCEPT !.at = "answer", !.mine = b] \in Call
    BY Zenon DEF Call
<1>6. ASSUME NEW c \in Call, c.age < MaxLag PROVE OlderCall(c) \in Call
    BY SMTT(40), <1>6, LeaseAssumption DEF OlderCall, Call
<1> QED
    BY Zenon, <1>1, <1>2, <1>3, <1>4, <1>5, <1>6

\* Every step of the lease, the services and the environment keeps the types.
LEMMA LeaseTypeStep == LeaseTypeOK /\ [LeaseNext]_leaseVars => LeaseTypeOK'
<1> SUFFICES ASSUME LeaseTypeOK, [LeaseNext]_leaseVars PROVE LeaseTypeOK'
    OBVIOUS
<1> USE DEF LeaseTypeOK
<1>1. ASSUME NEW r \in Replicas, Start(r) PROVE LeaseTypeOK'
    BY Zenon, <1>1, Constructors DEF Start
<1>2. ASSUME NEW r \in Replicas, TickLeader(r) PROVE LeaseTypeOK'
    BY Zenon, <1>2, Constructors DEF TickLeader
<1>3. ASSUME NEW r \in Replicas, Stop(r) PROVE LeaseTypeOK'
    BY Zenon, <1>3, Constructors DEF Stop
<1>4. ASSUME NEW r \in Replicas, NEW c \in calls[r], Acquire(r, c) PROVE LeaseTypeOK'
  <2>1. c \in Call /\ c.age \in 0 .. MaxLag
    BY DEF Call
  <2>2. lock' \in Lock
    BY Zenon, <1>4, <2>1, Constructors DEF Acquire
  <2> QED
    BY Zenon, <1>4, <2>1, <2>2, Constructors DEF Acquire, Replace
<1>5. ASSUME NEW r \in Replicas, NEW c \in calls[r], Heartbeat(r, c) PROVE LeaseTypeOK'
  <2>1. c \in Call /\ c.age \in 0 .. MaxLag
    BY DEF Call
  <2>2. lock' \in Lock
    BY Zenon, <1>5, <2>1, Constructors DEF Heartbeat
  <2> QED
    BY Zenon, <1>5, <2>1, <2>2, Constructors DEF Heartbeat, Replace
<1>6. ASSUME NEW r \in Replicas, NEW c \in calls[r], ReadBack(r, c) PROVE LeaseTypeOK'
  <2> DEFINE d == [c EXCEPT !.at = "answer", !.mine = (lock.holder = r)]
  <2>1. d \in Call
    BY Zenon, Constructors
  <2> HIDE DEF d
  <2>2. calls' = [calls EXCEPT ![r] = (@ \ {c}) \cup {d}]
    BY SMTT(40), <1>6 DEF ReadBack, Replace, d
  <2> QED
    BY SMTT(40), <1>6, <2>1, <2>2 DEF ReadBack
<1>7. ASSUME NEW r \in Replicas, NEW c \in calls[r], Release(r, c) PROVE LeaseTypeOK'
    BY Zenon, <1>7, Constructors DEF Release, Drop
<1>8. ASSUME NEW r \in Replicas, NEW c \in calls[r], AnswerHeartbeat(r, c) PROVE LeaseTypeOK'
    BY <1>8 DEF AnswerHeartbeat, Drop, Call
<1>9. ASSUME NEW r \in Replicas, NEW c \in calls[r], AnswerAcquire(r, c) PROVE LeaseTypeOK'
    BY <1>9 DEF AnswerAcquire, Drop, Call
<1>10. ASSUME NEW r \in Replicas, AskRefresh(r) PROVE LeaseTypeOK'
    BY <1>10 DEF AskRefresh
<1>11. ASSUME NEW r \in Replicas, FindAll(r) PROVE LeaseTypeOK'
    BY <1>11 DEF FindAll
<1>12. ASSUME NEW r \in Replicas, NEW list \in {"scheduled", "absent"}, Schedule(r, list)
       PROVE LeaseTypeOK'
    BY <1>12 DEF Schedule
<1>13. ASSUME NEW r \in Replicas, RefreshFails(r) PROVE LeaseTypeOK'
    BY <1>13, LeaseAssumption DEF RefreshFails, Fault
<1>14. ASSUME NEW r \in Replicas, NEW c \in calls[r], CallFails(r, c) PROVE LeaseTypeOK'
    BY <1>14, LeaseAssumption DEF CallFails, Fault, Drop
<1>15. ASSUME NEW r \in Replicas, Crash(r) PROVE LeaseTypeOK'
    BY <1>15, LeaseAssumption DEF Crash, Fault
<1>16. ASSUME Toggle PROVE LeaseTypeOK'
    BY <1>16, LeaseAssumption DEF Toggle
<1>17. ASSUME TimePasses PROVE LeaseTypeOK'
  <2>1. lock' \in Lock
    BY <1>17, LeaseAssumption DEF TimePasses, Lock, Left
  <2>2. calls' \in [Replicas -> SUBSET Call]
    <3>1. ASSUME NEW q \in Replicas, NEW c \in calls[q] PROVE OlderCall(c) \in Call
        BY Zenon, <1>17, Constructors DEF TimePasses
    <3> QED
        BY SMTT(40), <1>17, <3>1 DEF TimePasses
  <2> QED
    BY <1>17, <2>1, <2>2 DEF TimePasses
<1>18. ASSUME UNCHANGED leaseVars PROVE LeaseTypeOK'
    BY <1>18 DEF leaseVars
<1> QED
    BY <1>1, <1>2, <1>3, <1>4, <1>5, <1>6, <1>7, <1>8, <1>9, <1>10, <1>11, <1>12,
       <1>13, <1>14, <1>15, <1>16, <1>17, <1>18
    DEF LeaseNext, LockCall, Refresh

\* The initial row, flags and sets have their types.
LEMMA LeaseTypeInit == LeaseInit => LeaseTypeOK
<1> SUFFICES ASSUME LeaseInit PROVE LeaseTypeOK
    BY SMTT(40)
<1>1. lock \in Lock
    BY Zenon, Constructors DEF LeaseInit
<1>2. toggles \in 0 .. MaxToggles /\ leaseFaults \in 0 .. MaxLeaseFaults
    BY LeaseAssumption DEF LeaseInit
<1>3. calls \in [Replicas -> SUBSET Call]
    BY DEF LeaseInit
<1> QED
    BY <1>1, <1>2, <1>3 DEF LeaseInit, LeaseTypeOK

\* Lock rows, flags, calls and refreshes always have their types.
THEOREM LeaseTypeCorrect == LeaseSpec => []LeaseTypeOK
BY LeaseTypeInit, LeaseTypeStep, PTL DEF LeaseSpec

-----------------------------------------------------------------------------
(* One evaluator, as long as leases are renewed in time.                   *)

\* A call that will make its replica leader.
Won(c) == c.op = "acquire" /\ c.at = "answer" /\ c.mine

\* What a running replica may rely on.  The last conjunct is the heart of it:
\* when the row of a running replica is expired, that replica has built
\* nothing on it, and a call it has just made carries a fresh clock reading.
Grounded(r) ==
    Running(r) =>
        /\ isLeader[r] => lock.holder = r
        /\ timers[r] \/ refreshes[r] # {} => isLeader[r]
        /\ \A c \in calls[r] :
              /\ Won(c) => lock.holder = r
              /\ c.op # "release"
              /\ c.op = "heartbeat" => isLeader[r] /\ (c.at = "answer" => c.mine)
        /\ lock.holder = r /\ lock.left < 0 =>
              /\ ~isLeader[r]
              /\ \A c \in calls[r] : c.op = "acquire" /\ c.at = "statement" /\ c.age = 0

\* A service that was not started has nothing going on.
Unstarted(r) ==
    status[r] = "new" => ~isLeader[r] /\ ~timers[r] /\ calls[r] = {} /\ refreshes[r] = {}

LeadInv == LeaseTypeOK /\ \A r \in Replicas : Grounded(r) /\ Unstarted(r)

\* Moving a call on, or letting it age, changes nothing else about it.
LEMMA Fields ==
    ASSUME NEW c \in Call
    PROVE  /\ MovedTo(c, "readback").op = c.op
           /\ MovedTo(c, "readback").at = "readback"
           /\ OlderCall(c).op = c.op /\ OlderCall(c).at = c.at /\ OlderCall(c).mine = c.mine
BY DEF Call, MovedTo, OlderCall

\* With leases renewed in time, no step takes a replica's ground away.
LEMMA LeadStep ==
    ASSUME Prompt, LeadInv, [LeaseNext]_leaseVars
    PROVE  \A q \in Replicas : Grounded(q)' /\ Unstarted(q)'
<1> SUFFICES ASSUME NEW q \in Replicas PROVE Grounded(q)' /\ Unstarted(q)'
    OBVIOUS
<1> USE DEF LeadInv, LeaseTypeOK
<1>0. Ttl \in Nat /\ MaxLag \in Nat /\ MaxLag <= Ttl /\ NoReplica \notin Replicas
    BY LeaseAssumption
<1>00. \A r \in Replicas : \A c \in calls[r] :
          c \in Call /\ c.age \in 0 .. MaxLag /\ c.mine \in BOOLEAN /\ lock.left \in Int
    BY <1>0 DEF Call, Lock, Left
<1>1. ASSUME NEW r \in Replicas, Start(r)
      PROVE Grounded(q)' /\ Unstarted(q)'
  <2>1. CASE q = r
    BY <1>1, <1>0, <1>00, <2>1 DEF Grounded, Unstarted, Running, Start, NewCall, Won
  <2>2. CASE q # r
    BY <1>1, <1>0, <1>00, <2>2 DEF Grounded, Unstarted, Running, Start, NewCall, Won
  <2> QED
    BY <2>1, <2>2
<1>2. ASSUME NEW r \in Replicas, TickLeader(r)
      PROVE Grounded(q)' /\ Unstarted(q)'
  <2>1. CASE q = r
    BY <1>2, <1>0, <1>00, <2>1 DEF Grounded, Unstarted, Running, TickLeader, NewCall, Won
  <2>2. CASE q # r
    BY <1>2, <1>0, <1>00, <2>2 DEF Grounded, Unstarted, Running, TickLeader, NewCall, Won
  <2> QED
    BY <2>1, <2>2
<1>3. ASSUME NEW r \in Replicas, Stop(r)
      PROVE Grounded(q)' /\ Unstarted(q)'
  <2>1. CASE q = r
    BY <1>3, <1>0, <1>00, <2>1 DEF Grounded, Unstarted, Running, Stop
  <2>2. CASE q # r
    BY <1>3, <1>0, <1>00, <2>2 DEF Grounded, Unstarted, Running, Stop
  <2> QED
    BY <2>1, <2>2
<1>4. ASSUME NEW r \in Replicas, NEW c \in calls[r], Acquire(r, c)
      PROVE Grounded(q)' /\ Unstarted(q)'
  <2>1. CASE q = r
    <3>1. calls[r]' = (calls[r] \ {c}) \cup {MovedTo(c, "readback")}
        BY <1>4 DEF Acquire, Replace
    <3>2. MovedTo(c, "readback").op = c.op /\ MovedTo(c, "readback").at = "readback"
        BY <1>00, Fields
    <3>3. Held(r, c.age).holder = r /\ Held(r, c.age).left >= 0
        BY <1>0, <1>00 DEF Held
    <3>4. isLeader[r]' = isLeader[r] /\ timers[r]' = timers[r]
          /\ refreshes[r]' = refreshes[r] /\ status[r]' = status[r] /\ status[r] # "new"
        BY <1>4 DEF Acquire, Unstarted
    <3>5. CASE CanClaim(c)
      <4>1. lock'.holder = r /\ ~(lock'.left < 0)
        BY <1>4, <1>0, <1>00, <3>3, <3>5 DEF Acquire, Held
      <4> QED
        BY <1>4, <2>1, <3>1, <3>2, <3>4, <4>1 DEF Acquire, Grounded, Unstarted, Running, Won
    <3>6. CASE ~CanClaim(c)
      <4>1. lock' = lock
        BY <1>4, <3>6 DEF Acquire
      <4>2. Running(r) => ~(lock.holder = r /\ lock.left < 0)
        BY <1>00, <3>6 DEF Grounded, CanClaim
      <4> QED
        BY <1>4, <2>1, <3>1, <3>2, <3>4, <4>1, <4>2
        DEF Acquire, Grounded, Unstarted, Running, Won
    <3> QED
        BY <3>5, <3>6
  <2>2. CASE q # r
    BY <1>4, <1>0, <1>00, <2>2 DEF Grounded, Unstarted, Running, Acquire, Replace, MovedTo, Held, CanClaim, Won
  <2> QED
    BY <2>1, <2>2
<1>5. ASSUME NEW r \in Replicas, NEW c \in calls[r], Heartbeat(r, c)
      PROVE Grounded(q)' /\ Unstarted(q)'
  <2>1. CASE q = r
    <3>1. calls[r]' = (calls[r] \ {c}) \cup {MovedTo(c, "readback")}
        BY <1>5 DEF Heartbeat, Replace
    <3>2. MovedTo(c, "readback").op = c.op /\ MovedTo(c, "readback").at = "readback"
        BY <1>00, Fields
    <3>3. Held(r, c.age).holder = r /\ Held(r, c.age).left >= 0
        BY <1>0, <1>00 DEF Held
    <3>4. isLeader[r]' = isLeader[r] /\ timers[r]' = timers[r]
          /\ refreshes[r]' = refreshes[r] /\ status[r]' = status[r] /\ status[r] # "new"
        BY <1>5 DEF Heartbeat, Unstarted
    <3>5. Running(r) => isLeader[r] /\ lock'.holder = r /\ ~(lock'.left < 0)
        BY <1>5, <1>0, <1>00, <3>3 DEF Heartbeat, Grounded, Held
    <3> QED
        BY <1>5, <2>1, <3>1, <3>2, <3>4, <3>5
        DEF Heartbeat, Grounded, Unstarted, Running, Won
  <2>2. CASE q # r
    BY <1>5, <1>0, <1>00, <2>2 DEF Grounded, Unstarted, Running, Heartbeat, Replace, MovedTo, Held, Won
  <2> QED
    BY <2>1, <2>2
<1>6. ASSUME NEW r \in Replicas, NEW c \in calls[r], ReadBack(r, c)
      PROVE Grounded(q)' /\ Unstarted(q)'
  <2>1. CASE q = r
    <3> DEFINE d == [c EXCEPT !.at = "answer", !.mine = (lock.holder = r)]
    <3>1. calls[r]' = (calls[r] \ {c}) \cup {d}
        BY <1>6 DEF ReadBack, Replace
    <3>2. d.op = c.op /\ d.at = "answer" /\ (d.mine <=> lock.holder = r)
        BY ZenonT(60), <1>00 DEF Call
    <3> HIDE DEF d
    <3> QED
        BY <1>6, <1>0, <1>00, <2>1, <3>1, <3>2
        DEF Grounded, Unstarted, Running, ReadBack, Won
  <2>2. CASE q # r
    BY <1>6, <1>0, <1>00, <2>2 DEF Grounded, Unstarted, Running, ReadBack, Replace, Won
  <2> QED
    BY <2>1, <2>2
<1>7. ASSUME NEW r \in Replicas, NEW c \in calls[r], Release(r, c)
      PROVE Grounded(q)' /\ Unstarted(q)'
  <2>1. CASE q = r
    BY <1>7, <1>0, <1>00, <2>1 DEF Grounded, Unstarted, Running, Release, Drop, Free, Won
  <2>2. CASE q # r
    BY <1>7, <1>0, <1>00, <2>2 DEF Grounded, Unstarted, Running, Release, Drop, Free, Won
  <2> QED
    BY <2>1, <2>2
<1>8. ASSUME NEW r \in Replicas, NEW c \in calls[r], AnswerHeartbeat(r, c)
      PROVE Grounded(q)' /\ Unstarted(q)'
  <2>1. CASE q = r
    BY <1>8, <1>0, <1>00, <2>1 DEF Grounded, Unstarted, Running, AnswerHeartbeat, Drop, Won
  <2>2. CASE q # r
    BY <1>8, <1>0, <1>00, <2>2 DEF Grounded, Unstarted, Running, AnswerHeartbeat, Drop, Won
  <2> QED
    BY <2>1, <2>2
<1>9. ASSUME NEW r \in Replicas, NEW c \in calls[r], AnswerAcquire(r, c)
      PROVE Grounded(q)' /\ Unstarted(q)'
  <2>1. CASE q = r
    BY <1>9, <1>0, <1>00, <2>1 DEF Grounded, Unstarted, Running, AnswerAcquire, Drop, Won
  <2>2. CASE q # r
    BY <1>9, <1>0, <1>00, <2>2 DEF Grounded, Unstarted, Running, AnswerAcquire, Drop, Won
  <2> QED
    BY <2>1, <2>2
<1>10. ASSUME NEW r \in Replicas, AskRefresh(r)
      PROVE Grounded(q)' /\ Unstarted(q)'
  <2>1. CASE q = r
    BY <1>10, <1>0, <1>00, <2>1 DEF Grounded, Unstarted, Running, AskRefresh, Won
  <2>2. CASE q # r
    BY <1>10, <1>0, <1>00, <2>2 DEF Grounded, Unstarted, Running, AskRefresh, Won
  <2> QED
    BY <2>1, <2>2
<1>11. ASSUME NEW r \in Replicas, FindAll(r)
      PROVE Grounded(q)' /\ Unstarted(q)'
  <2>1. CASE q = r
    BY <1>11, <1>0, <1>00, <2>1 DEF Grounded, Unstarted, Running, FindAll, Won
  <2>2. CASE q # r
    BY <1>11, <1>0, <1>00, <2>2 DEF Grounded, Unstarted, Running, FindAll, Won
  <2> QED
    BY <2>1, <2>2
<1>12. ASSUME NEW r \in Replicas, NEW list \in {"scheduled", "absent"}, Schedule(r, list)
      PROVE Grounded(q)' /\ Unstarted(q)'
  <2>1. CASE q = r
    BY <1>12, <1>0, <1>00, <2>1 DEF Grounded, Unstarted, Running, Schedule, Won
  <2>2. CASE q # r
    BY <1>12, <1>0, <1>00, <2>2 DEF Grounded, Unstarted, Running, Schedule, Won
  <2> QED
    BY <2>1, <2>2
<1>13. ASSUME NEW r \in Replicas, RefreshFails(r)
      PROVE Grounded(q)' /\ Unstarted(q)'
  <2>1. CASE q = r
    BY <1>13, <1>0, <1>00, <2>1 DEF Grounded, Unstarted, Running, RefreshFails, Won
  <2>2. CASE q # r
    BY <1>13, <1>0, <1>00, <2>2 DEF Grounded, Unstarted, Running, RefreshFails, Won
  <2> QED
    BY <2>1, <2>2
<1>14. ASSUME NEW r \in Replicas, NEW c \in calls[r], CallFails(r, c)
      PROVE Grounded(q)' /\ Unstarted(q)'
  <2>1. CASE q = r
    BY <1>14, <1>0, <1>00, <2>1 DEF Grounded, Unstarted, Running, CallFails, Drop, Won
  <2>2. CASE q # r
    BY <1>14, <1>0, <1>00, <2>2 DEF Grounded, Unstarted, Running, CallFails, Drop, Won
  <2> QED
    BY <2>1, <2>2
<1>15. ASSUME NEW r \in Replicas, Crash(r)
      PROVE Grounded(q)' /\ Unstarted(q)'
  <2>1. CASE q = r
    BY <1>15, <1>0, <1>00, <2>1 DEF Grounded, Unstarted, Running, Crash
  <2>2. CASE q # r
    BY <1>15, <1>0, <1>00, <2>2 DEF Grounded, Unstarted, Running, Crash
  <2> QED
    BY <2>1, <2>2
<1>16. ASSUME Toggle PROVE Grounded(q)' /\ Unstarted(q)'
    BY <1>16 DEF Toggle, Grounded, Unstarted, Running, Won
<1>17. ASSUME TimePasses PROVE Grounded(q)' /\ Unstarted(q)'
  <2>1. calls[q]' = {OlderCall(c) : c \in calls[q]}
    BY <1>17 DEF TimePasses
  <2>2. \A c \in calls[q] :
            OlderCall(c).op = c.op /\ OlderCall(c).at = c.at /\ OlderCall(c).mine = c.mine
    BY <1>00, Fields
  <2>3. lock'.holder = lock.holder /\ (lock'.left < 0 => lock.left <= 0)
    BY <1>17, <1>0 DEF TimePasses, Lock, Left
  <2>4. Running(q) /\ lock.holder = q /\ lock.left <= 0 => ~isLeader[q] /\ calls[q] = {}
    BY <1>17 DEF TimePasses, Late, Stake
  <2> QED
    BY <1>17, <2>1, <2>2, <2>3, <2>4 DEF TimePasses, Grounded, Unstarted, Running, Won
<1>18. ASSUME UNCHANGED leaseVars PROVE Grounded(q)' /\ Unstarted(q)'
    BY <1>18 DEF leaseVars, Grounded, Unstarted, Running, Won
<1> QED
    BY <1>1, <1>2, <1>3, <1>4, <1>5, <1>6, <1>7, <1>8, <1>9, <1>10, <1>11, <1>12, <1>13, <1>14, <1>15, <1>16, <1>17, <1>18
    DEF LeaseNext, LockCall, Refresh

\* leader-lock.ts promises one evaluator across replicas.  It is so for any
\* number of replicas, as long as leases are renewed before they run out.
THEOREM OneEvaluator == ASSUME Prompt PROVE LeaseSpec => []SoleEvaluator
<1>1. LeaseInit => LeadInv
  <2> SUFFICES ASSUME LeaseInit PROVE \A r \in Replicas : Grounded(r) /\ Unstarted(r)
    BY LeaseTypeInit DEF LeadInv
  <2> QED
    BY DEF LeaseInit, Grounded, Unstarted, Running
<1>2. LeadInv /\ [LeaseNext]_leaseVars => LeadInv'
    BY LeadStep, LeaseTypeStep DEF LeadInv
<1>3. LeadInv => SoleEvaluator
    BY SMTT(40) DEF LeadInv, Grounded, SoleEvaluator, Evaluates
<1> QED
    BY <1>1, <1>2, <1>3, PTL DEF LeaseSpec
-----------------------------------------------------------------------------
(* The row never leaves a healthy holder, prompt or not.                   *)

\* Only stop releases the lock.
ReleasesFollowStop ==
    \A r \in Replicas : status[r] # "stopped" => \A c \in calls[r] : c.op # "release"

\* A release is only ever under way once its service is stopped.
LEMMA ReleaseStep ==
    ASSUME LeaseTypeOK, ReleasesFollowStop, [LeaseNext]_leaseVars
    PROVE  ReleasesFollowStop'
<1> SUFFICES ASSUME NEW q \in Replicas, status'[q] # "stopped", NEW d \in calls'[q]
             PROVE d.op # "release"
    BY DEF ReleasesFollowStop
<1> USE DEF LeaseTypeOK, ReleasesFollowStop, Running
<1>0. \A r \in Replicas : \A c \in calls[r] : c \in Call
    OBVIOUS
<1>1. ASSUME NEW r \in Replicas, Start(r) PROVE d.op # "release"
    BY <1>1 DEF Start, NewCall
<1>2. ASSUME NEW r \in Replicas, TickLeader(r) PROVE d.op # "release"
    BY <1>2 DEF TickLeader, NewCall
<1>3. ASSUME NEW r \in Replicas, Stop(r) PROVE d.op # "release"
    BY <1>3 DEF Stop
<1>4. ASSUME NEW r \in Replicas, NEW c \in calls[r], Acquire(r, c) PROVE d.op # "release"
  <2>1. MovedTo(c, "readback").op # "release"
    BY <1>4, <1>0, Fields DEF Acquire
  <2> QED
    BY <1>4, <2>1 DEF Acquire, Replace
<1>5. ASSUME NEW r \in Replicas, NEW c \in calls[r], Heartbeat(r, c) PROVE d.op # "release"
  <2>1. MovedTo(c, "readback").op # "release"
    BY <1>5, <1>0, Fields DEF Heartbeat
  <2> QED
    BY <1>5, <2>1 DEF Heartbeat, Replace
<1>6. ASSUME NEW r \in Replicas, NEW c \in calls[r], ReadBack(r, c) PROVE d.op # "release"
  <2> DEFINE e == [c EXCEPT !.at = "answer", !.mine = (lock.holder = r)]
  <2>1. e.op = c.op
    BY <1>0 DEF Call
  <2>2. status' = status /\ calls' = [calls EXCEPT ![r] = (@ \ {c}) \cup {e}]
    BY <1>6 DEF ReadBack, Replace
  <2> HIDE DEF e
  <2> QED
    BY <2>1, <2>2
<1>7. ASSUME NEW r \in Replicas, NEW c \in calls[r], Release(r, c) PROVE d.op # "release"
    BY <1>7 DEF Release, Drop
<1>8. ASSUME NEW r \in Replicas, NEW c \in calls[r], AnswerHeartbeat(r, c) PROVE d.op # "release"
    BY <1>8 DEF AnswerHeartbeat, Drop
<1>9. ASSUME NEW r \in Replicas, NEW c \in calls[r], AnswerAcquire(r, c) PROVE d.op # "release"
    BY <1>9 DEF AnswerAcquire, Drop
<1>10. ASSUME NEW r \in Replicas, AskRefresh(r) PROVE d.op # "release"
    BY <1>10 DEF AskRefresh
<1>11. ASSUME NEW r \in Replicas, FindAll(r) PROVE d.op # "release"
    BY <1>11 DEF FindAll
<1>12. ASSUME NEW r \in Replicas, NEW list \in {"scheduled", "absent"}, Schedule(r, list) PROVE d.op # "release"
    BY <1>12 DEF Schedule
<1>13. ASSUME NEW r \in Replicas, RefreshFails(r) PROVE d.op # "release"
    BY <1>13 DEF RefreshFails
<1>14. ASSUME NEW r \in Replicas, NEW c \in calls[r], CallFails(r, c) PROVE d.op # "release"
    BY <1>14 DEF CallFails, Drop
<1>15. ASSUME NEW r \in Replicas, Crash(r) PROVE d.op # "release"
    BY <1>15 DEF Crash
<1>16. ASSUME Toggle PROVE d.op # "release"
    BY <1>16 DEF Toggle
<1>17. ASSUME TimePasses PROVE d.op # "release"
  <2>1. PICK c \in calls[q] : d = OlderCall(c)
    BY <1>17 DEF TimePasses
  <2> QED
    BY <1>17, <1>0, <2>1, Fields DEF TimePasses
<1>18. ASSUME UNCHANGED leaseVars PROVE d.op # "release"
    BY <1>18 DEF leaseVars
<1> QED
    BY <1>1, <1>2, <1>3, <1>4, <1>5, <1>6, <1>7, <1>8, <1>9, <1>10, <1>11, <1>12, <1>13, <1>14, <1>15, <1>16, <1>17, <1>18
    DEF LeaseNext, LockCall, Refresh

\* Whatever the delays, the row is taken from a running replica only after
\* its lease ran out: tryAcquire and heartbeat stomp on nobody.
THEOREM NeverStomps == LeaseSpec => NoStomping
<1>1. LeaseInit => ReleasesFollowStop
    BY SMTT(40) DEF LeaseInit, ReleasesFollowStop
<1> DEFINE Healthy == lock'.holder # lock.holder /\ lock.holder # NoReplica
                        => lock.left < 0 \/ ~Running(lock.holder)
<1>2. LeaseTypeOK /\ ReleasesFollowStop /\ [LeaseNext]_leaseVars => [Healthy]_leaseVars
  <2> SUFFICES ASSUME LeaseTypeOK, ReleasesFollowStop, LeaseNext,
                      lock'.holder # lock.holder, lock.holder # NoReplica
               PROVE  lock.left < 0 \/ ~Running(lock.holder)
    OBVIOUS
  <2>1. ASSUME NEW r \in Replicas, NEW c \in calls[r], Acquire(r, c)
        PROVE  lock.left < 0
    <3>1. c.age \in Nat /\ lock.left \in Int
        BY LeaseAssumption DEF LeaseTypeOK, Call, Lock, Left
    <3> QED
        BY <2>1, <3>1 DEF Acquire, CanClaim
  <2>2. ASSUME NEW r \in Replicas, NEW c \in calls[r], Heartbeat(r, c) PROVE FALSE
    BY <2>2 DEF Heartbeat, Held
  <2>3. ASSUME NEW r \in Replicas, NEW c \in calls[r], Release(r, c)
        PROVE  ~Running(lock.holder)
    BY <2>3 DEF Release, ReleasesFollowStop, Running
  <2>4. ASSUME TimePasses PROVE FALSE
    BY <2>4 DEF TimePasses, LeaseTypeOK, Lock
  <2>5. CASE lock' = lock
    BY <2>5
  <2> QED
    BY ZenonT(60), <2>1, <2>2, <2>3, <2>4, <2>5
    DEF LeaseNext, LockCall, Refresh, Start, TickLeader, Stop, Crash, AskRefresh, FindAll,
        Schedule, RefreshFails, CallFails, ReadBack, AnswerHeartbeat, AnswerAcquire, Toggle
<1> QED
    BY <1>1, <1>2, LeaseTypeInit, LeaseTypeStep, ReleaseStep, PTL DEF LeaseSpec, NoStomping
=============================================================================
