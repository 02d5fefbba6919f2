------------------------ MODULE PlanExecutionProofs ------------------------
(***************************************************************************)
(* Proofs about PlanExecution for any number of drivers, steps, requests   *)
(* and crashes, and for both stores; at the end, about the plan of a lone  *)
(* driver, whose requests do not overlap.                                  *)
(***************************************************************************)
EXTENDS PlanExecution, TLAPS

(* Calls that are about a step. *)
StepCalls == {"submit", "link", "start", "run", "done", "fail", "halt", "skip",
              "reset", "unskip", "grant", "refuse", "stepRejected"}

(* A continuation about a step names one of the plan's, and one about to    *)
(* resolve a request names an existing row.                                 *)
Focused(k, rows) ==
  /\ k.call \in StepCalls => k.ord \in Steps
  /\ k.call \in {"grant", "refuse"} => k.apr \in DOMAIN rows

(* TypeOK without the drivers. *)
StoreType ==
  /\ plan \in PlanStatus
  /\ autoEdit \in BOOLEAN
  /\ tolerant \subseteq Steps
  /\ step \in [Steps -> StepStatus]
  /\ approvals \in Seq([step : Steps, status : ApprovalStatus])
  /\ consent \in Consent
  /\ granted \subseteq Steps
  /\ ran \subseteq Steps
  /\ requests \in Nat
  /\ crashes \in Nat

(* Type correctness as an inductive invariant. *)
TypeInv ==
  /\ StoreType
  /\ drv \in [Drivers -> Continuation]
  /\ \A d \in Drivers : Focused(drv[d], approvals)

LEMMA TypeInvImpliesTypeOK == TypeInv => TypeOK
BY DEF TypeInv, StoreType, TypeOK

(* The frames the actions build are continuations. *)
LEMMA FrameType ==
  ASSUME NEW call \in Calls, NEW ord \in 0 .. NSteps, NEW todo \in SUBSET Steps,
         NEW flag \in BOOLEAN, NEW apr \in Nat
  PROVE  /\ Frame(call, ord, todo, flag, apr) \in Continuation
         /\ Frame(call, ord, todo, flag, apr).call = call
         /\ Frame(call, ord, todo, flag, apr).ord = ord
         /\ Frame(call, ord, todo, flag, apr).todo = todo
         /\ Frame(call, ord, todo, flag, apr).flag = flag
         /\ Frame(call, ord, todo, flag, apr).apr = apr
         /\ Frame(call, ord, todo, flag, apr).fetched = FALSE
BY DEF Frame, Continuation, Rows, NoRow, PlanStatus, StepStatus

LEMMA AtType ==
  ASSUME NEW call \in Calls, NEW ord \in 0 .. NSteps
  PROVE  /\ At(call, ord) \in Continuation
         /\ At(call, ord).call = call
         /\ At(call, ord).ord = ord
         /\ At(call, ord).fetched = FALSE
BY DEF At, Frame, Continuation, Rows, NoRow, PlanStatus, StepStatus

LEMMA IdleType ==
  /\ Idle \in Continuation
  /\ Idle.call = "idle"
  /\ Idle.fetched = FALSE
<1>1. "idle" \in Calls /\ 0 \in 0 .. NSteps
  BY ConstantsAssumption DEF Calls
<1> QED
  BY Zenon, <1>1, AtType DEF Idle

LEMMA ContinuationType ==
  ASSUME NEW k \in Continuation
  PROVE  /\ k.call \in Calls
         /\ k.ord \in 0 .. NSteps
         /\ k.todo \in SUBSET Steps
         /\ k.flag \in BOOLEAN
         /\ k.apr \in Nat
         /\ k.fetched \in BOOLEAN
         /\ k.row \in Rows
BY DEF Continuation

(* What a patch keeps is well typed. *)
LEMMA ExistingType ==
  ASSUME NEW d \in Drivers, TypeInv
  PROVE  /\ Current(d) \in Rows
         /\ Existing(d).plan \in PlanStatus
         /\ Existing(d).autoEdit \in BOOLEAN
         /\ Existing(d).step \in StepStatus
<1>1. Current(d) \in Rows
  BY DEF Current, Rows, TypeInv, StoreType, StepStatus
<1>2. Existing(d) \in Rows
  BY <1>1, ContinuationType DEF Existing, TypeInv
<1> QED
  BY <1>1, <1>2 DEF Rows

(* A continuation that names nothing that does not exist. *)
Placed(k, rows) == k \in Continuation /\ Focused(k, rows)

(* Moving one driver to a focused continuation, over a store that stays     *)
(* well typed and loses no approval request, keeps the invariant.           *)
LEMMA MoveType ==
  ASSUME TypeInv, NEW d \in Drivers, NEW k, Goto(d, k), Placed(k, approvals'),
         StoreType', DOMAIN approvals \subseteq DOMAIN approvals'
  PROVE  TypeInv'
<1>1. drv' \in [Drivers -> Continuation]
  BY DEF Goto, TypeInv, Placed
<1>2. ASSUME NEW e \in Drivers
      PROVE  Focused(drv'[e], approvals')
  BY DEF Goto, TypeInv, Placed, Focused
<1> QED
  BY <1>1, <1>2 DEF TypeInv

(* Calls about the whole plan, and idling, are about no step; calls about a *)
(* step are placed when the step, and the request, exist.                   *)
LEMMA PlanPlaced ==
  ASSUME NEW call \in Calls \ StepCalls, NEW rows
  PROVE  Placed(At(call, 0), rows)
<1>1. 0 \in 0 .. NSteps
  BY ConstantsAssumption
<1>2. At(call, 0) \in Continuation /\ At(call, 0).call = call
  BY Zenon, <1>1, AtType
<1>3. call \notin {"grant", "refuse"}
  BY DEF StepCalls
<1> QED
  BY <1>2, <1>3 DEF Placed, Focused

LEMMA IdlePlaced == ASSUME NEW rows PROVE Placed(Idle, rows)
<1>1. "idle" \in Calls \ StepCalls
  BY DEF Calls, StepCalls
<1> QED
  BY <1>1, PlanPlaced DEF Idle

LEMMA FramePlaced ==
  ASSUME NEW call \in StepCalls, NEW ord \in Steps, NEW todo \in SUBSET Steps,
         NEW flag \in BOOLEAN, NEW apr \in Nat, NEW rows,
         call \in {"grant", "refuse"} => apr \in DOMAIN rows
  PROVE  Placed(Frame(call, ord, todo, flag, apr), rows)
<1>1. call \in Calls
  BY DEF Calls, StepCalls
<1>2. ord \in 0 .. NSteps
  BY ConstantsAssumption DEF Steps
<1>3. Frame(call, ord, todo, flag, apr) \in Continuation
  BY <1>1, <1>2 DEF Frame, Continuation, Rows, NoRow, PlanStatus, StepStatus
<1>4. /\ Frame(call, ord, todo, flag, apr).call = call
      /\ Frame(call, ord, todo, flag, apr).ord = ord
      /\ Frame(call, ord, todo, flag, apr).apr = apr
  BY DEF Frame
<1> QED
  BY <1>3, <1>4 DEF Placed, Focused

LEMMA StepPlaced ==
  ASSUME NEW call \in StepCalls \ {"grant", "refuse"}, NEW ord \in Steps, NEW rows
  PROVE  Placed(At(call, ord), rows)
<1>1. {} \in SUBSET Steps /\ FALSE \in BOOLEAN /\ 0 \in Nat
  OBVIOUS
<1> QED
  BY Zenon, <1>1, FramePlaced DEF At

(* What a driver about to act on a step carries. *)
LEMMA AtStep ==
  ASSUME TypeInv, NEW d \in Drivers, drv[d].call \in StepCalls
  PROVE  drv[d].ord \in Steps /\ drv[d].todo \in SUBSET Steps /\ drv[d].flag \in BOOLEAN
BY ContinuationType DEF TypeInv, Focused

LEMMA TypeInit == Init => TypeInv
<1> SUFFICES ASSUME Init PROVE TypeInv
  OBVIOUS
<1>1. StoreType
  <2>1. step \in [Steps -> StepStatus]
    BY DEF Init, StepStatus
  <2>2. approvals \in Seq([step : Steps, status : ApprovalStatus])
    BY DEF Init
  <2> QED
    BY Zenon, <2>1, <2>2 DEF Init, StoreType, PlanStatus, Consent
<1>2. drv \in [Drivers -> Continuation]
  BY IdleType DEF Init
<1>3. \A d \in Drivers : Focused(drv[d], approvals)
  BY Zenon, IdleType DEF Init, Focused, StepCalls
<1> QED
  BY <1>1, <1>2, <1>3 DEF TypeInv




(* An approval request is about a step of the plan. *)
LEMMA ApprovalRow ==
  ASSUME TypeInv, NEW i \in DOMAIN approvals
  PROVE  approvals[i].step \in Steps /\ i \in Nat
<1> DEFINE R == [step : Steps, status : ApprovalStatus]
<1>1. approvals \in Seq(R)
  BY DEF TypeInv, StoreType
<1> HIDE DEF R
<1>2. DOMAIN approvals = 1 .. Len(approvals) /\ Len(approvals) \in Nat
  BY <1>1
<1>3. approvals[i] \in R
  BY <1>1, <1>2
<1> QED
  BY <1>2, <1>3 DEF R

(* Resolving a request leaves a table of requests of the same length. *)
LEMMA ResolveType ==
  ASSUME TypeInv, NEW i \in DOMAIN approvals, NEW v \in ApprovalStatus
  PROVE  /\ [approvals EXCEPT ![i].status = v] \in Seq([step : Steps, status : ApprovalStatus])
         /\ DOMAIN [approvals EXCEPT ![i].status = v] = DOMAIN approvals
<1> DEFINE R == [step : Steps, status : ApprovalStatus]
           r == [approvals[i] EXCEPT !.status = v]
           q == [approvals EXCEPT ![i] = r]
<1>1. approvals \in Seq(R)
  BY DEF TypeInv, StoreType
<1>2. approvals[i] \in R
  <2> HIDE DEF R
  <2> QED
    BY <1>1
<1>3. r \in R
  BY <1>2
<1>4. q \in Seq(R) /\ DOMAIN q = DOMAIN approvals
  <2> HIDE DEF R, r
  <2> QED
    BY <1>1, <1>3
<1> QED
  BY <1>4

(* Requests keep the invariant: they only read the store. *)
LEMMA TypeRequest ==
  ASSUME TypeInv, NEW d \in Drivers, Request(d)
  PROVE  TypeInv'
<1>1. ASSUME NEW C \in SUBSET Steps, NEW primary \in BOOLEAN, Create(d, C, primary)
      PROVE  TypeInv'
  <2>1. StoreType' /\ DOMAIN approvals \subseteq DOMAIN approvals'
    BY <1>1 DEF Create, Begin, TypeInv, StoreType, store, history, PlanStatus
  <2>2. Placed(At("linkPlan", 0), approvals')
    BY PlanPlaced DEF Calls, StepCalls
  <2>3. Placed(Idle, approvals')
    BY IdlePlaced
  <2>4. Placed((IF primary THEN At("linkPlan", 0) ELSE Idle), approvals')
    BY <2>2, <2>3
  <2>5. Goto(d, (IF primary THEN At("linkPlan", 0) ELSE Idle))
    BY <1>1 DEF Create
  <2> QED
    BY <2>1, <2>4, <2>5, MoveType
<1>2. ASSUME NEW auto \in BOOLEAN, ApproveRead(d, auto)
      PROVE  TypeInv'
  <2>1. StoreType' /\ DOMAIN approvals \subseteq DOMAIN approvals'
    BY <1>2 DEF ApproveRead, Begin, TypeInv, StoreType, store, history
  <2>2. Placed(Frame("approved", 0, {}, auto, 0), approvals')
    <3>1. Frame("approved", 0, {}, auto, 0) \in Continuation
      BY ConstantsAssumption DEF Calls, Frame, Continuation, Rows, NoRow, PlanStatus, StepStatus
    <3>2. Frame("approved", 0, {}, auto, 0).call = "approved"
      BY DEF Frame
    <3> QED
      BY <3>1, <3>2 DEF Placed, Focused, StepCalls
  <2>3. Goto(d, Frame("approved", 0, {}, auto, 0))
    BY <1>2 DEF ApproveRead
  <2> QED
    BY <2>1, <2>2, <2>3, MoveType
<1>3. CASE RejectRead(d)
  <2>1. StoreType' /\ DOMAIN approvals \subseteq DOMAIN approvals'
    BY <1>3 DEF RejectRead, Begin, TypeInv, StoreType, store, history
  <2>2. Placed(At("reject", 0), approvals')
    BY PlanPlaced DEF Calls, StepCalls
  <2>3. Goto(d, At("reject", 0))
    BY <1>3 DEF RejectRead
  <2> QED
    BY <2>1, <2>2, <2>3, MoveType
<1>4. CASE CancelRead(d)
  <2>1. StoreType' /\ DOMAIN approvals \subseteq DOMAIN approvals'
    BY <1>4 DEF CancelRead, Begin, TypeInv, StoreType, store, history
  <2>2. Placed(At("cancel", 0), approvals')
    BY PlanPlaced DEF Calls, StepCalls
  <2>3. Goto(d, At("cancel", 0))
    BY <1>4 DEF CancelRead
  <2> QED
    BY <2>1, <2>2, <2>3, MoveType
<1>5. CASE Expire(d)
  BY <1>5 DEF Expire, Begin, TypeInv, StoreType, history, PlanStatus
<1>6. ASSUME NEW s \in Steps, RetryRead(d, s)
      PROVE  TypeInv'
  <2>1. StoreType' /\ DOMAIN approvals \subseteq DOMAIN approvals'
    BY <1>6 DEF RetryRead, Begin, TypeInv, StoreType, store, history
  <2>2. Placed(Frame("reset", s, {t \in Steps : plan = "failed" /\ t > s /\ step[t] = "skipped"}, plan = "failed", 0), approvals')
    BY ZenonT(60), <1>6, FramePlaced DEF StepCalls
  <2>3. Goto(d, Frame("reset", s, {t \in Steps : plan = "failed" /\ t > s /\ step[t] = "skipped"}, plan = "failed", 0))
    BY <1>6 DEF RetryRead
  <2> QED
    BY <2>1, <2>2, <2>3, MoveType
<1>7. ASSUME NEW i \in DOMAIN approvals, NEW call \in {"grant", "refuse"}, ResolveRead(d, i, call)
      PROVE  TypeInv'
  <2>1. StoreType' /\ DOMAIN approvals \subseteq DOMAIN approvals'
    BY <1>7, ApprovalRow DEF ResolveRead, Begin, TypeInv, StoreType, store, history
  <2>2. Placed(Frame(call, approvals[i].step, {}, FALSE, i), approvals')
    BY Zenon, <1>7, <2>1, ApprovalRow, FramePlaced DEF StepCalls
  <2>3. Goto(d, Frame(call, approvals[i].step, {}, FALSE, i))
    BY Zenon, <1>7 DEF ResolveRead
  <2> QED
    BY Zenon, <2>1, <2>2, <2>3, MoveType
<1>8. ASSUME NEW i \in DOMAIN approvals, Override(d, i)
      PROVE  TypeInv'
  <2>1. StoreType' /\ DOMAIN approvals \subseteq DOMAIN approvals'
    BY <1>8, ApprovalRow DEF Override, Begin, TypeInv, StoreType, store, history
  <2>2. Placed(Frame("grant", approvals[i].step, {}, FALSE, i), approvals')
    BY Zenon, <1>8, <2>1, ApprovalRow, FramePlaced DEF StepCalls
  <2>3. Goto(d, Frame("grant", approvals[i].step, {}, FALSE, i))
    BY Zenon, <1>8 DEF Override
  <2> QED
    BY Zenon, <2>1, <2>2, <2>3, MoveType
<1> QED
  BY <1>1, <1>2, <1>3, <1>4, <1>5, <1>6, <1>7, <1>8 DEF Request

(* A driver resuming after an await keeps the invariant. *)
LEMMA TypeAdvance ==
  ASSUME TypeInv, NEW d \in Drivers, Advance(d)
  PROVE  TypeInv'
<1>1. CASE FetchRow(d)
  <2>1. [drv[d] EXCEPT !.fetched = TRUE, !.row = Current(d)] \in Continuation
    BY Zenon, ExistingType DEF TypeInv, Continuation
  <2>2. StoreType' /\ DOMAIN approvals \subseteq DOMAIN approvals'
    BY <1>1 DEF FetchRow, TypeInv, StoreType, store, history
  <2>3. Focused([drv[d] EXCEPT !.fetched = TRUE, !.row = Current(d)], approvals')
    BY <1>1 DEF FetchRow, TypeInv, Focused, Continuation, store
  <2> QED
    BY <1>1, <2>1, <2>2, <2>3, MoveType DEF FetchRow, Placed
<1>2. CASE LinkPlan(d)
  <2>1. StoreType' /\ DOMAIN approvals \subseteq DOMAIN approvals'
    BY Zenon, <1>2, ExistingType DEF LinkPlan, Resumes, TypeInv, StoreType, store, history, PatchPlan
  <2>2. Placed(Idle, approvals')
    BY IdlePlaced
  <2>3. Goto(d, Idle)
    BY <1>2 DEF LinkPlan
  <2> QED
    BY <2>1, <2>2, <2>3, MoveType
<1>3. CASE ApproveWrite(d)
  <2>1. StoreType' /\ DOMAIN approvals \subseteq DOMAIN approvals'
    BY <1>3, ContinuationType DEF ApproveWrite, Resumes, TypeInv, StoreType, store, history, PlanStatus, Consent
  <2>2. Placed(At("executing", 0), approvals')
    BY PlanPlaced DEF Calls, StepCalls
  <2>3. Goto(d, At("executing", 0))
    BY <1>3 DEF ApproveWrite
  <2> QED
    BY <2>1, <2>2, <2>3, MoveType
<1>4. CASE ExecutingWrite(d)
  <2>1. StoreType' /\ DOMAIN approvals \subseteq DOMAIN approvals'
    BY Zenon, <1>4, ExistingType DEF ExecutingWrite, Resumes, TypeInv, StoreType, store, history, PatchPlan, PlanStatus
  <2>2. Placed(At("next", 0), approvals')
    BY PlanPlaced DEF Calls, StepCalls
  <2>3. Goto(d, At("next", 0))
    BY <1>4 DEF ExecutingWrite
  <2> QED
    BY <2>1, <2>2, <2>3, MoveType
<1>5. CASE RejectWrite(d)
  <2>1. StoreType' /\ DOMAIN approvals \subseteq DOMAIN approvals'
    BY Zenon, <1>5, ExistingType DEF RejectWrite, Resumes, TypeInv, StoreType, store, history, PatchPlan, PlanStatus
  <2>2. Placed(Idle, approvals')
    BY IdlePlaced
  <2>3. Goto(d, Idle)
    BY <1>5 DEF RejectWrite
  <2> QED
    BY <2>1, <2>2, <2>3, MoveType
<1>6. CASE CancelWrite(d)
  <2>1. StoreType' /\ DOMAIN approvals \subseteq DOMAIN approvals'
    BY Zenon, <1>6, ExistingType DEF CancelWrite, Resumes, TypeInv, StoreType, store, history, PatchPlan, PlanStatus
  <2>2. Placed(Idle, approvals')
    BY IdlePlaced
  <2>3. Goto(d, Idle)
    BY <1>6 DEF CancelWrite
  <2> QED
    BY <2>1, <2>2, <2>3, MoveType
<1>7. CASE RunNextStops(d)
  <2>1. StoreType' /\ DOMAIN approvals \subseteq DOMAIN approvals'
    BY <1>7 DEF RunNextStops, Resumes, TypeInv, StoreType, store, history
  <2>2. Placed(Idle, approvals')
    BY IdlePlaced
  <2>3. Goto(d, Idle)
    BY <1>7 DEF RunNextStops
  <2> QED
    BY <2>1, <2>2, <2>3, MoveType
<1>8. CASE RunNextFindsNone(d)
  <2>1. StoreType' /\ DOMAIN approvals \subseteq DOMAIN approvals'
    BY <1>8 DEF RunNextFindsNone, Resumes, TypeInv, StoreType, store, history
  <2>2. Placed(At("complete", 0), approvals')
    BY PlanPlaced DEF Calls, StepCalls
  <2>3. Goto(d, At("complete", 0))
    BY <1>8 DEF RunNextFindsNone
  <2> QED
    BY <2>1, <2>2, <2>3, MoveType
<1>9. ASSUME NEW s \in Steps, RunNextPicks(d, s)
      PROVE  TypeInv'
  <2>1. StoreType' /\ DOMAIN approvals \subseteq DOMAIN approvals'
    BY <1>9 DEF RunNextPicks, Resumes, TypeInv, StoreType, store, history
  <2>2. Placed(At(IF autoEdit THEN "start" ELSE "submit", s), approvals')
    BY <1>9, StepPlaced DEF StepCalls
  <2>3. Goto(d, At(IF autoEdit THEN "start" ELSE "submit", s))
    BY <1>9 DEF RunNextPicks
  <2> QED
    BY <2>1, <2>2, <2>3, MoveType
<1>10. CASE CompleteWrite(d)
  <2>1. StoreType' /\ DOMAIN approvals \subseteq DOMAIN approvals'
    BY Zenon, <1>10, ExistingType DEF CompleteWrite, Resumes, TypeInv, StoreType, store, history, PatchPlan, PlanStatus
  <2>2. Placed(Idle, approvals')
    BY IdlePlaced
  <2>3. Goto(d, Idle)
    BY <1>10 DEF CompleteWrite
  <2> QED
    BY <2>1, <2>2, <2>3, MoveType
<1>11. CASE Submit(d)
  <2>1. drv[d].ord \in Steps /\ drv[d].todo \in SUBSET Steps /\ drv[d].flag \in BOOLEAN
    BY <1>11, AtStep DEF Submit, Resumes, StepCalls
  <2>2. StoreType' /\ DOMAIN approvals \subseteq DOMAIN approvals'
    BY <1>11 DEF Submit, Resumes, TypeInv, StoreType, store, history, Focused, StepCalls, ApprovalStatus
  <2>3. Placed(At("link", drv[d].ord), approvals')
    BY <1>11, <2>1, StepPlaced DEF StepCalls
  <2>4. Goto(d, At("link", drv[d].ord))
    BY <1>11 DEF Submit
  <2> QED
    BY <2>2, <2>3, <2>4, MoveType
<1>12. CASE Link(d)
  <2>1. StoreType' /\ DOMAIN approvals \subseteq DOMAIN approvals'
    BY Zenon, <1>12, ExistingType DEF Link, Resumes, TypeInv, StoreType, store, history, PatchStep
  <2>2. Placed(Idle, approvals')
    BY IdlePlaced
  <2>3. Goto(d, Idle)
    BY <1>12 DEF Link
  <2> QED
    BY <2>1, <2>2, <2>3, MoveType
<1>13. CASE StartWrite(d)
  <2>1. drv[d].ord \in Steps /\ drv[d].todo \in SUBSET Steps /\ drv[d].flag \in BOOLEAN
    BY <1>13, AtStep DEF StartWrite, Resumes, StepCalls
  <2>2. StoreType' /\ DOMAIN approvals \subseteq DOMAIN approvals'
    BY Zenon, <1>13 DEF StartWrite, Resumes, TypeInv, StoreType, store, history, PatchStep, StepStatus
  <2>3. Placed(At("run", drv[d].ord), approvals')
    BY <1>13, <2>1, StepPlaced DEF StepCalls
  <2>4. Goto(d, At("run", drv[d].ord))
    BY <1>13 DEF StartWrite, Resumes
  <2> QED
    BY <2>2, <2>3, <2>4, MoveType
<1>14. CASE RunRefused(d)
  <2>1. drv[d].ord \in Steps /\ drv[d].todo \in SUBSET Steps /\ drv[d].flag \in BOOLEAN
    BY <1>14, AtStep DEF RunRefused, Resumes, StepCalls
  <2>2. StoreType' /\ DOMAIN approvals \subseteq DOMAIN approvals'
    BY <1>14 DEF RunRefused, Resumes, TypeInv, StoreType, store, history
  <2>3. Placed(At("fail", drv[d].ord), approvals')
    BY <1>14, <2>1, StepPlaced DEF StepCalls
  <2>4. Goto(d, At("fail", drv[d].ord))
    BY <1>14 DEF RunRefused, Resumes
  <2> QED
    BY <2>2, <2>3, <2>4, MoveType
<1>15. ASSUME NEW o \in {"done", "fail"}, RunCommand(d, o)
      PROVE  TypeInv'
  <2>1. drv[d].ord \in Steps /\ drv[d].todo \in SUBSET Steps /\ drv[d].flag \in BOOLEAN
    BY <1>15, AtStep DEF RunCommand, Resumes, StepCalls
  <2>2. StoreType' /\ DOMAIN approvals \subseteq DOMAIN approvals'
    BY <1>15 DEF RunCommand, Resumes, TypeInv, StoreType, store, history, Focused, StepCalls
  <2>3. Placed(At(o, drv[d].ord), approvals')
    BY <1>15, <2>1, StepPlaced DEF StepCalls
  <2>4. Goto(d, At(o, drv[d].ord))
    BY <1>15 DEF RunCommand, Resumes
  <2> QED
    BY <2>2, <2>3, <2>4, MoveType
<1>16. CASE DoneWrite(d)
  <2>1. StoreType' /\ DOMAIN approvals \subseteq DOMAIN approvals'
    BY Zenon, <1>16 DEF DoneWrite, Resumes, TypeInv, StoreType, store, history, PatchStep, StepStatus
  <2>2. Placed(At("next", 0), approvals')
    BY PlanPlaced DEF Calls, StepCalls
  <2>3. Goto(d, At("next", 0))
    BY <1>16 DEF DoneWrite
  <2> QED
    BY <2>1, <2>2, <2>3, MoveType
<1>17. CASE FailWrite(d)
  <2>1. drv[d].ord \in Steps /\ drv[d].todo \in SUBSET Steps /\ drv[d].flag \in BOOLEAN
    BY <1>17, AtStep DEF FailWrite, Resumes, StepCalls
  <2>2. StoreType' /\ DOMAIN approvals \subseteq DOMAIN approvals'
    BY Zenon, <1>17 DEF FailWrite, Resumes, TypeInv, StoreType, store, history, PatchStep, StepStatus
  <2>3. Placed(At("next", 0), approvals')
    BY PlanPlaced DEF Calls, StepCalls
  <2>4. Placed(Frame("halt", drv[d].ord, {}, TRUE, 0), approvals')
    BY Zenon, <1>17, <2>1, FramePlaced DEF StepCalls
  <2>5. Placed((IF drv[d].ord \in tolerant THEN At("next", 0) ELSE Frame("halt", drv[d].ord, {}, TRUE, 0)), approvals')
    BY Zenon, <2>3, <2>4
  <2>6. Goto(d, (IF drv[d].ord \in tolerant THEN At("next", 0) ELSE Frame("halt", drv[d].ord, {}, TRUE, 0)))
    BY Zenon, <1>17 DEF FailWrite, Resumes
  <2> QED
    BY Zenon, <2>2, <2>5, <2>6, MoveType
<1>18. CASE HaltRead(d)
  <2>1. drv[d].ord \in Steps /\ drv[d].todo \in SUBSET Steps /\ drv[d].flag \in BOOLEAN
    BY <1>18, AtStep DEF HaltRead, Resumes, StepCalls
  <2>2. StoreType' /\ DOMAIN approvals \subseteq DOMAIN approvals'
    BY <1>18 DEF HaltRead, Resumes, TypeInv, StoreType, store, history
  <2>3. Placed(Frame("skip", drv[d].ord, {s \in Steps : s > drv[d].ord /\ step[s] = "pending"}, drv[d].flag, 0), approvals')
    BY <1>18, <2>1, FramePlaced DEF StepCalls
  <2>4. Goto(d, Frame("skip", drv[d].ord, {s \in Steps : s > drv[d].ord /\ step[s] = "pending"}, drv[d].flag, 0))
    BY <1>18 DEF HaltRead, Resumes
  <2> QED
    BY <2>2, <2>3, <2>4, MoveType
<1>19. ASSUME NEW s \in Steps, HaltSkip(d, s)
      PROVE  TypeInv'
  <2>1. drv[d].ord \in Steps /\ drv[d].todo \in SUBSET Steps /\ drv[d].flag \in BOOLEAN
    BY <1>19, AtStep DEF HaltSkip, Resumes, StepCalls
  <2>2. StoreType' /\ DOMAIN approvals \subseteq DOMAIN approvals'
    BY <1>19 DEF HaltSkip, Resumes, TypeInv, StoreType, store, history, Walk, PatchStep, StepStatus
  <2>3. drv[d].call \in StepCalls \ {"grant", "refuse"} /\ drv[d].todo \ {s} \in SUBSET Steps
    BY <1>19, <2>1 DEF HaltSkip, Resumes, StepCalls
  <2>4. Placed(Frame(drv[d].call, drv[d].ord, drv[d].todo \ {s}, drv[d].flag, 0), approvals')
    BY <2>1, <2>3, FramePlaced
  <2>5. Goto(d, Frame(drv[d].call, drv[d].ord, drv[d].todo \ {s}, drv[d].flag, 0))
    BY <1>19 DEF HaltSkip, Walk, Resumes
  <2> QED
    BY <2>2, <2>4, <2>5, MoveType
<1>20. CASE HaltWrite(d)
  <2>1. StoreType' /\ DOMAIN approvals \subseteq DOMAIN approvals'
    BY Zenon, <1>20, ExistingType DEF HaltWrite, Resumes, TypeInv, StoreType, store, history, PatchPlan, PlanStatus
  <2>2. Placed(At("next", 0), approvals')
    BY PlanPlaced DEF Calls, StepCalls
  <2>3. Placed(Idle, approvals')
    BY IdlePlaced
  <2>4. Placed((IF drv[d].flag THEN At("next", 0) ELSE Idle), approvals')
    BY <2>2, <2>3
  <2>5. Goto(d, (IF drv[d].flag THEN At("next", 0) ELSE Idle))
    BY <1>20 DEF HaltWrite
  <2> QED
    BY <2>1, <2>4, <2>5, MoveType
<1>21. CASE RetryReset(d)
  <2>1. drv[d].ord \in Steps /\ drv[d].todo \in SUBSET Steps /\ drv[d].flag \in BOOLEAN
    BY <1>21, AtStep DEF RetryReset, Resumes, StepCalls
  <2>2. StoreType' /\ DOMAIN approvals \subseteq DOMAIN approvals'
    BY Zenon, <1>21 DEF RetryReset, Resumes, TypeInv, StoreType, store, history, PatchStep, StepStatus
  <2>3. Placed(Frame(IF drv[d].flag THEN "unskip" ELSE "start", drv[d].ord, drv[d].todo, FALSE, 0), approvals')
    BY Zenon, <1>21, <2>1, FramePlaced DEF StepCalls
  <2>4. Goto(d, Frame(IF drv[d].flag THEN "unskip" ELSE "start", drv[d].ord, drv[d].todo, FALSE, 0))
    BY Zenon, <1>21 DEF RetryReset, Resumes
  <2> QED
    BY Zenon, <2>2, <2>3, <2>4, MoveType
<1>22. ASSUME NEW s \in Steps, RetryUnskip(d, s)
      PROVE  TypeInv'
  <2>1. drv[d].ord \in Steps /\ drv[d].todo \in SUBSET Steps /\ drv[d].flag \in BOOLEAN
    BY <1>22, AtStep DEF RetryUnskip, Resumes, StepCalls
  <2>2. StoreType' /\ DOMAIN approvals \subseteq DOMAIN approvals'
    BY <1>22 DEF RetryUnskip, Resumes, TypeInv, StoreType, store, history, Walk, PatchStep, StepStatus
  <2>3. drv[d].call \in StepCalls \ {"grant", "refuse"} /\ drv[d].todo \ {s} \in SUBSET Steps
    BY <1>22, <2>1 DEF RetryUnskip, Resumes, StepCalls
  <2>4. Placed(Frame(drv[d].call, drv[d].ord, drv[d].todo \ {s}, drv[d].flag, 0), approvals')
    BY <2>1, <2>3, FramePlaced
  <2>5. Goto(d, Frame(drv[d].call, drv[d].ord, drv[d].todo \ {s}, drv[d].flag, 0))
    BY <1>22 DEF RetryUnskip, Walk, Resumes
  <2> QED
    BY <2>2, <2>4, <2>5, MoveType
<1>23. CASE RetryResume(d)
  <2>1. drv[d].ord \in Steps /\ drv[d].todo \in SUBSET Steps /\ drv[d].flag \in BOOLEAN
    BY <1>23, AtStep DEF RetryResume, Resumes, StepCalls
  <2>2. StoreType' /\ DOMAIN approvals \subseteq DOMAIN approvals'
    BY Zenon, <1>23, ExistingType DEF RetryResume, Resumes, TypeInv, StoreType, store, history, PatchPlan, PlanStatus
  <2>3. Placed(At("start", drv[d].ord), approvals')
    BY <1>23, <2>1, StepPlaced DEF StepCalls
  <2>4. Goto(d, At("start", drv[d].ord))
    BY <1>23 DEF RetryResume, Resumes
  <2> QED
    BY <2>2, <2>3, <2>4, MoveType
<1>24. CASE ResolveApproved(d)
  <2>1. drv[d].ord \in Steps /\ drv[d].todo \in SUBSET Steps /\ drv[d].flag \in BOOLEAN
    BY <1>24, AtStep DEF ResolveApproved, Resumes, StepCalls
  <2>2. StoreType' /\ DOMAIN approvals \subseteq DOMAIN approvals'
    BY Zenon, <1>24, ResolveType DEF ResolveApproved, Resumes, TypeInv, StoreType, store, history, Focused, StepCalls, ApprovalStatus
  <2>3. Placed(At("start", drv[d].ord), approvals')
    BY <1>24, <2>1, StepPlaced DEF StepCalls
  <2>4. Goto(d, At("start", drv[d].ord))
    BY <1>24 DEF ResolveApproved, Resumes
  <2> QED
    BY <2>2, <2>3, <2>4, MoveType
<1>25. CASE ResolveRejected(d)
  <2>1. drv[d].ord \in Steps /\ drv[d].todo \in SUBSET Steps /\ drv[d].flag \in BOOLEAN
    BY <1>25, AtStep DEF ResolveRejected, Resumes, StepCalls
  <2>2. StoreType' /\ DOMAIN approvals \subseteq DOMAIN approvals'
    BY Zenon, <1>25, ResolveType DEF ResolveRejected, Resumes, TypeInv, StoreType, store, history, Focused, StepCalls, ApprovalStatus
  <2>3. Placed(At("stepRejected", drv[d].ord), approvals')
    BY <1>25, <2>1, StepPlaced DEF StepCalls
  <2>4. Goto(d, At("stepRejected", drv[d].ord))
    BY <1>25 DEF ResolveRejected, Resumes
  <2> QED
    BY <2>2, <2>3, <2>4, MoveType
<1>26. CASE StepRejectedWrite(d)
  <2>1. drv[d].ord \in Steps /\ drv[d].todo \in SUBSET Steps /\ drv[d].flag \in BOOLEAN
    BY <1>26, AtStep DEF StepRejectedWrite, Resumes, StepCalls
  <2>2. StoreType' /\ DOMAIN approvals \subseteq DOMAIN approvals'
    BY Zenon, <1>26 DEF StepRejectedWrite, Resumes, TypeInv, StoreType, store, history, PatchStep, StepStatus
  <2>3. Placed(At("next", 0), approvals')
    BY PlanPlaced DEF Calls, StepCalls
  <2>4. Placed(At("halt", drv[d].ord), approvals')
    BY <2>1, StepPlaced DEF StepCalls
  <2>5. Placed(At(IF drv[d].ord \in tolerant THEN "next" ELSE "halt", IF drv[d].ord \in tolerant THEN 0 ELSE drv[d].ord), approvals')
    BY <2>3, <2>4
  <2>6. Goto(d, At(IF drv[d].ord \in tolerant THEN "next" ELSE "halt", IF drv[d].ord \in tolerant THEN 0 ELSE drv[d].ord))
    BY <1>26 DEF StepRejectedWrite, Resumes
  <2> QED
    BY <2>2, <2>5, <2>6, MoveType
<1> QED
  BY <1>1, <1>2, <1>3, <1>4, <1>5, <1>6, <1>7, <1>8, <1>9, <1>10, <1>11, <1>12, <1>13, <1>14, <1>15, <1>16, <1>17, <1>18, <1>19, <1>20, <1>21, <1>22, <1>23, <1>24, <1>25, <1>26
  DEF Advance

(* Every behaviour is well typed. *)
LEMMA TypeStep == TypeInv /\ [Next]_vars => TypeInv'
<1> SUFFICES ASSUME TypeInv, [Next]_vars PROVE TypeInv'
  OBVIOUS
<1>1. CASE Crash
  BY <1>1, IdleType DEF Crash, TypeInv, StoreType, Focused, StepCalls, store, history
<1>2. CASE UNCHANGED vars
  BY <1>2 DEF vars, store, history, TypeInv, StoreType
<1> QED
  BY <1>1, <1>2, TypeRequest, TypeAdvance DEF Next

(* The store's columns, the history and every driver's locals keep their    *)
(* types, and no driver works on a step or a request that does not exist.   *)
THEOREM TypeCorrect == Spec => []TypeOK
<1>1. Spec => []TypeInv
  BY TypeInit, TypeStep, PTL DEF Spec
<1> QED
  BY <1>1, TypeInvImpliesTypeOK, PTL

-----------------------------------------------------------------------------
(* Consent *)

Undecided == {"absent", "pending_approval", "rejected", "expired"}

(* Calls a driver can be at before any approval of the plan. *)
BeforeConsent == {"idle", "linkPlan", "approved", "reject"}

(* Calls that lead to the step's command without asking again. *)
Commanding == {"reset", "unskip", "start", "run"}

(* A continuation keeps within consent c and grants g. *)
Mandated(k, c, g) ==
  /\ k.fetched /\ k.row.autoEdit => c = "auto"
  /\ k.call \in Commanding => c = "auto" \/ k.ord \in g
  /\ c = "none" => k.call \in BeforeConsent /\ (k.fetched => k.row.plan \in Undecided)

(* The store agrees with the consent given: autoEdit is only set by it, and *)
(* before it nothing has started.                                           *)
StoreConsent ==
  /\ autoEdit => consent = "auto"
  /\ consent = "auto" \/ ran \subseteq granted
  /\ consent = "none" =>
       /\ plan \in Undecided
       /\ approvals = << >>
       /\ \A s \in Steps : step[s] = "pending"
       /\ ran = {}

ConsentInv ==
  /\ StoreConsent
  /\ \A d \in Drivers : Mandated(drv[d], consent, granted)

LEMMA ConsentInit == Init => ConsentInv
BY IdleType DEF Init, ConsentInv, StoreConsent, Undecided, Mandated, Commanding, BeforeConsent

(* Consent and grants only grow. *)
Grows ==
  /\ granted \subseteq granted'
  /\ consent' # consent => consent' # "none" /\ consent # "auto"

LEMMA MoveConsent ==
  ASSUME TypeInv, ConsentInv, NEW d \in Drivers, NEW k, Goto(d, k),
         StoreConsent', Grows, Mandated(k, consent', granted')
  PROVE  ConsentInv'
<1>1. ASSUME NEW e \in Drivers
      PROVE  Mandated(drv'[e], consent', granted')
  BY DEF Goto, TypeInv, ConsentInv, Mandated, Grows
<1> QED
  BY <1>1 DEF ConsentInv

(* A driver that starts a call carries no row, so its mandate is the call's. *)
LEMMA FrameMandate ==
  ASSUME NEW call, NEW ord, NEW todo, NEW flag, NEW apr, NEW c, NEW g,
         call \in Commanding => c = "auto" \/ ord \in g,
         c = "none" => call \in BeforeConsent
  PROVE  Mandated(Frame(call, ord, todo, flag, apr), c, g)
BY DEF Frame, Mandated

(* The same of a call that is about one step, or about none. *)
LEMMA AtMandate ==
  ASSUME NEW call, NEW ord, NEW c, NEW g,
         call \in Commanding => c = "auto" \/ ord \in g,
         c = "none" => call \in BeforeConsent
  PROVE  Mandated(At(call, ord), c, g)
BY Zenon, FrameMandate DEF At

(* An idle driver needs no mandate. *)
LEMMA IdleMandate == ASSUME NEW c, NEW g PROVE Mandated(Idle, c, g)
BY AtMandate DEF Idle, Commanding, BeforeConsent

(* Most calls are only reached once the plan was approved. *)
LEMMA Consented ==
  ASSUME ConsentInv, NEW d \in Drivers, drv[d].call \notin BeforeConsent
  PROVE  consent # "none"
BY DEF ConsentInv, Mandated

(* A patch of the plan sets no autoEdit that was not consented to. *)
LEMMA PatchConsent ==
  ASSUME ConsentInv, NEW d \in Drivers, NEW status, PatchPlan(d, status)
  PROVE  autoEdit' => consent = "auto"
BY Zenon DEF PatchPlan, CanPatch, Existing, Current, ConsentInv, StoreConsent, Mandated

(* After the approval a step that leaves the history alone may write what   *)
(* it likes to plan and steps.                                              *)
LEMMA StoreKept ==
  ASSUME ConsentInv, consent # "none", UNCHANGED history, autoEdit' => consent = "auto"
  PROVE  StoreConsent' /\ Grows
BY DEF ConsentInv, StoreConsent, Grows, history

(* A step that leaves store and history alone keeps them in agreement. *)
LEMMA StoreUnchanged ==
  ASSUME ConsentInv, UNCHANGED <<store, history>>
  PROVE  StoreConsent' /\ Grows
BY DEF ConsentInv, StoreConsent, Grows, store, history

(* A request starts with the mandate of the operator behind it. *)
LEMMA ConsentRequest ==
  ASSUME TypeInv, ConsentInv, NEW d \in Drivers, Request(d)
  PROVE  ConsentInv'
<1>0. consent = "none" => plan \in Undecided /\ approvals = << >>
  BY DEF ConsentInv, StoreConsent
<1>1. ASSUME NEW C \in SUBSET Steps, NEW primary \in BOOLEAN, Create(d, C, primary)
      PROVE  ConsentInv'
  <2>1. StoreConsent' /\ Grows
    BY <1>1 DEF Create, Grows, history, ConsentInv, StoreConsent, Undecided
  <2>2. Mandated(At("linkPlan", 0), consent', granted')
    BY AtMandate DEF Commanding, BeforeConsent
  <2>3. Mandated(Idle, consent', granted')
    BY IdleMandate
  <2> QED
    BY <1>1, <2>1, <2>2, <2>3, MoveConsent DEF Create
<1>2. ASSUME NEW auto \in BOOLEAN, ApproveRead(d, auto)
      PROVE  ConsentInv'
  <2>1. Mandated(Frame("approved", 0, {}, auto, 0), consent', granted')
    BY FrameMandate DEF Commanding, BeforeConsent
  <2> QED
    BY <1>2, <2>1, StoreUnchanged, MoveConsent DEF ApproveRead
<1>3. CASE RejectRead(d)
  <2>1. Mandated(At("reject", 0), consent', granted')
    BY AtMandate DEF Commanding, BeforeConsent
  <2> QED
    BY <1>3, <2>1, StoreUnchanged, MoveConsent DEF RejectRead
<1>4. CASE CancelRead(d)
  <2>1. consent' = consent /\ consent # "none"
    BY <1>0, <1>4 DEF CancelRead, Undecided, history
  <2>2. Mandated(At("cancel", 0), consent', granted')
    BY <2>1, AtMandate DEF Commanding
  <2> QED
    BY <1>4, <2>2, StoreUnchanged, MoveConsent DEF CancelRead
<1>5. CASE Expire(d)
  BY <1>5 DEF Expire, Begin, history, ConsentInv, StoreConsent, Undecided
<1>6. ASSUME NEW s \in Steps, RetryRead(d, s)
      PROVE  ConsentInv'
  <2>1. consent # "none"
    BY <1>6 DEF RetryRead, ConsentInv, StoreConsent
  <2>2. consent' = consent /\ s \in granted'
    BY <1>6 DEF RetryRead
  <2>3. StoreConsent' /\ Grows
    BY <1>6, <2>1 DEF RetryRead, Grows, store, ConsentInv, StoreConsent
  <2>4. \A todo, flag : Mandated(Frame("reset", s, todo, flag, 0), consent', granted')
    BY <2>1, <2>2, FrameMandate
  <2> QED
    BY <1>6, <2>3, <2>4, MoveConsent DEF RetryRead
<1>7. ASSUME NEW i \in DOMAIN approvals, NEW call \in {"grant", "refuse"},
             ResolveRead(d, i, call) \/ (call = "grant" /\ Override(d, i))
      PROVE  ConsentInv'
  <2>0. approvals # << >>
    OBVIOUS
  <2>1. consent' = consent /\ consent # "none"
    BY Zenon, <1>0, <1>7, <2>0 DEF ResolveRead, Override, history
  <2>2. Mandated(Frame(call, approvals[i].step, {}, FALSE, i), consent', granted')
    BY Zenon, <2>1, FrameMandate DEF Commanding
  <2> QED
    BY Zenon, <1>7, <2>2, StoreUnchanged, MoveConsent DEF ResolveRead, Override
<1> QED
  BY <1>1, <1>2, <1>3, <1>4, <1>5, <1>6, <1>7 DEF Request

(* A driver resuming after an await stays within its mandate, and writes    *)
(* back no autoEdit that was not consented to.                              *)
LEMMA ConsentAdvance ==
  ASSUME TypeInv, ConsentInv, NEW d \in Drivers, Advance(d)
  PROVE  ConsentInv'
<1>1. CASE FetchRow(d)
  <2>1. Mandated([drv[d] EXCEPT !.fetched = TRUE, !.row = Current(d)], consent', granted')
    BY <1>1 DEF FetchRow, Current, history, ConsentInv, StoreConsent, Mandated,
                TypeInv, Continuation
  <2> QED
    BY <1>1, <2>1, StoreUnchanged, MoveConsent DEF FetchRow
<1>2. CASE LinkPlan(d)
  <2>1. autoEdit' => consent = "auto"
    BY SMTT(40), <1>2, PatchConsent DEF LinkPlan
  <2>2. consent = "none" => plan' \in Undecided
    BY <1>2 DEF LinkPlan, PatchPlan, CanPatch, Existing, Current, ConsentInv, StoreConsent,
                Mandated
  <2>3. StoreConsent' /\ Grows
    BY <1>2, <2>1, <2>2 DEF LinkPlan, Grows, history, ConsentInv, StoreConsent
  <2> QED
    BY <1>2, <2>3, IdleMandate, MoveConsent DEF LinkPlan
<1>3. CASE ApproveWrite(d)
  <2>1. consent' # "none"
    BY <1>3 DEF ApproveWrite, TypeInv, StoreType, Consent
  <2>2. StoreConsent' /\ Grows
    BY <1>3, <2>1 DEF ApproveWrite, Grows, ConsentInv, StoreConsent, TypeInv, StoreType
  <2>3. Mandated(At("executing", 0), consent', granted')
    BY <2>1, AtMandate DEF Commanding
  <2> QED
    BY <1>3, <2>2, <2>3, MoveConsent DEF ApproveWrite
<1>4. CASE RejectWrite(d)
  <2>1. autoEdit' => consent = "auto"
    BY <1>4, PatchConsent DEF RejectWrite
  <2>2. StoreConsent' /\ Grows
    BY <1>4, <2>1 DEF RejectWrite, PatchPlan, Grows, history, ConsentInv, StoreConsent,
                      Undecided
  <2> QED
    BY <1>4, <2>2, IdleMandate, MoveConsent DEF RejectWrite
<1>5. CASE ExecutingWrite(d)
  <2>1. consent # "none"
    BY <1>5, Consented DEF ExecutingWrite, Resumes, BeforeConsent
  <2>2. StoreConsent' /\ Grows
    BY <1>5, <2>1, PatchConsent, StoreKept DEF ExecutingWrite
  <2>3. Mandated(At("next", 0), consent', granted')
    BY <1>5, <2>1, AtMandate DEF ExecutingWrite, history, Commanding
  <2> QED
    BY SMTT(40), <1>5, <2>2, <2>3, MoveConsent DEF ExecutingWrite
<1>6. CASE CancelWrite(d)
  <2>1. consent # "none"
    BY <1>6, Consented DEF CancelWrite, Resumes, BeforeConsent
  <2>2. StoreConsent' /\ Grows
    BY <1>6, <2>1, PatchConsent, StoreKept DEF CancelWrite
  <2> QED
    BY <1>6, <2>2, IdleMandate, MoveConsent DEF CancelWrite
<1>7. CASE RunNextStops(d)
  <2>1. consent # "none"
    BY <1>7, Consented DEF RunNextStops, Resumes, BeforeConsent
  <2>2. StoreConsent' /\ Grows
    BY <1>7, StoreUnchanged DEF RunNextStops
  <2> QED
    BY <1>7, <2>2, IdleMandate, MoveConsent DEF RunNextStops
<1>8. CASE RunNextFindsNone(d)
  <2>1. consent # "none"
    BY <1>8, Consented DEF RunNextFindsNone, Resumes, BeforeConsent
  <2>2. StoreConsent' /\ Grows
    BY <1>8, StoreUnchanged DEF RunNextFindsNone
  <2>3. Mandated(At("complete", 0), consent', granted')
    BY <1>8, <2>1, AtMandate DEF RunNextFindsNone, history, Commanding
  <2> QED
    BY <1>8, <2>2, <2>3, MoveConsent DEF RunNextFindsNone
<1>9. ASSUME NEW s \in Steps, RunNextPicks(d, s)
      PROVE  ConsentInv'
  <2>1. consent # "none"
    BY <1>9, Consented DEF RunNextPicks, Resumes, BeforeConsent
  <2>2. StoreConsent' /\ Grows
    BY <1>9, StoreUnchanged DEF RunNextPicks
  <2>3. Mandated(At(IF autoEdit THEN "start" ELSE "submit", s), consent', granted')
    BY <1>9, <2>1, AtMandate DEF RunNextPicks, history, Commanding, ConsentInv, StoreConsent
  <2> QED
    BY <1>9, <2>2, <2>3, MoveConsent DEF RunNextPicks
<1>10. CASE CompleteWrite(d)
  <2>1. consent # "none"
    BY <1>10, Consented DEF CompleteWrite, Resumes, BeforeConsent
  <2>2. StoreConsent' /\ Grows
    BY <1>10, <2>1, PatchConsent, StoreKept DEF CompleteWrite
  <2> QED
    BY <1>10, <2>2, IdleMandate, MoveConsent DEF CompleteWrite
<1>11. CASE Submit(d)
  <2>1. consent # "none"
    BY <1>11, Consented DEF Submit, Resumes, BeforeConsent
  <2>2. StoreConsent' /\ Grows
    BY <1>11, <2>1, StoreKept DEF Submit, ConsentInv, StoreConsent
  <2>3. Mandated(At("link", drv[d].ord), consent', granted')
    BY <1>11, <2>1, AtMandate DEF Submit, history, Commanding
  <2> QED
    BY <1>11, <2>2, <2>3, MoveConsent DEF Submit
<1>12. CASE Link(d)
  <2>1. consent # "none"
    BY <1>12, Consented DEF Link, Resumes, BeforeConsent
  <2>2. StoreConsent' /\ Grows
    BY <1>12, <2>1, StoreKept DEF Link, ConsentInv, StoreConsent
  <2> QED
    BY <1>12, <2>2, IdleMandate, MoveConsent DEF Link
<1>13. CASE StartWrite(d)
  <2>1. consent # "none"
    BY <1>13, Consented DEF StartWrite, Resumes, BeforeConsent
  <2>2. StoreConsent' /\ Grows
    BY SMTT(40), <1>13, <2>1, StoreKept DEF StartWrite, ConsentInv, StoreConsent
  <2>3. Mandated(At("run", drv[d].ord), consent', granted')
    BY Zenon, <1>13, <2>1, AtMandate DEF StartWrite, history, Commanding, Resumes, ConsentInv, Mandated
  <2> QED
    BY <1>13, <2>2, <2>3, MoveConsent DEF StartWrite
<1>14. CASE RunRefused(d)
  <2>1. consent # "none"
    BY <1>14, Consented DEF RunRefused, Resumes, BeforeConsent
  <2>2. StoreConsent' /\ Grows
    BY <1>14, StoreUnchanged DEF RunRefused
  <2>3. Mandated(At("fail", drv[d].ord), consent', granted')
    BY <1>14, <2>1, AtMandate DEF RunRefused, history, Commanding
  <2> QED
    BY <1>14, <2>2, <2>3, MoveConsent DEF RunRefused
<1>15. ASSUME NEW o \in {"done", "fail"}, RunCommand(d, o)
      PROVE  ConsentInv'
  <2>1. consent # "none" /\ (consent = "auto" \/ drv[d].ord \in granted)
    BY <1>15, Consented
    DEF RunCommand, Resumes, BeforeConsent, Commanding, ConsentInv, Mandated
  <2>2. StoreConsent' /\ Grows
    BY <1>15, <2>1 DEF RunCommand, store, Grows, ConsentInv, StoreConsent
  <2>3. Mandated(At(o, drv[d].ord), consent', granted')
    BY <1>15, <2>1, AtMandate DEF RunCommand, Commanding
  <2> QED
    BY <1>15, <2>2, <2>3, MoveConsent DEF RunCommand
<1>16. CASE DoneWrite(d)
  <2>1. consent # "none"
    BY <1>16, Consented DEF DoneWrite, Resumes, BeforeConsent
  <2>2. StoreConsent' /\ Grows
    BY <1>16, <2>1, StoreKept DEF DoneWrite, ConsentInv, StoreConsent
  <2>3. Mandated(At("next", 0), consent', granted')
    BY <1>16, <2>1, AtMandate DEF DoneWrite, history, Commanding
  <2> QED
    BY <1>16, <2>2, <2>3, MoveConsent DEF DoneWrite
<1>17. CASE FailWrite(d)
  <2>1. consent # "none"
    BY <1>17, Consented DEF FailWrite, Resumes, BeforeConsent
  <2>2. StoreConsent' /\ Grows
    BY <1>17, <2>1, StoreKept DEF FailWrite, ConsentInv, StoreConsent
  <2>3. /\ Mandated(At("next", 0), consent', granted')
        /\ Mandated(Frame("halt", drv[d].ord, {}, TRUE, 0), consent', granted')
    BY Zenon, <1>17, <2>1, AtMandate, FrameMandate DEF FailWrite, history, Commanding
  <2> QED
    BY ZenonT(60), <1>17, <2>2, <2>3, MoveConsent DEF FailWrite
<1>18. CASE HaltRead(d)
  <2>1. consent # "none"
    BY <1>18, Consented DEF HaltRead, Resumes, BeforeConsent
  <2>2. StoreConsent' /\ Grows
    BY <1>18, StoreUnchanged DEF HaltRead
  <2>3. \A todo : Mandated(Frame("skip", drv[d].ord, todo, drv[d].flag, 0), consent', granted')
    BY SMTT(40), <1>18, <2>1, FrameMandate DEF HaltRead, history, Commanding
  <2> QED
    BY Zenon, <1>18, <2>2, <2>3, MoveConsent DEF HaltRead
<1>19. ASSUME NEW s \in Steps, HaltSkip(d, s)
      PROVE  ConsentInv'
  <2>1. consent # "none"
    BY SMTT(40), <1>19, Consented DEF HaltSkip, Walk, Resumes, BeforeConsent
  <2>2. StoreConsent' /\ Grows
    BY SMTT(40), <1>19, <2>1, StoreKept DEF HaltSkip, Walk, ConsentInv, StoreConsent
  <2>3. Mandated(Frame(drv[d].call, drv[d].ord, drv[d].todo \ {s}, drv[d].flag, 0), consent', granted')
    BY ZenonT(60), <1>19, <2>1, FrameMandate DEF HaltSkip, Walk, history, Commanding, Resumes, ConsentInv, Mandated
  <2> QED
    BY <1>19, <2>2, <2>3, MoveConsent DEF HaltSkip, Walk
<1>20. CASE HaltWrite(d)
  <2>1. consent # "none"
    BY <1>20, Consented DEF HaltWrite, Resumes, BeforeConsent
  <2>2. StoreConsent' /\ Grows
    BY <1>20, <2>1, PatchConsent, StoreKept DEF HaltWrite
  <2>3. Mandated(At("next", 0), consent', granted')
    BY <1>20, <2>1, AtMandate DEF HaltWrite, history, Commanding
  <2> QED
    BY <1>20, <2>2, <2>3, IdleMandate, MoveConsent DEF HaltWrite
<1>21. CASE RetryReset(d)
  <2>1. consent # "none"
    BY <1>21, Consented DEF RetryReset, Resumes, BeforeConsent
  <2>2. StoreConsent' /\ Grows
    BY Zenon, <1>21, <2>1, StoreKept DEF RetryReset, ConsentInv, StoreConsent
  <2>3. Mandated(Frame(IF drv[d].flag THEN "unskip" ELSE "start", drv[d].ord, drv[d].todo, FALSE, 0), consent', granted')
    BY Zenon, <1>21, <2>1, FrameMandate DEF RetryReset, history, Commanding, Resumes, ConsentInv, Mandated
  <2> QED
    BY Zenon, <1>21, <2>2, <2>3, MoveConsent DEF RetryReset
<1>22. ASSUME NEW s \in Steps, RetryUnskip(d, s)
      PROVE  ConsentInv'
  <2>1. consent # "none"
    BY ZenonT(60), <1>22, Consented DEF RetryUnskip, Walk, Resumes, BeforeConsent
  <2>2. StoreConsent' /\ Grows
    BY SMTT(40), <1>22, <2>1, StoreKept DEF RetryUnskip, Walk, ConsentInv, StoreConsent
  <2>3. Mandated(Frame(drv[d].call, drv[d].ord, drv[d].todo \ {s}, drv[d].flag, 0), consent', granted')
    BY Zenon, <1>22, <2>1, FrameMandate DEF RetryUnskip, Walk, history, Commanding, Resumes, ConsentInv, Mandated
  <2> QED
    BY Zenon, <1>22, <2>2, <2>3, MoveConsent DEF RetryUnskip, Walk
<1>23. CASE RetryResume(d)
  <2>1. consent # "none"
    BY <1>23, Consented DEF RetryResume, Resumes, BeforeConsent
  <2>2. StoreConsent' /\ Grows
    BY SMTT(40), <1>23, <2>1, PatchConsent, StoreKept DEF RetryResume
  <2>3. Mandated(At("start", drv[d].ord), consent', granted')
    BY Zenon, <1>23, <2>1, AtMandate DEF RetryResume, history, Commanding, Resumes, ConsentInv, Mandated
  <2> QED
    BY SMTT(40), <1>23, <2>2, <2>3, MoveConsent DEF RetryResume
<1>24. CASE ResolveApproved(d)
  <2>1. consent # "none"
    BY <1>24, Consented DEF ResolveApproved, Resumes, BeforeConsent
  <2>2. consent' = consent /\ drv[d].ord \in granted'
    BY <1>24 DEF ResolveApproved
  <2>3. StoreConsent' /\ Grows
    BY <1>24, <2>1 DEF ResolveApproved, Grows, ConsentInv, StoreConsent
  <2>4. Mandated(At("start", drv[d].ord), consent', granted')
    BY <2>1, <2>2, AtMandate
  <2> QED
    BY <1>24, <2>3, <2>4, MoveConsent DEF ResolveApproved
<1>25. CASE ResolveRejected(d)
  <2>1. consent # "none"
    BY <1>25, Consented DEF ResolveRejected, Resumes, BeforeConsent
  <2>2. StoreConsent' /\ Grows
    BY <1>25, <2>1, StoreKept DEF ResolveRejected, ConsentInv, StoreConsent
  <2>3. Mandated(At("stepRejected", drv[d].ord), consent', granted')
    BY <1>25, <2>1, AtMandate DEF ResolveRejected, history, Commanding
  <2> QED
    BY <1>25, <2>2, <2>3, MoveConsent DEF ResolveRejected
<1>26. CASE StepRejectedWrite(d)
  <2>1. consent # "none"
    BY SMTT(40), <1>26, Consented DEF StepRejectedWrite, Resumes, BeforeConsent
  <2>2. StoreConsent' /\ Grows
    BY SMTT(40), <1>26, <2>1, StoreKept DEF StepRejectedWrite, ConsentInv, StoreConsent
  <2>3. Mandated(At(IF drv[d].ord \in tolerant THEN "next" ELSE "halt",
                  IF drv[d].ord \in tolerant THEN 0 ELSE drv[d].ord), consent', granted')
    BY <1>26, <2>1, AtMandate DEF StepRejectedWrite, history, Commanding
  <2> QED
    BY <1>26, <2>2, <2>3, MoveConsent DEF StepRejectedWrite
<1> QED
  BY <1>1, <1>2, <1>3, <1>4, <1>5, <1>6, <1>7, <1>8, <1>9, <1>10, <1>11, <1>12, <1>13, <1>14,
     <1>15, <1>16, <1>17, <1>18, <1>19, <1>20, <1>21, <1>22, <1>23, <1>24, <1>25, <1>26
  DEF Advance

LEMMA ConsentStep == TypeInv /\ ConsentInv /\ [Next]_vars => ConsentInv'
<1> SUFFICES ASSUME TypeInv, ConsentInv, [Next]_vars PROVE ConsentInv'
  BY SMTT(40)
<1>1. CASE Crash
  BY <1>1, IdleType DEF Crash, store, history, ConsentInv, StoreConsent, Mandated, Commanding, BeforeConsent
<1>2. CASE UNCHANGED vars
  BY <1>2 DEF vars, store, history, ConsentInv, StoreConsent
<1> QED
  BY <1>1, <1>2, ConsentRequest, ConsentAdvance DEF Next

(* Without autoEdit a command runs only for a step an operator approved or  *)
(* asked to retry, and never before the plan's approval, for any number of  *)
(* steps and of interleaved requests, on either store, and across crashes.  *)
THEOREM NoCommandWithoutConsent == Spec => []CommandsAuthorised
<1>1. TypeInv /\ ConsentInv => CommandsAuthorised
  BY DEF ConsentInv, StoreConsent, CommandsAuthorised
<1>2. Spec => [](TypeInv /\ ConsentInv)
  BY TypeInit, TypeStep, ConsentInit, ConsentStep, PTL DEF Spec
<1> QED
  BY <1>1, <1>2, PTL

(* Every step that touches the history is a step of the contract. *)
LEMMA ContractStep ==
  TypeInv /\ ConsentInv /\ [Next]_vars => [Contract!Next]_<<consent, granted, ran>>
<1> SUFFICES ASSUME TypeInv, ConsentInv, [Next]_vars, ~UNCHANGED <<consent, granted, ran>>
             PROVE  Contract!Next
  OBVIOUS
<1>1. ASSUME NEW d \in Drivers, ApproveWrite(d)
      PROVE  Contract!Next
  <2>1. consent # "auto" /\ consent' \in {"stepwise", "auto"} /\ UNCHANGED <<granted, ran>>
    BY <1>1 DEF ApproveWrite, TypeInv, StoreType, Consent
  <2> QED
    BY <2>1 DEF Contract!Next, Contract!Approve
<1>2. ASSUME NEW d \in Drivers, NEW s \in Steps, RetryRead(d, s)
      PROVE  Contract!Next
  <2>1. consent # "none"
    BY <1>2 DEF RetryRead, ConsentInv, StoreConsent
  <2> QED
    BY <1>2, <2>1 DEF RetryRead, Contract!Next, Contract!Grant
<1>3. ASSUME NEW d \in Drivers, ResolveApproved(d)
      PROVE  Contract!Next
  <2>1. consent # "none" /\ drv[d].ord \in Steps
    BY <1>3 DEF ResolveApproved, Resumes, ConsentInv, Mandated, BeforeConsent,
                TypeInv, Focused, StepCalls
  <2> QED
    BY <1>3, <2>1 DEF ResolveApproved, Contract!Next, Contract!Grant
<1>4. ASSUME NEW d \in Drivers, NEW o, RunCommand(d, o)
      PROVE  Contract!Next
  <2>1. /\ consent # "none"
        /\ consent = "auto" \/ drv[d].ord \in granted
        /\ drv[d].ord \in Steps
    BY SMTT(40), <1>4 DEF RunCommand, Resumes, ConsentInv, Mandated, BeforeConsent, Commanding,
                TypeInv, Focused, StepCalls
  <2> QED
    BY SMTT(40), <1>4, <2>1 DEF RunCommand, Contract!Next, Contract!Run
<1>5. ASSUME NEW d \in Drivers, Request(d), \A s \in Steps : ~RetryRead(d, s)
      PROVE  FALSE
  BY Zenon, <1>5 DEF Request, Create, ApproveRead, RejectRead, CancelRead, Expire,
              ResolveRead, Override, history
<1>6. ASSUME NEW d \in Drivers, Advance(d), ~ApproveWrite(d), ~ResolveApproved(d),
             \A o \in {"done", "fail"} : ~RunCommand(d, o)
      PROVE  FALSE
  BY Zenon, <1>6 DEF Advance, FetchRow, LinkPlan, ExecutingWrite, RejectWrite, CancelWrite,
              RunNextStops, RunNextFindsNone, RunNextPicks, CompleteWrite, Submit, Link,
              StartWrite, RunRefused, DoneWrite, FailWrite, HaltRead, HaltSkip, Walk,
              HaltWrite, RetryReset, RetryUnskip, RetryResume, ResolveRejected,
              StepRejectedWrite, history
<1>7. ~Crash /\ ~UNCHANGED vars
  BY DEF Crash, vars, history
<1> QED
  BY <1>1, <1>2, <1>3, <1>4, <1>5, <1>6, <1>7 DEF Next

(* The executor implements the operators' contract. *)
THEOREM ExecutorImplementsContract == Spec => ImplementsContract
<1>1. Init => Contract!Init
  BY DEF Init, Contract!Init
<1>2. Spec => [](TypeInv /\ ConsentInv)
  BY TypeInit, TypeStep, ConsentInit, ConsentStep, PTL DEF Spec
<1> QED
  BY <1>1, <1>2, ContractStep, PTL
  DEF Spec, ImplementsContract, Contract!Spec, Contract!contractVars

-----------------------------------------------------------------------------
(* Progress without liveness: nothing is left behind by a live process.     *)

(* A crash is remembered: a state without one has only such states before it. *)
LEMMA ReliableBefore ==
  ASSUME TypeInv, [Next]_vars, Reliable'
  PROVE  ~Crash /\ Reliable
<1>1. ~Crash
  BY SMTT(40) DEF Crash, Reliable, TypeInv, StoreType
<1>2. ASSUME NEW d \in Drivers, Request(d)
      PROVE  crashes' = crashes
  <2>1. Begin(d)
    BY Zenon, <1>2 DEF Request, Create, ApproveRead, RejectRead, CancelRead, Expire, RetryRead,
       ResolveRead, Override
  <2> QED
    BY SMTT(40), <2>1 DEF Begin
<1>3. ASSUME NEW d \in Drivers, Advance(d)
      PROVE  crashes' = crashes
  <2>1. CASE FetchRow(d)
    BY <2>1 DEF FetchRow
  <2>2. CASE \E call : Resumes(d, call)
    BY <2>2 DEF Resumes
  <2>3. Advance(d) => FetchRow(d) \/ \E call : Resumes(d, call)
    BY Zenon DEF Advance, LinkPlan, ApproveWrite, ExecutingWrite, RejectWrite, CancelWrite,
       RunNextStops, RunNextFindsNone, RunNextPicks, CompleteWrite, Submit, Link,
       StartWrite, RunRefused, RunCommand, DoneWrite, FailWrite, HaltRead, HaltSkip,
       HaltWrite, RetryReset, RetryUnskip, RetryResume, ResolveApproved, ResolveRejected,
       StepRejectedWrite
  <2> QED
    BY <1>3, <2>1, <2>2, <2>3
<1>4. ASSUME UNCHANGED vars
      PROVE  crashes' = crashes
  BY <1>4 DEF vars
<1>5. crashes' = crashes
  BY <1>1, <1>2, <1>3, <1>4 DEF Next, vars
<1> QED
  BY <1>1, <1>5 DEF Reliable

LEMMA OwnedInit == Init => ExecutingStepOwned
BY DEF Init, ExecutingStepOwned

(* Whoever shows a step executing holds it until the outcome is written;    *)
(* the other drivers neither show it executing nor touch the holder.        *)
LEMMA OwnedStep ==
  TypeInv /\ ExecutingStepOwned /\ [Next]_vars => ExecutingStepOwned'
<1> SUFFICES ASSUME TypeInv, ExecutingStepOwned, [Next]_vars, Reliable',
                    NEW s \in Steps, step'[s] = "executing"
             PROVE  \E e \in Drivers : drv'[e].call \in Holding /\ drv'[e].ord = s
  BY DEF ExecutingStepOwned
<1> DEFINE Owner(e) == drv[e].call \in Holding /\ drv[e].ord = s
<1>1. ~Crash /\ Reliable
  BY ReliableBefore
<1>2. Reliable
  BY <1>1
<1>3. step[s] = "executing" => \E e \in Drivers : Owner(e)
  BY <1>2 DEF ExecutingStepOwned
<1>4. ASSUME NEW d \in Drivers, Request(d)
      PROVE  \E e \in Drivers : drv'[e].call \in Holding /\ drv'[e].ord = s
  <2>1. step' = step
    BY Zenon, <1>4 DEF Request, Create, ApproveRead, RejectRead, CancelRead, Expire,
                RetryRead, ResolveRead, Override, store
  <2>2. \A e \in Drivers \ {d} : drv'[e] = drv[e]
    BY Zenon, <1>4 DEF Request, Create, ApproveRead, RejectRead, CancelRead, Expire,
                RetryRead, ResolveRead, Override, Goto, TypeInv
  <2>3. drv[d].call = "idle"
    BY Zenon, <1>4, IdleType DEF Request, Create, ApproveRead, RejectRead, CancelRead, Expire,
                RetryRead, ResolveRead, Override, Begin
  <2>4. PICK e \in Drivers : Owner(e)
    BY SMTT(40), <1>3, <2>1
  <2> QED
    BY <2>2, <2>3, <2>4 DEF Holding
<1>5. ASSUME NEW d \in Drivers, Advance(d)
      PROVE  \E e \in Drivers : drv'[e].call \in Holding /\ drv'[e].ord = s
  <2>1. \A e \in Drivers \ {d} : drv'[e] = drv[e]
    BY Zenon, <1>5 DEF Advance, FetchRow, LinkPlan, ApproveWrite, ExecutingWrite, RejectWrite,
       CancelWrite, RunNextStops, RunNextFindsNone, RunNextPicks, CompleteWrite, Submit, Link,
       StartWrite, RunRefused, RunCommand, DoneWrite, FailWrite, HaltRead, HaltSkip, Walk,
       HaltWrite, RetryReset, RetryUnskip, RetryResume, ResolveApproved, ResolveRejected,
       StepRejectedWrite, Goto, TypeInv
  <2>2. CASE StartWrite(d)
    <3>1. drv'[d] = At("run", drv[d].ord)
      BY SMTT(40), <2>2 DEF StartWrite, Goto, TypeInv
    <3>2. CASE drv[d].ord = s
      BY <3>1, <3>2 DEF At, Frame, Holding
    <3>3. CASE drv[d].ord # s
      <4>1. step[s] = "executing"
        BY <2>2, <3>3 DEF StartWrite, PatchStep, TypeInv, StoreType
      <4>2. PICK e \in Drivers : Owner(e)
        BY <1>3, <4>1
      <4> QED
        BY <2>1, <2>2, <3>3, <4>2
    <3> QED
      BY <3>2, <3>3
  <2>3. CASE RunRefused(d) \/ \E o \in {"done", "fail"} : RunCommand(d, o)
    <3>1. step' = step
      BY <2>3 DEF RunRefused, RunCommand, store
    <3>2. drv[d].call = "run" /\ drv'[d].ord = drv[d].ord /\ drv'[d].call \in {"done", "fail"}
      BY SMTT(40), <2>3 DEF RunRefused, RunCommand, Resumes, Goto, At, Frame, TypeInv
    <3>3. PICK e \in Drivers : Owner(e)
      BY <1>3, <3>1
    <3> QED
      BY <2>1, <3>2, <3>3 DEF Holding
  <2>4. CASE DoneWrite(d) \/ FailWrite(d)
    <3>1. step[s] = "executing" /\ drv[d].ord # s
      BY Zenon, <2>4 DEF DoneWrite, FailWrite, PatchStep, TypeInv, StoreType
    <3>2. PICK e \in Drivers : Owner(e)
      BY <1>3, <3>1
    <3> QED
      BY SMTT(40), <2>1, <3>1, <3>2
  <2>5. CASE /\ ~StartWrite(d) /\ ~RunRefused(d) /\ ~DoneWrite(d) /\ ~FailWrite(d)
             /\ \A o \in {"done", "fail"} : ~RunCommand(d, o)
    <3>1. drv[d].call \notin Holding
      BY Zenon, <1>2, <1>5, <2>5 DEF Reliable, Advance, FetchRow, LinkPlan, ApproveWrite, ExecutingWrite,
         RejectWrite, CancelWrite, RunNextStops, RunNextFindsNone, RunNextPicks, CompleteWrite,
         Submit, Link, HaltRead, HaltSkip, HaltWrite, RetryReset, RetryUnskip, RetryResume,
         ResolveApproved, ResolveRejected, StepRejectedWrite, Resumes, Holding
    <3>2. step[s] = "executing"
      BY Zenon, <1>2, <1>5, <2>5 DEF Reliable, Advance, FetchRow, LinkPlan, ApproveWrite, ExecutingWrite,
         RejectWrite, CancelWrite, RunNextStops, RunNextFindsNone, RunNextPicks, CompleteWrite,
         Submit, Link, HaltRead, HaltSkip, HaltWrite, RetryReset, RetryUnskip, RetryResume,
         ResolveApproved, ResolveRejected, StepRejectedWrite, Walk, PatchStep, Existing, Current,
         TypeInv, StoreType, store
    <3>3. PICK e \in Drivers : Owner(e)
      BY <1>3, <3>2
    <3> QED
      BY <2>1, <3>1, <3>3
  <2> QED
    BY <2>2, <2>3, <2>4, <2>5
<1>6. CASE UNCHANGED vars
  BY <1>3, <1>6 DEF vars, store
<1> QED
  BY <1>1, <1>4, <1>5, <1>6 DEF Next

(* With a store whose patches are atomic, and until a crash, a step shown   *)
(* executing has a driver that is going to write its outcome, for any       *)
(* number of drivers, also when several run the same step.                  *)
THEOREM NoOrphanStep == Spec => []ExecutingStepOwned
<1>1. Spec => []TypeInv
  BY TypeInit, TypeStep, PTL DEF Spec
<1> QED
  BY <1>1, OwnedInit, OwnedStep, PTL DEF Spec

LEMMA StrandedInit == Init => NeverStranded
BY DEF Init, NeverStranded

(* A driver that gives up driving has written a terminal plan status, has   *)
(* seen one, or leaves a pending request behind.                            *)
LEMMA StrandedStep ==
  TypeInv /\ NeverStranded /\ [Next]_vars => NeverStranded'
<1> DEFINE Live == {"approved", "executing"}
           Moved == \/ \E e \in Drivers : drv[e].call \in Driving
                    \/ \E i \in DOMAIN approvals : approvals[i].status = "pending"
<1> SUFFICES ASSUME TypeInv, NeverStranded, [Next]_vars, Reliable', plan' \in Live
             PROVE  Moved'
  BY DEF NeverStranded
<1>1. ~Crash /\ Reliable
  BY ReliableBefore
<1>2. Reliable
  BY <1>1
<1>3. plan \in Live => Moved
  BY <1>2 DEF NeverStranded
<1>4. ASSUME NEW d \in Drivers, drv[d].call \notin Driving,
             \A e \in Drivers \ {d} : drv'[e] = drv[e],
             UNCHANGED <<plan, approvals>>
      PROVE  Moved'
  BY <1>3, <1>4
<1>5. ASSUME NEW d \in Drivers, Request(d)
      PROVE  Moved'
  <2>1. UNCHANGED <<plan, approvals>>
    BY Zenon, <1>5 DEF Request, Create, ApproveRead, RejectRead, CancelRead, Expire,
                RetryRead, ResolveRead, Override, store
  <2>2. \A e \in Drivers \ {d} : drv'[e] = drv[e]
    BY Zenon, <1>5 DEF Request, Create, ApproveRead, RejectRead, CancelRead, Expire,
                RetryRead, ResolveRead, Override, Goto, TypeInv
  <2>3. drv[d].call = "idle"
    BY Zenon, <1>5, IdleType DEF Request, Create, ApproveRead, RejectRead, CancelRead, Expire,
                RetryRead, ResolveRead, Override, Begin
  <2> QED
    BY <1>4, <2>1, <2>2, <2>3 DEF Driving
<1>6. ASSUME NEW d \in Drivers, LinkPlan(d) \/ Link(d)
      PROVE  Moved'
  <2>1. UNCHANGED <<plan, approvals>>
    BY SMTT(40), <1>2, <1>6 DEF LinkPlan, Link, PatchPlan, Existing, Current, Reliable
  <2> QED
    BY Zenon, <1>4, <1>6, <2>1 DEF LinkPlan, Link, Resumes, Goto, TypeInv, Driving
<1>7. ASSUME NEW d \in Drivers, Submit(d)
      PROVE  Moved'
  <2>1. approvals \in Seq([step : Steps, status : ApprovalStatus])
    BY DEF TypeInv, StoreType
  <2>2. /\ Len(approvals) + 1 \in DOMAIN approvals'
        /\ approvals'[Len(approvals) + 1] = [step |-> drv[d].ord, status |-> "pending"]
    BY SMTT(40), <1>7, <2>1 DEF Submit
  <2> QED
    BY <2>2
<1>8. ASSUME NEW d \in Drivers, Advance(d), ~LinkPlan(d), ~Link(d), ~Submit(d)
      PROVE  drv'[d].call \in Driving
  <2>1. ~FetchRow(d)
    BY <1>2 DEF FetchRow, Reliable
  <2>2. CASE ApproveWrite(d)
    BY <2>2 DEF ApproveWrite, Resumes, Goto, At, Frame, TypeInv, Driving
  <2>3. CASE ExecutingWrite(d)
    BY <2>3 DEF ExecutingWrite, Resumes, Goto, At, Frame, TypeInv, Driving
  <2>4. ~RejectWrite(d)
    BY DEF RejectWrite, PatchPlan
  <2>5. ~CancelWrite(d)
    BY DEF CancelWrite, PatchPlan
  <2>6. ~RunNextStops(d)
    BY DEF RunNextStops, store
  <2>7. CASE RunNextFindsNone(d)
    BY <2>7 DEF RunNextFindsNone, Resumes, Goto, At, Frame, TypeInv, Driving
  <2>8. ~CompleteWrite(d)
    BY DEF CompleteWrite, PatchPlan
  <2>9. CASE StartWrite(d)
    BY <2>9 DEF StartWrite, Resumes, Goto, At, Frame, TypeInv, Driving
  <2>10. CASE RunRefused(d)
    BY <2>10 DEF RunRefused, Resumes, Goto, At, Frame, TypeInv, Driving
  <2>11. CASE DoneWrite(d)
    BY SMTT(40), <2>11 DEF DoneWrite, Resumes, Goto, At, Frame, TypeInv, Driving
  <2>12. CASE FailWrite(d)
    BY <2>12 DEF FailWrite, Resumes, Goto, At, Frame, TypeInv, Driving
  <2>13. CASE HaltRead(d)
    BY <2>13 DEF HaltRead, Resumes, Goto, At, Frame, TypeInv, Driving
  <2>14. ~HaltWrite(d)
    BY DEF HaltWrite, PatchPlan
  <2>15. CASE RetryReset(d)
    BY <2>15 DEF RetryReset, Resumes, Goto, At, Frame, TypeInv, Driving
  <2>16. CASE RetryResume(d)
    BY <2>16 DEF RetryResume, Resumes, Goto, At, Frame, TypeInv, Driving
  <2>17. CASE ResolveApproved(d)
    BY <2>17 DEF ResolveApproved, Resumes, Goto, At, Frame, TypeInv, Driving
  <2>18. CASE ResolveRejected(d)
    BY <2>18 DEF ResolveRejected, Resumes, Goto, At, Frame, TypeInv, Driving
  <2>19. CASE StepRejectedWrite(d)
    BY <2>19 DEF StepRejectedWrite, Resumes, Goto, At, Frame, TypeInv, Driving
  <2>20. ASSUME NEW s \in Steps, RunNextPicks(d, s)
        PROVE  drv'[d].call \in Driving
    BY <2>20 DEF RunNextPicks, Goto, At, Frame, TypeInv, Driving
  <2>21. ASSUME NEW o \in {"done", "fail"}, RunCommand(d, o)
        PROVE  drv'[d].call \in Driving
    BY <2>21 DEF RunCommand, Goto, At, Frame, TypeInv, Driving
  <2>22. ASSUME NEW s \in Steps, HaltSkip(d, s)
        PROVE  drv'[d].call \in Driving
    BY <2>22 DEF HaltSkip, Walk, Resumes, Goto, Frame, TypeInv, Driving
  <2>23. ASSUME NEW s \in Steps, RetryUnskip(d, s)
        PROVE  drv'[d].call \in Driving
    BY <2>23 DEF RetryUnskip, Walk, Resumes, Goto, Frame, TypeInv, Driving
  <2> QED
    BY <1>8, <2>1, <2>2, <2>3, <2>4, <2>5, <2>6, <2>7, <2>8, <2>9, <2>10, <2>11, <2>12, <2>13, <2>14, <2>15, <2>16, <2>17, <2>18, <2>19, <2>20, <2>21, <2>22, <2>23 DEF Advance
<1>9. CASE UNCHANGED vars
  BY <1>3, <1>9 DEF vars, store
<1> QED
  BY <1>1, <1>5, <1>6, <1>7, <1>8, <1>9 DEF Next

(* With a store whose patches are atomic, and until a crash, an approved or *)
(* executing plan is being driven or waits for an operator.                 *)
THEOREM NoStrandedPlan == Spec => []NeverStranded
<1>1. Spec => []TypeInv
  BY TypeInit, TypeStep, PTL DEF Spec
<1> QED
  BY <1>1, StrandedInit, StrandedStep, PTL DEF Spec

-----------------------------------------------------------------------------
(* One driver, on SQLite, without crashes: requests do not overlap.        *)

Tried == {"done", "failed", "executing"}

\* Before the plan is executed.
Unstarted == {"absent", "pending_approval", "approved", "rejected", "expired"}

\* Steps are tried in order: whatever comes before a step that was tried, or
\* that an approval request is about, was tried, but for the step being retried.
InOrder(st, ap, c, o) ==
  \A s \in Steps :
    st[s] \in Tried \/ (\E i \in DOMAIN ap : ap[i].step = s) =>
      \A t \in Steps : t < s => st[t] \in Tried \/ (c \in {"unskip", "start"} /\ t = o)

\* What the driver knows of the step it is about, and of those its loop has left.
AboutStep(pl, st, c, o, todo, flag) ==
  /\ c \in StepCalls => \A t \in Steps : t < o => st[t] \in Tried
  /\ c \in Holding => st[o] = "executing"
  /\ c \in {"halt", "skip", "reset"} => st[o] = "failed"
  /\ c = "unskip" => st[o] = "pending"
  /\ c = "skip" => todo = {t \in Steps : st[t] = "pending"}
  /\ c = "unskip" \/ (c = "reset" /\ flag) =>
       pl = "failed" /\ todo = {t \in Steps : st[t] = "skipped"}
  /\ c = "reset" /\ ~flag => pl # "failed"

\* What the status of the plan says about its steps.
AboutPlan(pl, st, ap, c, o) ==
  /\ \A t \in Steps :
       /\ st[t] = "executing" => c \in Holding /\ t = o
       /\ st[t] = "skipped" => pl = "failed" \/ c = "skip"
       /\ st[t] = "pending" => pl # "failed" \/ c = "unskip"
       /\ st[t] = "pending" => pl # "completed" \/ (c = "start" /\ t = o)
  /\ c = "complete" => pl \notin {"failed", "cancelled"} /\ \A t \in Steps : st[t] \in {"done", "failed"}
  /\ pl \in Unstarted => (\A t \in Steps : st[t] = "pending") /\ DOMAIN ap = {}
  /\ pl \in {"absent", "rejected", "expired"} => c = "idle"
  /\ pl = "pending_approval" => c \in {"idle", "linkPlan", "approved", "reject"}
  /\ pl = "approved" => c = "executing"
  /\ c \in {"linkPlan", "approved", "reject"} => pl = "pending_approval"
  /\ c = "executing" => pl = "approved"
  /\ c = "cancel" => pl = "executing"

\* The inductive invariant of a lone driver.
SerialInv(d) ==
  /\ InOrder(step, approvals, drv[d].call, drv[d].ord)
  /\ AboutStep(plan, step, drv[d].call, drv[d].ord, drv[d].todo, drv[d].flag)
  /\ AboutPlan(plan, step, approvals, drv[d].call, drv[d].ord)

\* Ordinals compare like numbers.
LEMMA Apart ==
  \A m, n \in Nat : (m < n => m # n /\ ~(n <= m)) /\ (m # n /\ ~(m < n) => m > n)
  OBVIOUS

\* A driver that moves on to a frame, over what the step leaves in the store.
LEMMA SerialGoto ==
  ASSUME TypeInv, NEW d \in Drivers, NEW c, NEW o, NEW todo, NEW flag, NEW apr,
         Goto(d, Frame(c, o, todo, flag, apr)),
         InOrder(step', approvals', c, o),
         AboutStep(plan', step', c, o, todo, flag),
         AboutPlan(plan', step', approvals', c, o)
  PROVE  SerialInv(d)'
<1>1. drv'[d] = Frame(c, o, todo, flag, apr)
  BY Zenon DEF Goto, TypeInv
<1>2. drv'[d].call = c /\ drv'[d].ord = o /\ drv'[d].todo = todo /\ drv'[d].flag = flag
  BY <1>1 DEF Frame
<1> QED
  BY Zenon, <1>2 DEF SerialInv

\* The types the cases below use.
LEMMA SerialTypes ==
  ASSUME TypeInv, NEW d \in Drivers
  PROVE  /\ drv[d].call \in Calls /\ drv[d].ord \in 0 .. NSteps
         /\ drv[d].todo \in SUBSET Steps /\ drv[d].flag \in BOOLEAN
         /\ drv[d].call \in StepCalls => drv[d].ord \in Steps
         /\ step \in [Steps -> StepStatus] /\ plan \in PlanStatus /\ Steps \subseteq Nat
         /\ \A i \in DOMAIN approvals : approvals[i].step \in Steps
<1>1. drv[d] \in Continuation
  BY Zenon DEF TypeInv
<1> QED
  BY <1>1, ContinuationType, ApprovalRow DEF TypeInv, StoreType, Focused, Steps

\* On SQLite a patch keeps what the row holds.
LEMMA SyncRow ==
  ASSUME SyncStore, NEW d \in Drivers
  PROVE  /\ Existing(d).plan = plan /\ Existing(d).autoEdit = autoEdit
         /\ drv[d].ord \in Steps => Existing(d).step = step[drv[d].ord]
  BY Zenon DEF Existing, Current

\* Steps about the whole plan.
LEMMA SerialPlan ==
  ASSUME SyncStore, TypeInv, NEW d \in Drivers, SerialInv(d),
         LinkPlan(d) \/ ApproveWrite(d) \/ ExecutingWrite(d) \/ RejectWrite(d) \/ CancelWrite(d)
         \/ CompleteWrite(d) \/ RunNextStops(d) \/ RunNextFindsNone(d)
  PROVE  SerialInv(d)'
<1> DEFINE k == drv[d]
<1>0. /\ k.call \in Calls /\ k.ord \in 0 .. NSteps /\ k.todo \in SUBSET Steps /\ k.flag \in BOOLEAN
      /\ k.call \in StepCalls => k.ord \in Steps
      /\ step \in [Steps -> StepStatus] /\ plan \in PlanStatus /\ Steps \subseteq Nat
      /\ \A i \in DOMAIN approvals : approvals[i].step \in Steps
  BY Zenon, SerialTypes
<1>1. CASE LinkPlan(d)
  <2>1. Goto(d, Frame("idle", 0, {}, FALSE, 0))
    BY Zenon, <1>1 DEF LinkPlan, At, Idle
  <2>2. k.call = "linkPlan" /\ UNCHANGED <<plan, step, approvals>>
    BY Zenon, <1>1, SyncRow DEF LinkPlan, Resumes, store, history, PatchPlan
  <2>3. InOrder(step', approvals', "idle", 0)
    BY Zenon, <1>0, <2>2 DEF SerialInv, InOrder, AboutStep, AboutPlan, Tried, StepCalls, Holding,
       Unstarted
  <2>4. AboutStep(plan', step', "idle", 0, {}, FALSE)
    BY Zenon, <1>0, <2>2 DEF SerialInv, InOrder, AboutStep, AboutPlan, Tried, StepCalls, Holding,
       Unstarted
  <2>5. AboutPlan(plan', step', approvals', "idle", 0)
    BY Zenon, <1>0, <2>2 DEF SerialInv, InOrder, AboutStep, AboutPlan, Tried, StepCalls, Holding,
       Unstarted
  <2> QED
    BY Zenon, <2>1, <2>3, <2>4, <2>5, SerialGoto
<1>2. CASE ApproveWrite(d)
  <2>1. Goto(d, Frame("executing", 0, {}, FALSE, 0))
    BY Zenon, <1>2 DEF ApproveWrite, At, Idle
  <2>2. k.call = "approved" /\ plan' = "approved" /\ UNCHANGED <<step, approvals>>
    BY Zenon, <1>2, SyncRow DEF ApproveWrite, Resumes, store, history
  <2>3. InOrder(step', approvals', "executing", 0)
    BY Zenon, <1>0, <2>2 DEF SerialInv, InOrder, AboutStep, AboutPlan, Tried, StepCalls, Holding,
       Unstarted
  <2>4. AboutStep(plan', step', "executing", 0, {}, FALSE)
    BY Zenon, <1>0, <2>2 DEF SerialInv, InOrder, AboutStep, AboutPlan, Tried, StepCalls, Holding,
       Unstarted
  <2>5. AboutPlan(plan', step', approvals', "executing", 0)
    BY Zenon, <1>0, <2>2 DEF SerialInv, InOrder, AboutStep, AboutPlan, Tried, StepCalls, Holding,
       Unstarted
  <2> QED
    BY Zenon, <2>1, <2>3, <2>4, <2>5, SerialGoto
<1>3. CASE ExecutingWrite(d)
  <2>1. Goto(d, Frame("next", 0, {}, FALSE, 0))
    BY Zenon, <1>3 DEF ExecutingWrite, At, Idle
  <2>2. /\ k.call = "executing" /\ plan' = "executing" /\ UNCHANGED <<step, approvals>>
    BY Zenon, <1>3, SyncRow DEF ExecutingWrite, Resumes, store, history, PatchPlan
  <2>3. InOrder(step', approvals', "next", 0)
    BY Zenon, <1>0, <2>2 DEF SerialInv, InOrder, AboutStep, AboutPlan, Tried, StepCalls, Holding,
       Unstarted
  <2>4. AboutStep(plan', step', "next", 0, {}, FALSE)
    BY Zenon, <1>0, <2>2 DEF SerialInv, InOrder, AboutStep, AboutPlan, Tried, StepCalls, Holding,
       Unstarted
  <2>5. AboutPlan(plan', step', approvals', "next", 0)
    BY Zenon, <1>0, <2>2 DEF SerialInv, InOrder, AboutStep, AboutPlan, Tried, StepCalls, Holding,
       Unstarted
  <2> QED
    BY Zenon, <2>1, <2>3, <2>4, <2>5, SerialGoto
<1>4. CASE RejectWrite(d)
  <2>1. Goto(d, Frame("idle", 0, {}, FALSE, 0))
    BY Zenon, <1>4 DEF RejectWrite, At, Idle
  <2>2. k.call = "reject" /\ plan' = "rejected" /\ UNCHANGED <<step, approvals>>
    BY Zenon, <1>4, SyncRow DEF RejectWrite, Resumes, store, history, PatchPlan
  <2>3. InOrder(step', approvals', "idle", 0)
    BY Zenon, <1>0, <2>2 DEF SerialInv, InOrder, AboutStep, AboutPlan, Tried, StepCalls, Holding,
       Unstarted
  <2>4. AboutStep(plan', step', "idle", 0, {}, FALSE)
    BY Zenon, <1>0, <2>2 DEF SerialInv, InOrder, AboutStep, AboutPlan, Tried, StepCalls, Holding,
       Unstarted
  <2>5. AboutPlan(plan', step', approvals', "idle", 0)
    BY Zenon, <1>0, <2>2 DEF SerialInv, InOrder, AboutStep, AboutPlan, Tried, StepCalls, Holding,
       Unstarted
  <2> QED
    BY Zenon, <2>1, <2>3, <2>4, <2>5, SerialGoto
<1>5. CASE CancelWrite(d)
  <2>1. Goto(d, Frame("idle", 0, {}, FALSE, 0))
    BY Zenon, <1>5 DEF CancelWrite, At, Idle
  <2>2. k.call = "cancel" /\ plan' = "cancelled" /\ UNCHANGED <<step, approvals>>
    BY Zenon, <1>5, SyncRow DEF CancelWrite, Resumes, store, history, PatchPlan
  <2>3. InOrder(step', approvals', "idle", 0)
    BY Zenon, <1>0, <2>2 DEF SerialInv, InOrder, AboutStep, AboutPlan, Tried, StepCalls, Holding,
       Unstarted
  <2>4. AboutStep(plan', step', "idle", 0, {}, FALSE)
    BY Zenon, <1>0, <2>2 DEF SerialInv, InOrder, AboutStep, AboutPlan, Tried, StepCalls, Holding,
       Unstarted
  <2>5. AboutPlan(plan', step', approvals', "idle", 0)
    BY Zenon, <1>0, <2>2 DEF SerialInv, InOrder, AboutStep, AboutPlan, Tried, StepCalls, Holding,
       Unstarted
  <2> QED
    BY Zenon, <2>1, <2>3, <2>4, <2>5, SerialGoto
<1>6. CASE CompleteWrite(d)
  <2>1. Goto(d, Frame("idle", 0, {}, FALSE, 0))
    BY Zenon, <1>6 DEF CompleteWrite, At, Idle
  <2>2. k.call = "complete" /\ plan' = "completed" /\ UNCHANGED <<step, approvals>>
    BY Zenon, <1>6, SyncRow DEF CompleteWrite, Resumes, store, history, PatchPlan
  <2>3. InOrder(step', approvals', "idle", 0)
    BY Zenon, <1>0, <2>2 DEF SerialInv, InOrder, AboutStep, AboutPlan, Tried, StepCalls, Holding,
       Unstarted
  <2>4. AboutStep(plan', step', "idle", 0, {}, FALSE)
    BY Zenon, <1>0, <2>2 DEF SerialInv, InOrder, AboutStep, AboutPlan, Tried, StepCalls, Holding,
       Unstarted
  <2>5. AboutPlan(plan', step', approvals', "idle", 0)
    BY Zenon, <1>0, <2>2 DEF SerialInv, InOrder, AboutStep, AboutPlan, Tried, StepCalls, Holding,
       Unstarted
  <2> QED
    BY Zenon, <2>1, <2>3, <2>4, <2>5, SerialGoto
<1>7. CASE RunNextStops(d)
  <2>1. Goto(d, Frame("idle", 0, {}, FALSE, 0))
    BY Zenon, <1>7 DEF RunNextStops, At, Idle
  <2>2. k.call = "next" /\ UNCHANGED <<plan, step, approvals>>
    BY Zenon, <1>7, SyncRow DEF RunNextStops, Resumes, store, history
  <2>3. InOrder(step', approvals', "idle", 0)
    BY Zenon, <1>0, <2>2 DEF SerialInv, InOrder, AboutStep, AboutPlan, Tried, StepCalls, Holding,
       Unstarted
  <2>4. AboutStep(plan', step', "idle", 0, {}, FALSE)
    BY Zenon, <1>0, <2>2 DEF SerialInv, InOrder, AboutStep, AboutPlan, Tried, StepCalls, Holding,
       Unstarted
  <2>5. AboutPlan(plan', step', approvals', "idle", 0)
    BY Zenon, <1>0, <2>2 DEF SerialInv, InOrder, AboutStep, AboutPlan, Tried, StepCalls, Holding,
       Unstarted
  <2> QED
    BY Zenon, <2>1, <2>3, <2>4, <2>5, SerialGoto
<1>8. CASE RunNextFindsNone(d)
  <2>1. Goto(d, Frame("complete", 0, {}, FALSE, 0))
    BY Zenon, <1>8 DEF RunNextFindsNone, At, Idle
  <2>2. /\ k.call = "next" /\ UNCHANGED <<plan, step, approvals>>
        /\ plan \notin {"failed", "cancelled"}
        /\ \A s \in Steps : step[s] # "pending"
    BY Zenon, <1>8, SyncRow DEF RunNextFindsNone, Resumes, store, history
  <2>3. InOrder(step', approvals', "complete", 0)
    BY Zenon, <1>0, <2>2 DEF SerialInv, InOrder, AboutStep, AboutPlan, Tried, StepCalls, Holding,
       Unstarted
  <2>4. AboutStep(plan', step', "complete", 0, {}, FALSE)
    BY Zenon, <1>0, <2>2 DEF SerialInv, InOrder, AboutStep, AboutPlan, Tried, StepCalls, Holding,
       Unstarted
  <2>5. AboutPlan(plan', step', approvals', "complete", 0)
    BY Zenon, <1>0, <2>2 DEF SerialInv, InOrder, AboutStep, AboutPlan, Tried, StepCalls, Holding,
       Unstarted, StepStatus
  <2> QED
    BY Zenon, <2>1, <2>3, <2>4, <2>5, SerialGoto
<1> QED
  BY Zenon, <1>1, <1>2, <1>3, <1>4, <1>5, <1>6, <1>7, <1>8

\* Picking and executing a step.
LEMMA SerialRun ==
  ASSUME SyncStore, TypeInv, NEW d \in Drivers, SerialInv(d),
         (\E s \in Steps : RunNextPicks(d, s)) \/ Link(d) \/ StartWrite(d) \/ RunRefused(d) \/
         (\E o \in {"done", "fail"} : RunCommand(d, o)) \/ DoneWrite(d) \/ FailWrite(d)
  PROVE  SerialInv(d)'
<1> DEFINE k == drv[d]
<1>0. /\ k.call \in Calls /\ k.ord \in 0 .. NSteps /\ k.todo \in SUBSET Steps /\ k.flag \in BOOLEAN
      /\ k.call \in StepCalls => k.ord \in Steps
      /\ step \in [Steps -> StepStatus] /\ plan \in PlanStatus /\ Steps \subseteq Nat
      /\ \A i \in DOMAIN approvals : approvals[i].step \in Steps
  BY Zenon, SerialTypes
<1>1. ASSUME NEW s \in Steps, RunNextPicks(d, s), autoEdit PROVE SerialInv(d)'
  <2>1. Goto(d, Frame("start", s, {}, FALSE, 0))
    BY Zenon, <1>1 DEF RunNextPicks, At, Idle
  <2>2. /\ k.call = "next" /\ UNCHANGED <<plan, step, approvals>>
        /\ plan \notin {"failed", "cancelled"} /\ FirstPending(s)
    BY Zenon, <1>1, SyncRow DEF RunNextPicks, Resumes, store, history
  <2>3. InOrder(step', approvals', "start", s)
    BY Zenon, <1>0, <2>2 DEF SerialInv, InOrder, AboutStep, AboutPlan, Tried, StepCalls, Holding,
       Unstarted, FirstPending
  <2>4. AboutStep(plan', step', "start", s, {}, FALSE)
    <3>1. ASSUME NEW t \in Steps, t < s PROVE step[t] # "pending"
      <4>1. step[t] = "pending" => s <= t
        BY Zenon, <2>2 DEF FirstPending
      <4>2. s \in Nat /\ t \in Nat
        BY Zenon, <1>0
      <4> QED
        BY Zenon, <3>1, <4>1, <4>2, Apart
    <3>2. \A t \in Steps : step[t] # "skipped"
      BY Zenon, <1>0, <2>2 DEF SerialInv, AboutPlan
    <3>3. \A t \in Steps : step[t] \in Tried \cup {"pending", "skipped"}
      BY Zenon, <1>0 DEF StepStatus, Tried
    <3> QED
      BY Zenon, <2>2, <3>1, <3>2, <3>3 DEF AboutStep, Holding
  <2>5. AboutPlan(plan', step', approvals', "start", s)
    BY Zenon, <1>0, <2>2 DEF SerialInv, InOrder, AboutStep, AboutPlan, Tried, StepCalls, Holding,
       Unstarted, FirstPending
  <2> QED
    BY Zenon, <2>1, <2>3, <2>4, <2>5, SerialGoto
<1>2. ASSUME NEW s \in Steps, RunNextPicks(d, s), ~autoEdit PROVE SerialInv(d)'
  <2>1. Goto(d, Frame("submit", s, {}, FALSE, 0))
    BY Zenon, <1>2 DEF RunNextPicks, At, Idle
  <2>2. /\ k.call = "next" /\ UNCHANGED <<plan, step, approvals>>
        /\ plan \notin {"failed", "cancelled"} /\ FirstPending(s)
    BY Zenon, <1>2, SyncRow DEF RunNextPicks, Resumes, store, history
  <2>3. InOrder(step', approvals', "submit", s)
    BY Zenon, <1>0, <2>2 DEF SerialInv, InOrder, AboutStep, AboutPlan, Tried, StepCalls, Holding,
       Unstarted, FirstPending
  <2>4. AboutStep(plan', step', "submit", s, {}, FALSE)
    <3>1. ASSUME NEW t \in Steps, t < s PROVE step[t] # "pending"
      <4>1. step[t] = "pending" => s <= t
        BY Zenon, <2>2 DEF FirstPending
      <4>2. s \in Nat /\ t \in Nat
        BY Zenon, <1>0
      <4> QED
        BY Zenon, <3>1, <4>1, <4>2, Apart
    <3>2. \A t \in Steps : step[t] # "skipped"
      BY Zenon, <1>0, <2>2 DEF SerialInv, AboutPlan
    <3>3. \A t \in Steps : step[t] \in Tried \cup {"pending", "skipped"}
      BY Zenon, <1>0 DEF StepStatus, Tried
    <3> QED
      BY Zenon, <2>2, <3>1, <3>2, <3>3 DEF AboutStep, Holding
  <2>5. AboutPlan(plan', step', approvals', "submit", s)
    BY Zenon, <1>0, <2>2 DEF SerialInv, InOrder, AboutStep, AboutPlan, Tried, StepCalls, Holding,
       Unstarted, FirstPending
  <2> QED
    BY Zenon, <2>1, <2>3, <2>4, <2>5, SerialGoto
<1>3. CASE Link(d)
  <2>1. Goto(d, Frame("idle", 0, {}, FALSE, 0))
    BY Zenon, <1>3 DEF Link, At, Idle
  <2>2. /\ k.call = "link" /\ step' = [step EXCEPT ![k.ord] = step[k.ord]]
        /\ UNCHANGED <<plan, approvals>>
    BY Zenon, <1>0, <1>3, SyncRow DEF Link, Resumes, store, history, PatchStep, StepCalls
  <2>3. InOrder(step', approvals', "idle", 0)
    BY Zenon, <1>0, <2>2 DEF SerialInv, InOrder, AboutStep, AboutPlan, Tried, StepCalls, Holding,
       Unstarted
  <2>4. AboutStep(plan', step', "idle", 0, {}, FALSE)
    BY Zenon, <1>0, <2>2 DEF SerialInv, InOrder, AboutStep, AboutPlan, Tried, StepCalls, Holding,
       Unstarted
  <2>5. AboutPlan(plan', step', approvals', "idle", 0)
    BY Zenon, <1>0, <2>2 DEF SerialInv, InOrder, AboutStep, AboutPlan, Tried, StepCalls, Holding,
       Unstarted
  <2> QED
    BY Zenon, <2>1, <2>3, <2>4, <2>5, SerialGoto
<1>4. CASE StartWrite(d)
  <2>1. Goto(d, Frame("run", k.ord, {}, FALSE, 0))
    BY Zenon, <1>4 DEF StartWrite, At, Idle
  <2>2. /\ k.call = "start" /\ step' = [step EXCEPT ![k.ord] = "executing"]
        /\ UNCHANGED <<plan, approvals>>
    BY Zenon, <1>4, SyncRow DEF StartWrite, Resumes, store, history, PatchStep
  <2>3. InOrder(step', approvals', "run", k.ord)
    BY Zenon, <1>0, <2>2 DEF SerialInv, InOrder, AboutStep, AboutPlan, Tried, StepCalls, Holding,
       Unstarted
  <2>4. AboutStep(plan', step', "run", k.ord, {}, FALSE)
    BY Zenon, <1>0, <2>2 DEF SerialInv, InOrder, AboutStep, AboutPlan, Tried, StepCalls, Holding,
       Unstarted
  <2>5. AboutPlan(plan', step', approvals', "run", k.ord)
    BY Zenon, <1>0, <2>2 DEF SerialInv, InOrder, AboutStep, AboutPlan, Tried, StepCalls, Holding,
       Unstarted
  <2> QED
    BY Zenon, <2>1, <2>3, <2>4, <2>5, SerialGoto
<1>5. CASE RunRefused(d)
  <2>1. Goto(d, Frame("fail", k.ord, {}, FALSE, 0))
    BY Zenon, <1>5 DEF RunRefused, At, Idle
  <2>2. k.call = "run" /\ UNCHANGED <<plan, step, approvals>>
    BY Zenon, <1>5, SyncRow DEF RunRefused, Resumes, store, history
  <2>3. InOrder(step', approvals', "fail", k.ord)
    BY Zenon, <1>0, <2>2 DEF SerialInv, InOrder, AboutStep, AboutPlan, Tried, StepCalls, Holding,
       Unstarted
  <2>4. AboutStep(plan', step', "fail", k.ord, {}, FALSE)
    BY Zenon, <1>0, <2>2 DEF SerialInv, InOrder, AboutStep, AboutPlan, Tried, StepCalls, Holding,
       Unstarted
  <2>5. AboutPlan(plan', step', approvals', "fail", k.ord)
    BY Zenon, <1>0, <2>2 DEF SerialInv, InOrder, AboutStep, AboutPlan, Tried, StepCalls, Holding,
       Unstarted
  <2> QED
    BY Zenon, <2>1, <2>3, <2>4, <2>5, SerialGoto
<1>6. ASSUME NEW u \in {"done", "fail"}, RunCommand(d, u) PROVE SerialInv(d)'
  <2>1. Goto(d, Frame(u, k.ord, {}, FALSE, 0))
    BY Zenon, <1>6 DEF RunCommand, At, Idle
  <2>2. k.call = "run" /\ UNCHANGED <<plan, step, approvals>>
    BY Zenon, <1>6, SyncRow DEF RunCommand, Resumes, store, history
  <2>3. InOrder(step', approvals', u, k.ord)
    BY Zenon, <1>0, <2>2 DEF SerialInv, InOrder, AboutStep, AboutPlan, Tried, StepCalls, Holding,
       Unstarted
  <2>4. AboutStep(plan', step', u, k.ord, {}, FALSE)
    BY Zenon, <1>0, <2>2 DEF SerialInv, InOrder, AboutStep, AboutPlan, Tried, StepCalls, Holding,
       Unstarted
  <2>5. AboutPlan(plan', step', approvals', u, k.ord)
    BY Zenon, <1>0, <2>2 DEF SerialInv, InOrder, AboutStep, AboutPlan, Tried, StepCalls, Holding,
       Unstarted
  <2> QED
    BY Zenon, <2>1, <2>3, <2>4, <2>5, SerialGoto
<1>7. CASE DoneWrite(d)
  <2>1. Goto(d, Frame("next", 0, {}, FALSE, 0))
    BY Zenon, <1>7 DEF DoneWrite, At, Idle
  <2>2. /\ k.call = "done" /\ step' = [step EXCEPT ![k.ord] = "done"]
        /\ UNCHANGED <<plan, approvals>>
    BY Zenon, <1>7, SyncRow DEF DoneWrite, Resumes, store, history, PatchStep
  <2>3. InOrder(step', approvals', "next", 0)
    BY Zenon, <1>0, <2>2 DEF SerialInv, InOrder, AboutStep, AboutPlan, Tried, StepCalls, Holding,
       Unstarted
  <2>4. AboutStep(plan', step', "next", 0, {}, FALSE)
    BY Zenon, <1>0, <2>2 DEF SerialInv, InOrder, AboutStep, AboutPlan, Tried, StepCalls, Holding,
       Unstarted
  <2>5. AboutPlan(plan', step', approvals', "next", 0)
    BY Zenon, <1>0, <2>2 DEF SerialInv, InOrder, AboutStep, AboutPlan, Tried, StepCalls, Holding,
       Unstarted
  <2> QED
    BY Zenon, <2>1, <2>3, <2>4, <2>5, SerialGoto
<1>8. CASE FailWrite(d) /\ k.ord \in tolerant
  <2>1. Goto(d, Frame("next", 0, {}, FALSE, 0))
    BY Zenon, <1>8 DEF FailWrite, At, Idle
  <2>2. /\ k.call = "fail" /\ step' = [step EXCEPT ![k.ord] = "failed"]
        /\ UNCHANGED <<plan, approvals>>
    BY Zenon, <1>8, SyncRow DEF FailWrite, Resumes, store, history, PatchStep
  <2>3. InOrder(step', approvals', "next", 0)
    BY Zenon, <1>0, <2>2 DEF SerialInv, InOrder, AboutStep, AboutPlan, Tried, StepCalls, Holding,
       Unstarted
  <2>4. AboutStep(plan', step', "next", 0, {}, FALSE)
    BY Zenon, <1>0, <2>2 DEF SerialInv, InOrder, AboutStep, AboutPlan, Tried, StepCalls, Holding,
       Unstarted
  <2>5. AboutPlan(plan', step', approvals', "next", 0)
    BY Zenon, <1>0, <2>2 DEF SerialInv, InOrder, AboutStep, AboutPlan, Tried, StepCalls, Holding,
       Unstarted
  <2> QED
    BY Zenon, <2>1, <2>3, <2>4, <2>5, SerialGoto
<1>9. CASE FailWrite(d) /\ k.ord \notin tolerant
  <2>1. Goto(d, Frame("halt", k.ord, {}, TRUE, 0))
    BY Zenon, <1>9 DEF FailWrite, At, Idle
  <2>2. /\ k.call = "fail" /\ step' = [step EXCEPT ![k.ord] = "failed"]
        /\ UNCHANGED <<plan, approvals>>
    BY Zenon, <1>9, SyncRow DEF FailWrite, Resumes, store, history, PatchStep
  <2>3. InOrder(step', approvals', "halt", k.ord)
    BY Zenon, <1>0, <2>2 DEF SerialInv, InOrder, AboutStep, AboutPlan, Tried, StepCalls, Holding,
       Unstarted
  <2>4. AboutStep(plan', step', "halt", k.ord, {}, TRUE)
    BY Zenon, <1>0, <2>2 DEF SerialInv, InOrder, AboutStep, AboutPlan, Tried, StepCalls, Holding,
       Unstarted
  <2>5. AboutPlan(plan', step', approvals', "halt", k.ord)
    BY Zenon, <1>0, <2>2 DEF SerialInv, InOrder, AboutStep, AboutPlan, Tried, StepCalls, Holding,
       Unstarted
  <2> QED
    BY Zenon, <2>1, <2>3, <2>4, <2>5, SerialGoto
<1> QED
  BY Zenon, <1>1, <1>2, <1>3, <1>4, <1>5, <1>6, <1>7, <1>8, <1>9

\* Halting the plan and retrying a step.
LEMMA SerialHalt ==
  ASSUME SyncStore, TypeInv, NEW d \in Drivers, SerialInv(d),
         HaltRead(d) \/ (\E s \in Steps : HaltSkip(d, s)) \/ HaltWrite(d) \/ RetryReset(d) \/ (\E
         s \in Steps : RetryUnskip(d, s)) \/ RetryResume(d)
  PROVE  SerialInv(d)'
<1> DEFINE k == drv[d]
<1>0. /\ k.call \in Calls /\ k.ord \in 0 .. NSteps /\ k.todo \in SUBSET Steps /\ k.flag \in BOOLEAN
      /\ k.call \in StepCalls => k.ord \in Steps
      /\ step \in [Steps -> StepStatus] /\ plan \in PlanStatus /\ Steps \subseteq Nat
      /\ \A i \in DOMAIN approvals : approvals[i].step \in Steps
  BY Zenon, SerialTypes
<1>1. CASE HaltRead(d)
  <2>1. Goto(d, Frame("skip", k.ord, {s \in Steps : s > k.ord /\ step[s] = "pending"}, k.flag, 0))
    BY Zenon, <1>1 DEF HaltRead, At, Idle
  <2>2. k.call = "halt" /\ UNCHANGED <<plan, step, approvals>>
    BY Zenon, <1>1, SyncRow DEF HaltRead, Resumes, store, history
  <2>6. {s \in Steps : s > k.ord /\ step[s] = "pending"} = {t \in Steps : step[t] = "pending"}
    <3>1. k.ord \in Steps /\ step[k.ord] = "failed" /\ \A t \in Steps : t < k.ord => step[t] \in Tried
      BY Zenon, <1>0, <2>2 DEF SerialInv, AboutStep, StepCalls
    <3>2. ASSUME NEW t \in Steps, step[t] = "pending" PROVE t > k.ord
      <4>1. t \in Nat /\ k.ord \in Nat /\ t # k.ord /\ ~(t < k.ord)
        BY Zenon, <1>0, <3>1, <3>2 DEF Tried
      <4> QED
        BY Zenon, <4>1, Apart
    <3> QED
      BY Zenon, <3>2
  <2>3. InOrder(step', approvals', "skip", k.ord)
    BY Zenon, <1>0, <2>2 DEF SerialInv, InOrder, AboutStep, AboutPlan, Tried, StepCalls, Holding,
       Unstarted
  <2>4. AboutStep(plan', step', "skip", k.ord, {s \in Steps : s > k.ord /\ step[s] = "pending"}, k.flag)
    BY Zenon, <1>0, <2>2, <2>6 DEF SerialInv, AboutStep, StepCalls, Holding
  <2>5. AboutPlan(plan', step', approvals', "skip", k.ord)
    BY Zenon, <1>0, <2>2 DEF SerialInv, InOrder, AboutStep, AboutPlan, Tried, StepCalls, Holding,
       Unstarted
  <2> QED
    BY Zenon, <2>1, <2>3, <2>4, <2>5, SerialGoto
<1>2. ASSUME NEW s \in Steps, HaltSkip(d, s) PROVE SerialInv(d)'
  <2>1. Goto(d, Frame("skip", k.ord, k.todo \ {s}, k.flag, 0))
    BY Zenon, <1>2 DEF HaltSkip, Resumes, Walk, At, Idle
  <2>2. /\ k.call = "skip" /\ s \in k.todo /\ step' = [step EXCEPT ![s] = "skipped"]
        /\ UNCHANGED <<plan, approvals>>
    BY Zenon, <1>2, SyncRow DEF HaltSkip, Resumes, store, history, Walk, PatchStep
  <2>3. InOrder(step', approvals', "skip", k.ord)
    <3>1. step[s] = "pending"
      BY Zenon, <2>2 DEF SerialInv, AboutStep
    <3>2. \A t \in Steps : step'[t] = IF t = s THEN "skipped" ELSE step[t]
      BY Zenon, <1>0, <2>2
    <3>3. \A t \in Steps : step'[t] \in Tried <=> step[t] \in Tried
      BY Zenon, <3>1, <3>2 DEF Tried
    <3>4. InOrder(step, approvals, "skip", k.ord) /\ approvals' = approvals
      BY Zenon, <2>2 DEF SerialInv
    <3> QED
      BY Zenon, <3>3, <3>4 DEF InOrder
  <2>4. AboutStep(plan', step', "skip", k.ord, k.todo \ {s}, k.flag)
    BY Zenon, <1>0, <2>2 DEF SerialInv, InOrder, AboutStep, AboutPlan, Tried, StepCalls, Holding,
       Unstarted
  <2>5. AboutPlan(plan', step', approvals', "skip", k.ord)
    BY Zenon, <1>0, <2>2 DEF SerialInv, InOrder, AboutStep, AboutPlan, Tried, StepCalls, Holding,
       Unstarted
  <2> QED
    BY Zenon, <2>1, <2>3, <2>4, <2>5, SerialGoto
<1>3. CASE HaltWrite(d) /\ k.flag
  <2>1. Goto(d, Frame("next", 0, {}, FALSE, 0))
    BY Zenon, <1>3 DEF HaltWrite, At, Idle
  <2>2. /\ k.call = "skip" /\ k.todo = {} /\ plan' = "failed" /\ UNCHANGED <<step, approvals>>
    BY Zenon, <1>3, SyncRow DEF HaltWrite, Resumes, store, history, PatchPlan
  <2>3. InOrder(step', approvals', "next", 0)
    BY Zenon, <1>0, <2>2 DEF SerialInv, InOrder, AboutStep, AboutPlan, Tried, StepCalls, Holding,
       Unstarted
  <2>4. AboutStep(plan', step', "next", 0, {}, FALSE)
    BY Zenon, <1>0, <2>2 DEF SerialInv, InOrder, AboutStep, AboutPlan, Tried, StepCalls, Holding,
       Unstarted
  <2>5. AboutPlan(plan', step', approvals', "next", 0)
    BY Zenon, <1>0, <2>2 DEF SerialInv, InOrder, AboutStep, AboutPlan, Tried, StepCalls, Holding,
       Unstarted
  <2> QED
    BY Zenon, <2>1, <2>3, <2>4, <2>5, SerialGoto
<1>4. CASE HaltWrite(d) /\ ~k.flag
  <2>1. Goto(d, Frame("idle", 0, {}, FALSE, 0))
    BY Zenon, <1>4 DEF HaltWrite, At, Idle
  <2>2. /\ k.call = "skip" /\ k.todo = {} /\ plan' = "failed" /\ UNCHANGED <<step, approvals>>
    BY Zenon, <1>4, SyncRow DEF HaltWrite, Resumes, store, history, PatchPlan
  <2>3. InOrder(step', approvals', "idle", 0)
    BY Zenon, <1>0, <2>2 DEF SerialInv, InOrder, AboutStep, AboutPlan, Tried, StepCalls, Holding,
       Unstarted
  <2>4. AboutStep(plan', step', "idle", 0, {}, FALSE)
    BY Zenon, <1>0, <2>2 DEF SerialInv, InOrder, AboutStep, AboutPlan, Tried, StepCalls, Holding,
       Unstarted
  <2>5. AboutPlan(plan', step', approvals', "idle", 0)
    BY Zenon, <1>0, <2>2 DEF SerialInv, InOrder, AboutStep, AboutPlan, Tried, StepCalls, Holding,
       Unstarted
  <2> QED
    BY Zenon, <2>1, <2>3, <2>4, <2>5, SerialGoto
<1>5. CASE RetryReset(d) /\ k.flag
  <2>1. Goto(d, Frame("unskip", k.ord, k.todo, FALSE, 0))
    BY Zenon, <1>5 DEF RetryReset, At, Idle
  <2>2. /\ k.call = "reset" /\ k.flag /\ step' = [step EXCEPT ![k.ord] = "pending"]
        /\ UNCHANGED <<plan, approvals>>
    BY Zenon, <1>5, SyncRow DEF RetryReset, Resumes, store, history, PatchStep
  <2>3. InOrder(step', approvals', "unskip", k.ord)
    BY Zenon, <1>0, <2>2 DEF SerialInv, InOrder, AboutStep, AboutPlan, Tried, StepCalls, Holding,
       Unstarted
  <2>4. AboutStep(plan', step', "unskip", k.ord, k.todo, FALSE)
    <3>1. /\ plan = "failed" /\ k.todo = {t \in Steps : step[t] = "skipped"}
          /\ k.ord \in Steps /\ step[k.ord] = "failed"
          /\ \A t \in Steps : t < k.ord => step[t] \in Tried
      BY Zenon, <1>0, <2>2 DEF SerialInv, AboutStep, StepCalls
    <3>2. step'[k.ord] = "pending" /\ \A t \in Steps : t # k.ord => step'[t] = step[t]
      BY Zenon, <1>0, <2>2, <3>1
    <3>3. k.todo = {t \in Steps : step'[t] = "skipped"}
      BY Zenon, <3>1, <3>2
    <3>4. \A t \in Steps : t < k.ord => step'[t] \in Tried
      BY Zenon, <1>0, <3>1, <3>2, Apart
    <3> QED
      BY Zenon, <2>2, <3>1, <3>2, <3>3, <3>4 DEF AboutStep, Holding
  <2>5. AboutPlan(plan', step', approvals', "unskip", k.ord)
    BY Zenon, <1>0, <2>2 DEF SerialInv, InOrder, AboutStep, AboutPlan, Tried, StepCalls, Holding,
       Unstarted
  <2> QED
    BY Zenon, <2>1, <2>3, <2>4, <2>5, SerialGoto
<1>6. CASE RetryReset(d) /\ ~k.flag
  <2>1. Goto(d, Frame("start", k.ord, k.todo, FALSE, 0))
    BY Zenon, <1>6 DEF RetryReset, At, Idle
  <2>2. /\ k.call = "reset" /\ ~k.flag /\ step' = [step EXCEPT ![k.ord] = "pending"]
        /\ UNCHANGED <<plan, approvals>>
    BY Zenon, <1>6, SyncRow DEF RetryReset, Resumes, store, history, PatchStep
  <2>3. InOrder(step', approvals', "start", k.ord)
    BY Zenon, <1>0, <2>2 DEF SerialInv, InOrder, AboutStep, AboutPlan, Tried, StepCalls, Holding,
       Unstarted
  <2>4. AboutStep(plan', step', "start", k.ord, k.todo, FALSE)
    <3>1. k.ord \in Steps /\ \A t \in Steps : t < k.ord => step[t] \in Tried
      BY Zenon, <1>0, <2>2 DEF SerialInv, AboutStep, StepCalls
    <3>2. \A t \in Steps : t # k.ord => step'[t] = step[t]
      BY Zenon, <1>0, <2>2, <3>1
    <3>3. \A t \in Steps : t < k.ord => step'[t] \in Tried
      BY Zenon, <1>0, <3>1, <3>2, Apart
    <3> QED
      BY Zenon, <3>3 DEF AboutStep, Holding
  <2>5. AboutPlan(plan', step', approvals', "start", k.ord)
    BY Zenon, <1>0, <2>2 DEF SerialInv, InOrder, AboutStep, AboutPlan, Tried, StepCalls, Holding,
       Unstarted
  <2> QED
    BY Zenon, <2>1, <2>3, <2>4, <2>5, SerialGoto
<1>7. ASSUME NEW s \in Steps, RetryUnskip(d, s) PROVE SerialInv(d)'
  <2>1. Goto(d, Frame("unskip", k.ord, k.todo \ {s}, k.flag, 0))
    BY Zenon, <1>7 DEF RetryUnskip, Resumes, Walk, At, Idle
  <2>2. /\ k.call = "unskip" /\ s \in k.todo /\ step' = [step EXCEPT ![s] = "pending"]
        /\ UNCHANGED <<plan, approvals>>
    BY Zenon, <1>7, SyncRow DEF RetryUnskip, Resumes, store, history, Walk, PatchStep
  <2>6. step[s] = "skipped" /\ s # k.ord /\ step' \in [Steps -> StepStatus]
        /\ \A t \in Steps : step'[t] \in Tried <=> step[t] \in Tried
    BY Zenon, <1>0, <2>2 DEF SerialInv, AboutStep, Tried, StepStatus
  <2>3. InOrder(step', approvals', "unskip", k.ord)
    BY Zenon, <2>2, <2>6 DEF SerialInv, InOrder
  <2>4. AboutStep(plan', step', "unskip", k.ord, k.todo \ {s}, k.flag)
    BY Zenon, <1>0, <2>2 DEF SerialInv, InOrder, AboutStep, AboutPlan, Tried, StepCalls, Holding,
       Unstarted
  <2>5. AboutPlan(plan', step', approvals', "unskip", k.ord)
    BY Zenon, <1>0, <2>2 DEF SerialInv, InOrder, AboutStep, AboutPlan, Tried, StepCalls, Holding,
       Unstarted
  <2> QED
    BY Zenon, <2>1, <2>3, <2>4, <2>5, SerialGoto
<1>8. CASE RetryResume(d)
  <2>1. Goto(d, Frame("start", k.ord, {}, FALSE, 0))
    BY Zenon, <1>8 DEF RetryResume, At, Idle
  <2>2. /\ k.call = "unskip" /\ k.todo = {} /\ plan' = "executing"
        /\ UNCHANGED <<step, approvals>>
    BY Zenon, <1>8, SyncRow DEF RetryResume, Resumes, store, history, PatchPlan
  <2>3. InOrder(step', approvals', "start", k.ord)
    BY Zenon, <1>0, <2>2 DEF SerialInv, InOrder, AboutStep, AboutPlan, Tried, StepCalls, Holding,
       Unstarted
  <2>4. AboutStep(plan', step', "start", k.ord, {}, FALSE)
    BY Zenon, <1>0, <2>2 DEF SerialInv, InOrder, AboutStep, AboutPlan, Tried, StepCalls, Holding,
       Unstarted
  <2>5. AboutPlan(plan', step', approvals', "start", k.ord)
    BY Zenon, <1>0, <2>2 DEF SerialInv, InOrder, AboutStep, AboutPlan, Tried, StepCalls, Holding,
       Unstarted
  <2> QED
    BY Zenon, <2>1, <2>3, <2>4, <2>5, SerialGoto
<1> QED
  BY Zenon, <1>1, <1>2, <1>3, <1>4, <1>5, <1>6, <1>7, <1>8

\* Asking for the approval of a step, and what comes of it.
LEMMA SerialResolve ==
  ASSUME SyncStore, TypeInv, NEW d \in Drivers, SerialInv(d),
         Submit(d) \/ ResolveApproved(d) \/ ResolveRejected(d) \/ StepRejectedWrite(d)
  PROVE  SerialInv(d)'
<1> DEFINE k == drv[d]
<1>0. /\ k.call \in Calls /\ k.ord \in 0 .. NSteps /\ k.todo \in SUBSET Steps /\ k.flag \in BOOLEAN
      /\ k.call \in StepCalls => k.ord \in Steps
      /\ step \in [Steps -> StepStatus] /\ plan \in PlanStatus /\ Steps \subseteq Nat
      /\ \A i \in DOMAIN approvals : approvals[i].step \in Steps
  BY Zenon, SerialTypes
<1>1. CASE Submit(d)
  <2>1. Goto(d, Frame("link", k.ord, {}, FALSE, 0))
    BY Zenon, <1>1 DEF Submit, At, Idle
  <2>2. /\ k.call = "submit"
        /\ approvals' = Append(approvals, [step |-> k.ord, status |-> "pending"])
        /\ UNCHANGED <<plan, step>>
    BY Zenon, <1>1, SyncRow DEF Submit, Resumes, store, history
  <2>3. InOrder(step', approvals', "link", k.ord)
    <3>1. /\ k.ord \in Steps /\ \A t \in Steps : t < k.ord => step[t] \in Tried
          /\ InOrder(step, approvals, "submit", k.ord)
      BY Zenon, <1>0, <2>2 DEF SerialInv, AboutStep, StepCalls
    <3>2. ASSUME NEW i \in DOMAIN approvals'
          PROVE  approvals'[i].step = k.ord \/ (i \in DOMAIN approvals /\ approvals'[i] = approvals[i])
      <4>1. approvals \in Seq([step : Steps, status : ApprovalStatus])
        BY Zenon DEF TypeInv, StoreType
      <4> QED
        BY <2>2, <4>1
    <3>3. ASSUME NEW x \in Steps, \E i \in DOMAIN approvals' : approvals'[i].step = x
          PROVE  x = k.ord \/ \E i \in DOMAIN approvals : approvals[i].step = x
      BY Zenon, <3>2, <3>3
    <3> QED
      BY Zenon, <2>2, <3>1, <3>3 DEF InOrder
  <2>4. AboutStep(plan', step', "link", k.ord, {}, FALSE)
    BY Zenon, <1>0, <2>2 DEF SerialInv, InOrder, AboutStep, AboutPlan, Tried, StepCalls, Holding,
       Unstarted
  <2>5. AboutPlan(plan', step', approvals', "link", k.ord)
    BY Zenon, <1>0, <2>2 DEF SerialInv, InOrder, AboutStep, AboutPlan, Tried, StepCalls, Holding,
       Unstarted
  <2> QED
    BY Zenon, <2>1, <2>3, <2>4, <2>5, SerialGoto
<1>2. CASE ResolveApproved(d)
  <2>1. Goto(d, Frame("start", k.ord, {}, FALSE, 0))
    BY Zenon, <1>2 DEF ResolveApproved, At, Idle
  <2>2. /\ k.call = "grant" /\ approvals' = [approvals EXCEPT ![k.apr].status = "approved"]
        /\ UNCHANGED <<plan, step>>
    BY Zenon, <1>2, SyncRow DEF ResolveApproved, Resumes, store, history
  <2>3. InOrder(step', approvals', "start", k.ord)
    <3>1. InOrder(step, approvals, k.call, k.ord)
      BY Zenon DEF SerialInv
    <3>2. ASSUME NEW i \in DOMAIN approvals'
          PROVE  i \in DOMAIN approvals /\ approvals'[i].step = approvals[i].step
      <4>1. approvals \in Seq([step : Steps, status : ApprovalStatus])
        BY Zenon DEF TypeInv, StoreType
      <4> QED
        BY <2>2, <4>1
    <3>3. ASSUME NEW x \in Steps, \E i \in DOMAIN approvals' : approvals'[i].step = x
          PROVE  \E i \in DOMAIN approvals : approvals[i].step = x
      BY Zenon, <3>2, <3>3
    <3> QED
      BY Zenon, <2>2, <3>1, <3>3 DEF InOrder
  <2>4. AboutStep(plan', step', "start", k.ord, {}, FALSE)
    BY Zenon, <1>0, <2>2 DEF SerialInv, InOrder, AboutStep, AboutPlan, Tried, StepCalls, Holding,
       Unstarted
  <2>5. AboutPlan(plan', step', approvals', "start", k.ord)
    BY Zenon, <1>0, <2>2 DEF SerialInv, InOrder, AboutStep, AboutPlan, Tried, StepCalls, Holding,
       Unstarted
  <2> QED
    BY Zenon, <2>1, <2>3, <2>4, <2>5, SerialGoto
<1>3. CASE ResolveRejected(d)
  <2>1. Goto(d, Frame("stepRejected", k.ord, {}, FALSE, 0))
    BY Zenon, <1>3 DEF ResolveRejected, At, Idle
  <2>2. /\ k.call = "refuse" /\ approvals' = [approvals EXCEPT ![k.apr].status = "rejected"]
        /\ UNCHANGED <<plan, step>>
    BY Zenon, <1>3, SyncRow DEF ResolveRejected, Resumes, store, history
  <2>3. InOrder(step', approvals', "stepRejected", k.ord)
    <3>1. InOrder(step, approvals, k.call, k.ord)
      BY Zenon DEF SerialInv
    <3>2. ASSUME NEW i \in DOMAIN approvals'
          PROVE  i \in DOMAIN approvals /\ approvals'[i].step = approvals[i].step
      <4>1. approvals \in Seq([step : Steps, status : ApprovalStatus])
        BY Zenon DEF TypeInv, StoreType
      <4> QED
        BY <2>2, <4>1
    <3>3. ASSUME NEW x \in Steps, \E i \in DOMAIN approvals' : approvals'[i].step = x
          PROVE  \E i \in DOMAIN approvals : approvals[i].step = x
      BY Zenon, <3>2, <3>3
    <3> QED
      BY Zenon, <2>2, <3>1, <3>3 DEF InOrder
  <2>4. AboutStep(plan', step', "stepRejected", k.ord, {}, FALSE)
    BY Zenon, <1>0, <2>2 DEF SerialInv, InOrder, AboutStep, AboutPlan, Tried, StepCalls, Holding,
       Unstarted
  <2>5. AboutPlan(plan', step', approvals', "stepRejected", k.ord)
    BY Zenon, <1>0, <2>2 DEF SerialInv, InOrder, AboutStep, AboutPlan, Tried, StepCalls, Holding,
       Unstarted
  <2> QED
    BY Zenon, <2>1, <2>3, <2>4, <2>5, SerialGoto
<1>4. CASE StepRejectedWrite(d) /\ k.ord \in tolerant
  <2>1. Goto(d, Frame("next", 0, {}, FALSE, 0))
    BY Zenon, <1>4 DEF StepRejectedWrite, At, Idle
  <2>2. /\ k.call = "stepRejected" /\ step' = [step EXCEPT ![k.ord] = "failed"]
        /\ UNCHANGED <<plan, approvals>>
    BY Zenon, <1>4, SyncRow DEF StepRejectedWrite, Resumes, store, history, PatchStep
  <2>3. InOrder(step', approvals', "next", 0)
    BY Zenon, <1>0, <2>2 DEF SerialInv, InOrder, AboutStep, AboutPlan, Tried, StepCalls, Holding,
       Unstarted
  <2>4. AboutStep(plan', step', "next", 0, {}, FALSE)
    BY Zenon, <1>0, <2>2 DEF SerialInv, InOrder, AboutStep, AboutPlan, Tried, StepCalls, Holding,
       Unstarted
  <2>5. AboutPlan(plan', step', approvals', "next", 0)
    BY Zenon, <1>0, <2>2 DEF SerialInv, InOrder, AboutStep, AboutPlan, Tried, StepCalls, Holding,
       Unstarted
  <2> QED
    BY Zenon, <2>1, <2>3, <2>4, <2>5, SerialGoto
<1>5. CASE StepRejectedWrite(d) /\ k.ord \notin tolerant
  <2>1. Goto(d, Frame("halt", k.ord, {}, FALSE, 0))
    BY Zenon, <1>5 DEF StepRejectedWrite, At, Idle
  <2>2. /\ k.call = "stepRejected" /\ step' = [step EXCEPT ![k.ord] = "failed"]
        /\ UNCHANGED <<plan, approvals>>
    BY Zenon, <1>5, SyncRow DEF StepRejectedWrite, Resumes, store, history, PatchStep
  <2>3. InOrder(step', approvals', "halt", k.ord)
    BY Zenon, <1>0, <2>2 DEF SerialInv, InOrder, AboutStep, AboutPlan, Tried, StepCalls, Holding,
       Unstarted
  <2>4. AboutStep(plan', step', "halt", k.ord, {}, FALSE)
    BY Zenon, <1>0, <2>2 DEF SerialInv, InOrder, AboutStep, AboutPlan, Tried, StepCalls, Holding,
       Unstarted
  <2>5. AboutPlan(plan', step', approvals', "halt", k.ord)
    BY Zenon, <1>0, <2>2 DEF SerialInv, InOrder, AboutStep, AboutPlan, Tried, StepCalls, Holding,
       Unstarted
  <2> QED
    BY Zenon, <2>1, <2>3, <2>4, <2>5, SerialGoto
<1> QED
  BY Zenon, <1>1, <1>2, <1>3, <1>4, <1>5

\* New requests, which find the driver idle.
LEMMA SerialRequest ==
  ASSUME SyncStore, TypeInv, NEW d \in Drivers, SerialInv(d),
         Request(d)
  PROVE  SerialInv(d)'
<1> DEFINE k == drv[d]
<1>0. /\ k.call \in Calls /\ k.ord \in 0 .. NSteps /\ k.todo \in SUBSET Steps /\ k.flag \in BOOLEAN
      /\ k.call \in StepCalls => k.ord \in Steps
      /\ step \in [Steps -> StepStatus] /\ plan \in PlanStatus /\ Steps \subseteq Nat
      /\ \A i \in DOMAIN approvals : approvals[i].step \in Steps
  BY Zenon, SerialTypes
<1>1. ASSUME NEW C \in SUBSET Steps, Create(d, C, TRUE) PROVE SerialInv(d)'
  <2>1. Goto(d, Frame("linkPlan", 0, {}, FALSE, 0))
    BY Zenon, <1>1 DEF Create, At, Idle
  <2>2. /\ k.call = "idle" /\ plan = "absent" /\ plan' = "pending_approval"
        /\ UNCHANGED <<step, approvals>>
    BY Zenon, <1>1, IdleType DEF Create, Begin, store, history
  <2>3. InOrder(step', approvals', "linkPlan", 0)
    BY Zenon, <1>0, <2>2 DEF SerialInv, InOrder, AboutStep, AboutPlan, Tried, StepCalls, Holding,
       Unstarted
  <2>4. AboutStep(plan', step', "linkPlan", 0, {}, FALSE)
    BY Zenon, <1>0, <2>2 DEF SerialInv, InOrder, AboutStep, AboutPlan, Tried, StepCalls, Holding,
       Unstarted
  <2>5. AboutPlan(plan', step', approvals', "linkPlan", 0)
    BY Zenon, <1>0, <2>2 DEF SerialInv, InOrder, AboutStep, AboutPlan, Tried, StepCalls, Holding,
       Unstarted
  <2> QED
    BY Zenon, <2>1, <2>3, <2>4, <2>5, SerialGoto
<1>2. ASSUME NEW C \in SUBSET Steps, Create(d, C, FALSE) PROVE SerialInv(d)'
  <2>1. Goto(d, Frame("idle", 0, {}, FALSE, 0))
    BY Zenon, <1>2 DEF Create, At, Idle
  <2>2. /\ k.call = "idle" /\ plan = "absent" /\ plan' = "pending_approval"
        /\ UNCHANGED <<step, approvals>>
    BY Zenon, <1>2, IdleType DEF Create, Begin, store, history
  <2>3. InOrder(step', approvals', "idle", 0)
    BY Zenon, <1>0, <2>2 DEF SerialInv, InOrder, AboutStep, AboutPlan, Tried, StepCalls, Holding,
       Unstarted
  <2>4. AboutStep(plan', step', "idle", 0, {}, FALSE)
    BY Zenon, <1>0, <2>2 DEF SerialInv, InOrder, AboutStep, AboutPlan, Tried, StepCalls, Holding,
       Unstarted
  <2>5. AboutPlan(plan', step', approvals', "idle", 0)
    BY Zenon, <1>0, <2>2 DEF SerialInv, InOrder, AboutStep, AboutPlan, Tried, StepCalls, Holding,
       Unstarted
  <2> QED
    BY Zenon, <2>1, <2>3, <2>4, <2>5, SerialGoto
<1>3. ASSUME NEW auto \in BOOLEAN, ApproveRead(d, auto) PROVE SerialInv(d)'
  <2>1. Goto(d, Frame("approved", 0, {}, auto, 0))
    BY Zenon, <1>3 DEF ApproveRead, At, Idle
  <2>2. /\ k.call = "idle" /\ plan = "pending_approval" /\ UNCHANGED <<plan, step, approvals>>
    BY Zenon, <1>3, IdleType DEF ApproveRead, Begin, store, history
  <2>3. InOrder(step', approvals', "approved", 0)
    BY Zenon, <1>0, <2>2 DEF SerialInv, InOrder, AboutStep, AboutPlan, Tried, StepCalls, Holding,
       Unstarted
  <2>4. AboutStep(plan', step', "approved", 0, {}, auto)
    BY Zenon, <1>0, <2>2 DEF SerialInv, InOrder, AboutStep, AboutPlan, Tried, StepCalls, Holding,
       Unstarted
  <2>5. AboutPlan(plan', step', approvals', "approved", 0)
    BY Zenon, <1>0, <2>2 DEF SerialInv, InOrder, AboutStep, AboutPlan, Tried, StepCalls, Holding,
       Unstarted
  <2> QED
    BY Zenon, <2>1, <2>3, <2>4, <2>5, SerialGoto
<1>4. CASE RejectRead(d)
  <2>1. Goto(d, Frame("reject", 0, {}, FALSE, 0))
    BY Zenon, <1>4 DEF RejectRead, At, Idle
  <2>2. /\ k.call = "idle" /\ plan = "pending_approval" /\ UNCHANGED <<plan, step, approvals>>
    BY Zenon, <1>4, IdleType DEF RejectRead, Begin, store, history
  <2>3. InOrder(step', approvals', "reject", 0)
    BY Zenon, <1>0, <2>2 DEF SerialInv, InOrder, AboutStep, AboutPlan, Tried, StepCalls, Holding,
       Unstarted
  <2>4. AboutStep(plan', step', "reject", 0, {}, FALSE)
    BY Zenon, <1>0, <2>2 DEF SerialInv, InOrder, AboutStep, AboutPlan, Tried, StepCalls, Holding,
       Unstarted
  <2>5. AboutPlan(plan', step', approvals', "reject", 0)
    BY Zenon, <1>0, <2>2 DEF SerialInv, InOrder, AboutStep, AboutPlan, Tried, StepCalls, Holding,
       Unstarted
  <2> QED
    BY Zenon, <2>1, <2>3, <2>4, <2>5, SerialGoto
<1>5. CASE CancelRead(d)
  <2>1. Goto(d, Frame("cancel", 0, {}, FALSE, 0))
    BY Zenon, <1>5 DEF CancelRead, At, Idle
  <2>2. /\ k.call = "idle" /\ plan \in {"approved", "executing"}
        /\ UNCHANGED <<plan, step, approvals>>
    BY Zenon, <1>5, IdleType DEF CancelRead, Begin, store, history
  <2>3. InOrder(step', approvals', "cancel", 0)
    BY Zenon, <1>0, <2>2 DEF SerialInv, InOrder, AboutStep, AboutPlan, Tried, StepCalls, Holding,
       Unstarted
  <2>4. AboutStep(plan', step', "cancel", 0, {}, FALSE)
    BY Zenon, <1>0, <2>2 DEF SerialInv, InOrder, AboutStep, AboutPlan, Tried, StepCalls, Holding,
       Unstarted
  <2>5. AboutPlan(plan', step', approvals', "cancel", 0)
    BY Zenon, <1>0, <2>2 DEF SerialInv, InOrder, AboutStep, AboutPlan, Tried, StepCalls, Holding,
       Unstarted
  <2> QED
    BY Zenon, <2>1, <2>3, <2>4, <2>5, SerialGoto
<1>6. CASE Expire(d)
  <2>1. Goto(d, Frame("idle", 0, {}, FALSE, 0))
    BY Zenon, <1>6 DEF Expire, Goto, Begin, TypeInv, At, Idle
  <2>2. /\ k.call = "idle" /\ plan = "pending_approval" /\ plan' = "expired"
        /\ UNCHANGED <<step, approvals>>
    BY Zenon, <1>6, IdleType DEF Expire, Begin, store, history
  <2>3. InOrder(step', approvals', "idle", 0)
    BY Zenon, <1>0, <2>2 DEF SerialInv, InOrder, AboutStep, AboutPlan, Tried, StepCalls, Holding,
       Unstarted
  <2>4. AboutStep(plan', step', "idle", 0, {}, FALSE)
    BY Zenon, <1>0, <2>2 DEF SerialInv, InOrder, AboutStep, AboutPlan, Tried, StepCalls, Holding,
       Unstarted
  <2>5. AboutPlan(plan', step', approvals', "idle", 0)
    BY Zenon, <1>0, <2>2 DEF SerialInv, InOrder, AboutStep, AboutPlan, Tried, StepCalls, Holding,
       Unstarted
  <2> QED
    BY Zenon, <2>1, <2>3, <2>4, <2>5, SerialGoto
<1>7. ASSUME NEW s \in Steps, RetryRead(d, s) PROVE SerialInv(d)'
  <2>1. Goto(d, Frame("reset", s, {t \in Steps : plan = "failed" /\ t > s /\ step[t] = "skipped"}, plan = "failed", 0))
    BY Zenon, <1>7 DEF RetryRead, At, Idle
  <2>2. /\ k.call = "idle" /\ step[s] = "failed" /\ UNCHANGED <<plan, step, approvals>>
    BY Zenon, <1>7, IdleType DEF RetryRead, Begin, store, history
  <2>6. /\ plan = "failed" => {t \in Steps : plan = "failed" /\ t > s /\ step[t] = "skipped"}
                                = {t \in Steps : step[t] = "skipped"}
        /\ \A t \in Steps : t < s => step[t] \in Tried
    <3>1. \A t \in Steps : t < s => step[t] \in Tried
      BY Zenon, <1>0, <2>2 DEF SerialInv, InOrder, Tried
    <3>2. ASSUME NEW t \in Steps, step[t] = "skipped" PROVE t > s
      BY <1>0, <2>2, <3>1, <3>2 DEF Tried
    <3> QED
      BY Zenon, <3>1, <3>2
  <2>3. InOrder(step', approvals', "reset", s)
    BY Zenon, <1>0, <2>2 DEF SerialInv, InOrder, AboutStep, AboutPlan, Tried, StepCalls, Holding,
       Unstarted
  <2>4. AboutStep(plan', step', "reset", s, {t \in Steps : plan = "failed" /\ t > s /\ step[t] = "skipped"}, plan = "failed")
    BY Zenon, <1>0, <2>2, <2>6 DEF AboutStep, StepCalls, Holding
  <2>5. AboutPlan(plan', step', approvals', "reset", s)
    BY Zenon, <1>0, <2>2 DEF SerialInv, InOrder, AboutStep, AboutPlan, Tried, StepCalls, Holding,
       Unstarted
  <2> QED
    BY Zenon, <2>1, <2>3, <2>4, <2>5, SerialGoto
<1>8. ASSUME NEW i \in DOMAIN approvals, NEW call \in {"grant", "refuse"}, ResolveRead(d, i, call) \/ (call = "grant" /\ Override(d, i)) PROVE SerialInv(d)'
  <2>1. Goto(d, Frame(call, approvals[i].step, {}, FALSE, i))
    BY Zenon, <1>8 DEF ResolveRead, Override, At, Idle
  <2>2. k.call = "idle" /\ UNCHANGED <<plan, step, approvals>>
    BY Zenon, <1>8, IdleType DEF ResolveRead, Override, Begin, store, history
  <2>3. InOrder(step', approvals', call, approvals[i].step)
    BY Zenon, <1>0, <2>2 DEF SerialInv, InOrder, AboutStep, AboutPlan, Tried, StepCalls, Holding,
       Unstarted
  <2>4. AboutStep(plan', step', call, approvals[i].step, {}, FALSE)
    BY Zenon, <1>0, <2>2 DEF SerialInv, InOrder, AboutStep, AboutPlan, Tried, StepCalls, Holding,
       Unstarted
  <2>5. AboutPlan(plan', step', approvals', call, approvals[i].step)
    BY Zenon, <1>0, <2>2 DEF SerialInv, InOrder, AboutStep, AboutPlan, Tried, StepCalls, Holding,
       Unstarted
  <2> QED
    BY Zenon, <2>1, <2>3, <2>4, <2>5, SerialGoto
<1> QED
  BY Zenon, <1>1, <1>2, <1>3, <1>4, <1>5, <1>6, <1>7, <1>8 DEF Request

\* SerialInv until the process crashes.
SoloInv(d) == crashes = 0 => SerialInv(d)

\* Nothing has been asked of the plan yet.
LEMMA SoloInit ==
  ASSUME NEW d \in Drivers, Init
  PROVE  SoloInv(d)
<1>1. /\ drv[d].call = "idle" /\ plan = "absent" /\ DOMAIN approvals = {}
      /\ \A s \in Steps : step[s] = "pending"
  BY DEF Init, Idle, At, Frame
<1> QED
  BY Zenon, <1>1 DEF SoloInv, SerialInv, InOrder, AboutStep, AboutPlan, Tried, StepCalls, Holding, Unstarted

\* A crash voids the claim; every other step keeps the invariant.
LEMMA SoloStep ==
  ASSUME NEW solo, Drivers = {solo}, SyncStore, TypeInv, SoloInv(solo), [Next]_vars
  PROVE  SoloInv(solo)'
<1>0. solo \in Drivers /\ \A d \in Drivers : d = solo
  BY Zenon
<1>1. CASE Crash
  BY <1>1 DEF Crash, SoloInv, TypeInv, StoreType
<1>2. CASE UNCHANGED vars
  <2>1. UNCHANGED <<plan, step, approvals, drv, crashes>>
    BY Zenon, <1>2 DEF vars, store
  <2>2. SerialInv(solo) => SerialInv(solo)'
    BY Zenon, <2>1 DEF SerialInv, InOrder, AboutStep, AboutPlan
  <2> QED
    BY Zenon, <2>1, <2>2 DEF SoloInv
<1>3. CASE Request(solo)
  <2>1. UNCHANGED crashes
    BY Zenon, <1>3 DEF Request, Create, ApproveRead, RejectRead, CancelRead, Expire, RetryRead,
       ResolveRead, Override, Begin
  <2> QED
    BY Zenon, <1>0, <1>3, <2>1, SerialRequest DEF SoloInv
<1>4. CASE Advance(solo)
  <2>1. UNCHANGED crashes
    BY Zenon, <1>4 DEF Advance, FetchRow, LinkPlan, ApproveWrite, ExecutingWrite, RejectWrite,
       CancelWrite, RunNextStops, RunNextFindsNone, RunNextPicks, CompleteWrite, Submit, Link,
       StartWrite, RunRefused, RunCommand, DoneWrite, FailWrite, HaltRead, HaltSkip, HaltWrite,
       RetryReset, RetryUnskip, RetryResume, ResolveApproved, ResolveRejected,
       StepRejectedWrite, Resumes
  <2>2. ~FetchRow(solo)
    BY Zenon DEF FetchRow
  <2>3. SerialInv(solo) => SerialInv(solo)'
    BY Zenon, <1>0, <1>4, <2>2, SerialPlan, SerialRun, SerialHalt, SerialResolve DEF Advance
  <2> QED
    BY Zenon, <2>1, <2>3 DEF SoloInv
<1> QED
  BY Zenon, <1>0, <1>1, <1>2, <1>3, <1>4 DEF Next

\* What the invariant says of a plan at rest.
LEMMA SoloAtRest ==
  ASSUME NEW solo, Drivers = {solo}, TypeInv, SerialInv(solo)
  PROVE  CompletedIsSettled /\ HaltedIsSkipped
<1> SUFFICES ASSUME Quiet PROVE CompletedIsSettled /\ HaltedIsSkipped
  BY Zenon DEF CompletedIsSettled, HaltedIsSkipped
<1>1. drv[solo].call = "idle"
  BY Zenon, IdleType DEF Quiet
<1>2. step \in [Steps -> StepStatus]
  BY Zenon DEF TypeInv, StoreType
<1> QED
  BY Zenon, <1>1, <1>2 DEF SerialInv, AboutPlan, CompletedIsSettled, HaltedIsSkipped, StepStatus, Holding

(* One driver, a store whose patches are atomic: until the process crashes, *)
(* a plan at rest is completed only with an outcome for every step.         *)
THEOREM SoloCompletion ==
  ASSUME NEW solo, Drivers = {solo}, SyncStore
  PROVE  Spec => [](crashes = 0 => CompletedIsSettled)
<1>1. Spec => []TypeInv
  BY TypeInit, TypeStep, PTL DEF Spec
<1>2. Init => SoloInv(solo)
  BY Zenon, SoloInit
<1>3. TypeInv /\ SoloInv(solo) /\ [Next]_vars => SoloInv(solo)'
  BY Zenon, SoloStep
<1>4. TypeInv /\ SoloInv(solo) => (crashes = 0 => CompletedIsSettled)
  BY Zenon, SoloAtRest DEF SoloInv
<1> QED
  BY <1>1, <1>2, <1>3, <1>4, PTL DEF Spec

(* Likewise, a plan at rest has failed only with no step left pending.      *)
THEOREM SoloHalt ==
  ASSUME NEW solo, Drivers = {solo}, SyncStore
  PROVE  Spec => [](crashes = 0 => HaltedIsSkipped)
<1>1. Spec => []TypeInv
  BY TypeInit, TypeStep, PTL DEF Spec
<1>2. Init => SoloInv(solo)
  BY SoloInit
<1>3. TypeInv /\ SoloInv(solo) /\ [Next]_vars => SoloInv(solo)'
  BY SoloStep
<1>4. TypeInv /\ SoloInv(solo) => (crashes = 0 => HaltedIsSkipped)
  BY Zenon, SoloAtRest DEF SoloInv
<1> QED
  BY <1>1, <1>2, <1>3, <1>4, PTL DEF Spec

\* Without crashes in the bound, none is counted.
LEMMA SoloCount ==
  ASSUME MaxCrashes = 0, crashes = 0, [Next]_vars
  PROVE  crashes' = 0
<1>1. ~Crash
  BY DEF Crash
<1>2. CASE UNCHANGED vars
  BY Zenon, <1>2 DEF vars
<1>3. ASSUME NEW d \in Drivers, Advance(d) \/ Request(d) PROVE UNCHANGED crashes
  BY Zenon, <1>3 DEF Advance, FetchRow, LinkPlan, ApproveWrite, ExecutingWrite, RejectWrite,
     CancelWrite, RunNextStops, RunNextFindsNone, RunNextPicks, CompleteWrite, Submit, Link,
     StartWrite, RunRefused, RunCommand, DoneWrite, FailWrite, HaltRead, HaltSkip, HaltWrite,
     RetryReset, RetryUnskip, RetryResume, ResolveApproved, ResolveRejected,
     StepRejectedWrite, Resumes, Request, Create, ApproveRead, RejectRead, CancelRead, Expire,
     RetryRead, ResolveRead, Override, Begin
<1> QED
  BY Zenon, <1>1, <1>2, <1>3 DEF Next

\* Nothing that is enabled on a declined plan writes its status.
LEMMA DeclinedStep ==
  ASSUME NEW solo, Drivers = {solo}, SyncStore, TypeInv, SerialInv(solo), [Next]_vars,
         plan \in {"rejected", "expired"}
  PROVE  plan' = plan
<1>1. /\ drv[solo].call = "idle" /\ DOMAIN approvals = {}
      /\ \A s \in Steps : step[s] = "pending"
  BY Zenon DEF SerialInv, AboutPlan, Unstarted
<1>2. CASE Crash \/ UNCHANGED vars
  BY Zenon, <1>2 DEF Crash, vars, store
<1>3. CASE Request(solo)
  BY Zenon, <1>1, <1>3 DEF Request, Create, ApproveRead, RejectRead, CancelRead, Expire, RetryRead,
     ResolveRead, Override, store
<1>4. ~Advance(solo)
  BY Zenon, <1>1 DEF Advance, FetchRow, LinkPlan, ApproveWrite, ExecutingWrite, RejectWrite,
     CancelWrite, RunNextStops, RunNextFindsNone, RunNextPicks, CompleteWrite, Submit, Link,
     StartWrite, RunRefused, RunCommand, DoneWrite, FailWrite, HaltRead, HaltSkip, HaltWrite,
     RetryReset, RetryUnskip, RetryResume, ResolveApproved, ResolveRejected,
     StepRejectedWrite, Resumes
<1> QED
  BY Zenon, <1>2, <1>3, <1>4 DEF Next

\* Only executeStep's first write starts a step, and it has tried the earlier ones.
LEMMA OrderStep ==
  ASSUME NEW solo, Drivers = {solo}, SyncStore, TypeInv, SerialInv(solo), [Next]_vars,
         NEW s \in Steps, step[s] = "pending", step'[s] = "executing"
  PROVE  \A t \in 1 .. (s - 1) : step[t] # "pending"
<1>0. /\ solo \in Drivers /\ step \in [Steps -> StepStatus] /\ Steps \subseteq Nat
      /\ drv[solo].call \in StepCalls => drv[solo].ord \in Steps
  BY Zenon, SerialTypes
<1>1. step' # step
  BY Zenon
<1>2. ~Crash /\ ~UNCHANGED vars /\ ~Request(solo)
  BY Zenon, <1>1 DEF Crash, vars, store, Request, Create, ApproveRead, RejectRead, CancelRead, Expire,
     RetryRead, ResolveRead, Override
<1>3. Advance(solo)
  BY Zenon, <1>2 DEF Next
<1>4. CASE StartWrite(solo)
  <2>1. drv[solo].call = "start" /\ step' = [step EXCEPT ![drv[solo].ord] = "executing"]
    BY Zenon, <1>4 DEF StartWrite, Resumes, PatchStep
  <2>2. s = drv[solo].ord
    BY Zenon, <1>0, <2>1
  <2>3. \A t \in Steps : t < s => step[t] \in Tried
    BY Zenon, <2>1, <2>2 DEF SerialInv, AboutStep, StepCalls
  <2>4. ASSUME NEW t \in 1 .. (s - 1) PROVE t \in Steps /\ t < s
    BY <1>0, ConstantsAssumption DEF Steps
  <2> QED
    BY Zenon, <2>3, <2>4 DEF Tried
<1>5. CASE Link(solo)
  <2>1. drv[solo].ord \in Steps /\ step' = [step EXCEPT ![drv[solo].ord] = step[drv[solo].ord]]
    BY Zenon, <1>0, <1>5, SyncRow DEF Link, Resumes, PatchStep, StepCalls
  <2> QED
    BY Zenon, <1>0, <1>1, <2>1
<1>6. CASE DoneWrite(solo) \/ FailWrite(solo) \/ StepRejectedWrite(solo) \/ RetryReset(solo)
  BY Zenon, <1>0, <1>6 DEF DoneWrite, FailWrite, StepRejectedWrite, RetryReset, PatchStep
<1>7. CASE \E t \in Steps : HaltSkip(solo, t) \/ RetryUnskip(solo, t)
  BY Zenon, <1>0, <1>7 DEF HaltSkip, RetryUnskip, Walk, PatchStep
<1> QED
  BY Zenon, <1>1, <1>3, <1>4, <1>5, <1>6, <1>7 DEF Advance, FetchRow, LinkPlan, ApproveWrite,
     ExecutingWrite, RejectWrite, CancelWrite, RunNextStops, RunNextFindsNone, RunNextPicks,
     CompleteWrite, Submit, RunRefused, RunCommand, HaltRead, HaltWrite, RetryResume,
     ResolveApproved, ResolveRejected, store

(* One driver, atomic patches, no crash: a rejected or expired plan keeps   *)
(* its status whatever is asked of it later.                                *)
THEOREM SoloDeclined ==
  ASSUME NEW solo, Drivers = {solo}, SyncStore, MaxCrashes = 0
  PROVE  Spec => DeclinedIsFinal
<1>1. Spec => []TypeInv
  BY TypeInit, TypeStep, PTL DEF Spec
<1>2. Init => SoloInv(solo) /\ crashes = 0
  BY Zenon, SoloInit DEF Init
<1>3. TypeInv /\ SoloInv(solo) /\ crashes = 0 /\ [Next]_vars => SoloInv(solo)' /\ (crashes = 0)'
  BY Zenon, SoloStep, SoloCount
<1>4. TypeInv /\ SoloInv(solo) /\ crashes = 0 /\ [Next]_vars
        => [(plan \in {"rejected", "expired"}) => plan' = plan]_vars
  BY Zenon, DeclinedStep DEF SoloInv
<1> QED
  BY <1>1, <1>2, <1>3, <1>4, PTL DEF Spec, DeclinedIsFinal

(* Likewise, a pending step of an executing plan starts only when every     *)
(* earlier step has been tried.                                             *)
THEOREM SoloOrder ==
  ASSUME NEW solo, Drivers = {solo}, SyncStore, MaxCrashes = 0
  PROVE  Spec => StepsStartInOrder
<1> DEFINE A == \A s \in Steps :
                  plan = "executing" /\ step[s] = "pending" /\ step'[s] = "executing"
                    => \A t \in 1 .. (s - 1) : step[t] # "pending"
<1>1. Spec => []TypeInv
  BY TypeInit, TypeStep, PTL DEF Spec
<1>2. Init => SoloInv(solo) /\ crashes = 0
  BY Zenon, SoloInit DEF Init
<1>3. TypeInv /\ SoloInv(solo) /\ crashes = 0 /\ [Next]_vars => SoloInv(solo)' /\ (crashes = 0)'
  BY SoloStep, SoloCount
<1>4. TypeInv /\ SoloInv(solo) /\ crashes = 0 /\ [Next]_vars => [A]_vars
  BY Zenon, OrderStep DEF SoloInv
<1>5. Spec => [][A]_vars
  BY <1>1, <1>2, <1>3, <1>4, PTL DEF Spec
<1> QED
  BY Zenon, <1>5 DEF StepsStartInOrder
=============================================================================
