--------------------------- MODULE PlanExecution ---------------------------
(***************************************************************************)
(* One remediation plan driven by PlanExecutorService, the per-step        *)
(* approval requests that gate it, and the store both live in.             *)
(*                                                                         *)
(* The executor keeps no state of its own: every method reads the plan     *)
(* row, decides, and writes back through repository calls, with an `await' *)
(* between any two of them.  A driver is one such asynchronous activity    *)
(* (an HTTP request, the onResolved hook, a sweep of the expiry timer) and *)
(* drv[d] is its continuation: the repository call it makes next, and the  *)
(* locals it carries across the await.  Code between two awaits is one     *)
(* atomic step.  Several drivers interleave freely; a crash of the process *)
(* drops all of them and keeps the store.                                  *)
(***************************************************************************)
EXTENDS Naturals, Sequences

CONSTANTS Drivers,      \* asynchronous activities that can be in flight
          NSteps,       \* number of steps of the plan
          SyncStore,    \* TRUE: SQLite, a patch is one step;
                        \* FALSE: Postgres, it awaits between SELECT and UPDATE
          MaxRequests,  \* bound on agent, operator and sweeper requests
          MaxCrashes    \* bound on process crashes

ASSUME ConstantsAssumption ==
  /\ NSteps \in Nat \ {0}
  /\ SyncStore \in BOOLEAN
  /\ MaxRequests \in Nat
  /\ MaxCrashes \in Nat

VARIABLES
  plan,       \* remediation_plan.status, "absent" before the row exists
  autoEdit,   \* remediation_plan.auto_edit
  tolerant,   \* the ordinals whose step has continueOnError
  step,       \* remediation_plan_step.status by ordinal
  approvals,  \* the step-level approval requests, in order of creation
  drv,        \* the continuation of each driver
  consent,    \* history: the strongest approval of the plan so far
  granted,    \* history: ordinals an operator approved or asked to retry
  ran,        \* history: ordinals whose command reached the adapter
  requests,   \* requests begun so far
  crashes     \* crashes so far

store == <<plan, autoEdit, tolerant, step, approvals>>
history == <<consent, granted, ran>>
vars == <<store, drv, history, requests, crashes>>

Steps == 1 .. NSteps

PlanStatus == {"absent", "pending_approval", "approved", "executing",
               "completed", "failed", "cancelled", "rejected", "expired"}
StepStatus == {"pending", "executing", "done", "failed", "skipped"}
ApprovalStatus == {"pending", "approved", "rejected"}
Consent == {"none", "stepwise", "auto"}

(* The repository call a driver makes next. *)
Calls == {"idle", "linkPlan", "approved", "executing", "reject", "cancel",
          "next", "complete", "submit", "link", "start", "run", "done",
          "fail", "halt", "skip", "reset", "unskip", "grant", "refuse",
          "stepRejected"}

(* What the SELECT of a Postgres patch returned; the UPDATE that follows   *)
(* writes these columns back where the patch leaves them out.              *)
Rows == [plan : PlanStatus, autoEdit : BOOLEAN, step : StepStatus]
NoRow == [plan |-> "absent", autoEdit |-> FALSE, step |-> "pending"]

Continuation == [call : Calls, ord : 0 .. NSteps, todo : SUBSET Steps,
                 flag : BOOLEAN, apr : Nat, fetched : BOOLEAN, row : Rows]

(* A driver about to make a call: the ordinal it is about, the ordinals its  *)
(* loop has left, a flag it carries, the approval request it resolves.       *)
Frame(call, ord, todo, flag, apr) ==
  [call |-> call, ord |-> ord, todo |-> todo, flag |-> flag, apr |-> apr,
   fetched |-> FALSE, row |-> NoRow]
At(call, ord) == Frame(call, ord, {}, FALSE, 0)
Idle == At("idle", 0)

Goto(d, k) == drv' = [drv EXCEPT ![d] = k]

(* A request occupies an idle driver. *)
Begin(d) ==
  /\ drv[d] = Idle
  /\ requests < MaxRequests
  /\ requests' = requests + 1
  /\ UNCHANGED crashes

(* A driver resumes after an await, at the given call. *)
Resumes(d, call) ==
  /\ drv[d].call = call
  /\ UNCHANGED <<requests, crashes>>

Init ==
  /\ plan = "absent"
  /\ autoEdit = FALSE
  /\ tolerant = {}
  /\ step = [s \in Steps |-> "pending"]
  /\ approvals = << >>
  /\ drv = [d \in Drivers |-> Idle]
  /\ consent = "none"
  /\ granted = {}
  /\ ran = {}
  /\ requests = 0
  /\ crashes = 0

-----------------------------------------------------------------------------
(* updatePlan and updateStep.  A patch leaves out some of the columns it    *)
(* writes: they keep the value the row had when the patch read it.         *)

Keeps(d) ==
  \/ drv[d].call \in {"linkPlan", "executing", "reject", "cancel", "complete", "link"}
  \/ drv[d].call \in {"skip", "unskip"} /\ drv[d].todo = {}

Current(d) == [plan |-> plan, autoEdit |-> autoEdit,
               step |-> IF drv[d].ord \in Steps THEN step[drv[d].ord] ELSE "pending"]

(* Postgres: the SELECT of the patch, and then an await. *)
FetchRow(d) ==
  /\ ~SyncStore
  /\ Keeps(d)
  /\ ~drv[d].fetched
  /\ Goto(d, [drv[d] EXCEPT !.fetched = TRUE, !.row = Current(d)])
  /\ UNCHANGED <<store, history, requests, crashes>>

CanPatch(d) == SyncStore \/ drv[d].fetched
Existing(d) == IF SyncStore THEN Current(d) ELSE drv[d].row

(* updatePlan with a new status: every patch of the executor but approve's  *)
(* first leaves auto_edit to the row read.                                  *)
PatchPlan(d, status) ==
  /\ CanPatch(d)
  /\ plan' = status
  /\ autoEdit' = Existing(d).autoEdit

PatchStep(s, status) == step' = [step EXCEPT ![s] = status]

-----------------------------------------------------------------------------
(* The agent creates a plan; a primary plan also gets a plan-level approval *)
(* request, whose id is patched into the row; a rescue plan does not.       *)

Create(d, C, primary) ==
  /\ Begin(d)
  /\ plan = "absent"
  /\ plan' = "pending_approval"
  /\ tolerant' = C
  /\ Goto(d, IF primary THEN At("linkPlan", 0) ELSE Idle)
  /\ UNCHANGED <<autoEdit, step, approvals, history>>

LinkPlan(d) ==
  /\ Resumes(d, "linkPlan")
  /\ PatchPlan(d, Existing(d).plan)
  /\ Goto(d, Idle)
  /\ UNCHANGED <<tolerant, step, approvals, history>>

(* approve *)
(* Faulty form: approve takes an expired plan. *)
ApproveReadExpired(d, auto) ==
  /\ Begin(d)
  /\ plan \in {"pending_approval", "expired"}
  /\ Goto(d, Frame("approved", 0, {}, auto, 0))
  /\ UNCHANGED <<store, history>>

ApproveRead(d, auto) ==
  /\ Begin(d)
  /\ plan = "pending_approval"
  /\ Goto(d, Frame("approved", 0, {}, auto, 0))
  /\ UNCHANGED <<store, history>>

ApproveWrite(d) ==
  /\ Resumes(d, "approved")
  /\ plan' = "approved"
  /\ autoEdit' = drv[d].flag
  /\ consent' = IF drv[d].flag THEN "auto" ELSE IF consent = "none" THEN "stepwise" ELSE consent
  /\ Goto(d, At("executing", 0))
  /\ UNCHANGED <<tolerant, step, approvals, granted, ran>>

ExecutingWrite(d) ==
  /\ Resumes(d, "executing")
  /\ PatchPlan(d, "executing")
  /\ Goto(d, At("next", 0))
  /\ UNCHANGED <<tolerant, step, approvals, history>>

(* reject *)
RejectRead(d) ==
  /\ Begin(d)
  /\ plan = "pending_approval"
  /\ Goto(d, At("reject", 0))
  /\ UNCHANGED <<store, history>>

RejectWrite(d) ==
  /\ Resumes(d, "reject")
  /\ PatchPlan(d, "rejected")
  /\ Goto(d, Idle)
  /\ UNCHANGED <<tolerant, step, approvals, history>>

(* cancel *)
CancelRead(d) ==
  /\ Begin(d)
  /\ plan \in {"approved", "executing"}
  /\ Goto(d, At("cancel", 0))
  /\ UNCHANGED <<store, history>>

CancelWrite(d) ==
  /\ Resumes(d, "cancel")
  /\ PatchPlan(d, "cancelled")
  /\ Goto(d, Idle)
  /\ UNCHANGED <<tolerant, step, approvals, history>>

(* expireStale: one conditional UPDATE, run by the sweeper. *)
Expire(d) ==
  /\ Begin(d)
  /\ plan = "pending_approval"
  /\ plan' = "expired"
  /\ UNCHANGED <<autoEdit, tolerant, step, approvals, drv, history>>

-----------------------------------------------------------------------------
(* runNext *)

(* Faulty form: any pending step will do. *)
AnyPending(s) == step[s] = "pending"

FirstPending(s) ==
  /\ step[s] = "pending"
  /\ \A t \in Steps : step[t] = "pending" => s <= t

RunNextStops(d) ==
  /\ Resumes(d, "next")
  /\ plan \in {"failed", "cancelled"}
  /\ Goto(d, Idle)
  /\ UNCHANGED <<store, history>>

RunNextFindsNone(d) ==
  /\ Resumes(d, "next")
  /\ plan \notin {"failed", "cancelled"}
  /\ \A s \in Steps : step[s] # "pending"
  /\ Goto(d, At("complete", 0))
  /\ UNCHANGED <<store, history>>

(* Faulty form: the pause for approval is forgotten. *)
RunNextWithoutPause(d, s) ==
  /\ Resumes(d, "next")
  /\ plan \notin {"failed", "cancelled"}
  /\ FirstPending(s)
  /\ Goto(d, At("start", s))
  /\ UNCHANGED <<store, history>>

RunNextPicks(d, s) ==
  /\ Resumes(d, "next")
  /\ plan \notin {"failed", "cancelled"}
  /\ FirstPending(s)
  /\ Goto(d, At(IF autoEdit THEN "start" ELSE "submit", s))
  /\ UNCHANGED <<store, history>>

CompleteWrite(d) ==
  /\ Resumes(d, "complete")
  /\ PatchPlan(d, "completed")
  /\ Goto(d, Idle)
  /\ UNCHANGED <<tolerant, step, approvals, history>>

Submit(d) ==
  /\ Resumes(d, "submit")
  /\ approvals' = Append(approvals, [step |-> drv[d].ord, status |-> "pending"])
  /\ Goto(d, At("link", drv[d].ord))
  /\ UNCHANGED <<plan, autoEdit, tolerant, step, history>>

(* The patch of approvalRequestId keeps the step's status as read. *)
Link(d) ==
  /\ Resumes(d, "link")
  /\ CanPatch(d)
  /\ PatchStep(drv[d].ord, Existing(d).step)
  /\ Goto(d, Idle)
  /\ UNCHANGED <<plan, autoEdit, tolerant, approvals, history>>

-----------------------------------------------------------------------------
(* executeStep; its callers all go on to runNext. *)

StartWrite(d) ==
  /\ Resumes(d, "start")
  /\ PatchStep(drv[d].ord, "executing")
  /\ Goto(d, At("run", drv[d].ord))
  /\ UNCHANGED <<plan, autoEdit, tolerant, approvals, history>>

(* Faulty form: the throw escapes and nothing marks the step failed. *)
RunRefusedUncaught(d) ==
  /\ Resumes(d, "run")
  /\ Goto(d, At("next", 0))
  /\ UNCHANGED <<store, history>>

(* Parameters of the wrong shape, or no adapter for the connector. *)
RunRefused(d) ==
  /\ Resumes(d, "run")
  /\ Goto(d, At("fail", drv[d].ord))
  /\ UNCHANGED <<store, history>>

RunCommand(d, outcome) ==
  /\ Resumes(d, "run")
  /\ ran' = ran \union {drv[d].ord}
  /\ Goto(d, At(outcome, drv[d].ord))
  /\ UNCHANGED <<store, consent, granted>>

(* Faulty form: the caller does not go on to the next step. *)
DoneWriteReturns(d) ==
  /\ Resumes(d, "done")
  /\ PatchStep(drv[d].ord, "done")
  /\ Goto(d, Idle)
  /\ UNCHANGED <<plan, autoEdit, tolerant, approvals, history>>

DoneWrite(d) ==
  /\ Resumes(d, "done")
  /\ PatchStep(drv[d].ord, "done")
  /\ Goto(d, At("next", 0))
  /\ UNCHANGED <<plan, autoEdit, tolerant, approvals, history>>

(* After a failure the caller runs on (flag) unless it came from            *)
(* onStepRejected, which returns haltPlan's outcome.                        *)
FailWrite(d) ==
  /\ Resumes(d, "fail")
  /\ PatchStep(drv[d].ord, "failed")
  /\ Goto(d, IF drv[d].ord \in tolerant
             THEN At("next", 0)
             ELSE Frame("halt", drv[d].ord, {}, TRUE, 0))
  /\ UNCHANGED <<plan, autoEdit, tolerant, approvals, history>>

(* Faulty form: the step right after the failed one is not skipped. *)
HaltReadOffByOne(d) ==
  /\ Resumes(d, "halt")
  /\ Goto(d, Frame("skip", drv[d].ord,
                   {s \in Steps : s > drv[d].ord + 1 /\ step[s] = "pending"},
                   drv[d].flag, 0))
  /\ UNCHANGED <<store, history>>

(* haltPlan *)
HaltRead(d) ==
  /\ Resumes(d, "halt")
  /\ Goto(d, Frame("skip", drv[d].ord,
                   {s \in Steps : s > drv[d].ord /\ step[s] = "pending"},
                   drv[d].flag, 0))
  /\ UNCHANGED <<store, history>>

(* One write per step of the loop, in order. *)
Walk(d, s, status) ==
  /\ s \in drv[d].todo
  /\ \A t \in drv[d].todo : s <= t
  /\ PatchStep(s, status)
  /\ Goto(d, Frame(drv[d].call, drv[d].ord, drv[d].todo \ {s}, drv[d].flag, 0))
  /\ UNCHANGED <<plan, autoEdit, tolerant, approvals, history>>

HaltSkip(d, s) ==
  /\ Resumes(d, "skip")
  /\ Walk(d, s, "skipped")

HaltWrite(d) ==
  /\ Resumes(d, "skip")
  /\ drv[d].todo = {}
  /\ PatchPlan(d, "failed")
  /\ Goto(d, IF drv[d].flag THEN At("next", 0) ELSE Idle)
  /\ UNCHANGED <<tolerant, step, approvals, history>>

-----------------------------------------------------------------------------
(* retryStep; flag: the plan had failed when it was read. *)

(* Faulty form: a retry does not require a failed step. *)
RetryReadUnchecked(d, s) ==
  /\ Begin(d)
  /\ granted' = granted \union {s}
  /\ Goto(d, Frame("reset", s,
                   {t \in Steps : plan = "failed" /\ t > s /\ step[t] = "skipped"},
                   plan = "failed", 0))
  /\ UNCHANGED <<store, consent, ran>>

(* Faulty form: the skipped steps are not reset. *)
RetryReadKeepsSkipped(d, s) ==
  /\ Begin(d)
  /\ step[s] = "failed"
  /\ granted' = granted \union {s}
  /\ Goto(d, Frame("reset", s, {}, plan = "failed", 0))
  /\ UNCHANGED <<store, consent, ran>>

RetryRead(d, s) ==
  /\ Begin(d)
  /\ step[s] = "failed"
  /\ granted' = granted \union {s}
  /\ Goto(d, Frame("reset", s,
                   {t \in Steps : plan = "failed" /\ t > s /\ step[t] = "skipped"},
                   plan = "failed", 0))
  /\ UNCHANGED <<store, consent, ran>>

RetryReset(d) ==
  /\ Resumes(d, "reset")
  /\ PatchStep(drv[d].ord, "pending")
  /\ Goto(d, Frame(IF drv[d].flag THEN "unskip" ELSE "start",
                   drv[d].ord, drv[d].todo, FALSE, 0))
  /\ UNCHANGED <<plan, autoEdit, tolerant, approvals, history>>

RetryUnskip(d, s) ==
  /\ Resumes(d, "unskip")
  /\ Walk(d, s, "pending")

RetryResume(d) ==
  /\ Resumes(d, "unskip")
  /\ drv[d].todo = {}
  /\ PatchPlan(d, "executing")
  /\ Goto(d, At("start", drv[d].ord))
  /\ UNCHANGED <<tolerant, step, approvals, history>>

-----------------------------------------------------------------------------
(* An operator resolves a step-level approval request: the repository       *)
(* checks that it is pending (an override does not), then writes it; the    *)
(* onResolved hook calls the executor.                                      *)

ResolveRead(d, i, call) ==
  /\ Begin(d)
  /\ i \in DOMAIN approvals
  /\ approvals[i].status = "pending"
  /\ Goto(d, Frame(call, approvals[i].step, {}, FALSE, i))
  /\ UNCHANGED <<store, history>>

Override(d, i) ==
  /\ Begin(d)
  /\ i \in DOMAIN approvals
  /\ Goto(d, Frame("grant", approvals[i].step, {}, FALSE, i))
  /\ UNCHANGED <<store, history>>

ResolveApproved(d) ==
  /\ Resumes(d, "grant")
  /\ approvals' = [approvals EXCEPT ![drv[d].apr].status = "approved"]
  /\ granted' = granted \union {drv[d].ord}
  /\ Goto(d, At("start", drv[d].ord))
  /\ UNCHANGED <<plan, autoEdit, tolerant, step, consent, ran>>

ResolveRejected(d) ==
  /\ Resumes(d, "refuse")
  /\ approvals' = [approvals EXCEPT ![drv[d].apr].status = "rejected"]
  /\ Goto(d, At("stepRejected", drv[d].ord))
  /\ UNCHANGED <<plan, autoEdit, tolerant, step, history>>

(* Faulty form: a rejected step ends the request without halting the plan. *)
StepRejectedReturns(d) ==
  /\ Resumes(d, "stepRejected")
  /\ PatchStep(drv[d].ord, "failed")
  /\ Goto(d, Idle)
  /\ UNCHANGED <<plan, autoEdit, tolerant, approvals, history>>

(* onStepRejected *)
StepRejectedWrite(d) ==
  /\ Resumes(d, "stepRejected")
  /\ PatchStep(drv[d].ord, "failed")
  /\ Goto(d, At(IF drv[d].ord \in tolerant THEN "next" ELSE "halt",
                IF drv[d].ord \in tolerant THEN 0 ELSE drv[d].ord))
  /\ UNCHANGED <<plan, autoEdit, tolerant, approvals, history>>

(* The process dies: nothing resumes the drivers it was running. *)
Crash ==
  /\ crashes < MaxCrashes
  /\ crashes' = crashes + 1
  /\ drv' = [d \in Drivers |-> Idle]
  /\ UNCHANGED <<store, history, requests>>

-----------------------------------------------------------------------------
(* The steps of a request already begun. *)
Advance(d) ==
  \/ FetchRow(d) \/ LinkPlan(d)
  \/ ApproveWrite(d) \/ ExecutingWrite(d) \/ RejectWrite(d) \/ CancelWrite(d)
  \/ RunNextStops(d) \/ RunNextFindsNone(d) \/ \E s \in Steps : RunNextPicks(d, s)
  \/ CompleteWrite(d) \/ Submit(d) \/ Link(d)
  \/ StartWrite(d) \/ RunRefused(d) \/ \E o \in {"done", "fail"} : RunCommand(d, o)
  \/ DoneWrite(d) \/ FailWrite(d)
  \/ HaltRead(d) \/ (\E s \in Steps : HaltSkip(d, s)) \/ HaltWrite(d)
  \/ RetryReset(d) \/ (\E s \in Steps : RetryUnskip(d, s)) \/ RetryResume(d)
  \/ ResolveApproved(d) \/ ResolveRejected(d) \/ StepRejectedWrite(d)

(* What the agent, an operator or the sweeper may ask for. *)
Request(d) ==
  \/ \E C \in SUBSET Steps, primary \in BOOLEAN : Create(d, C, primary)
  \/ \E auto \in BOOLEAN : ApproveRead(d, auto)
  \/ RejectRead(d) \/ CancelRead(d) \/ Expire(d)
  \/ \E s \in Steps : RetryRead(d, s)
  \/ \E i \in DOMAIN approvals, call \in {"grant", "refuse"} : ResolveRead(d, i, call)
  \/ \E i \in DOMAIN approvals : Override(d, i)

Next ==
  \/ \E d \in Drivers : Advance(d) \/ Request(d)
  \/ Crash

Spec == Init /\ [][Next]_vars

(* Every await of a live process returns: the store answers and adapter      *)
(* calls end.                                                               *)
FairSpec == Spec /\ \A d \in Drivers : WF_vars(Advance(d))
-----------------------------------------------------------------------------
(* Properties *)

(* Every column and every continuation keeps its declared range; a driver   *)
(* past the start of executeStep, haltPlan, a retry or a resolution is       *)
(* about an existing step, and one resolving a request about an existing row.*)
TypeOK ==
  /\ plan \in PlanStatus
  /\ autoEdit \in BOOLEAN
  /\ tolerant \subseteq Steps
  /\ step \in [Steps -> StepStatus]
  /\ approvals \in Seq([step : Steps, status : ApprovalStatus])
  /\ drv \in [Drivers -> Continuation]
  /\ consent \in Consent
  /\ granted \subseteq Steps
  /\ ran \subseteq Steps
  /\ requests \in Nat
  /\ crashes \in Nat

(* Calls of a driver that will still write the status of its step. *)
Holding == {"run", "done", "fail"}

(* Calls after which a driver always reaches runNext, or writes a terminal  *)
(* plan status itself.                                                      *)
Driving == {"executing", "next", "complete", "submit", "start", "run", "done",
            "fail", "halt", "skip", "reset", "unskip", "grant", "refuse", "stepRejected"}

Quiet == \A d \in Drivers : drv[d] = Idle
Reliable == SyncStore /\ crashes = 0

(* No command of the plan reaches an adapter unless an operator let it:     *)
(* the plan was approved, and either with autoEdit, or the step's own       *)
(* approval request was approved, or the step's retry was asked for         *)
(* (runNext's pause, and executeStep behind onStepApproved and retryStep).  *)
(* However requests interleave, on either store, and across crashes.        *)
CommandsAuthorised ==
  /\ ran # {} => consent # "none"
  /\ consent = "auto" \/ ran \subseteq granted

(* executeStep never leaves a step stuck in 'executing' (the comment on its *)
(* try block): while a step is shown executing some driver is still going   *)
(* to write its outcome, also when two drivers run the same step.           *)
ExecutingStepOwned ==
  Reliable => \A s \in Steps : step[s] = "executing" =>
                \E d \in Drivers : drv[d].call \in Holding /\ drv[d].ord = s

(* A plan shown approved or executing is never abandoned: a driver is still *)
(* moving it, or an approval request waits for an operator.  Every path     *)
(* that writes 'executing' must end in a runNext that sees it, and every    *)
(* resolution of a request must come back to runNext or halt the plan.      *)
NeverStranded ==
  Reliable => (plan \in {"approved", "executing"} =>
                 \/ \E d \in Drivers : drv[d].call \in Driving
                 \/ \E i \in DOMAIN approvals : approvals[i].status = "pending")
(* The executor implements the contract it has with operators: consent to   *)
(* the plan before any grant, and both before the command, whichever of     *)
(* approve, onStepApproved and retryStep leads to executeStep.              *)
Contract == INSTANCE PlanContract
ImplementsContract == Contract!Spec

(* For requests that do not overlap (one driver). *)

(* A plan that came to rest completed has an outcome for every step:        *)
(* nothing pending, skipped or executing is left behind by the halts and    *)
(* retries before it (haltPlan's skips, retryStep's resets, runNext).       *)
CompletedIsSettled ==
  Quiet /\ plan = "completed" => \A s \in Steps : step[s] \in {"done", "failed"}

(* A plan that came to rest failed has no step left pending: haltPlan       *)
(* marks what had not run as skipped, so a retry can find it.               *)
HaltedIsSkipped ==
  Quiet /\ plan = "failed" => \A s \in Steps : step[s] # "pending"

(* Rejected and expired are final: no later request, nor one left from      *)
(* before, brings the plan back (the status checks of approve, reject,      *)
(* cancel and expireStale).                                                 *)
DeclinedIsFinal == [][(plan \in {"rejected", "expired"}) => plan' = plan]_vars

(* While the plan executes, a pending step is started only when every       *)
(* earlier step has been tried: runNext takes the first pending step and    *)
(* an approval request never outlives that order ("run every step in        *)
(* order").                                                                 *)
StepsStartInOrder ==
  [][\A s \in Steps :
       plan = "executing" /\ step[s] = "pending" /\ step'[s] = "executing"
         => \A t \in 1 .. (s - 1) : step[t] # "pending"]_vars

(* Under FairSpec *)

AwaitsOperator == \E i \in DOMAIN approvals : approvals[i].status = "pending"

(* An approved plan always gets somewhere: it leaves executing, or an       *)
(* operator is asked.                                                       *)
PlanProgresses ==
  (plan \in {"approved", "executing"})
    ~> (plan \notin {"approved", "executing"} \/ AwaitsOperator)

(* A step shown executing gets an outcome.                                  *)
StepsEnd == \A s \in Steps : (step[s] = "executing") ~> (step[s] # "executing")

(* What comments of the executor say, and the code does not do. *)

(* cancel: "the next pending step is not run".                              *)
CancelStopsPendingSteps ==
  [][\A s \in Steps :
       plan = "cancelled" /\ step[s] = "pending" => step'[s] # "executing"]_vars

(* reject: "Permanent - once rejected, plan does not resume".               *)
RejectIsPermanent == [][plan = "rejected" => plan' = "rejected"]_vars
=============================================================================
