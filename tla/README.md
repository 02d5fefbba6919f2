# A TLA+ model of openobs

openobs (packages `api-gateway`, `agent-core`, `data-layer`, `common`,
`server-utils`, `llm-gateway`, `adapters`, `web`, `cli`) watches services,
raises alerts, lets an agent investigate them and carries out remediation plans
that operators approve. This directory models the parts of it whose correctness
depends on the order in which asynchronous steps happen, checks them with TLC on
small instances and proves the most important facts with TLAPS for every
instance. `PROJECT.json` maps every definition to the lines it models.

## The system and how its parts interact

| part | state | operations | what makes it hard |
|---|---|---|---|
| plan executor (`plan-executor-service.ts`, `plans-boot.ts`, `routes/plans.ts`, the agent's `handlers/remediation-plan.ts`) | none of its own; everything is in the plan and step rows | create, approve, reject, cancel, run next, execute step, halt, retry, expire | every method is read, await, write; requests, approval hooks and the sweeper overlap |
| approval requests (`approval.ts` repositories and routes) | one row per request | submit, approve, reject, override; a hook resumes the executor | resolved long after they were submitted, when the plan may have moved on |
| plan repository | rows | create, find, patch plan, patch step, expire stale | SQLite patches in one go; Postgres awaits between SELECT and UPDATE and writes unpatched columns back |
| leader lock (`leader-lock.ts`) | one row with holder and expiry | try to acquire, heartbeat, release | the clock is read before the statement runs; the answer is read back later |
| evaluator scheduling (`alert-evaluator-service.ts`) | running, isLeader, timers | start, stop, leader tick, refresh | ticks and refreshes overlap and answer out of order |
| alert evaluation (`tickRule`, `decideTransition`, the alert-rule repositories) | rule row, history, in-flight set | evaluate, transition, publish; operators disable, enable, edit, delete | decides on a copy read before the metric query |
| event bus (`redis.ts`, `events/memory.ts`) | stream, group cursor, batches | publish, subscribe, read, dispatch, acknowledge, unsubscribe | entries are delivered once, to one process, which may die |
| auto investigation (`auto-investigation-consumer.ts`) | investigation rows, the rule's link | dedup, run the agent, settle, link; an operator may investigate as well | dedup reads what a run writes at its end |
| notifications (`notification-consumer.ts`) | dispatch rows | route, look up, send, record | handlers of several events overlap |
| first administrator, browser sessions, folders, rate limiter | rows, a promise, a map | bootstrap; look up, touch, revoke; create, move, delete; hit, evict | check-then-act across an await |
| agent loop and LLM gateway, chat turns | conversation, retries, event numbers | iterate, execute, retry, abort; append, flush, answer | bounds, abort, numbering |
| shutdown | hooks | register, signal, run, exit | two signals, hooks that hang |
| adapters, web, cli, schema, logging | - | I/O, rendering | not concurrent state |

An alert rule fires (`AlertEvaluation`) on the replica that holds the lease
(`EvaluatorLeadership`); the `alert.fired` event starts an investigation and
notifications; the investigation's agent may create a remediation plan, which
operators approve and the executor runs (`PlanExecution`). `AutoInvestigation`
composes the consumer with the bus that feeds it (`EventBus`); the other links are
modelled each on its own.

## Modules

| module | models |
|---|---|
| `PlanExecution` | one plan, its steps, its step-level approval requests, and any number of activities ("drivers") that work on it |
| `PlanContract` | what approving a plan promises: commands run only with consent |
| `EvaluatorLeadership` | the lease row and the service's mirror of it on timers, on any number of replicas |
| `AlertEvaluation` | one rule, its history, evaluators and operators |
| `EventBus`, `Delivery` | one topic on Redis or in memory; the at-most-once delivery it implements |
| `AutoInvestigation` | `EventBus` with the consumer, its agent runs, and manual investigations |
| `NotificationRouting`, `NotificationDispatch` | the walk of the policy tree; the consumer that sends and records |
| `SetupBootstrap` | `createFirstAdmin`, called concurrently |
| `AgentTurn` | one run of the agent loop on the LLM gateway |
| `ChatTurns` | the turns of one chat session and their event log |
| `FolderTree` | folders, changed by the service and by the agent's tool |
| `RateLimiter`, `Shutdown`, `Sessions` | one key; one process; one browser session |
| `ApprovalScopes` | who sees, is told of and may decide an approval, as operators |
| `MCPlanExecution`, `MCEvaluatorLeadership`, `MCAlertEvaluation`, `MCAutoInvestigation`, `MCServices` | instances for TLC |
| `PlanExecutionProofs` | theorems about `PlanExecution` |
| `EvaluatorProofs` | theorems about `AlertEvaluation` and `EvaluatorLeadership` |
| `NotificationProofs` | theorems about `NotificationRouting` and `NotificationDispatch` |
| `InvestigationProofs`, `CooldownProofs` | theorems about `EventBus` and `AutoInvestigation`: the bus, rows and links; then acknowledgements and the cooldown |
| `ResourceProofs` | theorems about `FolderTree` and `ApprovalScopes` |
| `ServiceProofs` | theorems about `SetupBootstrap`, `Sessions`, `RateLimiter`, `AgentTurn` and `ChatTurns` |
| `LoopLemmas` | what a loop written as a recursive function computes |

**PlanExecution.** Code between two awaits is one step. `drv[d]` is the
continuation of activity `d`: the repository call it makes next and the locals
it carries over the await. `ApproveRead` is the read and the check of `approve`,
`ApproveWrite` the first patch, `ExecutingWrite` the second, after which the
driver goes on with `runNext`, and so on for every method. With `SyncStore` a
patch is one step (SQLite); without it `FetchRow` reads the row first and the
patch writes the unpatched columns back (Postgres). `Crash` drops every driver
and keeps the store. `consent`, `granted` and `ran` are history variables.
Abstractions: `findByIdInOrg`'s two SELECTs are one snapshot; reads that decide
nothing are merged with the next step; the plan-level approval row and the
`approvalRequestId` column are left out; when a plan expires is a free choice;
the sweeper uses an idle driver; invalid params, a missing adapter and a thrown
error are one outcome (`RunRefused`).

**EvaluatorLeadership.** A lock call is a record that passes through its
statement, its read-back and its answer. Time is relative: the row stores how
much of the lease is left, a call how old its clock reading is; so behaviours of
any length have finitely many states. `refreshSchedule` is asked for, reads the
list (`FindAll`), and applies it (`Schedule`). There is one rule, enabled or
disabled; a restarted process is a new replica; calls of one replica that are
alike in every respect are one.

**AlertEvaluation.** An evaluation reads the rule (`Fetch`), gets its sample
and decides on the copy (`Query`), transitions the row (one step, or SELECT,
INSERT, SELECT, UPDATE on Postgres) and publishes. Numbers are reduced to whether
the condition holds; `pendingSince` to the time gone by since, up to the
for-duration; history to its newest state and the number of firings. No sample, a
failed call and a crash all end an evaluation where it is (`Abort`). `inFlightRules`
allows one evaluation of a rule per process, so an evaluator is a replica.

**EventBus and AutoInvestigation.** Events are numbered. `cursor` is the group's
last delivered entry, `batch` what a process has read and not yet dispatched. On
Redis a process awaits the handlers and then acknowledges; in memory `Emit` calls
them at once and awaits nothing. Entries left pending are never read again, as in the
code. A job is one handler; its agent may create a row, complete it, or neither.
Row times are clock ticks. `DeliversAtMostOnce` is the refinement of `Delivery`.

**NotificationDispatch.** One step per await of a handler; a delivery is recorded by
a SELECT and an INSERT or UPDATE. All routes share one pair of intervals, and the
grouping key is the fingerprint and the contact point: `groupBy` is left out.

**SetupBootstrap.** A call waits for the promise in flight, checks the gate again,
and runs; each store call of the run is a step.

**AgentTurn.** The model's answer, the gate's verdict and a tool's outcome are free
choices; the token budget may be exhausted at any iteration.

**ChatTurns.** A turn reads the next number once and counts locally; appends are
issued unawaited and land in any order; `Flush` awaits them.

**FolderTree.** A request is checked by the service, checked by the repository, and
written; `met` records which kinds of request were under way together. A move has read
the id of its folder's row, so once that row is deleted (`gone`) its UPDATE finds
nothing, even if another folder takes the uid. On a cycle `listAncestors` stops after
its guard's number of links (`Ancestors`). A rule may be filed under any uid, as nothing
checks that the folder exists.

**NotificationRouting.** `Visit` is one call of `walk`: the children that match, up to
the first that does not continue (`Taken`), each followed by what its own visit adds, or
the default policy if there are none. The call stack is a recursive function over the
nodes of the tree.

**MCServices.** These services share no state, so a behaviour is about one of them
(`focus`) and the others keep their initial states: the instance is the sum of
theirs and not their product. `VisibilityAgrees` and `ApproversAgree` are about pure
operators: `approval` and `held` range over every row and every set of grants of the
instance and take no steps.

## Runs

Definitions called "faulty form" next to an operation are mutated versions of
it: with one of them in the operation's place the property named for it in
`PROJECT.json` fails, which shows the property depends on the code it is about.

| run | instance | shows |
|---|---|---|
| `plan_serial` | 1 driver, 3 steps, 7 requests | `CompletedIsSettled`, `HaltedIsSkipped`, `DeclinedIsFinal`, `StepsStartInOrder` when requests do not overlap |
| `plan_concurrent` | 2 drivers, 2 steps, 4 requests, atomic store, fairness | `ExecutingStepOwned`, `NeverStranded`, `PlanProgresses`, `StepsEnd` |
| `plan_consent` | 2 drivers, 2 steps, 4 requests, Postgres, 1 crash | `CommandsAuthorised`, `ImplementsContract` |
| `plan_cancel` | 1 driver | violated: `CancelStopsPendingSteps` |
| `lease_prompt` | 2 replicas, lease 2, lag 1, 2 overlapping ticks, 1 fault | `SoleEvaluator` when leases are renewed in time |
| `lease_live` | 2 replicas, lease 1, leases may run out, 1 fault, fairness | `NoStomping`, `TakeOver`, `Deposed` |
| `lease_rules` | 1 replica, 2 overlapping refreshes, 3 toggles, fairness | `DisabledIsUnscheduled` |
| `alert_solo` | 1 evaluator, atomic store, 4 edits, 3 firings, 2 faults, for-duration 2 | `HistoryExplainsState`, `FireCountExact`, `AnnouncedOnce`, `ForRespected` |
| `alert_postgres` | 1 evaluator, Postgres, 2 edits, 3 firings, 1 fault, fairness | `EveryFiringAnnounced`, `StateFollowsSignal` |
| `investigate` | 2 processes, 2 alerts, 6 scenarios of bus, trouble, time and manual requests, fairness | `AckedIsFinished`, `LinkedIsSettled`, `CooldownKept`, `DeliversAtMostOnce`, `AlertIsSettled` |
| `investigate_own` | the same scenarios | violated: `FinalizesOwn` |
| `services` | one instance per service, fairness | the properties below |

`services` checks:

| service | properties |
|---|---|
| notifications | `SilenceIsEarned`, `DeliveryIsRecorded` |
| first administrator | `SecondAdminNeedsFailure`, `CallsEnd` |
| agent loop and LLM gateway | `NoRequestAfterAbort`, `RequestsArePaired` |
| chat | `ReplayOrder`, `TraceBeforeAnswer` |
| folders | `OverlapsToBlame` |
| rate limiter | `WindowHolds` |
| shutdown | `SignalledExits` |
| sessions | `OverIsOver` |
| approvals | `VisibilityAgrees`, `ApproversAgree` |

Stated in the modules and true on these instances, but not part of a run, which is
kept to the properties that say most: `OneAtATime`, `NobodyForgotten`, `GateHasAdmin`,
`AuditedOnce`, `TurnEnds`, `TurnsSettle`, `RefusedWhenFull`, `RunsInOrder`,
`EarlyExitNeedsTwoSignals`, and the type invariants. Of these `OneAtATime`,
`GateHasAdmin`, `AuditedOnce`, `RefusedWhenFull` and the type invariants of
`PlanExecution`, `EvaluatorLeadership` and `AlertEvaluation` are proved.

**Bounds.** Four requests are a creation, an approval and two more (a step
approval and a retry, a cancel and a step approval, an approval that races a
rejection); seven let a plan halt, be retried and halt again. Two steps tell
"next" from "all"; three also "before", "at" and "after" a halt. Two
drivers or replicas show every pairwise race. A lease of two with a lag of one
separates a fresh from a stale clock reading, and two overlapping ticks let answers
arrive out of order. Three firings allow fire, resolve and fire again.
Two alerts are the least for dedup; the six scenarios keep crashes, time and manual
requests apart, so their combinations beyond those listed are not explored. Three
setup calls are one that fails and two that wait for it. Three folders and two
levels allow a cycle, an orphan and an overflow; two requests side by side show every
pairwise race, and a third one, alone, what it makes of the tree they leave. The trees
to start from are taken up to the names of folders, with at most one rule filed at a
time. A
window of three is the least in which an entry idle for more than half of it still
counts; eight ticks exceed two windows. Two iterations, attempts and calls per batch
tell first from last.

**Deadlock.** The lease and alert runs check it (time or the metric can always
change). The plan, `investigate` and `services` runs do not: a bounded number of
requests or events ends.

**Fairness.** `PlanExecution`: weak fairness of each driver, i.e. repository and
adapter calls return; no operator is ever obliged to answer. `EvaluatorLeadership`:
intervals keep ticking and each call and each stage of a refresh returns (weak),
and time passes (strong, as the lag bound may block it for a moment).
`AlertEvaluation`: timers tick, calls return, time passes; nothing is assumed of
metric or operators. `AutoInvestigation`: the loop's calls, the dispatch and each
store call or agent run return; nothing obliges an agent to create or complete a row.
`services`: each setup call, the agent run, each chat turn and its appends, and
shutdown with its hooks' timeouts go on; no client ever has to leave, no signal to
arrive.

**What the violated runs show.**

- `plan_cancel`: `cancel` says the next pending step is not run; but its approval
  request stays open and `onStepApproved` executes the step without looking at
  the plan.
- `investigate_own`: the row to settle is the newest of the workspace since the run
  began; a manual request may have opened it meanwhile.

**Known divergences.** These definitions state what a comment promises; no run
checks them, and TLC refutes each on the instance named.

| definition | promise | instance | what happens |
|---|---|---|---|
| `RejectIsPermanent` | `plan-executor-service.ts:175` "Permanent" | 2 drivers, 1 step, 3 requests, `SyncStore` false | an `approve` that read the status before the rejection writes over it |
| `ResignedIsIdle` | `alert-evaluator-service.ts:446` "State changes are mirrored on the per-rule timers" | 2 replicas, lease, lag, calls and refreshes 1, not `Prompt` | a refresh that waits while the lock is lost installs the timers after they were cleared |
| `DisabledStays` | `alert-evaluator-service.ts:491-493` "aren't stomped" | 1 evaluator, for-duration 1, 1 disable, 1 firing, `SyncStore` | a disable during the metric query is overwritten |
| `RunsExclusive` | `setup-bootstrap-service.ts:58` "cannot race itself" | that of `services` | two callers that waited for a run that failed both run |
| `UnwindsOnAbort` | `llm-gateway/src/types.ts:63` "unwinds with an AbortError" | that of `services` | an abort can end the loop as an ordinary error |
| `ApprovalNotifiedOnce` | `notification-consumer.ts:398` "does not re-notify" | that of `services` | handlers of a duplicate overlap and both find no row |

## Theorems

All are proved for every value of the constants, under the named assumptions of
the modules. These say what the constants are (numbers, sets that are not empty, a
"no call" that is none of the calls) and little else: at least one step per plan, a positive
lease and a lag within it when leases are prompt, at least one provider attempt, one
entry per read of the stream, one integration per contact point
(`NotificationDispatch` leaves out contact points without any, to which nothing is
sent), a policy tree that is finite and whose children lie below their parents, and
finitely many folders. TLC evaluates each assumption in the runs.

- `PlanExecutionProofs`
  - `TypeCorrect`.
  - `NoCommandWithoutConsent`: `CommandsAuthorised`, both stores, any crashes. It is
    not inductive: a driver about to run a command carries the authority in its
    continuation, in an approval row or in a row it read earlier. The strengthening
    says where each authority comes from.
  - `ExecutorImplementsContract`: every step is a step of `PlanContract` or leaves
    its variables alone, from the same invariant.
  - `NoOrphanStep`, `NoStrandedPlan`: atomic store, until a crash; an executing step
    has a driver past its start, a live plan a driver or an open request.
  - `SoloCompletion`, `SoloHalt`, `SoloDeclined`, `SoloOrder`: the properties of
    `plan_serial`, for one driver over the atomic store and until a crash (without
    crashes for the two about steps of the system). One invariant carries all four,
    `SerialInv`: steps are tried in order (`InOrder`), what the driver's continuation
    says about its step and its loop is what the rows say (`AboutStep`), and the
    status of the plan limits that of its steps (`AboutPlan`).
- `EvaluatorProofs`
  - `TypeCorrect` of `AlertEvaluation`.
  - `FireCountAgrees`, `HistoryIsComplete`: one-step repository, any evaluators and
    edits; they rest on `SyncInv` (no repository call is half done) and `RowStep`
    (what a step may do to row and history).
  - `FiresAfterFor`: `ForRespected` with one evaluator and the one-step repository; the
    invariant `CopyIsCurrent` says that the copy an evaluation holds has the row's
    `pendingSince`, because no operation but a transition touches that column.
  - `FiringsAreAnnounced`: `EveryFiringAnnounced` for any finite number of evaluators
    and both stores: firings are counted by the events published and the evaluations
    about to publish one.
  - `NoFiringAnnouncedTwice`: `AnnouncedOnce` with one evaluator and the one-step
    repository, faults and edits included.
  - `LeaseTypeCorrect` of `EvaluatorLeadership`.
  - `OneEvaluator`: `SoleEvaluator` when `Prompt`. The invariant `Grounded` says that a
    replica that leads, has timers, refreshes or a positive answer in flight holds the
    row; `Unstarted` that a replica not started has none of these. As one replica
    holds the row, one evaluates.
  - `NeverStomps`: `NoStomping` without any timing assumption; it rests on releases
    being made only by replicas that stopped.
- `InvestigationProofs`
  - `BusImplementsDelivery`: `DeliversAtMostOnce`, i.e. both kinds of bus implement
    `Delivery`. `BusInv` says that the batches of the processes are disjoint
    stretches at or before the group's cursor and that what was handed out is in none
    of them; each step is then a step of `Delivery` or a stutter.
  - `LinksAreSettled`: `LinkedIsSettled`. References are to rows that exist
    (`StoreTypes`, `HasRow`), rows grow and an ended row stays ended (`RowsGrow`), and
    a job past forcing the status has picked an ended row (`SettledInv`).
- `CooldownProofs`
  - `AcksComeLast`, `OneJobPerProcess`: `AckedIsFinished` and `OneAtATime`. `AckInv`
    says that what is handled or acknowledged will not be handed out again and that
    the loop of a process waits for the job in flight there.
  - `CooldownHolds`: `CooldownKept`. `Cool` says, for each place of the handler, how
    the row the rule was linked to when it was read relates to the clock, to the
    start of the job and to the row the job picks; times of rows only grow
    (`RowTimes`), and with one process on Redis no other job writes between the
    reading and the linking.
- `NotificationProofs`
  - `RoutesFollowThePolicy`: for every policy tree and all labels, each route is a node
    that matches the labels or the default policy, and with a default policy at the root
    that has a contact point there is at least one. The walk exists by induction on the
    height of a node (`WalkExists`), as a visit looks at the children only
    (`VisitLooksDown`); what a visit adds is eligible if what its children add is
    (`VisitAdds`).
  - `DispatchTyped`: the queue of a handler lists each contact point once, it looks up
    and sends to the one at its head, and an approval handler knows its approvers.
  - `DeliveriesAreRecorded`: `DeliveryIsRecorded`; every delivery is in a row, or its
    handler is about to write it, or a store call failed.
  - `SilencesAreEarned`: `SilenceIsEarned`. The invariant `Ledger` keeps the
    deliveries that ended (`Closed`) at least as many as the row counts and as any
    handler that has read the row is about to write; lost updates of `upsertSent`
    only make the row count fewer.
- `ResourceProofs`
  - `OnlyOverlapsBreakTrees`: `OverlapsToBlame` for any folders, any limit, and any number
    of requests side by side. That a tree is well formed says nothing about the next
    write, which rests on checks made earlier; so `FolderInv` also says what is still
    true of the checks of each request under way. It knows the pairs of requests that are
    under way (`PairsMet`), that a delete told to spare rules finds none unless one was
    filed meanwhile (`RulesSpared`) and that a move's row is there unless a delete took it
    (`RowsKnown`). Unless a delete met a request that attaches, links lead to folders and
    the parent a request checked is still there (`LinksHold`); unless also two moves met,
    there is no cycle and none would come of a pending move (`NoCycles`); unless also two
    requests that attach met, the tree is within the limit and would be after a pending
    write (`Shallow`). Reachability is handled by one fact: `Above` is the least set that
    is closed under going up (`AboveIsLeast`). From it follows what adding a leaf, moving a
    subtree and cutting one do to the ancestors of every folder (`LeafAbove`,
    `MoveAbove`, `CutAbove`) and to the levels (`LeafKeeps`, `MoveKeeps`, `CutKeeps`).
  - `VisibilityAlwaysAgrees`, `ApproversAlwaysAgree`: `VisibilityAgrees` and
    `ApproversAgree` for every row and every set of grants.
- `ServiceProofs`
  - `OneAdministrator`, `NobodyLockedOut`: `SecondAdminNeedsFailure` and `GateHasAdmin`
    for any number of setup calls: until a failure at most one call is past the
    gate.
  - `DeadStaysDead`: `OverIsOver` for any number of requests and any time limits.
  - `LimitHolds`, `RefusalsAreDue`: `WindowHolds` and `RefusedWhenFull` for every window
    and limit. The invariant says that the timestamps kept are the last of the
    accepted ones and that those forgotten are too old to count.
  - `PairedRequests`, `AbortIsHeeded`, `OneAuditRow`: `RequestsArePaired`,
    `NoRequestAfterAbort`, `AuditedOnce` for every number of iterations, retries and
    tool calls.
  - `ReplayKeepsOrder`, `TraceIsFirst`: `ReplayOrder`, `TraceBeforeAnswer` for any
    turns, and appends that land in any order or are lost: the next number of a turn
    exceeds all that were stored or are under way for the turns before it.

`LoopLemmas` holds what the loops of the code need: a set of naturals that contains
zero and is closed under successor is all of them (from the least element of its
complement), hence a recursive function over an interval exists and unrolls as written
(`Unroll`); and that a finite set of numbers has a greatest (`MaxOfBounded`). `StillCounted`, `Above`, `Concat`, `Reach` and `ReachAll` are such functions
and are reasoned about by induction over the position.

Only model-checked is every liveness property, which is out of the prover's reach:
`PlanProgresses`, `StepsEnd`, `TakeOver`, `Deposed`, `DisabledIsUnscheduled`,
`StateFollowsSignal`, `AlertIsSettled`, `CallsEnd`, `SignalledExits`. Every invariant and
action property that a passing run checks is also proved, under the conditions (one
driver, one evaluator, atomic store) that its run has.

What is deliberately not claimed: on Postgres `ExecutingStepOwned`,
`NeverStranded`, `FireCountExact` and `HistoryExplainsState` are not stated, because
patches write back columns read before another write; after a crash a step may
stay executing, as nothing resumes it; with two replicas evaluating at once (leases
not renewed in time) a firing may be announced twice.

## Not modelled

The map covers a small share of the source: most of it is the web interface,
adapters, schemas, prompts, formatting and row-at-a-time services.

- Organisations, teams, service accounts, API keys: rows without a protocol, but for
  the version check of an organisation update, which is made before an await.
- Access-control evaluators, role resolution and resource permissions; dashboards and
  their access lists.
- Investigation streams, the websocket gateway, context compaction, tool loading and
  the permission gate's rules.
- Job queue, caches, the session store, token rotation and the repositories'
  `routeAlert`: no production caller.
- Closing the event bus, malformed stream entries, stopping the notification consumer,
  per-route grouping and intervals, revoking all sessions of a user.
- The composition of `EvaluatorLeadership` with `AlertEvaluation`.

Out of scope: adapters, sign-in providers, the web interface, the command line, schema
definitions, logging and encryption, which are I/O, external protocols or rendering.
