--------------------------- MODULE AutoInvestigation ---------------------------
(***************************************************************************)
(* AutoInvestigationConsumer on the event bus: every `alert.fired` becomes *)
(* a job that checks the rule's last investigation, resolves the service   *)
(* account, runs an agent in the background and then settles the           *)
(* investigation the agent opened and links it to the rule.  The handler   *)
(* returns the job's promise, so the Redis loop waits for the whole agent  *)
(* run, and the in-memory bus runs all jobs at the same time.  Each step   *)
(* between two awaits is one action; the user's own "Investigate" request  *)
(* and other agents open rows in the same workspace meanwhile.             *)
(***************************************************************************)
EXTENDS EventBus

CONSTANTS
    Rules,          \* the alert rules of one workspace
    Cooldown        \* cooldownMs

ASSUME InvestigationAssumption == Cooldown \in Nat /\ Rules # {}

VARIABLES
    clock,
    rows,           \* the workspace's investigations, in creation order
    link,           \* rule.investigationId: an index of rows, or 0
    job,            \* per event: the consumer's run for it
    asked           \* per manual request: its progress

jobVars == <<rows, link, job, asked>>
vars == <<busVars, clock, rows, link, job, asked>>

Requests == 1..limit.asks
\* RUNNING_STATUSES: of the six, "planning" is the one the code writes.
Running == {"planning"}
Terminal == {"completed", "failed"}

Owners == ({"job"} \X Events) \cup ({"ask", "askagent"} \X Requests)
Row == [by : Owners, at : 0..limit.ticks, updated : 0..limit.ticks, status : Running \cup Terminal]

JobPcs == {"none", "rule", "dedup", "identity", "agent", "finalize", "status", "link",
           "done", "lost"}
Job == [pc : JobPcs, rule : Rules, proc : Procs, seen : 0..limit.rows, start : 0..limit.ticks,
        own : 0..limit.rows, failed : BOOLEAN, pick : 0..limit.rows]
Ask == [pc : {"idle", "insert", "link", "agent", "done"}, rule : Rules, row : 0..limit.rows,
        own : 0..limit.rows]

\* Every variable has its type.
TypeOK ==
    /\ BusTypeOK
    /\ clock \in 0..limit.ticks
    /\ rows \in Seq(Row) /\ Len(rows) <= limit.rows
    /\ link \in [Rules -> 0..limit.rows]
    /\ job \in [Events -> Job]
    /\ asked \in [Requests -> Ask]

Init ==
    /\ BusInit
    /\ clock = 0
    /\ rows = <<>>
    /\ link = [r \in Rules |-> 0]
    /\ job \in [Events -> {j \in [pc : {"none"}, rule : Rules, proc : Procs, seen : {0},
                                  start : {0}, own : {0}, failed : {FALSE}, pick : {0}] :
                              j.proc = CHOOSE p \in Procs : TRUE}]
    /\ asked = [a \in Requests |->
                  [pc |-> "idle", rule |-> CHOOSE r \in Rules : TRUE, row |-> 0, own |-> 0]]

Tick == clock < limit.ticks /\ clock' = clock + 1 /\ UNCHANGED <<busVars, jobVars>>

-----------------------------------------------------------------------------
\* The job goes on at pc.  The locals that are dead there are cleared.
Goto(j, pc) ==
    IF pc = "done"
    THEN [j EXCEPT !.pc = pc, !.seen = 0, !.start = 0, !.own = 0, !.failed = FALSE]
    ELSE [j EXCEPT !.pc = pc]

\* The bus hands event m to onAlertFired on process p.
Begin(m, p) == job' = [job EXCEPT ![m].pc = "rule", ![m].proc = p]

Deliver(p) ==
    \/ /\ Emit(p)
       /\ IF active[p] THEN Begin(published', p) ELSE UNCHANGED job
    \/ /\ Dispatch(p)
       /\ IF active[p] THEN Begin(Head(batch[p]), p) ELSE UNCHANGED job

\* onAlertFired's promise resolves when the whole job is over.
HandlersDone(p) == Settle(p) /\ job[handling[p]].pc = "done"

Bus ==
    \/ /\ \/ XAdd
          \/ \E p \in Procs :
                \/ Subscribe(p) \/ CreateGroup(p) \/ ReadGroup(p) \/ ReadInactive(p)
                \/ HandlersDone(p) \/ Ack(p) \/ AckFails(p) \/ Unsubscribe(p)
       /\ UNCHANGED job
    \/ \E p \in Procs : Deliver(p)
    \/ \E p \in Procs :
          /\ Crash(p)
          /\ job' = [m \in Events |->
                       IF job[m].proc = p /\ job[m].pc \notin {"none", "done", "lost"}
                       THEN [Goto(job[m], "done") EXCEPT !.pc = "lost", !.pick = 0]
                       ELSE job[m]]

BusStep == Bus /\ UNCHANGED <<clock, rows, link, asked>>

-----------------------------------------------------------------------------
At(m, pc) == job[m].pc = pc

Go(m, pc) == job' = [job EXCEPT ![m] = Goto(@, pc)]

\* A store call of the job throws; the consumer logs it and goes on with `pc`.
Fault(m, pc) ==
    /\ Trouble
    /\ faults' = faults + 1
    /\ Go(m, pc)
    /\ UNCHANGED <<limit, published, trimmed, cursor, loop, active, batch, handling,
                   handed, acked, crashes, stops, clock, rows, link, asked>>

\* shouldRun, first read: the rule and its investigationId.
ReadRule(m) ==
    /\ At(m, "rule")
    /\ LET i == link[job[m].rule]
       IN  job' = [job EXCEPT ![m].pc = IF i = 0 THEN "identity" ELSE "dedup", ![m].seen = i]
    /\ UNCHANGED <<busVars, clock, rows, link, asked>>

\* shouldRun with the end of the cooldown left out.
FreshStrict(row) == row.status \in Running \/ clock - row.updated < Cooldown

Fresh(row) == row.status \in Running \/ clock - row.updated <= Cooldown

\* shouldRun, second read: skip while that investigation runs or is recent.
Dedup(m) ==
    /\ At(m, "dedup")
    /\ job' = [job EXCEPT ![m] =
                 IF Fresh(rows[@.seen]) THEN Goto(@, "done")
                 ELSE [@ EXCEPT !.pc = "identity", !.seen = 0]]
    /\ UNCHANGED <<busVars, clock, rows, link, asked>>

\* saIdentity.resolve, then the start time and the spawn of the agent; an
\* organisation without the service account skips the investigation.
ResolveIdentity(m) ==
    /\ At(m, "identity")
    /\ \/ job' = [job EXCEPT ![m].pc = "agent", ![m].start = clock]
       \/ Go(m, "done")
    /\ UNCHANGED <<busVars, clock, rows, link, asked>>

NewRow(owner) == [by |-> owner, at |-> clock, updated |-> clock, status |-> "planning"]

\* The agent calls investigation_create.
AgentCreates(m) ==
    /\ At(m, "agent")
    /\ job[m].own = 0
    /\ Len(rows) < limit.rows
    /\ rows' = Append(rows, NewRow(<<"job", m>>))
    /\ job' = [job EXCEPT ![m].own = Len(rows')]
    /\ UNCHANGED <<busVars, clock, link, asked>>

SetStatus(i, status) ==
    rows' = [rows EXCEPT ![i].status = status, ![i].updated = clock]

\* The agent calls investigation_complete.
AgentCompletes(m) ==
    /\ At(m, "agent")
    /\ job[m].own # 0
    /\ rows[job[m].own].status \in Running
    /\ SetStatus(job[m].own, "completed")
    /\ UNCHANGED <<busVars, clock, link, job, asked>>

\* spawnAgent resolves or rejects, whatever the agent has done by then.
AgentReturns(m) ==
    /\ At(m, "agent")
    /\ \E f \in BOOLEAN : job' = [job EXCEPT ![m].pc = "finalize", ![m].failed = f]
    /\ UNCHANGED <<busVars, clock, rows, link, asked>>

Recent(m) == {i \in DOMAIN rows : rows[i].at >= job[m].start}

Newest(S) == {i \in S : \A k \in S : rows[k].at <= rows[i].at}

\* finalizeInvestigation that links the row whatever its status.
FindRowLinks(m) ==
    /\ At(m, "finalize")
    /\ IF Recent(m) = {}
       THEN Go(m, "done")
       ELSE \E i \in Newest(Recent(m)) :
              job' = [job EXCEPT ![m].pick = i, ![m].own = 0, ![m].pc = "link"]
    /\ UNCHANGED <<busVars, clock, rows, link, asked>>

\* finalizeInvestigation, the list: the newest row of the workspace that is not
\* older than the start of the run.  Rows of one tick may come in any order.
FindRow(m) ==
    /\ At(m, "finalize")
    /\ IF Recent(m) = {}
       THEN Go(m, "done")
       ELSE \E i \in Newest(Recent(m)) :
              job' = [job EXCEPT ![m].pick = i, ![m].own = 0,
                        ![m].pc = IF rows[i].status \in Terminal THEN "link" ELSE "status"]
    /\ UNCHANGED <<busVars, clock, rows, link, asked>>

\* finalizeInvestigation, the forced terminal status.
ForceStatus(m) ==
    /\ At(m, "status")
    /\ SetStatus(job[m].pick, IF job[m].failed THEN "failed" ELSE "completed")
    /\ Go(m, "link")
    /\ UNCHANGED <<busVars, clock, link, asked>>

\* finalizeInvestigation, the last write: link the row to the rule.
LinkRule(m) ==
    /\ At(m, "link")
    /\ link' = [link EXCEPT ![job[m].rule] = job[m].pick]
    /\ Go(m, "done")
    /\ UNCHANGED <<busVars, clock, rows, asked>>

\* The reads and writes that can fail, and where the job goes then: a failing
\* status write does not keep the rule from being linked.
StoreFails(m) ==
    \/ At(m, "rule") /\ Fault(m, "done")
    \/ At(m, "dedup") /\ Fault(m, "done")
    \/ At(m, "identity") /\ Fault(m, "done")
    \/ At(m, "finalize") /\ Fault(m, "done")
    \/ At(m, "status") /\ Fault(m, "link")
    \/ At(m, "link") /\ Fault(m, "done")

JobStep ==
    \E m \in Events :
        \/ ReadRule(m) \/ Dedup(m) \/ ResolveIdentity(m)
        \/ AgentCreates(m) \/ AgentCompletes(m) \/ AgentReturns(m)
        \/ FindRow(m) \/ ForceStatus(m) \/ LinkRule(m) \/ StoreFails(m)

-----------------------------------------------------------------------------
\* POST /alert-rules/:id/investigate: an investigation that is linked already
\* is returned unless the request says `force`.
Investigate(a) ==
    /\ asked[a].pc = "idle"
    /\ \E r \in Rules, force \in BOOLEAN :
          asked' = [asked EXCEPT ![a].rule = r,
                      ![a].pc = IF link[r] # 0 /\ ~force THEN "done" ELSE "insert"]
    /\ UNCHANGED <<busVars, clock, rows, link, job>>

\* ... otherwise a row is created in status planning,
InsertRow(a) ==
    /\ asked[a].pc = "insert"
    /\ Len(rows) < limit.rows
    /\ rows' = Append(rows, NewRow(<<"ask", a>>))
    /\ asked' = [asked EXCEPT ![a].pc = "link", ![a].row = Len(rows')]
    /\ UNCHANGED <<busVars, clock, link, job>>

\* ... linked to the rule, and an agent is started that nobody awaits.
LinkAndSpawn(a) ==
    /\ asked[a].pc = "link"
    /\ link' = [link EXCEPT ![asked[a].rule] = asked[a].row]
    /\ asked' = [asked EXCEPT ![a].pc = "agent"]
    /\ UNCHANGED <<busVars, clock, rows, job>>

\* That agent opens and completes a row of its own, like any agent; the row
\* the request created is not known to it.
AskedAgent(a) ==
    /\ asked[a].pc = "agent"
    /\ \/ /\ asked[a].own = 0 /\ Len(rows) < limit.rows
          /\ rows' = Append(rows, NewRow(<<"askagent", a>>))
          /\ asked' = [asked EXCEPT ![a].own = Len(rows')]
       \/ /\ asked[a].own # 0 /\ rows[asked[a].own].status \in Running
          /\ SetStatus(asked[a].own, "completed")
          /\ UNCHANGED asked
       \/ asked' = [asked EXCEPT ![a].pc = "done", ![a].own = 0] /\ UNCHANGED rows
    /\ UNCHANGED <<busVars, clock, link, job>>

AskStep ==
    \E a \in Requests : Investigate(a) \/ InsertRow(a) \/ LinkAndSpawn(a) \/ AskedAgent(a)

Next == Tick \/ BusStep \/ JobStep \/ AskStep

Spec == Init /\ [][Next]_vars

\* The read loop never rests while it has something to do, a process that is
\* down is started again, every store call returns, and an agent run ends (its
\* loop is bounded).  Nothing obliges an agent to open or to complete a row.
Fairness ==
    /\ \A p \in Procs :
          /\ WF_vars(BusStep /\ UNCHANGED job
                       /\ (Subscribe(p) \/ CreateGroup(p) \/ ReadGroup(p)
                              \/ ReadInactive(p) \/ HandlersDone(p) \/ Ack(p)))
          /\ WF_vars(BusStep /\ Dispatch(p))
    /\ \A m \in Events :
          WF_vars(ReadRule(m) \/ Dedup(m) \/ ResolveIdentity(m) \/ AgentReturns(m)
                    \/ FindRow(m) \/ ForceStatus(m) \/ LinkRule(m))

FairSpec == Spec /\ Fairness

-----------------------------------------------------------------------------
InFlight(m) == job[m].pc \notin {"none", "done", "lost"}

\* On Redis the consumer of a process works on one alert at a time: the loop
\* awaits the handler's promise, so a dedup check never runs next to another
\* job's finalisation in the same process.
OneAtATime ==
    limit.bus = "redis" =>
        \A m, n \in Events :
            InFlight(m) /\ InFlight(n) /\ job[m].proc = job[n].proc => m = n

\* An event is acknowledged only when its investigation is over: no event is
\* acknowledged in mid-run, and none whose run died with its process.
AckedIsFinished == \A m \in acked : m \in Handed => job[m].pc = "done"

\* A rule is linked to an investigation that has ended, even when the agent
\* failed or forgot to complete it: finalizeInvestigation forces the status
\* before it links.  Rows of manual requests and failed store writes aside.
LinkedIsSettled ==
    \A r \in Rules :
        link[r] # 0 /\ faults = 0 =>
            \/ rows[link[r]].status \in Terminal
            \/ rows[link[r]].by[1] = "ask"

\* One process, on Redis, with every store call and no manual request in the
\* way: the consumer alone decides.
Undisturbed ==
    /\ limit.bus = "redis" /\ faults = 0 /\ crashes = 0
    /\ \A a \in Requests : asked[a].pc = "idle"
    /\ \A m, n \in Handed : job[m].proc = job[n].proc

\* Then a rule that was investigated is investigated again only after the
\* cooldown, counted from the moment that investigation ended (shouldRun).
CooldownKept ==
    Undisturbed =>
        \A i, k \in DOMAIN handed :
            LET m == handed[i]
                n == handed[k]
            IN  /\ i < k
                /\ job[m].rule = job[n].rule
                /\ job[m].pc = "done" /\ job[m].pick # 0
                /\ job[n].pc \in {"agent", "finalize", "status", "link"}
                => job[n].start - rows[job[m].pick].updated > Cooldown

\* Every published alert is dealt with: its job ends, or the process running
\* it died, or the bus lost the event.  A slow investigation only delays the
\* alerts queued behind it.
AlertIsSettled ==
    \A m \in Events :
        published >= m ~> (m \in Gone \/ job[m].pc \in {"done", "lost"})

\* finalizeInvestigation settles "the investigation row the agent created"
\* (auto-investigation-consumer.ts): the row a job is about to force and link
\* was opened by the agent of that job.
FinalizesOwn ==
    \A m \in Events :
        job[m].pc \in {"status", "link"} => rows[job[m].pick].by = <<"job", m>>
=============================================================================
