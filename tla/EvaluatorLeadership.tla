------------------------ MODULE EvaluatorLeadership ------------------------
(***************************************************************************)
(* Who evaluates alert rules when several api-gateway replicas run: the    *)
(* lease kept in one row of _runtime_settings (LeaderLock) and the part of *)
(* AlertEvaluatorService that mirrors it on timers (start, stop,           *)
(* tickLeader, refreshSchedule).                                           *)
(*                                                                         *)
(* Every await is a point where anything else may run.  A lock call is a   *)
(* record that goes through its SQL statement, its read-back and its       *)
(* answer; the clock is read when the call is made, so a statement may be  *)
(* applied with an old `now'.  Time is relative: the row stores how much   *)
(* of the lease is left (negative once it expired), a call its age.        *)
(*                                                                         *)
(* Rules are reduced to one rule that is enabled or disabled, timers[r]    *)
(* to whether replica r has an interval for it.                            *)
(***************************************************************************)
EXTENDS Integers, FiniteSets

CONSTANTS
    Replicas,    \* one LeaderLock each; a restarted process is a new one
    NoReplica,   \* the holder when the row does not exist
    Ttl,         \* ttlMs, in units of the model's clock
    MaxLag,      \* bound: a lock call is over within MaxLag units
    MaxCalls,    \* bound: tickLeader calls of one replica that overlap
    MaxRefreshes,\* bound: refreshSchedule calls of one replica that overlap
    MaxToggles,  \* bound: times the rule is disabled or enabled
    MaxLeaseFaults,   \* bound: crashes and failed database calls
    Prompt       \* TRUE: a replica with a stake in the lease is never so late
                 \* that its lease runs out

ASSUME LeaseAssumption ==
    /\ NoReplica \notin Replicas
    /\ Ttl \in Nat \ {0}
    /\ MaxLag \in Nat
    /\ MaxCalls \in Nat
    /\ MaxRefreshes \in Nat
    /\ MaxToggles \in Nat
    /\ MaxLeaseFaults \in Nat
    /\ Prompt \in BOOLEAN
    /\ Prompt => MaxLag <= Ttl

VARIABLES
    lock,        \* the row: who holds it, how much of the lease is left
    status,      \* status[r]: "new", "running" or "stopped" (or crashed)
    isLeader,    \* isLeader[r]: the service's belief
    timers,      \* timers[r]: an interval for the rule exists
    calls,       \* calls[r]: lock calls in flight
    refreshes,   \* refreshes[r]: refreshSchedule calls in flight
    enabled,     \* the rule is not disabled
    toggles, leaseFaults

leaseVars == <<lock, status, isLeader, timers, calls, refreshes, enabled, toggles, leaseFaults>>

Left == -(MaxLag + 1) .. Ttl

Lock == [holder : Replicas \cup {NoReplica}, left : Left]

Free == [holder |-> NoReplica, left |-> 0]

Call == [op : {"acquire", "heartbeat", "release"},
         at : {"statement", "readback", "answer"},
         age : 0 .. MaxLag, mine : BOOLEAN]

NewCall(op) == [op |-> op, at |-> "statement", age |-> 0, mine |-> FALSE]

Held(r, age) == [holder |-> r, left |-> Ttl - age]

Running(r) == status[r] = "running"

\* What the replica does to the world: an interval that is not a no-op.
Evaluates(r) == Running(r) /\ timers[r]

LeaseInit ==
    /\ lock = Free
    /\ status = [r \in Replicas |-> "new"]
    /\ isLeader = [r \in Replicas |-> FALSE]
    /\ timers = [r \in Replicas |-> FALSE]
    /\ calls = [r \in Replicas |-> {}]
    /\ refreshes = [r \in Replicas |-> {}]
    /\ enabled = TRUE
    /\ toggles = 0
    /\ leaseFaults = 0

-----------------------------------------------------------------------------
(* The service: start, stop, the heartbeat interval.                       *)

\* The first tickLeader is made by start itself.
Start(r) ==
    /\ status[r] = "new"
    /\ status' = [status EXCEPT ![r] = "running"]
    /\ calls' = [calls EXCEPT ![r] = {NewCall("acquire")}]
    /\ UNCHANGED <<lock, isLeader, timers, refreshes, enabled, toggles, leaseFaults>>

\* Faulty form: a tick that always tries to acquire.
TickLeaderAlwaysAcquires(r) ==
    /\ Running(r)
    /\ Cardinality(calls[r]) < MaxCalls
    /\ calls' = [calls EXCEPT ![r] = @ \cup {NewCall("acquire")}]
    /\ UNCHANGED <<lock, status, isLeader, timers, refreshes, enabled, toggles, leaseFaults>>

\* setInterval does not wait for the previous tick, so ticks may overlap.
TickLeader(r) ==
    /\ Running(r)
    /\ Cardinality(calls[r]) < MaxCalls
    /\ calls' = [calls EXCEPT
          ![r] = @ \cup {NewCall(IF isLeader[r] THEN "heartbeat" ELSE "acquire")}]
    /\ UNCHANGED <<lock, status, isLeader, timers, refreshes, enabled, toggles, leaseFaults>>

\* Release is sent without waiting for it; calls in flight go on.
Stop(r) ==
    /\ Running(r)
    /\ status' = [status EXCEPT ![r] = "stopped"]
    /\ timers' = [timers EXCEPT ![r] = FALSE]
    /\ calls' = [calls EXCEPT
          ![r] = @ \cup {NewCall("release") : x \in {y \in {r} : isLeader[y]}}]
    /\ isLeader' = [isLeader EXCEPT ![r] = FALSE]
    /\ UNCHANGED <<lock, refreshes, enabled, toggles, leaseFaults>>

-----------------------------------------------------------------------------
(* LeaderLock.  Statement and ReadBack are the two SQL statements of a     *)
(* call, Answer* what tickLeader does with the result.                     *)

MovedTo(c, at) == [c EXCEPT !.at = at]

Replace(r, c, d) == calls' = [calls EXCEPT ![r] = (@ \ {c}) \cup {d}]

Drop(r, c) == calls' = [calls EXCEPT ![r] = @ \ {c}]

\* Faulty form: only a missing row can be claimed.
CanClaimMissing(c) == lock.holder = NoReplica

\* INSERT, or the ON CONFLICT branch: the stored expiresAt is before the
\* caller's `now', which is c.age units old.
CanClaim(c) == lock.holder = NoReplica \/ lock.left < -c.age

Acquire(r, c) ==
    /\ c.op = "acquire" /\ c.at = "statement"
    /\ lock' = IF CanClaim(c) THEN Held(r, c.age) ELSE lock
    /\ Replace(r, c, MovedTo(c, "readback"))
    /\ UNCHANGED <<status, isLeader, timers, refreshes, enabled, toggles, leaseFaults>>

\* Faulty form: the UPDATE without its test on leaderId.
HeartbeatUnconditional(r, c) ==
    /\ c.op = "heartbeat" /\ c.at = "statement"
    /\ lock' = Held(r, c.age)
    /\ Replace(r, c, MovedTo(c, "readback"))
    /\ UNCHANGED <<status, isLeader, timers, refreshes, enabled, toggles, leaseFaults>>

\* UPDATE ... WHERE leaderId = me: an expired lease nobody took is renewed.
Heartbeat(r, c) ==
    /\ c.op = "heartbeat" /\ c.at = "statement"
    /\ lock' = IF lock.holder = r THEN Held(r, c.age) ELSE lock
    /\ Replace(r, c, MovedTo(c, "readback"))
    /\ UNCHANGED <<status, isLeader, timers, refreshes, enabled, toggles, leaseFaults>>

ReadBack(r, c) ==
    /\ c.at = "readback"
    /\ Replace(r, c, [c EXCEPT !.at = "answer", !.mine = (lock.holder = r)])
    /\ UNCHANGED <<lock, status, isLeader, timers, refreshes, enabled, toggles, leaseFaults>>

Release(r, c) ==
    /\ c.op = "release"
    /\ lock' = IF lock.holder = r THEN Free ELSE lock
    /\ Drop(r, c)
    /\ UNCHANGED <<status, isLeader, timers, refreshes, enabled, toggles, leaseFaults>>

AnswerHeartbeat(r, c) ==
    /\ c.op = "heartbeat" /\ c.at = "answer"
    /\ isLeader' = [isLeader EXCEPT ![r] = @ /\ c.mine]
    /\ timers' = [timers EXCEPT ![r] = @ /\ c.mine]
    /\ Drop(r, c)
    /\ UNCHANGED <<lock, status, refreshes, enabled, toggles, leaseFaults>>

\* Faulty form: the result of tryAcquire is not looked at.
AnswerAcquireUnread(r, c) ==
    /\ c.op = "acquire" /\ c.at = "answer"
    /\ isLeader' = [isLeader EXCEPT ![r] = TRUE]
    /\ refreshes' = [refreshes EXCEPT ![r] = IF Running(r) THEN @ \cup {"asked"} ELSE @]
    /\ Drop(r, c)
    /\ UNCHANGED <<lock, status, timers, enabled, toggles, leaseFaults>>

\* A win starts a refresh, which returns at once when the service has been
\* stopped meanwhile; the flag is set all the same.
AnswerAcquire(r, c) ==
    /\ c.op = "acquire" /\ c.at = "answer"
    /\ isLeader' = [isLeader EXCEPT ![r] = @ \/ c.mine]
    /\ refreshes' = [refreshes EXCEPT
          ![r] = IF c.mine /\ Running(r) THEN @ \cup {"asked"} ELSE @]
    /\ Drop(r, c)
    /\ UNCHANGED <<lock, status, timers, enabled, toggles, leaseFaults>>

-----------------------------------------------------------------------------
(* refreshSchedule.                                                        *)

\* The safety-net interval, or the debounced notifyRuleChanged.
AskRefresh(r) ==
    /\ Running(r) /\ isLeader[r]
    /\ Cardinality(refreshes[r]) < MaxRefreshes
    /\ refreshes' = [refreshes EXCEPT ![r] = @ \cup {"asked"}]
    /\ UNCHANGED <<lock, status, isLeader, timers, calls, enabled, toggles, leaseFaults>>

\* findAll: the list as it is when the SELECT runs.
FindAll(r) ==
    /\ "asked" \in refreshes[r]
    /\ refreshes' = [refreshes EXCEPT
          ![r] = (@ \ {"asked"}) \cup {IF enabled THEN "scheduled" ELSE "absent"}]
    /\ UNCHANGED <<lock, status, isLeader, timers, calls, enabled, toggles, leaseFaults>>

\* Faulty form: rules that got disabled keep their timers.
ScheduleNeverDrops(r, list) ==
    /\ list \in refreshes[r] \ {"asked"}
    /\ timers' = [timers EXCEPT ![r] = @ \/ list = "scheduled"]
    /\ refreshes' = [refreshes EXCEPT ![r] = @ \ {list}]
    /\ UNCHANGED <<lock, status, isLeader, calls, enabled, toggles, leaseFaults>>

\* Timers are set from the list; neither running nor isLeader is looked at
\* again after the await.
Schedule(r, list) ==
    /\ list \in refreshes[r] \ {"asked"}
    /\ timers' = [timers EXCEPT ![r] = (list = "scheduled")]
    /\ refreshes' = [refreshes EXCEPT ![r] = @ \ {list}]
    /\ UNCHANGED <<lock, status, isLeader, calls, enabled, toggles, leaseFaults>>

-----------------------------------------------------------------------------
(* The environment.                                                        *)

\* An operator disables or enables the rule.
Toggle ==
    /\ toggles < MaxToggles
    /\ toggles' = toggles + 1
    /\ enabled' = ~enabled
    /\ UNCHANGED <<lock, status, isLeader, timers, calls, refreshes, leaseFaults>>

Fault ==
    /\ leaseFaults < MaxLeaseFaults
    /\ leaseFaults' = leaseFaults + 1

\* The process dies: its row stays until the lease is over.
Crash(r) ==
    /\ Running(r)
    /\ Fault
    /\ status' = [status EXCEPT ![r] = "stopped"]
    /\ isLeader' = [isLeader EXCEPT ![r] = FALSE]
    /\ timers' = [timers EXCEPT ![r] = FALSE]
    /\ calls' = [calls EXCEPT ![r] = {}]
    /\ refreshes' = [refreshes EXCEPT ![r] = {}]
    /\ UNCHANGED <<lock, enabled, toggles>>

\* A rejected database call ends the lock call; it is logged, the flag stays.
CallFails(r, c) ==
    /\ c.at # "answer"
    /\ Fault
    /\ Drop(r, c)
    /\ UNCHANGED <<lock, status, isLeader, timers, refreshes, enabled, toggles>>

\* A rejected findAll leaves the schedule as it is.
RefreshFails(r) ==
    /\ "asked" \in refreshes[r]
    /\ Fault
    /\ refreshes' = [refreshes EXCEPT ![r] = @ \ {"asked"}]
    /\ UNCHANGED <<lock, status, isLeader, timers, calls, enabled, toggles>>

\* r counts on the lease: it leads, or a call of its own is under way.
Stake(r) == Running(r) /\ (isLeader[r] \/ calls[r] # {})

Late == \E r \in Replicas : lock.holder = r /\ Stake(r) /\ lock.left <= 0

OlderCall(c) == [c EXCEPT !.age = @ + 1]

\* One unit of time.  A lease more than MaxLag over is over for every call.
TimePasses ==
    /\ \A r \in Replicas : \A c \in calls[r] : c.age < MaxLag
    /\ Prompt => ~Late
    /\ lock' = IF lock.holder = NoReplica \/ lock.left = -(MaxLag + 1)
               THEN lock ELSE [lock EXCEPT !.left = @ - 1]
    /\ calls' = [r \in Replicas |-> {OlderCall(c) : c \in calls[r]}]
    /\ UNCHANGED <<status, isLeader, timers, refreshes, enabled, toggles, leaseFaults>>

LockCall(r) ==
    \E c \in calls[r] :
        \/ Acquire(r, c) \/ Heartbeat(r, c) \/ ReadBack(r, c) \/ Release(r, c)
        \/ AnswerHeartbeat(r, c) \/ AnswerAcquire(r, c)

Refresh(r) == FindAll(r) \/ \E list \in {"scheduled", "absent"} : Schedule(r, list)

LeaseNext ==
    \/ \E r \in Replicas :
          \/ Start(r) \/ TickLeader(r) \/ Stop(r) \/ Crash(r)
          \/ LockCall(r) \/ AskRefresh(r) \/ Refresh(r) \/ RefreshFails(r)
          \/ \E c \in calls[r] : CallFails(r, c)
    \/ Toggle
    \/ TimePasses

LeaseSpec == LeaseInit /\ [][LeaseNext]_leaseVars

\* Time never stops, the intervals keep ticking, the database answers, and every
\* replica is started.
Fairness ==
    /\ SF_leaseVars(TimePasses)
    /\ \A r \in Replicas :
          /\ WF_leaseVars(Start(r)) /\ WF_leaseVars(TickLeader(r)) /\ WF_leaseVars(AskRefresh(r))
          /\ WF_leaseVars(LockCall(r)) /\ WF_leaseVars(FindAll(r))
          /\ \A list \in {"scheduled", "absent"} : WF_leaseVars(Schedule(r, list))

FairLeaseSpec == LeaseSpec /\ Fairness

-----------------------------------------------------------------------------
(* Properties.                                                             *)

LeaseTypeOK ==
    /\ lock \in Lock
    /\ status \in [Replicas -> {"new", "running", "stopped"}]
    /\ isLeader \in [Replicas -> BOOLEAN]
    /\ timers \in [Replicas -> BOOLEAN]
    /\ calls \in [Replicas -> SUBSET Call]
    /\ refreshes \in [Replicas -> SUBSET {"asked", "scheduled", "absent"}]
    /\ enabled \in BOOLEAN
    /\ toggles \in 0 .. MaxToggles
    /\ leaseFaults \in 0 .. MaxLeaseFaults

\* leader-lock.ts: only one AlertEvaluatorService evaluates rules across the
\* replicas.  It holds as long as leases are renewed in time, through crashes,
\* failed calls, stops, overlapping ticks and slow read-backs.
SoleEvaluator ==
    \A r, q \in Replicas : Evaluates(r) /\ Evaluates(q) => r = q

\* tryAcquire and heartbeat never push a healthy holder aside, however old the
\* clock reading they carry: the row changes hands only once the lease is over
\* or its holder gave it up.
NoStomping ==
    [][lock'.holder # lock.holder /\ lock.holder # NoReplica
         => lock.left < 0 \/ ~Running(lock.holder)]_leaseVars

\* A replica that lost the row to another one stops believing it leads, or
\* gets the row back.
Deposed == \A r \in Replicas :
    (isLeader[r] /\ Running(r) /\ lock.holder # r)
        ~> (~isLeader[r] \/ ~Running(r) \/ lock.holder = r)

\* Whatever happens to the leader, an enabled rule is evaluated again as long
\* as some replica keeps running.
TakeOver ==
    []<>(\/ \E r \in Replicas : Evaluates(r)
         \/ \A r \in Replicas : ~Running(r)
         \/ ~enabled)

\* A disabled rule that nobody enables again ends up without a timer on every
\* replica that leads.
DisabledIsUnscheduled ==
    \A r \in Replicas :
        <>[](~enabled) => <>[](~(Evaluates(r) /\ isLeader[r]))

\* tickLeader: state changes are mirrored on the per-rule timers, so a replica
\* that gave up leadership evaluates nothing.
ResignedIsIdle == \A r \in Replicas : Evaluates(r) => isLeader[r]
=============================================================================
