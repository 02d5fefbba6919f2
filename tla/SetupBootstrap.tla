---------------------------- MODULE SetupBootstrap ----------------------------
(***************************************************************************)
(* POST /api/setup/admin on one process: SetupBootstrapService creates the *)
(* first administrator behind a gate (isBootstrapped) and a promise        *)
(* (`inflight`) that later calls wait for.  One step is what runs between  *)
(* two awaits; the store may fail, and an input may be invalid.            *)
(***************************************************************************)
EXTENDS Naturals, FiniteSets

CONSTANTS
    Calls,            \* concurrent POST /api/setup/admin requests
    EmailOf,          \* the e-mail address each request asks for
    MaxSetupFaults    \* bound: failing store calls

NoCall == "none"

ASSUME SetupAssumption ==
    EmailOf \in [Calls -> STRING] /\ NoCall \notin Calls /\ MaxSetupFaults \in Nat

VARIABLES
    inflight,       \* the call whose promise is `this.inflight`, or NoCall
    call,           \* per call: where it stands
    awaits,         \* per call: the call whose promise it waits for
    org,            \* the default organisation's row exists
    admins,         \* the calls whose administrator row was created
    members,        \* the calls whose org_user row was created
    bootstrapped,   \* the gate: bootstrapped_at is set
    setupFaults

setupVars == <<inflight, call, awaits, org, admins, members, bootstrapped, setupFaults>>

Settled == {"ok", "conflict", "invalid", "failed"}
InRun == {"gate", "org", "neworg", "user", "member", "mark", "session"}

\* Every variable has its type.
SetupTypeOK ==
    /\ inflight \in Calls \cup {NoCall}
    /\ call \in [Calls -> {"none", "wait", "recheck"} \cup InRun \cup Settled]
    /\ awaits \in [Calls -> Calls \cup {NoCall}]
    /\ org \in BOOLEAN
    /\ admins \subseteq Calls /\ members \subseteq Calls
    /\ bootstrapped \in BOOLEAN
    /\ setupFaults \in 0..MaxSetupFaults

SetupInit ==
    /\ inflight = NoCall
    /\ call = [c \in Calls |-> "none"]
    /\ awaits = [c \in Calls |-> NoCall]
    /\ org \in BOOLEAN
    /\ admins = {} /\ members = {}
    /\ bootstrapped = FALSE
    /\ setupFaults = 0

Rows == <<org, admins, members, bootstrapped>>

\* Going on at pc; a run that settles clears `inflight` if it is still its own.
Goes(c, pc) ==
    /\ call' = [call EXCEPT ![c] = pc]
    /\ inflight' = IF pc \in Settled /\ inflight = c THEN NoCall ELSE inflight
    /\ UNCHANGED awaits

\* createFirstAdmin without the promise of the call in flight.
CallUnserialised(c) ==
    /\ call[c] = "none"
    /\ call' = [call EXCEPT ![c] = "gate"]
    /\ inflight' = c
    /\ UNCHANGED <<awaits, Rows, setupFaults>>

\* createFirstAdmin: wait for the promise that is in flight, or start a run.
Call(c) ==
    /\ call[c] = "none"
    /\ IF inflight # NoCall
       THEN /\ call' = [call EXCEPT ![c] = "wait"]
            /\ awaits' = [awaits EXCEPT ![c] = inflight]
            /\ UNCHANGED inflight
       ELSE /\ call' = [call EXCEPT ![c] = "gate"]
            /\ inflight' = c
            /\ UNCHANGED awaits
    /\ UNCHANGED <<Rows, setupFaults>>

\* A wait that only a run that succeeds or finds the gate closed ends.
WokenByAnswer(c) ==
    /\ call[c] = "wait"
    /\ call[awaits[c]] \in {"ok", "conflict"}
    /\ Goes(c, "recheck")
    /\ UNCHANGED <<Rows, setupFaults>>

\* The promise waited for has settled, either way.
Woken(c) ==
    /\ call[c] = "wait"
    /\ call[awaits[c]] \in Settled
    /\ Goes(c, "recheck")
    /\ UNCHANGED <<Rows, setupFaults>>

\* The gate again; an open gate starts a run without looking at `inflight`.
Recheck(c) ==
    /\ call[c] = "recheck"
    /\ IF bootstrapped
       THEN Goes(c, "conflict")
       ELSE /\ call' = [call EXCEPT ![c] = "gate"]
            /\ inflight' = c
            /\ UNCHANGED awaits
    /\ UNCHANGED <<Rows, setupFaults>>

\* runCreateFirstAdmin: the gate, then the validation of the input.
Gate(c) ==
    /\ call[c] = "gate"
    /\ \E valid \in BOOLEAN :
          Goes(c, IF bootstrapped THEN "conflict" ELSE IF valid THEN "org" ELSE "invalid")
    /\ UNCHANGED <<Rows, setupFaults>>

FindOrg(c) ==
    /\ call[c] = "org"
    /\ Goes(c, IF org THEN "user" ELSE "neworg")
    /\ UNCHANGED <<Rows, setupFaults>>

\* The organisation's id is fixed, so a second insert violates its key.
CreateOrg(c) ==
    /\ call[c] = "neworg"
    /\ Goes(c, IF org THEN "failed" ELSE "user")
    /\ org' = TRUE
    /\ UNCHANGED <<admins, members, bootstrapped, setupFaults>>

\* users.create; e-mail addresses are unique.
CreateUser(c) ==
    /\ call[c] = "user"
    /\ IF \E d \in admins : EmailOf[d] = EmailOf[c]
       THEN Goes(c, "failed") /\ UNCHANGED admins
       ELSE Goes(c, "member") /\ admins' = admins \cup {c}
    /\ UNCHANGED <<org, members, bootstrapped, setupFaults>>

CreateMember(c) ==
    /\ call[c] = "member"
    /\ Goes(c, "mark")
    /\ members' = members \cup {c}
    /\ UNCHANGED <<org, admins, bootstrapped, setupFaults>>

\* The gate closes before the session is issued.
MarkBootstrapped(c) ==
    /\ call[c] = "mark"
    /\ Goes(c, "session")
    /\ bootstrapped' = TRUE
    /\ UNCHANGED <<org, admins, members, setupFaults>>

IssueSession(c) ==
    /\ call[c] = "session"
    /\ Goes(c, "ok")
    /\ UNCHANGED <<Rows, setupFaults>>

\* A store call of the run throws and the run rejects.
SetupFails(c) ==
    /\ call[c] \in InRun \cup {"recheck"}
    /\ setupFaults < MaxSetupFaults
    /\ setupFaults' = setupFaults + 1
    /\ Goes(c, "failed")
    /\ UNCHANGED Rows

SetupStep(c) ==
    \/ Woken(c) \/ Recheck(c) \/ Gate(c) \/ FindOrg(c) \/ CreateOrg(c) \/ CreateUser(c)
    \/ CreateMember(c) \/ MarkBootstrapped(c) \/ IssueSession(c)

SetupNext == \E c \in Calls : Call(c) \/ SetupStep(c) \/ SetupFails(c)

SetupSpec == SetupInit /\ [][SetupNext]_setupVars

\* Store calls return and promise continuations run.
SetupFairness == \A c \in Calls : WF_setupVars(SetupStep(c))

-----------------------------------------------------------------------------
\* A second administrator takes an earlier failure: as long as no call was
\* turned down by validation or by the store, the promise and the gate let at
\* most one administrator be created.
SecondAdminNeedsFailure ==
    Cardinality(admins) > 1 => \E c \in Calls : call[c] \in {"invalid", "failed"}

\* The gate never locks everybody out: when it is closed there is an
\* administrator who belongs to the organisation.
GateHasAdmin == bootstrapped => members # {}

\* Every request is answered: no call waits for ever for another, whichever of
\* them fail, so there comes a time when none is open.
CallsEnd ==
    LET open == {c \in Calls : call[c] \notin Settled \cup {"none"}}
    IN  open # {} ~> open = {}

\* "serializes concurrent createFirstAdmin calls so that the check-then-create
\* sequence ... cannot race itself" (setup-bootstrap-service.ts): two calls are
\* never between the gate and its closing at the same time.
RunsExclusive ==
    \A c, d \in Calls : call[c] \in InRun /\ call[d] \in InRun => c = d
=============================================================================
