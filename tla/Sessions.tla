------------------------------- MODULE Sessions -------------------------------
(***************************************************************************)
(* One browser session: requests look its row up, check its age and its    *)
(* idleness, load the user, and mark the row as seen without waiting for   *)
(* the write; meanwhile the session is revoked, or pruned by age.  The     *)
(* session was created at time 0.                                          *)
(***************************************************************************)
EXTENDS Integers

CONSTANTS
    Browsers,       \* requests that may be under way together
    MaxLifetime,    \* maxLifetimeMs
    IdleTimeout,    \* idleTimeoutMs
    SessionTime     \* bound: how far the clock runs

ASSUME SessionAssumption ==
    MaxLifetime \in Nat /\ IdleTimeout \in Nat /\ SessionTime \in Nat

VARIABLES
    sessionNow,     \* Date.now()
    token,          \* the row: "live", "revoked" or "deleted"
    touched,        \* its updated_at
    visit,          \* request -> how far the middleware has come
    seenRow,        \* request -> the updated_at it read
    alone,          \* the request under way that has met no other one
    over            \* such a request was refused, or a revocation met none

sessionVars == <<sessionNow, token, touched, visit, seenRow, alone, over>>

\* Every variable has its type.
SessionTypeOK ==
    /\ sessionNow \in 0..SessionTime
    /\ token \in {"live", "revoked", "deleted"}
    /\ touched \in 0..sessionNow
    /\ visit \in [Browsers -> {"none", "found", "valid", "marking"}]
    /\ seenRow \in [Browsers -> 0..sessionNow]
    /\ alone \subseteq Browsers /\ over \in BOOLEAN

SessionInit ==
    /\ sessionNow = 0 /\ token = "live" /\ touched = 0
    /\ visit = [b \in Browsers |-> "none"]
    /\ seenRow = [b \in Browsers |-> 0]
    /\ alone = {} /\ over = FALSE

Quiet == \A b \in Browsers : visit[b] = "none"

SessionTick ==
    /\ sessionNow < SessionTime
    /\ sessionNow' = sessionNow + 1
    /\ UNCHANGED <<token, touched, visit, seenRow, alone, over>>

\* findByHashedToken: the row if it is there and not revoked.
FindToken(b) ==
    /\ visit[b] = "none"
    /\ IF token = "live"
       THEN /\ visit' = [visit EXCEPT ![b] = "found"]
            /\ seenRow' = [seenRow EXCEPT ![b] = touched]
            /\ alone' = IF Quiet THEN {b} ELSE {}
            /\ UNCHANGED over
       ELSE /\ over' = (over \/ Quiet)
            /\ UNCHANGED <<visit, seenRow, alone>>
    /\ UNCHANGED <<sessionNow, token, touched>>

\* A lookup that touches the row whatever it answers.
LookupTouches(b) ==
    /\ visit[b] = "found"
    /\ IF sessionNow > MaxLifetime \/ sessionNow - seenRow[b] > IdleTimeout
       THEN /\ visit' = [visit EXCEPT ![b] = "none"]
            /\ over' = (over \/ b \in alone)
       ELSE /\ visit' = [visit EXCEPT ![b] = "valid"]
            /\ UNCHANGED over
    /\ touched' = sessionNow
    /\ seenRow' = [seenRow EXCEPT ![b] = 0]
    /\ UNCHANGED <<sessionNow, token, alone>>

\* The rest of lookupByToken: age and idleness of the row it read, by the
\* clock now.
LookupByToken(b) ==
    /\ visit[b] = "found"
    /\ IF sessionNow > MaxLifetime \/ sessionNow - seenRow[b] > IdleTimeout
       THEN /\ visit' = [visit EXCEPT ![b] = "none"]
            /\ over' = (over \/ b \in alone)
       ELSE /\ visit' = [visit EXCEPT ![b] = "valid"]
            /\ UNCHANGED over
    /\ seenRow' = [seenRow EXCEPT ![b] = 0]
    /\ UNCHANGED <<sessionNow, token, touched, alone>>

\* The middleware loads the user; a missing or disabled one is refused.
Admit(b) ==
    /\ visit[b] = "valid"
    /\ \E known \in BOOLEAN :
          visit' = [visit EXCEPT ![b] = IF known THEN "marking" ELSE "none"]
    /\ UNCHANGED <<sessionNow, token, touched, seenRow, alone, over>>

\* markSeen, whatever has become of the row; a failure is only logged.
MarkSeen(b) ==
    /\ visit[b] = "marking"
    /\ \/ touched' = IF token = "deleted" THEN touched ELSE sessionNow
       \/ UNCHANGED touched
    /\ visit' = [visit EXCEPT ![b] = "none"]
    /\ UNCHANGED <<sessionNow, token, seenRow, alone, over>>

\* revoke: sign-out, or an administrator.
Revoke ==
    /\ token = "live"
    /\ token' = "revoked" /\ touched' = sessionNow
    /\ over' = (over \/ Quiet)
    /\ UNCHANGED <<sessionNow, visit, seenRow, alone>>

\* pruneExpired deletes the row once it is past its lifetime.
PruneExpired ==
    /\ token # "deleted" /\ 0 < sessionNow - MaxLifetime
    /\ token' = "deleted"
    /\ UNCHANGED <<sessionNow, touched, visit, seenRow, alone, over>>

SessionNext ==
    \/ SessionTick \/ Revoke \/ PruneExpired
    \/ \E b \in Browsers : FindToken(b) \/ LookupByToken(b) \/ Admit(b) \/ MarkSeen(b)

SessionSpec == SessionInit /\ [][SessionNext]_sessionVars

-----------------------------------------------------------------------------

\* Once a session has been refused to a request that met no other one, for its
\* age, its idleness or its revocation, or has been revoked while no request
\* was under way, no later request is admitted by it: the write of markSeen,
\* which is not awaited and checks nothing, never brings a dead session back.
OverIsOver ==
    [][over => \A b \in Browsers : visit'[b] = "marking" => visit[b] = "marking"]_sessionVars
=============================================================================
