----------------------------- MODULE RateLimiter -----------------------------
(***************************************************************************)
(* createRateLimiter: a sliding window of accepted requests for one key,   *)
(* and the janitor that drops the key's entry when it has been idle.  The  *)
(* middleware is synchronous, so each request is one step.                 *)
(***************************************************************************)
EXTENDS Integers, Sequences, FiniteSets

CONSTANTS
    Window,         \* windowMs
    MaxHits,        \* max
    LimiterTime     \* bound: how far the clock runs

ASSUME LimiterAssumption == Window \in Nat \ {0} /\ MaxHits \in Nat \ {0} /\ LimiterTime \in Nat

VARIABLES
    limiterNow,  \* Date.now()
    entry,       \* the key's WindowEntry, or NoEntry
    accepted,    \* every request accepted so far: its time
    refused      \* the last request was refused

limiterVars == <<limiterNow, entry, accepted, refused>>

NoEntry == [timestamps |-> <<>>, lastSeen |-> -1]

\* Every variable has its type.
LimiterTypeOK ==
    /\ limiterNow \in 0..LimiterTime
    /\ entry \in [timestamps : Seq(0..LimiterTime), lastSeen : -1..LimiterTime]
    /\ Len(entry.timestamps) <= MaxHits
    /\ accepted \in Seq(0..LimiterTime)
    /\ refused \in BOOLEAN

LimiterInit ==
    /\ limiterNow = 0
    /\ entry = NoEntry
    /\ accepted = <<>>
    /\ refused = FALSE

LimiterTick ==
    /\ limiterNow < LimiterTime
    /\ limiterNow' = limiterNow + 1
    /\ refused' = FALSE
    /\ UNCHANGED <<entry, accepted>>

\* The timestamps still inside the window, in their order.
StillCounted(stamps) ==
    LET kept[i \in 0..Len(stamps)] ==
          IF i = 0 THEN <<>>
          ELSE IF stamps[i] > limiterNow - Window THEN Append(kept[i - 1], stamps[i])
          ELSE kept[i - 1]
    IN  kept[Len(stamps)]

\* A request of the key: accepted and recorded, or refused; either way the
\* entry is pruned and marked as seen.  (Time is bounded, and so is what can
\* be accepted.)
Hit ==
    LET recent == StillCounted(entry.timestamps)
    IN  /\ refused' = (Len(recent) >= MaxHits)
        /\ IF Len(recent) >= MaxHits
           THEN /\ entry' = [timestamps |-> recent, lastSeen |-> limiterNow]
                /\ UNCHANGED accepted
           ELSE /\ entry' = [timestamps |-> Append(recent, limiterNow), lastSeen |-> limiterNow]
                /\ accepted' = Append(accepted, limiterNow)
        /\ UNCHANGED limiterNow

\* The janitor, evicting what has been idle for half a window, as if the
\* bucket were empty by then.
JanitorEager ==
    /\ entry # NoEntry
    /\ 2 * entry.lastSeen < 2 * limiterNow - Window
    /\ entry' = NoEntry
    /\ UNCHANGED <<limiterNow, accepted, refused>>

\* The janitor drops an entry not seen for two windows.
Janitor ==
    /\ entry # NoEntry
    /\ entry.lastSeen < limiterNow - Window * 2
    /\ entry' = NoEntry
    /\ UNCHANGED <<limiterNow, accepted, refused>>

LimiterNext == LimiterTick \/ Hit \/ Janitor

LimiterSpec == LimiterInit /\ [][LimiterNext]_limiterVars

\* The requests accepted in the window that ends at t.
InWindow(t) ==
    Cardinality({i \in DOMAIN accepted : accepted[i] > t - Window /\ accepted[i] <= t})

-----------------------------------------------------------------------------

\* However requests, time and the janitor interleave, no window holds more than
\* the limit: evicting an idle key loses nothing that still counts ("dropping
\* the key is lossless").
WindowHolds == \A t \in 0..limiterNow : InWindow(t) <= MaxHits

\* A request is refused only when the limit has really been accepted within
\* the window that ends now.
RefusedWhenFull == refused => InWindow(limiterNow) >= MaxHits
=============================================================================
