------------------------------- MODULE Shutdown -------------------------------
(***************************************************************************)
(* GracefulShutdown: hooks run in priority order, each racing its timeout, *)
(* and the process exits when shutdown() returns.  SIGTERM and SIGINT each *)
(* have a once-handler that calls shutdown() and then exits; a second call *)
(* returns at once.                                                        *)
(***************************************************************************)
EXTENDS Naturals, Sequences

CONSTANTS
    Hooks,      \* names of the hooks, in the order they are registered
    Priority    \* hook -> priority

ASSUME ShutdownAssumption == Hooks \in Seq(DOMAIN Priority)

VARIABLES
    hooks,      \* the registry, kept sorted
    unregistered,  \* hooks still to be registered at boot
    position,   \* hooks already run, in order
    running,    \* the hook under way, or none
    ending,     \* hook -> how it ended
    started,    \* shutdownStarted
    signals,    \* signals not yet received (each is handled once)
    exited      \* process.exit has been called

shutdownVars == <<hooks, unregistered, position, running, ending, started, signals, exited>>

NoHook == "no hook"
Signals == {"SIGTERM", "SIGINT"}

\* Every variable has its type.
ShutdownTypeOK ==
    /\ hooks \in Seq(DOMAIN Priority)
    /\ position \in 0..Len(hooks)
    /\ running \in DOMAIN Priority \cup {NoHook}
    /\ ending \in [DOMAIN Priority -> {"waiting", "completed", "failed", "timeout"}]
    /\ started \in BOOLEAN /\ exited \in BOOLEAN
    /\ signals \subseteq Signals

ShutdownInit ==
    /\ hooks = <<>> /\ unregistered = Hooks
    /\ position = 0 /\ running = NoHook
    /\ ending = [h \in DOMAIN Priority |-> "waiting"]
    /\ started = FALSE /\ exited = FALSE
    /\ signals = Signals

\* register: pushed, then a stable sort by priority.  Boot registers every
\* hook before it listens for signals.
Register ==
    /\ unregistered # <<>>
    /\ LET h == Head(unregistered)
           upTo == SelectSeq(hooks, LAMBDA g : Priority[g] <= Priority[h])
           past == SelectSeq(hooks, LAMBDA g : Priority[g] > Priority[h])
       IN  hooks' = upTo \o <<h>> \o past
    /\ unregistered' = Tail(unregistered)
    /\ UNCHANGED <<position, running, ending, started, signals, exited>>

\* A signal's handler: the first call of shutdown() starts the sequence, the
\* second returns at once and its continuation exits the process.
Signal ==
    /\ unregistered = <<>> /\ ~exited
    /\ \E s \in signals : signals' = signals \ {s}
    /\ started' = TRUE
    /\ exited' = started
    /\ UNCHANGED <<hooks, unregistered, position, running, ending>>

\* The next hook's handler is called.
RunHook ==
    /\ started /\ ~exited /\ running = NoHook /\ position < Len(hooks)
    /\ running' = hooks[position + 1]
    /\ UNCHANGED <<hooks, unregistered, position, ending, started, signals, exited>>

\* Without the catch a rejection ends the sequence and shutdown() rejects.
HookRejects ==
    /\ ~exited /\ running # NoHook /\ ending[running] = "waiting"
    /\ \E how \in {"completed", "failed", "timeout"} :
          /\ ending' = [ending EXCEPT ![running] = how]
          /\ IF how = "completed" THEN position' = position + 1 /\ running' = NoHook
                                  ELSE UNCHANGED <<position, running>>
    /\ UNCHANGED <<hooks, unregistered, started, signals, exited>>

\* The race is decided: the handler completes or rejects (a rejection is
\* logged), or the timer fires; the sequence goes on in each case.
HookSettles ==
    /\ ~exited /\ running # NoHook
    /\ \E how \in {"completed", "failed", "timeout"} :
          ending' = [ending EXCEPT ![running] = how]
    /\ position' = position + 1 /\ running' = NoHook
    /\ UNCHANGED <<hooks, unregistered, started, signals, exited>>

\* shutdown() returns and its continuation exits the process.
Exit ==
    /\ started /\ ~exited /\ running = NoHook /\ position = Len(hooks)
    /\ exited' = TRUE
    /\ UNCHANGED <<hooks, unregistered, position, running, ending, started, signals>>

ShutdownStep == Register \/ RunHook \/ HookSettles \/ Exit

ShutdownNext == Signal \/ ShutdownStep

\* Every hook races a timer, so it settles.
ShutdownFairness == WF_shutdownVars(ShutdownStep)

-----------------------------------------------------------------------------

\* No hook begins before every hook of a lower priority number has settled, in
\* whatever order they were registered ("stop accepting requests" before
\* "drain", before "close DB").
RunsInOrder ==
    \A g, h \in DOMAIN Priority :
        Priority[g] < Priority[h] /\ (running = h \/ ending[h] # "waiting")
            => ending[g] # "waiting"

\* The process exits before its hooks have settled only if both signals came.
EarlyExitNeedsTwoSignals ==
    exited /\ (\E h \in DOMAIN Priority : ending[h] = "waiting") => signals = {}

\* A signalled process exits, even if handlers fail or hang.
SignalledExits == started ~> exited
=============================================================================
