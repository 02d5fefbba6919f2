------------------------------ MODULE AgentTurn ------------------------------
(***************************************************************************)
(* One run of the agent.  ReActLoop.runLoop asks the LLM gateway for the   *)
(* next tool calls, executes them one after the other through the          *)
(* permission gate, and asks again, until there is something to say.       *)
(* LLMGateway.complete retries each provider and falls back to a second    *)
(* one (which the production factory does not configure).  The client may  *)
(* go away at any moment; the AbortSignal is then set.                     *)
(***************************************************************************)
EXTENDS Naturals, Sequences

CONSTANTS
    MaxIterations,   \* MAX_ITERATIONS of the loop
    MaxRetries,      \* maxRetries of the gateway
    MaxBatch         \* bound: tool calls in one response

ASSUME TurnAssumption == MaxIterations \in Nat /\ MaxRetries \in Nat \ {0} /\ MaxBatch \in Nat

VARIABLES
    stage,       \* where the run stands
    iter,        \* completed iterations of the loop
    hasFallback, \* a fallback provider is configured
    provider,    \* the provider being asked
    attempt,     \* callWithRetry's attempt
    queue,       \* tool calls of the current batch still to execute
    asked,       \* tool calls the model has requested
    observed,    \* observations recorded for them
    ran,         \* outcomes of the batch's calls: the gate's and the handlers'
    aborted,     \* the AbortSignal
    late,        \* the stages that began a provider request after the abort
    calls,       \* complete() calls made
    audits,      \* audit rows recorded
    result       \* how the run ended

turnVars == <<stage, iter, hasFallback, provider, attempt, queue, asked, observed, ran,
              aborted, late, calls, audits, result>>
gatewayVars == <<provider, attempt, late, calls, audits>>
batchVars == <<queue, asked, observed, ran>>

\* The tool calls the loop tells apart: ask_user ends the run, tool_search is
\* answered by the loop itself, a mutation may need approval.
Tools == {"ask_user", "tool_search", "read", "mutation"}

\* What OrchestratorActionRunner.execute makes of one call.
Verdicts == {"denied", "proposed", "incomplete", "executed"}

\* Every variable has its type.
TurnTypeOK ==
    /\ stage \in {"top", "call", "wait", "sleep", "tools", "compose", "end"}
    /\ iter \in 0..MaxIterations
    /\ hasFallback \in BOOLEAN
    /\ provider \in {"primary", "fallback"}
    /\ attempt \in 0..MaxRetries - 1
    /\ queue \in Seq(Tools) /\ Len(queue) <= MaxBatch
    /\ asked \in Nat /\ observed \in 0..asked
    /\ ran \subseteq (Tools \X Verdicts)
    /\ aborted \in BOOLEAN
    /\ late \subseteq {"call", "compose"}
    /\ calls \in Nat /\ audits \in 0..calls
    /\ result \in {"none", "text", "question", "error", "aborted", "threw"}

TurnInit ==
    /\ stage = "top" /\ iter = 0
    /\ hasFallback \in BOOLEAN /\ provider = "primary" /\ attempt = 0
    /\ queue = <<>> /\ asked = 0 /\ observed = 0 /\ ran = {}
    /\ aborted = FALSE /\ late = {}
    /\ calls = 0 /\ audits = 0
    /\ result = "none"

Finish(how) == stage' = "end" /\ result' = how

GoTo(s) == stage' = s /\ UNCHANGED result

\* The chat route aborts the signal when the response stream closes.
Disconnect ==
    /\ stage # "end" /\ ~aborted
    /\ aborted' = TRUE
    /\ UNCHANGED <<stage, iter, hasFallback, gatewayVars, batchVars, result>>

\* The top of the loop: the abort check, the token budget (which ends the run
\* with a reply), the next gateway call; past the iteration ceiling one more
\* call words the reply, unless the last observation is empty.
LoopTop ==
    /\ stage = "top"
    /\ \/ iter < MaxIterations /\ aborted /\ Finish("aborted") /\ UNCHANGED calls
       \/ iter < MaxIterations /\ ~aborted /\ Finish("text") /\ UNCHANGED calls
       \/ iter < MaxIterations /\ ~aborted /\ GoTo("call") /\ calls' = calls + 1
       \/ iter = MaxIterations /\ observed > 0 /\ GoTo("compose") /\ calls' = calls + 1
       \/ iter = MaxIterations /\ Finish("text") /\ UNCHANGED calls
    /\ provider' = "primary" /\ attempt' = 0
    /\ UNCHANGED <<iter, hasFallback, batchVars, aborted, late, audits>>

\* complete()'s catch: the fallback, if there is one and it was not the one
\* that failed; else one failure row, and the error reaches the loop, which
\* rethrows an AbortError and turns any other into an answer for the user.
GiveUp(error) ==
    /\ UNCHANGED late
    /\ IF provider = "primary" /\ hasFallback
       THEN /\ provider' = "fallback" /\ attempt' = 0
            /\ GoTo("call")
            /\ UNCHANGED audits
       ELSE /\ audits' = audits + 1
            /\ Finish(IF error = "AbortError" THEN "aborted" ELSE "error")
            /\ UNCHANGED <<provider, attempt>>

\* callWithRetry without the check at the top of every iteration.
BeginUnchecked ==
    /\ stage = "call"
    /\ GoTo("wait")
    /\ late' = late \cup (IF aborted THEN {"call"} ELSE {})
    /\ UNCHANGED <<provider, attempt, audits>>
    /\ UNCHANGED <<iter, hasFallback, batchVars, aborted, calls>>

\* The top of callWithRetry's loop: no attempt begins once the signal is set.
Begin ==
    /\ stage = "call"
    /\ \/ /\ aborted
          /\ GiveUp("AbortError")
       \/ /\ ~aborted
          /\ GoTo("wait")
          /\ UNCHANGED <<provider, attempt, late, audits>>
    /\ UNCHANGED <<iter, hasFallback, batchVars, aborted, calls>>

\* The provider answers: one success row, then tool calls or the final text.
Answered ==
    /\ stage = "wait"
    /\ audits' = audits + 1
    /\ \/ \E n \in 1..MaxBatch : \E batch \in [1..n -> Tools] :
             /\ queue' = batch
             /\ asked' = asked + n
             /\ ran' = {}
             /\ GoTo("tools")
       \/ Finish("text") /\ UNCHANGED <<queue, asked, ran>>
    /\ UNCHANGED <<iter, hasFallback, provider, attempt, observed, aborted, late, calls>>

\* callWithRetry's retry of an error that looks transient.
RetryOrGiveUp ==
    IF attempt + 1 < MaxRetries
    THEN /\ attempt' = attempt + 1
         /\ GoTo("sleep")
         /\ UNCHANGED <<provider, late, audits>>
    ELSE GiveUp("ProviderError")

\* The request fails.  A definitive error is not retried.  A transient one is,
\* and so is the rejection of an aborted fetch: the providers wrap it in a
\* ProviderError of kind `timeout`.  Only an abort while the body is being
\* read surfaces as an AbortError.
RequestFails ==
    /\ stage = "wait"
    /\ \/ ~aborted /\ GiveUp("ProviderError")
       \/ RetryOrGiveUp
       \/ aborted /\ GiveUp("AbortError")
    /\ UNCHANGED <<iter, hasFallback, batchVars, aborted, calls>>

\* The backoff between two attempts; it does not watch the signal.
Backoff ==
    /\ stage = "sleep"
    /\ GoTo("call")
    /\ UNCHANGED <<iter, hasFallback, gatewayVars, batchVars, aborted>>

\* Execute when a denied call leaves no observation behind.
ExecuteForgetsDenied(tool) ==
    \E verdict \in Verdicts :
        /\ verdict = "proposed" => tool = "mutation"
        /\ ran' = ran \cup {<<tool, verdict>>}
        /\ observed' = IF verdict = "denied" THEN observed ELSE observed + 1

\* execute(): the gate denies the call or lets it through; a mutation of an
\* agent in approval_required mode becomes a proposal; a call that lacks a
\* required argument is not dispatched; a handler's error is an observation.
Execute(tool) ==
    /\ \E verdict \in Verdicts :
          /\ verdict = "proposed" => tool = "mutation"
          /\ ran' = ran \cup {<<tool, verdict>>}
    /\ observed' = observed + 1

\* One tool call of the batch.  ask_user ends the run and drops the rest of
\* the batch; an access-control lookup that throws ends it too (execute guards
\* only the handlers); after the last call the loop starts over.
ToolCall ==
    /\ stage = "tools"
    /\ \/ /\ Head(queue) = "ask_user"
          /\ Finish("question")
          /\ UNCHANGED <<iter, batchVars>>
       \/ /\ Head(queue) \in {"read", "mutation"}
          /\ Finish("threw")
          /\ UNCHANGED <<iter, batchVars>>
       \/ /\ Head(queue) # "ask_user"
          /\ IF Head(queue) = "tool_search"
             THEN observed' = observed + 1 /\ UNCHANGED ran
             ELSE Execute(Head(queue))
          /\ queue' = Tail(queue)
          /\ UNCHANGED asked
          /\ IF Len(queue) = 1
             THEN GoTo("top") /\ iter' = iter + 1
             ELSE UNCHANGED <<stage, result, iter>>
    /\ UNCHANGED <<hasFallback, gatewayVars, aborted>>

\* composePostActionReply: a gateway call that is given no signal; when it
\* fails a canned sentence is the reply.
Compose ==
    /\ stage = "compose"
    /\ late' = late \cup (IF aborted THEN {"compose"} ELSE {})
    /\ audits' = audits + 1
    /\ Finish("text")
    /\ UNCHANGED <<iter, hasFallback, provider, attempt, batchVars, aborted, calls>>

TurnStep == LoopTop \/ Begin \/ Answered \/ RequestFails \/ Backoff \/ ToolCall \/ Compose

TurnNext == Disconnect \/ TurnStep

TurnSpec == TurnInit /\ [][TurnNext]_turnVars

\* Providers answer or fail, timers fire and tool handlers return.
TurnFairness == WF_turnVars(TurnStep)

-----------------------------------------------------------------------------

\* Once the client has left, no attempt, no fallback and no iteration begins
\* another provider request; only the wording of the last reply, which is
\* given no signal, does (callWithRetry: "so disconnects don't waste another
\* attempt").
NoRequestAfterAbort == late \subseteq {"compose"}

\* When the model is asked again, every tool call it has requested so far has
\* its observation, whether it was denied, proposed, incomplete, failed or
\* executed: the replayed tool_use blocks are all paired with a tool_result.
RequestsArePaired == stage \in {"call", "wait", "sleep"} => observed = asked /\ queue = <<>>

\* A complete() call leaves exactly one audit row, however many attempts and
\* providers it took, and leaves it before the loop goes on.
AuditedOnce == audits = IF stage \in {"call", "wait", "sleep", "compose"} THEN calls - 1 ELSE calls

\* A run that has begun ends, whatever the model, the providers and the client do.
TurnEnds == stage # "top" ~> stage = "end"

\* A run whose client left while a request was pending unwinds with an
\* AbortError instead of answering the user (the comments on LLMOptions.signal
\* and in runLoop's catch).
UnwindsOnAbort == aborted => result # "error"
=============================================================================
