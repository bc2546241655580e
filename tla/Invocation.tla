---------------------------- MODULE Invocation ----------------------------
(***************************************************************************)
(* One provider invocation and its nested retries: those of the caller, a  *)
(* phase handler (BaseHandler.invoke_provider, core/loop/handlers/base.py) *)
(* or a reviewer task (_invoke_reviewer, code_review/orchestrator.py),     *)
(* around invoke_with_timeout_retry with its secondary provider            *)
(* (core/retry.py), around the attempts of a command-line provider         *)
(* (providers/gemini.py, claude.py, codex.py), around one child process    *)
(* whose tool calls a reader thread shows to the one guard they all share. *)
(* "claude" is ClaudeSDKProvider where it runs the command line itself: in *)
(* a nested session, and after a failed initialization (claude_sdk.py).    *)
(***************************************************************************)
EXTENDS ToolCallGuard

CONSTANTS
    MaxRetries,      \* processes that Gemini may start for one call
    RetryTimeouts,   \* whether the phase configures timeout retries
    TimeoutRetries,  \* their number; 0 means without limit
    Restricts,       \* whether the call restricts the tools
    MaxRounds,       \* bound: attempts that fit in the 30 minutes of retries
    MaxPending       \* bound: tool calls written and not yet read

ASSUME InvocationAssumption ==
    /\ MaxRetries \in Nat \ {0}
    /\ TimeoutRetries \in Nat
    /\ MaxRounds \in Nat \ {0} /\ MaxPending \in Nat \ {0}
    /\ RetryTimeouts \in BOOLEAN /\ Restricts \in BOOLEAN

VARIABLES
    caller,    \* who invokes: "handler" or "reviewer"
    provider,  \* the configured provider
    pc,        \* what the invoking thread is about to do
    round,     \* the attempt of the handler
    rerun,     \* whether the caller ran it again after the guard tripped
    chain,     \* the primary provider, or the secondary one
    timeouts,  \* the attempt of the timeout retry
    try,       \* the attempt of the provider
    running,   \* how many child processes are alive
    exit,      \* how the last one ended
    pending,   \* its tool calls that the reader has not seen
    reader,    \* "reading" until the stream ends or is closed
    event,     \* guard_kill_event: a reader wants the process stopped
    violation, \* restricted_tool_violation: for a forbidden tool
    late,      \* tool calls left to the reader of an earlier process
    lateHere,  \* whether that process was of the present provider call
    guard,
    outcome,   \* what the last provider call returned or raised
    answer,    \* what the caller made of it
    allowed,   \* history: the calls that were allowed
    starts,    \* history: the number of processes started
    finished   \* history: a process completed under an untripped guard

config == <<caller, provider>>
nest == <<round, rerun, chain, timeouts, try>>
cells == <<event, violation>>
process == <<running, exit, pending, reader, cells>>
behind == <<late, lateHere>>
vars == <<config, pc, nest, process, behind, guard, outcome, answer, allowed,
          starts, finished>>

\* An exit with empty stderr; with a known transient message; any other.
Failure == {"quiet", "busy", "broken"}
Raised == Failure \cup {"timeout", "missing", "refused"}
GuardReason == Trip \ {"none"}
Result(reason) == [kind |-> "result", reason |-> reason]
Error(kind) == [kind |-> kind, reason |-> "none"]

\* Only Gemini starts more than one process for one call.
Attempts == IF provider = "gemini" THEN MaxRetries ELSE 1
\* Codex is given the guard and shows it nothing.
Guarded == provider # "codex"
HasSecondary == RetryTimeouts /\ provider = "claude"
\* A handler passes sandbox_mode, which no other invoke has as a parameter.
Accepted == caller = "reviewer" \/ provider = "codex"

TypeOK ==
    /\ caller \in {"handler", "reviewer"}
    /\ provider \in {"gemini", "claude", "codex"}
    /\ pc \in {"attempt", "start", "wait", "drain", "provider", "retry",
               "caller", "returned"}
    /\ round \in 1..MaxRounds /\ rerun \in BOOLEAN
    /\ chain \in {"primary", "secondary"}
    /\ timeouts \in Nat \ {0} /\ try \in 1..MaxRetries
    /\ running \in Nat
    /\ exit \in {"none", "done", "stopped", "timeout", "missing"} \cup Failure
    /\ pending \in 0..MaxPending /\ reader \in {"reading", "closed"}
    /\ event \in BOOLEAN /\ violation \in BOOLEAN
    /\ late \in 0..MaxPending /\ lateHere \in BOOLEAN
    /\ guard \in Guard
    /\ outcome \in [kind : {"none", "result"} \cup Raised,
                    reason : Trip \cup {"restricted"}]
    /\ answer \in {"none", "ok", "failed"}
    /\ allowed \in Nat /\ starts \in Nat /\ finished \in BOOLEAN

Init ==
    /\ caller \in {"handler", "reviewer"}
    /\ provider \in {"gemini", "claude", "codex"}
    /\ pc = "attempt"
    /\ round = 1 /\ rerun = FALSE /\ chain = "primary" /\ timeouts = 1 /\ try = 1
    /\ running = 0 /\ exit = "none" /\ pending = 0 /\ reader = "closed"
    /\ event = FALSE /\ violation = FALSE /\ late = 0 /\ lateHere = FALSE
    /\ guard = NewGuard
    /\ outcome = Error("none") /\ answer = "none"
    /\ allowed = 0 /\ starts = 0 /\ finished = FALSE

---------------------------------------------------------------------------
(* The child process, its reader thread and the guard monitor.             *)

\* The attempt begins, after the backoff of a retry.
Attempt ==
    /\ pc = "attempt" /\ Accepted
    /\ pc' = "start"
    /\ violation' = FALSE
    /\ UNCHANGED <<config, nest, running, exit, pending, reader, event, behind,
                   guard, outcome, answer, allowed, starts, finished>>

\* TypeError: an unexpected keyword argument.
Refused ==
    /\ pc = "attempt" /\ ~Accepted
    /\ pc' = "retry"
    /\ outcome' = Error("refused")
    /\ UNCHANGED <<config, nest, process, behind, guard, answer, allowed, starts,
                   finished>>

\* A late reader may have marked a violation before this, which stays; what
\* it set was the event of an earlier attempt.
Spawn ==
    /\ pc = "start"
    /\ pc' = "wait"
    /\ running' = running + 1 /\ starts' = starts + 1
    /\ exit' = "none" /\ pending' = 0 /\ reader' = "reading" /\ event' = FALSE
    /\ outcome' = Error("none")
    /\ UNCHANGED <<config, nest, violation, behind, guard, answer, allowed,
                   finished>>

\* The command is not installed.
SpawnFails ==
    /\ pc = "start"
    /\ pc' = "provider"
    /\ exit' = "missing" /\ pending' = 0 /\ reader' = "closed"
    /\ UNCHANGED <<config, nest, running, cells, behind, guard, outcome, answer,
                   allowed, starts, finished>>

ProcessCalls ==
    /\ Guarded /\ running > 0 /\ exit = "none" /\ reader = "reading"
    /\ pending < MaxPending
    /\ pending' = pending + 1
    /\ UNCHANGED <<config, pc, nest, running, exit, reader, cells, behind, guard,
                   outcome, answer, allowed, starts, finished>>

ProcessExits(how) ==
    /\ running > 0 /\ exit = "none"
    /\ running' = running - 1
    /\ exit' = how
    /\ UNCHANGED <<config, pc, nest, pending, reader, cells, behind, guard,
                   outcome, answer, allowed, starts, finished>>

\* A reader shows a call to the guard, then compares it with the restrictions.
\* It goes on reading if both let it pass.
Shows(file, kept) ==
    /\ guard' = Check(guard, file, kept)
    /\ allowed' = IF Verdict(guard, file, kept) = "none" THEN allowed + 1
                  ELSE allowed

Passes(file, kept, forbidden) ==
    Verdict(guard, file, kept) = "none" /\ ~forbidden

\* The cells after the call, for the readers of one provider call.
Marks(file, kept, forbidden) ==
    /\ event' = (event \/ ~Passes(file, kept, forbidden))
    /\ violation' = (violation
                        \/ (forbidden /\ Verdict(guard, file, kept) = "none"))

ReadsCall(file, kept, forbidden) ==
    /\ reader = "reading" /\ pending > 0
    /\ Shows(file, kept) /\ Marks(file, kept, forbidden)
    /\ IF Passes(file, kept, forbidden)
       THEN reader' = reader /\ pending' = pending - 1
       ELSE reader' = "closed" /\ pending' = 0
    /\ UNCHANGED <<config, pc, nest, running, exit, behind, outcome, answer,
                   starts, finished>>

\* The reader that outlived its process shares the guard with the next one,
\* and within one call of Gemini also the cells, which are locals of invoke.
LateReads(file, kept, forbidden) ==
    /\ late > 0
    /\ Shows(file, kept)
    /\ IF lateHere THEN Marks(file, kept, forbidden) ELSE UNCHANGED cells
    /\ late' = IF Passes(file, kept, forbidden) THEN late - 1 ELSE 0
    /\ lateHere' = (lateHere /\ late' > 0)
    /\ UNCHANGED <<config, pc, nest, running, exit, pending, reader, outcome,
                   answer, starts, finished>>

\* Gemini's monitor thread, or the wait loop of Claude.
MonitorKills ==
    /\ event /\ running > 0 /\ exit = "none"
    /\ running' = running - 1
    /\ exit' = "stopped"
    /\ UNCHANGED <<config, pc, nest, pending, reader, cells, behind, guard,
                   outcome, answer, allowed, starts, finished>>

---------------------------------------------------------------------------
(* The invoke of the provider                                              *)

WaitReturns ==
    /\ pc = "wait" /\ exit # "none"
    /\ pc' = "drain"
    /\ UNCHANGED <<config, nest, process, behind, guard, outcome, answer, allowed,
                   starts, finished>>

\* Mutant: the timeout is raised with the process alive.
WaitTimesOut_NotKilled ==
    /\ pc = "wait" /\ exit = "none"
    /\ pc' = "drain"
    /\ exit' = "timeout"
    /\ UNCHANGED <<config, nest, running, pending, reader, cells, behind, guard,
                   outcome, answer, allowed, starts, finished>>

\* The timeout kills the process, whether or not the guard just tripped.
WaitTimesOut ==
    /\ pc = "wait" /\ exit = "none"
    /\ pc' = "drain"
    /\ running' = running - 1
    /\ exit' = "timeout"
    /\ UNCHANGED <<config, nest, pending, reader, cells, behind, guard, outcome,
                   answer, allowed, starts, finished>>

ReaderJoined ==
    /\ pc = "drain" /\ (reader = "closed" \/ pending = 0)
    /\ pc' = "provider"
    /\ reader' = "closed"
    /\ UNCHANGED <<config, nest, running, exit, pending, cells, behind, guard,
                   outcome, answer, allowed, starts, finished>>

\* The reader is still busy when the join gives up.  Bound: one late reader.
JoinTimesOut ==
    /\ pc = "drain" /\ reader = "reading" /\ pending > 0 /\ late = 0
    /\ pc' = "provider"
    /\ reader' = "closed" /\ pending' = 0
    /\ late' = pending /\ lateHere' = (provider = "gemini")
    /\ UNCHANGED <<config, nest, running, exit, cells, guard, outcome, answer,
                   allowed, starts, finished>>

\* The process completed, and nothing a reader or the guard did tells
\* otherwise.
CompletedClean ==
    exit = "done" /\ ~event /\ ~violation /\ guard.trip = "none"

\* Gemini retries an exit with empty stderr that no reader caused.
Quiet == exit = "quiet" /\ ~event /\ ~violation /\ try < Attempts

ProviderRetries ==
    /\ pc = "provider" /\ Quiet
    /\ try' = try + 1
    /\ pc' = "attempt"
    /\ UNCHANGED <<config, round, rerun, chain, timeouts, process, behind, guard,
                   outcome, answer, allowed, starts, finished>>

\* A timeout is raised before the guard is looked at; a forbidden tool is an
\* error result; a process that Gemini stopped for the guard has exit code 0
\* even if it failed before it was stopped.
ProviderOutcome ==
    CASE exit \in {"timeout", "missing"} -> Error(exit)
      [] exit \notin {"timeout", "missing"} /\ violation -> Result("restricted")
      [] exit \in Failure /\ ~violation /\ ~(provider = "gemini" /\ event) ->
            Error(exit)
      [] OTHER -> Result(guard.trip)

ProviderReturns ==
    /\ pc = "provider" /\ ~Quiet
    /\ outcome' = ProviderOutcome
    /\ finished' = (finished \/ CompletedClean)
    /\ pc' = "retry"
    /\ exit' = "none" /\ event' = FALSE /\ violation' = FALSE /\ lateHere' = FALSE
    /\ UNCHANGED <<config, nest, running, pending, reader, late, guard, answer,
                   allowed, starts>>

---------------------------------------------------------------------------
(* invoke_with_timeout_retry                                               *)

\* Mutant: one retry too many.
RetriesTimeout_OffByOne ==
    /\ outcome.kind = "timeout"
    /\ RetryTimeouts
    /\ TimeoutRetries = 0 \/ timeouts <= TimeoutRetries + 1

RetriesTimeout ==
    /\ outcome.kind = "timeout"
    /\ RetryTimeouts
    /\ TimeoutRetries = 0 \/ timeouts < TimeoutRetries + 1

\* When the retries are used up, the secondary provider has as many again,
\* and no other behind it.
GoesToSecondary ==
    /\ outcome.kind = "timeout" /\ ~RetriesTimeout
    /\ HasSecondary /\ chain = "primary"

\* The guard goes into the next attempt as the timed-out one left it.
TimeoutRetry ==
    /\ pc = "retry" /\ RetriesTimeout
    /\ timeouts' = timeouts + 1
    /\ try' = 1
    /\ pc' = "attempt"
    /\ UNCHANGED <<config, round, rerun, chain, process, behind, guard, outcome,
                   answer, allowed, starts, finished>>

StartSecondary ==
    /\ pc = "retry" /\ GoesToSecondary
    /\ chain' = "secondary" /\ timeouts' = 1 /\ try' = 1
    /\ pc' = "attempt"
    /\ UNCHANGED <<config, round, rerun, process, behind, guard, outcome, answer,
                   allowed, starts, finished>>

RetryReturns ==
    /\ pc = "retry" /\ ~RetriesTimeout /\ ~GoesToSecondary
    /\ pc' = "caller"
    /\ UNCHANGED <<config, nest, process, behind, guard, outcome, answer, allowed,
                   starts, finished>>

---------------------------------------------------------------------------
(* BaseHandler.invoke_provider with execute, and _invoke_reviewer          *)

StartAgain ==
    /\ chain' = "primary" /\ timeouts' = 1 /\ try' = 1
    /\ guard' = ResetForRetry(guard)
    /\ pc' = "attempt"

\* Mutant: any result is run again, not only one the guard cut short.
RerunWanted_AnyResult ==
    outcome.kind = "result" /\ ~rerun

\* A result that the guard cut short is run once more; by a handler only for
\* the rate, and what counts there is the guard's present reason.
RerunWanted ==
    /\ outcome.kind = "result" /\ outcome.reason \in GuardReason
    /\ ~rerun
    /\ caller = "handler" => guard.trip = "rate"

GuardRerun ==
    /\ pc = "caller" /\ RerunWanted
    /\ rerun' = TRUE
    /\ StartAgain
    /\ UNCHANGED <<config, round, process, behind, outcome, answer, allowed,
                   starts, finished>>

\* A handler retries a transient failure while the time allows.
NextRound ==
    /\ pc = "caller" /\ caller = "handler"
    /\ outcome.kind \in {"quiet", "busy"}
    /\ round < MaxRounds
    /\ round' = round + 1
    /\ rerun' = FALSE
    /\ StartAgain
    /\ UNCHANGED <<config, process, behind, outcome, answer, allowed, starts,
                   finished>>

\* The result or the exception becomes the result of the phase, or the review.
AnswerOf(o) ==
    IF o.kind = "result" /\ o.reason # "restricted" THEN "ok" ELSE "failed"

CallerReturns ==
    /\ pc = "caller" /\ ~RerunWanted
    /\ answer' = AnswerOf(outcome)
    /\ pc' = "returned"
    /\ UNCHANGED <<config, nest, process, behind, guard, outcome, allowed, starts,
                   finished>>

---------------------------------------------------------------------------
AnyFile == File \cup {NoFile}
Forbidden == IF Restricts /\ provider = "gemini" THEN BOOLEAN ELSE {FALSE}

Child ==
    \/ ProcessCalls
    \/ \E how \in {"done"} \cup Failure : ProcessExits(how)

Readers ==
    \E file \in AnyFile, kept \in 0..guard.recent, forbidden \in Forbidden :
        ReadsCall(file, kept, forbidden) \/ LateReads(file, kept, forbidden)

Provider ==
    \/ Attempt \/ Refused \/ Spawn \/ SpawnFails
    \/ WaitReturns \/ WaitTimesOut \/ ReaderJoined \/ JoinTimesOut
    \/ ProviderRetries \/ ProviderReturns

Wrappers ==
    \/ TimeoutRetry \/ StartSecondary \/ RetryReturns
    \/ GuardRerun \/ NextRound \/ CallerReturns

Next == Child \/ Readers \/ MonitorKills \/ Provider \/ Wrappers

Spec == Init /\ [][Next]_vars

---------------------------------------------------------------------------
(* What an invocation promises.                                            *)

\* Whatever was retried, there is at most one child process, and none once
\* its provider's thread stopped waiting for it: invoke leaves no process to
\* work beside the next attempt or after the phase.
OneProcess == running <= 1 /\ (running = 1 => pc = "wait")

\* The budget holds for the whole invocation: no retry, rerun, secondary
\* provider or late reader lets more calls through than max_total_calls.
WithinBudget == allowed <= Budget

\* The nested retries multiply, and no further: rounds of a handler, or the
\* two runs of a reviewer, times the primary and the secondary chain, times
\* timeout attempts, times processes per call.
Runs == IF caller = "reviewer" THEN 2 ELSE MaxRounds
Chains == IF HasSecondary THEN 2 ELSE 1
PerChain == IF RetryTimeouts THEN TimeoutRetries + 1 ELSE 1

StartsBounded ==
    (RetryTimeouts => TimeoutRetries > 0) =>
        starts <= Runs * Chains * PerChain * Attempts

\* Work that completed is not done again: after a process completed under an
\* untripped guard no retry of any layer starts another one.
FinishedIsFinal == [][finished => starts' = starts]_vars

=============================================================================
