------------------------------ MODULE Provider ------------------------------
(***************************************************************************)
(* One phase of a job, from the request for an answer to the phase's end:  *)
(* three retry loops around one another, and the context that a shutdown   *)
(* or an operator's disconnect cancels underneath them.                    *)
(*                                                                         *)
(*   schema retries   service.go, evaluator.go: an answer that does not    *)
(*                    validate is asked for again, with a hint             *)
(*   provider retries executeProviderPhase: a rate limit or a network      *)
(*                    error waits and tries again                          *)
(*   fallback model   SessionManager.runWithResolvedProfile: one more try  *)
(*                    on the same adapter with the profile's other model   *)
(*   one invocation   claude.go, codex.go: probe the CLI, run it with the  *)
(*                    prompt, classify what went wrong                     *)
(*                                                                         *)
(* Abstractions.  An answer is valid or not.  A command that fails is of   *)
(* any kind its output can be classified as.  Both registered adapters     *)
(* run every phase, so no phase is unsupported.  Codex's second run with   *)
(* --fresh is left out: it looks for the CLI's complaint in the error of   *)
(* the process, which is an exit status.                                   *)
(***************************************************************************)
EXTENDS Integers

CONSTANTS
  RetryLimit,      \* providerRetryLimit
  SchemaRetryMax   \* schemaRetryMax

ASSUME ProviderAssumption == RetryLimit \in Nat /\ SchemaRetryMax \in Nat

VARIABLES
  role,          \* whose phase it is
  route,         \* the provider the profile resolves to: its own, its fallback, none
  second,        \* a fallback model is configured, and differs from the model
  ctx,           \* the run's context
  at,            \* where the phase is
  model,         \* of the invocation under way
  attempt,       \* of executeProviderPhase
  schemaAttempt, \* of the schema loop
  hint,          \* job.SchemaRetryHint is set
  err,           \* the last error, NoErr once an answer came
  outcome,       \* what the phase made of the job
  calls,         \* history: provider commands started
  killed         \* history: the context's end killed a provider command

request == <<role, route, second>>
loops == <<attempt, schemaAttempt, hint>>
vars == <<request, ctx, at, model, loops, err, outcome, calls, killed>>

\* "parallel" is a worker of a fan-out, which nothing retries.
Roles == {"planner", "leader", "worker", "parallel", "evaluator"}
Retried   == {"leader", "worker"}
Corrected == {"leader", "worker", "evaluator"}

Places == {"resolve", "probe", "probing", "start", "running", "invoked",
           "returned", "backoff", "given_up", "answered", "end"}

\* What classifyCommandError makes of a failed command.
CommandKinds == {"rate_limited", "auth_failure", "billing_required", "quota_exceeded",
                 "session_expired", "network_error", "transport_error", "command_failed"}

Kinds == CommandKinds \cup {"none", "unregistered", "missing_executable", "probe_failed",
                            "invalid_response", "wait_interrupted"}

\* canceled: errors.Is(err, context.Canceled)
Errors == [kind : Kinds, canceled : BOOLEAN]
NoErr == [kind |-> "none", canceled |-> FALSE]

TypeOK ==
  /\ role \in Roles /\ route \in {"own", "fallback", "none"} /\ second \in BOOLEAN
  /\ ctx \in {"live", "cancelled"}
  /\ at \in Places
  /\ model \in {"primary", "fallback"}
  /\ attempt \in 0 .. RetryLimit /\ schemaAttempt \in 0 .. SchemaRetryMax
  /\ hint \in BOOLEAN
  /\ err \in Errors
  /\ outcome \in {"none", "answer", "blocked", "failed", "interrupted"}
  /\ calls \in Nat /\ killed \in BOOLEAN

Init ==
  /\ role \in Roles /\ route \in {"own", "fallback", "none"} /\ second \in BOOLEAN
  /\ ctx = "live" /\ at = "resolve" /\ model = "primary"
  /\ attempt = 0 /\ schemaAttempt = 0 /\ hint = FALSE
  /\ err = NoErr /\ outcome = "none"
  /\ calls = 0 /\ killed = FALSE

----------------------------------------------------------------------------
(* One invocation of an adapter. *)

Fails(kind, canceled) ==
  /\ err' = [kind |-> kind, canceled |-> canceled]
  /\ at' = "invoked"

\* A process is not started under a cancelled context; one that runs is
\* killed, which shows in its exit status only.
Cancel ==
  /\ ctx = "live" /\ at # "end"
  /\ ctx' = "cancelled"
  /\ UNCHANGED <<request, at, model, loops, err, outcome, calls, killed>>

Resolve ==
  /\ at = "resolve"
  /\ model' = "primary"
  /\ IF route = "none"
     THEN Fails("unregistered", FALSE)
     ELSE at' = "probe" /\ UNCHANGED err
  /\ UNCHANGED <<request, ctx, loops, outcome, calls, killed>>

ProbeStarts ==
  /\ at = "probe"
  /\ \/ ctx = "live" /\ at' = "probing" /\ UNCHANGED err
     \/ ctx = "cancelled" /\ Fails("probe_failed", TRUE)
     \/ Fails("missing_executable", FALSE)
  /\ UNCHANGED <<request, ctx, model, loops, outcome, calls, killed>>

ProbeEnds ==
  /\ at = "probing"
  /\ \/ at' = "start" /\ UNCHANGED err
     \/ Fails("probe_failed", FALSE)
  /\ UNCHANGED <<request, ctx, model, loops, outcome, calls, killed>>

\* runStructured: codex first writes the files it hands over.
CommandStarts ==
  /\ at = "start"
  /\ \/ /\ ctx = "live"
        /\ at' = "running"
        /\ calls' = calls + 1
        /\ UNCHANGED err
     \/ /\ \/ ctx = "cancelled" /\ Fails("command_failed", TRUE)
           \/ Fails("command_failed", FALSE)
           \/ Fails("invalid_response", FALSE)
        /\ UNCHANGED calls
  /\ UNCHANGED <<request, ctx, model, loops, outcome, killed>>

\* The timeout of a command reads "timed out", hence network_error, unless
\* its output matches an earlier pattern.
CommandEnds ==
  /\ at = "running"
  /\ \/ /\ at' = "answered"
        /\ err' = NoErr
        /\ UNCHANGED killed
     \/ Fails("invalid_response", FALSE) /\ UNCHANGED killed
     \/ /\ \E kind \in CommandKinds : Fails(kind, FALSE)
        /\ killed' = (killed \/ ctx = "cancelled")
  /\ UNCHANGED <<request, ctx, model, loops, outcome, calls>>

----------------------------------------------------------------------------
(* The session manager: the fallback model. *)

\* isPreStructuredProviderFailure
PreStructured(kind) == kind \in CommandKinds

\* Slip of Invoked: a fallback model is tried whenever one is configured.
InvokedSlip ==
  /\ at = "invoked"
  /\ IF second /\ route = "own" /\ PreStructured(err.kind)
     THEN model' = "fallback" /\ at' = "probe"
     ELSE at' = "returned" /\ UNCHANGED model
  /\ UNCHANGED <<request, ctx, loops, err, outcome, calls, killed>>

Invoked ==
  /\ at = "invoked"
  /\ IF second /\ route = "own" /\ model = "primary" /\ PreStructured(err.kind)
     THEN model' = "fallback" /\ at' = "probe"
     ELSE at' = "returned" /\ UNCHANGED model
  /\ UNCHANGED <<request, ctx, loops, err, outcome, calls, killed>>

----------------------------------------------------------------------------
(* executeProviderPhase: provider retries, for the leader and the worker. *)

\* Slip of RecommendedAction: an expired session is tried again.
RecommendedActionSlip(kind) ==
  CASE kind \in {"rate_limited", "network_error", "session_expired"} -> "retry"
    [] kind \in {"auth_failure", "billing_required"}                 -> "block"
    [] OTHER                                                         -> "fail"

RecommendedAction(kind) ==
  CASE kind \in {"rate_limited", "network_error"}                       -> "retry"
    [] kind \in {"auth_failure", "billing_required", "session_expired"} -> "block"
    [] OTHER                                                            -> "fail"

\* Slip of MayRetry: the first attempt counts as a retry.
MayRetrySlip ==
  role \in Retried /\ RecommendedAction(err.kind) = "retry" /\ attempt + 1 < RetryLimit

MayRetry == role \in Retried /\ RecommendedAction(err.kind) = "retry" /\ attempt < RetryLimit

Returned ==
  /\ at = "returned"
  /\ at' = IF MayRetry THEN "backoff" ELSE "given_up"
  /\ UNCHANGED <<request, ctx, model, loops, err, outcome, calls, killed>>

\* Slip of WaitForProviderRetry: nobody arms the timer.
WaitForProviderRetrySlip ==
  /\ at = "backoff" /\ ctx = "cancelled"
  /\ err' = [kind |-> "wait_interrupted", canceled |-> TRUE]
  /\ at' = "given_up"
  /\ UNCHANGED <<request, ctx, model, loops, outcome, calls, killed>>

\* The wait ends with the timer or with the context.
WaitForProviderRetry ==
  /\ at = "backoff"
  /\ \/ /\ attempt' = attempt + 1
        /\ at' = "resolve"
        /\ UNCHANGED err
     \/ /\ ctx = "cancelled"
        /\ err' = [kind |-> "wait_interrupted", canceled |-> TRUE]
        /\ at' = "given_up"
        /\ UNCHANGED attempt
  /\ UNCHANGED <<request, ctx, model, schemaAttempt, hint, outcome, calls, killed>>

----------------------------------------------------------------------------
(* The phase: what an error, or an answer, makes of it. *)

IsShutdownInterruption == ctx = "cancelled" /\ err.canceled

\* A leader or a worker asked again fails whatever the error; the workers of a
\* fan-out always do.  What is left of "retry" here is "fail".
EndOn ==
  IF \/ role = "parallel"
     \/ role \in Retried /\ schemaAttempt > 0
  THEN "failed"
  ELSE IF IsShutdownInterruption
  THEN "interrupted"
  ELSE IF role \in Retried /\ RecommendedAction(err.kind) = "block"
  THEN "blocked"
  ELSE "failed"

GivenUp ==
  /\ at = "given_up"
  /\ at' = "end"
  /\ outcome' = EndOn
  /\ hint' = FALSE
  /\ UNCHANGED <<request, ctx, model, attempt, schemaAttempt, err, calls, killed>>

Accept ==
  /\ at = "answered"
  /\ at' = "end"
  /\ outcome' = "answer"
  /\ hint' = FALSE
  /\ UNCHANGED <<request, ctx, model, attempt, schemaAttempt, err, calls, killed>>

Correct ==
  /\ at = "answered"
  /\ role \in Corrected /\ schemaAttempt < SchemaRetryMax
  /\ schemaAttempt' = schemaAttempt + 1
  /\ attempt' = 0
  /\ hint' = TRUE
  /\ at' = "resolve"
  /\ UNCHANGED <<request, ctx, model, err, outcome, calls, killed>>

Refuse ==
  /\ at = "answered"
  /\ role \in Corrected => schemaAttempt = SchemaRetryMax
  /\ at' = "end"
  /\ outcome' = "failed"
  /\ hint' = FALSE
  /\ UNCHANGED <<request, ctx, model, attempt, schemaAttempt, err, calls, killed>>

Step ==
  \/ Resolve \/ ProbeStarts \/ ProbeEnds \/ CommandStarts \/ CommandEnds
  \/ Invoked \/ Returned \/ WaitForProviderRetry
  \/ GivenUp \/ Accept \/ Correct \/ Refuse

Next == Step \/ Cancel

Spec == Init /\ [][Next]_vars

----------------------------------------------------------------------------
(* Properties. *)

Tries(retried, n) == IF retried THEN n + 1 ELSE 1

\* The three loops multiply, and no more: a phase starts at most
\* (SchemaRetryMax + 1) * (RetryLimit + 1) * 2 commands, and fewer where a loop
\* is not around the role or no fallback model is configured.
CallsBounded ==
  calls <= Tries(role \in Corrected, SchemaRetryMax)
           * Tries(role \in Retried, RetryLimit)
           * (IF second /\ route = "own" THEN 2 ELSE 1)

\* A rate limit or a network error fails a leader or a worker only after all the
\* retries of its request, whichever model and whichever schema attempt met it.
TransientIsRetried ==
  at = "end" /\ role \in Retried /\ err.kind \in {"rate_limited", "network_error"}
    => outcome = "failed" /\ attempt = RetryLimit

\* After an error of the account (authentication, billing, session) no loop calls the
\* provider once more; the next command, if any, is that of the fallback model.
RefusalStopsCalls ==
  [][calls' # calls =>
       \/ err.kind \notin {"auth_failure", "billing_required", "session_expired"}
       \/ model = "fallback"]_vars

\* Whatever the providers do, and whenever the context ends, the phase ends.
PhaseEnds == <>(at = "end")

\* A phase whose command is killed by the end of its context is interrupted, as
\* the shutdown's message says, not failed.  (A fan-out has no such message.)
KilledIsInterrupted == at = "end" /\ killed /\ role # "parallel" => outcome = "interrupted"

----------------------------------------------------------------------------

\* Probes and commands have timeouts, and so has the wait.
FairSpec == Spec /\ WF_vars(Step)

=============================================================================
