------------------------------ MODULE JobLoop ------------------------------
(***************************************************************************)
(* One job of internal/orchestrator: Service.runLoop, the skip-leader loop,*)
(* the worker, parallel and system phases, the evaluator gate, and the     *)
(* operator's Resume, Retry, Cancel, Approve and Reject.                   *)
(*                                                                         *)
(* A run of the loop is a sequence of calls that leave the process (to a   *)
(* provider, a command, an engine check); pc names the call in flight, and *)
(* the action that handles its return runs to the next call.  The context  *)
(* may be cancelled while a call is in flight.                             *)
(*                                                                         *)
(* Abstractions.  Texts are dropped, except the reason a job is blocked    *)
(* for, which counts towards the strikes.  The operator acts between runs, *)
(* as the job store serialises nothing else; a run that overlaps with an   *)
(* operator's call, a crash, and a failing save belong to the job store.   *)
(* An artifact that cannot be written belongs here: what it does to the    *)
(* job depends on the phase.                                               *)
(***************************************************************************)
EXTENDS Integers, Sequences, Evaluator

CONSTANTS
  BaseSteps,    \* largest max_steps a caller or the planner asks for
  MaxExtra,     \* maxResumeExtraSteps
  EvalRetries,  \* job.MaxEvalRetries
  Reasons       \* texts a provider, a policy or an operator blocks a job with

ASSUME JobLoopAssumption ==
  /\ BaseSteps \in Nat \ {0}
  /\ MaxExtra \in Nat
  /\ EvalRetries \in Nat \ {0}
  /\ "none" \notin Reasons /\ "max_steps_exceeded" \notin Reasons

VARIABLES
  skipLeader,   \* job.SkipLeader
  status,       \* job.Status
  curStep,      \* job.CurrentStep, which is also len(job.Steps)
  maxSteps,     \* job.MaxSteps
  extraUsed,    \* job.ResumeExtraStepsUsed
  planned,      \* planning artifacts and sprint contract exist
  implemented,  \* some implement step succeeded
  engine,       \* engine records on the latest implement step
  report,       \* the last evaluator report that was filed
  exhausted,    \* job.BlockedReason = "max_steps_exceeded"
  pending,      \* step index of job.PendingApproval, 0 for none
  strike,       \* the newest "*_blocked" events that share one reason
  chain,        \* what the job has told its chain
  pc,           \* the call in flight, "idle" between runs
  inflight,     \* kinds of the workers in flight
  summaries,    \* consecutiveSummarizes
  retryAt,      \* completionRetryStepCount while completionRetryPending
  attempt,      \* attempt of the skip-leader loop
  cancelled,    \* the context of the run is cancelled
  unwritten     \* history: the artifact whose loss has ended the last run

vars == << skipLeader, status, curStep, maxSteps, extraUsed, planned, implemented,
           engine, report, exhausted, pending, strike, chain,
           pc, inflight, summaries, retryAt, attempt, cancelled, unwritten >>

Statuses == { "starting", "planning", "running", "waiting_leader", "waiting_worker",
              "blocked", "failed", "done" }
Recoverable == {"starting", "planning", "running", "waiting_leader", "waiting_worker"}

Kinds == {"implement", "other"}
Phases == {"plan", "turn", "leader", "worker", "pair", "system", "evaluate"}

MaxExceeded  == "max_steps_exceeded"
NoReason     == "none"
NoRetry      == -1
SummarizeCap == 2
StrikeLimit  == 3

StrikeRecord == [reason : Reasons \cup {MaxExceeded, NoReason}, count : 0 .. StrikeLimit]
Crews == {<<>>} \cup {<<k>> : k \in Kinds} \cup (Kinds \X Kinds)

JobTypeOK ==
  /\ status \in Statuses
  /\ curStep \in Nat /\ maxSteps \in Nat \ {0} /\ extraUsed \in Nat
  /\ engine \in {"none", "good", "bad"}
  /\ report \in {"none", "passed", "refused", "inconsistent"}
  /\ pending \in Nat
  /\ strike \in StrikeRecord
  /\ chain \in {"running", "failed", "done"}

RunTypeOK ==
  /\ pc \in Phases \cup {"idle"}
  /\ inflight \in Crews
  /\ summaries \in 0 .. SummarizeCap
  /\ retryAt \in Nat \cup {NoRetry}
  /\ attempt \in 0 .. EvalRetries - 1
  /\ unwritten \in {"none", "plan", "report"}

FlagsOK ==
  /\ skipLeader \in BOOLEAN
  /\ planned \in BOOLEAN
  /\ implemented \in BOOLEAN
  /\ exhausted \in BOOLEAN
  /\ cancelled \in BOOLEAN

TypeOK == JobTypeOK /\ RunTypeOK /\ FlagsOK

Init ==
  /\ skipLeader \in BOOLEAN
  /\ status = "starting"
  /\ curStep = 0
  /\ maxSteps \in 1 .. BaseSteps
  /\ extraUsed = 0
  /\ planned = FALSE /\ implemented = FALSE
  /\ engine = "none" /\ report = "none"
  /\ exhausted = FALSE
  /\ pending = 0
  /\ strike = [reason |-> NoReason, count |-> 0]
  /\ chain = "running"
  /\ pc = "idle" /\ inflight = <<>>
  /\ summaries = 0 /\ retryAt = NoRetry /\ attempt = 0
  /\ cancelled = FALSE
  /\ unwritten = "none"

----------------------------------------------------------------------------
(* How a run begins, goes on and ends. *)

BeginRun ==
  /\ pc' = IF planned THEN "turn" ELSE "plan"
  /\ inflight' = <<>> /\ summaries' = 0 /\ retryAt' = NoRetry /\ attempt' = 0
  /\ cancelled' = FALSE /\ unwritten' = "none"

Continue(phase) ==
  /\ pc' = phase
  /\ inflight' = <<>>
  /\ UNCHANGED <<summaries, retryAt, attempt, cancelled, unwritten>>

Rest ==
  /\ pc' = "idle"
  /\ inflight' = <<>> /\ summaries' = 0 /\ retryAt' = NoRetry /\ attempt' = 0
  /\ cancelled' = FALSE

EndRun == Rest /\ unwritten' = "none"

(* How a job is closed: failJob, blockJobWithEvent, interruptJob.  Each tells *)
(* the chain, which listens only while it is running.                         *)

TellChainFailed == chain' = IF chain = "running" THEN "failed" ELSE chain

Fail ==
  /\ status' = "failed"
  /\ TellChainFailed

Recorded(s, r) ==
  [ reason |-> r,
    count  |-> IF s.reason # r THEN 1
               ELSE IF s.count < StrikeLimit THEN s.count + 1 ELSE StrikeLimit ]

StrikesOut(s, r) == s.reason = r /\ s.count + 1 >= StrikeLimit

\* s is the record of strikes before the event; approval, the step that waits.
BlockOrStrikeOut(s, r, approval) ==
  /\ TellChainFailed
  /\ IF StrikesOut(s, r)
     THEN /\ status' = "failed"
          /\ strike' = s
          /\ pending' = 0
          /\ exhausted' = FALSE
     ELSE /\ status' = "blocked"
          /\ strike' = Recorded(s, r)
          /\ pending' = approval
          /\ exhausted' = (r = MaxExceeded)

Interrupt ==
  /\ status' = "blocked"
  /\ exhausted' = FALSE
  /\ pending' = 0
  /\ TellChainFailed
  /\ UNCHANGED strike

\* The parts of the job that closing it leaves alone.
kept == <<skipLeader, curStep, maxSteps, extraUsed, planned, implemented, engine, report>>
marks == <<exhausted, pending, strike>>

\* runLoop's deferred function, when the run returns an error: it blocks the job
\* behind a cancelled context if the status still reads as recoverable, and
\* leaves it as it is otherwise.
Deferred ==
  IF cancelled /\ status \in Recoverable THEN Interrupt
  ELSE UNCHANGED <<status, marks, chain>>

\* An artifact cannot be written, and the error ends the run as it stands.
BreakOff(artifact) ==
  /\ Deferred
  /\ Rest
  /\ unwritten' = artifact

----------------------------------------------------------------------------
(* Planning. *)

Start ==
  /\ pc = "idle" /\ status = "starting"
  /\ status' = "planning"
  /\ BeginRun
  /\ UNCHANGED <<kept, marks, chain>>

\* The planner's recommended step budget replaces the requested one in adaptive
\* jobs; a job without a leader never asks the planner.
PlanReturns ==
  /\ pc = "plan"
  /\ planned' = TRUE
  /\ \/ UNCHANGED maxSteps
     \/ ~skipLeader /\ maxSteps' \in 1 .. BaseSteps
  /\ Continue("turn")
  /\ UNCHANGED << skipLeader, status, curStep, extraUsed, implemented, engine, report,
                  marks, chain >>

PlanFails ==
  /\ pc = "plan" /\ ~skipLeader
  /\ Fail
  /\ EndRun
  /\ UNCHANGED <<kept, marks>>

PlanInterrupted ==
  /\ pc = "plan" /\ ~skipLeader /\ cancelled
  /\ Interrupt
  /\ EndRun
  /\ UNCHANGED kept

\* An artifact of the plan cannot be written.  The budget the planner recommends
\* has been taken over by then.
PlanArtifactLost ==
  /\ pc = "plan"
  /\ \/ UNCHANGED maxSteps
     \/ ~skipLeader /\ maxSteps' \in 1 .. BaseSteps
  /\ BreakOff("plan")
  /\ UNCHANGED <<skipLeader, curStep, extraUsed, planned, implemented, engine, report>>

----------------------------------------------------------------------------
(* The head of the loop. *)

OutOfSteps ==
  /\ pc = "turn" /\ curStep >= maxSteps
  /\ BlockOrStrikeOut(strike, MaxExceeded, pending)
  /\ EndRun
  /\ UNCHANGED kept

\* Slip: the deferred function leaves the job as it is.
SilentTurnCancelled ==
  /\ pc = "turn" /\ curStep < maxSteps /\ cancelled
  /\ UNCHANGED <<status, exhausted, pending, chain, strike>>
  /\ EndRun
  /\ UNCHANGED kept

\* runLoop returns the context's error.
TurnCancelled ==
  /\ pc = "turn" /\ curStep < maxSteps /\ cancelled
  /\ Deferred
  /\ EndRun
  /\ UNCHANGED kept

\* Slip: the loop does not look at its context.
DeafAskLeader ==
  /\ pc = "turn" /\ curStep < maxSteps /\ ~skipLeader
  /\ status' = "waiting_leader"
  /\ Continue("leader")
  /\ UNCHANGED <<kept, marks, chain>>

AskLeader ==
  /\ pc = "turn" /\ curStep < maxSteps /\ ~cancelled /\ ~skipLeader
  /\ status' = "waiting_leader"
  /\ Continue("leader")
  /\ UNCHANGED <<kept, marks, chain>>

\* A new implement step carries no engine record, whatever the last one did.
EngineOfNewSteps(kinds) == IF \E i \in DOMAIN kinds : kinds[i] = "implement" THEN "none" ELSE engine

AppendSteps(kinds) ==
  /\ status' = "waiting_worker"
  /\ curStep' = curStep + Len(kinds)
  /\ engine' = EngineOfNewSteps(kinds)
  /\ inflight' = kinds
  /\ UNCHANGED <<skipLeader, maxSteps, extraUsed, planned, implemented, report>>

DispatchWithoutLeader ==
  /\ pc = "turn" /\ curStep < maxSteps /\ ~cancelled /\ skipLeader
  /\ AppendSteps(<<"implement">>)
  /\ pc' = "worker"
  /\ UNCHANGED <<marks, chain, summaries, retryAt, attempt, cancelled, unwritten>>

----------------------------------------------------------------------------
(* The leader's answer. *)

LeaderInterrupted ==
  /\ pc = "leader" /\ cancelled
  /\ Interrupt
  /\ EndRun
  /\ UNCHANGED kept

\* A provider error, three answers that break the schema, or the action "fail".
LeaderFails ==
  /\ pc = "leader"
  /\ Fail
  /\ EndRun
  /\ UNCHANGED <<kept, marks>>

\* A provider error that blocks, the action "blocked", or a fan-out that does
\* not make a valid plan.
LeaderBlocks ==
  /\ pc = "leader"
  /\ \E r \in Reasons : BlockOrStrikeOut(strike, r, pending)
  /\ EndRun
  /\ UNCHANGED kept

\* Any action but "complete" settles a completion that was refused.
SettleRefusal ==
  /\ retryAt' = NoRetry
  /\ exhausted' = IF retryAt = NoRetry THEN exhausted ELSE FALSE

Dispatch(kinds, phase) ==
  /\ pc = "leader"
  /\ AppendSteps(kinds)
  /\ SettleRefusal
  /\ summaries' = 0
  /\ pc' = phase
  /\ UNCHANGED <<pending, strike, chain, attempt, cancelled, unwritten>>

RunWorker == \E k \in Kinds : Dispatch(<<k>>, "worker")

RunPair == \E kinds \in Kinds \X Kinds : Dispatch(kinds, "pair")

RunSystem == Dispatch(<<"other">>, "system")

\* Policy refuses the action: the step is blocked and waits for the operator.
RequestApproval ==
  /\ pc = "leader"
  /\ curStep' = curStep + 1
  /\ \E r \in Reasons : BlockOrStrikeOut(strike, r, curStep + 1)
  /\ EndRun
  /\ UNCHANGED <<skipLeader, maxSteps, extraUsed, planned, implemented, engine, report>>

Summarize ==
  /\ pc = "leader" /\ summaries < SummarizeCap
  /\ summaries' = summaries + 1
  /\ SettleRefusal
  /\ pc' = "turn"
  /\ UNCHANGED <<kept, status, pending, strike, chain, inflight, attempt, cancelled, unwritten>>

\* Slip: a repeated completion goes to the gate again.
ForgetfulComplete ==
  /\ pc = "leader"
  /\ summaries' = 0
  /\ pc' = "evaluate"
  /\ UNCHANGED <<kept, status, marks, chain, inflight, retryAt, attempt, cancelled, unwritten>>

\* "complete", or the summary after the last one allowed: the gate decides.
Complete ==
  /\ pc = "leader" /\ retryAt # curStep
  /\ summaries' = 0
  /\ pc' = "evaluate"
  /\ UNCHANGED <<kept, status, marks, chain, inflight, retryAt, attempt, cancelled, unwritten>>

\* A second "complete" without a new step blocks the job, and only that.
CompleteAgain ==
  /\ pc = "leader" /\ retryAt = curStep
  /\ status' = "blocked"
  /\ EndRun
  /\ UNCHANGED <<kept, marks, chain>>

----------------------------------------------------------------------------
(* One worker. *)

\* Who speaks after a worker: the leader, or the gate when there is none.
AfterWorker == IF skipLeader THEN "evaluate" ELSE "turn"

settings == <<skipLeader, curStep, maxSteps, extraUsed, planned, report>>

WorkerInterrupted ==
  /\ pc = "worker" /\ cancelled
  /\ Interrupt
  /\ EndRun
  /\ UNCHANGED kept

\* The provider or the worker itself reports a block.  The block is recorded
\* on the step as "worker_blocked" and once more when the job is blocked.
WorkerBlocks ==
  /\ pc = "worker"
  /\ \E r \in Reasons : BlockOrStrikeOut(Recorded(strike, r), r, pending)
  /\ EndRun
  /\ UNCHANGED kept

\* A provider error, answers that break the schema, or lost artifacts.
WorkerFails ==
  /\ pc = "worker"
  /\ Fail
  /\ EndRun
  /\ UNCHANGED <<kept, marks>>

WorkerReportsFailure ==
  /\ pc = "worker"
  /\ status' = "running"
  /\ Continue(AfterWorker)
  /\ UNCHANGED <<kept, marks, chain>>

\* The engine builds and tests after an implement step; a red result turns the
\* step into a failed one but lets the loop go on.
WorkerSucceeds ==
  /\ pc = "worker"
  /\ status' = "running"
  /\ IF inflight = <<"implement">>
     THEN \E result \in {"good", "bad"} :
            /\ engine' = result
            /\ implemented' = (implemented \/ result = "good")
     ELSE UNCHANGED <<engine, implemented>>
  /\ Continue(AfterWorker)
  /\ UNCHANGED <<settings, marks, chain>>

\* The step has succeeded, its engine checks leave no record.
EngineInterrupted ==
  /\ pc = "worker" /\ inflight = <<"implement">> /\ cancelled
  /\ implemented' = TRUE
  /\ Interrupt
  /\ EndRun
  /\ UNCHANGED <<settings, engine>>

EngineRecordLost ==
  /\ pc = "worker" /\ inflight = <<"implement">>
  /\ implemented' = TRUE
  /\ Fail
  /\ EndRun
  /\ UNCHANGED <<settings, engine, marks>>

----------------------------------------------------------------------------
(* Two workers.  Their results are merged once both have returned. *)

\* "good", "bad" and "lost" are successes told apart by the engine checks that
\* follow; only an implement step has any.
Outcomes(kind) ==
  {"blocked", "failed", "error", "good"}
    \cup (IF kind = "implement" THEN {"bad", "lost"} ELSE {})

Succeeded(i, out) == inflight[i] = "implement" /\ out[i] \in {"good", "lost"}

EngineRecorded(out) ==
  LET last == IF inflight[2] = "implement" THEN out[2]
              ELSE IF inflight[1] = "implement" THEN out[1] ELSE "other"
  IN  IF last \in {"good", "bad"} THEN last ELSE engine

\* Closing the job in the middle of the merge ("lost") reaches the chain, but
\* the status it wrote is overwritten by the merged one.
MergePair(out) ==
  /\ engine' = EngineRecorded(out)
  /\ implemented' = (implemented \/ \E i \in 1 .. 2 : Succeeded(i, out))
  /\ IF "lost" \in {out[1], out[2]} THEN TellChainFailed ELSE UNCHANGED chain
  /\ UNCHANGED <<settings, pending>>

PairReturns ==
  /\ pc = "pair"
  /\ \E out \in Outcomes(inflight[1]) \X Outcomes(inflight[2]) :
       LET seen == {out[1], out[2]} IN
       /\ MergePair(out)
       /\ \/ /\ "blocked" \in seen
             /\ status' = "blocked"
             /\ \E r \in Reasons : strike' = Recorded(strike, r)
             /\ exhausted' = FALSE
             /\ EndRun
          \/ /\ "blocked" \notin seen /\ "error" \in seen
             /\ status' = "failed"
             /\ exhausted' = FALSE
             /\ UNCHANGED strike
             /\ EndRun
          \/ /\ seen \cap {"blocked", "error"} = {}
             /\ status' = "running"
             /\ exhausted' = (exhausted /\ seen = {"good"})
             /\ UNCHANGED strike
             /\ Continue("turn")

----------------------------------------------------------------------------
(* A system command, from the leader or approved by the operator. *)

SystemInterrupted ==
  /\ pc = "system" /\ cancelled
  /\ Interrupt
  /\ EndRun
  /\ UNCHANGED kept

SystemFinishes ==
  /\ pc = "system"
  /\ status' = "running"
  /\ Continue("turn")
  /\ UNCHANGED <<kept, marks, chain>>

\* The allowlist of the runner refuses what policy or the operator allowed.
SystemRefused ==
  /\ pc = "system"
  /\ \E r \in Reasons : BlockOrStrikeOut(strike, r, 0)
  /\ EndRun
  /\ UNCHANGED kept

SystemRecordLost ==
  /\ pc = "system"
  /\ Fail
  /\ EndRun
  /\ UNCHANGED <<kept, marks>>

----------------------------------------------------------------------------
(* The gate. *)

\* Slip: the engine records are not consulted.
StepOnlyHistoryPasses == implemented

\* What the history proves, as RulePassed reads it off the steps.
HistoryPasses == implemented /\ engine # "bad"

Verdicts(rulePassed) ==
  { Merge(rep, rulePassed, checksFailed) : rep \in ProviderReport, checksFailed \in BOOLEAN }

Filed(verdict) ==
  IF verdict.passed THEN "passed"
  ELSE IF verdict.status = "passed" THEN "inconsistent" ELSE "refused"

evidence == <<skipLeader, curStep, maxSteps, extraUsed, planned, implemented, engine>>

\* The leader may try to complete again once it has done something else.
ReturnToLeader ==
  /\ pc' = "turn"
  /\ retryAt' = curStep
  /\ UNCHANGED <<inflight, summaries, attempt, cancelled, unwritten>>

EvaluatorInterrupted ==
  /\ pc = "evaluate" /\ cancelled
  /\ Interrupt
  /\ IF skipLeader THEN EndRun ELSE ReturnToLeader
  /\ UNCHANGED kept

\* The skip-leader loop starts over while it has retries left; after that the
\* job keeps the status the evaluator phase gave it.
TryAgain(statusNow) ==
  IF attempt + 1 < EvalRetries
  THEN /\ status' = "running"
       /\ pc' = "turn"
       /\ attempt' = attempt + 1
       /\ UNCHANGED <<inflight, summaries, retryAt, cancelled, unwritten>>
  ELSE /\ status' = statusNow
       /\ EndRun

\* failJob closes the job, yet both loops read the outcome as a refusal.
EvaluatorFails ==
  /\ pc = "evaluate"
  /\ TellChainFailed
  /\ IF skipLeader THEN TryAgain("failed")
     ELSE /\ status' = "failed"
          /\ ReturnToLeader
  /\ UNCHANGED <<kept, marks>>

Accept(verdict) ==
  /\ verdict.passed
  /\ status' = "done"
  /\ chain' = IF chain = "running" THEN "done" ELSE chain
  /\ EndRun
  /\ UNCHANGED marks

\* "evaluation_blocked" is recorded like every other block, but nobody counts.
RefuseBlocked(verdict) ==
  /\ ~verdict.passed /\ verdict.status = "blocked"
  /\ status' = "blocked"
  /\ \E r \in Reasons : strike' = Recorded(strike, r)
  /\ exhausted' = FALSE
  /\ IF skipLeader THEN EndRun ELSE ReturnToLeader
  /\ UNCHANGED <<pending, chain>>

RefuseDefective(verdict) ==
  /\ ~verdict.passed /\ verdict.status = "failed"
  /\ IF skipLeader THEN TryAgain("failed")
     ELSE /\ status' = "failed"
          /\ ReturnToLeader
  /\ UNCHANGED <<marks, chain>>

\* Neither done nor refused: the leader loop returns the job as it is.
RefuseInconsistent(verdict) ==
  /\ ~verdict.passed /\ verdict.status = "passed"
  /\ IF skipLeader THEN TryAgain(status)
     ELSE /\ EndRun
          /\ UNCHANGED status
  /\ UNCHANGED <<marks, chain>>

EvaluatorReports ==
  /\ pc = "evaluate"
  /\ \E verdict \in Verdicts(HistoryPasses) :
       /\ report' = Filed(verdict)
       /\ \/ Accept(verdict)
          \/ RefuseBlocked(verdict)
          \/ RefuseDefective(verdict)
          \/ RefuseInconsistent(verdict)
  /\ UNCHANGED evidence

\* The report of a verdict cannot be written: nothing is filed, and the run ends.
ReportLost ==
  /\ pc = "evaluate"
  /\ BreakOff("report")
  /\ UNCHANGED kept

----------------------------------------------------------------------------
(* The operator and the context. *)

\* Slip: a closed job may be resumed.
LaxResumable == pc = "idle" /\ status # "starting" /\ pending = 0

Resumable == pc = "idle" /\ status \notin {"starting", "done", "failed"} /\ pending = 0

\* Slips: every resume has the whole extra budget; the reason is not cleared.
GenerousResume ==
  /\ Resumable
  /\ \E extra \in 0 .. MaxExtra :
       /\ extra > 0 => status = "blocked" /\ exhausted
       /\ maxSteps' = maxSteps + extra
       /\ extraUsed' = extraUsed + extra
       /\ exhausted' = IF extra > 0 THEN FALSE ELSE exhausted
  /\ status' = IF planned THEN status ELSE "planning"
  /\ BeginRun
  /\ UNCHANGED <<skipLeader, curStep, planned, implemented, engine, report, pending, strike, chain>>

StaleResume ==
  /\ Resumable
  /\ \E extra \in 0 .. MaxExtra :
       /\ extra > 0 => status = "blocked" /\ exhausted /\ extraUsed + extra <= MaxExtra
       /\ maxSteps' = maxSteps + extra
       /\ extraUsed' = extraUsed + extra
  /\ status' = IF planned THEN status ELSE "planning"
  /\ BeginRun
  /\ UNCHANGED << skipLeader, curStep, planned, implemented, engine, report, exhausted,
                  pending, strike, chain >>

\* extra_steps is granted only to a job that is blocked for want of steps.
Resume ==
  /\ Resumable
  /\ \E extra \in 0 .. MaxExtra :
       /\ extra > 0 => status = "blocked" /\ exhausted /\ extraUsed + extra <= MaxExtra
       /\ maxSteps' = maxSteps + extra
       /\ extraUsed' = extraUsed + extra
       /\ exhausted' = IF extra > 0 THEN FALSE ELSE exhausted
  /\ status' = IF planned THEN status ELSE "planning"
  /\ BeginRun
  /\ UNCHANGED <<skipLeader, curStep, planned, implemented, engine, report, pending, strike, chain>>

\* Slip: a retry leaves the approval pending.
CarelessRetry ==
  /\ pc = "idle" /\ status \in {"blocked", "failed"}
  /\ status' = IF planned THEN "running" ELSE "planning"
  /\ exhausted' = FALSE
  /\ BeginRun
  /\ UNCHANGED <<kept, pending, strike, chain>>

Retry ==
  /\ pc = "idle" /\ status \in {"blocked", "failed"}
  /\ status' = IF planned THEN "running" ELSE "planning"
  /\ exhausted' = FALSE /\ pending' = 0
  /\ BeginRun
  /\ UNCHANGED <<kept, strike, chain>>

\* The approved command is one more step; policy is not asked again.
Approve ==
  /\ pc = "idle" /\ pending # 0
  /\ pending' = 0 /\ exhausted' = FALSE
  /\ status' = "waiting_worker"
  /\ curStep' = curStep + 1
  /\ pc' = "system" /\ inflight' = <<"other">>
  /\ unwritten' = "none"
  /\ UNCHANGED << skipLeader, maxSteps, extraUsed, planned, implemented, engine, report,
                  strike, chain, summaries, retryAt, attempt, cancelled >>

CloseByOperator ==
  /\ status' = "blocked"
  /\ exhausted' = FALSE /\ pending' = 0
  /\ TellChainFailed
  /\ UNCHANGED <<kept, strike, pc, inflight, summaries, retryAt, attempt, cancelled, unwritten>>

Reject == pc = "idle" /\ pending # 0 /\ CloseByOperator

\* Slip: a completed job may be cancelled.
LaxCancel == pc = "idle" /\ status # "starting" /\ CloseByOperator

Cancel == pc = "idle" /\ status \notin {"starting", "done"} /\ CloseByOperator

CancelContext ==
  /\ pc # "idle" /\ ~cancelled
  /\ cancelled' = TRUE
  /\ UNCHANGED << kept, status, marks, chain, pc, inflight, summaries, retryAt, attempt,
                  unwritten >>

----------------------------------------------------------------------------

PlanStep == PlanReturns \/ PlanFails \/ PlanInterrupted \/ PlanArtifactLost
TurnStep == OutOfSteps \/ TurnCancelled \/ AskLeader \/ DispatchWithoutLeader
LeaderStep ==
  \/ LeaderInterrupted \/ LeaderFails \/ LeaderBlocks
  \/ RunWorker \/ RunPair \/ RunSystem \/ RequestApproval
  \/ Summarize \/ Complete \/ CompleteAgain
WorkerStep ==
  \/ WorkerInterrupted \/ WorkerBlocks \/ WorkerFails \/ WorkerReportsFailure
  \/ WorkerSucceeds \/ EngineInterrupted \/ EngineRecordLost
SystemStep == SystemInterrupted \/ SystemFinishes \/ SystemRefused \/ SystemRecordLost
EvaluatorStep == EvaluatorInterrupted \/ EvaluatorFails \/ EvaluatorReports \/ ReportLost

\* A step of the goroutine that runs the job.
RunStep == PlanStep \/ TurnStep \/ LeaderStep \/ WorkerStep \/ PairReturns \/ SystemStep \/ EvaluatorStep

Operator == Start \/ Resume \/ Retry \/ Approve \/ Reject \/ Cancel

Next == RunStep \/ Operator \/ CancelContext

Spec == Init /\ [][Next]_vars

\* Every call out of the loop returns: providers and commands run under a
\* deadline or under the context, and their caller takes the next step at once.
FairSpec == Spec /\ WF_vars(RunStep)

----------------------------------------------------------------------------
(* Safety. *)

\* The work of a job is bounded by what was asked for and what resumes may add:
\* a fan-out of two or an approved command overshoots max_steps by one step,
\* and no sequence of refusals, resumes and approvals by more.
StepBudget ==
  /\ curStep <= maxSteps + 1
  /\ maxSteps <= BaseSteps + extraUsed
  /\ extraUsed <= MaxExtra

\* A job is done only with proof on record: an implement step that succeeded,
\* no broken engine check on the latest one, and a filed report that passed.
\* No path through retries, resumes or a second completion gets around the gate.
DoneIsVerified == status = "done" => implemented /\ engine # "bad" /\ report = "passed"

\* A pending approval always belongs to the newest step of a job at rest, which
\* leaves the approved command one step of budget and no worker to run beside.
PendingIsNewest ==
  pending # 0 => /\ pc = "idle" /\ status = "blocked"
                 /\ pending = curStep /\ curStep <= maxSteps

\* The reason that opens the door to extra steps is never stale: a job at rest
\* that reads "max_steps_exceeded" has really used its steps up.
ExtraOnlyWhenOut == exhausted => curStep >= maxSteps

\* A job nobody works on is closed.  Two things strand it in a busy status, and
\* nothing else does, no error, cancellation or early return of a run in any other
\* phase: a report that contradicts itself, and an artifact of the plan or of the
\* evaluation that could not be written, in the status of that very phase.
Stranded == pc = "idle" /\ status \in Recoverable \ {"starting"}

NothingElseStrands ==
  Stranded =>
    \/ report = "inconsistent" /\ status \in {"waiting_leader", "running"}
    \/ unwritten = "plan" /\ status = "planning" /\ ~planned
    \/ unwritten = "report" /\ status \in {"waiting_leader", "running"}

\* The chain goes on to its next goal only behind a job that is, and stays, done.
ChainAdvancesBehindDone == chain = "done" => status = "done"

\* The loop keeps the promise of the job's life cycle: with a run in progress the
\* job counts as open, whatever status its phases pass through.
LifePhase ==
  IF pc # "idle" \/ status \in Recoverable THEN "open"
  ELSE IF pending # 0 THEN "approval" ELSE status

Promise == INSTANCE JobLifecycle WITH
  phase <- LifePhase, proven <- HistoryPasses, extra <- extraUsed, heard <- chain

KeepsPromise == Promise!Spec

(* Liveness. *)

\* A cancelled context ends the run, whichever call was in flight.
CancelledRunEnds == (pc # "idle" /\ cancelled) ~> pc = "idle"

\* A run that does not end goes on summarising for ever: attempts, steps and the
\* block on a second completion in a row exhaust every other way to go on, so
\* that a run without a leader always ends.
OnlySummariesProlong == []<><<Summarize>>_vars \/ (pc # "idle" ~> pc = "idle")
=============================================================================
