# gorchera in TLA+

gorchera is a Go program that drives coding agents: a *job* has a goal; a
planner, a leader, workers and an evaluator (calls to external providers) work
on it in steps; the job ends done, failed or blocked, and a *chain* runs several
jobs one after the other. This directory holds TLA+ models of the program, TLC
configurations that check them, and TLAPS proofs about them.

## Inventory

| component | state | operations | hard because |
|---|---|---|---|
| Job loop (`service.go` runLoop, `skip_leader.go`, `parallel.go`) | status, steps, budget, reasons, pending approval; the loop's counters | planning, leader turn, worker, fan-out, system action, evaluation; Resume, Retry, Approve, Reject, Cancel | five kinds of external calls, each of which can block, fail or be interrupted; several retry counters; an operator who reopens closed jobs |
| Evaluator gate (`evaluator.go`, `verification.go`) | recorded steps, engine records, reports | evaluateCompletion, mergeEvaluatorReport | findings from five sources overwrite each other in stages |
| Job store, cache, run claim (`service.go`, `state_store.go`) | a file, a cached copy, a private copy per caller, the set of running jobs | SaveJob, LoadJob, cacheUpdate, claimJobRun, Steer, Cancel | operators save their own copy beside a running loop; crash and restart |
| Lease and sweep (`job_runtime.go`) | a lease file per job | startJobLease, finalizeJobLease, InterruptRecoverableJobs, InterruptOwnedJobs | a slow run looks like a dead one |
| Chain controller (`service.go`) | goals, index, status | StartChain, advanceChain, Pause, Resume, Cancel, SkipChainGoal | completion of a job races with the operator; every writer saves the whole chain |
| Background work (`service.go`, `main.go`) | wait group, closed flag, recovery slots | startBackgroundTask, recoverJobs, Shutdown | shutdown against tasks that start tasks |
| Harness (`service.go`, `runtime/lifecycle.go`, `api/harness.go`) | owners, claims, process table | Start, Stop, Status, List per job | check, slow call, update; reused process ids; contexts of requests |
| Provider phase (`service.go`, `evaluator.go`, `provider/`) | attempt counters | executeProviderPhase, schema retries, fallback model | nested retries, a cancellation that looks like a failure |
| Notifications (`service.go`, `mcp/server.go`, `api/server.go`) | bounded channel, what was announced last | addEvent, the MCP relay and its notices, the event stream | events dropped, several ends and restarts of one job in flight at once |
| Parallel plans (`parallel.go`) | - | buildWorkerPlans | one name space for targets and scopes |
| Files (`state_store.go`, `artifact_store.go`) | - | writeAtomically | the fallback where rename does not replace |
| Policy and runner (`policy/`, `runtime/`) | - | Evaluate, Run | tables over strings |
| Prompts, pricing, workspaces, views, dashboard, mock provider | - | - | input and output, text; no control of their own |

The components meet in the job: the loop works on a private copy, saves it and
updates the cache on every step; operators load, change and save their own copy.
A closing job calls the chain controller, which loads and saves the chain and
may start the next job. Shutdown cancels the context under which all background
runs make their calls. Everybody who follows a job reads it through the cache
and hears of it through one channel.

What makes each component correct:

- job loop: bounded work; done only with proof; a job nobody works on is closed;
  approvals and extra steps never outlive what they were granted for;
- gate: accepts exactly the proven and endorsed jobs, whatever the order of findings;
- store, lease: at most one run per job and process; done is not undone; a job
  without a live run is visible to the sweep, and one with a live run is spared;
- chain: goals run one at a time and in order, the next only behind a done or
  skipped one; a cancelled chain starts nothing;
- background: shutdown ends, nothing starts after it, and no job is left owned;
- harness: a job touches only processes it owns, and no process is lost;
- provider phase: retries happen where they help, stop where they do not, and end;
- notifications: an end that came with an ending event is told, and a job seen done
  stays done.

## Modules

| module | what it is |
|---|---|
| `Evaluator` | the gate as constant operators: evidence in the steps, the stages of the merge |
| `EvaluatorGate` | a job whose steps are recorded and whose completion is evaluated, with a reference definition of the gate |
| `JobLifecycle` | abstract specification: what a job promises to its operator and its chain |
| `JobLoop` | one job: the loop, its phases, the operator, the context; uses `Evaluator`, implements `JobLifecycle` |
| `JobStore` | one job as it is stored: file, caches, copies, claim, lease, crashes, sweeps |
| `MCJobStore` | `JobStore` for TLC (symmetry of processes and of callers) |
| `GoalSequence` | abstract specification: what a chain promises to whoever started it |
| `Chain` | a chain of goals: its file, the runs of its jobs, the operator; implements `GoalSequence` |
| `Background` | the goroutines of one service: recovery, background runs, operators' runs, shutdown |
| `Provider` | one phase of a job: the three retry loops around an invocation of a CLI |
| `Harness` | processes started by operators and jobs: manager, ownership, claims |
| `Watchers` | those who follow a job: notices of ends, streams, and the channel of events |
| `EvaluatorGate_proofs`, `JobLoop_proofs`, `JobStore_proofs`, `Chain_proofs`, `Background_proofs`, `Provider_proofs`, `Harness_proofs`, `Watchers_proofs` | inductive invariant and safety theorems of the module they are named after; for `JobLoop` and `Chain` also that they implement their abstract specifications |

The modules cut the program along its interfaces, and each relies on what its
neighbour shows. `JobLoop` is the run whose copy is private; `JobStore` is what
several such runs and operators do to the file. `Background` takes from
`JobStore` that a job has one run, and from `JobLoop` that a cancelled run ends.
`Chain` sees of its jobs what `JobLifecycle` promises. `Provider` is one of the
calls that `JobLoop` waits for, and `Watchers` is everybody who only reads.

Some definitions have a twin marked "Slip": the definition with a plausible
mistake in it. Nothing uses the twins; they serve to show that a property
notices the mistake.

### Evaluator, EvaluatorGate

A step keeps its task type (with a second capitalisation, because `service.go`
folds case and `missingRequiredSteps` does not), its status and the state of its
two engine records. A provider report keeps what decides the outcome: status,
passed, the missing step types, whether its prose contradicts it
(`evaluatorTextContradicts`), whether a rubric axis is below its threshold.
`RulePassed`, `RuleStage`, `ConsistencyStage`, `EnforcementStage` are the stages
of `mergeEvaluatorReport` in their order. `EnforcementStage` stands for both the
rubric and the automated checks, which have the same effect.

`EvaluatorGate` records steps in every form `runEngineVerificationForStep` can
leave them in (and with records damaged later), and merges every report.

### JobLoop

| variables | code |
|---|---|
| `status`, `curStep`, `maxSteps`, `extraUsed`, `skipLeader` | fields of `domain.Job`; every step appended increments CurrentStep, so one number serves for both |
| `planned` | PlanningArtifacts and SprintContractRef are set |
| `implemented`, `engine`, `report` | what the recorded steps and the last evaluator report prove |
| `exhausted` | BlockedReason is the text `max_steps_exceeded` |
| `pending` | the step of PendingApproval |
| `strike` | the run of equal reasons at the end of the `*_blocked` events |
| `chain` | what the job has told its chain and the chain has taken in |
| `pc`, `inflight`, `summaries`, `retryAt`, `attempt`, `cancelled` | the call a run waits for, and the local variables of the loops |
| `unwritten` | history: the artifact (of planning, of the evaluation) whose loss has ended the last run |

An action takes the return of the call in flight and runs to the next call:
everything the code does in between (events, saves, failJob, the deferred
function of runLoop) is one step, because nothing else writes the private copy
of the job. `Start`, `Resume`, `Retry`, `Approve`, `Reject` and `Cancel` are the
operator's calls. `CancelContext` may come while any call is in flight; the
returned error may or may not show it (a killed command returns its exit
status), so the interrupted and the failed outcome are both possible.

A run can break off. `evaluateCompletion` and `persistPlanning` return a plain
error when an artifact cannot be written; runLoop returns it, and its deferred
function (`Deferred`) closes the job only for a cancelled context. `ReportLost` and
`PlanArtifactLost` are these two: without a cancellation the job stays as busy as it
was. A report that reads passed but is not has the same effect. `NothingElseStrands`
says that there is no fourth way to leave a job busy without a run. A worker's or a
system action's artifact that cannot be written fails the job (`WorkerFails`,
`SystemRecordLost`).

Left out here: an operator's call that overlaps with a run, a crash, a failing
save of the job (`JobStore`); the retries inside a provider's call (`Provider`); the status
of steps in flight, texts other than reasons, RetryCount, a job's token usage. A
reason that comes from outside is assumed not to be the literal text
`max_steps_exceeded` (`JobLoopAssumption`); the code does not tell such a text
from its own.

`KeepsPromise` says that `JobLoop` implements `JobLifecycle` under the mapping
`Promise`: with a run in progress or a busy status the job counts as open,
whatever status its phases pass through; a job that waits for approval is a
phase of its own; proof is what the gate's rule reads off the history. (Before
`Start` the job exists only in memory, and no operator can name it.) So: a job
reaches done only with proof and never leaves it, a failed job is only retried
or withdrawn, extra steps are granted only to blocked jobs and within the total,
and the chain hears of a job at most once.

### JobStore

| variables | code |
|---|---|
| `disk` | the job's file: status (the recoverable ones as one, `busy`), RunOwnerID, RunHeartbeatAt, PendingApproval, SupervisorDirective |
| `lease` | the lease file: absent, fresh, or older than 45 seconds |
| `cache`, `claimed` | per process: the status in jobCache, membership in runningJobs |
| `phase` | per process: down, starting (the startup sweep comes before it serves), up |
| `at`, `proc`, `copy` | per caller: its next step, the process whose goroutine it is, and the job it has loaded |
| `current`, `orderly`, `deserted` | histories: nobody else has saved since the caller loaded; no save has met a copy in another's hands and none has failed; the last save was that of a run that left the job busy |

A load and a save are steps of their own. What an operation does between its
load and its save, addEvent's update of the cache included, is one step with
the save, in the order cache, file: a save that fails leaves the new status in
the cache. `Accepts` holds what each operation asks of the job it has loaded,
before it has claimed anything. `Cancel` does not look for a run, and updates
the cache once more behind its save (`CancelRecaches`). `Approve` runs its
command between two saves and before the claim.

A run is `Claim`, then `Progress` and `LeaderTurn`, then `Close`, `Desert` or
`Interrupt`, then `Finish` (the deferred finalizeJobLease: the lease is removed,
the job saved) and `Release`. `Beat` is the heartbeat's goroutine, which is
stopped but not waited for: a beat that is under way may come after the lease was
removed. `LeaseExpires` and `HeartbeatExpires` are time; while a run lives they
cannot happen, for its heartbeats come every 15 seconds (a bound on scheduling,
stated in `LeaseExpires`). `Boot` is a server's start, with a sweep or a
recovery; `Judge` and `InterruptListed` are the sweep's two steps per job, and
`Load(c, p, "owned")` with `InterruptListed` is `InterruptOwnedJobs`. `Crash`
takes a process down between any two steps; its instance id becomes `Gone`.

### Chain

| variables | code |
|---|---|
| `disk` | the chain file: status, current index, status and job of each goal |
| `file`, `goalOf` | each job's file, reduced to what chain code reads of a job (no file, busy, blocked or failed, done), and its ChainGoalIndex |
| `own` | the same status in the copy that the job's run works on |
| `at`, `copy`, `call`, `target` | per caller: the next file access of the call it is in, and the chain or job it has loaded |
| `clean` | history: no caller has loaded the chain in the middle of another's call |

Here the granularity is the file access, because chains have neither a lock nor
a cache: each load and each save is a step, and between them a caller has a copy
that may be out of date. The callers are the runs of the jobs
(`handleChainCompletion`, `handleChainTerminalState`) and one operator, who makes
one call at a time, since `mcp/server.go` handles one request after the other.
`Advance`, `PassGoal`, `FailGoal`, `Reload`, `StartGoal`, `Launch` are the
pieces of `advanceChain` and `startChainGoal`; `Control` loads the chain for any
of the four chain controls, which then differ (`LookAtJob` and `StopJob` are
`interruptChainGoalJob`). A closed chain is returned as it is, which changes
nothing and so is not an action. The runs are nondeterministic: they complete,
close, or end without a word, as `JobLoop` shows they may; an operator's
cancellation of a job overwrites the file but does not stop the run.

Nothing in the code keeps two calls on a chain apart; they are merely short.
`CancelledStartsNothing` shows what happens when they meet. The other
properties are conditional on `clean`: they say nothing of a chain once two calls
on it have overlapped, and ask what can still go wrong with long overlaps
that are normal: a run that goes on after its job was skipped, cancelled, or
overwritten; a job that completes while its chain is paused; a chain that is
closed or has moved on when a late report arrives.

`KeepsSequence` says that the chain file is a run of `GoalSequence`: the mapping
`Sequence` forgets the copies, the callers and which job works on which goal, and
keeps the status, the index and the goals of the file, and the goals with a
completed job. So: goals are passed behind completed work only (an earlier goal
only while the chain is paused), the next one is started only in a running chain
whose current goal is settled, a failure closes the chain, the operator's four
controls each do what they say, and a closed chain does not change any more. The
abstract specification binds the steps up to the first overlap (`orderly`, which
is `clean`).

Left out: a crash between two steps, failing saves, the summary passed from goal
to goal, and operators of several servers on one directory.

### Background

| variables | code |
|---|---|
| `stage`, `closed` | how far the shutdown is; bgClosed (and the context, which is cancelled with it) |
| `wg` | the counter of bgWG |
| `sched`, `queue`, `slots`, `recovered` | the goroutine of recoverJobs, the jobs it has not launched, its semaphore, and the runs that hold a slot |
| `file` | per job: no file, busy (owned by this service, by one that is gone, by nobody), closed, done |
| `run` | per job: its background run: reserved, launched, running, ending |
| `op` | per job: its run on behalf of Resume, Retry or Approve, in the caller's goroutine and outside the wait group |
| `listed` | the jobs InterruptOwnedJobs has still to interrupt |
| `touched` | history: jobs an operator's call or run has saved since the listing |

`StartAsync` reserves the task, `SavePrepared` saves the job or gives the
reservation back, and a run then begins, saves, ends and returns. The scheduler
is itself a background task, waits for a slot (`TakeSlot`) and launches one job
per slot. Shutdown is `Close`, then `WaitThenList` (bgWG.Wait, then the listing of
owned jobs), `InterruptOwned` for each of them, and `Down`. `main.go` fixes the
order: recovery is asked for once, before anybody can call the service.

### Provider

| variables | code |
|---|---|
| `role`, `route`, `second` | whose phase it is; the adapter the profile resolves to; whether a different fallback model is configured |
| `attempt` | the retries of executeProviderPhase |
| `schemaAttempt`, `hint` | the schema loop and job.SchemaRetryHint |
| `model`, `at` | the model of the invocation under way and where in it the phase is |
| `err` | the last error: its kind, and whether `errors.Is(err, context.Canceled)` |
| `ctx`, `outcome` | the run's context, and what the phase makes of the job |
| `calls`, `killed` | histories: commands started; a command was killed by the context |

An invocation is a probe and a command (`ProbeStarts` to `CommandEnds`), each of
which may find the context cancelled before it starts, or be killed in it.
`Invoked` is the fallback model (`runWithResolvedProfile`), `Returned` and
`WaitForProviderRetry` the retries with backoff, `Correct` the retry after an
answer that does not validate, `EndOn` what an error makes of the phase.
Which loops are around a phase depends on its role: all three around the
leader and the worker, no provider retries around the evaluator, none but the
fallback around the planner and the workers of a fan-out.

### Harness

| variables | code |
|---|---|
| `os`, `doomed` | the system's view of a pid; processes whose exec context is cancelled |
| `state`, `stopped` | the manager's record of a pid: State, stopRequested |
| `harnesses`, `owner`, `owned`, `inflight` | the four maps of the service under harnessMu |
| `at`, `op`, `who`, `pid`, `seen` | per call: its next step, the operation, the job or the operator it is for, its process, and the state a stop has read |
| `starter`, `users`, `again` | histories: who has started the latest process of the pid, who has ever started one, and which pids were used more than once |
| `starts` | processes started so far; `MaxStarts` bounds them |

A job's call claims the process under the lock (`ClaimHarness`), calls the
manager without it (`Kill`, the wait, `Status`), records what it got under it
(`TrackHarness`) and releases the claim (`Release`); the global surface skips
the claim. `Watch` is the manager's goroutine that waits for the process. The
constant `Requests` says whether calls come through HTTP, where the context of
a start ends with the answer and the caller of a stop may go away.

The system may give the pid of a process that was reaped to the next one. Owner and
list then still name the job that started the earlier process; the next start
replaces the owner only if it is a job's and no other job has marked the pid, so
that a job may meet a process that is not its own. `CallsAreTrue` and
`NothingEscapes` are therefore about pids that were used once, whatever happens to
the others; `ReuseIsContained` says what is left for all pids: nobody is a stranger
to a pid that he reaches, owns or lists, and the operator's inventory has every pid
in use.

### Watchers

| variables | code |
|---|---|
| `disk`, `cache` | the job as saved and as cached: status, and the text a notice carries |
| `run`, `copy` | where the run is (before its loop in an approved command, at work, about to save a job it has closed and to go on or to end, ended), and its own copy |
| `op` | the operator's call that has added its event, and its copy |
| `chan` | the channel of events (100 places in the code, `Cap` here), reduced to ends and restarts |
| `tellers` | the goroutines of awaitAndSendTerminalNotification |
| `told` | lastTerminal, under its lock |
| `reader` | whether a stream of events is open |
| `fresh`, `lossy`, `silent` | histories: the notices written since the last restart was relayed; an event was dropped or an operator acted beside a run; the end that readers see came without an ending event |

What readers see is `Get`: the cached copy, or the file when there is none. `addEvent`
caches the copy before anything is saved, and the deferred function of runLoop saves
once more and empties the cache, so that readers change over from the one to the
other while the run ends. `RunSaves`, `RunReleases` and `OperatorFails` let each save fail.

The relay takes five kinds of event for an end (`mightProduceTerminalState`).
`RunCloses` is a close with one of them (failJob, blockJob, interruptJob, the
completion). `RunRefuses` is a close without: an approval that waits and a runner that
refuses (`system_blocked`), a refused evaluation (`evaluation_blocked`,
`evaluation_failed`), which the leader's loop survives with the job reading closed
until the next turn; and, without anything in the cache, a second completion, the last
attempt without a leader, and the merge of a fan-out. `RunReturns` leaves the job as it
is: stranded, or closed while the context is cancelled.

`Retry` (and Approve) cache a running job with their event; `Resume` leaves the status
alone, so that a blocked job reads blocked after `job_resumed` until the run has its
first event; `Reject` adds no ending event. `OperatorStarts` is the save and the start of
the run that follows, suppressed where one is live; `OperatorCloses` the save of
Cancel and Reject. What a call loads and its event are one step here.

Every ending event starts a goroutine that polls the job (`TellerPolls`), claims
the notice unless it was sent last (`TellerClaims`) and writes it after the lock
is gone (`TellerWrites`). A restart forgets what was announced. The number of
goroutines is bounded by `Tellers`: the relay waits when all are busy, where the
code would start one more.

`EndIsUnderway` is the safety half of `EndsAreTold`: at every moment, an end that
can be read, and that came with an ending event, has that event last in the channel or,
once the channel is drained, a notice that is written, being written, or in the hands of
a goroutine that has yet to read the job. A goroutine that suppresses its notice relies
on this. `DoneIsSeenForGood` is about readers alone: between the completion's event and
the removal from the cache, and whatever an operator tries on the job afterwards,
nobody who reads the job after it read done finds it otherwise.

## Runs

| run | bounds | result |
|---|---|---|
| `evaluator_gate` | histories of up to 2 steps | the merge agrees with the reference definition; a refusal reads as what it rests on; the two facts `JobLoop` keeps of a history decide the rule |
| `job_loop` | 3 requested steps, 2 extra, 3 retries of the evaluator, 2 reasons | the safety properties, the refinement, and the two liveness properties of a run |
| `job_store` | 2 processes, 2 callers | one run per process, only desertion hides a job from the sweep, done stays done and an approval is answered once but for stale copies, an orderly cache is true, the sweep spares the living |
| `job_store_steer` | 1 process, 2 callers | **violated**: a directive is lost to the run's next save |
| `chain` | 2 goals, 2 jobs | order, one job per goal, closed is final, the refinement of `GoalSequence` (done only behind a completed job); a completed job does not leave the chain standing |
| `chain_cancelled` | as above | **violated**: a chain cancelled while its next goal is starting runs again |
| `background` | 2 jobs, 1 slot | shutdown ends, nothing comes after the wait, slots are kept, nothing is left owned but what operators touched |
| `harness` | 2 jobs and the operator, 2 pids, 2 calls at a time, 2 starts, requests | with a pid used once, a job reaches only its own and no process is lost; with a pid used twice nobody meets one he has never started; every stop is answered |
| `harness_requests` | 1 job and the operator, 1 pid, 1 call | **violated**: a process started through HTTP dies with the answer |
| `watchers` | done and blocked with one note, a channel of 2, 2 tellers | an end that can be read and came with an ending event is on its way to be told, one that lasts is told, a job seen done stays done, streams close |
| `provider` | the limits of the code (3 retries, 2 schema retries) | commands are bounded, transient errors are retried, refusals of the account are not, the phase ends |
| `provider_killed` | as above | **violated**: a phase killed by a shutdown fails instead of being interrupted |

Why the bounds are enough. Two steps of history are enough for the gate: its rule
reads the set of successful types and the newest implement step, so a case needs
one step that proves and one that is newer. Three requested steps let a job be
refused, work, be refused and run out within one run, and leave room for a
fan-out that overshoots; two extra steps let the budget be granted in one and in
two parts; two reasons tell a repeated block from a new one. In the store two
callers give every race of one load and one save against another, in one process
or in two; a third could only repeat what one of them does after it has
returned. With two goals a chain has one that is current and one that is settled
or untouched beside it; a job for each (`MaxJobs`) is all that order allows, so
that a second job for a goal would be found. Two jobs for one slot make recovery
wait while shutdown comes. Two pids and two calls let a job meet its own other
call, another job's and the operator's on one process, with another process
beside it; two starts are two processes side by side or two on one pid, and the
second start is the first that can meet what an earlier process has left. Two tellers and a channel of two hold an end and a restart in any
order; a full channel may drop either; done is the end that closes for good and
blocked one that may be reopened. The proofs cover all values.

`CHECK_DEADLOCK FALSE` wherever the system may stop for good: a done job, a
closed chain whose runs are over, a service that is down, a phase that has ended,
a gate with a report on the last step it may record, as many processes as
the bound allows. It is checked in `watchers` and holds there.

The four violations are statements of the documents or comments that the code
does not keep; `PROJECT.json` quotes each.

- `CancelledStartsNothing`: the run that starts the next goal holds a copy of
  the chain it loaded before the cancellation, and saves it.
- `SteerIsHeard`: the run does not load the job again; its next save, before the
  leader is called, overwrites the directive.
- `RunsOn`: the handler passes the request's context on to exec.CommandContext.
- `KilledIsInterrupted`: a killed command reports an exit status, which
  `isShutdownInterruption` does not recognise.

Each is checked on the same model as the properties that hold: what does hold of
the same hazard is a property of the passing run beside it (`ClosedIsFinal`,
`DoneIsNotReopened`, `NothingEscapes` and `StopsEnd`, `PhaseEnds`).

### Fairness

- `JobLoop`: weak fairness of the steps of the run, together. The goroutine of a
  run is always either computing or waiting for one call, and the calls end:
  provider and engine commands have a timeout (`provider/command.go`, `service.go`
  executeEngineVerification), system commands one from their request.
- `Provider`: the same one level down: probes and commands have timeouts, and the
  wait before a retry has a timer. The context need never end.
- `Chain`: a caller that is in a call takes its next file access (the operating
  system answers, and nothing is waited for in between). A job need never complete.
- `Background`: goroutines are scheduled, prepared jobs are saved or refused, and
  a run whose context is cancelled ends, which `CancelledRunEnds` shows of
  `JobLoop`. A run that is not cancelled need not end, and no operator's run.
- `Harness`: calls and watchers are scheduled; a process whose context is
  cancelled is killed; a process that is left alone need not end.
- `Watchers`: the relay, the tellers and the poll of a stream are scheduled. Nothing
  is assumed of the run.

Nothing is assumed of operators anywhere.

## Proofs

Every theorem holds for all values of the constants that satisfy the module's
assumption, and rests on an inductive invariant `IInv` of its proof module, of
which initial states and every step are shown by one lemma per group of actions.

**JobLoop** (`JobLoopAssumption`). `TypeCorrect`, `WorkIsBounded`,
`DoneNeedsProof`, `ApprovalIsNewest`, `ExtraNeedsExhaustion`,
`NoOtherStranding`, `ChainBehindDone` are the safety properties of run
`job_loop`; `ImplementsLifecycle` is the refinement. No property is inductive
alone. The bounds need to know that the leader is asked only while a step is left
(`LeaderHasStep`), that a pending approval leaves one (`PendingIsNewest`, in turn
inductive only because no run starts with one), and that an unplanned job has
used nothing (`FreshUntilPlanned`: otherwise a planner that lowers max_steps
could leave the job above its budget). That a run breaks off in two places only
(`NoOtherStranding`) needs what status a job can have in each phase of its run
(`StatusOfPhase`). That done is final needs
`DoneIsAtRest`: no phase of a run, which sets the status freely, is in progress
on a done job. `VerdictNeedsHistory` is the one lemma about the gate: no merge of
any report turns a failed rule into a pass. The refinement's proof first restates
each abstract action as a lemma over the job's fields, then maps each action of
the loop to one of them or to a stutter.

**EvaluatorGate** (histories of any length). `GateTypeCorrect`, `LoopMayAbstract`,
`GateIsExact`, `RefusalsAreTrue`. The gate looks for the newest implement step,
whose existence in every history that has one would take an induction over the
history; the invariant keeps it instead (`HasLatest`), as steps are only
appended. `Recorded` says which records there can be, and `Merged` that the filed
report is the merge of what it was made from; the theorems then follow by cases
on the report. `LoopMayAbstract` is what entitles `JobLoop` to two facts in place
of a history.

**JobStore** (any number of processes and callers). `StoreTypeCorrect`,
`RunsOnce`, `HiddenWasDeserted`, `CachesAreCurrent`, `StaleCopiesReopen`,
`SweepSparesTheLiving`, `ApprovalsAnsweredOnce`. That only desertion hides a job needs that it holds
with or without a lease (`OwnedOrDeserted`). That done is reopened by stale copies
only needs two facts about callers: nobody works on a copy that is done, but
for the run that has just ended it (`OpenPlaces`), and a caller who is current
knows of a done file (`CurrentKnows`). Approvals come in because Resume and the
claim start from a blocked job but must not start from a waiting one
(`ApprovalsWait`); that one is answered once needs that whoever is current and
about to answer finds it in the file, and that it has left the file when its command
starts (`AnswerKnows`). `LeaseHolds` and `Agreement` hold lease and cache to the file
for as long as saves are orderly. The steps of callers have two shapes, those
that save (`Saving`) and those that only go on (`Moving`); the invariants
are shown once per shape, and each action is shown to have one of them.

**Chain** (`ChainAssumption`). `ChainTypeCorrect`, `ClosedStaysClosed`,
`ChainGoalsInOrder`, `ChainOneJobPerGoal`, `DoneGoalsAreProven`,
`ImplementsSequence`. The heart of the invariant is
`AloneInCall`: while no calls overlap, whoever is in a call is alone there and its
copy is what the file says, so that a save changes only what its action
changes. With it finality is immediate; the order of goals needs in addition
that a goal is started only from a settled one (`StartsFromSettled`), and that
there is one job per goal needs that no job is ahead of the chain
(`GoalsReached`). The lemmas `...Orderly` and `...InOrder` say this once for each
way of accessing the file; the case for an action cites one.

The refinement needs more: that the job a chain names for a goal is that goal's
(`AllStaffed`), that a job never prepared takes no part (`NothingUnprepared`), that
a file which says done speaks the truth about its run, and a run that reports a
failure has not completed (`RunsKnow`), and that the chain is running, or paused,
where a call has found it so (`RunningInCall`, `PausedInCall`). The delicate part is
`PassesDone`: a caller passes a goal some steps after it has read that the goal's
job is done, and in between the operator may overwrite that job's file; what
saves the promise is that the run still knows, and that such an operator is itself
about to tell the chain. `CompletedGoals` is therefore read off what the runs know,
not off the files. Each file access is then mapped to one action of `GoalSequence`
(a save) or to a stutter (a load), by the shape of the access first and by the
operation second; `DoneGoalsAreProven` follows from the same facts.

**Background** (any finite set of jobs, any number of slots).
`BackgroundTypeCorrect`, `WaitGroupCounts`, `NothingAfterWait`,
`RecoveryKeepsBound`, `OnlyTouchedAreOwned`. The wait group is shown to count
exactly the runs and the scheduler (`WaitGroupExact`), so that a wait that has
returned means there is none; with the closed flag (`Stages`) none comes again.
A launch must find the queued job without a run, or the count would be wrong:
`QueueWaits` says that whatever is queued is queued once and runs nowhere, since
only jobs without a file are started afresh.

**Provider** (any limits). `PhaseTypeCorrect`, `TransientErrorsAreRetried`,
`CommandsAreBounded`, `AccountErrorsStop`. `Counted` bounds the commands by those
of the requests that are over and of the one under way (`Spent`, `Request`);
`ErrorsFit` says what the last error can be at each place of the phase, and
`LoopsFit` that a counter moves only where its loop is around the role.

**Harness** (any number of jobs, pids, calls and starts). `HarnessTypeCorrect`,
`CallsReachTheirOwn`, `EveryProcessIsKept`, `ReusedPidsStayKnown`. Of a pid that was
used once, only who has started the process owns it or has marked it (`OwnersFit`),
although a mark may be released by another call of the job while its own is still
under way. `ReuseIsContained` speaks of all pids and is inductive but for the calls
that start a process, of which `StartsFit` says that they are users of their pid
until it is tracked.

**Watchers** (any capacity, any number of goroutines, any statuses and notes to end
with). `WatchersTypeCorrect`, `EndsAreUnderway`, `DoneIsFinalToReaders`. Typing needs
that whoever claims a notice has seen an end (`NoticesAreEnds`), since the job is read
and not the event. `EndIsUnderway` breaks where a goroutine suppresses its notice because
it was sent last: `ToldIsWritten` says that what was sent last since the restart has been
written or is about to be. `OneHand` holds the copy of the run or of the operator's call
and the cache together while no operator crosses a run: an end which can be
read is then the one that the last event was about, or a silent one, and a cached job is
done only where its run is about to save it and end, so that no step takes that back.

Only model-checked: liveness, which the prover does not do (`CancelledRunEnds`,
`OnlySummariesProlong`, `MovesOn`, `ShutdownEnds`, `StopsEnd`, `PhaseEnds`, and the
two of `Watchers`, `EndsAreTold` and `StreamCloses`). Every other property of a
passing run is a theorem. The type invariants of `EvaluatorGate`, `JobLoop`, `JobStore`, `Chain`, `Background`, `Provider`
and `Harness` are proved and not listed in a run; so is `DoneGoalHasDoneJob` of
`Chain`, which run `chain` checks as a part of `KeepsSequence`.

## Not modelled

- Prompts, command lines and the documents that planning builds; token accounting
  and pricing; workspaces and snapshots (calls to git and walks over directories);
  views, parsing and the dashboard; the mock provider and the smoke tests. They
  hold no protocol state of their own.
- The replacement of a file (`writeAtomically`) is one step, which is what rename
  gives; where rename does not replace, a crash between the two renames of the
  fallback leaves only the backup. Artifact names are data.
- The disjointness of targets and scopes in a fan-out: a rule over path strings
  without state.
- A crash between two steps of the chain controller, and its failing saves. The
  chain is saved with a job's id before the job is, so such a crash leaves a goal
  running without a job; no code repairs that, and there is nothing to check.
- Recovery on the copies the scheduler has listed, and the server's switch between
  workspaces.
- codex's second command with `--fresh`, and the fields of an answer that did not
  validate, which the next parse may keep.
- In `Watchers`: the status call that waits (it polls the same job with a deadline of
  its own, and its end depends on nothing the job does), the indices inside a stream,
  the terminal callback that nobody registers. An operator's load and event are one step.
- In `Chain`, `Restart` is the load, the save and the claim of Resume or Retry in one
  step, and a call that meets a live run is left out.

What the models show without a property, because the code promises nothing that
it breaks: a third equal reason fails a job only for some writers of blocked
events; a step whose engine record was lost is accepted as one that never had
any; a job closed by the merge of a fan-out does not tell its chain; a leader that
only summarises is stopped by no counter; a report that contradicts itself, or an
artifact of planning or evaluation that cannot be written, leaves the job in a busy
status without a run (`NothingElseStrands` names them); an approved
command runs before the run is claimed, so that two approvals at once run it twice
(`AnsweredOnce` says that one of them then works on a copy that is out of date).
A job that is closed without an ending event gets no `job_terminal` notice, though
docs/API_REFERENCE.md:13 has it "fired when a job reaches a terminal state", and a notice
may come before the save, though docs/ARCHITECTURE.md:63 has it "once the terminal state is
persisted"; `EndsAreTold` says what is left of the promise.

## What is left

1. Abstract specifications of the stored job (a register with owners, refined by
   `JobStore` as long as saves are orderly) and of a shutdown (refined by
   `Background`), with their proofs.
2. `Chain` over `JobLifecycle`, instead of over the statuses of its jobs.
3. Crashes in `Chain`; recovery on stale copies in `Background`.
