----------------------------- MODULE Background -----------------------------
(***************************************************************************)
(* The goroutines of one service: jobs started in the background, the      *)
(* recovery of jobs that an earlier process left busy, the runs of an      *)
(* operator's calls, and the shutdown that waits for the first two.        *)
(* (service.go; main.go decides when to recover and when to shut down)     *)
(*                                                                         *)
(* Background runs are counted in a wait group; a run asked for by resume, *)
(* retry or approve, or by a synchronous start, belongs to the caller's    *)
(* goroutine and is not.  At most one run of a job gets past the claim,    *)
(* whoever asked for it (JobStore shows that).                             *)
(*                                                                         *)
(* Abstractions.  An operator's call loads and saves in one step, a run    *)
(* only saves and ends (JobStore has the copies, JobLoop the run).  Saves  *)
(* fail only where the wait group depends on it.                           *)
(***************************************************************************)
EXTENDS Integers, Sequences, FiniteSets

CONSTANTS
  Jobs,
  Slots      \* recoveryConcurrency

ASSUME BackgroundAssumption == Slots \in Nat \ {0} /\ IsFiniteSet(Jobs)

VARIABLES
  stage,     \* of the service: serving, waiting, sweeping, down
  closed,    \* bgClosed: the context is cancelled, no background task is accepted
  wg,        \* the counter of bgWG
  sched,     \* the recovery scheduler: never, waiting for a slot, holding one, off
  queue,     \* recoverable jobs it has not launched
  slots,     \* taken from its semaphore
  file,      \* the file of a job
  run,       \* its background run
  recovered, \* that run was launched by the scheduler
  op,        \* its run on behalf of an operator
  listed,    \* jobs the shutdown sweep has still to interrupt
  touched    \* history: jobs an operator's call or run has saved since that listing

shutdown == <<stage, closed, listed>>
recovery == <<sched, queue, slots, recovered>>
vars == <<shutdown, wg, recovery, file, run, op, touched>>

\* A busy job belongs to this service, to one that is gone, or to nobody.
Busy  == {"ours", "theirs", "nobodys"}
Files == Busy \cup {"none", "closed", "done"}
RunPlaces == {"none", "reserved", "launched", "running", "ending"}

TypeOK ==
  /\ stage \in {"serving", "waiting", "sweeping", "down"}
  /\ closed \in BOOLEAN
  /\ wg \in Nat
  /\ sched \in {"never", "waiting", "holding", "off"}
  /\ queue \in Seq(Jobs)
  /\ slots \in 0 .. Slots
  /\ file \in [Jobs -> Files]
  /\ run \in [Jobs -> RunPlaces]
  /\ recovered \in [Jobs -> BOOLEAN]
  /\ op \in [Jobs -> RunPlaces \ {"reserved"}]
  /\ listed \subseteq Jobs /\ touched \subseteq Jobs

Init ==
  /\ stage = "serving" /\ closed = FALSE
  /\ wg = 0
  /\ sched = "never" /\ queue = <<>> /\ slots = 0
  /\ file \in [Jobs -> {"none", "theirs"}]
  /\ run = [j \in Jobs |-> "none"]
  /\ recovered = [j \in Jobs |-> FALSE]
  /\ op = [j \in Jobs |-> "none"]
  /\ listed = {} /\ touched = {}

Claimed(j) == run[j] \in {"running", "ending"} \/ op[j] \in {"running", "ending"}

Listing == stage \in {"sweeping", "down"}

\* A step on the file by an operator's call or run.
Writes(j, s) ==
  /\ file' = [file EXCEPT ![j] = s]
  /\ touched' = IF Listing THEN touched \cup {j} ELSE touched

----------------------------------------------------------------------------
(* Jobs started in the background, by an operator or by the run of a chain. *)

\* Slip of ReserveBackgroundTask: the flag is not looked at.
ReserveBackgroundTaskSlip == wg' = wg + 1

ReserveBackgroundTask ==
  /\ ~closed
  /\ wg' = wg + 1

StartAsync(j) ==
  /\ sched # "never"
  /\ file[j] = "none" /\ run[j] = "none"
  /\ ReserveBackgroundTask
  /\ run' = [run EXCEPT ![j] = "reserved"]
  /\ UNCHANGED <<shutdown, recovery, file, op, touched>>

\* Slip of SavePrepared: a failing save keeps the reservation.
SavePreparedSlip(j) ==
  /\ run[j] = "reserved"
  /\ \/ file' = [file EXCEPT ![j] = "ours"] /\ run' = [run EXCEPT ![j] = "launched"]
     \/ run' = [run EXCEPT ![j] = "none"] /\ UNCHANGED file
  /\ UNCHANGED <<shutdown, wg, recovery, op, touched>>

\* The prepared job is saved, or the reservation is given back.
SavePrepared(j) ==
  /\ run[j] = "reserved"
  /\ \/ /\ file' = [file EXCEPT ![j] = "ours"]
        /\ run' = [run EXCEPT ![j] = "launched"]
        /\ UNCHANGED wg
     \/ /\ run' = [run EXCEPT ![j] = "none"]
        /\ wg' = wg - 1
        /\ UNCHANGED file
  /\ UNCHANGED <<shutdown, recovery, op, touched>>

\* Slip of TaskEnds: the slot stays taken.
TaskEndsSlip(j) ==
  /\ run' = [run EXCEPT ![j] = "none"]
  /\ recovered' = [recovered EXCEPT ![j] = FALSE]
  /\ wg' = wg - 1
  /\ UNCHANGED <<shutdown, sched, queue, slots, op, touched>>

\* The task is over, a recovered one frees its slot.
TaskEnds(j) ==
  /\ run' = [run EXCEPT ![j] = "none"]
  /\ recovered' = [recovered EXCEPT ![j] = FALSE]
  /\ slots' = IF recovered[j] THEN slots - 1 ELSE slots
  /\ wg' = wg - 1
  /\ UNCHANGED <<shutdown, sched, queue, op, touched>>

RunSuppressed(j) ==
  /\ run[j] = "launched" /\ Claimed(j)
  /\ TaskEnds(j)
  /\ UNCHANGED file

\* The lease is taken on the copy the run was given, whatever the file says by now.
RunBegins(j) ==
  /\ run[j] = "launched" /\ ~Claimed(j)
  /\ run' = [run EXCEPT ![j] = "running"]
  /\ file' = [file EXCEPT ![j] = "ours"]
  /\ UNCHANGED <<shutdown, wg, recovery, op, touched>>

RunSaves(j) ==
  /\ run[j] = "running" /\ file[j] # "ours"
  /\ file' = [file EXCEPT ![j] = "ours"]
  /\ UNCHANGED <<shutdown, wg, recovery, run, op, touched>>

\* The run ends closed, done, or deserted; a cancelled context is one of the reasons.
RunEnds(j) ==
  /\ run[j] = "running"
  /\ run' = [run EXCEPT ![j] = "ending"]
  /\ \E s \in {"closed", "done", "nobodys"} : file' = [file EXCEPT ![j] = s]
  /\ UNCHANGED <<shutdown, wg, recovery, op, touched>>

RunReturns(j) ==
  /\ run[j] = "ending"
  /\ TaskEnds(j)
  /\ UNCHANGED file

----------------------------------------------------------------------------
(* Recovery, called once before the service is offered to anybody. *)

\* Without jobs to recover there is no scheduler.
RecoverJobs(q) ==
  /\ sched = "never"
  /\ queue' = q
  /\ \/ /\ q # <<>> /\ ReserveBackgroundTask
        /\ sched' = "waiting"
     \/ /\ q = <<>> \/ closed
        /\ sched' = "off"
        /\ UNCHANGED wg
  /\ UNCHANGED <<shutdown, slots, recovered, file, run, op, touched>>

TakeSlot ==
  /\ sched = "waiting" /\ slots < Slots
  /\ slots' = slots + 1
  /\ sched' = "holding"
  /\ UNCHANGED <<shutdown, wg, queue, recovered, file, run, op, touched>>

\* Launched in the order of the queue, until that is empty.
LaunchRecovered ==
  LET j == Head(queue) IN
  /\ sched = "holding" /\ ~closed
  /\ run' = [run EXCEPT ![j] = "launched"]
  /\ recovered' = [recovered EXCEPT ![j] = TRUE]
  /\ queue' = Tail(queue)
  /\ IF Tail(queue) = <<>> THEN sched' = "off" /\ UNCHANGED wg
                           ELSE sched' = "waiting" /\ wg' = wg + 1
  /\ UNCHANGED <<shutdown, slots, file, op, touched>>

\* A launch that is refused gives the slot back and ends the scheduler.
LaunchRefused ==
  /\ sched = "holding" /\ closed
  /\ slots' = slots - 1
  /\ sched' = "off"
  /\ wg' = wg - 1
  /\ UNCHANGED <<shutdown, queue, recovered, file, run, op, touched>>

----------------------------------------------------------------------------
(* Operators. *)

\* Cancel and Reject, also of a job that is queued, launched or running.
OperatorCloses(j) ==
  /\ sched # "never"
  /\ file[j] \in Busy
  /\ Writes(j, "closed")
  /\ UNCHANGED <<shutdown, wg, recovery, run, op>>

\* Retry, Resume and Approve of a closed job save it as the service's own; Resume
\* takes a busy job too, and leaves its file to the run ...
OperatorReopens(j) ==
  /\ sched # "never" /\ op[j] = "none"
  /\ \/ file[j] = "closed" /\ Writes(j, "ours")
     \/ file[j] \in Busy /\ UNCHANGED <<file, touched>>
  /\ op' = [op EXCEPT ![j] = "launched"]
  /\ UNCHANGED <<shutdown, wg, recovery, run>>

\* ... and their run follows in the caller's goroutine.
OperatorRunSuppressed(j) ==
  /\ op[j] = "launched" /\ Claimed(j)
  /\ op' = [op EXCEPT ![j] = "none"]
  /\ UNCHANGED <<shutdown, wg, recovery, file, run, touched>>

OperatorRunBegins(j) ==
  /\ op[j] = "launched" /\ ~Claimed(j)
  /\ op' = [op EXCEPT ![j] = "running"]
  /\ Writes(j, "ours")
  /\ UNCHANGED <<shutdown, wg, recovery, run>>

OperatorRunSaves(j) ==
  /\ op[j] = "running" /\ file[j] # "ours"
  /\ Writes(j, "ours")
  /\ UNCHANGED <<shutdown, wg, recovery, run, op>>

OperatorRunEnds(j) ==
  /\ op[j] = "running"
  /\ op' = [op EXCEPT ![j] = "ending"]
  /\ \E s \in {"closed", "done", "nobodys"} : Writes(j, s)
  /\ UNCHANGED <<shutdown, wg, recovery, run>>

OperatorRunReturns(j) ==
  /\ op[j] = "ending"
  /\ op' = [op EXCEPT ![j] = "none"]
  /\ UNCHANGED <<shutdown, wg, recovery, file, run, touched>>

----------------------------------------------------------------------------
(* Shutdown. *)

Close ==
  /\ stage = "serving" /\ sched # "never"
  /\ closed' = TRUE
  /\ stage' = "waiting"
  /\ UNCHANGED <<wg, recovery, file, run, op, listed, touched>>

\* When the wait group is empty, the jobs this service owns are listed ...
WaitThenList ==
  /\ stage = "waiting" /\ wg = 0
  /\ stage' = "sweeping"
  /\ listed' = {j \in Jobs : file[j] = "ours"}
  /\ UNCHANGED <<closed, wg, recovery, file, run, op, touched>>

\* Slip of InterruptOwned: a job that is still claimed is passed over.
InterruptOwnedSlip(j) ==
  /\ stage = "sweeping" /\ j \in listed
  /\ listed' = listed \ {j}
  /\ file' = IF Claimed(j) THEN file ELSE [file EXCEPT ![j] = "closed"]
  /\ touched' = touched \ {j}
  /\ UNCHANGED <<stage, closed, wg, recovery, run, op>>

\* ... and interrupted one by one, from the listed copies.
InterruptOwned(j) ==
  /\ stage = "sweeping" /\ j \in listed
  /\ listed' = listed \ {j}
  /\ file' = [file EXCEPT ![j] = "closed"]
  /\ touched' = touched \ {j}
  /\ UNCHANGED <<stage, closed, wg, recovery, run, op>>

Down ==
  /\ stage = "sweeping" /\ listed = {}
  /\ stage' = "down"
  /\ UNCHANGED <<closed, wg, recovery, file, run, op, listed, touched>>

----------------------------------------------------------------------------

\* The jobs an earlier process left busy, or some of them, oldest first.
RecoveryLists ==
  LET left == {j \in Jobs : file[j] = "theirs"} IN
  UNION {{q \in [1 .. n -> left] : \A i, k \in 1 .. n : q[i] = q[k] => i = k} :
           n \in 0 .. Cardinality(left)}

RunStep(j) == RunSuppressed(j) \/ RunBegins(j) \/ RunEnds(j) \/ RunReturns(j)

SchedulerStep == TakeSlot \/ LaunchRecovered \/ LaunchRefused

ShutdownStep ==
  \/ WaitThenList \/ Down
  \/ \E j \in Jobs : InterruptOwned(j)

OperatorStep(j) ==
  \/ OperatorCloses(j) \/ OperatorReopens(j)
  \/ OperatorRunSuppressed(j) \/ OperatorRunBegins(j) \/ OperatorRunSaves(j)
  \/ OperatorRunEnds(j) \/ OperatorRunReturns(j)

Next ==
  \/ \E q \in RecoveryLists : RecoverJobs(q)
  \/ \E j \in Jobs :
       StartAsync(j) \/ SavePrepared(j) \/ RunStep(j) \/ RunSaves(j) \/ OperatorStep(j)
  \/ SchedulerStep \/ Close \/ ShutdownStep

Spec == Init /\ [][Next]_vars

\* Goroutines are scheduled, saves return, a run whose context is cancelled ends
\* (JobLoop: CancelledRunEnds).  Nothing is assumed of operators and their runs.
Fairness ==
  /\ \A j \in Jobs : /\ WF_vars(SavePrepared(j))
                     /\ WF_vars(RunSuppressed(j) \/ RunBegins(j) \/ RunReturns(j))
                     /\ WF_vars(closed /\ RunEnds(j))
  /\ WF_vars(SchedulerStep)
  /\ WF_vars(ShutdownStep)

FairSpec == Spec /\ Fairness

----------------------------------------------------------------------------

\* The wait group counts the scheduler and every background run, so that Wait
\* returns when they are all gone and not before: a reservation whose save failed
\* is given back, a refused launch ends the scheduler.
WaitGroupExact ==
  wg = Cardinality({j \in Jobs : run[j] # "none"})
         + (IF sched \in {"waiting", "holding"} THEN 1 ELSE 0)

\* Once shutdown has stopped waiting, no background run and no scheduler is left,
\* and none ever comes again: not from recovery, not from a chain's next goal.
QuietAfterWait ==
  Listing => sched = "off" /\ \A j \in Jobs : run[j] = "none"

\* No more recovered jobs run at a time than the semaphore holds, and each of them
\* has a slot; the scheduler may hold one more for the next.
RecoveryBound ==
  /\ Cardinality({j \in Jobs : recovered[j]}) + (IF sched = "holding" THEN 1 ELSE 0) = slots
  /\ slots <= Slots

\* A service that is shut down owns no busy job, but for those that an operator's
\* call or run has saved after the sweep had listed or interrupted them.
NothingLeftOwned ==
  stage = "down" => \A j \in Jobs : file[j] = "ours" => j \in touched

\* Shutdown ends, though recovered jobs may still be queued for a slot.
ShutdownEnds == closed ~> stage = "down"
=============================================================================
