------------------------------- MODULE Chain -------------------------------
(***************************************************************************)
(* A chain of goals, each worked on by a job.  The chain is one file that  *)
(* is loaded and saved as a whole, without a lock, by the runs of its jobs *)
(* and by the operator; every access to a file is a step of its own, and   *)
(* what a caller has loaded is its copy.  Of a job, only what it tells its *)
(* chain is kept (see JobLifecycle).  The operator's chain controls come   *)
(* one at a time (mcp/server.go handles one request after the other).      *)
(***************************************************************************)
EXTENDS Naturals

CONSTANTS
  NumGoals,   \* goals of the chain
  MaxJobs     \* bound: jobs that may be prepared in all

ASSUME ChainAssumption == NumGoals \in Nat \ {0} /\ MaxJobs \in Nat \ {0}

Goals == 1 .. NumGoals
Jobs  == 1 .. MaxJobs
Operator == 0
Callers == Jobs \cup {Operator}

VARIABLES
  disk,     \* the chain file
  file,     \* status in each job's file
  own,      \* status in the copy that each job's run works on
  goalOf,   \* goal of each job (job.ChainGoalIndex), 0 before it is prepared
  at,       \* the step each caller takes next
  copy,     \* the chain each caller has loaded
  call,     \* the operator's control of the chain in progress, or "none"
  target,   \* the job the operator is cancelling, or 0
  clean     \* no caller has loaded the chain in the middle of another's call

jobs  == <<file, own, goalOf>>
asked == <<call, target>>
vars  == <<disk, jobs, at, copy, asked, clean>>

GoalStatus  == {"pending", "running", "done", "failed", "skipped"}
ChainStatus == {"running", "paused", "done", "failed", "cancelled"}
Closed == {"done", "failed", "cancelled"}
FileStatus  == {"none", "busy", "closed", "done"}   \* closed: blocked or failed

Controls == {"pause", "resume", "cancel", "skip"}

ChainRecord == [status : ChainStatus, index : Goals,
                goal : [Goals -> GoalStatus], job : [Goals -> Jobs \cup {0}]]

\* Steps in the middle of a call on the chain, with a copy of it in hand.
InCall == { "paused", "advance", "pass", "reload", "fail", "start", "launch", "mark",
            "look", "stop", "settle", "check" }

\* Overwriting a job that was loaded before is as bad.
Holding == InCall \cup {"withdraw"}
Waiting == {"idle", "none", "working", "complete", "tell", "told", "over"}

\* Every file, copy and step keeps its type.
TypeOK ==
  /\ disk \in ChainRecord
  /\ file \in [Jobs -> FileStatus] /\ own \in [Jobs -> FileStatus]
  /\ goalOf \in [Jobs -> Goals \cup {0}]
  /\ at \in [Callers -> Holding \cup Waiting]
  /\ copy \in [Callers -> ChainRecord]
  /\ call \in Controls \cup {"none"} /\ target \in Jobs \cup {0}
  /\ clean \in BOOLEAN

FirstStarted ==
  [ status |-> "running", index |-> 1,
    goal |-> [g \in Goals |-> IF g = 1 THEN "running" ELSE "pending"],
    job |-> [g \in Goals |-> IF g = 1 THEN 1 ELSE 0] ]

\* The copy of a caller that has none.
NoChain == FirstStarted

\* StartChain has saved the chain and prepared the first job.
Init ==
  /\ disk = FirstStarted
  /\ file = [j \in Jobs |-> "none"] /\ own = file
  /\ goalOf = [j \in Jobs |-> IF j = 1 THEN 1 ELSE 0]
  /\ at = [c \in Callers |-> IF c = Operator THEN "launch" ELSE "none"]
  /\ copy = [c \in Callers |-> FirstStarted]
  /\ call = "none" /\ target = 0
  /\ clean = TRUE

----------------------------------------------------------------------------
(* The chain file. *)

Goto(c, step) == at' = [at EXCEPT ![c] = step]
Hold(c, chain) == copy' = [copy EXCEPT ![c] = chain]

Proceed(c, step) == Goto(c, step) /\ UNCHANGED <<copy, asked>>

\* The call on the chain returns, and its copy is gone.
Leave(c) ==
  /\ Goto(c, IF c = Operator THEN "idle"
             ELSE IF at[c] \in {"tell", "mark"} THEN "told" ELSE "over")
  /\ Hold(c, NoChain)
  /\ IF c = Operator THEN call' = "none" /\ target' = 0 ELSE UNCHANGED asked

\* The chain is loaded; the caller goes on with it if it is in one of the states.
LoadIf(c, states, step) ==
  /\ IF disk.status \in states
     THEN Goto(c, step) /\ Hold(c, disk) /\ UNCHANGED asked
     ELSE Leave(c)
  /\ clean' = (clean /\ \A d \in Callers \ {c} : at[d] \notin Holding)
  /\ UNCHANGED <<disk, jobs>>

Save(c, chain, step) ==
  /\ disk' = chain
  /\ Goto(c, step) /\ Hold(c, chain)
  /\ UNCHANGED asked

SaveAndLeave(c, chain) == disk' = chain /\ Leave(c)

Settled(chain, g, result) == [chain EXCEPT !.goal[g] = result]
FailedWith(chain, g) == [Settled(chain, g, "failed") EXCEPT !.status = "failed"]

Current(c) == copy[c].index
CurrentJob(c) == copy[c].job[Current(c)]
CurrentFile(c) == IF CurrentJob(c) = 0 THEN "none" ELSE file[CurrentJob(c)]

----------------------------------------------------------------------------
(* advanceChain and startChainGoal, for runs and for the operator. *)

\* The job of the current goal is loaded; without its file the call fails.
Advance(c) ==
  /\ at[c] = "advance"
  /\ \/ CurrentFile(c) = "done" /\ Proceed(c, "pass")
     \/ CurrentFile(c) = "closed" /\ Proceed(c, "fail")
     \/ CurrentFile(c) \in {"none", "busy"} /\ Leave(c)
  /\ UNCHANGED <<disk, jobs, clean>>

PassGoal(c) ==
  /\ at[c] = "pass"
  /\ LET passed == Settled(copy[c], Current(c), "done")
     IN  IF Current(c) = NumGoals
         THEN SaveAndLeave(c, [passed EXCEPT !.status = "done"])
         ELSE Save(c, passed, "reload")
  /\ UNCHANGED <<jobs, clean>>

FailGoal(c) ==
  /\ at[c] = "fail"
  /\ SaveAndLeave(c, FailedWith(copy[c], Current(c)))
  /\ UNCHANGED <<jobs, clean>>

\* The chain is loaded again before its next goal is started.
Reload(c) == at[c] = "reload" /\ LoadIf(c, {"running"}, "start")

NewJob(j) == goalOf[j] = 0 /\ \A i \in 1 .. j - 1 : goalOf[i] # 0

\* Slip: the goal that was just settled is started once more.
RepeatedStart(c) ==
  /\ at[c] = "start" /\ Current(c) < NumGoals
  /\ LET g == Current(c)
     IN  \E j \in Jobs :
           /\ NewJob(j)
           /\ goalOf' = [goalOf EXCEPT ![j] = g]
           /\ Save(c, [Settled(copy[c], g, "running") EXCEPT
                         !.status = "running", !.index = g, !.job[g] = j], "launch")
  /\ UNCHANGED <<file, own, clean>>

\* The next goal gets a job of its own.  MaxJobs bounds how many there may be.
StartGoal(c) ==
  /\ at[c] = "start" /\ Current(c) < NumGoals
  /\ LET g == Current(c) + 1
     IN  \E j \in Jobs :
           /\ NewJob(j)
           /\ goalOf' = [goalOf EXCEPT ![j] = g]
           /\ Save(c, [Settled(copy[c], g, "running") EXCEPT
                         !.status = "running", !.index = g, !.job[g] = j], "launch")
  /\ UNCHANGED <<file, own, clean>>

\* The job cannot be prepared, or there is no next goal.
StartFails(c) ==
  /\ at[c] = "start"
  /\ IF Current(c) < NumGoals
     THEN SaveAndLeave(c, FailedWith(copy[c], Current(c) + 1))
     ELSE Leave(c) /\ UNCHANGED disk
  /\ UNCHANGED <<jobs, clean>>

SetJob(j, status) ==
  /\ own' = [own EXCEPT ![j] = status]
  /\ file' = [file EXCEPT ![j] = status]
  /\ UNCHANGED goalOf

Launch(c) ==
  /\ at[c] = "launch"
  /\ SetJob(CurrentJob(c), "busy")
  /\ at' = [at EXCEPT ![c] = IF c = Operator THEN "idle" ELSE "over",
                      ![CurrentJob(c)] = "working"]
  /\ Hold(c, NoChain)
  /\ IF c = Operator THEN call' = "none" /\ target' = 0 ELSE UNCHANGED asked
  /\ UNCHANGED <<disk, clean>>

\* The service is shutting down, or the job cannot be saved.
LaunchRefused(c) ==
  /\ at[c] = "launch"
  /\ SaveAndLeave(c, FailedWith(copy[c], Current(c)))
  /\ UNCHANGED <<jobs, clean>>

----------------------------------------------------------------------------
(* handleChainTerminalState, for runs and for an operator who cancels a job. *)

Tell(c) == at[c] = "tell" /\ LoadIf(c, ChainStatus \ Closed, "mark")

\* Slip: the goal of the job fails, and the chain goes on.
MildMark(c) ==
  /\ at[c] = "mark"
  /\ SaveAndLeave(c, Settled(copy[c], goalOf[IF c = Operator THEN target ELSE c], "failed"))
  /\ UNCHANGED <<jobs, clean>>

\* It is the goal of the job that fails, current or not, and the whole chain.
Mark(c) ==
  /\ at[c] = "mark"
  /\ SaveAndLeave(c, FailedWith(copy[c], goalOf[IF c = Operator THEN target ELSE c]))
  /\ UNCHANGED <<jobs, clean>>

----------------------------------------------------------------------------
(* The run of a job. *)

\* A run saves its own copy of the job, whatever the file says by now.
Progress(j) ==
  /\ at[j] = "working"
  /\ SetJob(j, "busy")
  /\ UNCHANGED <<disk, at, copy, asked, clean>>

Complete(j) ==
  /\ at[j] = "working"
  /\ SetJob(j, "done")
  /\ Proceed(j, "complete")
  /\ UNCHANGED <<disk, clean>>

Close(j) ==
  /\ at[j] = "working"
  /\ SetJob(j, "closed")
  /\ Proceed(j, "tell")
  /\ UNCHANGED <<disk, clean>>

\* A fan-out or a refused evaluation may end the run without a word to the chain,
\* with its job closed or stranded.
CloseQuietly(j) ==
  /\ at[j] = "working"
  /\ \E status \in {"busy", "closed"} : SetJob(j, status)
  /\ Proceed(j, "over")
  /\ UNCHANGED <<disk, clean>>

\* Having told the chain of a failure, a run may go on all the same.
GoOn(j) ==
  /\ at[j] = "told"
  /\ own' = [own EXCEPT ![j] = "busy"]
  /\ Proceed(j, "working")
  /\ UNCHANGED <<disk, file, goalOf, clean>>

\* finalizeJobLease saves the run's copy once more.
Finish(j) ==
  /\ at[j] \in {"told", "over"}
  /\ SetJob(j, own[j])
  /\ Proceed(j, "none")
  /\ UNCHANGED <<disk, clean>>

\* Slip: every chain that is not paused is advanced.
AdvanceAnyChain(j) ==
  /\ at[j] = "complete"
  /\ IF disk.status = "paused"
     THEN LoadIf(j, {"paused"}, "paused")
     ELSE LoadIf(j, ChainStatus, "advance")

HandleCompletion(j) ==
  /\ at[j] = "complete"
  /\ IF disk.status = "paused"
     THEN LoadIf(j, {"paused"}, "paused")
     ELSE LoadIf(j, {"running"}, "advance")

\* The chain is paused: only the job's goal is recorded.
RecordWhilePaused(j) ==
  /\ at[j] = "paused"
  /\ SaveAndLeave(j, Settled(copy[j], goalOf[j], "done"))
  /\ UNCHANGED <<jobs, clean>>

----------------------------------------------------------------------------
(* The operator. *)

\* Resume and Retry of a job: its run begins again.  The load, the save and the claim
\* of the run are one step here (JobStore has them apart), and a call that meets a live
\* run is left out: it starts no other.
Restart(j) ==
  /\ at[Operator] = "idle" /\ at[j] = "none"
  /\ file[j] \in {"busy", "closed"}
  /\ SetJob(j, "busy")
  /\ Proceed(j, "working")
  /\ UNCHANGED <<disk, clean>>

\* Cancel of a job: loaded, overwritten, and the chain is told.  Its run goes on.
Withdraw(j) ==
  /\ at[Operator] = "idle" /\ file[j] \notin {"none", "done"}
  /\ target' = j
  /\ Goto(Operator, "withdraw")
  /\ UNCHANGED <<disk, jobs, copy, call, clean>>

WithdrawJob ==
  /\ at[Operator] = "withdraw"
  /\ file' = [file EXCEPT ![target] = "closed"]
  /\ Proceed(Operator, "tell")
  /\ UNCHANGED <<disk, own, goalOf, clean>>

Control(which) ==
  /\ at[Operator] = "idle" /\ disk.status \notin Closed
  /\ Goto(Operator, IF which \in {"cancel", "skip"} THEN "look" ELSE "settle")
  /\ Hold(Operator, disk)
  /\ call' = which
  /\ clean' = (clean /\ \A j \in Jobs : at[j] \notin Holding)
  /\ UNCHANGED <<disk, jobs, target>>

\* interruptChainGoalJob; the call fails if the job of the goal has no file yet.
LookAtJob ==
  /\ at[Operator] = "look"
  /\ \/ CurrentFile(Operator) = "busy" /\ Proceed(Operator, "stop")
     \/ CurrentFile(Operator) \in {"closed", "done"} /\ Proceed(Operator, "settle")
     \/ CurrentFile(Operator) = "none" /\ Leave(Operator)
  /\ UNCHANGED <<disk, jobs, clean>>

StopJob ==
  /\ at[Operator] = "stop"
  /\ file' = [file EXCEPT ![CurrentJob(Operator)] = "closed"]
  /\ Proceed(Operator, "settle")
  /\ UNCHANGED <<disk, own, goalOf, clean>>

Settling(which) ==
  at[Operator] = "settle" /\ call = which /\ UNCHANGED <<jobs, clean>>

PauseChain ==
  /\ Settling("pause")
  /\ SaveAndLeave(Operator, [copy[Operator] EXCEPT !.status = "paused"])

ResumeChain ==
  /\ Settling("resume")
  /\ Save(Operator, [copy[Operator] EXCEPT !.status = "running"], "check")

\* Slip: a goal that completed while the chain was paused is not noticed.
ForgetfulCheck ==
  /\ at[Operator] = "check"
  /\ Leave(Operator)
  /\ UNCHANGED <<disk, jobs, clean>>

\* A goal that completed while the chain was paused is advanced at once.
CheckCurrentGoal ==
  /\ at[Operator] = "check"
  /\ IF copy[Operator].goal[Current(Operator)] = "done" \/ CurrentFile(Operator) = "done"
     THEN Proceed(Operator, "advance")
     ELSE Leave(Operator)
  /\ UNCHANGED <<disk, jobs, clean>>

CancelChain ==
  /\ Settling("cancel")
  /\ LET chain == copy[Operator]
         g == Current(Operator)
         closed == IF chain.goal[g] \in {"pending", "running"}
                   THEN Settled(chain, g, "failed") ELSE chain
     IN  SaveAndLeave(Operator, [closed EXCEPT !.status = "cancelled"])

\* Slip: the goal that is skipped is not marked.
UnmarkedSkip ==
  /\ Settling("skip")
  /\ IF Current(Operator) = NumGoals
     THEN SaveAndLeave(Operator, [copy[Operator] EXCEPT !.status = "done"])
     ELSE Save(Operator, [copy[Operator] EXCEPT !.status = "running"], "start")

SkipChainGoal ==
  /\ Settling("skip")
  /\ LET skipped == Settled(copy[Operator], Current(Operator), "skipped")
     IN  IF Current(Operator) = NumGoals
         THEN SaveAndLeave(Operator, [skipped EXCEPT !.status = "done"])
         ELSE Save(Operator, [skipped EXCEPT !.status = "running"], "start")

----------------------------------------------------------------------------

\* What a caller does without waiting for anybody.
Handle(c) ==
  \/ Advance(c) \/ PassGoal(c) \/ FailGoal(c) \/ Reload(c)
  \/ StartGoal(c) \/ StartFails(c) \/ Launch(c) \/ LaunchRefused(c)
  \/ Tell(c) \/ Mark(c)

RunHandles(j) == Handle(j) \/ HandleCompletion(j) \/ RecordWhilePaused(j)

OperatorHandles ==
  \/ Handle(Operator) \/ WithdrawJob \/ LookAtJob \/ StopJob
  \/ PauseChain \/ ResumeChain \/ CheckCurrentGoal \/ CancelChain \/ SkipChainGoal

RunWorks(j) ==
  Progress(j) \/ Complete(j) \/ Close(j) \/ CloseQuietly(j) \/ GoOn(j) \/ Finish(j)

OperatorAsks ==
  (\E j \in Jobs : Restart(j) \/ Withdraw(j)) \/ \E which \in Controls : Control(which)

Next ==
  \/ \E j \in Jobs : RunHandles(j) \/ RunWorks(j)
  \/ OperatorHandles \/ OperatorAsks

Spec == Init /\ [][Next]_vars

\* File accesses return, and their caller goes on at once.
FairSpec ==
  /\ Spec
  /\ \A j \in Jobs : WF_vars(RunHandles(j))
  /\ WF_vars(OperatorHandles)

----------------------------------------------------------------------------
(* What holds as long as every call on the chain is over before the next one *)
(* loads it.  Nothing in the code enforces that: the calls are short.        *)

\* Goals are taken in order: those before the current one are settled, those after
\* it have not been touched, through pauses, skips, restarts of jobs and runs that
\* outlive their goal.  (Such a run may fail a chain that is past its goal.)
GoalsInOrder ==
  clean /\ disk.status # "failed" =>
    /\ \A g \in 1 .. disk.index - 1 : disk.goal[g] \in {"done", "skipped"}
    /\ \A g \in disk.index + 1 .. NumGoals : disk.goal[g] = "pending" /\ disk.job[g] = 0

\* No goal is worked on twice: the operator who resumes a chain and the run that
\* completes a goal both advance it, but never both the same goal.
OneJobPerGoal ==
  clean => \A i, j \in Jobs : i # j /\ goalOf[i] # 0 => goalOf[i] # goalOf[j]

\* A goal is recorded as done only when a job of this goal has completed, whichever
\* caller records it and whatever the chain's state is at the time.
DoneGoalHasDoneJob ==
  [][clean' => \A g \in Goals : disk.goal[g] # "done" /\ disk'.goal[g] = "done" =>
                 \E j \in Jobs : goalOf[j] = g /\ own[j] = "done"]_vars

\* Nobody changes a chain that is done, failed or cancelled, though runs of its jobs
\* go on and still report to it.
ClosedIsFinal == [][clean' /\ disk.status \in Closed => disk' = disk]_vars

\* The goals with a job that has completed, as its run knows it.
CompletedGoals == {g \in Goals : \E j \in Jobs : goalOf[j] = g /\ own[j] = "done"}

Sequence == INSTANCE GoalSequence WITH
  status <- disk.status, index <- disk.index, goal <- disk.goal,
  completed <- CompletedGoals, orderly <- clean

\* The chain file tells the story of a chain whose callers never see one another: every
\* save by a run or by the operator is one step of the promised sequence of goals.
KeepsSequence == Sequence!Spec

(* What the documents say without that proviso. *)

\* "cancelled is terminal for the chain and prevents later advancement": a chain
\* that is cancelled gets no further job.  A caller in the middle of starting the
\* next goal saves the copy it loaded before.
CancelledStartsNothing == [][disk.status = "cancelled" => goalOf' = goalOf]_vars

(* Liveness. *)

\* A completed job does not leave its chain standing: if its own run found the chain
\* paused, resuming the chain advances it.
MovesOn ==
  \A g \in Goals :
    (disk.status = "running" /\ disk.index = g /\ disk.job[g] # 0 /\ own[disk.job[g]] = "done")
      ~> (disk.status # "running" \/ disk.index # g \/ ~clean)
=============================================================================
