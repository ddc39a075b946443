---------------------------- MODULE Chain_proofs ----------------------------
(***************************************************************************)
(* Proofs about Chain, for every number of goals and of jobs.              *)
(***************************************************************************)
EXTENDS Chain, TLAPS

----------------------------------------------------------------------------
(* The inductive invariant.  Order rests on whoever is in a call on the      *)
(* chain being alone there with a copy that is still what the file says.     *)

AloneInCall ==
  clean => \A c \in Callers : at[c] \in InCall =>
             /\ copy[c] = disk /\ disk.status \notin Closed
             /\ \A d \in Callers \ {c} : at[d] \notin InCall

\* No job belongs to a goal the chain has not reached.
GoalsReached == clean => \A j \in Jobs : goalOf[j] <= disk.index

\* The next goal is started only from a goal that is settled.
StartsFromSettled ==
  clean => \A c \in Callers :
    at[c] \in {"reload", "start"} => disk.goal[disk.index] \in {"done", "skipped"}

Order == GoalsReached /\ StartsFromSettled /\ GoalsInOrder /\ OneJobPerGoal

----------------------------------------------------------------------------
(* What the helpers return. *)

LEMMA SettledType ==
  ASSUME NEW chain \in ChainRecord, NEW g, NEW result \in GoalStatus
  PROVE  Settled(chain, g, result) \in ChainRecord
  BY DEF ChainRecord, Settled

LEMMA StatusType ==
  ASSUME NEW chain \in ChainRecord, NEW status \in ChainStatus
  PROVE  [chain EXCEPT !.status = status] \in ChainRecord
  BY DEF ChainRecord

LEMMA FailedWithType ==
  ASSUME NEW chain \in ChainRecord, NEW g
  PROVE  FailedWith(chain, g) \in ChainRecord
  BY SettledType, StatusType DEF FailedWith, GoalStatus, ChainStatus

LEMMA StartedType ==
  ASSUME NEW chain \in ChainRecord, NEW g \in Goals, NEW j \in Jobs
  PROVE  [Settled(chain, g, "running") EXCEPT
            !.status = "running", !.index = g, !.job[g] = j] \in ChainRecord
  BY DEF ChainRecord, Settled, GoalStatus, ChainStatus

LEMMA FirstType == FirstStarted \in ChainRecord
  BY ChainAssumption DEF ChainRecord, FirstStarted, GoalStatus, ChainStatus, Goals, Jobs

\* The part of the type that a caller's step through a call changes.
CallerOK ==
  /\ at \in [Callers -> Holding \cup Waiting]
  /\ copy \in [Callers -> ChainRecord]
  /\ call \in Controls \cup {"none"} /\ target \in Jobs \cup {0}

LEMMA LeaveType ==
  ASSUME TypeOK, NEW c \in Callers, Leave(c)
  PROVE  CallerOK'
  BY FirstType DEF Operator, TypeOK, CallerOK, Leave, Goto, Hold, NoChain, Waiting, asked

LEMMA ProceedType ==
  ASSUME TypeOK, NEW c \in Callers, NEW step \in Holding \cup Waiting, Proceed(c, step)
  PROVE  CallerOK'
  BY DEF TypeOK, CallerOK, Proceed, Goto, asked

LEMMA SaveType ==
  ASSUME TypeOK, NEW c \in Callers, NEW step \in Holding \cup Waiting,
         NEW chain \in ChainRecord, Save(c, chain, step)
  PROVE  CallerOK' /\ disk' \in ChainRecord
  BY DEF TypeOK, CallerOK, Save, Goto, Hold, asked

LEMMA SaveAndLeaveType ==
  ASSUME TypeOK, NEW c \in Callers, NEW chain \in ChainRecord, SaveAndLeave(c, chain)
  PROVE  CallerOK' /\ disk' \in ChainRecord
  BY LeaveType DEF SaveAndLeave

LEMMA LoadIfType ==
  ASSUME TypeOK, NEW c \in Callers, NEW states, NEW step \in Holding \cup Waiting,
         LoadIf(c, states, step)
  PROVE  TypeOK'
<1>1. CallerOK'
  <2>1. CASE disk.status \in states
    BY <2>1 DEF TypeOK, CallerOK, LoadIf, Goto, Hold, asked
  <2>2. CASE disk.status \notin states
    BY <2>2, LeaveType DEF LoadIf
  <2> QED BY <2>1, <2>2
<1> QED
  BY <1>1 DEF TypeOK, CallerOK, LoadIf, jobs

LEMMA SetJobType ==
  ASSUME TypeOK, NEW j, NEW status \in FileStatus, SetJob(j, status)
  PROVE  /\ file' \in [Jobs -> FileStatus] /\ own' \in [Jobs -> FileStatus]
         /\ goalOf' \in [Jobs -> Goals \cup {0}]
  BY DEF TypeOK, SetJob

----------------------------------------------------------------------------
(* Type correctness. *)

LEMMA InitType == Init => TypeOK
  BY ChainAssumption, FirstType
  DEF Init, TypeOK, Goals, Jobs, Callers, Operator, FileStatus, Holding, InCall, Waiting

LEMMA CopyType ==
  ASSUME TypeOK, NEW c \in Callers
  PROVE  /\ copy[c] \in ChainRecord
         /\ Current(c) \in Goals
         /\ Current(c) < NumGoals => Current(c) + 1 \in Goals
  BY ChainAssumption DEF TypeOK, ChainRecord, Current, Goals

LEMMA HandleType ==
  ASSUME TypeOK, NEW c \in Callers, Handle(c)
  PROVE  TypeOK'
<1>0. /\ copy[c] \in ChainRecord
      /\ Current(c) \in Goals
      /\ Current(c) < NumGoals => Current(c) + 1 \in Goals
      /\ {"done", "running", "failed", "skipped"} \subseteq GoalStatus
      /\ {"pass", "fail", "start", "launch", "reload", "mark"} \subseteq Holding \cup Waiting
  BY CopyType DEF GoalStatus, Holding, InCall
<1>1. CASE Advance(c)
  <2>1. CallerOK'
    BY <1>0, <1>1, LeaveType, ProceedType DEF Advance
  <2> QED BY <1>1, <2>1 DEF Advance, TypeOK, CallerOK, jobs
<1>2. CASE PassGoal(c)
  <2> DEFINE passed == Settled(copy[c], Current(c), "done")
  <2>1. passed \in ChainRecord /\ [passed EXCEPT !.status = "done"] \in ChainRecord
    BY <1>0, SettledType, StatusType DEF ChainStatus
  <2>2. CallerOK' /\ disk' \in ChainRecord
    BY <1>0, <1>2, <2>1, SaveType, SaveAndLeaveType DEF PassGoal
  <2> QED BY <1>2, <2>2 DEF PassGoal, TypeOK, CallerOK, jobs
<1>3. CASE FailGoal(c)
  <2>1. CallerOK' /\ disk' \in ChainRecord
    BY <1>0, <1>3, FailedWithType, SaveAndLeaveType DEF FailGoal
  <2> QED BY <1>3, <2>1 DEF FailGoal, TypeOK, CallerOK, jobs
<1>4. CASE Reload(c)
  BY <1>0, <1>4, LoadIfType DEF Reload
<1>5. CASE StartGoal(c)
  <2>1. PICK j \in Jobs :
          /\ goalOf' = [goalOf EXCEPT ![j] = Current(c) + 1]
          /\ Save(c, [Settled(copy[c], Current(c) + 1, "running") EXCEPT
                        !.status = "running", !.index = Current(c) + 1,
                        !.job[Current(c) + 1] = j], "launch")
    BY <1>5 DEF StartGoal
  <2>2. Current(c) + 1 \in Goals
    BY <1>0, <1>5 DEF StartGoal
  <2>3. CallerOK' /\ disk' \in ChainRecord
    BY <1>0, <2>1, <2>2, StartedType, SaveType
  <2>4. goalOf' \in [Jobs -> Goals \cup {0}]
    BY <2>1, <2>2 DEF TypeOK
  <2> QED BY <1>5, <2>3, <2>4 DEF StartGoal, TypeOK, CallerOK
<1>6. CASE StartFails(c)
  <2>1. CallerOK' /\ disk' \in ChainRecord
    <3>1. CASE Current(c) < NumGoals
      BY <1>0, <1>6, <3>1, FailedWithType, SaveAndLeaveType DEF StartFails
    <3>2. CASE ~(Current(c) < NumGoals)
      BY <1>6, <3>2, LeaveType DEF StartFails, TypeOK
    <3> QED BY <3>1, <3>2
  <2> QED BY <1>6, <2>1 DEF StartFails, TypeOK, CallerOK, jobs
<1>7. CASE Launch(c)
  <2>1. CallerOK'
    BY <1>7, FirstType DEF Launch, Hold, NoChain, TypeOK, CallerOK, Waiting, asked
  <2>2. /\ file' \in [Jobs -> FileStatus] /\ own' \in [Jobs -> FileStatus]
        /\ goalOf' \in [Jobs -> Goals \cup {0}]
    BY <1>7, SetJobType DEF Launch, FileStatus
  <2> QED BY <1>7, <2>1, <2>2 DEF Launch, TypeOK, CallerOK
<1>8. CASE LaunchRefused(c)
  <2>1. CallerOK' /\ disk' \in ChainRecord
    BY <1>0, <1>8, FailedWithType, SaveAndLeaveType DEF LaunchRefused
  <2> QED BY <1>8, <2>1 DEF LaunchRefused, TypeOK, CallerOK, jobs
<1>9. CASE Tell(c)
  BY <1>0, <1>9, LoadIfType DEF Tell
<1>10. CASE Mark(c)
  <2>1. CallerOK' /\ disk' \in ChainRecord
    BY <1>0, <1>10, FailedWithType, SaveAndLeaveType DEF Mark
  <2> QED BY <1>10, <2>1 DEF Mark, TypeOK, CallerOK, jobs
<1> QED
  BY <1>1, <1>2, <1>3, <1>4, <1>5, <1>6, <1>7, <1>8, <1>9, <1>10 DEF Handle

LEMMA RunType ==
  ASSUME TypeOK, NEW j \in Jobs, RunWorks(j) \/ HandleCompletion(j) \/ RecordWhilePaused(j)
  PROVE  TypeOK'
<1>0. /\ j \in Callers
      /\ {"complete", "tell", "over", "working", "none", "paused", "advance"}
           \subseteq Holding \cup Waiting
      /\ {"busy", "closed", "done"} \subseteq FileStatus
      /\ own[j] \in FileStatus
      /\ copy[j] \in ChainRecord
  BY CopyType DEF Callers, Holding, InCall, Waiting, FileStatus, TypeOK
<1> DEFINE JobsOK == /\ file \in [Jobs -> FileStatus] /\ own \in [Jobs -> FileStatus]
                     /\ goalOf \in [Jobs -> Goals \cup {0}]
<1>1. CASE Progress(j)
  <2>1. JobsOK'
    BY <1>0, <1>1, SetJobType DEF Progress
  <2> QED BY <1>1, <2>1 DEF Progress, TypeOK, asked
<1>2. CASE Complete(j)
  <2>1. JobsOK' /\ CallerOK'
    BY <1>0, <1>2, SetJobType, ProceedType DEF Complete
  <2> QED BY <1>2, <2>1 DEF Complete, TypeOK, CallerOK
<1>3. CASE Close(j)
  <2>1. JobsOK' /\ CallerOK'
    BY <1>0, <1>3, SetJobType, ProceedType DEF Close
  <2> QED BY <1>3, <2>1 DEF Close, TypeOK, CallerOK
<1>4. CASE CloseQuietly(j)
  <2>1. JobsOK' /\ CallerOK'
    BY <1>0, <1>4, SetJobType, ProceedType DEF CloseQuietly
  <2> QED BY <1>4, <2>1 DEF CloseQuietly, TypeOK, CallerOK
<1>5. CASE GoOn(j)
  <2>1. CallerOK'
    BY <1>0, <1>5, ProceedType DEF GoOn
  <2> QED BY <1>0, <1>5, <2>1 DEF GoOn, TypeOK, CallerOK
<1>6. CASE Finish(j)
  <2>1. JobsOK' /\ CallerOK'
    BY <1>0, <1>6, SetJobType, ProceedType DEF Finish
  <2> QED BY <1>6, <2>1 DEF Finish, TypeOK, CallerOK
<1>7. CASE HandleCompletion(j)
  BY <1>0, <1>7, LoadIfType DEF HandleCompletion
<1>8. CASE RecordWhilePaused(j)
  <2>1. CallerOK' /\ disk' \in ChainRecord
    BY <1>0, <1>8, SettledType, SaveAndLeaveType DEF RecordWhilePaused, GoalStatus
  <2> QED BY <1>8, <2>1 DEF RecordWhilePaused, TypeOK, CallerOK, jobs
<1> QED
  BY <1>1, <1>2, <1>3, <1>4, <1>5, <1>6, <1>7, <1>8 DEF RunWorks

LEMMA OperatorType ==
  ASSUME TypeOK, OperatorAsks \/ (OperatorHandles /\ ~Handle(Operator))
  PROVE  TypeOK'
<1>0. /\ Operator \in Callers
      /\ {"look", "settle", "stop", "check", "advance", "start", "tell", "withdraw",
          "working", "idle"} \subseteq Holding \cup Waiting
      /\ {"busy", "closed", "done"} \subseteq FileStatus
      /\ {"running", "paused", "done", "cancelled"} \subseteq ChainStatus
      /\ {"skipped", "failed"} \subseteq GoalStatus
      /\ copy[Operator] \in ChainRecord
  BY CopyType DEF Callers, Holding, InCall, Waiting, FileStatus, GoalStatus, ChainStatus
<1> DEFINE chain == copy[Operator]
           g == Current(Operator)
<1>1. CASE \E j \in Jobs : Restart(j)
  <2>1. PICK j \in Jobs : Restart(j)
    BY <1>1
  <2>2. j \in Callers
    BY DEF Callers
  <2>3. CallerOK'
    BY <1>0, <2>1, <2>2, ProceedType DEF Restart
  <2>4. /\ file' \in [Jobs -> FileStatus] /\ own' \in [Jobs -> FileStatus]
        /\ goalOf' \in [Jobs -> Goals \cup {0}]
    BY <1>0, <2>1, SetJobType DEF Restart
  <2> QED BY <2>1, <2>3, <2>4 DEF Restart, TypeOK, CallerOK
<1>2. CASE \E j \in Jobs : Withdraw(j)
  BY <1>0, <1>2 DEF Withdraw, Goto, TypeOK, jobs
<1>3. CASE \E which \in Controls : Control(which)
  BY <1>0, <1>3 DEF Control, Goto, Hold, TypeOK, jobs
<1>4. CASE WithdrawJob
  <2>1. CallerOK'
    BY <1>0, <1>4, ProceedType DEF WithdrawJob
  <2> QED BY <1>0, <1>4, <2>1 DEF WithdrawJob, TypeOK, CallerOK
<1>5. CASE LookAtJob
  <2>1. CallerOK'
    BY <1>0, <1>5, ProceedType, LeaveType DEF LookAtJob
  <2> QED BY <1>5, <2>1 DEF LookAtJob, TypeOK, CallerOK, jobs
<1>6. CASE StopJob
  <2>1. CallerOK'
    BY <1>0, <1>6, ProceedType DEF StopJob
  <2> QED BY <1>0, <1>6, <2>1 DEF StopJob, TypeOK, CallerOK
<1>7. CASE PauseChain
  <2>1. CallerOK' /\ disk' \in ChainRecord
    BY <1>0, <1>7, StatusType, SaveAndLeaveType DEF PauseChain
  <2> QED BY <1>7, <2>1 DEF PauseChain, Settling, TypeOK, CallerOK, jobs
<1>8. CASE ResumeChain
  <2>1. CallerOK' /\ disk' \in ChainRecord
    BY <1>0, <1>8, StatusType, SaveType DEF ResumeChain
  <2> QED BY <1>8, <2>1 DEF ResumeChain, Settling, TypeOK, CallerOK, jobs
<1>9. CASE CheckCurrentGoal
  <2>1. CallerOK'
    BY <1>0, <1>9, ProceedType, LeaveType DEF CheckCurrentGoal
  <2> QED BY <1>9, <2>1 DEF CheckCurrentGoal, TypeOK, CallerOK, jobs
<1>10. CASE CancelChain
  <2> DEFINE closed == IF chain.goal[g] \in {"pending", "running"}
                       THEN Settled(chain, g, "failed") ELSE chain
  <2>1. [closed EXCEPT !.status = "cancelled"] \in ChainRecord
    BY <1>0, StatusType, SettledType
  <2>2. CallerOK' /\ disk' \in ChainRecord
    BY <1>0, <1>10, <2>1, SaveAndLeaveType DEF CancelChain
  <2> QED BY <1>10, <2>2 DEF CancelChain, Settling, TypeOK, CallerOK, jobs
<1>11. CASE SkipChainGoal
  <2> DEFINE skipped == Settled(chain, g, "skipped")
  <2>1. /\ [skipped EXCEPT !.status = "done"] \in ChainRecord
        /\ [skipped EXCEPT !.status = "running"] \in ChainRecord
    BY <1>0, StatusType, SettledType
  <2>2. CallerOK' /\ disk' \in ChainRecord
    BY <1>0, <1>11, <2>1, SaveType, SaveAndLeaveType DEF SkipChainGoal
  <2> QED BY <1>11, <2>2 DEF SkipChainGoal, Settling, TypeOK, CallerOK, jobs
<1> QED
  BY <1>1, <1>2, <1>3, <1>4, <1>5, <1>6, <1>7, <1>8, <1>9, <1>10, <1>11
  DEF OperatorAsks, OperatorHandles

LEMMA StepType == TypeOK /\ [Next]_vars => TypeOK'
<1> SUFFICES ASSUME TypeOK, [Next]_vars PROVE TypeOK'
  OBVIOUS
<1>1. CASE \E c \in Callers : Handle(c)
  BY <1>1, HandleType
<1>2. CASE \E j \in Jobs : RunWorks(j) \/ HandleCompletion(j) \/ RecordWhilePaused(j)
  BY <1>2, RunType
<1>3. CASE OperatorAsks \/ (OperatorHandles /\ ~Handle(Operator))
  BY <1>3, OperatorType
<1>4. CASE UNCHANGED vars
  BY <1>4 DEF vars, jobs, asked, TypeOK
<1> QED
  BY <1>1, <1>2, <1>3, <1>4 DEF Next, RunHandles, Callers, Operator

\* Every file, copy and step keeps its type, however the callers interleave.
THEOREM ChainTypeCorrect == Spec => []TypeOK
<1>1. Init => TypeOK
  BY InitType
<1>2. TypeOK /\ [Next]_vars => TypeOK'
  BY StepType
<1> QED
  BY <1>1, <1>2, PTL DEF Spec

----------------------------------------------------------------------------
(* A caller in a call on the chain is alone there.                            *)

\* What a step of c may do about calls: nobody else enters one, only who is in a
\* call saves the chain, and who enters or stays in one has what the file says.
OrderlyStep(c) ==
  /\ clean' => clean
  /\ \A d \in Callers \ {c} : at'[d] \in InCall => at[d] \in InCall /\ copy'[d] = copy[d]
  /\ disk' # disk => at[c] \in InCall
  /\ clean' /\ at'[c] \in InCall =>
       /\ copy'[c] = disk' /\ disk'.status \notin Closed
       /\ at[c] \in InCall \/ \A d \in Callers \ {c} : at[d] \notin InCall

LEMMA OrderlyKeepsAlone ==
  ASSUME AloneInCall, NEW c \in Callers, OrderlyStep(c)
  PROVE  AloneInCall'
  BY DEF AloneInCall, OrderlyStep

LEMMA LeaveOrderly ==
  ASSUME TypeOK, NEW c \in Callers, Leave(c), clean' => clean,
         disk' # disk => at[c] \in InCall
  PROVE  OrderlyStep(c) /\ at'[c] \notin InCall
  BY DEF OrderlyStep, Leave, Goto, Hold, InCall, TypeOK

LEMMA ProceedOrderly ==
  ASSUME TypeOK, AloneInCall, NEW c \in Callers, NEW step, Proceed(c, step),
         UNCHANGED <<disk, clean>>, step \in InCall => at[c] \in InCall
  PROVE  OrderlyStep(c)
  BY DEF OrderlyStep, Proceed, Goto, TypeOK, AloneInCall

LEMMA SaveOrderly ==
  ASSUME TypeOK, NEW c \in Callers, NEW step, NEW chain, Save(c, chain, step),
         chain.status \notin Closed, at[c] \in InCall, UNCHANGED clean
  PROVE  OrderlyStep(c)
  BY DEF OrderlyStep, Save, Goto, Hold, TypeOK

LEMMA LoadIfOrderly ==
  ASSUME TypeOK, NEW c \in Callers, NEW states, NEW step, LoadIf(c, states, step),
         states \cap Closed = {} \/ disk.status \notin Closed
  PROVE  OrderlyStep(c)
<1>1. CASE disk.status \in states
  BY <1>1 DEF OrderlyStep, LoadIf, Goto, Hold, TypeOK, Holding
<1>2. CASE disk.status \notin states
  BY <1>2, LeaveOrderly DEF LoadIf
<1> QED BY <1>1, <1>2

LEMMA SaveAndLeaveOrderly ==
  ASSUME TypeOK, NEW c \in Callers, NEW chain, SaveAndLeave(c, chain),
         at[c] \in InCall, UNCHANGED clean
  PROVE  OrderlyStep(c) /\ at'[c] \notin InCall
  BY LeaveOrderly DEF SaveAndLeave

LEMMA HandleOrderly ==
  ASSUME TypeOK, AloneInCall, NEW c \in Callers, Handle(c)
  PROVE  AloneInCall'
<1>0. \A status \in {"running", "paused"} : status \notin Closed
  BY DEF Closed
<1>1. CASE Advance(c)
  BY <1>1, ProceedOrderly, LeaveOrderly, OrderlyKeepsAlone DEF Advance, InCall
<1>2. CASE PassGoal(c)
  <2>1. CASE Current(c) = NumGoals
    BY <1>2, <2>1, SaveAndLeaveOrderly, OrderlyKeepsAlone DEF PassGoal, InCall
  <2>2. CASE Current(c) # NumGoals
    <3> DEFINE passed == Settled(copy[c], Current(c), "done")
    <3>1. at[c] \in InCall /\ Save(c, passed, "reload") /\ UNCHANGED clean
      BY <1>2, <2>2 DEF PassGoal, InCall
    <3>2. passed.status = copy[c].status
      BY CopyType DEF Settled, ChainRecord
    <3>3. CASE clean
      BY <3>1, <3>2, <3>3, SaveOrderly, OrderlyKeepsAlone DEF AloneInCall
    <3> QED BY <3>1, <3>3 DEF AloneInCall
  <2> QED BY <2>1, <2>2
<1>3. CASE FailGoal(c)
  BY <1>3, SaveAndLeaveOrderly, OrderlyKeepsAlone DEF FailGoal, InCall
<1>4. CASE Reload(c)
  BY <1>4, LoadIfOrderly, OrderlyKeepsAlone DEF Reload, Closed
<1>5. CASE StartGoal(c)
  <2>1. PICK chain :
          chain.status = "running" /\ Save(c, chain, "launch")
    <3>1. PICK j \in Jobs :
            Save(c, [Settled(copy[c], Current(c) + 1, "running") EXCEPT
                       !.status = "running", !.index = Current(c) + 1,
                       !.job[Current(c) + 1] = j], "launch")
      BY <1>5 DEF StartGoal
    <3> QED BY <3>1, CopyType DEF Settled, ChainRecord
  <2> QED
    BY <1>5, <2>1, <1>0, SaveOrderly, OrderlyKeepsAlone
    DEF StartGoal, InCall
<1>6. CASE StartFails(c)
  BY <1>6, SaveAndLeaveOrderly, LeaveOrderly, OrderlyKeepsAlone DEF StartFails, InCall
<1>7. CASE Launch(c)
  <2>1. OrderlyStep(c)
    BY <1>7 DEF Launch, Hold, OrderlyStep, TypeOK, InCall
  <2> QED BY <2>1, OrderlyKeepsAlone
<1>8. CASE LaunchRefused(c)
  BY <1>8, SaveAndLeaveOrderly, OrderlyKeepsAlone DEF LaunchRefused, InCall
<1>9. CASE Tell(c)
  BY <1>9, LoadIfOrderly, OrderlyKeepsAlone DEF Tell
<1>10. CASE Mark(c)
  BY <1>10, SaveAndLeaveOrderly, OrderlyKeepsAlone DEF Mark, InCall
<1> QED
  BY <1>1, <1>2, <1>3, <1>4, <1>5, <1>6, <1>7, <1>8, <1>9, <1>10 DEF Handle

LEMMA RunOrderly ==
  ASSUME TypeOK, AloneInCall, NEW j \in Jobs,
         RunWorks(j) \/ HandleCompletion(j) \/ RecordWhilePaused(j)
  PROVE  AloneInCall'
<1>0. j \in Callers
  BY DEF Callers
<1>1. CASE Progress(j)
  BY <1>1 DEF Progress, AloneInCall, asked
<1>2. CASE Complete(j)
  BY <1>0, <1>2, ProceedOrderly, OrderlyKeepsAlone DEF Complete, InCall
<1>3. CASE Close(j)
  BY <1>0, <1>3, ProceedOrderly, OrderlyKeepsAlone DEF Close, InCall
<1>4. CASE CloseQuietly(j)
  BY <1>0, <1>4, ProceedOrderly, OrderlyKeepsAlone DEF CloseQuietly, InCall
<1>5. CASE GoOn(j)
  BY <1>0, <1>5, ProceedOrderly, OrderlyKeepsAlone DEF GoOn, InCall
<1>6. CASE Finish(j)
  BY <1>0, <1>6, ProceedOrderly, OrderlyKeepsAlone DEF Finish, InCall
<1>7. CASE HandleCompletion(j)
  BY <1>0, <1>7, LoadIfOrderly, OrderlyKeepsAlone DEF HandleCompletion, Closed
<1>8. CASE RecordWhilePaused(j)
  BY <1>0, <1>8, SaveAndLeaveOrderly, OrderlyKeepsAlone DEF RecordWhilePaused, InCall
<1> QED
  BY <1>1, <1>2, <1>3, <1>4, <1>5, <1>6, <1>7, <1>8 DEF RunWorks

LEMMA OperatorOrderly ==
  ASSUME TypeOK, AloneInCall, OperatorAsks \/ (OperatorHandles /\ ~Handle(Operator))
  PROVE  AloneInCall'
<1>0. Operator \in Callers /\ \A status \in {"running", "paused"} : status \notin Closed
  BY DEF Callers, Closed
<1>1. CASE \E j \in Jobs : Restart(j)
  <2>1. PICK j \in Jobs : Restart(j)
    BY <1>1
  <2>2. j \in Callers
    BY DEF Callers
  <2> QED BY <2>1, <2>2, ProceedOrderly, OrderlyKeepsAlone DEF Restart, InCall
<1>2. CASE \E j \in Jobs : Withdraw(j)
  <2>1. OrderlyStep(Operator)
    BY <1>2 DEF Withdraw, Goto, OrderlyStep, TypeOK, InCall
  <2> QED BY <1>0, <2>1, OrderlyKeepsAlone
<1>3. CASE \E which \in Controls : Control(which)
  <2>1. OrderlyStep(Operator)
    BY <1>0, <1>3 DEF Control, Goto, Hold, OrderlyStep, TypeOK, Callers, Operator, Holding, Jobs
  <2> QED BY <1>0, <2>1, OrderlyKeepsAlone
<1>4. CASE WithdrawJob
  BY <1>0, <1>4, ProceedOrderly, OrderlyKeepsAlone DEF WithdrawJob, InCall
<1>5. CASE LookAtJob
  BY <1>0, <1>5, ProceedOrderly, LeaveOrderly, OrderlyKeepsAlone DEF LookAtJob, InCall
<1>6. CASE StopJob
  BY <1>0, <1>6, ProceedOrderly, OrderlyKeepsAlone DEF StopJob, InCall
<1>7. CASE PauseChain
  BY <1>0, <1>7, SaveAndLeaveOrderly, OrderlyKeepsAlone DEF PauseChain, Settling, InCall
<1>8. CASE ResumeChain
  <2> DEFINE chain == [copy[Operator] EXCEPT !.status = "running"]
  <2>1. chain.status = "running"
    BY <1>0, CopyType DEF ChainRecord
  <2> QED
    BY <1>0, <1>8, <2>1, SaveOrderly, OrderlyKeepsAlone DEF ResumeChain, Settling, InCall
<1>9. CASE CheckCurrentGoal
  BY <1>0, <1>9, ProceedOrderly, LeaveOrderly, OrderlyKeepsAlone
  DEF CheckCurrentGoal, InCall
<1>10. CASE CancelChain
  BY <1>0, <1>10, SaveAndLeaveOrderly, OrderlyKeepsAlone DEF CancelChain, Settling, InCall
<1>11. CASE SkipChainGoal
  <2> DEFINE skipped == Settled(copy[Operator], Current(Operator), "skipped")
             chain == [skipped EXCEPT !.status = "running"]
  <2>1. chain.status = "running"
    BY <1>0, CopyType DEF ChainRecord, Settled
  <2> QED
    BY <1>0, <1>11, <2>1, SaveOrderly, SaveAndLeaveOrderly, OrderlyKeepsAlone
    DEF SkipChainGoal, Settling, InCall
<1> QED
  BY <1>1, <1>2, <1>3, <1>4, <1>5, <1>6, <1>7, <1>8, <1>9, <1>10, <1>11
  DEF OperatorAsks, OperatorHandles

LEMMA InitAlone == Init => AloneInCall
  BY DEF Init, AloneInCall, Callers, Operator, InCall, FirstStarted, Closed

LEMMA StepAlone == TypeOK /\ AloneInCall /\ [Next]_vars => AloneInCall'
<1> SUFFICES ASSUME TypeOK, AloneInCall, [Next]_vars PROVE AloneInCall'
  OBVIOUS
<1>1. CASE \E c \in Callers : Handle(c)
  BY <1>1, HandleOrderly
<1>2. CASE \E j \in Jobs : RunWorks(j) \/ HandleCompletion(j) \/ RecordWhilePaused(j)
  BY <1>2, RunOrderly
<1>3. CASE OperatorAsks \/ (OperatorHandles /\ ~Handle(Operator))
  BY <1>3, OperatorOrderly
<1>4. CASE UNCHANGED vars
  BY <1>4 DEF vars, AloneInCall
<1> QED
  BY <1>1, <1>2, <1>3, <1>4 DEF Next, RunHandles, Callers, Operator

\* Only who is in a call on the chain saves it.
LEMMA OnlyCallersSave ==
  ASSUME TypeOK, [Next]_vars, disk' # disk
  PROVE  \E c \in Callers : at[c] \in InCall
<1>1. ASSUME NEW c \in Callers, Handle(c)
      PROVE  at[c] \in InCall
  BY <1>1 DEF Handle, Advance, PassGoal, FailGoal, Reload, StartGoal,
     StartFails, Launch, LaunchRefused, Tell, Mark, LoadIf, InCall
<1>2. ASSUME NEW j \in Jobs, RunWorks(j) \/ HandleCompletion(j) \/ RecordWhilePaused(j)
      PROVE  at[j] \in InCall
  BY <1>2 DEF RunWorks, Progress, Complete, Close, CloseQuietly, GoOn, Finish,
     HandleCompletion, RecordWhilePaused, LoadIf, InCall
<1>3. ASSUME OperatorAsks \/ (OperatorHandles /\ ~Handle(Operator))
      PROVE  at[Operator] \in InCall
  BY <1>3 DEF OperatorAsks, OperatorHandles, Restart, Withdraw, Control, WithdrawJob,
     LookAtJob, StopJob, Settling, PauseChain, ResumeChain, CheckCurrentGoal,
     CancelChain, SkipChainGoal, InCall
<1> QED
  BY <1>1, <1>2, <1>3 DEF Next, RunHandles, Callers, Operator, vars

\* Once disturbed, always disturbed.
LEMMA CleanBefore ==
  ASSUME [Next]_vars, clean'
  PROVE  clean
<1>1. ASSUME NEW c \in Callers, Handle(c)
      PROVE  clean
  BY <1>1 DEF Handle, Advance, PassGoal, FailGoal, Reload, StartGoal,
     StartFails, Launch, LaunchRefused, Tell, Mark, LoadIf
<1>2. ASSUME NEW j \in Jobs, RunWorks(j) \/ HandleCompletion(j) \/ RecordWhilePaused(j)
      PROVE  clean
  BY <1>2 DEF RunWorks, Progress, Complete, Close, CloseQuietly, GoOn, Finish,
     HandleCompletion, RecordWhilePaused, LoadIf
<1>3. ASSUME OperatorAsks \/ (OperatorHandles /\ ~Handle(Operator))
      PROVE  clean
  BY <1>3 DEF OperatorAsks, OperatorHandles, Restart, Withdraw, Control, WithdrawJob,
     LookAtJob, StopJob, Settling, PauseChain, ResumeChain, CheckCurrentGoal,
     CancelChain, SkipChainGoal
<1> QED
  BY <1>1, <1>2, <1>3 DEF Next, RunHandles, Callers, Operator, vars

\* Nobody changes a chain that is done, failed or cancelled, as long as every call on
\* it is over before the next one loads it.
THEOREM ClosedStaysClosed == Spec => ClosedIsFinal
<1>1. Init => TypeOK /\ AloneInCall
  BY InitType, InitAlone
<1>2. TypeOK /\ AloneInCall /\ [Next]_vars => (TypeOK /\ AloneInCall)'
  BY StepType, StepAlone
<1>3. TypeOK /\ AloneInCall /\ [Next]_vars =>
        [clean' /\ disk.status \in Closed => disk' = disk]_vars
  BY OnlyCallersSave, CleanBefore DEF AloneInCall
<1> QED
  BY <1>1, <1>2, <1>3, PTL DEF Spec, ClosedIsFinal

----------------------------------------------------------------------------
(* Goals are taken in order, one job each.                                    *)

\* A chain saved in place of old: what is before the current goal stays settled, what
\* is after it untouched, unless the chain fails.
SameGoals(chain, old) ==
  /\ chain.index = old.index
  /\ chain.status # "failed" =>
       /\ \A g \in 1 .. old.index - 1 : chain.goal[g] \in {"done", "skipped", old.goal[g]}
       /\ \A g \in old.index + 1 .. NumGoals :
            chain.goal[g] = old.goal[g] /\ chain.job[g] = old.job[g]

LEMMA NothingSaved ==
  ASSUME Order, clean' => clean, UNCHANGED <<disk, goalOf>>,
         \A c \in Callers : at'[c] \in {"reload", "start"} => at[c] \in {"reload", "start"}
  PROVE  Order'
  BY DEF Order, GoalsReached, StartsFromSettled, GoalsInOrder, OneJobPerGoal

LEMMA SavedInOrder ==
  ASSUME TypeOK, AloneInCall, Order, NEW c \in Callers, at[c] \in InCall,
         NEW chain, disk' = chain, SameGoals(chain, copy[c]), UNCHANGED <<goalOf, clean>>,
         \A d \in Callers \ {c} : at'[d] = at[d],
         at'[c] \in {"reload", "start"} => chain.goal[chain.index] \in {"done", "skipped"}
  PROVE  Order'
<1>1. CASE ~clean
  BY <1>1 DEF Order, GoalsReached, StartsFromSettled, GoalsInOrder, OneJobPerGoal
<1>2. CASE clean
  <2>1. /\ copy[c] = disk /\ disk.status # "failed" /\ disk.index \in Goals
        /\ \A d \in Callers \ {c} : at[d] \notin {"reload", "start"}
    BY <1>2 DEF AloneInCall, Closed, InCall, TypeOK, ChainRecord
  <2>2. GoalsReached' /\ OneJobPerGoal'
    BY <1>2, <2>1 DEF Order, GoalsReached, OneJobPerGoal, SameGoals
  <2>3. StartsFromSettled'
    BY <1>2, <2>1 DEF StartsFromSettled
  <2>4. GoalsInOrder'
    BY <1>2, <2>1 DEF Order, GoalsInOrder, SameGoals
  <2> QED BY <2>2, <2>3, <2>4 DEF Order
<1> QED BY <1>1, <1>2

LEMMA LeaveFrame ==
  ASSUME TypeOK, NEW c \in Callers, Leave(c)
  PROVE  /\ at'[c] \in {"idle", "told", "over"}
         /\ \A d \in Callers \ {c} : at'[d] = at[d]
  BY DEF Leave, Goto, TypeOK

LEMMA GotoFrame ==
  ASSUME TypeOK, NEW c \in Callers, NEW step, Goto(c, step)
  PROVE  at'[c] = step /\ \A d \in Callers \ {c} : at'[d] = at[d]
  BY DEF Goto, TypeOK

LEMMA LeftInOrder ==
  ASSUME TypeOK, Order, NEW c \in Callers, Leave(c), clean' => clean,
         UNCHANGED <<disk, goalOf>>
  PROVE  Order'
  BY LeaveFrame, NothingSaved

LEMMA ProceededInOrder ==
  ASSUME TypeOK, Order, NEW c \in Callers, NEW step, Proceed(c, step), clean' => clean,
         UNCHANGED <<disk, goalOf>>, step \notin {"reload", "start"}
  PROVE  Order'
  BY GotoFrame, NothingSaved DEF Proceed

LEMMA LoadedInOrder ==
  ASSUME TypeOK, Order, NEW c \in Callers, NEW states, NEW step, LoadIf(c, states, step),
         step \notin {"reload", "start"}
  PROVE  Order'
  BY LeaveFrame, GotoFrame, NothingSaved DEF LoadIf, jobs

LEMMA SavedAndLeftInOrder ==
  ASSUME TypeOK, AloneInCall, Order, NEW c \in Callers, at[c] \in InCall,
         NEW chain, SaveAndLeave(c, chain), SameGoals(chain, copy[c]),
         UNCHANGED <<goalOf, clean>>
  PROVE  Order'
  BY LeaveFrame, SavedInOrder DEF SaveAndLeave

LEMMA FailedSame ==
  ASSUME NEW old \in ChainRecord, NEW g
  PROVE  SameGoals(FailedWith(old, g), old)
  BY DEF SameGoals, FailedWith, Settled, ChainRecord

\* The current goal or an earlier one is done or skipped, and the status changes.
LEMMA SettledSame ==
  ASSUME NEW old \in ChainRecord, NEW g \in Nat, g <= old.index,
         NEW result, g = old.index \/ result \in {"done", "skipped"}, NEW status
  PROVE  /\ SameGoals(Settled(old, g, result), old)
         /\ SameGoals([Settled(old, g, result) EXCEPT !.status = status], old)
         /\ SameGoals([old EXCEPT !.status = status], old)
<1>1. /\ old.index \in Goals /\ old.goal \in [Goals -> GoalStatus]
      /\ \A h \in 1 .. old.index - 1 : h \in Goals /\ h < old.index
      /\ \A h \in old.index + 1 .. NumGoals : h \in Goals /\ h > old.index
  BY ChainAssumption DEF ChainRecord, Goals
<1>2. \A h \in Goals : h # g => Settled(old, g, result).goal[h] = old.goal[h]
  BY <1>1 DEF Settled, ChainRecord
<1>3. g \in Goals => Settled(old, g, result).goal[g] = result
  BY <1>1 DEF Settled, ChainRecord
<1>4. /\ Settled(old, g, result).index = old.index
      /\ Settled(old, g, result).job = old.job
  BY DEF Settled, ChainRecord
<1>5. ASSUME NEW chain, chain.index = old.index, chain.job = old.job,
             chain.goal = Settled(old, g, result).goal
      PROVE  SameGoals(chain, old)
  <2>1. \A h \in 1 .. old.index - 1 : chain.goal[h] \in {"done", "skipped", old.goal[h]}
    BY <1>1, <1>2, <1>3, <1>5 DEF Goals
  <2>2. \A h \in old.index + 1 .. NumGoals : chain.goal[h] = old.goal[h]
    BY <1>1, <1>2, <1>5 DEF Goals
  <2> QED BY <1>5, <2>1, <2>2 DEF SameGoals
<1> DEFINE saved == [Settled(old, g, result) EXCEPT !.status = status]
<1>6. /\ saved.index = old.index /\ saved.job = old.job
      /\ saved.goal = Settled(old, g, result).goal
  BY <1>4 DEF Settled, ChainRecord
<1>7. SameGoals(Settled(old, g, result), old) /\ SameGoals(saved, old)
  BY <1>4, <1>5, <1>6
<1>8. SameGoals([old EXCEPT !.status = status], old)
  BY <1>1 DEF SameGoals, ChainRecord
<1> QED BY <1>7, <1>8

LEMMA CurrentSettled ==
  ASSUME NEW old \in ChainRecord, NEW result, NEW status
  PROVE  LET chain == Settled(old, old.index, result)
         IN  /\ chain.goal[chain.index] = result
             /\ [chain EXCEPT !.status = status].goal[chain.index] = result
             /\ [chain EXCEPT !.status = status].index = chain.index
  BY DEF Settled, ChainRecord

LEMMA DisturbedInOrder ==
  ASSUME ~clean'
  PROVE  Order'
  BY DEF Order, GoalsReached, StartsFromSettled, GoalsInOrder, OneJobPerGoal

LEMMA StartInOrder ==
  ASSUME TypeOK, AloneInCall, Order, NEW c \in Callers, StartGoal(c)
  PROVE  Order'
<1>1. CASE ~clean
  BY <1>1, DisturbedInOrder DEF StartGoal
<1>2. CASE clean
  <2> DEFINE g == disk.index + 1
  <2>1. /\ copy[c] = disk /\ disk.status # "failed" /\ disk \in ChainRecord
        /\ \A d \in Callers \ {c} : at[d] \notin {"reload", "start"}
    BY <1>2 DEF StartGoal, AloneInCall, Closed, InCall, TypeOK
  <2>2. PICK j \in Jobs :
          /\ NewJob(j)
          /\ goalOf' = [goalOf EXCEPT ![j] = g]
          /\ Save(c, [Settled(disk, g, "running") EXCEPT
                        !.status = "running", !.index = g, !.job[g] = j], "launch")
    BY <2>1 DEF StartGoal, Current
  <2>3. /\ g \in Goals /\ disk.index \in Goals /\ goalOf \in [Jobs -> Goals \cup {0}]
        /\ disk.index < NumGoals
    BY <2>1, CopyType DEF StartGoal, Current, TypeOK
  <2>4. /\ disk'.index = g
        /\ \A h \in Goals \ {g} : disk'.goal[h] = disk.goal[h] /\ disk'.job[h] = disk.job[h]
    BY <2>1, <2>2, <2>3 DEF Save, Settled, ChainRecord
  <2>5. \A i \in Jobs : goalOf[i] <= disk.index
    BY <1>2 DEF Order, GoalsReached
  <2>6. GoalsReached'
    BY <2>2, <2>3, <2>4, <2>5 DEF GoalsReached, Goals
  <2>7. OneJobPerGoal'
    <3>1. ASSUME NEW i \in Jobs, NEW k \in Jobs, i # k, goalOf'[i] # 0,
                 goalOf'[i] = goalOf'[k]
          PROVE  FALSE
      <4>1. i # j /\ k # j
        BY <2>2, <2>3, <2>5, <3>1 DEF Goals
      <4> QED BY <1>2, <2>2, <2>3, <3>1, <4>1 DEF Order, OneJobPerGoal
    <3> QED BY <3>1 DEF OneJobPerGoal
  <2>8. StartsFromSettled'
    <3>1. at'[c] = "launch" /\ \A d \in Callers \ {c} : at'[d] = at[d]
      BY <2>2, GotoFrame DEF Save
    <3> QED BY <2>1, <3>1 DEF StartsFromSettled
  <2>9. GoalsInOrder'
    <3>1. disk.goal[disk.index] \in {"done", "skipped"}
      BY <1>2 DEF Order, StartsFromSettled, StartGoal
    <3>2. ASSUME NEW h \in 1 .. g - 1
          PROVE  disk'.goal[h] \in {"done", "skipped"}
      <4>1. h \in Goals \ {g} /\ (h = disk.index \/ h \in 1 .. disk.index - 1)
        BY ChainAssumption, <2>3, <3>2 DEF Goals
      <4> QED BY <1>2, <2>1, <2>4, <3>1, <4>1 DEF Order, GoalsInOrder
    <3>3. ASSUME NEW h \in g + 1 .. NumGoals
          PROVE  disk'.goal[h] = "pending" /\ disk'.job[h] = 0
      <4>1. h \in Goals \ {g} /\ h \in disk.index + 1 .. NumGoals
        BY ChainAssumption, <2>3, <3>3 DEF Goals
      <4> QED BY <1>2, <2>1, <2>4, <4>1 DEF Order, GoalsInOrder
    <3> QED BY <2>4, <3>2, <3>3 DEF GoalsInOrder
  <2> QED BY <2>6, <2>7, <2>8, <2>9 DEF Order
<1> QED BY <1>1, <1>2

LEMMA HandledInOrder ==
  ASSUME TypeOK, AloneInCall, Order, NEW c \in Callers, Handle(c)
  PROVE  Order'
<1>0. /\ copy[c] \in ChainRecord
      /\ Current(c) \in Nat /\ Current(c) = copy[c].index /\ Current(c) <= copy[c].index
  BY CopyType DEF Current, Goals
<1>1. CASE Advance(c)
  BY <1>1, ProceededInOrder, LeftInOrder DEF Advance, jobs
<1>2. CASE PassGoal(c)
  <2> DEFINE passed == Settled(copy[c], Current(c), "done")
  <2>1. /\ SameGoals(passed, copy[c])
        /\ SameGoals([passed EXCEPT !.status = "done"], copy[c])
    BY <1>0, SettledSame
  <2>2. at[c] \in InCall /\ UNCHANGED <<goalOf, clean>>
    BY <1>2 DEF PassGoal, jobs, InCall
  <2>3. CASE Current(c) = NumGoals
    BY <1>2, <2>1, <2>2, <2>3, SavedAndLeftInOrder DEF PassGoal
  <2>4. CASE Current(c) # NumGoals
    <3>1. disk' = passed /\ Goto(c, "reload")
      BY <1>2, <2>4 DEF PassGoal, Save
    <3>2. passed.goal[passed.index] = "done"
      BY <1>0, CurrentSettled
    <3>3. at'[c] = "reload" /\ \A d \in Callers \ {c} : at'[d] = at[d]
      BY <3>1, GotoFrame
    <3> HIDE DEF passed
    <3> QED BY <2>1, <2>2, <3>1, <3>2, <3>3, SavedInOrder
  <2> QED BY <2>3, <2>4
<1>3. CASE FailGoal(c)
  BY <1>0, <1>3, FailedSame, SavedAndLeftInOrder DEF FailGoal, jobs, InCall
<1>4. CASE Reload(c)
  <2>1. /\ UNCHANGED <<disk, goalOf>> /\ (clean' => clean) /\ at[c] = "reload"
        /\ \A d \in Callers \ {c} : at'[d] = at[d]
    BY <1>4, LeaveFrame, GotoFrame DEF Reload, LoadIf, jobs
  <2> QED BY <2>1, NothingSaved
<1>5. CASE StartGoal(c)
  BY <1>5, StartInOrder
<1>6. CASE StartFails(c)
  <2>1. CASE Current(c) < NumGoals
    BY <1>0, <1>6, <2>1, FailedSame, SavedAndLeftInOrder DEF StartFails, jobs, InCall
  <2>2. CASE ~(Current(c) < NumGoals)
    BY <1>6, <2>2, LeftInOrder DEF StartFails, jobs
  <2> QED BY <2>1, <2>2
<1>7. CASE Launch(c)
  <2>1. \A d \in Callers : at'[d] \in {"reload", "start"} => at[d] \in {"reload", "start"}
    BY <1>7 DEF Launch, TypeOK
  <2> QED BY <1>7, <2>1, NothingSaved DEF Launch, SetJob
<1>8. CASE LaunchRefused(c)
  BY <1>0, <1>8, FailedSame, SavedAndLeftInOrder DEF LaunchRefused, jobs, InCall
<1>9. CASE Tell(c)
  BY <1>9, LoadedInOrder DEF Tell
<1>10. CASE Mark(c)
  BY <1>0, <1>10, FailedSame, SavedAndLeftInOrder DEF Mark, jobs, InCall
<1> QED
  BY <1>1, <1>2, <1>3, <1>4, <1>5, <1>6, <1>7, <1>8, <1>9, <1>10 DEF Handle

LEMMA RunInOrder ==
  ASSUME TypeOK, AloneInCall, Order, NEW j \in Jobs,
         RunWorks(j) \/ HandleCompletion(j) \/ RecordWhilePaused(j)
  PROVE  Order'
<1>0. j \in Callers
  BY DEF Callers
<1>1. CASE Progress(j)
  BY <1>1, NothingSaved DEF Progress, SetJob
<1>2. CASE Complete(j)
  BY <1>0, <1>2, ProceededInOrder DEF Complete, SetJob
<1>3. CASE Close(j)
  BY <1>0, <1>3, ProceededInOrder DEF Close, SetJob
<1>4. CASE CloseQuietly(j)
  BY <1>0, <1>4, ProceededInOrder DEF CloseQuietly, SetJob
<1>5. CASE GoOn(j)
  BY <1>0, <1>5, ProceededInOrder DEF GoOn
<1>6. CASE Finish(j)
  BY <1>0, <1>6, ProceededInOrder DEF Finish, SetJob
<1>7. CASE HandleCompletion(j)
  BY <1>0, <1>7, LoadedInOrder DEF HandleCompletion
<1>8. CASE RecordWhilePaused(j)
  <2>1. CASE ~clean
    BY <1>8, <2>1, DisturbedInOrder DEF RecordWhilePaused
  <2>2. CASE clean
    <3>1. goalOf[j] <= copy[j].index
      BY <1>0, <1>8, <2>2 DEF RecordWhilePaused, InCall, AloneInCall, Order, GoalsReached
    <3>2. SameGoals(Settled(copy[j], goalOf[j], "done"), copy[j])
      <4>1. copy[j] \in ChainRecord /\ goalOf[j] \in Nat
        BY <1>0, CopyType DEF TypeOK, Goals
      <4> QED BY <3>1, <4>1, SettledSame
    <3>3. /\ at[j] \in InCall /\ UNCHANGED <<goalOf, clean>>
          /\ SaveAndLeave(j, Settled(copy[j], goalOf[j], "done"))
      BY <1>8 DEF RecordWhilePaused, jobs, InCall
    <3> QED
      BY <1>0, <3>2, <3>3, SavedAndLeftInOrder
  <2> QED BY <2>1, <2>2
<1> QED
  BY <1>1, <1>2, <1>3, <1>4, <1>5, <1>6, <1>7, <1>8 DEF RunWorks

LEMMA OperatorInOrder ==
  ASSUME TypeOK, AloneInCall, Order, OperatorAsks \/ (OperatorHandles /\ ~Handle(Operator))
  PROVE  Order'
<1> DEFINE chain == copy[Operator]
           g == Current(Operator)
<1>0. /\ Operator \in Callers /\ chain \in ChainRecord
      /\ g \in Nat /\ g = chain.index /\ g <= chain.index
  BY CopyType DEF Callers, Current, Goals
<1>1. CASE \E j \in Jobs : Restart(j)
  <2>1. PICK j \in Jobs : Restart(j)
    BY <1>1
  <2>2. j \in Callers
    BY DEF Callers
  <2> QED BY <2>1, <2>2, ProceededInOrder DEF Restart, SetJob
<1>2. CASE \E j \in Jobs : Withdraw(j)
  <2>1. at'[Operator] = "withdraw" /\ \A d \in Callers \ {Operator} : at'[d] = at[d]
    BY <1>0, <1>2, GotoFrame DEF Withdraw
  <2> QED BY <1>2, <2>1, NothingSaved DEF Withdraw, jobs
<1>3. CASE \E which \in Controls : Control(which)
  <2>1. /\ at'[Operator] \in {"look", "settle"}
        /\ \A d \in Callers \ {Operator} : at'[d] = at[d]
    BY <1>0, <1>3, GotoFrame DEF Control
  <2> QED BY <1>3, <2>1, NothingSaved DEF Control, jobs
<1>4. CASE WithdrawJob
  BY <1>0, <1>4, ProceededInOrder DEF WithdrawJob
<1>5. CASE LookAtJob
  BY <1>0, <1>5, ProceededInOrder, LeftInOrder DEF LookAtJob, jobs
<1>6. CASE StopJob
  BY <1>0, <1>6, ProceededInOrder DEF StopJob
<1>7. CASE PauseChain
  <2>1. SameGoals([chain EXCEPT !.status = "paused"], chain)
    BY <1>0, SettledSame
  <2> QED
    BY <1>0, <1>7, <2>1, SavedAndLeftInOrder DEF PauseChain, Settling, jobs, InCall
<1>8. CASE ResumeChain
  <2> DEFINE resumed == [chain EXCEPT !.status = "running"]
  <2>1. SameGoals(resumed, chain)
    BY <1>0, SettledSame
  <2>2. at[Operator] \in InCall /\ UNCHANGED <<goalOf, clean>>
    BY <1>8 DEF ResumeChain, Settling, jobs, InCall
  <2>3. /\ disk' = resumed /\ at'[Operator] = "check"
        /\ \A d \in Callers \ {Operator} : at'[d] = at[d]
    BY <1>0, <1>8, GotoFrame DEF ResumeChain, Save
  <2> HIDE DEF resumed
  <2> QED BY <1>0, <2>1, <2>2, <2>3, SavedInOrder
<1>9. CASE CheckCurrentGoal
  BY <1>0, <1>9, ProceededInOrder, LeftInOrder DEF CheckCurrentGoal, jobs
<1>10. CASE CancelChain
  <2>1. /\ SameGoals([chain EXCEPT !.status = "cancelled"], chain)
        /\ SameGoals([Settled(chain, g, "failed") EXCEPT !.status = "cancelled"], chain)
    BY <1>0, SettledSame
  <2>2. CASE chain.goal[g] \in {"pending", "running"}
    BY <1>0, <1>10, <2>1, <2>2, SavedAndLeftInOrder
    DEF CancelChain, Settling, jobs, InCall
  <2>3. CASE chain.goal[g] \notin {"pending", "running"}
    BY <1>0, <1>10, <2>1, <2>3, SavedAndLeftInOrder
    DEF CancelChain, Settling, jobs, InCall
  <2> QED BY <2>2, <2>3
<1>11. CASE SkipChainGoal
  <2> DEFINE skipped == Settled(chain, g, "skipped")
             last == [skipped EXCEPT !.status = "done"]
             next == [skipped EXCEPT !.status = "running"]
  <2>1. SameGoals(last, chain) /\ SameGoals(next, chain)
    BY <1>0, SettledSame
  <2>2. at[Operator] \in InCall /\ UNCHANGED <<goalOf, clean>>
    BY <1>11 DEF SkipChainGoal, Settling, jobs, InCall
  <2>3. CASE g = NumGoals
    BY <1>0, <1>11, <2>1, <2>2, <2>3, SavedAndLeftInOrder DEF SkipChainGoal
  <2>4. CASE g # NumGoals
    <3>1. /\ disk' = next /\ at'[Operator] = "start"
          /\ \A d \in Callers \ {Operator} : at'[d] = at[d]
      BY <1>0, <1>11, <2>4, GotoFrame DEF SkipChainGoal, Save
    <3>2. next.goal[next.index] = "skipped"
      BY <1>0, CurrentSettled
    <3> HIDE DEF next
    <3> QED BY <1>0, <2>1, <2>2, <3>1, <3>2, SavedInOrder
  <2> QED BY <2>3, <2>4
<1> QED
  BY <1>1, <1>2, <1>3, <1>4, <1>5, <1>6, <1>7, <1>8, <1>9, <1>10, <1>11
  DEF OperatorAsks, OperatorHandles

LEMMA InitInOrder == Init => Order
<1> SUFFICES ASSUME Init PROVE Order
  OBVIOUS
<1>0. /\ NumGoals \in Nat \ {0} /\ disk.index = 1
      /\ \A g \in Goals : g # 1 => disk.goal[g] = "pending" /\ disk.job[g] = 0
      /\ \A j \in Jobs : goalOf[j] = IF j = 1 THEN 1 ELSE 0
  BY ChainAssumption DEF Init, FirstStarted
<1>1. GoalsReached /\ OneJobPerGoal
  BY <1>0 DEF GoalsReached, OneJobPerGoal
<1>2. StartsFromSettled
  BY DEF Init, StartsFromSettled
<1>3. GoalsInOrder
  BY <1>0 DEF GoalsInOrder, Goals
<1> QED BY <1>1, <1>2, <1>3 DEF Order

----------------------------------------------------------------------------
(* Jobs, goals and runs agree: what a goal recorded as done rests on.         *)

\* Every job of a chain belongs to its goal, and the current goal has one.
Staffed(chain, goals) ==
  /\ \A g \in Goals : chain.job[g] # 0 => goals[chain.job[g]] = g
  /\ chain.job[chain.index] # 0

AllStaffed ==
  Staffed(NoChain, goalOf) /\ Staffed(disk, goalOf) /\ \A c \in Callers : Staffed(copy[c], goalOf)

\* A job that is not prepared has no file and no run, and nobody cancels it.
NothingUnprepared ==
  /\ \A j \in Jobs : goalOf[j] = 0 => at[j] = "none" /\ own[j] = "none" /\ file[j] = "none"
  /\ at[Operator] \in {"withdraw", "tell", "mark"} => target \in Jobs /\ goalOf[target] # 0

\* The file of a job says done only of a job whose run knows it, and a run that works
\* or reports a failure does not have a completed job in its hands.
RunsKnow ==
  \A j \in Jobs :
    /\ file[j] = "done" => own[j] = "done"
    /\ at[j] \in {"working", "tell", "mark", "told"} => own[j] # "done"
    /\ at[j] \in {"complete", "paused"} => own[j] = "done"

RunningSteps == {"advance", "pass", "start", "check"}

\* Goals are passed and started in a running chain only, and recorded in a paused one.
RunningInCall ==
  clean => \A c \in Callers : at[c] \in RunningSteps => disk.status = "running"

PausedInCall ==
  clean => \A j \in Jobs : at[j] = "paused" => disk.status = "paused"

\* Whoever passes a goal has seen its job done.  The operator may overwrite the job's
\* file before the goal is recorded, but will then tell the chain of it.
PassesDone ==
  clean => \A c \in Callers : at[c] = "pass" =>
    /\ own[CurrentJob(c)] = "done"
    /\ file[CurrentJob(c)] = "done" \/ (c # Operator /\ at[Operator] = "tell")

Known ==
  AllStaffed /\ NothingUnprepared /\ RunsKnow /\ RunningInCall /\ PausedInCall /\ PassesDone

IInv == TypeOK /\ AloneInCall /\ Order /\ Known

Grown == \A j \in Jobs : goalOf[j] # 0 => goalOf'[j] = goalOf[j]

LEMMA StepGrows ==
  ASSUME TypeOK, [Next]_vars
  PROVE  Grown
<1>1. ASSUME NEW c \in Callers, Handle(c)
      PROVE  Grown
  BY <1>1 DEF TypeOK, Grown, Handle, Advance, PassGoal, FailGoal, Reload, StartGoal, NewJob,
     StartFails, Launch, LaunchRefused, Tell, Mark, LoadIf, SetJob, jobs
<1>2. ASSUME NEW j \in Jobs, RunWorks(j) \/ HandleCompletion(j) \/ RecordWhilePaused(j)
      PROVE  Grown
  BY <1>2 DEF Grown, RunWorks, Progress, Complete, Close, CloseQuietly, GoOn, Finish,
     HandleCompletion, RecordWhilePaused, LoadIf, SetJob, jobs
<1>3. ASSUME OperatorAsks \/ (OperatorHandles /\ ~Handle(Operator))
      PROVE  Grown
  BY <1>3 DEF Grown, OperatorAsks, OperatorHandles, Restart, Withdraw, Control, WithdrawJob,
     LookAtJob, StopJob, Settling, PauseChain, ResumeChain, CheckCurrentGoal,
     CancelChain, SkipChainGoal, SetJob, jobs
<1>4. ASSUME UNCHANGED vars
      PROVE  Grown
  BY <1>4 DEF Grown, vars, jobs
<1> QED
  BY <1>1, <1>2, <1>3, <1>4 DEF Next, RunHandles, Callers, Operator

LEMMA GrownStaffed ==
  ASSUME TypeOK, Grown, NEW chain \in ChainRecord, Staffed(chain, goalOf)
  PROVE  Staffed(chain, goalOf')
<1>1. ASSUME NEW g \in Goals, chain.job[g] # 0
      PROVE  goalOf'[chain.job[g]] = g
  <2>1. chain.job[g] \in Jobs /\ goalOf[chain.job[g]] = g /\ g # 0
    <3>1. chain.job[g] \in Jobs /\ goalOf[chain.job[g]] = g
      BY <1>1 DEF Staffed, ChainRecord
    <3> QED BY <3>1, <1>1 DEF Goals
  <2> QED BY <2>1 DEF Grown
<1> QED BY <1>1 DEF Staffed

\* Settling a goal or changing the status leaves the jobs of the chain alone.
LEMMA SettledStaffed ==
  ASSUME NEW chain \in ChainRecord, NEW goals, Staffed(chain, goals), NEW g, NEW result, NEW status
  PROVE  /\ Staffed(Settled(chain, g, result), goals)
         /\ Staffed([chain EXCEPT !.status = status], goals)
         /\ Staffed([Settled(chain, g, result) EXCEPT !.status = status], goals)
         /\ Staffed(FailedWith(chain, g), goals)
  BY DEF Staffed, ChainRecord, Settled, FailedWith

\* What a step leaves in the file and in the copy of one caller.
LEMMA StepStaffed ==
  ASSUME TypeOK, AllStaffed, Grown, NEW c \in Callers,
         Staffed(disk', goalOf'), Staffed(copy'[c], goalOf'),
         \A d \in Callers \ {c} : copy'[d] = copy[d]
  PROVE  AllStaffed'
<1>1. /\ NoChain \in ChainRecord /\ \A d \in Callers : copy[d] \in ChainRecord
      /\ Staffed(NoChain, goalOf) /\ \A d \in Callers : Staffed(copy[d], goalOf)
  BY FirstType, CopyType DEF NoChain, AllStaffed
<1>2. Staffed(NoChain, goalOf') /\ \A d \in Callers : Staffed(copy[d], goalOf')
  BY <1>1, GrownStaffed
<1> QED BY <1>2 DEF AllStaffed

LEMMA HeldFrame ==
  ASSUME TypeOK, NEW c \in Callers, NEW chain, Hold(c, chain)
  PROVE  copy'[c] = chain /\ \A d \in Callers \ {c} : copy'[d] = copy[d]
  BY DEF Hold, TypeOK

LEMMA SameStaffed ==
  ASSUME AllStaffed, UNCHANGED <<disk, copy, goalOf>>
  PROVE  AllStaffed'
  BY DEF AllStaffed

LEMMA LeftStaffed ==
  ASSUME TypeOK, AllStaffed, NEW c \in Callers, Leave(c), UNCHANGED goalOf,
         Staffed(disk', goalOf)
  PROVE  AllStaffed'
  BY HeldFrame, StepStaffed DEF Leave, AllStaffed, Grown

LEMMA SavedStaffed ==
  ASSUME TypeOK, AllStaffed, NEW c \in Callers, NEW chain, NEW step, UNCHANGED goalOf,
         Save(c, chain, step) \/ SaveAndLeave(c, chain), Staffed(chain, goalOf)
  PROVE  AllStaffed'
<1>1. CASE Save(c, chain, step)
  BY <1>1, HeldFrame, StepStaffed DEF Save, Grown
<1>2. CASE SaveAndLeave(c, chain)
  BY <1>2, LeftStaffed DEF SaveAndLeave
<1> QED BY <1>1, <1>2

LEMMA LoadedStaffed ==
  ASSUME TypeOK, AllStaffed, NEW c \in Callers, NEW states, NEW step, LoadIf(c, states, step)
  PROVE  AllStaffed'
<1>1. CASE disk.status \in states
  BY <1>1, HeldFrame, StepStaffed DEF LoadIf, AllStaffed, Grown, jobs
<1>2. CASE disk.status \notin states
  BY <1>2, LeftStaffed DEF LoadIf, AllStaffed, jobs
<1> QED BY <1>1, <1>2

LEMMA HandledStaffed ==
  ASSUME TypeOK, AllStaffed, Grown, NEW c \in Callers, Handle(c)
  PROVE  AllStaffed'
<1>0. copy[c] \in ChainRecord /\ Staffed(copy[c], goalOf) /\ Staffed(disk, goalOf)
  BY CopyType DEF AllStaffed
<1>1. CASE Advance(c)
  BY <1>0, <1>1, LeftStaffed, SameStaffed DEF Advance, Proceed, jobs
<1>2. CASE PassGoal(c)
  BY <1>0, <1>2, SettledStaffed, SavedStaffed DEF PassGoal, jobs
<1>3. CASE FailGoal(c)
  BY <1>0, <1>3, SettledStaffed, SavedStaffed DEF FailGoal, jobs
<1>4. CASE Reload(c)
  BY <1>4, LoadedStaffed DEF Reload
<1>5. CASE StartGoal(c)
  <2> DEFINE g == Current(c) + 1
  <2>1. PICK j \in Jobs :
          /\ goalOf' = [goalOf EXCEPT ![j] = g]
          /\ Save(c, [Settled(copy[c], g, "running") EXCEPT
                        !.status = "running", !.index = g, !.job[g] = j], "launch")
    BY <1>5 DEF StartGoal
  <2>2. g \in Goals /\ goalOf'[j] = g /\ j # 0
    BY <1>5, <2>1, CopyType DEF StartGoal, TypeOK, Jobs
  <2>3. Staffed(copy[c], goalOf')
    BY <1>0, GrownStaffed
  <2>4. Staffed([Settled(copy[c], g, "running") EXCEPT
                   !.status = "running", !.index = g, !.job[g] = j], goalOf')
    <3> DEFINE settled == Settled(copy[c], g, "running")
               started == [settled EXCEPT !.status = "running", !.index = g, !.job[g] = j]
    <3>1. /\ started.index = g /\ started.job[g] = j
          /\ \A h \in Goals \ {g} : started.job[h] = copy[c].job[h]
      BY <1>0, <2>2 DEF ChainRecord, Settled
    <3>2. Staffed(started, goalOf')
      <4> HIDE DEF started, g
      <4> QED BY <2>2, <2>3, <3>1 DEF Staffed
    <3> QED BY <3>2
  <2> QED BY <2>1, <2>4, HeldFrame, StepStaffed DEF Save
<1>6. CASE StartFails(c)
  BY <1>0, <1>6, SettledStaffed, SavedStaffed, LeftStaffed DEF StartFails, jobs
<1>7. CASE Launch(c)
  BY <1>0, <1>7, HeldFrame, StepStaffed DEF Launch, SetJob, AllStaffed
<1>8. CASE LaunchRefused(c)
  BY <1>0, <1>8, SettledStaffed, SavedStaffed DEF LaunchRefused, jobs
<1>9. CASE Tell(c)
  BY <1>9, LoadedStaffed DEF Tell
<1>10. CASE Mark(c)
  BY <1>0, <1>10, SettledStaffed, SavedStaffed DEF Mark, jobs
<1> QED
  BY <1>1, <1>2, <1>3, <1>4, <1>5, <1>6, <1>7, <1>8, <1>9, <1>10 DEF Handle

LEMMA RunStaffed ==
  ASSUME TypeOK, AllStaffed, NEW j \in Jobs,
         RunWorks(j) \/ HandleCompletion(j) \/ RecordWhilePaused(j)
  PROVE  AllStaffed'
<1>0. j \in Callers /\ copy[j] \in ChainRecord /\ Staffed(copy[j], goalOf)
  BY CopyType DEF AllStaffed, Callers
<1>1. CASE RunWorks(j)
  BY <1>1, SameStaffed DEF RunWorks, Progress, Complete, Close, CloseQuietly, GoOn, Finish,
     SetJob, Proceed
<1>2. CASE HandleCompletion(j)
  BY <1>0, <1>2, LoadedStaffed DEF HandleCompletion
<1>3. CASE RecordWhilePaused(j)
  BY <1>0, <1>3, SettledStaffed, SavedStaffed DEF RecordWhilePaused, jobs
<1> QED BY <1>1, <1>2, <1>3

LEMMA OperatorStaffed ==
  ASSUME TypeOK, AllStaffed, Grown, OperatorAsks \/ (OperatorHandles /\ ~Handle(Operator))
  PROVE  AllStaffed'
<1> DEFINE chain == copy[Operator]
           g == Current(Operator)
<1>0. /\ Operator \in Callers /\ chain \in ChainRecord
      /\ Staffed(chain, goalOf) /\ Staffed(disk, goalOf)
  BY CopyType DEF AllStaffed, Callers
<1>1. CASE \E which \in Controls : Control(which)
  BY <1>0, <1>1, HeldFrame, StepStaffed DEF Control, jobs
<1>2. CASE \/ \E j \in Jobs : Restart(j) \/ Withdraw(j)
           \/ WithdrawJob \/ StopJob
  BY <1>2, SameStaffed DEF Restart, Withdraw, WithdrawJob, StopJob, SetJob, Proceed, jobs
<1>3. CASE LookAtJob \/ CheckCurrentGoal
  BY <1>0, <1>3, SameStaffed, LeftStaffed DEF LookAtJob, CheckCurrentGoal, Proceed, jobs
<1>4. CASE PauseChain
  BY <1>0, <1>4, SettledStaffed, SavedStaffed DEF PauseChain, Settling, jobs
<1>5. CASE ResumeChain
  BY <1>0, <1>5, SettledStaffed, SavedStaffed DEF ResumeChain, Settling, jobs
<1>6. CASE CancelChain
  <2>1. /\ Staffed([chain EXCEPT !.status = "cancelled"], goalOf)
        /\ Staffed([Settled(chain, g, "failed") EXCEPT !.status = "cancelled"], goalOf)
    BY <1>0, SettledStaffed
  <2>2. CASE chain.goal[g] \in {"pending", "running"}
    BY <1>0, <1>6, <2>1, <2>2, SavedStaffed DEF CancelChain, Settling, jobs
  <2>3. CASE chain.goal[g] \notin {"pending", "running"}
    BY <1>0, <1>6, <2>1, <2>3, SavedStaffed DEF CancelChain, Settling, jobs
  <2> QED BY <2>2, <2>3
<1>7. CASE SkipChainGoal
  BY <1>0, <1>7, SettledStaffed, SavedStaffed DEF SkipChainGoal, Settling, jobs
<1> QED
  BY <1>1, <1>2, <1>3, <1>4, <1>5, <1>6, <1>7 DEF OperatorAsks, OperatorHandles

----------------------------------------------------------------------------
(* Unprepared jobs stay out of it.                                            *)

\* A caller with a copy of a chain takes its current job for one of that goal.
LEMMA CurrentPrepared ==
  ASSUME TypeOK, AllStaffed, NEW c \in Callers
  PROVE  CurrentJob(c) \in Jobs /\ goalOf[CurrentJob(c)] = Current(c) /\ Current(c) # 0
<1>1. copy[c] \in ChainRecord /\ Staffed(copy[c], goalOf)
  BY CopyType DEF AllStaffed
<1>2. Current(c) \in Goals /\ CurrentJob(c) \in Jobs /\ goalOf[CurrentJob(c)] = Current(c)
  BY <1>1 DEF Staffed, ChainRecord, Current, CurrentJob
<1> QED BY <1>2 DEF Goals

\* A step of a caller that is under way, by which no job changes.
LEMMA MovedPrepared ==
  ASSUME TypeOK, NothingUnprepared, NEW c \in Callers, NEW step, UNCHANGED jobs,
         at' = [at EXCEPT ![c] = step], at[c] # "none",
         c # Operator => UNCHANGED target,
         c = Operator /\ step \in {"withdraw", "tell", "mark"} =>
           at[c] \in {"withdraw", "tell"} /\ UNCHANGED target
  PROVE  NothingUnprepared'
  BY DEF TypeOK, NothingUnprepared, jobs, Operator, Jobs

LEMMA LeftPrepared ==
  ASSUME TypeOK, NothingUnprepared, NEW c \in Callers, Leave(c), UNCHANGED jobs, at[c] # "none"
  PROVE  NothingUnprepared'
<1>1. CASE c = Operator
  BY <1>1, MovedPrepared DEF Leave, Goto
<1>2. CASE c # Operator
  BY <1>2, MovedPrepared DEF Leave, Goto, asked
<1> QED BY <1>1, <1>2

LEMMA LoadedPrepared ==
  ASSUME TypeOK, NothingUnprepared, NEW c \in Callers, NEW states, NEW step,
         LoadIf(c, states, step), at[c] # "none",
         c = Operator /\ step \in {"withdraw", "tell", "mark"} => at[c] = "tell"
  PROVE  NothingUnprepared'
<1>1. CASE disk.status \in states
  BY <1>1, MovedPrepared DEF LoadIf, Goto, asked
<1>2. CASE disk.status \notin states
  BY <1>2, LeftPrepared DEF LoadIf
<1> QED BY <1>1, <1>2

LEMMA HandledPrepared ==
  ASSUME TypeOK, AllStaffed, NothingUnprepared, NEW c \in Callers, Handle(c)
  PROVE  NothingUnprepared'
<1>1. CASE Advance(c)
  BY <1>1, MovedPrepared, LeftPrepared DEF Advance, Proceed, Goto, asked
<1>2. CASE PassGoal(c)
  BY <1>2, MovedPrepared, LeftPrepared DEF PassGoal, Save, SaveAndLeave, Goto, asked
<1>3. CASE FailGoal(c)
  BY <1>3, LeftPrepared DEF FailGoal, SaveAndLeave
<1>4. CASE Reload(c)
  BY <1>4, LoadedPrepared DEF Reload
<1>5. CASE StartGoal(c)
  <2>1. PICK j \in Jobs : /\ goalOf[j] = 0 /\ goalOf' = [goalOf EXCEPT ![j] = Current(c) + 1]
                          /\ at' = [at EXCEPT ![c] = "launch"] /\ UNCHANGED <<file, own, asked>>
    BY <1>5 DEF StartGoal, NewJob, Save, Goto
  <2>2. Current(c) + 1 # 0
    BY CopyType DEF Goals
  <2>3. \A i \in Jobs : goalOf'[i] = 0 => goalOf[i] = 0
    BY <2>1, <2>2 DEF TypeOK
  <2>4. goalOf[c] # 0 \/ c = Operator
    BY <1>5 DEF StartGoal, NothingUnprepared, Callers
  <2>5. goalOf[target] # 0 => goalOf'[target] # 0
    BY <2>1, <2>2 DEF TypeOK
  <2> QED BY <1>5, <2>1, <2>3, <2>4, <2>5 DEF StartGoal, NothingUnprepared, TypeOK, asked
<1>6. CASE StartFails(c)
  BY <1>6, LeftPrepared DEF StartFails, SaveAndLeave
<1>7. CASE Launch(c)
  <2>1. goalOf[CurrentJob(c)] # 0 /\ CurrentJob(c) \in Jobs
    BY CurrentPrepared
  <2>2. goalOf[c] # 0 \/ c = Operator
    BY <1>7 DEF Launch, NothingUnprepared, Callers
  <2>6. \A d \in Callers : d # c /\ d # CurrentJob(c) => at'[d] = at[d]
    BY <1>7 DEF Launch, TypeOK
  <2>3. ASSUME NEW j \in Jobs, goalOf'[j] = 0
        PROVE  at'[j] = "none" /\ own'[j] = "none" /\ file'[j] = "none"
    <3>1. j # CurrentJob(c) /\ j # c /\ goalOf[j] = 0
      BY <1>7, <2>1, <2>2, <2>3 DEF Launch, SetJob, Operator, Jobs
    <3>2. file'[j] = file[j] /\ own'[j] = own[j] /\ at'[j] = at[j]
      BY <1>7, <2>6, <3>1 DEF Launch, SetJob, TypeOK, Callers
    <3> QED BY <3>1, <3>2 DEF NothingUnprepared
  <2>4. at'[Operator] \notin {"withdraw", "tell", "mark"} \/ c # Operator
    BY <1>7, <2>1 DEF Launch, TypeOK, Operator, Jobs
  <2>5. c # Operator => at'[Operator] = at[Operator] /\ UNCHANGED target
    <3>1. Operator \in Callers /\ Operator # CurrentJob(c)
      BY <2>1 DEF Callers, Operator, Jobs
    <3>2. c # Operator => UNCHANGED target
      BY <1>7 DEF Launch, asked
    <3> QED BY <2>6, <3>1, <3>2
  <2> QED BY <1>7, <2>3, <2>4, <2>5 DEF Launch, SetJob, NothingUnprepared
<1>8. CASE LaunchRefused(c)
  BY <1>8, LeftPrepared DEF LaunchRefused, SaveAndLeave
<1>9. CASE Tell(c)
  BY <1>9, LoadedPrepared DEF Tell
<1>10. CASE Mark(c)
  BY <1>10, LeftPrepared DEF Mark, SaveAndLeave
<1> QED
  BY <1>1, <1>2, <1>3, <1>4, <1>5, <1>6, <1>7, <1>8, <1>9, <1>10 DEF Handle

LEMMA RunPrepared ==
  ASSUME TypeOK, NothingUnprepared, NEW j \in Jobs,
         RunWorks(j) \/ HandleCompletion(j) \/ RecordWhilePaused(j)
  PROVE  NothingUnprepared'
<1>0. j \in Callers /\ j # Operator
  BY DEF Callers, Operator, Jobs
<1>1. CASE RunWorks(j)
  <2>1. at[j] # "none"
    BY <1>1 DEF RunWorks, Progress, Complete, Close, CloseQuietly, GoOn, Finish
  <2>2. goalOf[j] # 0
    BY <2>1 DEF NothingUnprepared
  <2>3. /\ \A i \in Jobs \ {j} : at'[i] = at[i] /\ own'[i] = own[i] /\ file'[i] = file[i]
        /\ at'[Operator] = at[Operator]
        /\ UNCHANGED <<goalOf, target>>
    BY <1>0, <1>1 DEF RunWorks, Progress, Complete, Close, CloseQuietly, GoOn, Finish,
       SetJob, Proceed, Goto, TypeOK, Callers, asked
  <2> QED BY <2>2, <2>3 DEF NothingUnprepared
<1>2. CASE HandleCompletion(j)
  BY <1>0, <1>2, LoadedPrepared DEF HandleCompletion
<1>3. CASE RecordWhilePaused(j)
  BY <1>0, <1>3, LeftPrepared DEF RecordWhilePaused, SaveAndLeave
<1> QED BY <1>1, <1>2, <1>3

LEMMA OperatorPrepared ==
  ASSUME TypeOK, AllStaffed, NothingUnprepared,
         OperatorAsks \/ (OperatorHandles /\ ~Handle(Operator))
  PROVE  NothingUnprepared'
<1>0. /\ Operator \in Callers /\ \A j \in Jobs : j # Operator /\ j \in Callers
      /\ goalOf[CurrentJob(Operator)] # 0
  BY CurrentPrepared DEF Callers, Operator, Jobs
<1>1. CASE \E j \in Jobs : Restart(j)
  <2>1. PICK j \in Jobs : Restart(j)
    BY <1>1
  <2>2. goalOf[j] # 0
    BY <2>1 DEF Restart, NothingUnprepared
  <2> QED
    BY <1>0, <2>1, <2>2 DEF Restart, SetJob, Proceed, Goto, NothingUnprepared, TypeOK, asked
<1>2. CASE \E j \in Jobs : Withdraw(j)
  <2>1. PICK j \in Jobs : Withdraw(j)
    BY <1>2
  <2>2. goalOf[j] # 0
    BY <2>1 DEF Withdraw, NothingUnprepared
  <2> QED
    BY <1>0, <2>1, <2>2 DEF Withdraw, Goto, NothingUnprepared, TypeOK, jobs
<1>3. CASE \E which \in Controls : Control(which)
  BY <1>0, <1>3, MovedPrepared DEF Control, Goto
<1>4. CASE WithdrawJob
  <2>1. goalOf[target] # 0 /\ target \in Jobs
    BY <1>4 DEF WithdrawJob, NothingUnprepared
  <2> QED
    BY <1>0, <1>4, <2>1 DEF WithdrawJob, Proceed, Goto, NothingUnprepared, TypeOK, asked
<1>5. CASE LookAtJob \/ CheckCurrentGoal
  BY <1>0, <1>5, MovedPrepared, LeftPrepared DEF LookAtJob, CheckCurrentGoal, Proceed, Goto, asked
<1>6. CASE StopJob
  BY <1>0, <1>6 DEF StopJob, Proceed, Goto, NothingUnprepared, TypeOK, asked
<1>7. CASE PauseChain \/ CancelChain
  BY <1>0, <1>7, LeftPrepared DEF PauseChain, CancelChain, Settling, SaveAndLeave
<1>8. CASE ResumeChain
  BY <1>0, <1>8, MovedPrepared DEF ResumeChain, Settling, Save, Goto, asked
<1>9. CASE SkipChainGoal
  BY <1>0, <1>9, MovedPrepared, LeftPrepared
  DEF SkipChainGoal, Settling, Save, SaveAndLeave, Goto, asked
<1> QED
  BY <1>1, <1>2, <1>3, <1>4, <1>5, <1>6, <1>7, <1>8, <1>9 DEF OperatorAsks, OperatorHandles

----------------------------------------------------------------------------
(* Files follow the runs.                                                     *)

\* A step of a caller by which no job changes.
LEMMA MovedKnows ==
  ASSUME TypeOK, RunsKnow, NEW c \in Callers, NEW step, UNCHANGED jobs,
         at' = [at EXCEPT ![c] = step],
         step \in {"working", "tell", "mark", "told"} => c = Operator \/ at[c] \in {"tell", "mark"},
         step \in {"complete", "paused"} => at[c] = "complete"
  PROVE  RunsKnow'
  BY DEF TypeOK, RunsKnow, jobs, Operator, Jobs, Callers

LEMMA LeftKnows ==
  ASSUME TypeOK, RunsKnow, NEW c \in Callers, Leave(c), UNCHANGED jobs
  PROVE  RunsKnow'
<1>1. CASE c = Operator
  BY <1>1, MovedKnows DEF Leave, Goto
<1>2. CASE c # Operator /\ at[c] \in {"tell", "mark"}
  BY <1>2, MovedKnows DEF Leave, Goto
<1>3. CASE c # Operator /\ at[c] \notin {"tell", "mark"}
  BY <1>3, MovedKnows DEF Leave, Goto
<1> QED BY <1>1, <1>2, <1>3

LEMMA LoadedKnows ==
  ASSUME TypeOK, RunsKnow, NEW c \in Callers, NEW states, NEW step, LoadIf(c, states, step),
         step \in {"working", "tell", "mark", "told"} => at[c] \in {"tell", "mark"},
         step \in {"complete", "paused"} => at[c] = "complete"
  PROVE  RunsKnow'
<1>1. CASE disk.status \in states
  BY <1>1, MovedKnows DEF LoadIf, Goto
<1>2. CASE disk.status \notin states
  BY <1>2, LeftKnows DEF LoadIf
<1> QED BY <1>1, <1>2

LEMMA HandledKnows ==
  ASSUME TypeOK, AllStaffed, RunsKnow, NEW c \in Callers, Handle(c)
  PROVE  RunsKnow'
<1>1. CASE Advance(c)
  BY <1>1, MovedKnows, LeftKnows DEF Advance, Proceed, Goto
<1>2. CASE PassGoal(c)
  BY <1>2, MovedKnows, LeftKnows DEF PassGoal, Save, SaveAndLeave, Goto
<1>3. CASE FailGoal(c) \/ StartFails(c) \/ LaunchRefused(c) \/ Mark(c)
  BY <1>3, LeftKnows DEF FailGoal, StartFails, LaunchRefused, Mark, SaveAndLeave
<1>4. CASE Reload(c)
  BY <1>4, LoadedKnows DEF Reload
<1>5. CASE StartGoal(c)
  BY <1>5 DEF StartGoal, Save, Goto, RunsKnow, TypeOK
<1>6. CASE Launch(c)
  <2>1. CurrentJob(c) \in Jobs
    BY CurrentPrepared
  <2>2. ASSUME NEW j \in Jobs, j # CurrentJob(c), j # c
        PROVE  file'[j] = file[j] /\ own'[j] = own[j] /\ at'[j] = at[j]
    BY <1>6, <2>2 DEF Launch, SetJob, TypeOK, Callers
  <2>3. own'[CurrentJob(c)] = "busy" /\ file'[CurrentJob(c)] = "busy"
        /\ at'[CurrentJob(c)] = "working"
    BY <1>6, <2>1 DEF Launch, SetJob, TypeOK, Callers
  <2>4. c \in Jobs /\ c # CurrentJob(c) =>
          file'[c] = file[c] /\ own'[c] = own[c] /\ at'[c] = "over"
    BY <1>6 DEF Launch, SetJob, TypeOK, Operator, Jobs
  <2> QED BY <2>2, <2>3, <2>4 DEF RunsKnow
<1>7. CASE Tell(c)
  BY <1>7, LoadedKnows DEF Tell
<1> QED
  BY <1>1, <1>2, <1>3, <1>4, <1>5, <1>6, <1>7 DEF Handle

LEMMA RunKnows ==
  ASSUME TypeOK, RunsKnow, NEW j \in Jobs,
         RunWorks(j) \/ HandleCompletion(j) \/ RecordWhilePaused(j)
  PROVE  RunsKnow'
<1>0. j \in Callers /\ j # Operator
  BY DEF Callers, Operator, Jobs
<1>1. CASE RunWorks(j)
  <2>1. \A i \in Jobs \ {j} : at'[i] = at[i] /\ own'[i] = own[i] /\ file'[i] = file[i]
    BY <1>0, <1>1 DEF RunWorks, Progress, Complete, Close, CloseQuietly, GoOn, Finish,
       SetJob, Proceed, Goto, TypeOK, Callers
  <2>2. /\ file'[j] = "done" => own'[j] = "done"
        /\ at'[j] \in {"working", "tell", "mark", "told"} => own'[j] # "done"
        /\ at'[j] \in {"complete", "paused"} => own'[j] = "done"
    BY <1>0, <1>1 DEF RunWorks, Progress, Complete, Close, CloseQuietly, GoOn, Finish,
       SetJob, Proceed, Goto, TypeOK, RunsKnow
  <2> QED BY <2>1, <2>2 DEF RunsKnow
<1>2. CASE HandleCompletion(j)
  BY <1>0, <1>2, LoadedKnows DEF HandleCompletion
<1>3. CASE RecordWhilePaused(j)
  BY <1>0, <1>3, LeftKnows DEF RecordWhilePaused, SaveAndLeave
<1> QED BY <1>1, <1>2, <1>3

LEMMA OperatorKnows ==
  ASSUME TypeOK, RunsKnow, OperatorAsks \/ (OperatorHandles /\ ~Handle(Operator))
  PROVE  RunsKnow'
<1>0. Operator \in Callers /\ \A j \in Jobs : j # Operator /\ j \in Callers
  BY DEF Callers, Operator, Jobs
<1>1. CASE \E j \in Jobs : Restart(j)
  BY <1>0, <1>1 DEF Restart, SetJob, Proceed, Goto, RunsKnow, TypeOK
<1>2. CASE \E j \in Jobs : Withdraw(j)
  BY <1>0, <1>2, MovedKnows DEF Withdraw, Goto
<1>3. CASE \E which \in Controls : Control(which)
  BY <1>0, <1>3, MovedKnows DEF Control, Goto
<1>4. CASE WithdrawJob \/ StopJob
  BY <1>0, <1>4 DEF WithdrawJob, StopJob, Proceed, Goto, RunsKnow, TypeOK
<1>5. CASE LookAtJob \/ CheckCurrentGoal
  BY <1>0, <1>5, MovedKnows, LeftKnows DEF LookAtJob, CheckCurrentGoal, Proceed, Goto
<1>6. CASE PauseChain \/ CancelChain
  BY <1>0, <1>6, LeftKnows DEF PauseChain, CancelChain, Settling, SaveAndLeave
<1>7. CASE ResumeChain
  BY <1>0, <1>7, MovedKnows DEF ResumeChain, Settling, Save, Goto
<1>8. CASE SkipChainGoal
  BY <1>0, <1>8, MovedKnows, LeftKnows DEF SkipChainGoal, Settling, Save, SaveAndLeave, Goto
<1> QED
  BY <1>1, <1>2, <1>3, <1>4, <1>5, <1>6, <1>7, <1>8 DEF OperatorAsks, OperatorHandles

----------------------------------------------------------------------------
(* The chain's status in the middle of a call.                                *)

\* Who loads or saves the chain goes on with the goal only if the chain is running.
LEMMA KeptRunning ==
  ASSUME RunningInCall, NEW c \in Callers, clean' => clean, UNCHANGED disk,
         \A d \in Callers \ {c} : at'[d] \in RunningSteps => at[d] \in RunningSteps,
         at'[c] \in RunningSteps => at[c] \in RunningSteps \/ disk.status = "running"
  PROVE  RunningInCall'
  BY DEF RunningInCall, RunningSteps

LEMMA SavedRunning ==
  ASSUME AloneInCall, NEW c \in Callers, clean' => clean, at[c] \in InCall,
         \A d \in Callers \ {c} : at'[d] \in RunningSteps => at[d] \in RunningSteps,
         at'[c] \in RunningSteps => disk'.status = "running"
  PROVE  RunningInCall'
  BY DEF RunningInCall, AloneInCall, InCall, RunningSteps

LEMMA LoadedRunning ==
  ASSUME TypeOK, RunningInCall, NEW c \in Callers, NEW states, NEW step, LoadIf(c, states, step),
         step \in RunningSteps => states \subseteq {"running"}
  PROVE  RunningInCall'
<1>1. clean' => clean /\ UNCHANGED disk
  BY DEF LoadIf
<1>2. CASE disk.status \in states
  BY <1>1, <1>2, GotoFrame, KeptRunning DEF LoadIf
<1>3. CASE disk.status \notin states
  BY <1>1, <1>3, LeaveFrame, KeptRunning DEF LoadIf, RunningSteps
<1> QED BY <1>2, <1>3

LEMMA SavedAndLeftRunning ==
  ASSUME TypeOK, AloneInCall, NEW c \in Callers, NEW chain, SaveAndLeave(c, chain),
         UNCHANGED clean, at[c] \in InCall
  PROVE  RunningInCall'
  BY LeaveFrame, SavedRunning DEF SaveAndLeave, RunningSteps

LEMMA HandledRunning ==
  ASSUME TypeOK, AloneInCall, RunningInCall, NEW c \in Callers, Handle(c)
  PROVE  RunningInCall'
<1>1. CASE Advance(c)
  BY <1>1, GotoFrame, LeaveFrame, KeptRunning DEF Advance, Proceed, RunningSteps
<1>2. CASE PassGoal(c)
  BY <1>2, GotoFrame, SavedRunning, SavedAndLeftRunning DEF PassGoal, Save, RunningSteps, InCall
<1>3. CASE FailGoal(c) \/ LaunchRefused(c) \/ Mark(c)
  BY <1>3, SavedAndLeftRunning DEF FailGoal, LaunchRefused, Mark, InCall
<1>4. CASE Reload(c)
  BY <1>4, LoadedRunning DEF Reload
<1>5. CASE StartGoal(c)
  BY <1>5, GotoFrame, SavedRunning DEF StartGoal, Save, RunningSteps, InCall
<1>6. CASE StartFails(c)
  BY <1>6, LeaveFrame, KeptRunning, SavedAndLeftRunning DEF StartFails, RunningSteps, InCall
<1>7. CASE Launch(c)
  <2>1. \A d \in Callers : at'[d] = at[d] \/ at'[d] \in {"idle", "over", "working"}
    BY <1>7 DEF Launch, TypeOK
  <2> QED BY <1>7, <2>1, KeptRunning DEF Launch, RunningSteps
<1>8. CASE Tell(c)
  BY <1>8, LoadedRunning DEF Tell, RunningSteps
<1> QED
  BY <1>1, <1>2, <1>3, <1>4, <1>5, <1>6, <1>7, <1>8 DEF Handle

LEMMA RunRunning ==
  ASSUME TypeOK, AloneInCall, RunningInCall, NEW j \in Jobs,
         RunWorks(j) \/ HandleCompletion(j) \/ RecordWhilePaused(j)
  PROVE  RunningInCall'
<1>0. j \in Callers
  BY DEF Callers
<1>1. CASE RunWorks(j)
  <2>1. \A d \in Callers : at'[d] = at[d] \/ at'[d] \in {"complete", "tell", "over", "working", "none"}
    BY <1>1 DEF RunWorks, Progress, Complete, Close, CloseQuietly, GoOn, Finish, Proceed,
       Goto, TypeOK
  <2>2. UNCHANGED <<disk, clean>>
    BY <1>1 DEF RunWorks, Progress, Complete, Close, CloseQuietly, GoOn, Finish
  <2> QED BY <1>0, <2>1, <2>2, KeptRunning DEF RunningSteps
<1>2. CASE HandleCompletion(j)
  BY <1>0, <1>2, LoadedRunning DEF HandleCompletion, RunningSteps
<1>3. CASE RecordWhilePaused(j)
  BY <1>0, <1>3, SavedAndLeftRunning DEF RecordWhilePaused, InCall
<1> QED BY <1>1, <1>2, <1>3

LEMMA OperatorRunning ==
  ASSUME TypeOK, AloneInCall, RunningInCall,
         OperatorAsks \/ (OperatorHandles /\ ~Handle(Operator))
  PROVE  RunningInCall'
<1>0. Operator \in Callers /\ copy[Operator] \in ChainRecord
  BY CopyType DEF Callers
<1>1. CASE \/ \E j \in Jobs : Restart(j) \/ Withdraw(j)
           \/ WithdrawJob \/ StopJob \/ \E which \in Controls : Control(which)
  <2>1. \A d \in Callers : at'[d] = at[d]
             \/ at'[d] \in {"working", "withdraw", "tell", "settle", "look"}
    BY <1>1 DEF Restart, Withdraw, WithdrawJob, StopJob, Control, Proceed, Goto, TypeOK
  <2>2. UNCHANGED disk
    BY <1>1 DEF Restart, Withdraw, WithdrawJob, StopJob, Control
  <2>3. clean' => clean
    <3>1. CASE \E which \in Controls : Control(which)
      BY <3>1 DEF Control
    <3>2. CASE UNCHANGED clean
      BY <3>2
    <3> QED BY <1>1, <3>1, <3>2 DEF Restart, Withdraw, WithdrawJob, StopJob
  <2> QED BY <1>0, <2>1, <2>2, <2>3, KeptRunning DEF RunningSteps
<1>2. CASE LookAtJob \/ CheckCurrentGoal
  <2>1. UNCHANGED <<disk, clean>>
    BY <1>2 DEF LookAtJob, CheckCurrentGoal
  <2>2. /\ \A d \in Callers \ {Operator} : at'[d] = at[d]
        /\ at'[Operator] \in RunningSteps => at[Operator] = "check"
    BY <1>0, <1>2, GotoFrame, LeaveFrame
    DEF LookAtJob, CheckCurrentGoal, Proceed, RunningSteps
  <2> QED BY <1>0, <2>1, <2>2, KeptRunning DEF RunningSteps
<1>3. CASE PauseChain \/ CancelChain
  BY <1>0, <1>3, SavedAndLeftRunning DEF PauseChain, CancelChain, Settling, InCall
<1>4. CASE ResumeChain
  <2>1. [copy[Operator] EXCEPT !.status = "running"].status = "running"
    BY <1>0 DEF ChainRecord
  <2> QED
    BY <1>0, <1>4, <2>1, GotoFrame, SavedRunning DEF ResumeChain, Settling, Save, InCall
<1>5. CASE SkipChainGoal
  <2> DEFINE skipped == Settled(copy[Operator], Current(Operator), "skipped")
  <2>1. [skipped EXCEPT !.status = "running"].status = "running"
    BY <1>0 DEF ChainRecord, Settled
  <2>2. CASE Current(Operator) = NumGoals
    BY <1>0, <1>5, <2>2, SavedAndLeftRunning DEF SkipChainGoal, Settling, InCall
  <2>3. CASE Current(Operator) # NumGoals
    BY <1>0, <1>5, <2>1, <2>3, GotoFrame, SavedRunning DEF SkipChainGoal, Settling, Save, InCall
  <2> QED BY <2>2, <2>3
<1> QED
  BY <1>1, <1>2, <1>3, <1>4, <1>5 DEF OperatorAsks, OperatorHandles

----------------------------------------------------------------------------
(* Whoever passes a goal has seen its job done. *)

LEMMA AlonePasses ==
  ASSUME AloneInCall, NEW c \in Callers, clean' => clean, at[c] \in InCall, at'[c] # "pass",
         \A d \in Callers \ {c} : at'[d] = "pass" => at[d] = "pass"
  PROVE  PassesDone'
  BY DEF AloneInCall, PassesDone, InCall

LEMMA LoadedPasses ==
  ASSUME TypeOK, NEW c \in Callers, NEW states, NEW step, LoadIf(c, states, step), step # "pass"
  PROVE  PassesDone'
<1>1. at'[c] # "pass" /\ \A d \in Callers \ {c} : at'[d] = at[d]
  BY GotoFrame, LeaveFrame DEF LoadIf
<1> QED
  BY <1>1 DEF LoadIf, PassesDone, Holding, InCall

LEMMA HandledPasses ==
  ASSUME TypeOK, AloneInCall, RunsKnow, NEW c \in Callers, Handle(c)
  PROVE  PassesDone'
<1>1. CASE Advance(c)
  <2>1. CASE CurrentFile(c) = "done"
    <3>1. /\ CurrentJob(c) \in Jobs /\ file[CurrentJob(c)] = "done" /\ own[CurrentJob(c)] = "done"
          /\ at[c] = "advance"
      <4>1. CurrentJob(c) \in Jobs \cup {0}
        BY CopyType DEF CurrentJob, ChainRecord, Current
      <4>2. CurrentJob(c) \in Jobs /\ file[CurrentJob(c)] = "done"
        BY <2>1, <4>1 DEF CurrentFile
      <4> QED BY <1>1, <4>2 DEF RunsKnow, Advance
    <3>2. UNCHANGED <<copy, file, own, clean>> /\ \A d \in Callers \ {c} : at'[d] = at[d]
      BY <1>1, <2>1, GotoFrame DEF Advance, Proceed, Leave, Hold, jobs
    <3>3. clean => \A d \in Callers \ {c} : at[d] # "pass"
      BY <3>1 DEF AloneInCall, InCall
    <3> QED BY <3>1, <3>2, <3>3 DEF PassesDone, CurrentJob, Current
  <2>2. CASE CurrentFile(c) # "done"
    BY <1>1, <2>2, GotoFrame, LeaveFrame, AlonePasses DEF Advance, Proceed, InCall
  <2> QED BY <2>1, <2>2
<1>2. CASE PassGoal(c)
  BY <1>2, GotoFrame, LeaveFrame, AlonePasses DEF PassGoal, Save, SaveAndLeave, InCall
<1>3. CASE FailGoal(c) \/ StartFails(c) \/ LaunchRefused(c) \/ Mark(c)
  BY <1>3, LeaveFrame, AlonePasses
  DEF FailGoal, StartFails, LaunchRefused, Mark, SaveAndLeave, InCall
<1>4. CASE Reload(c)
  BY <1>4, LoadedPasses DEF Reload
<1>5. CASE StartGoal(c)
  BY <1>5, GotoFrame, AlonePasses DEF StartGoal, Save, InCall
<1>6. CASE Launch(c)
  <2>1. \A d \in Callers : at'[d] = at[d] \/ at'[d] \in {"idle", "over", "working"}
    BY <1>6 DEF Launch, TypeOK
  <2> QED BY <1>6, <2>1, AlonePasses DEF Launch, InCall
<1>7. CASE Tell(c)
  BY <1>7, LoadedPasses DEF Tell
<1> QED
  BY <1>1, <1>2, <1>3, <1>4, <1>5, <1>6, <1>7 DEF Handle

LEMMA RunPasses ==
  ASSUME TypeOK, AloneInCall, AllStaffed, RunsKnow, PassesDone, NEW j \in Jobs,
         RunWorks(j) \/ HandleCompletion(j) \/ RecordWhilePaused(j)
  PROVE  PassesDone'
<1>0. j \in Callers /\ j # Operator /\ Operator \in Callers
  BY DEF Callers, Operator, Jobs
<1>1. CASE RunWorks(j)
  <2>1. ASSUME NEW d \in Callers, clean', at'[d] = "pass"
        PROVE  /\ own'[CurrentJob(d)] = "done"
               /\ file'[CurrentJob(d)] = "done" \/ (d # Operator /\ at'[Operator] = "tell")
    <3>1. /\ clean /\ at[d] = "pass" /\ at'[Operator] = at[Operator]
      BY <1>0, <1>1, <2>1 DEF RunWorks, Progress, Complete, Close, CloseQuietly, GoOn,
         Finish, Proceed, Goto, TypeOK
    <3>2. /\ own[CurrentJob(d)] = "done" /\ CurrentJob(d) \in Jobs
          /\ file[CurrentJob(d)] = "done" \/ (d # Operator /\ at[Operator] = "tell")
      BY <3>1, CurrentPrepared DEF PassesDone
    <3>3. CASE CurrentJob(d) = j
      BY <1>1, <3>1, <3>2, <3>3 DEF RunWorks, Progress, Complete, Close, CloseQuietly, GoOn,
         Finish, SetJob, RunsKnow, TypeOK
    <3>4. CASE CurrentJob(d) # j
      BY <1>1, <3>1, <3>2, <3>4 DEF RunWorks, Progress, Complete, Close, CloseQuietly, GoOn,
         Finish, SetJob, TypeOK
    <3> QED BY <3>3, <3>4
  <2>2. UNCHANGED copy
    BY <1>1 DEF RunWorks, Progress, Complete, Close, CloseQuietly, GoOn, Finish, Proceed
  <2> QED BY <2>1, <2>2 DEF PassesDone, CurrentJob, Current
<1>2. CASE HandleCompletion(j)
  BY <1>0, <1>2, LoadedPasses DEF HandleCompletion
<1>3. CASE RecordWhilePaused(j)
  BY <1>0, <1>3, LeaveFrame, AlonePasses DEF RecordWhilePaused, SaveAndLeave, InCall
<1> QED BY <1>1, <1>2, <1>3

LEMMA OperatorPasses ==
  ASSUME TypeOK, AloneInCall, AllStaffed, PassesDone,
         OperatorAsks \/ (OperatorHandles /\ ~Handle(Operator))
  PROVE  PassesDone'
<1>0. Operator \in Callers /\ \A j \in Jobs : j \in Callers /\ j # Operator
  BY DEF Callers, Operator, Jobs
<1>1. CASE \/ \E j \in Jobs : Restart(j) \/ Withdraw(j)
           \/ WithdrawJob
  <2>1. ASSUME NEW d \in Callers, clean', at'[d] = "pass"
        PROVE  /\ own'[CurrentJob(d)] = "done"
               /\ file'[CurrentJob(d)] = "done" \/ (d # Operator /\ at'[Operator] = "tell")
    <3>1. /\ clean /\ at[d] = "pass" /\ d # Operator
      BY <1>0, <1>1, <2>1 DEF Restart, Withdraw, WithdrawJob, Proceed, Goto, TypeOK
    <3>2. /\ own[CurrentJob(d)] = "done" /\ CurrentJob(d) \in Jobs
          /\ file[CurrentJob(d)] = "done" \/ at[Operator] = "tell"
      BY <3>1, CurrentPrepared DEF PassesDone
    <3> QED
      BY <1>0, <1>1, <3>1, <3>2 DEF Restart, Withdraw, WithdrawJob, SetJob, Proceed, Goto,
         TypeOK, jobs
  <2>2. UNCHANGED copy
    BY <1>1 DEF Restart, Withdraw, WithdrawJob, Proceed
  <2> QED BY <2>1, <2>2 DEF PassesDone, CurrentJob, Current
<1>2. CASE \E which \in Controls : Control(which)
  <2>1. at'[Operator] # "pass" /\ \A j \in Jobs : at'[j] = at[j]
    BY <1>0, <1>2, GotoFrame DEF Control
  <2>2. clean' => \A j \in Jobs : at[j] # "pass"
    BY <1>2 DEF Control, Holding, InCall
  <2> QED BY <2>1, <2>2 DEF PassesDone, Callers
<1>3. CASE LookAtJob \/ CheckCurrentGoal
  BY <1>0, <1>3, GotoFrame, LeaveFrame, AlonePasses
  DEF LookAtJob, CheckCurrentGoal, Proceed, InCall
<1>4. CASE StopJob
  BY <1>0, <1>4, GotoFrame, AlonePasses DEF StopJob, Proceed, InCall
<1>5. CASE PauseChain \/ CancelChain
  BY <1>0, <1>5, LeaveFrame, AlonePasses DEF PauseChain, CancelChain, Settling, SaveAndLeave, InCall
<1>6. CASE ResumeChain
  BY <1>0, <1>6, GotoFrame, AlonePasses DEF ResumeChain, Settling, Save, InCall
<1>7. CASE SkipChainGoal
  BY <1>0, <1>7, GotoFrame, LeaveFrame, AlonePasses
  DEF SkipChainGoal, Settling, Save, SaveAndLeave, InCall
<1> QED
  BY <1>1, <1>2, <1>3, <1>4, <1>5, <1>6, <1>7 DEF OperatorAsks, OperatorHandles

LEMMA StepPaused ==
  ASSUME TypeOK, AloneInCall, PausedInCall, [Next]_vars
  PROVE  PausedInCall'
<1> SUFFICES ASSUME clean', NEW i \in Jobs, at'[i] = "paused"
             PROVE  disk'.status = "paused"
  BY DEF PausedInCall
<1>0. clean /\ i \in Callers /\ Operator \in Callers
  BY CleanBefore DEF Callers
<1>1. CASE at[i] = "paused"
  <2>1. disk.status = "paused" /\ \A d \in Callers \ {i} : at[d] \notin InCall
    BY <1>0, <1>1 DEF PausedInCall, AloneInCall, InCall
  <2>2. ASSUME disk' # disk
        PROVE  FALSE
    <3>1. ASSUME NEW c \in Callers, Handle(c)
          PROVE  FALSE
      BY <1>1, <2>1, <2>2, <3>1 DEF Handle, Advance, PassGoal, FailGoal, Reload, StartGoal,
         StartFails, Launch, LaunchRefused, Tell, Mark, LoadIf, InCall
    <3>2. ASSUME NEW j \in Jobs, RunWorks(j) \/ HandleCompletion(j) \/ RecordWhilePaused(j)
          PROVE  FALSE
      <4>1. RecordWhilePaused(j)
        BY <2>2, <3>2 DEF RunWorks, Progress, Complete, Close, CloseQuietly, GoOn, Finish,
           HandleCompletion, LoadIf
      <4>2. j = i
        BY <2>1, <4>1 DEF RecordWhilePaused, Callers, InCall
      <4> QED
        BY <1>0, <4>1, <4>2, LeaveFrame DEF RecordWhilePaused, SaveAndLeave
    <3>3. ASSUME OperatorAsks \/ (OperatorHandles /\ ~Handle(Operator))
          PROVE  FALSE
      <4>1. at[Operator] \in InCall
        BY <2>2, <3>3 DEF OperatorAsks, OperatorHandles, Restart, Withdraw, Control,
           WithdrawJob, LookAtJob, StopJob, Settling, PauseChain, ResumeChain,
           CheckCurrentGoal, CancelChain, SkipChainGoal, InCall
      <4>2. Operator # i
        BY DEF Operator, Jobs
      <4> QED BY <1>0, <2>1, <4>1, <4>2
    <3> QED
      BY <2>2, <3>1, <3>2, <3>3 DEF Next, RunHandles, Callers, Operator, vars
  <2> QED BY <2>1, <2>2
<1>2. CASE at[i] # "paused"
  <2>1. HandleCompletion(i)
    <3>1. ASSUME NEW c \in Callers, Handle(c)
          PROVE  FALSE
      <4>1. \A d \in Callers : at'[d] = at[d] \/ at'[d] # "paused"
        BY <3>1, GotoFrame, LeaveFrame DEF Handle, Advance, PassGoal, FailGoal, Reload, StartGoal,
           StartFails, Launch, LaunchRefused, Tell, Mark, LoadIf, Save, SaveAndLeave, Proceed,
           TypeOK
      <4> QED BY <1>0, <1>2, <4>1
    <3>2. ASSUME NEW j \in Jobs, RunWorks(j) \/ RecordWhilePaused(j)
          PROVE  FALSE
      <4>1. \A d \in Callers : at'[d] = at[d] \/ at'[d] # "paused"
        BY <3>2, LeaveFrame DEF RunWorks, Progress, Complete, Close, CloseQuietly, GoOn, Finish,
           RecordWhilePaused, SaveAndLeave, Proceed, Goto, TypeOK, Callers
      <4> QED BY <1>0, <1>2, <4>1
    <3>3. ASSUME NEW j \in Jobs, HandleCompletion(j), j # i
          PROVE  FALSE
      <4>1. at'[i] = at[i]
        BY <1>0, <3>3, GotoFrame, LeaveFrame DEF HandleCompletion, LoadIf, Callers
      <4> QED BY <1>2, <4>1
    <3>4. ASSUME OperatorAsks \/ (OperatorHandles /\ ~Handle(Operator))
          PROVE  FALSE
      <4>1. \A d \in Callers : at'[d] = at[d] \/ at'[d] # "paused"
        BY <1>0, <3>4, LeaveFrame DEF OperatorAsks, OperatorHandles, Restart, Withdraw, Control,
           WithdrawJob, LookAtJob, StopJob, Settling, PauseChain, ResumeChain,
           CheckCurrentGoal, CancelChain, SkipChainGoal, Save, SaveAndLeave, Proceed, Goto, TypeOK
      <4> QED BY <1>0, <1>2, <4>1
    <3>5. CASE UNCHANGED vars
      BY <1>2, <3>5 DEF vars
    <3> QED
      BY <3>1, <3>2, <3>3, <3>4, <3>5 DEF Next, RunHandles, Callers, Operator
  <2>2. CASE disk.status = "paused"
    BY <2>1, <2>2 DEF HandleCompletion, LoadIf
  <2>3. CASE disk.status # "paused"
    BY <1>0, <2>1, <2>3, GotoFrame, LeaveFrame DEF HandleCompletion, LoadIf
  <2> QED BY <2>2, <2>3
<1> QED BY <1>1, <1>2

LEMMA InitKnown == Init => Known
<1> SUFFICES ASSUME Init PROVE Known
  OBVIOUS
<1>1. NumGoals \in Nat \ {0} /\ MaxJobs \in Nat \ {0} /\ 1 \in Goals /\ 1 \in Jobs
  BY ChainAssumption DEF Goals, Jobs
<1>2. Staffed(FirstStarted, goalOf)
  BY <1>1 DEF Init, Staffed, FirstStarted
<1>3. AllStaffed
  BY <1>2 DEF Init, AllStaffed, NoChain
<1>4. \A c \in Callers : at[c] \in {"launch", "none"} /\ (c \in Jobs => at[c] = "none")
  BY DEF Init, Callers, Operator, Jobs
<1>5. Operator \in Callers
  BY DEF Callers
<1>6. NothingUnprepared
  BY <1>4, <1>5 DEF Init, NothingUnprepared, Callers
<1>7. RunsKnow /\ PausedInCall
  BY <1>4 DEF Init, RunsKnow, PausedInCall, Callers
<1>8. RunningInCall /\ PassesDone
  BY <1>4 DEF RunningInCall, RunningSteps, PassesDone
<1> QED BY <1>3, <1>6, <1>7, <1>8 DEF Known

LEMMA StepKnown ==
  ASSUME TypeOK, AloneInCall, Known, [Next]_vars
  PROVE  Known'
<1>1. /\ AllStaffed /\ NothingUnprepared /\ RunsKnow /\ RunningInCall /\ PassesDone
      /\ PausedInCall' /\ Grown
  BY StepPaused, StepGrows DEF Known
<1>2. ASSUME NEW c \in Callers, Handle(c)
      PROVE  Known'
  BY <1>1, <1>2, HandledStaffed, HandledPrepared, HandledKnows, HandledRunning, HandledPasses
  DEF Known
<1>3. ASSUME NEW j \in Jobs, RunWorks(j) \/ HandleCompletion(j) \/ RecordWhilePaused(j)
      PROVE  Known'
  BY <1>1, <1>3, RunStaffed, RunPrepared, RunKnows, RunRunning, RunPasses DEF Known
<1>4. ASSUME OperatorAsks \/ (OperatorHandles /\ ~Handle(Operator))
      PROVE  Known'
  BY <1>1, <1>4, OperatorStaffed, OperatorPrepared, OperatorKnows, OperatorRunning,
     OperatorPasses DEF Known
<1>5. CASE UNCHANGED vars
  BY <1>5 DEF vars, jobs, asked, Known, AllStaffed, NothingUnprepared, RunsKnow,
     RunningInCall, PausedInCall, PassesDone, CurrentJob, Current
<1> QED
  BY <1>2, <1>3, <1>4, <1>5 DEF Next, RunHandles, Callers, Operator

LEMMA StepInvariant == IInv /\ [Next]_vars => IInv'
<1> SUFFICES ASSUME TypeOK, AloneInCall, Order, Known, [Next]_vars
             PROVE  TypeOK' /\ AloneInCall' /\ Order' /\ Known'
  BY DEF IInv
<1>1. TypeOK' /\ AloneInCall' /\ Known'
  BY StepType, StepAlone, StepKnown
<1>2. CASE \E c \in Callers : Handle(c)
  BY <1>1, <1>2, HandledInOrder
<1>3. CASE \E j \in Jobs : RunWorks(j) \/ HandleCompletion(j) \/ RecordWhilePaused(j)
  BY <1>1, <1>3, RunInOrder
<1>4. CASE OperatorAsks \/ (OperatorHandles /\ ~Handle(Operator))
  BY <1>1, <1>4, OperatorInOrder
<1>5. CASE UNCHANGED vars
  BY <1>1, <1>5 DEF vars, jobs, Order, GoalsReached, StartsFromSettled, GoalsInOrder,
     OneJobPerGoal
<1> QED
  BY <1>2, <1>3, <1>4, <1>5 DEF Next, RunHandles, Callers, Operator

\* The invariant the two theorems below rest on: callers, copies and goals agree, for
\* every number of goals, jobs and interleavings of runs with the operator.
THEOREM ChainInvariant == Spec => []IInv
<1>1. Init => IInv
  BY InitType, InitAlone, InitInOrder, InitKnown DEF IInv
<1>2. IInv /\ [Next]_vars => IInv'
  BY StepInvariant
<1> QED
  BY <1>1, <1>2, PTL DEF Spec

\* In every chain, goals are settled in order and those ahead are untouched, as long as
\* every call on the chain is over before the next one loads it.
THEOREM ChainGoalsInOrder == Spec => []GoalsInOrder
<1>1. IInv => GoalsInOrder
  BY DEF IInv, Order
<1> QED
  BY <1>1, ChainInvariant, PTL

\* Under the same proviso no goal ever gets a second job.
THEOREM ChainOneJobPerGoal == Spec => []OneJobPerGoal
<1>1. IInv => OneJobPerGoal
  BY DEF IInv, Order
<1> QED
  BY <1>1, ChainInvariant, PTL

----------------------------------------------------------------------------
(* Chain implements GoalSequence: a save is a step of the sequence, and what *)
(* changes no chain is work on the goals reached so far.                      *)

LEMMA Works ==
  ASSUME TypeOK', GoalsReached', clean', UNCHANGED disk
  PROVE  Sequence!Step
<1>1. CompletedGoals' \subseteq 1 .. disk.index
  BY DEF CompletedGoals, GoalsReached, TypeOK, Goals, ChainRecord
<1> QED
  BY <1>1 DEF Sequence!Step, Sequence!Work

\* A save that leaves the jobs alone.
LEMMA SameCompleted ==
  ASSUME UNCHANGED jobs
  PROVE  CompletedGoals' = CompletedGoals
  BY DEF CompletedGoals, jobs

LEMMA Saves ==
  ASSUME TypeOK, AloneInCall, clean, NEW c \in Callers, at[c] \in InCall
  PROVE  /\ copy[c] = disk /\ disk \in ChainRecord /\ Current(c) = disk.index
         /\ disk.index \in Goals /\ Sequence!Open
  BY DEF TypeOK, AloneInCall, ChainRecord, ChainStatus, Closed, Current, Sequence!Open

LEMMA Passes ==
  ASSUME disk \in ChainRecord, Sequence!Open, NEW g \in CompletedGoals,
         g = disk.index \/ disk.status = "paused",
         disk' = [Settled(disk, g, "done") EXCEPT
                    !.status = IF disk.status = "running" /\ g = NumGoals THEN "done"
                               ELSE disk.status],
         UNCHANGED jobs
  PROVE  Sequence!Step
  BY SameCompleted DEF ChainRecord, Settled, Sequence!Step, Sequence!PassGoal

LEMMA Fails ==
  ASSUME disk \in ChainRecord, Sequence!Open, NEW g \in Goals, g <= disk.index + 1,
         disk' = FailedWith(disk, g), UNCHANGED jobs
  PROVE  Sequence!Step
  BY SameCompleted DEF ChainRecord, FailedWith, Settled, Goals, Sequence!Step, Sequence!FailGoal,
     Sequence!Goals

LEMMA StartsNext ==
  ASSUME TypeOK, AloneInCall, Order, Known, clean, NEW c \in Callers, StartGoal(c)
  PROVE  Sequence!Step
<1> DEFINE g == disk.index + 1
<1>1. /\ copy[c] = disk /\ disk \in ChainRecord /\ Current(c) = disk.index
      /\ disk.status = "running" /\ disk.goal[disk.index] \in {"done", "skipped"}
      /\ disk.index \in Nat /\ disk.index < NumGoals
  <2>1. at[c] = "start" /\ Current(c) < NumGoals
    BY DEF StartGoal
  <2> QED BY <2>1, Saves DEF InCall, Known, RunningInCall, RunningSteps, Order, StartsFromSettled, Goals
<1>2. PICK j \in Jobs :
        /\ goalOf[j] = 0 /\ goalOf' = [goalOf EXCEPT ![j] = g]
        /\ disk' = [Settled(disk, g, "running") EXCEPT
                      !.status = "running", !.index = g, !.job[g] = j]
        /\ UNCHANGED own
  BY <1>1 DEF StartGoal, NewJob, Save
<1>3. own[j] = "none"
  BY <1>2 DEF Known, NothingUnprepared
<1>4. CompletedGoals' = CompletedGoals
  BY <1>2, <1>3 DEF CompletedGoals, TypeOK, Goals
<1>5. /\ disk'.index = g /\ disk'.goal = [disk.goal EXCEPT ![g] = "running"]
      /\ disk'.status = disk.status
  BY <1>1, <1>2 DEF ChainRecord, Settled
<1> QED
  BY <1>1, <1>4, <1>5 DEF Sequence!Step, Sequence!StartGoal

LEMMA HandledInSequence ==
  ASSUME TypeOK, AloneInCall, Order, Known, TypeOK', Order', clean, clean',
         NEW c \in Callers, Handle(c)
  PROVE  Sequence!Step
<1>0. /\ at[c] \in InCall =>
           /\ copy[c] = disk /\ disk \in ChainRecord /\ Current(c) = disk.index
           /\ disk.index \in Goals /\ Sequence!Open /\ disk.index \in Nat
      /\ GoalsReached /\ GoalsReached'
  BY Saves DEF Order, Goals
<1>1. CASE Advance(c) \/ Reload(c) \/ Launch(c) \/ Tell(c)
  BY <1>0, <1>1, Works DEF Advance, Reload, Launch, Tell, LoadIf
<1>2. CASE PassGoal(c)
  <2>1. disk.status = "running" /\ Current(c) \in CompletedGoals
    <3>1. at[c] = "pass"
      BY <1>2 DEF PassGoal
    <3>2. disk.status = "running" /\ own[CurrentJob(c)] = "done"
      BY <3>1 DEF Known, RunningInCall, RunningSteps, PassesDone
    <3>3. CurrentJob(c) \in Jobs /\ goalOf[CurrentJob(c)] = Current(c) /\ Current(c) \in Goals
      BY CurrentPrepared, CopyType DEF Known
    <3> QED BY <3>2, <3>3 DEF CompletedGoals
  <2>2. disk' = [Settled(disk, disk.index, "done") EXCEPT
                   !.status = IF disk.index = NumGoals THEN "done" ELSE disk.status]
    BY <1>0, <1>2 DEF PassGoal, Save, SaveAndLeave, InCall, Settled, ChainRecord
  <2> QED BY <1>0, <1>2, <2>1, <2>2, Passes DEF PassGoal, InCall
<1>3. CASE FailGoal(c)
  BY <1>0, <1>3, Fails DEF FailGoal, SaveAndLeave, InCall
<1>4. CASE StartGoal(c)
  BY <1>4, StartsNext
<1>5. CASE StartFails(c)
  <2>1. CASE Current(c) < NumGoals
    <3>1. disk.index + 1 \in Goals /\ disk' = FailedWith(disk, disk.index + 1)
      BY <1>0, <1>5, <2>1, CopyType DEF StartFails, SaveAndLeave, InCall
    <3> QED BY <1>0, <1>5, <3>1, Fails DEF StartFails, InCall
  <2>2. CASE ~(Current(c) < NumGoals)
    BY <1>0, <1>5, <2>2, Works DEF StartFails
  <2> QED BY <2>1, <2>2
<1>6. CASE LaunchRefused(c)
  BY <1>0, <1>6, Fails DEF LaunchRefused, SaveAndLeave, InCall
<1>7. CASE Mark(c)
  <2> DEFINE j == IF c = Operator THEN target ELSE c
             g == goalOf[j]
  <2>1. j \in Jobs /\ g # 0
    BY <1>7 DEF Mark, Known, NothingUnprepared, Callers, Operator
  <2>2. g \in Goals /\ g <= disk.index + 1
    BY <1>0, <1>7, <2>1 DEF Mark, InCall, GoalsReached, TypeOK, Goals
  <2>3. disk' = FailedWith(disk, g)
    BY <1>0, <1>7 DEF Mark, SaveAndLeave, InCall
  <2> HIDE DEF g
  <2> QED BY <1>0, <1>7, <2>2, <2>3, Fails DEF Mark, InCall
<1> QED
  BY <1>1, <1>2, <1>3, <1>4, <1>5, <1>6, <1>7 DEF Handle

LEMMA RunInSequence ==
  ASSUME TypeOK, AloneInCall, Order, Known, TypeOK', Order', clean, clean',
         NEW j \in Jobs, RunWorks(j) \/ HandleCompletion(j) \/ RecordWhilePaused(j)
  PROVE  Sequence!Step
<1>0. j \in Callers /\ GoalsReached /\ GoalsReached'
  BY DEF Order, Callers
<1>1. CASE RunWorks(j) \/ HandleCompletion(j)
  BY <1>0, <1>1, Works DEF RunWorks, Progress, Complete, Close, CloseQuietly, GoOn, Finish,
     HandleCompletion, LoadIf
<1>2. CASE RecordWhilePaused(j)
  <2>1. /\ copy[j] = disk /\ disk \in ChainRecord /\ Sequence!Open
    BY <1>0, <1>2, Saves DEF RecordWhilePaused, InCall
  <2>2. disk.status = "paused" /\ own[j] = "done" /\ goalOf[j] # 0
    BY <1>2 DEF RecordWhilePaused, Known, PausedInCall, RunsKnow, NothingUnprepared
  <2>3. goalOf[j] \in CompletedGoals
    BY <2>2 DEF TypeOK, CompletedGoals
  <2>4. disk' = [Settled(disk, goalOf[j], "done") EXCEPT !.status = disk.status]
    BY <1>2, <2>1 DEF RecordWhilePaused, SaveAndLeave, Settled, ChainRecord
  <2> QED BY <1>2, <2>1, <2>2, <2>3, <2>4, Passes DEF RecordWhilePaused
<1> QED BY <1>1, <1>2

LEMMA OperatorInSequence ==
  ASSUME TypeOK, AloneInCall, Order, Known, TypeOK', Order', clean, clean',
         OperatorAsks \/ (OperatorHandles /\ ~Handle(Operator))
  PROVE  Sequence!Step
<1> DEFINE g == disk.index
<1>0. Operator \in Callers /\ GoalsReached'
  BY DEF Order, Callers
<1>1. CASE OperatorAsks \/ WithdrawJob \/ LookAtJob \/ StopJob \/ CheckCurrentGoal
  BY <1>0, <1>1, Works DEF OperatorAsks, Restart, Withdraw, Control, WithdrawJob, LookAtJob,
     StopJob, CheckCurrentGoal
<1>2. ASSUME NEW which \in Controls, Settling(which)
      PROVE  /\ copy[Operator] = disk /\ disk \in ChainRecord /\ Current(Operator) = g
             /\ Sequence!Open /\ CompletedGoals' = CompletedGoals
  BY <1>0, <1>2, Saves, SameCompleted DEF Settling, InCall
<1>3. CASE PauseChain
  <2>1. disk' = [disk EXCEPT !.status = "paused"]
    BY <1>2, <1>3 DEF PauseChain, SaveAndLeave, Controls
  <2> QED
    BY <1>2, <1>3, <2>1 DEF PauseChain, Controls, ChainRecord, Sequence!Step, Sequence!Pause
<1>4. CASE ResumeChain
  <2>1. disk' = [disk EXCEPT !.status = "running"]
    BY <1>2, <1>4 DEF ResumeChain, Save, Controls
  <2> QED
    BY <1>2, <1>4, <2>1 DEF ResumeChain, Controls, ChainRecord, Sequence!Step, Sequence!Resume
<1>5. CASE CancelChain
  <2>1. disk' = [ IF disk.goal[g] \in {"pending", "running"} THEN Settled(disk, g, "failed")
                  ELSE disk EXCEPT !.status = "cancelled" ]
    BY <1>2, <1>5 DEF CancelChain, SaveAndLeave, Controls
  <2>2. /\ disk'.status = "cancelled" /\ disk'.index = disk.index
        /\ disk'.goal = [disk.goal EXCEPT ![g] =
             IF disk.goal[g] \in {"pending", "running"} THEN "failed" ELSE disk.goal[g]]
    BY <1>2, <1>5, <2>1 DEF CancelChain, Controls, ChainRecord, Settled
  <2> QED
    BY <1>2, <1>5, <2>2 DEF CancelChain, Controls, Sequence!Step, Sequence!Cancel
<1>6. CASE SkipChainGoal
  <2>1. disk' = [Settled(disk, g, "skipped") EXCEPT
                   !.status = IF g = NumGoals THEN "done" ELSE "running"]
    BY <1>2, <1>6 DEF SkipChainGoal, Save, SaveAndLeave, Controls
  <2>2. /\ disk'.status = IF g = NumGoals THEN "done" ELSE "running"
        /\ disk'.index = disk.index /\ disk'.goal = [disk.goal EXCEPT ![g] = "skipped"]
    BY <1>2, <1>6, <2>1 DEF SkipChainGoal, Controls, ChainRecord, Settled
  <2> QED
    BY <1>2, <1>6, <2>2 DEF SkipChainGoal, Controls, Sequence!Step, Sequence!SkipGoal
<1> QED
  BY <1>1, <1>3, <1>4, <1>5, <1>6 DEF OperatorHandles

LEMMA StepInSequence ==
  ASSUME IInv, [Next]_vars
  PROVE  clean' => clean /\ (Sequence!Step \/ UNCHANGED Sequence!vars)
<1> SUFFICES ASSUME clean'
             PROVE  clean /\ (Sequence!Step \/ UNCHANGED Sequence!vars)
  OBVIOUS
<1>1. /\ clean /\ TypeOK /\ AloneInCall /\ Order /\ Known
      /\ TypeOK' /\ Order'
  BY CleanBefore, StepInvariant DEF IInv
<1>2. ASSUME NEW c \in Callers, Handle(c)
      PROVE  Sequence!Step
  BY <1>1, <1>2, HandledInSequence
<1>3. ASSUME NEW j \in Jobs, RunWorks(j) \/ HandleCompletion(j) \/ RecordWhilePaused(j)
      PROVE  Sequence!Step
  BY <1>1, <1>3, RunInSequence
<1>4. ASSUME OperatorAsks \/ (OperatorHandles /\ ~Handle(Operator))
      PROVE  Sequence!Step
  BY <1>1, <1>4, OperatorInSequence
<1>5. CASE UNCHANGED vars
  BY <1>5 DEF vars, jobs, Sequence!vars, CompletedGoals
<1> QED
  BY <1>1, <1>2, <1>3, <1>4, <1>5 DEF Next, RunHandles, Callers, Operator

LEMMA InitInSequence == Init => Sequence!Init
<1> SUFFICES ASSUME Init PROVE Sequence!Init
  OBVIOUS
<1>1. CompletedGoals = {}
  BY DEF Init, CompletedGoals
<1> QED
  BY <1>1 DEF Init, FirstStarted, Sequence!Init, Sequence!Goals, Goals

\* Whatever the number of goals and jobs, the chain file keeps the promise of
\* GoalSequence: orderly saves of runs and operator are steps of one sequence of goals.
THEOREM ImplementsSequence == Spec => KeepsSequence
<1>1. Init => Sequence!Init
  BY InitInSequence
<1>2. IInv /\ [Next]_vars => [clean' => clean /\ Sequence!Step]_(Sequence!vars)
  BY StepInSequence
<1> QED
  BY <1>1, <1>2, ChainInvariant, PTL DEF Spec, KeepsSequence, Sequence!Spec

\* A goal becomes done only behind a job of that goal that has completed, whether its
\* own run, another's or the operator records it, as long as calls do not overlap.
THEOREM DoneGoalsAreProven == Spec => DoneGoalHasDoneJob
<1>1. ASSUME IInv, [Next]_vars, clean', NEW g \in Goals,
             disk.goal[g] # "done", disk'.goal[g] = "done"
      PROVE  \E j \in Jobs : goalOf[j] = g /\ own[j] = "done"
  <2>1. Sequence!Step \/ UNCHANGED Sequence!vars
    BY <1>1, StepInSequence
  <2>2. disk \in ChainRecord
    BY <1>1 DEF IInv, TypeOK
  <2>3. g \in CompletedGoals
    BY <1>1, <2>1, <2>2 DEF ChainRecord, Sequence!Step, Sequence!vars, Sequence!Work,
       Sequence!PassGoal, Sequence!FailGoal, Sequence!StartGoal, Sequence!Pause,
       Sequence!Resume, Sequence!SkipGoal, Sequence!Cancel
  <2> QED BY <2>3 DEF CompletedGoals
<1>2. IInv /\ [Next]_vars =>
        [clean' => \A g \in Goals : disk.goal[g] # "done" /\ disk'.goal[g] = "done" =>
                      \E j \in Jobs : goalOf[j] = g /\ own[j] = "done"]_vars
  BY <1>1
<1> QED
  BY <1>2, ChainInvariant, PTL DEF Spec, DoneGoalHasDoneJob
=============================================================================
