--------------------------- MODULE JobLoop_proofs ---------------------------
(***************************************************************************)
(* Proofs about JobLoop, for every step budget, every number of retries    *)
(* and every set of reasons.                                               *)
(***************************************************************************)
EXTENDS JobLoop, TLAPS

----------------------------------------------------------------------------
(* The inductive invariant.  None of the properties is inductive alone: the *)
(* budget rests on who may take a step in which phase, and what a closed     *)
(* job stands for rests on a completed job being at rest.                    *)

\* A job that was never planned has not used anything.
FreshUntilPlanned ==
  /\ ~planned => /\ curStep = 0 /\ extraUsed = 0 /\ pending = 0
                 /\ ~exhausted /\ pc \in {"idle", "plan"}
  /\ pc = "plan" => ~planned

\* The leader is asked only while a step is left, so its answer may use one.
LeaderHasStep == pc = "leader" => curStep < maxSteps

DoneIsAtRest == status = "done" => pc = "idle"

\* What a job reads in the phases that may break off, and in those that lead there.
StatusOfPhase ==
  /\ pc = "plan" => status = "planning"
  /\ pc = "leader" => status = "waiting_leader"
  /\ pc = "evaluate" => status \in {"waiting_leader", "running"}

Budget ==
  /\ FreshUntilPlanned /\ StepBudget /\ LeaderHasStep
  /\ PendingIsNewest /\ ExtraOnlyWhenOut

Verdict ==
  /\ DoneIsAtRest /\ StatusOfPhase /\ DoneIsVerified
  /\ ChainAdvancesBehindDone /\ NothingElseStrands

IInv == TypeOK /\ Budget /\ Verdict

----------------------------------------------------------------------------
(* The helpers. *)

LEMMA NoCrew == <<>> \in Crews
  BY DEF Crews

LEMMA OneCrew == \A k \in Kinds : <<k>> \in Crews
  BY DEF Crews

LEMMA TwoCrew == \A c \in Kinds \X Kinds : c \in Crews
  BY DEF Crews

LEMMA PairLength == \A c \in Kinds \X Kinds : Len(c) = 2
  OBVIOUS

LEMMA FirstStrike == [reason |-> NoReason, count |-> 0] \in StrikeRecord
  BY DEF StrikeRecord, StrikeLimit

LEMMA RecordedType ==
  ASSUME NEW s \in StrikeRecord, NEW r \in Reasons \cup {MaxExceeded}
  PROVE  Recorded(s, r) \in StrikeRecord
  BY DEF StrikeRecord, StrikeLimit, Recorded

\* No verdict of the gate overrides what the history fails to prove.
LEMMA VerdictNeedsHistory ==
  ASSUME NEW proven, NEW verdict \in Verdicts(proven), verdict.passed
  PROVE  proven
<1>1. PICK rep \in ProviderReport, checksFailed \in BOOLEAN :
        verdict = Merge(rep, proven, checksFailed)
  BY DEF Verdicts
<1>2. Merge(rep, proven, checksFailed).passed => RuleStage(rep, proven).passed
  BY DEF Merge, EnforcementStage, ConsistencyStage
<1>3. RuleStage(rep, proven).passed => proven
  BY DEF RuleStage
<1> QED
  BY <1>1, <1>2, <1>3

----------------------------------------------------------------------------
(* The initial states. *)

LEMMA InitIInv ==
  ASSUME Init
  PROVE  IInv
<1> USE JobLoopAssumption DEF Init
<1>1. JobTypeOK
  BY FirstStrike DEF JobTypeOK, Statuses
<1>2. RunTypeOK
  BY NoCrew DEF RunTypeOK, Phases, NoRetry, SummarizeCap
<1>3. FlagsOK
  BY DEF FlagsOK
<1>4. Budget
  BY DEF Budget, FreshUntilPlanned, StepBudget, LeaderHasStep, PendingIsNewest,
         ExtraOnlyWhenOut
<1>5. Verdict
  BY DEF Verdict, DoneIsAtRest, StatusOfPhase, DoneIsVerified, ChainAdvancesBehindDone,
         NothingElseStrands, Stranded
<1> QED
  BY <1>1, <1>2, <1>3, <1>4, <1>5 DEF IInv, TypeOK

----------------------------------------------------------------------------
(* The steps, one case per action. *)

\* The fields of the job keep their types.
LEMMA JobTypeStep ==
  ASSUME TypeOK, [Next]_vars
  PROVE  JobTypeOK'
<1> USE JobLoopAssumption DEF TypeOK, JobTypeOK, Statuses, Phases, NoRetry,
    NoReason, MaxExceeded, SummarizeCap, StrikeLimit, EndRun, Rest, Deferred, BreakOff, BeginRun,
    Interrupt, Fail, TellChainFailed, kept, marks, settings, evidence
<1>1. CASE Start
  BY <1>1 DEF Start
<1>2. CASE PlanReturns
  BY <1>2 DEF PlanReturns, Continue
<1>3. CASE PlanFails
  BY <1>3 DEF PlanFails
<1>4. CASE PlanInterrupted
  BY <1>4 DEF PlanInterrupted
<1>5. CASE OutOfSteps
  BY <1>5, RecordedType DEF OutOfSteps, BlockOrStrikeOut, StrikesOut
<1>6. CASE TurnCancelled
  BY <1>6 DEF TurnCancelled, Recoverable
<1>7. CASE AskLeader
  BY <1>7 DEF AskLeader, Continue
<1>8. CASE DispatchWithoutLeader
  BY <1>8 DEF DispatchWithoutLeader, AppendSteps, EngineOfNewSteps, Kinds
<1>9. CASE LeaderInterrupted
  BY <1>9 DEF LeaderInterrupted
<1>10. CASE LeaderFails
  BY <1>10 DEF LeaderFails
<1>11. CASE LeaderBlocks
  BY <1>11, RecordedType DEF LeaderBlocks, BlockOrStrikeOut, StrikesOut
<1>12. CASE RunWorker
  BY <1>12 DEF RunWorker, Dispatch, AppendSteps, EngineOfNewSteps,
      SettleRefusal, Kinds
<1>13. CASE RunPair
  BY <1>13, PairLength DEF RunPair, Dispatch, AppendSteps, EngineOfNewSteps,
      SettleRefusal, Kinds
<1>14. CASE RunSystem
  BY <1>14 DEF RunSystem, Dispatch, AppendSteps, EngineOfNewSteps,
      SettleRefusal, Kinds
<1>15. CASE RequestApproval
  BY <1>15, RecordedType DEF RequestApproval, BlockOrStrikeOut, StrikesOut
<1>16. CASE Summarize
  BY <1>16 DEF Summarize, SettleRefusal
<1>17. CASE Complete
  BY <1>17 DEF Complete
<1>18. CASE CompleteAgain
  BY <1>18 DEF CompleteAgain
<1>19. CASE WorkerInterrupted
  BY <1>19 DEF WorkerInterrupted
<1>20. CASE WorkerBlocks
  BY <1>20, RecordedType DEF WorkerBlocks, BlockOrStrikeOut, StrikesOut
<1>21. CASE WorkerFails
  BY <1>21 DEF WorkerFails
<1>22. CASE WorkerReportsFailure
  BY <1>22 DEF WorkerReportsFailure, Continue, AfterWorker
<1>23. CASE WorkerSucceeds
  BY <1>23 DEF WorkerSucceeds, Continue, AfterWorker
<1>24. CASE EngineInterrupted
  BY <1>24 DEF EngineInterrupted
<1>25. CASE EngineRecordLost
  BY <1>25 DEF EngineRecordLost
<1>26. CASE PairReturns
  BY <1>26, RecordedType DEF PairReturns, MergePair, EngineRecorded, Succeeded,
      Continue
<1>27. CASE SystemInterrupted
  BY <1>27 DEF SystemInterrupted
<1>28. CASE SystemFinishes
  BY <1>28 DEF SystemFinishes, Continue
<1>29. CASE SystemRefused
  BY <1>29, RecordedType DEF SystemRefused, BlockOrStrikeOut, StrikesOut
<1>30. CASE SystemRecordLost
  BY <1>30 DEF SystemRecordLost
<1>31. CASE EvaluatorInterrupted
  BY <1>31 DEF EvaluatorInterrupted, ReturnToLeader
<1>32. CASE EvaluatorFails
  BY <1>32 DEF EvaluatorFails, TryAgain, ReturnToLeader
<1>33. CASE EvaluatorReports
  BY <1>33, RecordedType DEF EvaluatorReports, Accept, RefuseBlocked,
      RefuseDefective, RefuseInconsistent, TryAgain, ReturnToLeader, Filed
<1>34. CASE Resume
  BY <1>34 DEF Resume, Resumable
<1>35. CASE Retry
  BY <1>35 DEF Retry
<1>36. CASE Approve
  BY <1>36 DEF Approve, Kinds
<1>37. CASE Reject
  BY <1>37 DEF Reject, CloseByOperator
<1>38. CASE Cancel
  BY <1>38 DEF Cancel, CloseByOperator
<1>39. CASE CancelContext
  BY <1>39 DEF CancelContext
<1>40. CASE UNCHANGED vars
  BY <1>40 DEF vars
<1>41. CASE PlanArtifactLost
  BY <1>41 DEF PlanArtifactLost, Recoverable
<1>42. CASE ReportLost
  BY <1>42 DEF ReportLost, Recoverable
<1> QED
  BY <1>1, <1>2, <1>3, <1>4, <1>5, <1>6, <1>7, <1>8, <1>9, <1>10, <1>11, <1>12,
      <1>13, <1>14, <1>15, <1>16, <1>17, <1>18, <1>19, <1>20, <1>21, <1>22,
      <1>23, <1>24, <1>25, <1>26, <1>27, <1>28, <1>29, <1>30, <1>31, <1>32,
      <1>33, <1>34, <1>35, <1>36, <1>37, <1>38, <1>39, <1>40, <1>41, <1>42
  DEF Next, RunStep, Operator, PlanStep, TurnStep, LeaderStep, WorkerStep,
      SystemStep, EvaluatorStep

\* So do the locals of the run.
LEMMA RunTypeStep ==
  ASSUME TypeOK, [Next]_vars
  PROVE  RunTypeOK'
<1> USE JobLoopAssumption DEF TypeOK, JobTypeOK, RunTypeOK, Phases, NoRetry,
    SummarizeCap, EndRun, Rest, Deferred, BreakOff, BeginRun, Interrupt, Fail, TellChainFailed, kept,
    marks, settings, evidence
<1>1. CASE Start
  BY <1>1, NoCrew DEF Start
<1>2. CASE PlanReturns
  BY <1>2, NoCrew DEF PlanReturns, Continue
<1>3. CASE PlanFails
  BY <1>3, NoCrew DEF PlanFails
<1>4. CASE PlanInterrupted
  BY <1>4, NoCrew DEF PlanInterrupted
<1>5. CASE OutOfSteps
  BY <1>5, NoCrew DEF OutOfSteps, BlockOrStrikeOut, StrikesOut
<1>6. CASE TurnCancelled
  BY <1>6, NoCrew DEF TurnCancelled, Recoverable
<1>7. CASE AskLeader
  BY <1>7, NoCrew DEF AskLeader, Continue
<1>8. CASE DispatchWithoutLeader
  BY <1>8, OneCrew DEF DispatchWithoutLeader, AppendSteps, EngineOfNewSteps,
      Kinds
<1>9. CASE LeaderInterrupted
  BY <1>9, NoCrew DEF LeaderInterrupted
<1>10. CASE LeaderFails
  BY <1>10, NoCrew DEF LeaderFails
<1>11. CASE LeaderBlocks
  BY <1>11, NoCrew DEF LeaderBlocks, BlockOrStrikeOut, StrikesOut
<1>12. CASE RunWorker
  BY <1>12, OneCrew DEF RunWorker, Dispatch, AppendSteps, EngineOfNewSteps,
      SettleRefusal, Kinds
<1>13. CASE RunPair
  BY <1>13, TwoCrew DEF RunPair, Dispatch, AppendSteps, EngineOfNewSteps,
      SettleRefusal, Kinds
<1>14. CASE RunSystem
  BY <1>14, OneCrew DEF RunSystem, Dispatch, AppendSteps, EngineOfNewSteps,
      SettleRefusal, Kinds
<1>15. CASE RequestApproval
  BY <1>15, NoCrew DEF RequestApproval, BlockOrStrikeOut, StrikesOut
<1>16. CASE Summarize
  BY <1>16 DEF Summarize, SettleRefusal
<1>17. CASE Complete
  BY <1>17 DEF Complete
<1>18. CASE CompleteAgain
  BY <1>18, NoCrew DEF CompleteAgain
<1>19. CASE WorkerInterrupted
  BY <1>19, NoCrew DEF WorkerInterrupted
<1>20. CASE WorkerBlocks
  BY <1>20, NoCrew DEF WorkerBlocks, BlockOrStrikeOut, StrikesOut
<1>21. CASE WorkerFails
  BY <1>21, NoCrew DEF WorkerFails
<1>22. CASE WorkerReportsFailure
  BY <1>22, NoCrew DEF WorkerReportsFailure, Continue, AfterWorker
<1>23. CASE WorkerSucceeds
  BY <1>23, NoCrew DEF WorkerSucceeds, Continue, AfterWorker
<1>24. CASE EngineInterrupted
  BY <1>24, NoCrew DEF EngineInterrupted
<1>25. CASE EngineRecordLost
  BY <1>25, NoCrew DEF EngineRecordLost
<1>26. CASE PairReturns
  BY <1>26, NoCrew DEF PairReturns, MergePair, EngineRecorded, Succeeded,
      Continue
<1>27. CASE SystemInterrupted
  BY <1>27, NoCrew DEF SystemInterrupted
<1>28. CASE SystemFinishes
  BY <1>28, NoCrew DEF SystemFinishes, Continue
<1>29. CASE SystemRefused
  BY <1>29, NoCrew DEF SystemRefused, BlockOrStrikeOut, StrikesOut
<1>30. CASE SystemRecordLost
  BY <1>30, NoCrew DEF SystemRecordLost
<1>31. CASE EvaluatorInterrupted
  <2>1. CASE skipLeader
    BY <1>31, NoCrew, <2>1 DEF EvaluatorInterrupted, ReturnToLeader
  <2>2. CASE ~skipLeader
    BY <1>31, NoCrew, <2>2 DEF EvaluatorInterrupted, ReturnToLeader
  <2> QED
    BY <2>1, <2>2
<1>32. CASE EvaluatorFails
  BY <1>32, NoCrew DEF EvaluatorFails, TryAgain, ReturnToLeader
<1>33. CASE EvaluatorReports
  BY <1>33, NoCrew DEF EvaluatorReports, Accept, RefuseBlocked,
      RefuseDefective, RefuseInconsistent, TryAgain, ReturnToLeader, Filed
<1>34. CASE Resume
  BY <1>34, NoCrew DEF Resume, Resumable
<1>35. CASE Retry
  BY <1>35, NoCrew DEF Retry
<1>36. CASE Approve
  BY <1>36, OneCrew DEF Approve, Kinds
<1>37. CASE Reject
  BY <1>37 DEF Reject, CloseByOperator
<1>38. CASE Cancel
  BY <1>38 DEF Cancel, CloseByOperator
<1>39. CASE CancelContext
  BY <1>39 DEF CancelContext
<1>40. CASE UNCHANGED vars
  BY <1>40 DEF vars
<1>41. CASE PlanArtifactLost
  BY <1>41, NoCrew DEF PlanArtifactLost, Recoverable
<1>42. CASE ReportLost
  BY <1>42, NoCrew DEF ReportLost, Recoverable
<1> QED
  BY <1>1, <1>2, <1>3, <1>4, <1>5, <1>6, <1>7, <1>8, <1>9, <1>10, <1>11, <1>12,
      <1>13, <1>14, <1>15, <1>16, <1>17, <1>18, <1>19, <1>20, <1>21, <1>22,
      <1>23, <1>24, <1>25, <1>26, <1>27, <1>28, <1>29, <1>30, <1>31, <1>32,
      <1>33, <1>34, <1>35, <1>36, <1>37, <1>38, <1>39, <1>40, <1>41, <1>42
  DEF Next, RunStep, Operator, PlanStep, TurnStep, LeaderStep, WorkerStep,
      SystemStep, EvaluatorStep

\* And the flags.
LEMMA FlagsStep ==
  ASSUME TypeOK, [Next]_vars
  PROVE  FlagsOK'
<1> USE JobLoopAssumption DEF TypeOK, FlagsOK, EndRun, Rest, Deferred, BreakOff, BeginRun, Interrupt,
    Fail, TellChainFailed, kept, marks, settings, evidence
<1>1. CASE Start
  BY <1>1 DEF Start
<1>2. CASE PlanReturns
  BY <1>2 DEF PlanReturns, Continue
<1>3. CASE PlanFails
  BY <1>3 DEF PlanFails
<1>4. CASE PlanInterrupted
  BY <1>4 DEF PlanInterrupted
<1>5. CASE OutOfSteps
  BY <1>5 DEF OutOfSteps, BlockOrStrikeOut, StrikesOut
<1>6. CASE TurnCancelled
  BY <1>6 DEF TurnCancelled, Recoverable
<1>7. CASE AskLeader
  BY <1>7 DEF AskLeader, Continue
<1>8. CASE DispatchWithoutLeader
  BY <1>8 DEF DispatchWithoutLeader, AppendSteps, EngineOfNewSteps, Kinds
<1>9. CASE LeaderInterrupted
  BY <1>9 DEF LeaderInterrupted
<1>10. CASE LeaderFails
  BY <1>10 DEF LeaderFails
<1>11. CASE LeaderBlocks
  BY <1>11 DEF LeaderBlocks, BlockOrStrikeOut, StrikesOut
<1>12. CASE RunWorker
  BY <1>12 DEF RunWorker, Dispatch, AppendSteps, EngineOfNewSteps,
      SettleRefusal, Kinds
<1>13. CASE RunPair
  BY <1>13 DEF RunPair, Dispatch, AppendSteps, EngineOfNewSteps, SettleRefusal,
      Kinds
<1>14. CASE RunSystem
  BY <1>14 DEF RunSystem, Dispatch, AppendSteps, EngineOfNewSteps,
      SettleRefusal, Kinds
<1>15. CASE RequestApproval
  BY <1>15 DEF RequestApproval, BlockOrStrikeOut, StrikesOut
<1>16. CASE Summarize
  BY <1>16 DEF Summarize, SettleRefusal
<1>17. CASE Complete
  BY <1>17 DEF Complete
<1>18. CASE CompleteAgain
  BY <1>18 DEF CompleteAgain
<1>19. CASE WorkerInterrupted
  BY <1>19 DEF WorkerInterrupted
<1>20. CASE WorkerBlocks
  BY <1>20 DEF WorkerBlocks, BlockOrStrikeOut, StrikesOut
<1>21. CASE WorkerFails
  BY <1>21 DEF WorkerFails
<1>22. CASE WorkerReportsFailure
  BY <1>22 DEF WorkerReportsFailure, Continue, AfterWorker
<1>23. CASE WorkerSucceeds
  BY <1>23 DEF WorkerSucceeds, Continue, AfterWorker
<1>24. CASE EngineInterrupted
  BY <1>24 DEF EngineInterrupted
<1>25. CASE EngineRecordLost
  BY <1>25 DEF EngineRecordLost
<1>26. CASE PairReturns
  BY <1>26 DEF PairReturns, MergePair, EngineRecorded, Succeeded, Continue
<1>27. CASE SystemInterrupted
  BY <1>27 DEF SystemInterrupted
<1>28. CASE SystemFinishes
  BY <1>28 DEF SystemFinishes, Continue
<1>29. CASE SystemRefused
  BY <1>29 DEF SystemRefused, BlockOrStrikeOut, StrikesOut
<1>30. CASE SystemRecordLost
  BY <1>30 DEF SystemRecordLost
<1>31. CASE EvaluatorInterrupted
  BY <1>31 DEF EvaluatorInterrupted, ReturnToLeader
<1>32. CASE EvaluatorFails
  BY <1>32 DEF EvaluatorFails, TryAgain, ReturnToLeader
<1>33. CASE EvaluatorReports
  BY <1>33 DEF EvaluatorReports, Accept, RefuseBlocked, RefuseDefective,
      RefuseInconsistent, TryAgain, ReturnToLeader, Filed
<1>34. CASE Resume
  BY <1>34 DEF Resume, Resumable
<1>35. CASE Retry
  BY <1>35 DEF Retry
<1>36. CASE Approve
  BY <1>36 DEF Approve, Kinds
<1>37. CASE Reject
  BY <1>37 DEF Reject, CloseByOperator
<1>38. CASE Cancel
  BY <1>38 DEF Cancel, CloseByOperator
<1>39. CASE CancelContext
  BY <1>39 DEF CancelContext
<1>40. CASE UNCHANGED vars
  BY <1>40 DEF vars
<1>41. CASE PlanArtifactLost
  BY <1>41 DEF PlanArtifactLost, Recoverable
<1>42. CASE ReportLost
  BY <1>42 DEF ReportLost, Recoverable
<1> QED
  BY <1>1, <1>2, <1>3, <1>4, <1>5, <1>6, <1>7, <1>8, <1>9, <1>10, <1>11, <1>12,
      <1>13, <1>14, <1>15, <1>16, <1>17, <1>18, <1>19, <1>20, <1>21, <1>22,
      <1>23, <1>24, <1>25, <1>26, <1>27, <1>28, <1>29, <1>30, <1>31, <1>32,
      <1>33, <1>34, <1>35, <1>36, <1>37, <1>38, <1>39, <1>40, <1>41, <1>42
  DEF Next, RunStep, Operator, PlanStep, TurnStep, LeaderStep, WorkerStep,
      SystemStep, EvaluatorStep

\* The budget: who may use a step, and when.
LEMMA BudgetStep ==
  ASSUME TypeOK, Budget, [Next]_vars
  PROVE  Budget'
<1> USE JobLoopAssumption DEF TypeOK, JobTypeOK, RunTypeOK, FlagsOK, Budget,
    FreshUntilPlanned, StepBudget, LeaderHasStep, PendingIsNewest,
    ExtraOnlyWhenOut, MaxExceeded, NoRetry, EndRun, Rest, Deferred, BreakOff, BeginRun, Interrupt, Fail,
    TellChainFailed, kept, marks, settings, evidence
<1>1. CASE Start
  BY <1>1 DEF Start
<1>2. CASE PlanReturns
  BY <1>2 DEF PlanReturns, Continue
<1>3. CASE PlanFails
  BY <1>3 DEF PlanFails
<1>4. CASE PlanInterrupted
  BY <1>4 DEF PlanInterrupted
<1>5. CASE OutOfSteps
  BY <1>5 DEF OutOfSteps, BlockOrStrikeOut, StrikesOut
<1>6. CASE TurnCancelled
  BY <1>6 DEF TurnCancelled, Recoverable
<1>7. CASE AskLeader
  BY <1>7 DEF AskLeader, Continue
<1>8. CASE DispatchWithoutLeader
  BY <1>8 DEF DispatchWithoutLeader, AppendSteps, EngineOfNewSteps, Kinds
<1>9. CASE LeaderInterrupted
  BY <1>9 DEF LeaderInterrupted
<1>10. CASE LeaderFails
  BY <1>10 DEF LeaderFails
<1>11. CASE LeaderBlocks
  BY <1>11 DEF LeaderBlocks, BlockOrStrikeOut, StrikesOut
<1>12. CASE RunWorker
  BY <1>12 DEF RunWorker, Dispatch, AppendSteps, EngineOfNewSteps,
      SettleRefusal, Kinds
<1>13. CASE RunPair
  <2>1. PICK kinds \in Kinds \X Kinds : Dispatch(kinds, "pair")
    BY <1>13 DEF RunPair
  <2>2. Len(kinds) = 2
    BY PairLength
  <2>3. /\ curStep' = curStep + 2
        /\ maxSteps' = maxSteps /\ extraUsed' = extraUsed /\ planned' = planned
        /\ pending' = pending /\ pc' = "pair" /\ pc = "leader"
        /\ status' = "waiting_worker"
    BY <2>1, <2>2 DEF Dispatch, AppendSteps
  <2>4. exhausted' => exhausted
    BY <2>1 DEF Dispatch, SettleRefusal
  <2>5. pending = 0 /\ curStep < maxSteps /\ planned
    BY <2>3
  <2>6. StepBudget'
    BY <2>3, <2>5
  <2>7. PendingIsNewest'
    BY <2>3, <2>5
  <2>8. ExtraOnlyWhenOut'
    BY <2>3, <2>4, <2>5
  <2>9. LeaderHasStep' /\ FreshUntilPlanned'
    BY <2>3, <2>5
  <2> QED BY <2>6, <2>7, <2>8, <2>9
<1>14. CASE RunSystem
  BY <1>14 DEF RunSystem, Dispatch, AppendSteps, EngineOfNewSteps,
      SettleRefusal, Kinds
<1>15. CASE RequestApproval
  BY <1>15 DEF RequestApproval, BlockOrStrikeOut, StrikesOut
<1>16. CASE Summarize
  BY <1>16 DEF Summarize, SettleRefusal
<1>17. CASE Complete
  BY <1>17 DEF Complete
<1>18. CASE CompleteAgain
  BY <1>18 DEF CompleteAgain
<1>19. CASE WorkerInterrupted
  BY <1>19 DEF WorkerInterrupted
<1>20. CASE WorkerBlocks
  BY <1>20 DEF WorkerBlocks, BlockOrStrikeOut, StrikesOut
<1>21. CASE WorkerFails
  BY <1>21 DEF WorkerFails
<1>22. CASE WorkerReportsFailure
  BY <1>22 DEF WorkerReportsFailure, Continue, AfterWorker
<1>23. CASE WorkerSucceeds
  BY <1>23 DEF WorkerSucceeds, Continue, AfterWorker
<1>24. CASE EngineInterrupted
  BY <1>24 DEF EngineInterrupted
<1>25. CASE EngineRecordLost
  BY <1>25 DEF EngineRecordLost
<1>26. CASE PairReturns
  BY <1>26 DEF PairReturns, MergePair, EngineRecorded, Succeeded, Continue
<1>27. CASE SystemInterrupted
  BY <1>27 DEF SystemInterrupted
<1>28. CASE SystemFinishes
  BY <1>28 DEF SystemFinishes, Continue
<1>29. CASE SystemRefused
  BY <1>29 DEF SystemRefused, BlockOrStrikeOut, StrikesOut
<1>30. CASE SystemRecordLost
  BY <1>30 DEF SystemRecordLost
<1>31. CASE EvaluatorInterrupted
  <2>1. CASE skipLeader
    BY <1>31, <2>1 DEF EvaluatorInterrupted, ReturnToLeader
  <2>2. CASE ~skipLeader
    BY <1>31, <2>2 DEF EvaluatorInterrupted, ReturnToLeader
  <2> QED
    BY <2>1, <2>2
<1>32. CASE EvaluatorFails
  BY <1>32 DEF EvaluatorFails, TryAgain, ReturnToLeader
<1>33. CASE EvaluatorReports
  BY <1>33 DEF EvaluatorReports, Accept, RefuseBlocked, RefuseDefective,
      RefuseInconsistent, TryAgain, ReturnToLeader, Filed
<1>34. CASE Resume
  BY <1>34 DEF Resume, Resumable
<1>35. CASE Retry
  BY <1>35 DEF Retry
<1>36. CASE Approve
  BY <1>36 DEF Approve, Kinds
<1>37. CASE Reject
  BY <1>37 DEF Reject, CloseByOperator
<1>38. CASE Cancel
  BY <1>38 DEF Cancel, CloseByOperator
<1>39. CASE CancelContext
  BY <1>39 DEF CancelContext
<1>40. CASE UNCHANGED vars
  BY <1>40 DEF vars
<1>41. CASE PlanArtifactLost
  BY <1>41 DEF PlanArtifactLost, Recoverable
<1>42. CASE ReportLost
  BY <1>42 DEF ReportLost, Recoverable
<1> QED
  BY <1>1, <1>2, <1>3, <1>4, <1>5, <1>6, <1>7, <1>8, <1>9, <1>10, <1>11, <1>12,
      <1>13, <1>14, <1>15, <1>16, <1>17, <1>18, <1>19, <1>20, <1>21, <1>22,
      <1>23, <1>24, <1>25, <1>26, <1>27, <1>28, <1>29, <1>30, <1>31, <1>32,
      <1>33, <1>34, <1>35, <1>36, <1>37, <1>38, <1>39, <1>40, <1>41, <1>42
  DEF Next, RunStep, Operator, PlanStep, TurnStep, LeaderStep, WorkerStep,
      SystemStep, EvaluatorStep

\* What a closed job stands for.
LEMMA VerdictStep ==
  ASSUME TypeOK, Budget, Verdict, [Next]_vars
  PROVE  Verdict'
<1> USE JobLoopAssumption DEF JobTypeOK, TypeOK, Budget, PendingIsNewest,
    Verdict, DoneIsAtRest, DoneIsVerified, ChainAdvancesBehindDone,
    NothingElseStrands, Stranded, StatusOfPhase, Recoverable, EndRun, Rest, Deferred, BreakOff, BeginRun, Interrupt,
    Fail, TellChainFailed, kept, marks, settings, evidence
<1>1. CASE Start
  BY <1>1 DEF Start
<1>2. CASE PlanReturns
  BY <1>2 DEF PlanReturns, Continue
<1>3. CASE PlanFails
  BY <1>3 DEF PlanFails
<1>4. CASE PlanInterrupted
  BY <1>4 DEF PlanInterrupted
<1>5. CASE OutOfSteps
  BY <1>5 DEF OutOfSteps, BlockOrStrikeOut, StrikesOut
<1>6. CASE TurnCancelled
  BY <1>6 DEF TurnCancelled, Recoverable
<1>7. CASE AskLeader
  BY <1>7 DEF AskLeader, Continue
<1>8. CASE DispatchWithoutLeader
  BY <1>8 DEF DispatchWithoutLeader, AppendSteps, EngineOfNewSteps, Kinds
<1>9. CASE LeaderInterrupted
  BY <1>9 DEF LeaderInterrupted
<1>10. CASE LeaderFails
  BY <1>10 DEF LeaderFails
<1>11. CASE LeaderBlocks
  BY <1>11 DEF LeaderBlocks, BlockOrStrikeOut, StrikesOut
<1>12. CASE RunWorker
  BY <1>12 DEF RunWorker, Dispatch, AppendSteps, EngineOfNewSteps,
      SettleRefusal, Kinds
<1>13. CASE RunPair
  BY <1>13 DEF RunPair, Dispatch, AppendSteps, EngineOfNewSteps, SettleRefusal,
      Kinds
<1>14. CASE RunSystem
  BY <1>14 DEF RunSystem, Dispatch, AppendSteps, EngineOfNewSteps,
      SettleRefusal, Kinds
<1>15. CASE RequestApproval
  BY <1>15 DEF RequestApproval, BlockOrStrikeOut, StrikesOut
<1>16. CASE Summarize
  BY <1>16 DEF Summarize, SettleRefusal
<1>17. CASE Complete
  BY <1>17 DEF Complete
<1>18. CASE CompleteAgain
  BY <1>18 DEF CompleteAgain
<1>19. CASE WorkerInterrupted
  BY <1>19 DEF WorkerInterrupted
<1>20. CASE WorkerBlocks
  BY <1>20 DEF WorkerBlocks, BlockOrStrikeOut, StrikesOut
<1>21. CASE WorkerFails
  BY <1>21 DEF WorkerFails
<1>22. CASE WorkerReportsFailure
  BY <1>22 DEF WorkerReportsFailure, Continue, AfterWorker
<1>23. CASE WorkerSucceeds
  BY <1>23 DEF WorkerSucceeds, Continue, AfterWorker
<1>24. CASE EngineInterrupted
  BY <1>24 DEF EngineInterrupted
<1>25. CASE EngineRecordLost
  BY <1>25 DEF EngineRecordLost
<1>26. CASE PairReturns
  BY <1>26 DEF PairReturns, MergePair, EngineRecorded, Succeeded, Continue
<1>27. CASE SystemInterrupted
  BY <1>27 DEF SystemInterrupted
<1>28. CASE SystemFinishes
  BY <1>28 DEF SystemFinishes, Continue
<1>29. CASE SystemRefused
  BY <1>29 DEF SystemRefused, BlockOrStrikeOut, StrikesOut
<1>30. CASE SystemRecordLost
  BY <1>30 DEF SystemRecordLost
<1>31. CASE EvaluatorInterrupted
  BY <1>31 DEF EvaluatorInterrupted, ReturnToLeader
<1>32. CASE EvaluatorFails
  BY <1>32 DEF EvaluatorFails, TryAgain, ReturnToLeader
<1>33. CASE EvaluatorReports
  <2> USE DEF ReturnToLeader
  <2>1. PICK verdict \in Verdicts(HistoryPasses) :
          /\ report' = Filed(verdict)
          /\ \/ Accept(verdict) \/ RefuseBlocked(verdict)
             \/ RefuseDefective(verdict) \/ RefuseInconsistent(verdict)
    BY <1>33 DEF EvaluatorReports
  <2>2. pc = "evaluate" /\ UNCHANGED evidence
    BY <1>33 DEF EvaluatorReports
  <2>3. CASE Accept(verdict)
    BY <2>1, <2>2, <2>3, VerdictNeedsHistory DEF Accept, Filed, HistoryPasses
  <2>4. CASE RefuseBlocked(verdict)
    BY <2>1, <2>2, <2>4 DEF RefuseBlocked
  <2>5. CASE RefuseDefective(verdict)
    BY <2>1, <2>2, <2>5 DEF RefuseDefective, TryAgain
  <2>6. CASE RefuseInconsistent(verdict)
    BY <2>1, <2>2, <2>6 DEF RefuseInconsistent, TryAgain, Filed
  <2> QED
    BY <2>1, <2>3, <2>4, <2>5, <2>6
<1>34. CASE Resume
  BY <1>34 DEF Resume, Resumable
<1>35. CASE Retry
  BY <1>35 DEF Retry
<1>36. CASE Approve
  BY <1>36 DEF Approve, Kinds
<1>37. CASE Reject
  BY <1>37 DEF Reject, CloseByOperator
<1>38. CASE Cancel
  BY <1>38 DEF Cancel, CloseByOperator
<1>39. CASE CancelContext
  BY <1>39 DEF CancelContext
<1>40. CASE UNCHANGED vars
  BY <1>40 DEF vars
<1>41. CASE PlanArtifactLost
  BY <1>41 DEF PlanArtifactLost, FreshUntilPlanned
<1>42. CASE ReportLost
  BY <1>42 DEF ReportLost
<1> QED
  BY <1>1, <1>2, <1>3, <1>4, <1>5, <1>6, <1>7, <1>8, <1>9, <1>10, <1>11, <1>12,
      <1>13, <1>14, <1>15, <1>16, <1>17, <1>18, <1>19, <1>20, <1>21, <1>22,
      <1>23, <1>24, <1>25, <1>26, <1>27, <1>28, <1>29, <1>30, <1>31, <1>32,
      <1>33, <1>34, <1>35, <1>36, <1>37, <1>38, <1>39, <1>40, <1>41, <1>42
  DEF Next, RunStep, Operator, PlanStep, TurnStep, LeaderStep, WorkerStep,
      SystemStep, EvaluatorStep

----------------------------------------------------------------------------
(* The theorems. *)

LEMMA IInvHolds == Spec => []IInv
<1>1. Init => IInv
  BY InitIInv
<1>2. IInv /\ [Next]_vars => IInv'
  <2> SUFFICES ASSUME IInv, [Next]_vars PROVE IInv'
    OBVIOUS
  <2>1. TypeOK /\ Budget /\ Verdict
    BY DEF IInv
  <2>2. TypeOK'
    BY <2>1, JobTypeStep, RunTypeStep, FlagsStep DEF TypeOK
  <2>3. Budget' /\ Verdict'
    BY <2>1, BudgetStep, VerdictStep
  <2> QED
    BY <2>2, <2>3 DEF IInv
<1> QED
  BY <1>1, <1>2, PTL DEF Spec

\* Every field keeps its type, whatever the budgets are.
THEOREM TypeCorrect == Spec => []TypeOK
<1>1. IInv => TypeOK
  BY DEF IInv
<1> QED
  BY <1>1, IInvHolds, PTL

\* A job takes at most one step more than its budget, and resumes add at most
\* maxResumeExtraSteps to that in its whole life (runLoop, applyResumeExtraSteps).
THEOREM WorkIsBounded == Spec => []StepBudget
<1>1. IInv => StepBudget
  BY DEF IInv, Budget
<1> QED
  BY <1>1, IInvHolds, PTL

\* Nobody marks a job done but the gate, and never against the record of its
\* steps (mergeEvaluatorReport, engineVerificationSatisfied).
THEOREM DoneNeedsProof == Spec => []DoneIsVerified
<1>1. IInv => DoneIsVerified
  BY DEF IInv, Verdict
<1> QED
  BY <1>1, IInvHolds, PTL

\* An approval that waits is about the newest step of a job at rest, and a step
\* of budget is left for it (runSystemStepWithApproval, Approve).
THEOREM ApprovalIsNewest == Spec => []PendingIsNewest
<1>1. IInv => PendingIsNewest
  BY DEF IInv, Budget
<1> QED
  BY <1>1, IInvHolds, PTL

\* Extra steps are on offer only to a job that used up its steps.
THEOREM ExtraNeedsExhaustion == Spec => []ExtraOnlyWhenOut
<1>1. IInv => ExtraOnlyWhenOut
  BY DEF IInv, Budget
<1> QED
  BY <1>1, IInvHolds, PTL

\* A run never returns leaving its job in a busy status, save after a report that
\* contradicts itself, or when an artifact of the plan or of the evaluation cannot
\* be written (runLoop's deferred function, ensurePlanning, evaluateCompletion).
THEOREM NoOtherStranding == Spec => []NothingElseStrands
<1>1. IInv => NothingElseStrands
  BY DEF IInv, Verdict
<1> QED
  BY <1>1, IInvHolds, PTL

\* A chain advances only behind a completed job, and the job stays completed.
THEOREM ChainBehindDone == Spec => []ChainAdvancesBehindDone
<1>1. IInv => ChainAdvancesBehindDone
  BY DEF IInv, Verdict
<1> QED
  BY <1>1, IInvHolds, PTL

----------------------------------------------------------------------------
(* The steps of the life cycle, in terms of the job. *)

ToldNothingOrFailed == chain' = chain \/ chain' = IF chain = "running" THEN "failed" ELSE chain

LEMMA ProvenIsBoolean == HistoryPasses \in BOOLEAN /\ (HistoryPasses \in BOOLEAN)'
  BY DEF HistoryPasses

LEMMA Works ==
  ASSUME LifePhase = "open", LifePhase' = "open", extraUsed' = extraUsed, ToldNothingOrFailed
  PROVE  Promise!Next
  BY ProvenIsBoolean DEF ToldNothingOrFailed, Promise!Next, Promise!Work, Promise!Hears

LEMMA Closes ==
  ASSUME LifePhase = "open", LifePhase' \in {"blocked", "failed"}, extraUsed' = extraUsed,
         ToldNothingOrFailed
  PROVE  Promise!Next
  BY ProvenIsBoolean DEF ToldNothingOrFailed, Promise!Next, Promise!Close, Promise!Hears

LEMMA AsksApproval ==
  ASSUME LifePhase = "open", LifePhase' = "approval", extraUsed' = extraUsed,
         HistoryPasses' = HistoryPasses, TellChainFailed
  PROVE  Promise!Next
  BY DEF TellChainFailed, Promise!Next, Promise!AskApproval, Promise!Hears

LEMMA Finishes ==
  ASSUME LifePhase = "open", LifePhase' = "done", extraUsed' = extraUsed,
         HistoryPasses, HistoryPasses' = HistoryPasses,
         chain' = IF chain = "running" THEN "done" ELSE chain
  PROVE  Promise!Next
  BY DEF Promise!Next, Promise!Finish, Promise!Hears

LEMMA Reopens ==
  ASSUME LifePhase = "blocked", LifePhase' = "open", extraUsed' \in extraUsed .. MaxExtra,
         HistoryPasses' = HistoryPasses, chain' = chain
  PROVE  Promise!Next
  BY DEF Promise!Next, Promise!Resume

LEMMA Retries ==
  ASSUME LifePhase \in {"approval", "blocked", "failed"}, LifePhase' = "open",
         extraUsed' = extraUsed, HistoryPasses' = HistoryPasses, chain' = chain
  PROVE  Promise!Next
  BY DEF Promise!Next, Promise!Retry

LEMMA Withdraws ==
  ASSUME LifePhase # "done", LifePhase' = "blocked", extraUsed' = extraUsed,
         HistoryPasses' = HistoryPasses, TellChainFailed
  PROVE  Promise!Next
  BY DEF TellChainFailed, Promise!Next, Promise!Withdraw, Promise!Hears

----------------------------------------------------------------------------
(* The steps of the loop, one case per action. *)

\* Every step of a job is a step of its life cycle, or changes nothing in it.
LEMMA StepSimulated ==
  ASSUME IInv, [Next]_vars
  PROVE  [Promise!Next]_(Promise!vars)
<1> USE JobLoopAssumption DEF IInv, TypeOK, JobTypeOK, FlagsOK, Statuses, Recoverable,
    LifePhase, EndRun, Rest, Deferred, BreakOff, BeginRun, Interrupt, Fail, TellChainFailed, kept, marks,
    settings, evidence, ToldNothingOrFailed
<1>1. CASE Start
  BY <1>1, Works DEF Start
<1>2. CASE PlanReturns
  BY <1>2, Works DEF PlanReturns, Continue
<1>3. CASE PlanFails
  BY <1>3, Closes DEF PlanFails, Budget, PendingIsNewest
<1>4. CASE PlanInterrupted
  BY <1>4, Closes DEF PlanInterrupted, Budget, PendingIsNewest
<1>5. CASE OutOfSteps
  BY <1>5, Closes DEF OutOfSteps, BlockOrStrikeOut, StrikesOut, Budget, PendingIsNewest
<1>6. CASE TurnCancelled
  BY <1>6, Works, Closes DEF TurnCancelled, Budget, PendingIsNewest, Verdict, DoneIsAtRest
<1>7. CASE AskLeader
  BY <1>7, Works DEF AskLeader, Continue
<1>8. CASE DispatchWithoutLeader
  BY <1>8, Works DEF DispatchWithoutLeader, AppendSteps
<1>9. CASE LeaderInterrupted
  BY <1>9, Closes DEF LeaderInterrupted, Budget, PendingIsNewest
<1>10. CASE LeaderFails
  BY <1>10, Closes DEF LeaderFails, Budget, PendingIsNewest
<1>11. CASE LeaderBlocks
  BY <1>11, Closes DEF LeaderBlocks, BlockOrStrikeOut, StrikesOut, Budget, PendingIsNewest
<1>12. CASE RunWorker
  BY <1>12, Works DEF RunWorker, Dispatch, AppendSteps
<1>13. CASE RunPair
  BY <1>13, Works DEF RunPair, Dispatch, AppendSteps
<1>14. CASE RunSystem
  BY <1>14, Works DEF RunSystem, Dispatch, AppendSteps
<1>15. CASE RequestApproval
  BY <1>15, AsksApproval, Closes DEF RequestApproval, BlockOrStrikeOut, StrikesOut, HistoryPasses
<1>16. CASE Summarize
  BY <1>16, Works DEF Summarize
<1>17. CASE Complete
  BY <1>17, Works DEF Complete
<1>18. CASE CompleteAgain
  BY <1>18, Closes DEF CompleteAgain, Budget, PendingIsNewest
<1>19. CASE WorkerInterrupted
  BY <1>19, Closes DEF WorkerInterrupted, Budget, PendingIsNewest
<1>20. CASE WorkerBlocks
  BY <1>20, Closes DEF WorkerBlocks, BlockOrStrikeOut, StrikesOut, Budget, PendingIsNewest
<1>21. CASE WorkerFails
  BY <1>21, Closes DEF WorkerFails, Budget, PendingIsNewest
<1>22. CASE WorkerReportsFailure
  BY <1>22, Works DEF WorkerReportsFailure, Continue, AfterWorker
<1>23. CASE WorkerSucceeds
  BY <1>23, Works DEF WorkerSucceeds, Continue, AfterWorker
<1>24. CASE EngineInterrupted
  BY <1>24, Closes DEF EngineInterrupted, Budget, PendingIsNewest
<1>25. CASE EngineRecordLost
  BY <1>25, Closes DEF EngineRecordLost, Budget, PendingIsNewest
<1>26. CASE PairReturns
  BY <1>26, Works, Closes DEF PairReturns, MergePair, Continue, Budget, PendingIsNewest
<1>27. CASE SystemInterrupted
  BY <1>27, Closes DEF SystemInterrupted, Budget, PendingIsNewest
<1>28. CASE SystemFinishes
  BY <1>28, Works DEF SystemFinishes, Continue
<1>29. CASE SystemRefused
  BY <1>29, Closes DEF SystemRefused, BlockOrStrikeOut, StrikesOut, Budget, PendingIsNewest
<1>30. CASE SystemRecordLost
  BY <1>30, Closes DEF SystemRecordLost, Budget, PendingIsNewest
<1>31. CASE EvaluatorInterrupted
  BY <1>31, Works, Closes DEF EvaluatorInterrupted, ReturnToLeader, Budget, PendingIsNewest
<1>32. CASE EvaluatorFails
  BY <1>32, Works, Closes DEF EvaluatorFails, TryAgain, ReturnToLeader, Budget, PendingIsNewest
<1>33. CASE EvaluatorReports
  <2>1. PICK verdict \in Verdicts(HistoryPasses) :
          \/ Accept(verdict) \/ RefuseBlocked(verdict)
          \/ RefuseDefective(verdict) \/ RefuseInconsistent(verdict)
    BY <1>33 DEF EvaluatorReports
  <2>2. pc = "evaluate" /\ UNCHANGED evidence
    BY <1>33 DEF EvaluatorReports
  <2>3. HistoryPasses' = HistoryPasses
    BY <2>2 DEF HistoryPasses
  <2>4. CASE Accept(verdict)
    <3>1. HistoryPasses
      BY <2>4, VerdictNeedsHistory DEF Accept
    <3>2. pending = 0
      BY <2>2 DEF Budget, PendingIsNewest
    <3> QED
      BY <2>2, <2>3, <2>4, <3>1, <3>2, Finishes DEF Accept
  <2>5. CASE RefuseBlocked(verdict)
    BY <2>2, <2>5, Works, Closes DEF RefuseBlocked, ReturnToLeader, Budget, PendingIsNewest
  <2>6. CASE RefuseDefective(verdict)
    BY <2>2, <2>6, Works, Closes DEF RefuseDefective, ReturnToLeader, TryAgain, Budget, PendingIsNewest
  <2>7. CASE RefuseInconsistent(verdict)
    BY <2>2, <2>7, Works, Closes
    DEF RefuseInconsistent, TryAgain, Budget, PendingIsNewest, Verdict, DoneIsAtRest
  <2> QED
    BY <2>1, <2>4, <2>5, <2>6, <2>7
<1>34. CASE Resume
  BY <1>34, Reopens, Works DEF Resume, Resumable, Budget, StepBudget, HistoryPasses, Verdict
<1>35. CASE Retry
  BY <1>35, Retries DEF Retry, HistoryPasses, Budget, PendingIsNewest
<1>36. CASE Approve
  BY <1>36, Retries DEF Approve, HistoryPasses, Budget, PendingIsNewest
<1>37. CASE Reject
  BY <1>37, Withdraws DEF Reject, CloseByOperator, HistoryPasses, Budget, PendingIsNewest
<1>38. CASE Cancel
  BY <1>38, Withdraws DEF Cancel, CloseByOperator, HistoryPasses, Budget, PendingIsNewest
<1>39. CASE CancelContext
  BY <1>39, Works DEF CancelContext
<1>40. CASE UNCHANGED vars
  BY <1>40 DEF vars, Promise!vars, HistoryPasses
<1>41. CASE PlanArtifactLost
  <2> USE DEF PlanArtifactLost, Budget, PendingIsNewest, Verdict, StatusOfPhase
  <2>1. CASE cancelled
    BY <1>41, <2>1, Closes
  <2>2. CASE ~cancelled
    BY <1>41, <2>2, Works
  <2> QED
    BY <2>1, <2>2
<1>42. CASE ReportLost
  <2> USE DEF ReportLost, Budget, PendingIsNewest, Verdict, StatusOfPhase
  <2>1. CASE cancelled
    BY <1>42, <2>1, Closes
  <2>2. CASE ~cancelled
    BY <1>42, <2>2, Works
  <2> QED
    BY <2>1, <2>2
<1> QED
  BY <1>1, <1>2, <1>3, <1>4, <1>5, <1>6, <1>7, <1>8, <1>9, <1>10, <1>11, <1>12, <1>13, <1>14, <1>15, <1>16, <1>17, <1>18, <1>19, <1>20, <1>21, <1>22, <1>23, <1>24, <1>25, <1>26, <1>27, <1>28, <1>29, <1>30, <1>31, <1>32, <1>33, <1>34, <1>35, <1>36, <1>37, <1>38, <1>39, <1>40, <1>41, <1>42
  DEF Next, RunStep, Operator, PlanStep, TurnStep, LeaderStep, WorkerStep,
      SystemStep, EvaluatorStep

LEMMA InitSimulated ==
  ASSUME Init
  PROVE  Promise!Init
  BY DEF Init, Promise!Init, LifePhase, Recoverable, HistoryPasses

\* The loop implements the life cycle its operator and its chain rely on: no
\* job is done without proof, a failed job is only retried, a done job is final,
\* and the chain hears of a job at most once (runLoop, Resume, Retry, Cancel,
\* Approve, Reject, handleChainTerminalState, handleChainCompletion).
THEOREM ImplementsLifecycle == Spec => KeepsPromise
<1>1. Init => Promise!Init
  BY InitSimulated
<1>2. IInv /\ [Next]_vars => [Promise!Next]_(Promise!vars)
  BY StepSimulated
<1> QED
  BY <1>1, <1>2, IInvHolds, PTL DEF Spec, KeepsPromise, Promise!Spec
=============================================================================
