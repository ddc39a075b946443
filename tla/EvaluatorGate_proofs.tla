------------------------ MODULE EvaluatorGate_proofs ------------------------
(***************************************************************************)
(* Proofs about EvaluatorGate: the gate of the code and the reference      *)
(* definition agree for histories of any length.                           *)
(***************************************************************************)
EXTENDS EvaluatorGate, SequenceTheorems, TLAPS

----------------------------------------------------------------------------
(* The inductive invariant. *)

\* Only what a step can leave behind is recorded.
Records == ImplementRecords \cup ReviewRecords
Recorded == \A i \in DOMAIN steps : steps[i] \in Records

\* A history with implement steps has a latest one.
HasLatest ==
  (\E i \in DOMAIN steps : IsImplement(steps[i])) => \E i \in DOMAIN steps : LastImplement(i)

\* The report in force is the merge for the history it was made on.
Merged == report # NoReport => report = Merge(rep, RulePassed(steps), checksFailed)

IInv == TypeOK /\ Recorded /\ HasLatest /\ Merged

----------------------------------------------------------------------------
(* Histories. *)

LEMMA ChecksType ==
  ASSUME NEW b \in CheckStates, NEW t \in CheckStates
  PROVE  Checks(b, t) \in [CheckKinds -> CheckStates]
  BY DEF Checks, CheckKinds

LEMMA RecordsType == Records \subseteq Step
<1>1. NoChecks \in [CheckKinds -> CheckStates]
  BY ChecksType DEF NoChecks, CheckStates
<1>2. CleanChecks \cup BrokenChecks \cup DamagedChecks \subseteq [CheckKinds -> CheckStates]
  BY ChecksType DEF CleanChecks, BrokenChecks, DamagedChecks, CheckStates
<1> QED BY <1>1, <1>2 DEF Records, ImplementRecords, ReviewRecords, Step, TaskTypes, StepStatus

\* An implement step satisfies the engine exactly when none of its checks is broken.
LEMMA EngineReads ==
  ASSUME NEW s \in Records, IsImplement(s)
  PROVE  EngineSatisfied(s) <=> ~\E k \in CheckKinds : s.checks[k] \in {"failed", "unreadable"}
<1>1. s.checks \in CleanChecks \cup DamagedChecks \cup BrokenChecks \cup {NoChecks}
  BY DEF Records, ImplementRecords, ReviewRecords, IsImplement
<1>2. \A b, t : Checks(b, t)["build"] = b /\ Checks(b, t)["test"] = t
  BY DEF Checks
<1>3. PICK b, t : /\ s.checks = Checks(b, t)
                  /\ <<b, t>> \in {<<"passed", "passed">>, <<"skipped", "skipped">>,
                                   <<"failed", "skipped">>, <<"passed", "failed">>,
                                   <<"unreadable", "unreadable">>, <<"unreadable", "passed">>,
                                   <<"absent", "absent">>}
  BY <1>1 DEF CleanChecks, DamagedChecks, BrokenChecks, NoChecks
<1>4. s.checks["build"] = b /\ s.checks["test"] = t
  BY <1>2, <1>3
<1> QED BY <1>3, <1>4 DEF EngineSatisfied, CheckKinds

\* The latest implement step is the one no implement step follows.
LEMMA LatestIsLast ==
  ASSUME TypeOK, NEW i \in DOMAIN steps, LastImplement(i)
  PROVE  LatestImplement(steps) = i
<1>1. DOMAIN steps = 1 .. Len(steps) /\ Len(steps) \in Nat
  BY LenProperties DEF TypeOK
<1>2. i \in ImplementSteps(steps) /\ \A j \in ImplementSteps(steps) : j <= i
  BY <1>1 DEF LastImplement, ImplementSteps
<1>3. \A k \in ImplementSteps(steps) : (\A j \in ImplementSteps(steps) : j <= k) => k = i
  BY <1>1, <1>2 DEF ImplementSteps
<1> QED BY <1>2, <1>3 DEF LatestImplement

\* The rule on the steps and the two facts the loop keeps of them.
LEMMA RuleIsAbstraction ==
  ASSUME TypeOK, Recorded, HasLatest
  PROVE  LoopAbstractionExact
<1>1. MissingRequired(steps) = {} <=> Implemented
  <2>1. "implement" \in SuccessfulTypes(steps) <=> Implemented
    BY DEF SuccessfulTypes, Implemented
  <2> QED BY <2>1 DEF MissingRequired, RequiredTypes
<1>2. CASE ~Implemented
  BY <1>1, <1>2 DEF LoopAbstractionExact, RulePassed
<1>3. CASE Implemented
  <2>1. PICK i \in DOMAIN steps : LastImplement(i)
    BY <1>3 DEF HasLatest, Implemented, IsImplement
  <2>2. /\ LatestImplement(steps) = i /\ ImplementSteps(steps) # {}
        /\ SuccessfulTypes(steps) # {}
    BY <1>3, <2>1, LatestIsLast DEF LastImplement, ImplementSteps, SuccessfulTypes, Implemented
  <2>3. RulePassed(steps) <=> EngineSatisfied(steps[i])
    BY <1>1, <1>3, <2>2 DEF RulePassed
  <2>4. EngineSatisfied(steps[i])
          <=> ~\E k \in CheckKinds : steps[i].checks[k] \in {"failed", "unreadable"}
    BY <2>1, EngineReads DEF Recorded, LastImplement
  <2>5. \A j \in DOMAIN steps : LastImplement(j) => j = i
    BY <2>1, LatestIsLast
  <2>6. EngineRecord # "bad" <=> ~\E k \in CheckKinds : steps[i].checks[k] \in {"failed", "unreadable"}
    BY <2>1, <2>5 DEF EngineRecord
  <2> QED BY <1>3, <2>3, <2>4, <2>6 DEF LoopAbstractionExact
<1> QED BY <1>2, <1>3

----------------------------------------------------------------------------
(* The merge. *)

LEMMA MergeShape ==
  ASSUME NEW r \in ProviderReport, NEW rule \in BOOLEAN, NEW failed \in BOOLEAN
  PROVE  /\ Merge(r, rule, failed) \in [status : ReportStatus, passed : BOOLEAN]
         /\ Merge(r, rule, failed).passed <=>
              /\ rule /\ (r.passed \/ BlockedOnlyOnOptional(r))
              /\ ~Contradicted(r) /\ ~r.rubricUnmet /\ ~failed
         /\ Merge(r, rule, failed).status = "passed" /\ ~Merge(r, rule, failed).passed
              => r.status = "passed" /\ ~r.passed
         /\ ~rule /\ ~r.rubricUnmet /\ ~failed => Merge(r, rule, failed).status = "blocked"
<1> DEFINE a == RuleStage(r, rule)
           b == ConsistencyStage(r, a)
           c == EnforcementStage(r.rubricUnmet, b)
<1>0. r.status \in ReportStatus /\ r.passed \in BOOLEAN /\ r.rubricUnmet \in BOOLEAN
      /\ r.contradicts \in BOOLEAN
  BY DEF ProviderReport
<1>1. /\ a \in [status : ReportStatus, passed : BOOLEAN]
      /\ a.passed <=> (r.passed \/ BlockedOnlyOnOptional(r)) /\ rule
      /\ a.status = IF ~rule THEN "blocked" ELSE IF a.passed THEN "passed" ELSE r.status
  BY <1>0 DEF RuleStage, ReportStatus
<1>2. b = IF Contradicted(r) /\ a.passed THEN [passed |-> FALSE, status |-> "failed"] ELSE a
  BY DEF ConsistencyStage
<1>3. c = IF r.rubricUnmet THEN [passed |-> FALSE, status |-> "failed"] ELSE b
  BY DEF EnforcementStage
<1>4. Merge(r, rule, failed) = IF failed THEN [passed |-> FALSE, status |-> "failed"] ELSE c
  BY DEF Merge, EnforcementStage
<1> HIDE DEF a, b, c
<1>5. BlockedOnlyOnOptional(r) => r.status = "blocked" /\ ~r.passed
  BY DEF BlockedOnlyOnOptional
<1>6. /\ b \in [status : ReportStatus, passed : BOOLEAN]
      /\ b.passed <=> a.passed /\ ~Contradicted(r)
      /\ b.status = "passed" /\ ~b.passed => a.status = "passed" /\ ~a.passed
      /\ ~rule => b.status = "blocked"
  BY <1>1, <1>2 DEF ReportStatus
<1>7. /\ c \in [status : ReportStatus, passed : BOOLEAN]
      /\ c.passed <=> b.passed /\ ~r.rubricUnmet
      /\ c.status = "passed" /\ ~c.passed => b.status = "passed" /\ ~b.passed
      /\ ~rule /\ ~r.rubricUnmet => c.status = "blocked"
  BY <1>3, <1>6 DEF ReportStatus
<1>8. a.status = "passed" /\ ~a.passed => r.status = "passed" /\ ~r.passed
  BY <1>0, <1>1
<1> QED BY <1>1, <1>4, <1>6, <1>7, <1>8 DEF ReportStatus

----------------------------------------------------------------------------
(* The invariant. *)

LEMMA InitHolds == ASSUME Init PROVE IInv
<1>1. steps \in Seq(Step) /\ Len(steps) = 0 /\ DOMAIN steps = {}
  BY EmptySeq DEF Init
<1>2. NoProviderReport \in ProviderReport
  BY DEF NoProviderReport, ProviderReport, ReportStatus
<1>3. TypeOK
  <2>1. Len(steps) <= MaxSteps
    BY <1>1, MaxStepsAssumption
  <2>2. rep \in ProviderReport /\ checksFailed \in BOOLEAN /\ report = NoReport
    BY <1>2 DEF Init
  <2> QED BY <1>1, <2>1, <2>2 DEF TypeOK
<1>4. Recorded /\ HasLatest /\ Merged
  BY <1>1 DEF Init, Recorded, HasLatest, Merged
<1> QED BY <1>3, <1>4 DEF IInv

LEMMA StepHolds ==
  ASSUME IInv, [Next]_vars
  PROVE  IInv'
<1> USE DEF IInv
<1>1. CASE RecordStep
  <2>1. PICK s \in Records : steps' = Append(steps, s)
    BY <1>1 DEF RecordStep, Records
  <2>2. s \in Step
    BY RecordsType
  <2>3. /\ steps' \in Seq(Step) /\ Len(steps') = Len(steps) + 1
        /\ \A i \in 1 .. Len(steps) : steps'[i] = steps[i]
        /\ steps'[Len(steps) + 1] = s
        /\ DOMAIN steps = 1 .. Len(steps) /\ DOMAIN steps' = 1 .. Len(steps) + 1
        /\ Len(steps) \in Nat
    BY <2>1, <2>2, AppendProperties, LenProperties DEF TypeOK
  <2>4. TypeOK'
    <3>1. NoProviderReport \in ProviderReport
      BY DEF NoProviderReport, ProviderReport, ReportStatus
    <3>2. Len(steps') <= MaxSteps
      BY <1>1, <2>3, MaxStepsAssumption DEF RecordStep
    <3>3. rep' \in ProviderReport /\ checksFailed' \in BOOLEAN /\ report' = NoReport
      BY <1>1, <3>1 DEF RecordStep
    <3> QED BY <2>3, <3>2, <3>3 DEF TypeOK
  <2>5. Recorded'
    BY <2>1, <2>3 DEF Recorded
  <2>6. HasLatest'
    <3>1. CASE IsImplement(s)
      <4>1. PICK n \in Nat : n = Len(steps) + 1
        BY <2>3
      <4>2. LastImplement(n)'
        BY <2>3, <3>1, <4>1 DEF LastImplement
      <4>3. n \in DOMAIN steps'
        BY <2>3, <4>1
      <4> QED BY <4>2, <4>3 DEF HasLatest
    <3>2. CASE ~IsImplement(s)
      <4>1. SUFFICES ASSUME NEW j \in DOMAIN steps', IsImplement(steps'[j])
                     PROVE  \E i \in DOMAIN steps' : LastImplement(i)'
        BY DEF HasLatest
      <4>2. j \in DOMAIN steps /\ IsImplement(steps[j])
        BY <2>3, <3>2, <4>1
      <4>3. PICK i \in DOMAIN steps : LastImplement(i)
        BY <4>2 DEF HasLatest
      <4>4. LastImplement(i)'
        BY <2>3, <3>2, <4>3 DEF LastImplement
      <4> QED BY <2>3, <4>4
    <3> QED BY <3>1, <3>2
  <2>7. Merged'
    BY <1>1 DEF RecordStep, Merged
  <2> QED BY <2>4, <2>5, <2>6, <2>7
<1>2. CASE Evaluate
  <2>1. rep' \in ProviderReport /\ checksFailed' \in BOOLEAN /\ RulePassed(steps) \in BOOLEAN
        /\ report' = Merge(rep', RulePassed(steps), checksFailed') /\ steps' = steps
    BY <1>2 DEF Evaluate, RulePassed
  <2>2. report' \in [status : ReportStatus, passed : BOOLEAN]
    BY <2>1, MergeShape
  <2>3. TypeOK'
    BY <2>1, <2>2 DEF TypeOK
  <2>4. Recorded' /\ HasLatest' /\ Merged'
    BY <2>1 DEF Recorded, HasLatest, LastImplement, Merged
  <2> QED BY <2>3, <2>4
<1>3. CASE UNCHANGED vars
  BY <1>3 DEF vars, TypeOK, Recorded, HasLatest, LastImplement, Merged
<1> QED BY <1>1, <1>2, <1>3 DEF Next

\* Every report in force is the merge for the recorded history, which has a latest
\* implement step if it has any.
THEOREM GateInvariant == Spec => []IInv
<1>1. IInv /\ [Next]_vars => IInv'
  BY StepHolds
<1> QED BY InitHolds, <1>1, PTL DEF Spec

\* Steps and reports are those the code can produce.
THEOREM GateTypeCorrect == Spec => []TypeOK
<1>1. IInv => TypeOK
  BY DEF IInv
<1> QED BY <1>1, GateInvariant, PTL

\* The two facts JobLoop keeps of the steps decide the rule, however long the history.
THEOREM LoopMayAbstract == Spec => []LoopAbstractionExact
<1>1. IInv => LoopAbstractionExact
  BY RuleIsAbstraction DEF IInv
<1> QED BY <1>1, GateInvariant, PTL

\* The merged report passes exactly when the history, the evaluator's fields and prose,
\* the rubric and the automated checks all agree.
THEOREM GateIsExact == Spec => []GateExact
<1>1. ASSUME IInv PROVE GateExact
  <2> SUFFICES ASSUME report # NoReport
               PROVE  report.passed <=> /\ Implemented /\ EngineRecord # "bad"
                                        /\ Endorsed /\ ~rep.rubricUnmet /\ ~checksFailed
    BY DEF GateExact
  <2>1. /\ report = Merge(rep, RulePassed(steps), checksFailed) /\ rep \in ProviderReport
        /\ checksFailed \in BOOLEAN /\ RulePassed(steps) \in BOOLEAN
    BY <1>1 DEF IInv, Merged, TypeOK, RulePassed
  <2>2. report.passed <=>
          /\ RulePassed(steps) /\ (rep.passed \/ BlockedOnlyOnOptional(rep))
          /\ ~Contradicted(rep) /\ ~rep.rubricUnmet /\ ~checksFailed
    BY <2>1, MergeShape
  <2>3. RulePassed(steps) <=> Implemented /\ EngineRecord # "bad"
    BY <1>1, RuleIsAbstraction DEF IInv, LoopAbstractionExact
  <2>4. (rep.passed \/ BlockedOnlyOnOptional(rep)) /\ ~Contradicted(rep) <=> Endorsed
    BY DEF Endorsed, Contradicted, BlockedOnlyOnOptional
  <2> QED BY <2>2, <2>3, <2>4
<1> QED BY <1>1, GateInvariant, PTL

\* What a refusal reads like is what it rests on.
THEOREM RefusalsAreTrue == Spec => []RefusalsReadTrue
<1>1. ASSUME IInv PROVE RefusalsReadTrue
  <2>1. CASE report = NoReport
    BY <2>1 DEF RefusalsReadTrue, RefusalNeverReadsPassed, MissingProofReadsBlocked
  <2>2. CASE report # NoReport
    <3>1. /\ report = Merge(rep, RulePassed(steps), checksFailed) /\ rep \in ProviderReport
          /\ checksFailed \in BOOLEAN /\ RulePassed(steps) \in BOOLEAN
      BY <1>1, <2>2 DEF IInv, Merged, TypeOK, RulePassed
    <3> QED BY <3>1, MergeShape DEF RefusalsReadTrue, RefusalNeverReadsPassed,
         MissingProofReadsBlocked
  <2> QED BY <2>1, <2>2
<1> QED BY <1>1, GateInvariant, PTL
=============================================================================
