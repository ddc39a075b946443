----------------------------- MODULE Evaluator -----------------------------
(***************************************************************************)
(* The completion gate of internal/orchestrator: what the recorded steps   *)
(* of a job prove (verification.go), and how the report of the evaluator   *)
(* provider is merged with that proof (mergeEvaluatorReport).  Everything  *)
(* here is a constant operator; JobLoop calls Merge from its evaluator     *)
(* phase and EvaluatorGate compares it with a reference definition.          *)
(*                                                                         *)
(* Abstractions.  A step keeps its task type, its status and, per engine   *)
(* check, the state of the artifact file that records it.  A provider      *)
(* report keeps the fields that decide status and passed: texts are        *)
(* replaced by the one fact the code derives from them (contradicts: the   *)
(* reason contains one of the phrases of evaluatorTextContradicts).        *)
(***************************************************************************)
EXTENDS Naturals, Sequences

\* "IMPLEMENT" stands for any other capitalisation: a parallel spec may carry
\* one, and the code compares task types sometimes exactly, sometimes folded.
TaskTypes   == {"implement", "IMPLEMENT", "review"}
StepStatus  == {"active", "succeeded", "failed", "blocked"}
CheckKinds  == {"build", "test"}
CheckStates == {"absent", "unreadable", "passed", "skipped", "failed"}
ReportStatus == {"passed", "blocked", "failed"}

Step == [type : TaskTypes, status : StepStatus, checks : [CheckKinds -> CheckStates]]

ProviderReport ==
  [ status      : ReportStatus,
    passed      : BOOLEAN,
    missing     : SUBSET {"implement", "review"},
    contradicts : BOOLEAN,
    rubricUnmet : BOOLEAN ]

----------------------------------------------------------------------------
(* What the steps prove. *)

IsImplement(step) == step.type \in {"implement", "IMPLEMENT"}  \* strings.EqualFold

RequiredTypes == {"implement"}

SuccessfulTypes(steps) ==
  { steps[i].type : i \in { j \in DOMAIN steps : steps[j].status = "succeeded" } }

MissingRequired(steps) == RequiredTypes \ SuccessfulTypes(steps)

ImplementSteps(steps) == { i \in DOMAIN steps : IsImplement(steps[i]) }

LatestImplement(steps) ==
  CHOOSE i \in ImplementSteps(steps) : \A j \in ImplementSteps(steps) : j <= i

\* No engine artifact at all is taken for a job older than the engine checks.
EngineSatisfied(step) ==
  \/ \A k \in CheckKinds : step.checks[k] = "absent"
  \/ \A k \in CheckKinds : step.checks[k] \in {"passed", "skipped"}

\* Slip: any implement step vouches for the job, not the latest one.
AnyStepRulePassed(steps) ==
  /\ MissingRequired(steps) = {}
  /\ \E i \in ImplementSteps(steps) : EngineSatisfied(steps[i])
  /\ SuccessfulTypes(steps) # {}

RulePassed(steps) ==
  /\ MissingRequired(steps) = {}
  /\ ImplementSteps(steps) # {}
  /\ EngineSatisfied(steps[LatestImplement(steps)])
  /\ SuccessfulTypes(steps) # {}

----------------------------------------------------------------------------
(* The report the gate acts on. *)

\* The provider blocks, yet names only step types the contract does not require.
BlockedOnlyOnOptional(rep) ==
  /\ rep.status = "blocked"
  /\ ~rep.passed
  /\ rep.missing # {}
  /\ rep.missing \cap RequiredTypes = {}

Contradicted(rep) == rep.passed /\ rep.contradicts

\* Slip of RuleStage: the rule pass overrides the provider.
OverridingRuleStage(rep, rulePassed) ==
  [passed |-> rulePassed, status |-> IF rulePassed THEN "passed" ELSE "blocked"]

\* The three stages of mergeEvaluatorReport, each on a [status, passed] pair.
RuleStage(rep, rulePassed) ==
  LET passed == (rep.passed \/ BlockedOnlyOnOptional(rep)) /\ rulePassed
  IN  [ passed |-> passed,
        status |-> IF ~rulePassed THEN "blocked"
                   ELSE IF passed THEN "passed" ELSE rep.status ]

\* Slip: the demotion forgets the status.
ForgetfulConsistencyStage(rep, r) ==
  IF Contradicted(rep) /\ r.passed THEN [passed |-> FALSE, status |-> r.status] ELSE r

ConsistencyStage(rep, r) ==
  IF Contradicted(rep) /\ r.passed THEN [passed |-> FALSE, status |-> "failed"] ELSE r

EnforcementStage(unmet, r) ==
  IF unmet THEN [passed |-> FALSE, status |-> "failed"] ELSE r

Merge(rep, rulePassed, checksFailed) ==
  EnforcementStage(checksFailed,
    EnforcementStage(rep.rubricUnmet,
      ConsistencyStage(rep, RuleStage(rep, rulePassed))))
=============================================================================
