--------------------------- MODULE EvaluatorGate ---------------------------
(***************************************************************************)
(* A job whose steps are recorded one by one and whose completion is       *)
(* evaluated at any moment: the setting in which the operators of Evaluator*)
(* are compared with a reference definition of the gate that looks at the  *)
(* whole history at once.                                                  *)
(***************************************************************************)
EXTENDS Evaluator

CONSTANT MaxSteps   \* bound on the length of the history

ASSUME MaxStepsAssumption == MaxSteps \in Nat \ {0}

VARIABLES
  steps,         \* job.Steps
  rep,           \* the last provider report
  checksFailed,  \* some automated check of the contract failed
  report         \* the merged report, [status, passed]

vars == <<steps, rep, checksFailed, report>>

NoReport == [status |-> "none", passed |-> FALSE]
NoProviderReport == [ status |-> "blocked", passed |-> FALSE, missing |-> {},
                      contradicts |-> FALSE, rubricUnmet |-> FALSE ]

Checks(b, t) == [build |-> b, test |-> t]
NoChecks == Checks("absent", "absent")

\* The records executeEngineVerification can leave on a step that succeeded: a
\* test is skipped when the build failed, both when there is nothing to build.
CleanChecks  == {Checks("passed", "passed"), Checks("skipped", "skipped")}
BrokenChecks == {Checks("failed", "skipped"), Checks("passed", "failed")}
\* ... and what is left of a good record when a file is lost later.
DamagedChecks == {Checks("unreadable", "unreadable"), Checks("unreadable", "passed")}

ImplementRecords ==
  LET Of(status, checks) == [type : {"implement", "IMPLEMENT"}, status : {status}, checks : checks]
  IN  Of("succeeded", CleanChecks \cup DamagedChecks \cup {NoChecks})
        \cup Of("failed", BrokenChecks \cup {NoChecks})
        \cup Of("blocked", {NoChecks})

ReviewRecords ==
  [type : {"review"}, status : {"succeeded", "failed", "blocked"}, checks : {NoChecks}]

TypeOK ==
  /\ steps \in Seq(Step) /\ Len(steps) <= MaxSteps
  /\ rep \in ProviderReport
  /\ checksFailed \in BOOLEAN
  /\ report \in {NoReport} \cup [status : ReportStatus, passed : BOOLEAN]

Init ==
  /\ steps = <<>>
  /\ rep = NoProviderReport
  /\ checksFailed = FALSE
  /\ report = NoReport

RecordStep ==
  /\ Len(steps) < MaxSteps
  /\ \E s \in ImplementRecords \cup ReviewRecords : steps' = Append(steps, s)
  /\ report' = NoReport
  /\ rep' = NoProviderReport
  /\ checksFailed' = FALSE

\* evaluateCompletion on the report of the provider, or on the report built
\* without one when the provider has no evaluator.
Evaluate ==
  /\ report = NoReport
  /\ rep' \in ProviderReport
  /\ checksFailed' \in BOOLEAN
  /\ report' = Merge(rep', RulePassed(steps), checksFailed')
  /\ UNCHANGED steps

Next == RecordStep \/ Evaluate

Spec == Init /\ [][Next]_vars

----------------------------------------------------------------------------
(* The reference definition. *)

LastImplement(i) == IsImplement(steps[i]) /\ \A j \in i + 1 .. Len(steps) : ~IsImplement(steps[j])

Implemented ==
  \E i \in DOMAIN steps : steps[i].type = "implement" /\ steps[i].status = "succeeded"

\* What JobLoop remembers of the latest implement step.
EngineRecord ==
  IF \E i \in DOMAIN steps : LastImplement(i) /\ \E k \in CheckKinds :
        steps[i].checks[k] \in {"failed", "unreadable"}
  THEN "bad" ELSE "clean"

Endorsed == (rep.passed /\ ~rep.contradicts) \/ (~rep.passed /\ BlockedOnlyOnOptional(rep))

\* A job is let through exactly when an implement step succeeded, the newest
\* implement step carries no broken engine check, the evaluator endorses it in
\* its fields and in its prose, and neither rubric nor automated checks object:
\* the stages of mergeEvaluatorReport never let one finding cancel another.
GateExact ==
  report # NoReport =>
    (report.passed <=> /\ Implemented /\ EngineRecord # "bad"
                       /\ Endorsed /\ ~rep.rubricUnmet /\ ~checksFailed)

\* A refusal that still reads "passed" (which runLoop neither completes nor
\* retries) comes only from a provider report that contradicts itself in its
\* own two fields; no stage of the merge produces one.
RefusalNeverReadsPassed ==
  (report # NoReport /\ report.status = "passed" /\ ~report.passed)
    => (rep.status = "passed" /\ ~rep.passed)

\* A job without proof of its work is never handed back as defective by the
\* evaluator's opinion alone: missing coverage or broken engine checks read
\* "blocked" unless a mechanical finding (rubric, automated check) is the cause.
MissingProofReadsBlocked ==
  (report # NoReport /\ ~RulePassed(steps) /\ ~rep.rubricUnmet /\ ~checksFailed)
    => report.status = "blocked"

\* What a refusal reads like is what it rests on: the two facts above.
RefusalsReadTrue == RefusalNeverReadsPassed /\ MissingProofReadsBlocked

\* The two facts JobLoop keeps of the history decide the rule exactly.
LoopAbstractionExact == RulePassed(steps) <=> (Implemented /\ EngineRecord # "bad")

=============================================================================
