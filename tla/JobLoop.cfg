SPECIFICATION FairSpec
CONSTANTS
  BaseSteps = 3
  MaxExtra = 2
  EvalRetries = 3
  Reasons = {r1, r2}
INVARIANT StepBudget
INVARIANT DoneIsVerified
INVARIANT PendingIsNewest
INVARIANT ExtraOnlyWhenOut
INVARIANT NothingElseStrands
INVARIANT ChainAdvancesBehindDone
PROPERTY KeepsPromise
PROPERTY CancelledRunEnds
PROPERTY OnlySummariesProlong
CHECK_DEADLOCK FALSE
