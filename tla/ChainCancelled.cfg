SPECIFICATION FairSpec
CONSTANTS
  NumGoals = 2
  MaxJobs = 2
PROPERTY CancelledStartsNothing
CHECK_DEADLOCK FALSE
