SPECIFICATION FairSpec
CONSTANTS
  NumGoals = 2
  MaxJobs = 2
INVARIANT GoalsInOrder
INVARIANT OneJobPerGoal
PROPERTY ClosedIsFinal
PROPERTY KeepsSequence
PROPERTY MovesOn
CHECK_DEADLOCK FALSE
