SPECIFICATION Spec
SYMMETRY ProcSymmetry
CONSTANTS
  Procs = {p1, p2}
  Callers = {c1, c2}
  c1 = c1
  c2 = c2
  p1 = p1
  p2 = p2
INVARIANT OneRun
INVARIANT OnlyDesertionHides
INVARIANT CacheIsCurrent
PROPERTY DoneIsNotReopened
PROPERTY VerdictIsRight
PROPERTY AnsweredOnce
CHECK_DEADLOCK FALSE
