SPECIFICATION Spec
CONSTANTS
  Procs = {p1}
  Callers = {c1, c2}
  p1 = p1
  p2 = p2
  c1 = c1
  c2 = c2
PROPERTY SteerIsHeard
CHECK_DEADLOCK FALSE
