------------------------------ MODULE MCJobStore ------------------------------
EXTENDS JobStore, TLC
CONSTANTS p1, p2, c1, c2
ProcSymmetry == Permutations({p1, p2}) \cup Permutations({c1, c2})
=============================================================================
