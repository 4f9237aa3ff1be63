------------------------------ MODULE MCFileIndex ------------------------------
EXTENDS FileIndexChecks, TLC

CONSTANTS e1, n1, n2, r1, t1

Symmetry == Permutations({n1, n2})
================================================================================
