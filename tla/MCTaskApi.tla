------------------------------ MODULE MCTaskApi ------------------------------
EXTENDS TaskApi, TLC

Symmetry == Permutations(Request)
=============================================================================
