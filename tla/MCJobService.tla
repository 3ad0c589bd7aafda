--------------------------- MODULE MCJobService ---------------------------
EXTENDS JobService, TLC

Symmetry == Permutations(Request) \union Permutations(Worker)
=============================================================================
