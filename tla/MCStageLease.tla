--------------------------- MODULE MCStageLease ---------------------------
EXTENDS StageLease, TLC

Symmetry == Permutations(Deliveries) \union Permutations(Workers)
=============================================================================
