----------------------------- MODULE MCJobStore -----------------------------
EXTENDS JobStore, TLC

\* a job that was completed and one whose process died
MCLegacy ==
    {[status |-> "completed", progress |-> Full, meta |-> [f \in Fields |-> "v"],
      lists |-> [k \in Kinds |-> "v"]],
     [status |-> "running", progress |-> 1, meta |-> [f \in Fields |-> "none"],
      lists |-> [k \in Kinds |-> "v"]]}

Symmetry == Permutations(Callers)
=============================================================================
