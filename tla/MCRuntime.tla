----------------------------- MODULE MCRuntime -----------------------------
EXTENDS Runtime, TLC
\* For runs without liveness properties.
Symmetry == Permutations(Event) \cup Permutations(Callback)
=============================================================================
