------------------------------- MODULE MCLkyGC ------------------------------
EXTENDS LkyGC, TLC

\* The addresses that are nobody in particular.  A sweep visits them in one order,
\* which a permutation changes; without an on_destroy_ its steps commute, and what
\* holds at its end does not depend on the order.
Symmetry == Permutations(Obj \ (Stdlib \cup Destroyable \cup {Scope, Proto}))
=============================================================================
