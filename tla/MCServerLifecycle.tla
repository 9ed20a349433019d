-------------------------- MODULE MCServerLifecycle --------------------------
EXTENDS ServerLifecycle, TLC
Symmetry == Permutations(Clients)
=============================================================================
