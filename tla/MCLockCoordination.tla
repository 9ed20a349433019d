------------------------- MODULE MCLockCoordination -------------------------
EXTENDS LockCoordination, TLC
AllOps == DOMAIN Program
Symmetry == Permutations(Callers)
=============================================================================
