SPECIFICATION Spec
CONSTANTS
    Callers = {c1, c2, c3}
    Nobody = Nobody
    Ops <- AllOps
SYMMETRY Symmetry
INVARIANTS TypeOK NoDeadlock ModsChangeStopped DataStable
