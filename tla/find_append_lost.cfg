SPECIFICATION Spec
CONSTANTS
    Online = {o1, o2}
    Nightly = {n1}
    Patches = {p1}
SYMMETRY Symmetry
INVARIANTS
    AppendsKept
\* Every call ends.
CHECK_DEADLOCK FALSE
