SPECIFICATION Spec
CONSTANTS
    e1 = e1
    e2 = e2
    e3 = e3
    Episodes = {e1, e2, e3}
    Settled = {e1, e2}
    Runs = {r1, r2}
    None = None
    Live = Live
    MaxFaults = 1
SYMMETRY Symmetry
INVARIANTS
    TypeOK
    NothingForgotten
    FoundOnce
    FactsReplaced
    FactsAgree
    CountIsSize
\* When every run has ended nothing is left to do.
CHECK_DEADLOCK FALSE
