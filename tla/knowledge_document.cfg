SPECIFICATION Spec
CONSTANTS
    tech = tech
    law = law
    guide = guide
    notes = notes
    c1 = c1
    c2 = c2
    None = None
    Cats = {tech, law}
    Slugs = {guide, notes}
    Calls = {c1, c2}
    MaxVersion = 2
    MaxDepth = 1
    MaxFaults = 1
SYMMETRY Symmetry
INVARIANTS
    TypeOK
    CopyKept
    NoGhostRow
    FoundAsWritten
\* When every call is made and every file handled nothing is left to do.
CHECK_DEADLOCK FALSE
