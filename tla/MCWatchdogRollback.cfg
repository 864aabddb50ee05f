CONSTANTS
    c1 = c1
    x1 = x1
    x2 = x2
    x3 = x3
    h1 = h1
    h2 = h2
    m1 = m1
    Original = Original
    None = None
    Candidates = {c1}
    Watchdogs = {x1, x2, x3}
    Reviewers = {m1}
    Handlers = {h1, h2}
    Instants = {1}
    Late = {c1}
    Responses = {TRUE, FALSE}
    MaxWrites = 14
    MaxRuns = 2
SPECIFICATION CrewSpec
SYMMETRY Symmetry
INVARIANTS
    TypeOK
    RollbackOnce
    RollbackTold
PROPERTIES
    AppliedOnce
CHECK_DEADLOCK FALSE
