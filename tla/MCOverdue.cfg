CONSTANTS
    c1 = c1
    x1 = x1
    x2 = x2
    h1 = h1
    m1 = m1
    Original = Original
    None = None
    Candidates = {c1}
    Watchdogs = {x1, x2}
    Reviewers = {m1}
    Handlers = {h1}
    Instants = {1}
    Late = {}
    Responses = {TRUE}
    MaxWrites = 6
    MaxRuns = 2
SPECIFICATION FairSpec
PROPERTIES
    OverdueClaimed
CHECK_DEADLOCK FALSE
