SPECIFICATION EitherSpec
CHECK_DEADLOCK FALSE
CONSTANTS
    r1 = r1
    k1 = k1
    k2 = k2
    w1 = w1
    h1 = h1
    h2 = h2
    a1 = a1
    NoPlan = NoPlan
    NoReceipt = NoReceipt
    None = None
INVARIANTS
    ResumeAccepts
PROPERTIES
    SessionsRecover
    ExecutorsEnd
    BootstrapEnds
