CONSTANTS
    w1 = w1
    w2 = w2
    Workers = {w1, w2}
    Releases <- MCReleases
    Candidates = {"candidate"}
    Packages = {"a", "b"}
    Rests = {"x", "y"}
    Target <- MCTarget
    Baseline <- MCBaseline
    Initial <- MCInitial
    Flaky = {"b"}
    StallAt <- Punctual
    MaxLeases = 3
    MaxOwner = 1
    MaxCrashes = 1
    NoPlan = NoPlan
    NoReceipt = NoReceipt
SPECIFICATION Spec
SYMMETRY Symmetry
INVARIANTS
    TypeOK
    TerminalExclusive
    FenceInv
    SettledProduction
PROPERTIES
    WritesUnderFence
    FenceDiscipline
    Implements
