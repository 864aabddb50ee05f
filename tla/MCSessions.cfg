SPECIFICATION EitherSpec
CHECK_DEADLOCK FALSE
SYMMETRY Symmetry
CONSTANTS
    c1 = c1
    c2 = c2
    r1 = r1
    r2 = r2
    q1 = q1
    q2 = q2
    Controllers = {c1, c2}
    Cleaners = {k1}
    Durable = Durable
    StallAt <- Punctual
    Verifiers = {"exact", "other"}
    Unverified = {c1, c2, k1}
    MaxLeases = 3
    MaxCrashes = 1
    None = None
    Runners = {r1, r2}
    Generation <- OwnGeneration
    Watchers = {q1, q2}
    MaxFence = 3
    MaxBeats = 1
    MaxFaults = 1
INVARIANTS
    HandoffSafe
    CleanupSafe
PROPERTIES
    HandoffSteps
    CleanupSteps
