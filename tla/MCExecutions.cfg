SPECIFICATION EitherSpec
CHECK_DEADLOCK FALSE
CONSTANTS
    Histories <- SomeHistories
    MaxRuns = 3
    MaxBoundary = 2
    MaxPolls = 2
    PerCensus = 2
    Fences = {"none", "pinned"}
    Drifts <- SomeDrifts
    MaxDrifts = 2
    Stops = {"service", "attach", "removeRule", "canary"}
    MaxStops = 1
    AbsentSite = "empty"
INVARIANTS
    CanarySafe
    ObservedSafe
PROPERTIES
    ObservedSteps
