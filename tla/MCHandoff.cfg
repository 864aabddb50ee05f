SPECIFICATION FairSpec
CHECK_DEADLOCK FALSE
CONSTANTS
    c1 = c1
    Controllers = {c1}
    Cleaners = {k1}
    Durable = Durable
    StallAt <- Punctual
    Verifiers = {"exact"}
    Unverified = {}
    MaxLeases = 3
    MaxCrashes = 1
PROPERTIES
    TokenRemoved
