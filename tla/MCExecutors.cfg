SPECIFICATION EitherSpec
CHECK_DEADLOCK FALSE
SYMMETRY Symmetry
CONSTANTS
    h1 = h1
    h2 = h2
    r1 = r1
    r2 = r2
    h3 = h3
    None = None
    Hosts = {h1, h2}
    Processes = {h1, h2}
    Auths = {r1, r2}
    Recoveries = {h1, h2}
    Runs = {h1, h2}
    Requests = {r1, r2}
    Procs = {h1, h2, h3}
    Targets <- Assignments
    IntentOf <- IntentFiles
    ResultOf <- ResultFiles
    Starts = {0, 60, 116}
    NFiles = 3
    Differs = {2, 3}
    MaxFaults = 1
    MaxTroubles = 2
    MaxEdits = 2
    MaxReads = 2
    MaxRestarts = 2
    MaxMutations = 2
    MaxUndone = 2
INVARIANTS
    RepinSafe
    SettingsSafe
    BridgeSafe
    RoleSafe
    KeySafe
    RegistrySafe
    LedgerSafe
PROPERTIES
    OnlyAcceptedRace
