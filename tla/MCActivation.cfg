SPECIFICATION FairSpec
CONSTANTS
    None = None
    HeatingRevisions = {"h1", "h2"}
    WaterRevisions = {"w1", "w2"}
    Conversions = {"h2"}
    Unknown = "unknown"
    Initial = {"h1", "w1"}
    MaxAttempts = 2
    MaxWaiting = 1
    MaxCrashes = 1
    MaxReloads = 1
    MaxFaults = 2
INVARIANTS
    OnlyAuthorityRuns
    RestartsAreRecovered
PROPERTIES
    ImplementsAtomicActivation
    RequestsAreAnswered
CHECK_DEADLOCK FALSE
