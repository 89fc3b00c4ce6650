SPECIFICATION Spec
CONSTANTS
    None = None
    Zones = {z1}
    Target = 20
    OnDiff = 1
    OffDiff = 1
    MaxAge = 1
    ConfirmFor = 0
    Grace = 1
    TimeoutAction = "disable"
    MinOn = 2
    MinOff = 1
    Owned = TRUE
    ManualFor = 1
    RecoveryWindow = 1
    UnknownHold = 1
    RetryAfter = 1
    SafeProfile = None
    HasFallbackSensor = FALSE
    MaxTime = 2
    MaxSkew = 0
    MaxLag = 2
    Early = 0
    Temperatures = {18, 22}
    SafeReadings = {}
    ReportStates = {"enabled", "disabled"}
    ModeRequests = {}
    Recovers = TRUE
    MayEnd = FALSE
INVARIANTS
    EveryWaitIsArmed
PROPERTIES
    CorrectionsDoNotStorm
    ImplementsSourceControl
CHECK_DEADLOCK FALSE
