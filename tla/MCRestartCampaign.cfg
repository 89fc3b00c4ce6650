SPECIFICATION Spec
CONSTANTS
    None = None
    MinOn = 0
    MinOff = 0
    Owned = TRUE
    ManualFor = 1
    RecoveryWindow = 1
    UnknownHold = 1
    RetryAfter = 1
    SafeProfile <- RoomProfile
    HasFallbackSensor = FALSE
    RetryInterval = 1
    AttemptLimit = 2
    Readings = {}
    ReportStates = {"enabled"}
    Asked = {}
    Early = 1
    MaxTime = 3
    MaxGeneration = 2
    MaxResets = 1
    MaxManual = 1
INVARIANTS
    RestartIsScheduled
CHECK_DEADLOCK FALSE
