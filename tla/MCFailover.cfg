SPECIFICATION Spec
CONSTANTS
    None = None
    MinOn = 2
    MinOff = 2
    Owned = TRUE
    ManualFor = 1
    RecoveryWindow = 1
    UnknownHold = 1
    RetryAfter = 1
    SafeProfile <- RoomProfile
    HasFallbackSensor = FALSE
    RetryInterval = 1
    AttemptLimit = 2
    Readings = {18, 22}
    ReportStates = {}
    Asked = {"enable", "disable"}
    Early = 0
    MaxTime = 2
    MaxGeneration = 3
    MaxResets = 0
    MaxManual = 0
INVARIANTS
    ControllerKnowsSource
    FailsafeTurnsOff
PROPERTIES
    AuthorityNeverReturns
    SupervisedProtection
CHECK_DEADLOCK FALSE
