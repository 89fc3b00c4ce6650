SPECIFICATION FairSpec
CONSTANTS
    None = None
    Zones = {z1, z2}
    Target = 20
    OnDiff = 1
    OffDiff = 1
    MaxAge = 1
    ConfirmFor = 1
    Grace = 1
    TimeoutAction = "disable"
    MinOn = 2
    MinOff = 1
    Owned = FALSE
    ManualFor = 1
    RecoveryWindow = 1
    UnknownHold = 1
    RetryAfter = 1
    SafeProfile = None
    HasFallbackSensor = FALSE
    MaxTime = 3
    MaxSkew = 0
    MaxLag = 0
    Early = 1
    Temperatures = {18, 22}
    SafeReadings = {}
    ReportStates = {}
    ModeRequests = {}
    Recovers = FALSE
    MayEnd = FALSE
PROPERTIES
    GraceStartsAfterLastEvaluation
    HeatIsConfirmedFirst
    EveryWaitEnds
CHECK_DEADLOCK FALSE
