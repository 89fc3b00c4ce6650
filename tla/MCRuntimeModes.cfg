SPECIFICATION Spec
CONSTANTS
    None = None
    Zones = {z1}
    Target = 20
    OnDiff = 1
    OffDiff = 1
    MaxAge = 1
    ConfirmFor = 0
    Grace = 1
    TimeoutAction = "disable"
    MinOn = 2
    MinOff = 1
    Owned = FALSE
    ManualFor = 1
    RecoveryWindow = 1
    UnknownHold = 1
    RetryAfter = 1
    SafeProfile <- FrostProfile
    HasFallbackSensor = TRUE
    MaxTime = 2
    MaxSkew = 0
    MaxLag = 0
    Early = 0
    Temperatures = {18}
    SafeReadings = {4}
    ReportStates = {}
    ModeRequests = {"normal", "safe_heating", "emergency_off", "manual_recovery_heat"}
    Recovers = FALSE
    MayEnd = TRUE
INVARIANTS
    EmergencyOffReachesSource
PROPERTIES
    EnableHasReason
CHECK_DEADLOCK FALSE
