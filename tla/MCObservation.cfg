SPECIFICATION FairSpec
CONSTANTS
    None = None
    OpenCapacity = 2
    ActivityCapacity = 2
    Recipients <- MCRecipients
    RateWindow = 2
    RateLimit = 1
    SeenCapacity = 3
    Target = 18
    NearTarget = 0
    Meaningful = 1
    Window = 2
    MinimumDuration = 1
    MinimumSamples = 2
    MaximumAge = 1
    Confirmations = 2
    MaxSamples = 4
    EventCapacity = 3
    Scenarios = {"measurement", "demand", "resilience", "supervision", "performance"}
    Temperatures = {17, 18}
    LateReadings = {"measurement"}
    MaxTime <- MCMaxTime
    MaxEvents <- MCMaxEvents
    MaxReturns <- MCMaxReturns
    MaxGenerations = 3
INVARIANTS
    AccountingIsExact
    OpenNoticeIsCurrent
    AnomalyIsOfThisEpisode
PROPERTIES
    RecoveryIsConfirmed
    SignalIsAnswered
CHECK_DEADLOCK FALSE
