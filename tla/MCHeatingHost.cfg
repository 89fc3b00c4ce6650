SPECIFICATION FairSpec
CONSTANTS
    None = None
    Configurations <- MCConfigurations
    AttemptLimit = 2
    Fittings <- MCFittings
    MaxEvents <- MCMaxEvents
INVARIANTS
    StatesStayInOrder
    ArmedTimerComes
    ActuatorFollowsDemand
PROPERTIES
    StopIsFinal
    FailureIsHeard
CHECK_DEADLOCK FALSE
