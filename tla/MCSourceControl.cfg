SPECIFICATION Spec
CONSTANTS
    None = None
    MinOn = 2
    MinOff = 1
    MaxTime = 4
    Time <- ClockTimes
INVARIANTS
    MemoriesAgree
PROPERTIES
    ImplementsProtection
CHECK_DEADLOCK FALSE
