SPECIFICATION FairSpec
CONSTANTS
    None = None
    Grace = 1
    RepeatEvery = 1
    Critical = TRUE
    MaxTime = 2
    MaxChanges = 1
    MaxRequests = 1
    MaxRestarts = 1
    MaxFailures = 1
    UserRequests = {"silence", "disable", "enable", "test"}
INVARIANTS
    EvidenceIsCurrent
    DeadlineIsArmed
    SavedMeansTold
PROPERTIES
    AlarmEndsByDryReading
    StopIsFinal
    SilenceBecomesFault
    
CHECK_DEADLOCK FALSE
