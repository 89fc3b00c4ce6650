SPECIFICATION MCSpec
CONSTANTS
    None = None
    Flows = {"f1"}
    Clients = {"c1"}
    Registry = {"s1", "s2", "n1", "a1", "v1"}
    Volatile = {"s1"}
    Sensors = {"s1", "s2"}
    Settings = {"r1"}
    MoistureSensors = {"s1"}
    NotifyTargets = {"n1"}
    SirenTargets = {"a1"}
    ValveTargets = {"v1"}
    MaxTargets = 1
    MaxDrafts = 2
    MaxRequests <- MCMaxRequests
    MaxDraftRevision = 2
    MaxRevisions = 1
    MaxGeneration = 4
    InitialHeating <- MCInitialHeating
    InitialWater <- MCInitialWater
    NotFinite = NotFinite
    Absent = Absent
    MaxSeconds = 200000
    Slugs <- MCSlugs
    DomainOf <- MCDomainOf
    Entities <- MCEntities
    EntryInputs <- MCEntryInputs
    RevisionInputs <- MCRevisionInputs
    DocumentInputs <- MCDocumentInputs
    NewNames <- MCNewNames
    NewArea = "main_zone"
INVARIANTS
    CanonicalIsValidated
    UpgradeKeepsTheConfiguration
    AcceptedGoesThrough
PROPERTIES
    NoUpdateIsLost
CHECK_DEADLOCK FALSE
