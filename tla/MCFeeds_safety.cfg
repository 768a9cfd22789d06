SPECIFICATION FeedsSpec
CONSTANTS
    c1 = c1
    c2 = c2
    f1 = f1
    f2 = f2
    h1 = h1
    h2 = h2
    reader = reader
    station = station
    worker = worker
    NoOne = NoOne
    Events <- MCEvents
    Offsets = {1}
    Users = {1, 2, 3}
    FanoutWorkers = {f1, f2}
    NoJob = NoJob
    BatchSize = 1
    MaxLate = 1
    Lookback = 2
    TimedDefaults = {1}
    DateDefaults = {1}
    ScanEvery = 1
    MaxSlip = 1
    EventChoices <- Soon
    InitFollowers = {1, 3}
    MaxTime = 4
    MaxFaults = 1
    MaxChanges = 2
    MaxAttempts = 2
    MaxStalls = 1
    ShareForms = {f1, f2}
    Friends = {reader}
    RadioLine = station
    MaxShared = 2
    ShareInputs = 2
    ShareEvents = 2
    OneCall <- MCOneCall
    TwoCalls <- MCTwoCalls
    SyncLines <- MCSyncLines
    SyncStates <- MCSyncStates
    SyncListings <- MCSyncListings
    KeptCopies <- MCKeptCopies
    KeptLists <- MCKeptLists
    KeptCalls <- MCKeptCalls
    OneTour <- MCOneTour
    TwoTours <- MCTwoTours
    Claims <- MCClaims
    RegionWalk <- MCRegionWalk
    ManyBoots <- MCManyBoots
    Tonight <- MCTonight
    AnyTitle <- MCAnyTitle
INVARIANTS
    FeedsTypeOK
    SteadyFollowersPaged
    PagesAreDisjoint
    NoGap
PROPERTIES
    ListsHold
    LinesHold
    FixturesHold
    CatalogueHolds
    EndIsRead
CHECK_DEADLOCK FALSE
