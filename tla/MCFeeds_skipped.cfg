CONSTANTS
    c1 = c1
    c2 = c2
    f2 = f2
    h1 = h1
    h2 = h2
    reader = reader
    station = station
    worker = worker
    NoOne = NoOne
    f1 = f1
    Events <- MCEvents
    Offsets = {1}
    Users = {1, 2, 3}
    FanoutWorkers = {f1}
    NoJob = NoJob
    BatchSize = 1
    MaxLate = 2
    Lookback = 3
    TimedDefaults = {1}
    DateDefaults = {1}
    ScanEvery = 1
    MaxSlip = 1
    EventChoices <- Kickoff
    InitFollowers = {1, 3}
    MaxTime = 0
    MaxFaults = 1
    MaxChanges = 2
    MaxAttempts = 2
    MaxStalls = 1
    ShareForms = {f1}
    Friends = {reader}
    RadioLine = station
    MaxShared = 1
    ShareInputs = 0
    ShareEvents = 0
    OneCall <- MCOneCall
    TwoCalls <- MCTwoCalls
    Tonight <- MCTonight
    AnyTitle <- MCAnyTitle
    SyncLines <- MCSyncLines
    SyncStates <- MCSyncStates
    SyncListings <- MCSyncListings
    KeptCopies <- MCKeptCopies
    KeptLists <- MCKeptLists
    KeptCalls <- MCKeptCalls
    OneTour <- MCOneTour
    TwoTours <- MCTwoTours
    Claims <- MCClaims
    RegionWalk <- MCRegionWalk
    ManyBoots <- MCManyBoots
SPECIFICATION FeedsSpec
INVARIANT NoFollowerSkipped
CHECK_DEADLOCK FALSE
