CONSTANTS
    Events <- MCEvents
    Offsets = {1}
    Users = {1, 2}
    FanoutWorkers = {f1}
    NoJob = NoJob
    BatchSize = 1
    MaxLate = 1
    Lookback = 2
    TimedDefaults = {1}
    DateDefaults = {1}
    ScanEvery = 1
    MaxSlip = 1
    EventChoices <- Kickoff
    InitFollowers = {1, 2}
    MaxTime = 3
    FaultyUntil = 2
    MaxFaults = 1
    MaxChanges = 1
    MaxAttempts = 2
    MaxStalls = 1
    Channels <- MCChannels
    BatchWorkers = {b1}
    Mailless = {}
    PrefChoices <- NoChoices
    InitPrefs <- PushOnly
SPECIFICATION PipelineSpec
INVARIANT ToldWereScanned
PROPERTIES DeliverySpec FollowersAttempted
