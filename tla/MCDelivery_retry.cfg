CONSTANTS
    Events <- MCEvents
    Offsets <- MCOffsets
    Channels <- MCChannels
    InitPrefs <- MCInitPrefs
    NoJob = NoJob
    Users = {1}
    Cursors = {0}
    BatchWorkers = {w1}
    Mailless = {}
    PrefChoices <- MCNoChoices
    MaxFaults = 0
    MaxChanges = 0
    MaxAttempts = 5
    MaxStalls = 1
SPECIFICATION FairSpec
PROPERTY FailedIsRetried
