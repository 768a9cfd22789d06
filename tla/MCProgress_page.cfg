SPECIFICATION PageSpec
CONSTANTS
    Events <- MCEvents
    Offsets <- MCOffsets
    Channels <- MCChannels
    InitPrefs <- MCInitPrefs
    NoJob = NoJob
    Users = {1}
    Cursors = {0}
    BatchWorkers = {w1, w2}
    Mailless = {}
    PrefChoices <- MCPrefChoices
    MaxFaults = 1
    MaxChanges = 1
    MaxAttempts = 2
    MaxStalls = 1
    s1 = s1
    s2 = s2
    p1 = p1
    l1 = l1
PROPERTIES
    RowsAreAnswered
    ClickEnds
    ResultIsWritten
CHECK_DEADLOCK FALSE
