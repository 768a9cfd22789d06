CONSTANTS
    Events <- MCEvents
    Offsets <- MCOffsets
    Channels <- MCChannels
    InitPrefs <- MCInitPrefs
    NoJob = NoJob
    Users = {1}
    Cursors = {0, 1}
    BatchWorkers = {w1, w2}
    Mailless = {}
    PrefChoices <- MCOneChoice
    MaxFaults = 2
    MaxChanges = 1
    MaxAttempts = 2
    MaxStalls = 1
SPECIFICATION Spec
INVARIANTS OneHolder ToldAtMostOnce LedgerIsTrue
PROPERTY PromiseKept
SYMMETRY Symmetry
CONSTRAINT FewEvents
