CONSTANTS
    Streams = {s1, s2}
    Probes = {}
    Lists = {l1}
    FirstList = l1
    Ceiling = 1
    Sold <- OneSold
    Chooses = {0}
    MaxChanges = 0
SPECIFICATION Spec
PROPERTY EvictionEndsConnection
