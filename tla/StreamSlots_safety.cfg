CONSTANTS
    Streams = {s1, s2, s3}
    Probes = {}
    Lists = {l1}
    FirstList = l1
    Ceiling = 2
    Sold <- TwoSold
    Chooses = {0}
    MaxChanges = 1
SPECIFICATION Spec
SYMMETRY AnyStream
INVARIANTS ConnectionIsCounted SlotHasHolder
PROPERTIES AllowanceHolds ViewerTakesNothing
