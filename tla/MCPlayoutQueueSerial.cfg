\* One call at a time: every request, deletion of items, crashes of the API anywhere.
CONSTANTS
    h1 = h1
    h2 = h2
    i1 = i1
    i2 = i2
    i3 = i3
    None = None
    Handlers = {h1}
    Items = {i1, i2}
    Pool = {i1, i2}
    MaxEntries = 3
    MaxPosition = 4
    MaxBuffer = 1
    MaxEvents = 1
    AutoFillThreshold = 2
    AutoFillBatch = 2
    PrefetchDepth = 2
    HistoryCap = 1
    InsertPositions = {1, 2}
    Requests = {"append", "insertAt", "remove", "skip", "delete"}
    Faults = {"api"}
SPECIFICATION Spec
INVARIANTS
    AtMostOnePlaying
PROPERTIES
    AutoFillTopsUp
    ImplementsLineup
SYMMETRY ItemSymmetry
