CONSTANTS
    h1 = h1
    h2 = h2
    i1 = i1
    i2 = i2
    i3 = i3
    None = None
    Handlers = {h1}
    Items = {i1, i2}
    Pool = {i1, i2}
    MaxEntries = 4
    MaxPosition = 6
    MaxBuffer = 6
    MaxEvents = 6
    AutoFillThreshold = 2
    AutoFillBatch = 3
    PrefetchDepth = 2
    HistoryCap = 1
    InsertPositions = {1}
    Requests = {"append", "skip"}
    Faults = {}
SPECIFICATION Spec
INVARIANTS
    NowPlayingTracksAir
CHECK_DEADLOCK FALSE
