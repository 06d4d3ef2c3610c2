CONSTANTS
    h1 = h1
    h2 = h2
    i1 = i1
    i2 = i2
    i3 = i3
    None = None
    Handlers = {h1, h2}
    Items = {i1}
    Pool = {i1}
    MaxEntries = 2
    MaxPosition = 3
    MaxBuffer = 1
    MaxEvents = 1
    AutoFillThreshold = 1
    AutoFillBatch = 1
    PrefetchDepth = 1
    HistoryCap = 1
    InsertPositions = {1}
    Requests = {"append", "insertAt", "remove", "skip",
                "assign", "unassign", "delete"}
    Faults = {"harbor", "event", "engine"}
SPECIFICATION Spec
INVARIANTS
    PushedWasAccepted
PROPERTIES
    NeverRequeued
SYMMETRY HandlerSymmetry
