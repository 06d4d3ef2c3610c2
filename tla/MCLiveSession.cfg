\* Two calls overlap freely and nothing fails.
CONSTANTS
    h1 = h1
    h2 = h2
    u1 = u1
    u2 = u2
    k1 = k1
    k2 = k2
    cam = cam
    backup = backup
    None = None
    Placeholder = Placeholder
    Handlers = {h1, h2}
    Clients = {u1, u2}
    Keys = {k1, k2}
    KeyOf <- TwoKeys
    StreamOf <- TwoStreams
    MaxSessions = 2
    MaxRows = 3
    Faults = {}
SPECIFICATION FairSpec
INVARIANTS
    ChannelFollowsStream
PROPERTIES
    StoppedStreamGoesOff
    NeverWithoutChannel
CHECK_DEADLOCK FALSE
