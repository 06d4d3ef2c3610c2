\* Two calls overlap freely; one retry and one crash of the API.
CONSTANTS
    h1 = h1
    h2 = h2
    u1 = u1
    u2 = u2
    k1 = k1
    k2 = k2
    cam = cam
    backup = backup
    None = None
    Placeholder = Placeholder
    Handlers = {h1, h2}
    Clients = {u1, u2}
    Keys = {k1, k2}
    KeyOf <- TwoKeys
    StreamOf <- TwoStreams
    MaxSessions = 3
    MaxRows = 2
    Faults = {"retry", "api"}
SPECIFICATION Spec
INVARIANTS
    SessionsFollowPublishers
SYMMETRY HandlerSymmetry
CHECK_DEADLOCK FALSE
