\* One call at a time, one on_publish is repeated.
CONSTANTS
    h1 = h1
    h2 = h2
    u1 = u1
    u2 = u2
    k1 = k1
    k2 = k2
    cam = cam
    backup = backup
    None = None
    Placeholder = Placeholder
    Handlers = {h1}
    Clients = {u1, u2}
    Keys = {k1, k2}
    KeyOf <- OneKey
    StreamOf <- SameStream
    MaxSessions = 3
    MaxRows = 3
    Faults = {"retry"}
SPECIFICATION Spec
INVARIANTS
    OffWhenNobodyPublishes
CHECK_DEADLOCK FALSE
