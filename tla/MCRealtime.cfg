\* Chat, moderation, pool rotation, editorial tiers, ingest, forwarding and the press
\* page, each on its own.
CONSTANTS
    None = None
    Parts = {"rooms", "speech", "react", "pool", "graph", "control",
             "ingest", "playlist", "forward", "press"}
    ann = ann
    mod = mod
    t1 = t1
    t2 = t2
    k1 = k1
    k2 = k2
    k3 = k3
    v1 = v1
    v2 = v2
    p = p
    q = q
    Tabs = {t1, t2}
    Watched = {t1}
    Viewers = {ann}
    ViewerOf <- AnnAndGuest
    Sockets = {k1, k2, k3}
    TabOf <- TwoOfThree
    Rooms = {v1, v2}
    MaxMoves = 2
    MaxMessages = 1
    ChatCalls = {v1, v2}
    Members = {ann, mod}
    Moderators = {mod}
    Durations = {1}
    Intervals = {1}
    MaxSeconds = 1
    MaxSaid = 2
    MaxSanctions = 3
    PoolCalls = {g1}
    PoolEntries = {f1, f2, f3}
    ForeignOnes = {f3}
    PoolOwner = "creator"
    PoolBatch = 3
    MaxPlays = 2
    EditCalls = {v1, v2}
    Playouts = {p, q}
    Broadcast = tv
    Default = p
    TierIds = {e1, e2, e3}
    Verbs = {"mode", "manual", "arm", "take", "channel", "create", "update", "delete"}
    MaxVerbs = 3
    EditFaults = {"signal", "crash"}
    IngestCalls = {v1, v2}
    Films = {r1, r2}
    MaxFilms = 3
    MaxCopies = 2
    MaxWaiting = 0
    IngestFaults = {"media", "crash"}
    ForwardCalls = {v1, v2}
    Playout = p
    Hosts = {ann}
    Liquidsoap = Liquidsoap
    HostCap = 1
    MaxDests = 2
    MaxConnections = 2
    ForwardFaults = {"srs"}
    PressCalls = {v1, v2}
    PressTabs = {t1, t2}
    MaxTexts = 2
    MaxAsks = 3
    Unfinished = {2}
    PressFaults = {"net"}
SPECIFICATION Spec
INVARIANTS
    PresenceSettles
    MessagesSettle
    BanHolds
    SlowModeHolds
    PoolRotates
    EngineFollowsStore
    TiersLegal
    CarriedFirst
    ReadyIsNewest
    PlaylistInOrder
    ForwardsFollow
    TenantForwards
PROPERTIES
    EditsKept
SYMMETRY Symmetric
VIEW Moving
CHECK_DEADLOCK FALSE
