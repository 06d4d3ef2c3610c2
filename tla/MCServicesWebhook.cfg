\* An event that Stripe delivers again is never answered with 200.
CONSTANTS
    None = None
    Parts = {"billing"}
    ann = ann
    ben = ben
    c1 = c1
    c2 = c2
    s1 = s1
    s2 = s2
    v1 = v1
    v2 = v2
    BillingCalls = {v1, v2}
    Subs = {s1}
    Users = {ann, ben}
    Creators = {c1, c2}
    OwnerOf <- AnnsAll
    Covers <- OneOrAll
    Insiders = {ben}
    MaxEvents = 2
    MaxPeriods = 1
    BillingFaults = {"duplicate"}
    MediaTasks = {m1}
    Files = {v1, v2}
    MaxUploads = 2
    MediaFaults = {"ffmpeg", "retry"}
    Passes = {v1, v2}
    Readers = {u1}
    Cooldown = 2
    RetryLimit = 1
    MaxMinutes = 2
    MaxEdges = 2
    MaxChanges = 1
    MailFaults = {"boss", "smtp", "restart"}
    Events = {e1}
    Sweeps = {v1, v2}
    Pushes = {v1, v2}
    Toggles = {v1, v2}
    Window = 2
    MaxTicks = 3
    MaxEdits = 1
    MaxToggles = 2
    MaxRows = 2
    MaxDrops = 1
    InboxFaults = {"insert"}
    TeamCalls = {v1, v2}
    People = {ann, ben}
    Admins = {ben}
    Founders = {ann}
    MaxInvites = 1
    MaxTeamCalls = 3
    TeamFaults = {"crash", "mail"}
    LibraryCalls = {v1, v2}
    Artists = {ann, ben}
    Images = {ia, ib}
    MaxWishes = 2
    LibraryFaults = {"storage", "crash"}
    Streams = {v1, v2}
    Pages = {p1}
    Keys = {x, y}
    maxConnections = 1
    Backstop = 1
    MaxVersion = 2
    MaxFetches = 1
    MaxLosses = 1
    SpineFaults = {"loss"}
SPECIFICATION FairSpec
PROPERTY EveryEventAnswered
CHECK_DEADLOCK FALSE
