SPECIFICATION Spec
CONSTANTS
    Keys <- OneKey
    Urls = {u1, u2}
    ForeignUrls = {}
    Messages = {m1}
    Channels = {c1}
    m1 = m1
    c1 = c1
    ChannelOf <- OneChannel
    MaxAttempts = 2
    PlanLimit = 1
    ClaimLimit = 2
    Sweepers = {gui}
    Legacy = {"STALE_URL", "IGNORED", "EVICTED"}
    DbMayFail = TRUE
    NoUrl = NoUrl
    Absent = Absent
    NoJob = NoJob
    Unread = Unread
    Worker = Worker
INVARIANTS TypeOK IInv
PROPERTIES IgnoreIsDurable SourceGoneIsTerminal EvictionIsSticky
