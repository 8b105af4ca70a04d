SPECIFICATION BatchSpec
CONSTANTS
    Keys <- TwoKeys
    Urls = {u1}
    ForeignUrls = {}
    Messages = {m1}
    Channels = {c1}
    m1 = m1
    c1 = c1
    ChannelOf <- OneChannel
    MaxAttempts = 2
    PlanLimit = 1
    ClaimLimit = 1
    Sweepers = {}
    Legacy = {}
    DbMayFail = FALSE
    NoUrl = NoUrl
    Absent = Absent
    NoJob = NoJob
    Unread = Unread
    Worker = Worker
PROPERTIES FailuresAreIsolatedOnceSized
