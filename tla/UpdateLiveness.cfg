SPECIFICATION FairSpec
CONSTANTS
    Versions <- TwoVersions
    NoVersion = NoVersion
    Launchers = {l1}
    Nobody = Nobody
    MaxStarting = 1
    Incoming = Incoming
    Overlap = TRUE
    MayFail = TRUE
    EarlyUpdates = TRUE
PROPERTIES LauncherEnds UpdateDecided
