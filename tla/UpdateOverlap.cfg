SPECIFICATION Spec
CONSTANTS
    Versions <- ThreeVersions
    NoVersion = NoVersion
    Launchers = {l1}
    Nobody = Nobody
    MaxStarting = 1
    Incoming = Incoming
    Overlap = TRUE
    MayFail = FALSE
    EarlyUpdates = FALSE
INVARIANTS SomethingWorks
