SPECIFICATION Spec
CONSTANTS
    Versions <- ThreeVersions
    NoVersion = NoVersion
    Launchers = {l1}
    Nobody = Nobody
    MaxStarting = 1
    Incoming = Incoming
    Overlap = FALSE
    MayFail = FALSE
    EarlyUpdates = FALSE
INVARIANTS TypeOK InstalledWorks PreviousWorks
PROPERTIES KeepsPromise
