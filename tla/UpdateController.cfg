SPECIFICATION FairSpec
CONSTANTS
    Versions = {2}
    NoVersion = NoVersion
    MaxAttempts = 2
    MaxQueued = 2
    MayFail = TRUE
INVARIANTS TypeOK PayloadIsWhole
PROPERTIES UpdaterIsUndisturbed JournalSaysHowItEnded ButtonsComeBack
