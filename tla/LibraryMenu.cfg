SPECIFICATION Spec
CONSTANTS
    server = server
    channel = channel
    thread = thread
    Scopes <- MCScopes
    Parent <- MCParent
    Messages <- MCMessages
    PageSize = 1
    MaxGeneration = 2
    MaxEdits = 2
    MaxCommands = 2
    MaxSignals = 1
    MayFail = TRUE
    Nothing = Nothing
INVARIANTS PageIsOneBranch
