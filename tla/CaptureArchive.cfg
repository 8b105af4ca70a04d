SPECIFICATION FairSpec
CONSTANTS
    capture = capture
    evidence = evidence
    Captures = {capture}
    Evidence = {evidence}
    Contents = {1, 2}
    Torn = Torn
    Invalid = Invalid
    MaxTime = 2
    Ahead = 2
    SettleScans = 1
    RetryCount = 2
    MayFail = TRUE
    NoFile = NoFile
    NoJob = NoJob
    NoReset = NoReset
INVARIANTS TypeOK NothingIsLostSilently ResetForgets
PROPERTIES AppliedOnce EventuallyAccounted
