SPECIFICATION FairSpec
CONSTANTS
    inside = inside
    outside = outside
    medium = medium
    Messages <- MCMessages
    Keys <- MCKeys
    Uses <- MCUses
    Branch <- MCBranch
    MaxRuntimes = 2
    MaxRequests = 2
    Prompt = TRUE
    Overlap = FALSE
    MayFail = TRUE
INVARIANTS TypeOK DeletedStaysDeleted MediaFollowsMessages ResetLeavesNothing CompleteMeansWhole
PROPERTIES ArchiveComesBack
