SPECIFICATION FairSpec
CONSTANTS
    Nobody = Nobody
    Threads = {runtime, media, worker}
    MaxOpens = 3
    MaxWrites = 1
    MaxCrashes = 1
    MayFail = TRUE
INVARIANTS TypeOK SchemaIsWhole RaceIsNotFatal
PROPERTIES RequestsSurvive OpeningEnds
CHECK_DEADLOCK FALSE
