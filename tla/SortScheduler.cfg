SPECIFICATION DerivedSpec
CONSTANTS
    Wait = 1
    InvalidationFails = TRUE
    TornReads = TRUE
    MaxWrites = 3
    MaxCrashes = 1
    TimeLists <- SomeTimes
    PageSizes <- SomeSizes
    MaxIds = 2
    MaxVersions = 3
    MaxStops = 1
INVARIANTS
    DerivedTypeOK
    NoWriteForgotten
    PagesInOrder
    IndexFollowsQuietWrites
PROPERTY WritesReachSorted
CHECK_DEADLOCK FALSE
