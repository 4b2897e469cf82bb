SPECIFICATION DerivedSpec
CONSTANTS
    Wait = 1
    InvalidationFails = FALSE
    TornReads = FALSE
    MaxWrites = 3
    MaxCrashes = 0
    TimeLists <- SomeTimes
    PageSizes <- SomeSizes
    MaxIds = 1
    MaxVersions = 1
    MaxStops = 0
INVARIANT QuietMeansSorted
CHECK_DEADLOCK FALSE
