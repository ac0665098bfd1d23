\* The clock and the number of runs end, so behaviours do.
SPECIFICATION Spec
CONSTANTS
    Images = {1, 2}
    Reports <- SmallReports
    Urls <- SmallUrls
    PageSizeDefault = 2
    PageSizeMax = 3
    TicksPerSecond = 2
    CommitsSpaced = FALSE
    DropsAlone = FALSE
    MaxRuns = 3
    MaxTime = 2
CHECK_DEADLOCK FALSE
PROPERTY NotModifiedIsCurrent
