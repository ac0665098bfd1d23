\* The clock and the number of runs end, so behaviours do.
SPECIFICATION Spec
CONSTANTS
    Images = {1, 2}
    Reports <- SmallReports
    Urls <- SmallUrls
    PageSizeDefault = 2
    PageSizeMax = 3
    TicksPerSecond = 1
    CommitsSpaced = TRUE
    DropsAlone = TRUE
    MaxRuns = 3
    MaxTime = 2
CHECK_DEADLOCK FALSE
INVARIANT TypeOK
INVARIANT EndpointsAgree
PROPERTY PageIsOfOneScan
PROPERTY NotModifiedIsCurrent
