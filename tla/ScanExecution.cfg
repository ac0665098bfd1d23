SPECIFICATION Spec
CONSTANTS
    d1 = d1
    d2 = d2
    Absent = Absent
    Junk = Junk
    unknown = unknown
    schema = schema
    upper <- Uppercase
    TicksPerSecond = 2
    Digests = {d1, d2}
    Deployments <- ThreeDeployments
    Reports <- SmallReports
    RetryAfters <- Headers
    DEFAULT_DEFER_SECONDS = 5
    MaxDb = 1
INVARIANT TypeOK
INVARIANT DeferralIsBackpressure
INVARIANT WorstSeverityWins
PROPERTY SkipIsSound
