SPECIFICATION Spec
CONSTANTS
    d1 = d1
    d2 = d2
    Absent = Absent
    Junk = Junk
    unknown = unknown
    schema = schema
    upper <- Uppercase
    TicksPerSecond = 2
    Digests = {d1}
    Deployments <- OneDeployment
    Reports <- SmallReports
    RetryAfters <- Headers
    DEFAULT_DEFER_SECONDS = 5
    MaxDb = 0
INVARIANT ThrottlingIsNotFailure
