SPECIFICATION Spec
CONSTANTS
    i1 = i1
    i2 = i2
    w1 = w1
    w2 = w2
    Images = {i1}
    Enabled = {i1}
    Workers = {w1, w2}
    ScanIntervalSeconds <- IntervalDefault
    DefaultScanInterval = 1
    MaxFailureBackoff = 3
    MaxAttempts = 2
    BackoffBase = 1
    BackoffMax = 1
    LeaseSeconds = 2
    TrivyTimeout = 1
    DefaultDefer = 2
    RetryAfters = {0, 1}
    ProbeBound = 1
    ResolveBound = 1
    WriteBound = 0
    MaxTime = 5
    MaxJobs = 3
SYMMETRY WorkerSymmetry
INVARIANT NoDuplicateScan
