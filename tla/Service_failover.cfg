SPECIFICATION Spec
CONSTANTS
    i1 = i1
    i2 = i2
    w1 = w1
    s1 = s1
    s2 = s2
    Nobody = Nobody
    Images = {i1}
    Workers = {w1}
    Schedulers = {s1, s2}
    MaxAttempts = 3
INVARIANT TypeOK
INVARIANT DeathsAreChargedOnce
PROPERTY NewJobsFollowEndedOnes
PROPERTY EveryImageIsQueued
