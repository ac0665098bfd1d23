\* Every image is idle once there are MaxRuns runs, so behaviours end.
SPECIFICATION Spec
CONSTANTS
    i1 = i1
    i2 = i2
    c1 = c1
    c2 = c2
    p1 = p1
    p2 = p2
    Images = {i1, i2}
    Cves = {c1}
    Packages = {p1}
    Ranks = {1, 4}
    DropsAlone = FALSE
    MaxRuns = 3
CHECK_DEADLOCK FALSE
SYMMETRY TableSymmetry
INVARIANT LiveCvesAreListed
