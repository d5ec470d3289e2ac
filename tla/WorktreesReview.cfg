SPECIFICATION WorktreesSpec
CONSTANTS
    Sessions = {s1, s2}
    Threads = {t1, t2}
    Files = {f1}
    Comments = {c1, c2}
    MaxCommits = 1
    MaxCalls = 3
    MaxFaults = 1
SYMMETRY Symmetry
CONSTRAINT ReviewOfOne
CHECK_DEADLOCK FALSE
INVARIANTS ReviewOK
PROPERTIES NothingLost LeftAlone
