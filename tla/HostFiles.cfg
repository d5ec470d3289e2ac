SPECIFICATION HostSpec
CONSTANTS
    n1 = n1
    n2 = n2
    d1 = d1
    Threads = {t1, t2}
    Names = {n1, n2}
    Dirs = {d1}
    Slug <- OneSlug
    Outside = out
    MaxRows = 2
    MaxCalls = 4
    MaxFaults = 1
    s1 = s1
    s2 = s2
    r1 = r1
    r2 = r2
    b1 = b1
    Servers = {s1, s2}
    Restores = {r1, r2}
    Copiers = {b1}
    Binary <- MCBinary
    MaxWrites = 1
    MaxSeconds = 2
SYMMETRY Symmetry
CHECK_DEADLOCK FALSE
INVARIANTS WorkspacesOK RestoreOK ServerIsSeen
PROPERTIES KeptUnderSession
