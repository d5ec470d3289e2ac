SPECIFICATION AccessSpec
CONSTANTS
    Threads = {t1, t2}
    Browsers = {x, y}
    Subjects = {a, b}
    Dev = dev
    Starts = {"empty", "atProvider", "signedIn"}
    Tables = {"claude"}
    MaxRequests = 2
    MaxFaults = 1
SYMMETRY Symmetry
CHECK_DEADLOCK FALSE
INVARIANTS AccessOK SessionBelongs
PROPERTIES OneBootstrapAdmin
