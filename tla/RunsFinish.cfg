SPECIFICATION FairSpec
CONSTANTS
    Starters = {s1}
    Looping = {s1}
    MaxIterations = 2
    Reports = {"no", "true"}
    MaxBus = 1
    MaxAsks = 2
    MaxRestarts = 1
    Calls = {"Stop", "Restart", "DbFails", "Errors"}
CHECK_DEADLOCK FALSE
INVARIANTS RunsOK LoopVerdict
PROPERTIES OutcomeFinal WorkEnds
