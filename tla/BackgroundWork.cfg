SPECIFICATION BackgroundSpec
CONSTANTS
    Operators = {o1}
    Crons <- MCCrons
    MaxSeconds = 4
    MaxRuns = 2
    MaxAsked = 1
    MaxMishaps = 1
    Publishers = {p1}
    Readers = {r1, r2}
    Buffer = 1
    MaxPublished = 2
CHECK_DEADLOCK FALSE
INVARIANTS  BusOK
PROPERTIES FiresOnce BusEnds
