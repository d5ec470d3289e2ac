SPECIFICATION CodexSpec
CONSTANTS Callers = {c1, c2}
 MaxCalls = 3
 MaxTurns = 2
 Items = {"changes started"}
 MaxItems = 1
 Pipe = 1
 Capacity = 1
CHECK_DEADLOCK FALSE
INVARIANTS EventsOK
PROPERTIES CloseEnds
