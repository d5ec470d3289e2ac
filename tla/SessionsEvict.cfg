SPECIFICATION Spec
CONSTANTS
    Sessions = {s1, s2}
    Unattended = {s2}
    Callers = {c1}
    Janitor = jan
    Procs = {p1, p2, p3}
    Calls = {"Create", "Send", "SwitchModel", "Close", "Shutdown", "Restart", "Cancel"}
    Reqs = {}
    MaxOpen = 1
    EventCap = 1
    MaxTurns = 1
    NoProc = NoProc
    NoReq = NoReq
    NoSess = NoSess
SYMMETRY Symmetry
INVARIANTS LiveBounded RegistryFollows
PROPERTIES ImplementsSlotPool
