SPECIFICATION Spec
CONSTANTS
    Sessions = {s1}
    Unattended = {}
    Callers = {c1}
    Janitor = jan
    Procs = {p1, p2}
    Calls = {"Create", "Send", "Close"}
    Reqs = {}
    MaxOpen = 1
    EventCap = 1
    MaxTurns = 1
    NoProc = NoProc
    NoReq = NoReq
    NoSess = NoSess
INVARIANT ExitFinalizes
