SPECIFICATION FairSpec
CONSTANTS
    Sessions = {s1}
    Unattended = {s1}
    Callers = {c1}
    Janitor = jan
    Procs = {p1, p2}
    Calls = {"Create", "Send", "Reap", "Expire", "Restart", "Hold", "Jam"}
    Reqs = {r1}
    MaxOpen = 1
    EventCap = 1
    MaxTurns = 1
    NoProc = NoProc
    NoReq = NoReq
    NoSess = NoSess
PROPERTIES SweepsEnd WaitsEnd
