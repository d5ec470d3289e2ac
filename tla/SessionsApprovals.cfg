SPECIFICATION Spec
CONSTANTS
    Sessions = {s1}
    Unattended = {s1}
    Callers = {c1, c2}
    Janitor = jan
    Procs = {p1, p2}
    Calls = {"Create", "Send", "Close", "Interrupt", "Decide", "Expire"}
    Reqs = {r1}
    MaxOpen = 2
    EventCap = 1
    MaxTurns = 1
    NoProc = NoProc
    NoReq = NoReq
    NoSess = NoSess
SYMMETRY Symmetry
INVARIANTS AnsweredOnce OneWorkingChild
