SYMMETRY Symmetry
SPECIFICATION OutsideSpec
CONSTANTS
    Members = {alice}
    Admins = {root}
    Templates = {t1}
    Pipelines = {p1}
    Triggers = {g1, g2}
    Schedules = {s1}
    Callers = {c1, c2}
    Bases = {b}
    MaxSuffix = 2
    MaxRequests = 3
    Senders = {c1, c2}
    Payloads = {"k", "resolved"}
    Shapes <- MCShapes
    StormCap = 1
    Cooldown = 1
    DedupeWindow = 2
    Hour = 0
    MaxClock = 1
    MaxDeliveries = 3
    MaxChanges = 1
    MaxFaults = 1
    Channels = {1, 2}
    Editors = {c1, c2}
    MaxAsked = 3
    MaxEvents = 1
    MaxStops = 1
CHECK_DEADLOCK FALSE
INVARIANTS ResourcesOK GateBound DeliveriesOK PublishOK ChannelAsAsked
PROPERTIES RequestsOK
