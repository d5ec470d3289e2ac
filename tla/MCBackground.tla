---------------------------- MODULE MCBackground ----------------------------
(* What runs behind the requests, for TLC: the ticker of the schedules, or   *)
(* the event bus.  Neither touches the state of the other, so a behaviour is *)
(* one of the two.                                                           *)
EXTENDS Schedules, Bus

MCCrons == {[kind |-> "calendar", n |-> 2], [kind |-> "every", n |-> 2],
            [kind |-> "never", n |-> 1], [kind |-> "lapsed", n |-> 1]}

VARIABLE part
BackgroundInit == /\ part \in {"schedules", "bus"}
                  /\ SchedulesInit /\ BusInit
                  /\ part = "bus" => sched.cron.kind = "never"
BackgroundNext ==
    /\ UNCHANGED part
    /\ \/ part = "schedules" /\ SchedulesNext /\ UNCHANGED busVars
       \/ part = "bus" /\ BusNext /\ UNCHANGED schedulesVars

\* The goroutines of a part go on while the behaviour is one of that part.
BackgroundSpec ==
    /\ BackgroundInit /\ [][BackgroundNext]_<<schedulesVars, busVars, part>>
    /\ WF_schedulesVars(part = "schedules" /\ TickerSteps)
    /\ WF_schedulesVars(part = "schedules" /\ ClockMoves)
    /\ \A p \in Publishers : WF_busVars(part = "bus" /\ PublisherSteps(p))
    /\ \A r \in Readers : WF_busVars(part = "bus" /\ EndingSteps(r))
=============================================================================
