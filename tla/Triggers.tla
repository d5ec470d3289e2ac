------------------------------ MODULE Triggers ------------------------------
(***************************************************************************)
(* Deliveries to one trigger (internal/triggers/deliver.go).  Every call   *)
(* (a webhook, a replay or a test) is a thread that reads the delivery log *)
(* to decide, writes its row, starts the run, and writes the row again; no *)
(* lock or transaction spans two of these steps, and the trigger may be    *)
(* rotated, disabled or deleted in between.                                *)
(*                                                                         *)
(* A payload is its dedupe key, or one of the kinds that are sorted out    *)
(* before the log is read.  Queries go by trigger, so that one trigger is  *)
(* enough.  A unit of the clock is a second or more: timestamps of         *)
(* different units are ordered by their text as they are in time.          *)
(* last_delivery_at, which nothing here reads, is left out.                *)
(***************************************************************************)
EXTENDS Integers, FiniteSets

CONSTANTS Senders,       \* calls in flight at a time
          Payloads,      \* what is sent: dedupe keys, and the odd ones below
          Shapes,        \* the triggers to consider: kind, target, run_on_resolved
          StormCap,      \* storm_cap_per_hour, 0 for none
          Cooldown,      \* cooldown_s
          DedupeWindow,  \* genericDedupeWindow
          Hour,          \* the window of the storm cap
          MaxClock,      \* bound: the clock
          MaxDeliveries, \* bound: calls that pass authentication
          MaxChanges,    \* bound: what an operator changes meanwhile
          MaxFaults      \* bound: failed queries and restarts

ASSUME TriggersAssumption ==
    /\ IsFiniteSet(Senders)
    /\ Shapes \subseteq [kind : {"generic", "grafana", "github"},
                        target : {"template", "pipeline"}, runOnResolved : BOOLEAN]
    /\ {StormCap, Cooldown, DedupeWindow, Hour, MaxClock, MaxDeliveries,
        MaxChanges, MaxFaults} \subseteq Nat

Secrets  == {1, 2}          \* the first and the rotated one
DeliveryIds == 1 .. MaxDeliveries
NoDelivery  == <<>>
Statuses == {"accepted", "rejected", "failed", "skipped", "cooldown", "deduped", "storm"}

VARIABLES
    trig,      \* the trigger's row
    dels,      \* delivery id -> its row
    runs,      \* deliveries whose run (or pipeline run) was started
    broken,    \* those of them whose start failed half-way
    calls,     \* sender -> its call: where it is and what it carries
    clock,
    received,  \* number of calls that passed authentication
    changes, faults, \* number of changes and faults so far
    torn       \* history: deliveries that a fault left behind

triggersVars == <<trig, dels, runs, broken, calls, clock, received, changes, faults, torn>>

Idle == [pc |-> "idle"]
Delivery == [status : Statuses, payload : Payloads, at : 0 .. MaxClock,
             force : BOOLEAN, run : BOOLEAN]
Call == [pc : {"lookup", "count", "record", "accept", "start", "link", "fail"},
         id : DeliveryIds, payload : Payloads, force : BOOLEAN,
         now : 0 .. MaxClock, status : Statuses]

\* The types of the trigger, its delivery log and the calls in flight.
TriggersTypeOK ==
    /\ trig \in [present : BOOLEAN, enabled : BOOLEAN, secret : Secrets, shape : Shapes]
    /\ \A d \in DeliveryIds : dels[d] = NoDelivery \/ dels[d] \in Delivery
    /\ runs \subseteq DeliveryIds /\ broken \subseteq DeliveryIds /\ torn \subseteq DeliveryIds
    /\ \A c \in Senders : calls[c] = Idle \/ calls[c] \in Call
    /\ clock \in 0 .. MaxClock /\ received \in 0 .. MaxDeliveries
    /\ changes \in 0 .. MaxChanges /\ faults \in 0 .. MaxFaults

\* A trigger that CreateTrigger has just made.
TriggersInit ==
    /\ trig \in [present : {TRUE}, enabled : {TRUE}, secret : {1}, shape : Shapes]
    /\ dels = [d \in DeliveryIds |-> NoDelivery]
    /\ runs = {} /\ broken = {} /\ torn = {} /\ clock = 0 /\ received = 0
    /\ changes = 0 /\ faults = 0
    /\ calls = [c \in Senders |-> Idle]

-----------------------------------------------------------------------------
(* The delivery log. *)

Logged == {d \in DeliveryIds : dels[d] # NoDelivery}
Accepted == {d \in Logged : dels[d].status = "accepted"}

\* Deliveries.LastAcceptedByKey: when the newest one was received.
AcceptedByKey(key) == {d \in Accepted : dels[d].payload = key}
LastAcceptedByKey(key) ==
    LET times == {dels[d].at : d \in AcceptedByKey(key)}
    IN  CHOOSE t \in times : \A u \in times : u <= t

\* Deliveries.CountSince, of the accepted ones.
CountSince(since) == Cardinality({d \in Accepted : dels[d].at >= since})

Goes(c, pc) == calls' = [calls EXCEPT ![c].pc = pc]
Decided(c, status) == calls' = [calls EXCEPT ![c].pc = "record", ![c].status = status]
Returns(c)  == calls' = [calls EXCEPT ![c] = Idle]
Sound       == faults' = faults
Fails       == faults < MaxFaults /\ faults' = faults + 1
Changes     == changes < MaxChanges /\ changes' = changes + 1

-----------------------------------------------------------------------------
(* The calls. *)

\* process: what is decided before the log is read.  A template that cannot
\* be rendered has no key; Normalize wants JSON unless the trigger is generic;
\* a resolved alert is skipped even when the call is forced.
process(c, payload, force) ==
    LET decided(pc, status) ==
            [pc |-> pc, id |-> received + 1, payload |-> payload, force |-> force,
             now |-> clock, status |-> status]
    IN  /\ received < MaxDeliveries /\ received' = received + 1
        /\ calls' = [calls EXCEPT ![c] =
             CASE payload = "notJSON" /\ trig.shape.kind # "generic"
                                         -> decided("record", "rejected")
               [] payload = "noKey"      -> decided("record", "failed")
               [] payload = "resolved" /\ trig.shape.kind = "grafana"
                    /\ ~trig.shape.runOnResolved -> decided("record", "skipped")
               [] OTHER -> decided(IF force THEN "accept" ELSE "lookup", "accepted")]
        /\ UNCHANGED <<trig, dels, runs, broken, clock, changes, faults, torn>>

\* A webhook.  The four refusals (too large, unknown, disabled, bad secret)
\* leave no trace.
Deliver(c) ==
    \E payload \in Payloads, presented \in Secrets :
        /\ calls[c] = Idle /\ trig.present /\ trig.enabled
        /\ presented = trig.secret /\ payload # "tooLarge"
        /\ process(c, payload, FALSE)

\* An operator sends a logged payload again, past dedupe, cooldown and cap.
Replay(c) ==
    \E d \in Logged :
        calls[c] = Idle /\ trig.present /\ process(c, dels[d].payload, TRUE)

\* An operator sends a payload of their own; a disabled trigger takes it.
Test(c) ==
    \E payload \in Payloads, force \in BOOLEAN :
        calls[c] = Idle /\ trig.present /\ process(c, payload, force)

\* Mutant: a duplicate is only looked for during the cooldown.
VerdictCooldownOnly(call) ==
    IF /\ AcceptedByKey(call.payload) # {}
       /\ call.now - LastAcceptedByKey(call.payload) < Cooldown
    THEN "cooldown" ELSE "accepted"

\* gate, first query: cooldown, then duplicates, which for a grafana alert
\* are duplicates for ever.
Verdict(call) ==
    LET age == call.now - LastAcceptedByKey(call.payload) IN
    IF AcceptedByKey(call.payload) = {} THEN "accepted"
    ELSE IF age < Cooldown THEN "cooldown"
    ELSE IF trig.shape.kind = "grafana" \/ age < DedupeWindow THEN "deduped" ELSE "accepted"
Lookup(c) ==
    /\ calls[c].pc = "lookup"
    /\ \/ Fails /\ Decided(c, "failed")
       \/ Sound /\ IF Verdict(calls[c]) # "accepted" THEN Decided(c, Verdict(calls[c]))
                   ELSE Goes(c, IF StormCap > 0 THEN "count" ELSE "accept")
    /\ UNCHANGED <<trig, dels, runs, broken, clock, received, changes, torn>>

\* Mutant: the cap is passed once more.
CountOffByOne(c) ==
    /\ calls[c].pc = "count" /\ Sound
    /\ IF CountSince(calls[c].now - Hour) > StormCap
       THEN Decided(c, "storm") ELSE Goes(c, "accept")
    /\ UNCHANGED <<trig, dels, runs, broken, clock, received, changes, torn>>

\* Mutant: a status that the table does not allow.
CountUnknownStatus(c) ==
    /\ calls[c].pc = "count" /\ Sound
    /\ IF CountSince(calls[c].now - Hour) >= StormCap
       THEN Decided(c, "capped") ELSE Goes(c, "accept")
    /\ UNCHANGED <<trig, dels, runs, broken, clock, received, changes, torn>>

\* gate, second query: the storm cap.
Count(c) ==
    /\ calls[c].pc = "count"
    /\ \/ Fails /\ Decided(c, "failed")
       \/ Sound /\ IF CountSince(calls[c].now - Hour) >= StormCap
                   THEN Decided(c, "storm") ELSE Goes(c, "accept")
    /\ UNCHANGED <<trig, dels, runs, broken, clock, received, changes, torn>>

\* Deliveries.Create: the row names the trigger, which must still exist.
Log(c) ==
    /\ trig.present /\ Sound
    /\ dels' = [dels EXCEPT ![calls[c].id] =
            [status |-> calls[c].status, payload |-> calls[c].payload,
             at |-> calls[c].now, run |-> FALSE,
             force |-> calls[c].force /\ calls[c].status = "accepted"]]
CannotLog == dels' = dels /\ (Fails \/ (Sound /\ ~trig.present))

\* record: a delivery that starts nothing.
record(c) ==
    /\ calls[c].pc = "record" /\ Returns(c) /\ (Log(c) \/ CannotLog)
    /\ UNCHANGED <<trig, runs, broken, clock, received, changes, torn>>

\* The row of an accepted delivery is written before its run is started.
Accept(c) ==
    /\ calls[c].pc = "accept"
    /\ (Log(c) /\ Goes(c, "start")) \/ (CannotLog /\ Returns(c))
    /\ UNCHANGED <<trig, runs, broken, clock, received, changes, torn>>

\* engine.Start, pipelines.Start.  A run names the trigger and the delivery,
\* which must still exist; a pipeline run does not.  The row of a pipeline run
\* comes before those of its steps: when one of these cannot be written, Start
\* fails and the pipeline run stays.
StartRun(c) ==
    /\ calls[c].pc = "start"
    /\ \/ /\ trig.shape.target = "template" => calls[c].id \in Logged
          /\ runs' = runs \union {calls[c].id} /\ Goes(c, "link")
          /\ broken' = broken /\ Sound
       \/ runs' = runs /\ broken' = broken /\ Sound /\ Goes(c, "fail")
       \/ /\ trig.shape.target = "pipeline" /\ Fails /\ Goes(c, "fail")
          /\ runs' = runs \union {calls[c].id}
          /\ broken' = broken \union {calls[c].id}
    /\ UNCHANGED <<trig, dels, clock, received, changes, torn>>

\* The second write of a row; when it fails, that is only logged.
Write(d, row) ==
    \/ /\ Sound /\ torn' = torn
       /\ dels' = IF d \in Logged THEN [dels EXCEPT ![d] = row] ELSE dels
    \/ Fails /\ dels' = dels /\ torn' = torn \union {d}

\* Deliveries.SetRun.
SetRun(c) ==
    /\ calls[c].pc = "link" /\ Returns(c)
    /\ Write(calls[c].id, [dels[calls[c].id] EXCEPT !.run = TRUE])
    /\ UNCHANGED <<trig, runs, broken, clock, received, changes>>

\* Mutant: the failure is logged and not written.
failDeliverySilent(c) ==
    /\ calls[c].pc = "fail" /\ Returns(c)
    /\ UNCHANGED <<trig, dels, runs, broken, clock, received, changes, faults, torn>>

\* failDelivery: the run could not be started.
failDelivery(c) ==
    /\ calls[c].pc = "fail" /\ Returns(c)
    /\ Write(calls[c].id, [dels[calls[c].id] EXCEPT !.status = "failed"])
    /\ UNCHANGED <<trig, runs, broken, clock, received, changes>>

-----------------------------------------------------------------------------
(* What happens meanwhile. *)

RotateSecret ==
    /\ trig.present /\ Changes
    /\ trig' = [trig EXCEPT !.secret = 3 - @]
    /\ UNCHANGED <<dels, runs, broken, calls, clock, received, faults, torn>>

\* UpdateTrigger, of what deliveries look at.
SetEnabled ==
    /\ trig.present /\ Changes /\ trig' = [trig EXCEPT !.enabled = ~@]
    /\ UNCHANGED <<dels, runs, broken, calls, clock, received, faults, torn>>

\* Mutant: runs do not keep what they refer to.
TriggerIsDeletedAnyway ==
    /\ trig.present /\ Changes
    /\ trig' = [trig EXCEPT !.present = FALSE]
    /\ dels' = [d \in DeliveryIds |-> NoDelivery]
    /\ UNCHANGED <<runs, broken, calls, clock, received, faults, torn>>

\* The deliveries go with the trigger; runs that refer to them forbid it.
TriggerIsDeleted ==
    /\ trig.present /\ Changes /\ (trig.shape.target = "template" => runs = {})
    /\ trig' = [trig EXCEPT !.present = FALSE]
    /\ dels' = [d \in DeliveryIds |-> NoDelivery]
    /\ UNCHANGED <<runs, broken, calls, clock, received, faults, torn>>

TimePasses ==
    /\ clock < MaxClock /\ clock' = clock + 1
    /\ UNCHANGED <<trig, dels, runs, broken, calls, received, changes, faults, torn>>

\* The server stops: calls are lost where they are.
ServerRestarts ==
    /\ Fails /\ \E c \in Senders : calls[c] # Idle
    /\ calls' = [c \in Senders |-> Idle]
    /\ torn' = torn \union {calls[c].id : c \in {d \in Senders :
                               calls[d].pc \in {"start", "link", "fail"}}}
    /\ UNCHANGED <<trig, dels, runs, broken, clock, received, changes>>

TriggersNext ==
    \/ \E c \in Senders :
         \/ Deliver(c) \/ Replay(c) \/ Test(c)
         \/ Lookup(c) \/ Count(c) \/ record(c) \/ Accept(c)
         \/ StartRun(c) \/ SetRun(c) \/ failDelivery(c)
    \/ RotateSecret \/ SetEnabled \/ TriggerIsDeleted
    \/ TimePasses \/ ServerRestarts

TriggersSpec == TriggersInit /\ [][TriggersNext]_triggersVars

-----------------------------------------------------------------------------
(* Properties. *)

\* The storm cap is checked and acted on without a lock; calls that overlap
\* exceed it, but never by more than the other calls in flight, whatever the
\* order of checks, writes and clock ticks (gate, CountSince).
StormBound ==
    StormCap > 0 =>
    \A t \in 0 .. MaxClock :
        Cardinality({d \in Accepted : ~dels[d].force /\ dels[d].at \in t .. t + Hour})
            < StormCap + Cardinality(Senders)

\* Likewise for duplicates: of one key, within the time in which deliveries
\* are duplicates of each other, no more are accepted than can be in flight at
\* once (gate, LastAcceptedByKey).
DedupeBound ==
    LET window == IF DedupeWindow > Cooldown THEN DedupeWindow ELSE Cooldown
        same(d, e) == /\ dels[d].payload = dels[e].payload /\ ~dels[e].force
                      /\ \/ trig.shape.kind = "grafana"
                         \/ dels[e].at - dels[d].at \in 0 .. window - 1
    IN  \A d \in Accepted :
            Cardinality({e \in Accepted : same(d, e)}) <= Cardinality(Senders)

\* What the gate promises although it holds no lock: overlapping deliveries
\* exceed the storm cap and the dedupe window by no more than their number.
GateBound == StormBound /\ DedupeBound

\* Nothing but a fault leaves an accepted delivery that has no run and that
\* nobody is starting: such a row would pass for a run that took place and, at
\* a grafana trigger, make every later alert with its key a duplicate (process,
\* failDelivery).
AcceptedHasRun ==
    \A d \in Accepted \ torn :
        ~dels[d].run => \E c \in Senders :
            calls[c].pc \in {"start", "link", "fail"} /\ calls[c].id = d

\* A run's delivery is there and is not shown as one that did not run, even
\* when the trigger is deleted while it starts; but for pipeline runs whose
\* start failed half-way, which go on behind a delivery that failed (Replay,
\* TriggerIsDeleted, StartRun).
RunHasDelivery ==
    \A d \in runs :
        /\ trig.shape.target = "template" => d \in Logged
        /\ d \in Logged => dels[d].status = "accepted" \/ d \in broken

\* The log of deliveries and the runs agree, wherever a start fails and whatever
\* happens to the trigger meanwhile (process, failDelivery).
DeliveriesOK == TriggersTypeOK /\ AcceptedHasRun /\ RunHasDelivery

\* The log is a log: what it says of a delivery stays, but that an accepted one
\* may turn out to have failed to start, or get its run (Replay "never touches
\* the original delivery").
DeliveryFinal ==
    [][\A d \in Logged :
          \/ dels'[d] \in {dels[d], NoDelivery}
          \/ /\ dels[d].status = "accepted" /\ ~dels[d].run
             /\ \E c \in Senders : calls[c] # Idle /\ calls[c].id = d]_triggersVars
=============================================================================
