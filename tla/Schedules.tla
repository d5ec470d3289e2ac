----------------------------- MODULE Schedules -----------------------------
(***************************************************************************)
(* One schedule (internal/schedules): the goroutine that ticks, operators  *)
(* who run, change or delete it, and the runs they start.  The tick works  *)
(* on the row as ListDue has read it; nothing keeps an operator from       *)
(* changing the row before the tick is through with it.                    *)
(*                                                                         *)
(* A cron expression is of one of four kinds: a calendar one fires at the  *)
(* multiples of n; @every fires n after it was looked at; one that fits no *)
(* date, as 0 0 31 2 *, never fires; and one that an earlier parser took   *)
(* may not parse any more.  A unit of the clock is a second or more, and   *)
(* two ticks are at least a unit apart; firings of the same unit are       *)
(* ordered in the database by fractions of a second, hence here in any     *)
(* way.  Schedules do not interact but for sharing the tick, so that one   *)
(* is enough.  Only started firings are kept: nothing reads the others.    *)
(***************************************************************************)
EXTENDS Integers, FiniteSets

CONSTANTS Crons,        \* the expressions in use
          Operators,    \* calls in flight at a time
          MaxSeconds,   \* bound: the clock
          MaxRuns,      \* bound: runs started
          MaxAsked,     \* bound: calls of operators
          MaxMishaps    \* bound: failed queries and restarts

ASSUME SchedulesAssumption ==
    /\ Crons # {}
    /\ Crons \subseteq [kind : {"calendar", "every", "never", "lapsed"}, n : Nat \ {0}]
    /\ {MaxSeconds, MaxRuns, MaxAsked, MaxMishaps} \subseteq Nat

RunIds == 1 .. MaxRuns
None   == -1                \* next_run_at NULL; an Update that leaves it alone
Zero   == 0                 \* the zero time, long before the first tick

\* parseCron and cron.Schedule.Next (external library): the first fire time
\* after t, the zero time when there is none; tickOne writes NULL when the
\* expression does not parse.
NextFire(cron, t) ==
    CASE cron.kind = "calendar" -> CHOOSE u \in t + 1 .. t + cron.n : u % cron.n = 0
      [] cron.kind = "every"    -> t + cron.n
      [] cron.kind = "never"    -> Zero
      [] cron.kind = "lapsed"   -> None

VARIABLES
    sched,     \* the row: present, enabled, cron, next
    firings,   \* its started firings
    state,     \* run -> none, running, ended
    ticker,    \* where the tick is, with its copy of the row
    ops,       \* operator -> where its call is, and what it carries
    seconds, asked, mishaps, \* the clock; calls and mishaps so far
    ticked,    \* when the last tick was
    raced,     \* history: two threads were about to write the row
    excused    \* history: RunNow was called, or a firing not recorded

schedulesVars == <<sched, firings, state, ticker, ops, seconds, asked, mishaps,
                   ticked, raced, excused>>

Resting == [pc |-> "rest"]
Times   == 0 .. MaxSeconds
Copies  == [pc : {"overlap", "start", "record", "advance", "write", "setNext"},
            cron : Crons, now : Times, run : RunIds \union {0}, on : BOOLEAN,
            next : Nat \union {None}]

\* The types of the row, its firings, the runs and the calls in flight.
SchedulesTypeOK ==
    /\ sched \in [present : BOOLEAN, enabled : BOOLEAN, cron : Crons, next : Nat \union {None}]
    /\ firings \subseteq [at : Times, run : RunIds]
    /\ state \in [RunIds -> {"none", "running", "ended"}]
    /\ ticker = Resting \/ ticker \in Copies
    /\ \A o \in Operators : ops[o] = Resting \/ ops[o] \in Copies
    /\ {seconds, ticked} \subseteq Times
    /\ asked \in 0 .. MaxAsked /\ mishaps \in 0 .. MaxMishaps
    /\ raced \in BOOLEAN /\ excused \in BOOLEAN

\* A schedule that Create has just made, or one whose cron an earlier version
\* of the server took.
SchedulesInit ==
    /\ \E cron \in Crons : sched = [present |-> TRUE, enabled |-> TRUE, cron |-> cron,
                                    next |-> IF cron.kind = "lapsed" THEN 1 ELSE NextFire(cron, 0)]
    /\ firings = {} /\ state = [r \in RunIds |-> "none"]
    /\ ticker = Resting /\ ops = [o \in Operators |-> Resting]
    /\ seconds = 0 /\ ticked = 0 /\ asked = 0 /\ mishaps = 0
    /\ raced = FALSE /\ excused = FALSE

-----------------------------------------------------------------------------
(* Helpers. *)

Copy(pc, cron, on, next) ==
    [pc |-> pc, cron |-> cron, on |-> on, next |-> next, now |-> seconds, run |-> 0]
Running  == {r \in RunIds : state[r] = "running"}
NextRun  == CHOOSE r \in RunIds : state[r] = "none" /\ \A q \in 1 .. r - 1 : state[q] # "none"
Mishap   == mishaps < MaxMishaps /\ mishaps' = mishaps + 1
NoMishap == mishaps' = mishaps
Writers  == {o \in Operators : ops[o].pc \in {"write", "setNext"}}

\* LastStartedRunID: one of the newest started firings.
LastStarted == {f.run : f \in {g \in firings : \A h \in firings : h.at <= g.at}}

\* startAndRecord, first half: the engine starts a run, or cannot.
CanStart == \E r \in RunIds : state[r] = "none"
Launch   == state' = [state EXCEPT ![NextRun] = "running"]

\* recordFiring: a firing names its schedule; when the row cannot be written,
\* that is only logged.
recordFiring(thread) ==
    \/ /\ NoMishap /\ excused' = excused
       /\ firings' = IF sched.present
                     THEN firings \union {[at |-> thread.now, run |-> thread.run]}
                     ELSE firings
    \/ Mishap /\ firings' = firings /\ excused' = TRUE

\* SetNextRun: nothing happens to a row that is gone.
SetNextRun(next) ==
    sched' = IF sched.present THEN [sched EXCEPT !.next = next] ELSE sched

-----------------------------------------------------------------------------
(* The tick. *)

\* ListDue.
Due == sched.present /\ sched.enabled /\ sched.next # None /\ sched.next <= seconds
Tick ==
    /\ ticker = Resting /\ Due /\ seconds > ticked
    /\ ticker' = Copy("overlap", sched.cron, TRUE, None)
    /\ ticked' = seconds
    /\ raced' = (raced \/ Writers # {})
    /\ UNCHANGED <<sched, firings, state, ops, seconds, asked, mishaps, excused>>

\* Mutant: the run that was started last is not looked at.
overlappingNever(busy) == ~busy /\ NoMishap /\ excused' = excused

\* overlapping: any failure to find out counts as no.
overlapping(busy) ==
    \/ NoMishap /\ excused' = excused /\ \E r \in LastStarted : busy = (state[r] = "running")
    \/ NoMishap /\ excused' = excused /\ LastStarted = {} /\ ~busy
    \/ Mishap /\ excused' = TRUE /\ ~busy
tickOne ==
    /\ ticker.pc = "overlap"
    /\ \E busy \in BOOLEAN :
          /\ overlapping(busy)
          /\ ticker' = [ticker EXCEPT !.pc = IF busy THEN "advance" ELSE "start"]
    /\ UNCHANGED <<sched, firings, state, ops, seconds, asked, ticked, raced>>

\* Mutant: a start that fails is tried again at once.
startAndRecordTwice ==
    /\ ticker.pc = "start"
    /\ \/ /\ CanStart /\ Launch /\ NoMishap /\ excused' = excused
          /\ ticker' = [ticker EXCEPT !.pc = "record", !.run = NextRun]
       \/ /\ CanStart /\ Launch /\ Mishap /\ excused' = excused
          /\ ticker' = ticker
    /\ UNCHANGED <<sched, firings, ops, seconds, asked, ticked, raced>>

\* Start may fail with nothing started; a pipeline's may also fail after its
\* run was created, and then the run goes on with no firing that names it.
startAndRecord ==
    /\ ticker.pc = "start"
    /\ \/ /\ CanStart /\ Launch /\ NoMishap /\ excused' = excused
          /\ ticker' = [ticker EXCEPT !.pc = "record", !.run = NextRun]
       \/ /\ state' = state /\ NoMishap /\ excused' = excused
          /\ ticker' = [ticker EXCEPT !.pc = "advance"]
       \/ /\ CanStart /\ Launch /\ Mishap /\ excused' = TRUE
          /\ ticker' = [ticker EXCEPT !.pc = "advance"]
    /\ UNCHANGED <<sched, firings, ops, seconds, asked, ticked, raced>>

finishFiring ==
    /\ ticker.pc = "record" /\ recordFiring(ticker)
    /\ ticker' = [ticker EXCEPT !.pc = "advance"]
    /\ UNCHANGED <<sched, state, ops, seconds, asked, ticked, raced>>

\* Mutant: the next run is counted from the fire time that was due.
AdvanceFromDue ==
    /\ ticker.pc = "advance" /\ NoMishap
    /\ SetNextRun(NextFire(ticker.cron, sched.next))
    /\ ticker' = Resting
    /\ UNCHANGED <<firings, state, ops, seconds, asked, ticked, raced, excused>>

\* Mutant: a skipped or failed firing leaves next_run_at alone.
AdvanceIfStarted ==
    /\ ticker.pc = "advance" /\ NoMishap
    /\ IF ticker.run # 0 THEN SetNextRun(NextFire(ticker.cron, ticker.now)) ELSE sched' = sched
    /\ ticker' = Resting
    /\ UNCHANGED <<firings, state, ops, seconds, asked, ticked, raced, excused>>

\* The last step of tickOne: the next run by the cron that was read.
Advance ==
    /\ ticker.pc = "advance"
    /\ \/ NoMishap /\ SetNextRun(NextFire(ticker.cron, ticker.now))
       \/ Mishap /\ sched' = sched
    /\ ticker' = Resting
    /\ UNCHANGED <<firings, state, ops, seconds, asked, ticked, raced, excused>>

-----------------------------------------------------------------------------
(* Operators. *)

Call(o) == ops[o] = Resting /\ asked < MaxAsked /\ asked' = asked + 1 /\ sched.present

\* RunNow fires always; it does not look for an overlap.  Its start may fail
\* half-way like that of a tick.
RunNow(o) ==
    /\ Call(o) /\ CanStart /\ Launch /\ excused' = TRUE
    /\ \/ /\ NoMishap
          /\ ops' = [ops EXCEPT ![o] = [Copy("record", sched.cron, TRUE, None) EXCEPT !.run = NextRun]]
       \/ Mishap /\ ops' = ops
    /\ UNCHANGED <<sched, firings, ticker, seconds, ticked, raced>>
RunNowRecord(o) ==
    /\ ops[o].pc = "record" /\ recordFiring(ops[o])
    /\ ops' = [ops EXCEPT ![o] = Resting]
    /\ UNCHANGED <<sched, state, ticker, seconds, asked, ticked, raced>>

\* Mutant: a new cron takes effect after the run that is already planned.
UpdateKeepsNext(o) ==
    \E cron \in Crons, on \in BOOLEAN :
        /\ Call(o)
        /\ ops' = [ops EXCEPT ![o] = Copy("write", cron, on, None)]
        /\ raced' = (raced \/ Writers # {} \/ ticker # Resting)
        /\ UNCHANGED <<sched, firings, state, ticker, seconds, mishaps, ticked, excused>>

\* Update reads the row; it refuses a cron that does not parse, and only one
\* that differs from the row's moves the next run.
Update(o) ==
    \E cron \in Crons, on \in BOOLEAN :
        /\ Call(o) /\ cron.kind # "lapsed"
        /\ ops' = [ops EXCEPT ![o] = Copy("write", cron, on,
                     IF cron = sched.cron THEN None ELSE NextFire(cron, seconds))]
        /\ raced' = (raced \/ Writers # {} \/ ticker # Resting)
        /\ UNCHANGED <<sched, firings, state, ticker, seconds, mishaps, ticked, excused>>

\* Schedules.Update writes the row but for next_run_at, which is written after.
UpdateRow(o) ==
    /\ ops[o].pc = "write"
    /\ \/ /\ NoMishap /\ sched.present
          /\ sched' = [sched EXCEPT !.cron = ops[o].cron, !.enabled = ops[o].on]
          /\ ops' = [ops EXCEPT ![o] = IF @.next = None THEN Resting
                                       ELSE [@ EXCEPT !.pc = "setNext"]]
       \/ /\ Mishap \/ (NoMishap /\ ~sched.present)
          /\ sched' = sched /\ ops' = [ops EXCEPT ![o] = Resting]
    /\ UNCHANGED <<firings, state, ticker, seconds, asked, ticked, raced, excused>>
UpdateNext(o) ==
    /\ ops[o].pc = "setNext" /\ ops' = [ops EXCEPT ![o] = Resting]
    /\ \/ NoMishap /\ SetNextRun(ops[o].next) /\ raced' = raced
       \/ Mishap /\ sched' = sched /\ raced' = TRUE
    /\ UNCHANGED <<firings, state, ticker, seconds, asked, ticked, excused>>

\* Delete: the firings go with the schedule, the runs stay.
Delete(o) ==
    /\ Call(o) /\ sched' = [sched EXCEPT !.present = FALSE] /\ firings' = {}
    /\ UNCHANGED <<state, ticker, ops, seconds, mishaps, ticked, raced, excused>>

-----------------------------------------------------------------------------
(* The world. *)

RunEnds(r) ==
    /\ state[r] = "running" /\ state' = [state EXCEPT ![r] = "ended"]
    /\ UNCHANGED <<sched, firings, ticker, ops, seconds, asked, mishaps, ticked, raced, excused>>

ClockMoves ==
    /\ seconds < MaxSeconds /\ seconds' = seconds + 1
    /\ UNCHANGED <<sched, firings, state, ticker, ops, asked, mishaps, ticked, raced, excused>>

\* The server restarts; a run that was started may go unrecorded, and a row
\* half written.
Restarts ==
    /\ Mishap /\ ticker' = Resting /\ ops' = [o \in Operators |-> Resting]
    /\ excused' = (excused \/ ticker.pc = "record")
    /\ raced' = (raced \/ \E o \in Operators : ops[o].pc = "setNext")
    /\ UNCHANGED <<sched, firings, state, seconds, asked, ticked>>

TickerSteps == Tick \/ tickOne \/ startAndRecord \/ finishFiring \/ Advance
SchedulesNext ==
    \/ Tick \/ tickOne \/ startAndRecord \/ finishFiring \/ Advance
    \/ \E o \in Operators : \/ RunNow(o) \/ RunNowRecord(o)
                            \/ Update(o) \/ UpdateRow(o) \/ UpdateNext(o) \/ Delete(o)
    \/ \E r \in RunIds : RunEnds(r)
    \/ ClockMoves \/ Restarts

\* The goroutine keeps ticking and the clock keeps moving.
SchedulesSpec ==
    /\ SchedulesInit /\ [][SchedulesNext]_schedulesVars
    /\ WF_schedulesVars(TickerSteps) /\ WF_schedulesVars(ClockMoves)

-----------------------------------------------------------------------------
(* Properties. *)

\* A schedule does not overlap itself, one of a pipeline neither: two of its
\* runs are never running at once, whatever is changed or skipped meanwhile,
\* unless an operator ran it by hand, a start failed half-way, or a query or the
\* server failed when a firing was to be recorded or looked up (overlapping,
\* startPipeline).  A tick in flight does not see that the schedule is deleted,
\* nor the firings that went with it.
OneAtATime == sched.present /\ ~excused => Cardinality(Running) <= 1

\* What a planned run is to be: a date of a calendar cron; no further away than
\* the interval of @every; the zero time when there is no date.
Planned(cron, next, now) ==
    CASE cron.kind = "calendar" -> next \in Nat \ {0} /\ next % cron.n = 0
      [] cron.kind = "every"    -> next \in cron.n .. now + cron.n
      [] cron.kind = "never"    -> next = Zero
      [] cron.kind = "lapsed"   -> TRUE

\* Whenever nobody is writing, the planned run is what the cron that the row
\* shows calls for, unless two writers overlapped: the tick writes what follows
\* from the cron it has read, not from the one in the row (Update, tickOne).
NextFollowsCron ==
    sched.present /\ ~raced /\ Writers = {} => Planned(sched.cron, sched.next, seconds)

\* The schedule and its runs agree although the ticker, operators and failing
\* queries write the row in turns (tickOne, Update, RunNow).
SchedulesOK == SchedulesTypeOK /\ OneAtATime /\ NextFollowsCron

\* Between two ticks, the second of them at s: a date of a calendar cron, or the
\* interval of @every.  A cron that no longer parses has one tick at all; one
\* that never fires is due at every tick.
TimeToFire(cron, s) ==
    CASE cron.kind = "calendar" -> \E u \in ticked + 1 .. s : u % cron.n = 0
      [] cron.kind = "every"    -> s >= ticked + cron.n
      [] cron.kind = "never"    -> TRUE
      [] cron.kind = "lapsed"   -> ticked = 0

\* However long the server was away or the tick late, a fire time is used for
\* one tick, unless two writers overlapped or a query failed (Tick, Advance).
OncePerFireTime ==
    [][ticked' # ticked /\ ~raced' /\ mishaps = 0 => TimeToFire(sched.cron, seconds)]_schedulesVars

\* A due schedule does not stay due: the tick plans its next run whether it
\* started, skipped or failed (tickOne), once queries stop failing, unless its
\* cron never fires.
DueFires ==
    Due /\ seconds < MaxSeconds /\ mishaps = MaxMishaps ~> ~Due \/ sched.cron.kind = "never"

\* A fire time is used once, and it is used (Tick).
FiresOnce == OncePerFireTime /\ DueFires
=============================================================================
