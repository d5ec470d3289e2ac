-------------------------------- MODULE Runs --------------------------------
(***************************************************************************)
(* The unattended run engine (internal/runs): the runs of a template, the  *)
(* session that carries them out, and the loop that repeats them.          *)
(*                                                                         *)
(* A caller of Start gets one session; its runs are <<s, i>>, iteration i  *)
(* of session s (a template that does not loop has iteration 1 alone).     *)
(* Three kinds of threads work on the rows without a common lock: the      *)
(* callers of Start, the engine's goroutine (bus messages and the timeout  *)
(* sweep), and an operator who stops a loop.  They share finish, which     *)
(* closes a run and moves its loop; pc and job say where a thread is.      *)
(*                                                                         *)
(* Sessions are seen from outside: prompts go in, results, failures and    *)
(* approval requests come out, on the transcript and on a bounded bus.     *)
(* Not modelled: titles, costs, the text of a report, the iteration number *)
(* that the row of a loop shows.  A result later than the first 500 events *)
(* of a transcript is not seen by reconcile.                               *)
(***************************************************************************)
EXTENDS Integers, Sequences, FiniteSets

CONSTANTS Starters,      \* the callers of Start, one session each
          Looping,       \* those whose template loops
          MaxIterations, \* loop_max of the template
          Reports,       \* what a result says in the loop's field
          MaxBus,        \* depth of the engine's subscription
          MaxAsks,       \* bound: approval requests of a session
          MaxRestarts,   \* bound: restarts of the server
          Calls          \* the operations and faults of an instance

\* What a JSON value means for loopDone: truthy, or one of the falsehoods.
Falsehoods == {"missing", "null", "false", "zero", "", "no", "n", "0", "off",
               "emptyList", "emptyObject", "notAnObject"}
Truths     == {"true", "number", "word", "list", "object"}
AllCalls   == {"Stop", "Restart", "DbFails", "Errors"}
Truthy(v)  == v \notin Falsehoods

Engine     == "engine"
Operator   == "operator"

\* Neither the engine nor the operator is a caller of Start.
ASSUME RunsAssumption ==
    /\ Looping \subseteq Starters
    /\ Engine \notin Starters /\ Operator \notin Starters
    /\ MaxIterations \in Nat \ {0}
    /\ Reports \subseteq Falsehoods \union Truths
    /\ MaxBus \in Nat \ {0} /\ MaxAsks \in Nat /\ MaxRestarts \in Nat
    /\ Calls \subseteq AllCalls

Threads    == Starters \union {Engine, Operator}
Iterations == 1 .. MaxIterations
Runs       == Starters \X Iterations
Closed     == {"success", "failed", "timeout"}
Ended      == {"done", "exhausted", "failed", "stopped"}

VARIABLES
    sess,       \* session -> state of its row
    queue,      \* session -> the prompts its process has to answer
    results,    \* session -> the first result on its transcript
    asks,       \* session -> number of approval requests so far
    outcome,    \* run -> outcome of its row, none without one
    report,     \* history: run -> the turn of the result that closed it, or 0
    loop,       \* session -> state of its loop
    completed,  \* the once-set of runs this process has closed
    notified,   \* the once-set of runs whose operator was paged
    notes,      \* run -> closing notifications sent
    bus,        \* messages to the engine
    pc, job,    \* where a thread is, and with what
    todo,       \* late runs the sweep still has to close
    restarts,
    pages,      \* history: run -> how often this process paged for it
    torn,       \* history: sessions whose thread a restart interrupted
    revived,    \* history: sessions whose ended loop was set to running again
    lost,       \* history: runs whose closing write failed in this process
    stray       \* history: sessions a failed start could not close either

history == <<pages, torn, revived, lost, stray>>
rows   == <<outcome, report, loop>>
memory == <<completed, notified, bus, pc, job, todo>>
world  == <<sess, queue, results, asks, restarts>>
vars   == <<sess, queue, results, asks, outcome, report, loop,
            completed, notified, notes, bus, pc, job, todo, restarts, history>>

Job == [s : Starters, i : Iterations, out : Closed, rep : Reports \union {"missing"},
        turn : 0 .. MaxIterations, goal : Ended]
Messages == [kind : {"result"}, s : Starters, turn : Iterations,
             rep : Reports, err : BOOLEAN]
            \union [kind : {"failed", "approval"}, s : Starters]
PCs == {"free", "create", "loop", "insert", "orphan", "failLoop", "reconcile", "finish",
        "advance", "end", "next", "bump", "send", "close", "notify", "page",
        "tick", "stop", "done"}

\* The types of the rows, the sessions, the bus and where a thread is.
TypeOK ==
    /\ sess \in [Starters -> {"none", "running", "open", "failed", "closed"}]
    /\ queue \in [Starters -> Seq(Iterations)]
    /\ asks \in [Starters -> 0 .. MaxAsks]
    /\ outcome \in [Runs -> {"none", "running"} \union Closed]
    /\ report \in [Runs -> 0 .. MaxIterations]
    /\ completed \subseteq Runs /\ notified \subseteq Runs
    /\ todo \subseteq Runs /\ notes \in [Runs -> Nat]
    /\ loop \in [Starters -> {"none", "running"} \union Ended]
    /\ Len(bus) <= MaxBus /\ \A n \in DOMAIN bus : bus[n] \in Messages
    /\ pc \in [Threads -> PCs]
    /\ \A t \in Threads : job[t] = <<>> \/ job[t] \in Job
    /\ torn \subseteq Starters /\ revived \subseteq Starters
    /\ lost \subseteq Runs /\ stray \subseteq Starters /\ pages \in [Runs -> Nat]
    /\ restarts \in 0 .. MaxRestarts

Init ==
    /\ sess = [s \in Starters |-> "none"]
    /\ queue = [s \in Starters |-> <<>>]
    /\ results = [s \in Starters |-> <<>>]
    /\ asks = [s \in Starters |-> 0]
    /\ outcome = [r \in Runs |-> "none"] /\ report = [r \in Runs |-> 0]
    /\ notes = [r \in Runs |-> 0]
    /\ loop = [s \in Starters |-> "none"]
    /\ completed = {} /\ notified = {} /\ todo = {}
    /\ bus = <<>>
    /\ pc = [t \in Threads |-> IF t \in Starters THEN "create" ELSE "free"]
    /\ job = [t \in Threads |-> <<>>]
    /\ restarts = 0 /\ torn = {} /\ revived = {} /\ lost = {}
    /\ stray = {} /\ pages = [r \in Runs |-> 0]

-----------------------------------------------------------------------------
(* Helpers. *)

Goto(t, p) == pc' = [pc EXCEPT ![t] = p]

\* A thread is through with a run: the engine goes on with its sweep.
Return(t) ==
    /\ job' = [job EXCEPT ![t] = <<>>]
    /\ Goto(t, IF t \in Starters THEN "done"
               ELSE IF t = Engine /\ todo # {} THEN "tick" ELSE "free")

RunOf(t) == <<job[t].s, job[t].i>>

\* The bus never blocks: a message that finds the buffer full is dropped.
Publish(m) == bus' = IF Len(bus) < MaxBus THEN Append(bus, m) ELSE bus

\* GetBySession: the newest run of a session.
Newest(s) == CHOOSE r \in Runs :
    /\ r[1] = s
    /\ \A i \in Iterations : i > r[2] => outcome[<<s, i>>] = "none"
    /\ outcome[r] # "none" \/ r[2] = 1

\* runFor: the newest run, if it is still running.
HasRun(s) == outcome[Newest(s)] = "running"

\* The job of closing run r: from a result, or because the session failed.
FromResult(r, m) ==
    [s |-> r[1], i |-> r[2], out |-> IF m.err THEN "failed" ELSE "success",
     rep |-> m.rep, turn |-> m.turn, goal |-> "failed"]
Without(r, out) ==
    [s |-> r[1], i |-> r[2], out |-> out, rep |-> "missing", turn |-> 0,
     goal |-> "failed"]

-----------------------------------------------------------------------------
(* Start. *)

\* The session is created with the first prompt in it.
CreateSession(t) ==
    /\ pc[t] = "create"
    /\ sess' = [sess EXCEPT ![t] = "running"]
    /\ queue' = [queue EXCEPT ![t] = <<1>>]
    /\ Goto(t, "loop")
    /\ UNCHANGED <<results, asks, restarts, rows, completed, notified,
                   notes, bus, job, todo, history>>

\* The template or the session is refused: there is no run.
CreateFails(t) ==
    /\ pc[t] = "create" /\ "Errors" \in Calls
    /\ Goto(t, "done")
    /\ UNCHANGED <<world, rows, completed, notified, notes, bus, job, todo, history>>

\* startLoop records the loop of a looping template.
StartLoop(t) ==
    /\ pc[t] = "loop"
    /\ \/ /\ t \notin Looping /\ Goto(t, "insert")
          /\ loop' = loop
       \/ /\ t \in Looping /\ Goto(t, "insert")
          /\ loop' = [loop EXCEPT ![t] = "running"]
       \/ /\ t \in Looping /\ "DbFails" \in Calls /\ Goto(t, "orphan")
          /\ loop' = loop
    /\ UNCHANGED <<world, outcome, report, completed, notified, notes, bus, job,
                   todo, history>>

InsertRun(t) ==
    /\ pc[t] = "insert"
    /\ \/ /\ outcome' = [outcome EXCEPT ![<<t, 1>>] = "running"]
          /\ Goto(t, "reconcile")
       \/ /\ "DbFails" \in Calls /\ outcome' = outcome
          /\ Goto(t, "orphan")
    /\ UNCHANGED <<world, report, loop, completed, notified, notes, bus,
                   job, todo, history>>

\* What is left of a failed start: its loop, if there is a row of it.
AfterOrphan(t) == IF loop[t] = "none" THEN "done" ELSE "failLoop"

\* Mutant: a run that cannot be recorded leaves its session alone.
CloseOrphanLoopOnly(t) ==
    /\ pc[t] = "orphan" /\ Goto(t, AfterOrphan(t))
    /\ UNCHANGED <<world, rows, completed, notified, notes, bus, job, todo, history>>

\* A session nobody will follow is closed; that may fail as well, and is only
\* logged ...
CloseOrphan(t) ==
    /\ pc[t] = "orphan" /\ Goto(t, AfterOrphan(t))
    /\ \/ /\ sess' = [sess EXCEPT ![t] = "closed"]
          /\ queue' = [queue EXCEPT ![t] = <<>>] /\ stray' = stray
       \/ /\ Calls \intersect {"DbFails", "Errors"} # {}
          /\ stray' = stray \union {t} /\ UNCHANGED <<sess, queue>>
    /\ UNCHANGED <<results, asks, restarts, rows, completed, notified, notes, bus,
                   job, todo, pages, torn, revived, lost>>

\* ... and its loop is recorded as failed, whatever it was.
FailLoop(t) ==
    /\ pc[t] = "failLoop" /\ Goto(t, "done")
    /\ \/ loop' = [loop EXCEPT ![t] = "failed"] /\ torn' = torn
       \/ "DbFails" \in Calls /\ loop' = loop /\ torn' = torn \union {t}
    /\ UNCHANGED <<world, outcome, report, completed, notified, notes, bus, job,
                   todo, pages, revived, lost, stray>>

\* reconcile: the result may have come before the run existed.
Reconcile(t) ==
    /\ pc[t] = "reconcile"
    /\ \/ /\ results[t] # <<>>
          /\ job' = [job EXCEPT ![t] = FromResult(<<t, 1>>, results[t][1])]
          /\ Goto(t, "finish")
       \/ /\ results[t] = <<>> /\ sess[t] = "failed"
          /\ job' = [job EXCEPT ![t] = Without(<<t, 1>>, "failed")]
          /\ Goto(t, "finish")
       \/ /\ (results[t] = <<>> /\ sess[t] # "failed") \/ "DbFails" \in Calls
          /\ Goto(t, "done") /\ job' = job
    /\ UNCHANGED <<world, rows, completed, notified, notes, bus, todo, history>>

-----------------------------------------------------------------------------
(* finish and advance, in any thread. *)

\* Mutant: finish does not ask whether the run was closed before.
FinishAgain(t) ==
    /\ pc[t] = "finish"
    /\ completed' = completed \union {RunOf(t)}
    /\ outcome' = [outcome EXCEPT ![RunOf(t)] = job[t].out]
    /\ report' = [report EXCEPT ![RunOf(t)] = job[t].turn]
    /\ notified' = notified \ {RunOf(t)}
    /\ Goto(t, "advance")
    /\ UNCHANGED <<world, loop, notes, bus, job, todo, history>>

\* Mutant: the caller who comes second notifies as well.
FinishNotifies(t) ==
    /\ pc[t] = "finish" /\ job' = job
    /\ completed' = completed \union {RunOf(t)}
    /\ outcome' = [outcome EXCEPT ![RunOf(t)] = IF @ = "running" THEN job[t].out ELSE @]
    /\ Goto(t, IF RunOf(t) \in completed THEN "notify" ELSE "advance")
    /\ UNCHANGED <<world, report, loop, notified, notes, bus, todo, history>>

\* Mutant: the loop moves on although the run could not be closed.
FinishIgnoresError(t) ==
    /\ pc[t] = "finish" /\ Goto(t, "advance")
    /\ completed' = completed \union {RunOf(t)}
    /\ \E out \in {"running", job[t].out} : outcome' = [outcome EXCEPT ![RunOf(t)] = out]
    /\ UNCHANGED <<world, report, loop, notified, notes, bus, job, todo, history>>

\* Mutant: an outcome that the table does not know.
FinishUnknown(t) ==
    /\ pc[t] = "finish" /\ Goto(t, "advance")
    /\ completed' = completed \union {RunOf(t)}
    /\ outcome' = [outcome EXCEPT ![RunOf(t)] = "finished"]
    /\ UNCHANGED <<world, report, loop, notified, notes, bus, job, todo, history>>

\* finish: the first in this process to close the run writes its outcome,
\* forgets that it paged and goes on to advance.  The run stays in the
\* once-set when the write fails.
Finish(t) ==
    /\ pc[t] = "finish"
    /\ completed' = completed \union {RunOf(t)}
    /\ \/ /\ RunOf(t) \in completed /\ Return(t)
          /\ UNCHANGED <<outcome, report, notified, lost>>
       \/ /\ RunOf(t) \notin completed /\ "DbFails" \in Calls /\ Return(t)
          /\ lost' = lost \union {RunOf(t)}
          /\ UNCHANGED <<outcome, report, notified>>
       \/ /\ RunOf(t) \notin completed /\ Goto(t, "advance") /\ job' = job
          /\ outcome' = [outcome EXCEPT ![RunOf(t)] = job[t].out]
          /\ report' = [report EXCEPT ![RunOf(t)] = job[t].turn]
          /\ notified' = notified \ {RunOf(t)} /\ lost' = lost
    /\ UNCHANGED <<world, loop, notes, bus, todo, pages, torn, revived, stray>>

AfterAdvance(t) == IF job[t].out = "timeout" THEN "close" ELSE "notify"

\* Mutant: a loop is exhausted one iteration too early.
VerdictOffByOne(j) ==
    IF j.out # "success" THEN "failed"
    ELSE IF Truthy(j.rep) THEN "done"
    ELSE IF j.i + 1 >= MaxIterations THEN "exhausted" ELSE "next"

\* How a loop goes on after a run: loopDone, the budget, or once more.
Verdict(j) ==
    IF j.out # "success" THEN "failed"
    ELSE IF Truthy(j.rep) THEN "done"
    ELSE IF j.i >= MaxIterations THEN "exhausted" ELSE "next"

\* advance reads the loop of the run, and leaves one that is over alone.  When
\* the row cannot be read the loop is left as it is.
Advance(t) ==
    LET s == job[t].s
        v == Verdict(job[t])
    IN
    /\ pc[t] = "advance"
    /\ \/ /\ loop[s] # "running" /\ Goto(t, AfterAdvance(t)) /\ job' = job
       \/ /\ loop[s] = "running" /\ v = "next" /\ Goto(t, "next") /\ job' = job
       \/ /\ loop[s] = "running" /\ v # "next" /\ Goto(t, "end")
          /\ job' = [job EXCEPT ![t].goal = v]
       \/ /\ loop[s] # "none" /\ "DbFails" \in Calls /\ Goto(t, AfterAdvance(t))
          /\ job' = job
    /\ torn' = IF pc'[t] = AfterAdvance(t) /\ loop[s] = "running"
               THEN torn \union {s} ELSE torn
    /\ UNCHANGED <<world, rows, completed, notified, notes, bus, todo, pages,
                   revived, lost, stray>>

\* endLoop writes the state advance has decided on.
EndLoop(t) ==
    /\ pc[t] = "end" /\ Goto(t, AfterAdvance(t))
    /\ \/ loop' = [loop EXCEPT ![job[t].s] = job[t].goal] /\ torn' = torn
       \/ "DbFails" \in Calls /\ loop' = loop /\ torn' = torn \union {job[t].s}
    /\ UNCHANGED <<world, outcome, report, completed, notified, notes, bus, job,
                   todo, pages, revived, lost, stray>>

\* nextIteration writes the row of the next run first, because its result
\* may come before Send returns.
NextIteration(t) ==
    /\ pc[t] = "next"
    /\ \/ /\ outcome' = [outcome EXCEPT ![<<job[t].s, job[t].i + 1>>] = "running"]
          /\ Goto(t, "bump")
       \/ /\ Calls \intersect {"DbFails", "Errors"} # {} /\ outcome' = outcome
          /\ Goto(t, "end")
    /\ UNCHANGED <<world, report, loop, completed, notified, notes, bus,
                   job, todo, history>>

\* It then records how far the loop has come ...
UpdateLoop(t) ==
    /\ pc[t] = "bump"
    /\ \/ /\ loop' = [loop EXCEPT ![job[t].s] = "running"] /\ Goto(t, "send")
          /\ revived' = IF loop[job[t].s] = "running" THEN revived
                        ELSE revived \union {job[t].s}
       \/ "DbFails" \in Calls /\ Goto(t, "end") /\ UNCHANGED <<loop, revived>>
    /\ UNCHANGED <<world, outcome, report, completed, notified, notes, bus, job,
                   todo, pages, torn, lost, stray>>

\* ... and sends the prompt; Send starts the session's process again if it
\* has none.
SendNext(t) ==
    /\ pc[t] = "send" /\ Goto(t, AfterAdvance(t))
    /\ sess' = [sess EXCEPT ![job[t].s] = "running"]
    /\ queue' = [queue EXCEPT ![job[t].s] = Append(@, job[t].i + 1)]
    /\ UNCHANGED <<results, asks, restarts, rows, completed, notified, notes,
                   bus, job, todo, history>>

\* Send fails: finish closes the new run, unless somebody was quicker, and
\* the loop fails.
SendFails(t) ==
    LET r == <<job[t].s, job[t].i + 1>> IN
    /\ pc[t] = "send" /\ "Errors" \in Calls /\ Goto(t, "end")
    /\ completed' = completed \union {r}
    /\ \/ r \in completed /\ UNCHANGED <<outcome, notified, lost>>
       \/ /\ r \notin completed /\ "DbFails" \in Calls
          /\ lost' = lost \union {r} /\ UNCHANGED <<outcome, notified>>
       \/ /\ r \notin completed /\ outcome' = [outcome EXCEPT ![r] = "failed"]
          /\ notified' = notified \ {r} /\ lost' = lost
    /\ UNCHANGED <<world, report, loop, notes, bus, job, todo, pages, torn,
                   revived, stray>>

\* The sweep interrupts and closes the session of a run that timed out; it
\* goes on when that fails.
CloseSession(t) ==
    /\ pc[t] = "close" /\ Goto(t, "notify")
    /\ \/ /\ sess' = [sess EXCEPT ![job[t].s] = "closed"]
          /\ queue' = [queue EXCEPT ![job[t].s] = <<>>]
       \/ "Errors" \in Calls /\ UNCHANGED <<sess, queue>>
    /\ UNCHANGED <<results, asks, restarts, rows, completed, notified, notes,
                   bus, job, todo, history>>

\* The one who closed the run tells the operator.
Notify(t) ==
    /\ pc[t] = "notify"
    /\ notes' = [notes EXCEPT ![RunOf(t)] = @ + 1]
    /\ Return(t)
    /\ UNCHANGED <<world, rows, completed, notified, bus, todo, history>>

-----------------------------------------------------------------------------
(* The engine's goroutine. *)

\* handle: a message is for the run that its session is on, if that is found.
Handle ==
    /\ pc[Engine] = "free" /\ bus # <<>>
    /\ bus' = Tail(bus)
    /\ LET m == Head(bus) IN
       \/ (~HasRun(m.s) \/ "DbFails" \in Calls) /\ UNCHANGED <<pc, job>>
       \/ /\ HasRun(m.s)
          /\ job' = [job EXCEPT ![Engine] =
                 IF m.kind = "result" THEN FromResult(Newest(m.s), m)
                 ELSE Without(Newest(m.s), "failed")]
          /\ Goto(Engine, IF m.kind = "approval" THEN "page" ELSE "finish")
    /\ UNCHANGED <<world, rows, completed, notified, notes, todo, history>>

\* Mutant: the operator is paged for every request.
PageAgain ==
    /\ pc[Engine] = "page" /\ Return(Engine)
    /\ notified' = notified \union {RunOf(Engine)}
    /\ pages' = [pages EXCEPT ![RunOf(Engine)] = @ + 1]
    /\ UNCHANGED <<world, rows, completed, notes, bus, todo, torn, revived,
                   lost, stray>>

\* handleApprovalCreated pages the operator once.
Page ==
    /\ pc[Engine] = "page" /\ Return(Engine)
    /\ notified' = notified \union {RunOf(Engine)}
    /\ pages' = IF RunOf(Engine) \in notified THEN pages
                ELSE [pages EXCEPT ![RunOf(Engine)] = @ + 1]
    /\ UNCHANGED <<world, rows, completed, notes, bus, todo, torn, revived,
                   lost, stray>>

\* Mutant: the sweep forgets the runs of loops.
TickSingle(r) ==
    /\ pc[Engine] = "free" /\ r[1] \notin Looping
    /\ \E late \in SUBSET {q \in Runs : outcome[q] = "running"} : r \in late /\ todo' = late
    /\ Goto(Engine, "tick")
    /\ UNCHANGED <<world, rows, completed, notified, notes, bus, job, history>>

\* Tick lists the runs older than the timeout, r one of them ...
Tick(r) ==
    /\ pc[Engine] = "free"
    /\ \E late \in SUBSET {q \in Runs : outcome[q] = "running"} :
          r \in late /\ todo' = late
    /\ Goto(Engine, "tick")
    /\ UNCHANGED <<world, rows, completed, notified, notes, bus, job, history>>

\* ... and closes one after the other.
TickRun(r) ==
    /\ pc[Engine] = "tick" /\ r \in todo
    /\ todo' = todo \ {r}
    /\ job' = [job EXCEPT ![Engine] = Without(r, "timeout")]
    /\ Goto(Engine, "finish")
    /\ UNCHANGED <<world, rows, completed, notified, notes, bus, history>>

-----------------------------------------------------------------------------
(* An operator stops a loop that is running. *)

Stop(s) ==
    /\ pc[Operator] = "free" /\ loop[s] = "running"
    /\ job' = [job EXCEPT ![Operator] = [Without(<<s, 1>>, "failed") EXCEPT
                                            !.goal = "stopped"]]
    /\ Goto(Operator, "stop")
    /\ UNCHANGED <<world, rows, completed, notified, notes, bus, todo, history>>

\* The loop is recorded as stopped, then its session is closed, if it can be.
StopWrite ==
    /\ pc[Operator] = "stop"
    /\ \/ /\ loop' = [loop EXCEPT ![job[Operator].s] = "stopped"]
          /\ Goto(Operator, "close")
          /\ job' = job
       \/ "DbFails" \in Calls /\ loop' = loop /\ Return(Operator)
    /\ UNCHANGED <<world, outcome, report, completed, notified, notes, bus, todo,
                   history>>

StopClose ==
    /\ pc[Operator] = "close" /\ Return(Operator)
    /\ \/ /\ sess' = [sess EXCEPT ![job[Operator].s] = "closed"]
          /\ queue' = [queue EXCEPT ![job[Operator].s] = <<>>]
       \/ "Errors" \in Calls /\ UNCHANGED <<sess, queue>>
    /\ UNCHANGED <<results, asks, restarts, rows, completed, notified, notes,
                   bus, todo, history>>

-----------------------------------------------------------------------------
(* Sessions. *)

\* The session answers a prompt: the result goes to the transcript, then out.
TurnEnds(s) ==
    /\ sess[s] = "running" /\ queue[s] # <<>>
    /\ \E rep \in Reports, err \in BOOLEAN :
          LET m == [kind |-> "result", s |-> s, turn |-> Head(queue[s]),
                    rep |-> rep, err |-> err] IN
          /\ err => "Errors" \in Calls
          /\ results' = [results EXCEPT ![s] = IF @ = <<>> THEN <<m>> ELSE @]
          /\ Publish(m)
    /\ queue' = [queue EXCEPT ![s] = Tail(@)]
    /\ sess' = [sess EXCEPT ![s] = IF Len(queue[s]) = 1 THEN "open" ELSE @]
    /\ UNCHANGED <<asks, restarts, rows, completed, notified, notes, pc, job,
                   todo, history>>

\* The process of a session dies.
SessionFails(s) ==
    /\ sess[s] = "running" /\ "Errors" \in Calls
    /\ sess' = [sess EXCEPT ![s] = "failed"]
    /\ queue' = [queue EXCEPT ![s] = <<>>]
    /\ Publish([kind |-> "failed", s |-> s])
    /\ UNCHANGED <<results, asks, restarts, rows, completed, notified, notes,
                   pc, job, todo, history>>

AsksApproval(s) ==
    /\ sess[s] = "running" /\ asks[s] < MaxAsks
    /\ asks' = [asks EXCEPT ![s] = @ + 1]
    /\ Publish([kind |-> "approval", s |-> s])
    /\ UNCHANGED <<sess, queue, results, restarts, rows, completed, notified,
                   notes, pc, job, todo, history>>

\* The server restarts: its threads, messages and once-sets are gone, and no
\* session has a process.
Restart ==
    /\ restarts < MaxRestarts /\ restarts' = restarts + 1
    /\ sess' = [s \in Starters |-> IF sess[s] \in {"running", "open"} THEN "closed"
                                   ELSE sess[s]]
    /\ queue' = [s \in Starters |-> <<>>]
    /\ torn' = torn \union {s \in Starters : pc[s] \notin {"create", "done"}}
                    \union {job[t].s : t \in {u \in {Engine, Operator} : pc[u] # "free"
                                                    /\ job[u] # <<>>}}
    /\ pc' = [t \in Threads |-> IF t \notin Starters THEN "free"
                                ELSE IF pc[t] = "create" THEN "create" ELSE "done"]
    /\ job' = [t \in Threads |-> <<>>]
    /\ bus' = <<>> /\ completed' = {} /\ notified' = {} /\ todo' = {}
    /\ lost' = {} /\ stray' = {} /\ pages' = [r \in Runs |-> 0]
    /\ UNCHANGED <<results, asks, rows, notes, revived>>

Step(t) ==
    \/ Finish(t) \/ Advance(t) \/ EndLoop(t) \/ NextIteration(t) \/ UpdateLoop(t)
    \/ SendNext(t) \/ SendFails(t) \/ Notify(t)

StartStep(t) ==
    \/ CreateSession(t) \/ CreateFails(t) \/ StartLoop(t) \/ InsertRun(t)
    \/ CloseOrphan(t) \/ FailLoop(t) \/ Reconcile(t) \/ Step(t)

EngineStep ==
    Handle \/ Page \/ Step(Engine) \/ CloseSession(Engine) \/ \E r \in Runs : TickRun(r)

Next ==
    \/ \E t \in Starters : StartStep(t) \/ TurnEnds(t) \/ SessionFails(t) \/ AsksApproval(t)
    \/ EngineStep \/ \E r \in Runs : Tick(r)
    \/ "Stop" \in Calls /\ \E s \in Looping : Stop(s)
    \/ StopWrite \/ StopClose
    \/ "Restart" \in Calls /\ Restart

Spec == Init /\ [][Next]_vars

-----------------------------------------------------------------------------
(* Safety. *)

\* A run that is closed keeps its outcome: neither the bus handler, nor the
\* post-start reconciliation, nor the timeout sweep closes it again, before
\* or after a restart (finish, runFor).
OutcomeFinal ==
    [][\A r \in Runs : outcome[r] \in Closed => outcome'[r] = outcome[r]]_vars

\* Of all the threads that find a run to be over, one tells the operator, and
\* only after the run was recorded (finish).
NotifiedOnce ==
    \A r \in Runs : notes[r] <= 1 /\ (notes[r] = 1 => outcome[r] \in Closed)

\* A session works on one run at a time, so that a message of the session has
\* at most one run it can be for (nextIteration, GetBySession).
OneRunning ==
    \A r, q \in Runs :
        r[1] = q[1] /\ outcome[r] = "running" /\ outcome[q] = "running" => r = q

\* A loop is exhausted only when all of its iterations were carried out and
\* succeeded; no run comes after one that failed (advance).
LoopVerdict ==
    \A s \in Looping :
        /\ loop[s] = "exhausted" =>
              \A i \in Iterations : outcome[<<s, i>>] = "success"
        /\ \A i \in Iterations : i > 1 /\ outcome[<<s, i>>] # "none"
              => outcome[<<s, i - 1>>] = "success"

\* A session is left behind without a run that follows it only when closing it
\* failed as well, and then no longer than this process lives: when the run
\* cannot be recorded its session is closed before the loop fails (Start).
NoOrphanSession ==
    \A s \in Starters :
        pc[s] \in {"failLoop", "done"} /\ outcome[<<s, 1>>] = "none" /\ s \notin stray
            => queue[s] = <<>>

\* However many approvals a session asks for, the operator is paged once for a
\* run that is still running (handleApprovalCreated, finish).
PagedOnce == \A r \in Runs : outcome[r] = "running" => pages[r] <= 1

\* The rows and the sets in memory agree about a run through drops, failing
\* writes and restarts: a session has one run at a time, one without a run is
\* closed unless that fails, and the operator hears of each thing once (finish, Start).
RunsOK == TypeOK /\ OneRunning /\ NoOrphanSession /\ NotifiedOnce /\ PagedOnce

-----------------------------------------------------------------------------
(* Liveness.  Every thread goes on; a run that is not closed is older than  *)
(* the timeout in some sweep.  Nothing is assumed of sessions.              *)

Fairness ==
    /\ \A t \in Starters : WF_vars(StartStep(t))
    /\ WF_vars(EngineStep) /\ \A r \in Runs : SF_vars(Tick(r))
    /\ WF_vars(StopWrite) /\ WF_vars(StopClose)

FairSpec == Spec /\ Fairness

\* A run is closed in the end although messages are dropped, sessions die and
\* the server restarts, unless the write that closes it fails: its place in
\* the once-set then keeps this process from ever trying again (Tick, finish).
NoRunLeft == \A r \in Runs : outcome[r] = "running" => r \in lost

\* A loop ends, unless the server stopped or a row could not be read or
\* written while a thread was moving it, or nextIteration recorded progress in
\* a loop that had ended meanwhile: its Update sets the loop to running
\* unconditionally (advance, nextIteration).
NoLoopLeft ==
    \A s \in Looping :
        loop[s] = "running" => s \in torn \/ s \in revived \/ \E r \in lost : r[1] = s

\* Every run and every loop comes to its end.  A session has finitely many runs
\* and an outcome is final, so it is said of all of them at once (Tick, advance).
WorkEnds == <>[](NoRunLeft /\ NoLoopLeft)

-----------------------------------------------------------------------------
(* What comments say of the engine, and TLC refutes. *)

\* "the completed once-set makes sure only one of the two paths actually
\* closes the run" (loop.go:164): a run that was closed from a result was
\* closed from its own.
OwnReport == \A r \in Runs : report[r] # 0 => report[r] = r[2]

\* "the loop is recorded as stopped and its session is closed" (loops.go:332).
StoppedStays == [][\A s \in Looping : loop[s] = "stopped" => loop'[s] = "stopped"]_vars
=============================================================================
