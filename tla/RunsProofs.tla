----------------------------- MODULE RunsProofs -----------------------------
(***************************************************************************)
(* Proofs about Runs, for any number of callers and iterations, any depth  *)
(* of the bus and any instance of faults: a run that is closed keeps its   *)
(* outcome, a session works on one run at a time, a loop is exhausted only *)
(* when all of its runs succeeded, and the operator hears of each thing    *)
(* once.                                                                   *)
(*                                                                         *)
(* Why it holds.  Nothing guards a run but the once-set of finish, which a *)
(* restart empties.  So the invariant says of every thread what it may     *)
(* still do to which run: a thread that is about to close one (Closable)   *)
(* has found it running, or somebody in this process was quicker and the   *)
(* run is in the once-set; the thread that closed it owns it (Owned) until *)
(* the operator has been told, and as long as it is about to move the loop *)
(* no later run exists.  A run exists only after all before it succeeded   *)
(* (Chain), so that the newest run is the only one that can be running.    *)
(***************************************************************************)
EXTENDS Runs, TLAPS

ResultsOf == [kind : {"result"}, s : Starters, turn : Iterations,
              rep : Reports, err : BOOLEAN]
Working == {"finish", "advance", "end", "next", "bump", "send", "close", "notify"}
Owning  == Working \ {"finish"}

\* TypeOK, and what it leaves open: the shape of the functions and sequences.
Typed ==
    /\ TypeOK
    /\ job \in [Threads -> {<<>>} \union Job]
    /\ bus \in Seq(Messages)
    /\ results \in [Starters -> {<<>>} \union {<<m>> : m \in ResultsOf}]

\* Where each thread can be, and that it has a job where it needs one.
Placed ==
    /\ pc[Operator] \in {"free", "stop", "close"}
    /\ pc[Engine] \in Working \union {"free", "page", "tick"}
    /\ \A t \in Starters :
          pc[t] \in Working \union {"create", "loop", "insert", "orphan", "failLoop", "reconcile",
                                   "done"}
    /\ \A t \in Threads : pc[t] \in Working \union {"page", "stop"} => job[t] \in Job

\* What the job of a thread says at the steps that move a loop.
JobsFit ==
    \A t \in Threads :
        /\ pc[t] \in {"next", "bump", "send"} => job[t].i < MaxIterations
        /\ pc[t] = "next" => job[t].out = "success"
        /\ pc[t] \in {"finish", "advance", "next", "bump", "send"} => job[t].goal = "failed"

\* A run exists only after those before it succeeded; one of them is the newest.
Chain ==
    \A s \in Starters : \A i, j \in Iterations :
        i < j /\ outcome[<<s, j>>] # "none" => outcome[<<s, i>>] = "success"
HasNewest ==
    \A s \in Starters : \E i \in Iterations :
        /\ outcome[<<s, i>>] # "none" \/ i = 1
        /\ \A j \in Iterations : j > i => outcome[<<s, j>>] = "none"

\* Runs that exist, runs that a thread may be about to close (they are still
\* running, or in the once-set), and runs with none after them; sessions
\* without any run, and sessions all of whose iterations succeeded.
Live      == {r \in Runs : outcome[r] # "none"}
Closable  == {r \in Runs : outcome[r] = "running" \/ r \in completed}
LastOnes  == {r \in Runs : \A j \in Iterations : j > r[2] => outcome[<<r[1], j>>] = "none"}
Empty     == {s \in Starters : \A i \in Iterations : outcome[<<s, i>>] = "none"}
Succeeded == {s \in Starters : \A i \in Iterations : outcome[<<s, i>>] = "success"}

\* What a caller of Start has recorded so far.
Started ==
    \A t \in Starters :
        /\ pc[t] \in {"create", "loop", "insert"} => t \in Empty
        /\ pc[t] = "create" => queue[t] = <<>>
        /\ pc[t] \in Working \union {"reconcile"} => <<t, 1>> \in Live

\* What a thread is about to close may be closed.
NextOf(t) == <<job[t].s, job[t].i + 1>>
Pending ==
    /\ completed \subseteq Live /\ todo \subseteq Closable
    /\ \A t \in Threads :
          /\ pc[t] = "finish" => RunOf(t) \in Closable
          /\ pc[t] = "reconcile" => <<t, 1>> \in Closable
          /\ pc[t] \in {"bump", "send"} => NextOf(t) \in Closable
          /\ pc[t] = "page" => RunOf(t) \in Live

\* Whoever closed a run is alone with it and has not told the operator yet.
Owners == {t \in Threads \ {Operator} : pc[t] \in Owning}
Owned ==
    /\ \A t \in Owners :
          /\ outcome[RunOf(t)] = job[t].out /\ RunOf(t) \in completed
          /\ notes[RunOf(t)] = 0
          /\ pc[t] \in {"advance", "next"} => RunOf(t) \in LastOnes
    /\ \A t, u \in Owners : RunOf(t) = RunOf(u) => t = u

\* A loop is exhausted, or about to be recorded as that, when all succeeded.
Exhausted ==
    /\ \A s \in Starters : loop[s] = "exhausted" => s \in Succeeded
    /\ \A t \in Threads : pc[t] = "end" /\ job[t].goal = "exhausted" => job[t].s \in Succeeded

\* A run that runs was paged for at most once, and then it is in the set.
Paged ==
    \A r \in Runs :
        /\ r \notin Live => pages[r] = 0
        /\ outcome[r] = "running" => pages[r] = 0 \/ (pages[r] = 1 /\ r \in notified)

Inv ==
    /\ Typed /\ Placed /\ JobsFit /\ Chain /\ HasNewest /\ Started /\ Pending
    /\ Owned /\ Exhausted /\ Paged /\ NotifiedOnce /\ NoOrphanSession

\* The engine and the operator are threads of their own.
LEMMA ThreadsAre ==
    /\ Engine \in Threads /\ Operator \in Threads /\ Starters \subseteq Threads
    /\ Engine # Operator /\ Engine \notin Starters /\ Operator \notin Starters
    /\ \A t \in Threads : t \in Starters \/ t = Engine \/ t = Operator
BY RunsAssumption DEF Threads, Engine, Operator

\* The types of what threads share, as functions.
LEMMA Types ==
    Inv => /\ pc \in [Threads -> PCs] /\ job \in [Threads -> {<<>>} \union Job]
           /\ outcome \in [Runs -> {"none", "running"} \union Closed]
           /\ loop \in [Starters -> {"none", "running"} \union Ended]
           /\ notes \in [Runs -> Nat] /\ pages \in [Runs -> Nat]
           /\ report \in [Runs -> 0 .. MaxIterations]
           /\ queue \in [Starters -> Seq(Iterations)]
           /\ completed \subseteq Runs /\ todo \subseteq Runs /\ notified \subseteq Runs
BY DEF Inv, Typed, TypeOK

\* The job of closing a run from a result names that run.
LEMMA ResultJob ==
    ASSUME NEW r \in Runs, NEW m \in ResultsOf
    PROVE  /\ FromResult(r, m) \in Job /\ FromResult(r, m).goal = "failed"
           /\ FromResult(r, m).s = r[1] /\ FromResult(r, m).i = r[2]
BY RunsAssumption DEF FromResult, Job, Runs, ResultsOf, Closed, Ended, Iterations

\* So does the job of closing it because it failed or timed out.
LEMMA OtherJob ==
    ASSUME NEW r \in Runs, NEW out \in Closed
    PROVE  /\ Without(r, out) \in Job /\ Without(r, out).goal = "failed"
           /\ Without(r, out).s = r[1] /\ Without(r, out).i = r[2]
BY RunsAssumption DEF Without, Job, Runs, Closed, Ended, Iterations

\* A run is named by its session and its iteration.
LEMMA RunsArePairs ==
    /\ \A s \in Starters, i \in Iterations : <<s, i>> \in Runs
    /\ \A r \in Runs : r[1] \in Starters /\ r[2] \in Iterations /\ r = <<r[1], r[2]>>
    /\ 1 \in Iterations /\ Iterations \subseteq Nat
BY RunsAssumption DEF Runs, Iterations

\* A job is about a run of some session.
LEMMA JobIsOfRun == ASSUME NEW j \in Job
    PROVE  j.s \in Starters /\ j.i \in Iterations /\ <<j.s, j.i>> \in Runs /\ j.out \in Closed
           /\ j.goal \in Ended /\ j.turn \in 0 .. MaxIterations
BY DEF Job, Runs

\* GetBySession finds a run of the session it was asked for.
LEMMA NewestIsRun ==
    ASSUME HasNewest, NEW s \in Starters
    PROVE  Newest(s) \in Runs /\ Newest(s)[1] = s
<1>1. \E r \in Runs :
         /\ r[1] = s
         /\ \A i \in Iterations : i > r[2] => outcome[<<s, i>>] = "none"
         /\ outcome[r] # "none" \/ r[2] = 1
  <2>1. PICK i \in Iterations : /\ outcome[<<s, i>>] # "none" \/ i = 1
                                /\ \A j \in Iterations : j > i => outcome[<<s, j>>] = "none"
    BY DEF HasNewest
  <2>2. <<s, i>> \in Runs /\ <<s, i>>[1] = s /\ <<s, i>>[2] = i
    BY RunsArePairs
  <2>3. QED
    BY <2>1, <2>2
<1>2. QED
  BY <1>1 DEF Newest

-----------------------------------------------------------------------------
(* What the steps that make a job do to their thread. *)

Kept == <<outcome, report, loop, completed, notified, notes, pages>>

\* reconcile goes on to close the first run of its own session, or is through.
LEMMA ReconcileDoes ==
    ASSUME Inv, NEW t \in Starters, Reconcile(t)
    PROVE  /\ UNCHANGED <<Kept, todo, queue, sess>> /\ pc[t] = "reconcile"
           /\ \/ pc' = [pc EXCEPT ![t] = "done"] /\ job' = job
              \/ \E j \in Job : /\ j.s = t /\ j.i = 1 /\ j.goal = "failed"
                               /\ job' = [job EXCEPT ![t] = j]
                               /\ pc' = [pc EXCEPT ![t] = "finish"]
<1>1. <<t, 1>> \in Runs
  BY RunsArePairs
<1>2. results[t] = <<>> \/ \E m \in ResultsOf : results[t] = <<m>>
  BY DEF Inv, Typed
<1>3. ASSUME results[t] # <<>>
      PROVE  /\ FromResult(<<t, 1>>, results[t][1]) \in Job
             /\ FromResult(<<t, 1>>, results[t][1]).goal = "failed"
             /\ FromResult(<<t, 1>>, results[t][1]).s = t
             /\ FromResult(<<t, 1>>, results[t][1]).i = 1
  <2>1. PICK m \in ResultsOf : results[t] = <<m>>
    BY <1>2, <1>3
  <2>2. results[t][1] = m
    BY <2>1
  <2>3. QED
    BY <1>1, <2>2, ResultJob
<1>4. /\ Without(<<t, 1>>, "failed") \in Job /\ Without(<<t, 1>>, "failed").goal = "failed"
      /\ Without(<<t, 1>>, "failed").s = t /\ Without(<<t, 1>>, "failed").i = 1
  BY <1>1, OtherJob DEF Closed
<1>5. QED
  BY <1>3, <1>4 DEF Reconcile, Goto, Kept, rows, world, history

\* handle finds a run that is running, or leaves the message alone.
LEMMA HandleDoes ==
    ASSUME Inv, Handle
    PROVE  /\ UNCHANGED <<Kept, todo, queue, sess>> /\ pc[Engine] = "free"
           /\ bus' \in Seq(Messages)
           /\ \/ UNCHANGED <<pc, job>>
              \/ \E j \in Job, p \in {"page", "finish"} :
                    /\ <<j.s, j.i>> \in Runs /\ outcome[<<j.s, j.i>>] = "running"
                    /\ j.goal = "failed"
                    /\ job' = [job EXCEPT ![Engine] = j]
                    /\ pc' = [pc EXCEPT ![Engine] = p]
<1> DEFINE m == Head(bus)
           r == Newest(m.s)
<1>1. m \in Messages /\ bus' \in Seq(Messages) /\ m.s \in Starters
  BY DEF Inv, Typed, Handle, Messages
<1>2. r \in Runs
  BY <1>1, NewestIsRun DEF Inv
<1>3. m.kind = "result" => m \in ResultsOf
  BY <1>1 DEF Messages, ResultsOf
<1>4. /\ Without(r, "failed") \in Job /\ Without(r, "failed").goal = "failed"
      /\ r = <<Without(r, "failed").s, Without(r, "failed").i>>
  BY <1>2, OtherJob, RunsArePairs DEF Closed
<1>5. ASSUME m.kind = "result"
      PROVE  /\ FromResult(r, m) \in Job /\ FromResult(r, m).goal = "failed"
             /\ r = <<FromResult(r, m).s, FromResult(r, m).i>>
  BY <1>2, <1>3, <1>5, ResultJob, RunsArePairs
<1>6. CASE UNCHANGED <<pc, job>>
  BY <1>1, <1>6 DEF Handle, Kept, rows, world, history
<1>7. CASE /\ outcome[r] = "running"
           /\ job' = [job EXCEPT ![Engine] = IF m.kind = "result" THEN FromResult(r, m)
                                             ELSE Without(r, "failed")]
           /\ Goto(Engine, IF m.kind = "approval" THEN "page" ELSE "finish")
  <2> DEFINE j == IF m.kind = "result" THEN FromResult(r, m) ELSE Without(r, "failed")
             p == IF m.kind = "approval" THEN "page" ELSE "finish"
  <2>1. j \in Job /\ j.goal = "failed" /\ r = <<j.s, j.i>>
    BY <1>4, <1>5
  <2>2. p \in {"page", "finish"}
    OBVIOUS
  <2>3. job' = [job EXCEPT ![Engine] = j] /\ pc' = [pc EXCEPT ![Engine] = p]
    BY <1>7 DEF Goto
  <2>4. UNCHANGED <<Kept, todo, queue, sess>> /\ pc[Engine] = "free"
    BY DEF Handle, Kept, rows, world, history
  <2> HIDE DEF j, p, m, r
  <2>5. QED
    BY <1>1, <1>2, <1>7, <2>1, <2>2, <2>3, <2>4
<1>8. QED
  BY <1>6, <1>7 DEF Handle, HasRun

\* The sweep goes on to close a run of its list.
LEMMA TickRunDoes ==
    ASSUME Inv, NEW r \in Runs, TickRun(r)
    PROVE  /\ UNCHANGED <<Kept, queue, sess>> /\ pc[Engine] = "tick"
           /\ r \in todo /\ todo' \subseteq todo
           /\ \E j \in Job : /\ j.s = r[1] /\ j.i = r[2] /\ r = <<j.s, j.i>> /\ j.goal = "failed"
                            /\ job' = [job EXCEPT ![Engine] = j]
           /\ pc' = [pc EXCEPT ![Engine] = "finish"]
<1>1. /\ Without(r, "timeout") \in Job /\ Without(r, "timeout").goal = "failed"
      /\ Without(r, "timeout").s = r[1] /\ Without(r, "timeout").i = r[2]
  BY OtherJob DEF Closed
<1>2. r = <<r[1], r[2]>>
  BY RunsArePairs
<1>3. QED
  BY <1>1, <1>2 DEF TickRun, Goto, Kept, rows, world, history

\* Stop gives the operator a job.
LEMMA StopDoes ==
    ASSUME Inv, NEW s \in Looping, Stop(s)
    PROVE  /\ UNCHANGED <<Kept, todo, queue, sess>> /\ pc[Operator] = "free"
           /\ \E j \in Job : job' = [job EXCEPT ![Operator] = j]
           /\ pc' = [pc EXCEPT ![Operator] = "stop"]
<1>1. <<s, 1>> \in Runs
  BY RunsArePairs, RunsAssumption
<1>2. [Without(<<s, 1>>, "failed") EXCEPT !.goal = "stopped"] \in Job
  BY <1>1, OtherJob DEF Job, Closed, Ended
<1>3. QED
  BY <1>2 DEF Stop, Goto, Kept, rows, world, history

\* advance keeps the run and its outcome, and calls a loop exhausted only after
\* the last iteration succeeded.
LEMMA AdvanceDoes ==
    ASSUME Inv, NEW t \in Threads \ {Operator}, Advance(t)
    PROVE  /\ UNCHANGED <<Kept, todo, queue, sess>> /\ pc[t] = "advance" /\ job[t] \in Job
           /\ \/ /\ job' = job /\ job[t].out = "success" /\ job[t].i < MaxIterations
                 /\ pc' = [pc EXCEPT ![t] = "next"]
              \/ /\ \E j \in Job :
                       /\ j.s = job[t].s /\ j.i = job[t].i /\ j.out = job[t].out
                       /\ j.goal = "exhausted" => j.out = "success" /\ j.i = MaxIterations
                       /\ job' = [job EXCEPT ![t] = j]
                 /\ pc' = [pc EXCEPT ![t] = "end"]
              \/ /\ job' = job
                 /\ \E p \in {"close", "notify"} : pc' = [pc EXCEPT ![t] = p]
<1>1. pc[t] = "advance" /\ UNCHANGED <<Kept, todo, queue, sess>>
  BY DEF Advance, Kept, rows, world
<1>2. job[t] \in Job /\ job \in [Threads -> {<<>>} \union Job]
  BY <1>1, Types DEF Inv, Placed, Working
<1>3. job[t].i \in 1 .. MaxIterations /\ MaxIterations \in Nat
  BY <1>2, JobIsOfRun, RunsAssumption DEF Iterations
<1> DEFINE v == Verdict(job[t])
           j == [job[t] EXCEPT !.goal = v]
<1>4. v \in Ended \union {"next"}
  BY DEF Verdict, Ended
<1>5. /\ v = "next" => job[t].out = "success" /\ job[t].i < MaxIterations
      /\ v = "exhausted" => job[t].out = "success" /\ job[t].i = MaxIterations
  <2>1. \/ job[t].out # "success" /\ v = "failed"
        \/ job[t].out = "success" /\ v = "done"
        \/ job[t].out = "success" /\ job[t].i >= MaxIterations /\ v = "exhausted"
        \/ job[t].out = "success" /\ ~(job[t].i >= MaxIterations) /\ v = "next"
    BY DEF Verdict
  <2>2. /\ job[t].i >= MaxIterations => job[t].i = MaxIterations
        /\ ~(job[t].i >= MaxIterations) => job[t].i < MaxIterations
    BY <1>3
  <2> HIDE DEF v
  <2>3. QED
    BY <2>1, <2>2
<1>6. v # "next" => /\ j \in Job /\ j.s = job[t].s /\ j.i = job[t].i
                    /\ j.out = job[t].out /\ j.goal = v
  BY <1>2, <1>4 DEF Job
<1>7. job' = [job EXCEPT ![t].goal = v] => job' = [job EXCEPT ![t] = j]
  BY <1>2
<1>8. AfterAdvance(t) \in {"close", "notify"}
  BY DEF AfterAdvance
<1>9. \/ Goto(t, AfterAdvance(t)) /\ job' = job
      \/ v = "next" /\ Goto(t, "next") /\ job' = job
      \/ v # "next" /\ Goto(t, "end") /\ job' = [job EXCEPT ![t].goal = v]
  BY DEF Advance
<1> HIDE DEF v, j
<1>10. QED
  BY <1>1, <1>2, <1>5, <1>6, <1>7, <1>8, <1>9 DEF Goto

-----------------------------------------------------------------------------
(* What a step does to the outcomes. *)

RunIsRecorded ==
    \E t \in Starters : /\ pc[t] = "insert" /\ pc' = [pc EXCEPT ![t] = "reconcile"]
                        /\ outcome' = [outcome EXCEPT ![<<t, 1>>] = "running"]
RunIsClosed ==
    \E r \in Runs, out \in Closed : /\ outcome[r] = "running" /\ r \in completed'
                                    /\ outcome' = [outcome EXCEPT ![r] = out]
LoopGoesOn ==
    \E t \in Threads \ {Operator} :
        /\ pc[t] = "next" /\ pc' = [pc EXCEPT ![t] = "bump"]
        /\ outcome' = [outcome EXCEPT ![<<job[t].s, job[t].i + 1>>] = "running"]
OutcomeMove == outcome' = outcome \/ RunIsRecorded \/ RunIsClosed \/ LoopGoesOn

\* The run that nextIteration is about to record, or has recorded.
LEMMA NextRun ==
    ASSUME Inv, NEW t \in Threads, pc[t] \in {"next", "bump", "send"}
    PROVE  /\ job[t] \in Job /\ job[t].s \in Starters /\ job[t].i \in Iterations
           /\ job[t].i + 1 \in Iterations /\ <<job[t].s, job[t].i + 1>> \in Runs
<1>1. job[t] \in Job /\ job[t].i < MaxIterations
  BY DEF Inv, Placed, JobsFit, Working
<1>2. job[t].s \in Starters /\ job[t].i \in Iterations
  BY <1>1, JobIsOfRun
<1>3. job[t].i + 1 \in Iterations
  BY <1>1, <1>2, RunsAssumption DEF Iterations
<1>4. QED
  BY <1>1, <1>2, <1>3, RunsArePairs

\* What a thread that owns its run knows.
LEMMA OwnedRun ==
    ASSUME Inv, NEW t \in Owners
    PROVE  /\ t \in Threads /\ job[t] \in Job /\ RunOf(t) \in Runs
           /\ outcome[RunOf(t)] = job[t].out /\ outcome[RunOf(t)] \in Closed
           /\ RunOf(t) \in completed /\ notes[RunOf(t)] = 0
<1>1. t \in Threads /\ pc[t] \in Working
  BY DEF Owners, Owning
<1>2. job[t] \in Job
  BY <1>1 DEF Inv, Placed
<1>3. QED
  BY <1>1, <1>2, JobIsOfRun DEF Inv, Owned, RunOf

\* A thread in finish closes a run that is running, or finds it in the once-set.
LEMMA FinishedRun ==
    ASSUME Inv, NEW t \in Threads, pc[t] = "finish"
    PROVE  /\ job[t] \in Job /\ RunOf(t) \in Runs /\ job[t].out \in Closed
           /\ RunOf(t) \notin completed => outcome[RunOf(t)] = "running"
           /\ outcome[RunOf(t)] # "none"
<1>1. job[t] \in Job
  BY DEF Inv, Placed, Working
<1>2. RunOf(t) \in Closable /\ completed \subseteq Live
  BY DEF Inv, Pending
<1>3. QED
  BY <1>1, <1>2, JobIsOfRun DEF Closable, Live, RunOf

\* Whatever the step, a run is recorded, a running run is closed, a loop goes
\* on, or no outcome changes.
LEMMA Moves == Inv /\ Next => OutcomeMove
<1> SUFFICES ASSUME Inv, Next PROVE OutcomeMove
  OBVIOUS
<1>1. ASSUME NEW t \in Starters, InsertRun(t) PROVE OutcomeMove
  BY <1>1 DEF InsertRun, Goto, OutcomeMove, RunIsRecorded
<1>2. ASSUME NEW t \in Threads \ {Operator}, Finish(t) PROVE OutcomeMove
  <2>1. pc[t] = "finish"
    BY <1>2 DEF Finish
  <2>2. CASE outcome' = outcome
    BY <2>2 DEF OutcomeMove
  <2>3. CASE /\ RunOf(t) \notin completed /\ RunOf(t) \in completed'
             /\ outcome' = [outcome EXCEPT ![RunOf(t)] = job[t].out]
    BY <2>1, <2>3, FinishedRun DEF OutcomeMove, RunIsClosed
  <2>4. QED
    BY <1>2, <2>2, <2>3 DEF Finish
<1>3. ASSUME NEW t \in Threads \ {Operator}, NextIteration(t) PROVE OutcomeMove
  BY <1>3 DEF NextIteration, Goto, OutcomeMove, LoopGoesOn
<1>4. ASSUME NEW t \in Threads \ {Operator}, SendFails(t) PROVE OutcomeMove
  <2> DEFINE r == <<job[t].s, job[t].i + 1>>
  <2>1. pc[t] = "send"
    BY <1>4 DEF SendFails
  <2>2. r \in Closable
    BY <2>1 DEF Inv, Pending, NextOf
  <2>3. CASE outcome' = outcome
    BY <2>3 DEF OutcomeMove
  <2>4. CASE /\ r \notin completed /\ r \in completed'
             /\ outcome' = [outcome EXCEPT ![r] = "failed"]
    BY <2>2, <2>4 DEF OutcomeMove, RunIsClosed, Closable, Closed
  <2>5. QED
    BY <1>4, <2>3, <2>4 DEF SendFails
<1>5. ASSUME NEW t \in Starters,
             \/ CreateSession(t) \/ CreateFails(t) \/ StartLoop(t) \/ CloseOrphan(t) \/ FailLoop(t)
             \/ Reconcile(t) \/ TurnEnds(t) \/ SessionFails(t) \/ AsksApproval(t)
      PROVE  OutcomeMove
  BY <1>5
     DEF CreateSession, CreateFails, StartLoop, CloseOrphan, FailLoop,
         AfterOrphan, Reconcile, TurnEnds,
         SessionFails,
              AsksApproval, rows, OutcomeMove
<1>6. ASSUME NEW t \in Threads \ {Operator},
             \/ Advance(t) \/ EndLoop(t) \/ UpdateLoop(t) \/ SendNext(t) \/ Notify(t)
             \/ CloseSession(t)
      PROVE  OutcomeMove
  BY <1>6
     DEF Advance, EndLoop, UpdateLoop, SendNext, Notify, CloseSession, rows, OutcomeMove
<1>7. ASSUME NEW r \in Runs, TickRun(r) \/ Tick(r) PROVE OutcomeMove
  BY <1>7 DEF TickRun, Tick, rows, OutcomeMove
<1>8. ASSUME NEW s \in Looping, Stop(s) PROVE OutcomeMove
  BY <1>8 DEF Stop, rows, OutcomeMove
<1>9. CASE Handle \/ Page \/ StopWrite \/ StopClose \/ Restart
  BY <1>9 DEF Handle, Page, StopWrite, StopClose, Restart, rows, OutcomeMove
<1>10. QED
  BY <1>1, <1>2, <1>3, <1>4, <1>5, <1>6, <1>7, <1>8, <1>9, ThreadsAre DEF Next, StartStep,
     Step, EngineStep

\* What a loop that goes on finds: the run before succeeded and is the newest.
LEMMA GoingOn ==
    ASSUME Inv, NEW t \in Threads \ {Operator}, pc[t] = "next"
    PROVE  /\ outcome[<<job[t].s, job[t].i>>] = "success"
           /\ \A j \in Iterations : j > job[t].i => outcome[<<job[t].s, j>>] = "none"
<1>1. t \in Owners
  BY DEF Owners, Owning, Working
<1>2. RunOf(t) \in LastOnes /\ outcome[RunOf(t)] = "success"
  BY <1>1 DEF Inv, JobsFit, Owned
<1>3. QED
  BY <1>2 DEF LastOnes, RunOf

\* A run that exists goes on to exist, and one that is closed does not change.
LEMMA Lasting ==
    ASSUME Inv, OutcomeMove
    PROVE  /\ \A r \in Runs : outcome[r] \in Closed => outcome'[r] = outcome[r]
           /\ \A r \in Runs : outcome[r] # "none" => outcome'[r] # "none"
           /\ outcome' \in [Runs -> {"none", "running"} \union Closed]
<1> USE Types DEF Closed
<1>1. CASE outcome' = outcome
  BY <1>1
<1>2. CASE RunIsRecorded
  <2>1. PICK t \in Starters : /\ pc[t] = "insert"
                              /\ outcome' = [outcome EXCEPT ![<<t, 1>>] = "running"]
    BY <1>2 DEF RunIsRecorded
  <2>2. <<t, 1>> \in Runs /\ outcome[<<t, 1>>] = "none"
    BY <2>1, RunsArePairs DEF Inv, Started, Empty
  <2>3. QED
    BY <2>1, <2>2
<1>3. CASE RunIsClosed
  BY <1>3 DEF RunIsClosed
<1>4. CASE LoopGoesOn
  <2>1. PICK t \in Threads \ {Operator} :
           /\ pc[t] = "next"
           /\ outcome' = [outcome EXCEPT ![<<job[t].s, job[t].i + 1>>] = "running"]
    BY <1>4 DEF LoopGoesOn
  <2>2. /\ job[t].i + 1 \in Iterations /\ job[t].i \in Iterations
        /\ <<job[t].s, job[t].i + 1>> \in Runs
    BY <2>1, NextRun
  <2>3. job[t].i + 1 > job[t].i
    BY <2>2 DEF Iterations
  <2>4. outcome[<<job[t].s, job[t].i + 1>>] = "none"
    BY <2>1, <2>2, <2>3, GoingOn
  <2>5. QED
    BY <2>1, <2>2, <2>4
<1>5. QED
  BY <1>1, <1>2, <1>3, <1>4 DEF OutcomeMove

\* A run is added only after the one before it succeeded.
LEMMA ChainStep == Inv /\ Next => Chain'
<1> SUFFICES ASSUME Inv, Next,
                    NEW s \in Starters, NEW i \in Iterations, NEW j \in Iterations,
                    i < j, outcome'[<<s, j>>] # "none"
             PROVE  outcome'[<<s, i>>] = "success"
  BY DEF Chain
<1> USE Types, RunsArePairs
<1>1. Chain /\ OutcomeMove
  BY Moves DEF Inv
<1>2. <<s, i>> \in Runs /\ <<s, j>> \in Runs /\ <<s, i>> # <<s, j>>
  OBVIOUS
<1>3. CASE outcome[<<s, j>>] # "none"
  <2>1. outcome[<<s, i>>] = "success"
    BY <1>1, <1>3 DEF Chain
  <2>2. QED
    BY <1>1, <1>2, <2>1, Lasting DEF Closed
<1>4. CASE outcome[<<s, j>>] = "none"
  <2>1. CASE RunIsRecorded
    <3>1. PICK t \in Starters : outcome' = [outcome EXCEPT ![<<t, 1>>] = "running"]
      BY <2>1 DEF RunIsRecorded
    <3>2. <<t, 1>> # <<s, j>>
      BY DEF Iterations
    <3>3. QED
      BY <1>2, <1>4, <3>1, <3>2
  <2>2. CASE RunIsClosed
    BY <1>2, <1>4, <2>2 DEF RunIsClosed
  <2>3. CASE LoopGoesOn
    <3>1. PICK t \in Threads \ {Operator} :
             /\ pc[t] = "next"
             /\ outcome' = [outcome EXCEPT ![<<job[t].s, job[t].i + 1>>] = "running"]
      BY <2>3 DEF LoopGoesOn
    <3>2. <<job[t].s, job[t].i + 1>> = <<s, j>>
      BY <1>2, <1>4, <3>1
    <3>3. job[t].s = s /\ job[t].i + 1 = j /\ job[t].i \in Nat /\ job[t].i \in Iterations
      BY <3>1, <3>2, NextRun
    <3>4. outcome[<<s, job[t].i>>] = "success"
      BY <3>1, <3>3, GoingOn
    <3>5. CASE i = job[t].i
      BY <1>2, <3>1, <3>2, <3>4, <3>5
    <3>6. CASE i < job[t].i
      <4>1. outcome[<<s, i>>] = "success"
        BY <1>1, <3>3, <3>4, <3>6 DEF Chain
      <4>2. QED
        BY <1>2, <3>1, <3>2, <4>1
    <3>7. QED
      BY <3>3, <3>5, <3>6
  <2>4. QED
    BY <1>1, <1>4, <2>1, <2>2, <2>3 DEF OutcomeMove
<1>5. QED
  BY <1>3, <1>4

\* A session keeps a newest run.
LEMMA HasNewestStep == Inv /\ Next => HasNewest'
<1> SUFFICES ASSUME Inv, Next, NEW s \in Starters
             PROVE  \E i \in Iterations :
                       /\ outcome'[<<s, i>>] # "none" \/ i = 1
                       /\ \A j \in Iterations : j > i => outcome'[<<s, j>>] = "none"
  BY DEF HasNewest
<1> USE Types, RunsArePairs
<1>1. OutcomeMove
  BY Moves
<1>2. PICK i \in Iterations : /\ outcome[<<s, i>>] # "none" \/ i = 1
                              /\ \A j \in Iterations : j > i => outcome[<<s, j>>] = "none"
  BY DEF Inv, HasNewest
<1>3. outcome'[<<s, i>>] # "none" \/ i = 1
  BY <1>1, <1>2, Lasting
<1>4. CASE outcome' = outcome
  BY <1>2, <1>4
<1>5. CASE RunIsRecorded
  <2>1. PICK t \in Starters : outcome' = [outcome EXCEPT ![<<t, 1>>] = "running"]
    BY <1>5 DEF RunIsRecorded
  <2>2. \A j \in Iterations : j > i => <<s, j>> # <<t, 1>>
    BY DEF Iterations
  <2>3. QED
    BY <1>2, <1>3, <2>1, <2>2
<1>6. CASE RunIsClosed
  <2>1. PICK r \in Runs, out \in Closed : /\ outcome[r] = "running"
                                         /\ outcome' = [outcome EXCEPT ![r] = out]
    BY <1>6 DEF RunIsClosed
  <2>2. \A j \in Iterations : j > i => <<s, j>> # r
    BY <1>2, <2>1
  <2>3. QED
    BY <1>2, <1>3, <2>1, <2>2
<1>7. CASE LoopGoesOn
  <2>1. PICK t \in Threads \ {Operator} :
           /\ pc[t] = "next"
           /\ outcome' = [outcome EXCEPT ![<<job[t].s, job[t].i + 1>>] = "running"]
    BY <1>7 DEF LoopGoesOn
  <2>2. /\ job[t].i + 1 \in Iterations /\ job[t].i \in Iterations
        /\ <<job[t].s, job[t].i + 1>> \in Runs /\ job[t].s \in Starters
    BY <2>1, NextRun
  <2>3. CASE job[t].s # s
    BY <1>2, <1>3, <2>1, <2>3
  <2>4. CASE job[t].s = s
    <3>1. outcome'[<<s, job[t].i + 1>>] # "none"
      BY <2>1, <2>2, <2>4
    <3>2. ASSUME NEW j \in Iterations, j > job[t].i + 1
          PROVE  outcome'[<<s, j>>] = "none"
      <4>1. j > job[t].i /\ <<s, j>> # <<job[t].s, job[t].i + 1>>
        BY <2>2, <3>2 DEF Iterations
      <4>2. outcome[<<s, j>>] = "none"
        BY <2>1, <2>4, <4>1, GoingOn
      <4>3. QED
        BY <2>1, <4>1, <4>2
    <3>3. QED
      BY <2>2, <3>1, <3>2
  <2>5. QED
    BY <2>3, <2>4
<1>8. QED
  BY <1>1, <1>4, <1>5, <1>6, <1>7 DEF OutcomeMove

\* Only a thread that records its first run brings a session without runs to life.
LEMMA FreshStays ==
    ASSUME Inv, OutcomeMove, NEW t \in Starters,
           \A i \in Iterations : outcome[<<t, i>>] = "none",
           \A u \in Starters : pc[u] = "insert" /\ pc' = [pc EXCEPT ![u] = "reconcile"] => u # t
    PROVE  \A i \in Iterations : outcome'[<<t, i>>] = "none"
<1> USE Types, RunsArePairs
<1>1. CASE outcome' = outcome
  BY <1>1
<1>2. CASE RunIsRecorded
  <2>1. PICK u \in Starters : /\ pc[u] = "insert" /\ pc' = [pc EXCEPT ![u] = "reconcile"]
                              /\ outcome' = [outcome EXCEPT ![<<u, 1>>] = "running"]
    BY <1>2 DEF RunIsRecorded
  <2>2. u # t
    BY <2>1
  <2>3. \A i \in Iterations : <<t, i>> # <<u, 1>>
    BY <2>2
  <2>4. QED
    BY <2>1, <2>3
<1>3. CASE RunIsClosed
  <2>1. PICK r \in Runs, out \in Closed : /\ outcome[r] = "running"
                                         /\ outcome' = [outcome EXCEPT ![r] = out]
    BY <1>3 DEF RunIsClosed
  <2>2. \A i \in Iterations : <<t, i>> # r
    BY <2>1
  <2>3. QED
    BY <2>1, <2>2
<1>4. CASE LoopGoesOn
  <2>1. PICK u \in Threads \ {Operator} :
           /\ pc[u] = "next"
           /\ outcome' = [outcome EXCEPT ![<<job[u].s, job[u].i + 1>>] = "running"]
    BY <1>4 DEF LoopGoesOn
  <2>2. job[u].s # t
    BY <2>1, NextRun, GoingOn
  <2>3. \A i \in Iterations : <<t, i>> # <<job[u].s, job[u].i + 1>>
    BY <2>2
  <2>4. QED
    BY <2>1, <2>3
<1>5. QED
  BY <1>1, <1>2, <1>3, <1>4 DEF OutcomeMove

\* How the sets move: runs go on to exist, what may be closed may be closed
\* until the server restarts, and a session is empty until its first run.
LEMMA OnceSetGrows ==
    Inv /\ Next => Restart \/ (completed \subseteq completed' /\ completed' \subseteq Runs)
<1> SUFFICES ASSUME Inv, Next, ~Restart
             PROVE  completed \subseteq completed' /\ completed' \subseteq Runs
  OBVIOUS
<1> USE Types
<1>1. ASSUME NEW t \in Threads \ {Operator}, Finish(t)
      PROVE  completed' = completed \union {RunOf(t)} /\ RunOf(t) \in Runs
  BY <1>1, FinishedRun DEF Finish
<1>2. ASSUME NEW t \in Threads \ {Operator}, SendFails(t)
      PROVE  completed' = completed \union {NextOf(t)} /\ NextOf(t) \in Runs
  BY <1>2, NextRun DEF SendFails, NextOf
<1>3. ASSUME NEW t \in Starters,
             \/ CreateSession(t) \/ CreateFails(t) \/ StartLoop(t) \/ InsertRun(t)
             \/ CloseOrphan(t) \/ FailLoop(t)
             \/ Reconcile(t) \/ TurnEnds(t) \/ SessionFails(t) \/ AsksApproval(t)
      PROVE  completed' = completed
  BY <1>3
     DEF CreateSession, CreateFails, StartLoop, InsertRun, CloseOrphan, FailLoop,
         AfterOrphan, Reconcile, TurnEnds,
              SessionFails, AsksApproval
<1>4. ASSUME NEW t \in Threads \ {Operator},
             \/ Advance(t) \/ EndLoop(t) \/ NextIteration(t) \/ UpdateLoop(t) \/ SendNext(t)
             \/ Notify(t) \/ CloseSession(t)
      PROVE  completed' = completed
  BY <1>4 DEF Advance, EndLoop, NextIteration, UpdateLoop, SendNext, Notify, CloseSession
<1>5. ASSUME NEW r \in Runs, TickRun(r) \/ Tick(r) PROVE completed' = completed
  BY <1>5 DEF TickRun, Tick
<1>6. ASSUME NEW s \in Looping, Stop(s) PROVE completed' = completed
  BY <1>6 DEF Stop
<1>7. ASSUME Handle \/ Page \/ StopWrite \/ StopClose PROVE completed' = completed
  BY <1>7 DEF Handle, Page, StopWrite, StopClose
<1>8. \/ completed' = completed
      \/ \E t \in Threads \ {Operator} : Finish(t) \/ SendFails(t)
  BY <1>3, <1>4, <1>5, <1>6, <1>7, ThreadsAre DEF Next, StartStep, Step, EngineStep
<1>9. QED
  BY <1>1, <1>2, <1>8

\* How the sets of runs and sessions move with a step.
LEMMA SetsGrow ==
    ASSUME Inv, Next
    PROVE  /\ Live \subseteq Live' /\ Succeeded \subseteq Succeeded'
           /\ Restart \/ Closable \subseteq Closable'
           /\ \A t \in Empty :
                 t \in Empty' \/ (pc[t] = "insert" /\ pc' = [pc EXCEPT ![t] = "reconcile"])
<1> USE Types
<1>1. OutcomeMove
  BY Moves
<1>2. Live \subseteq Live'
  BY <1>1, Lasting DEF Live
<1>3. Succeeded \subseteq Succeeded'
  BY <1>1, Lasting, RunsArePairs DEF Succeeded, Closed
<1>4. ASSUME ~Restart, NEW r \in Closable
      PROVE  r \in Closable'
  <2>1. completed \subseteq completed' /\ r \in Runs
    BY <1>4, OnceSetGrows DEF Closable
  <2>2. CASE r \in completed
    BY <2>1, <2>2 DEF Closable
  <2>3. CASE outcome[r] = "running"
    <3>1. CASE outcome' = outcome
      BY <2>1, <2>3, <3>1 DEF Closable
    <3>2. CASE RunIsRecorded
      BY <2>1, <2>3, <3>2 DEF RunIsRecorded, Closable
    <3>3. CASE RunIsClosed
      BY <2>1, <2>3, <3>3 DEF RunIsClosed, Closable
    <3>4. CASE LoopGoesOn
      BY <2>1, <2>3, <3>4 DEF LoopGoesOn, Closable
    <3>5. QED
      BY <1>1, <3>1, <3>2, <3>3, <3>4 DEF OutcomeMove
  <2>4. QED
    BY <1>4, <2>2, <2>3 DEF Closable
<1>5. ASSUME NEW t \in Empty, ~(pc[t] = "insert" /\ pc' = [pc EXCEPT ![t] = "reconcile"])
      PROVE  t \in Empty'
  <2>1. t \in Starters /\ \A i \in Iterations : outcome[<<t, i>>] = "none"
    BY DEF Empty
  <2>2. ASSUME NEW u \in Starters, pc[u] = "insert", pc' = [pc EXCEPT ![u] = "reconcile"]
        PROVE  u # t
    BY <1>5, <2>2
  <2>3. \A i \in Iterations : outcome'[<<t, i>>] = "none"
    BY <1>1, <2>1, <2>2, FreshStays
  <2>4. QED
    BY <2>1, <2>3 DEF Empty
<1>6. QED
  BY <1>2, <1>3, <1>4, <1>5

\* A loop that has used up its budget: all iterations before the last succeeded
\* because the last exists, and the last because its thread closed it so.
LEMMA AllIterations ==
    ASSUME Inv, NEW t \in Threads \ {Operator}, pc[t] = "advance",
           job[t].out = "success", job[t].i = MaxIterations
    PROVE  job[t].s \in Succeeded
<1>1. t \in Owners
  BY DEF Owners, Owning, Working
<1>2. /\ job[t].s \in Starters /\ job[t].i \in Iterations
      /\ outcome[<<job[t].s, job[t].i>>] = "success"
  BY <1>1, OwnedRun, JobIsOfRun DEF RunOf
<1>3. ASSUME NEW i \in Iterations PROVE outcome[<<job[t].s, i>>] = "success"
  <2>1. CASE i = MaxIterations
    BY <1>2, <2>1
  <2>2. CASE i < MaxIterations
    BY <1>2, <2>2 DEF Inv, Chain
  <2>3. QED
    BY <2>1, <2>2, RunsAssumption DEF Iterations
<1>4. QED
  BY <1>2, <1>3 DEF Succeeded

\* A run that is recorded exists, and it is running.
LEMMA RecordedRuns ==
    ASSUME Inv, NEW r \in Runs, outcome' = [outcome EXCEPT ![r] = "running"]
    PROVE  r \in Live' /\ r \in Closable'
<1>1. outcome'[r] = "running"
  BY Types
<1>2. QED
  BY <1>1 DEF Live, Closable

\* Start records the first run of its session, or goes on to give it up.
LEMMA InsertDoes ==
    ASSUME Inv, NEW t \in Starters, InsertRun(t)
    PROVE  /\ UNCHANGED <<queue, sess, job, completed, todo, notified, notes, pages, loop>>
           /\ pc[t] = "insert"
           /\ \/ /\ <<t, 1>> \in Live' /\ <<t, 1>> \in Closable'
                 /\ pc' = [pc EXCEPT ![t] = "reconcile"]
              \/ outcome' = outcome /\ pc' = [pc EXCEPT ![t] = "orphan"]
<1>1. <<t, 1>> \in Runs
  BY RunsArePairs
<1>2. QED
  BY <1>1, RecordedRuns DEF InsertRun, Goto, world, history

\* nextIteration records the run after its own, or goes on to end the loop.
LEMMA NextIterationDoes ==
    ASSUME Inv, NEW t \in Threads \ {Operator}, NextIteration(t)
    PROVE  /\ UNCHANGED <<queue, sess, job, completed, todo, notified, notes, pages, loop>>
           /\ pc[t] = "next"
           /\ \/ NextOf(t) \in Closable' /\ pc' = [pc EXCEPT ![t] = "bump"]
              \/ outcome' = outcome /\ pc' = [pc EXCEPT ![t] = "end"]
<1>1. pc[t] = "next"
  BY DEF NextIteration
<1>2. NextOf(t) \in Runs
  BY <1>1, NextRun DEF NextOf
<1>3. QED
  BY <1>2, RecordedRuns DEF NextIteration, Goto, world, history, NextOf

-----------------------------------------------------------------------------
(* Where the threads are. *)

\* Threads stay where they belong, with a job where they need one.
LEMMA PlacedStep == Inv /\ Next => Placed'
<1> SUFFICES ASSUME Inv, Next PROVE Placed'
  OBVIOUS
<1>1. pc \in [Threads -> PCs] /\ job \in [Threads -> {<<>>} \union Job] /\ todo \subseteq Runs
  BY Types
<1>2. Placed
  BY DEF Inv
<1> USE ThreadsAre, <1>1, <1>2 DEF Placed, Working, Goto, Return
<1>3. ASSUME NEW t \in Starters, CreateSession(t) PROVE Placed'
  BY <1>3 DEF CreateSession
<1>4. ASSUME NEW t \in Starters, CreateFails(t) PROVE Placed'
  BY <1>4 DEF CreateFails
<1>5. ASSUME NEW t \in Starters, StartLoop(t) PROVE Placed'
  BY <1>5 DEF StartLoop
<1>6. ASSUME NEW t \in Starters, InsertRun(t) PROVE Placed'
  BY <1>6 DEF InsertRun
<1>7. ASSUME NEW t \in Starters, CloseOrphan(t) \/ FailLoop(t) PROVE Placed'
  BY <1>7 DEF CloseOrphan, FailLoop, AfterOrphan
<1>8. ASSUME NEW t \in Starters, Reconcile(t) PROVE Placed'
  BY <1>8, ReconcileDoes
<1>9. ASSUME NEW t \in Threads \ {Operator}, Finish(t) PROVE Placed'
  BY <1>9 DEF Finish
<1>10. ASSUME NEW t \in Threads \ {Operator}, Advance(t) PROVE Placed'
  BY <1>10, AdvanceDoes
<1>11. ASSUME NEW t \in Threads \ {Operator}, EndLoop(t) PROVE Placed'
  BY <1>11 DEF EndLoop, AfterAdvance
<1>12. ASSUME NEW t \in Threads \ {Operator}, NextIteration(t) PROVE Placed'
  BY <1>12 DEF NextIteration
<1>13. ASSUME NEW t \in Threads \ {Operator}, UpdateLoop(t) PROVE Placed'
  BY <1>13 DEF UpdateLoop
<1>14. ASSUME NEW t \in Threads \ {Operator}, SendNext(t) PROVE Placed'
  BY <1>14 DEF SendNext, AfterAdvance
<1>15. ASSUME NEW t \in Threads \ {Operator}, SendFails(t) PROVE Placed'
  BY <1>15 DEF SendFails
<1>16. ASSUME NEW t \in Threads \ {Operator}, Notify(t) PROVE Placed'
  BY <1>16 DEF Notify
<1>17. CASE Handle
  BY <1>17, HandleDoes
<1>18. CASE Page
  BY <1>18 DEF Page
<1>19. CASE CloseSession(Engine)
  BY <1>19 DEF CloseSession
<1>20. ASSUME NEW r \in Runs, TickRun(r) PROVE Placed'
  BY <1>20, TickRunDoes
<1>21. ASSUME NEW r \in Runs, Tick(r) PROVE Placed'
  BY <1>21 DEF Tick
<1>22. ASSUME NEW s \in Looping, Stop(s) PROVE Placed'
  BY <1>22, StopDoes
<1>23. CASE StopWrite
  BY <1>23 DEF StopWrite
<1>24. CASE StopClose
  BY <1>24 DEF StopClose
<1>25. ASSUME NEW t \in Starters, TurnEnds(t) PROVE Placed'
  BY <1>25 DEF TurnEnds
<1>26. ASSUME NEW t \in Starters, SessionFails(t) PROVE Placed'
  BY <1>26 DEF SessionFails
<1>27. ASSUME NEW t \in Starters, AsksApproval(t) PROVE Placed'
  BY <1>27 DEF AsksApproval
<1>28. CASE Restart
  BY <1>28 DEF Restart
<1>29. QED
  BY <1>3, <1>4, <1>5, <1>6, <1>7, <1>8, <1>9, <1>10, <1>11, <1>12, <1>13, <1>14, <1>15,
     <1>16, <1>17, <1>18, <1>19, <1>20, <1>21, <1>22, <1>23, <1>24, <1>25, <1>26, <1>27,
     <1>28 DEF Next, StartStep, Step, EngineStep, Threads

\* A thread that moves a loop has a next iteration to move it to.
LEMMA JobsFitStep == Inv /\ Next => JobsFit'
<1> SUFFICES ASSUME Inv, Next PROVE JobsFit'
  OBVIOUS
<1>1. pc \in [Threads -> PCs] /\ job \in [Threads -> {<<>>} \union Job] /\ todo \subseteq Runs
  BY Types
<1>2. JobsFit /\ Placed
  BY DEF Inv
<1> USE ThreadsAre, <1>1, <1>2 DEF JobsFit, Placed, Working, Goto, Return
<1>3. ASSUME NEW t \in Starters, CreateSession(t) PROVE JobsFit'
  BY <1>3 DEF CreateSession
<1>4. ASSUME NEW t \in Starters, CreateFails(t) PROVE JobsFit'
  BY <1>4 DEF CreateFails
<1>5. ASSUME NEW t \in Starters, StartLoop(t) PROVE JobsFit'
  BY <1>5 DEF StartLoop
<1>6. ASSUME NEW t \in Starters, InsertRun(t) PROVE JobsFit'
  BY <1>6 DEF InsertRun
<1>7. ASSUME NEW t \in Starters, CloseOrphan(t) \/ FailLoop(t) PROVE JobsFit'
  BY <1>7 DEF CloseOrphan, FailLoop, AfterOrphan
<1>8. ASSUME NEW t \in Starters, Reconcile(t) PROVE JobsFit'
  BY <1>8, ReconcileDoes
<1>9. ASSUME NEW t \in Threads \ {Operator}, Finish(t) PROVE JobsFit'
  BY <1>9 DEF Finish
<1>10. ASSUME NEW t \in Threads \ {Operator}, Advance(t) PROVE JobsFit'
  BY <1>10, AdvanceDoes
<1>11. ASSUME NEW t \in Threads \ {Operator}, EndLoop(t) PROVE JobsFit'
  BY <1>11 DEF EndLoop, AfterAdvance
<1>12. ASSUME NEW t \in Threads \ {Operator}, NextIteration(t) PROVE JobsFit'
  BY <1>12 DEF NextIteration
<1>13. ASSUME NEW t \in Threads \ {Operator}, UpdateLoop(t) PROVE JobsFit'
  BY <1>13 DEF UpdateLoop
<1>14. ASSUME NEW t \in Threads \ {Operator}, SendNext(t) PROVE JobsFit'
  BY <1>14 DEF SendNext, AfterAdvance
<1>15. ASSUME NEW t \in Threads \ {Operator}, SendFails(t) PROVE JobsFit'
  BY <1>15 DEF SendFails
<1>16. ASSUME NEW t \in Threads \ {Operator}, Notify(t) PROVE JobsFit'
  BY <1>16 DEF Notify
<1>17. CASE Handle
  BY <1>17, HandleDoes, ZenonT(60)
<1>18. CASE Page
  BY <1>18 DEF Page
<1>19. CASE CloseSession(Engine)
  BY <1>19 DEF CloseSession
<1>20. ASSUME NEW r \in Runs, TickRun(r) PROVE JobsFit'
  BY <1>20, TickRunDoes
<1>21. ASSUME NEW r \in Runs, Tick(r) PROVE JobsFit'
  BY <1>21 DEF Tick
<1>22. ASSUME NEW s \in Looping, Stop(s) PROVE JobsFit'
  BY <1>22, StopDoes
<1>23. CASE StopWrite
  BY <1>23 DEF StopWrite
<1>24. CASE StopClose
  BY <1>24 DEF StopClose
<1>25. ASSUME NEW t \in Starters, TurnEnds(t) PROVE JobsFit'
  BY <1>25 DEF TurnEnds
<1>26. ASSUME NEW t \in Starters, SessionFails(t) PROVE JobsFit'
  BY <1>26 DEF SessionFails
<1>27. ASSUME NEW t \in Starters, AsksApproval(t) PROVE JobsFit'
  BY <1>27 DEF AsksApproval
<1>28. CASE Restart
  BY <1>28 DEF Restart
<1>29. QED
  BY <1>3, <1>4, <1>5, <1>6, <1>7, <1>8, <1>9, <1>10, <1>11, <1>12, <1>13, <1>14, <1>15,
     <1>16, <1>17, <1>18, <1>19, <1>20, <1>21, <1>22, <1>23, <1>24, <1>25, <1>26, <1>27,
     <1>28 DEF Next, StartStep, Step, EngineStep, Threads

\* Where a caller of Start came from.
Flow ==
    \A u \in Starters :
        /\ pc'[u] \in {"create", "loop", "insert"} => pc[u] \in {"create", "loop", "insert"}
        /\ pc'[u] = "create" => pc[u] = "create"
        /\ pc'[u] \in Working \union {"reconcile"} =>
              \/ pc[u] \in Working \union {"reconcile"}
              \/ pc[u] = "insert" /\ pc'[u] = "reconcile" /\ <<u, 1>> \in Live'
        /\ pc'[u] \in {"failLoop", "done"} =>
              \/ pc[u] \in Working \union {"reconcile", "create", "failLoop", "done"}
              \/ queue'[u] = <<>> \/ u \in stray'

\* The callers of Start go their way.
LEMMA FlowStep == Inv /\ Next => Flow
<1> SUFFICES ASSUME Inv, Next PROVE Flow
  OBVIOUS
<1>1. /\ pc \in [Threads -> PCs] /\ job \in [Threads -> {<<>>} \union Job]
      /\ todo \subseteq Runs /\ queue \in [Starters -> Seq(Iterations)]
  BY Types
<1>2. Placed
  BY DEF Inv
<1> USE ThreadsAre, <1>1, <1>2 DEF Flow, Placed, Working, Goto, Return
<1>3. ASSUME NEW t \in Starters, CreateSession(t) PROVE Flow
  BY <1>3 DEF CreateSession
<1>4. ASSUME NEW t \in Starters, CreateFails(t) PROVE Flow
  BY <1>4 DEF CreateFails
<1>5. ASSUME NEW t \in Starters, StartLoop(t) PROVE Flow
  BY <1>5 DEF StartLoop
<1>6. ASSUME NEW t \in Starters, InsertRun(t) PROVE Flow
  BY <1>6, InsertDoes, ZenonT(60)
<1>7. ASSUME NEW t \in Starters, CloseOrphan(t) \/ FailLoop(t) PROVE Flow
  BY <1>7 DEF CloseOrphan, FailLoop, AfterOrphan
<1>8. ASSUME NEW t \in Starters, Reconcile(t) PROVE Flow
  BY <1>8, ReconcileDoes
<1>9. ASSUME NEW t \in Threads \ {Operator}, Finish(t) PROVE Flow
  BY <1>9 DEF Finish
<1>10. ASSUME NEW t \in Threads \ {Operator}, Advance(t) PROVE Flow
  BY <1>10, AdvanceDoes
<1>11. ASSUME NEW t \in Threads \ {Operator}, EndLoop(t) PROVE Flow
  BY <1>11 DEF EndLoop, AfterAdvance
<1>12. ASSUME NEW t \in Threads \ {Operator}, NextIteration(t) PROVE Flow
  BY <1>12, NextIterationDoes
<1>13. ASSUME NEW t \in Threads \ {Operator}, UpdateLoop(t) PROVE Flow
  BY <1>13 DEF UpdateLoop
<1>14. ASSUME NEW t \in Threads \ {Operator}, SendNext(t) PROVE Flow
  BY <1>14 DEF SendNext, AfterAdvance
<1>15. ASSUME NEW t \in Threads \ {Operator}, SendFails(t) PROVE Flow
  BY <1>15 DEF SendFails
<1>16. ASSUME NEW t \in Threads \ {Operator}, Notify(t) PROVE Flow
  BY <1>16 DEF Notify
<1>17. CASE Handle
  BY <1>17, HandleDoes
<1>18. CASE Page
  BY <1>18 DEF Page
<1>19. CASE CloseSession(Engine)
  BY <1>19 DEF CloseSession
<1>20. ASSUME NEW r \in Runs, TickRun(r) PROVE Flow
  BY <1>20, TickRunDoes
<1>21. ASSUME NEW r \in Runs, Tick(r) PROVE Flow
  BY <1>21 DEF Tick
<1>22. ASSUME NEW s \in Looping, Stop(s) PROVE Flow
  BY <1>22, StopDoes
<1>23. CASE StopWrite
  BY <1>23 DEF StopWrite
<1>24. CASE StopClose
  BY <1>24 DEF StopClose
<1>25. ASSUME NEW t \in Starters, TurnEnds(t) PROVE Flow
  BY <1>25 DEF TurnEnds
<1>26. ASSUME NEW t \in Starters, SessionFails(t) PROVE Flow
  BY <1>26 DEF SessionFails
<1>27. ASSUME NEW t \in Starters, AsksApproval(t) PROVE Flow
  BY <1>27 DEF AsksApproval
<1>28. CASE Restart
  BY <1>28 DEF Restart
<1>29. QED
  BY <1>3, <1>4, <1>5, <1>6, <1>7, <1>8, <1>9, <1>10, <1>11, <1>12, <1>13, <1>14, <1>15,
     <1>16, <1>17, <1>18, <1>19, <1>20, <1>21, <1>22, <1>23, <1>24, <1>25, <1>26, <1>27,
     <1>28 DEF Next, StartStep, Step, EngineStep, Threads

\* A session without a run is not sent a prompt, but for the first.
Silent ==
    \A c \in Starters : c \in Empty /\ queue[c] = <<>> => queue'[c] = <<>> \/ pc'[c] = "loop"

\* Only a caller of Start gives a session without runs something to do.
LEMMA SilentStep == Inv /\ Next => Silent
<1> SUFFICES ASSUME Inv, Next PROVE Silent
  OBVIOUS
<1>1. pc \in [Threads -> PCs] /\ queue \in [Starters -> Seq(Iterations)]
  BY Types
<1> USE ThreadsAre, <1>1 DEF Silent, Goto, Return
<1>2. ASSUME NEW t \in Starters, CreateSession(t) PROVE Silent
  BY <1>2 DEF CreateSession, world
<1>3. ASSUME NEW t \in Starters, CreateFails(t) PROVE Silent
  BY <1>3 DEF CreateFails, world
<1>4. ASSUME NEW t \in Starters, StartLoop(t) PROVE Silent
  BY <1>4 DEF StartLoop, world
<1>5. ASSUME NEW t \in Starters, InsertRun(t) PROVE Silent
  BY <1>5, InsertDoes
<1>6. ASSUME NEW t \in Starters, CloseOrphan(t) \/ FailLoop(t) PROVE Silent
  BY <1>6 DEF CloseOrphan, FailLoop, AfterOrphan, world
<1>7. ASSUME NEW t \in Starters, Reconcile(t) PROVE Silent
  BY <1>7, ReconcileDoes
<1>8. ASSUME NEW t \in Threads \ {Operator}, Finish(t) PROVE Silent
  BY <1>8 DEF Finish, world
<1>9. ASSUME NEW t \in Threads \ {Operator}, Advance(t) PROVE Silent
  BY <1>9, AdvanceDoes
<1>10. ASSUME NEW t \in Threads \ {Operator}, EndLoop(t) PROVE Silent
  BY <1>10 DEF EndLoop, world, AfterAdvance
<1>11. ASSUME NEW t \in Threads \ {Operator}, NextIteration(t) PROVE Silent
  BY <1>11, NextIterationDoes
<1>12. ASSUME NEW t \in Threads \ {Operator}, UpdateLoop(t) PROVE Silent
  BY <1>12 DEF UpdateLoop, world
<1>13. ASSUME NEW t \in Threads \ {Operator}, SendNext(t) PROVE Silent
  <2>1. pc[t] = "send"
    BY <1>13 DEF SendNext
  <2>2. NextOf(t) \in Live /\ job[t].s \in Starters
    BY <2>1, NextRun DEF Inv, Pending, Closable, Live, NextOf
  <2>3. job[t].s \notin Empty
    BY <2>1, <2>2, NextRun DEF Empty, Live, NextOf
  <2>4. QED
    BY <1>13, <2>3 DEF SendNext, AfterAdvance
<1>14. ASSUME NEW t \in Threads \ {Operator}, SendFails(t) PROVE Silent
  BY <1>14 DEF SendFails, world
<1>15. ASSUME NEW t \in Threads \ {Operator}, Notify(t) PROVE Silent
  BY <1>15 DEF Notify, world
<1>16. CASE Handle
  BY <1>16, HandleDoes
<1>17. CASE Page
  BY <1>17 DEF Page, world
<1>18. CASE CloseSession(Engine)
  BY <1>18 DEF CloseSession, world
<1>19. ASSUME NEW r \in Runs, TickRun(r) PROVE Silent
  BY <1>19, TickRunDoes
<1>20. ASSUME NEW r \in Runs, Tick(r) PROVE Silent
  BY <1>20 DEF Tick, world
<1>21. ASSUME NEW s \in Looping, Stop(s) PROVE Silent
  BY <1>21, StopDoes
<1>22. CASE StopWrite
  BY <1>22 DEF StopWrite, world
<1>23. CASE StopClose
  BY <1>23 DEF StopClose, world
<1>24. ASSUME NEW t \in Starters, TurnEnds(t) PROVE Silent
  BY <1>24 DEF TurnEnds, world
<1>25. ASSUME NEW t \in Starters, SessionFails(t) PROVE Silent
  BY <1>25 DEF SessionFails, world
<1>26. ASSUME NEW t \in Starters, AsksApproval(t) PROVE Silent
  BY <1>26 DEF AsksApproval, world
<1>27. CASE Restart
  BY <1>27 DEF Restart, world
<1>28. QED
  BY <1>2, <1>3, <1>4, <1>5, <1>6, <1>7, <1>8, <1>9, <1>10, <1>11, <1>12, <1>13, <1>14,
     <1>15, <1>16, <1>17, <1>18, <1>19, <1>20, <1>21, <1>22, <1>23, <1>24, <1>25, <1>26,
     <1>27 DEF Next, StartStep, Step, EngineStep, Threads

\* What a caller of Start has recorded keeps step with where it is.
LEMMA StartedStep == Inv /\ Next => Started'
<1> SUFFICES ASSUME Inv, Next, NEW t \in Starters
             PROVE  /\ pc'[t] \in {"create", "loop", "insert"} => t \in Empty'
                    /\ pc'[t] = "create" => queue'[t] = <<>>
                    /\ pc'[t] \in Working \union {"reconcile"} => <<t, 1>> \in Live'
  BY DEF Started
<1>1. Flow /\ Live \subseteq Live' /\ Started /\ pc \in [Threads -> PCs]
  BY FlowStep, SetsGrow, Types DEF Inv
<1>2. t \in Empty => t \in Empty' \/ (pc[t] = "insert" /\ pc' = [pc EXCEPT ![t] = "reconcile"])
  BY SetsGrow
<1>3. pc'[t] \in {"create", "loop", "insert"} => t \in Empty'
  BY <1>1, <1>2, ThreadsAre DEF Flow, Started
<1>4. pc'[t] = "create" => queue'[t] = <<>>
  BY <1>1, SilentStep DEF Flow, Silent, Started
<1>5. pc'[t] \in Working \union {"reconcile"} => <<t, 1>> \in Live'
  BY <1>1 DEF Flow, Started
<1>6. QED
  BY <1>3, <1>4, <1>5

-----------------------------------------------------------------------------
(* What threads may close, and who has closed it. *)

\* What a thread is about to close stays running or closed in this process.
LEMMA PendingStep == Inv /\ Next /\ ~Restart => Pending'
<1> SUFFICES ASSUME Inv, Next, ~Restart PROVE Pending'
  OBVIOUS
<1>1. pc \in [Threads -> PCs] /\ job \in [Threads -> {<<>>} \union Job] /\ todo \subseteq Runs
  BY Types
<1>2. Pending /\ Placed
  BY DEF Inv
<1>3. Live \subseteq Live' /\ Closable \subseteq Closable'
  BY SetsGrow
<1> USE ThreadsAre, <1>1, <1>2, <1>3 DEF Pending, Placed, Working, Goto, Return, RunOf, NextOf
<1>4. ASSUME NEW t \in Starters, CreateSession(t) PROVE Pending'
  BY <1>4 DEF CreateSession, rows, world, Kept, history
<1>5. ASSUME NEW t \in Starters, CreateFails(t) PROVE Pending'
  BY <1>5 DEF CreateFails, rows, world, Kept, history
<1>6. ASSUME NEW t \in Starters, StartLoop(t) PROVE Pending'
  BY <1>6 DEF StartLoop, rows, world, Kept, history
<1>7. ASSUME NEW t \in Starters, InsertRun(t) PROVE Pending'
  BY <1>7, InsertDoes, ZenonT(60) DEF Kept
<1>8. ASSUME NEW t \in Starters, CloseOrphan(t) \/ FailLoop(t) PROVE Pending'
  BY <1>8 DEF CloseOrphan, FailLoop, AfterOrphan, rows, world, Kept, history
<1>9. ASSUME NEW t \in Starters, Reconcile(t) PROVE Pending'
  <2>1. UNCHANGED <<completed, todo>> /\ pc[t] = "reconcile" /\ <<t, 1>> \in Closable'
    BY <1>9, ReconcileDoes DEF Kept
  <2>2. CASE pc' = [pc EXCEPT ![t] = "done"] /\ job' = job
    BY <2>1, <2>2
  <2>3. CASE \E j \in Job : /\ j.s = t /\ j.i = 1 /\ job' = [job EXCEPT ![t] = j]
                           /\ pc' = [pc EXCEPT ![t] = "finish"]
    BY <2>1, <2>3
  <2>4. QED
    BY <1>9, <2>2, <2>3, ReconcileDoes
<1>10. ASSUME NEW t \in Threads \ {Operator}, Finish(t) PROVE Pending'
  <2>1. /\ pc[t] = "finish" /\ completed' = completed \union {RunOf(t)} /\ todo' = todo
        /\ \E p \in {"advance", "done", "tick", "free"} : pc' = [pc EXCEPT ![t] = p]
        /\ job' = job \/ job' = [job EXCEPT ![t] = <<>>]
    BY <1>10 DEF Finish
  <2>2. RunOf(t) \in Live'
    BY <2>1, FinishedRun DEF Live
  <2>3. completed' \subseteq Live'
    BY <2>1, <2>2
  <2>4. QED
    BY <2>1, <2>3
<1>11. ASSUME NEW t \in Threads \ {Operator}, Advance(t) PROVE Pending'
  BY <1>11, AdvanceDoes DEF Kept
<1>12. ASSUME NEW t \in Threads \ {Operator}, EndLoop(t) PROVE Pending'
  BY <1>12 DEF EndLoop, rows, world, Kept, history, AfterAdvance
<1>13. ASSUME NEW t \in Threads \ {Operator}, NextIteration(t) PROVE Pending'
  BY <1>13, NextIterationDoes DEF Kept
<1>14. ASSUME NEW t \in Threads \ {Operator}, UpdateLoop(t) PROVE Pending'
  BY <1>14 DEF UpdateLoop, rows, world, Kept, history
<1>15. ASSUME NEW t \in Threads \ {Operator}, SendNext(t) PROVE Pending'
  BY <1>15 DEF SendNext, rows, world, Kept, history, AfterAdvance
<1>16. ASSUME NEW t \in Threads \ {Operator}, SendFails(t) PROVE Pending'
  <2>1. /\ pc[t] = "send" /\ completed' = completed \union {NextOf(t)} /\ UNCHANGED <<job, todo>>
        /\ pc' = [pc EXCEPT ![t] = "end"]
    BY <1>16 DEF SendFails
  <2>2. Closable \subseteq Live
    BY DEF Closable, Live
  <2>3. NextOf(t) \in Live'
    BY <2>1, <2>2
  <2>4. completed' \subseteq Live'
    BY <2>1, <2>3
  <2>5. QED
    BY <2>1, <2>4
<1>17. ASSUME NEW t \in Threads \ {Operator}, Notify(t) PROVE Pending'
  BY <1>17 DEF Notify, rows, world, Kept, history
<1>18. CASE Handle
  <2>1. UNCHANGED <<completed, todo>> /\ pc[Engine] = "free"
    BY <1>18, HandleDoes DEF Kept
  <2>2. CASE UNCHANGED <<pc, job>>
    BY <2>1, <2>2
  <2>3. ASSUME NEW j \in Job, NEW p \in {"page", "finish"},
               <<j.s, j.i>> \in Runs, outcome[<<j.s, j.i>>] = "running",
               job' = [job EXCEPT ![Engine] = j], pc' = [pc EXCEPT ![Engine] = p]
        PROVE  Pending'
    <3>1. <<j.s, j.i>> \in Live' /\ <<j.s, j.i>> \in Closable'
      BY <2>3 DEF Live, Closable
    <3>2. QED
      BY <2>1, <2>3, <3>1
  <2>4. QED
    BY <1>18, <2>2, <2>3, HandleDoes
<1>19. CASE Page
  BY <1>19 DEF Page, rows, world, Kept, history
<1>20. CASE CloseSession(Engine)
  BY <1>20 DEF CloseSession, rows, world, Kept, history
<1>21. ASSUME NEW r \in Runs, TickRun(r) PROVE Pending'
  BY <1>21, TickRunDoes DEF Kept
<1>22. ASSUME NEW r \in Runs, Tick(r) PROVE Pending'
  <2>1. \E late \in SUBSET {q \in Runs : outcome[q] = "running"} : todo' = late
    BY <1>22 DEF Tick
  <2>2. todo' \subseteq Closable
    BY <2>1 DEF Closable
  <2>3. QED
    BY <1>22, <2>2 DEF Tick
<1>23. ASSUME NEW s \in Looping, Stop(s) PROVE Pending'
  BY <1>23, StopDoes DEF Kept
<1>24. CASE StopWrite
  BY <1>24 DEF StopWrite, rows, world, Kept, history
<1>25. CASE StopClose
  BY <1>25 DEF StopClose, rows, world, Kept, history
<1>26. ASSUME NEW t \in Starters, TurnEnds(t) PROVE Pending'
  BY <1>26 DEF TurnEnds, rows, world, Kept, history
<1>27. ASSUME NEW t \in Starters, SessionFails(t) PROVE Pending'
  BY <1>27 DEF SessionFails, rows, world, Kept, history
<1>28. ASSUME NEW t \in Starters, AsksApproval(t) PROVE Pending'
  BY <1>28 DEF AsksApproval, rows, world, Kept, history
<1>29. ~Restart
  OBVIOUS
<1>30. QED
  BY <1>4, <1>5, <1>6, <1>7, <1>8, <1>9, <1>10, <1>11, <1>12, <1>13, <1>14, <1>15, <1>16,
     <1>17, <1>18, <1>19, <1>20, <1>21, <1>22, <1>23, <1>24, <1>25, <1>26, <1>27, <1>28,
     <1>29 DEF Next, StartStep, Step, EngineStep, Threads

\* A restart leaves no thread that is about to close anything.
LEMMA PendingAtRestart == Inv /\ Restart => Pending'
<1> SUFFICES ASSUME Inv, Restart PROVE Pending'
  OBVIOUS
<1>1. /\ completed' = {} /\ todo' = {}
      /\ \A t \in Threads : pc'[t] \in {"free", "create", "done"}
  BY DEF Restart
<1>2. QED
  BY <1>1 DEF Pending

\* A thread owns a run because it did before, or because it has just closed it.
Staying(u) ==
    /\ u \in Owners
    /\ job'[u].s = job[u].s /\ job'[u].i = job[u].i /\ job'[u].out = job[u].out
    /\ pc'[u] \in {"advance", "next"} => pc[u] \in {"advance", "next"}
Entering(u) ==
    /\ pc[u] = "finish" /\ pc'[u] = "advance" /\ job' = job
    /\ RunOf(u) \notin completed /\ RunOf(u) \in completed' /\ notes' = notes
    /\ outcome' = [outcome EXCEPT ![RunOf(u)] = job[u].out]
OwnersMove ==
    /\ \A u \in Threads \ {Operator} : pc'[u] \in Owning => Staying(u) \/ Entering(u)
    /\ \A u, v \in Threads \ {Operator} : Entering(u) /\ Entering(v) => u = v

\* A thread becomes an owner in finish, one at a time, and goes on as one.
LEMMA OwnersStep == Inv /\ Next => OwnersMove
<1> SUFFICES ASSUME Inv, Next PROVE OwnersMove
  OBVIOUS
<1>1. pc \in [Threads -> PCs] /\ job \in [Threads -> {<<>>} \union Job] /\ todo \subseteq Runs
  BY Types
<1>2. Placed
  BY DEF Inv
<1> USE ThreadsAre, <1>1, <1>2 DEF OwnersMove, Staying, Entering, Owners, Owning, Placed, Working, Goto, Return
<1>3. ASSUME NEW t \in Starters, CreateSession(t) PROVE OwnersMove
  BY <1>3 DEF CreateSession
<1>4. ASSUME NEW t \in Starters, CreateFails(t) PROVE OwnersMove
  BY <1>4 DEF CreateFails
<1>5. ASSUME NEW t \in Starters, StartLoop(t) PROVE OwnersMove
  BY <1>5 DEF StartLoop
<1>6. ASSUME NEW t \in Starters, InsertRun(t) PROVE OwnersMove
  BY <1>6, InsertDoes, ZenonT(60)
<1>7. ASSUME NEW t \in Starters, CloseOrphan(t) \/ FailLoop(t) PROVE OwnersMove
  BY <1>7 DEF CloseOrphan, FailLoop, AfterOrphan
<1>8. ASSUME NEW t \in Starters, Reconcile(t) PROVE OwnersMove
  BY <1>8, ReconcileDoes
<1>9. ASSUME NEW t \in Threads \ {Operator}, Finish(t) PROVE OwnersMove
  BY <1>9 DEF Finish
<1>10. ASSUME NEW t \in Threads \ {Operator}, Advance(t) PROVE OwnersMove
  BY <1>10, AdvanceDoes
<1>11. ASSUME NEW t \in Threads \ {Operator}, EndLoop(t) PROVE OwnersMove
  BY <1>11 DEF EndLoop, AfterAdvance
<1>12. ASSUME NEW t \in Threads \ {Operator}, NextIteration(t) PROVE OwnersMove
  BY <1>12, NextIterationDoes
<1>13. ASSUME NEW t \in Threads \ {Operator}, UpdateLoop(t) PROVE OwnersMove
  BY <1>13 DEF UpdateLoop
<1>14. ASSUME NEW t \in Threads \ {Operator}, SendNext(t) PROVE OwnersMove
  BY <1>14 DEF SendNext, AfterAdvance
<1>15. ASSUME NEW t \in Threads \ {Operator}, SendFails(t) PROVE OwnersMove
  BY <1>15 DEF SendFails
<1>16. ASSUME NEW t \in Threads \ {Operator}, Notify(t) PROVE OwnersMove
  BY <1>16 DEF Notify
<1>17. CASE Handle
  BY <1>17, HandleDoes
<1>18. CASE Page
  BY <1>18 DEF Page
<1>19. CASE CloseSession(Engine)
  BY <1>19 DEF CloseSession
<1>20. ASSUME NEW r \in Runs, TickRun(r) PROVE OwnersMove
  BY <1>20, TickRunDoes
<1>21. ASSUME NEW r \in Runs, Tick(r) PROVE OwnersMove
  BY <1>21 DEF Tick
<1>22. ASSUME NEW s \in Looping, Stop(s) PROVE OwnersMove
  BY <1>22, StopDoes
<1>23. CASE StopWrite
  BY <1>23 DEF StopWrite
<1>24. CASE StopClose
  BY <1>24 DEF StopClose
<1>25. ASSUME NEW t \in Starters, TurnEnds(t) PROVE OwnersMove
  BY <1>25 DEF TurnEnds
<1>26. ASSUME NEW t \in Starters, SessionFails(t) PROVE OwnersMove
  BY <1>26 DEF SessionFails
<1>27. ASSUME NEW t \in Starters, AsksApproval(t) PROVE OwnersMove
  BY <1>27 DEF AsksApproval
<1>28. CASE Restart
  BY <1>28 DEF Restart
<1>29. QED
  BY <1>3, <1>4, <1>5, <1>6, <1>7, <1>8, <1>9, <1>10, <1>11, <1>12, <1>13, <1>14, <1>15,
     <1>16, <1>17, <1>18, <1>19, <1>20, <1>21, <1>22, <1>23, <1>24, <1>25, <1>26, <1>27,
     <1>28 DEF Next, StartStep, Step, EngineStep, Threads

\* Notes are written by owners, who then have done with their run.
LEMMA NotesMove == Inv /\ Next =>
    \/ notes' = notes
    \/ \E v \in Owners : /\ pc[v] = "notify" /\ pc'[v] \notin Owning
                         /\ notes' = [notes EXCEPT ![RunOf(v)] = @ + 1]
<1> SUFFICES ASSUME Inv, Next, notes' # notes
             PROVE  \E v \in Owners : /\ pc[v] = "notify" /\ pc'[v] \notin Owning
                                     /\ notes' = [notes EXCEPT ![RunOf(v)] = @ + 1]
  OBVIOUS
<1>1. ASSUME NEW t \in Starters,
             \/ CreateSession(t) \/ CreateFails(t) \/ StartLoop(t) \/ InsertRun(t)
             \/ CloseOrphan(t) \/ FailLoop(t)
             \/ Reconcile(t) \/ TurnEnds(t) \/ SessionFails(t) \/ AsksApproval(t)
      PROVE  notes' = notes
  BY <1>1
     DEF CreateSession, CreateFails, StartLoop, InsertRun, CloseOrphan, FailLoop,
         AfterOrphan, Reconcile, TurnEnds,
              SessionFails, AsksApproval
<1>2. ASSUME NEW t \in Threads \ {Operator},
             \/ Finish(t) \/ Advance(t) \/ EndLoop(t) \/ NextIteration(t) \/ UpdateLoop(t)
             \/ SendNext(t) \/ SendFails(t) \/ CloseSession(t)
      PROVE  notes' = notes
  BY <1>2
     DEF Finish, Advance, EndLoop, NextIteration, UpdateLoop, SendNext, SendFails,
         CloseSession
<1>3. ASSUME NEW r \in Runs, TickRun(r) \/ Tick(r) PROVE notes' = notes
  BY <1>3 DEF TickRun, Tick
<1>4. ASSUME NEW s \in Looping, Stop(s) PROVE notes' = notes
  BY <1>4 DEF Stop
<1>5. ASSUME Handle \/ Page \/ StopWrite \/ StopClose \/ Restart PROVE notes' = notes
  BY <1>5 DEF Handle, Page, StopWrite, StopClose, Restart
<1>6. PICK t \in Threads \ {Operator} : Notify(t)
  BY <1>1, <1>2, <1>3, <1>4, <1>5, ThreadsAre DEF Next, StartStep, Step, EngineStep
<1>7. t \in Owners /\ pc[t] = "notify"
  BY <1>6 DEF Notify, Owners, Owning, Working
<1>8. pc'[t] \notin Owning
  BY <1>6, Types DEF Notify, Return, Goto, Owning, Working
<1>9. QED
  BY <1>6, <1>7, <1>8 DEF Notify

\* The newest run of a session stays the newest while a thread owns it that is
\* about to move the loop: whoever adds a run owns the one before.
LEMMA LastStays ==
    ASSUME Inv, OutcomeMove, NEW u \in Owners,
           pc[u] \in {"advance", "next"}, pc'[u] \in {"advance", "next"}
    PROVE  RunOf(u) \in LastOnes'
<1> USE Types, RunsArePairs
<1> DEFINE s == job[u].s
           i == job[u].i
<1>1. /\ RunOf(u) = <<s, i>> /\ s \in Starters /\ i \in Iterations /\ RunOf(u) \in Runs
      /\ outcome[<<s, i>>] # "none"
  BY OwnedRun, JobIsOfRun DEF RunOf, Closed
<1>2. \A j \in Iterations : j > i => outcome[<<s, j>>] = "none"
  BY <1>1 DEF Inv, Owned, LastOnes
<1>3. ASSUME NEW j \in Iterations, j > i PROVE outcome'[<<s, j>>] = "none"
  <2>1. outcome[<<s, j>>] = "none" /\ <<s, j>> \in Runs
    BY <1>1, <1>2, <1>3
  <2>2. CASE outcome' = outcome
    BY <2>1, <2>2
  <2>3. CASE RunIsRecorded
    <3>1. PICK t \in Starters : outcome' = [outcome EXCEPT ![<<t, 1>>] = "running"]
      BY <2>3 DEF RunIsRecorded
    <3>2. j # 1
      BY <1>1, <1>3 DEF Iterations
    <3>3. QED
      BY <2>1, <3>1, <3>2
  <2>4. CASE RunIsClosed
    BY <2>1, <2>4 DEF RunIsClosed
  <2>5. CASE LoopGoesOn
    <3>1. PICK v \in Threads \ {Operator} :
             /\ pc[v] = "next" /\ pc' = [pc EXCEPT ![v] = "bump"]
             /\ outcome' = [outcome EXCEPT ![<<job[v].s, job[v].i + 1>>] = "running"]
      BY <2>5 DEF LoopGoesOn
    <3>2. v \in Owners /\ v # u
      BY <3>1 DEF Owners, Owning, Working
    <3>3. job[v].s \in Starters /\ job[v].i \in Iterations /\ RunOf(v) = <<job[v].s, job[v].i>>
      BY <3>1, NextRun DEF RunOf
    <3>4. RunOf(v) # RunOf(u)
      BY <3>2 DEF Inv, Owned
    <3>5. job[v].s # s
      <4>1. SUFFICES ASSUME job[v].s = s PROVE FALSE
        OBVIOUS
      <4>2. ~(job[v].i > i)
        BY <1>2, <3>1, <3>3, <4>1, GoingOn
      <4>3. ~(i > job[v].i)
        <5>1. \A k \in Iterations : k > job[v].i => outcome[<<job[v].s, k>>] = "none"
          BY <3>1, GoingOn
        <5>2. QED
          BY <1>1, <4>1, <5>1
      <4>4. job[v].i = i
        BY <1>1, <3>3, <4>2, <4>3 DEF Iterations
      <4>5. QED
        BY <1>1, <3>3, <3>4, <4>1, <4>4
    <3>6. QED
      BY <2>1, <3>1, <3>5
  <2>6. QED
    BY <2>2, <2>3, <2>4, <2>5 DEF OutcomeMove
<1>4. QED
  BY <1>1, <1>3 DEF LastOnes

\* A thread that closes a run finds it running, so that it is the newest one.
LEMMA EntersLast ==
    ASSUME Inv, NEW u \in Threads \ {Operator}, Entering(u)
    PROVE  /\ RunOf(u) \in Runs /\ job[u].out \in Closed
           /\ outcome'[RunOf(u)] = job[u].out /\ notes'[RunOf(u)] = 0
           /\ RunOf(u) \in LastOnes'
<1> USE Types, RunsArePairs
<1>1. pc[u] = "finish" /\ RunOf(u) \notin completed
  BY DEF Entering
<1>2. /\ job[u] \in Job /\ RunOf(u) \in Runs /\ job[u].out \in Closed
      /\ outcome[RunOf(u)] = "running"
  BY <1>1, FinishedRun
<1>3. notes[RunOf(u)] = 0
  <2>1. notes[RunOf(u)] <= 1 /\ notes[RunOf(u)] # 1 /\ notes[RunOf(u)] \in Nat
    BY <1>2 DEF Inv, NotifiedOnce, Closed
  <2>2. \A n \in Nat : n <= 1 /\ n # 1 => n = 0
    OBVIOUS
  <2>3. QED
    BY <2>1, <2>2
<1>4. \A j \in Iterations : j > RunOf(u)[2] => outcome[<<RunOf(u)[1], j>>] = "none"
  <2>1. SUFFICES ASSUME NEW j \in Iterations, j > RunOf(u)[2], outcome[<<RunOf(u)[1], j>>] # "none"
                 PROVE  FALSE
    OBVIOUS
  <2>2. RunOf(u)[2] < j /\ RunOf(u)[1] \in Starters /\ RunOf(u)[2] \in Iterations
    BY <1>2, <2>1 DEF Iterations
  <2>3. outcome[<<RunOf(u)[1], RunOf(u)[2]>>] = "success"
    BY <2>1, <2>2 DEF Inv, Chain
  <2>4. QED
    BY <1>2, <2>3
<1>5. outcome' = [outcome EXCEPT ![RunOf(u)] = job[u].out] /\ notes' = notes
  BY DEF Entering
<1>6. ASSUME NEW j \in Iterations, j > RunOf(u)[2] PROVE outcome'[<<RunOf(u)[1], j>>] = "none"
  <2>1. <<RunOf(u)[1], j>> # RunOf(u)
    BY <1>2, <1>6 DEF Iterations
  <2>2. QED
    BY <1>4, <1>5, <1>6, <2>1
<1>7. QED
  BY <1>2, <1>3, <1>5, <1>6 DEF LastOnes

\* Owners stay alone with their runs until the operator has been told.
LEMMA OwnedStep == Inv /\ Next => Owned'
<1> SUFFICES ASSUME Inv, Next PROVE Owned'
  OBVIOUS
<1>1. OwnersMove /\ OutcomeMove /\ Owned
  BY OwnersStep, Moves DEF Inv
<1>2. \A u : u \in Owners' <=> u \in Threads \ {Operator} /\ pc'[u] \in Owning
  BY DEF Owners
<1>3. CASE Restart
  <2>1. \A u \in Threads : pc'[u] \notin Owning
    BY <1>3 DEF Restart, Owning, Working
  <2>2. QED
    BY <1>2, <2>1 DEF Owned
<1>4. CASE ~Restart
  <2>1. completed \subseteq completed'
    BY <1>4, OnceSetGrows
  <2>2. ASSUME NEW u \in Owners' PROVE Staying(u) \/ Entering(u)
    BY <1>1, <1>2 DEF OwnersMove
  <2>3. ASSUME NEW u \in Threads, Staying(u) PROVE RunOf(u)' = RunOf(u) /\ u \in Owners
    BY <2>3 DEF Staying, RunOf
  <2>4. ASSUME NEW u \in Threads, Entering(u) PROVE RunOf(u)' = RunOf(u) /\ job'[u] = job[u]
    BY <2>4 DEF Entering, RunOf
  <2>5. ASSUME NEW u \in Owners'
        PROVE  /\ outcome'[RunOf(u)'] = job'[u].out /\ RunOf(u)' \in completed'
               /\ notes'[RunOf(u)'] = 0
               /\ pc'[u] \in {"advance", "next"} => RunOf(u)' \in LastOnes'
    <3>1. u \in Threads \ {Operator} /\ pc'[u] \in Owning
      BY <1>2
    <3>2. CASE Staying(u)
      <4>1. RunOf(u)' = RunOf(u) /\ u \in Owners /\ job'[u].out = job[u].out
        BY <2>3, <3>1, <3>2 DEF Staying
      <4>2. /\ RunOf(u) \in Runs /\ outcome[RunOf(u)] = job[u].out /\ outcome[RunOf(u)] \in Closed
            /\ RunOf(u) \in completed /\ notes[RunOf(u)] = 0
        BY <4>1, OwnedRun
      <4>3. outcome'[RunOf(u)] = job[u].out
        BY <1>1, <4>2, Lasting
      <4>4. notes'[RunOf(u)] = 0
        <5>1. CASE notes' = notes
          BY <4>2, <5>1
        <5>2. ASSUME NEW v \in Owners, pc'[v] \notin Owning,
                     notes' = [notes EXCEPT ![RunOf(v)] = @ + 1]
              PROVE  notes'[RunOf(u)] = 0
          <6>1. RunOf(v) # RunOf(u)
            BY <1>1, <3>1, <4>1, <5>2 DEF Owned
          <6>2. QED
            BY <4>2, <5>2, <6>1, Types
        <5>3. QED
          BY <5>1, <5>2, NotesMove
      <4>5. pc'[u] \in {"advance", "next"} => RunOf(u) \in LastOnes'
        BY <1>1, <3>2, <4>1, LastStays DEF Staying
      <4>6. QED
        BY <2>1, <4>1, <4>2, <4>3, <4>4, <4>5
    <3>3. CASE Entering(u)
      <4>1. RunOf(u)' = RunOf(u) /\ job'[u] = job[u] /\ RunOf(u) \in completed'
        BY <2>4, <3>1, <3>3 DEF Entering
      <4>2. QED
        BY <3>1, <3>3, <4>1, EntersLast
    <3>4. QED
      BY <2>2, <3>2, <3>3
  <2>6. ASSUME NEW u \in Owners', NEW v \in Owners', RunOf(u)' = RunOf(v)'
        PROVE  u = v
    <3>1. u \in Threads \ {Operator} /\ v \in Threads \ {Operator}
      BY <1>2
    <3>2. CASE Staying(u) /\ Staying(v)
      BY <1>1, <2>3, <2>6, <3>1, <3>2 DEF Owned
    <3>3. CASE Entering(u) /\ Entering(v)
      BY <1>1, <3>1, <3>3 DEF OwnersMove
    <3>4. ASSUME NEW x \in Threads, NEW y \in Threads, Staying(x), Entering(y)
          PROVE  RunOf(x)' # RunOf(y)'
      <4>1. RunOf(x)' = RunOf(x) /\ x \in Owners /\ RunOf(y)' = RunOf(y)
        BY <2>3, <2>4, <3>4
      <4>2. RunOf(x) \in completed /\ RunOf(y) \notin completed
        BY <3>4, <4>1, OwnedRun DEF Entering
      <4>3. QED
        BY <4>1, <4>2
    <3>5. QED
      BY <2>2, <2>6, <3>1, <3>2, <3>3, <3>4
  <2>7. QED
    BY <2>5, <2>6 DEF Owned
<1>5. QED
  BY <1>3, <1>4

-----------------------------------------------------------------------------
(* Loops, notifications, pages and sessions. *)

\* A loop is recorded as exhausted only when all of its iterations succeeded.
LEMMA ExhaustedStep == Inv /\ Next => Exhausted'
<1> SUFFICES ASSUME Inv, Next PROVE Exhausted'
  OBVIOUS
<1>1. /\ pc \in [Threads -> PCs] /\ job \in [Threads -> {<<>>} \union Job]
      /\ todo \subseteq Runs /\ loop \in [Starters -> {"none", "running"} \union Ended]
  BY Types
<1>2. Exhausted /\ Placed /\ JobsFit
  BY DEF Inv
<1>3. Succeeded \subseteq Succeeded'
  BY SetsGrow
<1> USE ThreadsAre, <1>1, <1>2, <1>3 DEF Exhausted, Placed, JobsFit, Working, Goto, Return
<1>4. ASSUME NEW t \in Starters, CreateSession(t) PROVE Exhausted'
  BY <1>4 DEF CreateSession, rows, world, Kept, history
<1>5. ASSUME NEW t \in Starters, CreateFails(t) PROVE Exhausted'
  BY <1>5 DEF CreateFails, rows, world, Kept, history
<1>6. ASSUME NEW t \in Starters, StartLoop(t) PROVE Exhausted'
  BY <1>6 DEF StartLoop, rows, world, Kept, history
<1>7. ASSUME NEW t \in Starters, InsertRun(t) PROVE Exhausted'
  BY <1>7 DEF InsertRun, rows, world, Kept, history
<1>8. ASSUME NEW t \in Starters, CloseOrphan(t) \/ FailLoop(t) PROVE Exhausted'
  BY <1>8 DEF CloseOrphan, FailLoop, AfterOrphan, rows, world, Kept, history
<1>9. ASSUME NEW t \in Starters, Reconcile(t) PROVE Exhausted'
  BY <1>9, ReconcileDoes DEF Kept
<1>10. ASSUME NEW t \in Threads \ {Operator}, Finish(t) PROVE Exhausted'
  BY <1>10 DEF Finish, rows, world, Kept, history
<1>11. ASSUME NEW t \in Threads \ {Operator}, Advance(t) PROVE Exhausted'
  BY <1>11, AllIterations, AdvanceDoes DEF Kept
<1>12. ASSUME NEW t \in Threads \ {Operator}, EndLoop(t) PROVE Exhausted'
  BY <1>12 DEF EndLoop, rows, world, Kept, history, AfterAdvance
<1>13. ASSUME NEW t \in Threads \ {Operator}, NextIteration(t) PROVE Exhausted'
  BY <1>13 DEF NextIteration, rows, world, Kept, history
<1>14. ASSUME NEW t \in Threads \ {Operator}, UpdateLoop(t) PROVE Exhausted'
  BY <1>14 DEF UpdateLoop, rows, world, Kept, history
<1>15. ASSUME NEW t \in Threads \ {Operator}, SendNext(t) PROVE Exhausted'
  BY <1>15 DEF SendNext, rows, world, Kept, history, AfterAdvance
<1>16. ASSUME NEW t \in Threads \ {Operator}, SendFails(t) PROVE Exhausted'
  BY <1>16 DEF SendFails, rows, world, Kept, history
<1>17. ASSUME NEW t \in Threads \ {Operator}, Notify(t) PROVE Exhausted'
  BY <1>17 DEF Notify, rows, world, Kept, history
<1>18. CASE Handle
  BY <1>18, HandleDoes, ZenonT(60) DEF Kept
<1>19. CASE Page
  BY <1>19 DEF Page, rows, world, Kept, history
<1>20. CASE CloseSession(Engine)
  BY <1>20 DEF CloseSession, rows, world, Kept, history
<1>21. ASSUME NEW r \in Runs, TickRun(r) PROVE Exhausted'
  BY <1>21, TickRunDoes DEF Kept
<1>22. ASSUME NEW r \in Runs, Tick(r) PROVE Exhausted'
  BY <1>22 DEF Tick, rows, world, Kept, history
<1>23. ASSUME NEW s \in Looping, Stop(s) PROVE Exhausted'
  BY <1>23, StopDoes DEF Kept
<1>24. CASE StopWrite
  BY <1>24 DEF StopWrite, rows, world, Kept, history
<1>25. CASE StopClose
  BY <1>25 DEF StopClose, rows, world, Kept, history
<1>26. ASSUME NEW t \in Starters, TurnEnds(t) PROVE Exhausted'
  BY <1>26 DEF TurnEnds, rows, world, Kept, history
<1>27. ASSUME NEW t \in Starters, SessionFails(t) PROVE Exhausted'
  BY <1>27 DEF SessionFails, rows, world, Kept, history
<1>28. ASSUME NEW t \in Starters, AsksApproval(t) PROVE Exhausted'
  BY <1>28 DEF AsksApproval, rows, world, Kept, history
<1>29. CASE Restart
  BY <1>29 DEF Restart, rows, world, Kept, history
<1>30. QED
  BY <1>4, <1>5, <1>6, <1>7, <1>8, <1>9, <1>10, <1>11, <1>12, <1>13, <1>14, <1>15, <1>16,
     <1>17, <1>18, <1>19, <1>20, <1>21, <1>22, <1>23, <1>24, <1>25, <1>26, <1>27, <1>28,
     <1>29 DEF Next, StartStep, Step, EngineStep, Threads

\* The operator is told once, of a run that is closed.
LEMMA NotifiedStep == Inv /\ Next => NotifiedOnce'
<1> SUFFICES ASSUME Inv, Next, NEW r \in Runs
             PROVE  notes'[r] <= 1 /\ (notes'[r] = 1 => outcome'[r] \in Closed)
  BY DEF NotifiedOnce
<1>1. notes[r] <= 1 /\ (notes[r] = 1 => outcome[r] \in Closed)
  BY DEF Inv, NotifiedOnce
<1>2. outcome[r] \in Closed => outcome'[r] \in Closed
  BY Moves, Lasting
<1>3. CASE notes' = notes
  BY <1>1, <1>2, <1>3
<1>4. ASSUME NEW v \in Owners, notes' = [notes EXCEPT ![RunOf(v)] = @ + 1]
      PROVE  notes'[r] <= 1 /\ (notes'[r] = 1 => outcome'[r] \in Closed)
  <2>1. CASE r = RunOf(v)
    <3>1. notes[r] = 0 /\ outcome[r] \in Closed
      BY <2>1, OwnedRun
    <3>2. notes'[r] = 1
      BY <1>4, <2>1, <3>1, Types
    <3>3. QED
      BY <1>2, <3>1, <3>2
  <2>2. CASE r # RunOf(v)
    <3>1. notes'[r] = notes[r]
      BY <1>4, <2>2, Types
    <3>2. QED
      BY <1>1, <1>2, <3>1
  <2>3. QED
    BY <2>1, <2>2
<1>5. QED
  BY <1>3, <1>4, NotesMove

\* Pages are counted by Page alone, and a run leaves the once-set of those
\* paged for when it is closed.
LEMMA PagesMove == Inv /\ Next =>
    \/ Restart \/ Page
    \/ pages' = pages /\ notified' = notified
    \/ pages' = pages /\ \E r \in Runs : notified' = notified \ {r} /\ outcome'[r] # "running"
<1> SUFFICES ASSUME Inv, Next, ~Restart, ~Page
             PROVE  \/ pages' = pages /\ notified' = notified
                    \/ /\ pages' = pages
                       /\ \E r \in Runs : notified' = notified \ {r} /\ outcome'[r] # "running"
  OBVIOUS
<1> USE Types
<1>1. ASSUME NEW t \in Starters,
             \/ CreateSession(t) \/ CreateFails(t) \/ StartLoop(t) \/ InsertRun(t)
             \/ CloseOrphan(t) \/ FailLoop(t)
             \/ Reconcile(t) \/ TurnEnds(t) \/ SessionFails(t) \/ AsksApproval(t)
      PROVE  pages' = pages /\ notified' = notified
  BY <1>1
     DEF CreateSession, CreateFails, StartLoop, InsertRun, CloseOrphan, FailLoop,
         AfterOrphan, Reconcile, TurnEnds,
              SessionFails, AsksApproval, history
<1>2. ASSUME NEW t \in Threads \ {Operator},
             \/ Advance(t) \/ EndLoop(t) \/ NextIteration(t) \/ UpdateLoop(t) \/ SendNext(t)
             \/ Notify(t) \/ CloseSession(t)
      PROVE  pages' = pages /\ notified' = notified
  BY <1>2
     DEF Advance, EndLoop, NextIteration, UpdateLoop, SendNext, Notify, CloseSession,
         history
<1>3. ASSUME NEW r \in Runs, TickRun(r) \/ Tick(r) PROVE pages' = pages /\ notified' = notified
  BY <1>3 DEF TickRun, Tick, history
<1>4. ASSUME NEW s \in Looping, Stop(s) PROVE pages' = pages /\ notified' = notified
  BY <1>4 DEF Stop, history
<1>5. ASSUME Handle \/ StopWrite \/ StopClose PROVE pages' = pages /\ notified' = notified
  BY <1>5 DEF Handle, StopWrite, StopClose, history
<1>6. ASSUME NEW t \in Threads \ {Operator}, Finish(t)
      PROVE  /\ pages' = pages
             /\ \/ notified' = notified
                \/ \E r \in Runs : notified' = notified \ {r} /\ outcome'[r] # "running"
  <2>1. /\ pc[t] = "finish" /\ pages' = pages
        /\ \/ notified' = notified
           \/ /\ notified' = notified \ {RunOf(t)}
              /\ outcome' = [outcome EXCEPT ![RunOf(t)] = job[t].out]
    BY <1>6 DEF Finish
  <2>2. RunOf(t) \in Runs /\ job[t].out # "running"
    BY <2>1, FinishedRun DEF Closed
  <2>3. QED
    BY <2>1, <2>2
<1>7. ASSUME NEW t \in Threads \ {Operator}, SendFails(t)
      PROVE  /\ pages' = pages
             /\ \/ notified' = notified
                \/ \E r \in Runs : notified' = notified \ {r} /\ outcome'[r] # "running"
  <2>1. /\ pc[t] = "send" /\ pages' = pages
        /\ \/ notified' = notified
           \/ /\ notified' = notified \ {NextOf(t)}
              /\ outcome' = [outcome EXCEPT ![NextOf(t)] = "failed"]
    BY <1>7 DEF SendFails, NextOf
  <2>2. NextOf(t) \in Runs
    BY <2>1, NextRun DEF NextOf
  <2>3. QED
    BY <2>1, <2>2
<1>8. QED
  BY <1>1, <1>2, <1>3, <1>4, <1>5, <1>6, <1>7, ThreadsAre DEF Next, StartStep, Step,
     EngineStep

\* A run that runs is paged for once.
LEMMA PagedStep == Inv /\ Next => Paged'
<1> SUFFICES ASSUME Inv, Next, NEW r \in Runs
             PROVE  /\ r \notin Live' => pages'[r] = 0
                    /\ outcome'[r] = "running" =>
                          pages'[r] = 0 \/ (pages'[r] = 1 /\ r \in notified')
  BY DEF Paged
<1> USE Types
<1>1. /\ r \notin Live => pages[r] = 0
      /\ outcome[r] = "running" => pages[r] = 0 \/ (pages[r] = 1 /\ r \in notified)
  BY DEF Inv, Paged
<1>2. /\ r \notin Live' => r \notin Live
      /\ outcome'[r] = "running" => outcome[r] = "running" \/ r \notin Live
  <2>1. outcome[r] \in Closed => outcome'[r] = outcome[r]
    BY Moves, Lasting
  <2>2. QED
    BY <2>1, SetsGrow DEF Live, Closed
<1>3. CASE Restart
  BY <1>3 DEF Restart
<1>4. CASE Page
  <2>1. /\ pc[Engine] = "page" /\ outcome' = outcome
        /\ notified' = notified \union {RunOf(Engine)}
        /\ pages' = IF RunOf(Engine) \in notified THEN pages
                    ELSE [pages EXCEPT ![RunOf(Engine)] = @ + 1]
    BY <1>4 DEF Page, rows
  <2>2. RunOf(Engine) \in Live
    BY <2>1, ThreadsAre DEF Inv, Pending
  <2>3. Live' = Live
    BY <2>1 DEF Live
  <2>4. CASE r = RunOf(Engine)
    BY <1>1, <2>1, <2>2, <2>3, <2>4
  <2>5. CASE r # RunOf(Engine)
    BY <1>1, <2>1, <2>2, <2>3, <2>5
  <2>6. QED
    BY <2>4, <2>5
<1>5. CASE pages' = pages /\ notified' = notified
  BY <1>1, <1>2, <1>5
<1>6. CASE /\ pages' = pages
           /\ \E q \in Runs : notified' = notified \ {q} /\ outcome'[q] # "running"
  BY <1>1, <1>2, <1>6
<1>7. QED
  BY <1>3, <1>4, <1>5, <1>6, PagesMove

\* Sessions stay on the list of those that could not be closed until a restart
\* closes them all.
LEMMA StrayStep ==
    Inv /\ Next => /\ stray' \subseteq Starters
                   /\ stray \subseteq stray' \/ \A s \in Starters : queue'[s] = <<>>
<1> SUFFICES ASSUME Inv, Next
             PROVE  /\ stray' \subseteq Starters
                    /\ stray \subseteq stray' \/ \A s \in Starters : queue'[s] = <<>>
  OBVIOUS
<1>1. stray \subseteq Starters
  BY DEF Inv, Typed, TypeOK
<1>2. ASSUME NEW t \in Starters,
             \/ CreateSession(t) \/ CreateFails(t) \/ StartLoop(t) \/ InsertRun(t)
             \/ FailLoop(t) \/ Reconcile(t) \/ TurnEnds(t) \/ SessionFails(t)
             \/ AsksApproval(t)
      PROVE  stray' = stray
  BY <1>2 DEF CreateSession, CreateFails, StartLoop, InsertRun, FailLoop, Reconcile,
              TurnEnds, SessionFails, AsksApproval, history
<1>3. ASSUME NEW t \in Threads, Step(t) PROVE stray' = stray
  BY <1>3 DEF Step, Finish, Advance, EndLoop, NextIteration, UpdateLoop, SendNext,
              SendFails, Notify, history
<1>4. ASSUME NEW t \in Starters, CloseOrphan(t)
      PROVE  stray' \subseteq Starters /\ stray \subseteq stray'
  BY <1>1, <1>4 DEF CloseOrphan
<1>5. Handle \/ Page \/ CloseSession(Engine) \/ StopWrite \/ StopClose => stray' = stray
  BY DEF Handle, Page, CloseSession, StopWrite, StopClose, history
<1>6. ASSUME NEW r \in Runs, Tick(r) \/ TickRun(r) PROVE stray' = stray
  BY <1>6 DEF Tick, TickRun, history
<1>7. ASSUME NEW s \in Looping, Stop(s) PROVE stray' = stray
  BY <1>7 DEF Stop, history
<1>8. Restart => stray' = {} /\ \A s \in Starters : queue'[s] = <<>>
  BY DEF Restart
<1>9. QED
  BY <1>1, <1>2, <1>3, <1>4, <1>5, <1>6, <1>7, <1>8, ThreadsAre
     DEF Next, StartStep, EngineStep

\* A session whose caller is through has a run, or nothing to do, unless it
\* could not be closed.
LEMMA NoOrphanStep == Inv /\ Next => NoOrphanSession'
<1> SUFFICES ASSUME Inv, Next, NEW s \in Starters, pc'[s] \in {"failLoop", "done"},
                    outcome'[<<s, 1>>] = "none", s \notin stray'
             PROVE  queue'[s] = <<>>
  BY DEF NoOrphanSession
<1> USE RunsArePairs
<1>1. Flow /\ Silent /\ Started /\ NoOrphanSession /\ Chain
  BY FlowStep, SilentStep DEF Inv
<1>2. outcome[<<s, 1>>] = "none"
  BY SetsGrow DEF Live
<1>3. \A i \in Iterations : outcome[<<s, i>>] = "none"
  <2>1. ASSUME NEW i \in Iterations, i # 1, outcome[<<s, i>>] # "none" PROVE FALSE
    <3>1. 1 < i
      BY <2>1 DEF Iterations
    <3>2. outcome[<<s, 1>>] = "success"
      BY <1>1, <2>1, <3>1 DEF Chain
    <3>3. QED
      BY <1>2, <3>2
  <2>2. QED
    BY <1>2, <2>1
<1>4. s \in Empty /\ <<s, 1>> \notin Live
  BY <1>2, <1>3 DEF Empty, Live
<1>5. \/ pc[s] \in {"create", "failLoop", "done"} => queue[s] = <<>>
      \/ queue'[s] = <<>>
  BY <1>1, <1>2, StrayStep DEF Started, NoOrphanSession
<1>6. pc[s] \notin Working \union {"reconcile"}
  BY <1>1, <1>4 DEF Started
<1>7. QED
  BY <1>1, <1>4, <1>5, <1>6 DEF Flow, Silent

-----------------------------------------------------------------------------
(* Types. *)

\* The three parts of the types, as the steps change them.
WorldTyped ==
    /\ sess \in [Starters -> {"none", "running", "open", "failed", "closed"}]
    /\ queue \in [Starters -> Seq(Iterations)]
    /\ results \in [Starters -> {<<>>} \union {<<m>> : m \in ResultsOf}]
    /\ asks \in [Starters -> 0 .. MaxAsks] /\ restarts \in 0 .. MaxRestarts
    /\ bus \in Seq(Messages) /\ Len(bus) <= MaxBus
RowsTyped ==
    /\ outcome \in [Runs -> {"none", "running"} \union Closed]
    /\ report \in [Runs -> 0 .. MaxIterations]
    /\ loop \in [Starters -> {"none", "running"} \union Ended]
    /\ notes \in [Runs -> Nat] /\ pages \in [Runs -> Nat]
    /\ torn \subseteq Starters /\ revived \subseteq Starters
MemoryTyped ==
    /\ completed \subseteq Runs /\ notified \subseteq Runs /\ todo \subseteq Runs
    /\ lost \subseteq Runs /\ stray \subseteq Starters
    /\ pc \in [Threads -> PCs] /\ job \in [Threads -> {<<>>} \union Job]

\* The types are those three parts.
LEMMA TypedIs == Typed <=> WorldTyped /\ RowsTyped /\ MemoryTyped
<1>1. Typed => WorldTyped /\ RowsTyped /\ MemoryTyped
  BY DEF Typed, TypeOK, WorldTyped, RowsTyped, MemoryTyped
<1>2. WorldTyped /\ RowsTyped /\ MemoryTyped => Typed
  BY DEF Typed, TypeOK, WorldTyped, RowsTyped, MemoryTyped
<1>3. QED
  BY <1>1, <1>2

SessTyped ==
    /\ sess \in [Starters -> {"none", "running", "open", "failed", "closed"}]
    /\ asks \in [Starters -> 0 .. MaxAsks] /\ restarts \in 0 .. MaxRestarts

\* Sessions stay in type.
LEMMA SessStep == Inv /\ Next => SessTyped'
<1> SUFFICES ASSUME Inv, Next PROVE SessTyped'
  OBVIOUS
<1>1. SessTyped
  BY TypedIs DEF Inv, WorldTyped, SessTyped
<1>2. UNCHANGED <<sess, asks, restarts>> => SessTyped'
  BY <1>1 DEF SessTyped
<1>3. ASSUME NEW t \in Starters,
             \/ CreateFails(t) \/ StartLoop(t) \/ InsertRun(t) \/ Reconcile(t)
      PROVE  SessTyped'
  BY <1>2, <1>3 DEF CreateFails, StartLoop, InsertRun, Reconcile, world
<1>4. ASSUME NEW t \in Threads \ {Operator},
             \/ Finish(t) \/ Advance(t) \/ EndLoop(t) \/ NextIteration(t) \/ UpdateLoop(t)
             \/ SendFails(t) \/ Notify(t)
      PROVE  SessTyped'
  BY <1>2, <1>4 DEF Finish, Advance, EndLoop, NextIteration, UpdateLoop, SendFails, Notify,
                    world
<1>5. ASSUME NEW r \in Runs,
             \/ TickRun(r) \/ Tick(r)
      PROVE  SessTyped'
  BY <1>2, <1>5 DEF TickRun, Tick, world
<1>6. ASSUME NEW s \in Looping,
             \/ Stop(s)
      PROVE  SessTyped'
  BY <1>2, <1>6 DEF Stop, world
<1>7. CASE Handle \/ Page \/ StopWrite
  BY <1>2, <1>7 DEF Handle, Page, StopWrite, world
<1> USE ThreadsAre, <1>1 DEF SessTyped
<1>8. ASSUME NEW t \in Starters, CreateSession(t) PROVE SessTyped'
  BY <1>8 DEF CreateSession
<1>9. ASSUME NEW t \in Starters, CloseOrphan(t) \/ FailLoop(t) PROVE SessTyped'
  BY <1>9 DEF CloseOrphan, FailLoop, AfterOrphan, world
<1>10. ASSUME NEW t \in Threads \ {Operator}, SendNext(t) PROVE SessTyped'
  BY <1>10 DEF SendNext
<1>11. ASSUME NEW t \in Threads \ {Operator}, CloseSession(t) PROVE SessTyped'
  BY <1>11 DEF CloseSession
<1>12. CASE StopClose
  BY <1>12 DEF StopClose
<1>13. ASSUME NEW t \in Starters, TurnEnds(t) PROVE SessTyped'
  BY <1>13 DEF TurnEnds
<1>14. ASSUME NEW t \in Starters, SessionFails(t) PROVE SessTyped'
  BY <1>14 DEF SessionFails
<1>15. ASSUME NEW t \in Starters, AsksApproval(t) PROVE SessTyped'
  BY <1>15, RunsAssumption DEF AsksApproval
<1>16. CASE Restart
  BY <1>16, RunsAssumption DEF Restart
<1>17. QED
  BY <1>3, <1>4, <1>5, <1>6, <1>7, <1>8, <1>9, <1>10, <1>11, <1>12, <1>13, <1>14, <1>15,
     <1>16,
     ThreadsAre DEF Next, StartStep, Step, EngineStep

BusTyped == bus \in Seq(Messages) /\ Len(bus) <= MaxBus

\* A message that finds the bus full is dropped.
LEMMA Published ==
    ASSUME BusTyped, NEW m \in Messages, Publish(m)
    PROVE  BusTyped'
BY RunsAssumption DEF BusTyped, Publish

\* The bus holds messages, and no more than its depth.
LEMMA BusStep == Inv /\ Next => BusTyped'
<1> SUFFICES ASSUME Inv, Next PROVE BusTyped'
  OBVIOUS
<1>1. BusTyped
  BY TypedIs DEF Inv, WorldTyped, BusTyped
<1>2. UNCHANGED <<bus>> => BusTyped'
  BY <1>1 DEF BusTyped
<1>3. ASSUME NEW t \in Starters,
             \/ CreateSession(t) \/ CreateFails(t) \/ StartLoop(t) \/ InsertRun(t)
             \/ CloseOrphan(t) \/ FailLoop(t) \/ Reconcile(t)
      PROVE  BusTyped'
  BY <1>2, <1>3 DEF CreateSession, CreateFails, StartLoop, InsertRun, CloseOrphan,
         FailLoop, AfterOrphan, Reconcile
<1>4. ASSUME NEW t \in Threads \ {Operator},
             \/ Finish(t) \/ Advance(t) \/ EndLoop(t) \/ NextIteration(t) \/ UpdateLoop(t)
             \/ SendNext(t) \/ SendFails(t) \/ Notify(t) \/ CloseSession(t)
      PROVE  BusTyped'
  BY <1>2, <1>4
     DEF Finish, Advance, EndLoop, NextIteration, UpdateLoop, SendNext, SendFails,
                    Notify, CloseSession
<1>5. ASSUME NEW r \in Runs,
             \/ TickRun(r) \/ Tick(r)
      PROVE  BusTyped'
  BY <1>2, <1>5 DEF TickRun, Tick
<1>6. ASSUME NEW s \in Looping,
             \/ Stop(s)
      PROVE  BusTyped'
  BY <1>2, <1>6 DEF Stop
<1>7. CASE Page \/ StopWrite \/ StopClose
  BY <1>2, <1>7 DEF Page, StopWrite, StopClose
<1> USE ThreadsAre, <1>1 DEF BusTyped
<1>8. CASE Handle
  <2>1. bus \in Seq(Messages) /\ bus # <<>> /\ bus' = Tail(bus)
    BY <1>8 DEF Handle
  <2>2. Len(Tail(bus)) = Len(bus) - 1 /\ Tail(bus) \in Seq(Messages) /\ Len(bus) \in Nat
    BY <2>1
  <2>3. QED
    BY <2>1, <2>2, RunsAssumption
<1>9. ASSUME NEW t \in Starters, TurnEnds(t) PROVE BusTyped'
  <2>1. Head(queue[t]) \in Iterations
    BY <1>9, Types DEF TurnEnds
  <2>2. \A rep \in Reports, err \in BOOLEAN :
           [kind |-> "result", s |-> t, turn |-> Head(queue[t]), rep |-> rep,
            err |-> err] \in Messages
    BY <2>1 DEF Messages
  <2>3. \E m \in Messages : Publish(m)
    BY <1>9, <2>2 DEF TurnEnds
  <2>4. QED
    BY <2>3, Published
<1>10. ASSUME NEW t \in Starters, SessionFails(t) PROVE BusTyped'
  <2>1. [kind |-> "failed", s |-> t] \in Messages
    BY DEF Messages
  <2>2. QED
    BY <1>10, <2>1, Published DEF SessionFails
<1>11. ASSUME NEW t \in Starters, AsksApproval(t) PROVE BusTyped'
  <2>1. [kind |-> "approval", s |-> t] \in Messages
    BY DEF Messages
  <2>2. QED
    BY <1>11, <2>1, Published DEF AsksApproval
<1>12. CASE Restart
  BY <1>12, RunsAssumption DEF Restart
<1>13. QED
  BY <1>3, <1>4, <1>5, <1>6, <1>7, <1>8, <1>9, <1>10, <1>11, <1>12, ThreadsAre DEF Next,
     StartStep, Step, EngineStep

ResultsTyped == results \in [Starters -> {<<>>} \union {<<m>> : m \in ResultsOf}]

\* A transcript has a first result or none.
LEMMA ResultsStep == Inv /\ Next => ResultsTyped'
<1> SUFFICES ASSUME Inv, Next PROVE ResultsTyped'
  OBVIOUS
<1>1. ResultsTyped
  BY TypedIs DEF Inv, WorldTyped, ResultsTyped
<1>2. UNCHANGED <<results>> => ResultsTyped'
  BY <1>1 DEF ResultsTyped
<1>3. ASSUME NEW t \in Starters,
             \/ CreateSession(t) \/ CreateFails(t) \/ StartLoop(t) \/ InsertRun(t)
             \/ CloseOrphan(t) \/ FailLoop(t) \/ Reconcile(t) \/ SessionFails(t) \/ AsksApproval(t)
      PROVE  ResultsTyped'
  BY <1>2, <1>3
     DEF CreateSession, CreateFails, StartLoop, InsertRun, CloseOrphan, FailLoop,
         AfterOrphan, Reconcile, SessionFails, AsksApproval, world
<1>4. ASSUME NEW t \in Threads \ {Operator},
             \/ Finish(t) \/ Advance(t) \/ EndLoop(t) \/ NextIteration(t) \/ UpdateLoop(t)
             \/ SendNext(t) \/ SendFails(t) \/ Notify(t) \/ CloseSession(t)
      PROVE  ResultsTyped'
  BY <1>2, <1>4
     DEF Finish, Advance, EndLoop, NextIteration, UpdateLoop, SendNext, SendFails,
                    Notify, CloseSession, world
<1>5. ASSUME NEW r \in Runs,
             \/ TickRun(r) \/ Tick(r)
      PROVE  ResultsTyped'
  BY <1>2, <1>5 DEF TickRun, Tick, world
<1>6. ASSUME NEW s \in Looping,
             \/ Stop(s)
      PROVE  ResultsTyped'
  BY <1>2, <1>6 DEF Stop, world
<1>7. CASE Handle \/ Page \/ StopWrite \/ StopClose \/ Restart
  BY <1>2, <1>7 DEF Handle, Page, StopWrite, StopClose, Restart, world
<1> USE ThreadsAre, <1>1 DEF ResultsTyped
<1>8. ASSUME NEW t \in Starters, TurnEnds(t) PROVE ResultsTyped'
  <2>1. Head(queue[t]) \in Iterations
    BY <1>8, Types DEF TurnEnds
  <2>2. \A rep \in Reports, err \in BOOLEAN :
           [kind |-> "result", s |-> t, turn |-> Head(queue[t]), rep |-> rep,
            err |-> err] \in ResultsOf
    BY <2>1 DEF ResultsOf
  <2>3. \E m \in ResultsOf : results' = [results EXCEPT ![t] = IF @ = <<>> THEN <<m>> ELSE @]
    BY <1>8, <2>2 DEF TurnEnds
  <2>4. QED
    BY <2>3
<1>9. QED
  BY <1>3, <1>4, <1>5, <1>6, <1>7, <1>8, ThreadsAre DEF Next, StartStep, Step, EngineStep

QueueTyped == queue \in [Starters -> Seq(Iterations)]

\* Prompts are iterations of the budget.
LEMMA QueueStep == Inv /\ Next => QueueTyped'
<1> SUFFICES ASSUME Inv, Next PROVE QueueTyped'
  OBVIOUS
<1>1. QueueTyped
  BY Types DEF QueueTyped
<1>2. UNCHANGED <<queue>> => QueueTyped'
  BY <1>1 DEF QueueTyped
<1>3. ASSUME NEW t \in Starters,
             \/ CreateFails(t) \/ StartLoop(t) \/ InsertRun(t) \/ Reconcile(t)
             \/ AsksApproval(t)
      PROVE  QueueTyped'
  BY <1>2, <1>3 DEF CreateFails, StartLoop, InsertRun, Reconcile, AsksApproval, world
<1>4. ASSUME NEW t \in Threads \ {Operator},
             \/ Finish(t) \/ Advance(t) \/ EndLoop(t) \/ NextIteration(t) \/ UpdateLoop(t)
             \/ SendFails(t) \/ Notify(t)
      PROVE  QueueTyped'
  BY <1>2, <1>4 DEF Finish, Advance, EndLoop, NextIteration, UpdateLoop, SendFails, Notify,
                    world
<1>5. ASSUME NEW r \in Runs,
             \/ TickRun(r) \/ Tick(r)
      PROVE  QueueTyped'
  BY <1>2, <1>5 DEF TickRun, Tick, world
<1>6. ASSUME NEW s \in Looping,
             \/ Stop(s)
      PROVE  QueueTyped'
  BY <1>2, <1>6 DEF Stop, world
<1>7. CASE Handle \/ Page \/ StopWrite
  BY <1>2, <1>7 DEF Handle, Page, StopWrite, world
<1> USE ThreadsAre, <1>1 DEF QueueTyped
<1>8. ASSUME NEW t \in Starters, CreateSession(t) PROVE QueueTyped'
  BY <1>8, RunsArePairs DEF CreateSession
<1>9. ASSUME NEW t \in Starters, CloseOrphan(t) \/ FailLoop(t) PROVE QueueTyped'
  <2>1. CASE queue' = [queue EXCEPT ![t] = <<>>]
    BY <2>1
  <2>2. CASE queue' = queue
    BY <2>2
  <2>3. QED
    BY <1>9, <2>1, <2>2 DEF CloseOrphan, FailLoop, world
<1>10. ASSUME NEW t \in Threads \ {Operator}, CloseSession(t) PROVE QueueTyped'
  <2>1. job[t] \in Job
    BY <1>10 DEF CloseSession, Inv, Placed, Working
  <2>2. job[t].s \in Starters
    BY <2>1, JobIsOfRun
  <2>3. CASE queue' = [queue EXCEPT ![job[t].s] = <<>>]
    BY <2>2, <2>3
  <2>4. CASE queue' = queue
    BY <2>4
  <2>5. QED
    BY <1>10, <2>3, <2>4 DEF CloseSession
<1>11. CASE StopClose
  <2>1. job[Operator] \in Job
    BY <1>11 DEF StopClose, Inv, Placed, Working
  <2>2. job[Operator].s \in Starters
    BY <2>1, JobIsOfRun
  <2>3. CASE queue' = [queue EXCEPT ![job[Operator].s] = <<>>]
    BY <2>2, <2>3
  <2>4. CASE queue' = queue
    BY <2>4
  <2>5. QED
    BY <1>11, <2>3, <2>4 DEF StopClose
<1>12. ASSUME NEW t \in Starters, SessionFails(t) PROVE QueueTyped'
  BY <1>12 DEF SessionFails
<1>13. CASE Restart
  BY <1>13 DEF Restart
<1>14. ASSUME NEW t \in Threads \ {Operator}, SendNext(t) PROVE QueueTyped'
  <2>1. job[t].s \in Starters /\ job[t].i + 1 \in Iterations
    BY <1>14, NextRun DEF SendNext
  <2>2. Append(queue[job[t].s], job[t].i + 1) \in Seq(Iterations)
    BY <2>1
  <2>3. QED
    BY <1>14, <2>1, <2>2 DEF SendNext
<1>15. ASSUME NEW t \in Starters, TurnEnds(t) PROVE QueueTyped'
  <2>1. queue[t] \in Seq(Iterations) /\ queue[t] # <<>>
    BY <1>15 DEF TurnEnds
  <2>2. Tail(queue[t]) \in Seq(Iterations)
    BY <2>1
  <2>3. QED
    BY <1>15, <2>2 DEF TurnEnds
<1>16. QED
  BY <1>3, <1>4, <1>5, <1>6, <1>7, <1>8, <1>9, <1>10, <1>11, <1>12, <1>13, <1>14, <1>15,
     ThreadsAre DEF Next, StartStep, Step, EngineStep

LoopTyped ==
    /\ loop \in [Starters -> {"none", "running"} \union Ended]
    /\ torn \subseteq Starters /\ revived \subseteq Starters

\* Loops stay in type, and the histories about them.
LEMMA LoopStep == Inv /\ Next => LoopTyped'
<1> SUFFICES ASSUME Inv, Next PROVE LoopTyped'
  OBVIOUS
<1>1. LoopTyped
  BY TypedIs DEF Inv, RowsTyped, LoopTyped
<1>2. UNCHANGED <<loop, torn, revived>> => LoopTyped'
  BY <1>1 DEF LoopTyped
<1>3. ASSUME NEW t \in Starters,
             \/ CreateSession(t) \/ CreateFails(t) \/ InsertRun(t) \/ Reconcile(t)
             \/ TurnEnds(t) \/ SessionFails(t) \/ AsksApproval(t)
      PROVE  LoopTyped'
  BY <1>2, <1>3
     DEF CreateSession, CreateFails, InsertRun, Reconcile, TurnEnds, SessionFails,
                    AsksApproval, rows, history
<1>4. ASSUME NEW t \in Threads \ {Operator},
             \/ Finish(t) \/ NextIteration(t) \/ SendNext(t) \/ SendFails(t) \/ Notify(t)
             \/ CloseSession(t)
      PROVE  LoopTyped'
  BY <1>2, <1>4 DEF Finish, NextIteration, SendNext, SendFails, Notify, CloseSession, rows,
                    history
<1>5. ASSUME NEW r \in Runs,
             \/ TickRun(r) \/ Tick(r)
      PROVE  LoopTyped'
  BY <1>2, <1>5 DEF TickRun, Tick, rows, history
<1>6. ASSUME NEW s \in Looping,
             \/ Stop(s)
      PROVE  LoopTyped'
  BY <1>2, <1>6 DEF Stop, rows, history
<1>7. CASE Handle \/ Page \/ StopClose
  BY <1>2, <1>7 DEF Handle, Page, StopClose, rows, history
<1> USE ThreadsAre, <1>1 DEF LoopTyped
<1>8. ASSUME NEW t \in Starters, StartLoop(t) PROVE LoopTyped'
  BY <1>8 DEF StartLoop, history
<1>9. ASSUME NEW t \in Starters, CloseOrphan(t) \/ FailLoop(t) PROVE LoopTyped'
  BY <1>9 DEF CloseOrphan, FailLoop, AfterOrphan, Ended, rows, history
<1>10. ASSUME NEW t \in Threads \ {Operator}, Advance(t) PROVE LoopTyped'
  <2>1. job[t] \in Job
    BY <1>10 DEF Advance, Inv, Placed, Working
  <2>2. job[t].s \in Starters
    BY <2>1, JobIsOfRun
  <2>3. loop' = loop /\ revived' = revived /\ torn' \subseteq torn \union {job[t].s}
    BY <1>10 DEF Advance, rows
  <2>4. QED
    BY <2>2, <2>3
<1>11. ASSUME NEW t \in Threads \ {Operator}, EndLoop(t) PROVE LoopTyped'
  <2>1. job[t] \in Job
    BY <1>11 DEF EndLoop, Inv, Placed, Working
  <2>2. job[t].s \in Starters /\ job[t].goal \in Ended
    BY <2>1, JobIsOfRun
  <2>3. QED
    BY <1>11, <2>2 DEF EndLoop
<1>12. ASSUME NEW t \in Threads \ {Operator}, UpdateLoop(t) PROVE LoopTyped'
  <2>1. job[t] \in Job
    BY <1>12 DEF UpdateLoop, Inv, Placed, Working
  <2>2. job[t].s \in Starters /\ job[t].goal \in Ended
    BY <2>1, JobIsOfRun
  <2>3. QED
    BY <1>12, <2>2 DEF UpdateLoop
<1>13. CASE StopWrite
  <2>1. job[Operator] \in Job
    BY <1>13 DEF StopWrite, Inv, Placed
  <2>2. job[Operator].s \in Starters
    BY <2>1, JobIsOfRun
  <2>3. QED
    BY <1>13, <2>2 DEF StopWrite, Ended, history
<1>14. CASE Restart
  <2>1. \A u \in Threads : job[u] # <<>> => job[u].s \in Starters
    BY Types, JobIsOfRun
  <2>2. torn' \subseteq Starters
    BY <1>14, <2>1 DEF Restart
  <2>3. QED
    BY <1>14, <2>2 DEF Restart, rows
<1>15. QED
  BY <1>3, <1>4, <1>5, <1>6, <1>7, <1>8, <1>9, <1>10, <1>11, <1>12, <1>13, <1>14, ThreadsAre
     DEF
     Next, StartStep, Step, EngineStep

CountsTyped ==
    /\ report \in [Runs -> 0 .. MaxIterations]
    /\ notes \in [Runs -> Nat] /\ pages \in [Runs -> Nat]

\* Reports and the counters of a run stay in type.
LEMMA CountsStep == Inv /\ Next => CountsTyped'
<1> SUFFICES ASSUME Inv, Next PROVE CountsTyped'
  OBVIOUS
<1>1. CountsTyped
  BY TypedIs DEF Inv, RowsTyped, CountsTyped
<1>2. UNCHANGED <<report, notes, pages>> => CountsTyped'
  BY <1>1 DEF CountsTyped
<1>3. ASSUME NEW t \in Starters,
             \/ CreateSession(t) \/ CreateFails(t) \/ StartLoop(t) \/ InsertRun(t)
             \/ CloseOrphan(t) \/ FailLoop(t) \/ Reconcile(t) \/ TurnEnds(t) \/ SessionFails(t)
             \/ AsksApproval(t)
      PROVE  CountsTyped'
  BY <1>2, <1>3
     DEF CreateSession, CreateFails, StartLoop, InsertRun, CloseOrphan,
         FailLoop, AfterOrphan, Reconcile,
                    TurnEnds, SessionFails, AsksApproval, rows, history
<1>4. ASSUME NEW t \in Threads \ {Operator},
             \/ Advance(t) \/ EndLoop(t) \/ NextIteration(t) \/ UpdateLoop(t) \/ SendNext(t)
             \/ SendFails(t) \/ CloseSession(t)
      PROVE  CountsTyped'
  BY <1>2, <1>4 DEF Advance, EndLoop, NextIteration, UpdateLoop, SendNext, SendFails,
                    CloseSession, rows, history
<1>5. ASSUME NEW r \in Runs,
             \/ TickRun(r) \/ Tick(r)
      PROVE  CountsTyped'
  BY <1>2, <1>5 DEF TickRun, Tick, rows, history
<1>6. ASSUME NEW s \in Looping,
             \/ Stop(s)
      PROVE  CountsTyped'
  BY <1>2, <1>6 DEF Stop, rows, history
<1>7. CASE Handle \/ StopWrite \/ StopClose
  BY <1>2, <1>7 DEF Handle, StopWrite, StopClose, rows, history
<1> USE ThreadsAre, <1>1 DEF CountsTyped
<1>8. ASSUME NEW t \in Threads \ {Operator}, Finish(t) PROVE CountsTyped'
  <2>1. job[t] \in Job /\ RunOf(t) \in Runs
    BY <1>8, FinishedRun DEF Finish
  <2>2. job[t].turn \in 0 .. MaxIterations
    BY <2>1, JobIsOfRun
  <2>3. /\ UNCHANGED <<notes, pages>>
        /\ report' = report \/ report' = [report EXCEPT ![RunOf(t)] = job[t].turn]
    BY <1>8 DEF Finish
  <2>4. QED
    BY <2>1, <2>2, <2>3
<1>9. ASSUME NEW t \in Threads \ {Operator}, Notify(t) PROVE CountsTyped'
  <2>1. RunOf(t) \in Runs
    BY <1>9, JobIsOfRun DEF Notify, Inv, Placed, Working, RunOf
  <2>2. QED
    BY <1>9, <2>1 DEF Notify, rows, history
<1>10. CASE Page
  <2>1. RunOf(Engine) \in Runs
    BY <1>10, JobIsOfRun DEF Page, Inv, Placed, RunOf
  <2>2. QED
    BY <1>10, <2>1 DEF Page, rows
<1>11. CASE Restart
  BY <1>11 DEF Restart, rows
<1>12. QED
  BY <1>3, <1>4, <1>5, <1>6, <1>7, <1>8, <1>9, <1>10, <1>11, ThreadsAre DEF Next, StartStep,
     Step, EngineStep

SetsTyped ==
    /\ completed \subseteq Runs /\ notified \subseteq Runs
    /\ todo \subseteq Runs /\ lost \subseteq Runs

\* The sets of runs stay sets of runs.
LEMMA SetsStep == Inv /\ Next => SetsTyped'
<1> SUFFICES ASSUME Inv, Next PROVE SetsTyped'
  OBVIOUS
<1>1. SetsTyped
  BY TypedIs DEF Inv, MemoryTyped, SetsTyped
<1>2. UNCHANGED <<completed, notified, todo, lost>> => SetsTyped'
  BY <1>1 DEF SetsTyped
<1>3. ASSUME NEW t \in Starters,
             \/ CreateSession(t) \/ CreateFails(t) \/ StartLoop(t) \/ InsertRun(t)
             \/ CloseOrphan(t) \/ FailLoop(t) \/ Reconcile(t) \/ TurnEnds(t) \/ SessionFails(t)
             \/ AsksApproval(t)
      PROVE  SetsTyped'
  BY <1>2, <1>3
     DEF CreateSession, CreateFails, StartLoop, InsertRun, CloseOrphan,
         FailLoop, AfterOrphan, Reconcile,
                    TurnEnds, SessionFails, AsksApproval, history
<1>4. ASSUME NEW t \in Threads \ {Operator},
             \/ Advance(t) \/ EndLoop(t) \/ NextIteration(t) \/ UpdateLoop(t) \/ SendNext(t)
             \/ Notify(t) \/ CloseSession(t)
      PROVE  SetsTyped'
  BY <1>2, <1>4
     DEF Advance, EndLoop, NextIteration, UpdateLoop, SendNext, Notify, CloseSession,
                    history
<1>5. ASSUME NEW s \in Looping,
             \/ Stop(s)
      PROVE  SetsTyped'
  BY <1>2, <1>5 DEF Stop, history
<1>6. CASE Handle \/ StopWrite \/ StopClose
  BY <1>2, <1>6 DEF Handle, StopWrite, StopClose, history
<1> USE ThreadsAre, <1>1 DEF SetsTyped, history
<1>7. ASSUME NEW t \in Threads \ {Operator}, Finish(t) PROVE SetsTyped'
  BY <1>7, FinishedRun DEF Finish
<1>8. ASSUME NEW t \in Threads \ {Operator}, SendFails(t) PROVE SetsTyped'
  BY <1>8, NextRun DEF SendFails
<1>9. CASE Page
  BY <1>9, ThreadsAre, JobIsOfRun DEF Page, Inv, Placed, RunOf
<1>10. ASSUME NEW r \in Runs, Tick(r) PROVE SetsTyped'
  BY <1>10 DEF Tick
<1>11. ASSUME NEW r \in Runs, TickRun(r) PROVE SetsTyped'
  BY <1>11 DEF TickRun
<1>12. CASE Restart
  BY <1>12 DEF Restart
<1>13. QED
  BY <1>3, <1>4, <1>5, <1>6, <1>7, <1>8, <1>9, <1>10, <1>11, <1>12, ThreadsAre DEF Next,
     StartStep, Step, EngineStep

PcTyped == pc \in [Threads -> PCs]

\* Threads stay at places of the program.
LEMMA PcStep == Inv /\ Next => PcTyped'
<1> SUFFICES ASSUME Inv, Next PROVE PcTyped'
  OBVIOUS
<1>1. PcTyped
  BY Types DEF PcTyped
<1> USE ThreadsAre, <1>1 DEF PcTyped, PCs, Goto, Return, AfterAdvance
<1>2. ASSUME NEW t \in Starters, CreateSession(t) PROVE PcTyped'
  BY <1>2 DEF CreateSession
<1>3. ASSUME NEW t \in Starters, CreateFails(t) PROVE PcTyped'
  BY <1>3 DEF CreateFails
<1>4. ASSUME NEW t \in Starters, StartLoop(t) PROVE PcTyped'
  BY <1>4 DEF StartLoop
<1>5. ASSUME NEW t \in Starters, InsertRun(t) PROVE PcTyped'
  BY <1>5, InsertDoes
<1>6. ASSUME NEW t \in Starters, CloseOrphan(t) \/ FailLoop(t) PROVE PcTyped'
  BY <1>6 DEF CloseOrphan, FailLoop, AfterOrphan
<1>7. ASSUME NEW t \in Starters, Reconcile(t) PROVE PcTyped'
  BY <1>7, ReconcileDoes
<1>8. ASSUME NEW t \in Threads \ {Operator}, Finish(t) PROVE PcTyped'
  BY <1>8 DEF Finish
<1>9. ASSUME NEW t \in Threads \ {Operator}, Advance(t) PROVE PcTyped'
  BY <1>9, AdvanceDoes
<1>10. ASSUME NEW t \in Threads \ {Operator}, EndLoop(t) PROVE PcTyped'
  BY <1>10 DEF EndLoop
<1>11. ASSUME NEW t \in Threads \ {Operator}, NextIteration(t) PROVE PcTyped'
  BY <1>11, NextIterationDoes
<1>12. ASSUME NEW t \in Threads \ {Operator}, UpdateLoop(t) PROVE PcTyped'
  BY <1>12 DEF UpdateLoop
<1>13. ASSUME NEW t \in Threads \ {Operator}, SendNext(t) PROVE PcTyped'
  BY <1>13 DEF SendNext
<1>14. ASSUME NEW t \in Threads \ {Operator}, SendFails(t) PROVE PcTyped'
  BY <1>14 DEF SendFails
<1>15. ASSUME NEW t \in Threads \ {Operator}, Notify(t) PROVE PcTyped'
  BY <1>15 DEF Notify
<1>16. CASE Handle
  BY <1>16, HandleDoes
<1>17. CASE Page
  BY <1>17 DEF Page
<1>18. CASE CloseSession(Engine)
  BY <1>18 DEF CloseSession
<1>19. ASSUME NEW r \in Runs, TickRun(r) PROVE PcTyped'
  BY <1>19, TickRunDoes
<1>20. ASSUME NEW r \in Runs, Tick(r) PROVE PcTyped'
  BY <1>20 DEF Tick
<1>21. ASSUME NEW s \in Looping, Stop(s) PROVE PcTyped'
  BY <1>21, StopDoes
<1>22. CASE StopWrite
  BY <1>22 DEF StopWrite
<1>23. CASE StopClose
  BY <1>23 DEF StopClose
<1>24. ASSUME NEW t \in Starters, TurnEnds(t) PROVE PcTyped'
  BY <1>24 DEF TurnEnds
<1>25. ASSUME NEW t \in Starters, SessionFails(t) PROVE PcTyped'
  BY <1>25 DEF SessionFails
<1>26. ASSUME NEW t \in Starters, AsksApproval(t) PROVE PcTyped'
  BY <1>26 DEF AsksApproval
<1>27. CASE Restart
  BY <1>27 DEF Restart
<1>28. QED
  BY <1>2, <1>3, <1>4, <1>5, <1>6, <1>7, <1>8, <1>9, <1>10, <1>11, <1>12, <1>13, <1>14,
     <1>15, <1>16, <1>17, <1>18, <1>19, <1>20, <1>21, <1>22, <1>23, <1>24, <1>25, <1>26,
     <1>27 DEF Next, StartStep, Step, EngineStep, Threads

JobTyped == job \in [Threads -> {<<>>} \union Job]

\* A job is a job, or none.
LEMMA JobStep == Inv /\ Next => JobTyped'
<1> SUFFICES ASSUME Inv, Next PROVE JobTyped'
  OBVIOUS
<1>1. JobTyped
  BY Types DEF JobTyped
<1> USE ThreadsAre, <1>1 DEF JobTyped, Return
<1>2. ASSUME NEW t \in Starters, CreateSession(t) PROVE JobTyped'
  BY <1>2 DEF CreateSession
<1>3. ASSUME NEW t \in Starters, CreateFails(t) PROVE JobTyped'
  BY <1>3 DEF CreateFails
<1>4. ASSUME NEW t \in Starters, StartLoop(t) PROVE JobTyped'
  BY <1>4 DEF StartLoop
<1>5. ASSUME NEW t \in Starters, InsertRun(t) PROVE JobTyped'
  BY <1>5, InsertDoes
<1>6. ASSUME NEW t \in Starters, CloseOrphan(t) \/ FailLoop(t) PROVE JobTyped'
  BY <1>6 DEF CloseOrphan, FailLoop, AfterOrphan
<1>7. ASSUME NEW t \in Starters, Reconcile(t) PROVE JobTyped'
  BY <1>7, ReconcileDoes
<1>8. ASSUME NEW t \in Threads \ {Operator}, Finish(t) PROVE JobTyped'
  BY <1>8 DEF Finish
<1>9. ASSUME NEW t \in Threads \ {Operator}, Advance(t) PROVE JobTyped'
  BY <1>9, AdvanceDoes
<1>10. ASSUME NEW t \in Threads \ {Operator}, EndLoop(t) PROVE JobTyped'
  BY <1>10 DEF EndLoop
<1>11. ASSUME NEW t \in Threads \ {Operator}, NextIteration(t) PROVE JobTyped'
  BY <1>11, NextIterationDoes
<1>12. ASSUME NEW t \in Threads \ {Operator}, UpdateLoop(t) PROVE JobTyped'
  BY <1>12 DEF UpdateLoop
<1>13. ASSUME NEW t \in Threads \ {Operator}, SendNext(t) PROVE JobTyped'
  BY <1>13 DEF SendNext
<1>14. ASSUME NEW t \in Threads \ {Operator}, SendFails(t) PROVE JobTyped'
  BY <1>14 DEF SendFails
<1>15. ASSUME NEW t \in Threads \ {Operator}, Notify(t) PROVE JobTyped'
  BY <1>15 DEF Notify
<1>16. CASE Handle
  BY <1>16, HandleDoes
<1>17. CASE Page
  BY <1>17 DEF Page
<1>18. CASE CloseSession(Engine)
  BY <1>18 DEF CloseSession
<1>19. ASSUME NEW r \in Runs, TickRun(r) PROVE JobTyped'
  BY <1>19, TickRunDoes
<1>20. ASSUME NEW r \in Runs, Tick(r) PROVE JobTyped'
  BY <1>20 DEF Tick
<1>21. ASSUME NEW s \in Looping, Stop(s) PROVE JobTyped'
  BY <1>21, StopDoes
<1>22. CASE StopWrite
  BY <1>22 DEF StopWrite
<1>23. CASE StopClose
  BY <1>23 DEF StopClose
<1>24. ASSUME NEW t \in Starters, TurnEnds(t) PROVE JobTyped'
  BY <1>24 DEF TurnEnds
<1>25. ASSUME NEW t \in Starters, SessionFails(t) PROVE JobTyped'
  BY <1>25 DEF SessionFails
<1>26. ASSUME NEW t \in Starters, AsksApproval(t) PROVE JobTyped'
  BY <1>26 DEF AsksApproval
<1>27. CASE Restart
  BY <1>27 DEF Restart
<1>28. QED
  BY <1>2, <1>3, <1>4, <1>5, <1>6, <1>7, <1>8, <1>9, <1>10, <1>11, <1>12, <1>13, <1>14,
     <1>15, <1>16, <1>17, <1>18, <1>19, <1>20, <1>21, <1>22, <1>23, <1>24, <1>25, <1>26,
     <1>27 DEF Next, StartStep, Step, EngineStep, Threads

\* All types together.
LEMMA TypedStep == Inv /\ Next => Typed'
<1> SUFFICES ASSUME Inv, Next PROVE Typed'
  OBVIOUS
<1>1. outcome' \in [Runs -> {"none", "running"} \union Closed]
  BY Moves, Lasting
<1>2. WorldTyped'
  BY SessStep, BusStep, ResultsStep, QueueStep
     DEF WorldTyped, SessTyped, BusTyped, ResultsTyped, QueueTyped
<1>3. RowsTyped'
  BY <1>1, LoopStep, CountsStep DEF RowsTyped, LoopTyped, CountsTyped
<1>4. MemoryTyped'
  BY SetsStep, StrayStep, PcStep, JobStep DEF MemoryTyped, SetsTyped, PcTyped, JobTyped
<1>5. QED
  BY <1>2, <1>3, <1>4 DEF Typed, TypeOK, WorldTyped, RowsTyped, MemoryTyped

-----------------------------------------------------------------------------
(* The invariant, and what follows from it. *)

\* The invariant holds at first,
LEMMA InvInit == Init => Inv
<1> SUFFICES ASSUME Init PROVE Inv
  OBVIOUS
<1> USE ThreadsAre, RunsArePairs, RunsAssumption DEF Init
<1>1. Typed
  <2>1. WorldTyped
    BY DEF WorldTyped
  <2>2. RowsTyped
    BY DEF RowsTyped
  <2>3. MemoryTyped
    BY DEF MemoryTyped, PCs
  <2>4. QED
    BY <2>1, <2>2, <2>3, TypedIs
<1>2. Placed /\ JobsFit
  BY DEF Placed, JobsFit, Working
<1>3. Chain /\ HasNewest
  BY DEF Chain, HasNewest
<1>4. Started
  BY DEF Started, Working, Empty
<1>5. Pending
  BY DEF Pending
<1>6. Owned
  BY DEF Owned, Owners, Owning, Working
<1>7. Exhausted /\ Paged
  BY DEF Exhausted, Paged
<1>8. NotifiedOnce /\ NoOrphanSession
  BY DEF NotifiedOnce, NoOrphanSession
<1>9. QED
  BY <1>1, <1>2, <1>3, <1>4, <1>5, <1>6, <1>7, <1>8 DEF Inv

\* when nothing happens,
LEMMA InvStutter == Inv /\ UNCHANGED vars => Inv'
<1> SUFFICES ASSUME Inv, UNCHANGED vars PROVE Inv'
  OBVIOUS
<1> USE DEF vars, history
<1>1. Typed' /\ Placed' /\ JobsFit'
  BY DEF Inv, Typed, TypeOK, Placed, JobsFit
<1>2. Chain' /\ HasNewest'
  BY DEF Inv, Chain, HasNewest
<1>3. Live' = Live /\ Closable' = Closable /\ Empty' = Empty
  BY DEF Live, Closable, Empty
<1>4. LastOnes' = LastOnes /\ Succeeded' = Succeeded /\ Owners' = Owners
  BY DEF LastOnes, Succeeded, Owners
<1>5. Started' /\ Pending'
  BY <1>3 DEF Inv, Started, Pending, RunOf, NextOf
<1>6. Owned'
  BY <1>4 DEF Inv, Owned, RunOf
<1>7. Exhausted' /\ Paged'
  BY <1>3, <1>4 DEF Inv, Exhausted, Paged
<1>8. NotifiedOnce' /\ NoOrphanSession'
  BY DEF Inv, NotifiedOnce, NoOrphanSession
<1>9. QED
  BY <1>1, <1>2, <1>5, <1>6, <1>7, <1>8 DEF Inv

\* and after every step.
LEMMA InvNext == Inv /\ Next => Inv'
<1> SUFFICES ASSUME Inv, Next PROVE Inv'
  OBVIOUS
<1>1. Pending'
  BY PendingStep, PendingAtRestart
<1>2. QED
  BY <1>1, TypedStep, PlacedStep, JobsFitStep, ChainStep, HasNewestStep, StartedStep,
     OwnedStep,
     ExhaustedStep, PagedStep, NotifiedStep, NoOrphanStep DEF Inv

\* The invariant holds of every state, whatever the interleaving of callers,
\* engine and operator, and through restarts and failing writes.
THEOREM InvHolds == Spec => []Inv
<1>1. Inv /\ [Next]_vars => Inv'
  BY InvNext, InvStutter
<1>2. QED
  BY <1>1, InvInit, PTL DEF Spec

\* Rows and memory agree: types, one running run to a session, no session left
\* without a run that follows it, one notification and one page to a run
\* (finish, Start, handleApprovalCreated).
THEOREM RowsAndMemoryAgree == Spec => []RunsOK
<1>1. Inv => RunsOK
  <2> SUFFICES ASSUME Inv PROVE RunsOK
    OBVIOUS
  <2>1. OneRunning
    <3>1. SUFFICES ASSUME NEW r \in Runs, NEW q \in Runs, r[1] = q[1],
                          outcome[r] = "running", outcome[q] = "running", r # q
                   PROVE  FALSE
      BY DEF OneRunning
    <3>2. r = <<r[1], r[2]>> /\ q = <<r[1], q[2]>> /\ r[1] \in Starters
          /\ r[2] \in Iterations /\ q[2] \in Iterations
      BY <3>1, RunsArePairs
    <3>3. r[2] < q[2] \/ q[2] < r[2]
      BY <3>1, <3>2 DEF Iterations
    <3>4. Chain
      BY DEF Inv
    <3>5. CASE r[2] < q[2]
      BY <3>1, <3>2, <3>4, <3>5 DEF Chain
    <3>6. CASE q[2] < r[2]
      BY <3>1, <3>2, <3>4, <3>6 DEF Chain
    <3>7. QED
      BY <3>3, <3>5, <3>6
  <2>2. PagedOnce
    <3>1. ASSUME NEW r \in Runs, outcome[r] = "running" PROVE pages[r] <= 1
      <4>1. pages[r] = 0 \/ pages[r] = 1
        BY <3>1 DEF Inv, Paged
      <4>2. QED
        BY <4>1
    <3>2. QED
      BY <3>1 DEF PagedOnce
  <2>3. QED
    BY <2>1, <2>2 DEF RunsOK, Inv, Typed
<1>2. QED
  BY <1>1, InvHolds, PTL

\* A loop that is exhausted carried out all of its iterations, and no run comes
\* after one that failed (advance, nextIteration).
THEOREM ExhaustedMeansAll == Spec => []LoopVerdict
<1>1. Inv => LoopVerdict
  <2> SUFFICES ASSUME Inv, NEW s \in Looping
               PROVE  /\ loop[s] = "exhausted" =>
                            \A i \in Iterations : outcome[<<s, i>>] = "success"
                      /\ \A i \in Iterations : i > 1 /\ outcome[<<s, i>>] # "none"
                            => outcome[<<s, i - 1>>] = "success"
    BY DEF LoopVerdict
  <2>1. s \in Starters
    BY RunsAssumption
  <2>2. loop[s] = "exhausted" => \A i \in Iterations : outcome[<<s, i>>] = "success"
    BY <2>1 DEF Inv, Exhausted, Succeeded
  <2>3. ASSUME NEW i \in Iterations, i > 1, outcome[<<s, i>>] # "none"
        PROVE  outcome[<<s, i - 1>>] = "success"
    <3>1. i - 1 \in Iterations /\ i - 1 < i
      BY <2>3, RunsAssumption DEF Iterations
    <3>2. QED
      BY <2>1, <2>3, <3>1 DEF Inv, Chain
  <2>4. QED
    BY <2>2, <2>3
<1>2. QED
  BY <1>1, InvHolds, PTL

\* A run that is closed is not closed again: the outcome written first is the
\* one that stays, before and after a restart (finish, runFor).
THEOREM OutcomesAreFinal == Spec => OutcomeFinal
<1>1. Inv /\ [Next]_vars => [\A r \in Runs : outcome[r] \in Closed => outcome'[r] = outcome[r]]_vars
  BY Moves, Lasting
<1>2. QED
  BY <1>1, InvHolds, PTL DEF Spec, OutcomeFinal
=============================================================================
