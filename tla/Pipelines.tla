----------------------------- MODULE Pipelines -----------------------------
(***************************************************************************)
(* The pipeline executor (internal/pipelines/executor.go, advance.go): one *)
(* pipeline run, the step runs of its nodes, and the runs the engine       *)
(* starts for them.                                                        *)
(*                                                                         *)
(* Start, Cancel, RetryFailed, the handler of run.finished messages and    *)
(* the sweep all hold e.mu, so the executor does one thing at a time; pc   *)
(* says what the holder of the lock is about to do.  The lock is held over *)
(* many writes to the database, and the server may stop between any two of *)
(* them (Restart).  The runs finish whenever they like, and the message    *)
(* that says so may be dropped by a full bus.                              *)
(*                                                                         *)
(* A step run is <<s, i, a>>: attempt a at position i of the fan-out of    *)
(* node s.  Steps are numbered in the order of the yaml.  A step with an   *)
(* id is a node of its own.  Validate lets a step without an id through,   *)
(* whatever it needs; all of them share the rows of step_id "", and only    *)
(* the last of their first rows counts, so they are one node.  Not modelled: *)
(* reports, costs, worktrees, and a definition that stops parsing while    *)
(* its run is under way.                                                   *)
(***************************************************************************)
EXTENDS Integers, FiniteSets

CONSTANTS N,            \* the number of steps
          Named,        \* the steps with an id
          Needs,        \* the steps a step needs, NoStep among them if there is no such step
          Foreach,      \* the steps with a foreach expression
          Retries,      \* the retry budget of a step
          MaxItems,     \* bound: the longest list a foreach renders to
          MaxRuns,      \* bound: the runs the engine is able to start
          MaxReopens,   \* bound: how often an operator retries the run
          MaxAttempts,  \* the attempts that makes for a step
          Calls         \* the operations of an instance

Steps    == 1 .. N
Indexes  == 0 .. MaxItems - 1
Attempts == 1 .. MaxAttempts
Runs     == 1 .. MaxRuns
NoRun    == 0
NoStep   == 0
AllCalls == {"Cancel", "RetryFailed", "Late", "Drop", "Restart"}

\* What Validate enforces: a step with an id needs only such steps, defined
\* before it.  What a step without one needs is not looked at (def.go:282).
ASSUME DefinitionOK ==
    /\ N \in Nat \ {0} /\ Named \subseteq Steps
    /\ Needs \in [Steps -> SUBSET (Steps \union {NoStep})]
    /\ \A s \in Named : Needs[s] \subseteq Named \intersect (1 .. s - 1)
    /\ Foreach \subseteq Steps
    /\ Retries \in [Steps -> Nat]
ASSUME BoundsOK ==
    /\ MaxItems \in Nat \ {0} /\ MaxRuns \in Nat /\ MaxReopens \in Nat
    /\ MaxAttempts \in Nat
    /\ \A s \in Steps : Retries[s] + 1 + MaxReopens <= MaxAttempts
    /\ Calls \subseteq AllCalls

VARIABLES
    prun,       \* state of the pipeline run
    late,       \* the definition's timeout has passed since it was started
    reopens,    \* how often RetryFailed was called
    torn,       \* history: the server stopped while the lock was held
    st,         \* step run -> state of its row, absent without one
    runOf,      \* step run -> run_id of its row
    nruns,      \* number of runs the engine has started
    stepOf,     \* run -> step_run_id of its row
    outcome,    \* run -> outcome of its row
    live,       \* runs whose session nobody has closed
    bus,        \* runs whose run.finished is on its way to the executor
    pc, at,     \* what the holder of the lock does next, and at which step
    cur,        \* the run it is starting or completing
    want,       \* the length of the list it is fanning out
    goal,       \* the state it is closing the pipeline run with
    todo        \* the runs the sweep still has to look at

rows == <<st, runOf>>
runs == <<nruns, stepOf, outcome, live, bus>>
vars == <<prun, late, reopens, torn, rows, runs, pc, at, cur, want, goal, todo>>

StepRuns == Steps \X Indexes \X Attempts

RunTerminal  == {"success", "failed", "cancelled", "timeout"}
StepTerminal == {"success", "failed", "skipped", "cancelled"}
Bad          == {"failed", "skipped", "cancelled"}
Busy         == {"pending", "running"}
StepStates   == {"absent"} \union Busy \union StepTerminal
Visiting     == {"visit", "expand", "mark"}
PCs          == {"free", "create", "settle", "stop", "retry", "reopen", "sweep"}
                \union Visiting

\* The types of the rows, of the runs and of where an operation is.
TypeOK ==
    /\ prun \in {"none", "running"} \union RunTerminal
    /\ late \in BOOLEAN /\ torn \in BOOLEAN /\ reopens \in 0 .. MaxReopens
    /\ st \in [StepRuns -> StepStates]
    /\ runOf \in [StepRuns -> Runs \union {NoRun}]
    /\ nruns \in 0 .. MaxRuns
    /\ stepOf \in [Runs -> StepRuns \union {<<>>}]
    /\ outcome \in [Runs -> {"none", "running", "success", "failed"}]
    /\ live \subseteq 1 .. nruns /\ bus \subseteq 1 .. nruns
    /\ todo \subseteq 1 .. nruns
    /\ pc \in PCs /\ at \in Steps /\ cur \in 0 .. nruns
    /\ want \in 0 .. MaxItems
    /\ goal \in {"none", "failed", "cancelled", "timeout"}

Init ==
    /\ prun = "none" /\ late = FALSE /\ reopens = 0 /\ torn = FALSE
    /\ st = [k \in StepRuns |-> "absent"]
    /\ runOf = [k \in StepRuns |-> NoRun]
    /\ nruns = 0
    /\ stepOf = [r \in Runs |-> <<>>]
    /\ outcome = [r \in Runs |-> "none"]
    /\ live = {} /\ bus = {} /\ todo = {}
    /\ pc = "free" /\ at = 1 /\ cur = NoRun /\ want = 0 /\ goal = "none"

-----------------------------------------------------------------------------
(* What the rows say. *)

\* currentAttempts: the newest attempt of each slot.
Current(k) ==
    /\ st[k] # "absent"
    /\ \A a \in Attempts : a > k[3] => st[<<k[1], k[2], a>>] = "absent"

\* The rows of a step are found by its id: those without one share theirs.
Nameless == Steps \ Named
Node(s)  == IF s \in Named THEN s
            ELSE CHOOSE n \in Nameless : \A m \in Nameless : n <= m

NextAttempt(k) == <<k[1], k[2], k[3] + 1>>

CurrentIn(S) == {k \in StepRuns : st[k] \in S /\ Current(k)}

\* Mutant: a slot that has not failed is as good as one that has succeeded.
SucceededUnlessBad(s) ==
    /\ \E k \in StepRuns : k[1] = s /\ st[k] # "absent"
    /\ \A k \in StepRuns : k[1] = s /\ Current(k) => st[k] \notin Bad

\* stateOf = nodeAbsent, and stateOf = nodeSucceeded.
Absent(s) == \A k \in StepRuns : k[1] = s => st[k] = "absent"
Succeeded(s) ==
    /\ ~Absent(s)
    /\ \A k \in StepRuns : k[1] = s /\ Current(k) => st[k] = "success"

DepsSucceeded(s) == \A d \in Needs[s] : Succeeded(d)
\* Some step of the node may be started.
MayStart(n) == \E s \in Steps : Node(s) = n /\ DepsSucceeded(s)

-----------------------------------------------------------------------------
(* Steps of the holder of the lock. *)

\* The operation is done: on to the next run of the sweep, or unlock.
Return(T) == todo' = T /\ pc' = (IF T = {} THEN "free" ELSE "sweep")

\* advanceLocked: a pipeline run that is over is left alone.
Advance(T) ==
    IF prun \in RunTerminal THEN Return(T) ELSE todo' = T /\ pc' = "visit"

SetStep(k, state) == st' = [st EXCEPT ![k] = state]

\* Start inserts the pipeline run, one pending step run for each step without
\* a foreach, and then advances.
Start ==
    /\ pc = "free" /\ prun = "none"
    /\ prun' = "running" /\ pc' = "create"
    /\ UNCHANGED <<late, reopens, torn, rows, runs, at, cur, want, goal, todo>>

CreateStepRun ==
    /\ pc = "create"
    /\ st' = IF at \in Foreach THEN st
             ELSE [st EXCEPT ![<<Node(at), 0, 1>>] = "pending"]
    /\ IF at < N THEN at' = at + 1 /\ pc' = pc ELSE at' = 1 /\ pc' = "visit"
    /\ UNCHANGED <<prun, late, reopens, torn, runOf, runs, cur, want, goal, todo>>

\* advanceLocked walks the steps in yaml order.  A step whose dependencies
\* have succeeded and that has no rows is expanded: one row if it has no
\* foreach (its row was lost), else as many as the list has items, one
\* failed row if there is no list or it is too long, and one successful row
\* if it is empty.
Expand ==
    /\ pc = "visit" /\ DepsSucceeded(at) /\ Absent(Node(at))
    /\ \/ /\ at \notin Foreach
          /\ SetStep(<<Node(at), 0, 1>>, "pending")
          /\ UNCHANGED <<pc, want>>
       \/ /\ at \in Foreach
          /\ \E state \in {"failed", "success"} : SetStep(<<Node(at), 0, 1>>, state)
          /\ UNCHANGED <<pc, want>>
       \/ /\ at \in Foreach
          /\ want' \in 1 .. MaxItems /\ pc' = "expand" /\ st' = st
    /\ UNCHANGED <<prun, late, reopens, torn, runOf, runs, at, cur, goal, todo>>

\* expand inserts the rows of a list one after the other.
ExpandItem(i) ==
    /\ pc = "expand" /\ i < want /\ st[<<Node(at), i, 1>>] = "absent"
    /\ \A j \in 0 .. i - 1 : st[<<Node(at), j, 1>>] # "absent"
    /\ SetStep(<<Node(at), i, 1>>, "pending")
    /\ IF i + 1 = want THEN want' = 0 /\ pc' = "visit" ELSE UNCHANGED <<want, pc>>
    /\ UNCHANGED <<prun, late, reopens, torn, runOf, runs, at, cur, goal, todo>>

\* startStep fails the row when its template, its values or runs.Start fail.
StartStepFails(k) ==
    /\ pc = "visit" /\ k[1] = Node(at) /\ DepsSucceeded(at)
    /\ st[k] = "pending" /\ Current(k)
    /\ SetStep(k, "failed")
    /\ UNCHANGED <<prun, late, reopens, torn, runOf, runs, pc, at, cur, want, goal, todo>>

\* startStep: runs.Start inserts a run for the row and starts its session ...
StartStep(k) ==
    /\ pc = "visit" /\ k[1] = Node(at) /\ DepsSucceeded(at)
    /\ st[k] = "pending" /\ Current(k)
    /\ nruns < MaxRuns
    /\ nruns' = nruns + 1 /\ cur' = nruns + 1
    /\ stepOf' = [stepOf EXCEPT ![nruns + 1] = k]
    /\ outcome' = [outcome EXCEPT ![nruns + 1] = "running"]
    /\ live' = live \union {nruns + 1}
    /\ pc' = "mark"
    /\ UNCHANGED <<prun, late, reopens, torn, rows, bus, at, want, goal, todo>>

\* ... and then the row is updated to say so.
MarkRunning ==
    /\ pc = "mark"
    /\ SetStep(stepOf[cur], "running")
    /\ runOf' = [runOf EXCEPT ![stepOf[cur]] = cur]
    /\ pc' = "visit" /\ cur' = NoRun
    /\ UNCHANGED <<prun, late, reopens, torn, runs, at, want, goal, todo>>

\* Nothing (more) to do at this step: on to the next, or settle.
NextStep ==
    /\ pc = "visit"
    /\ \/ ~DepsSucceeded(at)
       \/ ~Absent(Node(at)) /\ \A k \in CurrentIn({"pending"}) : k[1] # Node(at)
    /\ IF at < N THEN at' = at + 1 /\ pc' = pc ELSE at' = 1 /\ pc' = "settle"
    /\ UNCHANGED <<prun, late, reopens, torn, rows, runs, cur, want, goal, todo>>

\* Mutant: settle looks for failed steps only.
SettleFailedOnly ==
    /\ pc = "settle"
    /\ IF CurrentIn({"failed"}) # {} THEN
          /\ pc' = "stop" /\ goal' = "failed" /\ UNCHANGED <<prun, todo>>
       ELSE
          /\ prun' = IF CurrentIn(Busy) = {} THEN "success" ELSE prun
          /\ goal' = goal /\ Return(todo)
    /\ UNCHANGED <<late, reopens, torn, rows, runs, at, cur, want>>

\* settle: a bad step fails the run, a busy one keeps it going.
Settle ==
    /\ pc = "settle"
    /\ IF CurrentIn(Bad) # {} THEN
          /\ pc' = "stop" /\ goal' = "failed" /\ UNCHANGED <<prun, todo>>
       ELSE
          /\ prun' = IF CurrentIn(Busy) = {} THEN "success" ELSE prun
          /\ goal' = goal /\ Return(todo)
    /\ UNCHANGED <<late, reopens, torn, rows, runs, at, cur, want>>

\* Mutant: the sessions of running steps are left open.
StopStepLeavesOpen(k) ==
    /\ pc = "stop" /\ Current(k) /\ st[k] \in Busy
    /\ SetStep(k, IF st[k] = "pending" /\ goal = "failed" THEN "skipped"
                  ELSE "cancelled")
    /\ UNCHANGED <<prun, late, reopens, torn, runOf, runs,
                   pc, at, cur, want, goal, todo>>

\* stopSteps: a pending step is skipped or cancelled; a running one is
\* cancelled and its session interrupted and closed.
StopStep(k) ==
    /\ pc = "stop" /\ Current(k)
    /\ \/ /\ st[k] = "pending"
          /\ SetStep(k, IF goal = "failed" THEN "skipped" ELSE "cancelled")
          /\ live' = live
       \/ /\ st[k] = "running"
          /\ SetStep(k, "cancelled")
          /\ live' = live \ {runOf[k]}
    /\ UNCHANGED <<prun, late, reopens, torn, runOf, nruns, stepOf, outcome, bus,
                   pc, at, cur, want, goal, todo>>

FinishRun ==
    /\ pc = "stop" /\ CurrentIn(Busy) = {}
    /\ prun' = goal /\ goal' = "none" /\ Return(todo)
    /\ UNCHANGED <<late, reopens, torn, rows, runs, at, cur, want>>

\* Mutant: a result is applied to a step run that is over, too.
CompleteStepAgain(r, T) ==
    LET k == stepOf[r] IN
    /\ SetStep(k, outcome[r])
    /\ IF outcome[r] = "failed" /\ prun \notin RunTerminal /\ k[3] <= Retries[k[1]]
       THEN pc' = "retry" /\ cur' = r /\ todo' = T
       ELSE Advance(T) /\ cur' = cur
    /\ UNCHANGED <<prun, late, reopens, torn, runOf, nruns, stepOf, outcome,
                   live, at, want, goal>>

\* Mutant: one retry too many.
CompleteStepOffByOne(r, T) ==
    LET k == stepOf[r] IN
    /\ \/ /\ st[k] \in StepTerminal
          /\ Return(T) /\ UNCHANGED <<st, cur>>
       \/ /\ st[k] \notin StepTerminal
          /\ SetStep(k, outcome[r])
          /\ IF /\ outcome[r] = "failed" /\ prun \notin RunTerminal
                /\ k[3] <= Retries[k[1]] + 1
             THEN pc' = "retry" /\ cur' = r /\ todo' = T
             ELSE Advance(T) /\ cur' = cur
    /\ UNCHANGED <<prun, late, reopens, torn, runOf, nruns, stepOf, outcome,
                   live, at, want, goal>>

\* completeStep: the result of run r goes to the step run r was started for,
\* unless that one is over.  T is what the sweep has left.
CompleteStep(r, T) ==
    LET k == stepOf[r] IN
    /\ \/ /\ st[k] \in StepTerminal
          /\ Return(T) /\ UNCHANGED <<st, cur>>
       \/ /\ st[k] \notin StepTerminal /\ outcome[r] = "success"
          /\ SetStep(k, "success")
          /\ Advance(T) /\ cur' = cur
       \/ /\ st[k] \notin StepTerminal /\ outcome[r] = "failed"
          /\ SetStep(k, "failed")
          /\ IF prun \notin RunTerminal /\ k[3] <= Retries[k[1]]
             THEN pc' = "retry" /\ cur' = r /\ todo' = T
             ELSE Advance(T) /\ cur' = cur
    /\ UNCHANGED <<prun, late, reopens, torn, runOf, nruns, stepOf, outcome,
                   live, at, want, goal>>

\* completeStep opens the next attempt of the step and advances.
CreateRetry ==
    /\ pc = "retry"
    /\ SetStep(NextAttempt(stepOf[cur]), "pending")
    /\ pc' = "visit" /\ cur' = NoRun
    /\ UNCHANGED <<prun, late, reopens, torn, runOf, runs, at, want, goal, todo>>

\* The bus loop hands run.finished of run r to completeStep.
Handle(r) ==
    /\ pc = "free" /\ r \in bus
    /\ bus' = bus \ {r}
    /\ CompleteStep(r, {})

\* Mutant: the sweep only looks at step runs that do not know their run.
TickBlind ==
    /\ pc = "free" /\ prun = "running" /\ ~late
    /\ todo' = {r \in 1 .. nruns : st[stepOf[r]] = "pending"}
    /\ todo' # {}
    /\ pc' = "sweep"
    /\ UNCHANGED <<prun, late, reopens, torn, rows, runs, at, cur, want, goal>>

\* Tick: a run that is late is closed, any other is reconciled: the sweep
\* looks at the run of every running step run.
TickTimeout ==
    /\ pc = "free" /\ prun = "running" /\ late
    /\ pc' = "stop" /\ goal' = "timeout"
    /\ UNCHANGED <<prun, late, reopens, torn, rows, runs, at, cur, want, todo>>

Tick ==
    /\ pc = "free" /\ prun = "running" /\ ~late
    /\ todo' = {runOf[k] : k \in {j \in StepRuns : st[j] = "running"}} \ {NoRun}
    /\ todo' # {}
    /\ pc' = "sweep"
    /\ UNCHANGED <<prun, late, reopens, torn, rows, runs, at, cur, want, goal>>

Reconcile(r) ==
    /\ pc = "sweep" /\ r \in todo
    /\ bus' = bus
    /\ IF outcome[r] = "running"
       THEN /\ Return(todo \ {r})
            /\ UNCHANGED <<prun, late, reopens, torn, rows, nruns, stepOf,
                           outcome, live, at, cur, want, goal>>
       ELSE CompleteStep(r, todo \ {r})

Cancel ==
    /\ pc = "free" /\ prun = "running"
    /\ pc' = "stop" /\ goal' = "cancelled"
    /\ UNCHANGED <<prun, late, reopens, torn, rows, runs, at, cur, want, todo>>

\* RetryFailed: a failed step gets another attempt, a skipped or cancelled one
\* goes back to pending, then the run is reopened and advanced.
RetryFailed ==
    /\ pc = "free" /\ prun \in RunTerminal /\ CurrentIn(Bad) # {}
    /\ reopens < MaxReopens
    /\ reopens' = reopens + 1 /\ pc' = "reopen"
    /\ UNCHANGED <<prun, late, torn, rows, runs, at, cur, want, goal, todo>>

ReopenStep(k) ==
    /\ pc = "reopen" /\ Current(k)
    /\ \/ /\ st[k] = "failed"
          /\ SetStep(NextAttempt(k), "pending")
          /\ runOf' = runOf
       \/ /\ st[k] \in {"skipped", "cancelled"}
          /\ SetStep(k, "pending")
          /\ runOf' = [runOf EXCEPT ![k] = NoRun]
    /\ UNCHANGED <<prun, late, reopens, torn, runs, pc, at, cur, want, goal, todo>>

Reopen ==
    /\ pc = "reopen" /\ CurrentIn(Bad) = {}
    /\ prun' = "running" /\ pc' = "visit"
    /\ UNCHANGED <<late, reopens, torn, rows, runs, at, cur, want, goal, todo>>

-----------------------------------------------------------------------------
(* The world around the executor. *)

\* The engine closes a run out and publishes run.finished or run.failed; the
\* bus drops the message if the executor's buffer is full.
FinishOfRun(r) ==
    /\ r <= nruns /\ outcome[r] = "running"
    /\ \E o \in {"success", "failed"} : outcome' = [outcome EXCEPT ![r] = o]
    /\ \/ bus' = bus \union {r}
       \/ "Drop" \in Calls /\ bus' = bus
    /\ UNCHANGED <<prun, late, reopens, torn, rows, nruns, stepOf, live,
                   pc, at, cur, want, goal, todo>>

\* Time passes; Reopen does not start it again.
Late ==
    /\ prun # "none" /\ ~late /\ late' = TRUE
    /\ UNCHANGED <<prun, reopens, torn, rows, runs, pc, at, cur, want, goal, todo>>

\* The server stops and starts again: the sessions, the messages and the
\* operation under way are gone.
Restart ==
    /\ prun # "none"
    /\ torn' = (torn \/ pc # "free")
    /\ live' = {} /\ bus' = {} /\ todo' = {}
    /\ pc' = "free" /\ at' = 1 /\ cur' = NoRun /\ want' = 0 /\ goal' = "none"
    /\ UNCHANGED <<prun, late, reopens, rows, nruns, stepOf, outcome>>

Locked ==
    \/ CreateStepRun \/ Expand \/ MarkRunning \/ NextStep \/ Settle
    \/ \E i \in Indexes : ExpandItem(i)
    \/ \E k \in StepRuns : \/ StartStep(k) \/ StartStepFails(k)
                           \/ StopStep(k) \/ ReopenStep(k)
    \/ FinishRun \/ CreateRetry \/ Reopen
    \/ \E r \in Runs : Reconcile(r)

Operator ==
    \/ Start
    \/ "Cancel" \in Calls /\ Cancel
    \/ "RetryFailed" \in Calls /\ RetryFailed

Next ==
    \/ Locked \/ Operator
    \/ Tick \/ TickTimeout
    \/ \E r \in Runs : Handle(r) \/ FinishOfRun(r)
    \/ "Late" \in Calls /\ Late
    \/ "Restart" \in Calls /\ Restart

Spec == Init /\ [][Next]_vars
-----------------------------------------------------------------------------
(* Safety. *)

\* Every slot of a node has succeeded, in its newest attempt.
AllSucceeded(s) ==
    \A k \in StepRuns : k[1] = s /\ Current(k) => st[k] = "success"

\* A pipeline run is a success only when every step with an id is: none was
\* left out and the newest attempt of each of its slots succeeded, whatever
\* was retried, cancelled, lost or interrupted on the way (settle).  A step
\* without an id may be left out, but what rows it has have succeeded.
SuccessMeansAll ==
    prun = "success" =>
        /\ \A s \in Named : ~Absent(s)
        /\ \A k \in StepRuns : Current(k) => st[k] = "success"

\* A step is started only after all the steps it needs have succeeded, and
\* stays behind them: nothing that happens later takes a success back from
\* under it (depsSucceeded, RetryFailed).  Of steps without an id one is enough.
DepsFirst ==
    \A k \in StepRuns :
        runOf[k] # NoRun =>
            \E s \in Steps : /\ Node(s) = k[1]
                             /\ \A d \in Needs[s] : ~Absent(d) /\ AllSucceeded(d)

\* Attempts are numbered without gaps, and all but the newest one of a slot
\* have failed: neither a result that is applied twice, by its
\* message and by the sweep, nor RetryFailed opens two attempts or reopens an
\* old one (completeStep, RetryFailed).
AttemptHistory ==
    \A k \in StepRuns : st[k] # "absent"
        => \A a \in 1 .. k[3] - 1 : st[<<k[1], k[2], a>>] = "failed"

\* A step gets the attempts its budget allows and one for each RetryFailed.
RetryBudget ==
    \A k \in StepRuns : st[k] # "absent" => k[3] <= Retries[k[1]] + 1 + reopens

\* The attempts of a slot are its history: all but the newest have failed, and
\* there are no more than retries and RetryFailed allow (completeStep).
AttemptsOK == AttemptHistory /\ RetryBudget

\* When a pipeline run is over nothing of it runs on: no step run is running
\* and the session of a step that was cancelled is closed (settle, Cancel,
\* Tick, stopSteps).
OverIsOver ==
    prun \in RunTerminal =>
        \A k \in StepRuns :
            /\ st[k] # "running"
            /\ st[k] = "cancelled" => runOf[k] \notin live

-----------------------------------------------------------------------------
(* The inductive invariant behind the safety properties. *)

\* A step run names its run once it is running; a run knows its step run.
RowsOK ==
    /\ \A k \in StepRuns :
          /\ runOf[k] # NoRun =>
                st[k] \notin {"absent", "pending"} /\ runOf[k] <= nruns
          /\ st[k] = "running" => runOf[k] # NoRun
          /\ st[k] = "cancelled" => runOf[k] \notin live
    /\ \A r \in 1 .. nruns :
          stepOf[r] \in StepRuns /\ st[stepOf[r]] # "absent" /\ outcome[r] # "none"
    /\ \A r \in bus : outcome[r] # "running"

\* What the holder of the lock knows about the pipeline run and about the run
\* and the step it works on.
CursorOK ==
    /\ prun = "none" =>
          pc = "free" /\ nruns = 0 /\ \A k \in StepRuns : st[k] = "absent"
    /\ pc \in Visiting \union {"create", "settle", "stop", "retry"}
          => prun = "running"
    /\ pc = "reopen" => prun \in RunTerminal
    /\ pc \notin Visiting \union {"create"} => at = 1
    /\ pc = "stop" => goal # "none"
    /\ pc = "create" => \A k \in StepRuns :
          st[k] # "absent" => k[1] < at /\ st[k] = "pending"
    /\ pc = "expand" => \A k \in StepRuns :
          k[1] = Node(at) /\ st[k] # "absent" => st[k] = "pending"
    /\ pc \in {"mark", "retry"} => cur \in 1 .. nruns /\ Current(stepOf[cur])
    /\ pc = "mark" =>
          st[stepOf[cur]] = "pending" /\ MayStart(stepOf[cur][1])
    /\ pc = "retry" => /\ st[stepOf[cur]] = "failed"
                       /\ stepOf[cur][3] <= Retries[stepOf[cur][1]]
    /\ pc = "reopen" => \A k \in StepRuns :
          st[k] = "failed" /\ Current(k) => k[3] <= Retries[k[1]] + reopens

\* advanceLocked passes over a step with an id and no rows only when some step
\* run keeps the pipeline run from succeeding.
PassOK ==
    pc \in Visiting \union {"settle"} =>
        \A s \in Named : (s < at \/ pc = "settle") /\ Absent(s)
            => \E k \in StepRuns : Current(k) /\ st[k] # "success"

Inv ==
    /\ TypeOK /\ RowsOK /\ CursorOK /\ AttemptHistory /\ RetryBudget
    /\ DepsFirst /\ PassOK /\ SuccessMeansAll /\ OverIsOver

-----------------------------------------------------------------------------
(* Liveness.  The goroutine that holds the lock goes on; the sweep comes    *)
(* again and again; the engine closes every run out, at the latest when it  *)
(* times out.  The timeout of the pipeline itself is not counted on.        *)

Fairness ==
    /\ WF_vars(Locked)
    /\ SF_vars(Tick) /\ SF_vars(TickTimeout)
    /\ \A r \in Runs : WF_vars(FinishOfRun(r))

FairSpec == Spec /\ Fairness

\* A pipeline run comes to an end although messages are dropped and the
\* server restarts, "so a pipeline never gets stuck running just because one
\* bus message was lost" (docs/PIPELINES.md), unless the server stopped while
\* the executor held its lock, and unless all that is left are steps without
\* an id that need what never succeeds.
Stuck ==
    /\ pc = "free" /\ CurrentIn({"running"}) = {}
    /\ CurrentIn({"pending"}) # {}
    /\ \A k \in CurrentIn({"pending"}) : k[1] \in Nameless /\ ~MayStart(k[1])
RunEnds == prun = "running" ~> prun # "running" \/ torn \/ Stuck

-----------------------------------------------------------------------------
(* What a comment says of the executor, and TLC refutes. *)

\* "interrupting makes the CLI emit a result, which closes the run out and
\* lands back here as a bus message, and a terminal step run makes that a
\* no-op" (advance.go:204): the result a step run has is the one of the run
\* it records.
OwnResult ==
    \A k \in StepRuns :
        st[k] \in {"success", "failed"} /\ runOf[k] # NoRun
            => outcome[runOf[k]] = st[k]
=============================================================================
