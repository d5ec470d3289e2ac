------------------------------ MODULE Sessions ------------------------------
(***************************************************************************)
(* The sessions service (internal/sessions): the registry of live harness  *)
(* processes, the semaphore of process slots, the state column of every    *)
(* session row and the approvals a process asks for.                       *)
(*                                                                         *)
(* Goroutines run concurrently: request goroutines (Callers) execute       *)
(* Create, Send, SwitchModel, Close, Interrupt and Decide; the maintenance *)
(* loop (Janitor) executes reapIdle and expireApprovals; one pump per      *)
(* registered process drains its event channel; main runs Shutdown.  An    *)
(* action is the code between two points where another goroutine can get   *)
(* in: a database statement, a critical section of Service.mu, a channel   *)
(* operation or a write to a child's stdin.                                *)
(***************************************************************************)
EXTENDS Integers, Sequences, FiniteSets

CONSTANTS
    Sessions,      \* session ids
    Unattended,    \* the sessions whose profile is unattended
    Callers,       \* request goroutines
    Janitor,       \* the maintenance goroutine
    Procs,         \* identities of the processes the harness can start
    Calls,         \* the operations of the workload, a subset of AllCalls
    Reqs,          \* permission requests, each with its approval row
    MaxOpen,       \* Options.MaxOpen, at least 1 after newSlots
    EventCap,      \* capacity of a process's event channel
    MaxTurns,      \* bound: user messages queued at one child
    NoProc, NoReq, NoSess

ASSUME SessionsAssumption ==
    /\ Unattended \subseteq Sessions
    /\ Janitor \notin Callers /\ Procs \intersect (Callers \union {Janitor}) = {}
    /\ Reqs \intersect {"tool", "result", "exit0", "exit1"} = {}
    /\ NoProc \notin Procs /\ NoReq \notin Reqs /\ NoSess \notin Sessions
    /\ MaxOpen \in Nat \ {0}
    /\ EventCap \in Nat \ {0}
    /\ MaxTurns \in Nat \ {0}
    /\ IsFiniteSet(Callers) /\ IsFiniteSet(Procs)

VARIABLES
    state,         \* sessions.state of every row, "none" before Create
    procs,         \* Service.procs
    closing,       \* Service.closing
    starting,      \* Service.starting
    sem,           \* number of tokens in slots.sem
    owner,         \* harness processes: the session each was started for,
    run,           \* whether it is unused, live or gone,
    stdin,         \* whether its stdin is open,
    turns,         \* the user messages it has not answered yet,
    asks,          \* the permission request it is blocked on,
    intr,          \* whether an interrupt is on its way to it
    events,        \* their event channels
    killed,        \* processes killed by a Close that did not wait for them
    held,          \* those whose stdout another process keeps open for ever
    jammed,        \* those that stopped reading, with a write to them under way
    pump,          \* program counter of each process's pump goroutine
    approval,      \* approvals.state of every request
    asker,         \* the process that sent the request
    answers,       \* control_responses written, per request and process
    pc,            \* program counter of every thread
    op, sid, pid, rid, vid,  \* the thread's call and local variables: its
                             \* session, process, request, and a session
                             \* it is about to close
    main           \* the main goroutine: serving, or inside Shutdown

registry == <<procs, closing, starting>>
child    == <<owner, run, stdin, turns, asks, intr>>
faults   == <<killed, held, jammed>>
external == <<child, events, faults>>
inbox    == <<approval, asker, answers>>
frame    == <<op, sid, pid, rid, vid>>
threads  == <<pc, frame>>
vars == <<state, registry, sem, external, pump, inbox, threads, main>>

Threads == Callers \union {Janitor}
States  == {"none", "open", "running", "waiting", "closed", "failed"}
Ops     == {"none", "Create", "Send", "SwitchModel", "Close", "Decide",
            "Reap", "Expire"}
PCs     == {"idle", "acquire", "evict", "track", "await", "wait", "start",
            "register", "dup", "setRunning", "first", "fail", "unmark",
            "send", "deliver", "waitStart", "swClose", "swShut", "swAwait",
            "swWait",
            "close", "closeRead", "closeSet", "shut", "decideRun", "lookup",
            "tell", "expire", "exLookup", "exOpen", "exRun", "exTell",
            "exFail"}
PumpPCs == {"none", "recv", "perm", "permJam", "permFail", "exitClosed", "exitFailed",
            "unregister", "release", "done"}

\* What a process reports: a request stands for its permission event.
Exits  == {"exit0", "exit1"}
Events == {"tool", "result"} \union Exits \union Reqs

ChildTypeOK ==
    /\ owner \in [Procs -> Sessions \union {NoSess}]
    /\ run   \in [Procs -> {"unused", "live", "gone"}]
    /\ stdin \in [Procs -> BOOLEAN]
    /\ turns \in [Procs -> Nat]
    /\ asks  \in [Procs -> Reqs \union {NoReq}]
    /\ intr  \in [Procs -> BOOLEAN]

FaultTypeOK ==
    killed \subseteq Procs /\ held \subseteq Procs /\ jammed \subseteq Procs

InboxTypeOK ==
    /\ approval \in [Reqs -> {"none", "asked", "pending", "decided",
                              "expired", "lost"}]
    /\ asker    \in [Reqs -> Procs \union {NoProc}]
    /\ answers  \in [Reqs -> [Procs -> Nat]]

ThreadTypeOK ==
    /\ pc  \in [Threads -> PCs]
    /\ op  \in [Threads -> Ops]
    /\ sid \in [Threads -> Sessions \union {NoSess}]
    /\ pid \in [Threads -> Procs \union {NoProc}]
    /\ rid \in [Threads -> Reqs \union {NoReq}]
    /\ vid \in [Threads -> Sessions \union {NoSess}]

\* The types of every variable: registry, children, inbox and threads.
TypeOK ==
    /\ state    \in [Sessions -> States]
    /\ procs    \in [Sessions -> Procs \union {NoProc}]
    /\ closing  \in SUBSET Sessions
    /\ starting \in SUBSET Sessions
    /\ sem      \in Nat
    /\ events   \in [Procs -> Seq(Events)]
    /\ pump     \in [Procs -> PumpPCs]
    /\ main     \in [pc   : {"serving", "drain", "await"},
                     todo : SUBSET (Sessions \X Procs),
                     s    : Sessions \union {NoSess},
                     p    : Procs \union {NoProc}]
    /\ ChildTypeOK /\ InboxTypeOK /\ ThreadTypeOK

Serving == [pc |-> "serving", todo |-> {}, s |-> NoSess, p |-> NoProc]

Init ==
    /\ state    = [s \in Sessions |-> "none"]
    /\ procs    = [s \in Sessions |-> NoProc]
    /\ closing  = {}
    /\ starting = {}
    /\ sem      = 0
    /\ owner    = [p \in Procs |-> NoSess]
    /\ run      = [p \in Procs |-> "unused"]
    /\ stdin    = [p \in Procs |-> FALSE]
    /\ turns    = [p \in Procs |-> 0]
    /\ asks     = [p \in Procs |-> NoReq]
    /\ intr     = [p \in Procs |-> FALSE]
    /\ events   = [p \in Procs |-> <<>>]
    /\ killed   = {} /\ held = {} /\ jammed = {}
    /\ pump     = [p \in Procs |-> "none"]
    /\ approval = [r \in Reqs |-> "none"]
    /\ asker    = [r \in Reqs |-> NoProc]
    /\ answers  = [r \in Reqs |-> [p \in Procs |-> 0]]
    /\ pc       = [t \in Threads |-> "idle"]
    /\ op       = [t \in Threads |-> "none"]
    /\ sid      = [t \in Threads |-> NoSess]
    /\ pid      = [t \in Threads |-> NoProc]
    /\ rid      = [t \in Threads |-> NoReq]
    /\ vid      = [t \in Threads |-> NoSess]
    /\ main     = Serving

-----------------------------------------------------------------------------
(* Helpers. *)

Tracked(s) == procs[s] # NoProc

\* The thread begins, goes on at l, keeps a process for later, or returns.
Local(t, o, s, p, r, v) ==
    /\ op'  = [op  EXCEPT ![t] = o]
    /\ sid' = [sid EXCEPT ![t] = s]
    /\ pid' = [pid EXCEPT ![t] = p]
    /\ rid' = [rid EXCEPT ![t] = r]
    /\ vid' = [vid EXCEPT ![t] = v]
At(t, l) == pc' = [pc EXCEPT ![t] = l]
Call(t, o, s, r, l) == pc[t] = "idle" /\ At(t, l) /\ Local(t, o, s, NoProc, r, NoSess)
Goto(t, l) == At(t, l) /\ UNCHANGED frame
GotoWithProc(t, l, p) ==
    At(t, l) /\ pid' = [pid EXCEPT ![t] = p] /\ UNCHANGED <<op, sid, rid, vid>>
Return(t) == At(t, "idle") /\ Local(t, "none", NoSess, NoProc, NoReq, NoSess)

SetState(s, st) == state' = [state EXCEPT ![s] = st]

\* slots.release: a receive that never blocks.
Released == IF sem > 0 THEN sem - 1 ELSE 0

\* process.Send and process.Decide fail once stdin is closed or the child
\* is gone.
Writable(p) == run[p] = "live" /\ stdin[p]

\* process.write holds the process's mutex while the child takes the bytes: as
\* long as a write does not return, nobody else writes to the child or closes
\* its stdin.  It returns at the latest when the child is gone.
Free(p) == p \notin jammed

\* The first half of process.Close: close stdin.  The second half, waiting
\* for the child to be gone, is the caller's next step.
StdinClosed(p) == /\ stdin' = [stdin EXCEPT ![p] = FALSE]
                  /\ UNCHANGED <<owner, run, turns, asks, intr>>

\* process.Decide: the child reads one control_response for request r.  It
\* unblocks a child that is waiting for exactly that request.
Answered(p, r) ==
    /\ answers' = [answers EXCEPT ![r][p] = @ + 1]
    /\ asks' = [asks EXCEPT ![p] = IF @ = r THEN NoReq ELSE @]
    /\ UNCHANGED <<owner, run, stdin, turns, intr>>

\* process.Send: one more user message for the child.
Delivered(p) == /\ turns' = [turns EXCEPT ![p] = @ + 1]
                /\ UNCHANGED <<owner, run, stdin, asks, intr>>

-----------------------------------------------------------------------------
(* Create, Send, SwitchModel, Close and Interrupt: the calls. *)

\* Create inserts the row in state running.  A worktree that cannot be made
\* or attached then fails the session as an error of startProcess does.
Create(t, s) ==
    /\ state[s] = "none"
    /\ SetState(s, "running")
    /\ Call(t, "Create", s, NoReq, "acquire")
    /\ UNCHANGED <<registry, sem, external, pump, inbox, main>>

\* Send reads the row first and refuses a waiting session.
Send(t, s) ==
    /\ state[s] \notin {"none", "waiting"}
    /\ Call(t, "Send", s, NoReq, "send")
    /\ UNCHANGED <<state, registry, sem, external, pump, inbox, main>>

\* Send's critical section: use the tracked process, wait for a concurrent
\* start, or claim the start.
SendLocked(t) ==
    LET s == sid[t] IN
    /\ pc[t] = "send"
    /\ \/ Tracked(s) /\ GotoWithProc(t, "deliver", procs[s])
          /\ UNCHANGED starting
       \/ ~Tracked(s) /\ s \in starting /\ Goto(t, "waitStart")
          /\ UNCHANGED starting
       \/ ~Tracked(s) /\ s \notin starting /\ Goto(t, "acquire")
          /\ starting' = starting \union {s}
    /\ UNCHANGED <<state, procs, closing, sem, external, pump, inbox, main>>

\* waitForStartingProcess: the other Send's process appears, or that Send
\* has failed, or the wait times out.
WaitForStartingProcess(t) ==
    LET s == sid[t] IN
    /\ pc[t] = "waitStart"
    /\ \/ Tracked(s) /\ GotoWithProc(t, "deliver", procs[s])
       \/ ~Tracked(s) /\ Return(t)
    /\ UNCHANGED <<state, registry, sem, external, pump, inbox, main>>

\* entry.proc.Send on a process another call has started.
Deliver(t) ==
    LET p == pid[t] IN
    /\ pc[t] = "deliver" /\ Free(p)
    /\ \/ Writable(p) /\ turns[p] < MaxTurns /\ Delivered(p)
       \/ ~Writable(p) /\ UNCHANGED child
    /\ Return(t)
    /\ UNCHANGED <<state, registry, sem, events, faults, pump, inbox, main>>

\* The deferred delete(s.starting, id) that ends a Send which started a
\* process, or failed to.
Unmark(t) ==
    /\ pc[t] = "unmark"
    /\ starting' = starting \ {sid[t]}
    /\ Return(t)
    /\ UNCHANGED <<state, procs, closing, sem, external, pump, inbox, main>>

\* SwitchModel reads the row first and refuses a waiting session.
SwitchModel(t, s) ==
    /\ state[s] \notin {"none", "waiting"}
    /\ Call(t, "SwitchModel", s, NoReq, "swClose")
    /\ UNCHANGED <<state, registry, sem, external, pump, inbox, main>>

\* closeLiveProcess's critical section marks the tracked process closing.
CloseLiveProcess(t) ==
    LET s == sid[t] IN
    /\ pc[t] = "swClose"
    /\ \/ /\ Tracked(s)
          /\ closing' = closing \union {s}
          /\ GotoWithProc(t, "swShut", procs[s])
       \/ /\ ~Tracked(s)
          /\ Goto(t, "acquire")
          /\ UNCHANGED closing
    /\ UNCHANGED <<state, procs, starting, sem, external, pump, inbox, main>>

\* closeLiveProcess polls until the session has no tracked process, or gives
\* up, which ends SwitchModel; so does an error when the model is stored.
CloseLiveProcessWait(t) ==
    /\ pc[t] = "swWait"
    /\ \/ ~Tracked(sid[t]) /\ GotoWithProc(t, "acquire", NoProc)
       \/ Return(t)
    /\ UNCHANGED <<state, registry, sem, external, pump, inbox, main>>

Close(t, s) ==
    /\ state[s] # "none"
    /\ Call(t, "Close", s, NoReq,
            IF state[s] = "closed" THEN "closeRead" ELSE "close")
    /\ UNCHANGED <<state, registry, sem, external, pump, inbox, main>>

\* Mutant: Close forgets the process before its pump has seen it exit.
CloseLockedForgets(t) ==
    LET s == sid[t] IN
    /\ pc[t] \in {"close", "closeRead"} /\ Tracked(s)
    /\ procs' = [procs EXCEPT ![s] = NoProc]
    /\ GotoWithProc(t, "shut", procs[s])
    /\ UNCHANGED <<state, closing, starting, sem, external, pump, inbox, main>>

\* Close's critical section: a tracked process is closed, otherwise the row
\* is, unless Close had read it closed already.
CloseLocked(t) ==
    LET s == sid[t] IN
    /\ pc[t] \in {"close", "closeRead"}
    /\ \/ /\ Tracked(s)
          /\ closing' = closing \union {s}
          /\ GotoWithProc(t, "shut", procs[s])
       \/ /\ ~Tracked(s)
          /\ IF pc[t] = "close" THEN Goto(t, "closeSet") ELSE Return(t)
          /\ UNCHANGED closing
    /\ UNCHANGED <<state, procs, starting, sem, external, pump, inbox, main>>

\* Mutant: Close waits for the child and does not close its stdin.
CloseStdinSkipped(t) ==
    /\ \/ pc[t] = "shut" /\ Goto(t, "await")
       \/ pc[t] = "swShut" /\ Goto(t, "swAwait")
    /\ UNCHANGED <<state, registry, sem, external, pump, inbox, main>>

\* The first half of process.Close, outside the lock: the process the thread
\* has found may be gone or replaced by now.  A write that does not return
\* keeps Close from its mutex.
CloseStdin(t) ==
    /\ \/ pc[t] = "shut" /\ Goto(t, "await")
       \/ pc[t] = "swShut" /\ Goto(t, "swAwait")
    /\ Free(pid[t]) /\ StdinClosed(pid[t])
    /\ UNCHANGED <<state, registry, sem, events, faults, pump, inbox, main>>

CloseSetState(t) ==
    /\ pc[t] = "closeSet"
    /\ SetState(sid[t], "closed")
    /\ Return(t)
    /\ UNCHANGED <<registry, sem, external, pump, inbox, main>>

\* Interrupt only writes to the child, which will cut its turn short.
Interrupt(s) ==
    /\ Tracked(s) /\ Writable(procs[s]) /\ Free(procs[s]) /\ turns[procs[s]] > 0
    /\ intr' = [intr EXCEPT ![procs[s]] = TRUE]
    /\ UNCHANGED <<owner, run, stdin, turns, asks>>
    /\ UNCHANGED <<state, registry, sem, events, faults, pump, inbox, threads, main>>

-----------------------------------------------------------------------------
(* startProcess, shared by Create, Send and SwitchModel. *)

\* The thread's call fails: Create and SwitchModel go on to fail the session,
\* Send only drops its start marker.
Failed(t) == Goto(t, IF op[t] = "Send" THEN "unmark" ELSE "fail")

\* Mutant: one slot too many.
AcquireOffByOne(t) ==
    /\ pc[t] = "acquire"
    /\ \/ sem <= MaxOpen /\ sem' = sem + 1 /\ Goto(t, "start")
       \/ sem > MaxOpen /\ Goto(t, "evict") /\ UNCHANGED sem
    /\ UNCHANGED <<state, registry, external, pump, inbox, main>>

\* startProcess may fail before it asks for a slot (no harness, no usable
\* credential; in Create, no worktree).  slots.acquire, first attempt: take a free slot at once;
\* otherwise an interactive caller evicts before it waits.
Acquire(t) ==
    /\ pc[t] = "acquire"
    /\ \/ Failed(t) /\ UNCHANGED sem
       \/ sem < MaxOpen /\ sem' = sem + 1 /\ Goto(t, "start")
       \/ /\ sem >= MaxOpen
          /\ Goto(t, IF sid[t] \in Unattended THEN "wait" ELSE "evict")
          /\ UNCHANGED sem
    /\ UNCHANGED <<state, registry, external, pump, inbox, main>>

\* evictOldestIdleUnattended picks a tracked session that is open and whose
\* profile is unattended.  Which one is oldest is a matter of timestamps the
\* model does not keep: any candidate may be.
Evict(t) ==
    LET candidates == {v \in Unattended : Tracked(v) /\ state[v] = "open"} IN
    /\ pc[t] = "evict"
    /\ \/ \E v \in candidates :
             /\ At(t, "track") /\ vid' = [vid EXCEPT ![t] = v]
             /\ UNCHANGED <<op, sid, pid, rid>>
       \/ candidates = {} /\ Goto(t, "wait")
    /\ UNCHANGED <<state, registry, sem, external, pump, inbox, main>>

\* Mutant: closeTracked forgets the process before its pump has seen it exit.
CloseTrackedForgets(t) ==
    LET v == vid[t] IN
    /\ pc[t] = "track" /\ Tracked(v)
    /\ procs' = [procs EXCEPT ![v] = NoProc]
    /\ GotoWithProc(t, "shut", procs[v])
    /\ UNCHANGED <<state, closing, starting, sem, external, pump, inbox, main>>

\* Mutant: closeTracked marks the session but never closes the process.
CloseTrackedOnlyMarks(t) ==
    /\ pc[t] = "track"
    /\ closing' = IF Tracked(vid[t]) THEN closing \union {vid[t]} ELSE closing
    /\ IF op[t] = "Reap" THEN Return(t) ELSE Goto(t, "wait")
    /\ UNCHANGED <<state, procs, starting, sem, external, pump, inbox, main>>

\* closeTracked, for an eviction or the idle reaper: the session may have
\* lost its process since it was picked.
CloseTracked(t) ==
    LET v == vid[t] IN
    /\ pc[t] = "track"
    /\ \/ /\ Tracked(v)
          /\ closing' = closing \union {v}
          /\ GotoWithProc(t, "shut", procs[v])
       \/ /\ ~Tracked(v)
          /\ IF op[t] = "Reap" THEN Return(t) ELSE Goto(t, "wait")
          /\ UNCHANGED closing
    /\ UNCHANGED <<state, procs, starting, sem, external, pump, inbox, main>>

\* How a call goes on after process.Close.
AfterClose(t) ==
    IF op[t] \in {"Reap", "Close"} THEN Return(t) ELSE GotoWithProc(t, "wait", NoProc)

\* process.Close waits until the exit event is out (the child is killed when it
\* does not leave by itself).
AwaitGone(t) ==
    /\ pc[t] \in {"await", "swAwait"}
    /\ run[pid[t]] = "gone"
    /\ IF pc[t] = "await" THEN AfterClose(t) ELSE Goto(t, "swWait")
    /\ UNCHANGED <<state, registry, sem, external, pump, inbox, main>>

\* Or the request is over first: process.Close kills the child and returns
\* without waiting.  A duplicate's slot goes back while the child still dies.
CloseCancelled(t) ==
    /\ pc[t] \in {"await", "swAwait", "dup"} /\ run[pid[t]] = "live"
    /\ killed' = killed \union {pid[t]}
    /\ \/ pc[t] = "await" /\ AfterClose(t) /\ sem' = sem
       \/ pc[t] = "swAwait" /\ Return(t) /\ sem' = sem
       \/ pc[t] = "dup" /\ Failed(t) /\ sem' = Released
    /\ UNCHANGED <<state, registry, child, events, held, jammed, pump, inbox, main>>

\* slots.acquire, second attempt: a slot comes free, or 30s pass, or the
\* request is cancelled.
AcquireWait(t) ==
    /\ pc[t] = "wait"
    /\ \/ sem < MaxOpen /\ sem' = sem + 1 /\ Goto(t, "start")
       \/ Failed(t) /\ UNCHANGED sem
    /\ UNCHANGED <<state, registry, external, pump, inbox, main>>

\* Mutant: a failed start keeps its slot.
HarnessStartLeak(t) ==
    /\ pc[t] = "start"
    /\ \/ \E p \in Procs :
             /\ run[p] = "unused"
             /\ owner' = [owner EXCEPT ![p] = sid[t]]
             /\ run' = [run EXCEPT ![p] = "live"]
             /\ stdin' = [stdin EXCEPT ![p] = TRUE]
             /\ UNCHANGED <<turns, asks, intr>>
             /\ GotoWithProc(t, "register", p)
       \/ Failed(t) /\ UNCHANGED child
    /\ UNCHANGED <<state, registry, sem, events, faults, pump, inbox, main>>

\* h.Start: a new child for the session, or an error, which gives the slot
\* back.
HarnessStart(t) ==
    /\ pc[t] = "start"
    /\ \/ \E p \in Procs :
             /\ run[p] = "unused"
             /\ owner' = [owner EXCEPT ![p] = sid[t]]
             /\ run' = [run EXCEPT ![p] = "live"]
             /\ stdin' = [stdin EXCEPT ![p] = TRUE]
             /\ UNCHANGED <<turns, asks, intr>>
             /\ GotoWithProc(t, "register", p)
             /\ UNCHANGED sem
       \/ Failed(t) /\ sem' = Released /\ UNCHANGED child
    /\ UNCHANGED <<state, registry, events, faults, pump, inbox, main>>

\* Mutant: the newcomer replaces the process the session has.
RegisterProcessOverwrites(t) ==
    /\ pc[t] = "register"
    /\ procs' = [procs EXCEPT ![sid[t]] = pid[t]]
    /\ closing' = closing \ {sid[t]}
    /\ pump' = [pump EXCEPT ![pid[t]] = "recv"]
    /\ Goto(t, IF op[t] = "Create" THEN "first" ELSE "setRunning")
    /\ UNCHANGED <<state, starting, sem, external, inbox, main>>

\* registerProcess and the start of the pump: a session that already has a
\* process keeps it, and the newcomer is closed.
RegisterProcess(t) ==
    LET s == sid[t]
        p == pid[t]
    IN
    /\ pc[t] = "register"
    /\ \/ /\ ~Tracked(s)
          /\ procs' = [procs EXCEPT ![s] = p]
          /\ closing' = closing \ {s}
          /\ pump' = [pump EXCEPT ![p] = "recv"]
          /\ Goto(t, IF op[t] = "Create" THEN "first" ELSE "setRunning")
          /\ UNCHANGED child
       \/ /\ Tracked(s)
          /\ StdinClosed(p)
          /\ Goto(t, "dup")
          /\ UNCHANGED <<procs, closing, pump>>
    /\ UNCHANGED <<state, starting, sem, events, faults, inbox, main>>

\* The duplicate is gone (or see CloseCancelled); its slot is given back and
\* the call fails.
DropDuplicate(t) ==
    /\ pc[t] = "dup"
    /\ run[pid[t]] = "gone"
    /\ sem' = Released
    /\ Failed(t)
    /\ UNCHANGED <<state, registry, external, pump, inbox, main>>

\* A resumed session is marked running; SwitchModel has no message to send.
StartSetRunning(t) ==
    /\ pc[t] = "setRunning"
    /\ SetState(sid[t], "running")
    /\ IF op[t] = "SwitchModel" THEN Return(t) ELSE Goto(t, "first")
    /\ UNCHANGED <<registry, sem, external, pump, inbox, main>>

\* The first message of a process.
StartSend(t) ==
    LET p == pid[t] IN
    /\ pc[t] = "first" /\ Free(p)
    /\ \/ /\ Writable(p) /\ turns[p] < MaxTurns /\ Delivered(p)
          /\ IF op[t] = "Send" THEN Goto(t, "unmark") ELSE Return(t)
       \/ ~Writable(p) /\ Failed(t) /\ UNCHANGED child
    /\ UNCHANGED <<state, registry, sem, events, faults, pump, inbox, main>>

\* Create and SwitchModel mark the session failed when startProcess fails; the
\* row stays as it is when the request is over.
StartFailed(t) ==
    /\ pc[t] = "fail"
    /\ SetState(sid[t], "failed") \/ ("Cancel" \in Calls /\ state' = state)
    /\ Return(t)
    /\ UNCHANGED <<registry, sem, external, pump, inbox, main>>

-----------------------------------------------------------------------------
(* The pump of process p. *)

\* The pump takes the next event off the channel.
Receive(p, e) ==
    /\ pump[p] = "recv" /\ events[p] # <<>> /\ Head(events[p]) = e
    /\ events' = [events EXCEPT ![p] = Tail(@)]
PumpGoto(p, l) == pump' = [pump EXCEPT ![p] = l]

PumpToolUse(p) ==
    /\ Receive(p, "tool")
    /\ SetState(owner[p], "running")
    /\ UNCHANGED <<registry, sem, child, faults, pump, inbox, threads, main>>

PumpResult(p) ==
    /\ Receive(p, "result")
    /\ SetState(owner[p], "open")
    /\ UNCHANGED <<registry, sem, child, faults, pump, inbox, threads, main>>

\* handlePermission: record the approval; if that fails deny the request on
\* the spot, which may have to wait for another write.
HandlePermission(p, r) ==
    /\ Receive(p, r)
    /\ \/ /\ approval' = [approval EXCEPT ![r] = "pending"]
          /\ PumpGoto(p, "perm")
          /\ UNCHANGED <<child, answers>>
       \/ /\ approval' = [approval EXCEPT ![r] = "lost"] /\ Free(p)
          /\ PumpGoto(p, "permFail")
          /\ IF Writable(p) THEN Answered(p, r) ELSE UNCHANGED <<child, answers>>
       \/ /\ approval' = [approval EXCEPT ![r] = "lost"] /\ p \in jammed
          /\ PumpGoto(p, "permJam")
          /\ UNCHANGED <<child, answers>>
    /\ UNCHANGED <<state, registry, sem, faults, asker, threads, main>>

\* ... and then move the session to waiting, or to failed.
PumpPermissionState(p) ==
    /\ \/ pump[p] = "perm" /\ SetState(owner[p], "waiting")
       \/ pump[p] = "permFail" /\ SetState(owner[p], "failed")
    /\ PumpGoto(p, "recv")
    /\ UNCHANGED <<registry, sem, external, inbox, threads, main>>

\* handleExit: classify the exit under the lock, ...
HandleExit(p) ==
    /\ \/ Receive(p, "exit0") /\ PumpGoto(p, "exitClosed")
       \/ Receive(p, "exit1")
          /\ PumpGoto(p, IF owner[p] \in closing THEN "exitClosed"
                                                      ELSE "exitFailed")
    /\ UNCHANGED <<state, registry, sem, child, faults, inbox, threads, main>>

\* ... write the row, ...
ExitSetState(p) ==
    /\ \/ pump[p] = "exitClosed" /\ SetState(owner[p], "closed")
       \/ pump[p] = "exitFailed" /\ SetState(owner[p], "failed")
    /\ PumpGoto(p, "unregister")
    /\ UNCHANGED <<registry, sem, external, inbox, threads, main>>

\* Mutant: the closing mark survives the process.
UnregisterProcessKeepsMark(p) ==
    /\ pump[p] = "unregister"
    /\ procs' = [procs EXCEPT ![owner[p]] = NoProc]
    /\ PumpGoto(p, "release")
    /\ UNCHANGED <<state, closing, starting, sem, external, inbox, threads, main>>

\* ... unregister whatever process the session has, ...
UnregisterProcess(p) ==
    /\ pump[p] = "unregister"
    /\ procs' = [procs EXCEPT ![owner[p]] = NoProc]
    /\ closing' = closing \ {owner[p]}
    /\ PumpGoto(p, "release")
    /\ UNCHANGED <<state, starting, sem, external, inbox, threads, main>>

\* ... and release the slot.
ReleaseSlot(p) ==
    /\ pump[p] = "release"
    /\ sem' = Released
    /\ PumpGoto(p, "done")
    /\ UNCHANGED <<state, registry, external, inbox, threads, main>>

-----------------------------------------------------------------------------
(* The harness process, as the service's code relies on it (external). *)

Emit(p, e) ==
    /\ run[p] = "live" /\ Len(events[p]) < EventCap
    /\ events' = [events EXCEPT ![p] = Append(@, e)]

ChildToolUse(p) ==
    /\ turns[p] > 0 /\ asks[p] = NoReq
    /\ Emit(p, "tool")
    /\ UNCHANGED <<state, registry, sem, child, faults, pump, inbox, threads, main>>

\* A permission request blocks the turn until its control_response comes.
ChildAsk(p, r) ==
    /\ turns[p] > 0 /\ asks[p] = NoReq
    /\ approval[r] = "none"
    /\ Emit(p, r)
    /\ asks' = [asks EXCEPT ![p] = r]
    /\ approval' = [approval EXCEPT ![r] = "asked"]
    /\ asker' = [asker EXCEPT ![r] = p]
    /\ UNCHANGED <<owner, run, stdin, turns, intr>>
    /\ UNCHANGED <<state, registry, sem, faults, pump, answers, threads, main>>

\* The turn ends; an interrupt also ends a turn that is blocked.
ChildResult(p) ==
    /\ turns[p] > 0 /\ (asks[p] = NoReq \/ intr[p])
    /\ Emit(p, "result")
    /\ turns' = [turns EXCEPT ![p] = @ - 1]
    /\ asks' = [asks EXCEPT ![p] = NoReq]
    /\ intr' = [intr EXCEPT ![p] = FALSE]
    /\ UNCHANGED <<owner, run, stdin>>
    /\ UNCHANGED <<state, registry, sem, faults, pump, inbox, threads, main>>

\* The child leaves: because its stdin was closed, or by itself, cleanly or
\* not.  Its reader queues the exit event as the channel's last, once stdout is
\* at its end; until then the process counts as live.
ChildExit(p) ==
    /\ p \notin held
    /\ \E e \in Exits : Emit(p, e)
    /\ run' = [run EXCEPT ![p] = "gone"]
    /\ turns' = [turns EXCEPT ![p] = 0]
    /\ asks' = [asks EXCEPT ![p] = NoReq]
    /\ intr' = [intr EXCEPT ![p] = FALSE]
    /\ killed' = killed \ {p} /\ jammed' = jammed \ {p}
    /\ UNCHANGED <<owner, stdin, held>>
    /\ UNCHANGED <<state, registry, sem, pump, inbox, threads, main>>

\* A tool leaves a process behind that keeps stdout open for ever.
Hold(p) ==
    /\ run[p] = "live" /\ turns[p] > 0
    /\ held' = held \union {p}
    /\ UNCHANGED <<state, registry, sem, child, events, killed, jammed, pump, inbox,
                   threads, main>>

\* The child stops reading with its pipe full, so that a write to it does not
\* return: a message, a decision or an interrupt.
Jam(p) ==
    /\ Writable(p)
    /\ \/ \E t \in Threads : pc[t] \in {"deliver", "first", "tell", "exTell"} /\ pid[t] = p
       \/ "Interrupt" \in Calls /\ procs[owner[p]] = p
    /\ jammed' = jammed \union {p}
    /\ UNCHANGED <<state, registry, sem, child, events, killed, held, pump, inbox,
                   threads, main>>

\* The child dies, and the denial the pump was about to write fails; the exit
\* event may come later (ChildExit).
JamEnds(p) ==
    /\ pump[p] = "permJam" /\ PumpGoto(p, "permFail")
    /\ UNCHANGED <<state, registry, sem, external, inbox, threads, main>>

-----------------------------------------------------------------------------
(* Approvals: a human's Decide, and the janitor's expireApprovals. *)

\* Mutant: the update does not ask for a pending row.
DecideUnguarded(t, r) ==
    /\ approval[r] \notin {"none", "asked"}
    /\ approval' = [approval EXCEPT ![r] = "decided"]
    /\ Call(t, "Decide", owner[asker[r]], r, "decideRun")
    /\ UNCHANGED <<state, registry, sem, external, pump, asker, answers, main>>

\* Approvals.Decide updates a row only while it is pending: the winner goes
\* on, a loser's call is over.
Decide(t, r) ==
    /\ approval[r] = "pending"
    /\ approval' = [approval EXCEPT ![r] = "decided"]
    /\ Call(t, "Decide", owner[asker[r]], r, "decideRun")
    /\ UNCHANGED <<state, registry, sem, external, pump, asker, answers, main>>

\* The session is running again before its process hears the decision.
DecideSetRunning(t) ==
    /\ pc[t] = "decideRun"
    /\ SetState(sid[t], "running")
    /\ Goto(t, "lookup")
    /\ UNCHANGED <<registry, sem, external, pump, inbox, main>>

DecideLookup(t) ==
    LET s == sid[t] IN
    /\ pc[t] = "lookup"
    /\ IF Tracked(s) THEN GotoWithProc(t, "tell", procs[s]) ELSE Return(t)
    /\ UNCHANGED <<state, registry, sem, external, pump, inbox, main>>

DecideTell(t) ==
    LET p == pid[t] IN
    /\ pc[t] = "tell" /\ Free(p)
    /\ IF Writable(p) THEN Answered(p, rid[t])
                      ELSE UNCHANGED <<child, answers>>
    /\ Return(t)
    /\ UNCHANGED <<state, registry, sem, events, faults, pump, approval, asker, main>>

\* Mutant: the sweep lists the approvals of the attended profiles.
ExpireListAttended(t, r) ==
    LET s == owner[asker[r]] IN
    /\ approval[r] = "pending" /\ s \notin Unattended
    /\ Call(t, "Expire", s, r, "expire")
    /\ UNCHANGED <<state, registry, sem, external, pump, inbox, main>>

\* expireApprovals lists the pending approvals of unattended sessions; the
\* one it comes to next may have been decided since.
ExpireList(t, r) ==
    LET s == owner[asker[r]] IN
    /\ approval[r] = "pending" /\ s \in Unattended
    /\ Call(t, "Expire", s, r, "expire")
    /\ UNCHANGED <<state, registry, sem, external, pump, inbox, main>>

ExpireDecide(t) ==
    LET r == rid[t] IN
    /\ pc[t] = "expire"
    /\ \/ /\ approval[r] = "pending"
          /\ approval' = [approval EXCEPT ![r] = "expired"]
          /\ Goto(t, "exLookup")
       \/ /\ approval[r] # "pending"
          /\ Return(t)
          /\ UNCHANGED approval
    /\ UNCHANGED <<state, registry, sem, external, pump, asker, answers, main>>

ExpireLookup(t) ==
    LET s == sid[t] IN
    /\ pc[t] = "exLookup"
    /\ IF Tracked(s) THEN GotoWithProc(t, "exRun", procs[s])
                     ELSE Goto(t, "exOpen")
    /\ UNCHANGED <<state, registry, sem, external, pump, inbox, main>>

\* The row's next state: open without a process, running before the process
\* is told, failed if it cannot be told.
ExpireSetState(t) ==
    /\ \/ pc[t] = "exOpen" /\ SetState(sid[t], "open") /\ Return(t)
       \/ pc[t] = "exRun" /\ SetState(sid[t], "running")
          /\ Goto(t, "exTell")
       \/ pc[t] = "exFail" /\ SetState(sid[t], "failed") /\ Return(t)
    /\ UNCHANGED <<registry, sem, external, pump, inbox, main>>

ExpireTell(t) ==
    LET p == pid[t] IN
    /\ pc[t] = "exTell" /\ Free(p)
    /\ \/ Writable(p) /\ Answered(p, rid[t]) /\ Return(t)
       \/ ~Writable(p) /\ Goto(t, "exFail") /\ UNCHANGED <<child, answers>>
    /\ UNCHANGED <<state, registry, sem, events, faults, pump, approval, asker, main>>

\* reapIdle lists the sessions that are open and inactive for IdleTimeout,
\* and comes to one of them.
ReapIdle(t, s) ==
    /\ state[s] = "open"
    /\ pc[t] = "idle"
    /\ At(t, "track") /\ Local(t, "Reap", NoSess, NoProc, NoReq, s)
    /\ UNCHANGED <<state, registry, sem, external, pump, inbox, main>>

-----------------------------------------------------------------------------
(* Shutdown, and the restart of the server, also after a crash. *)

ShutdownBegin ==
    LET live == {s \in Sessions : Tracked(s)} IN
    /\ main.pc = "serving"
    /\ closing' = closing \union live
    /\ main' = [pc |-> "drain", todo |-> {<<s, procs[s]>> : s \in live},
                s |-> NoSess, p |-> NoProc]
    /\ UNCHANGED <<state, procs, starting, sem, external, pump, inbox, threads>>

ShutdownClose(s, p) ==
    /\ main.pc = "drain" /\ <<s, p>> \in main.todo /\ Free(p)
    /\ StdinClosed(p)
    /\ main' = [pc |-> "await", todo |-> main.todo \ {<<s, p>>},
                s |-> s, p |-> p]
    /\ UNCHANGED <<state, registry, sem, events, faults, pump, inbox, threads>>

\* The child is gone, or shutdownTimeout passes and it is killed.
ShutdownSetState ==
    /\ main.pc = "await"
    /\ killed' = killed \union {p \in Procs : p = main.p /\ run[p] = "live"}
    /\ SetState(main.s, "closed")
    /\ main' = [pc |-> "drain", todo |-> main.todo, s |-> NoSess, p |-> NoProc]
    /\ UNCHANGED <<registry, sem, child, events, held, jammed, pump, inbox, threads>>

\* The server stops, at the end of Shutdown or at any point in a crash, and
\* its children with it; serve closes every row that still looked alive.
Restart ==
    /\ state' = [s \in Sessions |->
                    IF state[s] \in {"open", "running", "waiting"}
                    THEN "closed" ELSE state[s]]
    /\ procs' = [s \in Sessions |-> NoProc]
    /\ closing' = {} /\ starting' = {} /\ sem' = 0
    /\ run' = [p \in Procs |-> IF run[p] = "unused" THEN "unused" ELSE "gone"]
    /\ stdin' = [p \in Procs |-> FALSE]
    /\ turns' = [p \in Procs |-> 0]
    /\ asks' = [p \in Procs |-> NoReq]
    /\ intr' = [p \in Procs |-> FALSE]
    /\ events' = [p \in Procs |-> <<>>]
    /\ killed' = {} /\ held' = {} /\ jammed' = {}
    /\ pump' = [p \in Procs |-> IF pump[p] = "none" THEN "none" ELSE "done"]
    /\ pc' = [t \in Threads |-> "idle"]
    /\ op' = [t \in Threads |-> "none"]
    /\ sid' = [t \in Threads |-> NoSess]
    /\ pid' = [t \in Threads |-> NoProc]
    /\ rid' = [t \in Threads |-> NoReq]
    /\ vid' = [t \in Threads |-> NoSess]
    /\ main' = Serving
    /\ UNCHANGED <<owner, inbox>>

-----------------------------------------------------------------------------
(* Who does what.  Calls selects the workload: the operations requests,     *)
(* maintenance and the operator bring about in an instance.                 *)

CallerCalls(t) ==
    \/ \E s \in Sessions :
          \/ "Create" \in Calls /\ Create(t, s)
          \/ "Send" \in Calls /\ Send(t, s)
          \/ "SwitchModel" \in Calls /\ SwitchModel(t, s)
          \/ "Close" \in Calls /\ Close(t, s)
    \/ \E r \in Reqs : "Decide" \in Calls /\ Decide(t, r)

JanitorCalls ==
    \/ \E s \in Sessions : "Reap" \in Calls /\ ReapIdle(Janitor, s)
    \/ \E r \in Reqs : "Expire" \in Calls /\ ExpireList(Janitor, r)

StartStep(t) ==
    \/ Acquire(t) \/ Evict(t) \/ CloseTracked(t) \/ AwaitGone(t)
    \/ AcquireWait(t) \/ HarnessStart(t) \/ RegisterProcess(t)
    \/ DropDuplicate(t) \/ StartSetRunning(t) \/ StartSend(t) \/ StartFailed(t)

CallStep(t) ==
    \/ SendLocked(t) \/ WaitForStartingProcess(t) \/ Deliver(t) \/ Unmark(t)
    \/ CloseLiveProcess(t) \/ CloseLiveProcessWait(t)
    \/ CloseLocked(t) \/ CloseStdin(t) \/ CloseSetState(t)

ApprovalStep(t) ==
    \/ DecideSetRunning(t) \/ DecideLookup(t) \/ DecideTell(t)
    \/ ExpireDecide(t) \/ ExpireLookup(t) \/ ExpireSetState(t) \/ ExpireTell(t)

ThreadStep(t) == StartStep(t) \/ CallStep(t) \/ ApprovalStep(t)

PumpStep(p) ==
    \/ PumpToolUse(p) \/ PumpResult(p)
    \/ \E r \in Reqs : HandlePermission(p, r)
    \/ PumpPermissionState(p) \/ HandleExit(p) \/ ExitSetState(p)
    \/ UnregisterProcess(p) \/ ReleaseSlot(p)

ChildStep(p) ==
    \/ ChildToolUse(p) \/ ChildResult(p) \/ ChildExit(p)
    \/ \E r \in Reqs : ChildAsk(p, r)

FaultStep(p) ==
    \/ "Hold" \in Calls /\ Hold(p)
    \/ "Jam" \in Calls /\ (Jam(p) \/ JamEnds(p))

MainStep ==
    \/ "Shutdown" \in Calls /\ ShutdownBegin
    \/ "Restart" \in Calls /\ Restart
    \/ ShutdownSetState
    \/ \E s \in Sessions, p \in Procs : ShutdownClose(s, p)

Next ==
    \/ \E t \in Callers : CallerCalls(t)
    \/ JanitorCalls
    \/ \E t \in Threads : ThreadStep(t) \/ ("Cancel" \in Calls /\ CloseCancelled(t))
    \/ \E s \in Sessions : "Interrupt" \in Calls /\ Interrupt(s)
    \/ \E p \in Procs : PumpStep(p) \/ ChildStep(p) \/ FaultStep(p)
    \/ MainStep

Spec == Init /\ [][Next]_vars
-----------------------------------------------------------------------------
(* Safety. *)

\* Threads that own a slot token, and pumps that still have to give theirs
\* back.
HoldingThreads == {t \in Threads : pc[t] \in {"start", "register", "dup"}}
Registered     == PumpPCs \ {"none", "release", "done"}
HoldingPumps   == {p \in Procs : pump[p] \notin {"none", "done"}}

\* Duplicates that were killed when the request that started them was over,
\* and nobody waits for; the other children that live.
Dropped        == {p \in killed : pump[p] = "none"}
LiveChildren   == {p \in Procs : run[p] = "live" /\ p \notin Dropped}

\* Slot accounting (slots.acquire, slots.release, startProcess, handleExit):
\* every token in the semaphore has exactly one owner that will give it back
\* exactly once, on every success, error, duplicate and exit path.  A lost
\* token would shrink MaxOpen for good; a token given back twice would let
\* one process too many run, and release, which never blocks, would hide it.
SlotsAccounted == sem = Cardinality(HoldingThreads) + Cardinality(HoldingPumps)

\* The promise of max_open_sessions: never more than MaxOpen harness processes
\* run at once, duplicates that are being closed included, but for those that
\* were sent the kill signal and are not waited for (acquire, process.Close).
LiveBounded == Cardinality(LiveChildren) <= MaxOpen

\* No process is lost: a live child is tracked under its own session, where
\* Close, eviction, the reaper and Shutdown find it, or a thread still in
\* startProcess holds it (registerProcess, unregisterProcess).
NoOrphan ==
    \A p \in LiveChildren :
        \/ procs[owner[p]] = p /\ pump[p] \in {"recv", "perm", "permJam", "permFail"}
        \/ \E t \in Threads : pc[t] \in {"register", "dup"} /\ pid[t] = p

\* unregisterProcess deletes by session id; it must only ever delete the
\* process whose exit it handles, so a pump that has not unregistered yet is
\* the pump of the tracked process.
PumpOwnsEntry ==
    \A p \in Procs :
        pump[p] \in Registered => procs[owner[p]] = p

\* A closing mark (Close, SwitchModel, eviction, reaper, Shutdown) never
\* outlives the process it was set for, so it cannot turn the crash of a
\* later process into an orderly close.
ClosingIsTracked == \A s \in closing : Tracked(s)

\* The registry follows the processes: none is lost, the pump that is about to
\* unregister by session id finds its own process there, and a closing mark
\* has a process to be about (registerProcess, unregisterProcess, closing).
RegistryFollows == NoOrphan /\ PumpOwnsEntry /\ ClosingIsTracked

\* At most one process of a session has been handed user messages it has not
\* answered: two Sends to a closed session, or a Send that races SwitchModel,
\* never have two children work on one conversation.
OneWorkingChild ==
    \A p, q \in LiveChildren :
        /\ p # q /\ owner[p] = owner[q]
        => turns[p] = 0 \/ turns[q] = 0

\* The database decides who answers: whatever the order of two humans, the
\* expiry sweep and the pump's own denial, the children see at most one
\* control_response for a request.
AnsweredOnce ==
    \A r \in Reqs : \A p, q \in Procs :
        /\ answers[r][p] <= 1
        /\ p # q => answers[r][p] + answers[r][q] <= 1

-----------------------------------------------------------------------------
(* The inductive invariant behind the safety properties. *)

\* A thread inside a call knows the session, the process and the request it
\* works on.
Frame(t) ==
    /\ pc[t] # "idle" /\ op[t] # "Reap" => sid[t] \in Sessions
    /\ op[t] = "Reap" => pc[t] \in {"track", "shut", "await"}
    /\ pc[t] = "track" => vid[t] \in Sessions
    /\ pc[t] \in {"shut", "swShut", "await", "swAwait", "setRunning", "first",
                   "deliver", "tell", "exRun", "exTell"}
        => pid[t] \in Procs /\ pump[pid[t]] # "none"
    /\ pc[t] \in {"decideRun", "lookup", "tell", "expire", "exLookup",
                   "exRun", "exTell"} => rid[t] \in Reqs

FrameOK == \A t \in Threads : Frame(t)

\* A tracked process is tracked under its own session and has a pump that has
\* not unregistered it yet.
EntriesOK ==
    \A s \in Sessions : Tracked(s) =>
        owner[procs[s]] = s /\ pump[procs[s]] \in Registered

\* A process is started, then gets its pump, then its first message; its exit
\* is the last thing its pump hears of.
ProcessesOK ==
    \A p \in Procs :
        /\ run[p] # "unused" => owner[p] \in Sessions
        /\ run[p] = "unused" => pump[p] = "none"
        /\ pump[p] = "none" => turns[p] = 0
        /\ pump[p] \in PumpPCs \ {"none", "recv", "perm", "permJam", "permFail"}
              => run[p] = "gone"
        /\ \A i \in 1 .. Len(events[p]) :
              events[p][i] \in Exits => run[p] = "gone"

\* A process between h.Start and registerProcess belongs to one thread.
StartsOK ==
    /\ \A t \in Threads : pc[t] \in {"register", "dup"} =>
          /\ pid[t] \in Procs
          /\ owner[pid[t]] = sid[t]
          /\ run[pid[t]] # "unused"
          /\ pump[pid[t]] = "none"
    /\ \A t, u \in Threads :
          /\ pc[t] \in {"register", "dup"} /\ pc[u] \in {"register", "dup"}
          /\ pid[t] = pid[u]
          => t = u

RegistryOK ==
    /\ EntriesOK /\ ProcessesOK /\ StartsOK
    /\ PumpOwnsEntry /\ NoOrphan /\ ClosingIsTracked

SlotsOK == SlotsAccounted /\ sem <= MaxOpen

\* The thread that has won the right to answer request r and may still do so.
Answering(t, r) ==
    /\ rid[t] = r
    /\ pc[t] \in {"decideRun", "lookup", "tell", "exLookup", "exRun", "exTell"}

\* A request was sent by a process that was started.
AskersKnown ==
    \A r \in Reqs : approval[r] # "none"
        => asker[r] \in Procs /\ run[asker[r]] # "unused"

\* A request has at most one thread that may answer it, and only when nobody
\* has: the one whose update of the row found it pending.
AnswerersUnique ==
    \A r \in Reqs :
        /\ approval[r] \in {"none", "asked", "pending"}
             => /\ \A t \in Threads : ~Answering(t, r)
                /\ \A p \in Procs : answers[r][p] = 0
        /\ \A t, u \in Threads : Answering(t, r) /\ Answering(u, r) => t = u
        /\ \A t \in Threads : Answering(t, r)
             => \A p \in Procs : answers[r][p] = 0

\* A request is in one channel, once, and only before it is recorded.
QueuedOnce ==
    \A r \in Reqs :
        /\ \A p \in Procs : \A i \in 1 .. Len(events[p]) :
             events[p][i] = r => approval[r] = "asked"
        /\ \A p, q \in Procs :
             \A i \in 1 .. Len(events[p]), j \in 1 .. Len(events[q]) :
                 events[p][i] = r /\ events[q][j] = r => p = q /\ i = j

ApprovalsOK == AskersKnown /\ AnswerersUnique /\ QueuedOnce /\ AnsweredOnce

-----------------------------------------------------------------------------
(* Refinement: the semaphore and its users implement a pool of slots in     *)
(* which every slot has one owner.                                          *)

Pool == INSTANCE SlotPool WITH Owners <- Threads \union Procs,
                               Size   <- MaxOpen,
                               owners <- HoldingThreads \union HoldingPumps,
                               free   <- MaxOpen - sem

\* Every step of the service takes, hands over or gives back at most one slot
\* of the pool, takes only a free one, and a process takes over the slot of
\* the thread that started it (startProcess, handleExit).
ImplementsSlotPool == Pool!Spec

-----------------------------------------------------------------------------
(* Liveness.  Goroutines are scheduled fairly; timeouts end every wait for  *)
(* a slot or a start; a child whose stdin is closed leaves, or is killed    *)
(* after 10s, and its exit is seen unless its stdout is held; the           *)
(* maintenance loop comes to every idle session and every stale approval    *)
(* again and again, whatever else it finds to do; the server does not       *)
(* restart for ever.  No request has to end before its work is done.        *)

Fairness ==
    /\ \A t \in Threads : WF_vars(ThreadStep(t))
    /\ \A p \in Procs : WF_vars(PumpStep(p)) /\ WF_vars(Free(p) /\ JamEnds(p))
    /\ \A p \in Procs : SF_vars(~stdin[p] /\ ChildExit(p))
    /\ WF_vars(MainStep /\ main.pc # "serving" /\ main'.pc # "serving")
    /\ \A s \in Sessions : SF_vars("Reap" \in Calls /\ ReapIdle(Janitor, s))
    /\ \A r \in Reqs : SF_vars("Expire" \in Calls /\ ExpireList(Janitor, r))
    /\ <>[][~Restart]_vars

FairSpec == Spec /\ Fairness

\* A process whose end cannot be waited for: its stdout is held, or a write to
\* it does not return.
Stuck(p) == p \in held \union jammed

\* A process that somebody closes is unregistered in the end, whatever it
\* still had to say: its exit event gets through to its pump although the
\* channel may be full when Close is called.
ClosingEnds ==
    \A s \in Sessions : s \in closing ~> s \notin closing \/ Stuck(procs[s])

\* Nobody waits for a slot, for another call's start or for a child's end
\* for ever: not even a call and the reaper that close each other's process.
StartEnds ==
    \A t \in Threads :
        pc[t] \notin {"idle", "deliver", "first"}
            ~> pc[t] \in {"idle", "deliver", "first"} \/ Stuck(pid[t])

\* An idle session with a process is closed in the end (reapIdle), although
\* each sweep may find that the process is just leaving or just replaced.
ReapEnds ==
    \A s \in Sessions :
        state[s] = "open" /\ Tracked(s)
            ~> state[s] # "open" \/ ~Tracked(s) \/ Stuck(procs[s]) \/ Stuck(pid[Janitor])

\* An approval nobody answers expires on an unattended profile, although its
\* session, its process or the server may have ended meanwhile
\* (expireApprovals).
PendingEnds ==
    \A r \in Reqs :
        approval[r] = "pending" ~> approval[r] # "pending" \/ Stuck(pid[Janitor])

\* What the maintenance loop is for: an approval that nobody answers expires,
\* and the process of an idle session is closed.  One process the loop cannot
\* close or tell stops it for all the others (expireApprovals, reapIdle).
SweepsEnd == PendingEnds /\ ReapEnds

\* Nobody waits for ever: a process that is being closed goes, and a call that
\* starts one returns, unless the process is stuck (process.Close,
\* slots.acquire, waitForStartingProcess).
WaitsEnd == ClosingEnds /\ StartEnds

-----------------------------------------------------------------------------
(* What the repository's comments and documents say of the service, and     *)
(* TLC refutes.                                                             *)

\* No thread is working on session s.
Settled(s) == \A t \in Threads : sid[t] # s

\* "handleExit finalizes a session's process when it exits" (runner.go:161):
\* a session without a process, and nobody at work on it, is closed or
\* failed.
ExitFinalizes ==
    \A s \in Sessions :
        Settled(s) /\ ~Tracked(s) => state[s] \in {"none", "closed", "failed"}

\* "reapIdle closes every session in state open whose last activity is older
\* than IdleTimeout" (scheduler.go:126): no session stays open for ever.
IdleEnds == \A s \in Sessions : state[s] = "open" ~> state[s] # "open"

\* SwitchModel never closes a process that is blocked on a recorded request,
\* for "killing it would strand the approval" (model.go:23).
SwitchStrandsNothing ==
    [][\A t \in Threads : pc[t] = "swClose" /\ pc'[t] = "swShut"
          => \A r \in Reqs : approval[r] = "pending"
                                => asks[procs[sid[t]]] # r]_vars
=============================================================================
