--------------------------- MODULE SessionsProofs ---------------------------
(***************************************************************************)
(* Every step of Sessions preserves its type invariant, keeps the frames   *)
(* of the threads and the registry of processes in order, and accounts for *)
(* its slots: it is a step of the abstract pool SlotPool, and the          *)
(* semaphore counts the owners.  And every step treats approvals as it     *)
(* should: a request is answered at most once.  These are the parts of     *)
(* Inv, the inductive invariant; a lemma is about one group of actions.    *)
(* The theorems at the end are about any sets of sessions, request         *)
(* goroutines, processes and requests, any workload and any number of      *)
(* slots.                                                                  *)
(***************************************************************************)
EXTENDS Sessions, FiniteSetTheorems, TLAPS

-----------------------------------------------------------------------------
(* Type correctness of the steps the actions are built from. *)

\* Whatever the service does to a child (nothing, Close's closing of stdin, a
\* user message or a control_response) keeps the child's variables in type.
LEMMA ChildType ==
    ASSUME ChildTypeOK,
           \/ UNCHANGED child
           \/ \E p \in Procs : StdinClosed(p)
           \/ \E p \in Procs : Delivered(p)
           \/ \E p \in Procs, r \in Reqs : Answered(p, r)
    PROVE  ChildTypeOK'
<1>1. CASE UNCHANGED child
  BY <1>1 DEF ChildTypeOK, child
<1>2. ASSUME NEW p \in Procs, StdinClosed(p) PROVE ChildTypeOK'
  BY <1>2 DEF ChildTypeOK, StdinClosed
<1>3. ASSUME NEW p \in Procs, Delivered(p) PROVE ChildTypeOK'
  BY <1>3 DEF ChildTypeOK, Delivered
<1>4. ASSUME NEW p \in Procs, NEW r \in Reqs, Answered(p, r) PROVE ChildTypeOK'
  BY <1>4 DEF ChildTypeOK, Answered
<1> QED
  BY <1>1, <1>2, <1>3, <1>4

\* One more control_response keeps the table of answers in type.
LEMMA AnswersType ==
    ASSUME answers \in [Reqs -> [Procs -> Nat]],
           NEW p \in Procs, NEW r \in Reqs, Answered(p, r)
    PROVE  answers' \in [Reqs -> [Procs -> Nat]]
<1>1. answers[r] \in [Procs -> Nat]
  OBVIOUS
<1>2. [answers[r] EXCEPT ![p] = @ + 1] \in [Procs -> Nat]
  BY <1>1
<1> QED
  BY <1>1, <1>2 DEF Answered

\* A thread that begins a call, goes on or returns keeps its variables in type.
LEMMA ThreadType ==
    ASSUME ThreadTypeOK, NEW t \in Threads, NEW l \in PCs, At(t, l),
           \/ UNCHANGED op \/ \E o \in Ops : op' = [op EXCEPT ![t] = o],
           \/ UNCHANGED sid
           \/ \E s \in Sessions \union {NoSess} : sid' = [sid EXCEPT ![t] = s],
           \/ UNCHANGED pid
           \/ \E p \in Procs \union {NoProc} : pid' = [pid EXCEPT ![t] = p],
           \/ UNCHANGED rid
           \/ \E r \in Reqs \union {NoReq} : rid' = [rid EXCEPT ![t] = r],
           \/ UNCHANGED vid
           \/ \E v \in Sessions \union {NoSess} : vid' = [vid EXCEPT ![t] = v]
    PROVE  ThreadTypeOK'
<1>1. pc' \in [Threads -> PCs] /\ op' \in [Threads -> Ops]
  BY DEF ThreadTypeOK, At
<1>2. sid' \in [Threads -> Sessions \union {NoSess}]
  BY DEF ThreadTypeOK
<1>3. pid' \in [Threads -> Procs \union {NoProc}]
  BY DEF ThreadTypeOK
<1>4. rid' \in [Threads -> Reqs \union {NoReq}]
  BY DEF ThreadTypeOK
<1>5. vid' \in [Threads -> Sessions \union {NoSess}]
  BY DEF ThreadTypeOK
<1> QED
  BY <1>1, <1>2, <1>3, <1>4, <1>5 DEF ThreadTypeOK

LEMMA GotoType ==
    ASSUME ThreadTypeOK, NEW t \in Threads, NEW l \in PCs, Goto(t, l)
    PROVE  ThreadTypeOK'
BY ThreadType DEF Goto, frame

LEMMA GotoWithProcType ==
    ASSUME ThreadTypeOK, NEW t \in Threads, NEW l \in PCs,
           NEW p \in Procs \union {NoProc}, GotoWithProc(t, l, p)
    PROVE  ThreadTypeOK'
BY ThreadType DEF GotoWithProc

LEMMA LocalType ==
    ASSUME ThreadTypeOK, NEW t \in Threads, NEW l \in PCs, At(t, l), 
           NEW o \in Ops, NEW s \in Sessions \union {NoSess},
           NEW p \in Procs \union {NoProc}, NEW r \in Reqs \union {NoReq},
           NEW v \in Sessions \union {NoSess}, Local(t, o, s, p, r, v)
    PROVE  ThreadTypeOK'
BY ThreadType DEF Local

LEMMA ReturnType ==
    ASSUME ThreadTypeOK, NEW t \in Threads, Return(t)
    PROVE  ThreadTypeOK'
BY LocalType DEF Return, Ops, PCs

LEMMA UnchangedType ==
    ASSUME ThreadTypeOK, UNCHANGED threads
    PROVE  ThreadTypeOK'
BY DEF ThreadTypeOK, threads, frame

-----------------------------------------------------------------------------
(* Each group of actions keeps the threads in type: every step goes on at a *)
(* label, remembers a process, or returns.                                  *)

LEMMA ThreadTypeStart ==
    ASSUME TypeOK, FrameOK, NEW t \in Threads, StartStep(t)
    PROVE  ThreadTypeOK'
<1>1. ThreadTypeOK /\ op[t] \in Ops
  BY DEF TypeOK, ThreadTypeOK
<1>2. \A l \in PCs : Goto(t, l) => ThreadTypeOK'
  BY <1>1, GotoType
<1>3. \A l \in PCs : \A p \in Procs \union {NoProc} :
          GotoWithProc(t, l, p) => ThreadTypeOK'
  BY <1>1, GotoWithProcType
<1>4. Return(t) => ThreadTypeOK'
  BY <1>1, ReturnType
<1>5. Failed(t) => ThreadTypeOK'
  BY <1>2 DEF Failed, PCs
<1>6. CASE Acquire(t)
  BY <1>2, <1>5, <1>6 DEF Acquire, PCs
<1>7. CASE Evict(t)
  <2>1. CASE Goto(t, "wait")
    BY <1>2, <2>1 DEF PCs
  <2>2. ASSUME NEW v \in Sessions, At(t, "track"), vid' = [vid EXCEPT ![t] = v],
               UNCHANGED <<op, sid, pid, rid>>
        PROVE  ThreadTypeOK'
    BY <1>1, <2>2, ThreadType DEF PCs
  <2> QED
    BY <1>7, <2>1, <2>2, SessionsAssumption DEF Evict
<1>8. CASE CloseTracked(t)
  <2>1. pc[t] = "track" => vid[t] \in Sessions /\ procs[vid[t]] \in Procs \union {NoProc}
    BY DEF FrameOK, Frame, TypeOK
  <2> QED
    BY <1>2, <1>3, <1>4, <1>8, <2>1 DEF CloseTracked, PCs
<1>9. CASE AwaitGone(t)
  BY <1>2, <1>3, <1>4, <1>9 DEF AwaitGone, AfterClose, PCs
<1>10. CASE AcquireWait(t)
  BY <1>2, <1>5, <1>10 DEF AcquireWait, PCs
<1>11. CASE HarnessStart(t)
  BY <1>3, <1>5, <1>11 DEF HarnessStart, PCs
<1>12. CASE RegisterProcess(t)
  BY <1>2, <1>12 DEF RegisterProcess, PCs
<1>13. CASE DropDuplicate(t)
  BY <1>5, <1>13 DEF DropDuplicate
<1>14. CASE StartSetRunning(t)
  BY <1>2, <1>4, <1>14 DEF StartSetRunning, PCs
<1>15. CASE StartSend(t)
  BY <1>2, <1>4, <1>5, <1>15 DEF StartSend, PCs
<1>16. CASE StartFailed(t)
  BY <1>4, <1>16 DEF StartFailed
<1> QED
  BY <1>6, <1>7, <1>8, <1>9, <1>10, <1>11, <1>12, <1>13, <1>14, <1>15, <1>16
     DEF StartStep

LEMMA ChildTypeStart ==
    ASSUME TypeOK, FrameOK, RegistryOK, NEW t \in Threads, StartStep(t)
    PROVE  ChildTypeOK'
<1>1. ChildTypeOK /\ ThreadTypeOK
  BY DEF TypeOK
<1>2. UNCHANGED child => ChildTypeOK'
  BY <1>1, ChildType
<1>3. \A p \in Procs : StdinClosed(p) => ChildTypeOK'
  BY <1>1, ChildType
<1>4. \A p \in Procs : Delivered(p) => ChildTypeOK'
  BY <1>1, ChildType
<1>6. CASE HarnessStart(t)
  <2>1. sid[t] \in Sessions \union {NoSess}
    BY <1>1 DEF ThreadTypeOK
  <2>2. ASSUME NEW p \in Procs,
               owner' = [owner EXCEPT ![p] = sid[t]],
               run' = [run EXCEPT ![p] = "live"],
               stdin' = [stdin EXCEPT ![p] = TRUE],
               UNCHANGED <<turns, asks, intr>>
        PROVE  ChildTypeOK'
    BY <1>1, <2>1, <2>2 DEF ChildTypeOK
  <2> QED
    BY <1>2, <1>6, <2>2 DEF HarnessStart
<1>7. CASE RegisterProcess(t)
  BY <1>2, <1>3, <1>7 DEF RegisterProcess, RegistryOK, StartsOK
<1>8. CASE StartSend(t)
  BY <1>2, <1>4, <1>8 DEF StartSend, FrameOK, Frame
<1>9. CASE UNCHANGED child
  BY <1>2, <1>9
<1> QED
  BY <1>6, <1>7, <1>8, <1>9
     DEF StartStep, Acquire, Evict, CloseTracked, AwaitGone, AcquireWait,
         DropDuplicate, StartSetRunning, StartFailed, external

-----------------------------------------------------------------------------
LEMMA TypeStart ==
    ASSUME TypeOK, FrameOK, RegistryOK, NEW t \in Threads, StartStep(t)
    PROVE  TypeOK'
<1> USE DEF StartStep, Acquire, Evict, CloseTracked, AwaitGone, AcquireWait,
        HarnessStart, RegisterProcess, DropDuplicate, StartSetRunning,
        StartSend, StartFailed
<1>1. ThreadTypeOK /\ ChildTypeOK /\ InboxTypeOK
  BY DEF TypeOK
<1>2. /\ pc[t] = "track" => vid[t] \in Sessions /\ procs[vid[t]] \in Procs \union {NoProc}
      /\ pc[t] = "first" => pid[t] \in Procs
  BY DEF FrameOK, Frame, TypeOK
<1>3. sem' \in Nat
  BY DEF TypeOK, Released
<1>4. state' \in [Sessions -> States]
  BY DEF TypeOK, States, SetState
<1>5. procs' \in [Sessions -> Procs \union {NoProc}]
  BY <1>1 DEF TypeOK, registry, ThreadTypeOK
<1>6. closing' \in SUBSET Sessions /\ starting' \in SUBSET Sessions
  BY <1>2 DEF TypeOK, registry
<1>7. pump' \in [Procs -> PumpPCs]
  BY DEF TypeOK, PumpPCs
<1>8. ThreadTypeOK'
  BY ThreadTypeStart
<1>9. ChildTypeOK'
  BY ChildTypeStart
<1>10. UNCHANGED <<events, inbox, main>>
  BY DEF external
<1> QED
  BY <1>1, <1>3, <1>4, <1>5, <1>6, <1>7, <1>8, <1>9, <1>10 DEF TypeOK, inbox, InboxTypeOK

LEMMA ThreadTypeCall ==
    ASSUME TypeOK, FrameOK, NEW t \in Threads, CallStep(t)
    PROVE  ThreadTypeOK'
<1>1. ThreadTypeOK
  BY DEF TypeOK
<1>2. \A l \in PCs : Goto(t, l) => ThreadTypeOK'
  BY <1>1, GotoType
<1>3. \A l \in PCs : \A p \in Procs \union {NoProc} :
          GotoWithProc(t, l, p) => ThreadTypeOK'
  BY <1>1, GotoWithProcType
<1>4. Return(t) => ThreadTypeOK'
  BY <1>1, ReturnType
<1>5. pc[t] # "idle" /\ op[t] # "Reap" => procs[sid[t]] \in Procs \union {NoProc}
  BY DEF FrameOK, Frame, TypeOK
<1>6. op[t] = "Reap" => pc[t] \in {"track", "shut", "await"}
  BY DEF FrameOK, Frame
<1>7. CASE SendLocked(t)
  BY <1>2, <1>3, <1>5, <1>6, <1>7 DEF SendLocked, PCs
<1>8. CASE WaitForStartingProcess(t)
  BY <1>3, <1>4, <1>5, <1>6, <1>8 DEF WaitForStartingProcess, PCs
<1>9. CASE Deliver(t)
  BY <1>4, <1>9 DEF Deliver
<1>10. CASE Unmark(t)
  BY <1>4, <1>10 DEF Unmark
<1>11. CASE CloseLiveProcess(t)
  BY <1>2, <1>3, <1>5, <1>6, <1>11 DEF CloseLiveProcess, PCs
<1>12. CASE CloseLiveProcessWait(t)
  BY <1>3, <1>4, <1>12 DEF CloseLiveProcessWait, PCs
<1>13. CASE CloseLocked(t)
  BY <1>2, <1>3, <1>4, <1>5, <1>6, <1>13 DEF CloseLocked, PCs
<1>14. CASE CloseSetState(t)
  BY <1>4, <1>14 DEF CloseSetState
<1>15. CASE CloseStdin(t)
  BY <1>2, <1>15 DEF CloseStdin, PCs
<1> QED
  BY <1>7, <1>8, <1>9, <1>10, <1>11, <1>12, <1>13, <1>14, <1>15 DEF CallStep

LEMMA TypeCall ==
    ASSUME TypeOK, FrameOK, NEW t \in Threads, CallStep(t)
    PROVE  TypeOK'
<1>1. ChildTypeOK /\ InboxTypeOK
  BY DEF TypeOK
<1>2. /\ pc[t] # "idle" /\ op[t] # "Reap"
            => sid[t] \in Sessions /\ procs[sid[t]] \in Procs \union {NoProc}
      /\ op[t] = "Reap" => pc[t] \in {"track", "shut", "await"}
      /\ pc[t] \in {"deliver", "shut", "swShut"} => pid[t] \in Procs
  BY DEF FrameOK, Frame, TypeOK
<1>3. state' \in [Sessions -> States]
  BY DEF TypeOK, States, SetState, CallStep, SendLocked, WaitForStartingProcess,
         Deliver, Unmark, CloseLiveProcess, CloseLiveProcessWait, CloseLocked,
         CloseStdin, CloseSetState
<1>4. closing' \in SUBSET Sessions /\ starting' \in SUBSET Sessions
  BY <1>2 DEF TypeOK, registry, CallStep, SendLocked, WaitForStartingProcess,
         Deliver, Unmark, CloseLiveProcess, CloseLiveProcessWait, CloseLocked,
         CloseStdin, CloseSetState
<1>5. ChildTypeOK'
  <2>1. UNCHANGED child => ChildTypeOK'
    BY <1>1, ChildType
  <2>2. \A p \in Procs : StdinClosed(p) => ChildTypeOK'
    BY <1>1, ChildType
  <2>3. \A p \in Procs : Delivered(p) => ChildTypeOK'
    BY <1>1, ChildType
  <2>4. CASE Deliver(t)
    BY <1>2, <2>1, <2>3, <2>4 DEF Deliver
  <2>5. CASE CloseStdin(t)
    BY <1>2, <2>2, <2>5 DEF CloseStdin
  <2> QED
    BY <2>1, <2>4, <2>5
       DEF CallStep, SendLocked, WaitForStartingProcess, Unmark,
           CloseLiveProcess, CloseLiveProcessWait, CloseLocked, CloseSetState,
           external
<1>6. UNCHANGED <<procs, sem, events, pump, inbox, main>>
  BY DEF CallStep, SendLocked, WaitForStartingProcess, Deliver, Unmark,
         CloseLiveProcess, CloseLiveProcessWait, CloseLocked, CloseStdin,
         CloseSetState, external, registry
<1> QED
  BY <1>1, <1>3, <1>4, <1>5, <1>6, ThreadTypeCall DEF TypeOK, inbox, InboxTypeOK

LEMMA ThreadTypeApproval ==
    ASSUME TypeOK, FrameOK, NEW t \in Threads, ApprovalStep(t)
    PROVE  ThreadTypeOK'
<1>1. ThreadTypeOK
  BY DEF TypeOK
<1>2. \A l \in PCs : Goto(t, l) => ThreadTypeOK'
  BY <1>1, GotoType
<1>3. \A l \in PCs : \A p \in Procs \union {NoProc} :
          GotoWithProc(t, l, p) => ThreadTypeOK'
  BY <1>1, GotoWithProcType
<1>4. Return(t) => ThreadTypeOK'
  BY <1>1, ReturnType
<1>5. pc[t] # "idle" /\ op[t] # "Reap" => procs[sid[t]] \in Procs \union {NoProc}
  BY DEF FrameOK, Frame, TypeOK
<1>6. op[t] = "Reap" => pc[t] \in {"track", "shut", "await"}
  BY DEF FrameOK, Frame
<1>7. CASE DecideSetRunning(t)
  BY <1>2, <1>7 DEF DecideSetRunning, PCs
<1>8. CASE DecideLookup(t)
  BY <1>3, <1>4, <1>5, <1>6, <1>8 DEF DecideLookup, PCs
<1>9. CASE DecideTell(t)
  BY <1>4, <1>9 DEF DecideTell
<1>10. CASE ExpireDecide(t)
  BY <1>2, <1>4, <1>10 DEF ExpireDecide, PCs
<1>11. CASE ExpireLookup(t)
  BY <1>2, <1>3, <1>5, <1>6, <1>11 DEF ExpireLookup, PCs
<1>12. CASE ExpireSetState(t)
  BY <1>2, <1>4, <1>12 DEF ExpireSetState, PCs
<1>13. CASE ExpireTell(t)
  BY <1>2, <1>4, <1>13 DEF ExpireTell, PCs
<1> QED
  BY <1>7, <1>8, <1>9, <1>10, <1>11, <1>12, <1>13 DEF ApprovalStep

LEMMA TypeApproval ==
    ASSUME TypeOK, FrameOK, NEW t \in Threads, ApprovalStep(t)
    PROVE  TypeOK'
<1>1. ChildTypeOK /\ InboxTypeOK /\ answers \in [Reqs -> [Procs -> Nat]]
  BY DEF TypeOK, InboxTypeOK
<1>2. /\ pc[t] \in {"tell", "exTell"} => pid[t] \in Procs /\ rid[t] \in Reqs
      /\ pc[t] = "expire" => rid[t] \in Reqs
  BY DEF FrameOK, Frame
<1>3. state' \in [Sessions -> States]
  BY DEF TypeOK, States, SetState, ApprovalStep, DecideSetRunning, DecideLookup,
         DecideTell, ExpireDecide, ExpireLookup, ExpireSetState, ExpireTell
<1>4. /\ approval' \in [Reqs -> {"none", "asked", "pending", "decided",
                                 "expired", "lost"}]
      /\ asker' \in [Reqs -> Procs \union {NoProc}]
  BY <1>1 DEF InboxTypeOK, inbox, ApprovalStep, DecideSetRunning, DecideLookup,
         DecideTell, ExpireDecide, ExpireLookup, ExpireSetState, ExpireTell
<1>5. ChildTypeOK' /\ answers' \in [Reqs -> [Procs -> Nat]]
  <2>1. UNCHANGED <<child, answers>>
            => ChildTypeOK' /\ answers' \in [Reqs -> [Procs -> Nat]]
    BY <1>1, ChildType
  <2>2. \A p \in Procs, r \in Reqs :
            Answered(p, r) => ChildTypeOK' /\ answers' \in [Reqs -> [Procs -> Nat]]
    BY <1>1, ChildType, AnswersType
  <2>3. CASE DecideTell(t)
    BY <1>2, <2>1, <2>2, <2>3 DEF DecideTell
  <2>4. CASE ExpireTell(t)
    BY <1>2, <2>1, <2>2, <2>4 DEF ExpireTell
  <2>5. CASE UNCHANGED <<child, answers>>
    BY <2>1, <2>5
  <2> QED
    BY <2>3, <2>4, <2>5
       DEF ApprovalStep, DecideSetRunning, DecideLookup, ExpireDecide,
           ExpireLookup, ExpireSetState, external, inbox
<1>6. UNCHANGED <<registry, sem, events, pump, main>>
  BY DEF ApprovalStep, DecideSetRunning, DecideLookup, DecideTell, ExpireDecide,
         ExpireLookup, ExpireSetState, ExpireTell, external
<1> QED
  BY <1>3, <1>4, <1>5, <1>6, ThreadTypeApproval
     DEF TypeOK, InboxTypeOK, registry

LEMMA TypeBegin ==
    ASSUME TypeOK, ApprovalsOK, NEW t \in Threads,
           CallerCalls(t) \/ (t = Janitor /\ JanitorCalls)
    PROVE  TypeOK'
<1>1. ThreadTypeOK /\ ChildTypeOK /\ InboxTypeOK
  BY DEF TypeOK
<1>2. ThreadTypeOK'
  <2>1. \A s \in Sessions \union {NoSess}, r \in Reqs \union {NoReq}, l \in PCs, o \in Ops :
            Call(t, o, s, r, l) => ThreadTypeOK'
    BY <1>1, LocalType DEF Call
  <2>2. \A r \in Reqs : approval[r] # "none" => owner[asker[r]] \in Sessions \union {NoSess}
    BY <1>1 DEF ApprovalsOK, AskersKnown, ChildTypeOK
  <2>3. UNCHANGED threads => ThreadTypeOK'
    BY <1>1, UnchangedType
  <2>4. ASSUME NEW s \in Sessions,
               Create(t, s) \/ Send(t, s) \/ SwitchModel(t, s) \/ Close(t, s)
        PROVE  ThreadTypeOK'
    BY <2>1, <2>3, <2>4 DEF Create, Send, SwitchModel, Close, PCs, Ops
  <2>5. ASSUME NEW r \in Reqs, Decide(t, r) \/ ExpireList(t, r) PROVE ThreadTypeOK'
    BY <2>1, <2>2, <2>5 DEF Decide, ExpireList, PCs, Ops
  <2>6. ASSUME NEW s \in Sessions, ReapIdle(t, s) PROVE ThreadTypeOK'
    BY <1>1, <2>6, LocalType DEF ReapIdle, PCs, Ops
  <2> QED
    BY <2>4, <2>5, <2>6 DEF CallerCalls, JanitorCalls
<1>3. state' \in [Sessions -> States]
  BY DEF TypeOK, States, SetState, CallerCalls, JanitorCalls, Create, Send,
         SwitchModel, Close, Decide, ReapIdle, ExpireList
<1>4. InboxTypeOK'
  BY <1>1 DEF InboxTypeOK, inbox, CallerCalls, JanitorCalls, Create, Send,
         SwitchModel, Close, Decide, ReapIdle, ExpireList
<1>5. UNCHANGED <<registry, sem, external, pump, main>>
  BY DEF CallerCalls, JanitorCalls, Create, Send, SwitchModel, Close, Decide,
         ReapIdle, ExpireList
<1>6. ChildTypeOK'
  BY <1>1, <1>5, ChildType DEF external
<1> QED
  BY <1>2, <1>3, <1>4, <1>5, <1>6 DEF TypeOK, registry, external

LEMMA TypePump ==
    ASSUME TypeOK, NEW p \in Procs, PumpStep(p)
    PROVE  TypeOK'
<1>1. ThreadTypeOK /\ ChildTypeOK /\ InboxTypeOK /\ answers \in [Reqs -> [Procs -> Nat]]
  BY DEF TypeOK, InboxTypeOK
<1>2. events' \in [Procs -> Seq(Events)]
  <2>1. ASSUME events[p] # <<>>, events' = [events EXCEPT ![p] = Tail(@)]
        PROVE  events' \in [Procs -> Seq(Events)]
    BY <2>1 DEF TypeOK
  <2>2. CASE UNCHANGED events
    BY <2>2 DEF TypeOK
  <2> QED
    BY <2>1, <2>2
       DEF PumpStep, PumpToolUse, PumpResult, HandlePermission,
           PumpPermissionState, HandleExit, ExitSetState, UnregisterProcess,
           ReleaseSlot, Receive, external
<1>3. pump' \in [Procs -> PumpPCs]
  BY DEF TypeOK, PumpPCs, PumpGoto, PumpStep, PumpToolUse, PumpResult,
         HandlePermission, PumpPermissionState, HandleExit, ExitSetState,
         UnregisterProcess, ReleaseSlot
<1>4. state' \in [Sessions -> States]
  BY DEF TypeOK, States, SetState, PumpStep, PumpToolUse, PumpResult,
         HandlePermission, PumpPermissionState, HandleExit, ExitSetState,
         UnregisterProcess, ReleaseSlot
<1>5. /\ procs' \in [Sessions -> Procs \union {NoProc}]
      /\ closing' \in SUBSET Sessions
      /\ starting' \in SUBSET Sessions
      /\ sem' \in Nat
  <2>1. CASE UNCHANGED <<registry, sem>>
    BY <2>1 DEF TypeOK, registry
  <2>2. CASE UnregisterProcess(p)
    BY <2>2 DEF TypeOK, UnregisterProcess
  <2>3. CASE ReleaseSlot(p)
    BY <2>3 DEF TypeOK, ReleaseSlot, Released, registry
  <2> QED
    BY <2>1, <2>2, <2>3
       DEF PumpStep, PumpToolUse, PumpResult, HandlePermission,
           PumpPermissionState, HandleExit, ExitSetState
<1>6. ChildTypeOK' /\ answers' \in [Reqs -> [Procs -> Nat]]
  <2>1. UNCHANGED <<child, answers>>
            => ChildTypeOK' /\ answers' \in [Reqs -> [Procs -> Nat]]
    BY <1>1, ChildType
  <2>2. \A r \in Reqs :
            Answered(p, r) => ChildTypeOK' /\ answers' \in [Reqs -> [Procs -> Nat]]
    BY <1>1, ChildType, AnswersType
  <2>3. ASSUME NEW r \in Reqs, HandlePermission(p, r)
        PROVE  ChildTypeOK' /\ answers' \in [Reqs -> [Procs -> Nat]]
    BY <2>1, <2>2, <2>3 DEF HandlePermission
  <2> QED
    BY <2>1, <2>3
       DEF PumpStep, PumpToolUse, PumpResult, PumpPermissionState, HandleExit,
           ExitSetState, UnregisterProcess, ReleaseSlot, external, inbox
<1>7. /\ approval' \in [Reqs -> {"none", "asked", "pending", "decided",
                                 "expired", "lost"}]
      /\ asker' \in [Reqs -> Procs \union {NoProc}]
  BY <1>1 DEF InboxTypeOK, inbox, PumpStep, PumpToolUse, PumpResult,
         HandlePermission, PumpPermissionState, HandleExit, ExitSetState,
         UnregisterProcess, ReleaseSlot
<1>8. UNCHANGED <<threads, main>>
  BY DEF PumpStep, PumpToolUse, PumpResult, HandlePermission,
         PumpPermissionState, HandleExit, ExitSetState, UnregisterProcess,
         ReleaseSlot
<1>9. ThreadTypeOK'
  BY <1>1, <1>8, UnchangedType
<1> QED
  BY <1>2, <1>3, <1>4, <1>5, <1>6, <1>7, <1>8, <1>9 DEF TypeOK, InboxTypeOK

LEMMA TypeChild ==
    ASSUME TypeOK, NEW p \in Procs, ChildStep(p)
    PROVE  TypeOK'
<1>1. ThreadTypeOK /\ ChildTypeOK /\ InboxTypeOK
  BY DEF TypeOK
<1>2. events' \in [Procs -> Seq(Events)]
  <2>1. \A e \in Events :
            events' = [events EXCEPT ![p] = Append(@, e)]
                => events' \in [Procs -> Seq(Events)]
    BY DEF TypeOK
  <2> QED
    BY <2>1 DEF ChildStep, ChildToolUse, ChildAsk, ChildResult, ChildExit, Emit,
                Events, Exits
<1>3. ChildTypeOK'
  <2>1. CASE ChildToolUse(p)
    BY <1>1, <2>1, ChildType DEF ChildToolUse
  <2>2. ASSUME NEW r \in Reqs, ChildAsk(p, r) PROVE ChildTypeOK'
    BY <1>1, <2>2 DEF ChildTypeOK, ChildAsk
  <2>3. CASE ChildResult(p)
    <3>1. turns[p] - 1 \in Nat
      BY <1>1, <2>3 DEF ChildTypeOK, ChildResult
    <3> QED
      BY <1>1, <2>3, <3>1 DEF ChildTypeOK, ChildResult
  <2>4. CASE ChildExit(p)
    BY <1>1, <2>4 DEF ChildTypeOK, ChildExit
  <2> QED
    BY <2>1, <2>2, <2>3, <2>4 DEF ChildStep
<1>4. InboxTypeOK'
  <2>1. ASSUME NEW r \in Reqs, ChildAsk(p, r) PROVE InboxTypeOK'
    BY <1>1, <2>1 DEF InboxTypeOK, ChildAsk
  <2>2. CASE UNCHANGED inbox
    BY <1>1, <2>2 DEF InboxTypeOK, inbox
  <2> QED
    BY <2>1, <2>2 DEF ChildStep, ChildToolUse, ChildResult, ChildExit
<1>5. UNCHANGED <<state, registry, sem, pump, threads, main>>
  BY DEF ChildStep, ChildToolUse, ChildAsk, ChildResult, ChildExit
<1>6. ThreadTypeOK'
  BY <1>1, <1>5, UnchangedType
<1> QED
  BY <1>2, <1>3, <1>4, <1>5, <1>6 DEF TypeOK, registry

LEMMA TypeInterrupt ==
    ASSUME TypeOK, NEW s \in Sessions, Interrupt(s)
    PROVE  TypeOK'
<1>1. ThreadTypeOK /\ ChildTypeOK /\ InboxTypeOK
  BY DEF TypeOK
<1>2. ChildTypeOK'
  BY <1>1 DEF Interrupt, ChildTypeOK
<1>3. ThreadTypeOK'
  BY <1>1, UnchangedType DEF Interrupt
<1> QED
  BY <1>1, <1>2, <1>3 DEF Interrupt, TypeOK, InboxTypeOK, registry, inbox

LEMMA TypeMain ==
    ASSUME TypeOK, MainStep
    PROVE  TypeOK'
<1>1. ThreadTypeOK /\ ChildTypeOK /\ InboxTypeOK
  BY DEF TypeOK
<1>2. CASE ShutdownBegin
  <2>1. closing' \in SUBSET Sessions
    BY <1>2 DEF ShutdownBegin, TypeOK
  <2>2. {<<s, procs[s]>> : s \in {x \in Sessions : Tracked(x)}} \subseteq Sessions \X Procs
    BY DEF TypeOK, Tracked
  <2>3. ThreadTypeOK' /\ ChildTypeOK'
    BY <1>1, <1>2, UnchangedType, ChildType DEF ShutdownBegin, external
  <2> QED
    BY <1>1, <1>2, <2>1, <2>2, <2>3
       DEF ShutdownBegin, TypeOK, external, inbox, InboxTypeOK
<1>3. ASSUME NEW s \in Sessions, NEW p \in Procs, ShutdownClose(s, p)
      PROVE  TypeOK'
  <2>1. ThreadTypeOK' /\ ChildTypeOK'
    BY <1>1, <1>3, UnchangedType, ChildType DEF ShutdownClose
  <2> QED
    BY <1>1, <1>3, <2>1 DEF ShutdownClose, TypeOK, registry, inbox, InboxTypeOK
<1>4. CASE ShutdownSetState
  <2>1. ThreadTypeOK' /\ ChildTypeOK'
    BY <1>1, <1>4, UnchangedType, ChildType DEF ShutdownSetState, external
  <2> QED
    BY <1>1, <1>4, <2>1
       DEF ShutdownSetState, TypeOK, registry, external, inbox, InboxTypeOK,
           SetState, States
<1>5. CASE Restart
  <2>1. ThreadTypeOK'
    BY <1>5 DEF Restart, ThreadTypeOK, PCs, Ops
  <2>2. ChildTypeOK'
    BY <1>1, <1>5 DEF Restart, ChildTypeOK
  <2>3. state' \in [Sessions -> States]
    BY <1>5 DEF Restart, TypeOK, States
  <2>4. /\ procs' \in [Sessions -> Procs \union {NoProc}]
        /\ closing' \in SUBSET Sessions /\ starting' \in SUBSET Sessions
        /\ sem' \in Nat
    BY <1>5 DEF Restart
  <2>5. events' \in [Procs -> Seq(Events)] /\ pump' \in [Procs -> PumpPCs]
    BY <1>5 DEF Restart, TypeOK, PumpPCs
  <2>6. main' \in [pc   : {"serving", "drain", "await"},
                   todo : SUBSET (Sessions \X Procs),
                   s    : Sessions \union {NoSess},
                   p    : Procs \union {NoProc}]
    BY <1>5 DEF Restart, Serving
  <2> QED
    BY <1>1, <1>5, <2>1, <2>2, <2>3, <2>4, <2>5, <2>6
       DEF Restart, TypeOK, inbox, InboxTypeOK
<1> QED
  BY <1>2, <1>3, <1>4, <1>5 DEF MainStep

-----------------------------------------------------------------------------
(* Frames and the registry. *)

\* What a step of thread t leaves alone: the other threads.
OthersKeep(t) ==
    \A u \in Threads \ {t} :
        /\ pc'[u] = pc[u] /\ op'[u] = op[u] /\ sid'[u] = sid[u]
        /\ pid'[u] = pid[u] /\ rid'[u] = rid[u] /\ vid'[u] = vid[u]

\* A call that begins or any later step of thread t.
OwnStep(t) ==
    \/ StartStep(t) \/ CallStep(t) \/ ApprovalStep(t) \/ CallerCalls(t)
    \/ (t = Janitor /\ JanitorCalls) \/ CloseCancelled(t)

LEMMA ThreadsApart ==
    ASSUME ThreadTypeOK, NEW t \in Threads, OwnStep(t)
    PROVE  OthersKeep(t)
<1>1. \A l : Goto(t, l) => OthersKeep(t)
  BY DEF ThreadTypeOK, OthersKeep, Goto, At, frame
<1>2. \A l, p : GotoWithProc(t, l, p) => OthersKeep(t)
  BY DEF ThreadTypeOK, OthersKeep, GotoWithProc, At
<1>3. \A l, o, s, p, r, v : At(t, l) /\ Local(t, o, s, p, r, v) => OthersKeep(t)
  BY DEF ThreadTypeOK, OthersKeep, Local, At
<1>4. Return(t) => OthersKeep(t)
  BY <1>3 DEF Return
<1>5. \A o, s, r, l : Call(t, o, s, r, l) => OthersKeep(t)
  BY <1>3 DEF Call
<1>6. UNCHANGED threads => OthersKeep(t)
  BY DEF OthersKeep, threads, frame
<1>7. CASE StartStep(t)
  <2>1. CASE Evict(t)
    <3>1. \A v : /\ At(t, "track") /\ vid' = [vid EXCEPT ![t] = v]
                 /\ UNCHANGED <<op, sid, pid, rid>>
                 => OthersKeep(t)
      BY DEF ThreadTypeOK, OthersKeep, At
    <3> QED
      BY <1>1, <2>1, <3>1 DEF Evict
  <2>2. Failed(t) => OthersKeep(t)
    BY <1>1 DEF Failed
  <2> QED
    BY <1>1, <1>2, <1>4, <1>7, <2>1, <2>2
       DEF StartStep, Acquire, CloseTracked, AwaitGone, AfterClose, AcquireWait,
           HarnessStart, RegisterProcess, DropDuplicate, StartSetRunning,
           StartSend, StartFailed
<1>8. CASE CallStep(t)
  BY <1>1, <1>2, <1>4, <1>8
     DEF CallStep, SendLocked, WaitForStartingProcess, Deliver, Unmark,
         CloseLiveProcess, CloseLiveProcessWait, CloseLocked,
         CloseStdin, CloseSetState
<1>9. CASE ApprovalStep(t)
  BY <1>1, <1>2, <1>4, <1>9
     DEF ApprovalStep, DecideSetRunning, DecideLookup, DecideTell, ExpireDecide,
         ExpireLookup, ExpireSetState, ExpireTell
<1>10. CASE CallerCalls(t)
  BY <1>5, <1>6, <1>10 DEF CallerCalls, Create, Send, SwitchModel, Close, Decide
<1>11. CASE t = Janitor /\ JanitorCalls
  BY <1>3, <1>5, <1>11 DEF JanitorCalls, ReapIdle, ExpireList
<1>12. CASE CloseCancelled(t)
  BY <1>1, <1>2, <1>4, <1>12 DEF CloseCancelled, AfterClose, Failed
<1> QED
  BY <1>7, <1>8, <1>9, <1>10, <1>11, <1>12 DEF OwnStep

\* A pump that was started stays started.
PumpsStay == \A p \in Procs : pump[p] # "none" => pump'[p] # "none"

LEMMA PumpStays ==
    ASSUME TypeOK, Next
    PROVE  PumpsStay
<1>1. UNCHANGED pump => PumpsStay
  BY DEF PumpsStay
<1>2. ASSUME NEW t \in Threads, StartStep(t) PROVE PumpsStay
  BY <1>1, <1>2 DEF StartStep, Acquire, Evict, CloseTracked, AwaitGone,
         AcquireWait, HarnessStart, RegisterProcess, DropDuplicate,
         StartSetRunning, StartSend, StartFailed, TypeOK, PumpsStay
<1>3. ASSUME NEW t \in Threads, CallStep(t) PROVE PumpsStay
  BY <1>1, <1>3 DEF CallStep, SendLocked, WaitForStartingProcess, Deliver,
         Unmark, CloseLiveProcess, CloseLiveProcessWait, CloseLocked,
         CloseStdin, CloseSetState
<1>4. ASSUME NEW t \in Threads, ApprovalStep(t) PROVE PumpsStay
  BY <1>1, <1>4 DEF ApprovalStep, DecideSetRunning, DecideLookup, DecideTell,
         ExpireDecide, ExpireLookup, ExpireSetState, ExpireTell
<1>5. ASSUME NEW t \in Threads, CallerCalls(t) \/ JanitorCalls PROVE PumpsStay
  BY <1>1, <1>5 DEF CallerCalls, JanitorCalls, Create, Send, SwitchModel, Close,
         Decide, ReapIdle, ExpireList
<1>6. ASSUME NEW s \in Sessions, Interrupt(s) PROVE PumpsStay
  BY <1>1, <1>6 DEF Interrupt
<1>7. ASSUME NEW p \in Procs, PumpStep(p) PROVE PumpsStay
  <2>1. \A l : l # "none" /\ PumpGoto(p, l) => PumpsStay
    BY DEF PumpGoto, TypeOK, PumpsStay
  <2> QED
    BY <1>1, <1>7, <2>1
       DEF PumpStep, PumpToolUse, PumpResult, HandlePermission,
           PumpPermissionState, HandleExit, ExitSetState, UnregisterProcess,
           ReleaseSlot
<1>8. ASSUME NEW p \in Procs, ChildStep(p) PROVE PumpsStay
  BY <1>1, <1>8 DEF ChildStep, ChildToolUse, ChildAsk, ChildResult, ChildExit
<1>9. CASE MainStep
  BY <1>1, <1>9 DEF MainStep, ShutdownBegin, ShutdownClose, ShutdownSetState,
         Restart, PumpsStay
<1>10. ASSUME NEW t \in Threads, CloseCancelled(t) PROVE PumpsStay
  BY <1>1, <1>10 DEF CloseCancelled
<1>11. ASSUME NEW p \in Procs, FaultStep(p) PROVE PumpsStay
  <2>1. PumpGoto(p, "permFail") => PumpsStay
    BY DEF PumpGoto, TypeOK, PumpsStay
  <2> QED
    BY <1>1, <1>11, <2>1 DEF FaultStep, Hold, Jam, JamEnds
<1> QED
  BY <1>2, <1>3, <1>4, <1>5, <1>6, <1>7, <1>8, <1>9, <1>10, <1>11
     DEF Next, ThreadStep, Threads

-----------------------------------------------------------------------------
(* Frames. *)

LEMMA FrameOthers ==
    ASSUME FrameOK, NEW t \in Threads, OthersKeep(t), PumpsStay
    PROVE  \A u \in Threads \ {t} : Frame(u)'
BY DEF FrameOK, Frame, OthersKeep, PumpsStay

LEMMA FrameStart ==
    ASSUME TypeOK, FrameOK, RegistryOK, NEW t \in Threads, StartStep(t), PumpsStay
    PROVE  Frame(t)'
<1>1. Frame(t) /\ ThreadTypeOK /\ pump \in [Procs -> PumpPCs]
  BY DEF FrameOK, TypeOK
<1>2. Return(t) => Frame(t)'
  BY <1>1 DEF Return, At, Local, Frame, ThreadTypeOK
<1>3. \A l : Goto(t, l) => pc'[t] = l /\ op'[t] = op[t] /\ sid'[t] = sid[t]
                             /\ vid'[t] = vid[t] /\ pid'[t] = pid[t]
                             /\ rid'[t] = rid[t]
  BY <1>1 DEF Goto, At, frame, ThreadTypeOK
<1>4. Failed(t) /\ pc[t] \notin {"idle", "track", "shut", "await"} => Frame(t)'
  BY <1>1, <1>3 DEF Failed, Frame
<1>5. \A l, p : GotoWithProc(t, l, p) => pc'[t] = l /\ op'[t] = op[t]
                    /\ sid'[t] = sid[t] /\ vid'[t] = vid[t] /\ pid'[t] = p
                    /\ rid'[t] = rid[t]
  BY <1>1 DEF GotoWithProc, At, ThreadTypeOK
<1>6. CASE Acquire(t)
  BY <1>1, <1>3, <1>4, <1>6 DEF Acquire, Frame
<1>7. CASE Evict(t)
  <2>1. pc[t] = "evict"
    BY <1>7 DEF Evict
  <2>2. CASE Goto(t, "wait")
    BY <1>1, <1>3, <2>1, <2>2 DEF Frame
  <2>3. ASSUME NEW v \in Sessions, At(t, "track"), vid' = [vid EXCEPT ![t] = v],
               UNCHANGED <<op, sid, pid, rid>>
        PROVE  Frame(t)'
    <3>1. pc'[t] = "track" /\ vid'[t] = v
      BY <1>1, <2>3 DEF At, ThreadTypeOK
    <3> QED
      BY <1>1, <2>1, <2>3, <3>1 DEF Frame
  <2> QED
    BY <1>7, <2>2, <2>3, SessionsAssumption DEF Evict
<1>8. CASE CloseTracked(t)
  <2>1. Tracked(vid[t]) => procs[vid[t]] \in Procs /\ pump[procs[vid[t]]] # "none"
    BY <1>1, <1>8 DEF CloseTracked, Frame, RegistryOK, EntriesOK, Tracked, TypeOK, Registered
  <2>2. UNCHANGED pump
    BY <1>8 DEF CloseTracked
  <2> QED
    BY <1>1, <1>2, <1>3, <1>5, <1>8, <2>1, <2>2 DEF CloseTracked, Frame
<1>9. CASE AwaitGone(t)
  BY <1>1, <1>2, <1>3, <1>5, <1>9 DEF AwaitGone, AfterClose, Frame
<1>10. CASE AcquireWait(t)
  BY <1>1, <1>3, <1>4, <1>10 DEF AcquireWait, Frame
<1>11. CASE HarnessStart(t)
  BY <1>1, <1>4, <1>5, <1>11 DEF HarnessStart, Frame
<1>12. CASE RegisterProcess(t)
  BY <1>1, <1>3, <1>12 DEF RegisterProcess, RegistryOK, StartsOK, Frame
<1>13. CASE DropDuplicate(t)
  BY <1>4, <1>13 DEF DropDuplicate
<1>14. CASE StartSetRunning(t)
  BY <1>1, <1>2, <1>3, <1>14 DEF StartSetRunning, Frame
<1>15. CASE StartSend(t)
  BY <1>1, <1>2, <1>3, <1>4, <1>15 DEF StartSend, Frame
<1>16. CASE StartFailed(t)
  BY <1>2, <1>16 DEF StartFailed
<1> QED
  BY <1>6, <1>7, <1>8, <1>9, <1>10, <1>11, <1>12, <1>13, <1>14, <1>15, <1>16
     DEF StartStep

LEMMA FrameCall ==
    ASSUME TypeOK, FrameOK, RegistryOK, NEW t \in Threads, CallStep(t)
    PROVE  Frame(t)'
<1>1. Frame(t) /\ ThreadTypeOK
  BY DEF FrameOK, TypeOK
<1>2. Return(t) => Frame(t)'
  BY <1>1 DEF Return, At, Local, Frame, ThreadTypeOK
<1>3. \A l : Goto(t, l) => pc'[t] = l /\ op'[t] = op[t] /\ sid'[t] = sid[t]
                             /\ vid'[t] = vid[t] /\ pid'[t] = pid[t]
                             /\ rid'[t] = rid[t]
  BY <1>1 DEF Goto, At, frame, ThreadTypeOK
<1>4. \A l, p : GotoWithProc(t, l, p) => pc'[t] = l /\ op'[t] = op[t]
                    /\ sid'[t] = sid[t] /\ vid'[t] = vid[t] /\ pid'[t] = p
                    /\ rid'[t] = rid[t]
  BY <1>1 DEF GotoWithProc, At, ThreadTypeOK
<1>5. pc[t] \notin {"idle", "track", "shut", "await"} /\ Tracked(sid[t])
        => procs[sid[t]] \in Procs /\ pump[procs[sid[t]]] # "none"
  BY <1>1 DEF Frame, RegistryOK, EntriesOK, Tracked, TypeOK, Registered
<1>6. UNCHANGED pump
  BY DEF CallStep, SendLocked, WaitForStartingProcess, Deliver, Unmark,
         CloseLiveProcess, CloseLiveProcessWait, CloseLocked,
         CloseStdin, CloseSetState
<1>7. CASE SendLocked(t)
  BY <1>1, <1>3, <1>4, <1>5, <1>6, <1>7 DEF SendLocked, Frame
<1>8. CASE WaitForStartingProcess(t)
  BY <1>1, <1>2, <1>4, <1>5, <1>6, <1>8 DEF WaitForStartingProcess, Frame
<1>9. CASE Deliver(t) \/ Unmark(t) \/ CloseSetState(t)
  BY <1>2, <1>9 DEF Deliver, Unmark, CloseSetState
<1>10. CASE CloseLiveProcess(t) \/ CloseLiveProcessWait(t)
  BY <1>1, <1>2, <1>3, <1>4, <1>5, <1>6, <1>10
     DEF CloseLiveProcess, CloseLiveProcessWait, Frame
<1>11. CASE CloseLocked(t)
  BY <1>1, <1>2, <1>3, <1>4, <1>5, <1>6, <1>11 DEF CloseLocked, Frame
<1>12. CASE CloseStdin(t)
  BY <1>1, <1>3, <1>6, <1>12 DEF CloseStdin, Frame
<1> QED
  BY <1>7, <1>8, <1>9, <1>10, <1>11, <1>12 DEF CallStep

LEMMA FrameApproval ==
    ASSUME TypeOK, FrameOK, RegistryOK, NEW t \in Threads, ApprovalStep(t)
    PROVE  Frame(t)'
<1>1. Frame(t) /\ ThreadTypeOK
  BY DEF FrameOK, TypeOK
<1>2. Return(t) => Frame(t)'
  BY <1>1 DEF Return, At, Local, Frame, ThreadTypeOK
<1>3. \A l : Goto(t, l) => pc'[t] = l /\ op'[t] = op[t] /\ sid'[t] = sid[t]
                             /\ vid'[t] = vid[t] /\ pid'[t] = pid[t]
                             /\ rid'[t] = rid[t]
  BY <1>1 DEF Goto, At, frame, ThreadTypeOK
<1>4. \A l, p : GotoWithProc(t, l, p) => pc'[t] = l /\ op'[t] = op[t]
                    /\ sid'[t] = sid[t] /\ vid'[t] = vid[t] /\ pid'[t] = p
                    /\ rid'[t] = rid[t]
  BY <1>1 DEF GotoWithProc, At, ThreadTypeOK
<1>5. pc[t] \notin {"idle", "track", "shut", "await"} /\ Tracked(sid[t])
        => procs[sid[t]] \in Procs /\ pump[procs[sid[t]]] # "none"
  BY <1>1 DEF Frame, RegistryOK, EntriesOK, Tracked, TypeOK, Registered
<1>6. UNCHANGED pump
  BY DEF ApprovalStep, DecideSetRunning, DecideLookup, DecideTell, ExpireDecide,
         ExpireLookup, ExpireSetState, ExpireTell
<1>7. CASE DecideSetRunning(t)
  BY <1>1, <1>3, <1>7 DEF DecideSetRunning, Frame
<1>8. CASE DecideLookup(t)
  BY <1>1, <1>2, <1>4, <1>5, <1>6, <1>8 DEF DecideLookup, Frame
<1>9. CASE DecideTell(t)
  BY <1>2, <1>9 DEF DecideTell
<1>10. CASE ExpireDecide(t)
  BY <1>1, <1>2, <1>3, <1>10 DEF ExpireDecide, Frame
<1>11. CASE ExpireLookup(t)
  BY <1>1, <1>3, <1>4, <1>5, <1>6, <1>11 DEF ExpireLookup, Frame
<1>12. CASE ExpireSetState(t)
  BY <1>1, <1>2, <1>3, <1>6, <1>12 DEF ExpireSetState, Frame
<1>13. CASE ExpireTell(t)
  BY <1>1, <1>2, <1>3, <1>6, <1>13 DEF ExpireTell, Frame
<1> QED
  BY <1>7, <1>8, <1>9, <1>10, <1>11, <1>12, <1>13 DEF ApprovalStep

LEMMA FrameBegin ==
    ASSUME TypeOK, FrameOK, RegistryOK, ApprovalsOK, NEW t \in Threads,
           CallerCalls(t) \/ (t = Janitor /\ JanitorCalls)
    PROVE  Frame(t)'
<1>1. Frame(t) /\ ThreadTypeOK
  BY DEF FrameOK, TypeOK
<1>2. \A o, s, r, l : Call(t, o, s, r, l) =>
          /\ pc'[t] = l /\ op'[t] = o /\ sid'[t] = s /\ rid'[t] = r
  BY <1>1 DEF Call, At, Local, ThreadTypeOK
<1>3. \A r \in Reqs : approval[r] # "none" => owner[asker[r]] \in Sessions
  BY DEF ApprovalsOK, AskersKnown, RegistryOK, ProcessesOK
<1>4. ASSUME NEW s \in Sessions,
             Create(t, s) \/ Send(t, s) \/ SwitchModel(t, s) \/ Close(t, s)
      PROVE  Frame(t)'
  <2>1. CASE UNCHANGED threads /\ UNCHANGED pump
    BY <1>1, <2>1 DEF threads, frame, Frame
  <2>2. CASE \E o \in {"Create", "Send", "SwitchModel", "Close"},
                l \in {"acquire", "send", "swClose", "close", "closeRead"} :
                 Call(t, o, s, NoReq, l)
    BY <1>2, <2>2 DEF Frame
  <2> QED
    BY <1>4, <2>1, <2>2 DEF Create, Send, SwitchModel, Close
<1>5. ASSUME NEW r \in Reqs, Decide(t, r) \/ ExpireList(t, r) PROVE Frame(t)'
  BY <1>2, <1>3, <1>5 DEF Decide, ExpireList, Frame
<1>6. ASSUME NEW s \in Sessions, ReapIdle(t, s) PROVE Frame(t)'
  BY <1>1, <1>6 DEF ReapIdle, At, Local, ThreadTypeOK, Frame
<1> QED
  BY <1>4, <1>5, <1>6 DEF CallerCalls, JanitorCalls

LEMMA FrameCancel ==
    ASSUME TypeOK, FrameOK, NEW t \in Threads, CloseCancelled(t)
    PROVE  Frame(t)'
<1>1. Frame(t) /\ ThreadTypeOK
  BY DEF FrameOK, TypeOK
<1>2. Return(t) => Frame(t)'
  BY <1>1 DEF Return, At, Local, Frame, ThreadTypeOK
<1>3. CASE pc[t] = "await" /\ op[t] # "Reap" /\ GotoWithProc(t, "wait", NoProc)
  BY <1>1, <1>3 DEF GotoWithProc, At, ThreadTypeOK, Frame
<1>4. CASE pc[t] = "dup" /\ Failed(t)
  <2>1. /\ pc'[t] \in {"unmark", "fail"} /\ op'[t] = op[t] /\ sid'[t] = sid[t]
        /\ op[t] # "Reap"
    BY <1>1, <1>4 DEF Failed, Goto, At, frame, ThreadTypeOK, Frame
  <2> QED
    BY <1>1, <1>4, <2>1 DEF Frame
<1> QED
  BY <1>2, <1>3, <1>4 DEF CloseCancelled, AfterClose

LEMMA FrameStep ==
    ASSUME TypeOK, FrameOK, RegistryOK, ApprovalsOK, Next
    PROVE  FrameOK'
<1>1. PumpsStay
  BY PumpStays
<1>2. ASSUME NEW t \in Threads, OwnStep(t) PROVE FrameOK'
  <2>1. \A u \in Threads \ {t} : Frame(u)'
    BY <1>1, <1>2, FrameOthers, ThreadsApart DEF TypeOK
  <2>2. Frame(t)'
    BY <1>1, <1>2, FrameStart, FrameCall, FrameApproval, FrameBegin, FrameCancel
       DEF OwnStep
  <2> QED
    BY <2>1, <2>2 DEF FrameOK
<1>3. CASE UNCHANGED threads
  BY <1>1, <1>3 DEF threads, frame, FrameOK, Frame, PumpsStay
<1>4. CASE Restart
  BY <1>4 DEF Restart, FrameOK, Frame
<1> QED
  BY <1>2, <1>3, <1>4
     DEF Next, ThreadStep, Threads, OwnStep, Interrupt, PumpStep, PumpToolUse,
         PumpResult, HandlePermission, PumpPermissionState, HandleExit,
         ExitSetState, UnregisterProcess, ReleaseSlot, ChildStep, ChildToolUse,
         ChildAsk, ChildResult, ChildExit, MainStep, ShutdownBegin,
         ShutdownClose, ShutdownSetState, FaultStep, Hold, Jam, JamEnds

-----------------------------------------------------------------------------
(* The registry. *)

\* A thread holds a process it has started and not registered yet.
Starting(t) == pc[t] \in {"register", "dup"}

\* What most steps leave alone: the entries, the processes' lives and pumps,
\* and the processes the threads are starting, unless those are gone or killed.
RegistryQuiet ==
    /\ UNCHANGED <<procs, owner, run, pump>> /\ killed \subseteq killed'
    /\ \A p \in Procs : pump[p] = "none" => turns'[p] = turns[p]
    /\ \A p \in Procs : \A i \in 1 .. Len(events'[p]) :
          events'[p][i] \in Exits => run[p] = "gone"
    /\ \A s \in closing' : s \in closing \/ Tracked(s)
    /\ \A t \in Threads : Starting(t)' =>
          Starting(t) /\ pid'[t] = pid[t] /\ sid'[t] = sid[t]
    /\ \A t \in Threads : Starting(t) =>
          \/ Starting(t)' /\ pid'[t] = pid[t]
          \/ run[pid[t]] = "gone"
          \/ pid[t] \in killed'

LEMMA QuietRegistry ==
    ASSUME TypeOK, RegistryOK, RegistryQuiet
    PROVE  RegistryOK'
<1> USE DEF RegistryOK, RegistryQuiet
<1>1. EntriesOK'
  BY DEF EntriesOK, Tracked
<1>2. ProcessesOK'
  BY DEF ProcessesOK
<1>3. StartsOK'
  BY DEF StartsOK, Starting
<1>4. PumpOwnsEntry'
  BY DEF PumpOwnsEntry
<1>5. NoOrphan'
  BY DEF NoOrphan, LiveChildren, Dropped, StartsOK, Starting
<1>6. ClosingIsTracked'
  BY DEF ClosingIsTracked, Tracked
<1> QED
  BY <1>1, <1>2, <1>3, <1>4, <1>5, <1>6

\* A step of thread t that neither starts nor gives up a process, and that
\* closes only a tracked one, is quiet.
LEMMA QuietStep ==
    ASSUME TypeOK, RegistryOK, NEW t \in Threads, OthersKeep(t),
           UNCHANGED <<procs, owner, run, pump, events>>, killed \subseteq killed',
           \A p \in Procs : pump[p] = "none" => turns'[p] = turns[p],
           \A s \in closing' : s \in closing \/ Tracked(s),
           Starting(t)' => Starting(t) /\ pid'[t] = pid[t] /\ sid'[t] = sid[t],
           Starting(t) => \/ Starting(t)' /\ pid'[t] = pid[t]
                          \/ run[pid[t]] = "gone"
                          \/ pid[t] \in killed'
    PROVE  RegistryOK'
<1>1. \A p \in Procs : \A i \in 1 .. Len(events'[p]) :
          events'[p][i] \in Exits => run[p] = "gone"
  BY DEF RegistryOK, ProcessesOK
<1>2. RegistryQuiet
  BY <1>1 DEF RegistryQuiet, OthersKeep, Starting
<1> QED
  BY <1>2, QuietRegistry

LEMMA RegistryBegin ==
    ASSUME TypeOK, RegistryOK, NEW t \in Threads, OthersKeep(t),
           CallerCalls(t) \/ (t = Janitor /\ JanitorCalls)
    PROVE  RegistryOK'
<1>1. ThreadTypeOK
  BY DEF TypeOK
<1>2. UNCHANGED <<registry, external, pump>>
  BY DEF CallerCalls, JanitorCalls, Create, Send, SwitchModel, Close, Decide,
         ReapIdle, ExpireList
<1>3. ~Starting(t)' /\ ~Starting(t)
  <2>1. pc[t] = "idle"
    BY DEF CallerCalls, JanitorCalls, Create, Send, SwitchModel, Close, Decide,
           ReapIdle, ExpireList, Call
  <2>2. \/ UNCHANGED threads
        \/ \E l \in {"acquire", "send", "swClose", "close", "closeRead",
                     "decideRun", "track", "expire"} : At(t, l)
    BY DEF CallerCalls, JanitorCalls, Create, Send, SwitchModel, Close, Decide,
           ReapIdle, ExpireList, Call
  <2> QED
    BY <1>1, <2>1, <2>2 DEF Starting, At, ThreadTypeOK, threads
<1> QED
  BY <1>2, <1>3, QuietStep DEF registry, external, child, faults

LEMMA RegistryApproval ==
    ASSUME TypeOK, RegistryOK, NEW t \in Threads, OthersKeep(t), ApprovalStep(t)
    PROVE  RegistryOK'
<1>1. ThreadTypeOK
  BY DEF TypeOK
<1>2. UNCHANGED <<registry, owner, run, turns, events, pump, killed>>
  BY DEF ApprovalStep, DecideSetRunning, DecideLookup, DecideTell, ExpireDecide,
         ExpireLookup, ExpireSetState, ExpireTell, Answered, external, child,
         faults
<1>3. ~Starting(t)' /\ ~Starting(t)
  <2>1. pc[t] \in {"decideRun", "lookup", "tell", "expire", "exLookup",
                   "exOpen", "exRun", "exFail", "exTell"}
    BY DEF ApprovalStep, DecideSetRunning, DecideLookup, DecideTell,
           ExpireDecide, ExpireLookup, ExpireSetState, ExpireTell
  <2>2. \E l \in {"idle", "lookup", "tell", "exLookup", "exRun", "exOpen",
                  "exTell", "exFail"} : At(t, l)
    BY DEF ApprovalStep, DecideSetRunning, DecideLookup, DecideTell,
           ExpireDecide, ExpireLookup, ExpireSetState, ExpireTell, Goto,
           GotoWithProc, Return
  <2> QED
    BY <1>1, <2>1, <2>2 DEF Starting, At, ThreadTypeOK
<1> QED
  BY <1>2, <1>3, QuietStep DEF registry

LEMMA RegistryCall ==
    ASSUME TypeOK, FrameOK, RegistryOK, NEW t \in Threads, OthersKeep(t), CallStep(t)
    PROVE  RegistryOK'
<1>1. ThreadTypeOK /\ ChildTypeOK
  BY DEF TypeOK
<1>2. UNCHANGED <<procs, owner, run, events, pump, killed>>
  BY DEF CallStep, SendLocked, WaitForStartingProcess, Deliver, Unmark,
         CloseLiveProcess, CloseLiveProcessWait, CloseLocked,
         CloseStdin, CloseSetState,
         StdinClosed, Delivered, external, child, faults, registry
<1>3. \A s \in closing' : s \in closing \/ Tracked(s)
  BY DEF CallStep, SendLocked, WaitForStartingProcess, Deliver, Unmark,
         CloseLiveProcess, CloseLiveProcessWait, CloseLocked,
         CloseStdin, CloseSetState, registry
<1>4. \A p \in Procs : pump[p] = "none" => turns'[p] = turns[p]
  <2>1. CASE Deliver(t)
    BY <1>1, <2>1 DEF Deliver, Delivered, child, FrameOK, Frame, ChildTypeOK
  <2>2. CASE UNCHANGED turns
    BY <2>2
  <2> QED
    BY <2>1, <2>2
       DEF CallStep, SendLocked, WaitForStartingProcess, Unmark,
           CloseLiveProcess, CloseLiveProcessWait, CloseLocked,
           CloseStdin, CloseSetState, StdinClosed, external, child
<1>5. ~Starting(t)' /\ ~Starting(t)
  <2>1. pc[t] \in {"send", "waitStart", "deliver", "unmark", "swClose",
                   "swShut", "swWait", "close", "closeRead", "shut", "closeSet"}
    BY DEF CallStep, SendLocked, WaitForStartingProcess, Deliver, Unmark,
           CloseLiveProcess, CloseLiveProcessWait, CloseLocked,
           CloseStdin, CloseSetState
  <2>2. \E l \in {"idle", "deliver", "waitStart", "acquire", "swShut", "swAwait",
                  "swWait", "shut", "await", "closeSet"} : At(t, l)
    BY DEF CallStep, SendLocked, WaitForStartingProcess, Deliver, Unmark,
           CloseLiveProcess, CloseLiveProcessWait, CloseLocked,
           CloseStdin, CloseSetState, Goto, GotoWithProc, Return
  <2> QED
    BY <1>1, <2>1, <2>2 DEF Starting, At, ThreadTypeOK
<1> QED
  BY <1>2, <1>3, <1>4, <1>5, QuietStep

\* h.Start gives the thread a process nobody knows of yet.
LEMMA RegistryHarnessStart ==
    ASSUME TypeOK, FrameOK, RegistryOK, NEW t \in Threads, OthersKeep(t),
           pc[t] = "start", NEW p \in Procs, run[p] = "unused",
           owner' = [owner EXCEPT ![p] = sid[t]],
           run' = [run EXCEPT ![p] = "live"],
           GotoWithProc(t, "register", p),
           UNCHANGED <<registry, turns, events, killed, pump>>
    PROVE  RegistryOK'
<1> USE DEF RegistryOK
<1>1. /\ pc'[t] = "register" /\ pid'[t] = p /\ sid'[t] = sid[t]
      /\ sid[t] \in Sessions /\ pump[p] = "none"
      /\ \A q \in Procs : q # p => owner'[q] = owner[q] /\ run'[q] = run[q]
      /\ owner'[p] = sid[t] /\ run'[p] = "live"
      /\ UNCHANGED <<procs, closing>>
  BY DEF GotoWithProc, At, TypeOK, ThreadTypeOK, ChildTypeOK, FrameOK, Frame,
         ProcessesOK, registry
<1>2. \A s \in Sessions : Tracked(s) => procs[s] \in Procs /\ procs[s] # p
  BY <1>1 DEF EntriesOK, Tracked, TypeOK, Registered
<1>3. EntriesOK'
  BY <1>1, <1>2 DEF EntriesOK, Tracked
<1>4. ProcessesOK'
  BY <1>1 DEF ProcessesOK
<1>5. StartsOK'
  BY <1>1 DEF StartsOK, OthersKeep
<1>6. PumpOwnsEntry'
  BY <1>1 DEF PumpOwnsEntry, Registered
<1>7. NoOrphan'
  BY <1>1 DEF NoOrphan, LiveChildren, Dropped, OthersKeep
<1>8. ClosingIsTracked'
  BY <1>1 DEF ClosingIsTracked, Tracked
<1> QED
  BY <1>3, <1>4, <1>5, <1>6, <1>7, <1>8

\* registerProcess makes the thread's process the session's only one.
LEMMA RegistryRegister ==
    ASSUME TypeOK, FrameOK, RegistryOK, NEW t \in Threads, OthersKeep(t),
           pc[t] = "register", ~Tracked(sid[t]),
           procs' = [procs EXCEPT ![sid[t]] = pid[t]],
           closing' = closing \ {sid[t]},
           pump' = [pump EXCEPT ![pid[t]] = "recv"],
           ~Starting(t)', UNCHANGED <<child, events, killed>>
    PROVE  RegistryOK'
<1> USE DEF RegistryOK
<1> DEFINE s == sid[t]
           p == pid[t]
<1>1. /\ s \in Sessions /\ p \in Procs /\ owner[p] = s /\ run[p] # "unused"
      /\ pump[p] = "none" /\ p # NoProc
  BY SessionsAssumption DEF FrameOK, Frame, StartsOK
<1>2. /\ procs'[s] = p /\ pump'[p] = "recv"
      /\ \A x \in Sessions : x # s => procs'[x] = procs[x]
      /\ \A q \in Procs : q # p => pump'[q] = pump[q]
      /\ UNCHANGED <<owner, run, turns, events>>
  BY <1>1 DEF TypeOK, child
<1>3. \A q \in Procs : pump[q] \in Registered => owner[q] # s
  BY <1>1, SessionsAssumption DEF PumpOwnsEntry, Tracked
<1>4. EntriesOK'
  <2>1. \A x \in Sessions : Tracked(x) => procs[x] \in Procs /\ procs[x] # p
    BY <1>1 DEF EntriesOK, Tracked, TypeOK, Registered
  <2> QED
    BY <1>1, <1>2, <2>1 DEF EntriesOK, Tracked, Registered, PumpPCs
<1>5. ProcessesOK'
  BY <1>1, <1>2 DEF ProcessesOK
<1>6. StartsOK'
  BY <1>1, <1>2 DEF StartsOK, OthersKeep, Starting
<1>7. PumpOwnsEntry'
  <2>1. \A q \in Procs : q # p /\ pump[q] \in Registered
            => owner[q] \in Sessions /\ owner[q] # s
    BY <1>3 DEF ProcessesOK, Registered
  <2> QED
    BY <1>1, <1>2, <2>1 DEF PumpOwnsEntry
<1>8. NoOrphan'
  <2>1. \A q \in LiveChildren : q # p =>
            \/ procs'[owner[q]] = q /\ pump'[q] \in {"recv", "perm", "permJam", "permFail"}
            \/ \E u \in Threads : Starting(u)' /\ pid'[u] = q
    <3>1. ASSUME NEW q \in LiveChildren, q # p, procs[owner[q]] = q,
                 pump[q] \in {"recv", "perm", "permJam", "permFail"}
          PROVE  procs'[owner[q]] = q /\ pump'[q] \in {"recv", "perm", "permJam", "permFail"}
      BY <1>2, <1>3, <3>1 DEF LiveChildren, Registered, PumpPCs, ProcessesOK
    <3>2. ASSUME NEW q \in LiveChildren, q # p,
                 NEW u \in Threads, Starting(u), pid[u] = q
          PROVE  \E w \in Threads : Starting(w)' /\ pid'[w] = q
      BY <3>2 DEF OthersKeep, Starting
    <3> QED
      BY <3>1, <3>2 DEF NoOrphan, Starting
  <2> QED
    BY <1>1, <1>2, <2>1 DEF NoOrphan, LiveChildren, Dropped, Starting
<1>9. ClosingIsTracked'
  BY <1>1, <1>2 DEF ClosingIsTracked, Tracked, TypeOK
<1> QED
  BY <1>4, <1>5, <1>6, <1>7, <1>8, <1>9

LEMMA RegistryStart ==
    ASSUME TypeOK, FrameOK, RegistryOK, NEW t \in Threads, OthersKeep(t), StartStep(t)
    PROVE  RegistryOK'
<1>1. ThreadTypeOK /\ ChildTypeOK
  BY DEF TypeOK
<1>2. \A l : Goto(t, l) => pc'[t] = l /\ pid'[t] = pid[t] /\ sid'[t] = sid[t]
  BY <1>1 DEF Goto, At, frame, ThreadTypeOK
<1>3. \A l, p : GotoWithProc(t, l, p) => pc'[t] = l
  BY <1>1 DEF GotoWithProc, At, ThreadTypeOK
<1>4. Return(t) => pc'[t] = "idle"
  BY <1>1 DEF Return, At, ThreadTypeOK
<1>5. Failed(t) => pc'[t] \in {"unmark", "fail"}
  BY <1>2 DEF Failed
<1>6. CASE Acquire(t) \/ AcquireWait(t) \/ StartSetRunning(t) \/ StartFailed(t)
  <2>1. ~Starting(t) /\ ~Starting(t)'
    BY <1>2, <1>4, <1>5, <1>6
       DEF Acquire, AcquireWait, StartSetRunning, StartFailed, Starting
  <2>2. UNCHANGED <<registry, external, pump>>
    BY <1>6 DEF Acquire, AcquireWait, StartSetRunning, StartFailed
  <2> QED
    BY <2>1, <2>2, QuietStep DEF registry, external, child, faults
<1>7. CASE Evict(t)
  <2>1. ~Starting(t) /\ ~Starting(t)'
    BY <1>1, <1>2, <1>7 DEF Evict, Starting, At, ThreadTypeOK
  <2>2. UNCHANGED <<registry, external, pump>>
    BY <1>7 DEF Evict
  <2> QED
    BY <2>1, <2>2, QuietStep DEF registry, external, child, faults
<1>8. CASE CloseTracked(t) \/ AwaitGone(t)
  <2>1. ~Starting(t) /\ ~Starting(t)'
    BY <1>2, <1>3, <1>4, <1>8 DEF CloseTracked, AwaitGone, AfterClose, Starting
  <2>2. UNCHANGED <<procs, owner, run, turns, events, pump, killed>>
    BY <1>8 DEF CloseTracked, AwaitGone, StdinClosed, registry, external, child,
               faults
  <2>3. \A s \in closing' : s \in closing \/ Tracked(s)
    BY <1>8 DEF CloseTracked, AwaitGone, registry
  <2> QED
    BY <2>1, <2>2, <2>3, QuietStep
<1>9. CASE HarnessStart(t)
  <2>1. CASE Failed(t) /\ UNCHANGED child
    <3>1. ~Starting(t) /\ ~Starting(t)'
      BY <1>5, <1>9, <2>1 DEF HarnessStart, Starting
    <3> QED
      BY <1>9, <2>1, <3>1, QuietStep DEF HarnessStart, registry, child, faults
  <2> QED
    BY <1>9, <2>1, RegistryHarnessStart DEF HarnessStart, faults
<1>10. CASE RegisterProcess(t)
  <2>1. CASE Tracked(sid[t])
    <3>1. Starting(t) /\ Starting(t)' /\ pid'[t] = pid[t] /\ sid'[t] = sid[t]
      BY <1>2, <1>10, <2>1 DEF RegisterProcess, Starting
    <3> QED
      BY <1>10, <2>1, <3>1, QuietStep DEF RegisterProcess, StdinClosed, faults
  <2>2. CASE ~Tracked(sid[t])
    <3>1. ~Starting(t)'
      BY <1>2, <1>10, <2>2 DEF RegisterProcess, Starting
    <3> QED
      BY <1>10, <2>2, <3>1, RegistryRegister DEF RegisterProcess, faults
  <2> QED
    BY <2>1, <2>2
<1>11. CASE DropDuplicate(t)
  <2>1. Starting(t) /\ ~Starting(t)' /\ run[pid[t]] = "gone"
    BY <1>5, <1>11 DEF DropDuplicate, Starting
  <2> QED
    BY <1>11, <2>1, QuietStep DEF DropDuplicate, registry, external, child, faults
<1>12. CASE StartSend(t)
  <2>1. ~Starting(t) /\ ~Starting(t)'
    BY <1>2, <1>4, <1>5, <1>12 DEF StartSend, Starting
  <2>2. \A p \in Procs : pump[p] = "none" => turns'[p] = turns[p]
    BY <1>1, <1>12 DEF StartSend, Delivered, child, FrameOK, Frame, ChildTypeOK
  <2>3. UNCHANGED <<registry, owner, run, events, pump, killed>>
    BY <1>12 DEF StartSend, Delivered, child, faults
  <2> QED
    BY <2>1, <2>2, <2>3, QuietStep DEF registry
<1> QED
  BY <1>6, <1>7, <1>8, <1>9, <1>10, <1>11, <1>12 DEF StartStep

\* A duplicate whose closer goes away is killed, and no longer counts.
LEMMA RegistryCancel ==
    ASSUME TypeOK, RegistryOK, NEW t \in Threads, OthersKeep(t), CloseCancelled(t)
    PROVE  RegistryOK'
<1>1. \E l \in {"idle", "wait", "unmark", "fail"} : At(t, l)
  BY DEF CloseCancelled, AfterClose, Return, GotoWithProc, Failed, Goto
<1>2. ~Starting(t)'
  BY <1>1 DEF Starting, At, TypeOK, ThreadTypeOK
<1>3. UNCHANGED <<procs, closing, owner, run, turns, events, pump>>
      /\ killed' = killed \union {pid[t]}
  BY DEF CloseCancelled, registry, child
<1> QED
  BY <1>2, <1>3, QuietStep

\* Receiving an event leaves only events that were there before.
LEMMA ReceivedExits ==
    ASSUME TypeOK, ProcessesOK, NEW p \in Procs, NEW e, Receive(p, e)
    PROVE  /\ \A q \in Procs : \A i \in 1 .. Len(events'[q]) :
                 events'[q][i] \in Exits => run[q] = "gone"
           /\ e \in Exits => run[p] = "gone"
<1>1. events[p] \in Seq(Events) /\ events[p] # <<>> /\ e = events[p][1]
  BY DEF Receive, TypeOK
<1>2. events'[p] = Tail(events[p]) /\ \A q \in Procs : q # p => events'[q] = events[q]
  BY DEF Receive, TypeOK
<1>3. \A i \in 1 .. Len(Tail(events[p])) : Tail(events[p])[i] = events[p][i + 1]
                                           /\ i + 1 \in 1 .. Len(events[p])
  BY <1>1
<1>4. 1 \in 1 .. Len(events[p])
  BY <1>1
<1>5. \A q \in Procs : \A i \in 1 .. Len(events[q]) :
          events[q][i] \in Exits => run[q] = "gone"
  BY DEF ProcessesOK
<1>6. \A i \in 1 .. Len(events'[p]) : events'[p][i] \in Exits => run[p] = "gone"
  BY <1>2, <1>3, <1>5
<1> QED
  BY <1>1, <1>2, <1>4, <1>5, <1>6

LEMMA RegistryPump ==
    ASSUME TypeOK, RegistryOK, NEW p \in Procs, PumpStep(p) \/ JamEnds(p)
    PROVE  RegistryOK'
<1>1. UNCHANGED <<owner, run, turns, killed, threads>>
  BY DEF PumpStep, PumpToolUse, PumpResult, HandlePermission, Answered,
         PumpPermissionState, HandleExit, ExitSetState, UnregisterProcess,
         ReleaseSlot, JamEnds, child, faults, external
<1>2. \A q \in Procs : \A i \in 1 .. Len(events'[q]) :
          events'[q][i] \in Exits => run[q] = "gone"
  <2>1. CASE UNCHANGED events
    BY <2>1 DEF RegistryOK, ProcessesOK
  <2>2. ASSUME NEW e, Receive(p, e) 
        PROVE  \A q \in Procs : \A i \in 1 .. Len(events'[q]) :
                   events'[q][i] \in Exits => run[q] = "gone"
    BY <2>2, ReceivedExits DEF RegistryOK
  <2> QED
    BY <2>1, <2>2
       DEF PumpStep, PumpToolUse, PumpResult, HandlePermission,
           PumpPermissionState, HandleExit, ExitSetState, UnregisterProcess,
           ReleaseSlot, JamEnds, external
<1>3. \A s \in Sessions : Tracked(s) => procs[s] \in Procs
  BY DEF Tracked, TypeOK
<1>4. CASE UNCHANGED <<registry, pump>>
  <2>1. RegistryQuiet
    BY <1>1, <1>2, <1>4 DEF RegistryQuiet, registry, threads, frame, Starting
  <2> QED
    BY <2>1, QuietRegistry
<1>5. ASSUME NEW l \in Registered, PumpGoto(p, l), pump[p] \in Registered,
             UNCHANGED registry,
             l \notin {"recv", "perm", "permJam", "permFail"} => run[p] = "gone",
             run[p] # "gone" => pump[p] \in {"recv", "perm", "permJam", "permFail"}
      PROVE  RegistryOK'
  <2>1. /\ pump'[p] = l /\ \A q \in Procs : q # p => pump'[q] = pump[q]
        /\ UNCHANGED <<procs, closing, pc, pid, sid>>
    BY <1>1, <1>5 DEF PumpGoto, TypeOK, registry, threads, frame
  <2> USE DEF RegistryOK
  <2>2. l # "none" /\ pump[p] # "none"
    BY <1>5 DEF Registered
  <2>3. EntriesOK'
    BY <1>1, <1>3, <1>5, <2>1 DEF EntriesOK, Tracked
  <2>4. ProcessesOK'
    BY <1>1, <1>2, <1>5, <2>1, <2>2 DEF ProcessesOK
  <2>5. StartsOK'
    BY <1>1, <2>1, <2>2 DEF StartsOK
  <2>6. PumpOwnsEntry'
    BY <1>1, <1>5, <2>1 DEF PumpOwnsEntry
  <2>7. NoOrphan'
    <3>1. run[p] = "live" => l \in {"recv", "perm", "permJam", "permFail"}
                            /\ pump[p] \in {"recv", "perm", "permJam", "permFail"}
      BY <1>5
    <3> QED
      BY <1>1, <2>1, <2>2, <3>1, <1>5 DEF NoOrphan, LiveChildren, Dropped, PumpOwnsEntry
  <2>8. ClosingIsTracked'
    BY <2>1 DEF ClosingIsTracked, Tracked
  <2> QED
    BY <2>3, <2>4, <2>5, <2>6, <2>7, <2>8
<1>6. CASE UnregisterProcess(p)
  <2>1. /\ pump[p] = "unregister" /\ run[p] = "gone" /\ procs[owner[p]] = p
        /\ owner[p] \in Sessions
    BY <1>6 DEF UnregisterProcess, RegistryOK, ProcessesOK, PumpOwnsEntry,
               Registered, PumpPCs
  <2>2. /\ pump'[p] = "release" /\ \A q \in Procs : q # p => pump'[q] = pump[q]
        /\ procs'[owner[p]] = NoProc
        /\ \A s \in Sessions : s # owner[p] => procs'[s] = procs[s]
        /\ closing' = closing \ {owner[p]}
        /\ UNCHANGED <<pc, pid, sid>>
    BY <1>1, <1>6, <2>1 DEF UnregisterProcess, PumpGoto, TypeOK, threads, frame
  <2> USE DEF RegistryOK
  <2>3. EntriesOK'
    BY <1>1, <1>3, <2>1, <2>2, SessionsAssumption DEF EntriesOK, Tracked
  <2>4. ProcessesOK'
    BY <1>1, <1>2, <2>1, <2>2 DEF ProcessesOK
  <2>5. StartsOK'
    BY <1>1, <2>1, <2>2 DEF StartsOK
  <2>6. PumpOwnsEntry'
    <3>1. \A q \in Procs : q # p /\ pump[q] \in Registered
              => owner[q] \in Sessions /\ owner[q] # owner[p]
      BY <2>1 DEF PumpOwnsEntry, ProcessesOK, Registered
    <3> QED
      BY <1>1, <2>2, <3>1 DEF PumpOwnsEntry, Registered
  <2>7. NoOrphan'
    <3>1. ASSUME NEW q \in LiveChildren, procs[owner[q]] = q
          PROVE  procs'[owner[q]] = q /\ pump'[q] = pump[q]
      BY <2>1, <2>2, <3>1 DEF LiveChildren, ProcessesOK
    <3> QED
      BY <1>1, <2>1, <2>2, <3>1 DEF NoOrphan, LiveChildren, Dropped
  <2>8. ClosingIsTracked'
    BY <2>2 DEF ClosingIsTracked, Tracked, TypeOK
  <2> QED
    BY <2>3, <2>4, <2>5, <2>6, <2>7, <2>8
<1>7. CASE ReleaseSlot(p)
  <2>1. /\ pump[p] = "release" /\ run[p] = "gone" /\ pump'[p] = "done"
        /\ \A q \in Procs : q # p => pump'[q] = pump[q]
        /\ UNCHANGED <<procs, closing, pc, pid, sid>>
    BY <1>1, <1>7 DEF ReleaseSlot, RegistryOK, ProcessesOK, PumpPCs, PumpGoto,
               TypeOK, registry, threads, frame
  <2> USE DEF RegistryOK
  <2>2. EntriesOK'
    BY <1>1, <1>3, <2>1 DEF EntriesOK, Tracked, Registered
  <2>3. ProcessesOK'
    BY <1>1, <1>2, <2>1 DEF ProcessesOK
  <2>4. StartsOK'
    BY <1>1, <2>1 DEF StartsOK
  <2>5. PumpOwnsEntry'
    BY <1>1, <2>1 DEF PumpOwnsEntry, Registered
  <2>6. NoOrphan'
    BY <1>1, <2>1 DEF NoOrphan, LiveChildren, Dropped
  <2>7. ClosingIsTracked'
    BY <2>1 DEF ClosingIsTracked, Tracked
  <2> QED
    BY <2>2, <2>3, <2>4, <2>5, <2>6, <2>7
<1>8. CASE HandleExit(p)
  <2>1. run[p] = "gone" /\ pump[p] = "recv"
    BY <1>8, ReceivedExits DEF HandleExit, RegistryOK, Exits, Receive
  <2> QED
    BY <1>5, <1>8, <2>1 DEF HandleExit, Registered, PumpPCs
<1>9. CASE ExitSetState(p)
  <2>1. run[p] = "gone"
    BY <1>9 DEF ExitSetState, RegistryOK, ProcessesOK, PumpPCs
  <2> QED
    BY <1>5, <1>9, <2>1 DEF ExitSetState, Registered, PumpPCs
<1>10. CASE PumpPermissionState(p)
  BY <1>5, <1>10 DEF PumpPermissionState, Registered, PumpPCs
<1>11. ASSUME NEW r \in Reqs, HandlePermission(p, r) PROVE RegistryOK'
  BY <1>5, <1>11 DEF HandlePermission, Receive, Registered, PumpPCs
<1>12. CASE JamEnds(p)
  BY <1>5, <1>12 DEF JamEnds, Registered, PumpPCs
<1> QED
  BY <1>4, <1>6, <1>7, <1>8, <1>9, <1>10, <1>11, <1>12
     DEF PumpStep, PumpToolUse, PumpResult

LEMMA RegistryChild ==
    ASSUME TypeOK, RegistryOK, NEW p \in Procs, ChildStep(p)
    PROVE  RegistryOK'
<1>1. UNCHANGED <<registry, owner, pump, threads>> /\ run[p] = "live"
  BY DEF ChildStep, ChildToolUse, ChildAsk, ChildResult, ChildExit, Emit, child
<1>2. UNCHANGED <<procs, closing, pc, pid, sid>>
  BY <1>1 DEF registry, threads, frame
<1>3. CASE ~ChildExit(p)
  <2>1. UNCHANGED <<run, killed>>
    BY <1>3 DEF ChildStep, ChildToolUse, ChildAsk, ChildResult, child, faults
  <2>2. \A q \in Procs : pump[q] = "none" => turns'[q] = turns[q]
    <3>1. turns[p] > 0 /\ (UNCHANGED turns \/ turns' = [turns EXCEPT ![p] = @ - 1])
      BY <1>3 DEF ChildStep, ChildToolUse, ChildAsk, ChildResult, child
    <3>2. pump[p] # "none"
      BY <3>1 DEF RegistryOK, ProcessesOK
    <3> QED
      BY <3>1, <3>2 DEF TypeOK, ChildTypeOK
  <2>3. \A q \in Procs : \A i \in 1 .. Len(events'[q]) :
            events'[q][i] \in Exits => run[q] = "gone"
    <3>1. \E e \in Events \ Exits : events' = [events EXCEPT ![p] = Append(@, e)]
      BY <1>3, SessionsAssumption
         DEF ChildStep, ChildToolUse, ChildAsk, ChildResult, Emit, Events, Exits
    <3>2. PICK e \in Events \ Exits : events' = [events EXCEPT ![p] = Append(@, e)]
      BY <3>1
    <3>3. events[p] \in Seq(Events) /\ events'[p] = Append(events[p], e)
          /\ \A q \in Procs : q # p => events'[q] = events[q]
      BY <3>2 DEF TypeOK
    <3>4. \A i \in 1 .. Len(events'[p]) :
              events'[p][i] = e \/ (i \in 1 .. Len(events[p]) /\ events'[p][i] = events[p][i])
      BY <3>3
    <3> QED
      BY <3>2, <3>3, <3>4 DEF RegistryOK, ProcessesOK
  <2>4. RegistryQuiet
    BY <1>1, <1>2, <2>1, <2>2, <2>3 DEF RegistryQuiet, Starting
  <2> QED
    BY <2>4, QuietRegistry
<1>4. CASE ChildExit(p)
  <2> USE DEF RegistryOK
  <2>1. /\ run'[p] = "gone" /\ turns'[p] = 0
        /\ \A q \in Procs : q # p => /\ run'[q] = run[q] /\ turns'[q] = turns[q]
                                     /\ events'[q] = events[q]
    BY <1>4 DEF ChildExit, Emit, TypeOK, ChildTypeOK
  <2>8. killed \subseteq killed' \union {p}
    BY <1>4 DEF ChildExit
  <2>2. EntriesOK'
    BY <1>1, <1>2 DEF EntriesOK, Tracked
  <2>3. ProcessesOK'
    BY <1>1, <2>1 DEF ProcessesOK
  <2>4. StartsOK'
    BY <1>1, <1>2, <2>1 DEF StartsOK
  <2>5. PumpOwnsEntry'
    BY <1>1, <1>2 DEF PumpOwnsEntry
  <2>6. NoOrphan'
    BY <1>1, <1>2, <2>1, <2>8 DEF NoOrphan, LiveChildren, Dropped
  <2>7. ClosingIsTracked'
    BY <1>2 DEF ClosingIsTracked, Tracked
  <2> QED
    BY <2>2, <2>3, <2>4, <2>5, <2>6, <2>7
<1> QED
  BY <1>3, <1>4

LEMMA RegistryRestart ==
    ASSUME TypeOK, RegistryOK, Restart
    PROVE  RegistryOK'
<1> USE DEF RegistryOK, Restart
<1>1. EntriesOK'
  BY DEF EntriesOK, Tracked
<1>2. ProcessesOK'
  BY DEF ProcessesOK
<1>3. StartsOK'
  BY DEF StartsOK
<1>4. PumpOwnsEntry'
  BY DEF PumpOwnsEntry, Registered
<1>5. NoOrphan'
  BY DEF NoOrphan, LiveChildren
<1>6. ClosingIsTracked'
  BY DEF ClosingIsTracked
<1> QED
  BY <1>1, <1>2, <1>3, <1>4, <1>5, <1>6

LEMMA RegistryStep ==
    ASSUME TypeOK, FrameOK, RegistryOK, Next
    PROVE  RegistryOK'
<1>1. ASSUME NEW t \in Threads, OwnStep(t) PROVE RegistryOK'
  <2>1. OthersKeep(t)
    BY <1>1, ThreadsApart DEF TypeOK
  <2> QED
    BY <1>1, <2>1, RegistryStart, RegistryCall, RegistryApproval, RegistryBegin,
       RegistryCancel DEF OwnStep
<1>2. CASE UNCHANGED <<procs, owner, run, turns, events, pump, threads>>
           /\ killed \subseteq killed'
           /\ \A s \in closing' : s \in closing \/ Tracked(s)
  <2>1. \A p \in Procs : \A i \in 1 .. Len(events'[p]) :
            events'[p][i] \in Exits => run[p] = "gone"
    BY <1>2 DEF RegistryOK, ProcessesOK
  <2>2. RegistryQuiet
    BY <1>2, <2>1 DEF RegistryQuiet, Starting, threads, frame
  <2> QED
    BY <2>2, QuietRegistry
<1>3. ASSUME NEW s \in Sessions, Interrupt(s) PROVE RegistryOK'
  BY <1>2, <1>3 DEF Interrupt, registry, faults
<1>4. CASE MainStep
  BY <1>2, <1>4, RegistryRestart
     DEF MainStep, ShutdownBegin, ShutdownClose, ShutdownSetState, StdinClosed,
         registry, external, child, faults
<1>5. ASSUME NEW p \in Procs, FaultStep(p) PROVE RegistryOK'
  <2>1. CASE Hold(p) \/ Jam(p)
    BY <1>2, <2>1 DEF Hold, Jam, registry, child
  <2> QED
    BY <1>5, <2>1, RegistryPump DEF FaultStep
<1> QED
  BY <1>1, <1>3, <1>4, <1>5, RegistryPump, RegistryChild
     DEF Next, ThreadStep, Threads, OwnStep

-----------------------------------------------------------------------------
(* Slots. *)

\* The owners of the pool's slots.
Holders == HoldingThreads \union HoldingPumps

\* What a step may do to the semaphore and to the owners of its tokens.
Takes(o)       == /\ o \in Threads /\ o \notin Holders /\ sem < MaxOpen
                  /\ Holders' = Holders \union {o} /\ sem' = sem + 1
GivesBack(o)   == /\ o \in Holders
                  /\ Holders' = Holders \ {o} /\ sem' = Released
HandsOver(o, n) == /\ o \in Holders /\ n \in Procs \ Holders
                   /\ Holders' = (Holders \ {o}) \union {n} /\ sem' = sem

SlotStep ==
    \/ Holders' = Holders /\ sem' = sem
    \/ \E o \in Threads : Takes(o)
    \/ \E o \in Threads \union Procs : GivesBack(o)
    \/ \E o \in Threads, n \in Procs : HandsOver(o, n)
    \/ Holders' = {} /\ sem' = 0

\* Owners are finitely many, and threads and processes do not mix.
LEMMA OwnersCounted ==
    ASSUME NEW A \in SUBSET Threads, NEW B \in SUBSET Procs
    PROVE  /\ IsFiniteSet(A \union B) /\ Cardinality(A \union B) \in Nat
           /\ Cardinality(A \union B) = Cardinality(A) + Cardinality(B)
<1>1. IsFiniteSet(Threads)
  BY SessionsAssumption, FS_AddElement DEF Threads
<1>2. IsFiniteSet(A) /\ IsFiniteSet(B)
  BY <1>1, SessionsAssumption, FS_Subset
<1>3. A \intersect B = {}
  BY SessionsAssumption DEF Threads
<1>4. Cardinality(A \intersect B) = 0
  BY <1>3, FS_EmptySet
<1>5. /\ IsFiniteSet(A \union B)
      /\ Cardinality(A \union B)
            = Cardinality(A) + Cardinality(B) - Cardinality(A \intersect B)
  BY <1>2, FS_Union
<1>6. /\ Cardinality(A) \in Nat /\ Cardinality(B) \in Nat
      /\ Cardinality(A \union B) \in Nat
  BY <1>2, <1>5, FS_CardinalityType
<1> QED
  BY <1>4, <1>5, <1>6

LEMMA HoldersCounted ==
    /\ IsFiniteSet(Holders) /\ Cardinality(Holders) \in Nat
    /\ Cardinality(Holders)
          = Cardinality(HoldingThreads) + Cardinality(HoldingPumps)
<1>1. HoldingThreads \in SUBSET Threads /\ HoldingPumps \in SUBSET Procs
  BY DEF HoldingThreads, HoldingPumps
<1> QED
  BY <1>1, OwnersCounted DEF Holders

\* A step that treats the slots as it should keeps the account right.
LEMMA SlotStepCounts ==
    ASSUME SlotsOK, SlotStep
    PROVE  SlotsOK'
<1>1. /\ IsFiniteSet(Holders) /\ Cardinality(Holders) \in Nat
      /\ sem = Cardinality(Holders) /\ sem <= MaxOpen
  BY HoldersCounted DEF SlotsOK, SlotsAccounted
<1>2. SUFFICES sem' = Cardinality(Holders') /\ sem' <= MaxOpen
  <2>1. HoldingThreads' \in SUBSET Threads /\ HoldingPumps' \in SUBSET Procs
    BY DEF HoldingThreads, HoldingPumps
  <2>2. Cardinality(Holders')
            = Cardinality(HoldingThreads') + Cardinality(HoldingPumps')
    BY <2>1, OwnersCounted DEF Holders
  <2> QED
    BY <1>2, <2>2 DEF SlotsOK, SlotsAccounted
<1>3. CASE Holders' = Holders /\ sem' = sem
  BY <1>1, <1>3
<1>4. ASSUME NEW o \in Threads, Takes(o)
      PROVE  sem' = Cardinality(Holders') /\ sem' <= MaxOpen
  <2>1. Cardinality(Holders') = Cardinality(Holders) + 1
    BY <1>1, <1>4, FS_AddElement DEF Takes
  <2> QED
    BY <1>1, <1>4, <2>1, SessionsAssumption DEF Takes
<1>5. ASSUME NEW o, GivesBack(o)
      PROVE  sem' = Cardinality(Holders') /\ sem' <= MaxOpen
  <2>1. Cardinality(Holders') = Cardinality(Holders) - 1
    BY <1>1, <1>5, FS_RemoveElement DEF GivesBack
  <2>2. Cardinality(Holders) # 0
    BY <1>1, <1>5, FS_EmptySet DEF GivesBack
  <2> QED
    BY <1>1, <1>5, <2>1, <2>2, SessionsAssumption DEF GivesBack, Released
<1>6. ASSUME NEW o \in Threads, NEW n \in Procs, HandsOver(o, n)
      PROVE  sem' = Cardinality(Holders') /\ sem' <= MaxOpen
  <2>1. /\ IsFiniteSet(Holders \ {o})
        /\ Cardinality(Holders \ {o}) = Cardinality(Holders) - 1
    BY <1>1, <1>6, FS_RemoveElement DEF HandsOver
  <2>2. Cardinality(Holders') = Cardinality(Holders \ {o}) + 1
    BY <1>6, <2>1, FS_AddElement DEF HandsOver
  <2> QED
    BY <1>1, <1>6, <2>1, <2>2 DEF HandsOver
<1>7. CASE Holders' = {} /\ sem' = 0
  BY <1>7, FS_EmptySet, SessionsAssumption
<1> QED
  BY <1>3, <1>4, <1>5, <1>6, <1>7 DEF SlotStep

-----------------------------------------------------------------------------
(* Every step is one. *)

Holds(l) == l \in {"start", "register", "dup"}

\* Only thread t's program counter decides whether its step changes the
\* holders.
LEMMA HoldersOfStep ==
    ASSUME TypeOK, NEW t \in Threads, OthersKeep(t), UNCHANGED pump
    PROVE  /\ Holds(pc'[t]) => Holders' = Holders \union {t}
           /\ ~Holds(pc'[t]) => Holders' = Holders \ {t}
           /\ t \in Holders <=> Holds(pc[t])
<1>1. HoldingPumps' = HoldingPumps /\ t \notin HoldingPumps
  BY SessionsAssumption DEF HoldingPumps, Threads
<1>2. /\ Holds(pc'[t]) => HoldingThreads' = HoldingThreads \union {t}
      /\ ~Holds(pc'[t]) => HoldingThreads' = HoldingThreads \ {t}
  BY DEF HoldingThreads, OthersKeep, Holds
<1>3. t \in HoldingThreads <=> Holds(pc[t])
  BY DEF HoldingThreads, Holds
<1> QED
  BY <1>1, <1>2, <1>3 DEF Holders

LEMMA SlotsBegin ==
    ASSUME TypeOK, NEW t \in Threads, OthersKeep(t),
           \/ CallerCalls(t) \/ (t = Janitor /\ JanitorCalls)
           \/ CallStep(t) \/ ApprovalStep(t)
    PROVE  SlotStep
<1>1. ThreadTypeOK
  BY DEF TypeOK
<1>2. UNCHANGED <<pump, sem>>
  BY DEF CallerCalls, JanitorCalls, Create, Send, SwitchModel, Close, Decide,
         ReapIdle, ExpireList, CallStep, SendLocked, WaitForStartingProcess,
         Deliver, Unmark, CloseLiveProcess, CloseLiveProcessWait, CloseLocked,
         CloseStdin, CloseSetState, ApprovalStep, DecideSetRunning, DecideLookup,
         DecideTell, ExpireDecide, ExpireLookup, ExpireSetState, ExpireTell
<1>3. ~Holds(pc[t]) /\ ~Holds(pc'[t])
  <2>1. CASE CallerCalls(t) \/ (t = Janitor /\ JanitorCalls)
    <3>1. pc[t] = "idle"
      BY <2>1 DEF CallerCalls, JanitorCalls, Create, Send, SwitchModel, Close,
             Decide, ReapIdle, ExpireList, Call
    <3>2. \/ UNCHANGED threads
          \/ \E l \in {"acquire", "send", "swClose", "close", "closeRead",
                       "decideRun", "track", "expire"} : At(t, l)
      BY <2>1 DEF CallerCalls, JanitorCalls, Create, Send, SwitchModel, Close,
             Decide, ReapIdle, ExpireList, Call
    <3> QED
      BY <1>1, <3>1, <3>2 DEF Holds, At, ThreadTypeOK, threads
  <2>2. CASE CallStep(t)
    <3>1. ~Holds(pc[t])
      BY <2>2 DEF CallStep, SendLocked, WaitForStartingProcess, Deliver, Unmark,
             CloseLiveProcess, CloseLiveProcessWait, CloseLocked,
             CloseStdin, CloseSetState, Holds
    <3>2. \E l \in {"idle", "deliver", "waitStart", "acquire", "swShut",
                    "swAwait", "swWait", "shut", "await", "closeSet"} : At(t, l)
      BY <2>2 DEF CallStep, SendLocked, WaitForStartingProcess, Deliver, Unmark,
             CloseLiveProcess, CloseLiveProcessWait, CloseLocked,
             CloseStdin, CloseSetState, Goto, GotoWithProc, Return
    <3> QED
      BY <1>1, <3>1, <3>2 DEF Holds, At, ThreadTypeOK
  <2>3. CASE ApprovalStep(t)
    <3>1. ~Holds(pc[t])
      BY <2>3 DEF ApprovalStep, DecideSetRunning, DecideLookup, DecideTell,
             ExpireDecide, ExpireLookup, ExpireSetState, ExpireTell, Holds
    <3>2. \E l \in {"idle", "lookup", "tell", "exLookup", "exRun", "exOpen",
                    "exTell", "exFail"} : At(t, l)
      BY <2>3 DEF ApprovalStep, DecideSetRunning, DecideLookup, DecideTell,
             ExpireDecide, ExpireLookup, ExpireSetState, ExpireTell, Goto,
             GotoWithProc, Return
    <3> QED
      BY <1>1, <3>1, <3>2 DEF Holds, At, ThreadTypeOK
  <2> QED
    BY <2>1, <2>2, <2>3
<1> QED
  BY <1>2, <1>3, HoldersOfStep DEF SlotStep

LEMMA SlotsStart ==
    ASSUME TypeOK, RegistryOK, NEW t \in Threads, OthersKeep(t), StartStep(t)
    PROVE  SlotStep
<1>1. ThreadTypeOK
  BY DEF TypeOK
<1>2. \A l : Goto(t, l) => pc'[t] = l
  BY <1>1 DEF Goto, At, ThreadTypeOK
<1>3. \A l, p : GotoWithProc(t, l, p) => pc'[t] = l
  BY <1>1 DEF GotoWithProc, At, ThreadTypeOK
<1>4. Return(t) => pc'[t] = "idle"
  BY <1>1 DEF Return, At, ThreadTypeOK
<1>5. Failed(t) => ~Holds(pc'[t])
  BY <1>2 DEF Failed, Holds
<1>6. CASE Acquire(t) \/ AcquireWait(t)
  <2>1. CASE sem < MaxOpen /\ sem' = sem + 1 /\ Goto(t, "start")
    <3>1. Takes(t)
      BY <1>2, <1>6, <2>1, HoldersOfStep DEF Acquire, AcquireWait, Holds, Takes
    <3> QED
      BY <3>1 DEF SlotStep
  <2>2. CASE sem' = sem /\ ~Holds(pc'[t])
    BY <1>6, <2>2, HoldersOfStep DEF Acquire, AcquireWait, Holds, SlotStep
  <2> QED
    BY <1>2, <1>5, <1>6, <2>1, <2>2 DEF Acquire, AcquireWait, Holds
<1>7. CASE HarnessStart(t)
  <2>1. pc[t] = "start" /\ UNCHANGED pump
    BY <1>7 DEF HarnessStart
  <2>2. CASE pc'[t] = "register" /\ UNCHANGED sem
    BY <2>1, <2>2, HoldersOfStep DEF Holds, SlotStep
  <2>3. CASE Failed(t) /\ sem' = Released
    <3>1. GivesBack(t)
      BY <1>5, <2>1, <2>3, HoldersOfStep DEF Holds, GivesBack
    <3> QED
      BY <3>1 DEF SlotStep
  <2> QED
    BY <1>3, <1>7, <2>2, <2>3 DEF HarnessStart
<1>8. CASE RegisterProcess(t)
  <2>1. pc[t] = "register" /\ UNCHANGED sem
    BY <1>8 DEF RegisterProcess
  <2>2. CASE Tracked(sid[t])
    BY <1>2, <1>8, <2>1, <2>2, HoldersOfStep DEF RegisterProcess, Holds, SlotStep
  <2>3. CASE ~Tracked(sid[t])
    <3>1. /\ pump' = [pump EXCEPT ![pid[t]] = "recv"] /\ ~Holds(pc'[t])
          /\ pid[t] \in Procs /\ pump[pid[t]] = "none"
      BY <1>2, <1>8, <2>1, <2>3
         DEF RegisterProcess, Holds, RegistryOK, StartsOK
    <3>2. HoldingPumps' = HoldingPumps \union {pid[t]} /\ pid[t] \notin HoldingPumps
      BY <3>1 DEF HoldingPumps, TypeOK
    <3>3. HoldingThreads' = HoldingThreads \ {t} /\ t \in HoldingThreads
      BY <2>1, <3>1 DEF HoldingThreads, OthersKeep, Holds
    <3>4. t \notin HoldingPumps \union {pid[t]} /\ pid[t] \notin HoldingThreads
      BY <3>1, SessionsAssumption DEF HoldingPumps, HoldingThreads, Threads
    <3>5. HandsOver(t, pid[t])
      BY <2>1, <3>1, <3>2, <3>3, <3>4 DEF HandsOver, Holders
    <3> QED
      BY <3>1, <3>5 DEF SlotStep
  <2> QED
    BY <2>2, <2>3
<1>9. CASE DropDuplicate(t)
  <2>1. GivesBack(t)
    BY <1>5, <1>9, HoldersOfStep DEF DropDuplicate, Holds, GivesBack
  <2> QED
    BY <2>1 DEF SlotStep
<1>10. CASE Evict(t)
  <2>1. ~Holds(pc[t]) /\ ~Holds(pc'[t]) /\ UNCHANGED <<pump, sem>>
    BY <1>1, <1>2, <1>10 DEF Evict, Holds, At, ThreadTypeOK
  <2> QED
    BY <2>1, HoldersOfStep DEF SlotStep
<1>11. CASE \/ CloseTracked(t) \/ AwaitGone(t) \/ StartSetRunning(t)
            \/ StartSend(t) \/ StartFailed(t)
  <2>1. ~Holds(pc[t]) /\ ~Holds(pc'[t]) /\ UNCHANGED <<pump, sem>>
    BY <1>2, <1>3, <1>4, <1>5, <1>11
       DEF CloseTracked, AwaitGone, AfterClose, StartSetRunning, StartSend,
           StartFailed, Holds
  <2> QED
    BY <2>1, HoldersOfStep DEF SlotStep
<1> QED
  BY <1>6, <1>7, <1>8, <1>9, <1>10, <1>11 DEF StartStep

LEMMA SlotsCancel ==
    ASSUME TypeOK, NEW t \in Threads, OthersKeep(t), CloseCancelled(t)
    PROVE  SlotStep
<1>1. \E l \in {"idle", "wait", "unmark", "fail"} : At(t, l)
  BY DEF CloseCancelled, AfterClose, Return, GotoWithProc, Failed, Goto
<1>2. ~Holds(pc'[t]) /\ UNCHANGED pump
  BY <1>1 DEF Holds, At, TypeOK, ThreadTypeOK, CloseCancelled
<1>3. CASE pc[t] = "dup" /\ sem' = Released
  <2>1. GivesBack(t)
    BY <1>2, <1>3, HoldersOfStep DEF Holds, GivesBack
  <2> QED
    BY <2>1 DEF SlotStep
<1>4. CASE pc[t] # "dup" /\ sem' = sem
  <2>1. ~Holds(pc[t])
    BY <1>4 DEF CloseCancelled, Holds
  <2> QED
    BY <1>2, <1>4, <2>1, HoldersOfStep DEF SlotStep
<1> QED
  BY <1>3, <1>4 DEF CloseCancelled

LEMMA SlotsPump ==
    ASSUME TypeOK, NEW p \in Procs, PumpStep(p) \/ JamEnds(p)
    PROVE  SlotStep
<1>1. HoldingThreads' = HoldingThreads
  <2>1. UNCHANGED threads
    BY DEF PumpStep, PumpToolUse, PumpResult, HandlePermission,
           PumpPermissionState, HandleExit, ExitSetState, UnregisterProcess,
           ReleaseSlot, JamEnds
  <2> QED
    BY <2>1 DEF HoldingThreads, threads
<1>2. ASSUME NEW l \in PumpPCs \ {"none", "done"}, PumpGoto(p, l),
             pump[p] \in PumpPCs \ {"none", "done"}, UNCHANGED sem
      PROVE  SlotStep
  <2>1. HoldingPumps' = HoldingPumps
    BY <1>2 DEF HoldingPumps, PumpGoto, TypeOK
  <2> QED
    BY <1>1, <1>2, <2>1 DEF Holders, SlotStep
<1>3. CASE ReleaseSlot(p)
  <2>1. HoldingPumps' = HoldingPumps \ {p} /\ p \in HoldingPumps
    BY <1>3 DEF ReleaseSlot, HoldingPumps, PumpGoto, TypeOK
  <2>2. p \notin HoldingThreads
    BY SessionsAssumption DEF HoldingThreads, Threads
  <2>3. GivesBack(p)
    BY <1>1, <1>3, <2>1, <2>2 DEF GivesBack, Holders, ReleaseSlot
  <2> QED
    BY <2>3 DEF SlotStep
<1>4. CASE UNCHANGED <<pump, sem>>
  BY <1>1, <1>4 DEF Holders, HoldingPumps, SlotStep
<1>5. CASE JamEnds(p)
  BY <1>2, <1>5 DEF JamEnds, PumpPCs
<1> QED
  BY <1>2, <1>3, <1>4, <1>5
     DEF PumpStep, PumpToolUse, PumpResult, HandlePermission, Receive,
         PumpPermissionState, HandleExit, ExitSetState, UnregisterProcess,
         PumpPCs

LEMMA SlotsStep ==
    ASSUME TypeOK, RegistryOK, Next
    PROVE  SlotStep
<1>1. ASSUME NEW t \in Threads, OwnStep(t) PROVE SlotStep
  <2>1. OthersKeep(t)
    BY <1>1, ThreadsApart DEF TypeOK
  <2> QED
    BY <1>1, <2>1, SlotsBegin, SlotsStart, SlotsCancel DEF OwnStep
<1>2. CASE UNCHANGED <<pump, sem, threads>>
  BY <1>2 DEF Holders, HoldingPumps, HoldingThreads, threads, SlotStep
<1>3. CASE Restart
  BY <1>3 DEF Restart, Holders, HoldingPumps, HoldingThreads, SlotStep
<1> QED
  BY <1>1, <1>2, <1>3, SlotsPump
     DEF Next, ThreadStep, Threads, OwnStep, Interrupt, ChildStep, ChildToolUse,
         ChildAsk, ChildResult, ChildExit, MainStep, ShutdownBegin,
         ShutdownClose, ShutdownSetState, FaultStep, Hold, Jam

-----------------------------------------------------------------------------
(* Live processes are bounded because each of them has a slot of its own.   *)

LEMMA LiveHaveSlots ==
    ASSUME TypeOK, RegistryOK, SlotsOK
    PROVE  LiveBounded
<1> DEFINE Slot(p) == IF pump[p] \in {"recv", "perm", "permJam", "permFail"} THEN p
                      ELSE CHOOSE t \in Threads : Starting(t) /\ pid[t] = p
           f == [p \in LiveChildren |-> Slot(p)]
<1>1. ASSUME NEW p \in LiveChildren
      PROVE  \/ pump[p] \in {"recv", "perm", "permJam", "permFail"} /\ Slot(p) = p
             \/ Slot(p) \in Threads /\ Starting(Slot(p)) /\ pid[Slot(p)] = p
  <2>1. CASE pump[p] \in {"recv", "perm", "permJam", "permFail"}
    BY <2>1
  <2>2. CASE pump[p] \notin {"recv", "perm", "permJam", "permFail"}
    <3>1. \E t \in Threads : Starting(t) /\ pid[t] = p
      BY <2>2 DEF RegistryOK, NoOrphan, Starting
    <3> QED
      BY <2>2, <3>1
  <2> QED
    BY <2>1, <2>2
<1>2. \A p \in LiveChildren : Slot(p) \in Holders
  BY <1>1 DEF Holders, HoldingThreads, HoldingPumps, LiveChildren, Starting
<1>3. ASSUME NEW p \in LiveChildren, NEW q \in LiveChildren, Slot(p) = Slot(q)
      PROVE  p = q
  <2> HIDE DEF Slot
  <2>1. p \in Procs /\ q \in Procs /\ Procs \intersect Threads = {}
    BY SessionsAssumption DEF LiveChildren, Threads
  <2>2. CASE pump[p] \in {"recv", "perm", "permJam", "permFail"} /\ Slot(p) = p
    BY <1>1, <1>3, <2>1, <2>2
  <2>3. CASE Slot(p) \in Threads /\ pid[Slot(p)] = p
    BY <1>1, <1>3, <2>1, <2>3
  <2> QED
    BY <1>1, <2>2, <2>3
<1>4. f \in Injection(LiveChildren, Holders)
  <2> HIDE DEF Slot
  <2> QED
    BY <1>2, <1>3 DEF Injection, IsInjective
<1>5. /\ IsFiniteSet(Holders) /\ Cardinality(Holders) = sem /\ sem <= MaxOpen
      /\ Cardinality(Holders) \in Nat
  BY HoldersCounted DEF SlotsOK, SlotsAccounted
<1>6. IsFiniteSet(LiveChildren) /\ Cardinality(LiveChildren) <= Cardinality(Holders)
  <2> HIDE DEF f
  <2> QED
    BY <1>4, <1>5, FS_Injection
<1>7. Cardinality(LiveChildren) \in Nat
  BY <1>6, FS_CardinalityType
<1> QED
  BY <1>5, <1>6, <1>7, SessionsAssumption DEF LiveBounded

-----------------------------------------------------------------------------
(* Approvals. *)

\* A process that was started never becomes unused again.
LEMMA RunStays ==
    ASSUME TypeOK, Next
    PROVE  \A p \in Procs : run[p] # "unused" => run'[p] # "unused"
<1> DEFINE Stays == \A p \in Procs : run[p] # "unused" => run'[p] # "unused"
<1>1. ASSUME NEW t \in Threads, HarnessStart(t) PROVE Stays
  BY <1>1 DEF HarnessStart, TypeOK, ChildTypeOK, child
<1>2. ASSUME NEW p \in Procs, ChildExit(p) PROVE Stays
  BY <1>2 DEF ChildExit, TypeOK, ChildTypeOK
<1>3. CASE Restart
  BY <1>3 DEF Restart
<1>4. CASE UNCHANGED run
  BY <1>4
<1>5. ASSUME NEW t \in Threads, StartStep(t) PROVE Stays
  BY <1>1, <1>4, <1>5
     DEF StartStep, Acquire, Evict, CloseTracked, AwaitGone, AcquireWait,
         RegisterProcess, DropDuplicate, StartSetRunning, StartSend,
         StartFailed, StdinClosed, Delivered, external, child
<1>6. ASSUME NEW t \in Threads, CallStep(t) PROVE Stays
  BY <1>4, <1>6
     DEF CallStep, SendLocked, WaitForStartingProcess, Deliver, Unmark,
         CloseLiveProcess, CloseLiveProcessWait, CloseLocked,
         CloseStdin, CloseSetState, StdinClosed, Delivered, external, child
<1>7. ASSUME NEW t \in Threads, ApprovalStep(t) \/ CallerCalls(t) \/ JanitorCalls
      PROVE  Stays
  BY <1>4, <1>7
     DEF ApprovalStep, DecideSetRunning, DecideLookup, DecideTell, ExpireDecide,
         ExpireLookup, ExpireSetState, ExpireTell, CallerCalls, JanitorCalls,
         Create, Send, SwitchModel, Close, Decide, ReapIdle, ExpireList,
         Answered, external, child
<1>8. ASSUME NEW p \in Procs, PumpStep(p) PROVE Stays
  BY <1>4, <1>8
     DEF PumpStep, PumpToolUse, PumpResult, HandlePermission, Answered,
         PumpPermissionState, HandleExit, ExitSetState, UnregisterProcess,
         ReleaseSlot, external, child
<1>9. ASSUME NEW p \in Procs, ChildStep(p) PROVE Stays
  BY <1>2, <1>4, <1>9 DEF ChildStep, ChildToolUse, ChildAsk, ChildResult, child
<1>10. ASSUME NEW s \in Sessions, Interrupt(s) PROVE Stays
  BY <1>4, <1>10 DEF Interrupt
<1>11. CASE MainStep
  BY <1>3, <1>4, <1>11
     DEF MainStep, ShutdownBegin, ShutdownClose, ShutdownSetState, StdinClosed,
         external, child
<1>12. ASSUME NEW t \in Threads, CloseCancelled(t) PROVE Stays
  BY <1>4, <1>12 DEF CloseCancelled, child
<1>13. ASSUME NEW p \in Procs, FaultStep(p) PROVE Stays
  BY <1>4, <1>13 DEF FaultStep, Hold, Jam, JamEnds, external, child
<1> QED
  BY <1>5, <1>6, <1>7, <1>8, <1>9, <1>10, <1>11, <1>12, <1>13
     DEF Next, ThreadStep, Threads

-----------------------------------------------------------------------------
(* Steps that do not touch the approvals. *)

LEMMA QuietInbox ==
    ASSUME ApprovalsOK, UNCHANGED <<approval, asker, answers>>,
           \A p \in Procs : run[p] # "unused" => run'[p] # "unused",
           \A t \in Threads, r \in Reqs : Answering(t, r)' => Answering(t, r),
           QueuedOnce'
    PROVE  ApprovalsOK'
<1> USE DEF ApprovalsOK
<1>1. AskersKnown'
  BY DEF AskersKnown
<1>2. AnswerersUnique'
  BY DEF AnswerersUnique
<1>3. AnsweredOnce'
  BY DEF AnsweredOnce
<1> QED
  BY <1>1, <1>2, <1>3

LEMMA QueueUnchanged ==
    ASSUME QueuedOnce, UNCHANGED events,
           \A r \in Reqs : approval[r] = "asked" => approval'[r] = "asked"
    PROVE  QueuedOnce'
BY DEF QueuedOnce

\* Receiving an event shortens its channel by that event.
LEMMA QueueReceived ==
    ASSUME TypeOK, QueuedOnce, NEW p \in Procs, NEW e, Receive(p, e),
           \A r \in Reqs : r # e /\ approval[r] = "asked" => approval'[r] = "asked"
    PROVE  /\ QueuedOnce'
           /\ e \in Reqs => approval[e] = "asked"
<1>1. events[p] \in Seq(Events) /\ events[p] # <<>> /\ e = events[p][1]
  BY DEF Receive, TypeOK
<1>2. events'[p] = Tail(events[p]) /\ \A q \in Procs : q # p => events'[q] = events[q]
  BY DEF Receive, TypeOK
<1>3. \A q \in Procs : \A i \in 1 .. Len(events'[q]) :
          \E j \in 1 .. Len(events[q]) :
             /\ events'[q][i] = events[q][j]
             /\ q = p => j = i + 1
             /\ q # p => j = i
  <2>1. \A i \in 1 .. Len(events'[p]) :
            /\ i + 1 \in 1 .. Len(events[p]) /\ events'[p][i] = events[p][i + 1]
    BY <1>1, <1>2
  <2> QED
    BY <1>2, <2>1
<1>4. 1 \in 1 .. Len(events[p])
  BY <1>1
<1>5. \A q \in Procs : \A i \in 1 .. Len(events'[q]) :
          events'[q][i] \in Reqs => events'[q][i] # e
  <2>1. SUFFICES ASSUME NEW q \in Procs, NEW i \in 1 .. Len(events'[q]),
                        events'[q][i] = e, e \in Reqs
                 PROVE  FALSE
    OBVIOUS
  <2>2. PICK j \in 1 .. Len(events[q]) :
            events[q][j] = e /\ (q = p => j = i + 1)
    BY <1>3, <2>1
  <2>3. q = p /\ j = 1
    BY <1>1, <1>4, <2>1, <2>2 DEF QueuedOnce
  <2>4. Len(events'[q]) \in Nat
    BY <1>1, <1>2, <2>3
  <2> QED
    BY <2>2, <2>3, <2>4
<1>6. \A r \in Reqs : \A q \in Procs : \A i \in 1 .. Len(events'[q]) :
          events'[q][i] = r => approval'[r] = "asked"
  BY <1>3, <1>5 DEF QueuedOnce
<1>7. ASSUME NEW r \in Reqs, NEW q \in Procs, NEW x \in Procs,
             NEW i \in 1 .. Len(events'[q]), NEW k \in 1 .. Len(events'[x]),
             events'[q][i] = r, events'[x][k] = r
      PROVE  q = x /\ i = k
  <2>1. PICK j \in 1 .. Len(events[q]) :
            events[q][j] = r /\ (q = p => j = i + 1) /\ (q # p => j = i)
    BY <1>3, <1>7, SMTT(60)
  <2>2. PICK l \in 1 .. Len(events[x]) :
            events[x][l] = r /\ (x = p => l = k + 1) /\ (x # p => l = k)
    BY <1>3, <1>7
  <2>3. q = x /\ j = l
    BY <2>1, <2>2 DEF QueuedOnce
  <2>4. Len(events'[q]) \in Nat /\ Len(events'[x]) \in Nat
    BY <1>1, <1>2 DEF TypeOK
  <2> QED
    BY <2>1, <2>2, <2>3, <2>4
<1>8. e \in Reqs => approval[e] = "asked"
  BY <1>1, <1>4 DEF QueuedOnce
<1> QED
  BY <1>6, <1>7, <1>8 DEF QueuedOnce

\* Emitting an event that is no request, or a new request, keeps requests
\* apart.
LEMMA QueueEmitted ==
    ASSUME TypeOK, QueuedOnce, NEW p \in Procs, NEW e \in Events, Emit(p, e),
           e \in Reqs => approval[e] = "none" /\ approval'[e] = "asked",
           \A r \in Reqs : r # e => approval'[r] = approval[r]
    PROVE  QueuedOnce'
<1>1. events[p] \in Seq(Events) /\ Len(events[p]) \in Nat
  BY DEF TypeOK
<1>2. events'[p] = Append(events[p], e) /\ \A q \in Procs : q # p => events'[q] = events[q]
  BY DEF Emit, TypeOK
<1>3. \A q \in Procs : \A i \in 1 .. Len(events'[q]) :
          \/ q = p /\ i = Len(events[p]) + 1 /\ events'[q][i] = e
          \/ i \in 1 .. Len(events[q]) /\ events'[q][i] = events[q][i]
  BY <1>1, <1>2
<1>4. e \in Reqs => \A q \in Procs : \A i \in 1 .. Len(events[q]) : events[q][i] # e
  BY DEF QueuedOnce
<1>5. \A r \in Reqs : \A q \in Procs : \A i \in 1 .. Len(events'[q]) :
          events'[q][i] = r => approval'[r] = "asked"
  BY <1>3, <1>4 DEF QueuedOnce
<1>6. ASSUME NEW r \in Reqs, NEW q \in Procs, NEW x \in Procs,
             NEW i \in 1 .. Len(events'[q]), NEW k \in 1 .. Len(events'[x]),
             events'[q][i] = r, events'[x][k] = r
      PROVE  q = x /\ i = k
  <2>1. CASE r = e
    BY <1>3, <1>4, <1>6, <2>1, SMTT(60)
  <2>2. CASE r # e
    <3>1. /\ i \in 1 .. Len(events[q]) /\ events[q][i] = r
          /\ k \in 1 .. Len(events[x]) /\ events[x][k] = r
      BY <1>3, <1>6, <2>2
    <3> QED
      BY <3>1 DEF QueuedOnce
  <2> QED
    BY <2>1, <2>2
<1> QED
  BY <1>5, <1>6 DEF QueuedOnce

-----------------------------------------------------------------------------
(* The steps of a thread. *)

AnswerPCs == {"decideRun", "lookup", "tell", "exLookup", "exRun", "exTell"}

\* A thread that goes on outside AnswerPCs, or leaves its request alone, makes
\* no new answerer.
LEMMA QuietInboxStep ==
    ASSUME ApprovalsOK, NEW t \in Threads, OthersKeep(t),
           UNCHANGED <<approval, asker, answers, events>>,
           \A p \in Procs : run[p] # "unused" => run'[p] # "unused",
           pc'[t] \in AnswerPCs => pc[t] \in AnswerPCs /\ rid'[t] = rid[t]
    PROVE  ApprovalsOK'
<1>1. \A u \in Threads, r \in Reqs : Answering(u, r)' => Answering(u, r)
  BY DEF Answering, OthersKeep, AnswerPCs
<1>2. QueuedOnce'
  BY QueueUnchanged DEF ApprovalsOK
<1> QED
  BY <1>1, <1>2, QuietInbox

\* The thread whose update finds the row pending becomes its only answerer.
LEMMA InboxClaim ==
    ASSUME TypeOK, ApprovalsOK, NEW t \in Threads, OthersKeep(t), NEW r \in Reqs,
           approval[r] = "pending", Answering(t, r)',
           NEW st \in {"decided", "expired"},
           approval' = [approval EXCEPT ![r] = st],
           UNCHANGED <<asker, answers, events, run>>
    PROVE  ApprovalsOK'
<1> USE DEF ApprovalsOK
<1>1. approval'[r] = st /\ \A x \in Reqs : x # r => approval'[x] = approval[x]
  BY DEF TypeOK, InboxTypeOK
<1>2. \A u \in Threads, x \in Reqs :
          Answering(u, x)' => Answering(u, x) \/ (u = t /\ x = r)
  BY DEF Answering, OthersKeep, AnswerPCs
<1>3. AskersKnown'
  BY <1>1 DEF AskersKnown
<1>4. AnswerersUnique'
  <2>1. /\ \A u \in Threads : ~Answering(u, r)
        /\ \A p \in Procs : answers[r][p] = 0
    BY DEF AnswerersUnique
  <2>2. ASSUME NEW x \in Reqs, approval'[x] \in {"none", "asked", "pending"}
        PROVE  /\ \A u \in Threads : ~Answering(u, x)'
               /\ \A p \in Procs : answers'[x][p] = 0
    BY <1>1, <1>2, <2>2 DEF AnswerersUnique
  <2>3. ASSUME NEW x \in Reqs, NEW u \in Threads, NEW w \in Threads,
               Answering(u, x)', Answering(w, x)'
        PROVE  u = w
    BY <1>2, <2>1, <2>3 DEF AnswerersUnique
  <2>4. ASSUME NEW x \in Reqs, NEW u \in Threads, Answering(u, x)'
        PROVE  \A p \in Procs : answers'[x][p] = 0
    BY <1>2, <2>1, <2>4 DEF AnswerersUnique
  <2> QED
    BY <2>2, <2>3, <2>4 DEF AnswerersUnique
<1>5. QueuedOnce'
  BY <1>1, QueueUnchanged
<1>6. AnsweredOnce'
  BY DEF AnsweredOnce
<1> QED
  BY <1>3, <1>4, <1>5, <1>6

\* One control_response for a request nobody has answered, by somebody who
\* stops being its answerer.
LEMMA InboxAnswered ==
    ASSUME TypeOK, ApprovalsOK, NEW p \in Procs, NEW r \in Reqs, Answered(p, r),
           \A q \in Procs : answers[r][q] = 0,
           approval'[r] \notin {"none", "asked", "pending"},
           \A x \in Reqs : x # r => approval'[x] = approval[x],
           \A u \in Threads : ~Answering(u, r)',
           \A u \in Threads, x \in Reqs : Answering(u, x)' => Answering(u, x),
           approval[r] # "none", UNCHANGED asker, QueuedOnce'
    PROVE  ApprovalsOK'
<1> USE DEF ApprovalsOK
<1>1. /\ answers'[r][p] = 1
      /\ \A q \in Procs : q # p => answers'[r][q] = 0
      /\ \A x \in Reqs : x # r => answers'[x] = answers[x]
      /\ UNCHANGED run
  <2>1. answers[r] \in [Procs -> Nat]
    BY DEF TypeOK, InboxTypeOK
  <2>2. answers' = [answers EXCEPT ![r] = [answers[r] EXCEPT ![p] = answers[r][p] + 1]]
    BY DEF Answered
  <2>3. answers'[r] = [answers[r] EXCEPT ![p] = answers[r][p] + 1]
        /\ \A x \in Reqs : x # r => answers'[x] = answers[x]
    BY <2>2 DEF TypeOK, InboxTypeOK
  <2> QED
    BY <2>1, <2>3 DEF Answered
<1>2. AskersKnown'
  BY <1>1 DEF AskersKnown
<1>3. AnswerersUnique'
  BY <1>1 DEF AnswerersUnique
<1>4. AnsweredOnce'
  BY <1>1 DEF AnsweredOnce
<1> QED
  BY <1>2, <1>3, <1>4

LEMMA InboxApproval ==
    ASSUME TypeOK, FrameOK, ApprovalsOK, NEW t \in Threads, OthersKeep(t),
           ApprovalStep(t)
    PROVE  ApprovalsOK'
<1>1. ThreadTypeOK
  BY DEF TypeOK
<1>2. \A l : Goto(t, l) => pc'[t] = l /\ rid'[t] = rid[t]
  BY <1>1 DEF Goto, At, frame, ThreadTypeOK
<1>3. \A l, p : GotoWithProc(t, l, p) => pc'[t] = l /\ rid'[t] = rid[t]
  BY <1>1 DEF GotoWithProc, At, ThreadTypeOK
<1>4. Return(t) => pc'[t] = "idle"
  BY <1>1 DEF Return, At, ThreadTypeOK
<1>5. CASE \/ DecideSetRunning(t) \/ DecideLookup(t) \/ ExpireLookup(t)
           \/ ExpireSetState(t)
  <2>1. pc'[t] \in AnswerPCs => pc[t] \in AnswerPCs /\ rid'[t] = rid[t]
    BY <1>2, <1>3, <1>4, <1>5
       DEF DecideSetRunning, DecideLookup, ExpireLookup, ExpireSetState, AnswerPCs
  <2>2. UNCHANGED <<inbox, external>>
    BY <1>5 DEF DecideSetRunning, DecideLookup, ExpireLookup, ExpireSetState
  <2> QED
    BY <2>1, <2>2, QuietInboxStep DEF inbox, external, child
<1>6. CASE ExpireDecide(t)
  <2>1. PICK r \in Reqs : rid[t] = r
    BY <1>6 DEF ExpireDecide, FrameOK, Frame
  <2>2. UNCHANGED <<asker, answers, events, run>>
    BY <1>6 DEF ExpireDecide, external, child
  <2>3. CASE approval[r] = "pending"
    <3>1. Answering(t, r)' /\ approval' = [approval EXCEPT ![r] = "expired"]
      BY <1>2, <1>6, <2>1, <2>3 DEF ExpireDecide, Answering
    <3> QED
      BY <2>2, <2>3, <3>1, InboxClaim
  <2>4. CASE approval[r] # "pending"
    <3>1. pc'[t] = "idle" /\ UNCHANGED approval
      BY <1>4, <1>6, <2>1, <2>4 DEF ExpireDecide
    <3> QED
      BY <2>2, <3>1, QuietInboxStep DEF AnswerPCs
  <2> QED
    BY <2>3, <2>4
<1>7. CASE DecideTell(t) \/ ExpireTell(t)
  <2>1. /\ pid[t] \in Procs /\ rid[t] \in Reqs /\ pc[t] \in {"tell", "exTell"}
        /\ pc'[t] \notin AnswerPCs /\ UNCHANGED <<approval, asker, events>>
    BY <1>2, <1>4, <1>7 DEF DecideTell, ExpireTell, FrameOK, Frame, AnswerPCs
  <2>2. CASE UNCHANGED <<child, answers>>
    BY <2>1, <2>2, QuietInboxStep DEF child
  <2>3. CASE Answered(pid[t], rid[t])
    <3>1. PICK r \in Reqs, p \in Procs : rid[t] = r /\ Answered(p, r)
      BY <2>1, <2>3
    <3>2. /\ \A q \in Procs : answers[r][q] = 0
          /\ approval[r] \notin {"none", "asked", "pending"}
          /\ \A u \in Threads \ {t} : ~Answering(u, r)
      BY <2>1, <3>1 DEF ApprovalsOK, AnswerersUnique, Answering
    <3>3. \A u \in Threads, x \in Reqs :
              Answering(u, x)' => u # t /\ Answering(u, x)
      BY <2>1 DEF Answering, OthersKeep, AnswerPCs
    <3>4. QueuedOnce'
      BY <2>1, QueueUnchanged DEF ApprovalsOK
    <3>5. \A u \in Threads : ~Answering(u, r)'
      BY <3>2, <3>3
    <3> QED
      BY <2>1, <3>1, <3>2, <3>3, <3>4, <3>5, InboxAnswered
  <2> QED
    BY <1>7, <2>2, <2>3 DEF DecideTell, ExpireTell
<1> QED
  BY <1>5, <1>6, <1>7 DEF ApprovalStep

LEMMA InboxThread ==
    ASSUME TypeOK, ApprovalsOK, NEW t \in Threads, OthersKeep(t),
           \A p \in Procs : run[p] # "unused" => run'[p] # "unused",
           \/ StartStep(t) \/ CallStep(t) \/ CallerCalls(t)
           \/ (t = Janitor /\ JanitorCalls) \/ CloseCancelled(t)
    PROVE  ApprovalsOK'
<1>1. ThreadTypeOK
  BY DEF TypeOK
<1>2. CASE StartStep(t)
  <2>1. \E l \in PCs \ AnswerPCs : At(t, l)
    BY <1>2 DEF StartStep, Acquire, Evict, CloseTracked, AwaitGone, AcquireWait,
           HarnessStart, RegisterProcess, DropDuplicate, StartSetRunning,
           StartSend, StartFailed, AfterClose, Goto, GotoWithProc, Return, Failed, PCs,
           AnswerPCs
  <2>2. UNCHANGED <<inbox, events>>
    BY <1>2 DEF StartStep, Acquire, Evict, CloseTracked, AwaitGone, AcquireWait,
           HarnessStart, RegisterProcess, DropDuplicate, StartSetRunning,
           StartSend, StartFailed, external
  <2>3. pc'[t] \notin AnswerPCs
    BY <1>1, <2>1 DEF At, ThreadTypeOK
  <2> QED
    BY <2>2, <2>3, QuietInboxStep DEF inbox
<1>3. CASE CallStep(t)
  <2>1. \E l \in PCs \ AnswerPCs : At(t, l)
    BY <1>3 DEF CallStep, SendLocked, WaitForStartingProcess, Deliver, Unmark,
           CloseLiveProcess, CloseLiveProcessWait, CloseLocked,
           CloseStdin, CloseSetState,
           Goto, GotoWithProc, Return, PCs, AnswerPCs
  <2>2. UNCHANGED <<inbox, events>>
    BY <1>3 DEF CallStep, SendLocked, WaitForStartingProcess, Deliver, Unmark,
           CloseLiveProcess, CloseLiveProcessWait, CloseLocked,
           CloseStdin, CloseSetState, external
  <2>3. pc'[t] \notin AnswerPCs
    BY <1>1, <2>1 DEF At, ThreadTypeOK
  <2> QED
    BY <2>2, <2>3, QuietInboxStep DEF inbox
<1>4. ASSUME NEW r \in Reqs, Decide(t, r) PROVE ApprovalsOK'
  <2>1. /\ approval[r] = "pending" /\ approval' = [approval EXCEPT ![r] = "decided"]
        /\ UNCHANGED <<asker, answers, events, run>>
    BY <1>4 DEF Decide, external, child
  <2>2. Answering(t, r)'
    BY <1>1, <1>4 DEF Decide, Call, At, Local, Answering, ThreadTypeOK
  <2> QED
    BY <2>1, <2>2, InboxClaim
<1>5. CASE /\ CallerCalls(t) \/ (t = Janitor /\ JanitorCalls)
           /\ \A r \in Reqs : ~Decide(t, r)
  <2>1. UNCHANGED threads \/ \E l \in PCs \ AnswerPCs : At(t, l)
    BY <1>5 DEF CallerCalls, JanitorCalls, Create, Send, SwitchModel, Close,
           ReapIdle, ExpireList, Call, PCs, AnswerPCs
  <2>2. UNCHANGED <<inbox, events>>
    BY <1>5 DEF CallerCalls, JanitorCalls, Create, Send, SwitchModel, Close,
           ReapIdle, ExpireList, external
  <2>3. pc'[t] \in AnswerPCs => pc[t] \in AnswerPCs /\ rid'[t] = rid[t]
    BY <1>1, <2>1 DEF At, ThreadTypeOK, threads, frame
  <2> QED
    BY <2>2, <2>3, QuietInboxStep DEF inbox
<1>6. CASE CloseCancelled(t)
  <2>1. \E l \in {"idle", "wait", "unmark", "fail"} : At(t, l)
    BY <1>6 DEF CloseCancelled, AfterClose, Return, GotoWithProc, Failed, Goto
  <2>2. pc'[t] \notin AnswerPCs /\ UNCHANGED <<inbox, events>>
    BY <1>1, <1>6, <2>1 DEF At, ThreadTypeOK, AnswerPCs, CloseCancelled
  <2> QED
    BY <2>2, QuietInboxStep DEF inbox
<1> QED
  BY <1>2, <1>3, <1>4, <1>5, <1>6

-----------------------------------------------------------------------------
(* The steps of pumps, children and the main goroutine. *)

\* A step that leaves the threads alone makes no new answerer.
LEMMA AnswerersKept ==
    ASSUME UNCHANGED threads
    PROVE  \A u \in Threads, x \in Reqs : Answering(u, x)' <=> Answering(u, x)
BY DEF Answering, threads, frame

LEMMA InboxPump ==
    ASSUME TypeOK, ApprovalsOK, NEW p \in Procs, PumpStep(p)
    PROVE  ApprovalsOK'
<1>1. UNCHANGED threads /\ UNCHANGED run /\ UNCHANGED asker
  BY DEF PumpStep, PumpToolUse, PumpResult, HandlePermission, Answered,
         PumpPermissionState, HandleExit, ExitSetState, UnregisterProcess,
         ReleaseSlot, inbox, external, child
<1>2. \A u \in Threads, x \in Reqs : Answering(u, x)' <=> Answering(u, x)
  BY <1>1, AnswerersKept
<1>3. CASE UNCHANGED <<inbox, events>>
  BY <1>1, <1>2, <1>3, QuietInbox, QueueUnchanged DEF inbox, ApprovalsOK
<1>4. ASSUME NEW e, Receive(p, e), UNCHANGED inbox PROVE ApprovalsOK'
  <2>1. QueuedOnce'
    BY <1>4, QueueReceived DEF inbox, ApprovalsOK
  <2> QED
    BY <1>1, <1>2, <1>4, <2>1, QuietInbox DEF inbox
<1>5. ASSUME NEW r \in Reqs, HandlePermission(p, r) PROVE ApprovalsOK'
  <2>1. PICK st \in {"pending", "lost"} : approval' = [approval EXCEPT ![r] = st]
    BY <1>5 DEF HandlePermission
  <2>2. approval'[r] = st /\ \A x \in Reqs : x # r => approval'[x] = approval[x]
    BY <2>1 DEF TypeOK, InboxTypeOK
  <2>3. QueuedOnce' /\ approval[r] = "asked"
    BY <1>5, <2>2, QueueReceived DEF HandlePermission, ApprovalsOK
  <2>4. /\ \A u \in Threads : ~Answering(u, r)
        /\ \A q \in Procs : answers[r][q] = 0
    BY <2>3 DEF ApprovalsOK, AnswerersUnique
  <2>5. CASE UNCHANGED answers
    <3> USE DEF ApprovalsOK
    <3>1. AskersKnown'
      BY <1>1, <2>2, <2>3 DEF AskersKnown
    <3>2. AnswerersUnique'
      BY <1>2, <2>2, <2>4, <2>5 DEF AnswerersUnique
    <3>3. AnsweredOnce'
      BY <2>5 DEF AnsweredOnce
    <3> QED
      BY <2>3, <3>1, <3>2, <3>3
  <2>6. CASE approval' = [approval EXCEPT ![r] = "lost"] /\ Answered(p, r)
    <3>1. approval'[r] = "lost"
      BY <2>6 DEF TypeOK, InboxTypeOK
    <3> QED
      BY <1>1, <1>2, <2>2, <2>3, <2>4, <2>6, <3>1, InboxAnswered
  <2> QED
    BY <1>5, <2>5, <2>6 DEF HandlePermission
<1> QED
  BY <1>3, <1>4, <1>5
     DEF PumpStep, PumpToolUse, PumpResult, PumpPermissionState, HandleExit,
         ExitSetState, UnregisterProcess, ReleaseSlot, external

LEMMA InboxChild ==
    ASSUME TypeOK, ApprovalsOK, NEW p \in Procs, ChildStep(p),
           \A q \in Procs : run[q] # "unused" => run'[q] # "unused"
    PROVE  ApprovalsOK'
<1>1. UNCHANGED threads
  BY DEF ChildStep, ChildToolUse, ChildAsk, ChildResult, ChildExit
<1>2. \A u \in Threads, x \in Reqs : Answering(u, x)' <=> Answering(u, x)
  BY <1>1, AnswerersKept
<1>3. ASSUME NEW e \in {"tool", "result"} \union Exits, Emit(p, e), UNCHANGED inbox
      PROVE  ApprovalsOK'
  <2>1. e \in Events /\ e \notin Reqs
    BY <1>3, SessionsAssumption DEF Events, Exits
  <2>2. QueuedOnce'
    BY <1>3, <2>1, QueueEmitted DEF inbox, ApprovalsOK
  <2> QED
    BY <1>2, <1>3, <2>2, QuietInbox DEF inbox
<1>4. ASSUME NEW r \in Reqs, ChildAsk(p, r) PROVE ApprovalsOK'
  <2>1. /\ approval[r] = "none" /\ approval'[r] = "asked" /\ asker'[r] = p
        /\ \A x \in Reqs : x # r => approval'[x] = approval[x] /\ asker'[x] = asker[x]
        /\ UNCHANGED <<run, answers>> /\ run[p] # "unused" /\ Emit(p, r)
    BY <1>4 DEF ChildAsk, Emit, TypeOK, InboxTypeOK
  <2>2. QueuedOnce'
    BY <2>1, QueueEmitted DEF Events, ApprovalsOK
  <2> USE DEF ApprovalsOK
  <2>3. AskersKnown'
    BY <2>1 DEF AskersKnown
  <2>4. AnswerersUnique'
    BY <1>2, <2>1 DEF AnswerersUnique
  <2>5. AnsweredOnce'
    BY <2>1 DEF AnsweredOnce
  <2> QED
    BY <2>2, <2>3, <2>4, <2>5
<1> QED
  BY <1>3, <1>4 DEF ChildStep, ChildToolUse, ChildResult, ChildExit, Exits

LEMMA InboxStep ==
    ASSUME TypeOK, FrameOK, ApprovalsOK, Next
    PROVE  ApprovalsOK'
<1>1. \A p \in Procs : run[p] # "unused" => run'[p] # "unused"
  BY RunStays
<1>2. ASSUME NEW t \in Threads, OwnStep(t) PROVE ApprovalsOK'
  <2>1. OthersKeep(t)
    BY <1>2, ThreadsApart DEF TypeOK
  <2> QED
    BY <1>1, <1>2, <2>1, InboxApproval, InboxThread DEF OwnStep
<1>3. CASE UNCHANGED <<threads, inbox, events>>
  <2>1. QueuedOnce'
    BY <1>3, QueueUnchanged DEF ApprovalsOK, inbox
  <2> QED
    BY <1>1, <1>3, <2>1, AnswerersKept, QuietInbox DEF inbox
<1>4. CASE Restart
  <2>1. /\ \A t \in Threads, r \in Reqs : ~Answering(t, r)'
        /\ UNCHANGED <<approval, asker, answers>>
    BY <1>4 DEF Restart, Answering, inbox
  <2>2. QueuedOnce'
    <3>1. \A p \in Procs : Len(events'[p]) = 0
      BY <1>4 DEF Restart
    <3> QED
      BY <3>1 DEF QueuedOnce
  <2> QED
    BY <1>1, <2>1, <2>2, QuietInbox
<1> QED
  BY <1>1, <1>2, <1>3, <1>4, InboxPump, InboxChild
     DEF Next, ThreadStep, Threads, OwnStep, Interrupt, MainStep, ShutdownBegin,
         ShutdownClose, ShutdownSetState, FaultStep, Hold, Jam, JamEnds, external

-----------------------------------------------------------------------------
(* The inductive invariant and the theorems. *)

Inv == TypeOK /\ FaultTypeOK /\ FrameOK /\ RegistryOK /\ SlotsOK /\ ApprovalsOK

LEMMA InvInit == Init => Inv
<1> SUFFICES ASSUME Init PROVE Inv
  OBVIOUS
<1> USE DEF Init
<1>1. TypeOK
  BY DEF TypeOK, States, PumpPCs, Serving, ChildTypeOK, InboxTypeOK,
         ThreadTypeOK, PCs, Ops
<1>6. FaultTypeOK
  BY DEF FaultTypeOK
<1>2. FrameOK
  BY DEF FrameOK, Frame
<1>3. RegistryOK
  BY DEF RegistryOK, EntriesOK, ProcessesOK, StartsOK, PumpOwnsEntry, NoOrphan,
         ClosingIsTracked, Tracked, LiveChildren, Registered
<1>4. SlotsOK
  <2>1. HoldingThreads = {} /\ HoldingPumps = {}
    BY DEF HoldingThreads, HoldingPumps
  <2> QED
    BY <2>1, FS_EmptySet, SessionsAssumption DEF SlotsOK, SlotsAccounted
<1>5. ApprovalsOK
  BY DEF ApprovalsOK, AskersKnown, AnswerersUnique, QueuedOnce, AnsweredOnce,
         Answering
<1> QED
  BY <1>1, <1>2, <1>3, <1>4, <1>5, <1>6 DEF Inv

LEMMA FaultTypeStep ==
    ASSUME FaultTypeOK, FrameOK, RegistryOK, Next
    PROVE  FaultTypeOK'
<1>1. CASE UNCHANGED faults
  BY <1>1 DEF FaultTypeOK, faults
<1>2. ASSUME NEW t \in Threads, ThreadStep(t) PROVE UNCHANGED faults
  BY <1>2
     DEF ThreadStep, StartStep, Acquire, Evict, CloseTracked, AwaitGone,
         AcquireWait, HarnessStart, RegisterProcess, DropDuplicate,
         StartSetRunning, StartSend, StartFailed, CallStep, SendLocked,
         WaitForStartingProcess, Deliver, Unmark, CloseLiveProcess,
         CloseLiveProcessWait, CloseLocked, CloseStdin, CloseSetState,
         ApprovalStep, DecideSetRunning, DecideLookup, DecideTell, ExpireDecide,
         ExpireLookup, ExpireSetState, ExpireTell, external
<1>3. ASSUME NEW t \in Threads, CallerCalls(t) \/ JanitorCalls PROVE UNCHANGED faults
  BY <1>3 DEF CallerCalls, JanitorCalls, Create, Send, SwitchModel, Close,
         Decide, ReapIdle, ExpireList, external
<1>4. ASSUME NEW t \in Threads, CloseCancelled(t) PROVE FaultTypeOK'
  BY <1>4 DEF CloseCancelled, FaultTypeOK, FrameOK, Frame, RegistryOK, StartsOK
<1>5. ASSUME NEW p \in Procs, PumpStep(p) PROVE UNCHANGED faults
  BY <1>5 DEF PumpStep, PumpToolUse, PumpResult, HandlePermission,
         PumpPermissionState, HandleExit, ExitSetState, UnregisterProcess,
         ReleaseSlot, external
<1>6. ASSUME NEW p \in Procs, ChildStep(p) \/ FaultStep(p) PROVE FaultTypeOK'
  BY <1>1, <1>6 DEF ChildStep, ChildToolUse, ChildAsk, ChildResult, ChildExit,
         FaultStep, Hold, Jam, JamEnds, FaultTypeOK, external
<1>7. ASSUME NEW s \in Sessions, Interrupt(s) PROVE UNCHANGED faults
  BY <1>7 DEF Interrupt
<1>8. CASE MainStep
  BY <1>1, <1>8 DEF MainStep, ShutdownBegin, ShutdownClose, ShutdownSetState,
         Restart, FaultTypeOK, external
<1> QED
  BY <1>1, <1>2, <1>3, <1>4, <1>5, <1>6, <1>7, <1>8 DEF Next, Threads

\* The faults are none of TypeOK's variables.
LEMMA TypeFault ==
    ASSUME TypeOK, NEW p \in Procs, FaultStep(p)
    PROVE  TypeOK'
<1>1. ThreadTypeOK' /\ ChildTypeOK'
  BY UnchangedType, ChildType
     DEF TypeOK, FaultStep, Hold, Jam, JamEnds, external
<1>2. pump' \in [Procs -> PumpPCs]
  BY DEF FaultStep, Hold, Jam, JamEnds, PumpGoto, TypeOK, PumpPCs
<1>3. UNCHANGED <<state, registry, sem, events, inbox, main>>
  BY DEF FaultStep, Hold, Jam, JamEnds, external
<1> QED
  BY <1>1, <1>2, <1>3 DEF TypeOK, InboxTypeOK, registry, inbox

LEMMA TypeCancel ==
    ASSUME TypeOK, NEW t \in Threads, CloseCancelled(t)
    PROVE  TypeOK'
<1>1. ThreadTypeOK /\ op[t] \in Ops
  BY DEF TypeOK, ThreadTypeOK
<1>2. ThreadTypeOK'
  BY <1>1, GotoType, GotoWithProcType, ReturnType
     DEF CloseCancelled, AfterClose, Failed, PCs
<1>3. ChildTypeOK'
  BY ChildType DEF TypeOK, CloseCancelled
<1>4. sem' \in Nat
  BY DEF TypeOK, CloseCancelled, Released
<1>5. UNCHANGED <<state, registry, events, pump, inbox, main>>
  BY DEF CloseCancelled
<1> QED
  BY <1>2, <1>3, <1>4, <1>5 DEF TypeOK, InboxTypeOK, registry, inbox

LEMMA TypeStep ==
    ASSUME TypeOK, FrameOK, RegistryOK, ApprovalsOK, Next
    PROVE  TypeOK'
BY TypeStart, TypeCall, TypeApproval, TypeBegin, TypePump, TypeChild,
   TypeInterrupt, TypeMain, TypeFault, TypeCancel
   DEF Next, ThreadStep, Threads

LEMMA InvStep == Inv /\ [Next]_vars => Inv'
<1> SUFFICES ASSUME Inv, [Next]_vars PROVE Inv'
  OBVIOUS
<1> USE DEF Inv
<1>1. CASE Next
  <2>1. TypeOK'
    BY <1>1, TypeStep
  <2>2. FrameOK'
    BY <1>1, FrameStep
  <2>3. RegistryOK'
    BY <1>1, RegistryStep
  <2>4. SlotsOK'
    BY <1>1, SlotsStep, SlotStepCounts
  <2>5. ApprovalsOK'
    BY <1>1, InboxStep
  <2>6. FaultTypeOK'
    BY <1>1, FaultTypeStep
  <2> QED
    BY <2>1, <2>2, <2>3, <2>4, <2>5, <2>6
<1>2. CASE UNCHANGED vars
  <2>1. UNCHANGED <<state, registry, sem, external, pump, inbox, threads, main>>
    BY <1>2 DEF vars
  <2>2. /\ UNCHANGED <<procs, closing, starting>>
        /\ UNCHANGED <<owner, run, stdin, turns, asks, intr, events>>
        /\ UNCHANGED <<approval, asker, answers>>
        /\ UNCHANGED <<pc, op, sid, pid, rid, vid>>
        /\ UNCHANGED <<killed, held, jammed>>
    BY <2>1 DEF registry, external, child, faults, inbox, threads, frame
  <2>8. FaultTypeOK'
    BY <2>2 DEF FaultTypeOK
  <2>3. TypeOK'
    BY <2>1, <2>2 DEF TypeOK, ChildTypeOK, InboxTypeOK, ThreadTypeOK
  <2>4. FrameOK'
    BY <2>1, <2>2 DEF FrameOK, Frame
  <2>5. RegistryOK'
    <3>1. RegistryQuiet
      BY <2>1, <2>2 DEF RegistryQuiet, Starting, RegistryOK, ProcessesOK
    <3> QED
      BY <3>1, QuietRegistry
  <2>6. SlotsOK'
    BY <2>1, <2>2 DEF SlotsOK, SlotsAccounted, HoldingThreads, HoldingPumps
  <2>7. ApprovalsOK'
    BY <2>1, <2>2, AnswerersKept, QueueUnchanged, QuietInbox DEF ApprovalsOK
  <2> QED
    BY <2>3, <2>4, <2>5, <2>6, <2>7, <2>8
<1> QED
  BY <1>1, <1>2

THEOREM Invariance == Spec => []Inv
BY InvInit, InvStep, PTL DEF Spec

\* Type correctness: every variable of the service stays in its type.
THEOREM TypeCorrect == Spec => [](TypeOK /\ FaultTypeOK)
<1>1. Inv => TypeOK /\ FaultTypeOK
  BY DEF Inv
<1> QED
  BY <1>1, Invariance, PTL

\* Slot accounting (slots.acquire, slots.release, startProcess, handleExit):
\* on every path of the code every token in the semaphore has exactly one
\* owner.
THEOREM SlotAccounting == Spec => []SlotsAccounted
<1>1. Inv => SlotsAccounted
  BY DEF Inv, SlotsOK
<1> QED
  BY <1>1, Invariance, PTL

\* Never more than MaxOpen harness processes are alive at once, but for
\* duplicates that were killed and are not waited for.
THEOREM LiveBound == Spec => []LiveBounded
<1>1. Inv => LiveBounded
  BY LiveHaveSlots DEF Inv
<1> QED
  BY <1>1, Invariance, PTL

\* No live process is lost to the service (registerProcess,
\* unregisterProcess), a pump unregisters only its own process, and a closing
\* mark never outlives the process it was set for.
THEOREM NothingLost == Spec => []RegistryFollows
<1>1. Inv => RegistryFollows
  BY DEF Inv, RegistryOK, RegistryFollows
<1> QED
  BY <1>1, Invariance, PTL

\* Two processes never work on one session's turns (Send, SwitchModel).
THEOREM OneWorker == Spec => []OneWorkingChild
<1>1. ASSUME Inv PROVE OneWorkingChild
  <2>1. ASSUME NEW p \in LiveChildren, turns[p] # 0 PROVE procs[owner[p]] = p
    BY <1>1, <2>1
       DEF Inv, RegistryOK, NoOrphan, StartsOK, ProcessesOK, LiveChildren
  <2> QED
    BY <2>1 DEF OneWorkingChild
<1> QED
  BY <1>1, Invariance, PTL

\* A request is answered at most once (Decide, expireApprovals and
\* handlePermission's own denial).
THEOREM AnswerOnce == Spec => []AnsweredOnce
<1>1. Inv => AnsweredOnce
  BY DEF Inv, ApprovalsOK
<1> QED
  BY <1>1, Invariance, PTL

-----------------------------------------------------------------------------
(* Refinement. *)

\* The semaphore and its users implement a pool in which every slot has one
\* owner.
THEOREM SlotRefinement == Spec => ImplementsSlotPool
<1>1. Init => Pool!Init
  BY SessionsAssumption DEF Init, Pool!Init, HoldingThreads, HoldingPumps
<1>2. ASSUME Inv, [Next]_vars
      PROVE  [Pool!Next]_<<HoldingThreads \union HoldingPumps, MaxOpen - sem>>
  <2>1. CASE UNCHANGED vars
    BY <2>1 DEF vars, threads, HoldingThreads, HoldingPumps
  <2>2. CASE Next
    <3>1. SlotStep
      BY <1>2, <2>2, SlotsStep DEF Inv
    <3>2. /\ Cardinality(Holders) = sem /\ sem \in Nat
          /\ IsFiniteSet(Holders) /\ MaxOpen \in Nat
      BY <1>2, HoldersCounted, SessionsAssumption DEF Inv, SlotsOK, SlotsAccounted
    <3>3. ASSUME NEW o \in Threads, Takes(o) PROVE Pool!Take(o)
      BY <3>2, <3>3 DEF Takes, Pool!Take, Holders
    <3>4. ASSUME NEW o \in Threads \union Procs, GivesBack(o)
          PROVE  Pool!GiveBack(o)
      <4>1. sem # 0
        BY <3>2, <3>4, FS_EmptySet DEF GivesBack
      <4> QED
        BY <3>2, <3>4, <4>1 DEF GivesBack, Released, Pool!GiveBack, Holders
    <3>5. ASSUME NEW o \in Threads, NEW n \in Procs, HandsOver(o, n)
          PROVE  Pool!HandOver(o, n)
      BY <3>5 DEF HandsOver, Pool!HandOver, Holders
    <3>6. Holders' = {} /\ sem' = 0 => Pool!Empty
      BY <3>2 DEF Pool!Empty, Holders
    <3>7. (Holders' = Holders /\ sem' = sem) \/ Pool!Next
      BY <3>1, <3>3, <3>4, <3>5, <3>6 DEF SlotStep, Pool!Next
    <3> QED
      BY <3>7 DEF Holders
  <2> QED
    BY <1>2, <2>1, <2>2
<1> QED
  BY <1>1, <1>2, Invariance, PTL DEF Spec, ImplementsSlotPool, Pool!Spec
=============================================================================
