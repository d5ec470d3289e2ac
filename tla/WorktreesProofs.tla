-------------------------- MODULE WorktreesProofs ---------------------------
(***************************************************************************)
(* Proofs about Worktrees, for any number of sessions, calls, files,       *)
(* comments and commits: what a review marks was sent, no work is lost     *)
(* unasked, and a worktree in use is not rewritten or removed.             *)
(***************************************************************************)
EXTENDS Worktrees, FiniteSetTheorems, TLAPS

Trees  == [head : Seq(Commits), work : SUBSET Files]
Pumps  == {[at |-> "none"], [at |-> "commit"], [at |-> "open"]}
             \cup [at : {"record"}, sha : Seq(Commits)]
Ops    == {"create", "attach", "commit", "rewind", "discard", "send"}
PCs    == {"add", "set", "reset", "commit", "clean", "close", "remove", "clear", "send", "mark"}
Args   == {None} \cup Seq(Commits) \cup States \cup SUBSET Comments
Calls  == [op : Ops, pc : PCs, on : Sessions, at : Sessions, arg : Args, late : SUBSET Sessions]
Working  == {"running", "waiting"}
Moves    == {"create", "attach"}
Rewrites == {"commit", "rewind"}

DiskTypes ==
    /\ disk \in [Sessions -> {NoTree} \cup Trees] /\ dropped \in [Sessions -> SUBSET Files]
    /\ \A p \in Sessions : disk[p] # NoTree => Len(disk[p].head) <= MaxCommits
CallTypes ==
    /\ call \in [Threads -> {Idle} \cup Calls]
    /\ \A t \in Threads : call[t].op = "send" => call[t].arg \subseteq Comments
    /\ \A t \in Threads : call[t].op = "rewind" => call[t].arg \in Seq(Commits)

\* Every variable has its type.
Types ==
    /\ state \in [Sessions -> States] /\ tree \in [Sessions -> Sessions \cup {None}]
    /\ turn \in [Sessions -> Turns]
    /\ DiskTypes /\ pump \in [Sessions -> Pumps] /\ points \subseteq Sessions \X Seq(Commits)
    /\ comment \in [Comments -> {NoComment, Deleted} \cup Written]
    /\ got \in [Comments -> Nat] /\ again \subseteq Comments
    /\ CallTypes /\ calls \in 0 .. MaxCalls /\ faults \in 0 .. MaxFaults

\* A session without a row has no worktree and no process, and no call is about it.
NewOK == \A s \in Sessions : state[s] = "none" =>
    /\ tree[s] = None /\ disk[s] = NoTree /\ turn[s] = "none" /\ \A x \in Sessions : tree[x] # s
    /\ \A t \in Threads : call[t] # Idle => call[t].on # s /\ call[t].at # s

\* A session that is about to get its worktree has none, no process and no
\* other call.
StartOK == \A t \in Threads : call[t].op \in Moves =>
    /\ tree[call[t].on] = None /\ turn[call[t].on] = "none"
    /\ \A u \in Threads : u # t /\ call[u] # Idle => call[u].on # call[t].on

\* A worktree being made is empty, and nobody else knows it.
CreateOK == \A t \in Threads : call[t].op = "create" =>
    /\ call[t].at = call[t].on /\ Holds(disk[call[t].on]) = {}
    /\ \A x \in Sessions : tree[x] # call[t].on
    /\ \A u \in Threads : u # t /\ call[u] # Idle => call[u].at # call[t].on

\* What a commit holds is in all later ones and among the files, but for what
\* an agent has deleted (gone).
Grown(tr, gone) == \A i \in DOMAIN tr.head :
    /\ tr.head[i].files \subseteq tr.work \cup gone
    /\ \A j \in DOMAIN tr.head : i <= j => tr.head[i].files \subseteq tr.head[j].files \cup gone
GrownOK == \A p \in Sessions : disk[p] # NoTree => Grown(disk[p], dropped[p])

\* A session that uses a worktree under a Discard came after its count.
RemoveOK == \A t \in Threads, s \in Sessions :
    call[t].op = "discard" /\ s # call[t].on /\ tree[s] = call[t].at /\ state[s] \in InUse
       => s \in call[t].late

\* A turn that the row told of under a Commit or Rewind began after the check.
TurnOK == \A t \in Threads :
    /\ call[t].op \in Rewrites \cup {"discard"} => tree[call[t].on] \in {call[t].at, None}
    /\ call[t].op \in Rewrites /\ turn[call[t].on] \in Shown => call[t].on \in call[t].late

\* A process of the session whose worktree is about to be removed began after
\* Discard had closed the one before it.
Removing(t) == call[t].op = "discard" /\ call[t].pc = "remove"
GoneOK == \A t \in Threads :
    Removing(t) /\ turn[call[t].on] # "none" => call[t].on \in call[t].late

\* The row says so as long as a turn that used a tool or asks goes on.
ShownOK == \A s \in Sessions : turn[s] \in Shown =>
    pump[s].at = "none" /\ (tree[s] # None => state[s] \in Working)

Sending(t)    == call[t].op = "send"
Marking(t)    == Sending(t) /\ call[t].pc = "mark"
Carries(t, c) == Sending(t) /\ c \in call[t].arg

\* A review carries comments that were written; after the message they are out.
ListedOK == \A t \in Threads, c \in Comments : Carries(t, c) =>
    comment[c] # NoComment /\ (Marking(t) => got[c] > 0)

\* One review at a time carries a comment, and has sent it if it marks it.
CarriedOK == \A t \in Threads, c \in Comments : Carries(t, c) /\ c \notin again =>
    /\ \A u \in Threads : Carries(u, c) => u = t
    /\ ~Marking(t) => got[c] = 0

\* A comment that is out is marked, deleted, or about to be marked.
Settled(c) == comment[c] = Deleted \/ (comment[c] \in Written /\ comment[c].sent)
CountedOK == \A c \in Comments : c \in again \/ got[c] = 0 \/
    (got[c] = 1 /\ (Settled(c) \/ \E t \in Threads : Carries(t, c) /\ Marking(t)))

ReviewInv   == ListedOK /\ CarriedOK /\ CountedOK /\ SentMeansDelivered
PlaceInv    == NewOK /\ StartOK /\ CreateOK /\ GrownOK
UseInv      == RemoveOK /\ TurnOK /\ GoneOK /\ ShownOK
WorktreesInv == Types /\ PlaceInv /\ UseInv /\ ReviewInv

-----------------------------------------------------------------------------
(* Worktrees. *)

LEMMA Distinct ==
  /\ \A k \in Calls : k # Idle /\ k.op # "idle"
  /\ \A tr \in Trees : tr # NoTree
  /\ \A w \in Written : w # NoComment /\ w # Deleted
  /\ NoComment # Deleted /\ Idle.op = "idle"
  BY DEF Calls, Idle, Trees, NoTree, Written, NoComment, Deleted, Ops

LEMMA BoundedHeads ==
  ASSUME NEW tr \in Trees, MaxCommits \in Nat, Len(tr.head) <= MaxCommits
  PROVE  tr \in Checkout
<1> DEFINE S == Commits
<1>1. tr.head \in [1 .. Len(tr.head) -> S] /\ Len(tr.head) \in 0 .. MaxCommits
  BY DEF Trees
<1>2. tr.head \in BoundedSeq(S, MaxCommits)
  BY <1>1 DEF BoundedSeq, SeqOf
<1> QED
  BY <1>2 DEF Checkout, Trees

LEMMA FilesFit ==
  ASSUME NEW h \in Seq(Commits)
  PROVE  FilesOf(h) \subseteq Files
<1>1. CASE h = <<>>
  BY <1>1 DEF FilesOf
<1>2. CASE h # <<>>
  <2>1. Len(h) \in 1 .. Len(h)
    BY <1>2
  <2>2. h[Len(h)] \in Commits
    BY <2>1
  <2> QED
    BY <2>2, <1>2 DEF FilesOf, Last, Commits
<1> QED
  BY <1>1, <1>2

LEMMA HoldsWork ==
  ASSUME NEW tr \in Trees, NEW gone, Grown(tr, gone)
  PROVE  tr.work \subseteq Holds(tr) /\ Holds(tr) \subseteq tr.work \cup gone
  BY DEF Holds, Grown, Trees, NoTree

LEMMA TreeFields ==
  ASSUME NEW tr \in Trees, NEW x
  PROVE  /\ [tr EXCEPT !.head = x] = [head |-> x, work |-> tr.work]
         /\ [tr EXCEPT !.work = x] = [head |-> tr.head, work |-> x]
  BY DEF Trees

LEMMA GrownEmpty ==
  ASSUME NEW w, NEW gone
  PROVE  Grown([head |-> <<>>, work |-> w], gone)
  BY DEF Grown

LEMMA GrownCommit ==
  ASSUME NEW tr \in Trees, NEW gone, Grown(tr, gone), NEW x \in {"checkpoint", "commit"}
  PROVE  LET c == [subject |-> x, files |-> tr.work]
             new == [head |-> Append(tr.head, c), work |-> tr.work]
         IN  /\ new \in Trees /\ Grown(new, gone) /\ Len(new.head) = Len(tr.head) + 1
             /\ Holds(tr) \subseteq Holds(new)
<1> DEFINE c == [subject |-> x, files |-> tr.work]
           h == Append(tr.head, c)
<1>1. c \in Commits /\ c.files = tr.work
  BY DEF Commits, Trees
<1> HIDE DEF c
<1>2. tr.head \in Seq(Commits)
  BY DEF Trees
<1>3. h \in Seq(Commits) /\ Len(h) = Len(tr.head) + 1 /\ DOMAIN h = 1 .. Len(tr.head) + 1
  BY <1>1, <1>2
<1>4. \A i \in 1 .. Len(tr.head) : h[i] = tr.head[i] /\ h[i].files \subseteq tr.work \cup gone
  BY <1>1, <1>2 DEF Grown
<1>5. h[Len(tr.head) + 1] = c
  BY <1>1, <1>2
<1>6. ASSUME NEW i \in DOMAIN h, NEW j \in DOMAIN h, i <= j
      PROVE  h[i].files \subseteq h[j].files \cup gone
  <2>1. CASE j \in 1 .. Len(tr.head)
    BY <2>1, <1>2, <1>3, <1>4, <1>6 DEF Grown
  <2>2. CASE j = Len(tr.head) + 1 /\ i \in 1 .. Len(tr.head)
    BY <2>2, <1>4, <1>5, <1>1
  <2>3. CASE j = Len(tr.head) + 1 /\ i = Len(tr.head) + 1
    BY <2>3
  <2> QED
    BY <2>1, <2>2, <2>3, <1>3, <1>2
<1>7. \A i \in DOMAIN h : h[i].files \subseteq tr.work \cup gone
  BY <1>1, <1>2, <1>3, <1>4, <1>5
<1> DEFINE new == [head |-> h, work |-> tr.work]
<1>8. \A i \in DOMAIN tr.head : i \in DOMAIN h /\ h[i] = tr.head[i]
  BY <1>2, <1>3, <1>4
<1> HIDE DEF h
<1>9. new \in Trees /\ Grown(new, gone)
  BY <1>3, <1>6, <1>7 DEF Grown, Trees
<1>10. Holds(tr) \subseteq Holds(new)
  BY <1>8, <1>9, Distinct DEF Holds
<1> QED
  BY <1>3, <1>9, <1>10 DEF c, h

LEMMA GrownEdit ==
  ASSUME NEW tr \in Trees, NEW gone, Grown(tr, gone), NEW f \in Files
  PROVE  LET new == [head |-> tr.head, work |-> tr.work \cup {f}]
         IN  new \in Trees /\ Grown(new, gone) /\ Holds(tr) \subseteq Holds(new)
  BY DEF Grown, Trees, Holds, NoTree

LEMMA GrownDelete ==
  ASSUME NEW tr \in Trees, NEW gone, Grown(tr, gone), NEW f \in Files
  PROVE  LET new == [head |-> tr.head, work |-> tr.work \ {f}]
         IN  new \in Trees /\ Grown(new, gone \cup {f}) /\ Holds(tr) \subseteq Holds(new) \cup {f}
  BY DEF Grown, Trees, Holds, NoTree

LEMMA GrownReset ==
  ASSUME NEW tr \in Trees, NEW gone, Grown(tr, gone), NEW sha \in Seq(Commits), IsPrefix(sha, tr.head)
  PROVE  LET new == [head |-> sha, work |-> (tr.work \ FilesOf(tr.head)) \cup FilesOf(sha)]
         IN  new \in Trees /\ Grown(new, gone) /\ Len(sha) <= Len(tr.head)
<1> DEFINE new == [head |-> sha, work |-> (tr.work \ FilesOf(tr.head)) \cup FilesOf(sha)]
<1>1. tr.head \in Seq(Commits) /\ tr.work \subseteq Files
  BY DEF Trees
<1>2. new \in Trees
  BY <1>1, FilesFit DEF Trees
<1>3. Len(sha) <= Len(tr.head) /\ \A i \in 1 .. Len(sha) : sha[i] = tr.head[i]
  <2>1. Len(sha) <= Len(tr.head) /\ SubSeq(sha, 1, Len(sha)) = SubSeq(tr.head, 1, Len(sha))
    BY DEF IsPrefix
  <2>2. ASSUME NEW i \in 1 .. Len(sha) PROVE sha[i] = tr.head[i]
    <3>1. SubSeq(sha, 1, Len(sha))[i] = sha[i] /\ SubSeq(tr.head, 1, Len(sha))[i] = tr.head[i]
      BY <1>1, <2>1
    <3> QED
      BY <3>1, <2>1
  <2> QED
    BY <2>1, <2>2
<1>4. \A i, j \in 1 .. Len(sha) : i <= j => sha[i].files \subseteq sha[j].files \cup gone
  BY <1>1, <1>3 DEF Grown
<1>5. ASSUME NEW i \in 1 .. Len(sha) PROVE sha[i].files \subseteq FilesOf(sha) \cup gone
  <2>1. Len(sha) \in 1 .. Len(sha) /\ sha # <<>> /\ i <= Len(sha)
    BY <1>5
  <2> QED
    BY <2>1, <1>4 DEF FilesOf, Last
<1> QED
  BY <1>2, <1>3, <1>4, <1>5 DEF Grown

LEMMA GrownClean ==
  ASSUME NEW tr \in Trees, NEW gone, Grown(tr, gone)
  PROVE  LET new == [head |-> tr.head, work |-> FilesOf(tr.head)]
         IN  new \in Trees /\ Grown(new, gone)
<1>1. tr.head \in Seq(Commits)
  BY DEF Trees
<1>2. ASSUME NEW i \in 1 .. Len(tr.head) PROVE tr.head[i].files \subseteq FilesOf(tr.head) \cup gone
  <2>1. Len(tr.head) \in 1 .. Len(tr.head) /\ tr.head # <<>> /\ i <= Len(tr.head)
    BY <1>1, <1>2
  <2> QED
    BY <2>1, <1>1 DEF FilesOf, Last, Grown
<1> QED
  BY <1>1, <1>2, FilesFit DEF Grown, Trees
-----------------------------------------------------------------------------
(* What a step does to the calls. *)

\* A call in flight goes on, another step of it at most.
Alike(u) ==
    /\ call[u] # Idle /\ call'[u] # Idle
    /\ call'[u].op = call[u].op /\ call'[u].on = call[u].on /\ call'[u].at = call[u].at
    /\ call'[u].arg = call[u].arg /\ call[u].late \subseteq call'[u].late
\* No call begins.
Calm == \A u \in Threads : Alike(u) \/ call'[u] = Idle
\* No review gets any further.
Quiet == \A u \in Threads :
    \/ call'[u] = call[u]
    \/ Alike(u) /\ call'[u].pc = call[u].pc
    \/ call[u].op # "send" /\ call'[u].op # "send"
\* No Discard gets to the removal.
Held == \A u \in Threads : Removing(u)' => Removing(u)
\* Session x is on record as come into p after the checks of the calls there.
Came(x, p) == \A u \in Threads :
    call'[u] # Idle /\ call'[u].op # "send" /\ call'[u].at = p => x \in call'[u].late

LEMMA StillCalm ==
  ASSUME CallTypes, UNCHANGED call
  PROVE  CallTypes' /\ Calm /\ Quiet /\ Held
<1>1. \A u \in Threads : call[u] # Idle => call[u].late \subseteq call[u].late
  OBVIOUS
<1> QED
  BY <1>1, Distinct DEF CallTypes, Calm, Quiet, Alike, Idle, Held, Removing

LEMMA GoesCalm ==
  ASSUME CallTypes, NEW t \in Threads, call[t] # Idle, NEW pc \in PCs, Goes(t, pc)
  PROVE  /\ CallTypes' /\ Calm /\ (call[t].op # "send" => Quiet) /\ (pc # "remove" => Held)
         /\ Alike(t) /\ call'[t].pc = pc /\ \A u \in Threads \ {t} : call'[u] = call[u]
<1> DEFINE k == call[t]
           n == [op |-> k.op, pc |-> pc, on |-> k.on, at |-> k.at, arg |-> k.arg, late |-> k.late]
<1>1. k \in Calls
  BY DEF CallTypes
<1>2. [k EXCEPT !.pc = pc] = n /\ n \in Calls
  BY <1>1 DEF Calls
<1>3. call' = [call EXCEPT ![t] = [k EXCEPT !.pc = pc]]
  BY DEF Goes
<1>4. call' = [call EXCEPT ![t] = n] /\ n \in Calls
  BY <1>2, <1>3
<1>5. n.op = k.op /\ n.pc = pc /\ n.on = k.on /\ n.at = k.at /\ n.arg = k.arg /\ n.late = k.late
  OBVIOUS
<1> HIDE DEF n
<1>6. call'[t] = n /\ \A u \in Threads \ {t} : call'[u] = call[u]
  BY <1>4 DEF CallTypes
<1>7. n # Idle
  BY <1>4, Distinct
<1>8. Alike(t)
  BY <1>5, <1>6, <1>7 DEF Alike
<1>9. CallTypes'
  BY <1>4, <1>5, <1>6 DEF CallTypes
<1>10. Calm
  BY <1>6, <1>8 DEF Calm, Alike
<1>11. k.op # "send" => Quiet
  BY <1>6, <1>5 DEF Quiet
<1>12. pc # "remove" => Held
  BY <1>6, <1>5 DEF Held, Removing
<1> QED
  BY <1>5, <1>6, <1>8, <1>9, <1>10, <1>11, <1>12

LEMMA EndsCalm ==
  ASSUME CallTypes, NEW t \in Threads, Ends(t)
  PROVE  /\ CallTypes' /\ Calm /\ (call[t].op # "send" => Quiet) /\ Held
         /\ call'[t] = Idle /\ \A u \in Threads \ {t} : call'[u] = call[u]
<1>1. call'[t] = Idle /\ \A u \in Threads \ {t} : call'[u] = call[u]
  BY DEF Ends, CallTypes
<1>2. call' \in [Threads -> {Idle} \cup Calls]
  BY DEF Ends, CallTypes
<1>3. CallTypes'
  BY <1>1, <1>2, Distinct DEF CallTypes
<1>4. Calm
  BY <1>1 DEF Calm, Alike
<1>5. call[t].op # "send" => Quiet
  BY <1>1, Distinct DEF Quiet
<1>6. Held
  BY <1>1, Distinct DEF Held, Removing
<1> QED
  BY <1>1, <1>3, <1>4, <1>5, <1>6

LEMMA JoinsCalm ==
  ASSUME CallTypes, NEW s \in Sessions, NEW p, NEW ending \in SUBSET Threads,
         \A u \in ending : call[u].op # "send", Joins(s, p, ending)
  PROVE  CallTypes' /\ Calm /\ Quiet /\ Held /\ Came(s, p) /\ \A u \in ending : call'[u] = Idle
<1>1. ASSUME NEW u \in Threads
      PROVE  /\ call'[u] \in {Idle} \cup Calls
             /\ call'[u] = call[u] \/ (Alike(u) /\ call'[u].pc = call[u].pc)
                  \/ (u \in ending /\ call'[u] = Idle)
             /\ call'[u] # Idle /\ call'[u].at = p => s \in call'[u].late
  <2>1. CASE u \in ending
    BY <2>1 DEF Joins
  <2>2. CASE u \notin ending /\ call[u] # Idle /\ call[u].at = p
    <3> DEFINE k == call[u]
               n == [op |-> k.op, pc |-> k.pc, on |-> k.on, at |-> k.at, arg |-> k.arg,
                     late |-> k.late \cup {s}]
    <3>1. k \in Calls
      BY <2>2 DEF CallTypes
    <3>2. call'[u] = n /\ n \in Calls
      BY <2>2, <3>1 DEF Joins, Calls
    <3> QED
      BY <2>2, <3>1, <3>2, Distinct DEF Alike
  <2>3. CASE u \notin ending /\ ~(call[u] # Idle /\ call[u].at = p)
    BY <2>3 DEF Joins, CallTypes
  <2> QED
    BY <2>1, <2>2, <2>3
<1>2. call' \in [Threads -> {Idle} \cup Calls]
  <2>1. call' = [u \in Threads |-> call'[u]]
    BY DEF Joins
  <2> QED
    BY <1>1, <2>1
<1>3. CallTypes'
  BY <1>1, <1>2, Distinct DEF CallTypes, Alike
<1>4. Calm
  BY <1>1 DEF Calm, Alike
<1>5. Quiet
  BY <1>1, Distinct DEF Quiet
<1>6. Came(s, p)
  BY <1>1 DEF Came
<1>7. Held
  BY <1>1, Distinct DEF Held, Removing, Alike
<1> QED
  BY <1>3, <1>4, <1>5, <1>6, <1>7, <1>1 DEF Joins

LEMMA TakesCall ==
  ASSUME CallTypes, NEW t \in Threads, NEW op \in Ops, NEW pc \in PCs, NEW s \in Sessions,
         NEW p \in Sessions, NEW arg \in Args, Takes(t, op, pc, s, p, arg),
         op = "send" => arg \subseteq Comments, op = "rewind" => arg \in Seq(Commits)
  PROVE  /\ CallTypes' /\ call[t] = Idle /\ \A u \in Threads \ {t} : call'[u] = call[u]
         /\ call'[t] # Idle /\ call'[t].op = op /\ call'[t].pc = pc /\ call'[t].on = s
         /\ call'[t].at = p /\ call'[t].arg = arg
         /\ op # "send" => Quiet
<1> DEFINE n == [op |-> op, pc |-> pc, on |-> s, at |-> p, arg |-> arg, late |-> {}]
<1>1. n \in Calls
  BY DEF Calls
<1>2. n.op = op /\ n.pc = pc /\ n.on = s /\ n.at = p /\ n.arg = arg
  OBVIOUS
<1>3. call' = [call EXCEPT ![t] = n] /\ call[t] = Idle
  BY DEF Takes
<1> HIDE DEF n
<1>4. call'[t] = n /\ \A u \in Threads \ {t} : call'[u] = call[u]
  BY <1>3 DEF CallTypes
<1>5. CallTypes'
  BY <1>1, <1>2, <1>3, <1>4 DEF CallTypes
<1>6. op # "send" => Quiet
  BY <1>2, <1>3, <1>4, Distinct DEF Quiet
<1> QED
  BY <1>1, <1>2, <1>3, <1>4, <1>5, <1>6, Distinct

-----------------------------------------------------------------------------
(* What a step keeps that begins no call and gives no session a worktree. *)

RowsCalm == \A x \in Sessions :
    /\ (state'[x] = "none" => state[x] = "none") /\ tree'[x] \in {tree[x], None}
    /\ turn[x] = "none" /\ tree[x] = None => turn'[x] = "none"
DiskCalm == \A p \in Sessions :
    \/ disk'[p] = disk[p] \/ \E x \in Sessions : tree[x] = p
    \/ \E t \in Threads : call[t] # Idle /\ call[t].op # "create" /\ call[t].at = p
    \/ Holds(disk'[p]) = {} /\ \E t \in Threads : call[t] # Idle /\ call[t].at = p
UseCalm == \A x \in Sessions :
    /\ state'[x] \in InUse /\ tree'[x] # None
          => (tree'[x] = tree[x] /\ state[x] \in InUse) \/ Came(x, tree'[x])
    /\ turn'[x] \in Shown
          => turn[x] \in Shown \/ (tree[x] # None /\ Came(x, tree[x]))
    /\ turn'[x] # "none"
          => turn[x] # "none" \/ (tree[x] # None /\ Came(x, tree[x]))

LEMMA PlacesKept ==
  ASSUME WorktreesAssumption, Types, PlaceInv, Calm, RowsCalm, DiskCalm
  PROVE  NewOK' /\ StartOK' /\ CreateOK'
<1> USE DEF PlaceInv
<1>1. ASSUME NEW s \in Sessions, state'[s] = "none"
      PROVE  /\ tree'[s] = None /\ disk'[s] = NoTree /\ turn'[s] = "none"
             /\ \A x \in Sessions : tree'[x] # s
             /\ \A t \in Threads : call'[t] # Idle => call'[t].on # s /\ call'[t].at # s
  <2>1. /\ tree[s] = None /\ disk[s] = NoTree /\ turn[s] = "none" /\ \A x \in Sessions : tree[x] # s
        /\ \A t \in Threads : call[t] # Idle => call[t].on # s /\ call[t].at # s
    BY <1>1 DEF NewOK, RowsCalm
  <2>2. tree'[s] = None /\ turn'[s] = "none" /\ \A x \in Sessions : tree'[x] # s
    BY <2>1 DEF RowsCalm, WorktreesAssumption
  <2>3. disk'[s] = NoTree
    BY <2>1 DEF DiskCalm
  <2>4. \A t \in Threads : call'[t] # Idle => call'[t].on # s /\ call'[t].at # s
    BY <2>1 DEF Calm, Alike
  <2> QED
    BY <2>2, <2>3, <2>4
<1>2. NewOK'
  BY <1>1 DEF NewOK
<1>6. ASSUME NEW t \in Threads, call'[t].op \in Moves
      PROVE  /\ tree'[call'[t].on] = None /\ turn'[call'[t].on] = "none"
             /\ \A u \in Threads : u # t /\ call'[u] # Idle => call'[u].on # call'[t].on
  <2>1. call[t] # Idle /\ call[t].op \in Moves /\ call'[t].on = call[t].on
    BY <1>6, Distinct DEF Calm, Alike, Moves
  <2>2. call[t].on \in Sessions
    BY <2>1 DEF Types, CallTypes, Calls
  <2>3. /\ tree[call[t].on] = None /\ turn[call[t].on] = "none"
        /\ \A u \in Threads : u # t /\ call[u] # Idle => call[u].on # call[t].on
    BY <2>1 DEF StartOK
  <2>4. tree'[call[t].on] = None /\ turn'[call[t].on] = "none"
    BY <2>2, <2>3 DEF RowsCalm
  <2>5. \A u \in Threads : u # t /\ call'[u] # Idle => call'[u].on # call[t].on
    BY <2>3 DEF Calm, Alike
  <2> QED
    BY <2>1, <2>4, <2>5
<1>3. StartOK'
  BY <1>6 DEF StartOK
<1>4. ASSUME NEW t \in Threads, call'[t].op = "create"
      PROVE  /\ call'[t].at = call'[t].on /\ Holds(disk'[call'[t].on]) = {}
             /\ \A x \in Sessions : tree'[x] # call'[t].on
             /\ \A u \in Threads : u # t /\ call'[u] # Idle => call'[u].at # call'[t].on
  <2>1. call[t] # Idle /\ call[t].op = "create" /\ call'[t].on = call[t].on /\ call'[t].at = call[t].at
    BY <1>4, Distinct DEF Calm, Alike
  <2> DEFINE s == call[t].on
  <2>2. s \in Sessions
    BY <2>1 DEF Types, CallTypes, Calls
  <2>3. /\ call[t].at = s /\ Holds(disk[s]) = {} /\ \A x \in Sessions : tree[x] # s
        /\ \A u \in Threads : u # t /\ call[u] # Idle => call[u].at # s
    BY <2>1 DEF CreateOK
  <2> HIDE DEF s
  <2>4. Holds(disk'[s]) = {}
    BY <2>1, <2>2, <2>3 DEF DiskCalm
  <2>5. \A x \in Sessions : tree'[x] # s
    BY <2>2, <2>3 DEF RowsCalm, WorktreesAssumption
  <2>6. \A u \in Threads : u # t /\ call'[u] # Idle => call'[u].at # s
    BY <2>3 DEF Calm, Alike
  <2> QED
    BY <2>1, <2>3, <2>4, <2>5, <2>6 DEF s
<1>5. CreateOK'
  BY <1>4 DEF CreateOK
<1> QED
  BY <1>2, <1>3, <1>5

LEMMA ChecksKept ==
  ASSUME WorktreesAssumption, Types, UseInv, Calm, RowsCalm, UseCalm
  PROVE  RemoveOK' /\ TurnOK'
<1>1. ASSUME NEW t \in Threads, NEW s \in Sessions, call'[t].op = "discard", s # call'[t].on,
             tree'[s] = call'[t].at, state'[s] \in InUse
      PROVE  s \in call'[t].late
  <2>1. /\ call[t] # Idle /\ call'[t] # Idle /\ call[t].op = "discard" /\ call'[t].on = call[t].on
        /\ call'[t].at = call[t].at /\ call[t].late \subseteq call'[t].late
    BY <1>1, Distinct DEF Calm, Alike
  <2>2. call[t].at # None
    BY <2>1 DEF Types, CallTypes, Calls, WorktreesAssumption
  <2>3. CASE tree'[s] = tree[s] /\ state[s] \in InUse
    BY <1>1, <2>1, <2>3 DEF UseInv, RemoveOK
  <2>4. CASE Came(s, tree'[s])
    BY <1>1, <2>1, <2>4 DEF Came
  <2> QED
    BY <1>1, <2>1, <2>2, <2>3, <2>4 DEF UseCalm
<1>2. ASSUME NEW t \in Threads, call'[t].op \in Rewrites \cup {"discard"}
      PROVE  /\ tree'[call'[t].on] \in {call'[t].at, None}
             /\ call'[t].op \in Rewrites /\ turn'[call'[t].on] \in Shown => call'[t].on \in call'[t].late
  <2>1. /\ call[t] # Idle /\ call'[t] # Idle /\ call[t].op = call'[t].op /\ call'[t].on = call[t].on
        /\ call'[t].at = call[t].at /\ call[t].late \subseteq call'[t].late /\ call'[t].op # "send"
    BY <1>2, Distinct DEF Calm, Alike, Rewrites
  <2> DEFINE s == call[t].on
  <2>2. s \in Sessions
    BY <2>1 DEF Types, CallTypes, Calls
  <2>3. /\ tree[s] \in {call[t].at, None}
        /\ call[t].op \in Rewrites /\ turn[s] \in Shown => s \in call[t].late
    BY <1>2, <2>1 DEF UseInv, TurnOK
  <2> HIDE DEF s
  <2>4. tree'[s] \in {call[t].at, None}
    BY <2>2, <2>3 DEF RowsCalm
  <2>5. call[t].op \in Rewrites /\ turn'[s] \in Shown => s \in call'[t].late
    BY <2>1, <2>2, <2>3 DEF UseCalm, Came
  <2> QED
    BY <2>1, <2>4, <2>5 DEF s
<1>3. TurnOK'
  BY <1>2 DEF TurnOK
<1> QED
  BY <1>1, <1>3 DEF RemoveOK

LEMMA GoneKept ==
  ASSUME Types, UseInv, Calm, Held, UseCalm
  PROVE  GoneOK'
<1> SUFFICES ASSUME NEW t \in Threads, Removing(t)', turn'[call'[t].on] # "none"
             PROVE  call'[t].on \in call'[t].late
  BY DEF GoneOK
<1>1. /\ Removing(t) /\ call'[t] # Idle /\ call'[t].on = call[t].on /\ call'[t].at = call[t].at
      /\ call[t].late \subseteq call'[t].late /\ call'[t].op = "discard" /\ call[t].op = "discard"
  BY Distinct DEF Held, Calm, Alike, Removing
<1> DEFINE s == call[t].on
<1>2. s \in Sessions
  BY <1>1, Distinct DEF Types, CallTypes, Calls
<1>3. tree[s] \in {call[t].at, None} /\ (turn[s] # "none" => s \in call[t].late)
  BY <1>1 DEF UseInv, TurnOK, GoneOK
<1> HIDE DEF s
<1>4. turn'[s] # "none" => s \in call'[t].late
  BY <1>1, <1>2, <1>3 DEF UseCalm, Came
<1> QED
  BY <1>1, <1>4 DEF s

LEMMA UsesKept ==
  ASSUME WorktreesAssumption, Types, UseInv, Calm, Held, RowsCalm, UseCalm, ShownOK'
  PROVE  UseInv'
  BY ChecksKept, GoneKept DEF UseInv

LEMMA ReviewsKept ==
  ASSUME Types, ReviewInv, Quiet, UNCHANGED reviewVars
  PROVE  ReviewInv'
<1> USE DEF ReviewInv, reviewVars
<1>1. \A t \in Threads, c \in Comments :
         (Carries(t, c)' <=> Carries(t, c)) /\ (Carries(t, c) => (Marking(t)' <=> Marking(t)))
  BY DEF Quiet, Carries, Marking, Sending, Alike
<1>2. ListedOK'
  BY <1>1 DEF ListedOK
<1>3. CarriedOK'
  BY <1>1 DEF CarriedOK
<1>4. \A c \in Comments : Settled(c)' <=> Settled(c)
  BY DEF Settled
<1>5. CountedOK'
  BY <1>1, <1>4 DEF CountedOK
<1>6. SentMeansDelivered'
  BY DEF SentMeansDelivered
<1> QED
  BY <1>2, <1>3, <1>5, <1>6

\* What worktree p holds stays, or a Rewind or Discard of it takes a step, or
\* an agent has deleted it.
Safe == \A p \in Sessions : \A f \in Holds(disk[p]) \ Holds(disk'[p]) :
    \/ \E t \in Threads : Steps(t, "rewind", p) \/ Steps(t, "discard", p)
    \/ f \in dropped'[p] /\ (f \in disk[p].work => UNCHANGED <<call, pump>>)

LEMMA GentleKeeps ==
  ASSUME WorktreesAssumption, WorktreesInv, Types', Calm, Quiet, Held, RowsCalm, DiskCalm, UseCalm,
         GrownOK', ShownOK', UNCHANGED reviewVars
  PROVE  WorktreesInv'
<1>1. NewOK' /\ StartOK' /\ CreateOK'
  BY PlacesKept DEF WorktreesInv
<1>2. UseInv'
  BY UsesKept DEF WorktreesInv
<1>3. ReviewInv'
  BY ReviewsKept DEF WorktreesInv
<1> QED
  BY <1>1, <1>2, <1>3 DEF WorktreesInv, PlaceInv

LEMMA StillRows ==
  ASSUME UNCHANGED rowVars
  PROVE  RowsCalm /\ UseCalm
  BY DEF rowVars, RowsCalm, UseCalm

LEMMA StillShown ==
  ASSUME WorktreesInv, UNCHANGED <<rowVars, pump>>
  PROVE  ShownOK'
  BY DEF WorktreesInv, UseInv, ShownOK, rowVars

LEMMA StillDisk ==
  ASSUME DiskTypes, GrownOK, UNCHANGED diskVars
  PROVE  DiskTypes' /\ GrownOK' /\ DiskCalm /\ Safe
<1>1. DiskTypes' /\ DiskCalm
  BY DEF DiskTypes, DiskCalm, diskVars
<1>2. GrownOK'
  BY DEF GrownOK, diskVars
<1>3. Safe
  BY DEF Safe, diskVars
<1> QED
  BY <1>1, <1>2, <1>3

\* A step changes worktree p only, into new.
LEMMA DiskStep ==
  ASSUME DiskTypes, GrownOK, NEW p \in Sessions, NEW new \in {NoTree} \cup Trees,
         disk' = [disk EXCEPT ![p] = new], UNCHANGED dropped,
         new # NoTree => Grown(new, dropped[p]) /\ Len(new.head) <= MaxCommits
  PROVE  DiskTypes' /\ GrownOK' /\ disk'[p] = new /\ \A q \in Sessions : q # p => disk'[q] = disk[q]
<1>1. disk'[p] = new /\ \A q \in Sessions : q # p => disk'[q] = disk[q]
  BY DEF DiskTypes
<1>2. DiskTypes'
  BY <1>1 DEF DiskTypes
<1>3. GrownOK'
  BY <1>1 DEF GrownOK
<1> QED
  BY <1>1, <1>2, <1>3

LEMMA CommitAllGrows ==
  ASSUME WorktreesAssumption, DiskTypes, GrownOK, NEW p \in Sessions, disk[p] # NoTree,
         NEW x \in {"checkpoint", "commit"}, CommitAll(p, x), UNCHANGED dropped
  PROVE  /\ DiskTypes' /\ GrownOK' /\ disk'[p].head \in Seq(Commits)
         /\ \A q \in Sessions : q # p => disk'[q] = disk[q]
         /\ Safe
<1> DEFINE tr  == disk[p]
           c   == [subject |-> x, files |-> tr.work]
           new == [head |-> Append(tr.head, c), work |-> tr.work]
<1>1. tr \in Trees /\ Grown(tr, dropped[p]) /\ Len(tr.head) <= MaxCommits
  BY DEF DiskTypes, GrownOK
<1>2. /\ new \in Trees /\ Grown(new, dropped[p]) /\ Len(new.head) = Len(tr.head) + 1
      /\ Holds(tr) \subseteq Holds(new)
  BY <1>1, GrownCommit
<1>3. [tr EXCEPT !.head = Append(tr.head, c)] = new
  BY <1>1, TreeFields
<1>4. disk' = [disk EXCEPT ![p] = [tr EXCEPT !.head = Append(tr.head, c)]] /\ Len(tr.head) < MaxCommits
  BY DEF CommitAll
<1>5. new.work = tr.work
  OBVIOUS
<1> HIDE DEF new, c
<1>6. disk' = [disk EXCEPT ![p] = new]
  BY <1>3, <1>4
<1>7. Len(new.head) <= MaxCommits
  BY <1>1, <1>2, <1>4 DEF WorktreesAssumption, Trees
<1>8. DiskTypes' /\ GrownOK' /\ disk'[p] = new /\ \A q \in Sessions : q # p => disk'[q] = disk[q]
  BY <1>2, <1>6, <1>7, DiskStep
<1>9. Holds(disk[p]) \subseteq Holds(disk'[p])
  BY <1>2, <1>8
<1>10. Safe
  BY <1>8, <1>9 DEF Safe
<1> QED
  BY <1>2, <1>8, <1>10 DEF Trees

-----------------------------------------------------------------------------
(* Create and Attach. *)

LEMMA AddWorktreeKeeps ==
  ASSUME WorktreesAssumption, WorktreesInv, NEW t \in Threads, AddWorktree(t)
  PROVE  WorktreesInv' /\ Safe
<1> DEFINE p == call[t].at
           new == [head |-> <<>>, work |-> {}]
<1>0. Types /\ DiskTypes /\ CallTypes /\ GrownOK /\ CreateOK
  BY DEF WorktreesInv, PlaceInv, Types
<1>1. call[t] # Idle /\ call[t].op = "create" /\ Goes(t, "set") /\ disk' = [disk EXCEPT ![p] = new]
      /\ UNCHANGED dropped
  BY DEF AddWorktree, At
<1>2. p \in Sessions
  BY <1>0, <1>1 DEF CallTypes, Calls
<1>12. "set" \in PCs
  BY DEF PCs
<1>3. CallTypes' /\ Calm /\ Quiet /\ Held
  BY <1>0, <1>1, <1>12, GoesCalm
<1>4. new \in Trees /\ Grown(new, dropped[p]) /\ Len(new.head) <= MaxCommits
  BY GrownEmpty DEF Trees, WorktreesAssumption
<1>5. Holds(new) = {}
  BY DEF Holds
<1> HIDE DEF new
<1>6. DiskTypes' /\ GrownOK' /\ disk'[p] = new /\ \A q \in Sessions : q # p => disk'[q] = disk[q]
  BY <1>0, <1>1, <1>2, <1>4, DiskStep
<1>7. DiskCalm
  BY <1>1, <1>5, <1>6 DEF DiskCalm
<1>8. RowsCalm /\ UseCalm /\ ShownOK'
  BY StillRows, StillShown DEF AddWorktree
<1>9. Types'
  BY <1>0, <1>3, <1>6 DEF Types, AddWorktree, rowVars, reviewVars, countVars
<1>10. WorktreesInv'
  BY <1>3, <1>6, <1>7, <1>8, <1>9, GentleKeeps DEF AddWorktree
<1>11. Holds(disk[p]) = {}
  BY <1>0, <1>1 DEF CreateOK
<1> QED
  BY <1>6, <1>10, <1>11 DEF Safe

\* A row is told its worktree p, which was made or found for it.
LEMMA JoinKeeps ==
  ASSUME WorktreesAssumption, WorktreesInv, NEW t \in Threads, call[t].op \in Moves,
         StartsIn(call[t].on, call[t].at, {t}),
         UNCHANGED <<diskVars, pump, points, reviewVars, calls>>
  PROVE  WorktreesInv' /\ Safe
<1> DEFINE s == call[t].on
           p == call[t].at
<1>0. Types /\ DiskTypes /\ CallTypes /\ NewOK /\ StartOK /\ CreateOK /\ GrownOK /\ UseInv
  BY DEF WorktreesInv, PlaceInv, Types
<1>1. call[t] # Idle /\ s \in Sessions /\ p \in Sessions /\ call[t].op # "send"
  BY <1>0, Distinct DEF CallTypes, Calls, Moves
<1>2. CallTypes' /\ Calm /\ Quiet /\ Held /\ Came(s, p) /\ call'[t] = Idle
  BY <1>0, <1>1, JoinsCalm DEF StartsIn
<1>3. DiskTypes' /\ GrownOK' /\ Safe
  BY <1>0, StillDisk
<1>4. tree[s] = None /\ turn[s] = "none" /\ \A u \in Threads : u # t /\ call[u] # Idle => call[u].on # s
  BY <1>0 DEF StartOK
<1>5. state[s] # "none" /\ state[p] # "none"
  BY <1>0, <1>1 DEF NewOK
<1>15. /\ tree' = [tree EXCEPT ![s] = p]
       /\ \/ turn' = [turn EXCEPT ![s] = "work"] /\ UNCHANGED <<state, faults>>
          \/ Fails /\ state' = [state EXCEPT ![s] = "failed"] /\ UNCHANGED turn
  BY DEF StartsIn
<1> HIDE DEF s, p
<1>6. /\ tree'[s] = p /\ state'[s] \in {state[s], "failed"} /\ turn'[s] \in {"none", "work"}
      /\ \A x \in Sessions : x # s => tree'[x] = tree[x] /\ state'[x] = state[x] /\ turn'[x] = turn[x]
  <2>1. tree'[s] = p /\ \A x \in Sessions : x # s => tree'[x] = tree[x]
    BY <1>0, <1>1, <1>15 DEF Types
  <2>2. state'[s] \in {state[s], "failed"} /\ \A x \in Sessions : x # s => state'[x] = state[x]
    BY <1>0, <1>1, <1>15 DEF Types
  <2>3. turn'[s] \in {"none", "work"} /\ \A x \in Sessions : x # s => turn'[x] = turn[x]
    BY <1>0, <1>1, <1>4, <1>15 DEF Types
  <2> QED
    BY <2>1, <2>2, <2>3
<1>7. Types'
  <2>1. faults' \in 0 .. MaxFaults
    BY <1>0, <1>15 DEF Types, Fails, WorktreesAssumption
  <2>2. state' \in [Sessions -> States] /\ turn' \in [Sessions -> Turns]
    BY <1>0, <1>1, <1>15 DEF Types, States, Turns
  <2> QED
    BY <1>0, <1>1, <1>2, <1>3, <1>15, <2>1, <2>2 DEF Types, reviewVars
<1>8. NewOK'
  <2> SUFFICES ASSUME NEW x \in Sessions, state'[x] = "none"
               PROVE  /\ tree'[x] = None /\ disk'[x] = NoTree /\ turn'[x] = "none" /\ \A y \in Sessions : tree'[y] # x
                      /\ \A u \in Threads : call'[u] # Idle => call'[u].on # x /\ call'[u].at # x
    BY DEF NewOK
  <2>1. x # s /\ state[x] = "none"
    BY <1>5, <1>6
  <2>2. /\ tree[x] = None /\ disk[x] = NoTree /\ turn[x] = "none" /\ \A y \in Sessions : tree[y] # x
        /\ \A u \in Threads : call[u] # Idle => call[u].on # x /\ call[u].at # x
    BY <1>0, <2>1 DEF NewOK
  <2>3. x # p
    BY <2>1, <1>5
  <2> QED
    BY <2>1, <2>2, <2>3, <1>2, <1>6 DEF Calm, Alike, diskVars
<1>9. ASSUME NEW u \in Threads, call'[u] # Idle
      PROVE  /\ u # t /\ call[u] # Idle /\ call'[u].op = call[u].op /\ call'[u].on = call[u].on
             /\ call'[u].at = call[u].at /\ call[u].late \subseteq call'[u].late
             /\ call[u].on # s /\ call[u].on \in Sessions /\ call[u].at \in Sessions
  BY <1>0, <1>2, <1>4, <1>9 DEF Calm, Alike, CallTypes, Calls
<1>10. StartOK'
  <2> SUFFICES ASSUME NEW u \in Threads, call'[u].op \in Moves
               PROVE  /\ tree'[call'[u].on] = None /\ turn'[call'[u].on] = "none"
                      /\ \A v \in Threads : v # u /\ call'[v] # Idle => call'[v].on # call'[u].on
    BY DEF StartOK
  <2>1. call'[u] # Idle
    BY Distinct DEF Moves
  <2>2. /\ tree[call[u].on] = None /\ turn[call[u].on] = "none"
        /\ \A v \in Threads : v # u /\ call[v] # Idle => call[v].on # call[u].on
    BY <1>0, <1>9, <2>1 DEF StartOK
  <2> QED
    BY <1>6, <1>9, <2>1, <2>2
<1>11. CreateOK'
  <2> SUFFICES ASSUME NEW u \in Threads, call'[u].op = "create"
               PROVE  /\ call'[u].at = call'[u].on /\ Holds(disk'[call'[u].on]) = {}
                      /\ \A x \in Sessions : tree'[x] # call'[u].on
                      /\ \A v \in Threads : v # u /\ call'[v] # Idle => call'[v].at # call'[u].on
    BY DEF CreateOK
  <2>1. call'[u] # Idle
    BY Distinct
  <2>2. /\ call[u].at = call[u].on /\ Holds(disk[call[u].on]) = {}
        /\ \A x \in Sessions : tree[x] # call[u].on
        /\ \A v \in Threads : v # u /\ call[v] # Idle => call[v].at # call[u].on
    BY <1>0, <1>9, <2>1 DEF CreateOK
  <2>3. p # call[u].on
    BY <1>1, <1>9, <2>1, <2>2 DEF p
  <2> QED
    BY <1>6, <1>9, <2>1, <2>2, <2>3 DEF diskVars
<1>12. RemoveOK'
  <2> SUFFICES ASSUME NEW u \in Threads, NEW x \in Sessions, call'[u].op = "discard", x # call'[u].on,
                      tree'[x] = call'[u].at, state'[x] \in InUse
               PROVE  x \in call'[u].late
    BY DEF RemoveOK
  <2>1. call'[u] # Idle
    BY Distinct
  <2>2. CASE x = s
    BY <2>1, <2>2, <1>2, <1>6 DEF Came
  <2>3. CASE x # s
    BY <2>1, <2>3, <1>0, <1>6, <1>9 DEF UseInv, RemoveOK
  <2> QED
    BY <2>2, <2>3
<1>13. TurnOK' /\ GoneOK'
  <2> SUFFICES ASSUME NEW u \in Threads, call'[u].op \in Rewrites \cup {"discard"}
               PROVE  /\ tree'[call'[u].on] \in {call'[u].at, None}
                      /\ call'[u].op \in Rewrites /\ turn'[call'[u].on] \in Shown
                            => call'[u].on \in call'[u].late
                      /\ Removing(u)' /\ turn'[call'[u].on] # "none" => call'[u].on \in call'[u].late
    BY DEF TurnOK, GoneOK, Removing
  <2>1. call'[u] # Idle
    BY Distinct DEF Rewrites
  <2>2. /\ tree[call[u].on] \in {call[u].at, None}
        /\ call[u].op \in Rewrites /\ turn[call[u].on] \in Shown => call[u].on \in call[u].late
        /\ Removing(u) /\ turn[call[u].on] # "none" => call[u].on \in call[u].late
    BY <1>0, <1>9, <2>1 DEF UseInv, TurnOK, GoneOK
  <2> QED
    BY <1>2, <1>6, <1>9, <2>1, <2>2 DEF Held
<1>16. ShownOK'
  BY <1>0, <1>6 DEF UseInv, ShownOK, Shown
<1>14. ReviewInv'
  BY <1>0, <1>2, ReviewsKept DEF WorktreesInv
<1> QED
  BY <1>3, <1>7, <1>8, <1>10, <1>11, <1>12, <1>13, <1>14, <1>16 DEF WorktreesInv, PlaceInv, UseInv

LEMMA SetWorktreeKeeps ==
  ASSUME WorktreesAssumption, WorktreesInv, NEW t \in Threads, SetWorktree(t)
  PROVE  WorktreesInv' /\ Safe
<1> DEFINE s == call[t].on
<1>0. Types /\ DiskTypes /\ CallTypes /\ GrownOK /\ CreateOK
  BY DEF WorktreesInv, PlaceInv, Types
<1>1. call[t] # Idle /\ call[t].op = "create" /\ call[t].op \in Moves
  BY DEF SetWorktree, At, Moves
<1>2. s \in Sessions /\ call[t].at = s /\ Holds(disk[s]) = {}
  BY <1>0, <1>1 DEF CallTypes, Calls, CreateOK
<1>3. CASE StartsIn(s, s, {t}) /\ UNCHANGED disk
  <2>1. UNCHANGED <<diskVars, pump, points, reviewVars, calls>>
    BY <1>3 DEF SetWorktree, diskVars
  <2> QED
    BY <1>1, <1>2, <1>3, <2>1, JoinKeeps
<1>4. CASE /\ Fails /\ disk' = [disk EXCEPT ![s] = NoTree] /\ Ends(t)
           /\ state' = [state EXCEPT ![s] = "failed"] /\ UNCHANGED <<tree, turn>>
  <2>1. CallTypes' /\ Calm /\ Quiet /\ Held
    BY <1>0, <1>1, <1>4, EndsCalm
  <2>2. DiskTypes' /\ GrownOK' /\ disk'[s] = NoTree /\ \A q \in Sessions : q # s => disk'[q] = disk[q]
    BY <1>0, <1>2, <1>4, DiskStep DEF SetWorktree
  <2>3. Holds(disk'[s]) = {}
    BY <2>2 DEF Holds
  <2>4. DiskCalm
    BY <1>1, <1>2, <2>2, <2>3 DEF DiskCalm
  <2>5. state'[s] = "failed" /\ \A x \in Sessions : x # s => state'[x] = state[x]
    BY <1>0, <1>2, <1>4 DEF Types
  <2>6. RowsCalm /\ UseCalm
    BY <1>4, <2>5 DEF RowsCalm, UseCalm, InUse
  <2>10. ShownOK'
    BY <1>1, <1>4, <2>5 DEF SetWorktree, WorktreesInv, PlaceInv, StartOK, UseInv, ShownOK, Shown
  <2>7. faults' \in 0 .. MaxFaults
    BY <1>0, <1>4 DEF Fails, Types, WorktreesAssumption
  <2>8. Types'
    BY <1>0, <1>4, <2>1, <2>2, <2>7 DEF Types, SetWorktree, reviewVars, States
  <2>9. WorktreesInv'
    BY <2>1, <2>2, <2>4, <2>6, <2>8, <2>10, GentleKeeps DEF SetWorktree
  <2> QED
    BY <1>2, <2>2, <2>9 DEF Safe
<1> QED
  BY <1>3, <1>4 DEF SetWorktree

LEMMA AttachSetKeeps ==
  ASSUME WorktreesAssumption, WorktreesInv, NEW t \in Threads, AttachSet(t)
  PROVE  WorktreesInv' /\ Safe
<1> DEFINE s == call[t].on
<1>0. Types /\ DiskTypes /\ CallTypes /\ GrownOK
  BY DEF WorktreesInv, PlaceInv, Types
<1>1. call[t] # Idle /\ call[t].op = "attach" /\ call[t].op \in Moves
  BY DEF AttachSet, At, Moves
<1>2. s \in Sessions
  BY <1>0, <1>1 DEF CallTypes, Calls
<1>3. CASE StartsIn(s, call[t].at, {t})
  <2>1. UNCHANGED <<diskVars, pump, points, reviewVars, calls>>
    BY DEF AttachSet
  <2> QED
    BY <1>1, <1>3, <2>1, JoinKeeps
<1>4. CASE Fails /\ state' = [state EXCEPT ![s] = "failed"] /\ Ends(t)
           /\ UNCHANGED <<tree, turn>>
  <2>1. CallTypes' /\ Calm /\ Quiet /\ Held
    BY <1>0, <1>1, <1>4, EndsCalm
  <2>2. DiskTypes' /\ GrownOK' /\ DiskCalm /\ Safe
    BY <1>0, StillDisk DEF AttachSet
  <2>5. state'[s] = "failed" /\ \A x \in Sessions : x # s => state'[x] = state[x]
    BY <1>0, <1>2, <1>4 DEF Types
  <2>6. RowsCalm /\ UseCalm
    BY <1>4, <2>5 DEF RowsCalm, UseCalm, InUse
  <2>10. ShownOK'
    BY <1>1, <1>4, <2>5 DEF AttachSet, WorktreesInv, PlaceInv, StartOK, UseInv, ShownOK, Shown
  <2>7. faults' \in 0 .. MaxFaults
    BY <1>0, <1>4 DEF Fails, Types, WorktreesAssumption
  <2>8. Types'
    BY <1>0, <1>4, <2>1, <2>2, <2>7 DEF Types, AttachSet, reviewVars, States
  <2> QED
    BY <2>1, <2>2, <2>6, <2>8, <2>10, GentleKeeps DEF AttachSet
<1> QED
  BY <1>3, <1>4 DEF AttachSet

\* A session without a row becomes one, and a call gives it worktree p.
LEMMA MoveBegins ==
  ASSUME WorktreesAssumption, WorktreesInv,
         NEW t \in Threads, NEW s \in Sessions, NEW p \in Sessions,
         NEW op \in Moves, NEW pc \in PCs, Begins(t, op, pc, s, p, None),
         op = "create" => p = s, op # "create" => state[p] # "none" /\ \E o \in Sessions : tree[o] = p,
         state[s] = "none", state' = [state EXCEPT ![s] = "running"],
         UNCHANGED <<tree, turn, diskVars, pump, points, reviewVars>>
  PROVE  WorktreesInv' /\ Safe
<1>0. Types /\ DiskTypes /\ CallTypes /\ NewOK /\ StartOK /\ CreateOK /\ GrownOK /\ UseInv
  BY DEF WorktreesInv, PlaceInv, Types
<1>1. op \in Ops /\ None \in Args /\ op # "send" /\ op # "rewind" /\ op # "discard" /\ op \notin Rewrites
  BY DEF Moves, Ops, Args, Rewrites
<1>2. /\ CallTypes' /\ call[t] = Idle /\ \A u \in Threads \ {t} : call'[u] = call[u]
      /\ call'[t] # Idle /\ call'[t].op = op /\ call'[t].pc = pc /\ call'[t].on = s
      /\ call'[t].at = p /\ call'[t].arg = None /\ Quiet
  BY <1>0, <1>1, TakesCall DEF Begins
<1>3. DiskTypes' /\ GrownOK' /\ Safe
  BY <1>0, StillDisk
<1>4. /\ tree[s] = None /\ disk[s] = NoTree /\ turn[s] = "none" /\ \A x \in Sessions : tree[x] # s
      /\ \A u \in Threads : call[u] # Idle => call[u].on # s /\ call[u].at # s
  BY <1>0 DEF NewOK
<1>5. state'[s] = "running" /\ \A x \in Sessions : x # s => state'[x] = state[x]
  BY <1>0 DEF Types
<1>6. calls' \in 0 .. MaxCalls /\ UNCHANGED faults
  BY <1>0 DEF Begins, Types, WorktreesAssumption
<1>7. Types'
  BY <1>0, <1>2, <1>3, <1>6 DEF Types, reviewVars, States, InUse
<1>8. NewOK'
  <2> SUFFICES ASSUME NEW x \in Sessions, state'[x] = "none"
               PROVE  /\ tree'[x] = None /\ disk'[x] = NoTree /\ turn'[x] = "none" /\ \A y \in Sessions : tree'[y] # x
                      /\ \A u \in Threads : call'[u] # Idle => call'[u].on # x /\ call'[u].at # x
    BY DEF NewOK
  <2>1. x # s /\ state[x] = "none"
    BY <1>5
  <2>2. x # p
    BY <2>1
  <2>3. /\ tree[x] = None /\ disk[x] = NoTree /\ turn[x] = "none" /\ \A y \in Sessions : tree[y] # x
        /\ \A u \in Threads : call[u] # Idle => call[u].on # x /\ call[u].at # x
    BY <1>0, <2>1 DEF NewOK
  <2> QED
    BY <1>2, <2>1, <2>2, <2>3 DEF diskVars
<1>9. StartOK'
  <2> SUFFICES ASSUME NEW u \in Threads, call'[u].op \in Moves
               PROVE  /\ tree'[call'[u].on] = None /\ turn'[call'[u].on] = "none"
                      /\ \A v \in Threads : v # u /\ call'[v] # Idle => call'[v].on # call'[u].on
    BY DEF StartOK
  <2>1. CASE u = t
    BY <1>2, <1>4, <2>1
  <2>2. CASE u # t
    <3>1. call[u].op \in Moves /\ call[u] # Idle /\ call'[u] = call[u]
      BY <1>2, <2>2, Distinct DEF Moves
    <3> QED
      BY <3>1, <1>0, <1>2, <1>4 DEF StartOK
  <2> QED
    BY <2>1, <2>2
<1>10. CreateOK'
  <2> SUFFICES ASSUME NEW u \in Threads, call'[u].op = "create"
               PROVE  /\ call'[u].at = call'[u].on /\ Holds(disk'[call'[u].on]) = {}
                      /\ \A x \in Sessions : tree'[x] # call'[u].on
                      /\ \A v \in Threads : v # u /\ call'[v] # Idle => call'[v].at # call'[u].on
    BY DEF CreateOK
  <2>1. CASE u = t
    <3>1. Holds(disk[s]) = {}
      BY <1>4 DEF Holds
    <3> QED
      BY <1>2, <1>4, <2>1, <3>1 DEF diskVars
  <2>2. CASE u # t
    <3>1. call[u].op = "create" /\ call[u] # Idle /\ call'[u] = call[u]
      BY <1>2, <2>2, Distinct
    <3>2. /\ call[u].at = call[u].on /\ Holds(disk[call[u].on]) = {}
          /\ \A x \in Sessions : tree[x] # call[u].on
          /\ \A v \in Threads : v # u /\ call[v] # Idle => call[v].at # call[u].on
      BY <1>0, <3>1 DEF CreateOK
    <3>3. p # call[u].on
      BY <1>4, <3>1, <3>2
    <3> QED
      BY <3>1, <3>2, <3>3, <1>2 DEF diskVars
  <2> QED
    BY <2>1, <2>2
<1>11. RemoveOK'
  <2> SUFFICES ASSUME NEW u \in Threads, NEW x \in Sessions, call'[u].op = "discard", x # call'[u].on,
                      tree'[x] = call'[u].at, state'[x] \in InUse
               PROVE  x \in call'[u].late
    BY DEF RemoveOK
  <2>1. u # t
    BY <1>1, <1>2
  <2>2. call'[u] = call[u] /\ call[u] # Idle
    BY <1>2, <2>1, Distinct
  <2>3. x # s
    BY <1>0, <1>4, <2>2 DEF CallTypes, Calls, WorktreesAssumption
  <2> QED
    BY <1>0, <1>5, <2>2, <2>3 DEF UseInv, RemoveOK
<1>12. TurnOK' /\ GoneOK'
  <2> SUFFICES ASSUME NEW u \in Threads, call'[u].op \in Rewrites \cup {"discard"}
               PROVE  /\ tree'[call'[u].on] \in {call'[u].at, None}
                      /\ call'[u].op \in Rewrites /\ turn'[call'[u].on] \in Shown
                            => call'[u].on \in call'[u].late
                      /\ Removing(u)' /\ turn'[call'[u].on] # "none" => call'[u].on \in call'[u].late
    BY DEF TurnOK, GoneOK, Removing
  <2>1. u # t
    BY <1>1, <1>2
  <2>2. call'[u] = call[u] /\ (Removing(u)' <=> Removing(u))
    BY <1>2, <2>1 DEF Removing
  <2> QED
    BY <1>0, <2>2 DEF UseInv, TurnOK, GoneOK
<1>14. ShownOK'
  BY <1>0, <1>4, <1>5 DEF UseInv, ShownOK, Shown
<1>13. ReviewInv'
  BY <1>0, <1>2, ReviewsKept DEF WorktreesInv
<1> QED
  BY <1>3, <1>7, <1>8, <1>9, <1>10, <1>11, <1>12, <1>13, <1>14 DEF WorktreesInv, PlaceInv, UseInv

LEMMA CreateKeeps ==
  ASSUME WorktreesAssumption, WorktreesInv, NEW t \in Threads, NEW s \in Sessions, Create(t, s)
  PROVE  WorktreesInv' /\ Safe
<1>1. "create" \in Moves /\ "add" \in PCs
  BY DEF Moves, PCs
<1>2. /\ Begins(t, "create", "add", s, s, None)
      /\ state[s] = "none" /\ state' = [state EXCEPT ![s] = "running"]
      /\ UNCHANGED <<tree, turn, diskVars, pump, points, reviewVars>>
  BY DEF Create
<1> QED
  BY <1>1, <1>2, MoveBegins

LEMMA AttachKeeps ==
  ASSUME WorktreesAssumption, WorktreesInv,
         NEW t \in Threads, NEW s \in Sessions, NEW p \in Sessions,
         Attach(t, s, p)
  PROVE  WorktreesInv' /\ Safe
<1>0. Types /\ DiskTypes /\ CallTypes /\ NewOK /\ GrownOK
  BY DEF WorktreesInv, PlaceInv, Types
<1>1. state[s] = "none" /\ UNCHANGED <<tree, turn, diskVars, pump, points, reviewVars>>
  BY DEF Attach
<1>2. CASE Present(p) /\ \E o \in Sessions : tree[o] = p
  <2>1. "attach" \in Moves /\ "set" \in PCs
    BY DEF Moves, PCs
  <2>2. state' = [state EXCEPT ![s] = "running"] /\ Begins(t, "attach", "set", s, p, None)
    BY <1>2 DEF Attach
  <2>3. state[p] # "none"
    BY <1>0, <1>2 DEF NewOK
  <2> QED
    BY <1>1, <1>2, <2>1, <2>2, <2>3, MoveBegins
<1>3. CASE ~(Present(p) /\ \E o \in Sessions : tree[o] = p)
  <2>1. /\ state' = [state EXCEPT ![s] = "failed"] /\ calls < MaxCalls /\ calls' = calls + 1
        /\ UNCHANGED <<call, faults>>
    BY <1>3 DEF Attach
  <2>2. CallTypes' /\ Calm /\ Quiet /\ Held
    BY <1>0, <2>1, StillCalm
  <2>3. DiskTypes' /\ GrownOK' /\ DiskCalm /\ Safe
    BY <1>0, <1>1, StillDisk
  <2>4. state'[s] = "failed" /\ \A x \in Sessions : x # s => state'[x] = state[x]
    BY <1>0, <2>1 DEF Types
  <2>5. RowsCalm /\ UseCalm
    BY <1>1, <2>4 DEF RowsCalm, UseCalm, InUse
  <2>7. ShownOK'
    BY <1>0, <1>1, <2>4 DEF NewOK, WorktreesInv, UseInv, ShownOK, Shown
  <2>6. Types'
    BY <1>0, <1>1, <2>1, <2>2, <2>3 DEF Types, reviewVars, States, WorktreesAssumption
  <2> QED
    BY <1>1, <2>2, <2>3, <2>5, <2>6, <2>7, GentleKeeps
<1> QED
  BY <1>2, <1>3

-----------------------------------------------------------------------------
(* The session at work. *)

LEMMA AgentEditsKeeps ==
  ASSUME WorktreesAssumption, WorktreesInv,
         NEW s \in Sessions, NEW f \in Files, AgentEdits(s, f)
  PROVE  WorktreesInv' /\ Safe
<1> DEFINE p  == tree[s]
           tr == disk[p]
<1>0. Types /\ DiskTypes /\ CallTypes /\ GrownOK
  BY DEF WorktreesInv, PlaceInv, Types
<1>1. p \in Sessions /\ disk[p] # NoTree
  BY <1>0 DEF AgentEdits, Present, Types
<1>2. tr \in Trees /\ Grown(tr, dropped[p]) /\ Len(tr.head) <= MaxCommits
  BY <1>0, <1>1 DEF DiskTypes, GrownOK
<1>3. UNCHANGED <<rowVars, pump, points, reviewVars, call, countVars>>
  BY DEF AgentEdits
<1>4. DiskTypes' /\ GrownOK' /\ Safe /\ \A q \in Sessions : q # p => disk'[q] = disk[q]
  <2>1. CASE disk' = [disk EXCEPT ![p] = [tr EXCEPT !.work = tr.work \cup {f}]] /\ UNCHANGED dropped
    <3> DEFINE new == [head |-> tr.head, work |-> tr.work \cup {f}]
    <3>1. new \in Trees /\ Grown(new, dropped[p]) /\ Holds(tr) \subseteq Holds(new)
      BY <1>2, GrownEdit
    <3>2. new = [tr EXCEPT !.work = tr.work \cup {f}] /\ new.head = tr.head
      BY <1>2, TreeFields
    <3> HIDE DEF new
    <3>3. /\ DiskTypes' /\ GrownOK' /\ disk'[p] = new
          /\ \A q \in Sessions : q # p => disk'[q] = disk[q]
      BY <1>0, <1>1, <1>2, <2>1, <3>1, <3>2, DiskStep
    <3> QED
      BY <3>1, <3>3 DEF Safe
  <2>2. CASE /\ disk' = [disk EXCEPT ![p] = [tr EXCEPT !.work = tr.work \ {f}]]
             /\ dropped' = [dropped EXCEPT ![p] = dropped[p] \cup {f}]
    <3> DEFINE new == [head |-> tr.head, work |-> tr.work \ {f}]
    <3>1. /\ new \in Trees /\ Grown(new, dropped[p] \cup {f})
          /\ Holds(tr) \subseteq Holds(new) \cup {f}
      BY <1>2, GrownDelete
    <3>2. new = [tr EXCEPT !.work = tr.work \ {f}] /\ new.head = tr.head
      BY <1>2, TreeFields
    <3> HIDE DEF new
    <3>3. /\ disk' = [disk EXCEPT ![p] = new] /\ dropped'[p] = dropped[p] \cup {f}
          /\ disk'[p] = new
          /\ \A q \in Sessions : q # p => disk'[q] = disk[q] /\ dropped'[q] = dropped[q]
      BY <1>0, <1>1, <2>2, <3>2 DEF DiskTypes
    <3>4. DiskTypes'
      BY <1>0, <1>1, <1>2, <2>2, <3>1, <3>2, <3>3 DEF DiskTypes
    <3>5. GrownOK'
      BY <1>0, <3>1, <3>3 DEF GrownOK
    <3>6. Safe
      BY <1>3, <3>1, <3>3 DEF Safe
    <3> QED
      BY <3>3, <3>4, <3>5, <3>6
  <2> QED
    BY <2>1, <2>2 DEF AgentEdits
<1>5. DiskCalm
  BY <1>4 DEF DiskCalm
<1>6. CallTypes' /\ Calm /\ Quiet /\ Held /\ RowsCalm /\ UseCalm /\ ShownOK'
  BY <1>0, <1>3, StillCalm, StillRows, StillShown
<1>7. Types'
  BY <1>0, <1>3, <1>4, <1>6 DEF Types, rowVars, reviewVars, countVars
<1> QED
  BY <1>3, <1>4, <1>5, <1>6, <1>7, GentleKeeps

\* The state of a session is set, and that it comes to its worktree noted.
LEMMA SetStateKeeps ==
  ASSUME WorktreesAssumption, WorktreesInv,
         NEW s \in Sessions, NEW st \in States \ {"none"}, NEW tu \in Turns, SetState(s, st, {}),
         tree[s] # None \/ tu = turn[s], turn' = [turn EXCEPT ![s] = tu],
         tu \in Shown => st \in Working /\ pump'[s].at = "none",
         pump' \in [Sessions -> Pumps], \A x \in Sessions \ {s} : pump'[x] = pump[x],
         calls' \in 0 .. MaxCalls, faults' \in 0 .. MaxFaults,
         UNCHANGED <<tree, diskVars, points, reviewVars>>
  PROVE  WorktreesInv' /\ Safe
<1>0. Types /\ DiskTypes /\ CallTypes /\ GrownOK
  BY DEF WorktreesInv, PlaceInv, Types
<1>1. state' = [state EXCEPT ![s] = st] /\ Joins(s, tree[s], {})
  BY DEF SetState
<1>2. CallTypes' /\ Calm /\ Quiet /\ Held /\ Came(s, tree[s])
  BY <1>0, <1>1, JoinsCalm
<1>3. DiskTypes' /\ GrownOK' /\ DiskCalm /\ Safe
  BY <1>0, StillDisk
<1>4. /\ state'[s] = st /\ turn'[s] = tu
      /\ \A x \in Sessions : x # s => state'[x] = state[x] /\ turn'[x] = turn[x]
  BY <1>0, <1>1 DEF Types
<1>5. RowsCalm
  BY <1>4 DEF RowsCalm
<1>6. UseCalm
  BY <1>2, <1>4 DEF UseCalm
<1>7. Types'
  BY <1>0, <1>1, <1>2, <1>3 DEF Types, reviewVars
<1>8. ShownOK'
  BY <1>4 DEF WorktreesInv, UseInv, ShownOK
<1> QED
  BY <1>2, <1>3, <1>5, <1>6, <1>7, <1>8, GentleKeeps

\* A turn goes on, or begins, and the row is told of it.
LEMMA TellsKeeps ==
  ASSUME WorktreesAssumption, WorktreesInv,
         NEW s \in Sessions, NEW st \in States \ {"none"}, NEW tu \in Turns, SetState(s, st, {}),
         tree[s] # None, turn' = [turn EXCEPT ![s] = tu],
         tu \in Shown => st \in Working /\ pump[s].at = "none",
         calls' \in 0 .. MaxCalls, faults' \in 0 .. MaxFaults,
         UNCHANGED <<tree, diskVars, pump, points, reviewVars>>
  PROVE  WorktreesInv' /\ Safe
<1>1. pump' = pump /\ pump' \in [Sessions -> Pumps]
  BY DEF WorktreesInv, Types
<1> QED
  BY <1>1, SetStateKeeps

LEMMA CountsKept ==
  ASSUME WorktreesAssumption, WorktreesInv
  PROVE  /\ UNCHANGED calls => calls' \in 0 .. MaxCalls
         /\ calls < MaxCalls /\ calls' = calls + 1 => calls' \in 0 .. MaxCalls
         /\ UNCHANGED faults => faults' \in 0 .. MaxFaults
         /\ Fails => faults' \in 0 .. MaxFaults
  BY DEF WorktreesInv, Types, WorktreesAssumption, Fails

LEMMA UsesKeeps ==
  ASSUME WorktreesAssumption, WorktreesInv, NEW s \in Sessions, Uses(s) \/ Answers(s)
  PROVE  WorktreesInv' /\ Safe
<1>1. "running" \in States \ {"none"} /\ "running" \in Working /\ "seen" \in Turns
  BY DEF States, InUse, Working, Turns, Shown
<1>2. /\ SetState(s, "running", {}) /\ turn' = [turn EXCEPT ![s] = "seen"]
      /\ pump[s].at = "none" /\ tree[s] # None
      /\ UNCHANGED <<tree, diskVars, pump, points, reviewVars, countVars>>
  BY DEF Uses, Answers, Follows
<1>3. calls' \in 0 .. MaxCalls /\ faults' \in 0 .. MaxFaults
  BY <1>2, CountsKept DEF countVars
<1> QED
  BY <1>1, <1>2, <1>3, TellsKeeps

LEMMA AsksKeeps ==
  ASSUME WorktreesAssumption, WorktreesInv, NEW s \in Sessions, Asks(s)
  PROVE  WorktreesInv' /\ Safe
<1>1. /\ {"waiting", "failed"} \subseteq States \ {"none"} /\ "waiting" \in Working
      /\ {"asks", "work"} \subseteq Turns /\ "work" \notin Shown
  BY DEF States, InUse, Working, Turns, Shown
<1>2. /\ pump[s].at = "none" /\ tree[s] # None
      /\ UNCHANGED <<tree, diskVars, pump, points, reviewVars, calls>>
  BY DEF Asks, Follows
<1>3. calls' \in 0 .. MaxCalls /\ faults' \in 0 .. MaxFaults
  BY <1>2, CountsKept DEF Asks
<1>4. CASE turn' = [turn EXCEPT ![s] = "asks"] /\ SetState(s, "waiting", {})
  BY <1>1, <1>2, <1>3, <1>4, TellsKeeps
<1>5. CASE turn' = [turn EXCEPT ![s] = "work"] /\ SetState(s, "failed", {})
  BY <1>1, <1>2, <1>3, <1>5, TellsKeeps
<1> QED
  BY <1>4, <1>5 DEF Asks

LEMMA OverwritesKeeps ==
  ASSUME WorktreesAssumption, WorktreesInv, NEW s \in Sessions, Overwrites(s)
  PROVE  WorktreesInv' /\ Safe
<1> DEFINE tu == IF turn[s] \in Shown THEN "work" ELSE turn[s]
<1>1. PICK st \in {"open", "running", "closed", "failed"} : SetState(s, st, {})
  BY DEF Overwrites
<1>2. st \in States \ {"none"} /\ tu \in Turns /\ tu \notin Shown
  BY DEF States, InUse, Turns, Shown, WorktreesInv, Types
<1>3. /\ turn' = [turn EXCEPT ![s] = tu] /\ tree[s] # None
      /\ UNCHANGED <<tree, diskVars, pump, points, reviewVars, calls>>
  BY DEF Overwrites
<1>4. calls' \in 0 .. MaxCalls /\ faults' \in 0 .. MaxFaults
  BY <1>3, CountsKept DEF Overwrites
<1> HIDE DEF tu
<1> QED
  BY <1>1, <1>2, <1>3, <1>4, TellsKeeps

LEMMA ResumeKeeps ==
  ASSUME WorktreesAssumption, WorktreesInv, NEW s \in Sessions, Resume(s)
  PROVE  WorktreesInv' /\ Safe
<1>1. PICK tu \in {"work", "idle"} : turn' = [turn EXCEPT ![s] = tu]
  BY DEF Resume
<1>2. "running" \in States \ {"none"} /\ tu \in Turns /\ tu \notin Shown
  BY DEF States, InUse, Turns, Shown
<1>3. /\ SetState(s, "running", {}) /\ tree[s] # None /\ calls < MaxCalls /\ calls' = calls + 1
      /\ UNCHANGED <<tree, diskVars, pump, points, reviewVars, faults>>
  BY DEF Resume, Present
<1>4. calls' \in 0 .. MaxCalls /\ faults' \in 0 .. MaxFaults
  BY <1>3, CountsKept
<1> QED
  BY <1>1, <1>2, <1>3, <1>4, TellsKeeps

\* A step of the processes alone: no turn begins to show, no process begins.
LEMMA ProcessKeeps ==
  ASSUME WorktreesAssumption, WorktreesInv,
         NEW s \in Sessions, NEW tu \in Turns \ Shown, turn' = [turn EXCEPT ![s] = tu],
         tu # "none" => turn[s] # "none",
         NEW st \in {state[s], "closed", "failed"}, state' = [state EXCEPT ![s] = st],
         st # state[s] => tu \notin Shown /\ state[s] # "none",
         pump' \in [Sessions -> Pumps], \A x \in Sessions \ {s} : pump'[x] = pump[x],
         calls' \in 0 .. MaxCalls, UNCHANGED <<tree, diskVars, points, reviewVars, call, faults>>
  PROVE  WorktreesInv' /\ Safe
<1>0. Types /\ DiskTypes /\ CallTypes /\ GrownOK
  BY DEF WorktreesInv, PlaceInv, Types
<1>1. CallTypes' /\ Calm /\ Quiet /\ Held
  BY <1>0, StillCalm
<1>2. DiskTypes' /\ GrownOK' /\ DiskCalm /\ Safe
  BY <1>0, StillDisk
<1>3. /\ state'[s] = st /\ turn'[s] = tu
      /\ \A x \in Sessions : x # s => state'[x] = state[x] /\ turn'[x] = turn[x]
  BY <1>0 DEF Types
<1>4. RowsCalm /\ UseCalm
  BY <1>3 DEF RowsCalm, UseCalm, InUse
<1>5. ShownOK'
  BY <1>3 DEF WorktreesInv, UseInv, ShownOK
<1>6. Types'
  BY <1>0, <1>1, <1>2 DEF Types, reviewVars, States
<1> QED
  BY <1>1, <1>2, <1>4, <1>5, <1>6, GentleKeeps

LEMMA SendKeeps ==
  ASSUME WorktreesAssumption, WorktreesInv, NEW s \in Sessions, Send(s)
  PROVE  WorktreesInv' /\ Safe
<1>1. "work" \in Turns \ Shown /\ turn[s] # "none" /\ turn' = [turn EXCEPT ![s] = "work"]
  BY DEF Turns, Shown, Send
<1>2. /\ state' = [state EXCEPT ![s] = state[s]] /\ pump' = pump /\ pump' \in [Sessions -> Pumps]
  BY DEF Send, WorktreesInv, Types
<1>3. UNCHANGED <<tree, diskVars, points, reviewVars, call, faults>> /\ calls' \in 0 .. MaxCalls
  BY CountsKept DEF Send
<1> QED
  BY <1>1, <1>2, <1>3, ProcessKeeps

LEMMA ChildEndsKeeps ==
  ASSUME WorktreesAssumption, WorktreesInv, NEW s \in Sessions, ChildEnds(s)
  PROVE  WorktreesInv' /\ Safe
<1>1. "dead" \in Turns \ Shown /\ turn[s] # "none" /\ turn' = [turn EXCEPT ![s] = "dead"]
  BY DEF Turns, Shown, ChildEnds
<1>2. /\ state' = [state EXCEPT ![s] = state[s]] /\ pump' = pump /\ pump' \in [Sessions -> Pumps]
  BY DEF ChildEnds, WorktreesInv, Types
<1>3. UNCHANGED <<tree, diskVars, points, reviewVars, call, faults>> /\ calls' \in 0 .. MaxCalls
  BY CountsKept DEF ChildEnds, countVars
<1> QED
  BY <1>1, <1>2, <1>3, ProcessKeeps

LEMMA handleExitKeeps ==
  ASSUME WorktreesAssumption, WorktreesInv, NEW s \in Sessions, handleExit(s)
  PROVE  WorktreesInv' /\ Safe
<1>1. "none" \in Turns \ Shown /\ turn' = [turn EXCEPT ![s] = "none"]
  BY DEF Turns, Shown, handleExit
<1>2. state[s] # "none"
  BY DEF handleExit, WorktreesInv, PlaceInv, NewOK
<1>3. PICK st \in {"closed", "failed"} : state' = [state EXCEPT ![s] = st]
  BY DEF handleExit
<1>4. pump' = pump /\ pump' \in [Sessions -> Pumps]
  BY DEF handleExit, WorktreesInv, Types
<1>5. UNCHANGED <<tree, diskVars, points, reviewVars, call, faults>> /\ calls' \in 0 .. MaxCalls
  BY CountsKept DEF handleExit, countVars
<1> QED
  BY <1>1, <1>2, <1>3, <1>4, <1>5, ProcessKeeps

LEMMA ClosesKeeps ==
  ASSUME WorktreesAssumption, WorktreesInv, NEW s \in Sessions, Closes(s)
  PROVE  WorktreesInv' /\ Safe
<1>1. /\ "none" \in Turns \ Shown /\ turn' = [turn EXCEPT ![s] = "none"]
      /\ state[s] # "none" /\ state' = [state EXCEPT ![s] = "closed"]
  BY DEF Turns, Shown, Closes, InUse, WorktreesInv, Types
<1>2. pump' = pump /\ pump' \in [Sessions -> Pumps]
  BY DEF Closes, WorktreesInv, Types
<1>3. UNCHANGED <<tree, diskVars, points, reviewVars, call, faults>> /\ calls' \in 0 .. MaxCalls
  BY CountsKept DEF Closes, countVars
<1> QED
  BY <1>1, <1>2, <1>3, ProcessKeeps

LEMMA TurnEndsKeeps ==
  ASSUME WorktreesAssumption, WorktreesInv, NEW s \in Sessions, TurnEnds(s)
  PROVE  WorktreesInv' /\ Safe
<1>1. "idle" \in Turns \ Shown /\ turn[s] # "none" /\ turn' = [turn EXCEPT ![s] = "idle"]
  BY DEF Turns, Shown, TurnEnds
<1>2. /\ state' = [state EXCEPT ![s] = state[s]] /\ pump' \in [Sessions -> Pumps]
      /\ \A x \in Sessions \ {s} : pump'[x] = pump[x]
  BY DEF TurnEnds, WorktreesInv, Types, Pumps
<1>3. UNCHANGED <<tree, diskVars, points, reviewVars, call, faults>> /\ calls' \in 0 .. MaxCalls
  BY CountsKept DEF TurnEnds, countVars
<1> QED
  BY <1>1, <1>2, <1>3, ProcessKeeps

\* What afterResult is at comes before the next turn shows.
LEMMA PumpKeepsShown ==
  ASSUME WorktreesInv, NEW s \in Sessions, pump[s].at # "none",
         \A x \in Sessions \ {s} : pump'[x] = pump[x], UNCHANGED rowVars
  PROVE  ShownOK'
  BY DEF WorktreesInv, UseInv, ShownOK, rowVars

LEMMA OpensKeeps ==
  ASSUME WorktreesAssumption, WorktreesInv, NEW s \in Sessions, Opens(s)
  PROVE  WorktreesInv' /\ Safe
<1>0. Types
  BY DEF WorktreesInv
<1>1. "open" \in States \ {"none"} /\ turn[s] \in Turns /\ turn' = [turn EXCEPT ![s] = turn[s]]
  BY <1>0 DEF States, InUse, Types, Opens
<1>2. turn[s] \notin Shown
  BY DEF Opens, WorktreesInv, UseInv, ShownOK
<1>3. pump' \in [Sessions -> Pumps] /\ \A x \in Sessions \ {s} : pump'[x] = pump[x]
  BY <1>0 DEF Opens, Types, Pumps
<1>4. SetState(s, "open", {}) /\ UNCHANGED <<tree, diskVars, points, reviewVars, countVars>>
  BY DEF Opens
<1>5. calls' \in 0 .. MaxCalls /\ faults' \in 0 .. MaxFaults
  BY <1>4, CountsKept DEF countVars
<1> QED
  BY <1>1, <1>2, <1>3, <1>4, <1>5, SetStateKeeps

LEMMA CheckpointKeeps ==
  ASSUME WorktreesAssumption, WorktreesInv, NEW s \in Sessions, Checkpoint(s)
  PROVE  WorktreesInv' /\ Safe
<1> DEFINE p == tree[s]
<1>0. Types /\ DiskTypes /\ CallTypes /\ GrownOK
  BY DEF WorktreesInv, PlaceInv, Types
<1>1. UNCHANGED <<rowVars, points, reviewVars, call, countVars>>
  BY DEF Checkpoint
<1>2. CallTypes' /\ Calm /\ Quiet /\ Held /\ RowsCalm /\ UseCalm
  BY <1>0, <1>1, StillCalm, StillRows
<1>3. DiskTypes' /\ GrownOK' /\ DiskCalm /\ Safe /\ pump' \in [Sessions -> Pumps]
  <2>1. CASE /\ Present(p) /\ CommitAll(p, "checkpoint")
             /\ pump' = [pump EXCEPT ![s] = [at |-> "record", sha |-> disk'[p].head]]
    <3>1. p \in Sessions /\ disk[p] # NoTree
      BY <2>1, <1>0 DEF Present, Types
    <3>2. /\ DiskTypes' /\ GrownOK' /\ disk'[p].head \in Seq(Commits) /\ Safe
          /\ \A q \in Sessions : q # p => disk'[q] = disk[q]
      BY <1>0, <2>1, <3>1, CommitAllGrows DEF Checkpoint
    <3>3. DiskCalm
      BY <3>2 DEF DiskCalm
    <3>4. [at |-> "record", sha |-> disk'[p].head] \in Pumps
      BY <3>2 DEF Pumps
    <3>5. pump' \in [Sessions -> Pumps]
      BY <1>0, <2>1, <3>4 DEF Types
    <3> QED
      BY <3>2, <3>3, <3>5
  <2>2. CASE pump' = [pump EXCEPT ![s] = [at |-> "open"]] /\ UNCHANGED disk
    <3>1. pump' \in [Sessions -> Pumps]
      BY <1>0, <2>2 DEF Types, Pumps
    <3> QED
      BY <1>0, <2>2, <3>1, StillDisk DEF Checkpoint, diskVars
  <2> QED
    BY <2>1, <2>2 DEF Checkpoint
<1>4. Types'
  BY <1>0, <1>1, <1>2, <1>3 DEF Types, rowVars, reviewVars, countVars
<1>5. ShownOK'
  BY <1>0, <1>1, PumpKeepsShown DEF Checkpoint, Types
<1> QED
  BY <1>1, <1>2, <1>3, <1>4, <1>5, GentleKeeps

LEMMA RecordKeeps ==
  ASSUME WorktreesAssumption, WorktreesInv, NEW s \in Sessions, Record(s)
  PROVE  WorktreesInv' /\ Safe
<1>0. Types /\ DiskTypes /\ CallTypes /\ GrownOK
  BY DEF WorktreesInv, PlaceInv, Types
<1>1. UNCHANGED <<rowVars, diskVars, reviewVars, call, calls>>
  BY DEF Record
<1>2. pump[s].sha \in Seq(Commits)
  BY <1>0 DEF Record, Types, Pumps
<1>3. points' \subseteq Sessions \X Seq(Commits) /\ faults' \in 0 .. MaxFaults
  <2>1. CASE points' = points \cup {<<s, pump[s].sha>>} /\ UNCHANGED faults
    BY <1>0, <1>2, <2>1 DEF Types
  <2>2. CASE Fails /\ UNCHANGED points
    BY <1>0, <2>2 DEF Types, Fails, WorktreesAssumption
  <2> QED
    BY <2>1, <2>2 DEF Record
<1>4. pump' \in [Sessions -> Pumps]
  BY <1>0 DEF Record, Types, Pumps
<1>5. CallTypes' /\ Calm /\ Quiet /\ Held /\ RowsCalm /\ UseCalm
  BY <1>0, <1>1, StillCalm, StillRows
<1>6. DiskTypes' /\ GrownOK' /\ DiskCalm /\ Safe
  BY <1>0, <1>1, StillDisk
<1>7. Types'
  BY <1>0, <1>1, <1>3, <1>4, <1>5, <1>6 DEF Types, rowVars, reviewVars
<1>8. ShownOK'
  BY <1>0, <1>1, PumpKeepsShown DEF Record, Types
<1> QED
  BY <1>1, <1>5, <1>6, <1>7, <1>8, GentleKeeps

-----------------------------------------------------------------------------
(* The reviewer's calls. *)

\* A call of the reviewer begins, with its checks.
LEMMA ReviewBegins ==
  ASSUME WorktreesAssumption, WorktreesInv,
         NEW t \in Threads, NEW s \in Sessions, NEW op \in Ops \ Moves,
         NEW pc \in PCs \ {"remove"}, NEW arg \in Args, Takes(t, op, pc, s, tree[s], arg),
         Reviewable(s), op = "send" => arg \subseteq Comments, op = "rewind" => arg \in Seq(Commits),
         op \in Rewrites => ~busy(s), op = "discard" => CountByWorktree(tree[s], s) = 0,
         again' \subseteq Comments, calls' \in 0 .. MaxCalls, UNCHANGED faults,
         UNCHANGED <<rowVars, diskVars, pump, points, comment, got>>
  PROVE  Types' /\ PlaceInv' /\ UseInv' /\ Safe
<1> DEFINE p == tree[s]
<1>0. Types /\ DiskTypes /\ CallTypes /\ NewOK /\ StartOK /\ CreateOK /\ GrownOK /\ UseInv
  BY DEF WorktreesInv, PlaceInv, Types
<1>1. p \in Sessions /\ p # None /\ state[s] # "none" /\ state[p] # "none"
  BY <1>0 DEF Reviewable, Types, NewOK
<1>2. /\ CallTypes' /\ call[t] = Idle /\ \A u \in Threads \ {t} : call'[u] = call[u]
      /\ call'[t] # Idle /\ call'[t].op = op /\ call'[t].on = s /\ call'[t].at = p
      /\ call'[t].pc = pc
  BY <1>0, <1>1, TakesCall
<1>3. DiskTypes' /\ GrownOK' /\ Safe
  BY <1>0, StillDisk
<1>5. Types'
  BY <1>0, <1>2, <1>3 DEF Types, rowVars
<1>6. state' = state /\ tree' = tree /\ turn' = turn /\ disk' = disk
  BY DEF rowVars, diskVars
<1>7. NewOK'
  <2> SUFFICES ASSUME NEW x \in Sessions, state'[x] = "none"
               PROVE  /\ tree'[x] = None /\ disk'[x] = NoTree /\ turn'[x] = "none" /\ \A y \in Sessions : tree'[y] # x
                      /\ \A u \in Threads : call'[u] # Idle => call'[u].on # x /\ call'[u].at # x
    BY DEF NewOK
  <2>1. x # s /\ x # p
    BY <1>1, <1>6
  <2>2. /\ tree[x] = None /\ disk[x] = NoTree /\ turn[x] = "none" /\ \A y \in Sessions : tree[y] # x
        /\ \A u \in Threads : call[u] # Idle => call[u].on # x /\ call[u].at # x
    BY <1>0, <1>6 DEF NewOK
  <2> QED
    BY <1>2, <1>6, <2>1, <2>2
<1>8. StartOK'
  <2> SUFFICES ASSUME NEW u \in Threads, call'[u].op \in Moves
               PROVE  /\ tree'[call'[u].on] = None /\ turn'[call'[u].on] = "none"
                      /\ \A v \in Threads : v # u /\ call'[v] # Idle => call'[v].on # call'[u].on
    BY DEF StartOK
  <2>1. u # t
    BY <1>2
  <2>2. call'[u] = call[u] /\ call[u] # Idle /\ tree[call[u].on] = None
    BY <1>0, <1>2, <2>1, Distinct DEF Moves, StartOK
  <2>3. s # call[u].on
    BY <1>1, <2>2
  <2> QED
    BY <1>0, <1>2, <1>6, <2>2, <2>3 DEF StartOK
<1>9. CreateOK'
  <2> SUFFICES ASSUME NEW u \in Threads, call'[u].op = "create"
               PROVE  /\ call'[u].at = call'[u].on /\ Holds(disk'[call'[u].on]) = {}
                      /\ \A x \in Sessions : tree'[x] # call'[u].on
                      /\ \A v \in Threads : v # u /\ call'[v] # Idle => call'[v].at # call'[u].on
    BY DEF CreateOK
  <2>1. u # t
    BY <1>2 DEF Moves
  <2>2. call'[u] = call[u] /\ call[u] # Idle /\ call[u].op = "create"
    BY <1>2, <2>1, Distinct
  <2>3. /\ call[u].at = call[u].on /\ Holds(disk[call[u].on]) = {}
        /\ \A x \in Sessions : tree[x] # call[u].on
        /\ \A v \in Threads : v # u /\ call[v] # Idle => call[v].at # call[u].on
    BY <1>0, <2>2 DEF CreateOK
  <2> QED
    BY <1>2, <1>6, <2>2, <2>3
<1>10. RemoveOK'
  <2> SUFFICES ASSUME NEW u \in Threads, NEW x \in Sessions, call'[u].op = "discard", x # call'[u].on,
                      tree'[x] = call'[u].at, state'[x] \in InUse
               PROVE  x \in call'[u].late
    BY DEF RemoveOK
  <2>1. CASE u = t
    <3> DEFINE others == {o \in Sessions \ {s} : tree[o] = p /\ state[o] \in InUse}
    <3>1. x \in others
      BY <1>2, <1>6, <2>1
    <3>2. Cardinality(others) = 0
      BY <1>2, <2>1 DEF CountByWorktree
    <3>3. IsFiniteSet(others)
      BY FS_Subset DEF WorktreesAssumption
    <3> HIDE DEF others
    <3>4. others = {}
      BY <3>2, <3>3, FS_EmptySet
    <3> QED
      BY <3>1, <3>4
  <2>2. CASE u # t
    BY <1>0, <1>2, <1>6, <2>2 DEF UseInv, RemoveOK
  <2> QED
    BY <2>1, <2>2
<1>11. TurnOK' /\ GoneOK'
  <2> SUFFICES ASSUME NEW u \in Threads
               PROVE  /\ call'[u].op \in Rewrites \cup {"discard"} => tree'[call'[u].on] \in {call'[u].at, None}
                      /\ call'[u].op \in Rewrites /\ turn'[call'[u].on] \in Shown
                            => call'[u].on \in call'[u].late
                      /\ Removing(u)' /\ turn'[call'[u].on] # "none" => call'[u].on \in call'[u].late
    BY DEF TurnOK, GoneOK
  <2>1. CASE u = t
    <3>1. op \in Rewrites => turn[s] \notin Shown
      BY <1>0, <1>1 DEF busy, Working, UseInv, ShownOK
    <3>2. ~Removing(t)'
      BY <1>2 DEF Removing
    <3> QED
      BY <1>2, <1>6, <2>1, <3>1, <3>2
  <2>2. CASE u # t
    <3>1. call'[u] = call[u] /\ (Removing(u)' <=> Removing(u))
      BY <1>2, <2>2 DEF Removing
    <3> QED
      BY <1>0, <1>6, <3>1 DEF UseInv, TurnOK, GoneOK
  <2> QED
    BY <2>1, <2>2
<1>12. ShownOK'
  BY StillShown
<1> QED
  BY <1>3, <1>5, <1>7, <1>8, <1>9, <1>10, <1>11, <1>12 DEF PlaceInv, UseInv

\* One that is not a review.
LEMMA OrderBegins ==
  ASSUME WorktreesAssumption, WorktreesInv, NEW t \in Threads, NEW s \in Sessions,
         NEW op \in {"commit", "rewind", "discard"}, NEW pc \in PCs \ {"remove"}, NEW arg \in Args,
         Begins(t, op, pc, s, tree[s], arg), Reviewable(s), op = "rewind" => arg \in Seq(Commits),
         ~busy(s), op = "discard" => CountByWorktree(tree[s], s) = 0,
         UNCHANGED <<rowVars, diskVars, pump, points, reviewVars>>
  PROVE  WorktreesInv' /\ Safe
<1>1. op \in Ops \ Moves /\ op \in Ops /\ op # "send"
  BY DEF Ops, Moves
<1>2. again' \subseteq Comments /\ UNCHANGED <<rowVars, diskVars, pump, points, comment, got>>
  BY DEF reviewVars, WorktreesInv, Types
<1>7. Takes(t, op, pc, s, tree[s], arg) /\ calls' \in 0 .. MaxCalls /\ UNCHANGED faults
  BY CountsKept DEF Begins
<1>3. Types' /\ PlaceInv' /\ UseInv' /\ Safe
  BY <1>1, <1>2, <1>7, ReviewBegins
<1>4. Types /\ CallTypes /\ tree[s] \in Sessions
  BY DEF WorktreesInv, Types, Reviewable
<1>5. Quiet
  BY <1>1, <1>4, <1>7, TakesCall
<1>6. ReviewInv'
  BY <1>4, <1>5, ReviewsKept DEF WorktreesInv
<1> QED
  BY <1>3, <1>6 DEF WorktreesInv

LEMMA CommitKeeps ==
  ASSUME WorktreesAssumption, WorktreesInv, NEW t \in Threads, NEW s \in Sessions, Commit(t, s)
  PROVE  WorktreesInv' /\ Safe
<1>1. "reset" \in PCs \ {"remove"} /\ None \in Args
  BY DEF PCs, Args
<1> QED
  BY <1>1, OrderBegins DEF Commit

LEMMA RewindKeeps ==
  ASSUME WorktreesAssumption, WorktreesInv, NEW t \in Threads, NEW s \in Sessions,
         NEW cp \in points, Rewind(t, s, cp)
  PROVE  WorktreesInv' /\ Safe
<1>1. cp[2] \in Seq(Commits)
  BY DEF WorktreesInv, Types
<1>2. "reset" \in PCs \ {"remove"} /\ cp[2] \in Args
  BY <1>1 DEF PCs, Args
<1> QED
  BY <1>1, <1>2, OrderBegins DEF Rewind

LEMMA DiscardKeeps ==
  ASSUME WorktreesAssumption, WorktreesInv, NEW t \in Threads, NEW s \in Sessions, Discard(t, s)
  PROVE  WorktreesInv' /\ Safe
<1>1. "close" \in PCs \ {"remove"} /\ state[s] \in Args
  BY DEF PCs, Args, WorktreesInv, Types
<1> QED
  BY <1>1, OrderBegins DEF Discard

Orders == {"commit", "rewind", "discard"}

\* An order takes a step on its worktree.
LEMMA OrderSteps ==
  ASSUME WorktreesAssumption, WorktreesInv,
         NEW t \in Threads, call[t] # Idle, call[t].op \in Orders,
         Ends(t) \/ \E pc \in PCs \ {"remove"} : Goes(t, pc),
         DiskTypes', GrownOK', \A q \in Sessions : q # call[t].at => disk'[q] = disk[q],
         faults' \in 0 .. MaxFaults, UNCHANGED <<rowVars, pump, points, reviewVars, calls>>
  PROVE  WorktreesInv'
<1>0. Types /\ CallTypes /\ call[t].op # "send" /\ call[t].op # "create"
  BY DEF WorktreesInv, Types, Orders
<1>1. CallTypes' /\ Calm /\ Quiet /\ Held
  <2>1. CASE Ends(t)
    BY <1>0, <2>1, EndsCalm
  <2>2. CASE \E pc \in PCs \ {"remove"} : Goes(t, pc)
    <3>1. PICK pc \in PCs \ {"remove"} : Goes(t, pc)
      BY <2>2
    <3> QED
      BY <1>0, <3>1, GoesCalm
  <2> QED
    BY <2>1, <2>2
<1>2. RowsCalm /\ UseCalm /\ ShownOK'
  BY StillRows, StillShown
<1>3. DiskCalm
  BY <1>0 DEF DiskCalm
<1>4. Types'
  BY <1>0, <1>1 DEF Types, rowVars, reviewVars
<1> QED
  BY <1>1, <1>2, <1>3, <1>4, GentleKeeps

\* The process of the session is closed, and not yet gone.
LEMMA CloseFirstWaits ==
  ASSUME WorktreesAssumption, WorktreesInv, NEW t \in Threads, CloseFirst(t),
         turn[call[t].on] # "none", turn' = [turn EXCEPT ![call[t].on] = "dead"],
         UNCHANGED <<call, faults>>
  PROVE  WorktreesInv' /\ Safe
<1> DEFINE s == call[t].on
<1>1. s \in Sessions
  BY DEF CloseFirst, At, WorktreesInv, Types, CallTypes, Calls
<1>2. "dead" \in Turns \ Shown
  BY DEF Turns, Shown
<1>3. /\ UNCHANGED <<tree, diskVars, points, reviewVars, call, faults>> /\ calls' \in 0 .. MaxCalls
      /\ state' = [state EXCEPT ![s] = state[s]] /\ pump' = pump /\ pump' \in [Sessions -> Pumps]
  BY CountsKept DEF CloseFirst, WorktreesInv, Types
<1> HIDE DEF s
<1> QED
  BY <1>1, <1>2, <1>3, ProcessKeeps DEF s

\* It is gone: the removal is next.
LEMMA CloseFirstGoes ==
  ASSUME WorktreesAssumption, WorktreesInv, NEW t \in Threads, CloseFirst(t),
         turn[call[t].on] = "none", Goes(t, "remove"), UNCHANGED <<turn, faults>>
  PROVE  WorktreesInv' /\ Safe
<1>0. Types /\ DiskTypes /\ CallTypes /\ GrownOK
  BY DEF WorktreesInv, PlaceInv, Types
<1>1. /\ call[t] # Idle /\ call[t].op = "discard" /\ "remove" \in PCs
      /\ UNCHANGED <<rowVars, diskVars, pump, points, reviewVars, calls, faults>>
  BY DEF CloseFirst, At, PCs, rowVars
<1>2. /\ CallTypes' /\ Calm /\ Quiet /\ Alike(t)
      /\ \A u \in Threads \ {t} : call'[u] = call[u]
  BY <1>0, <1>1, GoesCalm
<1>3. DiskTypes' /\ GrownOK' /\ DiskCalm /\ Safe
  BY <1>0, <1>1, StillDisk
<1>4. RowsCalm /\ UseCalm /\ ShownOK'
  BY <1>1, StillRows, StillShown
<1>5. Types'
  BY <1>0, <1>1, <1>2, <1>3 DEF Types, rowVars, reviewVars
<1>6. NewOK' /\ StartOK' /\ CreateOK'
  BY <1>2, <1>3, <1>4, PlacesKept DEF WorktreesInv
<1>7. RemoveOK' /\ TurnOK'
  BY <1>0, <1>2, <1>4, ChecksKept DEF WorktreesInv
<1>8. GoneOK'
  <2> SUFFICES ASSUME NEW u \in Threads, Removing(u)', turn'[call'[u].on] # "none"
               PROVE  call'[u].on \in call'[u].late
    BY DEF GoneOK
  <2>1. u # t
    BY <1>2 DEF Alike
  <2>2. call'[u] = call[u] /\ Removing(u)
    BY <1>2, <2>1 DEF Removing
  <2> QED
    BY <2>2 DEF WorktreesInv, UseInv, GoneOK
<1>9. ReviewInv'
  BY <1>0, <1>1, <1>2, ReviewsKept DEF WorktreesInv
<1> QED
  BY <1>3, <1>4, <1>5, <1>6, <1>7, <1>8, <1>9 DEF WorktreesInv, PlaceInv, UseInv

LEMMA CloseFirstKeeps ==
  ASSUME WorktreesAssumption, WorktreesInv, NEW t \in Threads, CloseFirst(t)
  PROVE  WorktreesInv' /\ Safe
<1>1. CASE turn[call[t].on] = "none" /\ Goes(t, "remove") /\ UNCHANGED <<turn, faults>>
  BY <1>1, CloseFirstGoes
<1>2. CASE /\ turn[call[t].on] \notin {"none", "dead"} /\ turn' = [turn EXCEPT ![call[t].on] = "dead"]
           /\ UNCHANGED <<call, faults>>
  BY <1>2, CloseFirstWaits
<1>3. CASE Fails /\ Ends(t) /\ UNCHANGED turn
  <2>1. /\ call[t] # Idle /\ call[t].op \in Orders /\ faults' \in 0 .. MaxFaults
        /\ UNCHANGED <<rowVars, diskVars, pump, points, reviewVars, calls>>
    BY <1>3, CountsKept DEF CloseFirst, At, Orders, rowVars
  <2>2. DiskTypes' /\ GrownOK' /\ Safe
    BY <2>1, StillDisk DEF WorktreesInv, PlaceInv, Types
  <2> QED
    BY <1>3, <2>1, <2>2, OrderSteps DEF diskVars
<1> QED
  BY <1>1, <1>2, <1>3 DEF CloseFirst, closeLiveProcess

LEMMA CommitResetKeeps ==
  ASSUME WorktreesAssumption, WorktreesInv, NEW t \in Threads, CommitReset(t)
  PROVE  WorktreesInv' /\ Safe
<1> DEFINE p  == call[t].at
           tr == disk[p]
           hd == IF HasCheckpoints(p) THEN <<>> ELSE tr.head
           new == [head |-> hd, work |-> tr.work]
<1>0. Types /\ DiskTypes /\ CallTypes /\ GrownOK
  BY DEF WorktreesInv, PlaceInv, Types
<1>1. call[t] # Idle /\ call[t].op = "commit" /\ call[t].op \in Orders
      /\ "commit" \in PCs \ {"remove"} /\ UNCHANGED dropped
  BY DEF CommitReset, At, Orders, PCs
<1>2. p \in Sessions
  BY <1>0, <1>1 DEF CallTypes, Calls
<1>3. faults' \in 0 .. MaxFaults /\ UNCHANGED <<rowVars, pump, points, reviewVars, calls>>
  BY <1>0 DEF CommitReset, countVars, Types
<1>4. CASE Present(p)
  <2>1. tr \in Trees /\ Grown(tr, dropped[p]) /\ Len(tr.head) <= MaxCommits
    BY <1>0, <1>2, <1>4 DEF DiskTypes, GrownOK, Present
  <2>2. [tr EXCEPT !.head = hd] = new
    BY <2>1, TreeFields
  <2>3. disk' = [disk EXCEPT ![p] = [tr EXCEPT !.head = hd]] /\ Goes(t, "commit")
    BY <1>4 DEF CommitReset, Fold
  <2>4. new \in Trees /\ Grown(new, dropped[p]) /\ Len(new.head) <= MaxCommits /\ new.work = tr.work
    <3>1. CASE HasCheckpoints(p)
      BY <2>1, <3>1, GrownEmpty DEF Trees, WorktreesAssumption
    <3>2. CASE ~HasCheckpoints(p)
      <4>1. hd = tr.head
        BY <3>2
      <4>2. new \in Trees
        BY <2>1, <4>1 DEF Trees
      <4> QED
        BY <2>1, <4>1, <4>2 DEF Grown
    <3> QED
      BY <3>1, <3>2
  <2> HIDE DEF new, hd
  <2>5. /\ DiskTypes' /\ GrownOK' /\ disk'[p] = new
        /\ \A q \in Sessions : q # p => disk'[q] = disk[q]
    BY <1>0, <1>1, <1>2, <2>2, <2>3, <2>4, DiskStep
  <2>6. Holds(disk[p]) \subseteq tr.work \cup dropped[p] /\ tr.work \subseteq Holds(disk'[p])
    BY <2>1, <2>4, <2>5, HoldsWork
  <2>7. Safe
    BY <1>1, <2>5, <2>6 DEF Safe
  <2> QED
    BY <1>1, <1>3, <2>3, <2>5, <2>7, OrderSteps
<1>5. CASE ~Present(p)
  <2>1. UNCHANGED disk /\ Ends(t)
    BY <1>5 DEF CommitReset
  <2>2. DiskTypes' /\ GrownOK' /\ Safe
    BY <1>0, <1>1, <2>1, StillDisk DEF diskVars
  <2> QED
    BY <1>1, <1>3, <2>1, <2>2, OrderSteps
<1> QED
  BY <1>4, <1>5

LEMMA CommitEndsKeeps ==
  ASSUME WorktreesAssumption, WorktreesInv, NEW t \in Threads, CommitEnds(t)
  PROVE  WorktreesInv' /\ Safe
<1> DEFINE p == call[t].at
<1>0. Types /\ DiskTypes /\ CallTypes /\ GrownOK
  BY DEF WorktreesInv, PlaceInv, Types
<1>1. /\ call[t] # Idle /\ call[t].op = "commit" /\ call[t].op \in Orders /\ Ends(t)
      /\ UNCHANGED dropped
  BY DEF CommitEnds, At, Orders
<1>2. p \in Sessions
  BY <1>0, <1>1 DEF CallTypes, Calls
<1>3. faults' \in 0 .. MaxFaults /\ UNCHANGED <<rowVars, pump, points, reviewVars, calls>>
  BY CountsKept DEF CommitEnds
<1>4. DiskTypes' /\ GrownOK' /\ Safe /\ \A q \in Sessions : q # p => disk'[q] = disk[q]
  <2>1. CASE Present(p) /\ CommitAll(p, "commit")
    BY <1>0, <1>1, <1>2, <2>1, CommitAllGrows DEF Present
  <2>2. CASE UNCHANGED disk
    BY <1>0, <1>1, <2>2, StillDisk DEF diskVars
  <2> QED
    BY <2>1, <2>2 DEF CommitEnds
<1> QED
  BY <1>1, <1>3, <1>4, OrderSteps

LEMMA RewindResetKeeps ==
  ASSUME WorktreesAssumption, WorktreesInv, NEW t \in Threads, RewindReset(t)
  PROVE  WorktreesInv' /\ Safe
<1> DEFINE p   == call[t].at
           sha == call[t].arg
           tr  == disk[p]
           new == [head |-> sha, work |-> (tr.work \ FilesOf(tr.head)) \cup FilesOf(sha)]
<1>0. Types /\ DiskTypes /\ CallTypes /\ GrownOK
  BY DEF WorktreesInv, PlaceInv, Types
<1>1. /\ call[t] # Idle /\ call[t].op = "rewind" /\ call[t].pc = "reset" /\ call[t].op \in Orders
      /\ "clean" \in PCs \ {"remove"} /\ UNCHANGED dropped
  BY DEF RewindReset, At, Orders, PCs
<1>2. p \in Sessions /\ sha \in Seq(Commits)
  BY <1>0, <1>1 DEF CallTypes, Calls
<1>3. faults' \in 0 .. MaxFaults /\ UNCHANGED <<rowVars, pump, points, reviewVars, calls>>
  BY <1>0 DEF RewindReset, countVars, Types
<1>4. CASE Present(p) /\ IsPrefix(sha, tr.head)
  <2>1. tr \in Trees /\ Grown(tr, dropped[p]) /\ Len(tr.head) <= MaxCommits
    BY <1>0, <1>2, <1>4 DEF DiskTypes, GrownOK, Present
  <2>2. disk' = [disk EXCEPT ![p] = new] /\ Goes(t, "clean")
    BY <1>4 DEF RewindReset
  <2>3. new \in Trees /\ Grown(new, dropped[p]) /\ Len(sha) <= Len(tr.head)
    BY <1>2, <1>4, <2>1, GrownReset
  <2>4. Len(new.head) <= MaxCommits
    <3>1. Len(sha) \in Nat /\ Len(tr.head) \in Nat /\ MaxCommits \in Nat
      BY <1>2, <2>1 DEF Trees, WorktreesAssumption
    <3> QED
      BY <2>1, <2>3, <3>1
  <2> HIDE DEF new
  <2>5. /\ DiskTypes' /\ GrownOK' /\ \A q \in Sessions : q # p => disk'[q] = disk[q]
    BY <1>0, <1>1, <1>2, <2>2, <2>3, <2>4, DiskStep
  <2>6. call'[t].pc = "clean"
    BY <1>0, <1>1, <2>2, GoesCalm
  <2>7. Steps(t, "rewind", p)
    BY <1>1, <2>6 DEF Steps
  <2>8. Safe
    BY <2>5, <2>7 DEF Safe
  <2> QED
    BY <1>1, <1>3, <2>2, <2>5, <2>8, OrderSteps
<1>5. CASE ~(Present(p) /\ IsPrefix(sha, tr.head))
  <2>1. UNCHANGED disk /\ Ends(t)
    BY <1>5 DEF RewindReset
  <2>2. DiskTypes' /\ GrownOK' /\ Safe
    BY <1>0, <1>1, <2>1, StillDisk DEF diskVars
  <2> QED
    BY <1>1, <1>3, <2>1, <2>2, OrderSteps
<1> QED
  BY <1>4, <1>5

LEMMA RewindCleanKeeps ==
  ASSUME WorktreesAssumption, WorktreesInv, NEW t \in Threads, RewindClean(t)
  PROVE  WorktreesInv' /\ Safe
<1> DEFINE p   == call[t].at
           tr  == disk[p]
           new == [head |-> tr.head, work |-> FilesOf(tr.head)]
<1>0. Types /\ DiskTypes /\ CallTypes /\ GrownOK
  BY DEF WorktreesInv, PlaceInv, Types
<1>1. /\ call[t] # Idle /\ call[t].op = "rewind" /\ call[t].op \in Orders /\ Ends(t)
      /\ UNCHANGED dropped
  BY DEF RewindClean, At, Orders
<1>2. p \in Sessions
  BY <1>0, <1>1 DEF CallTypes, Calls
<1>3. faults' \in 0 .. MaxFaults /\ UNCHANGED <<rowVars, pump, points, reviewVars, calls>>
  BY <1>0 DEF RewindClean, countVars, Types
<1>4. disk' = [disk EXCEPT ![p] = IF tr = NoTree THEN tr ELSE [tr EXCEPT !.work = FilesOf(tr.head)]]
  BY DEF RewindClean
<1>5. DiskTypes' /\ GrownOK' /\ \A q \in Sessions : q # p => disk'[q] = disk[q]
  <2>1. CASE tr = NoTree
    <3>1. disk' = [disk EXCEPT ![p] = NoTree]
      BY <1>4, <2>1
    <3> QED
      BY <1>0, <1>1, <1>2, <3>1, DiskStep
  <2>2. CASE tr # NoTree
    <3>1. tr \in Trees /\ Grown(tr, dropped[p]) /\ Len(tr.head) <= MaxCommits
      BY <1>0, <1>2, <2>2 DEF DiskTypes, GrownOK
    <3>2. disk' = [disk EXCEPT ![p] = new]
      BY <1>4, <2>2, <3>1, TreeFields
    <3>3. new \in Trees /\ Grown(new, dropped[p]) /\ Len(new.head) <= MaxCommits
      BY <3>1, GrownClean
    <3> HIDE DEF new
    <3> QED
      BY <1>0, <1>1, <1>2, <3>1, <3>2, <3>3, DiskStep
  <2> QED
    BY <2>1, <2>2
<1>6. call'[t] = Idle
  BY <1>0, <1>1, EndsCalm
<1>7. Safe
  BY <1>1, <1>5, <1>6 DEF Safe, Steps
<1> QED
  BY <1>1, <1>3, <1>5, <1>7, OrderSteps

LEMMA RemoveWorktreeKeeps ==
  ASSUME WorktreesAssumption, WorktreesInv, NEW t \in Threads, RemoveWorktree(t)
  PROVE  WorktreesInv' /\ Safe
<1> DEFINE p == call[t].at
<1>0. Types /\ DiskTypes /\ CallTypes /\ GrownOK
  BY DEF WorktreesInv, PlaceInv, Types
<1>1. /\ call[t] # Idle /\ call[t].op = "discard" /\ call[t].pc = "remove" /\ call[t].op \in Orders
      /\ "clear" \in PCs \ {"remove"} /\ UNCHANGED dropped
  BY DEF RemoveWorktree, At, Orders, PCs
<1>2. p \in Sessions
  BY <1>0, <1>1 DEF CallTypes, Calls
<1>3. UNCHANGED <<rowVars, pump, points, reviewVars, calls>>
  BY DEF RemoveWorktree
<1>4. CASE disk' = [disk EXCEPT ![p] = NoTree] /\ Goes(t, "clear") /\ UNCHANGED faults
  <2>1. DiskTypes' /\ GrownOK' /\ \A q \in Sessions : q # p => disk'[q] = disk[q]
    BY <1>0, <1>1, <1>2, <1>4, DiskStep
  <2>2. call'[t].pc = "clear"
    BY <1>0, <1>1, <1>4, GoesCalm
  <2>3. Safe
    BY <1>1, <2>1, <2>2 DEF Safe, Steps
  <2>4. faults' \in 0 .. MaxFaults
    BY <1>0, <1>4 DEF Types
  <2> QED
    BY <1>1, <1>3, <1>4, <2>1, <2>3, <2>4, OrderSteps
<1>5. CASE Fails /\ Ends(t) /\ UNCHANGED disk
  <2>1. DiskTypes' /\ GrownOK' /\ Safe
    BY <1>0, <1>1, <1>5, StillDisk DEF diskVars
  <2>2. faults' \in 0 .. MaxFaults
    BY <1>0, <1>5 DEF Types, Fails, WorktreesAssumption
  <2> QED
    BY <1>1, <1>3, <1>5, <2>1, <2>2, OrderSteps
<1> QED
  BY <1>4, <1>5 DEF RemoveWorktree

LEMMA ClearRowKeeps ==
  ASSUME WorktreesAssumption, WorktreesInv, NEW t \in Threads, ClearRow(t)
  PROVE  WorktreesInv' /\ Safe
<1> DEFINE s == call[t].on
<1>0. Types /\ DiskTypes /\ CallTypes /\ GrownOK /\ NewOK
  BY DEF WorktreesInv, PlaceInv, Types
<1>1. call[t] # Idle /\ call[t].op = "discard" /\ Ends(t)
  BY DEF ClearRow, At
<1>2. s \in Sessions
  BY <1>0, <1>1 DEF CallTypes, Calls
<1>3. UNCHANGED <<turn, diskVars, pump, points, reviewVars, calls>>
  BY DEF ClearRow
<1>4. CallTypes' /\ Calm /\ Quiet /\ Held
  BY <1>0, <1>1, EndsCalm
<1>5. DiskTypes' /\ GrownOK' /\ DiskCalm /\ Safe
  BY <1>0, <1>3, StillDisk
<1>6. CASE /\ tree' = [tree EXCEPT ![s] = None]
           /\ state' = [state EXCEPT ![s] = IF call[t].arg = "closed" THEN state[s] ELSE "closed"]
           /\ UNCHANGED faults
  <2>1. tree'[s] = None /\ \A x \in Sessions : x # s => tree'[x] = tree[x]
    BY <1>0, <1>2, <1>6 DEF Types
  <2>2. state'[s] \in {state[s], "closed"} /\ \A x \in Sessions : x # s => state'[x] = state[x]
    BY <1>0, <1>2, <1>6 DEF Types
  <2>3. RowsCalm /\ UseCalm
    BY <1>3, <2>1, <2>2 DEF RowsCalm, UseCalm, InUse
  <2>5. ShownOK'
    BY <1>3, <2>1, <2>2 DEF WorktreesInv, UseInv, ShownOK
  <2>4. Types'
    BY <1>0, <1>2, <1>3, <1>4, <1>5, <1>6 DEF Types, reviewVars, States
  <2> QED
    BY <1>3, <1>4, <1>5, <2>3, <2>4, <2>5, GentleKeeps
<1>7. CASE Fails /\ UNCHANGED <<state, tree>>
  <2>1. RowsCalm /\ UseCalm /\ ShownOK'
    BY <1>3, <1>7, StillRows, StillShown DEF rowVars
  <2>2. Types'
    BY <1>0, <1>3, <1>4, <1>5, <1>7 DEF Types, reviewVars, rowVars, Fails, WorktreesAssumption
  <2> QED
    BY <1>3, <1>4, <1>5, <2>1, <2>2, GentleKeeps
<1> QED
  BY <1>6, <1>7 DEF ClearRow

-----------------------------------------------------------------------------
(* Review comments. *)

\* A comment is written or deleted.
LEMMA WriteComment ==
  ASSUME WorktreesAssumption, WorktreesInv,
         NEW c \in Comments, NEW w \in {Deleted} \cup Written,
         comment[c] = NoComment => w \in Written /\ ~w.sent, comment[c] # NoComment => w = Deleted,
         comment' = [comment EXCEPT ![c] = w], calls < MaxCalls, calls' = calls + 1,
         UNCHANGED <<rowVars, diskVars, pump, points, got, again, call, faults>>
  PROVE  WorktreesInv' /\ Safe
<1>0. Types /\ DiskTypes /\ CallTypes /\ GrownOK
  BY DEF WorktreesInv, PlaceInv, Types
<1>1. CallTypes' /\ Calm /\ Held /\ RowsCalm /\ UseCalm /\ ShownOK'
  BY <1>0, StillCalm, StillRows, StillShown
<1>2. DiskTypes' /\ GrownOK' /\ DiskCalm /\ Safe
  BY <1>0, StillDisk
<1>3. Types'
  BY <1>0, <1>1, <1>2 DEF Types, rowVars, WorktreesAssumption
<1>4. NewOK' /\ StartOK' /\ CreateOK' /\ UseInv'
  BY <1>1, <1>2, PlacesKept, UsesKept DEF WorktreesInv
<1>5. ReviewInv
  BY DEF WorktreesInv
<1>6. comment'[c] = w /\ \A d \in Comments : d # c => comment'[d] = comment[d]
  BY <1>0 DEF Types
<1>7. call' = call /\ got' = got /\ again' = again
  OBVIOUS
<1>8. ListedOK'
  BY <1>5, <1>6, <1>7, Distinct DEF ReviewInv, ListedOK, Carries, Marking, Sending
<1>9. CarriedOK'
  BY <1>5, <1>7 DEF ReviewInv, CarriedOK, Carries, Marking, Sending
<1>10. \A d \in Comments : Settled(d) => Settled(d)'
  BY <1>6, Distinct DEF Settled
<1>11. CountedOK'
  BY <1>5, <1>7, <1>10 DEF ReviewInv, CountedOK, Carries, Marking, Sending
<1>12. SentMeansDelivered'
  BY <1>5, <1>6, <1>7, Distinct DEF ReviewInv, SentMeansDelivered
<1> QED
  BY <1>2, <1>3, <1>4, <1>8, <1>9, <1>11, <1>12 DEF WorktreesInv, PlaceInv, ReviewInv

LEMMA AddCommentKeeps ==
  ASSUME WorktreesAssumption, WorktreesInv,
         NEW s \in Sessions, NEW c \in Comments, AddComment(s, c)
  PROVE  WorktreesInv' /\ Safe
<1> DEFINE w == [on |-> s, sent |-> FALSE]
<1>1. w \in Written /\ ~w.sent /\ comment' = [comment EXCEPT ![c] = w] /\ comment[c] = NoComment
  BY DEF AddComment, Written
<1>2. /\ calls < MaxCalls /\ calls' = calls + 1
      /\ UNCHANGED <<rowVars, diskVars, pump, points, got, again, call, faults>>
  BY DEF AddComment
<1> HIDE DEF w
<1> QED
  BY <1>1, <1>2, WriteComment

LEMMA DeleteCommentKeeps ==
  ASSUME WorktreesAssumption, WorktreesInv,
         NEW s \in Sessions, NEW c \in Comments, DeleteComment(s, c)
  PROVE  WorktreesInv' /\ Safe
<1>1. comment[c] # NoComment /\ comment' = [comment EXCEPT ![c] = Deleted]
  BY Distinct DEF DeleteComment
<1>2. /\ calls < MaxCalls /\ calls' = calls + 1
      /\ UNCHANGED <<rowVars, diskVars, pump, points, got, again, call, faults>>
  BY DEF DeleteComment
<1> QED
  BY <1>1, <1>2, WriteComment

LEMMA SendReviewKeeps ==
  ASSUME WorktreesAssumption, WorktreesInv,
         NEW t \in Threads, NEW s \in Sessions, SendReview(t, s)
  PROVE  WorktreesInv' /\ Safe
<1> DEFINE list == Unsent(s)
<1>0. Types /\ CallTypes /\ ReviewInv /\ tree[s] \in Sessions
  BY DEF WorktreesInv, Types, SendReview, Reviewable
<1>1. /\ Reviewable(s) /\ Takes(t, "send", "send", s, tree[s], list)
      /\ again' = again \cup {c \in list : \E u \in Threads :
                                 call[u] # Idle /\ call[u].op = "send" /\ c \in call[u].arg}
      /\ UNCHANGED <<rowVars, diskVars, pump, points, comment, got>>
      /\ calls' \in 0 .. MaxCalls /\ UNCHANGED faults
  BY CountsKept DEF SendReview, countVars
<1>2. /\ list \subseteq Comments /\ list \in Args /\ "send" \in Ops \ Moves /\ "send" \in Ops
      /\ "send" \in PCs \ {"remove"} /\ "send" \notin Rewrites
  BY DEF Unsent, Args, Ops, Moves, PCs, Rewrites
<1>3. \A c \in list : comment[c] # NoComment /\ ~Settled(c)
  BY Distinct DEF Unsent, Settled, NoComment, Deleted
<1> HIDE DEF list
<1>4. again' \subseteq Comments
  BY <1>0, <1>1, <1>2 DEF Types
<1>5. Types' /\ PlaceInv' /\ UseInv' /\ Safe
  BY <1>1, <1>2, <1>4, ReviewBegins
<1>6. /\ call[t] = Idle /\ \A u \in Threads \ {t} : call'[u] = call[u]
      /\ call'[t].op = "send" /\ call'[t].pc = "send" /\ call'[t].arg = list
  BY <1>0, <1>1, <1>2, TakesCall
<1>7. comment' = comment /\ got' = got
  BY <1>1
<1>8. \A u \in Threads, c \in Comments :
         /\ u # t => (Carries(u, c)' <=> Carries(u, c)) /\ (Marking(u)' <=> Marking(u))
         /\ u = t => (Carries(u, c)' <=> c \in list) /\ ~Marking(u)' /\ ~Carries(u, c)
  BY <1>6, Distinct DEF Carries, Marking, Sending
<1>9. \A u \in Threads, c \in list : Carries(u, c) => c \in again'
  BY <1>1, Distinct DEF Carries, Sending
<1>10. again \subseteq again'
  BY <1>1
<1>11. ListedOK'
  BY <1>0, <1>3, <1>7, <1>8 DEF ReviewInv, ListedOK
<1>12. CarriedOK'
  <2> SUFFICES ASSUME NEW u \in Threads, NEW c \in Comments, Carries(u, c)', c \notin again'
               PROVE  /\ \A v \in Threads : Carries(v, c)' => v = u
                      /\ ~Marking(u)' => got'[c] = 0
    BY DEF CarriedOK
  <2>1. CASE u = t
    <3>1. c \in list /\ \A v \in Threads : ~Carries(v, c)
      BY <1>8, <1>9, <2>1
    <3>2. got[c] = 0
      BY <1>0, <1>3, <1>10, <3>1 DEF ReviewInv, CountedOK
    <3> QED
      BY <1>7, <1>8, <2>1, <3>1, <3>2
  <2>2. CASE u # t
    <3>1. Carries(u, c) /\ c \notin list
      BY <1>8, <1>9, <2>2
    <3> QED
      BY <1>0, <1>7, <1>8, <1>10, <2>2, <3>1 DEF ReviewInv, CarriedOK
  <2> QED
    BY <2>1, <2>2
<1>13. CountedOK'
  <2>1. \A c \in Comments : Settled(c)' <=> Settled(c)
    BY <1>7 DEF Settled
  <2> QED
    BY <1>0, <1>7, <1>8, <1>10, <2>1 DEF ReviewInv, CountedOK
<1>14. SentMeansDelivered'
  BY <1>0, <1>7 DEF ReviewInv, SentMeansDelivered
<1> QED
  BY <1>5, <1>11, <1>12, <1>13, <1>14 DEF WorktreesInv, ReviewInv

\* A call ends that is not to mark anything, or whose comments are set aside.
LEMMA ReviewEnds ==
  ASSUME WorktreesAssumption, WorktreesInv, NEW t \in Threads, Sending(t), Ends(t),
         again' \subseteq Comments, again \subseteq again', Marking(t) => call[t].arg \subseteq again',
         UNCHANGED <<comment, got>>
  PROVE  ReviewInv'
<1>0. Types /\ CallTypes /\ ReviewInv
  BY DEF WorktreesInv, Types
<1>1. call'[t] = Idle /\ \A u \in Threads \ {t} : call'[u] = call[u]
  BY <1>0, EndsCalm
<1>2. \A u \in Threads, c \in Comments :
         /\ u # t => (Carries(u, c)' <=> Carries(u, c)) /\ (Marking(u)' <=> Marking(u))
         /\ u = t => ~Carries(u, c)'
  BY <1>1, Distinct DEF Carries, Marking, Sending
<1>3. ListedOK'
  BY <1>0, <1>2 DEF ReviewInv, ListedOK
<1>4. CarriedOK'
  BY <1>0, <1>2 DEF ReviewInv, CarriedOK
<1>5. CountedOK'
  <2> SUFFICES ASSUME NEW c \in Comments, c \notin again', got[c] # 0
               PROVE  got[c] = 1 /\ (Settled(c)' \/ \E u \in Threads : Carries(u, c)' /\ Marking(u)')
    BY DEF CountedOK
  <2>1. got[c] = 1 /\ (Settled(c) \/ \E u \in Threads : Carries(u, c) /\ Marking(u))
    BY <1>0 DEF ReviewInv, CountedOK
  <2>2. CASE Settled(c)
    BY <2>1, <2>2 DEF Settled
  <2>3. CASE \E u \in Threads : Carries(u, c) /\ Marking(u)
    <3>1. PICK u \in Threads : Carries(u, c) /\ Marking(u)
      BY <2>3
    <3>2. u # t
      BY <3>1 DEF Carries
    <3> QED
      BY <1>2, <2>1, <3>1, <3>2
  <2> QED
    BY <2>1, <2>2, <2>3
<1>6. SentMeansDelivered'
  BY <1>0 DEF ReviewInv, SentMeansDelivered
<1> QED
  BY <1>3, <1>4, <1>5, <1>6 DEF ReviewInv

\* What ends a review and leaves rows and worktrees alone keeps the rest.
LEMMA RestKept ==
  ASSUME WorktreesAssumption, WorktreesInv,
         CallTypes', Calm, Held, UNCHANGED <<rowVars, diskVars, pump, points, calls>>,
         comment' \in [Comments -> {NoComment, Deleted} \cup Written], got' \in [Comments -> Nat],
         again' \subseteq Comments, faults' \in 0 .. MaxFaults
  PROVE  Types' /\ PlaceInv' /\ UseInv' /\ Safe
<1>0. Types /\ DiskTypes /\ GrownOK
  BY DEF WorktreesInv, PlaceInv, Types
<1>1. DiskTypes' /\ GrownOK' /\ DiskCalm /\ Safe
  BY <1>0, StillDisk
<1>2. RowsCalm /\ UseCalm /\ ShownOK'
  BY StillRows, StillShown
<1>3. Types'
  BY <1>0, <1>1 DEF Types, rowVars
<1>4. NewOK' /\ StartOK' /\ CreateOK' /\ UseInv'
  BY <1>1, <1>2, PlacesKept, UsesKept DEF WorktreesInv
<1> QED
  BY <1>1, <1>3, <1>4 DEF PlaceInv

\* The message of a review goes out, and it is to mark what it carries.
LEMMA MessageOut ==
  ASSUME WorktreesInv, NEW t \in Threads, Sending(t), ~Marking(t),
         call'[t].op = call[t].op, call'[t].arg = call[t].arg, call'[t].pc = "mark",
         \A u \in Threads \ {t} : call'[u] = call[u] \/ (Alike(u) /\ call'[u].pc = call[u].pc),
         got' = [c \in Comments |-> got[c] + IF c \in call[t].arg THEN 1 ELSE 0],
         UNCHANGED <<comment, again>>
  PROVE  ReviewInv' /\ got' \in [Comments -> Nat]
<1>0. Types /\ ReviewInv
  BY DEF WorktreesInv
<1>1. Sending(t) /\ ~Marking(t) /\ call'[t].op = call[t].op /\ call'[t].arg = call[t].arg /\ call'[t].pc = "mark"
  OBVIOUS
<1>2. /\ call'[t].op = call[t].op /\ call'[t].arg = call[t].arg
      /\ \A u \in Threads \ {t} : call'[u] = call[u] \/ (Alike(u) /\ call'[u].pc = call[u].pc)
  OBVIOUS
<1>3. comment' = comment /\ again' = again
  OBVIOUS
<1>11. \A c \in Comments : got[c] \in Nat /\ got'[c] = IF c \in call[t].arg THEN got[c] + 1 ELSE got[c]
  BY <1>0 DEF Types
<1>12. got' \in [Comments -> Nat]
  BY <1>0 DEF Types
<1>14. \A u \in Threads, c \in Comments :
          /\ Carries(u, c)' <=> Carries(u, c)
          /\ u # t => (Marking(u)' <=> Marking(u))
  BY <1>2 DEF Carries, Marking, Sending, Alike
<1>15. Marking(t)' /\ \A c \in Comments : Carries(t, c) <=> c \in call[t].arg
  BY <1>1 DEF Marking, Sending, Carries, Alike
<1>16. ListedOK'
  BY <1>0, <1>3, <1>11, <1>14, <1>15 DEF ReviewInv, ListedOK
<1>17. CarriedOK'
  <2> SUFFICES ASSUME NEW u \in Threads, NEW c \in Comments, Carries(u, c)', c \notin again'
               PROVE  /\ \A v \in Threads : Carries(v, c)' => v = u
                      /\ ~Marking(u)' => got'[c] = 0
    BY DEF CarriedOK
  <2>1. Carries(u, c) /\ \A v \in Threads : Carries(v, c) => v = u
    BY <1>0, <1>3, <1>14 DEF ReviewInv, CarriedOK
  <2>2. ~Marking(u)' => got'[c] = 0
    BY <1>0, <1>3, <1>11, <1>14, <1>15, <2>1 DEF ReviewInv, CarriedOK
  <2> QED
    BY <1>14, <2>1, <2>2
<1>18. CountedOK'
  <2> SUFFICES ASSUME NEW c \in Comments, c \notin again', got'[c] # 0
               PROVE  got'[c] = 1 /\ (Settled(c)' \/ \E u \in Threads : Carries(u, c)' /\ Marking(u)')
    BY DEF CountedOK
  <2>1. CASE c \in call[t].arg
    <3>1. Carries(t, c) /\ got[c] = 0
      BY <1>0, <1>1, <1>3, <1>15, <2>1 DEF ReviewInv, CarriedOK
    <3> QED
      BY <1>11, <1>14, <1>15, <2>1, <3>1
  <2>2. CASE c \notin call[t].arg
    <3>1. got[c] = 1 /\ (Settled(c) \/ \E u \in Threads : Carries(u, c) /\ Marking(u))
      BY <1>0, <1>3, <1>11, <2>2 DEF ReviewInv, CountedOK
    <3>2. Settled(c) => Settled(c)'
      BY <1>3 DEF Settled
    <3> QED
      BY <1>11, <1>14, <1>15, <2>2, <3>1, <3>2
  <2> QED
    BY <2>1, <2>2
<1>19. SentMeansDelivered'
  BY <1>0, <1>3, <1>11 DEF ReviewInv, SentMeansDelivered
<1> QED
  BY <1>12, <1>16, <1>17, <1>18, <1>19 DEF ReviewInv

LEMMA DeliverKeeps ==
  ASSUME WorktreesAssumption, WorktreesInv, NEW t \in Threads, Deliver(t)
  PROVE  WorktreesInv' /\ Safe
<1> DEFINE s == call[t].on
           p == tree[s]
<1>0. Types /\ DiskTypes /\ CallTypes /\ GrownOK /\ ReviewInv
  BY DEF WorktreesInv, PlaceInv, Types
<1>1. call[t] # Idle /\ Sending(t) /\ ~Marking(t) /\ call[t].op = "send"
  BY DEF Deliver, At, Sending, Marking
<1>2. s \in Sessions /\ call[t] \in Calls /\ call[t].arg \subseteq Comments
  BY <1>0, <1>1 DEF CallTypes, Calls
<1>3. UNCHANGED <<tree, diskVars, pump, points, comment, again, calls>>
  BY DEF Deliver
<1>10. DiskTypes' /\ GrownOK' /\ DiskCalm /\ Safe
  BY <1>0, <1>3, StillDisk
<1>4. CASE Ends(t) /\ UNCHANGED <<state, turn, got>> /\ faults' \in 0 .. MaxFaults
  <2>1. CallTypes' /\ Calm /\ Held
    BY <1>0, <1>4, EndsCalm
  <2>2. ReviewInv'
    BY <1>0, <1>1, <1>3, <1>4, ReviewEnds DEF Types
  <2>3. Types' /\ PlaceInv' /\ UseInv' /\ Safe
    BY <1>0, <1>3, <1>4, <2>1, RestKept DEF Types, rowVars
  <2> QED
    BY <2>2, <2>3 DEF WorktreesInv
<1>5. CASE /\ turn[s] = "none" /\ Present(p) /\ turn' = [turn EXCEPT ![s] = "work"]
           /\ state' = [state EXCEPT ![s] = "running"]
           /\ call' = [u \in Threads |->
                 CASE u = t -> [call[t] EXCEPT !.pc = "mark"]
                   [] u # t /\ call[u] # Idle /\ call[u].at = p
                           -> [call[u] EXCEPT !.late = call[u].late \cup {s}]
                   [] OTHER -> call[u]]
           /\ got' = [c \in Comments |-> got[c] + IF c \in call[t].arg THEN 1 ELSE 0]
           /\ UNCHANGED faults
  <2>1. p \in Sessions /\ p # None
    BY <1>0, <1>2, <1>5 DEF Present, Types
  <2>2. call'[t] \in Calls /\ Alike(t) /\ call'[t].pc = "mark"
    <3> DEFINE k == call[t]
               n == [op |-> k.op, pc |-> "mark", on |-> k.on, at |-> k.at, arg |-> k.arg, late |-> k.late]
    <3>1. call'[t] = n /\ n \in Calls
      BY <1>2, <1>5 DEF Calls, PCs
    <3> QED
      BY <1>1, <3>1, Distinct DEF Alike
  <2>3. ASSUME NEW u \in Threads \ {t}
        PROVE  /\ call'[u] \in {Idle} \cup Calls
               /\ call'[u] = call[u] \/ (Alike(u) /\ call'[u].pc = call[u].pc)
               /\ call'[u] # Idle /\ call'[u].at = p => s \in call'[u].late
    <3>1. CASE call[u] # Idle /\ call[u].at = p
      <4> DEFINE k == call[u]
                 n == [op |-> k.op, pc |-> k.pc, on |-> k.on, at |-> k.at, arg |-> k.arg,
                       late |-> k.late \cup {s}]
      <4>1. k \in Calls
        BY <1>0, <3>1 DEF CallTypes
      <4>2. call'[u] = n /\ n \in Calls
        BY <1>2, <1>5, <3>1, <4>1 DEF Calls
      <4> QED
        BY <3>1, <4>1, <4>2, Distinct DEF Alike
    <3>2. CASE ~(call[u] # Idle /\ call[u].at = p)
      <4>1. call'[u] = call[u]
        BY <1>5, <3>2
      <4> QED
        BY <1>0, <3>2, <4>1 DEF CallTypes
    <3> QED
      BY <3>1, <3>2
  <2>4. call' \in [Threads -> {Idle} \cup Calls]
    <3>1. call' = [u \in Threads |-> call'[u]]
      BY <1>5
    <3> QED
      BY <2>2, <2>3, <3>1
  <2>5. CallTypes'
    BY <1>0, <1>1, <1>2, <2>2, <2>3, <2>4, Distinct DEF CallTypes, Alike
  <2>6. Calm
    BY <2>2, <2>3 DEF Calm, Alike
  <2>7. Came(s, p) /\ Held
    BY <1>1, <2>2, <2>3, Distinct DEF Came, Alike, Held, Removing
  <2>8. /\ state'[s] = "running" /\ turn'[s] = "work"
        /\ \A x \in Sessions : x # s => state'[x] = state[x] /\ turn'[x] = turn[x]
    BY <1>0, <1>2, <1>5 DEF Types
  <2>9. RowsCalm /\ UseCalm
    BY <1>3, <2>1, <2>7, <2>8 DEF RowsCalm, UseCalm, Shown
  <2>10. ShownOK'
    BY <1>3, <2>8 DEF WorktreesInv, UseInv, ShownOK, Shown
  <2>11. ReviewInv' /\ got' \in [Comments -> Nat]
    <3>1. call'[t].op = call[t].op /\ call'[t].arg = call[t].arg /\ call'[t].pc = "mark"
      BY <2>2 DEF Alike
    <3>2. \A u \in Threads \ {t} : call'[u] = call[u] \/ (Alike(u) /\ call'[u].pc = call[u].pc)
      BY <2>3
    <3> QED
      BY <1>1, <1>3, <1>5, <3>1, <3>2, MessageOut
  <2>12. Types'
    <3>1. state' \in [Sessions -> States] /\ turn' \in [Sessions -> Turns]
      BY <1>0, <1>5 DEF Types, States, InUse, Turns
    <3> QED
      BY <1>0, <1>3, <1>5, <1>10, <2>5, <2>11, <3>1 DEF Types
  <2>13. NewOK' /\ StartOK' /\ CreateOK' /\ UseInv'
    BY <2>6, <2>7, <2>9, <2>10, <1>0, <1>10, PlacesKept, UsesKept DEF WorktreesInv
  <2> QED
    BY <1>10, <2>11, <2>12, <2>13 DEF WorktreesInv, PlaceInv
<1>8. CASE /\ turn[s] \notin {"none", "dead"}
           /\ turn' = [turn EXCEPT ![s] = IF turn[s] = "idle" THEN "work" ELSE turn[s]]
           /\ got' = [c \in Comments |-> got[c] + IF c \in call[t].arg THEN 1 ELSE 0]
           /\ Goes(t, "mark") /\ UNCHANGED <<state, faults>>
  <2>1. "mark" \in PCs /\ "mark" # "remove"
    BY DEF PCs
  <2>2. /\ CallTypes' /\ Calm /\ Held /\ Alike(t) /\ call'[t].pc = "mark"
        /\ \A u \in Threads \ {t} : call'[u] = call[u]
    BY <1>0, <1>1, <1>8, <2>1, GoesCalm
  <2>3. /\ turn'[s] \in {turn[s], "work"} /\ turn'[s] # "none" /\ turn[s] # "none"
        /\ \A x \in Sessions : x # s => turn'[x] = turn[x]
    BY <1>0, <1>2, <1>8 DEF Types
  <2>4. RowsCalm /\ UseCalm
    BY <1>3, <1>8, <2>3 DEF RowsCalm, UseCalm, Shown
  <2>5. ShownOK'
    BY <1>3, <1>8, <2>3 DEF WorktreesInv, UseInv, ShownOK, Shown
  <2>6. ReviewInv' /\ got' \in [Comments -> Nat]
    BY <1>1, <1>3, <1>8, <2>2, MessageOut DEF Alike
  <2>7. Types'
    <3>1. turn' \in [Sessions -> Turns]
      BY <1>0, <1>2, <1>8 DEF Types, Turns
    <3> QED
      BY <1>0, <1>3, <1>8, <1>10, <2>2, <2>6, <3>1 DEF Types
  <2>8. NewOK' /\ StartOK' /\ CreateOK' /\ UseInv'
    BY <2>2, <2>4, <2>5, <1>0, <1>10, PlacesKept, UsesKept DEF WorktreesInv
  <2> QED
    BY <1>10, <2>6, <2>7, <2>8 DEF WorktreesInv, PlaceInv
<1>6. CASE Ends(t) /\ UNCHANGED <<state, turn, got, faults>>
  <2>1. faults' \in 0 .. MaxFaults
    BY <1>0, <1>6 DEF Types
  <2> QED
    BY <1>4, <1>6, <2>1
<1>7. CASE Fails /\ Ends(t) /\ UNCHANGED <<state, turn, got>>
  BY <1>4, <1>7, CountsKept
<1> QED
  BY <1>5, <1>6, <1>7, <1>8 DEF Deliver

LEMMA MarkSentKeeps ==
  ASSUME WorktreesAssumption, WorktreesInv, NEW t \in Threads, MarkSent(t)
  PROVE  WorktreesInv' /\ Safe
<1>0. Types /\ CallTypes /\ ReviewInv
  BY DEF WorktreesInv, Types
<1>1. Sending(t) /\ Marking(t) /\ Ends(t) /\ call[t].op = "send"
  BY DEF MarkSent, At, Sending, Marking
<1>2. call[t].arg \subseteq Comments
  BY <1>0, <1>1 DEF CallTypes
<1>3. UNCHANGED <<rowVars, diskVars, pump, points, got, calls>>
  BY DEF MarkSent
<1>4. CallTypes' /\ Calm /\ Held /\ call'[t] = Idle /\ \A u \in Threads \ {t} : call'[u] = call[u]
  BY <1>0, <1>1, EndsCalm
<1>5. CASE Fails /\ again' = again \cup call[t].arg /\ UNCHANGED comment
  <2>1. again' \subseteq Comments /\ faults' \in 0 .. MaxFaults
    BY <1>0, <1>2, <1>5 DEF Types, Fails, WorktreesAssumption
  <2>2. ReviewInv'
    BY <1>1, <1>3, <1>5, <2>1, ReviewEnds
  <2>3. Types' /\ PlaceInv' /\ UseInv' /\ Safe
    BY <1>0, <1>3, <1>4, <1>5, <2>1, RestKept DEF Types
  <2> QED
    BY <2>2, <2>3 DEF WorktreesInv
<1>6. CASE /\ comment' = [c \in Comments |-> IF c \in ToMark(t)
                             THEN [comment[c] EXCEPT !.sent = TRUE] ELSE comment[c]]
           /\ UNCHANGED <<faults, again>>
  <2>1. ASSUME NEW c \in Comments
        PROVE  /\ c \in call[t].arg /\ comment[c] \in Written
                     => comment'[c] \in Written /\ comment'[c].sent
               /\ ~(c \in call[t].arg /\ comment[c] \in Written) => comment'[c] = comment[c]
    BY <1>6 DEF ToMark, Written
  <2>2. comment' \in [Comments -> {NoComment, Deleted} \cup Written]
    <3>1. comment' = [c \in Comments |-> comment'[c]]
      BY <1>6
    <3> QED
      BY <1>0, <2>1, <3>1 DEF Types
  <2>3. Types' /\ PlaceInv' /\ UseInv' /\ Safe
    BY <1>0, <1>3, <1>4, <1>6, <2>2, RestKept DEF Types
  <2>4. \A u \in Threads, c \in Comments :
           /\ u # t => (Carries(u, c)' <=> Carries(u, c)) /\ (Marking(u)' <=> Marking(u))
           /\ u = t => ~Carries(u, c)'
    BY <1>4, Distinct DEF Carries, Marking, Sending
  <2>5. \A c \in Comments : Carries(t, c) <=> c \in call[t].arg
    BY <1>1 DEF Carries, Sending
  <2>6. \A c \in Comments : comment[c] # NoComment => comment'[c] # NoComment
    BY <1>0, <2>1, Distinct
  <2>7. ListedOK'
    BY <1>0, <1>3, <2>4, <2>6 DEF ReviewInv, ListedOK
  <2>8. CarriedOK'
    BY <1>0, <1>3, <1>6, <2>4 DEF ReviewInv, CarriedOK
  <2>9. CountedOK'
    <3> SUFFICES ASSUME NEW c \in Comments, c \notin again', got'[c] # 0
                 PROVE  got'[c] = 1 /\ (Settled(c)' \/ \E u \in Threads : Carries(u, c)' /\ Marking(u)')
      BY DEF CountedOK
    <3>1. got[c] = 1 /\ (Settled(c) \/ \E u \in Threads : Carries(u, c) /\ Marking(u))
      BY <1>0, <1>3, <1>6 DEF ReviewInv, CountedOK
    <3>2. CASE Settled(c)
      BY <1>3, <2>1, <3>1, <3>2 DEF Settled
    <3>3. CASE c \in call[t].arg
      <4>1. comment[c] # NoComment
        BY <1>0, <2>5, <3>3 DEF ReviewInv, ListedOK
      <4>2. comment[c] = Deleted \/ comment[c] \in Written
        BY <1>0, <4>1 DEF Types
      <4>3. Settled(c)'
        BY <2>1, <3>3, <4>2, Distinct DEF Settled
      <4> QED
        BY <1>3, <3>1, <4>3
    <3>4. CASE c \notin call[t].arg /\ ~Settled(c)
      <4>1. PICK u \in Threads : Carries(u, c) /\ Marking(u)
        BY <3>1, <3>4
      <4> QED
        BY <1>3, <2>4, <2>5, <3>1, <3>4, <4>1
    <3> QED
      BY <3>2, <3>3, <3>4
  <2>10. SentMeansDelivered'
    <3> SUFFICES ASSUME NEW c \in Comments, comment'[c] \in Written, comment'[c].sent
                 PROVE  got'[c] > 0
      BY DEF SentMeansDelivered
    <3>1. CASE c \in call[t].arg
      BY <1>0, <1>1, <1>3, <2>5, <3>1 DEF ReviewInv, ListedOK
    <3>2. CASE c \notin call[t].arg
      BY <1>0, <1>3, <2>1, <3>2 DEF ReviewInv, SentMeansDelivered
    <3> QED
      BY <3>1, <3>2
  <2> QED
    BY <2>3, <2>7, <2>8, <2>9, <2>10 DEF WorktreesInv, ReviewInv
<1> QED
  BY <1>5, <1>6 DEF MarkSent

LEMMA RestartKeeps ==
  ASSUME WorktreesAssumption, WorktreesInv, Restart
  PROVE  WorktreesInv' /\ Safe
<1>0. Types /\ DiskTypes /\ CallTypes /\ GrownOK /\ ReviewInv
  BY DEF WorktreesInv, PlaceInv, Types
<1>1. UNCHANGED <<tree, diskVars, points, comment, got, calls>>
  BY DEF Restart
<1>2. \A u \in Threads : call'[u] = Idle
  BY DEF Restart
<1>3. CallTypes' /\ Calm /\ Held
  BY <1>2, Distinct DEF Restart, CallTypes, Calm, Held, Removing
<1>4. DiskTypes' /\ GrownOK' /\ DiskCalm /\ Safe
  BY <1>0, <1>1, StillDisk
<1>5. \A x \in Sessions : state'[x] = IF state[x] \in InUse THEN "closed" ELSE state[x]
  BY DEF Restart
<1>17. \A x \in Sessions : turn'[x] = "none"
  BY DEF Restart
<1>6. RowsCalm /\ UseCalm /\ ShownOK'
  BY <1>1, <1>5, <1>17 DEF RowsCalm, UseCalm, InUse, Shown, ShownOK
<1>7. state' \in [Sessions -> States] /\ turn' \in [Sessions -> Turns]
  BY <1>0 DEF Restart, Types, States, Turns
<1>8. pump' \in [Sessions -> Pumps]
  BY DEF Restart, Pumps
<1>9. \A u \in Threads : Marking(u) => call[u].arg \subseteq again'
  BY Distinct DEF Restart, At, Marking, Sending
<1>10. again \subseteq again' /\ again' \subseteq Comments
  <2>1. \A u \in Threads : At(u, "send", "mark") => call[u].arg \subseteq Comments
    BY <1>0 DEF CallTypes, At
  <2> QED
    BY <1>0, <2>1 DEF Restart, Types
<1>11. Types'
  BY <1>0, <1>1, <1>3, <1>4, <1>7, <1>8, <1>10 DEF Types, Restart, Fails, WorktreesAssumption
<1>12. NewOK' /\ StartOK' /\ CreateOK' /\ UseInv'
  BY <1>0, <1>3, <1>4, <1>6, PlacesKept, UsesKept DEF WorktreesInv
<1>13. \A u \in Threads, c \in Comments : ~Carries(u, c)'
  BY <1>2, Distinct DEF Carries, Sending
<1>14. ListedOK' /\ CarriedOK'
  BY <1>13 DEF ListedOK, CarriedOK
<1>15. CountedOK'
  <2>1. \A c \in Comments : Settled(c)' <=> Settled(c)
    BY <1>1 DEF Settled
  <2>2. \A u \in Threads, c \in Comments : Carries(u, c) /\ Marking(u) => c \in again'
    BY <1>9 DEF Carries
  <2> QED
    BY <1>0, <1>1, <1>10, <2>1, <2>2 DEF ReviewInv, CountedOK
<1>16. SentMeansDelivered'
  BY <1>0, <1>1 DEF ReviewInv, SentMeansDelivered
<1> QED
  BY <1>4, <1>11, <1>12, <1>14, <1>15, <1>16 DEF WorktreesInv, PlaceInv, ReviewInv

-----------------------------------------------------------------------------
(* The theorems. *)

LEMMA InitHolds ==
  ASSUME WorktreesAssumption, WorktreesInit
  PROVE  WorktreesInv
<1> USE DEF WorktreesInit
<1>1. \A t \in Threads : call[t] = Idle
  OBVIOUS
<1>2. Types
  BY <1>1, Distinct DEF Types, DiskTypes, CallTypes, States, Turns, Pumps, WorktreesAssumption
<1>3. PlaceInv
  BY <1>1, Distinct DEF PlaceInv, NewOK, StartOK, CreateOK, GrownOK, Moves, WorktreesAssumption
<1>4. UseInv
  BY <1>1, Distinct DEF UseInv, RemoveOK, TurnOK, GoneOK, ShownOK, Removing, Rewrites, Shown
<1>5. ReviewInv
  BY <1>1, Distinct DEF ReviewInv, ListedOK, CarriedOK, CountedOK, SentMeansDelivered, Carries, Sending
<1> QED
  BY <1>2, <1>3, <1>4, <1>5 DEF WorktreesInv

LEMMA StepKeeps ==
  ASSUME WorktreesAssumption, WorktreesInv, [WorktreesNext]_worktreeVars
  PROVE  WorktreesInv' /\ Safe
<1>1. ASSUME NEW t \in Threads, NEW s \in Sessions,
             \/ Create(t, s) \/ \E p \in Sessions : Attach(t, s, p)
             \/ handleSessionCommit(t, s) \/ handleSessionRewind(t, s) \/ handleSessionDiscard(t, s)
             \/ handleReviewSend(t, s)
      PROVE  WorktreesInv' /\ Safe
  BY <1>1, CreateKeeps, AttachKeeps, CommitKeeps, RewindKeeps, DiscardKeeps, SendReviewKeeps
     DEF handleSessionCommit, handleSessionRewind, handleSessionDiscard, handleReviewSend
<1>2. ASSUME NEW s \in Sessions, handleReviewCommentCreate(s) \/ handleReviewCommentDelete(s)
      PROVE  WorktreesInv' /\ Safe
  BY <1>2, AddCommentKeeps, DeleteCommentKeeps DEF handleReviewCommentCreate, handleReviewCommentDelete
<1>3. ASSUME NEW t \in Threads, AddWorktree(t) \/ SetWorktree(t) \/ AttachSet(t)
      PROVE  WorktreesInv' /\ Safe
  BY <1>3, AddWorktreeKeeps, SetWorktreeKeeps, AttachSetKeeps
<1>4. ASSUME NEW t \in Threads,
             CommitReset(t) \/ CommitEnds(t) \/ RewindReset(t) \/ RewindClean(t)
      PROVE  WorktreesInv' /\ Safe
  BY <1>4, CommitResetKeeps, CommitEndsKeeps, RewindResetKeeps, RewindCleanKeeps
<1>5. ASSUME NEW t \in Threads,
             \/ CloseFirst(t) \/ RemoveWorktree(t) \/ ClearRow(t)
             \/ Deliver(t) \/ MarkSent(t)
      PROVE  WorktreesInv' /\ Safe
  BY <1>5, CloseFirstKeeps, RemoveWorktreeKeeps, ClearRowKeeps, DeliverKeeps, MarkSentKeeps
<1>6. ASSUME NEW s \in Sessions, NEW f \in Files, AgentEdits(s, f)
      PROVE  WorktreesInv' /\ Safe
  BY <1>6, AgentEditsKeeps
<1>7. ASSUME NEW s \in Sessions,
             \/ Uses(s) \/ Asks(s) \/ Answers(s) \/ Overwrites(s)
             \/ TurnEnds(s) \/ Checkpoint(s) \/ Record(s) \/ Opens(s)
      PROVE  WorktreesInv' /\ Safe
  BY <1>7, UsesKeeps, AsksKeeps, OverwritesKeeps, TurnEndsKeeps, CheckpointKeeps, RecordKeeps,
     OpensKeeps
<1>8. ASSUME NEW s \in Sessions,
             ChildEnds(s) \/ handleExit(s) \/ Closes(s) \/ Send(s) \/ Resume(s)
      PROVE  WorktreesInv' /\ Safe
  BY <1>8, ChildEndsKeeps, handleExitKeeps, ClosesKeeps, SendKeeps, ResumeKeeps
<1>9. CASE UNCHANGED worktreeVars
  <2>0. Types /\ DiskTypes /\ CallTypes /\ GrownOK
    BY DEF WorktreesInv, PlaceInv, Types
  <2>1. UNCHANGED <<rowVars, reviewVars, call, diskVars>> /\ UNCHANGED <<pump, points, calls, faults>>
    BY <1>9 DEF worktreeVars, rowVars, reviewVars, diskVars
  <2>2. CallTypes' /\ Calm /\ Quiet /\ Held /\ RowsCalm /\ UseCalm /\ ShownOK'
    BY <2>0, <2>1, StillCalm, StillRows, StillShown
  <2>3. DiskTypes' /\ GrownOK' /\ DiskCalm /\ Safe
    BY <2>0, <2>1, StillDisk
  <2>4. Types'
    BY <2>0, <2>1, <2>2, <2>3 DEF Types, rowVars, reviewVars
  <2> QED
    BY <2>1, <2>2, <2>3, <2>4, GentleKeeps
<1> QED
  BY <1>1, <1>2, <1>3, <1>4, <1>5, <1>6, <1>7, <1>8, <1>9, RestartKeeps DEF WorktreesNext

\* Where each worktree lies and who may be in it, what each call has still to
\* do, and how often each comment went out (worktree.go, review_actions.go,
\* review.go).
THEOREM WorktreesInvHolds == WorktreesSpec => []WorktreesInv
<1>1. WorktreesInit => WorktreesInv
  BY InitHolds, WorktreesAssumption
<1>2. WorktreesInv /\ [WorktreesNext]_worktreeVars => WorktreesInv'
  BY StepKeeps, WorktreesAssumption
<1> QED
  BY <1>1, <1>2, PTL DEF WorktreesSpec

LEMMA TypesSuffice ==
  ASSUME WorktreesAssumption, Types
  PROVE  WorktreesTypeOK
<1>1. \A p \in Sessions : disk[p] = NoTree \/ disk[p] \in Checkout
  BY BoundedHeads DEF Types, DiskTypes, WorktreesAssumption
<1>2. \A s \in Sessions : pump[s].at \in {"none", "commit", "record", "open"}
  BY DEF Types, Pumps
<1>3. \A t \in Threads : call[t] # Idle =>
         /\ call[t].op \in {"create", "attach", "commit", "rewind", "discard", "send"}
         /\ call[t].on \in Sessions /\ call[t].at \in Sessions /\ call[t].late \subseteq Sessions
  BY DEF Types, CallTypes, Calls, Ops
<1>4. \A cp \in points : cp[1] \in Sessions /\ cp[2] \in Seq(Commits)
  BY DEF Types
<1> QED
  BY <1>1, <1>2, <1>3, <1>4 DEF Types, DiskTypes, WorktreesTypeOK

\* SendReview and MarkSent: what is marked sent was delivered, and once,
\* however reviews, comments, turns and restarts interleave.
THEOREM ReviewsAreTrue == WorktreesSpec => []ReviewOK
<1>1. WorktreesInv => ReviewOK
  <2> SUFFICES ASSUME WorktreesInv PROVE ReviewOK
    OBVIOUS
  <2>1. WorktreesTypeOK
    BY TypesSuffice, WorktreesAssumption DEF WorktreesInv
  <2>2. SentMeansDelivered
    BY DEF WorktreesInv, ReviewInv
  <2>3. DeliveredOnce
    BY DEF DeliveredOnce, WorktreesInv, ReviewInv, CountedOK
  <2> QED
    BY <2>1, <2>2, <2>3 DEF ReviewOK
<1> QED
  BY <1>1, WorktreesInvHolds, PTL

\* Commit folds, checkpoints and restarts lose no file: one leaves a worktree
\* only in a step of Rewind or Discard, or after an agent has deleted it, and
\* then the fold of a Commit keeps it as long as it is at work
\* (gitops/checkpoint.go).
THEOREM WorkIsKept == WorktreesSpec => NothingLost
<1>1. WorktreesInv /\ [WorktreesNext]_worktreeVars =>
        [\A p \in Sessions : \A f \in Holds(disk[p]) \ Holds(disk'[p]) :
           \/ \E t \in Threads : Steps(t, "rewind", p) \/ Steps(t, "discard", p)
           \/ f \in dropped'[p] /\ (f \in disk[p].work => UNCHANGED <<call, pump>>)]_worktreeVars
  BY StepKeeps, WorktreesAssumption DEF Safe
<1> QED
  BY <1>1, WorktreesInvHolds, PTL DEF WorktreesSpec, NothingLost

\* What busy, CountByWorktree and closeLiveProcess have found holds until the
\* worktree is rewritten or removed, but for a session, a turn or a process that
\* came after them.
THEOREM ChecksStillHold == WorktreesSpec => LeftAlone
<1>1. WorktreesInv => \A t \in Threads : At(t, "discard", "remove") =>
         \A s \in Sessions :
            /\ s = call[t].on /\ turn[s] # "none" => s \in call[t].late
            /\ s # call[t].on /\ tree[s] = call[t].at /\ state[s] \in InUse => s \in call[t].late
  BY DEF At, WorktreesInv, UseInv, RemoveOK, GoneOK, Removing
<1>2. WorktreesInv => \A t \in Threads :
         (\E pc \in {"reset", "clean", "commit"} : At(t, "rewind", pc) \/ At(t, "commit", pc))
            => turn[call[t].on] \notin Shown \/ call[t].on \in call[t].late
  BY DEF At, WorktreesInv, UseInv, TurnOK, Rewrites
<1>3. WorktreesInv => [\A t \in Threads : (At(t, "discard", "remove") /\ disk' # disk) =>
          \A s \in Sessions :
             /\ s = call[t].on /\ turn[s] # "none" => s \in call[t].late
             /\ s # call[t].on /\ tree[s] = call[t].at /\ state[s] \in InUse
                  => s \in call[t].late]_worktreeVars
  BY <1>1
<1>4. WorktreesInv => [\A t \in Threads :
          (\E pc \in {"reset", "clean", "commit"} : At(t, "rewind", pc) \/ At(t, "commit", pc))
             /\ disk' # disk /\ call'[t] # call[t]
          => turn[call[t].on] \notin Shown \/ call[t].on \in call[t].late]_worktreeVars
  BY <1>2
<1>5. WorktreesSpec => RemovedNotInUse
  BY <1>3, WorktreesInvHolds, PTL DEF RemovedNotInUse
<1>6. WorktreesSpec => NotMidTurn
  BY <1>4, WorktreesInvHolds, PTL DEF NotMidTurn
<1> QED
  BY <1>5, <1>6 DEF LeftAlone
=============================================================================
