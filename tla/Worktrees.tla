----------------------------- MODULE Worktrees ------------------------------
(***************************************************************************)
(* The git worktree a session works in, and the review of its changes      *)
(* (internal/sessions worktree.go, review.go, review_actions.go, over      *)
(* internal/gitops).  The agent creates, changes and deletes files in its  *)
(* turns; the pump commits a checkpoint after each; a reviewer commits,    *)
(* rewinds or discards the work and sends comments, each a call whose      *)
(* checks and git commands are steps apart.  A turn and what the row says  *)
(* of it are apart too.  A pipeline's shared step puts several sessions in *)
(* one worktree.                                                           *)
(*                                                                         *)
(* Each git command is one step (external).  A file is a version of it: a  *)
(* change deletes one and creates another.  A commit is its files and its  *)
(* subject; a sha stands for the commits up to it, so equal histories have *)
(* equal shas.  The base commit is the empty history.  Branch names, diff  *)
(* counters, authors, pull requests, the text of comments, the index and   *)
(* ignored files, and sessions without a worktree are left out.            *)
(***************************************************************************)
EXTENDS Integers, Sequences, SequencesExt, FiniteSets

CONSTANTS Sessions,    \* of one workspace; also the names of their worktrees
          Threads,     \* calls in flight at a time
          Files,       \* versions of files that an agent may create
          Comments,    \* review comments that may be written
          MaxCommits,  \* bound: commits on top of the base
          MaxCalls,    \* bound: calls made; a review is bounded by its comments
          MaxFaults    \* bound: failed writes and restarts

None    == "none"
NoTree  == [tree |-> "none"]
Idle    == [op |-> "idle"]
InUse   == {"open", "running", "waiting"}  \* worktreeInUseStates
States  == InUse \cup {"none", "closed", "failed"}
\* A turn that the pump has put in the row: a tool use, a permission asked.
Shown   == {"seen", "asks"}
Turns   == Shown \cup {"none", "idle", "work", "dead"}

ASSUME WorktreesAssumption ==
    /\ {MaxCommits, MaxCalls, MaxFaults} \subseteq Nat
    /\ IsFiniteSet(Sessions) /\ None \notin Sessions

VARIABLES
    state,     \* session -> its state, "none" for no row
    tree,      \* session -> worktree its row names
    turn,      \* session -> what its process does, "dead" before the pump sees it
    disk,      \* worktree -> its branch and its files
    pump,      \* session -> what afterResult is at
    points,    \* checkpoints: <<session, sha>>
    comment,   \* comment -> session and whether sent_at is set
    got,       \* comment -> number of messages that carried it
    call,      \* thread -> its call
    calls, faults, \* number of calls and faults so far
    again,     \* history: comments whose mark was lost or sent twice at a time
    dropped    \* history: worktree -> files an agent has deleted in it

worktreeVars == <<state, tree, turn, disk, pump, points, comment, got, call, calls, faults,
                  again, dropped>>
rowVars      == <<state, tree, turn>>
diskVars     == <<disk, dropped>>
reviewVars   == <<comment, got, again>>
countVars    == <<calls, faults>>

Commits  == [subject : {"checkpoint", "commit"}, files : SUBSET Files]
Checkout == [head : BoundedSeq(Commits, MaxCommits), work : SUBSET Files]
Written  == [on : Sessions, sent : BOOLEAN]
NoComment == [on |-> "none"]
Deleted   == [on |-> "deleted"]

\* The type of the state: rows, worktrees, comments and what a call carries.
WorktreesTypeOK ==
    /\ state \in [Sessions -> States] /\ tree \in [Sessions -> Sessions \cup {None}]
    /\ turn \in [Sessions -> Turns] /\ dropped \in [Sessions -> SUBSET Files]
    /\ \A p \in Sessions : disk[p] = NoTree \/ disk[p] \in Checkout
    /\ \A s \in Sessions : pump[s].at \in {"none", "commit", "record", "open"}
    /\ \A cp \in points : cp[1] \in Sessions /\ cp[2] \in Seq(Commits)
    /\ \A c \in Comments : comment[c] \in {NoComment, Deleted} \/ comment[c] \in Written
    /\ got \in [Comments -> Nat] /\ again \subseteq Comments
    /\ \A t \in Threads : call[t] # Idle =>
          /\ call[t].op \in {"create", "attach", "commit", "rewind", "discard", "send"}
          /\ call[t].on \in Sessions /\ call[t].at \in Sessions /\ call[t].late \subseteq Sessions
    /\ calls \in 0 .. MaxCalls /\ faults \in 0 .. MaxFaults

WorktreesInit ==
    /\ state = [s \in Sessions |-> "none"] /\ tree = [s \in Sessions |-> None]
    /\ turn = [s \in Sessions |-> "none"] /\ dropped = [p \in Sessions |-> {}]
    /\ disk = [p \in Sessions |-> NoTree] /\ points = {}
    /\ pump = [s \in Sessions |-> [at |-> "none"]]
    /\ comment = [c \in Comments |-> NoComment] /\ got = [c \in Comments |-> 0]
    /\ call = [t \in Threads |-> Idle] /\ calls = 0 /\ faults = 0 /\ again = {}

-----------------------------------------------------------------------------
FilesOf(head) == IF head = <<>> THEN {} ELSE Last(head).files
Dirty(p)      == disk[p].work # FilesOf(disk[p].head)
Present(p)    == p # None /\ disk[p] # NoTree
At(t, op, pc) == call[t] # Idle /\ call[t].op = op /\ call[t].pc = pc
Fails         == faults < MaxFaults /\ faults' = faults + 1

\* A thread takes up a call of session s on worktree p.
Takes(t, op, pc, s, p, arg) ==
    /\ call[t] = Idle
    /\ call' = [call EXCEPT ![t] = [op |-> op, pc |-> pc, on |-> s, at |-> p, arg |-> arg, late |-> {}]]
Begins(t, op, pc, s, p, arg) ==
    /\ Takes(t, op, pc, s, p, arg)
    /\ calls < MaxCalls /\ calls' = calls + 1 /\ UNCHANGED faults
Goes(t, pc) == call' = [call EXCEPT ![t].pc = pc]
Ends(t)     == call' = [call EXCEPT ![t] = Idle]
\* Session s comes into worktree p, or goes on in it, after the checks of the
\* calls on it (history, kept in the calls); thread t, if any, ends.
Joins(s, p, ending) ==
    call' = [u \in Threads |->
                IF u \in ending THEN Idle
                ELSE IF call[u] # Idle /\ call[u].at = p THEN [call[u] EXCEPT !.late = @ \cup {s}]
                ELSE call[u]]
SetState(s, st, ending) == state' = [state EXCEPT ![s] = st] /\ Joins(s, tree[s], ending)

\* git add -A and git commit, when there is something to commit.
CommitAll(p, subject) ==
    /\ Dirty(p) /\ Len(disk[p].head) < MaxCommits
    /\ disk' = [disk EXCEPT ![p].head =
                  Append(@, [subject |-> subject, files |-> disk[p].work])]

-----------------------------------------------------------------------------
(* Create: a session gets a worktree of its own, or an earlier session's.  *)

Create(t, s) ==
    /\ state[s] = "none" /\ state' = [state EXCEPT ![s] = "running"]
    /\ Begins(t, "create", "add", s, s, None)
    /\ UNCHANGED <<tree, turn, diskVars, pump, points, reviewVars>>
AddWorktree(t) ==
    /\ At(t, "create", "add") /\ Goes(t, "set")
    /\ disk' = [disk EXCEPT ![call[t].at] = [head |-> <<>>, work |-> {}]]
    /\ UNCHANGED <<rowVars, dropped, pump, points, reviewVars, countVars>>
\* The row of s is told that its worktree is p, and the process started with
\* the first message; if it cannot start the row says failed.
StartsIn(s, p, ending) ==
    /\ tree' = [tree EXCEPT ![s] = p] /\ Joins(s, p, ending)
    /\ \/ turn' = [turn EXCEPT ![s] = "work"] /\ UNCHANGED <<state, faults>>
       \/ Fails /\ state' = [state EXCEPT ![s] = "failed"] /\ UNCHANGED turn
\* If the row cannot be told, the worktree is removed again.
SetWorktree(t) ==
    /\ At(t, "create", "set")
    /\ LET s == call[t].on
       IN  \/ StartsIn(s, s, {t}) /\ UNCHANGED disk
           \/ /\ Fails /\ disk' = [disk EXCEPT ![s] = NoTree] /\ Ends(t)
              /\ state' = [state EXCEPT ![s] = "failed"] /\ UNCHANGED <<tree, turn>>
    /\ UNCHANGED <<dropped, pump, points, reviewVars, calls>>
\* A shared step names a worktree that exists and that some row still names.
Attach(t, s, p) ==
    /\ state[s] = "none" /\ p # s
    /\ IF Present(p) /\ \E o \in Sessions : tree[o] = p
       THEN /\ state' = [state EXCEPT ![s] = "running"]
            /\ Begins(t, "attach", "set", s, p, None)
       ELSE /\ state' = [state EXCEPT ![s] = "failed"] /\ calls < MaxCalls
            /\ calls' = calls + 1 /\ UNCHANGED <<call, faults>>
    /\ UNCHANGED <<tree, turn, diskVars, pump, points, reviewVars>>
AttachSet(t) ==
    /\ At(t, "attach", "set")
    /\ LET s == call[t].on
       IN  \/ StartsIn(s, call[t].at, {t})
           \/ /\ Fails /\ state' = [state EXCEPT ![s] = "failed"] /\ Ends(t)
              /\ UNCHANGED <<tree, turn>>
    /\ UNCHANGED <<diskVars, pump, points, reviewVars, calls>>

-----------------------------------------------------------------------------
(* The session at work: turns, their checkpoints, and its end.             *)

\* The process of s is at work in its worktree, and the pump follows it.
Works(s)   == turn[s] \in {"work", "seen"}
Follows(s) == pump[s].at = "none" /\ tree[s] # None
AgentEdits(s, f) ==
    LET p == tree[s]
    IN  /\ Works(s) /\ Present(p)
        /\ \/ /\ f \notin disk[p].work /\ disk' = [disk EXCEPT ![p].work = @ \cup {f}]
              /\ UNCHANGED dropped
           \/ /\ f \in disk[p].work /\ disk' = [disk EXCEPT ![p].work = @ \ {f}]
              /\ dropped' = [dropped EXCEPT ![p] = @ \cup {f}]
        /\ UNCHANGED <<rowVars, pump, points, reviewVars, call, countVars>>
\* The pump hears of a tool use, and says so in the row.
Uses(s) ==
    /\ Works(s) /\ Follows(s) /\ turn' = [turn EXCEPT ![s] = "seen"]
    /\ SetState(s, "running", {})
    /\ UNCHANGED <<tree, diskVars, pump, points, reviewVars, countVars>>
\* A permission is asked for; one that cannot be put on record is denied, and
\* the turn goes on under a row that says failed.
Asks(s) ==
    /\ Works(s) /\ Follows(s)
    /\ \/ /\ turn' = [turn EXCEPT ![s] = "asks"] /\ SetState(s, "waiting", {})
          /\ UNCHANGED faults
       \/ /\ Fails /\ turn' = [turn EXCEPT ![s] = "work"] /\ SetState(s, "failed", {})
    /\ UNCHANGED <<tree, diskVars, pump, points, reviewVars, calls>>
\* Decide: the row goes back to running and the process hears the answer.
Answers(s) ==
    /\ turn[s] = "asks" /\ Follows(s) /\ turn' = [turn EXCEPT ![s] = "seen"]
    /\ SetState(s, "running", {})
    /\ UNCHANGED <<tree, diskVars, pump, points, reviewVars, countVars>>
\* A call that writes the state of a row late, or of its own failure: an
\* approval that ran out or outlived its process, SwitchModel, Create, Close.
Overwrites(s) ==
    /\ Fails /\ state[s] # "none" /\ tree[s] # None
    /\ turn' = [turn EXCEPT ![s] = IF @ \in Shown THEN "work" ELSE @]
    /\ \E st \in {"open", "running", "closed", "failed"} : SetState(s, st, {})
    /\ UNCHANGED <<tree, diskVars, pump, points, reviewVars, calls>>
TurnEnds(s) ==
    /\ turn[s] \in {"work", "seen", "asks"} /\ pump[s].at = "none"
    /\ turn' = [turn EXCEPT ![s] = "idle"] /\ pump' = [pump EXCEPT ![s] = [at |-> "commit"]]
    /\ UNCHANGED <<state, tree, diskVars, points, reviewVars, call, countVars>>
\* checkpoint: what the turn changed is committed, then put on record.  With
\* auto_checkpoint off, or when git fails, there is none.
Checkpoint(s) ==
    /\ pump[s].at = "commit"
    /\ \/ /\ Present(tree[s]) /\ CommitAll(tree[s], "checkpoint")
          /\ pump' = [pump EXCEPT ![s] = [at |-> "record", sha |-> disk'[tree[s]].head]]
       \/ pump' = [pump EXCEPT ![s] = [at |-> "open"]] /\ UNCHANGED disk
    /\ UNCHANGED <<rowVars, dropped, points, reviewVars, call, countVars>>
Record(s) ==
    /\ pump[s].at = "record" /\ pump' = [pump EXCEPT ![s] = [at |-> "open"]]
    /\ \/ points' = points \cup {<<s, pump[s].sha>>} /\ UNCHANGED faults
       \/ Fails /\ UNCHANGED points
    /\ UNCHANGED <<rowVars, diskVars, reviewVars, call, calls>>
\* The row says open, also when a message has begun the next turn meanwhile.
Opens(s) ==
    /\ pump[s].at = "open" /\ pump' = [pump EXCEPT ![s] = [at |-> "none"]]
    /\ SetState(s, "open", {})
    /\ UNCHANGED <<tree, turn, diskVars, points, reviewVars, countVars>>
\* The process is closed, evicted or dies; the pump gets to its exit after
\* the turns before it.
ChildEnds(s) ==
    /\ turn[s] \notin {"none", "dead"} /\ turn' = [turn EXCEPT ![s] = "dead"]
    /\ UNCHANGED <<state, tree, diskVars, pump, points, reviewVars, call, countVars>>
handleExit(s) ==
    /\ turn[s] = "dead" /\ pump[s].at = "none" /\ turn' = [turn EXCEPT ![s] = "none"]
    /\ \E st \in {"closed", "failed"} : state' = [state EXCEPT ![s] = st]
    /\ UNCHANGED <<tree, diskVars, pump, points, reviewVars, call, countVars>>
\* Close of a session without a process.
Closes(s) ==
    /\ turn[s] = "none" /\ state[s] \in InUse /\ state' = [state EXCEPT ![s] = "closed"]
    /\ UNCHANGED <<tree, turn, diskVars, pump, points, reviewVars, call, countVars>>
\* A message to a live process begins a turn, and the row is left as it is.
Send(s) ==
    /\ state[s] # "waiting" /\ turn[s] = "idle" /\ turn' = [turn EXCEPT ![s] = "work"]
    /\ calls < MaxCalls /\ calls' = calls + 1
    /\ UNCHANGED <<state, tree, diskVars, pump, points, reviewVars, call, faults>>
\* A session without one gets a process, which does not start without its
\* directory, and the row says running before the message goes out.
\* SwitchModel starts one without a message.
Resume(s) ==
    /\ state[s] \notin {"none", "waiting"} /\ turn[s] = "none" /\ Present(tree[s])
    /\ \E st \in {"work", "idle"} : turn' = [turn EXCEPT ![s] = st]
    /\ SetState(s, "running", {}) /\ calls < MaxCalls /\ calls' = calls + 1
    /\ UNCHANGED <<tree, diskVars, pump, points, reviewVars, faults>>

-----------------------------------------------------------------------------
(* The reviewer's calls.                                                   *)

\* Mutant: a session that waits for an approval counts as idle.
busyNotWaiting(s) == state[s] = "running"
busy(s) == state[s] \in {"running", "waiting"}
\* reviewTarget: the session exists and its row names a worktree.
Reviewable(s) == state[s] # "none" /\ tree[s] # None

Commit(t, s) ==
    /\ Reviewable(s) /\ ~busy(s) /\ Begins(t, "commit", "reset", s, tree[s], None)
    /\ UNCHANGED <<rowVars, diskVars, pump, points, reviewVars>>
HasCheckpoints(p) == \E i \in DOMAIN disk[p].head : disk[p].head[i].subject = "checkpoint"
\* Mutant: the checkpoints are folded with reset --hard.
FoldHard(p) == disk' = [disk EXCEPT ![p] = IF HasCheckpoints(p) THEN [head |-> <<>>, work |-> {}] ELSE @]
\* Checkpoints are folded in with reset --soft: the files stay.
Fold(p) == disk' = [disk EXCEPT ![p].head = IF HasCheckpoints(p) THEN <<>> ELSE @]
CommitReset(t) ==
    /\ At(t, "commit", "reset")
    /\ IF Present(call[t].at) THEN Fold(call[t].at) /\ Goes(t, "commit")
                              ELSE UNCHANGED disk /\ Ends(t)
    /\ UNCHANGED <<rowVars, dropped, pump, points, reviewVars, countVars>>
\* There may be nothing to commit after the fold, or git may refuse (a hook).
CommitEnds(t) ==
    /\ At(t, "commit", "commit") /\ Ends(t)
    /\ \/ Present(call[t].at) /\ CommitAll(call[t].at, "commit") /\ UNCHANGED faults
       \/ ~(Present(call[t].at) /\ Dirty(call[t].at)) /\ UNCHANGED <<disk, faults>>
       \/ Fails /\ UNCHANGED disk
    /\ UNCHANGED <<rowVars, dropped, pump, points, reviewVars, calls>>

\* Rewind: a checkpoint of this session that the branch still contains.
Rewind(t, s, cp) ==
    /\ Reviewable(s) /\ ~busy(s) /\ cp[1] = s /\ Begins(t, "rewind", "reset", s, tree[s], cp[2])
    /\ UNCHANGED <<rowVars, diskVars, pump, points, reviewVars>>
RewindReset(t) ==
    /\ At(t, "rewind", "reset")
    /\ LET p == call[t].at   sha == call[t].arg
       IN  IF Present(p) /\ IsPrefix(sha, disk[p].head)
           THEN /\ disk' = [disk EXCEPT ![p] =
                     [head |-> sha, work |-> (@.work \ FilesOf(@.head)) \cup FilesOf(sha)]]
                /\ Goes(t, "clean")
           ELSE UNCHANGED disk /\ Ends(t)
    /\ UNCHANGED <<rowVars, dropped, pump, points, reviewVars, countVars>>
RewindClean(t) ==
    /\ At(t, "rewind", "clean") /\ Ends(t)
    /\ disk' = [disk EXCEPT ![call[t].at] =
                  IF @ = NoTree THEN @ ELSE [@ EXCEPT !.work = FilesOf(disk[call[t].at].head)]]
    /\ UNCHANGED <<rowVars, dropped, pump, points, reviewVars, countVars>>

\* Mutant: only a session in the middle of a turn counts.
CountByWorktreeWorking(p, s) ==
    Cardinality({o \in Sessions \ {s} : tree[o] = p /\ state[o] \in {"running", "waiting"}})
CountByWorktree(p, s) == Cardinality({o \in Sessions \ {s} : tree[o] = p /\ state[o] \in InUse})
Discard(t, s) ==
    /\ Reviewable(s) /\ ~busy(s) /\ CountByWorktree(tree[s], s) = 0
    /\ Begins(t, "discard", "close", s, tree[s], state[s])
    /\ UNCHANGED <<rowVars, diskVars, pump, points, reviewVars>>
\* closeLiveProcess: the process is closed and its exit waited for; mutant:
\* the exit is not waited for.
closeNoWait(t) ==
    LET s == call[t].on
    IN  /\ turn' = [turn EXCEPT ![s] = IF @ = "none" THEN @ ELSE "dead"]
        /\ Goes(t, "remove") /\ UNCHANGED faults
closeLiveProcess(t) ==
    LET s == call[t].on
    IN  \/ turn[s] = "none" /\ Goes(t, "remove") /\ UNCHANGED <<turn, faults>>
        \/ /\ turn[s] \notin {"none", "dead"} /\ turn' = [turn EXCEPT ![s] = "dead"]
           /\ UNCHANGED <<call, faults>>
        \/ Fails /\ Ends(t) /\ UNCHANGED turn
CloseFirst(t) ==
    /\ At(t, "discard", "close") /\ closeLiveProcess(t)
    /\ UNCHANGED <<state, tree, diskVars, pump, points, reviewVars, calls>>
\* The worktree and its branch are removed.
RemoveWorktree(t) ==
    /\ At(t, "discard", "remove")
    /\ \/ disk' = [disk EXCEPT ![call[t].at] = NoTree] /\ Goes(t, "clear") /\ UNCHANGED faults
       \/ Fails /\ Ends(t) /\ UNCHANGED disk
    /\ UNCHANGED <<rowVars, dropped, pump, points, reviewVars, calls>>
\* The row is cleared and, unless it was closed, the session closed.
ClearRow(t) ==
    /\ At(t, "discard", "clear") /\ Ends(t)
    /\ \/ /\ tree' = [tree EXCEPT ![call[t].on] = None]
          /\ state' = [state EXCEPT ![call[t].on] = IF call[t].arg = "closed" THEN @ ELSE "closed"]
          /\ UNCHANGED faults
       \/ Fails /\ UNCHANGED <<state, tree>>
    /\ UNCHANGED <<turn, diskVars, pump, points, reviewVars, calls>>

-----------------------------------------------------------------------------
(* Review comments.                                                        *)

Unsent(s) == {c \in Comments : comment[c] = [on |-> s, sent |-> FALSE]}
AddComment(s, c) ==
    /\ Reviewable(s) /\ comment[c] = NoComment
    /\ comment' = [comment EXCEPT ![c] = [on |-> s, sent |-> FALSE]]
    /\ calls < MaxCalls /\ calls' = calls + 1
    /\ UNCHANGED <<rowVars, diskVars, pump, points, got, again, call, faults>>
DeleteComment(s, c) ==
    /\ Reviewable(s) /\ comment[c] \in Written /\ comment[c].on = s
    /\ comment' = [comment EXCEPT ![c] = Deleted]
    /\ calls < MaxCalls /\ calls' = calls + 1
    /\ UNCHANGED <<rowVars, diskVars, pump, points, got, again, call, faults>>
\* SendReview lists what is unsent; a list another call has too is on record.
SendReview(t, s) ==
    /\ Reviewable(s) /\ Unsent(s) # {}
    /\ Takes(t, "send", "send", s, tree[s], Unsent(s)) /\ UNCHANGED countVars
    /\ again' = again \cup {c \in Unsent(s) : \E u \in Threads :
                               call[u] # Idle /\ call[u].op = "send" /\ c \in call[u].arg}
    /\ UNCHANGED <<rowVars, diskVars, pump, points, comment, got>>
\* One message carries them all, into a live process or a new one, as Send
\* does; a Send that is refused or fails leaves them unsent.
Deliver(t) ==
    /\ At(t, "send", "send")
    /\ LET s == call[t].on
       IN  \/ /\ state[s] # "waiting" /\ turn[s] \notin {"none", "dead"}
              /\ turn' = [turn EXCEPT ![s] = IF @ = "idle" THEN "work" ELSE @]
              /\ got' = [c \in Comments |-> got[c] + IF c \in call[t].arg THEN 1 ELSE 0]
              /\ Goes(t, "mark") /\ UNCHANGED <<state, faults>>
           \/ /\ state[s] # "waiting" /\ turn[s] = "none" /\ Present(tree[s])
              /\ turn' = [turn EXCEPT ![s] = "work"]
              /\ state' = [state EXCEPT ![s] = "running"]
              /\ call' = [u \in Threads |->
                    CASE u = t -> [call[t] EXCEPT !.pc = "mark"]
                      [] u # t /\ call[u] # Idle /\ call[u].at = tree[s]
                              -> [call[u] EXCEPT !.late = @ \cup {s}]
                      [] OTHER -> call[u]]
              /\ got' = [c \in Comments |-> got[c] + IF c \in call[t].arg THEN 1 ELSE 0]
              /\ UNCHANGED faults
           \/ /\ state[s] = "waiting" \/ turn[s] = "dead" \/ (turn[s] = "none" /\ ~Present(tree[s]))
              /\ Ends(t) /\ UNCHANGED <<state, turn, got, faults>>
           \/ Fails /\ Ends(t) /\ UNCHANGED <<state, turn, got>>
    /\ UNCHANGED <<tree, diskVars, pump, points, comment, again, calls>>
\* Mutants: every unsent comment of the session is marked; none is.
ToMarkAll(t)  == Unsent(call[t].on)
ToMarkNone(t) == {}
\* MarkSent stamps the comments it listed.
ToMark(t) == {c \in call[t].arg : comment[c] \in Written}
MarkSent(t) ==
    /\ At(t, "send", "mark") /\ Ends(t)
    /\ \/ /\ comment' = [c \in Comments |-> IF c \in ToMark(t)
                            THEN [comment[c] EXCEPT !.sent = TRUE] ELSE comment[c]]
          /\ UNCHANGED <<faults, again>>
       \/ Fails /\ again' = again \cup call[t].arg /\ UNCHANGED comment
    /\ UNCHANGED <<rowVars, diskVars, pump, points, got, calls>>

\* The server restarts: calls, processes and pumps are gone, and sessions are
\* closed.
Restart ==
    /\ Fails /\ call' = [t \in Threads |-> Idle] /\ turn' = [s \in Sessions |-> "none"]
    /\ pump' = [s \in Sessions |-> [at |-> "none"]]
    /\ state' = [s \in Sessions |-> IF state[s] \in InUse THEN "closed" ELSE state[s]]
    /\ again' = again \cup UNION {call[t].arg : t \in {u \in Threads : At(u, "send", "mark")}}
    /\ UNCHANGED <<tree, diskVars, points, comment, got, calls>>

-----------------------------------------------------------------------------
\* The requests.  One without a path and body, a message or a checkpoint is
\* refused before any of this.
handleSessionCommit(t, s)  == Commit(t, s)
handleSessionRewind(t, s)  == \E cp \in points : Rewind(t, s, cp)
handleSessionDiscard(t, s) == Discard(t, s)
handleReviewSend(t, s)     == SendReview(t, s)
handleReviewCommentCreate(s) == \E c \in Comments : AddComment(s, c)
handleReviewCommentDelete(s) == \E c \in Comments : DeleteComment(s, c)

WorktreesNext ==
    \/ \E t \in Threads, s \in Sessions :
          \/ Create(t, s) \/ \E p \in Sessions : Attach(t, s, p)
          \/ handleSessionCommit(t, s) \/ handleSessionRewind(t, s) \/ handleSessionDiscard(t, s)
          \/ handleReviewSend(t, s)
    \/ \E s \in Sessions : handleReviewCommentCreate(s) \/ handleReviewCommentDelete(s)
    \/ \E t \in Threads : AddWorktree(t) \/ SetWorktree(t) \/ AttachSet(t)
    \/ \E t \in Threads : CommitReset(t) \/ CommitEnds(t) \/ RewindReset(t) \/ RewindClean(t)
    \/ \E t \in Threads : CloseFirst(t) \/ RemoveWorktree(t) \/ ClearRow(t)
    \/ \E t \in Threads : Deliver(t) \/ MarkSent(t)
    \/ \E s \in Sessions, f \in Files : AgentEdits(s, f)
    \/ \E s \in Sessions : Uses(s) \/ Asks(s) \/ Answers(s) \/ Overwrites(s)
    \/ \E s \in Sessions : TurnEnds(s) \/ Checkpoint(s) \/ Record(s) \/ Opens(s)
    \/ \E s \in Sessions : ChildEnds(s) \/ handleExit(s) \/ Closes(s) \/ Send(s) \/ Resume(s)
    \/ Restart

WorktreesSpec == WorktreesInit /\ [][WorktreesNext]_worktreeVars

-----------------------------------------------------------------------------
(* Properties. *)

\* Everything a worktree holds: its files and those of its commits.
Holds(tr) == IF tr = NoTree THEN {} ELSE tr.work \cup UNION {tr.head[i].files : i \in DOMAIN tr.head}
\* Thread t takes a step of op on worktree p.
Steps(t, op, p) == call[t] # Idle /\ call[t].op = op /\ call[t].at = p /\ call'[t] # call[t]

\* Work is lost only by what is asked to lose it: whatever turns, checkpoints,
\* commits and restarts interleave, and wherever a Commit is interrupted, a
\* file leaves a worktree and its commits only in a step of Rewind or Discard,
\* or if an agent has deleted it.  Then it goes with the agent's step, or with
\* the fold of a Commit, which keeps all that is at work.
NothingLost ==
    [][\A p \in Sessions : \A f \in Holds(disk[p]) \ Holds(disk'[p]) :
          \/ \E t \in Threads : Steps(t, "rewind", p) \/ Steps(t, "discard", p)
          \/ f \in dropped'[p] /\ (f \in disk[p].work => UNCHANGED <<call, pump>>)]_worktreeVars

\* Discard removes no worktree under a process of its session, or that another
\* session uses, except one that came after Discard had closed and counted.
RemovedNotInUse ==
    [][\A t \in Threads : (At(t, "discard", "remove") /\ disk' # disk) =>
          \A s \in Sessions :
             /\ s = call[t].on /\ turn[s] # "none" => s \in call[t].late
             /\ s # call[t].on /\ tree[s] = call[t].at /\ state[s] \in InUse
                  => s \in call[t].late]_worktreeVars

\* No Commit or Rewind rewrites the worktree of its session during a turn that
\* the row told of when it checked: a tool was used, or a permission asked.
NotMidTurn ==
    [][\A t \in Threads :
          (\E pc \in {"reset", "clean", "commit"} : At(t, "rewind", pc) \/ At(t, "commit", pc))
             /\ disk' # disk /\ call'[t] # call[t]
          => turn[call[t].on] \notin Shown \/ call[t].on \in call[t].late]_worktreeVars

\* The checks before a worktree is rewritten or removed hold until it is, but
\* for a session, or a turn, that came after them (busy, CountByWorktree).
LeftAlone == RemovedNotInUse /\ NotMidTurn

\* A comment marked sent has been in a message to the session, also when it
\* was written while a review was on its way.
SentMeansDelivered == \A c \in Comments :
    comment[c] \in Written /\ comment[c].sent => got[c] > 0

\* A comment goes to the session once, unless two reviews with it were sent at
\* a time, or its mark was lost.
DeliveredOnce == \A c \in Comments : got[c] <= 1 \/ c \in again

\* A review says what it did: what is marked sent was delivered, and once
\* (SendReview, MarkSent).
ReviewOK == WorktreesTypeOK /\ SentMeansDelivered /\ DeliveredOnce

\* The comment on busy ("the two states in which rewriting its worktree
\* underneath it would corrupt the run"): Commit and Rewind leave alone a
\* worktree in which any session is in the middle of a turn, even when no call
\* overlaps with another.
NotUnderneath ==
    [][\A t \in Threads, s \in Sessions :
          (call[t] # Idle /\ call[t].op \in {"commit", "rewind"} /\ tree[s] = call[t].at
             /\ disk' # disk /\ call'[t] # call[t])
          => turn[s] \notin {"work", "seen", "asks"} \/ s \in call[t].late]_worktreeVars

=============================================================================
