----------------------------- MODULE Workspaces -----------------------------
(***************************************************************************)
(* Workspaces: rows of the database and directories on disk that have to   *)
(* agree (internal/workspaces).  A call is a goroutine that reads the row, *)
(* touches the directory and writes the row, in steps other calls          *)
(* interleave with; no lock is held.  `git clone` runs on after the call   *)
(* that started it has answered, and here keeps that call's thread.        *)
(*                                                                         *)
(* One user owns the managed workspaces; an admin registers shared ones by *)
(* path.  The managed directory is the slug of the name, which two names   *)
(* may share.  What a Patch changes (profile, branch, flags) is left out:  *)
(* it writes back the whole row it read, state and access included.  The   *)
(* sessions of a workspace count as one that is in use or is not.          *)
(***************************************************************************)
EXTENDS Integers, FiniteSets

CONSTANTS Threads,    \* calls and clones at a time
          Names,      \* of workspaces
          Dirs,       \* directories under UsersDir/<owner>/workspaces
          Slug,       \* Names -> Dirs: the slug of a name
          Outside,    \* a directory with a repository, not under UsersDir
          MaxRows,    \* bound: workspaces ever created
          MaxCalls,   \* bound: calls made
          MaxFaults   \* bound: failed writes and restarts

ASSUME WorkspacesAssumption ==
    /\ Slug \in [Names -> Dirs] /\ Outside \notin Dirs
    /\ {MaxRows, MaxCalls, MaxFaults} \subseteq Nat

Ids     == 1 .. MaxRows
Actors  == {"owner", "other", "admin"}
Lists   == SUBSET {"other"}
Active  == {"open", "running", "waiting"}
NoRow   == [row |-> "none"]
Gone    == [row |-> "gone"]
NoDir   == [dir |-> "none"]
Idle    == [op |-> "idle"]
Ways    == {"twice", "halfway", "crossed", "late", "left"}

VARIABLES
    rows,    \* workspaces: id -> row
    lists,   \* workspace_access: id -> users named
    disk,    \* directory -> who made it and how much of it is there
    sess,    \* id -> state of the sessions of the workspace
    used,    \* ids that a template or a pipeline refers to
    call,    \* thread -> its call
    calls, faults, \* number of calls and faults so far
    harm,    \* history: the ways in which a workspace came to harm
    asked    \* history: id -> mode and list of the last SetAccess

workspaceVars == <<rows, lists, disk, sess, used, call, calls, faults, harm, asked>>

Row    == [name : Names, source : {"git", "empty", "path"}, dir : Dirs \cup {Outside},
           state : {"cloning", "ready", "failed"}, access : {"everyone", "listed"}]
Files  == [by : Ids \cup {0}, is : {"empty", "partial", "full"}]
Access == [mode : {"everyone", "listed"}, list : Lists]

\* The type of the state: rows, directories and what a call carries.
WorkspacesTypeOK ==
    /\ \A i \in Ids : rows[i] \in {NoRow, Gone} \/ rows[i] \in Row
    /\ lists \in [Ids -> Lists] /\ asked \in [Ids -> Access]
    /\ \A d \in Dirs \cup {Outside} : disk[d] = NoDir \/ disk[d] \in Files
    /\ sess \in [Ids -> Active \cup {"none", "closed"}] /\ used \subseteq Ids
    /\ \A t \in Threads : call[t] # Idle =>
          /\ call[t].op \in {"create", "update", "delete", "retry", "access", "session"}
          /\ call[t].id \in Ids /\ call[t].row \in Row /\ call[t].arg \in Access
    /\ calls \in 0 .. MaxCalls /\ faults \in 0 .. MaxFaults
    /\ harm \subseteq Ids \X Ways

WorkspacesInit ==
    /\ rows = [i \in Ids |-> NoRow] /\ lists = [i \in Ids |-> {}]
    /\ disk = [d \in Dirs \cup {Outside} |->
                 IF d = Outside THEN [by |-> 0, is |-> "full"] ELSE NoDir]
    /\ sess = [i \in Ids |-> "none"] /\ used = {} /\ call = [t \in Threads |-> Idle]
    /\ calls = 0 /\ faults = 0 /\ harm = {}
    /\ asked = [i \in Ids |-> [mode |-> "everyone", list |-> {}]]

-----------------------------------------------------------------------------
Exists(i)   == rows[i] \notin {NoRow, Gone}
managed(r)  == r.source # "path"
Live        == {i \in Ids : Exists(i)}
\* The row of a path workspace has no owner.
visible(a, i)     == a = "admin" \/ ~managed(rows[i]) \/ a = "owner"
ownsOrAdmin(a, i) == a = "admin" \/ (managed(rows[i]) /\ a = "owner")
accessAllowed(a, i) ==
    managed(rows[i]) \/ rows[i].access # "listed" \/ a = "admin" \/ a \in lists[i]
getVisible(a, i) == Exists(i) /\ visible(a, i) /\ accessAllowed(a, i)

At(t, op, pc)  == call[t] # Idle /\ call[t].op = op /\ call[t].pc = pc
Id(t)          == call[t].id
Dir(t)         == call[t].row.dir
Goes(t, pc)    == call' = [call EXCEPT ![t].pc = pc]
Ends(t)        == call' = [call EXCEPT ![t] = Idle]
Fails          == faults < MaxFaults /\ faults' = faults + 1
Harms(S, way)  == harm' = harm \cup (S \X {way})
Everyone       == [mode |-> "everyone", list |-> {}]

\* A thread takes up a call that has read the row of i.
Begins(t, op, pc, i, row, arg) ==
    /\ call[t] = Idle /\ calls < MaxCalls /\ calls' = calls + 1
    /\ call' = [call EXCEPT ![t] = [op |-> op, pc |-> pc, id |-> i, row |-> row, arg |-> arg]]
\* What the call read is no longer what the table holds.
Stale(t)  == rows[Id(t)] # call[t].row
\* A whole row is written back; writing over a newer one is on record.
WriteBack(t, row) ==
    /\ Exists(Id(t)) /\ rows' = [rows EXCEPT ![Id(t)] = row]
    /\ Harms(IF Stale(t) THEN {Id(t)} ELSE {}, "crossed")
\* os.RemoveAll.  Done for a row that is gone, it takes the directory of a
\* newer one, which is on record, as are the ids of S.
RemoveAll(t, S, way) ==
    /\ disk' = [disk EXCEPT ![Dir(t)] = NoDir]
    /\ LET newer == {j \in Live : rows[j].dir = Dir(t) /\ ~Exists(Id(t))}
       IN  harm' = harm \cup (newer \X {"crossed"}) \cup (S \X {way})
\* DELETE FROM workspaces: refused while a session row refers to it, whatever
\* that session's state is, or a template or a pipeline does.
Refers(i)    == IF sess[i] = "none" /\ i \notin used THEN {} ELSE {i}
DeleteRow(i) == rows' = [rows EXCEPT ![i] = IF Refers(i) = {} THEN Gone ELSE @]

-----------------------------------------------------------------------------
(* Create. *)

\* The row goes in first; its unique index refuses a name taken.  Two rows
\* with one directory are on record.
Insert(t, i, row) ==
    /\ rows[i] = NoRow /\ \A j \in Ids : j < i => rows[j] # NoRow
    /\ \A j \in Live : rows[j].name = row.name => managed(rows[j]) # managed(row)
    /\ rows' = [rows EXCEPT ![i] = row]
    /\ LET same == {j \in Live : rows[j].dir = row.dir}
       IN  Harms(IF same = {} THEN {} ELSE same \cup {i}, "twice")
NewRow(n, source, dir, state) ==
    [name |-> n, source |-> source, dir |-> dir, state |-> state, access |-> "everyone"]

createGit(t, i, n) ==
    LET row == NewRow(n, "git", Slug[n], "cloning")
    IN  /\ Insert(t, i, row) /\ Begins(t, "create", "stat", i, row, Everyone)
        /\ UNCHANGED <<lists, disk, sess, used, faults, asked>>
createEmpty(t, i, n) ==
    LET row == NewRow(n, "empty", Slug[n], "ready")
    IN  /\ Insert(t, i, row) /\ Begins(t, "create", "stat", i, row, Everyone)
        /\ UNCHANGED <<lists, disk, sess, used, faults, asked>>
\* An admin registers a directory that holds a repository; nothing is made.
createPath(t, i, n) ==
    /\ call[t] = Idle /\ calls < MaxCalls /\ calls' = calls + 1
    /\ \E d \in Dirs \cup {Outside} :
          /\ disk[d] # NoDir /\ disk[d].is = "full"
          /\ Insert(t, i, NewRow(n, "path", d, "ready"))
    /\ UNCHANGED <<call, lists, disk, sess, used, faults, asked>>

\* The DELETE that takes a failed creation back; its error is ignored, so a row
\* that is referred to stays, and is on record.
Undo(t) == DeleteRow(Id(t)) /\ Harms(Refers(Id(t)), "left")
\* What ended the creation ends the DELETE as well: a full disk, or a client
\* that has gone away, whose request's context the DELETE has.
UndoLost(t) == Harms({Id(t)}, "left") /\ UNCHANGED rows
\* An orphaned directory at the slug refuses the call, as does a disk that
\* fails, and the row goes again; otherwise a git workspace is cloned and an
\* empty one made.
Stat(t) ==
    /\ At(t, "create", "stat")
    /\ \/ disk[Dir(t)] # NoDir /\ Ends(t) /\ Undo(t) /\ UNCHANGED faults
       \/ Fails /\ Ends(t) /\ (Undo(t) \/ UndoLost(t))
       \/ /\ disk[Dir(t)] = NoDir
          /\ Goes(t, IF call[t].row.source = "git" THEN "clone" ELSE "mkdir")
          /\ UNCHANGED <<rows, harm, faults>>
    /\ UNCHANGED <<lists, disk, sess, used, calls, asked>>
\* MkdirAll does not mind a directory that has appeared since.
Mkdir(t) ==
    /\ At(t, "create", "mkdir")
    /\ \/ /\ Goes(t, "init")
          /\ disk' = [disk EXCEPT ![Dir(t)] = IF @ = NoDir THEN [by |-> Id(t), is |-> "empty"] ELSE @]
          /\ UNCHANGED <<rows, faults, harm>>
       \/ Fails /\ Ends(t) /\ (Undo(t) \/ UndoLost(t)) /\ UNCHANGED disk
    /\ UNCHANGED <<lists, sess, used, calls, asked>>
\* Whatever ends git init, the directory is removed; the row goes too, unless
\* the request is over or the row is referred to.
GitInit(t) ==
    /\ At(t, "create", "init") /\ Ends(t)
    /\ \/ /\ disk[Dir(t)] # NoDir /\ disk' = [disk EXCEPT ![Dir(t)].is = "full"]
          /\ UNCHANGED <<rows, faults, harm>>
       \/ /\ (disk[Dir(t)] = NoDir /\ UNCHANGED faults) \/ Fails
          /\ RemoveAll(t, Refers(Id(t)), "left") /\ DeleteRow(Id(t))
       \/ Fails /\ RemoveAll(t, {Id(t)}, "left") /\ UNCHANGED rows
    /\ UNCHANGED <<lists, sess, used, calls, asked>>

-----------------------------------------------------------------------------
(* runClone, on the goroutine Create or Retry started. *)

Cloner(t, pc) == At(t, "create", pc) \/ At(t, "retry", pc)
\* git refuses a directory that is not empty (external).
CloneStart(t) ==
    /\ Cloner(t, "clone")
    /\ IF disk[Dir(t)] = NoDir \/ disk[Dir(t)].is = "empty"
       THEN /\ disk' = [disk EXCEPT ![Dir(t)] = [by |-> Id(t), is |-> "partial"]]
            /\ Goes(t, "cloning")
       ELSE Goes(t, "failed") /\ UNCHANGED disk
    /\ UNCHANGED <<rows, lists, sess, used, calls, faults, harm, asked>>
\* It ends well if its files are still there, and may fail or time out.
CloneEnd(t) ==
    /\ Cloner(t, "cloning")
    /\ \/ /\ disk[Dir(t)] = [by |-> Id(t), is |-> "partial"]
          /\ disk' = [disk EXCEPT ![Dir(t)].is = "full"] /\ Goes(t, "cloned")
       \/ Goes(t, "failed") /\ UNCHANGED disk
    /\ UNCHANGED <<rows, lists, sess, used, calls, faults, harm, asked>>
CloneRemove(t) ==
    /\ Cloner(t, "failed") /\ RemoveAll(t, {}, "crossed") /\ Goes(t, "removed")
    /\ UNCHANGED <<rows, lists, sess, used, calls, faults, asked>>
\* Mutants: a state nobody knows; ready whatever git said.
OutcomeUnknown(t) == "done"
OutcomeReady(t) == "ready"
Outcome(t) == IF At(t, call[t].op, "cloned") THEN "ready" ELSE "failed"
\* Mutant: only a clone that ended well writes the state.
setStateOnSuccess(t) ==
    /\ Cloner(t, "cloned") \/ Cloner(t, "removed")
    /\ Ends(t)
    /\ rows' = [rows EXCEPT ![Id(t)] = IF Exists(Id(t)) /\ Cloner(t, "cloned")
                                       THEN [@ EXCEPT !.state = "ready"] ELSE @]
    /\ UNCHANGED <<lists, disk, sess, used, calls, faults, harm, asked>>
\* SetState writes the state alone; a failed write is only logged.
setState(t) ==
    /\ Cloner(t, "cloned") \/ Cloner(t, "removed")
    /\ Ends(t)
    /\ \/ /\ rows' = [rows EXCEPT ![Id(t)] = IF Exists(Id(t)) THEN [@ EXCEPT !.state = Outcome(t)]
                                                              ELSE @]
          /\ UNCHANGED <<faults, harm>>
       \/ Fails /\ Harms({Id(t)}, "halfway") /\ UNCHANGED rows
    /\ UNCHANGED <<lists, disk, sess, used, calls, asked>>

-----------------------------------------------------------------------------
(* Calls on a workspace that exists. *)

Update(t, i) ==
    /\ \E a \in Actors : getVisible(a, i) /\ ownsOrAdmin(a, i)
    /\ Begins(t, "update", "write", i, rows[i], Everyone)
    /\ UNCHANGED <<rows, lists, disk, sess, used, faults, harm, asked>>
UpdateWrite(t) ==
    /\ At(t, "update", "write") /\ Ends(t)
    /\ WriteBack(t, call[t].row) \/ (~Exists(Id(t)) /\ UNCHANGED <<rows, harm>>)
    /\ UNCHANGED <<lists, disk, sess, used, calls, faults, asked>>

\* Only a failed git workspace is retried.
Retry(t, i) ==
    /\ \E a \in Actors : getVisible(a, i) /\ ownsOrAdmin(a, i)
    /\ rows[i].source = "git" /\ rows[i].state = "failed"
    /\ Begins(t, "retry", "remove", i, rows[i], Everyone)
    /\ UNCHANGED <<rows, lists, disk, sess, used, faults, harm, asked>>
RetryRemove(t) ==
    /\ At(t, "retry", "remove") /\ Goes(t, "write")
    /\ RemoveAll(t, IF Stale(t) THEN {Id(t)} ELSE {}, "crossed")
    /\ UNCHANGED <<rows, lists, sess, used, calls, faults, asked>>
RetryWrite(t) ==
    /\ At(t, "retry", "write")
    /\ \/ WriteBack(t, [call[t].row EXCEPT !.state = "cloning"]) /\ Goes(t, "clone") /\ UNCHANGED faults
       \/ ~Exists(Id(t)) /\ Ends(t) /\ UNCHANGED <<rows, faults, harm>>
       \/ Fails /\ Ends(t) /\ UNCHANGED <<rows, harm>>
    /\ UNCHANGED <<lists, disk, sess, used, calls, asked>>

\* Mutant: a session that waits for an approval is forgotten.
hasActiveSessionsNotWaiting(i) == sess[i] \in {"open", "running"}
hasActiveSessions(i) == sess[i] \in Active
\* The look at the sessions and the removal are steps apart.
Delete(t, i) ==
    /\ \E a \in Actors : getVisible(a, i) /\ ownsOrAdmin(a, i)
    /\ ~hasActiveSessions(i)
    /\ Begins(t, "delete", IF managed(rows[i]) THEN "remove" ELSE "delete", i, rows[i], Everyone)
    /\ UNCHANGED <<rows, lists, disk, sess, used, faults, harm, asked>>
DeleteDir(t) ==
    /\ At(t, "delete", "remove") /\ Goes(t, "delete")
    /\ RemoveAll(t, IF Stale(t) THEN {Id(t)} ELSE {}, "crossed")
    /\ UNCHANGED <<rows, lists, sess, used, calls, faults, asked>>
DeleteEnds(t) ==
    /\ At(t, "delete", "delete") /\ Ends(t)
    /\ \/ DeleteRow(Id(t)) /\ Harms(Refers(Id(t)), "halfway") /\ UNCHANGED faults
       \/ Fails /\ Harms({Id(t)}, "halfway") /\ UNCHANGED rows
    /\ lists' = [lists EXCEPT ![Id(t)] = IF rows'[Id(t)] = Gone THEN {} ELSE @]
    /\ UNCHANGED <<disk, sess, used, calls, asked>>

\* An admin sets the mode of a shared workspace, then its list.
SetAccess(t, i, arg) ==
    /\ Exists(i) /\ ~managed(rows[i]) /\ Begins(t, "access", "write", i, rows[i], arg)
    /\ UNCHANGED <<rows, lists, disk, sess, used, faults, harm, asked>>
\* Another call between its two writes is on record.
AccessWrite(t) ==
    /\ At(t, "access", "write")
    /\ LET between == \E u \in Threads : At(u, "access", "list") /\ Id(u) = Id(t)
       IN  \/ /\ Exists(Id(t)) /\ Goes(t, "list")
              /\ rows' = [rows EXCEPT ![Id(t)] = [call[t].row EXCEPT !.access = call[t].arg.mode]]
              /\ Harms(IF Stale(t) \/ between THEN {Id(t)} ELSE {}, "crossed")
           \/ ~Exists(Id(t)) /\ Ends(t) /\ UNCHANGED <<rows, harm>>
    /\ UNCHANGED <<lists, disk, sess, used, calls, faults, asked>>
\* Mutant: the list of the request is stored whatever its mode.
ListForAsGiven(arg) == arg.list
\* The list to store: none for everyone, so that no old one comes back.
ListFor(arg) == IF arg.mode = "listed" THEN arg.list ELSE {}
AccessList(t) ==
    /\ At(t, "access", "list") /\ Ends(t)
    /\ \/ /\ Exists(Id(t)) /\ lists' = [lists EXCEPT ![Id(t)] = ListFor(call[t].arg)]
          /\ UNCHANGED <<faults, harm>>
       \/ ~Exists(Id(t)) /\ UNCHANGED <<lists, faults, harm>>
       \/ Fails /\ Harms({Id(t)}, "halfway") /\ UNCHANGED lists
    /\ asked' = [asked EXCEPT ![Id(t)] = call[t].arg]
    /\ UNCHANGED <<rows, disk, sess, used, calls>>

-----------------------------------------------------------------------------
(* Sessions, as sessions.Service.Create checks and inserts them, templates *)
(* and pipelines; and the restart of the server, after which nothing takes *)
(* up a clone.                                                             *)

\* A Delete past its look at the sessions does not see this one.
Unseen(i) == {j \in {i} : \E t \in Threads : call[t] # Idle /\ call[t].op = "delete" /\ Id(t) = i}
CreateSession(t, i) ==
    /\ \E a \in Actors : getVisible(a, i)
    /\ rows[i].state = "ready" /\ sess[i] \in {"none", "closed"}
    /\ Begins(t, "session", "insert", i, rows[i], Everyone)
    /\ UNCHANGED <<rows, lists, disk, sess, used, faults, harm, asked>>
InsertSession(t) ==
    /\ At(t, "session", "insert") /\ Ends(t)
    /\ \/ /\ Exists(Id(t)) /\ sess' = [sess EXCEPT ![Id(t)] = "running"]
          /\ Harms(Unseen(Id(t)), "late")
       \/ ~Exists(Id(t)) /\ UNCHANGED <<sess, harm>>
    /\ UNCHANGED <<rows, lists, disk, used, calls, faults, asked>>
\* A template or a pipeline of the workspace is created, or the last is deleted.
Refer(i) ==
    /\ Exists(i) /\ used' \in {used \cup {i}, used \ {i}} /\ used' # used
    /\ calls < MaxCalls /\ calls' = calls + 1
    /\ UNCHANGED <<rows, lists, disk, sess, call, faults, harm, asked>>
\* A session goes on, closes, or is reopened by a message.
SessionMoves(i, st) ==
    /\ sess[i] # "none" /\ sess' = [sess EXCEPT ![i] = st]
    /\ Harms(IF sess[i] = "closed" THEN Unseen(i) ELSE {}, "late")
    /\ UNCHANGED <<rows, lists, disk, used, call, calls, faults, asked>>

Restart ==
    /\ \E t \in Threads : call[t] # Idle
    /\ Fails /\ call' = [t \in Threads |-> Idle]
    /\ Harms({i \in Ids : \E t \in Threads : call[t] # Idle /\ Id(t) = i}, "halfway")
    /\ UNCHANGED <<rows, lists, disk, sess, used, calls, asked>>

-----------------------------------------------------------------------------
Create(t, i, n) == createGit(t, i, n) \/ createEmpty(t, i, n) \/ createPath(t, i, n)

\* The requests.  One that does not decode, or asks for a source or an access
\* mode there is not, is refused before any of this.
handleWorkspacesCreate(t)   == \E i \in Ids, n \in Names : Create(t, i, n)
handleWorkspacesPatch(t)    == \E i \in Ids : Update(t, i)
handleWorkspacesDelete(t)   == \E i \in Ids : Delete(t, i)
handleWorkspacesRetry(t)    == \E i \in Ids : Retry(t, i)
handleWorkspaceAccessPut(t) == \E i \in Ids, arg \in Access : SetAccess(t, i, arg)

WorkspacesNext ==
    \/ \E t \in Threads :
          \/ handleWorkspacesCreate(t) \/ handleWorkspacesPatch(t) \/ handleWorkspacesDelete(t)
          \/ handleWorkspacesRetry(t) \/ handleWorkspaceAccessPut(t)
          \/ \E i \in Ids : CreateSession(t, i)
    \/ \E t \in Threads : Stat(t) \/ Mkdir(t) \/ GitInit(t)
    \/ \E t \in Threads : CloneStart(t) \/ CloneEnd(t) \/ CloneRemove(t) \/ setState(t)
    \/ \E t \in Threads : UpdateWrite(t) \/ RetryRemove(t) \/ RetryWrite(t)
    \/ \E t \in Threads : DeleteDir(t) \/ DeleteEnds(t) \/ InsertSession(t)
    \/ \E t \in Threads : AccessWrite(t) \/ AccessList(t)
    \/ \E i \in Ids, st \in Active \cup {"closed"} : SessionMoves(i, st)
    \/ \E i \in Ids : Refer(i)
    \/ Restart

WorkspacesSpec == WorkspacesInit /\ [][WorkspacesNext]_workspaceVars

-----------------------------------------------------------------------------
(* Properties. *)

Harmed(i, ways) == \E w \in ways : <<i, w>> \in harm
\* A call that is making or removing the directory of i.
InHand(i) == \E t \in Threads : /\ call[t] # Idle /\ Id(t) = i
                                /\ call[t].op \in {"create", "delete"}

\* A workspace that is offered as ready has its repository on disk: a clone
\* is ready only when it has ended well, and no failure of another call takes
\* the directory away.  The exceptions are workspaces that shared a
\* directory, whose Retry crossed another call, whose Delete stopped halfway
\* (a restart, or a DELETE that failed or was refused after the directory was
\* gone: a session row, a template or a pipeline refers to the row), whose
\* failed creation left the row, or that got a session behind a Delete's back.
ReadyHasDir == \A i \in Live :
    rows[i].state = "ready" =>
       \/ disk[rows[i].dir] # NoDir /\ disk[rows[i].dir].is = "full"
       \/ InHand(i) \/ Harmed(i, Ways)

\* A workspace that says it is cloning has a clone at work, unless the server
\* was restarted, the state could not be written, a call wrote back a row it
\* had read before the clone ended, or its failed creation left the row.
CloningHasJob == \A i \in Live :
    rows[i].state = "cloning" =>
       \/ \E t \in Threads : call[t] # Idle /\ Id(t) = i /\ call[t].op \in {"create", "retry"}
       \/ Harmed(i, {"halfway", "crossed", "left"})

\* The access mode and the allowlist of a shared workspace are those of the
\* last SetAccess, unless another write of the row crossed it or its second
\* write was lost: an old allowlist never comes back.
AccessAsAsked == \A i \in Live :
    (~managed(rows[i]) /\ \A t \in Threads : ~At(t, "access", "list") \/ Id(t) # i) =>
       \/ /\ rows[i].access = asked[i].mode
          /\ lists[i] = IF asked[i].mode = "listed" THEN asked[i].list ELSE {}
       \/ Harmed(i, {"halfway", "crossed"})

\* The rows and the disk agree: a ready workspace has its directory, a cloning
\* one its clone, and the access list is the one that was asked for, but for
\* the harm that is named (Create, runClone, Retry, Update, SetAccess, Delete).
WorkspacesOK == WorkspacesTypeOK /\ ReadyHasDir /\ CloningHasJob /\ AccessAsAsked

\* No call removes the directory of a workspace in which a session is active,
\* unless the session came after the Delete had looked or before its creation
\* had failed, another workspace has the same directory, or calls crossed.
KeptUnderSession ==
    [][\A i \in Live :
          (sess[i] \in Active /\ disk[rows[i].dir] # NoDir /\ disk'[rows[i].dir] = NoDir)
             => \E w \in {"twice", "crossed", "late", "left"} : <<i, w>> \in harm']_workspaceVars

\* What Retry says of its RemoveAll ("clear any partial leftover from the
\* failed attempt", service.go:515): it removes nothing but what a clone of
\* the same workspace left there.
LeftoverOnly ==
    [][\A t \in Threads :
          (At(t, "retry", "remove") /\ disk'[Dir(t)] # disk[Dir(t)])
             => disk[Dir(t)].by = Id(t)]_workspaceVars

=============================================================================
