----------------------------- MODULE HostProofs -----------------------------
(***************************************************************************)
(* Proofs about what lies on the disk of the host: the data directory      *)
(* (Backups), for any number of servers, restores and backups and any      *)
(* versions of their binaries, and the workspaces (Workspaces), for any    *)
(* number of calls, names, directories and rows.                           *)
(***************************************************************************)
EXTENDS Backups, Workspaces, FiniteSetTheorems, TLAPS

(***************************************************************************)
(* The data directory.                                                     *)
(***************************************************************************)

Writes   == 1 .. MaxWrites
Database == [main : SUBSET Writes, log : SUBSET Writes, version : Nat \cup {Empty}, mixed : BOOLEAN]
Archive  == [whole : BOOLEAN, data : SUBSET Writes, version : Nat, manifest : Nat]
Opens    == {"listen", "up", "stopping", "migrated", "version", "copied"}
Pends    == {"check", "aside", "log", "install"}
Stages   == {"none", "pid", "open", "unpid", "extract", "migrate", "source", "bare", "create", "finish", "over"}
               \cup Opens \cup Pends
Command  == [pc : Stages, file : Nat, copy : Archive, aside : Paths]

\* Every variable has its type, and no file is named that there is not.
BackupTypes ==
    /\ pidFile \in Servers \cup {Nobody} /\ files \in Seq(Database) /\ archive \in Archive
    /\ at \in [Paths -> 0 .. Len(files)] /\ logAt \in [Paths -> 0 .. Len(files)]
    /\ cmd \in [Procs -> Command] /\ \A p \in Procs : cmd[p].file \in 0 .. Len(files)
    /\ now \in Seconds /\ writes \subseteq Writes
    /\ mishaps \subseteq Mishaps /\ alone \subseteq Servers /\ under \subseteq Restores \X Servers

\* A database is at one path, or a restore has it in hand, and then it is as
\* the archive it came from.  Nobody has a file with nothing in it open.
PlacesOK ==
    /\ \A x, y \in Paths : at[x] = at[y] /\ at[x] # NoFile => x = y
    /\ \A p \in Procs : cmd[p].pc = "log" => p \in Restores
    /\ \A i \in 1 .. Len(files) : files[i].version = Empty => files[i].main = {} /\ files[i].log = {}
    /\ \A p \in Procs : cmd[p].pc \in Opens =>
          cmd[p].file # NoFile /\ files[cmd[p].file].version # Empty
    /\ \A p \in Procs : cmd[p].pc \in Pends =>
          /\ cmd[p].file # NoFile /\ \A x \in Paths : at[x] # cmd[p].file
          /\ \A q \in Procs : cmd[q].pc \in Pends /\ cmd[q].file = cmd[p].file => q = p
          /\ files[cmd[p].file].version = cmd[p].copy.manifest
          /\ cmd[p].pc # "check" => cmd[p].copy.manifest <= Binary[p]

\* Copies and the archive tell their version.
CopiesOK ==
    /\ archive.whole => archive.manifest = archive.version
    /\ \A p \in Procs : cmd[p].pc \in {"copied", "create", "finish"} => cmd[p].copy.manifest = cmd[p].copy.version

\* A restore between its renames.
Moving(r) == r \in Restores /\ Is(r, "log")

\* A restore is between its renames, or has been killed there.
Torn == "crashed" \in mishaps \/ \E r \in Restores : Moving(r)

\* Write w is in the database at path x, or in its log.
Kept(w, x) == at[x] # NoFile /\ w \in Recoverable(x)

\* Whoever has a database open has the one of styr.db, with its log beside it;
\* there is none between the renames of a restore, nor after a kill there; and
\* only then the log of another is found under the name.
SafeOK ==
    mishaps \subseteq {"crashed"} =>
       /\ \A p \in Procs : cmd[p].pc \in Opens => cmd[p].file = at[0] /\ logAt[0] = at[0]
       /\ Torn => at[0] = NoFile
       /\ \A r \in Restores : Moving(r) =>
             /\ "crashed" \notin mishaps
             /\ \A q \in Restores : Moving(q) => q = r
             /\ cmd[r].aside # 0 /\ at[cmd[r].aside] # NoFile
             /\ logAt[0] \in {NoFile, at[cmd[r].aside]}
       /\ ~Torn => logAt[0] \in {NoFile, at[0]}
       /\ \A i \in 1 .. Len(files) : ~files[i].mixed
       /\ \A w \in writes : \E x \in Paths : Kept(w, x)

\* A server that has run without another has the pid file as long as it runs.
SeenOK ==
    /\ \A s \in alone : cmd[s].pc \notin {"none", "over"} =>
          pidFile = s /\ \A t \in Servers \ {s} : cmd[t].pc \in {"none", "over"}
    /\ under = {}

BackupInv == BackupTypes /\ PlacesOK /\ CopiesOK /\ SafeOK /\ SeenOK

-----------------------------------------------------------------------------
(* What the steps are made of. *)

LEMMA HostNumbers ==
    /\ MaxWrites \in Nat /\ MaxSeconds \in Nat \ {0} /\ 1 \in Seconds /\ 0 \in Paths /\ 0 \notin Seconds
    /\ Seconds \subseteq Paths /\ Empty \notin Nat /\ \A p \in Procs : Binary[p] \in Nat
    /\ Servers \subseteq Procs /\ Restores \subseteq Procs /\ Copiers \subseteq Procs
BY BackupsAssumption DEF Seconds, Paths, Procs, Empty

LEMMA FreshTypes == Fresh \in Command /\ Fresh.pc = "none" /\ Fresh.file = NoFile /\ NoArchive \in Archive
<1>1. NoArchive \in Archive
  BY DEF NoArchive, Archive
<1>2. QED
  BY <1>1, HostNumbers DEF Fresh, Command, Stages, NoFile

\* A process goes on, or is over.
LEMMA Proceeding ==
    ASSUME BackupTypes, NEW p \in Procs, NEW pc \in Stages, Proceeds(p, pc)
    PROVE  \E k \in Command :
              /\ cmd' = [cmd EXCEPT ![p] = k] /\ k.pc = pc
              /\ pc # "over" => k.file = cmd[p].file /\ k.copy = cmd[p].copy /\ k.aside = cmd[p].aside
              /\ pc = "over" => k.file = NoFile
<1>0. cmd[p] \in Command
  BY DEF BackupTypes
<1>1. \A k \in Command : LET u == [k EXCEPT !.pc = pc]
                         IN  u \in Command /\ u.pc = pc /\ u.file = k.file /\ u.copy = k.copy /\ u.aside = k.aside
  BY DEF Command
<1>2. CASE pc = "over"
  <2>1. cmd' = [cmd EXCEPT ![p] = [Fresh EXCEPT !.pc = pc]]
    BY <1>2 DEF Proceeds
  <2>2. QED
    BY <1>1, <1>2, <2>1, FreshTypes
<1>3. CASE pc # "over"
  <2>1. cmd' = [cmd EXCEPT ![p] = [cmd[p] EXCEPT !.pc = pc]]
    BY <1>3 DEF Proceeds
  <2>2. QED
    BY <1>0, <1>1, <1>3, <2>1
<1>4. QED
  BY <1>2, <1>3

LEMMA CommandsMove ==
    ASSUME BackupTypes, NEW p \in Procs, NEW k \in Command, cmd' = [cmd EXCEPT ![p] = k]
    PROVE  cmd' \in [Procs -> Command] /\ cmd'[p] = k /\ \A q \in Procs : q # p => cmd'[q] = cmd[q]
BY DEF BackupTypes

Main == BackupTypes /\ PlacesOK /\ CopiesOK /\ SafeOK

\* A process goes on, or is killed; between the renames that is on record.
GoesOn(p) == \/ cmd[p].pc # "log" /\ mishaps' = mishaps
             \/ cmd[p].pc = "log" /\ mishaps' = mishaps \cup {"crashed"}

\* A process moves on and leaves the databases alone.
LEMMA OnlyMoves ==
    ASSUME Main, NEW p \in Procs, NEW k \in Command, cmd' = [cmd EXCEPT ![p] = k],
           UNCHANGED <<at, logAt, files, writes>>, alone' \subseteq Servers,
           pidFile' \in Servers \cup {Nobody}, archive' \in Archive, now' \in Seconds,
           GoesOn(p), under' \subseteq Restores \X Servers,
           archive'.whole => archive'.manifest = archive'.version,
           k.file \in 0 .. Len(files),
           k.pc \in Opens => cmd[p].pc \in Opens /\ k.file = cmd[p].file,
           k.pc \in Pends => cmd[p].pc \in Pends /\ k.file = cmd[p].file /\ k.copy = cmd[p].copy,
           k.pc \in Pends \ {"check"} => k.copy.manifest <= Binary[p],
           k.pc \in {"copied", "create", "finish"} => k.copy.manifest = k.copy.version,
           k.pc # "log"
    PROVE  Main'
<1>1. cmd' \in [Procs -> Command] /\ cmd'[p] = k /\ \A q \in Procs : q # p => cmd'[q] = cmd[q]
  BY CommandsMove DEF Main
<1>2. BackupTypes'
  <2>1. mishaps' \subseteq Mishaps
    BY DEF GoesOn, Main, BackupTypes, Mishaps
  <2>2. QED
    BY <1>1, <2>1 DEF Main, BackupTypes
<1>3. PlacesOK'
  BY <1>1 DEF Main, PlacesOK
<1>4. CopiesOK'
  BY <1>1 DEF Main, CopiesOK
<1>5. ASSUME mishaps' \subseteq {"crashed"} PROVE SafeOK'
  <2>1. \A w, x : Kept(w, x)' = Kept(w, x)
    BY DEF Kept, Recoverable
  <2>2. mishaps \subseteq {"crashed"}
    BY <1>5 DEF GoesOn
  <2>3. CASE cmd[p].pc # "log" /\ mishaps' = mishaps
    <3>1. \A r \in Restores : Moving(r)' = Moving(r) /\ (Moving(r) => cmd'[r] = cmd[r])
      BY <1>1, <2>3 DEF Moving, Is
    <3>2. Torn' = Torn
      BY <2>3, <3>1 DEF Torn
    <3>3. QED
      BY <1>1, <2>1, <2>2, <2>3, <3>1, <3>2 DEF Main, SafeOK
  <2>4. CASE cmd[p].pc = "log" /\ mishaps' = mishaps \cup {"crashed"}
    <3>1. p \in Restores /\ Moving(p)
      BY <2>4 DEF Main, PlacesOK, Moving, Is
    <3>2. at[0] = NoFile /\ \A q \in Restores : Moving(q) => q = p
      BY <2>2, <3>1 DEF Main, SafeOK, Torn
    <3>3. \A q \in Restores : ~Moving(q)'
      BY <1>1, <3>2 DEF Moving, Is
    <3>4. \A q \in Procs : cmd[q].pc \notin Opens
      BY <2>2, <3>2 DEF Main, SafeOK, PlacesOK
    <3>5. \A q \in Procs : cmd'[q].pc \notin Opens
      BY <1>1, <3>4
    <3>6. Torn'
      BY <2>4 DEF Torn
    <3>7. QED
      BY <2>1, <2>2, <3>2, <3>3, <3>5, <3>6 DEF Main, SafeOK
  <2>5. QED
    BY <2>3, <2>4 DEF GoesOn
<1>6. SafeOK'
  BY <1>5 DEF SafeOK
<1>7. QED
  BY <1>2, <1>3, <1>4, <1>6 DEF Main

\* The same of a step that is Proceeds and no more.
LEMMA OnlyProceeds ==
    ASSUME Main, NEW p \in Procs, NEW pc \in Stages, Proceeds(p, pc),
           UNCHANGED <<at, logAt, files, writes, archive, now>>, GoesOn(p), alone' \subseteq Servers,
           pidFile' \in Servers \cup {Nobody}, under' \subseteq Restores \X Servers,
           pc \in Opens => cmd[p].pc \in Opens,
           pc \in {"copied", "create", "finish"} => cmd[p].pc \in {"copied", "create", "finish"},
           pc # "log", pc \in Pends => cmd[p].pc \in Pends \ {"log"} /\ cmd[p].copy.manifest <= Binary[p]
    PROVE  Main'
<1>1. PICK k \in Command : /\ cmd' = [cmd EXCEPT ![p] = k] /\ k.pc = pc
                           /\ (pc # "over" => k.file = cmd[p].file /\ k.copy = cmd[p].copy)
                           /\ (pc = "over" => k.file = NoFile)
  BY Proceeding DEF Main
<1>2. k.file \in 0 .. Len(files)
  BY <1>1 DEF Main, BackupTypes, NoFile
<1>3. /\ archive' \in Archive /\ now' \in Seconds /\ (archive'.whole => archive'.manifest = archive'.version)
  BY DEF Main, BackupTypes, CopiesOK
<1>4. k.pc \in Opens => cmd[p].pc \in Opens /\ k.file = cmd[p].file
  BY <1>1 DEF Opens
<1>5. /\ k.pc \in Pends => cmd[p].pc \in Pends /\ k.file = cmd[p].file /\ k.copy = cmd[p].copy
      /\ k.pc \in Pends \ {"check"} => k.copy.manifest <= Binary[p]
  BY <1>1 DEF Pends
<1>6. k.pc \in {"copied", "create", "finish"} => k.copy.manifest = k.copy.version
  BY <1>1 DEF Main, CopiesOK
<1>7. UNCHANGED <<at, logAt, files, writes>> /\ k.pc # "log"
  BY <1>1
<1>8. QED
  BY <1>1, <1>2, <1>3, <1>4, <1>5, <1>6, <1>7, OnlyMoves

-----------------------------------------------------------------------------
(* serve, backup and the first steps of restore. *)

LEMMA ServeMoves ==
    ASSUME Main, NEW s \in Servers, writePIDFile(s) \/ Listen(s) \/ Signal(s) \/ removePIDFile(s)
    PROVE  Main'
<1>1. /\ s \in Procs /\ UNCHANGED <<at, logAt, files, writes, archive, now>>
      /\ mishaps' = mishaps /\ under' = under /\ pidFile' \in Servers \cup {Nobody}
      /\ alone' \subseteq Servers
  BY HostNumbers DEF writePIDFile, Listen, Signal, removePIDFile, Main, BackupTypes
<1>2. under' \subseteq Restores \X Servers
  BY <1>1 DEF Main, BackupTypes
<1>3. PICK pc \in Stages : /\ Proceeds(s, pc) /\ cmd[s].pc # "log"
                           /\ pc \in Opens => cmd[s].pc \in Opens
                           /\ pc \notin Pends \cup {"copied", "create", "finish"}
  <2>1. CASE writePIDFile(s)
    BY <2>1 DEF writePIDFile, Is, Stages, Opens, Pends
  <2>2. CASE Listen(s)
    BY <2>2 DEF Listen, Is, Stages, Opens, Pends
  <2>3. CASE Signal(s)
    BY <2>3 DEF Signal, Is, Stages, Opens, Pends
  <2>4. CASE removePIDFile(s)
    BY <2>4 DEF removePIDFile, Is, Stages, Opens, Pends
  <2>5. QED
    BY <2>1, <2>2, <2>3, <2>4
<1>4. pc # "log" /\ GoesOn(s)
  BY <1>1, <1>3 DEF Pends, GoesOn
<1>5. QED
  BY <1>1, <1>2, <1>3, <1>4, OnlyProceeds

\* A write goes into the log of the database the server has open.
LEMMA ServeKeeps ==
    ASSUME Main, NEW s \in Servers, Serve(s)
    PROVE  Main'
<1>1. PICK w \in Writes : /\ writes' = writes \cup {w}
                          /\ files' = [files EXCEPT ![cmd[s].file].log = @ \cup {w}]
  <2>1. Cardinality(writes) \in Nat /\ Cardinality(writes) < MaxWrites
    <3>0. MaxWrites \in Int /\ 1 \in Int
      BY HostNumbers
    <3>1. IsFiniteSet(1 .. MaxWrites) /\ writes \in SUBSET (1 .. MaxWrites)
      BY <3>0, FS_Interval DEF Main, BackupTypes, Writes
    <3>2. QED
      BY <3>1, FS_Subset, FS_CardinalityType DEF Serve
  <2>2. Cardinality(writes) + 1 \in Writes
    BY <2>1, HostNumbers DEF Writes
  <2>3. QED
    BY <2>2 DEF Serve
<1>2. PICK i \in 1 .. Len(files) : i = cmd[s].file
  <2>1. s \in Procs /\ cmd[s].pc \in Opens
    BY HostNumbers DEF Serve, Is, Opens
  <2>2. QED
    BY <2>1 DEF Main, BackupTypes, PlacesOK, NoFile
<1>3. /\ s \in Procs /\ cmd[s].pc \in Opens
      /\ UNCHANGED <<pidFile, at, logAt, archive, cmd, now, mishaps, alone, under>>
  BY HostNumbers DEF Serve, Is, Opens
<1>4. PICK d \in Database : /\ files' = [files EXCEPT ![i] = d] /\ d.main = files[i].main
                            /\ d.log = files[i].log \cup {w} /\ d.version = files[i].version
                            /\ d.mixed = files[i].mixed
  <2>1. files[i] \in Database
    BY DEF Main, BackupTypes
  <2>2. \A x \in Database : LET u == [x EXCEPT !.log = x.log \cup {w}]
                            IN  /\ u \in Database /\ u.main = x.main /\ u.log = x.log \cup {w}
                                /\ u.version = x.version /\ u.mixed = x.mixed
    BY DEF Database
  <2>3. files' = [files EXCEPT ![i] = [files[i] EXCEPT !.log = files[i].log \cup {w}]]
    BY <1>1, <1>2
  <2>4. QED
    BY <2>1, <2>2, <2>3
<1>5. /\ files' \in Seq(Database) /\ Len(files') = Len(files) /\ files'[i] = d
      /\ \A j \in 1 .. Len(files) : j # i => files'[j] = files[j]
  BY <1>4 DEF Main, BackupTypes
<1>6. BackupTypes'
  BY <1>1, <1>3, <1>5 DEF Main, BackupTypes
<1>7. PlacesOK'
  <2>1. \A j \in 1 .. Len(files) : files'[j].version = files[j].version
    BY <1>4, <1>5
  <2>2. \A p \in Procs : cmd[p].file # NoFile => cmd[p].file \in 1 .. Len(files)
    BY DEF Main, BackupTypes, NoFile
  <2>3. \A j \in 1 .. Len(files') : files'[j].version = Empty => files'[j].main = {} /\ files'[j].log = {}
    <3>1. files[i].version # Empty
      BY <1>2, <1>3 DEF Main, PlacesOK
    <3>2. QED
      BY <1>4, <1>5, <3>1 DEF Main, PlacesOK
  <2>4. QED
    BY <1>3, <2>1, <2>2, <2>3 DEF Main, PlacesOK
<1>8. CopiesOK'
  BY <1>3 DEF Main, CopiesOK
<1>9. SafeOK'
  <2>1. SUFFICES ASSUME mishaps \subseteq {"crashed"} PROVE SafeOK'
    BY <1>3 DEF SafeOK
  <2>2. at[0] = i /\ logAt[0] = i
    BY <1>2, <1>3, <2>1 DEF Main, SafeOK
  <2>3. (\A r : Moving(r)' = Moving(r)) /\ Torn' = Torn
    BY <1>3 DEF Moving, Is, Torn
  <2>4. \A x \in Paths : at[x] # NoFile => at[x] \in 1 .. Len(files)
    BY DEF Main, BackupTypes, NoFile
  <2>5. \A j \in 1 .. Len(files) : /\ files'[j].main = files[j].main /\ files[j].log \subseteq files'[j].log
                                   /\ files'[j].mixed = files[j].mixed
    BY <1>4, <1>5
  <2>6. \A v \in writes, x \in Paths : Kept(v, x) => Kept(v, x)'
    BY <1>3, <2>4, <2>5 DEF Kept, Recoverable
  <2>7. Kept(w, 0)'
    BY <1>2, <1>3, <1>4, <1>5, <2>2, HostNumbers DEF Kept, Recoverable, NoFile
  <2>8. \A v \in writes' : \E x \in Paths : Kept(v, x)'
    BY <1>1, <2>1, <2>6, <2>7, HostNumbers DEF Main, SafeOK
  <2>9. QED
    BY <1>3, <1>5, <2>1, <2>3, <2>5, <2>8 DEF Main, SafeOK
<1>10. QED
  BY <1>6, <1>7, <1>8, <1>9 DEF Main
-----------------------------------------------------------------------------
(* A database is opened and closed. *)

\* What is known of the file that has been opened, i, and of the others.
OpenedFile(i, version) ==
    /\ i \in 1 .. Len(files') /\ files' \in Seq(Database) /\ Len(files') \in {Len(files), Len(files) + 1}
    /\ IF at[0] = NoFile THEN i = Len(files) + 1 /\ Len(files') = i
                         ELSE i = at[0] /\ Len(files') = Len(files)
    /\ \A j \in 1 .. Len(files) : j # i => files'[j] = files[j]
    /\ at' = [at EXCEPT ![0] = i]
    /\ at[0] # NoFile => files'[i].main = files[i].main /\ files'[i].log \subseteq files[i].log
    /\ at[0] # NoFile /\ logAt[0] = i => files'[i].log = files[i].log
    /\ at[0] # NoFile /\ logAt[0] \in {NoFile, i} /\ ~files[i].mixed => ~files'[i].mixed
    /\ at[0] = NoFile => files'[i].main = {} /\ files'[i].log = {} /\ ~files'[i].mixed
    /\ version \in Nat => files'[i].version # Empty
    /\ files'[i].version = Empty => at[0] = NoFile \/ files[i].version = Empty

LEMMA Opening ==
    ASSUME Main, NEW version \in Nat \cup {Empty}, OpenFile(version)
    PROVE  OpenedFile(ToOpen, version)
<1> DEFINE made == Append(files, EmptyFile)
           fs   == IF at[0] = NoFile THEN made ELSE files
           i    == ToOpen
<1>1. files' = Opened(fs, i, version) /\ at' = [at EXCEPT ![0] = i]
  BY DEF OpenFile
<1>2. EmptyFile \in Database
  BY DEF EmptyFile, Database
<1>3. /\ files \in Seq(Database) /\ Len(files) \in Nat /\ made \in Seq(Database) /\ Len(made) = Len(files) + 1
      /\ made[Len(files) + 1] = EmptyFile /\ \A j \in 1 .. Len(files) : made[j] = files[j]
  <2>1. files \in Seq(Database)
    BY DEF Main, BackupTypes
  <2>2. QED
    BY <1>2, <2>1
<1>4. at[0] \in 0 .. Len(files)
  BY HostNumbers DEF Main, BackupTypes
<1>5. /\ fs \in Seq(Database) /\ i \in 1 .. Len(fs)
      /\ at[0] = NoFile => i = Len(files) + 1 /\ Len(fs) = i /\ fs[i] = EmptyFile
      /\ at[0] # NoFile => i = at[0] /\ fs = files
      /\ \A j \in 1 .. Len(files) : fs[j] = files[j]
  <2> HIDE DEF made
  <2>1. QED
    BY <1>3, <1>4 DEF NoFile, ToOpen
<1> HIDE DEF made, fs, i
<1>6. PICK d \in Database :
         /\ Opened(fs, i, version) = [fs EXCEPT ![i] = d] /\ d.main = fs[i].main
         /\ d.log = IF logAt[0] = i THEN fs[i].log ELSE {}
         /\ d.version = IF fs[i].version < version THEN version ELSE fs[i].version
         /\ d.mixed = (fs[i].mixed \/ (fs[i].version # Empty /\ logAt[0] \notin {NoFile, i}))
  <2> DEFINE m == fs[i].mixed \/ (fs[i].version # Empty /\ logAt[0] \notin {NoFile, i})
             l == IF logAt[0] = i THEN fs[i].log ELSE {}
             v == IF fs[i].version < version THEN version ELSE fs[i].version
  <2> DEFINE d == [main |-> fs[i].main, log |-> l, version |-> v, mixed |-> m]
  <2>1. fs[i] \in Database
    BY <1>5
  <2>2. fs[i].main \in SUBSET Writes /\ fs[i].log \in SUBSET Writes /\ fs[i].version \in Nat \cup {Empty}
    BY <2>1 DEF Database
  <2>3. l \in SUBSET Writes /\ v \in Nat \cup {Empty}
    BY <2>1, <2>2
  <2>4. m \in BOOLEAN
    BY Zenon
  <2>5. Opened(fs, i, version) = [fs EXCEPT ![i] = d]
    BY Zenon DEF Opened
  <2> HIDE DEF m, l, v
  <2>8. d \in Database /\ d.main = fs[i].main /\ d.log = l /\ d.version = v
    BY <2>2, <2>3, <2>4 DEF Database
  <2>9. d.mixed = m
    BY Zenon
  <2> HIDE DEF d
  <2>10. /\ d \in Database /\ Opened(fs, i, version) = [fs EXCEPT ![i] = d]
         /\ d.main = fs[i].main /\ d.log = l /\ d.version = v /\ d.mixed = m
    BY <2>5, <2>8, <2>9
  <2>11. QED
    BY <2>10, Zenon DEF m, l, v
<1>8. /\ files' \in Seq(Database) /\ Len(files') = Len(fs) /\ files'[i] = d
      /\ \A j \in 1 .. Len(fs) : j # i => files'[j] = fs[j]
  BY <1>1, <1>5, <1>6
<1>9. fs[i].version \in Nat \cup {Empty}
  <2>1. fs[i] \in Database
    BY <1>5
  <2>2. QED
    BY <2>1 DEF Database
<1>10. /\ version \in Nat => files'[i].version # Empty
       /\ files'[i].version = Empty => fs[i].version = Empty
  BY <1>6, <1>8, <1>9 DEF Empty
<1>11. /\ files'[i].main = fs[i].main /\ (logAt[0] = i => files'[i].log = fs[i].log)
       /\ files'[i].log = fs[i].log \/ files'[i].log = {}
  BY <1>6, <1>8
<1>12. /\ logAt[0] \in {NoFile, i} /\ ~fs[i].mixed => ~files'[i].mixed
       /\ fs[i].version = Empty /\ ~fs[i].mixed => ~files'[i].mixed
  BY <1>6, <1>8, Zenon
<1>13. EmptyFile.main = {} /\ EmptyFile.log = {} /\ EmptyFile.version = Empty /\ ~EmptyFile.mixed
  BY DEF EmptyFile
<1>14. CASE at[0] = NoFile
  BY <1>1, <1>3, <1>5, <1>8, <1>10, <1>11, <1>12, <1>13, <1>14 DEF OpenedFile, i
<1>15. CASE at[0] # NoFile
  BY <1>1, <1>3, <1>5, <1>8, <1>10, <1>11, <1>12, <1>15 DEF OpenedFile, i
<1>16. QED
  BY <1>14, <1>15

LEMMA OpenMishap ==
    ASSUME Main, NEW version, OpenFile(version)
    PROVE  /\ mishaps \subseteq mishaps' /\ mishaps' \subseteq Mishaps
           /\ mishaps' \subseteq {"crashed"} => mishaps \subseteq {"crashed"} /\ ~Torn
<1>1. mishaps' = mishaps \cup Between
  BY DEF OpenFile
<1>2. /\ Between \subseteq {"raced", "reused"} /\ ("crashed" \in mishaps => "reused" \in Between)
      /\ (\E r \in Restores : Moving(r)) => "raced" \in Between
  BY DEF Between, Moving
<1>3. QED
  BY <1>1, <1>2 DEF Main, BackupTypes, Mishaps, Torn

\* A log that is applied is that of the database, one that is deleted nobody's.
LEMMA OpenKeeps ==
    ASSUME Main, NEW p \in Procs, NEW k \in Command, cmd' = [cmd EXCEPT ![p] = k],
           NEW version \in Nat \cup {Empty}, OpenFile(version), cmd[p].pc \in {"open", "migrate", "source"},
           \/ /\ k.pc \in {"listen", "migrated", "version"} /\ k.file = ToOpen
              /\ files'[ToOpen].version # Empty /\ logAt' = [logAt EXCEPT ![0] = ToOpen]
           \/ /\ k.pc = "bare" /\ k.file = cmd[p].file
              /\ files'[ToOpen].version = Empty /\ logAt' = [logAt EXCEPT ![0] = NoFile],
           UNCHANGED <<pidFile, archive, now, writes, alone, under>>
    PROVE  Main'
<1> DEFINE i == ToOpen
           holds == k.pc \in {"listen", "migrated", "version"}
<1>0. /\ mishaps \subseteq mishaps' /\ mishaps' \subseteq Mishaps
      /\ mishaps' \subseteq {"crashed"} => mishaps \subseteq {"crashed"} /\ ~Torn
  BY OpenMishap
<1>1. /\ i \in 1 .. Len(files') /\ files' \in Seq(Database) /\ Len(files') \in {Len(files), Len(files) + 1}
      /\ IF at[0] = NoFile THEN i = Len(files) + 1 /\ Len(files') = i
                           ELSE i = at[0] /\ Len(files') = Len(files)
      /\ \A j \in 1 .. Len(files) : j # i => files'[j] = files[j]
      /\ at' = [at EXCEPT ![0] = i]
      /\ at[0] # NoFile => files'[i].main = files[i].main /\ files'[i].log \subseteq files[i].log
      /\ at[0] # NoFile /\ logAt[0] = i => files'[i].log = files[i].log
      /\ at[0] # NoFile /\ logAt[0] \in {NoFile, i} /\ ~files[i].mixed => ~files'[i].mixed
      /\ at[0] = NoFile => files'[i].main = {} /\ files'[i].log = {} /\ ~files'[i].mixed
      /\ files'[i].version = Empty => at[0] = NoFile \/ files[i].version = Empty
      /\ cmd' = [cmd EXCEPT ![p] = k]
  BY Opening DEF OpenedFile
<1>1a. /\ k.pc \in {"listen", "migrated", "version", "bare"} /\ (k.pc \in Opens <=> holds)
       /\ logAt' = [logAt EXCEPT ![0] = IF holds THEN i ELSE NoFile]
       /\ (holds => k.file = i /\ files'[i].version # Empty)
       /\ (~holds => k.file = cmd[p].file /\ files'[i].version = Empty)
  BY DEF Opens
<1> HIDE DEF i
<1>2. cmd' \in [Procs -> Command] /\ cmd'[p] = k /\ \A q \in Procs : q # p => cmd'[q] = cmd[q]
  BY <1>1, CommandsMove DEF Main
<1>3. /\ files \in Seq(Database) /\ Len(files) \in Nat /\ Len(files') \in Nat /\ i \in Nat /\ i # NoFile
      /\ at \in [Paths -> 0 .. Len(files)] /\ logAt \in [Paths -> 0 .. Len(files)]
      /\ \A q \in Procs : cmd[q].file \in 0 .. Len(files)
  BY <1>1 DEF Main, BackupTypes, NoFile
<1>4. Len(files) <= Len(files')
  BY <1>1, <1>3
<1>5. /\ at' \in [Paths -> 0 .. Len(files')] /\ logAt' \in [Paths -> 0 .. Len(files')]
      /\ at'[0] = i /\ logAt'[0] = IF holds THEN i ELSE NoFile
      /\ \A x \in Paths : x # 0 => at'[x] = at[x] /\ logAt'[x] = logAt[x]
  <2> HIDE DEF holds
  <2>1. QED
    BY <1>1, <1>1a, <1>3, <1>4, HostNumbers DEF NoFile
<1>6. BackupTypes'
  <2>1. \A q \in Procs : cmd'[q].file \in 0 .. Len(files')
    BY <1>1, <1>1a, <1>2, <1>3, <1>4
  <2>2. QED
    BY <1>0, <1>1, <1>2, <1>5, <2>1 DEF Main, BackupTypes
<1>7. PlacesOK'
  <2>1. at[0] # NoFile => at' = at /\ i = at[0]
    BY <1>1, <1>3, <1>5
  <2>2. at[0] = NoFile => i = Len(files) + 1
    BY <1>1
  <2>3. \A x, y \in Paths : at'[x] = at'[y] /\ at'[x] # NoFile => x = y
    <3>1. CASE at[0] # NoFile
      BY <2>1, <3>1 DEF Main, PlacesOK
    <3>2. CASE at[0] = NoFile
      <4>1. \A x \in Paths : x # 0 => at'[x] # i
        BY <1>3, <1>5, <2>2, <3>2
      <4>2. QED
        BY <1>5, <4>1 DEF Main, PlacesOK
    <3>3. QED
      BY <3>1, <3>2
  <2>4. \A q \in Procs : cmd'[q].pc \in Opens => cmd'[q].file # NoFile /\ files'[cmd'[q].file].version # Empty
    <3>1. ASSUME NEW q \in Procs, q # p, cmd[q].pc \in Opens
          PROVE  cmd[q].file # NoFile /\ files'[cmd[q].file].version # Empty
      <4>1. cmd[q].file # NoFile /\ cmd[q].file \in 1 .. Len(files) /\ files[cmd[q].file].version # Empty
        BY <1>3, <3>1 DEF Main, PlacesOK, NoFile
      <4>2. cmd[q].file = i => at[0] # NoFile
        BY <1>1, <1>3, <4>1
      <4>3. QED
        BY <1>1, <4>1, <4>2
    <3>2. QED
      BY <1>1a, <1>2, <1>3, <3>1
  <2>4a. \A j \in 1 .. Len(files') : files'[j].version = Empty => files'[j].main = {} /\ files'[j].log = {}
    <3>1. SUFFICES ASSUME NEW j \in 1 .. Len(files'), files'[j].version = Empty
                   PROVE  files'[j].main = {} /\ files'[j].log = {}
      OBVIOUS
    <3>2. CASE j = i /\ at[0] = NoFile
      BY <1>1, <3>2
    <3>3. CASE j = i /\ at[0] # NoFile
      <4>1. files[i].version = Empty /\ i \in 1 .. Len(files)
        BY <1>1, <3>1, <3>3
      <4>2. files[i].main = {} /\ files[i].log = {}
        BY <4>1 DEF Main, PlacesOK
      <4>3. QED
        BY <1>1, <3>3, <4>2
    <3>4. CASE j # i
      <4>1. j \in 1 .. Len(files)
        BY <1>1, <1>3, <3>4
      <4>2. QED
        BY <1>1, <3>1, <3>4, <4>1 DEF Main, PlacesOK
    <3>5. QED
      BY <3>2, <3>3, <3>4
  <2>4b. \A q \in Procs : cmd'[q].pc = "log" => q \in Restores
    BY <1>1a, <1>2 DEF Main, PlacesOK
  <2>5. ASSUME NEW q \in Procs, cmd'[q].pc \in Pends
        PROVE  q # p /\ cmd'[q] = cmd[q] /\ cmd[q].pc \in Pends /\ cmd[q].file # i
               /\ cmd[q].file \in 1 .. Len(files)
    <3>1. q # p
      BY <1>1a, <1>2, <2>5 DEF Pends
    <3>2. cmd'[q] = cmd[q] /\ cmd[q].pc \in Pends
      BY <1>2, <2>5, <3>1
    <3>3. cmd[q].file # NoFile /\ cmd[q].file # at[0]
      BY <3>2, HostNumbers DEF Main, PlacesOK
    <3>4. cmd[q].file # i
      BY <1>3, <2>1, <2>2, <3>3
    <3>5. QED
      BY <1>3, <3>1, <3>2, <3>3, <3>4 DEF NoFile
  <2>6. ASSUME NEW q \in Procs, cmd'[q].pc \in Pends
        PROVE  /\ cmd'[q].file # NoFile /\ \A x \in Paths : at'[x] # cmd'[q].file
               /\ \A o \in Procs : cmd'[o].pc \in Pends /\ cmd'[o].file = cmd'[q].file => o = q
               /\ files'[cmd'[q].file].version = cmd'[q].copy.manifest
               /\ cmd'[q].pc # "check" => cmd'[q].copy.manifest <= Binary[q]
    <3>1. cmd'[q] = cmd[q] /\ cmd[q].pc \in Pends /\ cmd[q].file # i /\ cmd[q].file \in 1 .. Len(files)
      BY <2>5, <2>6
    <3>2. \A x \in Paths : at'[x] # cmd[q].file
      BY <1>5, <3>1 DEF Main, PlacesOK
    <3>3. \A o \in Procs : cmd'[o].pc \in Pends /\ cmd'[o].file = cmd[q].file => o = q
      BY <2>5, <3>1 DEF Main, PlacesOK
    <3>4. files'[cmd[q].file] = files[cmd[q].file]
      BY <1>1, <3>1
    <3>5. QED
      BY <3>1, <3>2, <3>3, <3>4 DEF Main, PlacesOK
  <2>7. QED
    BY <2>3, <2>4, <2>4a, <2>4b, <2>6 DEF PlacesOK
<1>8. CopiesOK'
  BY <1>1a, <1>2 DEF Main, CopiesOK
<1>9. ASSUME mishaps' \subseteq {"crashed"} PROVE SafeOK'
  <2>1. mishaps \subseteq {"crashed"} /\ ~Torn
    BY <1>0, <1>9
  <2>2. (\A r \in Restores : ~Moving(r)') /\ ~Torn'
    <3>1. \A r \in Restores : ~Moving(r)'
      BY <1>1a, <1>2, <2>1, HostNumbers DEF Moving, Is, Torn
    <3>2. "crashed" \notin mishaps'
      <4>1. mishaps = {}
        BY <2>1 DEF Torn
      <4>2. mishaps' = mishaps \cup Between /\ "crashed" \notin Between
        BY DEF OpenFile, Between
      <4>3. QED
        BY <4>1, <4>2
    <3>3. QED
      BY <3>1, <3>2 DEF Torn
  <2>3. logAt[0] \in {NoFile, at[0]}
    BY <2>1 DEF Main, SafeOK
  <2>4. \A j \in 1 .. Len(files) : ~files[j].mixed
    BY <2>1 DEF Main, SafeOK
  <2>5. \A q \in Procs : cmd'[q].pc \in Opens => cmd'[q].file = at'[0] /\ logAt'[0] = at'[0]
    <3>1. ASSUME NEW q \in Procs, q # p, cmd'[q].pc \in Opens PROVE cmd'[q].file = i
      <4>1. cmd[q].pc \in Opens /\ cmd'[q] = cmd[q]
        BY <1>2, <3>1
      <4>2. cmd[q].file = at[0] /\ cmd[q].file # NoFile
        BY <2>1, <4>1 DEF Main, SafeOK, PlacesOK
      <4>3. QED
        BY <1>1, <4>1, <4>2
    <3>2. ASSUME NEW q \in Procs, q # p, cmd'[q].pc \in Opens PROVE holds
      <4>1. cmd[q].pc \in Opens
        BY <1>2, <3>2
      <4>2. cmd[q].file = at[0] /\ at[0] # NoFile /\ files[at[0]].version # Empty
        BY <2>1, <4>1 DEF Main, SafeOK, PlacesOK
      <4>3. QED
        BY <1>1, <1>1a, <4>2
    <3>3. QED
      BY <1>1a, <1>2, <1>5, <3>1, <3>2
  <2>6. \A j \in 1 .. Len(files') : ~files'[j].mixed
    <3>1. ~files'[i].mixed
      <4>1. CASE at[0] = NoFile
        BY <1>1, <4>1
      <4>2. CASE at[0] # NoFile
        <5>1. i = at[0] /\ i \in 1 .. Len(files)
          BY <1>1, <4>2
        <5>2. QED
          BY <1>1, <2>3, <2>4, <4>2, <5>1
      <4>3. QED
        BY <4>1, <4>2
    <3>2. ASSUME NEW j \in 1 .. Len(files'), j # i PROVE ~files'[j].mixed
      <4>1. j \in 1 .. Len(files)
        BY <1>1, <1>3, <3>2
      <4>2. QED
        BY <1>1, <2>4, <3>2, <4>1
    <3>3. QED
      BY <3>1, <3>2
  <2>7. ASSUME NEW w, NEW x \in Paths, Kept(w, x) PROVE Kept(w, x)'
    <3>1. at[x] # NoFile /\ at[x] \in 1 .. Len(files)
      BY <1>3, <2>7 DEF Kept, NoFile
    <3>2. w \in files[at[x]].main \/ (w \in files[at[x]].log /\ logAt[x] = at[x])
      BY <2>3, <2>7, <3>1 DEF Kept, Recoverable
    <3>3. CASE x = 0
      <4>1. i = at[0]
        BY <1>1, <3>1, <3>3
      <4>2. files'[i].main = files[i].main /\ (logAt[0] = i => files'[i].log = files[i].log)
        BY <1>1, <3>1, <3>3, <4>1
      <4>3. CASE w \in files[at[x]].main
        BY <1>3, <1>5, <3>3, <4>1, <4>2, <4>3 DEF Kept, Recoverable
      <4>4. CASE w \in files[at[x]].log /\ logAt[x] = at[x]
        <5>1. files[i].version # Empty
          BY <3>1, <3>3, <4>1, <4>4 DEF Main, PlacesOK
        <5>2. holds
          BY <1>1, <1>1a, <3>1, <3>3, <5>1
        <5>3. QED
          BY <1>3, <1>5, <3>3, <4>1, <4>2, <4>4, <5>2 DEF Kept, Recoverable
      <4>5. QED
        BY <3>2, <4>3, <4>4
    <3>4. CASE x # 0
      <4>1. at[x] # i
        <5>1. CASE at[0] = NoFile
          BY <1>1, <1>3, <3>1, <5>1
        <5>2. CASE at[0] # NoFile
          BY <1>1, <3>1, <3>4, <5>2, HostNumbers DEF Main, PlacesOK
        <5>3. QED
          BY <5>1, <5>2
      <4>2. files'[at[x]] = files[at[x]] /\ at'[x] = at[x] /\ logAt'[x] = logAt[x]
        BY <1>1, <1>5, <3>1, <3>4, <4>1
      <4>3. QED
        BY <3>1, <3>2, <4>2 DEF Kept, Recoverable
    <3>5. QED
      BY <3>3, <3>4
  <2>8. \A w \in writes' : \E x \in Paths : Kept(w, x)'
    BY <2>1, <2>7 DEF Main, SafeOK
  <2>9. QED
    BY <1>5, <2>2, <2>5, <2>6, <2>8 DEF SafeOK
<1>10. SafeOK'
  BY <1>9 DEF SafeOK
<1>11. QED
  BY <1>6, <1>7, <1>8, <1>10 DEF Main

\* The last to close a database leaves it whole without its log.
LEMMA CloseKeeps ==
    ASSUME Main, NEW p \in Procs, NEW then \in {"unpid", "over", "create"}, CloseDB(p, then),
           cmd[p].pc \in {"stopping", "migrated", "copied"}, then = "create" => cmd[p].pc = "copied",
           UNCHANGED <<pidFile, at, archive, now, writes, mishaps, alone, under>>
    PROVE  Main'
<1>1. /\ then \in Stages /\ Proceeds(p, then) /\ cmd[p].pc \in Opens /\ cmd[p].pc # "log"
      /\ then \notin Opens /\ then \notin Pends /\ then # "log"
      /\ then \in {"copied", "create", "finish"} => cmd[p].pc = "copied"
  BY DEF Stages, Opens, Pends, CloseDB
<1>2. /\ UNCHANGED <<archive, now>> /\ mishaps' = mishaps /\ GoesOn(p) /\ alone' \subseteq Servers
      /\ pidFile' \in Servers \cup {Nobody} /\ under' \subseteq Restores \X Servers
  BY <1>1 DEF Main, BackupTypes, GoesOn
<1>3. CASE UNCHANGED <<files, logAt>>
  <2>1. UNCHANGED <<at, logAt, files, writes, archive, now>>
    BY <1>3
  <2>2. QED
    BY <1>1, <1>2, <2>1, OnlyProceeds
<1>4. CASE ~UNCHANGED <<files, logAt>>
  <2>1. PICK i \in 1 .. Len(files) : i = cmd[p].file
    BY <1>1 DEF Main, BackupTypes, PlacesOK, NoFile
  <2>2. /\ OpenOf(i) \subseteq {p} /\ logAt' = [logAt EXCEPT ![0] = NoFile]
        /\ files' = [files EXCEPT ![i] = [main |-> files[i].main \cup files[i].log, log |-> {},
                                          version |-> files[i].version, mixed |-> files[i].mixed]]
    BY <1>4, <2>1 DEF CloseDB
  <2>3. PICK d \in Database : /\ files' = [files EXCEPT ![i] = d] /\ d.main = files[i].main \cup files[i].log
                              /\ d.version = files[i].version /\ d.mixed = files[i].mixed
    <3>1. files[i] \in Database
      BY DEF Main, BackupTypes
    <3>2. \A x \in Database : LET u == [main |-> x.main \cup x.log, log |-> {},
                                        version |-> x.version, mixed |-> x.mixed]
                              IN  /\ u \in Database /\ u.main = x.main \cup x.log
                                  /\ u.version = x.version /\ u.mixed = x.mixed
      BY DEF Database
    <3>3. QED
      BY <2>2, <3>1, <3>2
  <2>4. /\ files' \in Seq(Database) /\ Len(files') = Len(files) /\ files'[i] = d
        /\ \A j \in 1 .. Len(files) : j # i => files'[j] = files[j]
    BY <2>3 DEF Main, BackupTypes
  <2>5. /\ logAt' \in [Paths -> 0 .. Len(files)] /\ logAt'[0] = NoFile
        /\ \A x \in Paths : x # 0 => logAt'[x] = logAt[x]
    BY <2>2, HostNumbers DEF Main, BackupTypes, NoFile
  <2>6. PICK k \in Command : /\ cmd' = [cmd EXCEPT ![p] = k] /\ k.pc = then /\ k.file \in 0 .. Len(files)
                             /\ then # "over" => k.copy = cmd[p].copy
    <3>1. PICK k \in Command : /\ cmd' = [cmd EXCEPT ![p] = k] /\ k.pc = then
                               /\ (then # "over" => k.file = cmd[p].file /\ k.copy = cmd[p].copy)
                               /\ (then = "over" => k.file = NoFile)
      BY <1>1, Proceeding DEF Main
    <3>2. k.file \in 0 .. Len(files)
      BY <3>1 DEF Main, BackupTypes, NoFile
    <3>3. QED
      BY <3>1, <3>2
  <2>7. cmd' \in [Procs -> Command] /\ cmd'[p] = k /\ \A q \in Procs : q # p => cmd'[q] = cmd[q]
    BY <2>6, CommandsMove DEF Main
  <2>8. BackupTypes'
    <3>1. \A q \in Procs : cmd'[q].file \in 0 .. Len(files')
      BY <2>4, <2>6, <2>7 DEF Main, BackupTypes
    <3>2. QED
      BY <1>2, <2>4, <2>5, <2>7, <3>1 DEF Main, BackupTypes
  <2>9. PlacesOK'
    <3>1. \A j \in 1 .. Len(files) : files'[j].version = files[j].version
      BY <2>3, <2>4
    <3>2. \A q \in Procs : cmd[q].file # NoFile => cmd[q].file \in 1 .. Len(files)
      BY DEF Main, BackupTypes, NoFile
    <3>3. \A q \in Procs : cmd'[q].pc \in Pends \cup Opens => cmd'[q] = cmd[q]
      BY <1>1, <2>6, <2>7
    <3>4. \A j \in 1 .. Len(files') : files'[j].version = Empty => files'[j].main = {} /\ files'[j].log = {}
      <4>1. files[i].version # Empty
        BY <1>1, <2>1 DEF Main, PlacesOK
      <4>2. QED
        BY <2>3, <2>4, <4>1 DEF Main, PlacesOK
    <3>5. \A q \in Procs : cmd'[q].pc = "log" => q \in Restores
      BY <1>1, <2>6, <2>7 DEF Main, PlacesOK
    <3>6. QED
      BY <3>1, <3>2, <3>3, <3>4, <3>5 DEF Main, PlacesOK
  <2>10. CopiesOK'
    BY <1>1, <2>6, <2>7 DEF Main, CopiesOK
  <2>11. ASSUME mishaps \subseteq {"crashed"} PROVE SafeOK'
    <3>0. i = at[0] /\ logAt[0] = i /\ i # NoFile
      BY <1>1, <2>1, <2>11, HostNumbers DEF Main, SafeOK, PlacesOK
    <3>1. i = at[0] /\ logAt[0] = i /\ (\A r \in Restores : ~Moving(r)) /\ ~Torn
      BY <2>11, <3>0 DEF Main, SafeOK, Torn
    <3>2. \A q \in Procs : cmd'[q].pc \notin Opens
      <4>1. SUFFICES ASSUME NEW q \in Procs, cmd'[q].pc \in Opens PROVE FALSE
        OBVIOUS
      <4>2. q # p /\ cmd[q].pc \in Opens
        BY <1>1, <2>6, <2>7, <4>1
      <4>3. cmd[q].file = i
        BY <2>11, <3>1, <4>2 DEF Main, SafeOK
      <4>4. q \in OpenOf(i)
        BY <4>2, <4>3 DEF OpenOf, HasOpen, Opens
      <4>5. QED
        BY <2>2, <4>2, <4>4
    <3>3. (\A r \in Restores : ~Moving(r)') /\ ~Torn'
      BY <1>1, <1>2, <2>6, <2>7, <3>1, HostNumbers DEF Moving, Is, Torn
    <3>4. \A j \in 1 .. Len(files') : ~files'[j].mixed
      BY <2>3, <2>4, <2>11 DEF Main, SafeOK
    <3>5. ASSUME NEW w, NEW x \in Paths, Kept(w, x) PROVE Kept(w, x)'
      <4>1. at[x] # NoFile /\ at[x] \in 1 .. Len(files)
        BY <3>5 DEF Kept, Main, BackupTypes, NoFile
      <4>2. w \in files[at[x]].main \/ (w \in files[at[x]].log /\ logAt[x] = at[x])
        BY <3>0, <3>5 DEF Kept, Recoverable
      <4>3. CASE x = 0
        BY <2>3, <2>4, <3>1, <4>1, <4>2, <4>3 DEF Kept, Recoverable
      <4>4. CASE x # 0
        <5>1. at[x] # i
          BY <3>1, <4>1, <4>4, HostNumbers DEF Main, PlacesOK
        <5>2. QED
          BY <2>4, <2>5, <4>1, <4>2, <4>4, <5>1 DEF Kept, Recoverable
      <4>5. QED
        BY <4>3, <4>4
    <3>6. \A w \in writes' : \E x \in Paths : Kept(w, x)'
      BY <2>11, <3>5 DEF Main, SafeOK
    <3>7. QED
      BY <2>5, <3>2, <3>3, <3>4, <3>6 DEF SafeOK
  <2>12. SafeOK'
    BY <2>11 DEF SafeOK
  <2>13. QED
    BY <2>8, <2>9, <2>10, <2>12 DEF Main
<1>5. QED
  BY <1>3, <1>4

\* serve, backup and restore open and close.
LEMMA OpenDBKeeps ==
    ASSUME Main, NEW p \in Procs, NEW then \in {"listen", "migrated"}, OpenDB(p, then),
           cmd[p].pc \in {"open", "migrate"}, UNCHANGED <<pidFile, archive, now, writes, alone, under>>
    PROVE  Main'
<1>1. Binary[p] \in Nat /\ OpenFile(Binary[p]) /\ logAt' = [logAt EXCEPT ![0] = ToOpen]
  BY HostNumbers DEF OpenDB
<1>2. ToOpen \in Nat /\ files'[ToOpen].version # Empty
  BY <1>1, Opening DEF OpenedFile
<1>3. PICK k \in Command : cmd' = [cmd EXCEPT ![p] = k] /\ k.pc = then /\ k.file = ToOpen
  <2>1. cmd[p] \in Command /\ then \in Stages
    BY DEF Main, BackupTypes, Stages, Opens
  <2>2. \A c \in Command : LET u == [c EXCEPT !.pc = then, !.file = ToOpen]
                           IN  u \in Command /\ u.pc = then /\ u.file = ToOpen
    BY <1>2, <2>1 DEF Command
  <2>3. cmd' = [cmd EXCEPT ![p] = [cmd[p] EXCEPT !.pc = then, !.file = ToOpen]]
    BY DEF OpenDB, Main, BackupTypes
  <2>4. QED
    BY <2>1, <2>2, <2>3
<1>4. QED
  BY <1>1, <1>2, <1>3, OpenKeeps

LEMMA OpensAndCloses ==
    ASSUME Main, NEW p \in Procs,
           \/ p \in Servers /\ (ServeOpen(p) \/ ServeCloses(p))
           \/ p \in Restores /\ (Migrate(p) \/ RestoreCloses(p))
           \/ p \in Copiers /\ BackupCloses(p)
    PROVE  Main'
<1>1. CASE ServeOpen(p)
  <2>1. cmd[p].pc = "open" /\ UNCHANGED <<pidFile, archive, now, writes, alone, under>>
    BY <1>1 DEF ServeOpen, Is
  <2>2. CASE OpenDB(p, "listen")
    BY <2>1, <2>2, OpenDBKeeps
  <2>3. CASE ~OpenDB(p, "listen")
    <3>1. /\ Proceeds(p, "unpid") /\ UNCHANGED <<at, logAt, files, writes, archive, now>> /\ mishaps' = mishaps
          /\ cmd[p].pc # "log"
      BY <1>1, <2>1, <2>3 DEF ServeOpen
    <3>2. pidFile' \in Servers \cup {Nobody} /\ under' \subseteq Restores \X Servers /\ alone' \subseteq Servers /\ GoesOn(p)
      BY <2>1, <3>1 DEF Main, BackupTypes, GoesOn
    <3>3. "unpid" \in Stages /\ "unpid" \notin Opens /\ "unpid" \notin Pends
      BY DEF Stages, Opens, Pends
    <3>4. QED
      BY <3>1, <3>2, <3>3, OnlyProceeds
  <2>4. QED
    BY <2>2, <2>3
<1>2. CASE ServeCloses(p)
  BY <1>2, CloseKeeps DEF ServeCloses, Is
<1>3. CASE Migrate(p)
  BY <1>3, OpenDBKeeps DEF Migrate, Is
<1>4. CASE RestoreCloses(p)
  BY <1>4, CloseKeeps DEF RestoreCloses, Is
<1>5. CASE BackupCloses(p)
  <2>1. PICK then \in {"create", "over"} : CloseDB(p, then)
    BY <1>5 DEF BackupCloses
  <2>2. QED
    BY <1>5, <2>1, CloseKeeps DEF BackupCloses, Is
<1>6. QED
  BY <1>1, <1>2, <1>3, <1>4, <1>5

-----------------------------------------------------------------------------
(* backup, and what restore does before it touches the directory. *)

LEMMA VacuumKeeps ==
    ASSUME Main, NEW b \in Copiers, vacuumBackup(b)
    PROVE  Main'
<1>1. /\ b \in Procs /\ cmd[b] \in Command /\ cmd[b].pc = "source" /\ OpenFile(Empty)
      /\ UNCHANGED <<pidFile, archive, now, writes, alone, under>>
  BY HostNumbers DEF vacuumBackup, Is, Main, BackupTypes
<1>2. ToOpen \in Nat /\ files'[ToOpen] \in Database
  <2>1. Empty \in Nat \cup {Empty}
    OBVIOUS
  <2>2. ToOpen \in 1 .. Len(files') /\ files' \in Seq(Database)
    BY <1>1, <2>1, Opening DEF OpenedFile
  <2>3. QED
    BY <2>2
<1> DEFINE d == files'[ToOpen]
<1>3. CASE d.version = Empty /\ logAt' = [logAt EXCEPT ![0] = NoFile] /\ cmd' = [cmd EXCEPT ![b].pc = "bare"]
  <2>1. \A x \in Command : LET u == [x EXCEPT !.pc = "bare"] IN u \in Command /\ u.pc = "bare" /\ u.file = x.file
    BY DEF Command, Stages
  <2>2. cmd' = [cmd EXCEPT ![b] = [cmd[b] EXCEPT !.pc = "bare"]]
    BY <1>3 DEF Main, BackupTypes
  <2>3. PICK k \in Command : cmd' = [cmd EXCEPT ![b] = k] /\ k.pc = "bare" /\ k.file = cmd[b].file
    BY <1>1, <2>1, <2>2
  <2>4. QED
    BY <1>1, <1>3, <2>3, OpenKeeps
<1>4. CASE /\ d.version # Empty /\ logAt' = [logAt EXCEPT ![0] = ToOpen]
           /\ cmd' = [cmd EXCEPT ![b].pc = "version", ![b].file = ToOpen,
                                   ![b].copy = [NoArchive EXCEPT !.data = d.main \cup d.log,
                                                                 !.version = d.version]]
  <2> DEFINE c == [NoArchive EXCEPT !.data = d.main \cup d.log, !.version = d.version]
  <2>1. c \in Archive
    <3>1. d.main \cup d.log \in SUBSET Writes /\ d.version \in Nat
      BY <1>2, <1>4 DEF Database
    <3> HIDE DEF d
    <3>2. QED
      BY <3>1 DEF NoArchive, Archive
  <2>2. cmd' = [cmd EXCEPT ![b] = [cmd[b] EXCEPT !.pc = "version", !.file = ToOpen, !.copy = c]]
    BY <1>1, <1>4 DEF Main, BackupTypes
  <2> HIDE DEF c
  <2>3. \A x \in Command : LET u == [x EXCEPT !.pc = "version", !.file = ToOpen, !.copy = c]
                           IN  u \in Command /\ u.pc = "version" /\ u.file = ToOpen
    BY <1>2, <2>1 DEF Command, Stages, Opens
  <2>4. PICK k \in Command : cmd' = [cmd EXCEPT ![b] = k] /\ k.pc = "version" /\ k.file = ToOpen
    BY <1>1, <2>2, <2>3
  <2>5. QED
    BY <1>1, <1>4, <2>4, OpenKeeps
<1>5. QED
  BY <1>3, <1>4 DEF vacuumBackup

LEMMA SourceKeeps ==
    ASSUME Main, NEW b \in Copiers, StatSource(b)
    PROVE  Main'
<1>1. /\ b \in Procs /\ cmd[b].pc = "none" /\ GoesOn(b) /\ UNCHANGED <<at, logAt, files, writes, archive, now>>
      /\ pidFile' \in Servers \cup {Nobody} /\ under' \subseteq Restores \X Servers /\ alone' \subseteq Servers
  BY HostNumbers DEF StatSource, Is, GoesOn, Main, BackupTypes
<1>2. PICK pc \in {"over", "source"} : Proceeds(b, pc)
  BY DEF StatSource
<1>3. pc \in Stages /\ pc \notin Opens /\ pc \notin Pends /\ pc # "log"
  BY DEF Stages, Opens, Pends
<1>4. QED
  BY <1>1, <1>2, <1>3, OnlyProceeds

LEMMA CopierMoves ==
    ASSUME Main, NEW b \in Copiers, Version(b) \/ writeBackupArchive(b)
    PROVE  Main'
<1>1. /\ b \in Procs /\ cmd[b] \in Command /\ cmd[b].file \in 0 .. Len(files) /\ alone' \subseteq Servers
      /\ UNCHANGED <<at, logAt, files, writes>> /\ UNCHANGED <<pidFile, now, mishaps, alone, under>>
  BY HostNumbers DEF Main, BackupTypes, Version, writeBackupArchive
<1>2. PICK k \in Command :
         /\ cmd' = [cmd EXCEPT ![b] = k] /\ k.file \in 0 .. Len(files)
         /\ k.pc \in Opens => cmd[b].pc \in Opens /\ k.file = cmd[b].file
         /\ k.pc \notin Pends /\ cmd[b].pc # "log"
         /\ k.pc \in {"copied", "create", "finish"} => k.copy.manifest = k.copy.version
         /\ archive' \in Archive /\ (archive'.whole => archive'.manifest = archive'.version)
  <2>1. CASE Version(b)
    <3> DEFINE then == IF Is(b, "bare") THEN "create" ELSE "copied"
    <3>1. /\ archive' \in Archive /\ (archive'.whole => archive'.manifest = archive'.version)
          /\ cmd[b].pc \in {"version", "bare"} /\ then \in Stages /\ then \notin Pends
          /\ then \in Opens => cmd[b].pc \in Opens
      BY <2>1 DEF Main, BackupTypes, CopiesOK, Version, Is, Stages, Opens, Pends
    <3>2. cmd' = [cmd EXCEPT ![b] = [cmd[b] EXCEPT !.pc = then,
                                                   !.copy = [cmd[b].copy EXCEPT !.manifest = cmd[b].copy.version]]]
      BY <1>1, <2>1 DEF Version, Main, BackupTypes
    <3>3. \A y \in Archive : LET v == [y EXCEPT !.manifest = y.version]
                             IN  v \in Archive /\ v.manifest = v.version
      BY DEF Archive
    <3>4. PICK c \in Archive : /\ c = [cmd[b].copy EXCEPT !.manifest = cmd[b].copy.version]
                               /\ c.manifest = c.version
      BY <1>1, <3>3 DEF Command
    <3> HIDE DEF then
    <3>5. \A x \in Command : LET u == [x EXCEPT !.pc = then, !.copy = c]
                             IN  u \in Command /\ u.pc = then /\ u.file = x.file /\ u.copy = c
      BY <3>1 DEF Command
    <3>6. QED
      BY <1>1, <3>1, <3>2, <3>4, <3>5
  <2>2. CASE writeBackupArchive(b)
    <3>1. CASE Is(b, "create") /\ archive' = NoArchive /\ Proceeds(b, "finish")
      <4>1. PICK k \in Command : cmd' = [cmd EXCEPT ![b] = k] /\ k.pc = "finish" /\ k.file = cmd[b].file /\ k.copy = cmd[b].copy
        BY <1>1, <3>1, Proceeding DEF Main, Stages
      <4>2. cmd[b].copy.manifest = cmd[b].copy.version /\ cmd[b].pc # "log"
        BY <1>1, <3>1 DEF Main, CopiesOK, Is
      <4>3. archive' \in Archive /\ ~archive'.whole
        BY <3>1, FreshTypes DEF NoArchive
      <4>4. QED
        BY <1>1, <4>1, <4>2, <4>3 DEF Opens, Pends
    <3>2. CASE Is(b, "finish") /\ Proceeds(b, "over") /\ archive' = [cmd[b].copy EXCEPT !.whole = TRUE]
      <4>1. PICK k \in Command : cmd' = [cmd EXCEPT ![b] = k] /\ k.pc = "over" /\ k.file = NoFile
        BY <1>1, <3>2, Proceeding DEF Main, Stages
      <4>2. cmd[b].copy.manifest = cmd[b].copy.version /\ cmd[b].pc # "log"
        BY <1>1, <3>2 DEF Main, CopiesOK, Is
      <4>3. \A y \in Archive : LET v == [y EXCEPT !.whole = TRUE]
                               IN  v \in Archive /\ v.manifest = y.manifest /\ v.version = y.version
        BY DEF Archive
      <4>4. archive' \in Archive /\ archive'.manifest = archive'.version
        BY <1>1, <3>2, <4>2, <4>3 DEF Command
      <4>5. k.file \in 0 .. Len(files)
        BY <4>1 DEF Main, BackupTypes, NoFile
      <4>6. QED
        BY <4>1, <4>2, <4>4, <4>5 DEF Opens, Pends
    <3>3. QED
      BY <2>2, <3>1, <3>2 DEF writeBackupArchive
  <2>3. QED
    BY <2>1, <2>2
<1>3. /\ pidFile' \in Servers \cup {Nobody} /\ now' \in Seconds /\ GoesOn(b)
      /\ under' \subseteq Restores \X Servers
  BY <1>1, <1>2 DEF Main, BackupTypes, GoesOn
<1>4. k.pc # "log"
  BY <1>2 DEF Pends
<1>5. QED
  BY <1>1, <1>2, <1>3, <1>4, OnlyMoves

LEMMA RestoreLooks ==
    ASSUME Main, NEW r \in Restores, NEW force \in BOOLEAN, runRestore(r, force) \/ CheckVersion(r)
    PROVE  Main'
<1>1. /\ r \in Procs /\ UNCHANGED <<at, logAt, files, writes, archive, now>> /\ pidFile' \in Servers \cup {Nobody}
      /\ mishaps' = mishaps /\ cmd[r].pc # "log"
  BY HostNumbers DEF runRestore, CheckVersion, Is, Main, BackupTypes
<1>2. under' \subseteq Restores \X Servers /\ alone' \subseteq Servers /\ GoesOn(r)
  BY <1>1 DEF runRestore, CheckVersion, Missed, Main, BackupTypes, GoesOn
<1>3. PICK pc \in Stages : /\ Proceeds(r, pc) /\ pc \notin Opens /\ pc \notin {"copied", "create", "finish"} /\ pc # "log"
                           /\ pc \in Pends => cmd[r].pc \in Pends \ {"log"} /\ cmd[r].copy.manifest <= Binary[r]
  <2>1. CASE runRestore(r, force)
    BY <2>1 DEF runRestore, Stages, Opens, Pends
  <2>2. CASE CheckVersion(r)
    <3>1. cmd[r].copy.manifest \in Nat /\ Binary[r] \in Nat
      BY <1>1, HostNumbers DEF Main, BackupTypes, Command, Archive
    <3>2. cmd[r].copy.manifest > Binary[r] \/ cmd[r].copy.manifest <= Binary[r]
      BY <3>1
    <3>3. QED
      BY <2>2, <3>2 DEF CheckVersion, Is, Stages, Opens, Pends
  <2>3. QED
    BY <2>1, <2>2
<1>4. QED
  BY <1>1, <1>2, <1>3, OnlyProceeds

\* The archive becomes a database nobody else has.
LEMMA ExtractKeeps ==
    ASSUME Main, NEW r \in Restores, extractBackupArchive(r)
    PROVE  Main'
<1>1. /\ r \in Procs /\ cmd[r].pc = "extract" /\ cmd[r] \in Command
      /\ UNCHANGED <<pidFile, at, logAt, archive, now, writes, mishaps, alone, under>>
  BY HostNumbers DEF extractBackupArchive, Is, Main, BackupTypes
<1>2. CASE ~archive.whole
  <2>1. Proceeds(r, "over") /\ UNCHANGED <<at, logAt, files, writes, archive, now>>
    BY <1>1, <1>2 DEF extractBackupArchive
  <2>2. /\ pidFile' \in Servers \cup {Nobody} /\ under' \subseteq Restores \X Servers /\ alone' \subseteq Servers
        /\ cmd[r].pc # "log" /\ GoesOn(r)
    BY <1>1, <2>1 DEF Main, BackupTypes, GoesOn
  <2>3. "over" \in Stages /\ "over" \notin Opens /\ "over" \notin Pends
    BY DEF Stages, Opens, Pends
  <2>4. QED
    BY <1>1, <2>1, <2>2, <2>3, OnlyProceeds
<1>3. CASE archive.whole
  <2> DEFINE d == [main |-> archive.data, log |-> {}, version |-> archive.version, mixed |-> FALSE]
             i == Len(files) + 1
  <2>1. d \in Database /\ d.version = archive.version /\ d.version # Empty /\ ~d.mixed
    BY HostNumbers DEF Main, BackupTypes, Archive, Database
  <2>2. files' = Append(files, d) /\ cmd' = [cmd EXCEPT ![r].pc = "check", ![r].file = Len(files'), ![r].copy = archive]
    BY <1>3 DEF extractBackupArchive
  <2>3. files \in Seq(Database) /\ Len(files) \in Nat
    BY DEF Main, BackupTypes
  <2> HIDE DEF d
  <2>4. /\ files' \in Seq(Database) /\ Len(files') = i /\ files'[i] = d
        /\ \A j \in 1 .. Len(files) : files'[j] = files[j]
    BY <2>1, <2>2, <2>3
  <2>5. PICK k \in Command : cmd' = [cmd EXCEPT ![r] = k] /\ k.pc = "check" /\ k.file = i /\ k.copy = archive
    <3>1. i \in Nat /\ archive \in Archive
      BY <2>3 DEF Main, BackupTypes
    <3>2. cmd' = [cmd EXCEPT ![r] = [cmd[r] EXCEPT !.pc = "check", !.file = i, !.copy = archive]]
      BY <1>1, <2>2, <2>4 DEF Main, BackupTypes
    <3> HIDE DEF i
    <3>3. \A x \in Command : LET u == [x EXCEPT !.pc = "check", !.file = i, !.copy = archive]
                             IN  u \in Command /\ u.pc = "check" /\ u.file = i /\ u.copy = archive
      BY <3>1 DEF Command, Stages, Pends
    <3>4. QED
      BY <1>1, <3>2, <3>3
  <2>6. cmd' \in [Procs -> Command] /\ cmd'[r] = k /\ \A q \in Procs : q # r => cmd'[q] = cmd[q]
    BY <1>1, <2>5, CommandsMove DEF Main
  <2>7. BackupTypes'
    <3>1. at' \in [Paths -> 0 .. Len(files')] /\ logAt' \in [Paths -> 0 .. Len(files')]
      BY <1>1, <2>3, <2>4 DEF Main, BackupTypes
    <3>2. \A q \in Procs : cmd'[q].file \in 0 .. Len(files')
      BY <2>3, <2>4, <2>5, <2>6 DEF Main, BackupTypes
    <3>3. QED
      BY <1>1, <2>4, <2>6, <3>1, <3>2 DEF Main, BackupTypes
  <2>8. PlacesOK'
    <3>1. \A x \in Paths : at[x] # i
      BY <2>3 DEF Main, BackupTypes
    <3>2. \A q \in Procs : cmd[q].file # i
      BY <2>3 DEF Main, BackupTypes
    <3>3. ASSUME NEW q \in Procs, cmd'[q].pc \in Opens
          PROVE  cmd'[q].file # NoFile /\ files'[cmd'[q].file].version # Empty
      <4>1. cmd'[q] = cmd[q] /\ cmd[q].file # NoFile /\ files[cmd[q].file].version # Empty
        BY <2>5, <2>6, <3>3 DEF Main, PlacesOK, Opens
      <4>2. cmd[q].file \in 1 .. Len(files)
        BY <4>1 DEF Main, BackupTypes, NoFile
      <4>3. QED
        BY <2>4, <4>1, <4>2
    <3>3a. \A j \in 1 .. Len(files') : files'[j].version = Empty => files'[j].main = {} /\ files'[j].log = {}
      BY <2>1, <2>3, <2>4 DEF Main, PlacesOK
    <3>3b. \A q \in Procs : cmd'[q].pc = "log" => q \in Restores
      BY <2>5, <2>6 DEF Main, PlacesOK
    <3>4. ASSUME NEW q \in Procs, cmd'[q].pc \in Pends
          PROVE  /\ cmd'[q].file # NoFile /\ \A x \in Paths : at'[x] # cmd'[q].file
                 /\ \A o \in Procs : cmd'[o].pc \in Pends /\ cmd'[o].file = cmd'[q].file => o = q
                 /\ files'[cmd'[q].file].version = cmd'[q].copy.manifest
                 /\ cmd'[q].pc # "check" => cmd'[q].copy.manifest <= Binary[q]
      <4>1. CASE q = r
        <5>1. cmd'[q].file = i /\ cmd'[q].pc = "check" /\ cmd'[q].copy = archive /\ i # NoFile
          BY <2>3, <2>5, <2>6, <4>1 DEF NoFile
        <5>2. \A o \in Procs : cmd'[o].file = i => o = q
          BY <2>6, <3>2, <4>1
        <5>3. files'[i].version = archive.manifest
          BY <1>3, <2>1, <2>4 DEF Main, CopiesOK
        <5>4. QED
          BY <1>1, <3>1, <5>1, <5>2, <5>3
      <4>2. CASE q # r
        <5>1. cmd'[q] = cmd[q] /\ cmd[q].pc \in Pends /\ cmd[q].file # NoFile
          BY <2>6, <3>4, <4>2 DEF Main, PlacesOK
        <5>2. cmd[q].file \in 1 .. Len(files)
          BY <5>1 DEF Main, BackupTypes, NoFile
        <5>3. \A o \in Procs : cmd'[o].pc \in Pends /\ cmd'[o].file = cmd[q].file => o = q
          BY <2>5, <2>6, <3>2, <5>1 DEF Main, PlacesOK
        <5>4. QED
          BY <1>1, <2>4, <5>1, <5>2, <5>3 DEF Main, PlacesOK
      <4>3. QED
        BY <4>1, <4>2
    <3>5. QED
      BY <1>1, <3>3, <3>3a, <3>3b, <3>4 DEF Main, PlacesOK
  <2>9. CopiesOK'
    BY <1>1, <2>5, <2>6 DEF Main, CopiesOK
  <2>10. ASSUME mishaps \subseteq {"crashed"} PROVE SafeOK'
    <3>1. \A q \in Procs : cmd'[q].pc \in Opens => cmd'[q] = cmd[q] /\ cmd[q].pc \in Opens
      BY <2>5, <2>6 DEF Opens
    <3>2. \A q \in Procs : cmd[q].pc \in Opens => cmd'[q].pc \in Opens
      BY <1>1, <2>5, <2>6 DEF Opens
    <3>3. \A q \in Restores : Moving(q)' = Moving(q) /\ (Moving(q) => cmd'[q] = cmd[q])
      BY <1>1, <2>5, <2>6, HostNumbers DEF Moving, Is
    <3>4. \A j \in 1 .. Len(files') : ~files'[j].mixed
      BY <2>1, <2>3, <2>4, <2>10 DEF Main, SafeOK
    <3>5. \A x \in Paths : at[x] # NoFile => files'[at[x]] = files[at[x]]
      BY <2>4 DEF Main, BackupTypes, NoFile
    <3>6. \A w : \A x \in Paths : Kept(w, x) => Kept(w, x)'
      BY <1>1, <3>5 DEF Kept, Recoverable
    <3>6a. Torn' = Torn
      BY <1>1, <3>3 DEF Torn
    <3>7. \A w \in writes' : \E x \in Paths : Kept(w, x)'
      BY <1>1, <2>10, <3>6 DEF Main, SafeOK
    <3>8. QED
      BY <1>1, <2>10, <3>1, <3>2, <3>3, <3>4, <3>6a, <3>7 DEF Main, SafeOK
  <2>11. SafeOK'
    BY <1>1, <2>10 DEF SafeOK
  <2>12. QED
    BY <2>7, <2>8, <2>9, <2>11 DEF Main
<1>4. QED
  BY <1>2, <1>3

-----------------------------------------------------------------------------
(* The renames of restore. *)

\* The database of styr.db gets the name of the second, and its log is to follow.
LEMMA AsideKeeps ==
    ASSUME Main, NEW r \in Restores, Aside(r)
    PROVE  Main'
<1>1. /\ r \in Procs /\ cmd[r].pc = "aside" /\ cmd[r] \in Command /\ cmd[r].pc \in Pends
      /\ UNCHANGED <<pidFile, logAt, files, archive, now, writes, alone, under>>
      /\ now \in Seconds /\ now \in Paths /\ now # 0 /\ 0 \in Paths
  BY HostNumbers DEF Aside, Is, Main, BackupTypes, Pends
<1>2. CASE at[0] = NoFile
  <2>1. Proceeds(r, "install") /\ UNCHANGED <<at, logAt, files, writes, archive, now>> /\ mishaps' = mishaps
    BY <1>1, <1>2 DEF Aside
  <2>2. /\ pidFile' \in Servers \cup {Nobody} /\ under' \subseteq Restores \X Servers /\ alone' \subseteq Servers
        /\ cmd[r].pc # "log" /\ GoesOn(r)
    BY <1>1, <2>1 DEF Main, BackupTypes, GoesOn
  <2>3. "install" \in Stages /\ "install" \notin Opens
    BY DEF Stages, Opens, Pends
  <2>4. cmd[r].pc \in Pends \ {"log"} /\ cmd[r].copy.manifest <= Binary[r]
    BY <1>1 DEF Main, PlacesOK
  <2>5. QED
    BY <1>1, <2>1, <2>2, <2>3, <2>4, OnlyProceeds
<1>3. CASE at[0] # NoFile
  <2>1. /\ at' = [at EXCEPT ![now] = at[0], ![0] = NoFile]
        /\ cmd' = [cmd EXCEPT ![r].pc = "log", ![r].aside = now]
        /\ mishaps' = mishaps \cup (IF at[now] # NoFile THEN {"second"} ELSE {})
                              \cup (IF Raced(r) THEN {"raced"} ELSE {})
    BY <1>3 DEF Aside
  <2>2. /\ at' \in [Paths -> 0 .. Len(files)] /\ at'[0] = NoFile /\ at'[now] = at[0]
        /\ \A x \in Paths : x # 0 /\ x # now => at'[x] = at[x]
    <3>1. at \in [Paths -> 0 .. Len(files)] /\ NoFile \in 0 .. Len(files)
      BY DEF Main, BackupTypes, NoFile
    <3>2. QED
      BY <1>1, <2>1, <3>1
  <2>3. PICK k \in Command : /\ cmd' = [cmd EXCEPT ![r] = k] /\ k.pc = "log" /\ k.aside = now
                             /\ k.file = cmd[r].file /\ k.copy = cmd[r].copy
    <3>1. cmd' = [cmd EXCEPT ![r] = [cmd[r] EXCEPT !.pc = "log", !.aside = now]]
      BY <1>1, <2>1 DEF Main, BackupTypes
    <3>2. \A c \in Command : LET u == [c EXCEPT !.pc = "log", !.aside = now]
                             IN  u \in Command /\ u.pc = "log" /\ u.aside = now /\ u.file = c.file /\ u.copy = c.copy
      BY <1>1 DEF Command, Stages, Pends
    <3>3. QED
      BY <1>1, <3>1, <3>2
  <2>4. cmd' \in [Procs -> Command] /\ cmd'[r] = k /\ \A q \in Procs : q # r => cmd'[q] = cmd[q]
    BY <1>1, <2>3, CommandsMove DEF Main
  <2>5. BackupTypes'
    <3>1. mishaps' \subseteq Mishaps
      BY <2>1 DEF Main, BackupTypes, Mishaps
    <3>2. \A q \in Procs : cmd'[q].file \in 0 .. Len(files')
      BY <1>1, <2>3, <2>4 DEF Main, BackupTypes
    <3>3. QED
      BY <1>1, <2>2, <2>4, <3>1, <3>2 DEF Main, BackupTypes
  <2>6. PlacesOK'
    <3>1. \A x, y \in Paths : at'[x] = at'[y] /\ at'[x] # NoFile => x = y
      BY <1>1, <2>2 DEF Main, PlacesOK
    <3>2. \A x \in Paths : at'[x] # NoFile => \E y \in Paths : at'[x] = at[y]
      BY <1>1, <2>2
    <3>3. \A q \in Procs : /\ cmd'[q].file = cmd[q].file /\ cmd'[q].copy = cmd[q].copy
                           /\ (cmd'[q].pc \in Pends <=> cmd[q].pc \in Pends)
                           /\ (cmd'[q].pc \in Opens => cmd[q].pc \in Opens)
                           /\ (cmd'[q].pc \in Pends /\ cmd'[q].pc # "check" => cmd[q].pc # "check")
      BY <1>1, <2>3, <2>4 DEF Opens, Pends
    <3>3a. \A q \in Procs : cmd'[q].pc = "log" => q \in Restores
      BY <2>4 DEF Main, PlacesOK
    <3>4. QED
      BY <1>1, <3>1, <3>2, <3>3, <3>3a DEF Main, PlacesOK
  <2>7. CopiesOK'
    BY <1>1, <2>3, <2>4 DEF Main, CopiesOK
  <2>8. ASSUME mishaps' \subseteq {"crashed"} PROVE SafeOK'
    <3>1. mishaps = {} /\ mishaps' = {} /\ at[now] = NoFile /\ ~Raced(r)
      <4>1. mishaps \subseteq {"crashed"} /\ at[now] = NoFile /\ ~Raced(r)
        BY <2>1, <2>8
      <4>2. "crashed" \notin mishaps
        BY <1>3, <4>1 DEF Main, SafeOK, Torn
      <4>3. QED
        BY <2>1, <4>1, <4>2
    <3>2. OpenOf(at[0]) = {} /\ (\A q \in Restores : ~Moving(q)) /\ ~Torn
      BY <1>1, <3>1 DEF Raced, Moving, Is, Torn
    <3>3. \A q \in Procs : cmd'[q].pc \notin Opens
      <4>1. SUFFICES ASSUME NEW q \in Procs, cmd'[q].pc \in Opens PROVE FALSE
        OBVIOUS
      <4>2. cmd[q].pc \in Opens
        BY <2>3, <2>4, <4>1 DEF Opens
      <4>3. cmd[q].file = at[0]
        BY <3>1, <4>2 DEF Main, SafeOK
      <4>4. q \in OpenOf(at[0])
        BY <4>2, <4>3 DEF OpenOf, HasOpen, Opens
      <4>5. QED
        BY <3>2, <4>4
    <3>4. \A q \in Restores : Moving(q)' <=> q = r
      BY <1>1, <2>3, <2>4, <3>2, HostNumbers DEF Moving, Is
    <3>5. logAt[0] \in {NoFile, at'[now]}
      BY <2>2, <3>1, <3>2 DEF Main, SafeOK
    <3>6. ASSUME NEW w, NEW x \in Paths, Kept(w, x) PROVE \E y \in Paths : Kept(w, y)'
      <4>1. at[x] # NoFile /\ (w \in files[at[x]].main \/ (w \in files[at[x]].log /\ logAt[x] = at[x]))
        BY <1>3, <3>6 DEF Kept, Recoverable
      <4>2. CASE x = 0
        <5>1. Kept(w, now)'
          BY <1>1, <1>3, <2>2, <4>1, <4>2 DEF Kept, Recoverable
        <5>2. QED
          BY <1>1, <5>1
      <4>3. CASE x # 0
        <5>1. x # now
          BY <3>1, <4>1
        <5>2. Kept(w, x)'
          BY <1>1, <2>2, <4>1, <4>3, <5>1 DEF Kept, Recoverable
        <5>3. QED
          BY <5>2
      <4>4. QED
        BY <4>2, <4>3
    <3>7. \A w \in writes' : \E y \in Paths : Kept(w, y)'
      BY <1>1, <3>1, <3>6 DEF Main, SafeOK
    <3>8. \A j \in 1 .. Len(files') : ~files'[j].mixed
      BY <1>1, <3>1 DEF Main, SafeOK
    <3>9. \A q \in Restores : Moving(q)' =>
             cmd'[q].aside # 0 /\ at'[cmd'[q].aside] # NoFile /\ logAt'[0] \in {NoFile, at'[cmd'[q].aside]}
      BY <1>1, <1>3, <2>2, <2>3, <2>4, <3>4, <3>5
    <3>9a. at'[0] = NoFile /\ "crashed" \notin mishaps' /\ Torn'
      BY <2>2, <3>1, <3>4 DEF Torn
    <3>10. QED
      BY <3>3, <3>4, <3>7, <3>8, <3>9, <3>9a DEF SafeOK
  <2>9. SafeOK'
    BY <2>8 DEF SafeOK
  <2>10. QED
    BY <2>5, <2>6, <2>7, <2>9 DEF Main
<1>4. QED
  BY <1>2, <1>3

\* The log follows its database.
LEMMA AsideLogKeeps ==
    ASSUME Main, NEW r \in Restores, AsideLog(r)
    PROVE  Main'
<1>1. /\ r \in Procs /\ cmd[r].pc = "log" /\ cmd[r] \in Command /\ cmd[r].pc \in Pends /\ Moving(r)
      /\ UNCHANGED <<pidFile, at, files, archive, now, writes, alone, under>> /\ cmd[r].aside \in Paths /\ 0 \in Paths
  BY HostNumbers DEF AsideLog, Is, Moving, Main, BackupTypes, Pends, Command
<1>2. PICK k \in Command : /\ cmd' = [cmd EXCEPT ![r] = k] /\ k.pc = "install"
                           /\ k.file = cmd[r].file /\ k.copy = cmd[r].copy
  <2>1. Proceeds(r, "install") /\ "install" \in Stages
    BY DEF AsideLog, Stages, Pends
  <2>2. QED
    BY <1>1, <2>1, Proceeding DEF Main
<1>3. cmd' \in [Procs -> Command] /\ cmd'[r] = k /\ \A q \in Procs : q # r => cmd'[q] = cmd[q]
  BY <1>1, <1>2, CommandsMove DEF Main
<1>4. /\ logAt' = logAt \/ logAt' = [logAt EXCEPT ![cmd[r].aside] = logAt[0], ![0] = NoFile]
      /\ mishaps' = mishaps \/ mishaps' = mishaps \cup {"log"}
  BY DEF AsideLog, Mishap
<1>5. BackupTypes'
  <2>1. logAt' \in [Paths -> 0 .. Len(files)]
    <3>1. logAt \in [Paths -> 0 .. Len(files)] /\ NoFile \in 0 .. Len(files)
      BY DEF Main, BackupTypes, NoFile
    <3>2. QED
      BY <1>1, <1>4, <3>1
  <2>2. mishaps' \subseteq Mishaps
    BY <1>4 DEF Main, BackupTypes, Mishaps
  <2>3. \A q \in Procs : cmd'[q].file \in 0 .. Len(files')
    BY <1>1, <1>2, <1>3 DEF Main, BackupTypes
  <2>4. QED
    BY <1>1, <1>3, <2>1, <2>2, <2>3 DEF Main, BackupTypes
<1>6. PlacesOK'
  <2>1. \A q \in Procs : /\ cmd'[q].file = cmd[q].file /\ cmd'[q].copy = cmd[q].copy
                         /\ (cmd'[q].pc \in Pends <=> cmd[q].pc \in Pends)
                         /\ (cmd'[q].pc \in Opens => cmd[q].pc \in Opens)
                         /\ (cmd'[q].pc \in Pends /\ cmd'[q].pc # "check" => cmd[q].pc # "check")
    BY <1>1, <1>2, <1>3 DEF Opens, Pends
  <2>1a. \A q \in Procs : cmd'[q].pc = "log" => q \in Restores
    BY <1>3 DEF Main, PlacesOK
  <2>2. QED
    BY <1>1, <2>1, <2>1a DEF Main, PlacesOK
<1>7. CopiesOK'
  BY <1>1, <1>2, <1>3 DEF Main, CopiesOK
<1>8. ASSUME mishaps' \subseteq {"crashed"} PROVE SafeOK'
  <2>1. mishaps = {} /\ mishaps' = {}
    <3>1. mishaps \subseteq {"crashed"} /\ mishaps' = mishaps
      BY <1>4, <1>8
    <3>2. "crashed" \notin mishaps
      BY <1>1, <3>1 DEF Main, SafeOK
    <3>3. QED
      BY <3>1, <3>2
  <2>2a. at[0] = NoFile
    BY <1>1, <2>1 DEF Main, SafeOK, Torn
  <2>2. /\ \A q \in Procs : cmd[q].pc \notin Opens
        /\ \A q \in Restores : Moving(q) => q = r
        /\ cmd[r].aside # 0 /\ at[cmd[r].aside] # NoFile /\ logAt[0] \in {NoFile, at[cmd[r].aside]}
    BY <1>1, <2>1, <2>2a DEF Main, SafeOK, PlacesOK
  <2>3. \A q \in Procs : cmd'[q].pc \notin Opens
    BY <1>2, <1>3, <2>2 DEF Opens
  <2>4. (\A q \in Restores : ~Moving(q)') /\ ~Torn'
    BY <1>1, <1>2, <1>3, <2>1, <2>2, HostNumbers DEF Moving, Is, Torn
  <2>5. /\ logAt'[0] = NoFile /\ \A x \in Paths : x # 0 /\ x # cmd[r].aside => logAt'[x] = logAt[x]
        /\ IF logAt[0] = NoFile THEN logAt' = logAt ELSE logAt'[cmd[r].aside] = logAt[0]
    <3>1. \/ logAt[0] = NoFile /\ logAt' = logAt
          \/ logAt[0] # NoFile /\ logAt' = [logAt EXCEPT ![cmd[r].aside] = logAt[0], ![0] = NoFile]
      <4>1. mishaps' # mishaps \cup {"log"}
        BY <2>1
      <4>2. QED
        BY <4>1 DEF AsideLog, Mishap
    <3>2. logAt \in [Paths -> 0 .. Len(files)]
      BY DEF Main, BackupTypes
    <3>3. QED
      BY <1>1, <2>2, <3>1, <3>2
  <2>6. ASSUME NEW w, NEW x \in Paths, Kept(w, x) PROVE Kept(w, x)'
    <3>1. /\ at[x] # NoFile
          /\ w \in files[at[x]].main \/ (w \in files[at[x]].log /\ (logAt[x] = at[x] \/ logAt[0] = at[x]))
      BY <2>6 DEF Kept, Recoverable
    <3>2. CASE logAt[0] = NoFile
      BY <1>1, <2>5, <3>1, <3>2 DEF Kept, Recoverable
    <3>3. CASE logAt[0] # NoFile
      <4>1. logAt[0] = at[cmd[r].aside] /\ logAt'[cmd[r].aside] = at[cmd[r].aside]
        BY <2>2, <2>5, <3>3
      <4>2. CASE x = cmd[r].aside
        BY <1>1, <3>1, <4>1, <4>2 DEF Kept, Recoverable
      <4>3. CASE x # cmd[r].aside
        <5>0. at[x] # at[cmd[r].aside]
          BY <1>1, <3>1, <4>3 DEF Main, PlacesOK
        <5>1. x = 0 => logAt[x] # at[x]
          BY <4>1, <5>0
        <5>2. QED
          BY <1>1, <2>5, <3>1, <4>1, <4>3, <5>0, <5>1 DEF Kept, Recoverable
      <4>4. QED
        BY <4>2, <4>3
    <3>4. QED
      BY <3>2, <3>3
  <2>7. \A w \in writes' : \E x \in Paths : Kept(w, x)'
    BY <1>1, <2>1, <2>6 DEF Main, SafeOK
  <2>8. \A j \in 1 .. Len(files') : ~files'[j].mixed
    BY <1>1, <2>1 DEF Main, SafeOK
  <2>9. QED
    BY <2>3, <2>4, <2>5, <2>7, <2>8 DEF SafeOK, Torn
<1>9. SafeOK'
  BY <1>8 DEF SafeOK
<1>10. QED
  BY <1>5, <1>6, <1>7, <1>9 DEF Main

\* The restored database gets the name, over nothing.
LEMMA InstallKeeps ==
    ASSUME Main, NEW r \in Restores, Install(r)
    PROVE  Main'
<1>1. /\ r \in Procs /\ cmd[r].pc = "install" /\ cmd[r] \in Command /\ cmd[r].pc \in Pends
      /\ UNCHANGED <<pidFile, logAt, files, archive, now, writes, alone, under>> /\ 0 \in Paths
      /\ at' = [at EXCEPT ![0] = cmd[r].file]
      /\ mishaps' = mishaps \cup Between \cup (IF at[0] # NoFile THEN {"raced"} ELSE {})
  BY HostNumbers DEF Install, Is, Main, BackupTypes, Pends
<1>2. PICK k \in Command : /\ cmd' = [cmd EXCEPT ![r] = k] /\ k.pc = "migrate"
                           /\ k.file = cmd[r].file /\ k.copy = cmd[r].copy
  <2>1. Proceeds(r, "migrate") /\ "migrate" \in Stages
    BY DEF Install, Stages
  <2>2. QED
    BY <1>1, <2>1, Proceeding DEF Main
<1>3. cmd' \in [Procs -> Command] /\ cmd'[r] = k /\ \A q \in Procs : q # r => cmd'[q] = cmd[q]
  BY <1>1, <1>2, CommandsMove DEF Main
<1>4. /\ at' \in [Paths -> 0 .. Len(files)] /\ at'[0] = cmd[r].file
      /\ \A x \in Paths : x # 0 => at'[x] = at[x]
  BY <1>1 DEF Main, BackupTypes
<1>5. BackupTypes'
  <2>1. mishaps' \subseteq Mishaps
    BY <1>1 DEF Main, BackupTypes, Mishaps, Between
  <2>2. \A q \in Procs : cmd'[q].file \in 0 .. Len(files')
    BY <1>1, <1>2, <1>3 DEF Main, BackupTypes
  <2>3. QED
    BY <1>1, <1>3, <1>4, <2>1, <2>2 DEF Main, BackupTypes
<1>6. PlacesOK'
  <2>1. \A x \in Paths : at[x] # cmd[r].file
    BY <1>1 DEF Main, PlacesOK
  <2>2. \A x, y \in Paths : at'[x] = at'[y] /\ at'[x] # NoFile => x = y
    BY <1>4, <2>1 DEF Main, PlacesOK
  <2>3. \A q \in Procs : /\ cmd'[q].file = cmd[q].file /\ cmd'[q].copy = cmd[q].copy
                         /\ (cmd'[q].pc \in Pends => q # r /\ cmd'[q] = cmd[q])
                         /\ (cmd'[q].pc \in Opens => cmd[q].pc \in Opens)
    BY <1>1, <1>2, <1>3 DEF Opens, Pends
  <2>4. \A q \in Procs : cmd'[q].pc \in Pends => cmd[q].file # cmd[r].file
    BY <1>1, <2>3 DEF Main, PlacesOK
  <2>5. \A q \in Procs, x \in Paths : cmd'[q].pc \in Pends => at'[x] # cmd'[q].file
    BY <1>4, <2>3, <2>4 DEF Main, PlacesOK
  <2>5a. \A q \in Procs : cmd'[q].pc = "log" => q \in Restores
    BY <1>2, <1>3 DEF Main, PlacesOK
  <2>6. QED
    BY <1>1, <2>2, <2>3, <2>5, <2>5a DEF Main, PlacesOK
<1>7. CopiesOK'
  BY <1>1, <1>2, <1>3 DEF Main, CopiesOK
<1>8. ASSUME mishaps' \subseteq {"crashed"} PROVE SafeOK'
  <2>1. mishaps = {} /\ mishaps' = {} /\ at[0] = NoFile /\ ~Torn
    <3>1. mishaps \subseteq {"crashed"} /\ at[0] = NoFile /\ "reused" \notin Between /\ "raced" \notin Between
      BY <1>1, <1>8
    <3>2. "crashed" \notin mishaps /\ \A q \in Restores : ~Moving(q)
      BY <3>1 DEF Between, Moving
    <3>3. Between = {}
      BY <3>2 DEF Between, Moving
    <3>4. QED
      BY <1>1, <3>1, <3>2, <3>3 DEF Torn
  <2>2. logAt[0] = NoFile /\ \A q \in Procs : cmd[q].pc \notin Opens
    BY <2>1 DEF Main, SafeOK, PlacesOK
  <2>3. \A q \in Procs : cmd'[q].pc \notin Opens
    BY <1>2, <1>3, <2>2 DEF Opens
  <2>4. (\A q \in Restores : ~Moving(q)') /\ ~Torn'
    BY <1>2, <1>3, <2>1, HostNumbers DEF Moving, Is, Torn
  <2>6. ASSUME NEW w, NEW x \in Paths, Kept(w, x) PROVE Kept(w, x)'
    <3>1. at[x] # NoFile /\ x # 0 /\ at'[x] = at[x] /\ at'[x] # NoFile
      BY <1>4, <2>1, <2>6 DEF Kept
    <3>2. QED
      BY <1>1, <2>2, <2>6, <3>1 DEF Kept, Recoverable
  <2>7. \A w \in writes' : \E x \in Paths : Kept(w, x)'
    BY <1>1, <2>1, <2>6 DEF Main, SafeOK
  <2>8. \A j \in 1 .. Len(files') : ~files'[j].mixed
    BY <1>1, <2>1 DEF Main, SafeOK
  <2>9. logAt'[0] = NoFile
    BY <1>1, <2>2
  <2>10. QED
    BY <2>3, <2>4, <2>7, <2>8, <2>9 DEF SafeOK
<1>9. SafeOK'
  BY <1>8 DEF SafeOK
<1>10. QED
  BY <1>5, <1>6, <1>7, <1>9 DEF Main

LEMMA KillKeeps ==
    ASSUME Main, NEW p \in Procs, Killed(p)
    PROVE  Main'
<1>1. /\ Proceeds(p, "over") /\ UNCHANGED <<at, logAt, files, writes, archive, now>> /\ alone' \subseteq Servers
      /\ pidFile' \in Servers \cup {Nobody} /\ under' \subseteq Restores \X Servers
  BY DEF Killed, Main, BackupTypes
<1>2. GoesOn(p)
  BY DEF Killed, Mishap, Is, GoesOn
<1>3. "over" \in Stages /\ "over" \notin Opens /\ "over" \notin Pends
  BY DEF Stages, Opens, Pends
<1>4. QED
  BY <1>1, <1>2, <1>3, OnlyProceeds

\* Nothing of the directory changes.
LEMMA NothingMoves ==
    ASSUME Main, UNCHANGED <<at, logAt, files, archive, cmd, writes, mishaps>>,
           pidFile' = pidFile, alone' = alone, under' = under, now' \in Seconds
    PROVE  Main'
<1>1. BackupTypes'
  BY DEF Main, BackupTypes
<1>2. PlacesOK' /\ CopiesOK'
  BY DEF Main, PlacesOK, CopiesOK
<1>3. SafeOK'
  <2>1. (\A r : Moving(r)' = Moving(r)) /\ Torn' = Torn
    BY DEF Moving, Is, Torn
  <2>2. \A w, x : Kept(w, x)' = Kept(w, x)
    BY DEF Kept, Recoverable
  <2>3. QED
    BY <2>1, <2>2 DEF Main, SafeOK
<1>4. QED
  BY <1>1, <1>2, <1>3 DEF Main

LEMMA MainStarts == ASSUME BackupsInit PROVE Main /\ SeenOK
<1>1. /\ pidFile = Nobody /\ now = 1 /\ writes = {} /\ mishaps = {} /\ alone = {} /\ under = {}
      /\ files = <<[main |-> {}, log |-> {}, version |-> 1, mixed |-> FALSE]>>
      /\ at = [p \in Paths |-> IF p = 0 THEN 1 ELSE NoFile] /\ logAt = [p \in Paths |-> NoFile]
      /\ cmd = [p \in Procs |-> Fresh]
      /\ archive \in {NoArchive, [whole |-> TRUE, data |-> {}, version |-> 1, manifest |-> 1]}
  BY DEF BackupsInit
<1>2. files \in Seq(Database) /\ Len(files) = 1 /\ files[1].mixed = FALSE /\ files[1].version # Empty
  <2> DEFINE d == [main |-> {}, log |-> {}, version |-> 1, mixed |-> FALSE]
  <2>1. d \in Database /\ d.mixed = FALSE /\ d.version # Empty
    BY DEF Database, Empty
  <2> HIDE DEF d
  <2>2. files = <<d>>
    BY <1>1 DEF d
  <2>3. QED
    BY <2>1, <2>2
<1>3. archive \in Archive /\ (archive.whole => archive.manifest = archive.version)
  <2> DEFINE seed == [whole |-> TRUE, data |-> {}, version |-> 1, manifest |-> 1]
  <2>1. seed \in Archive /\ seed.manifest = seed.version
    BY DEF Archive
  <2>2. NoArchive \in Archive /\ ~NoArchive.whole
    BY FreshTypes DEF NoArchive
  <2>3. archive = NoArchive \/ archive = seed
    BY <1>1
  <2> HIDE DEF seed
  <2>4. QED
    BY <2>1, <2>2, <2>3
<1>4. \A p \in Procs : cmd[p] = Fresh
  BY <1>1
<1>5. BackupTypes
  <2>1. at \in [Paths -> 0 .. Len(files)] /\ logAt \in [Paths -> 0 .. Len(files)]
    BY <1>1, <1>2 DEF NoFile
  <2>2. cmd \in [Procs -> Command]
    BY <1>1, FreshTypes
  <2>3. \A p \in Procs : cmd[p].file \in 0 .. Len(files)
    BY <1>2, <1>4, FreshTypes DEF NoFile
  <2>4. QED
    BY <1>1, <1>2, <1>3, <2>1, <2>2, <2>3, HostNumbers DEF BackupTypes
<1>6. PlacesOK
  <2>1. \A p \in Procs : cmd[p].pc = "none"
    BY <1>4, FreshTypes
  <2>2. \A x, y \in Paths : at[x] = at[y] /\ at[x] # NoFile => x = y
    BY <1>1
  <2>3. \A i \in 1 .. Len(files) : files[i].version # Empty
    BY <1>2
  <2>4. QED
    BY <2>1, <2>2, <2>3 DEF PlacesOK, Opens, Pends
<1>7. CopiesOK
  BY <1>3, <1>4, FreshTypes DEF CopiesOK
<1>8. SafeOK
  <2>1. \A p \in Procs : cmd[p].pc \notin Opens
    BY <1>4, FreshTypes DEF Opens
  <2>2. \A r \in Restores : ~Moving(r)
    BY <1>4, FreshTypes, HostNumbers DEF Moving, Is
  <2>3. logAt[0] = NoFile
    BY <1>1, HostNumbers
  <2>4. \A i \in 1 .. Len(files) : ~files[i].mixed
    BY <1>2
  <2>5. QED
    BY <1>1, <2>1, <2>2, <2>3, <2>4 DEF SafeOK, Torn
<1>9. SeenOK
  BY <1>1, <1>4, FreshTypes, HostNumbers DEF SeenOK
<1>10. QED
  BY <1>5, <1>6, <1>7, <1>8, <1>9 DEF Main

LEMMA MainSteps == Main /\ [BackupsNext]_backupVars => Main'
<1> SUFFICES ASSUME Main, [BackupsNext]_backupVars PROVE Main'
  OBVIOUS
<1>1. CASE \E s \in Servers : ServeStep(s)
  <2>1. PICK s \in Servers : ServeStep(s)
    BY <1>1
  <2>2. s \in Procs
    BY HostNumbers
  <2>3. CASE writePIDFile(s) \/ Listen(s) \/ Signal(s) \/ removePIDFile(s)
    BY <2>3, ServeMoves
  <2>4. CASE ServeOpen(s) \/ ServeCloses(s)
    BY <2>2, <2>4, OpensAndCloses
  <2>5. CASE Serve(s)
    BY <2>5, ServeKeeps
  <2>6. QED
    BY <2>1, <2>3, <2>4, <2>5 DEF ServeStep
<1>2. CASE \E r \in Restores : RestoreStep(r)
  <2>1. PICK r \in Restores : RestoreStep(r)
    BY <1>2
  <2>2. r \in Procs
    BY HostNumbers
  <2>3. CASE \E force \in BOOLEAN : runRestore(r, force) \/ CheckVersion(r)
    BY <2>3, RestoreLooks
  <2>4. CASE extractBackupArchive(r)
    BY <2>4, ExtractKeeps
  <2>5. CASE Aside(r)
    BY <2>5, AsideKeeps
  <2>6. CASE AsideLog(r)
    BY <2>6, AsideLogKeeps
  <2>7. CASE Install(r)
    BY <2>7, InstallKeeps
  <2>8. CASE Migrate(r) \/ RestoreCloses(r)
    BY <2>2, <2>8, OpensAndCloses
  <2>9. QED
    BY <2>1, <2>3, <2>4, <2>5, <2>6, <2>7, <2>8 DEF RestoreStep
<1>3. CASE \E b \in Copiers : \/ StatSource(b) \/ vacuumBackup(b) \/ Version(b) \/ BackupCloses(b)
                               \/ writeBackupArchive(b)
  BY <1>3, SourceKeeps, VacuumKeeps, CopierMoves, OpensAndCloses, HostNumbers
<1>4. CASE \E p \in Procs : Killed(p)
  BY <1>4, KillKeeps
<1>5. CASE SecondPasses
  <2>1. now' \in Seconds
    BY <1>5, HostNumbers DEF SecondPasses, Seconds, Main, BackupTypes
  <2>2. QED
    BY <1>5, <2>1, NothingMoves DEF SecondPasses
<1>6. CASE UNCHANGED backupVars
  <2>1. now' \in Seconds
    BY <1>6 DEF backupVars, Main, BackupTypes
  <2>2. QED
    BY <1>6, <2>1, NothingMoves DEF backupVars
<1>7. QED
  BY <1>1, <1>2, <1>3, <1>4, <1>5, <1>6 DEF BackupsNext

-----------------------------------------------------------------------------
(* The pid file. *)

\* A step of another process than a server's writePIDFile and removePIDFile:
\* no server begins, and none that is over goes on.
ServersGoOn ==
    \A t \in Servers : cmd'[t].pc \notin {"none", "over"} => cmd[t].pc \notin {"none", "over"}

LEMMA StillSeen ==
    ASSUME SeenOK, alone \subseteq Servers, pidFile' = pidFile, alone' = alone, under' = {}, ServersGoOn
    PROVE  SeenOK'
BY DEF SeenOK, ServersGoOn

LEMMA MovesOn ==
    ASSUME BackupTypes, NEW p \in Procs, NEW k \in Command, cmd' = [cmd EXCEPT ![p] = k],
           p \in Servers => cmd[p].pc \notin {"none", "over"}
    PROVE  ServersGoOn
BY CommandsMove, HostNumbers DEF ServersGoOn

LEMMA SeenStep == Main /\ SeenOK /\ [BackupsNext]_backupVars => SeenOK'
<1> SUFFICES ASSUME Main, SeenOK, [BackupsNext]_backupVars PROVE SeenOK'
  OBVIOUS
<1>0. BackupTypes /\ under = {} /\ alone \subseteq Servers /\ "over" \in Stages
  BY DEF Main, SeenOK, Stages, BackupTypes
<1>1. ASSUME NEW s \in Servers, writePIDFile(s) PROVE SeenOK'
  <2>1. s \in Procs /\ cmd[s].pc = "none" /\ Proceeds(s, "open") /\ pidFile' = s /\ under' = {} /\ "open" \in Stages
    BY <1>0, <1>1, HostNumbers DEF writePIDFile, Is, Stages
  <2>2. PICK k \in Command : cmd' = [cmd EXCEPT ![s] = k] /\ k.pc = "open"
    BY <1>0, <2>1, Proceeding
  <2>3. \A t \in Servers \ {s} : cmd'[t] = cmd[t]
    BY <1>0, <2>1, <2>2, CommandsMove, HostNumbers
  <2>4. alone' = IF \E t \in Servers : Alive(t) THEN {} ELSE {s}
    BY <1>1 DEF writePIDFile
  <2>5. CASE \E t \in Servers : Alive(t)
    BY <2>1, <2>4, <2>5 DEF SeenOK
  <2>6. CASE \A t \in Servers : ~Alive(t)
    <3>1. \A t \in Servers \ {s} : cmd'[t].pc \in {"none", "over"}
      BY <2>3, <2>6, HostNumbers DEF Alive
    <3>2. alone' = {s}
      BY <2>4, <2>6
    <3>3. QED
      BY <2>1, <3>1, <3>2 DEF SeenOK
  <2>7. QED
    BY <2>5, <2>6
<1>2. ASSUME NEW s \in Servers, removePIDFile(s) PROVE SeenOK'
  <2>1. s \in Procs /\ cmd[s].pc = "unpid" /\ Proceeds(s, "over") /\ under' = {}
    BY <1>0, <1>2, HostNumbers DEF removePIDFile, Is
  <2>2. PICK k \in Command : cmd' = [cmd EXCEPT ![s] = k] /\ k.pc = "over"
    BY <1>0, <2>1, Proceeding
  <2>3. cmd'[s].pc = "over" /\ \A t \in Servers \ {s} : cmd'[t] = cmd[t]
    BY <1>0, <2>1, <2>2, CommandsMove, HostNumbers
  <2>4. alone' = alone
    BY <1>2 DEF removePIDFile
  <2>5. ASSUME NEW t \in alone PROVE cmd'[t].pc \in {"none", "over"}
    BY <1>0, <2>1, <2>3, <2>5 DEF SeenOK
  <2>6. QED
    BY <2>1, <2>4, <2>5 DEF SeenOK
<1>3. ASSUME NEW p \in Procs, NEW pc \in Stages, Proceeds(p, pc),
             p \in Servers => cmd[p].pc \notin {"none", "over"}
      PROVE  ServersGoOn
  <2>1. PICK k \in Command : cmd' = [cmd EXCEPT ![p] = k] /\ k.pc = pc
    BY <1>0, <1>3, Proceeding
  <2>2. QED
    BY <1>0, <1>3, <2>1, MovesOn
<1>4. ASSUME NEW p \in Procs, NEW then \in {"listen", "migrated"}, OpenDB(p, then),
             p \in Servers => cmd[p].pc \notin {"none", "over"}
      PROVE  ServersGoOn
  <2>1. \A t \in Servers : t # p => cmd'[t] = cmd[t]
    BY <1>0, <1>4, HostNumbers DEF OpenDB, BackupTypes
  <2>2. QED
    BY <1>4, <2>1 DEF ServersGoOn
<1>5. ASSUME NEW s \in Servers, ServeOpen(s) \/ Listen(s) \/ Serve(s) \/ Signal(s) \/ ServeCloses(s) PROVE SeenOK'
  <2>1. s \in Procs /\ pidFile' = pidFile /\ alone' = alone /\ under' = {} /\ cmd[s].pc \notin {"none", "over"}
    BY <1>0, <1>5, HostNumbers DEF ServeOpen, Listen, Serve, Signal, ServeCloses, Is
  <2>2. ServersGoOn
    <3>1. CASE OpenDB(s, "listen")
      BY <1>4, <2>1, <3>1
    <3>2. CASE cmd' = cmd
      BY <3>2 DEF ServersGoOn
    <3>3. CASE \E pc \in Stages : Proceeds(s, pc)
      BY <1>3, <2>1, <3>3
    <3>4. QED
      BY <1>5, <3>1, <3>2, <3>3 DEF ServeOpen, Listen, Serve, Signal, ServeCloses, CloseDB,
         Stages, Opens
  <2>3. QED
    BY <1>0, <2>1, <2>2, StillSeen
<1>6. \A r \in Restores : r \in Procs /\ r \notin Servers
  BY HostNumbers, BackupsAssumption
<1>7. \A b \in Copiers : b \in Procs /\ b \notin Servers
  BY HostNumbers, BackupsAssumption
<1>8. ASSUME NEW r \in Restores, RestoreStep(r) PROVE SeenOK'
  <2>1. pidFile' = pidFile /\ alone' = alone
    BY <1>8 DEF RestoreStep, runRestore, extractBackupArchive, CheckVersion, Aside, AsideLog,
       Install,
                Migrate, RestoreCloses
  <2>2. under' = {}
    <3>1. ASSUME NEW force \in BOOLEAN, runRestore(r, force) PROVE under' = {}
      <4>1. under' = IF force \/ serverRunning THEN {} ELSE Missed(r)
        BY <1>0, <3>1 DEF runRestore
      <4>2. ~serverRunning => Missed(r) = {}
        <5>1. SUFFICES ASSUME NEW s \in alone, HasOpen(s)
                       PROVE  serverRunning
          BY DEF Missed
        <5>2. cmd[s].pc \notin {"none", "over"} /\ s \in Procs
          BY <1>0, <5>1, HostNumbers DEF HasOpen
        <5>3. pidFile = s
          BY <5>1, <5>2 DEF SeenOK
        <5>4. QED
          BY <5>2, <5>3 DEF serverRunning, Alive
      <4>3. QED
        BY <4>1, <4>2
    <3>2. CASE ~\E force \in BOOLEAN : runRestore(r, force)
      BY <1>0, <1>8, <3>2 DEF RestoreStep, extractBackupArchive, CheckVersion, Aside, AsideLog,
         Install,
                Migrate, RestoreCloses
    <3>3. QED
      BY <3>1, <3>2
  <2>3. ServersGoOn
    <3>1. \A t \in Servers : cmd'[t] = cmd[t]
      <4>0. cmd \in [Procs -> Command] /\ Servers \subseteq Procs
        BY <1>0, HostNumbers DEF BackupTypes
      <4>1. CASE \E pc \in Stages : Proceeds(r, pc)
        BY <1>6, <4>0, <4>1 DEF Proceeds
      <4>2. CASE extractBackupArchive(r)
        BY <1>6, <4>0, <4>2 DEF extractBackupArchive, Proceeds
      <4>3. CASE Aside(r)
        BY <1>6, <4>0, <4>3 DEF Aside, Proceeds
      <4>4. CASE Migrate(r)
        <5>1. cmd' = [cmd EXCEPT ![r].pc = "migrated", ![r].file = ToOpen]
          BY <4>4 DEF Migrate, OpenDB
        <5>2. QED
          BY <1>6, <4>0, <5>1
      <4>5. QED
        BY <1>8, <4>1, <4>2, <4>3, <4>4
           DEF RestoreStep, runRestore, CheckVersion, AsideLog, Install, RestoreCloses, CloseDB,
              Stages, Pends
    <3>2. QED
      BY <3>1 DEF ServersGoOn
  <2>4. QED
    BY <1>0, <2>1, <2>2, <2>3, StillSeen
<1>9. ASSUME NEW b \in Copiers, \/ StatSource(b) \/ vacuumBackup(b) \/ Version(b) \/ BackupCloses(b)
                                \/ writeBackupArchive(b)
      PROVE  SeenOK'
  <2>1. pidFile' = pidFile /\ alone' = alone /\ under' = {}
    BY <1>0, <1>9 DEF StatSource, vacuumBackup, Version, BackupCloses, writeBackupArchive
  <2>2. \A t \in Servers : cmd'[t] = cmd[t]
    <3>0. cmd \in [Procs -> Command] /\ Servers \subseteq Procs
      BY <1>0, HostNumbers DEF BackupTypes
    <3>1. QED
      BY <1>7, <1>9, <3>0 DEF StatSource, vacuumBackup, Version, BackupCloses, CloseDB, writeBackupArchive, Proceeds
  <2>3. QED
    BY <1>0, <2>1, <2>2, StillSeen DEF ServersGoOn
<1>10. ASSUME NEW p \in Procs, Killed(p) PROVE SeenOK'
  <2>1. pidFile' = pidFile /\ alone' = alone /\ under' = {} /\ Proceeds(p, "over") /\ cmd[p].pc \notin {"none", "over"}
    BY <1>0, <1>10 DEF Killed, Alive
  <2>2. ServersGoOn
    BY <1>0, <1>3, <2>1
  <2>3. QED
    BY <1>0, <2>1, <2>2, StillSeen
<1>11. CASE SecondPasses \/ UNCHANGED backupVars
  BY <1>11 DEF SecondPasses, backupVars, SeenOK
<1>12. QED
  BY <1>1, <1>2, <1>5, <1>8, <1>9, <1>10, <1>11 DEF BackupsNext, ServeStep

-----------------------------------------------------------------------------
(* Theorems. *)

\* The invariant holds of every reachable state.
THEOREM BackupInvHolds == BackupsSpec => []BackupInv
<1>1. BackupsInit => BackupInv
  BY MainStarts DEF Main, BackupInv
<1>2. BackupInv /\ [BackupsNext]_backupVars => BackupInv'
  BY MainSteps, SeenStep DEF Main, BackupInv
<1>3. QED
  BY <1>1, <1>2, PTL DEF BackupsSpec

LEMMA TypesOfBackup == ASSUME BackupTypes PROVE BackupsTypeOK
<1>1. \A i \in 1 .. Len(files) : files[i] \in Database
  BY DEF BackupTypes
<1>2. \A i \in 1 .. Len(files) :
          /\ files[i].main \subseteq 1 .. MaxWrites /\ files[i].log \subseteq 1 .. MaxWrites
          /\ files[i].version \in Nat \cup {Empty} /\ files[i].mixed \in BOOLEAN
  BY <1>1 DEF Database, Writes
<1>3. \A p \in Procs : cmd[p].pc \in Stages /\ cmd[p].aside \in Paths
  BY DEF BackupTypes, Command
<1>4. QED
  BY <1>2, <1>3 DEF BackupTypes, BackupsTypeOK, Stages, Opens, Pends, Writes

\* A restore can be undone, however many processes there are, in whatever order
\* they run and whichever are killed, also between the two renames: every write a
\* server has acknowledged is in a database under styr.db or a kept name, with
\* its log; none is opened with the log of another; the archive tells its version
\* and nothing newer than the binary is installed.  KeptAside names what must
\* not happen (replaceDatabase, runRestore, vacuumBackup).
THEOREM RestoreCanBeUndone == BackupsSpec => []RestoreOK
<1>1. BackupInv => RestoreOK
  <2> SUFFICES ASSUME BackupInv PROVE RestoreOK
    OBVIOUS
  <2>1. BackupTypes /\ PlacesOK /\ CopiesOK /\ SafeOK
    BY DEF BackupInv
  <2>2. KeptAside
    <3>1. SUFFICES ASSUME mishaps \subseteq {"crashed"}, NEW w \in writes
                   PROVE  \E p \in Paths : at[p] # NoFile /\ w \in Recoverable(p)
      BY DEF KeptAside
    <3>2. QED
      BY <2>1, <3>1 DEF SafeOK, Kept
  <2>3. NeverMixed
    BY <2>1 DEF NeverMixed, SafeOK
  <2>4. ManifestTells
    BY <2>1 DEF ManifestTells, CopiesOK
  <2>5. NotNewer
    <3>1. SUFFICES ASSUME NEW r \in Restores, cmd[r].pc \in {"aside", "log", "install"}
                   PROVE  files[cmd[r].file].version <= Binary[r]
      BY DEF NotNewer
    <3>2. r \in Procs /\ cmd[r].pc \in Pends /\ cmd[r].pc # "check"
      BY <3>1, HostNumbers DEF Pends
    <3>3. QED
      BY <2>1, <3>2 DEF PlacesOK
  <2>6. QED
    BY <2>1, <2>2, <2>3, <2>4, <2>5, TypesOfBackup DEF RestoreOK
<1>2. QED
  BY BackupInvHolds, <1>1, PTL

\* An unforced restore never takes a directory for free that a server has open,
\* whatever servers were killed before it; those that overlap with another are
\* the exception (runRestore, serverRunning, writePIDFile).
THEOREM TheServerIsSeen == BackupsSpec => []ServerIsSeen
<1>1. BackupInv => ServerIsSeen
  BY DEF BackupInv, SeenOK, ServerIsSeen
<1>2. QED
  BY BackupInvHolds, <1>1, PTL

-----------------------------------------------------------------------------
(***************************************************************************)
(* Workspaces.                                                             *)
(***************************************************************************)

Ops     == {"create", "update", "delete", "retry", "access", "session"}
JobPcs  == {"clone", "cloning", "cloned", "failed", "removed"}
Pcs     == JobPcs \cup {"stat", "mkdir", "init", "write", "remove", "delete", "list", "insert"}
Calls   == [op : Ops, pc : Pcs, id : Ids, row : Row, arg : Access]

WorkspaceTypes ==
    /\ rows \in [Ids -> Row \cup {NoRow, Gone}] /\ lists \in [Ids -> Lists]
    /\ asked \in [Ids -> Access] /\ disk \in [Dirs \cup {Outside} -> Files \cup {NoDir}]
    /\ sess \in [Ids -> Active \cup {"none", "closed"}] /\ used \subseteq Ids
    /\ call \in [Threads -> Calls \cup {Idle}]
    /\ calls \in 0 .. MaxCalls /\ faults \in 0 .. MaxFaults /\ harm \subseteq Ids \X Ways

\* Only a git workspace is ever anything but ready.
RowFits(r)  == r.source # "git" => r.state = "ready"
\* What a call read fits what it does: Retry a failed one, a session a ready
\* one, and only a git workspace is cloned.
Fits(c) ==
    /\ RowFits(c.row)
    /\ c.op = "create" =>
          /\ c.pc \in {"stat"} \cup (IF c.row.source = "git" THEN JobPcs ELSE {"mkdir", "init"})
          /\ managed(c.row) /\ c.row.state = IF c.row.source = "git" THEN "cloning" ELSE "ready"
    /\ c.op = "retry" =>
          c.pc \in {"remove", "write"} \cup JobPcs /\ c.row.source = "git" /\ c.row.state = "failed"
    /\ c.op = "update" => c.pc = "write"
    /\ c.op = "delete" => c.pc = "delete" \/ (c.pc = "remove" /\ managed(c.row))
    /\ c.op = "access" => c.pc \in {"write", "list"} /\ ~managed(c.row)
    /\ c.op = "session" => c.pc = "insert" /\ c.row.state = "ready"
\* What no write of a row changes.
SameBase(r, q) == r.source = q.source /\ r.dir = q.dir
CallsFit == \A t \in Threads : call[t] # Idle =>
    /\ Fits(call[t]) /\ rows[call[t].id] # NoRow
    /\ Exists(call[t].id) => SameBase(call[t].row, rows[call[t].id])
RowsFit == \A i \in Ids :
    /\ Exists(i) => RowFits(rows[i])
    /\ rows[i] = NoRow => sess[i] = "none" /\ lists[i] = {} /\ asked[i] = Everyone
\* Two rows with one directory are on record.
TwiceOK == \A i, j \in Live : i # j /\ rows[i].dir = rows[j].dir => <<i, "twice">> \in harm
\* A call that clones, or is about to.
Job(c) == /\ c.op \in {"create", "retry"}
          /\ c.pc \in JobPcs \/ (c.pc = "stat" /\ c.row.source = "git")
Crossed(i) == <<i, "crossed">> \in harm
\* Unless calls crossed, a workspace has one clone, and says so.
JobsOK == \A t \in Threads : Job(call[t]) /\ Exists(call[t].id) /\ ~Crossed(call[t].id) =>
    /\ rows[call[t].id].state = "cloning"
    /\ \A u \in Threads : Job(call[u]) /\ call[u].id = call[t].id => u = t
\* Unless calls crossed, a workspace that a session or a call has seen ready
\* stays ready.
ReadyStays == \A i \in Live : ~Crossed(i) =>
    /\ sess[i] # "none" => rows[i].state = "ready"
    /\ \A t \in Threads : (call[t] # Idle /\ call[t].id = i /\ call[t].row.state = "ready")
          => rows[i].state = "ready"
\* A session that a Delete has not seen is on record.
LateOK == \A t \in Threads :
    call[t].op = "delete" /\ sess[call[t].id] \in Active => <<call[t].id, "late">> \in harm
Full(d) == disk[d] # NoDir /\ disk[d].is = "full"
\* A Delete has removed the directory of i, and has the row still to remove.
Removed(i) == \E t \in Threads : call[t].op = "delete" /\ call[t].pc = "delete" /\ call[t].id = i
\* A clone that ended well has its files until its outcome is written.
ClonedOK == \A t \in Threads :
    (call[t].op \in {"create", "retry"} /\ call[t].pc = "cloned" /\ Exists(call[t].id)) =>
       Full(call[t].row.dir) \/ Removed(call[t].id) \/ Harmed(call[t].id, Ways)
CloneOK == \A i \in Live : rows[i].state = "cloning" =>
    (\E t \in Threads : Job(call[t]) /\ call[t].id = i) \/ Harmed(i, {"halfway", "crossed", "left"})
\* Between the two writes of SetAccess the mode is the one it asked for.
ListOK == \A t \in Threads :
    (call[t].op = "access" /\ call[t].pc = "list" /\ Exists(call[t].id)) =>
       rows[call[t].id].access = call[t].arg.mode \/ Harmed(call[t].id, {"halfway", "crossed"})

WorkspaceInv ==
    /\ WorkspaceTypes /\ CallsFit /\ RowsFit /\ TwiceOK /\ JobsOK /\ ReadyStays /\ LateOK
    /\ ReadyHasDir /\ ClonedOK /\ CloneOK /\ AccessAsAsked /\ ListOK

-----------------------------------------------------------------------------
(* What a step does to the calls, the rows and the disk. *)

Others(t)      == \A u \in Threads : u # t => call'[u] = call[u]
Stops(t)       == call'[t] = Idle
SameCall(c, d) == c.op = d.op /\ c.id = d.id /\ c.row = d.row /\ c.arg = d.arg
Moves(t, pc)   == /\ call[t] \in Calls /\ call'[t] \in Calls
                  /\ SameCall(call'[t], call[t]) /\ call'[t].pc = pc
Starts(t, op, pc, i, row, arg) ==
    /\ call[t] = Idle /\ call'[t] \in Calls
    /\ call'[t].op = op /\ call'[t].pc = pc /\ call'[t].id = i
    /\ call'[t].row = row /\ call'[t].arg = arg
\* Every call stays, ends, goes on, or begins with the row as it is.
Further(u) == call[u] \in Calls /\ call'[u] \in Calls /\ SameCall(call'[u], call[u]) /\ Fits(call'[u])
Begun(u)   == call[u] = Idle /\ call'[u] \in Calls /\ Fits(call'[u]) /\ rows'[call'[u].id] = call'[u].row
CallStep   == \A u \in Threads : call'[u] = call[u] \/ Stops(u) \/ Further(u) \/ Begun(u)
\* No new clone, Delete, cloned repository or second write of SetAccess.
NoNewJobs   == \A u \in Threads : Job(call'[u]) => Job(call[u]) /\ call'[u].id = call[u].id
NoNewDelete == \A u \in Threads :
    call'[u].op = "delete" => call[u].op = "delete" /\ call'[u].id = call[u].id
NoNewCloned == \A u \in Threads : call'[u].op \in {"create", "retry"} /\ call'[u].pc = "cloned" =>
    call[u].op \in {"create", "retry"} /\ call[u].pc = "cloned" /\ SameCall(call'[u], call[u])
NoNewList   == \A u \in Threads :
    call'[u].op = "access" /\ call'[u].pc = "list" => call'[u] = call[u]
\* None of these ends, but with the harm that goes with it.
JobsKept == \A u \in Threads, i \in Ids :
    (Job(call[u]) /\ call[u].id = i /\ Exists(i)' /\ rows'[i].state = "cloning") =>
       (Job(call'[u]) /\ call'[u].id = i) \/ Harmed(i, {"halfway", "crossed", "left"})'
HandKept == \A i \in Ids :
    InHand(i) /\ Exists(i)' => InHand(i)' \/ Full(rows[i].dir)' \/ Harmed(i, Ways)'
RemovedKept == \A i \in Ids : Removed(i) /\ Exists(i)' => Removed(i)' \/ Harmed(i, Ways)'
ListKept == \A u \in Threads, i \in Ids :
    (At(u, "access", "list") /\ Id(u) = i /\ Exists(i)') =>
       call'[u] = call[u] \/ Harmed(i, {"halfway", "crossed"})'
Calm == /\ CallStep /\ NoNewJobs /\ NoNewDelete /\ NoNewCloned /\ NoNewList
        /\ JobsKept /\ HandKept /\ RemovedKept /\ ListKept
\* No row is new, none comes back, and none changes its directory.
OldRows == \A i \in Ids :
    /\ rows[i] = NoRow => rows'[i] = NoRow
    /\ rows[i] = Gone => rows'[i] = Gone
    /\ Exists(i) => rows'[i] = Gone \/ (rows'[i] \in Row /\ SameBase(rows'[i], rows[i]))
RowsGrow == \A i \in Ids :
    /\ rows[i] # NoRow => rows'[i] # NoRow
    /\ rows[i] # NoRow /\ Exists(i)' => Exists(i) /\ SameBase(rows'[i], rows[i])
SameState    == \A i \in Ids : Exists(i)' /\ ~Crossed(i)' => rows'[i].state = rows[i].state
SameAccess   == \A i \in Ids : Exists(i)' /\ ~Crossed(i)' => rows'[i].access = rows[i].access
NoNewReady   == \A i \in Ids :
    Exists(i)' /\ ~Crossed(i)' /\ rows'[i].state = "ready" => rows[i].state = "ready"
NoNewCloning == \A i \in Ids :
    Exists(i)' /\ ~Crossed(i)' /\ rows'[i].state = "cloning" => rows[i].state = "cloning"
FullKept == \A d \in Dirs \cup {Outside} : Full(d) => Full(d)'

-----------------------------------------------------------------------------
LEMMA RecordsDiffer ==
    /\ NoRow # Gone /\ \A r \in Row : r # NoRow /\ r # Gone
    /\ Idle.op = "idle" /\ Idle \notin Calls
    /\ \A c \in Calls : c # Idle /\ c.op # "idle" /\ c.op \in Ops /\ c.pc \in Pcs /\ c.id \in Ids
                          /\ c.row \in Row /\ c.arg \in Access
    /\ \A f \in Files : f # NoDir
    /\ Outside \notin Dirs
<1>1. NoRow # Gone
  BY DEF NoRow, Gone
<1>2. \A r \in Row : r # NoRow /\ r # Gone
  BY DEF Row, NoRow, Gone
<1>3. Idle.op = "idle"
  BY DEF Idle
<1>4. \A c \in Calls : c.op # "idle" /\ c.op \in Ops /\ c.pc \in Pcs /\ c.id \in Ids
                         /\ c.row \in Row /\ c.arg \in Access
  BY DEF Calls, Ops
<1>5. \A f \in Files : f # NoDir
  BY DEF Files, NoDir
<1> QED
  BY <1>1, <1>2, <1>3, <1>4, <1>5, WorkspacesAssumption

LEMMA RowCases ==
    ASSUME WorkspaceTypes, NEW i \in Ids
    PROVE  /\ rows[i] \in Row \/ rows[i] = NoRow \/ rows[i] = Gone
           /\ Exists(i) <=> rows[i] \in Row
           /\ i \in Live <=> rows[i] \in Row
BY RecordsDiffer DEF WorkspaceTypes, Exists, Live

LEMMA CallCases ==
    ASSUME WorkspaceTypes, NEW t \in Threads
    PROVE  /\ call[t] = Idle \/ call[t] \in Calls
           /\ call[t] # Idle <=> call[t] \in Calls
           /\ call[t].op # "idle" => call[t] \in Calls
           /\ call[t].op \in Ops => call[t] \in Calls
BY RecordsDiffer DEF WorkspaceTypes, Ops

LEMMA AtFacts ==
    ASSUME WorkspaceTypes, NEW t \in Threads, NEW op, NEW pc, At(t, op, pc)
    PROVE  /\ call[t] \in Calls /\ call[t].op = op /\ call[t].pc = pc
           /\ Id(t) \in Ids /\ Id(t) = call[t].id /\ Dir(t) \in Dirs \cup {Outside}
              /\ call[t].row \in Row
BY CallCases, RecordsDiffer DEF At, Id, Dir, Row

LEMMA GoesFacts ==
    ASSUME WorkspaceTypes, NEW t \in Threads, call[t] # Idle, NEW pc \in Pcs, Goes(t, pc)
    PROVE  Others(t) /\ Moves(t, pc) /\ call' \in [Threads -> Calls \cup {Idle}]
<1>1. call[t] \in Calls
  BY CallCases
<1>2. LET c == [call[t] EXCEPT !.pc = pc] IN c \in Calls /\ SameCall(c, call[t]) /\ c.pc = pc
  BY <1>1 DEF Calls, SameCall
<1>3. call' = [call EXCEPT ![t] = [call[t] EXCEPT !.pc = pc]]
  BY DEF Goes
<1> QED
  BY <1>1, <1>2, <1>3 DEF Others, Moves, WorkspaceTypes

LEMMA EndsFacts ==
    ASSUME WorkspaceTypes, NEW t \in Threads, Ends(t)
    PROVE  Others(t) /\ Stops(t) /\ call' \in [Threads -> Calls \cup {Idle}]
BY DEF WorkspaceTypes, Ends, Others, Stops

LEMMA BeginsFacts ==
    ASSUME WorkspaceTypes, NEW t \in Threads, NEW op \in Ops, NEW pc \in Pcs, NEW i \in Ids,
           NEW row \in Row,
           NEW arg \in Access, Begins(t, op, pc, i, row, arg)
    PROVE  /\ Others(t) /\ Starts(t, op, pc, i, row, arg) /\ call' \in [Threads -> Calls \cup {Idle}]
           /\ calls' \in 0 .. MaxCalls
<1>1. LET c == [op |-> op, pc |-> pc, id |-> i, row |-> row, arg |-> arg]
      IN  c \in Calls /\ c.op = op /\ c.pc = pc /\ c.id = i /\ c.row = row /\ c.arg = arg
  BY DEF Calls
<1>2. calls' \in 0 .. MaxCalls
  BY WorkspacesAssumption DEF WorkspaceTypes, Begins
<1> QED
  BY <1>1, <1>2 DEF WorkspaceTypes, Begins, Others, Starts

LEMMA FailsFacts ==
    ASSUME WorkspaceTypes, Fails
    PROVE  faults' \in 0 .. MaxFaults
BY WorkspacesAssumption DEF WorkspaceTypes, Fails

LEMMA HarmsFacts ==
    ASSUME WorkspaceTypes, NEW S \in SUBSET Ids, NEW way \in Ways, Harms(S, way)
    PROVE  /\ harm \subseteq harm' /\ harm' \subseteq Ids \X Ways
           /\ \A i \in S : <<i, way>> \in harm'
BY DEF WorkspaceTypes, Harms

-----------------------------------------------------------------------------
(* What keeps each part of the invariant. *)

LEMMA Grows ==
    ASSUME WorkspaceTypes, OldRows
    PROVE  /\ RowsGrow
           /\ \A i \in Ids : Exists(i)' => Exists(i) /\ SameBase(rows'[i], rows[i]) /\ i \in Live
           /\ \A i \in Ids : rows'[i] = NoRow <=> rows[i] = NoRow
BY RecordsDiffer, RowCases DEF OldRows, RowsGrow, Exists, Live

LEMMA CallsFitKept ==
    ASSUME WorkspaceTypes, WorkspaceTypes', CallsFit, RowsGrow, CallStep
    PROVE  CallsFit'
<1> SUFFICES ASSUME NEW t \in Threads, call'[t] # Idle, NEW i \in Ids, call'[t].id = i
    PROVE  /\ Fits(call'[t]) /\ rows'[i] # NoRow
           /\ Exists(i)' => SameBase(call'[t].row, rows'[i])
  <2>1. \A t \in Threads : call'[t] # Idle => call'[t].id \in Ids
    BY RecordsDiffer DEF WorkspaceTypes
  <2> QED
    BY <2>1 DEF CallsFit, Exists
<1>0. call'[t] \in Calls /\ call'[t].row \in Row
  BY RecordsDiffer DEF WorkspaceTypes
<1>1. CASE Begun(t)
  BY <1>1, <1>0, RecordsDiffer DEF Begun, SameBase
<1>2. CASE call'[t] = call[t] \/ Further(t)
  <2>1. call[t] \in Calls /\ call[t] # Idle /\ call'[t].id = call[t].id /\ call'[t].row = call[t].row
        /\ Fits(call'[t])
    BY <1>2, <1>0, RecordsDiffer DEF Further, SameCall, CallsFit
  <2>2. rows[i] # NoRow /\ (Exists(i) => SameBase(call[t].row, rows[i]))
    BY <2>1 DEF CallsFit
  <2> QED
    BY <2>1, <2>2 DEF RowsGrow, SameBase
<1> QED
  BY <1>1, <1>2 DEF CallStep, Stops

LEMMA JobIds ==
    ASSUME WorkspaceTypes'
    PROVE  /\ \A t \in Threads : Job(call'[t]) => call'[t].id \in Ids
           /\ JobsOK' <=> \A t \in Threads, i \in Ids : Job(call'[t]) /\ call'[t].id = i /\ Exists(i)' /\ ~Crossed(i)' =>
                  /\ rows'[i].state = "cloning"
                  /\ \A u \in Threads : Job(call'[u]) /\ call'[u].id = i => u = t
<1>1. \A t \in Threads : Job(call'[t]) => call'[t].id \in Ids
  BY RecordsDiffer DEF WorkspaceTypes, Job
<1> QED
  BY <1>1 DEF JobsOK, Job, Exists, Crossed

LEMMA TwiceKept ==
    ASSUME WorkspaceTypes, TwiceOK, OldRows, harm \subseteq harm'
    PROVE  TwiceOK'
BY Grows DEF TwiceOK, SameBase, Live, Exists

LEMMA JobsOKKept ==
    ASSUME WorkspaceTypes, WorkspaceTypes', JobsOK, OldRows, harm \subseteq harm', SameState, NoNewJobs
    PROVE  JobsOK'
<1> SUFFICES ASSUME NEW t \in Threads, NEW i \in Ids, Job(call'[t]), call'[t].id = i, Exists(i)',
                    ~Crossed(i)'
    PROVE  /\ rows'[i].state = "cloning"
           /\ \A u \in Threads : Job(call'[u]) /\ call'[u].id = i => u = t
  BY JobIds
<1>1. Job(call[t]) /\ call[t].id = i
  BY DEF NoNewJobs
<1>2. Exists(i) /\ ~Crossed(i) /\ rows'[i].state = rows[i].state
  BY Grows DEF SameState, Crossed
<1> QED
  BY <1>1, <1>2 DEF JobsOK, NoNewJobs

LEMMA ReadyStaysKept ==
    ASSUME WorkspaceTypes, WorkspaceTypes', ReadyStays, OldRows, harm \subseteq harm', SameState,
           CallStep,
           \A i \in Ids : sess[i] = "none" => sess'[i] = "none"
    PROVE  ReadyStays'
<1> SUFFICES ASSUME NEW i \in Ids, Exists(i)', ~Crossed(i)'
    PROVE  /\ sess'[i] # "none" => rows'[i].state = "ready"
           /\ \A t \in Threads : call'[t] # Idle /\ call'[t].id = i /\ call'[t].row.state = "ready" => rows'[i].state = "ready"
  BY DEF ReadyStays, Live, Exists, Crossed
<1>1. i \in Live /\ ~Crossed(i) /\ rows'[i].state = rows[i].state
  BY Grows DEF SameState, Crossed
<1>2. sess'[i] # "none" => rows'[i].state = "ready"
  BY <1>1 DEF ReadyStays
<1>3. ASSUME NEW t \in Threads, call'[t] # Idle, call'[t].id = i, call'[t].row.state = "ready"
      PROVE  rows'[i].state = "ready"
  <2>1. CASE Begun(t)
    BY <2>1, <1>3 DEF Begun
  <2>2. CASE call'[t] = call[t]
    BY <2>2, <1>1, <1>3 DEF ReadyStays
  <2>3. CASE Further(t)
    BY <2>3, <1>1, <1>3, RecordsDiffer DEF ReadyStays, Further, SameCall
  <2> QED
    BY <2>1, <2>2, <2>3, <1>3 DEF CallStep, Stops
<1> QED
  BY <1>2, <1>3

LEMMA LateKept ==
    ASSUME LateOK, sess' = sess, harm \subseteq harm', NoNewDelete
    PROVE  LateOK'
BY DEF LateOK, NoNewDelete

LEMMA ReadyHasDirStays ==
    ASSUME WorkspaceTypes, WorkspaceTypes', ReadyHasDir, OldRows, harm \subseteq harm', NoNewReady,
           FullKept, HandKept
    PROVE  ReadyHasDir'
<1> SUFFICES ASSUME NEW i \in Ids, Exists(i)', rows'[i].state = "ready"
    PROVE  Full(rows[i].dir)' \/ InHand(i)' \/ Harmed(i, Ways)'
  BY DEF ReadyHasDir, Live, Exists, Full
<1>1. i \in Live /\ rows'[i].dir = rows[i].dir /\ rows[i].dir \in Dirs \cup {Outside}
  BY Grows, RowCases DEF SameBase, Row
<1>2. CASE Crossed(i)'
  BY <1>2 DEF Crossed, Harmed, Ways
<1>3. CASE ~Crossed(i)'
  <2>1. rows[i].state = "ready"
    BY <1>3 DEF NoNewReady
  <2>2. Full(rows[i].dir) \/ InHand(i) \/ Harmed(i, Ways)
    BY <2>1, <1>1 DEF ReadyHasDir, Full
  <2>3. Harmed(i, Ways) => Harmed(i, Ways)'
    BY DEF Harmed
  <2>4. Full(rows[i].dir) => Full(rows[i].dir)'
    BY <1>1 DEF FullKept, Full
  <2> QED
    BY <2>2, <2>3, <2>4 DEF HandKept
<1> QED
  BY <1>2, <1>3

LEMMA ReadyHasDirKept ==
    ASSUME WorkspaceTypes, WorkspaceTypes', ReadyHasDir, OldRows, harm \subseteq harm', SameState,
           FullKept, HandKept
    PROVE  ReadyHasDir'
BY ReadyHasDirStays DEF SameState, NoNewReady

LEMMA ClonedIds ==
    ASSUME WorkspaceTypes'
    PROVE  ClonedOK' <=> \A t \in Threads, i \in Ids, d \in Dirs \cup {Outside} :
               (/\ call'[t].op \in {"create", "retry"} /\ call'[t].pc = "cloned" /\ call'[t].id = i
                /\ call'[t].row.dir = d /\ Exists(i)')
               => Full(d)' \/ Removed(i)' \/ Harmed(i, Ways)'
<1>1. \A t \in Threads : call'[t].op \in {"create", "retry"} =>
          call'[t].id \in Ids /\ call'[t].row.dir \in Dirs \cup {Outside}
  BY RecordsDiffer DEF WorkspaceTypes, Row
<1> QED
  BY <1>1 DEF ClonedOK, Full, Removed, Harmed, Exists

LEMMA ClonedKept ==
    ASSUME WorkspaceTypes, WorkspaceTypes', ClonedOK, OldRows, harm \subseteq harm', FullKept,
           NoNewCloned, RemovedKept
    PROVE  ClonedOK'
<1> SUFFICES ASSUME NEW t \in Threads, NEW i \in Ids, NEW d \in Dirs \cup {Outside},
                    call'[t].op \in {"create", "retry"}, call'[t].pc = "cloned", call'[t].id = i,
                    call'[t].row.dir = d, Exists(i)'
    PROVE  Full(d)' \/ Removed(i)' \/ Harmed(i, Ways)'
  BY ClonedIds
<1>1. call[t].op \in {"create", "retry"} /\ call[t].pc = "cloned" /\ call[t].id = i
      /\ call[t].row.dir = d
  BY DEF NoNewCloned, SameCall
<1>2. Exists(i)
  BY Grows
<1>3. Full(d) \/ Removed(i) \/ Harmed(i, Ways)
  BY <1>1, <1>2 DEF ClonedOK
<1>4. Harmed(i, Ways) => Harmed(i, Ways)'
  BY DEF Harmed
<1> QED
  BY <1>3, <1>4 DEF RemovedKept, FullKept

LEMMA CloneStays ==
    ASSUME WorkspaceTypes, WorkspaceTypes', CloneOK, OldRows, harm \subseteq harm', NoNewCloning,
           JobsKept
    PROVE  CloneOK'
<1> SUFFICES ASSUME NEW i \in Ids, Exists(i)', rows'[i].state = "cloning"
    PROVE  (\E t \in Threads : Job(call'[t]) /\ call'[t].id = i) \/ Harmed(i, {"halfway", "crossed", "left"})'
  BY DEF CloneOK, Live, Exists, Harmed, Job
<1>1. CASE Crossed(i)'
  BY <1>1 DEF Crossed, Harmed
<1>2. CASE ~Crossed(i)'
  <2>1. i \in Live /\ rows[i].state = "cloning"
    BY <1>2, Grows DEF NoNewCloning
  <2>2. CASE Harmed(i, {"halfway", "crossed", "left"})
    BY <2>2 DEF Harmed
  <2>3. CASE \E t \in Threads : Job(call[t]) /\ call[t].id = i
    <3>1. PICK t \in Threads : Job(call[t]) /\ call[t].id = i
      BY <2>3
    <3>2. (Job(call'[t]) /\ call'[t].id = i) \/ Harmed(i, {"halfway", "crossed", "left"})'
      BY <3>1 DEF JobsKept
    <3> QED
      BY <3>2
  <2> QED
    BY <2>1, <2>2, <2>3 DEF CloneOK
<1> QED
  BY <1>1, <1>2

LEMMA CloneKept ==
    ASSUME WorkspaceTypes, WorkspaceTypes', CloneOK, OldRows, harm \subseteq harm', SameState, JobsKept
    PROVE  CloneOK'
BY CloneStays DEF SameState, NoNewCloning

LEMMA AccessKept ==
    ASSUME WorkspaceTypes, WorkspaceTypes', AccessAsAsked, OldRows, harm \subseteq harm', SameAccess,
           ListKept,
           \A i \in Ids : Exists(i)' => lists'[i] = lists[i] /\ asked'[i] = asked[i]
    PROVE  AccessAsAsked'
<1> SUFFICES ASSUME NEW i \in Ids, Exists(i)', ~managed(rows'[i]),
                    \A t \in Threads : ~At(t, "access", "list")' \/ Id(t)' # i
    PROVE  \/ /\ rows'[i].access = asked'[i].mode
              /\ lists'[i] = IF asked'[i].mode = "listed" THEN asked'[i].list ELSE {}
           \/ Harmed(i, {"halfway", "crossed"})'
  BY DEF AccessAsAsked, Live, Exists, Harmed, managed
<1>1. CASE Harmed(i, {"halfway", "crossed"})'
  BY <1>1
<1>2. CASE ~Harmed(i, {"halfway", "crossed"})'
  <2>1. i \in Live /\ ~managed(rows[i]) /\ ~Crossed(i)' /\ ~Harmed(i, {"halfway", "crossed"})
    BY <1>2, Grows DEF managed, SameBase, Crossed, Harmed
  <2>2. \A t \in Threads : ~At(t, "access", "list") \/ Id(t) # i
    <3> SUFFICES ASSUME NEW t \in Threads, At(t, "access", "list"), Id(t) = i
        PROVE  FALSE
      OBVIOUS
    <3>1. call'[t] = call[t]
      BY <1>2 DEF ListKept
    <3>2. At(t, "access", "list")' /\ Id(t)' = i
      BY <3>1 DEF At, Id
    <3> QED
      BY <3>2
  <2> QED
    BY <2>1, <2>2 DEF AccessAsAsked, SameAccess
<1> QED
  BY <1>1, <1>2

LEMMA ListIds ==
    ASSUME WorkspaceTypes'
    PROVE  ListOK' <=> \A t \in Threads, i \in Ids :
               call'[t].op = "access" /\ call'[t].pc = "list" /\ call'[t].id = i /\ Exists(i)'
               => rows'[i].access = call'[t].arg.mode \/ Harmed(i, {"halfway", "crossed"})'
<1>1. \A t \in Threads : call'[t].op = "access" => call'[t].id \in Ids
  BY RecordsDiffer DEF WorkspaceTypes
<1> QED
  BY <1>1 DEF ListOK, Exists, Harmed

LEMMA ListOKKept ==
    ASSUME WorkspaceTypes, WorkspaceTypes', ListOK, OldRows, harm \subseteq harm', SameAccess, NoNewList
    PROVE  ListOK'
<1> SUFFICES ASSUME NEW t \in Threads, NEW i \in Ids, call'[t].op = "access", call'[t].pc = "list",
                    call'[t].id = i, Exists(i)'
    PROVE  rows'[i].access = call'[t].arg.mode \/ Harmed(i, {"halfway", "crossed"})'
  BY ListIds
<1>1. call'[t] = call[t] /\ Exists(i)
  BY Grows DEF NoNewList
<1>2. CASE Harmed(i, {"halfway", "crossed"})'
  BY <1>2
<1>3. CASE ~Harmed(i, {"halfway", "crossed"})'
  <2>1. ~Harmed(i, {"halfway", "crossed"}) /\ ~Crossed(i)'
    BY <1>3 DEF Harmed, Crossed
  <2> QED
    BY <1>1, <2>1 DEF ListOK, SameAccess
<1> QED
  BY <1>2, <1>3

-----------------------------------------------------------------------------
(* How a call moves. *)

LEMMA StopKeeps ==
    ASSUME WorkspaceTypes, NEW t \in Threads, Others(t), Stops(t)
    PROVE  /\ CallStep /\ NoNewJobs /\ NoNewDelete /\ NoNewCloned /\ NoNewList
           /\ ~Job(call[t]) => JobsKept
           /\ call[t].op \notin {"create", "delete"} => HandKept
           /\ call[t].op # "delete" => RemovedKept
           /\ call[t].op # "access" \/ call[t].pc # "list" => ListKept
<1>1. \A u \in Threads : u # t => call'[u] = call[u] /\ SameCall(call'[u], call[u])
  BY DEF Others, SameCall
<1>2. call'[t] = Idle /\ call'[t].op = "idle" /\ ~Job(call'[t])
  BY RecordsDiffer DEF Stops, Job
<1>3. CallStep /\ NoNewJobs /\ NoNewDelete
  BY <1>1, <1>2 DEF CallStep, Stops, NoNewJobs, NoNewDelete
<1>4. NoNewCloned /\ NoNewList
  BY <1>1, <1>2 DEF NoNewCloned, NoNewList
<1>5. ~Job(call[t]) => JobsKept
  BY <1>1 DEF JobsKept
<1>6. ASSUME call[t].op \notin {"create", "delete"} PROVE HandKept
  <2> SUFFICES ASSUME NEW i \in Ids, InHand(i)
      PROVE  InHand(i)'
    BY DEF HandKept
  <2>1. PICK u \in Threads : call[u] # Idle /\ Id(u) = i /\ call[u].op \in {"create", "delete"}
    BY DEF InHand
  <2>2. call'[u] = call[u]
    BY <1>1, <1>6, <2>1
  <2> QED
    BY <2>1, <2>2 DEF InHand, Id
<1>7. ASSUME call[t].op # "delete" PROVE RemovedKept
  <2> SUFFICES ASSUME NEW i \in Ids, Removed(i)
      PROVE  Removed(i)'
    BY DEF RemovedKept
  <2>1. PICK u \in Threads : call[u].op = "delete" /\ call[u].pc = "delete" /\ call[u].id = i
    BY DEF Removed
  <2>2. call'[u] = call[u]
    BY <1>1, <1>7, <2>1
  <2> QED
    BY <2>1, <2>2 DEF Removed
<1>8. call[t].op # "access" \/ call[t].pc # "list" => ListKept
  BY <1>1 DEF ListKept, At
<1> QED
  BY <1>3, <1>4, <1>5, <1>6, <1>7, <1>8

LEMMA MoveKeeps ==
    ASSUME WorkspaceTypes, NEW t \in Threads, Others(t), NEW pc, Moves(t, pc), Fits(call'[t])
    PROVE  /\ CallStep /\ NoNewDelete /\ HandKept
           /\ (Job(call'[t]) => Job(call[t])) => NoNewJobs
           /\ (Job(call[t]) => Job(call'[t])) => JobsKept
           /\ pc # "cloned" => NoNewCloned
           /\ pc = "delete" \/ call[t].op # "delete" => RemovedKept
           /\ call[t].op # "access" => ListKept /\ NoNewList
<1>1. \A u \in Threads : u # t => call'[u] = call[u] /\ SameCall(call'[u], call[u])
  BY DEF Others, SameCall
<1>2. /\ call[t] \in Calls /\ call'[t] \in Calls /\ SameCall(call'[t], call[t]) /\ call'[t].pc = pc
      /\ call'[t].op = call[t].op /\ call'[t].id = call[t].id
  BY DEF Moves, SameCall
<1>3. CallStep /\ NoNewDelete
  BY <1>1, <1>2 DEF CallStep, Further, NoNewDelete
<1>4. HandKept
  <2> SUFFICES ASSUME NEW i \in Ids, InHand(i)
      PROVE  InHand(i)'
    BY DEF HandKept
  <2>1. PICK u \in Threads : call[u] # Idle /\ Id(u) = i /\ call[u].op \in {"create", "delete"}
    BY DEF InHand
  <2>2. call'[u] # Idle /\ call'[u].id = call[u].id /\ call'[u].op = call[u].op
    BY <1>1, <1>2, <2>1, RecordsDiffer
  <2> QED
    BY <2>1, <2>2 DEF InHand, Id
<1>5. (Job(call'[t]) => Job(call[t])) => NoNewJobs
  BY <1>1, <1>2 DEF NoNewJobs
<1>6. (Job(call[t]) => Job(call'[t])) => JobsKept
  BY <1>1, <1>2 DEF JobsKept
<1>7. pc # "cloned" => NoNewCloned
  BY <1>1, <1>2 DEF NoNewCloned
<1>8. ASSUME pc = "delete" \/ call[t].op # "delete" PROVE RemovedKept
  <2> SUFFICES ASSUME NEW i \in Ids, Removed(i)
      PROVE  Removed(i)'
    BY DEF RemovedKept
  <2>1. PICK u \in Threads : call[u].op = "delete" /\ call[u].pc = "delete" /\ call[u].id = i
    BY DEF Removed
  <2>2. call'[u].op = "delete" /\ call'[u].pc = "delete" /\ call'[u].id = i
    BY <1>1, <1>2, <1>8, <2>1
  <2> QED
    BY <2>2 DEF Removed
<1>9. call[t].op # "access" => ListKept /\ NoNewList
  BY <1>1, <1>2 DEF ListKept, NoNewList, At
<1> QED
  BY <1>3, <1>4, <1>5, <1>6, <1>7, <1>8, <1>9

LEMMA StartKeeps ==
    ASSUME WorkspaceTypes, NEW t \in Threads, Others(t), NEW op, NEW pc, NEW i, NEW row, NEW arg,
           Starts(t, op, pc, i, row, arg), Fits(call'[t]), rows'[i] = row
    PROVE  /\ CallStep /\ JobsKept /\ HandKept /\ RemovedKept /\ ListKept
           /\ ~Job(call'[t]) => NoNewJobs
           /\ op # "delete" => NoNewDelete
           /\ pc # "cloned" => NoNewCloned
           /\ pc # "list" => NoNewList
<1>1. \A u \in Threads : u # t => call'[u] = call[u] /\ SameCall(call'[u], call[u])
  BY DEF Others, SameCall
<1>2. /\ call[t] = Idle /\ call[t].op = "idle" /\ ~Job(call[t]) /\ call'[t] \in Calls
      /\ call'[t].op = op /\ call'[t].pc = pc /\ call'[t].id = i /\ call'[t].row = row
  BY RecordsDiffer DEF Starts, Job
<1>3. CallStep /\ JobsKept
  BY <1>1, <1>2 DEF CallStep, Begun, JobsKept
<1>4. HandKept
  <2> SUFFICES ASSUME NEW j \in Ids, InHand(j)
      PROVE  InHand(j)'
    BY DEF HandKept
  <2>1. PICK u \in Threads : call[u] # Idle /\ Id(u) = j /\ call[u].op \in {"create", "delete"}
    BY DEF InHand
  <2>2. call'[u] = call[u]
    BY <1>1, <1>2, <2>1
  <2> QED
    BY <2>1, <2>2 DEF InHand, Id
<1>5. RemovedKept
  <2> SUFFICES ASSUME NEW j \in Ids, Removed(j)
      PROVE  Removed(j)'
    BY DEF RemovedKept
  <2>1. PICK u \in Threads : call[u].op = "delete" /\ call[u].pc = "delete" /\ call[u].id = j
    BY DEF Removed
  <2>2. call'[u] = call[u]
    BY <1>1, <1>2, <2>1
  <2> QED
    BY <2>1, <2>2 DEF Removed
<1>6. ListKept
  BY <1>1, <1>2 DEF ListKept, At
<1>7. ~Job(call'[t]) => NoNewJobs
  BY <1>1, <1>2 DEF NoNewJobs
<1>8. op # "delete" => NoNewDelete
  BY <1>1, <1>2 DEF NoNewDelete
<1>9. (pc # "cloned" => NoNewCloned) /\ (pc # "list" => NoNewList)
  BY <1>1, <1>2 DEF NoNewCloned, NoNewList
<1> QED
  BY <1>3, <1>4, <1>5, <1>6, <1>7, <1>8, <1>9

LEMMA Still ==
    ASSUME WorkspaceTypes, rows' = rows
    PROVE  OldRows /\ SameState /\ SameAccess
BY RowCases, RecordsDiffer DEF OldRows, SameState, SameAccess, SameBase, Exists

LEMMA RowsFitKept ==
    ASSUME WorkspaceTypes, RowsFit, OldRows,
           \A i \in Ids : Exists(i)' => RowFits(rows'[i]),
           \A i \in Ids : rows[i] = NoRow => sess'[i] = sess[i] /\ lists'[i] = lists[i] /\ asked'[i] = asked[i]
    PROVE  RowsFit'
BY Grows DEF RowsFit, Exists

\* A step of a call that takes nothing from anybody.
LEMMA CalmKeeps ==
    ASSUME WorkspaceInv, WorkspaceTypes', Calm, OldRows, SameState, SameAccess, FullKept,
           harm \subseteq harm', sess' = sess,
           \A i \in Ids : rows[i] = NoRow \/ Exists(i)' => lists'[i] = lists[i] /\ asked'[i] = asked[i],
           \A i \in Ids : Exists(i)' => RowFits(rows'[i])
    PROVE  WorkspaceInv'
<1> USE DEF WorkspaceInv, Calm
<1>1. CallsFit'
  BY CallsFitKept, Grows
<1>2. RowsFit'
  BY RowsFitKept
<1>3. TwiceOK' /\ LateOK'
  BY TwiceKept, LateKept
<1>4. JobsOK' /\ ReadyStays'
  BY JobsOKKept, ReadyStaysKept
<1>5. ReadyHasDir' /\ ClonedOK'
  BY ReadyHasDirKept, ClonedKept
<1>6. CloneOK' /\ AccessAsAsked' /\ ListOK'
  BY CloneKept, AccessKept, ListOKKept
<1> QED
  BY <1>1, <1>2, <1>3, <1>4, <1>5, <1>6

-----------------------------------------------------------------------------
(* The actions. *)

LEMMA BeginKeeps ==
    ASSUME WorkspaceInv, NEW t \in Threads, NEW op \in Ops \ {"delete"},
           NEW pc \in Pcs \ {"cloned", "list"}, NEW i \in Ids,
           Exists(i), NEW arg \in Access, Begins(t, op, pc, i, rows[i], arg),
           UNCHANGED <<rows, lists, disk, sess, used, faults, harm, asked>>,
           \A c \in Calls : c.op = op /\ c.pc = pc /\ c.row = rows[i] => Fits(c) /\ ~Job(c)
    PROVE  WorkspaceInv'
<1>0. WorkspaceTypes /\ rows[i] \in Row
  BY RowCases DEF WorkspaceInv
<1>1. Others(t) /\ Starts(t, op, pc, i, rows[i], arg) /\ call' \in [Threads -> Calls \cup {Idle}]
      /\ calls' \in 0 .. MaxCalls
  BY <1>0, BeginsFacts
<1>2. WorkspaceTypes'
  BY <1>0, <1>1 DEF WorkspaceTypes
<1>3. Fits(call'[t]) /\ ~Job(call'[t])
  BY <1>1 DEF Starts
<1>4. Calm
  BY <1>0, <1>1, <1>3, StartKeeps DEF Calm
<1>5. OldRows /\ SameState /\ SameAccess
  BY <1>0, Still
<1>6. FullKept /\ \A j \in Ids : Exists(j)' => RowFits(rows'[j])
  BY DEF FullKept, Full, WorkspaceInv, RowsFit, Exists
<1> QED
  BY <1>2, <1>4, <1>5, <1>6, CalmKeeps

LEMMA ReadKeeps ==
    ASSUME WorkspaceInv, NEW t \in Threads, NEW i \in Ids,
           Update(t, i) \/ Retry(t, i) \/ CreateSession(t, i) \/ \E arg \in Access : SetAccess(t, i, arg)
    PROVE  WorkspaceInv'
<1>0. WorkspaceTypes /\ Everyone \in Access
  BY DEF WorkspaceInv, Everyone, Access, Lists
<1>1. Exists(i) => RowFits(rows[i])
  BY DEF WorkspaceInv, RowsFit
<1>2. CASE Update(t, i)
  <2>1. \A c \in Calls : c.op = "update" /\ c.pc = "write" /\ c.row = rows[i] => Fits(c) /\ ~Job(c)
    BY <1>1, <1>2 DEF Update, getVisible, Fits, Job
  <2> QED
    BY <1>0, <1>2, <2>1, BeginKeeps DEF Update, getVisible, Ops, Pcs, JobPcs
<1>3. CASE Retry(t, i)
  <2>1. \A c \in Calls : c.op = "retry" /\ c.pc = "remove" /\ c.row = rows[i] => Fits(c) /\ ~Job(c)
    BY <1>1, <1>3 DEF Retry, getVisible, Fits, Job, JobPcs
  <2> QED
    BY <1>0, <1>3, <2>1, BeginKeeps DEF Retry, getVisible, Ops, Pcs, JobPcs
<1>4. CASE CreateSession(t, i)
  <2>1. \A c \in Calls : c.op = "session" /\ c.pc = "insert" /\ c.row = rows[i] => Fits(c) /\ ~Job(c)
    BY <1>1, <1>4 DEF CreateSession, getVisible, Fits, Job
  <2> QED
    BY <1>0, <1>4, <2>1, BeginKeeps DEF CreateSession, getVisible, Ops, Pcs, JobPcs
<1>5. ASSUME NEW arg \in Access, SetAccess(t, i, arg) PROVE WorkspaceInv'
  <2>1. \A c \in Calls : c.op = "access" /\ c.pc = "write" /\ c.row = rows[i] => Fits(c) /\ ~Job(c)
    BY <1>1, <1>5 DEF SetAccess, Fits, Job
  <2> QED
    BY <1>0, <1>5, <2>1, BeginKeeps DEF SetAccess, Ops, Pcs, JobPcs
<1> QED
  BY <1>2, <1>3, <1>4, <1>5

LEMMA DeleteKeeps ==
    ASSUME WorkspaceInv, NEW t \in Threads, NEW i \in Ids, Delete(t, i)
    PROVE  WorkspaceInv'
<1>0. WorkspaceTypes /\ Exists(i) /\ rows[i] \in Row /\ Everyone \in Access
  BY RowCases DEF WorkspaceInv, Delete, getVisible, Everyone, Access, Lists
<1> DEFINE pc == IF managed(rows[i]) THEN "remove" ELSE "delete"
<1>1. Others(t) /\ Starts(t, "delete", pc, i, rows[i], Everyone)
      /\ call' \in [Threads -> Calls \cup {Idle}] /\ calls' \in 0 .. MaxCalls
  BY <1>0, BeginsFacts DEF Delete, Ops, Pcs
<1>2. WorkspaceTypes'
  BY <1>0, <1>1 DEF WorkspaceTypes, Delete
<1>3. Fits(call'[t]) /\ ~Job(call'[t]) /\ call'[t].op = "delete" /\ call'[t].id = i
  BY <1>0, <1>1 DEF Starts, Fits, Job, WorkspaceInv, RowsFit
<1>4. CallStep /\ NoNewJobs /\ NoNewCloned /\ NoNewList /\ JobsKept /\ HandKept /\ RemovedKept
      /\ ListKept
  <2>1. pc # "cloned" /\ pc # "list" /\ rows'[i] = rows[i]
    BY DEF Delete
  <2> HIDE DEF pc
  <2> QED
    BY <1>0, <1>1, <1>3, <2>1, StartKeeps
<1>5. OldRows /\ SameState /\ SameAccess
  BY <1>0, Still DEF Delete
<1>6. FullKept /\ \A j \in Ids : Exists(j)' => RowFits(rows'[j])
  BY DEF FullKept, Full, WorkspaceInv, RowsFit, Exists, Delete
<1>7. harm' = harm /\ sess' = sess /\ used' = used /\ lists' = lists /\ asked' = asked
  BY DEF Delete
<1>8. LateOK'
  <2> SUFFICES ASSUME NEW u \in Threads, call'[u].op = "delete", sess[call'[u].id] \in Active
      PROVE  <<call'[u].id, "late">> \in harm
    BY <1>7 DEF LateOK
  <2>1. u # t
    BY <1>3 DEF Delete, hasActiveSessions
  <2> QED
    BY <2>1, <1>1 DEF WorkspaceInv, LateOK, Others
<1> USE DEF WorkspaceInv
<1>9. CallsFit' /\ RowsFit' /\ TwiceOK'
  BY <1>0, <1>2, <1>4, <1>5, <1>6, <1>7, CallsFitKept, Grows, RowsFitKept, TwiceKept
<1>10. JobsOK' /\ ReadyStays'
  BY <1>0, <1>2, <1>4, <1>5, <1>7, JobsOKKept, ReadyStaysKept
<1>11. ReadyHasDir' /\ ClonedOK'
  BY <1>0, <1>2, <1>4, <1>5, <1>6, <1>7, ReadyHasDirKept, ClonedKept
<1>12. CloneOK' /\ AccessAsAsked' /\ ListOK'
  BY <1>0, <1>2, <1>4, <1>5, <1>7, CloneKept, AccessKept, ListOKKept
<1> QED
  BY <1>2, <1>8, <1>9, <1>10, <1>11, <1>12

LEMMA CloneEndKeeps ==
    ASSUME WorkspaceInv, NEW t \in Threads, CloneEnd(t)
    PROVE  WorkspaceInv'
<1>0. WorkspaceTypes /\ CallsFit
  BY DEF WorkspaceInv
<1>1. /\ call[t] \in Calls /\ call[t] # Idle /\ Id(t) \in Ids /\ Dir(t) \in Dirs \cup {Outside}
         /\ Fits(call[t])
      /\ call[t].op \in {"create", "retry"} /\ call[t].pc = "cloning" /\ Job(call[t])
  BY <1>0, AtFacts, RecordsDiffer DEF CloneEnd, Cloner, CallsFit, Job, JobPcs
<1>2. PICK pc \in {"cloned", "failed"} :
          /\ Goes(t, pc)
          /\ pc = "cloned" => disk[Dir(t)] = [by |-> Id(t), is |-> "partial"] /\ disk' = [disk EXCEPT ![Dir(t)].is = "full"]
          /\ pc = "failed" => disk' = disk
  BY DEF CloneEnd
<1>3. Others(t) /\ Moves(t, pc) /\ call' \in [Threads -> Calls \cup {Idle}]
  BY <1>0, <1>1, <1>2, GoesFacts DEF Pcs, JobPcs
<1>4. /\ disk' \in [Dirs \cup {Outside} -> Files \cup {NoDir}] /\ FullKept
      /\ pc = "cloned" => Full(Dir(t))'
  <2>1. CASE pc = "failed"
    BY <2>1, <1>0, <1>2 DEF WorkspaceTypes, FullKept, Full
  <2>2. CASE pc = "cloned"
    <3>1. LET f == [disk[Dir(t)] EXCEPT !.is = "full"] IN f \in Files /\ f.is = "full" /\ f # NoDir
      BY <2>2, <1>1, <1>2, RecordsDiffer DEF Files
    <3>2. disk' = [disk EXCEPT ![Dir(t)] = [disk[Dir(t)] EXCEPT !.is = "full"]]
      BY <2>2, <1>2
    <3>3. disk' \in [Dirs \cup {Outside} -> Files \cup {NoDir}] /\ FullKept
      BY <3>1, <3>2, <1>0, <1>1 DEF WorkspaceTypes, FullKept, Full
    <3>4. disk'[Dir(t)] # NoDir /\ disk'[Dir(t)].is = "full" /\ Dir(t)' = Dir(t)
      BY <3>1, <3>2, <1>0, <1>1, <1>3 DEF WorkspaceTypes, Dir, Moves, SameCall
    <3> QED
      BY <3>3, <3>4 DEF Full
  <2> QED
    BY <2>1, <2>2
<1>5. WorkspaceTypes'
  BY <1>0, <1>3, <1>4 DEF WorkspaceTypes, CloneEnd
<1>6. Fits(call'[t]) /\ Job(call'[t])
  BY <1>1, <1>2, <1>3 DEF Moves, SameCall, Fits, Job, JobPcs
<1>7. CallStep /\ NoNewJobs /\ NoNewDelete /\ NoNewList /\ JobsKept /\ HandKept /\ RemovedKept /\ ListKept /\ (pc # "cloned" => NoNewCloned)
  BY <1>0, <1>1, <1>2, <1>3, <1>6, MoveKeeps
<1>8. rows' = rows /\ harm' = harm /\ sess' = sess /\ used' = used /\ lists' = lists /\ asked' = asked
  BY DEF CloneEnd
<1>9. OldRows /\ SameState /\ SameAccess /\ \A j \in Ids : Exists(j)' => RowFits(rows'[j])
  BY <1>0, <1>8, Still DEF WorkspaceInv, RowsFit, Exists
<1> USE DEF WorkspaceInv
<1>10. CallsFit' /\ RowsFit' /\ TwiceOK' /\ LateOK'
  BY <1>0, <1>5, <1>7, <1>8, <1>9, CallsFitKept, Grows, RowsFitKept, TwiceKept, LateKept
<1>11. JobsOK' /\ ReadyStays' /\ ReadyHasDir'
  BY <1>0, <1>4, <1>5, <1>7, <1>8, <1>9, JobsOKKept, ReadyStaysKept, ReadyHasDirKept
<1>12. CloneOK' /\ AccessAsAsked' /\ ListOK'
  BY <1>0, <1>5, <1>7, <1>8, <1>9, CloneKept, AccessKept, ListOKKept
<1>13. ClonedOK'
  <2>1. CASE pc = "failed"
    BY <2>1, <1>4, <1>5, <1>7, <1>8, <1>9, ClonedKept
  <2>2. CASE pc = "cloned"
    <3> SUFFICES ASSUME NEW u \in Threads, NEW i \in Ids, NEW d \in Dirs \cup {Outside},
                        call'[u].op \in {"create", "retry"}, call'[u].pc = "cloned", call'[u].id = i,
                        call'[u].row.dir = d, Exists(i)'
        PROVE  Full(d)' \/ Removed(i)' \/ Harmed(i, Ways)'
      BY <1>5, ClonedIds
    <3>1. CASE u = t
      BY <3>1, <2>2, <1>3, <1>4 DEF Moves, SameCall, Dir, Full
    <3>2. CASE u # t
      <4>1. call'[u] = call[u] /\ Exists(i)
        BY <3>2, <1>3, <1>8 DEF Others, Exists
      <4>2. Full(d) \/ Removed(i) \/ Harmed(i, Ways)
        BY <4>1 DEF ClonedOK
      <4>3. Harmed(i, Ways) => Harmed(i, Ways)'
        BY <1>8 DEF Harmed
      <4> QED
        BY <4>2, <4>3, <1>4, <1>7 DEF RemovedKept, FullKept
    <3> QED
      BY <3>1, <3>2
  <2> QED
    BY <2>1, <2>2
<1> QED
  BY <1>5, <1>10, <1>11, <1>12, <1>13

-----------------------------------------------------------------------------
(* A directory is removed; a row is removed. *)

LEMMA RemoveFacts ==
    ASSUME WorkspaceInv, NEW t \in Threads, call[t] \in Calls, NEW S \in SUBSET Ids, NEW way \in Ways,
           RemoveAll(t, S, way)
    PROVE  /\ disk' \in [Dirs \cup {Outside} -> Files \cup {NoDir}]
           /\ \A d \in Dirs \cup {Outside} : d # Dir(t) => disk'[d] = disk[d]
           /\ harm \subseteq harm' /\ harm' \subseteq Ids \X Ways
           /\ \A i \in S : <<i, way>> \in harm'
           /\ \A j \in Ids : Exists(j) /\ j # Id(t) /\ rows[j].dir = Dir(t) => Harmed(j, {"twice", "crossed"})'
<1>0. WorkspaceTypes /\ Id(t) \in Ids /\ Dir(t) \in Dirs \cup {Outside} /\ call[t] # Idle
  BY RecordsDiffer DEF WorkspaceInv, Id, Dir, Row
<1>1. harm' = harm \cup ({j \in Live : rows[j].dir = Dir(t) /\ ~Exists(Id(t))} \X {"crossed"}) \cup (S \X {way})
  BY DEF RemoveAll
<1>2. disk' \in [Dirs \cup {Outside} -> Files \cup {NoDir}] /\ \A d \in Dirs \cup {Outside} : d # Dir(t) => disk'[d] = disk[d]
  BY <1>0 DEF RemoveAll, WorkspaceTypes
<1>3. harm \subseteq harm' /\ harm' \subseteq Ids \X Ways /\ \A i \in S : <<i, way>> \in harm'
  BY <1>0, <1>1 DEF WorkspaceTypes, Live, Ways
<1>4. ASSUME NEW j \in Ids, Exists(j), j # Id(t), rows[j].dir = Dir(t)
      PROVE  Harmed(j, {"twice", "crossed"})'
  <2>1. CASE Exists(Id(t))
    <3>1. rows[Id(t)].dir = Dir(t)
      BY <2>1, <1>0 DEF WorkspaceInv, CallsFit, SameBase, Id, Dir
    <3>2. <<j, "twice">> \in harm
      BY <3>1, <2>1, <1>0, <1>4 DEF WorkspaceInv, TwiceOK, Live
    <3> QED
      BY <3>2, <1>3 DEF Harmed
  <2>2. CASE ~Exists(Id(t))
    <3>1. <<j, "crossed">> \in harm'
      BY <2>2, <1>1, <1>4 DEF Live
    <3> QED
      BY <3>1 DEF Harmed
  <2> QED
    BY <2>1, <2>2
<1> QED
  BY <1>2, <1>3, <1>4

LEMMA RemoveReady ==
    ASSUME WorkspaceInv, WorkspaceTypes', NEW t \in Threads, call[t] \in Calls, NEW S \in SUBSET Ids,
           NEW way \in Ways, RemoveAll(t, S, way),
           OldRows, SameState,
           \A i \in Ids : InHand(i) /\ i # Id(t) => InHand(i)',
           \A i \in Ids : i = Id(t) /\ Exists(i)' /\ rows'[i].state = "ready" => InHand(i)' \/ Harmed(i, Ways)'
    PROVE  ReadyHasDir'
<1>0. WorkspaceTypes /\ harm \subseteq harm'
  BY RemoveFacts DEF WorkspaceInv
<1> SUFFICES ASSUME NEW i \in Ids, Exists(i)', rows'[i].state = "ready"
    PROVE  Full(rows[i].dir)' \/ InHand(i)' \/ Harmed(i, Ways)'
  BY DEF ReadyHasDir, Live, Exists, Full
<1>1. Exists(i) /\ rows'[i].dir = rows[i].dir /\ rows[i].dir \in Dirs \cup {Outside}
  BY <1>0, Grows, RowCases DEF SameBase, Row
<1>2. CASE i = Id(t)
  BY <1>2
<1>3. CASE i # Id(t) /\ rows[i].dir = Dir(t)
  BY <1>1, <1>3, RemoveFacts DEF Harmed, Ways
<1>4. CASE i # Id(t) /\ rows[i].dir # Dir(t)
  <2>1. CASE Crossed(i)'
    BY <2>1 DEF Crossed, Harmed, Ways
  <2>2. CASE ~Crossed(i)'
    <3>1. rows[i].state = "ready"
      BY <2>2 DEF SameState
    <3>2. Full(rows[i].dir) \/ InHand(i) \/ Harmed(i, Ways)
      BY <3>1, <1>1 DEF WorkspaceInv, ReadyHasDir, Full, Live
    <3>3. Harmed(i, Ways) => Harmed(i, Ways)'
      BY <1>0 DEF Harmed
    <3>4. Full(rows[i].dir) => Full(rows[i].dir)'
      BY <1>1, <1>4, RemoveFacts DEF Full
    <3> QED
      BY <3>2, <3>3, <3>4, <1>4
  <2> QED
    BY <2>1, <2>2
<1> QED
  BY <1>2, <1>3, <1>4

LEMMA RemoveCloned ==
    ASSUME WorkspaceInv, WorkspaceTypes', NEW t \in Threads, call[t] \in Calls, NEW S \in SUBSET Ids,
           NEW way \in Ways, RemoveAll(t, S, way),
           OldRows, NoNewCloned, RemovedKept,
           \A i \in Ids, u \in Threads : (/\ i = Id(t) /\ call[u].id = i /\ call[u].op \in {"create", "retry"} /\ call[u].pc = "cloned"
                                          /\ u # t /\ Exists(i)')
                            => Removed(i)' \/ Harmed(i, Ways)',
           ~(call[t].op \in {"create", "retry"} /\ call[t].pc = "cloned")
    PROVE  ClonedOK'
<1>0. WorkspaceTypes /\ harm \subseteq harm'
  BY RemoveFacts DEF WorkspaceInv
<1> SUFFICES ASSUME NEW u \in Threads, NEW i \in Ids, NEW d \in Dirs \cup {Outside},
                    call'[u].op \in {"create", "retry"}, call'[u].pc = "cloned", call'[u].id = i,
                    call'[u].row.dir = d, Exists(i)'
    PROVE  Full(d)' \/ Removed(i)' \/ Harmed(i, Ways)'
  BY ClonedIds
<1>1. call[u].op \in {"create", "retry"} /\ call[u].pc = "cloned" /\ call[u].id = i
      /\ call[u].row.dir = d /\ Exists(i) /\ u # t
  BY <1>0, Grows DEF NoNewCloned, SameCall
<1>2. CASE i = Id(t)
  BY <1>1, <1>2
<1>3. CASE i # Id(t) /\ d = Dir(t)
  <2>1. rows[i].dir = d
    BY <1>0, <1>1, CallCases DEF WorkspaceInv, CallsFit, SameBase, Ops
  <2> QED
    BY <1>1, <1>3, <2>1, RemoveFacts DEF Harmed, Ways
<1>4. CASE i # Id(t) /\ d # Dir(t)
  <2>1. Full(d) \/ Removed(i) \/ Harmed(i, Ways)
    BY <1>1 DEF WorkspaceInv, ClonedOK
  <2>2. Harmed(i, Ways) => Harmed(i, Ways)'
    BY <1>0 DEF Harmed
  <2>3. Full(d) => Full(d)'
    BY <1>4, RemoveFacts DEF Full
  <2> QED
    BY <2>1, <2>2, <2>3 DEF RemovedKept
<1> QED
  BY <1>2, <1>3, <1>4

LEMMA DeleteRowFacts ==
    ASSUME WorkspaceTypes, NEW i \in Ids, rows[i] # NoRow, DeleteRow(i)
    PROVE  /\ rows' \in [Ids -> Row \cup {NoRow, Gone}] /\ OldRows /\ SameState /\ SameAccess
           /\ Refers(i) \in SUBSET Ids /\ (i \in Refers(i) \/ ~Exists(i)')
           /\ \A j \in Ids : Exists(j)' => rows'[j] = rows[j]
<1>1. rows' \in [Ids -> Row \cup {NoRow, Gone}] /\ \A j \in Ids : rows'[j] = rows[j] \/ (j = i /\ rows'[j] = Gone)
  BY DEF WorkspaceTypes, DeleteRow
<1>2. i \notin Refers(i) => rows'[i] = Gone
  BY DEF WorkspaceTypes, DeleteRow, Refers
<1>3. \A j \in Ids : Exists(j)' => rows'[j] = rows[j]
  BY <1>1 DEF Exists
<1>4. SameState /\ SameAccess
  BY <1>3 DEF SameState, SameAccess
<1>5. OldRows
  BY <1>1, RowCases, RecordsDiffer DEF OldRows, SameBase, Exists
<1> QED
  BY <1>1, <1>2, <1>3, <1>4, <1>5 DEF Exists, Refers

\* What a call knows of its row and of its thread.
LEMMA Acting ==
    ASSUME WorkspaceInv, NEW t \in Threads, NEW op, NEW pc, At(t, op, pc)
    PROVE  /\ WorkspaceTypes /\ call[t] \in Calls /\ call[t] # Idle /\ call[t].op = op /\ call[t].pc = pc
           /\ Id(t) = call[t].id /\ Dir(t) = call[t].row.dir /\ call[t].row \in Row
              /\ call[t].arg \in Access
           /\ Id(t) \in Ids /\ Dir(t) \in Dirs \cup {Outside} /\ Fits(call[t])
           /\ rows[Id(t)] # NoRow
           /\ Exists(Id(t)) => rows[Id(t)] \in Row /\ SameBase(call[t].row, rows[Id(t)])
<1>1. call[t] \in Calls /\ call[t].op = op /\ call[t].pc = pc /\ call[t] # Idle
  BY AtFacts, RecordsDiffer DEF WorkspaceInv
<1>2. Id(t) = call[t].id /\ Dir(t) = call[t].row.dir /\ call[t].row \in Row /\ call[t].arg \in Access
      /\ Id(t) \in Ids /\ Dir(t) \in Dirs \cup {Outside}
  BY <1>1, RecordsDiffer DEF Id, Dir, Row
<1> QED
  BY <1>1, <1>2, RowCases DEF WorkspaceInv, CallsFit

\* The row k goes, or it stays and is in S.
TakenBack(k, S) == (S = Refers(k) /\ DeleteRow(k)) \/ (S = {k} /\ rows' = rows)

LEMMA TakenBackFacts ==
    ASSUME WorkspaceTypes, NEW k \in Ids, rows[k] # NoRow, NEW S, TakenBack(k, S)
    PROVE  /\ rows' \in [Ids -> Row \cup {NoRow, Gone}] /\ OldRows /\ SameState /\ SameAccess
           /\ S \in SUBSET Ids /\ (k \in S \/ ~Exists(k)')
           /\ \A j \in Ids : Exists(j)' => rows'[j] = rows[j]
<1>1. CASE S = Refers(k) /\ DeleteRow(k)
  BY <1>1, DeleteRowFacts
<1>2. CASE S = {k} /\ rows' = rows
  BY <1>2, Still DEF WorkspaceTypes
<1> QED
  BY <1>1, <1>2 DEF TakenBack

\* A creation fails and is taken back, the disk being as it was.
LEMMA UndoKeeps ==
    ASSUME WorkspaceInv, NEW t \in Threads, NEW pc, At(t, "create", pc), NEW k \in Ids, k = Id(t),
           NEW S, TakenBack(k, S), Harms(S, "left"), Ends(t), faults' \in 0 .. MaxFaults,
           UNCHANGED <<lists, disk, sess, used, calls, asked>>
    PROVE  WorkspaceInv'
<1>2. lists' = lists /\ disk' = disk /\ sess' = sess /\ used' = used /\ calls' = calls
      /\ asked' = asked
  OBVIOUS
<1>3. Others(t) /\ Stops(t) /\ call' \in [Threads -> Calls \cup {Idle}]
  BY EndsFacts DEF WorkspaceInv
<1>4. /\ rows' \in [Ids -> Row \cup {NoRow, Gone}] /\ OldRows /\ SameState /\ SameAccess
      /\ S \in SUBSET Ids /\ (k \in S \/ ~Exists(k)')
      /\ \A j \in Ids : Exists(j)' => rows'[j] = rows[j]
  BY Acting, TakenBackFacts
<1>5. /\ harm \subseteq harm' /\ harm' \subseteq Ids \X Ways
      /\ Exists(k)' => <<k, "left">> \in harm'
  BY <1>4, Acting, HarmsFacts DEF Ways
<1>6. WorkspaceTypes'
  BY <1>2, <1>3, <1>4, <1>5 DEF WorkspaceInv, WorkspaceTypes
<1>7. CallStep /\ NoNewJobs /\ NoNewDelete /\ NoNewCloned /\ NoNewList /\ RemovedKept /\ ListKept
  BY <1>3, Acting, StopKeeps
<1>8. JobsKept
  <2> SUFFICES ASSUME NEW u \in Threads, NEW i \in Ids, Job(call[u]), call[u].id = i, Exists(i)'
      PROVE  (Job(call'[u]) /\ call'[u].id = i) \/ Harmed(i, {"halfway", "crossed", "left"})'
    BY DEF JobsKept
  <2>1. CASE u # t
    BY <2>1, <1>3 DEF Others
  <2>2. CASE u = t
    BY <2>2, <1>5, Acting DEF Harmed
  <2> QED
    BY <2>1, <2>2
<1>9. HandKept
  <2> SUFFICES ASSUME NEW i \in Ids, InHand(i), Exists(i)'
      PROVE  InHand(i)' \/ Harmed(i, Ways)'
    BY DEF HandKept
  <2>1. PICK u \in Threads : call[u] # Idle /\ Id(u) = i /\ call[u].op \in {"create", "delete"}
    BY DEF InHand
  <2>2. CASE u # t
    BY <2>1, <2>2, <1>3 DEF InHand, Others, Id
  <2>3. CASE u = t
    BY <2>1, <2>3, <1>5 DEF Harmed, Ways
  <2> QED
    BY <2>2, <2>3
<1>10. FullKept /\ \A j \in Ids : Exists(j)' => RowFits(rows'[j])
  <2>1. \A j \in Ids : Exists(j)' => Exists(j) /\ rows'[j] = rows[j]
    BY <1>4, Grows DEF WorkspaceInv
  <2> QED
    BY <1>2, <2>1 DEF WorkspaceInv, RowsFit, FullKept, Full
<1> QED
  BY <1>2, <1>4, <1>5, <1>6, <1>7, <1>8, <1>9, <1>10, CalmKeeps DEF Calm

\* So it is when Stat or Mkdir fails.
LEMMA FailedKeeps ==
    ASSUME WorkspaceInv, NEW t \in Threads, NEW pc, At(t, "create", pc),
           Ends(t), UNCHANGED faults \/ Fails, Undo(t) \/ UndoLost(t),
           UNCHANGED <<lists, disk, sess, used, calls, asked>>
    PROVE  WorkspaceInv'
<1>k. PICK k \in Ids : k = Id(t)
  BY Acting
<1>1. faults' \in 0 .. MaxFaults
  BY FailsFacts DEF WorkspaceInv, WorkspaceTypes
<1>2. PICK S : TakenBack(k, S) /\ Harms(S, "left")
  BY <1>k DEF TakenBack, Undo, UndoLost
<1> QED
  BY <1>k, <1>1, <1>2, UndoKeeps

LEMMA StatKeeps ==
    ASSUME WorkspaceInv, NEW t \in Threads, Stat(t)
    PROVE  WorkspaceInv'
<1>0. At(t, "create", "stat")
  BY DEF Stat
<1>1. CASE /\ Goes(t, IF call[t].row.source = "git" THEN "clone" ELSE "mkdir")
           /\ UNCHANGED <<rows, harm, faults>>
  <2>1. PICK pc \in {"clone", "mkdir"} : Goes(t, pc) /\ pc = IF call[t].row.source = "git" THEN "clone" ELSE "mkdir"
    BY <1>1
  <2>2. Others(t) /\ Moves(t, pc) /\ call' \in [Threads -> Calls \cup {Idle}]
    BY <1>0, <2>1, Acting, GoesFacts DEF Pcs, JobPcs
  <2>3. rows' = rows /\ lists' = lists /\ disk' = disk /\ sess' = sess /\ used' = used /\ calls' = calls
        /\ faults' = faults /\ asked' = asked /\ harm' = harm
    BY <1>1 DEF Stat
  <2>4. WorkspaceTypes'
    BY <2>2, <2>3 DEF WorkspaceInv, WorkspaceTypes
  <2>5. Fits(call'[t]) /\ (Job(call'[t]) <=> Job(call[t]))
    BY <1>0, <2>1, <2>2, Acting DEF Moves, SameCall, Fits, Job, JobPcs
  <2>6. Calm
    BY <1>0, <2>1, <2>2, <2>5, Acting, MoveKeeps DEF Calm
  <2>7. OldRows /\ SameState /\ SameAccess /\ FullKept /\ \A j \in Ids : Exists(j)' => RowFits(rows'[j])
    BY <2>3, Still DEF WorkspaceInv, RowsFit, Exists, FullKept, Full
  <2> QED
    BY <2>3, <2>4, <2>6, <2>7, CalmKeeps
<1>2. CASE Ends(t) /\ (UNCHANGED faults \/ Fails) /\ (Undo(t) \/ UndoLost(t))
  <2>1. UNCHANGED <<lists, disk, sess, used, calls, asked>>
    BY DEF Stat
  <2> QED
    BY <1>0, <1>2, <2>1, FailedKeeps
<1> QED
  BY <1>1, <1>2 DEF Stat

\* The disk gains a directory, or one is completed; the call goes on.
Made(t) ==
    /\ At(t, "create", "mkdir") /\ Goes(t, "init")
    /\ disk' = [disk EXCEPT ![Dir(t)] = IF @ = NoDir THEN [by |-> Id(t), is |-> "empty"] ELSE @]
    /\ UNCHANGED <<rows, lists, sess, used, calls, faults, harm, asked>>

LEMMA MakeKeeps ==
    ASSUME WorkspaceInv, NEW t \in Threads, Made(t) \/ CloneStart(t)
    PROVE  WorkspaceInv'
<1>0. WorkspaceTypes /\ CallsFit
  BY DEF WorkspaceInv
<1>1. /\ call[t] \in Calls /\ call[t] # Idle /\ Id(t) \in Ids /\ Dir(t) \in Dirs \cup {Outside}
         /\ Fits(call[t])
      /\ call[t].op \in {"create", "retry"}
      /\ (call[t].op = "create" /\ call[t].pc = "mkdir") \/ call[t].pc = "clone"
  BY <1>0, AtFacts, RecordsDiffer DEF Made, CloneStart, Cloner, CallsFit
<1>2. /\ disk' \in [Dirs \cup {Outside} -> Files \cup {NoDir}]
      /\ FullKept
  <2>1. [by |-> Id(t), is |-> "empty"] \in Files /\ [by |-> Id(t), is |-> "partial"] \in Files
    BY <1>1 DEF Files
  <2>2. CASE Made(t)
    BY <2>2, <2>1, <1>0, <1>1 DEF Made, WorkspaceTypes, FullKept, Full
  <2>3. CASE CloneStart(t)
    BY <2>3, <2>1, <1>0, <1>1 DEF CloneStart, WorkspaceTypes, FullKept, Full
  <2> QED
    BY <2>2, <2>3
<1>3. PICK pc \in Pcs : /\ Goes(t, pc)
                        /\ (call[t].pc = "mkdir" /\ pc = "init") \/ (call[t].pc = "clone" /\ pc \in {"cloning", "failed"})
  BY <1>1 DEF Made, CloneStart, Pcs, JobPcs, Cloner, At
<1>4. Others(t) /\ Moves(t, pc) /\ call' \in [Threads -> Calls \cup {Idle}]
  BY <1>0, <1>1, <1>3, GoesFacts
<1>5. WorkspaceTypes'
  BY <1>0, <1>2, <1>4 DEF WorkspaceTypes, Made, CloneStart
<1>6. Fits(call'[t]) /\ (Job(call'[t]) <=> Job(call[t]))
  BY <1>1, <1>3, <1>4 DEF Moves, SameCall, Fits, Job, JobPcs
<1>7. Calm
  BY <1>0, <1>1, <1>3, <1>4, <1>6, MoveKeeps DEF Calm
<1>8. rows' = rows /\ harm' = harm /\ sess' = sess /\ used' = used /\ lists' = lists /\ asked' = asked
  BY DEF Made, CloneStart
<1>9. OldRows /\ SameState /\ SameAccess /\ \A j \in Ids : Exists(j)' => RowFits(rows'[j])
  BY <1>0, <1>8, Still DEF WorkspaceInv, RowsFit, Exists
<1> QED
  BY <1>2, <1>5, <1>7, <1>8, <1>9, CalmKeeps

LEMMA MkdirKeeps ==
    ASSUME WorkspaceInv, NEW t \in Threads, Mkdir(t)
    PROVE  WorkspaceInv'
<1>1. CASE Ends(t) /\ Fails /\ (Undo(t) \/ UndoLost(t)) /\ UNCHANGED disk
  <2>1. At(t, "create", "mkdir") /\ UNCHANGED <<lists, disk, sess, used, calls, asked>>
    BY <1>1 DEF Mkdir
  <2> QED
    BY <1>1, <2>1, FailedKeeps
<1>2. CASE Made(t)
  BY <1>2, MakeKeeps
<1> QED
  BY <1>1, <1>2 DEF Mkdir, Made

LEMMA GitInitKeeps ==
    ASSUME WorkspaceInv, NEW t \in Threads, GitInit(t)
    PROVE  WorkspaceInv'
<1>0. At(t, "create", "init")
  BY DEF GitInit
<1>k. PICK k \in Ids : k = Id(t)
  BY <1>0, Acting
<1>1. Others(t) /\ Stops(t) /\ call' \in [Threads -> Calls \cup {Idle}]
  BY EndsFacts DEF WorkspaceInv, GitInit
<1>2. lists' = lists /\ sess' = sess /\ used' = used /\ calls' = calls /\ asked' = asked
  BY DEF GitInit
<1>3. ~Job(call[t]) /\ call[t].op = "create"
  BY <1>0, Acting DEF Job, JobPcs
<1>4. CallStep /\ NoNewJobs /\ NoNewDelete /\ NoNewCloned /\ NoNewList /\ JobsKept /\ RemovedKept
      /\ ListKept
  BY <1>0, <1>1, <1>3, Acting, StopKeeps
<1>5. \A i \in Ids : InHand(i) /\ i # Id(t) => InHand(i)'
  <2> SUFFICES ASSUME NEW i \in Ids, InHand(i), i # Id(t)
      PROVE  InHand(i)'
    OBVIOUS
  <2>1. PICK u \in Threads : call[u] # Idle /\ Id(u) = i /\ call[u].op \in {"create", "delete"}
    BY DEF InHand
  <2> QED
    BY <2>1, <1>1 DEF InHand, Others, Id
<1>6. CASE /\ disk[Dir(t)] # NoDir /\ disk' = [disk EXCEPT ![Dir(t)].is = "full"]
           /\ UNCHANGED <<rows, faults, harm>>
  <2>1. LET f == [disk[Dir(t)] EXCEPT !.is = "full"] IN f \in Files /\ f.is = "full" /\ f # NoDir
    <3>1. disk[Dir(t)] \in Files
      BY <1>0, <1>6, Acting DEF WorkspaceTypes
    <3> QED
      BY <3>1, RecordsDiffer DEF Files
  <2>2. disk' = [disk EXCEPT ![Dir(t)] = [disk[Dir(t)] EXCEPT !.is = "full"]]
    BY <1>6
  <2>3. disk' \in [Dirs \cup {Outside} -> Files \cup {NoDir}] /\ FullKept
    BY <1>0, <2>1, <2>2, Acting DEF WorkspaceTypes, FullKept, Full
  <2>4. WorkspaceTypes'
    BY <1>1, <1>2, <1>6, <2>3 DEF WorkspaceInv, WorkspaceTypes
  <2>5. OldRows /\ SameState /\ SameAccess /\ \A j \in Ids : Exists(j)' => RowFits(rows'[j])
    BY <1>6, Still DEF WorkspaceInv, RowsFit, Exists
  <2>6. HandKept
    <3> SUFFICES ASSUME NEW i \in Ids, InHand(i), Exists(i)'
        PROVE  InHand(i)' \/ Full(rows[i].dir)'
      BY DEF HandKept
    <3>1. CASE i # Id(t)
      BY <3>1, <1>5
    <3>2. CASE i = Id(t)
      <4>1. rows[i].dir = Dir(t) /\ rows' = rows
        BY <1>0, <1>6, <3>2, Acting DEF Exists, SameBase
      <4>2. disk'[rows'[i].dir] = [disk[Dir(t)] EXCEPT !.is = "full"]
        BY <1>0, <2>2, <4>1, Acting DEF WorkspaceTypes
      <4> QED
        BY <4>2, <2>1 DEF Full
    <3> QED
      BY <3>1, <3>2
  <2> QED
    BY <1>2, <1>4, <1>6, <2>3, <2>4, <2>5, <2>6, CalmKeeps DEF Calm
<1>7. ASSUME NEW S, RemoveAll(t, S, "left"), TakenBack(k, S), UNCHANGED faults \/ Fails
      PROVE  WorkspaceInv'
  <2>1. /\ rows' \in [Ids -> Row \cup {NoRow, Gone}] /\ OldRows /\ SameState /\ SameAccess
        /\ S \in SUBSET Ids /\ (k \in S \/ ~Exists(k)')
        /\ \A j \in Ids : Exists(j)' => rows'[j] = rows[j]
    BY <1>0, <1>k, <1>7, Acting, TakenBackFacts
  <2>2. /\ disk' \in [Dirs \cup {Outside} -> Files \cup {NoDir}]
        /\ harm \subseteq harm' /\ harm' \subseteq Ids \X Ways
        /\ \A i \in S : <<i, "left">> \in harm'
    BY <1>0, <1>7, <2>1, Acting, RemoveFacts DEF Ways
  <2>3. WorkspaceTypes'
    <3>1. faults' \in 0 .. MaxFaults
      BY <1>7, FailsFacts DEF WorkspaceInv, WorkspaceTypes
    <3> QED
      BY <1>1, <1>2, <2>1, <2>2, <3>1 DEF WorkspaceInv, WorkspaceTypes
  <2>4. \A i \in Ids : i = Id(t) /\ Exists(i)' => Harmed(i, Ways)'
    BY <1>k, <2>1, <2>2 DEF Harmed, Ways
  <2>5. ReadyHasDir' /\ ClonedOK'
    <3>1. ReadyHasDir'
      BY <1>0, <1>5, <1>7, <2>1, <2>3, <2>4, Acting, RemoveReady DEF Ways
    <3>2. ClonedOK'
      BY <1>0, <1>4, <1>7, <2>1, <2>3, <2>4, Acting, RemoveCloned DEF Ways
    <3> QED
      BY <3>1, <3>2
  <2>6. \A j \in Ids : Exists(j)' => RowFits(rows'[j])
    <3>1. \A j \in Ids : Exists(j)' => Exists(j) /\ rows'[j] = rows[j]
      BY <2>1, Grows DEF WorkspaceInv
    <3> QED
      BY <3>1 DEF WorkspaceInv, RowsFit
  <2> USE DEF WorkspaceInv
  <2>7. CallsFit' /\ RowsFit' /\ TwiceOK' /\ LateOK'
    BY <1>2, <1>4, <2>1, <2>2, <2>3, <2>6, CallsFitKept, Grows, RowsFitKept, TwiceKept, LateKept
  <2>8. JobsOK' /\ ReadyStays'
    BY <1>2, <1>4, <2>1, <2>2, <2>3, JobsOKKept, ReadyStaysKept
  <2>9. CloneOK' /\ AccessAsAsked' /\ ListOK'
    BY <1>2, <1>4, <2>1, <2>2, <2>3, CloneKept, AccessKept, ListOKKept
  <2> QED
    BY <2>3, <2>5, <2>7, <2>8, <2>9
<1>8. CASE RemoveAll(t, Refers(Id(t)), "left") /\ DeleteRow(Id(t)) /\ (UNCHANGED faults \/ Fails)
  BY <1>k, <1>7, <1>8 DEF TakenBack
<1>9. CASE RemoveAll(t, {Id(t)}, "left") /\ UNCHANGED rows /\ Fails
  BY <1>k, <1>7, <1>9 DEF TakenBack
<1> QED
  BY <1>6, <1>8, <1>9 DEF GitInit

-----------------------------------------------------------------------------
LEMMA RemovalKeeps ==
    ASSUME WorkspaceInv, NEW t \in Threads, call[t] \in Calls, NEW pc \in Pcs \ {"cloned"}, Goes(t, pc),
           NEW S \in SUBSET Ids, RemoveAll(t, S, "crossed"), NEW k \in Ids, k = Id(t),
           UNCHANGED <<rows, lists, sess, used, calls, faults, asked>>,
           call[t].op # "access", call[t].pc # "cloned", pc = "delete" \/ call[t].op # "delete",
           \A c \in Calls : SameCall(c, call[t]) /\ c.pc = pc => Fits(c) /\ (Job(c) <=> Job(call[t])),
           Exists(k) /\ rows[k].state = "ready" => call[t].op = "delete" \/ Crossed(k) \/ k \in S,
           \A u \in Threads : (/\ u # t /\ Exists(k) /\ call[u].id = k
                               /\ call[u].op \in {"create", "retry"} /\ call[u].pc = "cloned")
                   => call[t].op = "delete" \/ Crossed(k) \/ k \in S
    PROVE  WorkspaceInv'
<1>0. WorkspaceTypes /\ call[t] # Idle /\ call[t].id = k
  BY RecordsDiffer DEF WorkspaceInv, Id
<1>1. Others(t) /\ Moves(t, pc) /\ call' \in [Threads -> Calls \cup {Idle}]
  BY <1>0, GoesFacts
<1>2. Fits(call'[t]) /\ (Job(call'[t]) <=> Job(call[t]))
  BY <1>1 DEF Moves
<1>3. CallStep /\ NoNewJobs /\ NoNewDelete /\ NoNewCloned /\ NoNewList /\ JobsKept /\ HandKept
      /\ RemovedKept /\ ListKept
  BY <1>0, <1>1, <1>2, MoveKeeps
<1>4. /\ disk' \in [Dirs \cup {Outside} -> Files \cup {NoDir}]
      /\ harm \subseteq harm' /\ harm' \subseteq Ids \X Ways
      /\ \A i \in S : <<i, "crossed">> \in harm'
  BY RemoveFacts DEF Ways
<1>5. WorkspaceTypes'
  BY <1>1, <1>4 DEF WorkspaceInv, WorkspaceTypes
<1>6. OldRows /\ SameState /\ SameAccess /\ \A j \in Ids : Exists(j)' => RowFits(rows'[j])
  BY Still DEF WorkspaceInv, RowsFit, Exists
<1>7. \A i \in Ids : InHand(i) => InHand(i)'
  <2> SUFFICES ASSUME NEW i \in Ids, InHand(i)
      PROVE  InHand(i)'
    OBVIOUS
  <2>1. PICK u \in Threads : call[u] # Idle /\ Id(u) = i /\ call[u].op \in {"create", "delete"}
    BY DEF InHand
  <2>2. call'[u] # Idle /\ call'[u].id = i /\ call'[u].op \in {"create", "delete"}
    <3>1. CASE u = t
      BY <2>1, <3>1, <1>1, RecordsDiffer DEF Moves, SameCall, Id
    <3>2. CASE u # t
      BY <2>1, <3>2, <1>1 DEF Others, Id
    <3> QED
      BY <3>1, <3>2
  <2> QED
    BY <2>2 DEF InHand, Id
<1>8. call[t].op = "delete" => InHand(k)' /\ Removed(k)'
  <2>1. call[t].op = "delete" => call'[t] # Idle /\ call'[t].id = k /\ call'[t].op = "delete" /\ call'[t].pc = "delete"
    BY <1>0, <1>1, RecordsDiffer DEF Moves, SameCall
  <2> QED
    BY <2>1 DEF InHand, Removed, Id
<1>9. Crossed(k) \/ k \in S => Harmed(k, Ways)'
  BY <1>4 DEF Crossed, Harmed, Ways
<1>10. ReadyHasDir'
  <2>1. \A i \in Ids : i = Id(t) /\ Exists(i)' /\ rows'[i].state = "ready" => InHand(i)' \/ Harmed(i, Ways)'
    BY <1>8, <1>9 DEF Exists
  <2>2. \A i \in Ids : InHand(i) /\ i # Id(t) => InHand(i)'
    BY <1>7
  <2> QED
    BY <1>5, <1>6, <2>1, <2>2, RemoveReady DEF Ways
<1>11. ClonedOK'
  <2>1. \A i \in Ids, u \in Threads : (/\ i = Id(t) /\ call[u].id = i /\ call[u].op \in {"create", "retry"} /\ call[u].pc = "cloned"
                                       /\ u # t /\ Exists(i)')
                            => Removed(i)' \/ Harmed(i, Ways)'
    BY <1>8, <1>9 DEF Exists
  <2> QED
    BY <1>3, <1>5, <1>6, <2>1, RemoveCloned DEF Ways
<1> USE DEF WorkspaceInv
<1>12. CallsFit' /\ RowsFit' /\ TwiceOK' /\ LateOK'
  BY <1>3, <1>4, <1>5, <1>6, CallsFitKept, Grows, RowsFitKept, TwiceKept, LateKept
<1>13. JobsOK' /\ ReadyStays'
  BY <1>3, <1>4, <1>5, <1>6, JobsOKKept, ReadyStaysKept
<1>14. CloneOK' /\ AccessAsAsked' /\ ListOK'
  BY <1>3, <1>4, <1>5, <1>6, CloneKept, AccessKept, ListOKKept
<1> QED
  BY <1>5, <1>10, <1>11, <1>12, <1>13, <1>14

LEMMA RemovesKeep ==
    ASSUME WorkspaceInv, NEW t \in Threads, CloneRemove(t) \/ RetryRemove(t) \/ DeleteDir(t)
    PROVE  WorkspaceInv'
<1>1. CASE CloneRemove(t)
  <2>1. PICK op \in {"create", "retry"} : At(t, op, "failed")
    BY <1>1 DEF CloneRemove, Cloner
  <2>2. PICK k \in Ids : k = Id(t)
    BY <2>1, Acting
  <2>3. Job(call[t]) /\ call[t].id = k /\ call[t] \in Calls /\ call[t].op = op
        /\ call[t].pc = "failed" /\ Fits(call[t])
    BY <2>1, <2>2, Acting DEF Job, JobPcs
  <2>4. Goes(t, "removed") /\ RemoveAll(t, {}, "crossed")
        /\ UNCHANGED <<rows, lists, sess, used, calls, faults, asked>>
    BY <1>1 DEF CloneRemove
  <2>5. \A c \in Calls : SameCall(c, call[t]) /\ c.pc = "removed" => Fits(c) /\ (Job(c) <=> Job(call[t]))
    BY <2>3 DEF SameCall, Fits, Job, JobPcs
  <2>6. Exists(k) /\ rows[k].state = "ready" => Crossed(k)
    BY <2>3 DEF WorkspaceInv, JobsOK
  <2>7. \A u \in Threads : (/\ u # t /\ Exists(k) /\ call[u].id = k
                            /\ call[u].op \in {"create", "retry"} /\ call[u].pc = "cloned") => Crossed(k)
    BY <2>3 DEF WorkspaceInv, JobsOK, Job, JobPcs
  <2> QED
    BY <2>2, <2>3, <2>4, <2>5, <2>6, <2>7, RemovalKeeps DEF Pcs, JobPcs
<1>2. CASE RetryRemove(t)
  <2>1. At(t, "retry", "remove")
    BY <1>2 DEF RetryRemove
  <2>2. PICK k \in Ids : k = Id(t)
    BY <2>1, Acting
  <2>3. /\ ~Job(call[t]) /\ call[t].id = k /\ call[t] \in Calls /\ call[t].op = "retry"
           /\ call[t].pc = "remove"
        /\ Fits(call[t]) /\ call[t].row.state = "failed"
    BY <2>1, <2>2, Acting DEF Job, JobPcs, Fits
  <2> DEFINE S == IF Stale(t) THEN {Id(t)} ELSE {}
  <2>4. Goes(t, "write") /\ RemoveAll(t, S, "crossed")
        /\ UNCHANGED <<rows, lists, sess, used, calls, faults, asked>>
    BY <1>2 DEF RetryRemove
  <2>5. \A c \in Calls : SameCall(c, call[t]) /\ c.pc = "write" => Fits(c) /\ (Job(c) <=> Job(call[t]))
    BY <2>3 DEF SameCall, Fits, Job, JobPcs
  <2>6. S \in SUBSET Ids /\ (k \in S \/ rows[k] = call[t].row)
    BY <2>2 DEF Stale
  <2>7. Exists(k) /\ rows[k].state = "ready" => k \in S
    BY <2>3, <2>6
  <2>8. \A u \in Threads : (/\ u # t /\ Exists(k) /\ call[u].id = k
                            /\ call[u].op \in {"create", "retry"} /\ call[u].pc = "cloned") => Crossed(k) \/ k \in S
    BY <2>3, <2>6 DEF WorkspaceInv, JobsOK, Job, JobPcs
  <2> HIDE DEF S
  <2> QED
    BY <2>2, <2>3, <2>4, <2>5, <2>6, <2>7, <2>8, RemovalKeeps DEF Pcs
<1>3. CASE DeleteDir(t)
  <2>1. At(t, "delete", "remove")
    BY <1>3 DEF DeleteDir
  <2>2. PICK k \in Ids : k = Id(t)
    BY <2>1, Acting
  <2>3. ~Job(call[t]) /\ call[t] \in Calls /\ call[t].op = "delete" /\ call[t].pc = "remove"
        /\ Fits(call[t])
    BY <2>1, <2>2, Acting DEF Job, JobPcs
  <2> DEFINE S == IF Stale(t) THEN {Id(t)} ELSE {}
  <2>4. Goes(t, "delete") /\ RemoveAll(t, S, "crossed")
        /\ UNCHANGED <<rows, lists, sess, used, calls, faults, asked>>
    BY <1>3 DEF DeleteDir
  <2>5. \A c \in Calls : SameCall(c, call[t]) /\ c.pc = "delete" => Fits(c) /\ (Job(c) <=> Job(call[t]))
    BY <2>3 DEF SameCall, Fits, Job, JobPcs
  <2>6. S \in SUBSET Ids
    BY <2>2
  <2> HIDE DEF S
  <2> QED
    BY <2>2, <2>3, <2>4, <2>5, <2>6, RemovalKeeps DEF Pcs
<1> QED
  BY <1>1, <1>2, <1>3

LEMMA WriteBackFacts ==
    ASSUME WorkspaceInv, NEW t \in Threads, call[t] \in Calls, NEW row \in Row, NEW k \in Ids, k = Id(t),
           SameBase(row, call[t].row), RowFits(row), WriteBack(t, row)
    PROVE  /\ rows' \in [Ids -> Row \cup {NoRow, Gone}] /\ OldRows /\ Exists(k)
           /\ harm \subseteq harm' /\ harm' \subseteq Ids \X Ways
           /\ rows'[k] = row /\ \A j \in Ids : j # k => rows'[j] = rows[j]
           /\ rows[k] # call[t].row => Crossed(k)'
           /\ \A j \in Ids : Exists(j)' => RowFits(rows'[j])
<1>0. WorkspaceTypes /\ call[t] # Idle /\ Exists(k) /\ SameBase(row, rows[k]) /\ call[t].id = k
  BY RecordsDiffer DEF WorkspaceInv, CallsFit, SameBase, WriteBack, Id
<1>1. /\ rows' \in [Ids -> Row \cup {NoRow, Gone}] /\ rows'[k] = row /\ \A j \in Ids : j # k => rows'[j] = rows[j]
  BY <1>0 DEF WriteBack, WorkspaceTypes
<1>2. OldRows
  BY <1>0, <1>1, RowCases, RecordsDiffer DEF OldRows, SameBase
<1>3. harm \subseteq harm' /\ harm' \subseteq Ids \X Ways /\ (rows[k] # call[t].row => <<k, "crossed">> \in harm')
  BY <1>0 DEF WriteBack, Harms, WorkspaceTypes, Stale, Ways
<1>4. \A j \in Ids : Exists(j)' => RowFits(rows'[j])
  BY <1>1 DEF WorkspaceInv, RowsFit, Exists
<1> QED
  BY <1>0, <1>1, <1>2, <1>3, <1>4 DEF Crossed

LEMMA UpdateKeeps ==
    ASSUME WorkspaceInv, NEW t \in Threads, UpdateWrite(t)
    PROVE  WorkspaceInv'
<1>0. At(t, "update", "write")
  BY DEF UpdateWrite
<1>1. PICK k \in Ids : k = Id(t)
  BY <1>0, Acting
<1>2. Others(t) /\ Stops(t) /\ call' \in [Threads -> Calls \cup {Idle}]
  BY EndsFacts DEF WorkspaceInv, UpdateWrite
<1>3. Calm
  BY <1>0, <1>2, Acting, StopKeeps DEF Calm, Job
<1>4. /\ rows' \in [Ids -> Row \cup {NoRow, Gone}] /\ OldRows /\ SameState /\ SameAccess
      /\ harm \subseteq harm' /\ harm' \subseteq Ids \X Ways
      /\ \A j \in Ids : Exists(j)' => RowFits(rows'[j])
  <2>1. CASE WriteBack(t, call[t].row)
    <3>1. SameBase(call[t].row, call[t].row) /\ RowFits(call[t].row) /\ call[t].row \in Row
          /\ call[t] \in Calls
      BY <1>0, Acting DEF SameBase, Fits
    <3>2. /\ rows' \in [Ids -> Row \cup {NoRow, Gone}] /\ OldRows /\ Exists(k)
          /\ harm \subseteq harm' /\ harm' \subseteq Ids \X Ways
          /\ rows'[k] = call[t].row /\ \A j \in Ids : j # k => rows'[j] = rows[j]
          /\ rows[k] # call[t].row => Crossed(k)'
          /\ \A j \in Ids : Exists(j)' => RowFits(rows'[j])
      BY <1>1, <2>1, <3>1, WriteBackFacts
    <3>3. \A j \in Ids : ~Crossed(j)' => rows'[j] = rows[j]
      BY <3>2
    <3> QED
      BY <3>2, <3>3 DEF SameState, SameAccess
  <2>2. CASE UNCHANGED <<rows, harm>>
    BY <2>2, Still DEF WorkspaceInv, RowsFit, Exists, WorkspaceTypes
  <2> QED
    BY <2>1, <2>2 DEF UpdateWrite
<1>5. WorkspaceTypes'
  BY <1>2, <1>4 DEF WorkspaceInv, WorkspaceTypes, UpdateWrite
<1> QED
  BY <1>3, <1>4, <1>5, CalmKeeps DEF UpdateWrite, FullKept, Full

LEMMA SetStateKeeps ==
    ASSUME WorkspaceInv, NEW t \in Threads, setState(t)
    PROVE  WorkspaceInv'
<1>0. PICK op \in {"create", "retry"}, pc \in {"cloned", "removed"} : At(t, op, pc)
  BY DEF setState, Cloner
<1>1. PICK k \in Ids : k = Id(t)
  BY <1>0, Acting
<1>2. Others(t) /\ Stops(t) /\ call' \in [Threads -> Calls \cup {Idle}]
  BY EndsFacts DEF WorkspaceInv, setState
<1>3. /\ Job(call[t]) /\ call[t].id = k /\ call[t] \in Calls /\ call[t].op = op /\ call[t].pc = pc
      /\ call[t].row.source = "git" /\ (Exists(k) => SameBase(call[t].row, rows[k]) /\ rows[k] \in Row)
      /\ Dir(t) = call[t].row.dir /\ rows[k] # NoRow
  BY <1>0, <1>1, Acting DEF Job, JobPcs, Fits
<1>4. CallStep /\ NoNewJobs /\ NoNewDelete /\ NoNewCloned /\ NoNewList /\ RemovedKept /\ ListKept
  BY <1>0, <1>2, <1>3, Acting, StopKeeps
<1>5. lists' = lists /\ disk' = disk /\ sess' = sess /\ used' = used /\ calls' = calls /\ asked' = asked /\ FullKept
  BY DEF setState, FullKept, Full
<1>6. \A i \in Ids : InHand(i) /\ i # k => InHand(i)'
  <2> SUFFICES ASSUME NEW i \in Ids, InHand(i), i # k
      PROVE  InHand(i)'
    OBVIOUS
  <2>1. PICK u \in Threads : call[u] # Idle /\ Id(u) = i /\ call[u].op \in {"create", "delete"}
    BY DEF InHand
  <2>2. call'[u] = call[u]
    BY <1>1, <1>2, <2>1 DEF Others
  <2> QED
    BY <2>1, <2>2 DEF InHand, Id
<1>7. CASE rows' = rows /\ harm \subseteq harm' /\ harm' \subseteq Ids \X Ways
           /\ faults' \in 0 .. MaxFaults
           /\ (~Exists(k) \/ <<k, "halfway">> \in harm')
  <2>1. WorkspaceTypes'
    BY <1>2, <1>5, <1>7 DEF WorkspaceInv, WorkspaceTypes
  <2>2. HandKept
    BY <1>6, <1>7 DEF HandKept, Harmed, Ways, Exists
  <2>3. JobsKept
    BY <1>2, <1>3, <1>7 DEF JobsKept, Others, Harmed, Exists
  <2>4. OldRows /\ SameState /\ SameAccess /\ \A j \in Ids : Exists(j)' => RowFits(rows'[j])
    BY <1>7, Still DEF WorkspaceInv, RowsFit, Exists
  <2> QED
    BY <1>4, <1>5, <1>7, <2>1, <2>2, <2>3, <2>4, CalmKeeps DEF Calm
<1>8. CASE Exists(k) /\ rows' = [rows EXCEPT ![Id(t)] = [@ EXCEPT !.state = Outcome(t)]]
           /\ UNCHANGED <<faults, harm>>
  <2> DEFINE new == [rows[k] EXCEPT !.state = Outcome(t)]
  <2>1. /\ new \in Row /\ SameBase(new, rows[k]) /\ new.access = rows[k].access /\ new.state = Outcome(t)
        /\ Outcome(t) \in {"ready", "failed"} /\ (Outcome(t) = "ready" => pc = "cloned")
        /\ new.source = "git"
    BY <1>3, <1>8 DEF Row, SameBase, Outcome, At
  <2>2. rows' = [rows EXCEPT ![k] = new]
    BY <1>1, <1>8
  <2> HIDE DEF new
  <2>3. /\ rows' \in [Ids -> Row \cup {NoRow, Gone}] /\ rows'[k] = new /\ \A j \in Ids : j # k => rows'[j] = rows[j]
    BY <2>1, <2>2 DEF WorkspaceInv, WorkspaceTypes
  <2>4. WorkspaceTypes'
    BY <1>2, <1>5, <1>8, <2>3 DEF WorkspaceInv, WorkspaceTypes
  <2>5. OldRows
    BY <1>8, <2>1, <2>3, RowCases, RecordsDiffer DEF OldRows, SameBase, WorkspaceInv
  <2>6. SameAccess /\ \A j \in Ids : Exists(j)' => RowFits(rows'[j])
    BY <2>1, <2>3 DEF WorkspaceInv, RowsFit, Exists, SameAccess, RowFits
  <2>7. NoNewCloning
    BY <2>1, <2>3 DEF NoNewCloning
  <2>8. JobsKept
    BY <1>2, <1>3, <2>1, <2>3 DEF JobsKept, Others
  <2> USE DEF WorkspaceInv
  <2>9. CallsFit' /\ RowsFit' /\ TwiceOK' /\ LateOK'
    BY <1>4, <1>5, <1>8, <2>4, <2>5, <2>6, CallsFitKept, Grows, RowsFitKept, TwiceKept, LateKept
  <2>10. ClonedOK' /\ CloneOK' /\ AccessAsAsked' /\ ListOK'
    BY <1>4, <1>5, <1>8, <2>4, <2>5, <2>6, <2>7, <2>8, ClonedKept, CloneStays, AccessKept,
       ListOKKept
  <2>11. JobsOK'
    <3> SUFFICES ASSUME NEW u \in Threads, NEW i \in Ids, Job(call'[u]), call'[u].id = i, Exists(i)',
                        ~Crossed(i)'
        PROVE  /\ rows'[i].state = "cloning"
               /\ \A v \in Threads : Job(call'[v]) /\ call'[v].id = i => v = u
      BY <2>4, JobIds
    <3>1. Job(call[u]) /\ call[u].id = i /\ u # t /\ ~Crossed(i) /\ Exists(i)
      BY <1>2, <1>8, <2>5, Grows, RecordsDiffer DEF NoNewJobs, Stops, Job, Crossed, Others
    <3>2. i # k
      BY <1>3, <3>1 DEF JobsOK
    <3> QED
      BY <3>1, <3>2, <2>3, <1>4 DEF JobsOK, NoNewJobs
  <2>12. ReadyStays'
    <3> SUFFICES ASSUME NEW i \in Ids, Exists(i)', ~Crossed(i)'
        PROVE  /\ sess'[i] # "none" => rows'[i].state = "ready"
               /\ \A u \in Threads : call'[u] # Idle /\ call'[u].id = i /\ call'[u].row.state = "ready" => rows'[i].state = "ready"
      BY DEF ReadyStays, Live, Exists, Crossed
    <3>1. i \in Live /\ ~Crossed(i)
      BY <1>8, <2>5, Grows DEF Crossed
    <3>2. \A u \in Threads : call'[u] # Idle => call'[u] = call[u]
      BY <1>2 DEF Others, Stops
    <3>3. CASE i # k
      BY <3>1, <3>2, <3>3, <1>5, <2>3 DEF ReadyStays
    <3>4. CASE i = k
      <4>1. rows[i].state # "ready"
        BY <3>1, <3>4, <1>3 DEF JobsOK, Live
      <4> QED
        BY <3>1, <3>2, <4>1, <1>5 DEF ReadyStays
    <3> QED
      BY <3>3, <3>4
  <2>13. ReadyHasDir'
    <3> SUFFICES ASSUME NEW i \in Ids, Exists(i)', rows'[i].state = "ready"
        PROVE  Full(rows[i].dir)' \/ InHand(i)' \/ Harmed(i, Ways)'
      BY DEF ReadyHasDir, Live, Exists, Full
    <3>1. i \in Live /\ rows'[i].dir = rows[i].dir /\ (Harmed(i, Ways) => Harmed(i, Ways)')
      BY <1>8, <2>5, Grows DEF SameBase, Harmed
    <3>2. CASE i # k
      <4>1. Full(rows[i].dir) \/ InHand(i) \/ Harmed(i, Ways)
        BY <3>1, <3>2, <2>3 DEF ReadyHasDir, Full
      <4> QED
        BY <3>1, <3>2, <4>1, <1>5, <1>6 DEF Full
    <3>3. CASE i = k
      <4>1. pc = "cloned" /\ rows[i].dir = call[t].row.dir
        BY <3>3, <2>1, <2>3, <1>3, <1>8 DEF SameBase
      <4>2. Full(rows[i].dir) \/ Removed(i) \/ Harmed(i, Ways)
        BY <4>1, <3>3, <1>3, <1>8 DEF ClonedOK
      <4>3. Removed(i) => InHand(i)'
        <5>1. SUFFICES ASSUME Removed(i) PROVE InHand(i)'
          OBVIOUS
        <5>2. PICK u \in Threads : call[u].op = "delete" /\ call[u].pc = "delete" /\ call[u].id = i
          BY <5>1 DEF Removed
        <5>3. call'[u] = call[u] /\ call'[u] # Idle
          BY <5>2, <1>2, <1>3, RecordsDiffer DEF Others
        <5> QED
          BY <5>2, <5>3 DEF InHand, Id
      <4> QED
        BY <3>1, <4>2, <4>3, <1>5 DEF Full
    <3> QED
      BY <3>2, <3>3
  <2> QED
    BY <2>4, <2>9, <2>10, <2>11, <2>12, <2>13
<1> QED
  <2>1. CASE rows' = [rows EXCEPT ![Id(t)] = IF Exists(Id(t)) THEN [@ EXCEPT !.state = Outcome(t)] ELSE @] /\ UNCHANGED <<faults, harm>>
    <3>1. CASE Exists(k)
      BY <2>1, <3>1, <1>1, <1>8
    <3>2. CASE ~Exists(k)
      <4>1. rows' = rows
        BY <2>1, <3>2, <1>1 DEF WorkspaceInv, WorkspaceTypes
      <4> QED
        BY <2>1, <3>2, <4>1, <1>7 DEF WorkspaceInv, WorkspaceTypes
    <3> QED
      BY <3>1, <3>2
  <2>2. CASE Fails /\ Harms({Id(t)}, "halfway") /\ UNCHANGED rows
    <3>1. harm \subseteq harm' /\ harm' \subseteq Ids \X Ways /\ <<k, "halfway">> \in harm'
      BY <2>2, <1>1, HarmsFacts DEF WorkspaceInv, Ways
    <3> QED
      BY <2>2, <3>1, <1>7, FailsFacts DEF WorkspaceInv
  <2> QED
    BY <2>1, <2>2 DEF setState

LEMMA RetryWriteKeeps ==
    ASSUME WorkspaceInv, NEW t \in Threads, RetryWrite(t)
    PROVE  WorkspaceInv'
<1>0. At(t, "retry", "write")
  BY DEF RetryWrite
<1>1. PICK k \in Ids : k = Id(t)
  BY <1>0, Acting
<1>2. /\ ~Job(call[t]) /\ call[t].id = k /\ call[t] \in Calls /\ call[t] # Idle
         /\ call[t].op = "retry" /\ call[t].pc = "write"
      /\ Fits(call[t]) /\ call[t].row \in Row /\ call[t].row.state = "failed"
         /\ call[t].row.source = "git"
      /\ (Exists(k) => SameBase(call[t].row, rows[k]))
  BY <1>0, <1>1, Acting DEF Job, JobPcs, Fits
<1>3. lists' = lists /\ disk' = disk /\ sess' = sess /\ used' = used /\ calls' = calls /\ asked' = asked /\ FullKept
  BY DEF RetryWrite, FullKept, Full
<1>4. CASE Ends(t) /\ UNCHANGED <<rows, harm>> /\ (UNCHANGED faults \/ Fails)
  <2>1. Others(t) /\ Stops(t) /\ call' \in [Threads -> Calls \cup {Idle}]
    BY <1>4, EndsFacts DEF WorkspaceInv
  <2>2. Calm
    BY <1>2, <2>1, StopKeeps DEF Calm, WorkspaceInv
  <2>3. faults' \in 0 .. MaxFaults
    BY <1>4, FailsFacts DEF WorkspaceInv, WorkspaceTypes
  <2>4. WorkspaceTypes'
    BY <1>3, <1>4, <2>1, <2>3 DEF WorkspaceInv, WorkspaceTypes
  <2>5. OldRows /\ SameState /\ SameAccess /\ \A j \in Ids : Exists(j)' => RowFits(rows'[j])
    BY <1>4, Still DEF WorkspaceInv, RowsFit, Exists
  <2> QED
    BY <1>3, <1>4, <2>2, <2>4, <2>5, CalmKeeps
<1>5. CASE WriteBack(t, [call[t].row EXCEPT !.state = "cloning"]) /\ Goes(t, "clone") /\ UNCHANGED faults
  <2> DEFINE new == [call[t].row EXCEPT !.state = "cloning"]
  <2>1. /\ new \in Row /\ SameBase(new, call[t].row) /\ RowFits(new) /\ new.access = call[t].row.access
        /\ new.state = "cloning"
    BY <1>2 DEF Row, SameBase, RowFits
  <2>2. WriteBack(t, new)
    BY <1>5
  <2> HIDE DEF new
  <2>3. /\ rows' \in [Ids -> Row \cup {NoRow, Gone}] /\ OldRows /\ Exists(k)
        /\ harm \subseteq harm' /\ harm' \subseteq Ids \X Ways
        /\ rows'[k] = new /\ \A j \in Ids : j # k => rows'[j] = rows[j]
        /\ rows[k] # call[t].row => Crossed(k)'
        /\ \A j \in Ids : Exists(j)' => RowFits(rows'[j])
    BY <1>1, <1>2, <2>1, <2>2, WriteBackFacts
  <2>4. Others(t) /\ Moves(t, "clone") /\ call' \in [Threads -> Calls \cup {Idle}]
    BY <1>2, <1>5, GoesFacts DEF WorkspaceInv, Pcs, JobPcs
  <2>5. WorkspaceTypes'
    BY <1>3, <1>5, <2>3, <2>4 DEF WorkspaceInv, WorkspaceTypes
  <2>6. /\ Fits(call'[t]) /\ Job(call'[t]) /\ call'[t].id = k /\ call'[t].row.state = "failed"
    BY <1>2, <2>4 DEF Moves, SameCall, Fits, Job, JobPcs
  <2>7. CallStep /\ NoNewDelete /\ HandKept /\ JobsKept /\ NoNewCloned /\ RemovedKept /\ ListKept
        /\ NoNewList
    BY <1>2, <2>4, <2>6, MoveKeeps DEF WorkspaceInv
  <2>8. SameAccess /\ NoNewReady
    BY <2>1, <2>3 DEF SameAccess, NoNewReady
  <2> USE DEF WorkspaceInv
  <2>9. CallsFit' /\ RowsFit' /\ TwiceOK' /\ LateOK'
    BY <1>3, <2>3, <2>5, <2>7, CallsFitKept, Grows, RowsFitKept, TwiceKept, LateKept
  <2>10. ReadyHasDir' /\ ClonedOK' /\ AccessAsAsked' /\ ListOK'
    BY <1>3, <2>3, <2>5, <2>7, <2>8, ReadyHasDirStays, ClonedKept, AccessKept, ListOKKept
  <2>11. ~Crossed(k)' => ~Crossed(k) /\ rows[k].state = "failed"
    BY <1>2, <2>3 DEF Crossed
  <2>12. JobsOK'
    <3> SUFFICES ASSUME NEW u \in Threads, NEW i \in Ids, Job(call'[u]), call'[u].id = i, Exists(i)',
                        ~Crossed(i)'
        PROVE  /\ rows'[i].state = "cloning"
               /\ \A v \in Threads : Job(call'[v]) /\ call'[v].id = i => v = u
      BY <2>5, JobIds
    <3>1. CASE i = k
      <4>1. \A v \in Threads : Job(call'[v]) /\ call'[v].id = i => v = t
        BY <3>1, <2>3, <2>4, <2>11 DEF JobsOK, Others
      <4> QED
        BY <3>1, <4>1, <2>1, <2>3
    <3>2. CASE i # k
      <4>1. \A v \in Threads : call'[v].id = i => call'[v] = call[v]
        BY <3>2, <2>4, <2>6 DEF Others
      <4>2. Job(call[u]) /\ call[u].id = i /\ Exists(i) /\ ~Crossed(i) /\ rows'[i] = rows[i]
        BY <3>2, <4>1, <2>3, Grows DEF Crossed
      <4> QED
        BY <4>1, <4>2 DEF JobsOK
    <3> QED
      BY <3>1, <3>2
  <2>13. ReadyStays'
    <3> SUFFICES ASSUME NEW i \in Ids, Exists(i)', ~Crossed(i)'
        PROVE  /\ sess'[i] # "none" => rows'[i].state = "ready"
               /\ \A u \in Threads : call'[u] # Idle /\ call'[u].id = i /\ call'[u].row.state = "ready" => rows'[i].state = "ready"
      BY DEF ReadyStays, Live, Exists, Crossed
    <3>1. i \in Live /\ ~Crossed(i)
      BY <2>3, Grows DEF Crossed
    <3>2. \A u \in Threads : call'[u].row.state = "ready" /\ call'[u] # Idle => call'[u] = call[u]
      BY <2>4, <2>6 DEF Others
    <3>3. CASE i # k
      BY <3>1, <3>2, <3>3, <1>3, <2>3 DEF ReadyStays
    <3>4. CASE i = k
      <4>1. rows[i].state # "ready"
        BY <3>4, <2>11
      <4> QED
        BY <3>1, <3>2, <4>1, <1>3 DEF ReadyStays
    <3> QED
      BY <3>3, <3>4
  <2>14. CloneOK'
    <3> SUFFICES ASSUME NEW i \in Ids, Exists(i)', rows'[i].state = "cloning"
        PROVE  (\E u \in Threads : Job(call'[u]) /\ call'[u].id = i) \/ Harmed(i, {"halfway", "crossed", "left"})'
      BY DEF CloneOK, Live, Exists, Harmed, Job
    <3>1. CASE i = k
      BY <3>1, <2>6
    <3>2. CASE i # k
      <4>1. (\E u \in Threads : Job(call[u]) /\ call[u].id = i) \/ Harmed(i, {"halfway", "crossed", "left"})
        BY <3>2, <2>3, Grows DEF CloneOK
      <4>2. Harmed(i, {"halfway", "crossed", "left"}) => Harmed(i, {"halfway", "crossed", "left"})'
        BY <2>3 DEF Harmed
      <4> QED
        BY <4>1, <4>2, <2>7 DEF JobsKept
    <3> QED
      BY <3>1, <3>2
  <2> QED
    BY <2>5, <2>9, <2>10, <2>12, <2>13, <2>14
<1> QED
  BY <1>4, <1>5 DEF RetryWrite

LEMMA DeleteEndsKeeps ==
    ASSUME WorkspaceInv, NEW t \in Threads, DeleteEnds(t)
    PROVE  WorkspaceInv'
<1>0. At(t, "delete", "delete")
  BY DEF DeleteEnds
<1>1. PICK k \in Ids : k = Id(t)
  BY <1>0, Acting
<1>2. /\ ~Job(call[t]) /\ call[t].id = k /\ call[t] \in Calls /\ call[t].op = "delete" /\ rows[k] # NoRow
  BY <1>0, <1>1, Acting DEF Job
<1>3. disk' = disk /\ sess' = sess /\ used' = used /\ calls' = calls /\ asked' = asked /\ FullKept
  BY DEF DeleteEnds, FullKept, Full
<1>4. Others(t) /\ Stops(t) /\ call' \in [Threads -> Calls \cup {Idle}]
  BY EndsFacts DEF WorkspaceInv, DeleteEnds
<1>5. CallStep /\ NoNewJobs /\ NoNewDelete /\ NoNewCloned /\ NoNewList /\ JobsKept /\ ListKept
  BY <1>2, <1>4, StopKeeps DEF WorkspaceInv
<1>6. /\ rows' \in [Ids -> Row \cup {NoRow, Gone}] /\ OldRows /\ SameState /\ SameAccess
      /\ harm \subseteq harm' /\ harm' \subseteq Ids \X Ways
      /\ Exists(k)' => <<k, "halfway">> \in harm'
      /\ \A j \in Ids : Exists(j)' => rows'[j] = rows[j]
      /\ faults' \in 0 .. MaxFaults
  <2>1. CASE DeleteRow(Id(t)) /\ Harms(Refers(Id(t)), "halfway") /\ UNCHANGED faults
    <3>1. DeleteRow(k) /\ Harms(Refers(k), "halfway")
      BY <1>1, <2>1
    <3>2. /\ rows' \in [Ids -> Row \cup {NoRow, Gone}] /\ OldRows /\ SameState /\ SameAccess
          /\ Refers(k) \in SUBSET Ids /\ (k \in Refers(k) \/ ~Exists(k)')
          /\ \A j \in Ids : Exists(j)' => rows'[j] = rows[j]
      BY <3>1, <1>2, DeleteRowFacts DEF WorkspaceInv
    <3>3. harm \subseteq harm' /\ harm' \subseteq Ids \X Ways /\ (Exists(k)' => <<k, "halfway">> \in harm')
      BY <3>1, <3>2, HarmsFacts DEF WorkspaceInv, Ways
    <3> QED
      BY <2>1, <3>2, <3>3 DEF WorkspaceInv, WorkspaceTypes
  <2>2. CASE Fails /\ Harms({Id(t)}, "halfway") /\ UNCHANGED rows
    <3>1. harm \subseteq harm' /\ harm' \subseteq Ids \X Ways /\ <<k, "halfway">> \in harm'
      BY <2>2, <1>1, HarmsFacts DEF WorkspaceInv, Ways
    <3> QED
      BY <2>2, <3>1, FailsFacts, Still DEF WorkspaceInv, WorkspaceTypes
  <2> QED
    BY <2>1, <2>2 DEF DeleteEnds
<1>7. /\ lists' \in [Ids -> Lists]
      /\ \A j \in Ids : rows[j] = NoRow \/ Exists(j)' => lists'[j] = lists[j] /\ asked'[j] = asked[j]
  <2>1. lists' = [lists EXCEPT ![k] = IF rows'[k] = Gone THEN {} ELSE @]
    BY <1>1 DEF DeleteEnds
  <2>2. {} \in Lists
    BY DEF Lists
  <2> QED
    BY <2>1, <2>2, <1>2, <1>3 DEF WorkspaceInv, WorkspaceTypes, Exists
<1>8. WorkspaceTypes'
  BY <1>3, <1>4, <1>6, <1>7 DEF WorkspaceInv, WorkspaceTypes
<1>9. HandKept
  <2> SUFFICES ASSUME NEW i \in Ids, InHand(i), Exists(i)'
      PROVE  InHand(i)' \/ Harmed(i, Ways)'
    BY DEF HandKept
  <2>1. PICK u \in Threads : call[u] # Idle /\ Id(u) = i /\ call[u].op \in {"create", "delete"}
    BY DEF InHand
  <2>2. CASE u # t
    BY <2>1, <2>2, <1>4 DEF InHand, Others, Id
  <2>3. CASE u = t
    BY <2>1, <2>3, <1>1, <1>6 DEF Harmed, Ways
  <2> QED
    BY <2>2, <2>3
<1>10. RemovedKept
  <2> SUFFICES ASSUME NEW i \in Ids, Removed(i), Exists(i)'
      PROVE  Removed(i)' \/ Harmed(i, Ways)'
    BY DEF RemovedKept
  <2>1. PICK u \in Threads : call[u].op = "delete" /\ call[u].pc = "delete" /\ call[u].id = i
    BY DEF Removed
  <2>2. CASE u # t
    BY <2>1, <2>2, <1>4 DEF Removed, Others
  <2>3. CASE u = t
    BY <2>1, <2>3, <1>2, <1>6 DEF Harmed, Ways
  <2> QED
    BY <2>2, <2>3
<1>11. \A j \in Ids : Exists(j)' => RowFits(rows'[j])
  <2>1. \A j \in Ids : Exists(j)' => Exists(j) /\ rows'[j] = rows[j]
    BY <1>6, Grows DEF WorkspaceInv
  <2> QED
    BY <2>1 DEF WorkspaceInv, RowsFit
<1> QED
  BY <1>3, <1>5, <1>6, <1>7, <1>8, <1>9, <1>10, <1>11, CalmKeeps DEF Calm

\* A session of k runs, or moves on.
LEMMA SessionChange ==
    ASSUME WorkspaceInv, WorkspaceTypes', Calm, NEW k \in Ids, rows[k] # NoRow,
           \A i \in Ids : i # k => sess'[i] = sess[i],
           UNCHANGED <<rows, lists, disk, asked>>, harm \subseteq harm',
           sess[k] # "none" \/ Crossed(k) \/ rows[k].state = "ready",
           sess[k] \in Active \/ \A u \in Threads : call[u].op = "delete" /\ call[u].id = k => <<k, "late">> \in harm'
    PROVE  WorkspaceInv'
<1>1. OldRows /\ SameState /\ SameAccess /\ FullKept /\ \A j \in Ids : Exists(j)' => RowFits(rows'[j])
  BY Still DEF WorkspaceInv, RowsFit, Exists, FullKept, Full
<1> USE DEF WorkspaceInv, Calm
<1>2. CallsFit' /\ RowsFit' /\ TwiceOK'
  BY <1>1, CallsFitKept, Grows, RowsFitKept, TwiceKept
<1>3. JobsOK' /\ ReadyHasDir' /\ ClonedOK'
  BY <1>1, JobsOKKept, ReadyHasDirKept, ClonedKept
<1>4. CloneOK' /\ AccessAsAsked' /\ ListOK'
  BY <1>1, CloneKept, AccessKept, ListOKKept
<1>5. LateOK'
  <2> SUFFICES ASSUME NEW u \in Threads, NEW i \in Ids, call'[u].op = "delete", call'[u].id = i,
                      sess'[i] \in Active
      PROVE  <<i, "late">> \in harm'
    <3>1. \A u \in Threads : call'[u].op = "delete" => call'[u].id \in Ids
      BY RecordsDiffer DEF WorkspaceTypes
    <3> QED
      BY <3>1 DEF LateOK
  <2>1. call[u].op = "delete" /\ call[u].id = i
    BY DEF NoNewDelete
  <2> QED
    BY <2>1 DEF LateOK
<1>6. ReadyStays'
  <2> SUFFICES ASSUME NEW i \in Ids, Exists(i)', ~Crossed(i)'
      PROVE  /\ sess'[i] # "none" => rows'[i].state = "ready"
             /\ \A t \in Threads : call'[t] # Idle /\ call'[t].id = i /\ call'[t].row.state = "ready" => rows'[i].state = "ready"
    BY DEF ReadyStays, Live, Exists, Crossed
  <2>1. i \in Live /\ ~Crossed(i) /\ rows'[i] = rows[i]
    BY DEF Live, Crossed, Exists
  <2>2. sess'[i] # "none" => rows'[i].state = "ready"
    BY <2>1 DEF ReadyStays
  <2>3. ASSUME NEW t \in Threads, call'[t] # Idle, call'[t].id = i, call'[t].row.state = "ready"
        PROVE  rows'[i].state = "ready"
    <3>1. CASE Begun(t)
      BY <3>1, <2>3 DEF Begun
    <3>2. CASE call'[t] = call[t]
      BY <3>2, <2>1, <2>3 DEF ReadyStays
    <3>3. CASE Further(t)
      BY <3>3, <2>1, <2>3, RecordsDiffer DEF ReadyStays, Further, SameCall
    <3> QED
      BY <3>1, <3>2, <3>3, <2>3 DEF CallStep, Stops
  <2> QED
    BY <2>2, <2>3
<1> QED
  BY <1>2, <1>3, <1>4, <1>5, <1>6

LEMMA UnseenFacts ==
    ASSUME WorkspaceInv, NEW k \in Ids
    PROVE  /\ Unseen(k) \in SUBSET Ids
           /\ \A u \in Threads : call[u].op = "delete" /\ call[u].id = k => k \in Unseen(k)
BY CallCases, RecordsDiffer DEF WorkspaceInv, Unseen, Id

LEMMA InsertSessionKeeps ==
    ASSUME WorkspaceInv, NEW t \in Threads, InsertSession(t)
    PROVE  WorkspaceInv'
<1>0. At(t, "session", "insert")
  BY DEF InsertSession
<1>1. PICK k \in Ids : k = Id(t)
  BY <1>0, Acting
<1>2. /\ ~Job(call[t]) /\ call[t].id = k /\ call[t] \in Calls /\ call[t] # Idle
         /\ call[t].op = "session" /\ rows[k] # NoRow
      /\ call[t].row.state = "ready"
  BY <1>0, <1>1, Acting DEF Job, Fits
<1>3. Others(t) /\ Stops(t) /\ call' \in [Threads -> Calls \cup {Idle}]
  BY EndsFacts DEF WorkspaceInv, InsertSession
<1>4. Calm
  BY <1>2, <1>3, StopKeeps DEF WorkspaceInv, Calm
<1>5. UNCHANGED <<rows, lists, disk, used, calls, faults, asked>>
  BY DEF InsertSession
<1>6. CASE Exists(k) /\ sess' = [sess EXCEPT ![k] = "running"] /\ Harms(Unseen(k), "late")
  <2>1. /\ harm \subseteq harm' /\ harm' \subseteq Ids \X Ways
        /\ \A u \in Threads : call[u].op = "delete" /\ call[u].id = k => <<k, "late">> \in harm'
    BY <1>6, UnseenFacts, HarmsFacts DEF WorkspaceInv, Ways
  <2>2. WorkspaceTypes' /\ \A i \in Ids : i # k => sess'[i] = sess[i]
    BY <1>3, <1>5, <1>6, <2>1 DEF WorkspaceInv, WorkspaceTypes, Active
  <2>3. Crossed(k) \/ rows[k].state = "ready"
    BY <1>2, <1>6 DEF WorkspaceInv, ReadyStays, Live
  <2> QED
    BY <1>2, <1>4, <1>5, <2>1, <2>2, <2>3, SessionChange
<1>7. CASE UNCHANGED <<sess, harm>>
  <2>1. WorkspaceTypes'
    BY <1>3, <1>5, <1>7 DEF WorkspaceInv, WorkspaceTypes
  <2>2. OldRows /\ SameState /\ SameAccess /\ FullKept /\ \A j \in Ids : Exists(j)' => RowFits(rows'[j])
    BY <1>5, Still DEF WorkspaceInv, RowsFit, Exists, FullKept, Full
  <2> QED
    BY <1>4, <1>5, <1>7, <2>1, <2>2, CalmKeeps
<1> QED
  BY <1>1, <1>6, <1>7 DEF InsertSession

LEMMA SameCalls ==
    ASSUME call' = call
    PROVE  Calm
BY DEF Calm, CallStep, NoNewJobs, NoNewDelete, NoNewCloned, NoNewList, JobsKept, HandKept,
   RemovedKept, ListKept,
       SameCall, InHand, Removed, Id, At

LEMMA SessionMovesKeeps ==
    ASSUME WorkspaceInv, NEW k \in Ids, NEW st \in Active \cup {"closed"}, SessionMoves(k, st)
    PROVE  WorkspaceInv'
<1>1. UNCHANGED <<rows, lists, disk, used, call, calls, faults, asked>> /\ sess[k] # "none"
      /\ sess' = [sess EXCEPT ![k] = st] /\ Harms(IF sess[k] = "closed" THEN Unseen(k) ELSE {}, "late")
  BY DEF SessionMoves
<1>2. Calm
  BY <1>1, SameCalls
<1>3. rows[k] # NoRow
  BY <1>1 DEF WorkspaceInv, RowsFit
<1>4. /\ harm \subseteq harm' /\ harm' \subseteq Ids \X Ways
      /\ sess[k] = "closed" => \A u \in Threads : call[u].op = "delete" /\ call[u].id = k => <<k, "late">> \in harm'
  <2> DEFINE S == IF sess[k] = "closed" THEN Unseen(k) ELSE {}
  <2>1. S \in SUBSET Ids /\ Harms(S, "late")
        /\ (sess[k] = "closed" => \A u \in Threads : call[u].op = "delete" /\ call[u].id = k => k \in S)
    BY <1>1, UnseenFacts
  <2> HIDE DEF S
  <2> QED
    BY <2>1, HarmsFacts DEF WorkspaceInv, Ways
<1>5. WorkspaceTypes' /\ \A i \in Ids : i # k => sess'[i] = sess[i]
  BY <1>1, <1>4 DEF WorkspaceInv, WorkspaceTypes
<1>6. sess[k] \in Active \/ sess[k] = "closed"
  BY <1>1 DEF WorkspaceInv, WorkspaceTypes
<1> QED
  BY <1>1, <1>2, <1>3, <1>4, <1>5, <1>6, SessionChange

LEMMA RestartKeeps ==
    ASSUME WorkspaceInv, Restart
    PROVE  WorkspaceInv'
<1>1. /\ UNCHANGED <<rows, lists, disk, sess, used, calls, asked>> /\ call' = [t \in Threads |-> Idle]
      /\ faults' \in 0 .. MaxFaults
  BY FailsFacts DEF Restart, WorkspaceInv
<1>2. /\ harm \subseteq harm' /\ harm' \subseteq Ids \X Ways
      /\ \A t \in Threads, i \in Ids : call[t] # Idle /\ Id(t) = i => <<i, "halfway">> \in harm'
  BY DEF Restart, Harms, WorkspaceInv, WorkspaceTypes, Ways
<1>3. WorkspaceTypes'
  BY <1>1, <1>2 DEF WorkspaceInv, WorkspaceTypes
<1>4. \A t \in Threads : call'[t] = Idle /\ call'[t].op = "idle" /\ ~Job(call'[t])
  BY <1>1, RecordsDiffer DEF Job
<1>5. CallStep /\ NoNewJobs /\ NoNewDelete /\ NoNewCloned /\ NoNewList
  BY <1>4 DEF CallStep, Stops, NoNewJobs, NoNewDelete, NoNewCloned, NoNewList
<1>6. HandKept /\ ListKept
  BY <1>2 DEF HandKept, ListKept, InHand, At, Harmed, Ways
<1>7. \A t \in Threads, i \in Ids : call[t].op \in Ops /\ call[t].id = i => <<i, "halfway">> \in harm'
  BY <1>2, CallCases DEF WorkspaceInv, Id
<1>8. JobsKept /\ RemovedKept
  BY <1>7 DEF JobsKept, RemovedKept, Removed, Job, Harmed, Ways, Ops
<1>9. OldRows /\ SameState /\ SameAccess /\ FullKept /\ \A j \in Ids : Exists(j)' => RowFits(rows'[j])
  BY <1>1, Still DEF WorkspaceInv, RowsFit, Exists, FullKept, Full
<1> QED
  BY <1>1, <1>2, <1>3, <1>5, <1>6, <1>8, <1>9, CalmKeeps DEF Calm

LEMMA AccessWriteKeeps ==
    ASSUME WorkspaceInv, NEW t \in Threads, AccessWrite(t)
    PROVE  WorkspaceInv'
<1>0. At(t, "access", "write")
  BY DEF AccessWrite
<1>1. PICK k \in Ids : k = Id(t)
  BY <1>0, Acting
<1>2. /\ ~Job(call[t]) /\ call[t].id = k /\ call[t] \in Calls /\ call[t] # Idle
         /\ call[t].op = "access" /\ call[t].pc = "write"
      /\ rows[k] # NoRow /\ call[t].row \in Row /\ call[t].arg \in Access /\ Fits(call[t])
      /\ (Exists(k) => SameBase(call[t].row, rows[k]))
  BY <1>0, <1>1, Acting DEF Job
<1>3. lists' = lists /\ disk' = disk /\ sess' = sess /\ used' = used /\ calls' = calls /\ faults' = faults
      /\ asked' = asked /\ FullKept
  BY DEF AccessWrite, FullKept, Full
<1>4. CASE Ends(t) /\ UNCHANGED <<rows, harm>>
  <2>1. Others(t) /\ Stops(t) /\ call' \in [Threads -> Calls \cup {Idle}]
    BY <1>4, EndsFacts DEF WorkspaceInv
  <2>2. Calm
    BY <1>2, <2>1, StopKeeps DEF Calm, WorkspaceInv
  <2>3. WorkspaceTypes'
    BY <1>3, <1>4, <2>1 DEF WorkspaceInv, WorkspaceTypes
  <2>4. OldRows /\ SameState /\ SameAccess /\ \A j \in Ids : Exists(j)' => RowFits(rows'[j])
    BY <1>4, Still DEF WorkspaceInv, RowsFit, Exists
  <2> QED
    BY <1>3, <1>4, <2>2, <2>3, <2>4, CalmKeeps
<1> DEFINE between == \E u \in Threads : At(u, "access", "list") /\ Id(u) = k
<1>5. CASE /\ Exists(k) /\ Goes(t, "list")
           /\ rows' = [rows EXCEPT ![k] = [call[t].row EXCEPT !.access = call[t].arg.mode]]
           /\ Harms(IF Stale(t) \/ between THEN {k} ELSE {}, "crossed")
  <2> DEFINE new == [call[t].row EXCEPT !.access = call[t].arg.mode]
  <2>1. /\ new \in Row /\ SameBase(new, call[t].row) /\ RowFits(new) /\ new.access = call[t].arg.mode
        /\ new.state = call[t].row.state
    BY <1>2 DEF Row, Access, SameBase, RowFits, Fits
  <2>2. rows' = [rows EXCEPT ![k] = new]
    BY <1>5
  <2> HIDE DEF new
  <2>3. /\ harm \subseteq harm' /\ harm' \subseteq Ids \X Ways
        /\ rows[k] # call[t].row => Crossed(k)'
        /\ between => Crossed(k)'
    <3>1. harm' = harm \cup ((IF Stale(t) \/ between THEN {k} ELSE {}) \X {"crossed"})
      BY <1>5 DEF Harms
    <3>2. rows[k] # call[t].row => Stale(t)
      BY <1>1 DEF Stale
    <3> HIDE DEF between
    <3> QED
      BY <3>1, <3>2 DEF WorkspaceInv, WorkspaceTypes, Ways, Crossed
  <2>4. /\ rows' \in [Ids -> Row \cup {NoRow, Gone}]
        /\ rows'[k] = new /\ \A j \in Ids : j # k => rows'[j] = rows[j]
    BY <2>1, <2>2 DEF WorkspaceInv, WorkspaceTypes
  <2>5. OldRows
    BY <1>2, <1>5, <2>1, <2>4, RowCases, RecordsDiffer DEF OldRows, SameBase, WorkspaceInv
  <2>6. \A j \in Ids : Exists(j)' => RowFits(rows'[j])
    BY <2>1, <2>4 DEF WorkspaceInv, RowsFit, Exists
  <2>7. Others(t) /\ Moves(t, "list") /\ call' \in [Threads -> Calls \cup {Idle}]
    BY <1>2, <1>5, GoesFacts DEF WorkspaceInv, Pcs, JobPcs
  <2>8. WorkspaceTypes'
    BY <1>3, <2>3, <2>4, <2>7 DEF WorkspaceInv, WorkspaceTypes
  <2>9. /\ Fits(call'[t]) /\ ~Job(call'[t]) /\ call'[t].id = k /\ call'[t].op = "access"
           /\ call'[t].pc = "list"
        /\ call'[t].arg = call[t].arg /\ call'[t] # Idle
    BY <1>2, <2>7, RecordsDiffer DEF Moves, SameCall, Fits, Job
  <2>10. CallStep /\ NoNewJobs /\ NoNewDelete /\ NoNewCloned /\ JobsKept /\ HandKept /\ RemovedKept
    BY <1>2, <2>7, <2>9, MoveKeeps DEF WorkspaceInv
  <2>11. SameState
    BY <2>1, <2>3, <2>4 DEF SameState
  <2> USE DEF WorkspaceInv
  <2>12. CallsFit' /\ RowsFit' /\ TwiceOK' /\ LateOK'
    BY <1>3, <2>3, <2>5, <2>6, <2>8, <2>10, CallsFitKept, Grows, RowsFitKept, TwiceKept, LateKept
  <2>13. JobsOK' /\ ReadyStays' /\ ReadyHasDir'
    BY <1>3, <2>3, <2>5, <2>8, <2>10, <2>11, JobsOKKept, ReadyStaysKept, ReadyHasDirKept
  <2>14. ClonedOK' /\ CloneOK'
    BY <1>3, <2>3, <2>5, <2>8, <2>10, <2>11, ClonedKept, CloneKept
  <2>15. AccessAsAsked'
    <3> SUFFICES ASSUME NEW i \in Ids, Exists(i)', ~managed(rows'[i]),
                        \A u \in Threads : ~At(u, "access", "list")' \/ Id(u)' # i
        PROVE  \/ /\ rows'[i].access = asked'[i].mode
                  /\ lists'[i] = IF asked'[i].mode = "listed" THEN asked'[i].list ELSE {}
               \/ Harmed(i, {"halfway", "crossed"})'
      BY DEF AccessAsAsked, Live, Exists, Harmed, managed
    <3>1. i # k
      BY <2>9 DEF At, Id
    <3>2. i \in Live /\ rows'[i] = rows[i]
      BY <3>1, <2>4, <2>5, Grows
    <3>3. \A u \in Threads : ~At(u, "access", "list") \/ Id(u) # i
      <4> SUFFICES ASSUME NEW u \in Threads, At(u, "access", "list"), Id(u) = i
          PROVE  FALSE
        OBVIOUS
      <4>1. call'[u] = call[u]
        BY <3>1, <1>1, <2>7 DEF Others
      <4>2. At(u, "access", "list")' /\ Id(u)' = i
        BY <4>1 DEF At, Id
      <4> QED
        BY <4>2
    <3>4. Harmed(i, {"halfway", "crossed"}) => Harmed(i, {"halfway", "crossed"})'
      BY <2>3 DEF Harmed
    <3> QED
      BY <3>2, <3>3, <3>4, <1>3 DEF AccessAsAsked
  <2>16. ListOK'
    <3> SUFFICES ASSUME NEW u \in Threads, NEW i \in Ids, call'[u].op = "access", call'[u].pc = "list",
                        call'[u].id = i, Exists(i)'
        PROVE  rows'[i].access = call'[u].arg.mode \/ Harmed(i, {"halfway", "crossed"})'
      BY <2>8, ListIds
    <3>1. CASE u = t
      BY <3>1, <2>1, <2>4, <2>9
    <3>2. CASE u # t /\ i = k
      <4>1. between
        BY <3>2, <2>7, CallCases DEF Others, At, Id, Ops
      <4> QED
        BY <4>1, <3>2, <2>3 DEF Crossed, Harmed
    <3>3. CASE u # t /\ i # k
      <4>1. call'[u] = call[u] /\ Exists(i) /\ rows'[i] = rows[i]
        BY <3>3, <2>4, <2>5, <2>7, Grows DEF Others
      <4>2. Harmed(i, {"halfway", "crossed"}) => Harmed(i, {"halfway", "crossed"})'
        BY <2>3 DEF Harmed
      <4> QED
        BY <4>1, <4>2 DEF ListOK
    <3> QED
      BY <3>1, <3>2, <3>3
  <2> QED
    BY <2>8, <2>12, <2>13, <2>14, <2>15, <2>16
<1> QED
  BY <1>1, <1>4, <1>5 DEF AccessWrite

LEMMA AccessListKeeps ==
    ASSUME WorkspaceInv, NEW t \in Threads, AccessList(t)
    PROVE  WorkspaceInv'
<1>0. At(t, "access", "list")
  BY DEF AccessList
<1>1. PICK k \in Ids : k = Id(t)
  BY <1>0, Acting
<1>2. /\ ~Job(call[t]) /\ call[t].id = k /\ call[t] \in Calls /\ call[t] # Idle
         /\ call[t].op = "access" /\ call[t].pc = "list"
      /\ rows[k] # NoRow /\ call[t].arg \in Access
  BY <1>0, <1>1, Acting DEF Job
<1>3. rows' = rows /\ disk' = disk /\ sess' = sess /\ used' = used /\ calls' = calls
      /\ asked' = [asked EXCEPT ![k] = call[t].arg]
  BY <1>1 DEF AccessList
<1>4. Others(t) /\ Stops(t) /\ call' \in [Threads -> Calls \cup {Idle}]
  BY EndsFacts DEF WorkspaceInv, AccessList
<1>5. CallStep /\ NoNewJobs /\ NoNewDelete /\ NoNewCloned /\ NoNewList /\ JobsKept /\ HandKept
      /\ RemovedKept
  BY <1>2, <1>4, StopKeeps DEF WorkspaceInv
<1>6. /\ \A i \in Ids : i # k => lists'[i] = lists[i] /\ asked'[i] = asked[i]
      /\ lists' \in [Ids -> Lists] /\ asked' \in [Ids -> Access] /\ asked'[k] = call[t].arg
      /\ harm \subseteq harm' /\ harm' \subseteq Ids \X Ways /\ faults' \in 0 .. MaxFaults
      /\ Exists(k) => lists'[k] = ListFor(call[t].arg) \/ <<k, "halfway">> \in harm'
  <2>1. \A i \in Ids : i # k => asked'[i] = asked[i]
    BY <1>3 DEF WorkspaceInv, WorkspaceTypes
  <2>2. asked' \in [Ids -> Access] /\ asked'[k] = call[t].arg
    BY <1>2, <1>3 DEF WorkspaceInv, WorkspaceTypes
  <2>3. ListFor(call[t].arg) \in Lists
    BY <1>2 DEF ListFor, Access, Lists
  <2>4. CASE Exists(Id(t)) /\ lists' = [lists EXCEPT ![Id(t)] = ListFor(call[t].arg)]
             /\ UNCHANGED <<faults, harm>>
    BY <1>1, <2>1, <2>2, <2>3, <2>4 DEF WorkspaceInv, WorkspaceTypes
  <2>5. CASE ~Exists(Id(t)) /\ UNCHANGED <<lists, faults, harm>>
    BY <1>1, <2>1, <2>2, <2>5 DEF WorkspaceInv, WorkspaceTypes
  <2>6. CASE Fails /\ Harms({Id(t)}, "halfway") /\ UNCHANGED lists
    <3>1. harm \subseteq harm' /\ harm' \subseteq Ids \X Ways /\ <<k, "halfway">> \in harm'
      BY <2>6, <1>1, HarmsFacts DEF WorkspaceInv, Ways
    <3> QED
      BY <2>1, <2>2, <2>6, <3>1, FailsFacts DEF WorkspaceInv, WorkspaceTypes
  <2> QED
    BY <2>4, <2>5, <2>6 DEF AccessList
<1>7. WorkspaceTypes'
  BY <1>3, <1>4, <1>6 DEF WorkspaceInv, WorkspaceTypes
<1>8. OldRows /\ SameState /\ SameAccess /\ FullKept /\ \A j \in Ids : Exists(j)' => RowFits(rows'[j])
  BY <1>3, Still DEF WorkspaceInv, RowsFit, Exists, FullKept, Full
<1> USE DEF WorkspaceInv
<1>9. CallsFit' /\ TwiceOK' /\ LateOK'
  BY <1>3, <1>5, <1>6, <1>7, <1>8, CallsFitKept, Grows, TwiceKept, LateKept
<1>10. RowsFit'
  <2>1. \A i \in Ids : rows[i] = NoRow => sess'[i] = sess[i] /\ lists'[i] = lists[i] /\ asked'[i] = asked[i]
    BY <1>2, <1>3, <1>6
  <2> QED
    BY <2>1, <1>8, RowsFitKept
<1>11. JobsOK' /\ ReadyStays' /\ ReadyHasDir'
  BY <1>3, <1>5, <1>6, <1>7, <1>8, JobsOKKept, ReadyStaysKept, ReadyHasDirKept
<1>12. ClonedOK' /\ CloneOK' /\ ListOK'
  BY <1>5, <1>6, <1>7, <1>8, ClonedKept, CloneKept, ListOKKept
<1>13. AccessAsAsked'
  <2> SUFFICES ASSUME NEW i \in Ids, Exists(i)', ~managed(rows'[i]),
                      \A u \in Threads : ~At(u, "access", "list")' \/ Id(u)' # i,
                      ~Harmed(i, {"halfway", "crossed"})'
      PROVE  /\ rows'[i].access = asked'[i].mode
             /\ lists'[i] = IF asked'[i].mode = "listed" THEN asked'[i].list ELSE {}
    BY DEF AccessAsAsked, Live, Exists, Harmed, managed
  <2>1. i \in Live /\ rows'[i] = rows[i] /\ Exists(i) /\ ~Harmed(i, {"halfway", "crossed"})
    BY <1>3, <1>6 DEF Live, Exists, Harmed
  <2>2. CASE i = k
    <3>1. rows[k].access = call[t].arg.mode
      BY <2>1, <2>2, <1>2 DEF ListOK
    <3>2. lists'[k] = ListFor(call[t].arg)
      BY <2>1, <2>2, <1>6 DEF Harmed
    <3> QED
      BY <2>1, <2>2, <3>1, <3>2, <1>6 DEF ListFor
  <2>3. CASE i # k
    <3>1. \A u \in Threads : ~At(u, "access", "list") \/ Id(u) # i
      <4> SUFFICES ASSUME NEW u \in Threads, At(u, "access", "list"), Id(u) = i
          PROVE  FALSE
        OBVIOUS
      <4>1. call'[u] = call[u]
        BY <2>3, <1>1, <1>4 DEF Others
      <4>2. At(u, "access", "list")' /\ Id(u)' = i
        BY <4>1 DEF At, Id
      <4> QED
        BY <4>2
    <3> QED
      BY <2>1, <2>3, <3>1, <1>6 DEF AccessAsAsked
  <2> QED
    BY <2>2, <2>3
<1> QED
  BY <1>7, <1>9, <1>10, <1>11, <1>12, <1>13

\* A row is inserted: by an admin, who is answered at once, or by a call that
\* goes on to make the directory.
LEMMA InsertKeeps ==
    ASSUME WorkspaceInv, NEW t \in Threads, NEW k \in Ids, NEW row \in Row, Insert(t, k, row),
           RowFits(row), row.access = "everyone",
           UNCHANGED <<lists, disk, sess, used, faults, asked>>, calls' \in 0 .. MaxCalls,
           \/ call' = call /\ row.state = "ready" /\ row.source = "path" /\ Full(row.dir)
           \/ /\ Others(t) /\ Starts(t, "create", "stat", k, row, Everyone) /\ call' \in [Threads -> Calls \cup {Idle}]
              /\ managed(row) /\ row.state = IF row.source = "git" THEN "cloning" ELSE "ready"
    PROVE  WorkspaceInv'
<1>0. rows[k] = NoRow /\ ~Exists(k) /\ sess[k] = "none" /\ lists[k] = {} /\ asked[k] = Everyone
  BY DEF Insert, Exists, WorkspaceInv, RowsFit
<1>1. /\ rows' \in [Ids -> Row \cup {NoRow, Gone}] /\ rows'[k] = row
      /\ \A j \in Ids : j # k => rows'[j] = rows[j]
      /\ Exists(k)'
  BY RecordsDiffer DEF Insert, WorkspaceInv, WorkspaceTypes, Exists
<1>2. RowsGrow /\ \A j \in Ids : j # k /\ Exists(j)' => j \in Live /\ Exists(j)
  BY <1>0, <1>1, RowCases, RecordsDiffer DEF WorkspaceInv, RowsGrow, SameBase, Exists, Live
<1>3. /\ harm \subseteq harm' /\ harm' \subseteq Ids \X Ways
      /\ \A j \in Live : rows[j].dir = row.dir => <<j, "twice">> \in harm' /\ <<k, "twice">> \in harm'
  <2> DEFINE same == {j \in Live : rows[j].dir = row.dir}
  <2> DEFINE S == IF same = {} THEN {} ELSE same \cup {k}
  <2>1. harm' = harm \cup (S \X {"twice"})
    BY DEF Insert, Harms
  <2>2. S \in SUBSET Ids /\ \A j \in Live : rows[j].dir = row.dir => j \in S /\ k \in S
    BY DEF Live
  <2> HIDE DEF S
  <2> QED
    BY <2>1, <2>2 DEF WorkspaceInv, WorkspaceTypes, Ways
<1>4. WorkspaceTypes'
  BY <1>1, <1>3 DEF WorkspaceInv, WorkspaceTypes
<1>5. \A u \in Threads : call'[u] = call[u] \/
          (/\ u = t /\ call[t] = Idle /\ call'[t] \in Calls /\ call'[t].id = k /\ call'[t].row = row /\ Fits(call'[t])
           /\ call'[t].op = "create" /\ call'[t].pc = "stat" /\ call'[t] # Idle /\ managed(row)
           /\ row.state = IF row.source = "git" THEN "cloning" ELSE "ready")
  BY RecordsDiffer DEF Others, Starts, Fits
<1>6. /\ row.source = "path" => Full(row.dir)
      /\ row.source # "path" => call'[t].id = k /\ call'[t].op = "create" /\ call'[t].pc = "stat" /\ call'[t] # Idle /\ call'[t].row = row
  BY RecordsDiffer DEF Starts, managed
<1>7. \A u \in Threads : call[u] # Idle => call[u].id # k /\ call'[u] = call[u]
  BY <1>0, <1>5 DEF WorkspaceInv, CallsFit
<1>8. CallStep
  BY <1>1, <1>5 DEF CallStep, Begun
<1>9. \A u \in Threads : call'[u] # Idle => call'[u] = call[u] \/ (u = t /\ call'[u].id = k)
  BY <1>5
<1>h. \A i \in Ids, W \in SUBSET Ways : Harmed(i, W) => Harmed(i, W)'
  BY <1>3 DEF Harmed
<1>w. {"halfway", "crossed"} \subseteq Ways /\ {"halfway", "crossed", "left"} \subseteq Ways
  BY DEF Ways
<1> USE DEF WorkspaceInv
<1>10. CallsFit'
  BY <1>2, <1>4, <1>8, CallsFitKept
<1>11. RowsFit'
  BY <1>0, <1>1 DEF RowsFit, Exists
<1>12. TwiceOK'
  <2> SUFFICES ASSUME NEW i \in Ids, NEW j \in Ids, Exists(i)', Exists(j)', i # j,
                      rows'[i].dir = rows'[j].dir
      PROVE  <<i, "twice">> \in harm'
    BY DEF TwiceOK, Live, Exists
  <2>1. CASE i # k /\ j # k
    BY <2>1, <1>1, <1>2, <1>3 DEF TwiceOK
  <2>2. CASE i = k
    BY <2>2, <1>1, <1>2, <1>3
  <2>3. CASE j = k
    BY <2>3, <1>1, <1>2, <1>3
  <2> QED
    BY <2>1, <2>2, <2>3
<1>13. JobsOK'
  <2> SUFFICES ASSUME NEW u \in Threads, NEW i \in Ids, Job(call'[u]), call'[u].id = i, Exists(i)',
                      ~Crossed(i)'
      PROVE  /\ rows'[i].state = "cloning"
             /\ \A v \in Threads : Job(call'[v]) /\ call'[v].id = i => v = u
    BY <1>4, JobIds
  <2>0. \A v \in Threads : Job(call'[v]) => call'[v] # Idle
    BY RecordsDiffer DEF Job
  <2>1. CASE i = k
    <3>1. \A v \in Threads : Job(call'[v]) /\ call'[v].id = i => v = t /\ call[v] = Idle
      BY <2>0, <2>1, <1>5, <1>7
    <3>2. row.source = "git" /\ row.state = "cloning"
      <4>1. u = t /\ call'[t] # call[t] /\ call'[t].row = row /\ call'[t].pc = "stat"
        BY <2>0, <3>1, <1>5, RecordsDiffer
      <4>2. row.source = "git"
        BY <4>1 DEF Job, JobPcs
      <4> QED
        BY <4>1, <4>2, <1>5
    <3> QED
      BY <2>1, <3>1, <3>2, <1>1
  <2>2. CASE i # k
    <3>1. \A v \in Threads : call'[v].id = i => call'[v] = call[v]
      BY <2>2, <1>5
    <3>2. Job(call[u]) /\ call[u].id = i /\ Exists(i) /\ ~Crossed(i) /\ rows'[i] = rows[i]
      BY <2>2, <3>1, <1>1, <1>2, <1>3 DEF Crossed
    <3> QED
      BY <3>1, <3>2 DEF JobsOK
  <2> QED
    BY <2>1, <2>2
<1>14. ReadyStays'
  <2> SUFFICES ASSUME NEW i \in Ids, Exists(i)', ~Crossed(i)'
      PROVE  /\ sess'[i] # "none" => rows'[i].state = "ready"
             /\ \A u \in Threads : call'[u] # Idle /\ call'[u].id = i /\ call'[u].row.state = "ready" => rows'[i].state = "ready"
    BY DEF ReadyStays, Live, Exists, Crossed
  <2>1. CASE i = k
    BY <2>1, <1>0, <1>1, <1>5, <1>7
  <2>2. CASE i # k
    <3>1. i \in Live /\ ~Crossed(i) /\ rows'[i] = rows[i]
      BY <2>2, <1>1, <1>2, <1>3 DEF Crossed
    <3>2. \A u \in Threads : call'[u].id = i => call'[u] = call[u]
      BY <2>2, <1>5
    <3> QED
      BY <3>1, <3>2 DEF ReadyStays
  <2> QED
    BY <2>1, <2>2
<1>15. LateOK'
  <2>1. NoNewDelete
    BY <1>5 DEF NoNewDelete
  <2> QED
    BY <2>1, <1>3, LateKept
<1>16. \A u \in Threads : call[u].op \in Ops => call'[u] = call[u]
  BY <1>5, RecordsDiffer DEF Ops
<1>17. ReadyHasDir'
  <2> SUFFICES ASSUME NEW i \in Ids, Exists(i)', rows'[i].state = "ready"
      PROVE  Full(rows[i].dir)' \/ InHand(i)' \/ Harmed(i, Ways)'
    BY DEF ReadyHasDir, Live, Exists, Full
  <2>1. CASE i = k
    BY <2>1, <1>1, <1>6 DEF Full, InHand, Id
  <2>2. CASE i # k
    <3>1. i \in Live /\ rows'[i] = rows[i]
      BY <2>2, <1>1, <1>2
    <3>2. Full(rows[i].dir) \/ InHand(i) \/ Harmed(i, Ways)
      BY <3>1 DEF ReadyHasDir, Full
    <3>3. InHand(i) => InHand(i)'
      BY <1>7 DEF InHand, Id
    <3> QED
      BY <3>1, <3>2, <3>3, <1>h DEF Full
  <2> QED
    BY <2>1, <2>2
<1>18. ClonedOK'
  <2> SUFFICES ASSUME NEW u \in Threads, NEW i \in Ids, NEW d \in Dirs \cup {Outside},
                      call'[u].op \in {"create", "retry"}, call'[u].pc = "cloned", call'[u].id = i,
                      call'[u].row.dir = d, Exists(i)'
      PROVE  Full(d)' \/ Removed(i)' \/ Harmed(i, Ways)'
    BY <1>4, ClonedIds
  <2>1. call'[u] = call[u] /\ call[u] # Idle /\ i # k /\ Exists(i)
    BY <1>2, <1>5, <1>7, RecordsDiffer
  <2>2. Full(d) \/ Removed(i) \/ Harmed(i, Ways)
    BY <2>1 DEF ClonedOK
  <2>3. Removed(i) => Removed(i)'
    BY <1>16 DEF Removed, Ops
  <2> QED
    BY <2>2, <2>3, <1>h DEF Full
<1>19. CloneOK'
  <2> SUFFICES ASSUME NEW i \in Ids, Exists(i)', rows'[i].state = "cloning"
      PROVE  (\E u \in Threads : Job(call'[u]) /\ call'[u].id = i) \/ Harmed(i, {"halfway", "crossed", "left"})'
    BY DEF CloneOK, Live, Exists, Harmed, Job
  <2>1. CASE i = k
    <3>1. row.source = "git"
      BY <2>1, <1>1 DEF managed
    <3> QED
      BY <2>1, <3>1, <1>6 DEF Job
  <2>2. CASE i # k
    <3>1. (\E u \in Threads : Job(call[u]) /\ call[u].id = i) \/ Harmed(i, {"halfway", "crossed", "left"})
      BY <2>2, <1>1, <1>2 DEF CloneOK
    <3> QED
      BY <3>1, <1>16, <1>h, <1>w DEF Job, Ops
  <2> QED
    BY <2>1, <2>2
<1>20. AccessAsAsked'
  <2> SUFFICES ASSUME NEW i \in Ids, Exists(i)', ~managed(rows'[i]),
                      \A u \in Threads : ~At(u, "access", "list")' \/ Id(u)' # i
      PROVE  \/ /\ rows'[i].access = asked'[i].mode
                /\ lists'[i] = IF asked'[i].mode = "listed" THEN asked'[i].list ELSE {}
             \/ Harmed(i, {"halfway", "crossed"})'
    BY DEF AccessAsAsked, Live, Exists, Harmed, managed
  <2>1. CASE i = k
    BY <2>1, <1>0, <1>1 DEF Everyone
  <2>2. CASE i # k
    <3>1. i \in Live /\ rows'[i] = rows[i]
      BY <2>2, <1>1, <1>2
    <3>2. \A u \in Threads : ~At(u, "access", "list") \/ Id(u) # i
      <4> SUFFICES ASSUME NEW u \in Threads, At(u, "access", "list"), Id(u) = i
          PROVE  FALSE
        OBVIOUS
      <4>1. call'[u] = call[u]
        BY <1>7 DEF At
      <4>2. At(u, "access", "list")' /\ Id(u)' = i
        BY <4>1 DEF At, Id
      <4> QED
        BY <4>2
    <3> QED
      BY <3>1, <3>2, <1>h, <1>w DEF AccessAsAsked
  <2> QED
    BY <2>1, <2>2
<1>21. ListOK'
  <2> SUFFICES ASSUME NEW u \in Threads, NEW i \in Ids, call'[u].op = "access", call'[u].pc = "list",
                      call'[u].id = i, Exists(i)'
      PROVE  rows'[i].access = call'[u].arg.mode \/ Harmed(i, {"halfway", "crossed"})'
    BY <1>4, ListIds
  <2>1. call'[u] = call[u] /\ call[u] # Idle /\ i # k /\ Exists(i) /\ rows'[i] = rows[i]
    BY <1>1, <1>2, <1>5, <1>7, RecordsDiffer
  <2> QED
    BY <2>1, <1>h, <1>w DEF ListOK
<1> QED
  BY <1>4, <1>10, <1>11, <1>12, <1>13, <1>14, <1>15, <1>17, <1>18, <1>19, <1>20, <1>21

LEMMA CreateKeeps ==
    ASSUME WorkspaceInv, NEW t \in Threads, NEW i \in Ids, NEW n \in Names, Create(t, i, n)
    PROVE  WorkspaceInv'
<1>0. WorkspaceTypes /\ Everyone \in Access /\ Slug[n] \in Dirs
  BY WorkspacesAssumption DEF WorkspaceInv, Everyone, Access, Lists
<1>1. CASE createGit(t, i, n)
  <2> DEFINE row == NewRow(n, "git", Slug[n], "cloning")
  <2>1. row \in Row /\ RowFits(row) /\ row.access = "everyone" /\ managed(row) /\ row.source = "git"
        /\ row.state = "cloning"
    BY <1>0 DEF NewRow, Row, RowFits, managed
  <2>2. Insert(t, i, row) /\ Begins(t, "create", "stat", i, row, Everyone)
        /\ UNCHANGED <<lists, disk, sess, used, faults, asked>>
    BY <1>1 DEF createGit
  <2> HIDE DEF row
  <2>3. Others(t) /\ Starts(t, "create", "stat", i, row, Everyone)
        /\ call' \in [Threads -> Calls \cup {Idle}] /\ calls' \in 0 .. MaxCalls
    BY <1>0, <2>1, <2>2, BeginsFacts DEF Ops, Pcs
  <2> QED
    BY <2>1, <2>2, <2>3, InsertKeeps
<1>2. CASE createEmpty(t, i, n)
  <2> DEFINE row == NewRow(n, "empty", Slug[n], "ready")
  <2>1. row \in Row /\ RowFits(row) /\ row.access = "everyone" /\ managed(row) /\ row.source # "git"
        /\ row.state = "ready"
    BY <1>0 DEF NewRow, Row, RowFits, managed
  <2>2. Insert(t, i, row) /\ Begins(t, "create", "stat", i, row, Everyone)
        /\ UNCHANGED <<lists, disk, sess, used, faults, asked>>
    BY <1>2 DEF createEmpty
  <2> HIDE DEF row
  <2>3. Others(t) /\ Starts(t, "create", "stat", i, row, Everyone)
        /\ call' \in [Threads -> Calls \cup {Idle}] /\ calls' \in 0 .. MaxCalls
    BY <1>0, <2>1, <2>2, BeginsFacts DEF Ops, Pcs
  <2> QED
    BY <2>1, <2>2, <2>3, InsertKeeps
<1>3. CASE createPath(t, i, n)
  <2>1. PICK d \in Dirs \cup {Outside} : Full(d) /\ Insert(t, i, NewRow(n, "path", d, "ready"))
    BY <1>3 DEF createPath, Full
  <2> DEFINE row == NewRow(n, "path", d, "ready")
  <2>2. row \in Row /\ RowFits(row) /\ row.access = "everyone" /\ row.source = "path"
        /\ row.state = "ready" /\ row.dir = d
    BY <1>0 DEF NewRow, Row, RowFits
  <2>3. Insert(t, i, row) /\ Full(row.dir)
    BY <2>1, <2>2
  <2> HIDE DEF row
  <2>4. call' = call /\ UNCHANGED <<lists, disk, sess, used, faults, asked>> /\ calls' \in 0 .. MaxCalls
    BY <1>3, WorkspacesAssumption DEF createPath, WorkspaceInv, WorkspaceTypes
  <2> QED
    BY <2>2, <2>3, <2>4, InsertKeeps
<1> QED
  BY <1>1, <1>2, <1>3 DEF Create

\* A step that changes nothing but who refers to a workspace.
LEMMA QuietKeeps ==
    ASSUME WorkspaceInv, used' \subseteq Ids, calls' \in 0 .. MaxCalls,
           UNCHANGED <<rows, lists, disk, sess, call, faults, harm, asked>>
    PROVE  WorkspaceInv'
<1>1. /\ rows' = rows /\ lists' = lists /\ disk' = disk /\ sess' = sess /\ call' = call
      /\ faults' = faults /\ harm' = harm /\ asked' = asked
  OBVIOUS
<1>2. OldRows /\ SameState /\ SameAccess /\ FullKept /\ \A j \in Ids : Exists(j)' => RowFits(rows'[j])
  BY <1>1, Still DEF WorkspaceInv, RowsFit, Exists, FullKept, Full
<1>3. WorkspaceTypes' /\ Calm
  BY <1>1, SameCalls DEF WorkspaceInv, WorkspaceTypes
<1> QED
  BY <1>1, <1>2, <1>3, CalmKeeps

LEMMA ReferKeeps ==
    ASSUME WorkspaceInv, NEW i \in Ids, Refer(i)
    PROVE  WorkspaceInv'
<1>1. used' \subseteq Ids /\ calls' \in 0 .. MaxCalls
  BY WorkspacesAssumption DEF Refer, WorkspaceInv, WorkspaceTypes
<1> QED
  BY <1>1, QuietKeeps DEF Refer

LEMMA StutterKeeps ==
    ASSUME WorkspaceInv, UNCHANGED workspaceVars
    PROVE  WorkspaceInv'
BY QuietKeeps DEF workspaceVars, WorkspaceInv, WorkspaceTypes

-----------------------------------------------------------------------------
LEMMA WorkspacesStart == WorkspacesInit => WorkspaceInv
<1> SUFFICES ASSUME WorkspacesInit PROVE WorkspaceInv
  OBVIOUS
<1> USE RecordsDiffer DEF WorkspacesInit
<1>1. WorkspaceTypes
  <2>1. [by |-> 0, is |-> "full"] \in Files /\ {} \in Lists
        /\ [mode |-> "everyone", list |-> {}] \in Access
    BY DEF Files, Lists, Access
  <2> QED
    BY <2>1, WorkspacesAssumption DEF WorkspaceTypes
<1>2. \A i \in Ids : rows[i] = NoRow /\ ~Exists(i)
  BY DEF Exists
<1>3. \A t \in Threads : call[t] = Idle /\ call[t].op = "idle"
  OBVIOUS
<1>4. CallsFit /\ RowsFit /\ TwiceOK /\ JobsOK /\ ReadyStays /\ LateOK
  BY <1>2, <1>3 DEF CallsFit, RowsFit, TwiceOK, JobsOK, ReadyStays, LateOK, Job, Live, Everyone
<1>5. ReadyHasDir /\ ClonedOK /\ CloneOK /\ AccessAsAsked /\ ListOK
  BY <1>2, <1>3 DEF ReadyHasDir, ClonedOK, CloneOK, AccessAsAsked, ListOK, Live
<1> QED
  BY <1>1, <1>4, <1>5 DEF WorkspaceInv

LEMMA WorkspacesStep == WorkspaceInv /\ [WorkspacesNext]_workspaceVars => WorkspaceInv'
<1> SUFFICES ASSUME WorkspaceInv, WorkspacesNext \/ UNCHANGED workspaceVars PROVE WorkspaceInv'
  OBVIOUS
<1>1. CASE \E t \in Threads : handleWorkspacesCreate(t)
  BY <1>1, CreateKeeps DEF handleWorkspacesCreate
<1>2. CASE \E t \in Threads : \/ handleWorkspacesPatch(t) \/ handleWorkspacesRetry(t) \/ handleWorkspaceAccessPut(t)
                              \/ \E i \in Ids : CreateSession(t, i)
  BY <1>2, ReadKeeps DEF handleWorkspacesPatch, handleWorkspacesRetry, handleWorkspaceAccessPut
<1>3. CASE \E t \in Threads : handleWorkspacesDelete(t)
  BY <1>3, DeleteKeeps DEF handleWorkspacesDelete
<1>4. CASE \E t \in Threads : Stat(t) \/ Mkdir(t) \/ GitInit(t)
  BY <1>4, StatKeeps, MkdirKeeps, GitInitKeeps
<1>5. CASE \E t \in Threads : CloneStart(t) \/ CloneEnd(t) \/ CloneRemove(t) \/ setState(t)
  BY <1>5, MakeKeeps, CloneEndKeeps, RemovesKeep, SetStateKeeps
<1>6. CASE \E t \in Threads : UpdateWrite(t) \/ RetryRemove(t) \/ RetryWrite(t)
  BY <1>6, UpdateKeeps, RemovesKeep, RetryWriteKeeps
<1>7. CASE \E t \in Threads : DeleteDir(t) \/ DeleteEnds(t) \/ InsertSession(t)
  BY <1>7, RemovesKeep, DeleteEndsKeeps, InsertSessionKeeps
<1>8. CASE \E t \in Threads : AccessWrite(t) \/ AccessList(t)
  BY <1>8, AccessWriteKeeps, AccessListKeeps
<1>9. CASE \E i \in Ids, st \in Active \cup {"closed"} : SessionMoves(i, st)
  BY <1>9, SessionMovesKeeps
<1>10. CASE Restart
  BY <1>10, RestartKeeps
<1>11. CASE UNCHANGED workspaceVars
  BY <1>11, StutterKeeps
<1>12. CASE \E i \in Ids : Refer(i)
  BY <1>12, ReferKeeps
<1> QED
  BY <1>1, <1>2, <1>3, <1>4, <1>5, <1>6, <1>7, <1>8, <1>9, <1>10, <1>11, <1>12 DEF WorkspacesNext

LEMMA WorkspacesFollow == WorkspaceInv => WorkspacesOK
<1> SUFFICES ASSUME WorkspaceInv PROVE WorkspacesOK
  OBVIOUS
<1>1. WorkspacesTypeOK
  BY CallCases, RecordsDiffer DEF WorkspaceInv, WorkspaceTypes, WorkspacesTypeOK, Ops
<1>2. CloningHasJob
  <2> SUFFICES ASSUME NEW i \in Live, rows[i].state = "cloning"
      PROVE  \/ \E t \in Threads : call[t] # Idle /\ Id(t) = i /\ call[t].op \in {"create", "retry"}
             \/ Harmed(i, {"halfway", "crossed", "left"})
    BY DEF CloningHasJob
  <2>1. (\E t \in Threads : Job(call[t]) /\ call[t].id = i) \/ Harmed(i, {"halfway", "crossed", "left"})
    BY DEF WorkspaceInv, CloneOK
  <2>2. \A t \in Threads : Job(call[t]) => call[t] # Idle /\ call[t].op \in {"create", "retry"}
    BY RecordsDiffer DEF Job
  <2> QED
    BY <2>1, <2>2 DEF Id
<1> QED
  BY <1>1, <1>2 DEF WorkspaceInv, WorkspacesOK

\* The inductive invariant holds of every run of the workspaces.
THEOREM WorkspaceInvHolds == WorkspacesSpec => []WorkspaceInv
BY WorkspacesStart, WorkspacesStep, PTL DEF WorkspacesSpec

\* The rows and the disk agree, for any number of calls, names, directories and
\* workspaces: a ready workspace has its repository, a cloning one its clone and
\* a shared one the access that was asked for last (Create, runClone, Retry,
\* Update, SetAccess, Delete), but for the harm that is named.
THEOREM WorkspacesAgree == WorkspacesSpec => []WorkspacesOK
BY WorkspaceInvHolds, WorkspacesFollow, PTL

\* Only four steps remove a directory.
LEMMA Removers ==
    ASSUME WorkspaceInv, [WorkspacesNext]_workspaceVars, NEW d \in Dirs \cup {Outside},
           disk[d] # NoDir, disk'[d] = NoDir
    PROVE  \E t \in Threads : CloneRemove(t) \/ RetryRemove(t) \/ DeleteDir(t)
                              \/ /\ At(t, "create", "init")
                                 /\ RemoveAll(t, Refers(Id(t)), "left") \/ RemoveAll(t, {Id(t)}, "left")
<1>0. disk' # disk /\ WorkspaceTypes
  BY DEF WorkspaceInv
<1>1. CASE \E t \in Threads : \/ handleWorkspacesCreate(t) \/ handleWorkspacesPatch(t) \/ handleWorkspacesDelete(t)
                              \/ handleWorkspacesRetry(t) \/ handleWorkspaceAccessPut(t)
                              \/ \E i \in Ids : CreateSession(t, i)
  BY <1>0, <1>1 DEF handleWorkspacesCreate, handleWorkspacesPatch, handleWorkspacesDelete,
     handleWorkspacesRetry,
     handleWorkspaceAccessPut, CreateSession, Create, createGit, createEmpty, createPath, Update, Delete, Retry, SetAccess
<1>2. CASE \E t \in Threads : Stat(t) \/ Mkdir(t) \/ GitInit(t)
  <2>1. PICK t \in Threads : Stat(t) \/ Mkdir(t) \/ GitInit(t)
    BY <1>2
  <2>2. CASE Stat(t)
    BY <2>2, <1>0 DEF Stat
  <2>3. CASE Mkdir(t)
    BY <2>3, <1>0, AtFacts, RecordsDiffer DEF Mkdir, WorkspaceTypes
  <2>4. CASE GitInit(t)
    <3>1. ASSUME disk[Dir(t)] # NoDir, disk' = [disk EXCEPT ![Dir(t)].is = "full"] PROVE FALSE
      <4>1. d = Dir(t) /\ disk[d] \in Files
        BY <3>1, <1>0 DEF WorkspaceTypes
      <4>2. [disk[d] EXCEPT !.is = "full"] \in Files
        BY <4>1 DEF Files
      <4> QED
        BY <3>1, <4>1, <4>2, <1>0, RecordsDiffer DEF WorkspaceTypes
    <3> QED
      BY <2>4, <3>1 DEF GitInit
  <2> QED
    BY <2>1, <2>2, <2>3, <2>4
<1>3. CASE \E t \in Threads : CloneStart(t) \/ CloneEnd(t) \/ CloneRemove(t) \/ setState(t)
  <2>1. PICK t \in Threads : CloneStart(t) \/ CloneEnd(t) \/ CloneRemove(t) \/ setState(t)
    BY <1>3
  <2>2. CASE CloneStart(t)
    <3>1. call[t] \in Calls /\ Id(t) \in Ids
      BY <2>2, <1>0, AtFacts DEF CloneStart, Cloner
    <3>2. [by |-> Id(t), is |-> "partial"] \in Files
      BY <3>1 DEF Files
    <3> QED
      BY <2>2, <3>2, <1>0, RecordsDiffer DEF CloneStart, WorkspaceTypes
  <2>3. CASE CloneEnd(t)
    <3>1. disk[Dir(t)] = [by |-> Id(t), is |-> "partial"] /\ disk' = [disk EXCEPT ![Dir(t)].is = "full"]
      BY <2>3, <1>0 DEF CloneEnd
    <3>2. d = Dir(t) /\ disk[d] \in Files
      BY <3>1, <1>0 DEF WorkspaceTypes
    <3>3. [disk[d] EXCEPT !.is = "full"] \in Files
      BY <3>2 DEF Files
    <3> QED
      BY <3>1, <3>2, <3>3, <1>0, RecordsDiffer DEF WorkspaceTypes
  <2>4. CASE setState(t)
    BY <2>4, <1>0 DEF setState
  <2> QED
    BY <2>1, <2>2, <2>3, <2>4
<1>4. CASE \E t \in Threads : UpdateWrite(t) \/ RetryRemove(t) \/ RetryWrite(t)
  BY <1>0, <1>4 DEF UpdateWrite, RetryWrite
<1>5. CASE \E t \in Threads : DeleteDir(t) \/ DeleteEnds(t) \/ InsertSession(t)
  BY <1>0, <1>5 DEF DeleteEnds, InsertSession
<1>6. CASE \E t \in Threads : AccessWrite(t) \/ AccessList(t)
  BY <1>0, <1>6 DEF AccessWrite, AccessList
<1>7. CASE (\E i \in Ids, st \in Active \cup {"closed"} : SessionMoves(i, st)) \/ (\E i \in Ids : Refer(i))
           \/ Restart \/ UNCHANGED workspaceVars
  BY <1>0, <1>7 DEF SessionMoves, Refer, Restart, workspaceVars
<1> QED
  BY <1>1, <1>2, <1>3, <1>4, <1>5, <1>6, <1>7 DEF WorkspacesNext

LEMMA KeptStep ==
    ASSUME WorkspaceInv, [WorkspacesNext]_workspaceVars, NEW i \in Ids, Exists(i),
           sess[i] \in Active, disk[rows[i].dir] # NoDir, NEW d, d = rows[i].dir, disk'[d] = NoDir
    PROVE  \E w \in {"twice", "crossed", "late", "left"} : <<i, w>> \in harm'
<1>0. WorkspaceTypes /\ d \in Dirs \cup {Outside} /\ sess[i] # "none"
  BY RowCases DEF WorkspaceInv, Row, Active
<1>r. Crossed(i) \/ rows[i].state = "ready"
  BY <1>0 DEF WorkspaceInv, ReadyStays, Live
<1>1. PICK t \in Threads : CloneRemove(t) \/ RetryRemove(t) \/ DeleteDir(t)
                           \/ /\ At(t, "create", "init")
                              /\ RemoveAll(t, Refers(Id(t)), "left") \/ RemoveAll(t, {Id(t)}, "left")
  BY <1>0, Removers
<1>2. PICK op \in {"create", "retry", "delete"}, pc \in {"failed", "remove", "init"} : At(t, op, pc)
  BY <1>1 DEF CloneRemove, Cloner, RetryRemove, DeleteDir
<1>3. /\ call[t] \in Calls /\ call[t].op = op /\ call[t].pc = pc /\ Id(t) = call[t].id /\ Fits(call[t])
  BY <1>2, Acting
<1>4. PICK S \in SUBSET Ids, way \in {"crossed", "left"} :
          /\ RemoveAll(t, S, way)
          /\ CloneRemove(t) \/ ((RetryRemove(t) \/ DeleteDir(t)) /\ (Stale(t) => Id(t) \in S) /\ way = "crossed")
             \/ (At(t, "create", "init") /\ S \in {Refers(Id(t)), {Id(t)}} /\ way = "left")
  <2>1. Id(t) \in Ids
    BY <1>2, Acting
  <2>2. {} \in SUBSET Ids /\ {Id(t)} \in SUBSET Ids /\ (IF Stale(t) THEN {Id(t)} ELSE {}) \in SUBSET Ids /\ Refers(Id(t)) \in SUBSET Ids
    BY <2>1 DEF Refers
  <2>3. CASE CloneRemove(t)
    BY <2>2, <2>3 DEF CloneRemove
  <2>4. CASE RetryRemove(t) \/ DeleteDir(t)
    <3>1. RemoveAll(t, IF Stale(t) THEN {Id(t)} ELSE {}, "crossed")
      BY <2>4 DEF RetryRemove, DeleteDir
    <3>2. Stale(t) => Id(t) \in (IF Stale(t) THEN {Id(t)} ELSE {})
      OBVIOUS
    <3> QED
      BY <2>2, <2>4, <3>1, <3>2
  <2>5. CASE /\ At(t, "create", "init")
             /\ RemoveAll(t, Refers(Id(t)), "left") \/ RemoveAll(t, {Id(t)}, "left")
    BY <2>2, <2>5
  <2> QED
    BY <1>1, <2>3, <2>4, <2>5
<1>5. /\ \A e \in Dirs \cup {Outside} : e # Dir(t) => disk'[e] = disk[e]
      /\ harm \subseteq harm' /\ \A j \in S : <<j, way>> \in harm'
      /\ \A j \in Ids : Exists(j) /\ j # Id(t) /\ rows[j].dir = Dir(t) => Harmed(j, {"twice", "crossed"})'
  BY <1>3, <1>4, RemoveFacts DEF Ways
<1>6. d = Dir(t)
  BY <1>0, <1>5
<1>7. CASE i # Id(t)
  BY <1>5, <1>6, <1>7 DEF Harmed
<1>8. CASE i = Id(t)
  <2>1. Crossed(i) => <<i, "crossed">> \in harm'
    BY <1>5 DEF Crossed
  <2>2. CASE CloneRemove(t)
    <3>1. call[t].op \in {"create", "retry"} /\ call[t].pc = "failed"
      BY <2>2, AtFacts, <1>0 DEF CloneRemove, Cloner
    <3>2. Crossed(i)
      BY <3>1, <1>3, <1>8, <1>r DEF WorkspaceInv, JobsOK, Job, JobPcs
    <3> QED
      BY <2>1, <3>2
  <2>3. CASE RetryRemove(t) /\ (Stale(t) => Id(t) \in S) /\ way = "crossed"
    <3>1. call[t].row.state = "failed"
      BY <2>3, AtFacts, <1>0, <1>3 DEF RetryRemove, Fits
    <3>2. Stale(t) \/ Crossed(i)
      BY <3>1, <1>8, <1>r DEF Stale
    <3> QED
      BY <2>1, <2>3, <3>2, <1>5, <1>8
  <2>4. CASE DeleteDir(t)
    <3>1. call[t].op = "delete"
      BY <2>4, AtFacts, <1>0 DEF DeleteDir
    <3>2. <<i, "late">> \in harm
      BY <3>1, <1>3, <1>8 DEF WorkspaceInv, LateOK
    <3> QED
      BY <3>2, <1>5
  <2>5. CASE S \in {Refers(Id(t)), {Id(t)}} /\ way = "left"
    BY <2>5, <1>0, <1>5, <1>8 DEF Refers
  <2> QED
    BY <1>4, <2>2, <2>3, <2>4, <2>5
<1> QED
  BY <1>7, <1>8

\* No call takes the directory from under an active session, unless it came
\* after the Delete had looked or before its creation had failed, another
\* workspace has the same directory, or calls on the workspace crossed
\* (hasActiveSessions, Delete, Retry, runClone, createEmpty).
THEOREM KeptForSessions == WorkspacesSpec => KeptUnderSession
<1>1. WorkspacesSpec => []WorkspaceInv
  BY WorkspaceInvHolds
<1> DEFINE DirsKept == \A i \in Live :
          (sess[i] \in Active /\ disk[rows[i].dir] # NoDir /\ disk'[rows[i].dir] = NoDir)
             => \E w \in {"twice", "crossed", "late", "left"} : <<i, w>> \in harm'
<1>2. WorkspaceInv /\ [WorkspacesNext]_workspaceVars => DirsKept
  BY KeptStep DEF Live
<1>3. WorkspaceInv /\ [WorkspacesNext]_workspaceVars => [DirsKept]_workspaceVars
  BY <1>2
<1> HIDE DEF DirsKept
<1>4. WorkspacesSpec => [][DirsKept]_workspaceVars
  BY <1>1, <1>3, PTL DEF WorkspacesSpec
<1> QED
  BY <1>4 DEF DirsKept, KeptUnderSession

=============================================================================
