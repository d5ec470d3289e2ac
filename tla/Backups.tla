------------------------------- MODULE Backups -------------------------------
(***************************************************************************)
(* The commands of the styr binary that share a data directory: serve       *)
(* (cmd/styr/serve.go), backup and restore (backup.go, restore.go), and the *)
(* pid file by which they know of each other (pidfile.go).  Each is an      *)
(* operating system process and may be killed between any two of its steps. *)
(*                                                                         *)
(* A database is a file that keeps its contents when it is renamed, and in  *)
(* which a process that has it open goes on writing.  SQLite (external)     *)
(* writes to a second file, the log, which is applied by whoever opens the  *)
(* path it lies beside, and removed by the last to close it in good order.  *)
(***************************************************************************)
EXTENDS Integers, Sequences, FiniteSets

CONSTANTS Servers, Restores, Copiers, \* processes: serve, restore, backup
          Binary,     \* the schema version each of them migrates to
          MaxWrites,  \* bound: writes of all servers
          MaxSeconds  \* bound: the clock, as the names of kept databases tell it

Procs == Servers \cup Restores \cup Copiers
ASSUME BackupsAssumption ==
    /\ Binary \in [Procs -> Nat] /\ MaxWrites \in Nat /\ MaxSeconds \in Nat \ {0}
    /\ Servers \cap (Restores \cup Copiers) = {} /\ Restores \cap Copiers = {}

VARIABLES pidFile,  \* the process named in the pid file
          at, logAt,\* the database at each path, and whose log lies beside it
          files,    \* the databases there have been
          archive,  \* the backup archive
          cmd,      \* each process
          now,      \* the second of the clock
          writes,   \* history: the writes a server has acknowledged
          mishaps,  \* history: what excuses a loss, by name
          alone,    \* history: the server that runs without another
          under     \* history: servers an unforced restore did not see

backupVars == <<pidFile, at, logAt, files, archive, cmd, now, writes, mishaps, alone, under>>

Nobody  == "nobody"
Seconds == 1 .. MaxSeconds
Paths   == {0} \cup Seconds   \* 0: styr.db; n: styr.db.bak-<n>
NoFile  == 0
Empty   == 0 - 1              \* the schema version of a file with nothing in it
EmptyFile == [main |-> {}, log |-> {}, version |-> Empty, mixed |-> FALSE]
NoArchive == [whole |-> FALSE, data |-> {}, version |-> 0, manifest |-> 0]
Fresh   == [pc |-> "none", file |-> NoFile, copy |-> NoArchive, aside |-> 0]
Mishaps == {"second", "raced", "crashed", "reused", "log"}

\* The pid file, the directory, the archive and the processes have their types.
BackupsTypeOK ==
    /\ pidFile \in Servers \cup {Nobody}
    /\ at \in [Paths -> 0 .. Len(files)] /\ logAt \in [Paths -> 0 .. Len(files)]
    /\ \A i \in 1 .. Len(files) :
          /\ files[i].main \subseteq 1 .. MaxWrites /\ files[i].log \subseteq 1 .. MaxWrites
          /\ files[i].version \in Nat \cup {Empty} /\ files[i].mixed \in BOOLEAN
    /\ \A p \in Procs :
          /\ cmd[p].pc \in {"none", "pid", "open", "listen", "up", "stopping", "migrated", "unpid",
                             "extract", "check", "aside", "log", "install", "migrate",
                             "source", "version", "bare", "copied", "create", "finish", "over"}
          /\ cmd[p].file \in 0 .. Len(files) /\ cmd[p].aside \in Paths
    /\ now \in Seconds /\ writes \subseteq 1 .. MaxWrites
    /\ mishaps \subseteq Mishaps /\ alone \subseteq Servers /\ under \subseteq Restores \X Servers

BackupsInit ==
    /\ pidFile = Nobody /\ now = 1
    /\ archive \in {NoArchive, [whole |-> TRUE, data |-> {}, version |-> 1, manifest |-> 1]}
    /\ files = <<[main |-> {}, log |-> {}, version |-> 1, mixed |-> FALSE]>>
    /\ at = [p \in Paths |-> IF p = 0 THEN 1 ELSE NoFile] /\ logAt = [p \in Paths |-> NoFile]
    /\ cmd = [p \in Procs |-> Fresh]
    /\ writes = {} /\ mishaps = {} /\ alone = {} /\ under = {}

-----------------------------------------------------------------------------
Is(p, pc)     == cmd[p].pc = pc
Proceeds(p, pc) ==
    cmd' = [cmd EXCEPT ![p] = IF pc = "over" THEN [Fresh EXCEPT !.pc = pc] ELSE [@ EXCEPT !.pc = pc]]
Alive(p)      == p \in Procs /\ cmd[p].pc \notin {"none", "over"}
HasOpen(p)    == cmd[p].pc \in {"listen", "up", "stopping", "migrated", "version", "copied"}
OpenOf(i)     == {p \in Procs : HasOpen(p) /\ cmd[p].file = i}
Mishap(what, happened) == mishaps' = IF happened THEN mishaps \cup {what} ELSE mishaps
\* styr.db is used between the two renames of a restore, or after a kill there.
Between == (IF \E r \in Restores : Is(r, "log") THEN {"raced"} ELSE {})
             \cup (IF "crashed" \in mishaps THEN {"reused"} ELSE {})

\* SQLite opens styr.db: it is made if there is none, and the log beside it is
\* applied whosever it is, but deleted if the file is empty.
ToOpen == IF at[0] = NoFile THEN Len(files) + 1 ELSE at[0]
Opened(fs, i, version) ==
    [fs EXCEPT ![i] = [main |-> @.main, log |-> IF logAt[0] = i THEN @.log ELSE {},
                       version |-> IF @.version < version THEN version ELSE @.version,
                       mixed |-> @.mixed \/ (@.version # Empty /\ logAt[0] \notin {NoFile, i})]]
OpenFile(version) ==
    /\ files' = Opened(IF at[0] = NoFile THEN Append(files, EmptyFile) ELSE files, ToOpen, version)
    /\ at' = [at EXCEPT ![0] = ToOpen]
    /\ mishaps' = mishaps \cup Between
\* db.Open: pending migrations run.
OpenDB(p, then) ==
    /\ OpenFile(Binary[p]) /\ logAt' = [logAt EXCEPT ![0] = ToOpen]
    /\ cmd' = [cmd EXCEPT ![p].pc = then, ![p].file = ToOpen]
\* Close, by the last that has it open: the log goes into the database and the
\* file of that name away.
CloseDB(p, then) ==
    LET i == cmd[p].file
    IN  /\ IF OpenOf(i) \subseteq {p}
           THEN /\ files' = [files EXCEPT ![i] = [main |-> @.main \cup @.log, log |-> {},
                                                version |-> @.version, mixed |-> @.mixed]]
                /\ logAt' = [logAt EXCEPT ![0] = NoFile]
           ELSE UNCHANGED <<files, logAt>>
        /\ Proceeds(p, then)

-----------------------------------------------------------------------------
(* serve. *)

writePIDFile(s) ==
    /\ Is(s, "none") /\ pidFile' = s /\ Proceeds(s, "open")
    /\ alone' = IF \E t \in Servers : Alive(t) THEN {} ELSE {s}
    /\ UNCHANGED <<at, logAt, files, archive, now, writes, mishaps, under>>
\* Opening may fail, and the pid file goes again.
ServeOpen(s) ==
    /\ Is(s, "open")
    /\ OpenDB(s, "listen") \/ (Proceeds(s, "unpid") /\ UNCHANGED <<at, logAt, files, mishaps>>)
    /\ UNCHANGED <<pidFile, archive, now, writes, alone, under>>
\* The address may be taken, as it is by another server.
Listen(s) ==
    /\ Is(s, "listen")
    /\ \/ Proceeds(s, "up") /\ \A t \in Servers : cmd[t].pc # "up"
       \/ Proceeds(s, "stopping")
    /\ UNCHANGED <<pidFile, at, logAt, files, archive, now, writes, mishaps, alone, under>>
\* A request that writes, and is answered.
Serve(s) ==
    /\ Is(s, "up") /\ Cardinality(writes) < MaxWrites
    /\ LET w == Cardinality(writes) + 1
       IN  writes' = writes \cup {w} /\ files' = [files EXCEPT ![cmd[s].file].log = @ \cup {w}]
    /\ UNCHANGED <<pidFile, at, logAt, archive, cmd, now, mishaps, alone, under>>
\* Mutant: the pid file goes before the database is closed.
SignalRemovesFile(s) ==
    /\ Is(s, "up") /\ Proceeds(s, "stopping") /\ pidFile' = Nobody
    /\ UNCHANGED <<at, logAt, files, archive, now, writes, mishaps, alone, under>>
Signal(s) ==
    /\ Is(s, "up") /\ Proceeds(s, "stopping")
    /\ UNCHANGED <<pidFile, at, logAt, files, archive, now, writes, mishaps, alone, under>>
\* The deferred calls, last first: the database is closed, then the pid file
\* removed, whoever it names.
ServeCloses(s) ==
    /\ Is(s, "stopping") /\ CloseDB(s, "unpid")
    /\ UNCHANGED <<pidFile, at, archive, now, writes, mishaps, alone, under>>
removePIDFile(s) ==
    /\ Is(s, "unpid") /\ pidFile' = Nobody /\ Proceeds(s, "over")
    /\ UNCHANGED <<at, logAt, files, archive, now, writes, mishaps, alone, under>>

-----------------------------------------------------------------------------
(* backup. *)

\* There must be a database.
StatSource(b) ==
    /\ Is(b, "none") /\ Proceeds(b, IF at[0] = NoFile THEN "over" ELSE "source")
    /\ UNCHANGED <<pidFile, at, logAt, files, archive, now, writes, mishaps, alone, under>>
\* VACUUM INTO, the first use of the connection: it opens what is there by then,
\* without migrating it, and copies it with its log in one transaction.  Of an
\* empty file the connection keeps nothing open.
vacuumBackup(b) ==
    /\ Is(b, "source") /\ OpenFile(Empty)
    /\ LET d == files'[ToOpen]
       IN  \/ /\ d.version = Empty /\ logAt' = [logAt EXCEPT ![0] = NoFile]
              /\ cmd' = [cmd EXCEPT ![b].pc = "bare"]
           \/ /\ d.version # Empty /\ logAt' = [logAt EXCEPT ![0] = ToOpen]
              /\ cmd' = [cmd EXCEPT ![b].pc = "version", ![b].file = ToOpen,
                                      ![b].copy = [NoArchive EXCEPT !.data = d.main \cup d.log,
                                                                    !.version = d.version]]
    /\ UNCHANGED <<pidFile, archive, now, writes, alone, under>>
\* Mutant: the version of the database in use.
VersionOfSource(b) ==
    /\ cmd[b].pc \in {"version", "bare"}
    /\ cmd' = [cmd EXCEPT ![b].pc = IF Is(b, "bare") THEN "create" ELSE "copied",
                            ![b].copy.manifest = IF at[0] = NoFile THEN 0 ELSE files[at[0]].version]
    /\ UNCHANGED <<pidFile, at, logAt, files, archive, now, writes, mishaps, alone, under>>
\* The manifest tells the schema version of the copy.
Version(b) ==
    /\ cmd[b].pc \in {"version", "bare"}
    /\ cmd' = [cmd EXCEPT ![b].pc = IF Is(b, "bare") THEN "create" ELSE "copied",
                            ![b].copy.manifest = cmd[b].copy.version]
    /\ UNCHANGED <<pidFile, at, logAt, files, archive, now, writes, mishaps, alone, under>>
\* The deferred Close; what failed before ends the command here.
BackupCloses(b) ==
    /\ Is(b, "copied") /\ \E then \in {"create", "over"} : CloseDB(b, then)
    /\ UNCHANGED <<pidFile, at, archive, now, writes, mishaps, alone, under>>
\* The archive is written in place: until it is whole, it is no archive.
writeBackupArchive(b) ==
    /\ \/ Is(b, "create") /\ archive' = NoArchive /\ Proceeds(b, "finish")
       \/ /\ Is(b, "finish") /\ Proceeds(b, "over")
          /\ archive' = [cmd[b].copy EXCEPT !.whole = TRUE]
    /\ UNCHANGED <<pidFile, at, logAt, files, now, writes, mishaps, alone, under>>

-----------------------------------------------------------------------------
(* restore. *)

\* The pid file names a live process.
serverRunning == Alive(pidFile)
\* A server that has the database open and that the look misses is on record,
\* unless it and another serve have overlapped.
Missed(r) == {r} \X {s \in alone : HasOpen(s)}
runRestore(r, force) ==
    /\ Is(r, "none")
    /\ IF force \/ ~serverRunning
       THEN Proceeds(r, "extract") ELSE Proceeds(r, "over")
    /\ under' = under \cup (IF force \/ serverRunning THEN {} ELSE Missed(r))
    /\ UNCHANGED <<pidFile, at, logAt, files, archive, now, writes, mishaps, alone>>
\* Into a temporary file, from a whole archive only.
extractBackupArchive(r) ==
    /\ Is(r, "extract")
    /\ IF ~archive.whole THEN Proceeds(r, "over") /\ UNCHANGED files
       ELSE /\ files' = Append(files, [main |-> archive.data, log |-> {},
                                       version |-> archive.version, mixed |-> FALSE])
            /\ cmd' = [cmd EXCEPT ![r].pc = "check", ![r].file = Len(files'), ![r].copy = archive]
    /\ UNCHANGED <<pidFile, at, logAt, archive, now, writes, mishaps, alone, under>>
\* Mutant: any schema version is accepted.
CheckVersionNever(r) ==
    /\ Is(r, "check") /\ Proceeds(r, "aside")
    /\ UNCHANGED <<pidFile, at, logAt, files, archive, now, writes, mishaps, alone, under>>
CheckVersion(r) ==
    /\ Is(r, "check")
    /\ Proceeds(r, IF cmd[r].copy.manifest > Binary[r] THEN "over" ELSE "aside")
    /\ UNCHANGED <<pidFile, at, logAt, files, archive, now, writes, mishaps, alone, under>>

\* A process has the database open, or another restore has yet to move its log.
Raced(r) == OpenOf(at[0]) # {} \/ \E q \in Restores \ {r} : Is(q, "log")
\* Mutant: the database there is goes.
AsideRemoves(r) ==
    /\ Is(r, "aside") /\ at' = [at EXCEPT ![0] = NoFile] /\ Mishap("raced", Raced(r))
    /\ cmd' = [cmd EXCEPT ![r].pc = "log", ![r].aside = now]
    /\ UNCHANGED <<pidFile, logAt, files, archive, now, writes, alone, under>>
\* replaceDatabase: the database there is gets the name of the second.  That it
\* raced, or takes the name of a database kept in the same second, is on record.
Aside(r) ==
    /\ Is(r, "aside")
    /\ IF at[0] = NoFile
       THEN Proceeds(r, "install") /\ UNCHANGED <<at, mishaps>>
       ELSE /\ at' = [at EXCEPT ![now] = at[0], ![0] = NoFile]
            /\ cmd' = [cmd EXCEPT ![r].pc = "log", ![r].aside = now]
            /\ mishaps' = mishaps \cup (IF at[now] # NoFile THEN {"second"} ELSE {})
                                  \cup (IF Raced(r) THEN {"raced"} ELSE {})
    /\ UNCHANGED <<pidFile, logAt, files, archive, now, writes, alone, under>>
\* Mutant: the log stays where it is.
AsideLogStays(r) ==
    /\ Is(r, "log") /\ Proceeds(r, "install")
    /\ UNCHANGED <<pidFile, at, logAt, files, archive, now, writes, mishaps, alone, under>>
\* Its log goes with it; that it could not is ignored.
AsideLog(r) ==
    /\ Is(r, "log") /\ Proceeds(r, "install")
    /\ \/ logAt[0] = NoFile /\ UNCHANGED <<logAt, mishaps>>
       \/ /\ logAt[0] # NoFile /\ UNCHANGED mishaps
          /\ logAt' = [logAt EXCEPT ![cmd[r].aside] = logAt[0], ![0] = NoFile]
       \/ logAt[0] # NoFile /\ Mishap("log", TRUE) /\ UNCHANGED logAt
    /\ UNCHANGED <<pidFile, at, files, archive, now, writes, alone, under>>
\* Over whatever a server has made in the meantime.
Install(r) ==
    /\ Is(r, "install") /\ Proceeds(r, "migrate")
    /\ at' = [at EXCEPT ![0] = cmd[r].file]
    /\ mishaps' = mishaps \cup Between \cup (IF at[0] # NoFile THEN {"raced"} ELSE {})
    /\ UNCHANGED <<pidFile, logAt, files, archive, now, writes, alone, under>>
\* db.Open of the path, and Close.
Migrate(r) ==
    /\ Is(r, "migrate") /\ OpenDB(r, "migrated")
    /\ UNCHANGED <<pidFile, archive, now, writes, alone, under>>
RestoreCloses(r) ==
    /\ Is(r, "migrated") /\ CloseDB(r, "over")
    /\ UNCHANGED <<pidFile, at, archive, now, writes, mishaps, alone, under>>

\* A process is killed; between the two renames that is on record.
Killed(p) ==
    /\ Alive(p) /\ Proceeds(p, "over") /\ Mishap("crashed", Is(p, "log"))
    /\ UNCHANGED <<pidFile, at, logAt, files, archive, now, writes, alone, under>>
SecondPasses ==
    /\ now < MaxSeconds /\ now' = now + 1
    /\ UNCHANGED <<pidFile, at, logAt, files, archive, cmd, writes, mishaps, alone, under>>

-----------------------------------------------------------------------------
ServeStep(s) == \/ writePIDFile(s) \/ ServeOpen(s) \/ Listen(s) \/ Serve(s) \/ Signal(s)
                \/ ServeCloses(s) \/ removePIDFile(s)
RestoreStep(r) == \/ \E force \in BOOLEAN : runRestore(r, force)
                  \/ extractBackupArchive(r) \/ CheckVersion(r) \/ Aside(r) \/ AsideLog(r)
                  \/ Install(r) \/ Migrate(r) \/ RestoreCloses(r)
BackupsNext ==
    \/ \E s \in Servers : ServeStep(s)
    \/ \E r \in Restores : RestoreStep(r)
    \/ \E b \in Copiers : \/ StatSource(b) \/ vacuumBackup(b) \/ Version(b) \/ BackupCloses(b)
                          \/ writeBackupArchive(b)
    \/ \E p \in Procs : Killed(p)
    \/ SecondPasses
BackupsSpec == BackupsInit /\ [][BackupsNext]_backupVars

-----------------------------------------------------------------------------
(* Properties. *)

\* What the files at a path still tell: the database and its log, which is
\* beside it, or still beside the name styr.db that no file has.
Recoverable(p) ==
    files[at[p]].main \cup
    (IF logAt[p] = at[p] \/ (at[0] = NoFile /\ logAt[0] = at[p]) THEN files[at[p]].log ELSE {})

\* A bad restore is recoverable: in every state, whichever of the processes was
\* killed, every write a server has acknowledged is in styr.db or in a database
\* a restore has kept, with its log.  After a kill between the two renames this
\* ends when styr.db is next used.  The other exceptions: two restores in one
\* second; a restore under a server (forced, or started after the look) or a
\* backup; whoever opens or installs styr.db between the two renames of a restore,
\* or makes it before the restored one is there; and a log that cannot be renamed.
KeptAside ==
    mishaps \subseteq {"crashed"} =>
        \A w \in writes : \E p \in Paths : at[p] # NoFile /\ w \in Recoverable(p)

\* No database is opened with the log of another: a server that was killed
\* leaves its log behind, and a restore must not leave it beside the new file.
\* The same exceptions.
NeverMixed == mishaps \subseteq {"crashed"} => \A i \in 1 .. Len(files) : ~files[i].mixed

\* A restore that was not forced does not take a data directory for free while
\* a server has its database open, from before it is opened until after it is
\* closed, although a server before it was killed and has left its pid file.
\* Two serves that overlap are the exception: the first to end removes the pid
\* file of the other.
ServerIsSeen == under = {}

\* The manifest of an archive tells the schema version of the database in it,
\* although a newer server may migrate the one in use meanwhile.
ManifestTells == archive.whole => archive.manifest = archive.version

\* What a restore is about to install is not newer than the binary that runs it.
NotNewer ==
    \A r \in Restores : cmd[r].pc \in {"aside", "log", "install"} =>
        files[cmd[r].file].version <= Binary[r]

\* A backup can be trusted and a restore can be undone: the manifest is true,
\* nothing newer is installed, and what was there before is kept whole
\* (vacuumBackup, runRestore, replaceDatabase).
RestoreOK == BackupsTypeOK /\ KeptAside /\ NeverMixed /\ ManifestTells /\ NotNewer
=============================================================================
