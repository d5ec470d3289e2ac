------------------------------- MODULE MCHost -------------------------------
(* What styr keeps on the disk of its host, for TLC: the directories of the  *)
(* workspaces, or the data directory.  Nothing that one part does touches    *)
(* the other, so a behaviour is one of the two.                              *)
(*   Workspaces: two names with one slug; threads are interchangeable.       *)
(*   Data directory: two servers, a backup and a restore, or two restores of *)
(*   an archive that is there; the second is of a newer binary.              *)
EXTENDS Workspaces, Backups, TLC

CONSTANTS n1, n2, d1, s1, s2, r1, r2, b1
OneSlug  == [n \in Names |-> d1]
MCBinary == [p \in Procs |-> IF p \in {s2, r2} THEN 2 ELSE 1]
Symmetry == Permutations(Threads)

VARIABLE part
HostInit == /\ part \in {"workspaces", "servers", "restores"}
            /\ WorkspacesInit /\ BackupsInit /\ archive.whole = (part = "restores")
HostNext ==
    /\ UNCHANGED part
    /\ \/ part = "workspaces" /\ WorkspacesNext /\ UNCHANGED backupVars
       \/ part = "servers" /\ BackupsNext /\ cmd'[r2] = cmd[r2] /\ UNCHANGED workspaceVars
       \/ /\ part = "restores" /\ BackupsNext /\ UNCHANGED workspaceVars
          /\ cmd'[s2] = cmd[s2] /\ cmd'[b1] = cmd[b1]
HostSpec == HostInit /\ [][HostNext]_<<workspaceVars, backupVars, part>>
=============================================================================
