----------------------------- MODULE Checkpoint -----------------------------
(***************************************************************************)
(* .matryca_daemon_state.json and its .bak: saved by the daemon and by the *)
(* stop command (save_daemon_state), read by them, the UI, the MCP server  *)
(* and the command line (load_daemon_state, read_daemon_checkpoint).       *)
(* A content is the number of the save that wrote it.  The backup copy and *)
(* a reader's restore are written in place: opening the target truncates   *)
(* it.  The primary is replaced by a new file, so an old one that somebody *)
(* has open is another file than the one the path names.                   *)
(***************************************************************************)
EXTENDS Naturals, FiniteSets

CONSTANTS Procs,      \* processes
          Savers,     \* those that save
          ReadOnly,   \* those under the read-only policy
          Inodes,     \* files the primary's path may name in turn
          MaxSaves,   \* bound on the saves
          MaxFaults,  \* bound on the files damaged from outside
          MaxCuts,    \* bound on the copies cut short by a crash or an error
          None, Torn, Absent

ASSUME ProcsAssumption == Savers \subseteq Procs /\ ReadOnly \subseteq Procs
ASSUME BoundsAssumption == MaxSaves \in Nat /\ MaxFaults \in Nat /\ MaxCuts \in Nat
ASSUME ValuesAssumption == /\ None \notin Procs /\ None \notin Inodes
                           /\ Torn \notin Nat /\ Absent \notin Nat /\ Torn # Absent

VARIABLES primary,    \* the file the primary's path names, or None
          data,       \* contents of each file
          bak,        \* contents of the backup
          flock,      \* holder of the sidecar flock
          pc,         \* where each process is
          got,        \* what its last load returned
          fd,         \* the file it has open for a copy
          saves, faults, cuts, \* counters of replaced primaries, damaged files, cut copies
          backed,     \* newest content whose backup copy was completed
          overlapped  \* a save ran beside a recovery, or beside the damage

vars == <<primary, data, bak, flock, pc, got, fd, saves, faults, cuts, backed, overlapped>>

Fresh == 0
Content == 0..MaxSaves
Readable(c) == c \notin {Torn, Absent}

Saving(l) == l \in {"save", "replaced", "copying"}
Recovering(l) == l \in {"retry", "bak", "bakRetry", "restore", "restoring"}

PrimaryContent == IF primary = None THEN Absent ELSE data[primary]

\* What a load would return that runs alone now.
Loadable == IF Readable(PrimaryContent) THEN PrimaryContent
            ELSE IF Readable(bak) THEN bak ELSE Fresh

FreeInodes == {i \in Inodes : i # primary /\ \A p \in Procs : fd[p] # i}

Files == <<primary, data, bak>>
Ghosts == <<saves, faults, cuts, backed>>

\* One process goes on, and the history notes a save beside a recovery.
Goto(p, l) ==
    /\ pc' = [pc EXCEPT ![p] = l]
    /\ overlapped' = (overlapped \/ \E q, r \in Procs : /\ q # r
                                                        /\ Saving(pc'[q])
                                                        /\ Recovering(pc'[r]))

Init == /\ primary = None
        /\ data = [i \in Inodes |-> Torn]
        /\ bak = Absent
        /\ flock = None
        /\ pc = [p \in Procs |-> "idle"]
        /\ got = [p \in Procs |-> Fresh]
        /\ fd = [p \in Procs |-> None]
        /\ saves = 0 /\ faults = 0 /\ cuts = 0
        /\ backed = Fresh
        /\ overlapped = FALSE

(***************************************************************************)
(* load_daemon_state and read_daemon_checkpoint                            *)
(***************************************************************************)
Return(p, c) == got' = [got EXCEPT ![p] = c] /\ Goto(p, "idle")

\* Neither file is readable: the state is reset.
GiveUp(p) == Return(p, Fresh)

\* A mutant: the load prefers the backup.
ReadBackupFirst(p) ==
    /\ pc[p] = "idle"
    /\ Return(p, IF Readable(bak) THEN bak
                 ELSE IF Readable(PrimaryContent) THEN PrimaryContent ELSE Fresh)
    /\ UNCHANGED <<Files, flock, fd, Ghosts>>

\* is_file() of both paths and the first attempt at the primary.
ReadPrimary(p) ==
    /\ pc[p] = "idle"
    /\ \/ Readable(PrimaryContent) /\ Return(p, PrimaryContent)
       \/ PrimaryContent = Torn /\ Goto(p, "retry") /\ UNCHANGED got
       \/ PrimaryContent = Absent /\ bak # Absent /\ Goto(p, "bak") /\ UNCHANGED got
       \/ PrimaryContent = Absent /\ bak = Absent /\ GiveUp(p)
    /\ UNCHANGED <<Files, flock, fd, Ghosts>>

\* A mutant: an unreadable primary resets the state.
RetryThenReset(p) ==
    /\ pc[p] = "retry"
    /\ Return(p, IF Readable(PrimaryContent) THEN PrimaryContent ELSE Fresh)
    /\ UNCHANGED <<Files, flock, fd, Ghosts>>

RetryPrimary(p) ==
    /\ pc[p] = "retry"
    /\ \/ Readable(PrimaryContent) /\ Return(p, PrimaryContent)
       \/ ~Readable(PrimaryContent) /\ bak # Absent /\ Goto(p, "bak") /\ UNCHANGED got
       \/ ~Readable(PrimaryContent) /\ bak = Absent /\ GiveUp(p)
    /\ UNCHANGED <<Files, flock, fd, Ghosts>>

\* The backup, tried twice; a process that may write goes on to restore the primary.
Recovered(p) == /\ got' = [got EXCEPT ![p] = bak]
                /\ Goto(p, IF p \in ReadOnly THEN "idle" ELSE "restore")

ReadBackup(p) ==
    /\ pc[p] = "bak"
    /\ IF Readable(bak) THEN Recovered(p) ELSE Goto(p, "bakRetry") /\ UNCHANGED got
    /\ UNCHANGED <<Files, flock, fd, Ghosts>>

RetryBackup(p) ==
    /\ pc[p] = "bakRetry"
    /\ IF Readable(bak) THEN Recovered(p) ELSE GiveUp(p)
    /\ UNCHANGED <<Files, flock, fd, Ghosts>>

\* shutil.copy2(bak, primary) without the flock: whatever file the path names now is
\* truncated, and gets what the backup holds when the copy reads it.
OpenRestore(p) ==
    /\ pc[p] = "restore"
    /\ \E i \in IF primary = None THEN FreeInodes ELSE {primary} :
          /\ primary' = i
          /\ data' = [data EXCEPT ![i] = Torn]
          /\ fd' = [fd EXCEPT ![p] = i]
    /\ Goto(p, "restoring")
    /\ UNCHANGED <<bak, flock, got, Ghosts>>

WriteRestore(p) ==
    /\ pc[p] = "restoring"
    /\ data' = [data EXCEPT ![fd[p]] = bak]
    /\ fd' = [fd EXCEPT ![p] = None]
    /\ Goto(p, "idle")
    /\ UNCHANGED <<primary, bak, flock, got, Ghosts>>

\* The restore fails with an OSError, which is logged; the payload is returned.
RestoreFails(p) ==
    /\ \/ pc[p] = "restore" /\ UNCHANGED cuts
       \/ pc[p] = "restoring" /\ cuts < MaxCuts /\ cuts' = cuts + 1
    /\ fd' = [fd EXCEPT ![p] = None]
    /\ Goto(p, "idle")
    /\ UNCHANGED <<Files, flock, got, saves, faults, backed>>

(***************************************************************************)
(* save_daemon_state                                                       *)
(***************************************************************************)
TakeFlock(p) ==
    /\ pc[p] = "idle" /\ p \in Savers \ ReadOnly
    /\ flock = None
    /\ flock' = p
    /\ Goto(p, "save")
    /\ UNCHANGED <<Files, got, fd, Ghosts>>

\* The temporary file, complete and synced, takes the primary's path.
Replace(p) ==
    /\ pc[p] = "save" /\ saves < MaxSaves
    /\ \E i \in FreeInodes : /\ primary' = i
                             /\ data' = [data EXCEPT ![i] = saves + 1]
    /\ saves' = saves + 1
    /\ Goto(p, "replaced")
    /\ UNCHANGED <<bak, flock, got, fd, faults, cuts, backed>>

\* The temporary file cannot be written: it is removed and the save raises.
SaveFails(p) ==
    /\ pc[p] = "save"
    /\ flock' = None
    /\ Goto(p, "idle")
    /\ UNCHANGED <<Files, got, fd, Ghosts>>

\* shutil.copy2(primary, bak) opens the primary and truncates the backup ...
OpenBackup(p) ==
    /\ pc[p] = "replaced" /\ primary # None
    /\ fd' = [fd EXCEPT ![p] = primary]
    /\ bak' = Torn
    /\ Goto(p, "copying")
    /\ UNCHANGED <<primary, data, flock, got, Ghosts>>

\* ... and copies what the opened file holds.
WriteBackup(p) ==
    /\ pc[p] = "copying"
    /\ bak' = data[fd[p]]
    /\ backed' = IF Readable(bak') THEN bak' ELSE backed
    /\ fd' = [fd EXCEPT ![p] = None]
    /\ flock' = None
    /\ Goto(p, "idle")
    /\ UNCHANGED <<primary, data, got, saves, faults, cuts>>

\* A mutant: a failed copy leaves the flock held.
BackupFailsHeld(p) ==
    /\ pc[p] = "copying" /\ cuts < MaxCuts
    /\ cuts' = cuts + 1
    /\ fd' = [fd EXCEPT ![p] = None]
    /\ Goto(p, "idle")
    /\ UNCHANGED <<Files, flock, got, saves, faults, backed>>

\* An OSError of the copy is logged; the save has succeeded.
BackupFails(p) ==
    /\ \/ pc[p] = "replaced" /\ UNCHANGED cuts
       \/ pc[p] = "copying" /\ cuts < MaxCuts /\ cuts' = cuts + 1
    /\ fd' = [fd EXCEPT ![p] = None]
    /\ flock' = None
    /\ Goto(p, "idle")
    /\ UNCHANGED <<Files, got, saves, faults, backed>>

(***************************************************************************)
(* A process is killed; a file is damaged from outside (a synchroniser, a  *)
(* power cut) or the primary is removed by hand                            *)
(***************************************************************************)
Crash(p) ==
    /\ pc[p] # "idle"
    /\ \/ pc[p] \notin {"restoring", "copying"} /\ UNCHANGED cuts
       \/ pc[p] \in {"restoring", "copying"} /\ cuts < MaxCuts /\ cuts' = cuts + 1
    /\ flock' = IF flock = p THEN None ELSE flock
    /\ fd' = [fd EXCEPT ![p] = None]
    /\ Goto(p, "idle")
    /\ UNCHANGED <<Files, got, saves, faults, backed>>

Damage ==
    /\ faults < MaxFaults
    /\ faults' = faults + 1
    /\ \/ primary # None /\ data' = [data EXCEPT ![primary] = Torn] /\ UNCHANGED <<primary, bak>>
       \/ primary # None /\ primary' = None /\ UNCHANGED <<data, bak>>
       \/ bak # Absent /\ bak' = Torn /\ UNCHANGED <<primary, data>>
    /\ overlapped' = (overlapped \/ flock # None)
    /\ UNCHANGED <<flock, pc, got, fd, saves, cuts, backed>>

LoadStep(p) == \/ ReadPrimary(p) \/ RetryPrimary(p) \/ ReadBackup(p) \/ RetryBackup(p)
               \/ OpenRestore(p) \/ WriteRestore(p) \/ RestoreFails(p)
SaveStep(p) == \/ TakeFlock(p) \/ Replace(p) \/ SaveFails(p)
               \/ OpenBackup(p) \/ WriteBackup(p) \/ BackupFails(p)

Next == \/ \E p \in Procs : LoadStep(p) \/ SaveStep(p) \/ Crash(p)
        \/ Damage

Spec == Init /\ [][Next]_vars

(***************************************************************************)
(* Properties                                                              *)
(***************************************************************************)

\* The types, and: the flock is held exactly by the process inside a save, and a process
\* has a file open exactly while it copies.
TypeOK ==
    /\ primary \in Inodes \cup {None}
    /\ data \in [Inodes -> Content \cup {Torn}]
    /\ bak \in Content \cup {Torn, Absent}
    /\ flock \in Procs \cup {None}
    /\ pc \in [Procs -> {"idle", "retry", "bak", "bakRetry", "restore", "restoring",
                         "save", "replaced", "copying"}]
    /\ got \in [Procs -> Content]
    /\ fd \in [Procs -> Inodes \cup {None}]
    /\ saves \in Content /\ faults \in 0..MaxFaults /\ cuts \in 0..MaxCuts
    /\ backed \in Content
    /\ overlapped \in BOOLEAN
    /\ \A p \in Procs : Saving(pc[p]) <=> flock = p
    /\ \A p \in Procs : pc[p] \in {"restoring", "copying"} <=> fd[p] # None

\* Until a file is damaged from outside, the checkpoint is an atomic register: each load,
\* in whatever process, returns the state of the last save that replaced the primary,
\* whatever crashes and failing copies came between, and no load changes it.
Register == INSTANCE CheckpointRegister WITH value <- Loadable, view <- got,
                                             intact <- (faults = 0)
ImplementsRegister == Register!Spec

\* One damaged file or one copy cut short costs at most the saves whose backup was never
\* completed: a load returns the newest state that has a backup, or a newer one, as long as
\* no save ran beside the damage or a recovery (load_daemon_state, save_daemon_state).
Returns(p) == /\ ReadPrimary(p) \/ RetryPrimary(p) \/ ReadBackup(p) \/ RetryBackup(p)
              /\ pc'[p] \in {"idle", "restore"}
OneMishapKeepsBackup ==
    [][\A p \in Procs : faults + cuts <= 1 /\ ~overlapped' /\ Returns(p)
                           => got'[p] >= backed]_vars

\* A load never takes back a state that was saved (daemon_checkpoint.py:1 calls its module
\* "Read-only daemon checkpoint access").
ReadersTakeNothingBack ==
    [][\A p \in Procs : LoadStep(p) => Loadable' >= Loadable]_vars
=============================================================================
