-------------------------- MODULE CheckpointProofs --------------------------
(***************************************************************************)
(* Proofs about the daemon's checkpoint, for any processes, files and      *)
(* bounds: the types, the atomic register until a file is damaged, and     *)
(* what one damaged file or one copy cut short may cost.                   *)
(***************************************************************************)
EXTENDS Checkpoint, TLAPS

-----------------------------------------------------------------------------
(* Types *)

\* A process restores from a backup that exists.
HasBackup == \A p \in Procs : pc[p] \in {"restore", "restoring"} => bak # Absent

TypeInv == TypeOK /\ HasBackup

\* The types hold before anything runs.
LEMMA TypeInit == Init => TypeInv
<1> SUFFICES ASSUME Init PROVE TypeInv
  OBVIOUS
<1>1. pc \in [Procs -> {"idle", "retry", "bak", "bakRetry", "restore", "restoring",
                       "save", "replaced", "copying"}]
  BY DEF Init
<1>2. /\ data \in [Inodes -> Content \cup {Torn}] /\ got \in [Procs -> Content]
      /\ saves \in Content /\ faults \in 0..MaxFaults /\ cuts \in 0..MaxCuts
      /\ backed \in Content
  BY BoundsAssumption DEF Init, Fresh, Content
<1>3. \A p \in Procs : ~Saving(pc[p]) /\ flock # p
  BY ValuesAssumption DEF Init, Saving
<1>4. \A p \in Procs : pc[p] = "idle" /\ fd[p] = None
  BY DEF Init
<1>5. fd \in [Procs -> Inodes \cup {None}] /\ overlapped \in BOOLEAN
  BY DEF Init
<1> QED BY <1>1, <1>2, <1>3, <1>4, <1>5 DEF Init, TypeInv, TypeOK, HasBackup

\* Where a process may go.
Labels == {"idle", "retry", "bak", "bakRetry", "restore", "restoring",
           "save", "replaced", "copying"}

\* A step to a label keeps the types of the program counters and of the history.
LEMMA GotoTyped ==
    ASSUME TypeOK, NEW p \in Procs, NEW l \in Labels, Goto(p, l)
    PROVE  /\ pc' \in [Procs -> Labels] /\ pc'[p] = l
           /\ \A q \in Procs : q # p => pc'[q] = pc[q]
           /\ overlapped' \in BOOLEAN
<1>1. pc \in [Procs -> Labels] /\ overlapped \in BOOLEAN
  BY DEF TypeOK, Labels
<1>2. pc' = [pc EXCEPT ![p] = l]
  BY DEF Goto
<1>3. overlapped' \in BOOLEAN
  BY <1>1, Zenon DEF Goto
<1> QED BY <1>1, <1>2, <1>3

\* What is on the primary's path is a content, or damaged, or not there.
LEMMA PrimaryTyped ==
    ASSUME TypeOK
    PROVE  /\ PrimaryContent \in Content \cup {Torn, Absent}
           /\ Readable(PrimaryContent) => PrimaryContent \in Content
           /\ Readable(bak) => bak \in Content
BY DEF TypeOK, PrimaryContent, Readable

\* A load's step that leaves the files alone.
LEMMA QuietLoad ==
    ASSUME TypeOK, NEW p \in Procs, NEW l \in {"idle", "retry", "bak", "bakRetry", "restore"},
           Goto(p, l), pc[p] \in {"idle", "retry", "bak", "bakRetry"},
           got' \in [Procs -> Content], UNCHANGED <<Files, flock, fd, Ghosts>>
    PROVE  TypeOK'
<1>1. l \in Labels
  BY DEF Labels
<1>2. /\ pc' \in [Procs -> Labels] /\ pc'[p] = l
      /\ \A q \in Procs : q # p => pc'[q] = pc[q]
      /\ overlapped' \in BOOLEAN
  BY <1>1, GotoTyped
<1>3. \A q \in Procs : (Saving(pc'[q]) <=> flock' = q) /\ (pc'[q] \in {"restoring", "copying"} <=> fd'[q] # None)
  <2> TAKE q \in Procs
  <2>1. (Saving(pc[q]) <=> flock = q) /\ (pc[q] \in {"restoring", "copying"} <=> fd[q] # None)
    BY DEF TypeOK
  <2>2. CASE q = p
    BY <1>2, <2>1, <2>2 DEF Saving
  <2> QED BY <1>2, <2>1, <2>2
<1> QED BY <1>2, <1>3 DEF TypeOK, Labels, Files, Ghosts

\* What a load returns is a content.
LEMMA ReturnTyped ==
    ASSUME TypeOK, NEW p \in Procs, NEW c \in Content, got' = [got EXCEPT ![p] = c]
    PROVE  got' \in [Procs -> Content]
BY DEF TypeOK

LEMMA FreshTyped == Fresh \in Content
BY BoundsAssumption DEF Fresh, Content

\* A load's step keeps the types.
LEMMA TypeLoad ==
    ASSUME TypeInv, NEW p \in Procs, LoadStep(p)
    PROVE  TypeOK'
<1> USE PrimaryTyped, ReturnTyped, FreshTyped
<1>a. TypeOK /\ HasBackup
  BY DEF TypeInv
<1>0. got \in [Procs -> Content]
  BY <1>a DEF TypeOK
<1>1. CASE ReadPrimary(p)
  <2>1. CASE Readable(PrimaryContent) /\ Return(p, PrimaryContent)
    <3>1. Goto(p, "idle") /\ got' \in [Procs -> Content]
      BY <1>a, <2>1 DEF Return
    <3> QED BY <1>a, <1>1, <3>1, QuietLoad DEF ReadPrimary
  <2>2. CASE Goto(p, "retry") /\ UNCHANGED got
    BY <1>a, <1>0, <1>1, <2>2, QuietLoad DEF ReadPrimary
  <2>3. CASE Goto(p, "bak") /\ UNCHANGED got
    BY <1>a, <1>0, <1>1, <2>3, QuietLoad DEF ReadPrimary
  <2>4. CASE GiveUp(p)
    <3>1. Goto(p, "idle") /\ got' \in [Procs -> Content]
      BY <1>a, <2>4 DEF Return, GiveUp
    <3> QED BY <1>a, <1>1, <3>1, QuietLoad DEF ReadPrimary
  <2> QED BY <1>a, <1>1, <2>1, <2>2, <2>3, <2>4 DEF ReadPrimary
<1>2. CASE RetryPrimary(p)
  <2>1. CASE Readable(PrimaryContent) /\ Return(p, PrimaryContent)
    <3>1. Goto(p, "idle") /\ got' \in [Procs -> Content]
      BY <1>a, <2>1 DEF Return
    <3> QED BY <1>a, <1>2, <3>1, QuietLoad DEF RetryPrimary
  <2>2. CASE Goto(p, "bak") /\ UNCHANGED got
    BY <1>a, <1>0, <1>2, <2>2, QuietLoad DEF RetryPrimary
  <2>3. CASE GiveUp(p)
    <3>1. Goto(p, "idle") /\ got' \in [Procs -> Content]
      BY <1>a, <2>3 DEF Return, GiveUp
    <3> QED BY <1>a, <1>2, <3>1, QuietLoad DEF RetryPrimary
  <2> QED BY <1>a, <1>2, <2>1, <2>2, <2>3 DEF RetryPrimary
<1>3. ASSUME Recovered(p), Readable(bak), pc[p] \in {"bak", "bakRetry"},
             UNCHANGED <<Files, flock, fd, Ghosts>>
      PROVE  TypeOK'
  <2>1. got' \in [Procs -> Content]
    BY <1>a, <1>3 DEF Recovered
  <2>2. CASE p \in ReadOnly
    BY <1>a, <1>3, <2>1, <2>2, QuietLoad DEF Recovered
  <2>3. CASE p \notin ReadOnly
    BY <1>a, <1>3, <2>1, <2>3, QuietLoad DEF Recovered
  <2> QED BY <2>2, <2>3
<1>4. CASE ReadBackup(p)
  <2>1. CASE Readable(bak)
    BY <1>a, <1>3, <1>4, <2>1 DEF ReadBackup
  <2>2. CASE ~Readable(bak)
    BY <1>a, <1>0, <1>4, <2>2, QuietLoad DEF ReadBackup
  <2> QED BY <2>1, <2>2
<1>5. CASE RetryBackup(p)
  <2>1. CASE Readable(bak)
    BY <1>a, <1>3, <1>5, <2>1 DEF RetryBackup
  <2>2. CASE ~Readable(bak)
    <3>1. Goto(p, "idle") /\ got' \in [Procs -> Content]
      BY <1>a, <1>5, <2>2 DEF RetryBackup, Return, GiveUp
    <3> QED BY <1>a, <1>5, <3>1, QuietLoad DEF RetryBackup
  <2> QED BY <2>1, <2>2
<1>6. CASE OpenRestore(p)
  <2>1. /\ pc' \in [Procs -> Labels] /\ pc'[p] = "restoring"
        /\ \A q \in Procs : q # p => pc'[q] = pc[q]
        /\ overlapped' \in BOOLEAN
    BY <1>a, <1>6, GotoTyped DEF OpenRestore, Labels
  <2>2. PICK i \in Inodes : /\ primary' = i /\ data' = [data EXCEPT ![i] = Torn]
                            /\ fd' = [fd EXCEPT ![p] = i]
    BY <1>a, <1>6 DEF OpenRestore, FreeInodes, TypeOK
  <2>3. \A q \in Procs : (Saving(pc'[q]) <=> flock' = q) /\ (pc'[q] \in {"restoring", "copying"} <=> fd'[q] # None)
    BY <1>a, <1>6, <2>1, <2>2, ValuesAssumption DEF OpenRestore, TypeOK, Saving
  <2> QED BY <1>a, <1>6, <2>1, <2>2, <2>3 DEF OpenRestore, TypeOK, Labels, Ghosts
<1>7. CASE WriteRestore(p)
  <2>1. /\ pc' \in [Procs -> Labels] /\ pc'[p] = "idle"
        /\ \A q \in Procs : q # p => pc'[q] = pc[q]
        /\ overlapped' \in BOOLEAN
    BY <1>a, <1>7, GotoTyped DEF WriteRestore, Labels
  <2>2. \A q \in Procs : (Saving(pc'[q]) <=> flock' = q) /\ (pc'[q] \in {"restoring", "copying"} <=> fd'[q] # None)
    BY <1>a, <1>7, <2>1 DEF WriteRestore, TypeOK, Saving
  <2>3. data' \in [Inodes -> Content \cup {Torn}]
    BY <1>a, <1>7 DEF WriteRestore, TypeOK, HasBackup
  <2> QED BY <1>a, <1>7, <2>1, <2>2, <2>3 DEF WriteRestore, TypeOK, Labels, Ghosts
<1>8. CASE RestoreFails(p)
  <2>1. /\ pc' \in [Procs -> Labels] /\ pc'[p] = "idle"
        /\ \A q \in Procs : q # p => pc'[q] = pc[q]
        /\ overlapped' \in BOOLEAN
    BY <1>a, <1>8, GotoTyped DEF RestoreFails, Labels
  <2>2. \A q \in Procs : (Saving(pc'[q]) <=> flock' = q) /\ (pc'[q] \in {"restoring", "copying"} <=> fd'[q] # None)
    BY <1>a, <1>8, <2>1 DEF RestoreFails, TypeOK, Saving
  <2>3. cuts' \in 0..MaxCuts
    BY <1>a, <1>8, BoundsAssumption DEF RestoreFails, TypeOK
  <2> QED BY <1>a, <1>8, <2>1, <2>2, <2>3 DEF RestoreFails, TypeOK, Labels, Files
<1> QED BY <1>1, <1>2, <1>4, <1>5, <1>6, <1>7, <1>8 DEF LoadStep

\* A save's step keeps the types.
LEMMA TypeSave ==
    ASSUME TypeOK, NEW p \in Procs, SaveStep(p)
    PROVE  TypeOK'
<1>1. CASE TakeFlock(p)
  <2>1. /\ pc' \in [Procs -> Labels] /\ pc'[p] = "save"
        /\ \A q \in Procs : q # p => pc'[q] = pc[q]
        /\ overlapped' \in BOOLEAN
    BY <1>1, GotoTyped DEF TakeFlock, Labels
  <2>2. \A q \in Procs : (Saving(pc'[q]) <=> flock' = q) /\ (pc'[q] \in {"restoring", "copying"} <=> fd'[q] # None)
    BY <1>1, <2>1, ValuesAssumption DEF TakeFlock, TypeOK, Saving
  <2> QED BY <1>1, <2>1, <2>2 DEF TakeFlock, TypeOK, Labels, Files, Ghosts
<1>2. CASE Replace(p)
  <2>1. /\ pc' \in [Procs -> Labels] /\ pc'[p] = "replaced"
        /\ \A q \in Procs : q # p => pc'[q] = pc[q]
        /\ overlapped' \in BOOLEAN
    BY <1>2, GotoTyped DEF Replace, Labels
  <2>2. \A q \in Procs : (Saving(pc'[q]) <=> flock' = q) /\ (pc'[q] \in {"restoring", "copying"} <=> fd'[q] # None)
    BY <1>2, <2>1 DEF Replace, TypeOK, Saving
  <2>3. saves + 1 \in Content
    BY <1>2, BoundsAssumption DEF Replace, TypeOK, Content
  <2>4. PICK i \in Inodes : primary' = i /\ data' = [data EXCEPT ![i] = saves + 1]
    BY <1>2 DEF Replace, FreeInodes
  <2> QED BY <1>2, <2>1, <2>2, <2>3, <2>4 DEF Replace, TypeOK, Labels
<1>3. CASE SaveFails(p)
  <2>1. /\ pc' \in [Procs -> Labels] /\ pc'[p] = "idle"
        /\ \A q \in Procs : q # p => pc'[q] = pc[q]
        /\ overlapped' \in BOOLEAN
    BY <1>3, GotoTyped DEF SaveFails, Labels
  <2>2. \A q \in Procs : (Saving(pc'[q]) <=> flock' = q) /\ (pc'[q] \in {"restoring", "copying"} <=> fd'[q] # None)
    BY <1>3, <2>1, ValuesAssumption DEF SaveFails, TypeOK, Saving
  <2> QED BY <1>3, <2>1, <2>2 DEF SaveFails, TypeOK, Labels, Files, Ghosts
<1>4. CASE OpenBackup(p)
  <2>1. /\ pc' \in [Procs -> Labels] /\ pc'[p] = "copying"
        /\ \A q \in Procs : q # p => pc'[q] = pc[q]
        /\ overlapped' \in BOOLEAN
    BY <1>4, GotoTyped DEF OpenBackup, Labels
  <2>2. \A q \in Procs : (Saving(pc'[q]) <=> flock' = q) /\ (pc'[q] \in {"restoring", "copying"} <=> fd'[q] # None)
    BY <1>4, <2>1 DEF OpenBackup, TypeOK, Saving
  <2> QED BY <1>4, <2>1, <2>2 DEF OpenBackup, TypeOK, Labels, Ghosts
<1>5. CASE WriteBackup(p)
  <2>1. /\ pc' \in [Procs -> Labels] /\ pc'[p] = "idle"
        /\ \A q \in Procs : q # p => pc'[q] = pc[q]
        /\ overlapped' \in BOOLEAN
    BY <1>5, GotoTyped DEF WriteBackup, Labels
  <2>2. \A q \in Procs : (Saving(pc'[q]) <=> flock' = q) /\ (pc'[q] \in {"restoring", "copying"} <=> fd'[q] # None)
    BY <1>5, <2>1, ValuesAssumption DEF WriteBackup, TypeOK, Saving
  <2>3. bak' \in Content \cup {Torn}
    BY <1>5 DEF WriteBackup, TypeOK
  <2>4. backed' \in Content
    BY <1>5, <2>3 DEF WriteBackup, TypeOK, Readable
  <2> QED BY <1>5, <2>1, <2>2, <2>3, <2>4 DEF WriteBackup, TypeOK, Labels
<1>6. CASE BackupFails(p)
  <2>1. /\ pc' \in [Procs -> Labels] /\ pc'[p] = "idle"
        /\ \A q \in Procs : q # p => pc'[q] = pc[q]
        /\ overlapped' \in BOOLEAN
    BY <1>6, GotoTyped DEF BackupFails, Labels
  <2>2. \A q \in Procs : (Saving(pc'[q]) <=> flock' = q) /\ (pc'[q] \in {"restoring", "copying"} <=> fd'[q] # None)
    BY <1>6, <2>1, ValuesAssumption DEF BackupFails, TypeOK, Saving
  <2>3. cuts' \in 0..MaxCuts
    BY <1>6, BoundsAssumption DEF BackupFails, TypeOK
  <2> QED BY <1>6, <2>1, <2>2, <2>3 DEF BackupFails, TypeOK, Labels, Files
<1> QED BY <1>1, <1>2, <1>3, <1>4, <1>5, <1>6 DEF SaveStep

\* A crash keeps the types: the kernel closes the descriptors and drops the flock.
LEMMA TypeCrash ==
    ASSUME TypeOK, NEW p \in Procs, Crash(p)
    PROVE  TypeOK'
<1>1. /\ pc' \in [Procs -> Labels] /\ pc'[p] = "idle"
      /\ \A q \in Procs : q # p => pc'[q] = pc[q]
      /\ overlapped' \in BOOLEAN
  BY GotoTyped DEF Crash, Labels
<1>2. \A q \in Procs : (Saving(pc'[q]) <=> flock' = q) /\ (pc'[q] \in {"restoring", "copying"} <=> fd'[q] # None)
  <2> TAKE q \in Procs
  <2>1. CASE q = p
    BY <1>1, <2>1, ValuesAssumption DEF Crash, TypeOK, Saving
  <2>2. CASE q # p
    BY <1>1, <2>2, ValuesAssumption DEF Crash, TypeOK, Saving
  <2> QED BY <2>1, <2>2
<1>3. cuts' \in 0..MaxCuts
  BY BoundsAssumption DEF Crash, TypeOK
<1> QED BY <1>1, <1>2, <1>3, ValuesAssumption DEF Crash, TypeOK, Labels, Files

\* Damage keeps the types.
LEMMA TypeDamage == TypeOK /\ Damage => TypeOK'
<1> SUFFICES ASSUME TypeOK, Damage PROVE TypeOK'
  OBVIOUS
<1>1. overlapped' \in BOOLEAN
  BY Zenon DEF Damage, TypeOK
<1>2. faults' \in 0..MaxFaults
  BY BoundsAssumption DEF Damage, TypeOK
<1>3. /\ primary' \in Inodes \cup {None} /\ data' \in [Inodes -> Content \cup {Torn}]
      /\ bak' \in Content \cup {Torn, Absent}
  BY DEF Damage, TypeOK
<1> QED BY <1>1, <1>2, <1>3 DEF Damage, TypeOK

\* A process that goes to restore has read the backup, and a backup is never removed.
LEMMA BackupStays ==
    ASSUME TypeInv, Next
    PROVE  HasBackup'
<1>0. TypeOK /\ HasBackup
  BY DEF TypeInv
<1>1. bak # Absent => bak' # Absent
  <2>1. ASSUME NEW p \in Procs, WriteBackup(p) PROVE bak' # Absent
    BY <1>0, <2>1, ValuesAssumption DEF WriteBackup, TypeOK, Content
  <2>2. ASSUME NEW p \in Procs, OpenBackup(p) PROVE bak' # Absent
    BY <2>2, ValuesAssumption DEF OpenBackup
  <2>3. ASSUME Damage PROVE bak' # Absent \/ bak' = bak
    BY <2>3, ValuesAssumption DEF Damage
  <2>4. ASSUME NEW p \in Procs, LoadStep(p) \/ Crash(p) PROVE bak' = bak
    BY <2>4 DEF LoadStep, Crash, ReadPrimary, RetryPrimary, ReadBackup, RetryBackup, OpenRestore,
                WriteRestore, RestoreFails, Files
  <2>5. ASSUME NEW p \in Procs, TakeFlock(p) \/ Replace(p) \/ SaveFails(p) \/ BackupFails(p)
        PROVE  bak' = bak
    BY <2>5 DEF TakeFlock, Replace, SaveFails, BackupFails, Files
  <2> QED BY <2>1, <2>2, <2>3, <2>4, <2>5 DEF Next, SaveStep
<1>2. ASSUME NEW p \in Procs, pc'[p] \in {"restore", "restoring"}, pc[p] \notin {"restore", "restoring"}
      PROVE  bak # Absent
  <2>1. CASE \E q \in Procs : ReadBackup(q) \/ RetryBackup(q)
    <3>1. PICK q \in Procs : ReadBackup(q) \/ RetryBackup(q)
      BY <2>1
    <3>2. CASE Readable(bak)
      BY <3>2 DEF Readable
    <3>3. CASE ~Readable(bak)
      <4>1. Goto(q, "bakRetry") \/ Goto(q, "idle")
        BY <3>1, <3>3 DEF ReadBackup, RetryBackup, GiveUp, Return
      <4> QED BY <1>0, <1>2, <4>1 DEF Goto, TypeOK
    <3> QED BY <3>2, <3>3
  <2>2. ASSUME NEW q \in Procs, NEW l, Goto(q, l), l \notin {"restore", "restoring"}
        PROVE  FALSE
    BY <1>0, <1>2, <2>2 DEF Goto, TypeOK
  <2>3. CASE \E q \in Procs : ReadPrimary(q) \/ RetryPrimary(q)
    <3>1. PICK q \in Procs : ReadPrimary(q) \/ RetryPrimary(q)
      BY <2>3
    <3>2. Goto(q, "idle") \/ Goto(q, "retry") \/ Goto(q, "bak")
      BY <3>1 DEF ReadPrimary, RetryPrimary, GiveUp, Return
    <3> QED BY <2>2, <3>2
  <2>4. ASSUME NEW q \in Procs, OpenRestore(q) PROVE FALSE
    BY <1>0, <1>2, <2>4 DEF OpenRestore, Goto, TypeOK
  <2>5. ASSUME NEW q \in Procs, WriteRestore(q) \/ RestoreFails(q) \/ Crash(q) PROVE FALSE
    BY <2>2, <2>5 DEF WriteRestore, RestoreFails, Crash
  <2>6. ASSUME NEW q \in Procs, SaveStep(q) PROVE FALSE
    BY <2>2, <2>6 DEF SaveStep, TakeFlock, Replace, SaveFails, OpenBackup, WriteBackup, BackupFails
  <2>7. ASSUME Damage PROVE FALSE
    BY <1>2, <2>7 DEF Damage
  <2> QED BY <2>1, <2>3, <2>4, <2>5, <2>6, <2>7 DEF Next, LoadStep
<1> QED BY <1>0, <1>1, <1>2 DEF HasBackup

\* Every step keeps the types.
LEMMA TypeStep == TypeInv /\ [Next]_vars => TypeInv'
<1> SUFFICES ASSUME TypeInv, [Next]_vars PROVE TypeInv'
  OBVIOUS
<1>1. CASE Next
  <2>1. TypeOK'
    BY <1>1, TypeLoad, TypeSave, TypeCrash, TypeDamage DEF Next, TypeInv
  <2> QED BY <1>1, <2>1, BackupStays DEF TypeInv
<1>2. CASE UNCHANGED vars
  BY <1>2 DEF vars, TypeInv, TypeOK, HasBackup
<1> QED BY <1>1, <1>2

\* Type correctness of the checkpoint: whatever is damaged, cut short or killed, the flock is
\* held exactly by the process inside save_daemon_state and files are open exactly in copies.
THEOREM TypeCorrect == Spec => []TypeOK
<1>1. TypeInv => TypeOK
  BY DEF TypeInv
<1> QED BY <1>1, TypeInit, TypeStep, PTL DEF Spec

-----------------------------------------------------------------------------
(* The atomic register *)

\* Until a file is damaged, the primary is there and whole as soon as there is a backup or a
\* copy of it is made, and no process has anything to recover.
Sound ==
    /\ primary # None => Readable(data[primary])
    /\ primary = None => bak = Absent /\ \A p \in Procs : pc[p] \notin {"replaced", "copying"}
    /\ \A p \in Procs : ~Recovering(pc[p])

SoundInv == TypeInv /\ (faults = 0 => Sound)

\* With sound files a load reads the primary, or finds nothing at all.
LEMMA SoundLoadable ==
    ASSUME TypeOK, Sound
    PROVE  /\ Loadable \in Nat
           /\ primary # None => Loadable = data[primary]
           /\ primary = None => Loadable = Fresh
           /\ PrimaryContent # Torn
BY ValuesAssumption DEF TypeOK, Sound, Loadable, PrimaryContent, Readable, Fresh, Content

\* With sound files, a load is one read of the register.
LEMMA SoundLoad ==
    ASSUME TypeOK, Sound, NEW p \in Procs, LoadStep(p)
    PROVE  Sound' /\ Loadable' = Loadable /\ got' = [got EXCEPT ![p] = Loadable]
<1>1. pc[p] \notin {"retry", "bak", "bakRetry", "restore", "restoring"}
  BY DEF Sound, Recovering
<1>2. ReadPrimary(p)
  BY <1>1 DEF LoadStep, RetryPrimary, ReadBackup, RetryBackup, OpenRestore, WriteRestore, RestoreFails
<1>3. Goto(p, "idle") /\ got' = [got EXCEPT ![p] = Loadable]
  <2>1. CASE Readable(PrimaryContent) /\ Return(p, PrimaryContent)
    BY <2>1 DEF Return, Loadable
  <2>2. CASE PrimaryContent = Absent /\ bak = Absent /\ GiveUp(p)
    BY <2>2 DEF Return, GiveUp, Loadable, Readable
  <2>3. CASE PrimaryContent = Absent /\ bak # Absent
    <3>1. primary = None
      BY <2>3, ValuesAssumption DEF PrimaryContent, TypeOK, Sound, Readable
    <3> QED BY <2>3, <3>1 DEF Sound
  <2>4. PrimaryContent # Torn
    BY SoundLoadable
  <2> QED BY <1>2, <2>1, <2>2, <2>3, <2>4 DEF ReadPrimary
<1>4. UNCHANGED <<primary, data, bak>>
  BY <1>2 DEF ReadPrimary, Files
<1>5. \A q \in Procs : pc'[q] = pc[q] \/ pc'[q] = "idle"
  BY <1>3 DEF Goto, TypeOK
<1>6. Sound'
  BY <1>4, <1>5 DEF Sound, Recovering, Readable
<1>7. Loadable' = Loadable
  BY <1>4 DEF Loadable, PrimaryContent, Readable
<1> QED BY <1>3, <1>6, <1>7

\* With sound files, a save's step replaces the register's value or leaves it.
LEMMA SoundSave ==
    ASSUME TypeOK, Sound, NEW p \in Procs, SaveStep(p)
    PROVE  Sound' /\ Loadable' \in Nat /\ got' = got
<1>1. got' = got
  BY DEF SaveStep, TakeFlock, Replace, SaveFails, OpenBackup, WriteBackup, BackupFails
<1>2. ASSUME NEW l, Goto(p, l), ~Recovering(l)
      PROVE  \A q \in Procs : ~Recovering(pc'[q]) /\ (pc'[q] = pc[q] \/ pc'[q] = l)
  BY <1>2 DEF Goto, TypeOK, Sound
<1>3. ASSUME NEW l, Goto(p, l), l \in {"save", "idle"}, UNCHANGED <<primary, data, bak>>
      PROVE  Sound' /\ Loadable' \in Nat
  <2>1. \A q \in Procs : ~Recovering(pc'[q]) /\ (pc'[q] = pc[q] \/ pc'[q] = l)
    BY <1>2, <1>3 DEF Recovering
  <2>2. Sound'
    BY <1>3, <2>1 DEF Sound, Readable
  <2>3. Loadable' = Loadable
    BY <1>3 DEF Loadable, PrimaryContent, Readable
  <2> QED BY <2>2, <2>3, SoundLoadable
<1>4. CASE TakeFlock(p)
  BY <1>3, <1>4 DEF TakeFlock, Files
<1>5. CASE SaveFails(p)
  BY <1>3, <1>5 DEF SaveFails, Files
<1>6. CASE BackupFails(p)
  BY <1>3, <1>6 DEF BackupFails, Files
<1>7. CASE Replace(p)
  <2>1. PICK i \in Inodes : primary' = i /\ data' = [data EXCEPT ![i] = saves + 1]
    BY <1>7 DEF Replace, FreeInodes
  <2>2. \A q \in Procs : ~Recovering(pc'[q])
    BY <1>2, <1>7 DEF Replace, Recovering
  <2>3. primary' # None /\ data'[primary'] = saves + 1 /\ saves + 1 \in Nat
    BY <2>1, ValuesAssumption DEF TypeOK, Content
  <2>4. Readable(data'[primary'])
    BY <2>3, ValuesAssumption DEF Readable
  <2>5. Sound'
    BY <2>2, <2>3, <2>4 DEF Sound, Readable
  <2>6. Loadable' = saves + 1
    BY <2>3, <2>4 DEF Loadable, PrimaryContent, Readable
  <2> QED BY <1>1, <2>3, <2>5, <2>6
<1>8. CASE OpenBackup(p) \/ WriteBackup(p)
  <2>1. UNCHANGED <<primary, data>>
    BY <1>8 DEF OpenBackup, WriteBackup
  <2>2. primary # None
    BY <1>8 DEF OpenBackup, WriteBackup, Sound
  <2>3. \A q \in Procs : ~Recovering(pc'[q])
    BY <1>2, <1>8 DEF OpenBackup, WriteBackup, Recovering
  <2>4. Sound'
    BY <2>1, <2>2, <2>3 DEF Sound, Readable
  <2>5. Loadable' = data[primary]
    BY <2>1, <2>2 DEF Sound, Loadable, PrimaryContent, Readable
  <2>6. Loadable = data[primary] /\ Loadable \in Nat
    BY <2>2, SoundLoadable
  <2> QED BY <1>1, <2>4, <2>5, <2>6
<1> QED BY <1>1, <1>4, <1>5, <1>6, <1>7, <1>8 DEF SaveStep

\* With sound files, a crash leaves the register as it was.
LEMMA SoundCrash ==
    ASSUME TypeOK, Sound, NEW p \in Procs, Crash(p)
    PROVE  Sound' /\ Loadable' = Loadable /\ got' = got
<1>1. UNCHANGED <<primary, data, bak, got>>
  BY DEF Crash, Files
<1>2. \A q \in Procs : pc'[q] = pc[q] \/ pc'[q] = "idle"
  BY DEF Crash, Goto, TypeOK
<1>3. Sound'
  BY <1>1, <1>2 DEF Sound, Recovering, Readable
<1>4. Loadable' = Loadable
  BY <1>1 DEF Loadable, PrimaryContent, Readable
<1> QED BY <1>1, <1>3, <1>4

\* The number of damaged files changes only when a file is damaged.
LEMMA FaultsCounted ==
    ASSUME NEW p \in Procs, LoadStep(p) \/ SaveStep(p) \/ Crash(p)
    PROVE  faults' = faults
BY DEF LoadStep, SaveStep, Crash, ReadPrimary, RetryPrimary, ReadBackup, RetryBackup, OpenRestore,
       WriteRestore, RestoreFails, TakeFlock, Replace, SaveFails, OpenBackup, WriteBackup,
       BackupFails, Ghosts

\* Every step is a step of the register, and files stay sound until the first damage.
LEMMA RegisterStep ==
    ASSUME SoundInv, [Next]_vars
    PROVE  (faults' = 0 => Sound') /\ [Register!Next]_Register!vars
<1>0. TypeOK /\ TypeInv /\ (faults = 0 => Sound)
  BY DEF SoundInv, TypeInv
<1>1. CASE UNCHANGED vars
  <2>1. Loadable' = Loadable
    BY <1>1 DEF vars, Loadable, PrimaryContent, Readable
  <2> QED BY <1>0, <1>1, <2>1 DEF vars, Register!vars, Sound, Recovering, Readable
<1>2. CASE Damage
  <2>1. faults' # 0
    BY <1>0, <1>2 DEF Damage, TypeOK
  <2> QED BY <2>1 DEF Register!Next, Register!Damaged
<1>3. CASE \E p \in Procs : LoadStep(p) \/ SaveStep(p) \/ Crash(p)
  <2>1. PICK p \in Procs : LoadStep(p) \/ SaveStep(p) \/ Crash(p)
    BY <1>3
  <2>2. faults' = faults
    BY <2>1, FaultsCounted
  <2>3. CASE faults # 0
    <3>1. (faults' = 0) = FALSE
      BY <2>2, <2>3
    <3> QED BY <2>2, <2>3, <3>1 DEF Register!Next, Register!Damaged
  <2>4. CASE faults = 0
    <3>1. CASE LoadStep(p)
      <4>1. Sound' /\ Loadable' = Loadable /\ got' = [got EXCEPT ![p] = Loadable]
        BY <1>0, <2>4, <3>1, SoundLoad
      <4>2. Register!Load(p)
        BY <2>2, <4>1 DEF Register!Load
      <4> QED BY <2>4, <4>1, <4>2 DEF Register!Next
    <3>2. CASE SaveStep(p)
      <4>1. Sound' /\ Loadable' \in Nat /\ got' = got
        BY <1>0, <2>4, <3>2, SoundSave
      <4>2. Register!Save
        BY <2>2, <4>1 DEF Register!Save
      <4> QED BY <2>4, <4>1, <4>2 DEF Register!Next
    <3>3. CASE Crash(p)
      <4>1. Sound' /\ Loadable' = Loadable /\ got' = got
        BY <1>0, <2>4, <3>3, SoundCrash
      <4> QED BY <2>2, <4>1 DEF Register!vars
    <3> QED BY <2>1, <3>1, <3>2, <3>3
  <2> QED BY <2>3, <2>4
<1> QED BY <1>1, <1>2, <1>3 DEF Next

\* The files start sound, and the register empty.
LEMMA RegisterInit == Init => SoundInv /\ Register!Init
<1> SUFFICES ASSUME Init PROVE SoundInv /\ Register!Init
  OBVIOUS
<1>1. \A p \in Procs : pc[p] = "idle"
  BY DEF Init
<1>2. Sound
  BY <1>1 DEF Init, Sound, Recovering
<1>3. Loadable = Fresh
  BY DEF Init, Loadable, PrimaryContent, Readable
<1> QED BY <1>2, <1>3, TypeInit DEF Init, SoundInv, Register!Init

\* The checkpoint implements an atomic register until a file is damaged from outside: a load
\* in any process returns what the last save put on the primary's path, and changes nothing,
\* whatever processes crash and whatever copies fail.
THEOREM RegisterImplemented == Spec => ImplementsRegister
<1>1. Init => SoundInv /\ Register!Init
  BY RegisterInit
<1>2. SoundInv /\ [Next]_vars => SoundInv'
  <2>1. TypeInv /\ [Next]_vars => TypeInv'
    BY TypeStep
  <2> QED BY <2>1, RegisterStep DEF SoundInv
<1>3. SoundInv /\ [Next]_vars => [Register!Next]_Register!vars
  BY RegisterStep
<1> QED BY <1>1, <1>2, <1>3, PTL DEF Spec, ImplementsRegister, Register!Spec

-----------------------------------------------------------------------------
(* One mishap *)

\* The backup is the newest content whose copy was completed, or damaged, and no content is
\* from a save to come.
BackedInv ==
    /\ backed <= saves
    /\ bak = Absent => backed = Fresh
    /\ Readable(bak) => bak = backed
    /\ \A i \in Inodes : Readable(data[i]) => data[i] <= saves

\* Without an overlap nobody recovers beside a save.
Apart == ~overlapped => \A p, q \in Procs : ~(Saving(pc[p]) /\ Recovering(pc[q]))

\* One of the two files is whole.  The primary, if it is, has the newest backup's state or a newer
\* one; if it is not, or somebody takes it for damaged, the backup is whole or was never made.
\* A save whose primary is in place copies that primary, and only its copy tears a backup
\* before the first mishap.
OneMishap == faults + cuts <= 1 /\ ~overlapped
Keeps ==
    /\ Readable(PrimaryContent) => PrimaryContent >= backed
    /\ ~Readable(PrimaryContent) \/ (\E p \in Procs : Recovering(pc[p])) => bak # Torn
    /\ \A p \in Procs : pc[p] \in {"replaced", "copying"} => Readable(PrimaryContent)
    /\ \A p \in Procs : pc[p] = "copying" => fd[p] = primary
    /\ faults + cuts = 0 /\ bak = Torn => \E p \in Procs : pc[p] = "copying"
KeepsInv == OneMishap => Keeps

\* Damage is not a label's step; every other step goes to a label.
LEMMA SomeGoto ==
    ASSUME NEW p \in Procs, LoadStep(p) \/ SaveStep(p) \/ Crash(p)
    PROVE  \E l \in Labels : Goto(p, l)
<1> USE DEF Labels, Return, GiveUp, Recovered
<1>1. CASE ReadPrimary(p) \/ RetryPrimary(p)
  BY <1>1 DEF ReadPrimary, RetryPrimary
<1>2. CASE ReadBackup(p) \/ RetryBackup(p)
  BY <1>2 DEF ReadBackup, RetryBackup
<1>3. CASE OpenRestore(p) \/ WriteRestore(p) \/ RestoreFails(p)
  BY <1>3 DEF OpenRestore, WriteRestore, RestoreFails
<1>4. CASE SaveStep(p)
  BY <1>4 DEF SaveStep, TakeFlock, Replace, SaveFails, OpenBackup, WriteBackup, BackupFails
<1>5. CASE Crash(p)
  BY <1>5 DEF Crash
<1> QED BY <1>1, <1>2, <1>3, <1>4, <1>5 DEF LoadStep

\* After a step without an overlap nobody recovers beside a save.
LEMMA GotoApart ==
    ASSUME NEW p \in Procs, NEW l, Goto(p, l), ~overlapped'
    PROVE  /\ ~overlapped
           /\ \A q, r \in Procs : ~(Saving(pc'[q]) /\ Recovering(pc'[r]))
<1>1. ~overlapped /\ \A q, r \in Procs : q # r => ~(Saving(pc'[q]) /\ Recovering(pc'[r]))
  BY DEF Goto
<1>2. \A q \in Procs : ~(Saving(pc'[q]) /\ Recovering(pc'[q]))
  BY DEF Saving, Recovering
<1> QED BY <1>1, <1>2

\* Damage moves nobody, and every other step notes an overlap.
LEMMA ApartStep ==
    ASSUME TypeOK, Apart, [Next]_vars
    PROVE  Apart'
<1>1. CASE \E p \in Procs : LoadStep(p) \/ SaveStep(p) \/ Crash(p)
  BY <1>1, SomeGoto, GotoApart DEF Apart
<1>2. CASE Damage
  BY <1>2 DEF Damage, Apart
<1>3. CASE UNCHANGED vars
  BY <1>3 DEF vars, Apart
<1> QED BY <1>1, <1>2, <1>3 DEF Next

\* Mishaps are counted, never uncounted.
LEMMA MishapsGrow ==
    ASSUME TypeOK, Next
    PROVE  /\ faults + cuts <= faults' + cuts' /\ (overlapped => overlapped')
           /\ Damage => faults' + cuts' = faults + cuts + 1
<1>1. faults \in Nat /\ cuts \in Nat
  BY BoundsAssumption DEF TypeOK
<1>2. CASE Damage
  <2>1. faults' = faults + 1 /\ cuts' = cuts
    BY <1>2 DEF Damage
  <2>2. overlapped => overlapped'
    BY <1>2, Zenon DEF Damage
  <2> QED BY <1>1, <2>1, <2>2
<1>3. ASSUME NEW p \in Procs, LoadStep(p) \/ SaveStep(p) \/ Crash(p)
      PROVE  faults' = faults /\ (cuts' = cuts \/ cuts' = cuts + 1) /\ (overlapped => overlapped')
             /\ ~Damage
  <2>1. faults' = faults
    BY <1>3, FaultsCounted
  <2>2. overlapped => overlapped'
    BY <1>3, SomeGoto, GotoApart
  <2>3. cuts' = cuts \/ cuts' = cuts + 1
    BY <1>3 DEF LoadStep, SaveStep, Crash, ReadPrimary, RetryPrimary, ReadBackup, RetryBackup,
       OpenRestore, WriteRestore, RestoreFails, TakeFlock, Replace, SaveFails, OpenBackup,
       WriteBackup, BackupFails, Ghosts
  <2>4. ~Damage
    BY <1>1, <2>1 DEF Damage
  <2> QED BY <2>1, <2>2, <2>3, <2>4
<1> QED BY <1>1, <1>2, <1>3 DEF Next

\* A readable content is a number.
LEMMA ReadableTyped ==
    ASSUME TypeOK
    PROVE  /\ \A i \in Inodes : /\ data[i] \in Content \cup {Torn}
                                /\ Readable(data[i]) <=> data[i] # Torn
                                /\ Readable(data[i]) => data[i] \in Nat
           /\ Readable(bak) <=> bak \notin {Torn, Absent}
           /\ Readable(bak) => bak \in Nat
           /\ backed \in Nat /\ saves \in Nat
           /\ ~Readable(Torn) /\ ~Readable(Absent)
BY ValuesAssumption, BoundsAssumption DEF TypeOK, Readable, Content

\* Only a completed copy of a whole file, or damage, changes what the backup holds.
LEMMA BackedStep ==
    ASSUME TypeInv, TypeOK', BackedInv, [Next]_vars
    PROVE  BackedInv'
<1>0. TypeOK
  BY DEF TypeInv
<1>1. ASSUME UNCHANGED <<data, bak, saves, backed>>
      PROVE  BackedInv'
  BY <1>1 DEF BackedInv, Readable
<1>2. ASSUME NEW p \in Procs, OpenRestore(p)
      PROVE  BackedInv'
  <2>1. PICK i \in Inodes : data' = [data EXCEPT ![i] = Torn]
    BY <1>0, <1>2 DEF OpenRestore, FreeInodes, TypeOK
  <2>2. UNCHANGED <<bak, saves, backed>>
    BY <1>2 DEF OpenRestore, Ghosts
  <2> QED BY <1>0, <2>1, <2>2, ReadableTyped DEF BackedInv, TypeOK, Readable
<1>3. ASSUME NEW p \in Procs, WriteRestore(p)
      PROVE  BackedInv'
  <2>1. data' = [data EXCEPT ![fd[p]] = bak] /\ UNCHANGED <<bak, saves, backed>>
    BY <1>3 DEF WriteRestore, Ghosts
  <2>2. Readable(bak) => bak <= saves
    BY <1>0, ReadableTyped DEF BackedInv
  <2> QED BY <1>0, <2>1, <2>2 DEF BackedInv, TypeOK, Readable
<1>4. ASSUME NEW p \in Procs, Replace(p)
      PROVE  BackedInv'
  <2>1. PICK i \in Inodes : data' = [data EXCEPT ![i] = saves + 1]
    BY <1>4 DEF Replace, FreeInodes
  <2>2. UNCHANGED <<bak, backed>> /\ saves' = saves + 1
    BY <1>4 DEF Replace
  <2>3. backed \in Nat /\ saves \in Nat /\ \A j \in Inodes : Readable(data[j]) => data[j] \in Nat
    BY <1>0, ReadableTyped
  <2>4. backed' <= saves'
    BY <2>2, <2>3 DEF BackedInv
  <2>5. \A j \in Inodes : Readable(data'[j]) => data'[j] <= saves'
    <3> SUFFICES ASSUME NEW j \in Inodes, Readable(data'[j]) PROVE data'[j] <= saves'
      OBVIOUS
    <3>1. CASE j = i
      BY <1>0, <2>1, <2>2, <2>3, <3>1 DEF TypeOK
    <3>2. CASE j # i
      <4>1. data'[j] = data[j] /\ Readable(data[j])
        BY <1>0, <2>1, <3>2 DEF TypeOK
      <4>2. data[j] <= saves /\ data[j] \in Nat
        BY <2>3, <4>1 DEF BackedInv
      <4> QED BY <2>2, <2>3, <4>1, <4>2
    <3> QED BY <3>1, <3>2
  <2> QED BY <2>2, <2>4, <2>5 DEF BackedInv, Readable
<1>5. ASSUME NEW p \in Procs, OpenBackup(p)
      PROVE  BackedInv'
  BY <1>5, ValuesAssumption DEF OpenBackup, Ghosts, BackedInv, Readable
<1>6. ASSUME NEW p \in Procs, WriteBackup(p)
      PROVE  BackedInv'
  <2>1. /\ fd[p] \in Inodes /\ bak' = data[fd[p]] /\ UNCHANGED <<data, saves>>
        /\ backed' = IF Readable(bak') THEN bak' ELSE backed
    BY <1>0, <1>6 DEF WriteBackup, TypeOK
  <2>2. bak' # Absent
    BY <1>0, <2>1, ReadableTyped, ValuesAssumption DEF Content
  <2> QED BY <2>1, <2>2 DEF BackedInv, Readable
<1>7. ASSUME Damage
      PROVE  BackedInv'
  <2>1. UNCHANGED <<saves, backed>>
    BY <1>7 DEF Damage
  <2>2. bak' = bak \/ bak' = Torn
    BY <1>7 DEF Damage
  <2>3. data' = data \/ \E i \in Inodes : data' = [data EXCEPT ![i] = Torn]
    BY <1>0, <1>7 DEF Damage, TypeOK
  <2>4. \A j \in Inodes : data'[j] = data[j] \/ data'[j] = Torn
    BY <1>0, <2>3 DEF TypeOK
  <2> QED BY <2>1, <2>2, <2>4, ValuesAssumption DEF BackedInv, Readable
<1>8. ASSUME NEW p \in Procs,
             ReadPrimary(p) \/ RetryPrimary(p) \/ ReadBackup(p) \/ RetryBackup(p) \/ RestoreFails(p)
             \/ TakeFlock(p) \/ SaveFails(p) \/ BackupFails(p) \/ Crash(p)
      PROVE  BackedInv'
  BY <1>1, <1>8 DEF ReadPrimary, RetryPrimary, ReadBackup, RetryBackup, RestoreFails, TakeFlock,
                    SaveFails, BackupFails, Crash, Files, Ghosts
<1>9. CASE UNCHANGED vars
  BY <1>1, <1>9 DEF vars
<1> QED BY <1>2, <1>3, <1>4, <1>5, <1>6, <1>7, <1>8, <1>9 DEF Next, LoadStep, SaveStep

\* A step that leaves the files alone keeps them, if it starts no recovery from a torn backup;
\* a copy may only end as a mishap.
LEMMA QuietKeeps ==
    ASSUME TypeOK, Keeps, NEW p \in Procs, NEW l \in Labels \ {"replaced", "copying"}, Goto(p, l),
           Recovering(l) => bak # Torn,
           UNCHANGED <<Files, backed, faults>>,
           \A q \in Procs : q # p => fd'[q] = fd[q],
           \/ cuts' = cuts /\ pc[p] # "copying"
           \/ cuts' = cuts + 1
    PROVE  Keeps'
<1>1. pc'[p] = l /\ \A q \in Procs : q # p => pc'[q] = pc[q]
  BY GotoTyped
<1>2. UNCHANGED <<primary, data, bak, backed, faults>> /\ PrimaryContent' = PrimaryContent
  BY DEF Files, PrimaryContent
<1>3. faults \in Nat /\ cuts \in Nat
  BY BoundsAssumption DEF TypeOK
<1>4. Readable(PrimaryContent)' => PrimaryContent' >= backed'
  BY <1>2 DEF Keeps, Readable
<1>5. ~Readable(PrimaryContent)' \/ (\E q \in Procs : Recovering(pc'[q])) => bak' # Torn
  <2>1. CASE ~Readable(PrimaryContent)'
    BY <1>2, <2>1 DEF Keeps, Readable
  <2>2. ASSUME NEW q \in Procs, Recovering(pc'[q]) PROVE bak' # Torn
    BY <1>1, <1>2, <2>2 DEF Keeps
  <2> QED BY <2>1, <2>2
<1>6. \A q \in Procs : pc'[q] \in {"replaced", "copying"} => q # p /\ pc'[q] = pc[q]
  BY <1>1
<1>7. \A q \in Procs : pc'[q] \in {"replaced", "copying"} => Readable(PrimaryContent)'
  BY <1>2, <1>6 DEF Keeps, Readable
<1>8. \A q \in Procs : pc'[q] = "copying" => fd'[q] = primary'
  BY <1>2, <1>6 DEF Keeps
<1>9. faults' + cuts' = 0 /\ bak' = Torn => \E q \in Procs : pc'[q] = "copying"
  <2> SUFFICES ASSUME faults' + cuts' = 0, bak' = Torn
               PROVE  \E q \in Procs : pc'[q] = "copying"
    OBVIOUS
  <2>1. faults + cuts = 0 /\ pc[p] # "copying"
    BY <1>2, <1>3
  <2>2. PICK q \in Procs : pc[q] = "copying"
    BY <1>2, <2>1 DEF Keeps
  <2> QED BY <1>1, <2>1, <2>2
<1> QED BY <1>4, <1>5, <1>7, <1>8, <1>9 DEF Keeps

\* A recovery beside no save truncates the primary with a whole backup at hand.
LEMMA KeepsLoad ==
    ASSUME TypeOK, SoundInv, BackedInv, Keeps, NEW p \in Procs, LoadStep(p), OneMishap'
    PROVE  Keeps'
<1> USE DEF Labels, Recovering
<1>1. CASE ReadPrimary(p)
  <2>1. UNCHANGED <<Files, fd, Ghosts>> /\ pc[p] = "idle"
    BY <1>1 DEF ReadPrimary
  <2>2. CASE Readable(PrimaryContent) /\ Goto(p, "idle")
    BY <2>1, <2>2, QuietKeeps DEF Ghosts
  <2>3. CASE ~Readable(PrimaryContent) /\ \E l \in {"retry", "bak", "idle"} : Goto(p, l)
    <3>1. bak # Torn
      BY <2>3 DEF Keeps
    <3> QED BY <2>1, <2>3, <3>1, QuietKeeps DEF Ghosts
  <2> QED BY <1>1, <2>2, <2>3 DEF ReadPrimary, Return, GiveUp, Readable
<1>2. ASSUME pc[p] \in {"retry", "bak", "bakRetry", "restore"}, UNCHANGED <<Files, Ghosts>>,
             \A q \in Procs : q # p => fd'[q] = fd[q],
             NEW l \in {"idle", "bak", "bakRetry", "restore"}, Goto(p, l)
      PROVE  Keeps'
  <2>1. bak # Torn
    BY <1>2 DEF Keeps
  <2> QED BY <1>2, <2>1, QuietKeeps DEF Ghosts
<1>3. CASE RetryPrimary(p)
  BY <1>2, <1>3 DEF RetryPrimary, Return, GiveUp
<1>4. CASE ReadBackup(p)
  BY <1>2, <1>4 DEF ReadBackup, Recovered
<1>5. CASE RetryBackup(p)
  BY <1>2, <1>5 DEF RetryBackup, Recovered, GiveUp, Return
<1>6. CASE RestoreFails(p)
  <2>1. /\ UNCHANGED <<Files, backed, faults>> /\ Goto(p, "idle") /\ pc[p] # "copying"
        /\ cuts' = cuts \/ cuts' = cuts + 1
    BY <1>6 DEF RestoreFails
  <2>2. \A q \in Procs : q # p => fd'[q] = fd[q]
    BY <1>6 DEF RestoreFails, TypeOK
  <2> QED BY <2>1, <2>2, QuietKeeps
<1>7. CASE OpenRestore(p)
  <2>1. Goto(p, "restoring") /\ pc[p] = "restore" /\ UNCHANGED <<bak, backed, faults, cuts>>
    BY <1>7 DEF OpenRestore, Ghosts
  <2>2. ~overlapped'
    BY DEF OneMishap
  <2>3. \A q \in Procs : pc'[q] \notin {"replaced", "copying"}
    <3>1. pc'[p] = "restoring"
      BY <2>1, GotoTyped
    <3>2. Recovering(pc'[p]) /\ \A q \in Procs : ~Saving(pc'[q])
      BY <2>1, <2>2, <3>1, GotoApart
    <3> QED BY <3>2 DEF Saving
  <2>4. bak # Torn
    BY <2>1 DEF Keeps
  <2>5. PrimaryContent' = Torn
    <3>1. PICK i \in Inodes : primary' = i /\ data' = [data EXCEPT ![i] = Torn]
      BY <1>7 DEF OpenRestore, FreeInodes, TypeOK
    <3> QED BY <3>1, ValuesAssumption DEF PrimaryContent, TypeOK
  <2>6. ~Readable(PrimaryContent)'
    BY <2>5 DEF Readable
  <2> QED BY <2>1, <2>3, <2>4, <2>6 DEF Keeps
<1>8. CASE WriteRestore(p)
  <2>1. /\ Goto(p, "idle") /\ pc[p] = "restoring" /\ UNCHANGED <<primary, bak, backed, faults, cuts>>
        /\ data' = [data EXCEPT ![fd[p]] = bak] /\ \A q \in Procs : q # p => fd'[q] = fd[q]
    BY <1>8 DEF WriteRestore, Ghosts, TypeOK
  <2>2. bak # Torn
    BY <2>1 DEF Keeps
  <2>3. bak # Absent /\ Readable(bak) /\ bak = backed /\ backed \in Nat
    BY <2>1, <2>2, ReadableTyped DEF SoundInv, TypeInv, HasBackup, Readable, BackedInv
  <2>4. PrimaryContent' = PrimaryContent \/ PrimaryContent' = bak
    BY <2>1 DEF PrimaryContent, TypeOK
  <2>5. Readable(PrimaryContent)' => PrimaryContent' >= backed'
    BY <2>1, <2>3, <2>4 DEF Keeps, Readable
  <2>6. Readable(PrimaryContent) => Readable(PrimaryContent)'
    BY <2>3, <2>4 DEF Readable
  <2>7. pc'[p] = "idle" /\ \A q \in Procs : q # p => pc'[q] = pc[q]
    BY <2>1, GotoTyped
  <2>8. \A q \in Procs : pc'[q] \in {"replaced", "copying"} => pc'[q] = pc[q] /\ q # p
    BY <2>7
  <2>9. \A q \in Procs : pc'[q] \in {"replaced", "copying"} => Readable(PrimaryContent)'
    BY <2>6, <2>8 DEF Keeps
  <2>10. \A q \in Procs : pc'[q] = "copying" => fd'[q] = primary'
    BY <2>1, <2>8 DEF Keeps
  <2> QED BY <2>1, <2>2, <2>5, <2>9, <2>10 DEF Keeps
<1> QED BY <1>1, <1>3, <1>4, <1>5, <1>6, <1>7, <1>8 DEF LoadStep

\* A save beside no recovery truncates the backup with a whole primary at hand.
LEMMA KeepsSave ==
    ASSUME TypeOK, BackedInv, Keeps, NEW p \in Procs, SaveStep(p), OneMishap'
    PROVE  Keeps'
<1> USE DEF Labels, Saving
<1>1. CASE TakeFlock(p) \/ SaveFails(p)
  <2>1. UNCHANGED <<Files, fd, Ghosts>> /\ \E l \in {"save", "idle"} : Goto(p, l)
    BY <1>1 DEF TakeFlock, SaveFails
  <2>2. pc[p] # "copying"
    BY <1>1 DEF TakeFlock, SaveFails
  <2> QED BY <2>1, <2>2, QuietKeeps DEF Ghosts, Recovering
<1>2. CASE BackupFails(p)
  <2>1. /\ UNCHANGED <<Files, backed, faults>> /\ Goto(p, "idle")
        /\ (cuts' = cuts /\ pc[p] # "copying") \/ cuts' = cuts + 1
    BY <1>2 DEF BackupFails
  <2>2. \A q \in Procs : q # p => fd'[q] = fd[q]
    BY <1>2 DEF BackupFails, TypeOK
  <2> QED BY <2>1, <2>2, QuietKeeps DEF Recovering
<1>3. ASSUME NEW l \in {"replaced", "copying"}, Goto(p, l), pc[p] \in {"save", "replaced"}
      PROVE  /\ pc'[p] = l
             /\ \A q \in Procs : q # p => pc[q] \notin {"replaced", "copying"} /\ pc'[q] = pc[q]
             /\ \A q \in Procs : ~Recovering(pc'[q])
  <2>1. pc'[p] = l /\ \A q \in Procs : q # p => pc'[q] = pc[q]
    BY <1>3, GotoTyped
  <2>2. flock = p /\ \A q \in Procs : q # p => ~Saving(pc[q])
    BY <1>3 DEF TypeOK
  <2>3. \A q \in Procs : ~Recovering(pc'[q])
    BY <1>3, <2>1, GotoApart DEF OneMishap
  <2> QED BY <2>1, <2>2, <2>3
<1>4. CASE Replace(p)
  <2>1. /\ Goto(p, "replaced") /\ pc[p] = "save" /\ UNCHANGED <<bak, fd, faults, cuts, backed>>
    BY <1>4 DEF Replace
  <2>2. /\ pc'[p] = "replaced" /\ \A q \in Procs : pc'[q] # "copying" /\ pc[q] # "copying"
        /\ \A q \in Procs : ~Recovering(pc'[q])
    BY <1>3, <2>1
  <2>3. PrimaryContent' = saves + 1 /\ Readable(PrimaryContent)' /\ saves + 1 >= backed
    <3>1. PICK i \in Inodes : primary' = i /\ data' = [data EXCEPT ![i] = saves + 1]
      BY <1>4 DEF Replace, FreeInodes
    <3>2. PrimaryContent' = saves + 1
      BY <3>1, ValuesAssumption DEF PrimaryContent, TypeOK
    <3>3. saves \in Nat /\ backed \in Nat /\ backed <= saves
      BY ReadableTyped DEF BackedInv
    <3>4. saves + 1 \in Nat /\ saves + 1 >= backed
      BY <3>3
    <3> QED BY <3>2, <3>4, ValuesAssumption DEF Readable
  <2> QED BY <2>1, <2>2, <2>3 DEF Keeps
<1>5. CASE OpenBackup(p)
  <2>1. /\ Goto(p, "copying") /\ pc[p] = "replaced" /\ fd' = [fd EXCEPT ![p] = primary]
        /\ UNCHANGED <<primary, data, backed, faults, cuts>> /\ PrimaryContent' = PrimaryContent
    BY <1>5 DEF OpenBackup, Ghosts, PrimaryContent
  <2>2. /\ pc'[p] = "copying" /\ \A q \in Procs : q # p => pc'[q] \notin {"replaced", "copying"}
        /\ \A q \in Procs : ~Recovering(pc'[q])
    BY <1>3, <2>1
  <2>3. Readable(PrimaryContent) /\ Readable(PrimaryContent)'
    BY <2>1 DEF Keeps, Readable
  <2>4. fd'[p] = primary
    BY <2>1 DEF TypeOK
  <2> QED BY <2>1, <2>2, <2>3, <2>4 DEF Keeps
<1>6. CASE WriteBackup(p)
  <2>1. /\ Goto(p, "idle") /\ pc[p] = "copying" /\ UNCHANGED <<primary, data, faults, cuts>>
        /\ PrimaryContent' = PrimaryContent /\ bak' = data[fd[p]]
        /\ backed' = IF Readable(bak') THEN bak' ELSE backed
    BY <1>6 DEF WriteBackup, PrimaryContent
  <2>2. fd[p] = primary /\ primary # None /\ Readable(PrimaryContent)
    BY <2>1 DEF Keeps, TypeOK
  <2>3. bak' = PrimaryContent /\ Readable(bak') /\ backed' = PrimaryContent /\ bak' # Torn
    BY <2>1, <2>2 DEF PrimaryContent, Readable
  <2>4. PrimaryContent \in Nat
    BY <2>2, PrimaryTyped DEF Content
  <2>5. Readable(PrimaryContent)' /\ PrimaryContent' >= backed'
    BY <2>1, <2>2, <2>3, <2>4 DEF Readable
  <2>6. \A q \in Procs : pc'[q] # "copying"
    <3>1. pc'[p] = "idle" /\ \A q \in Procs : q # p => pc'[q] = pc[q]
      BY <2>1, GotoTyped
    <3>2. \A q \in Procs : q # p => pc[q] # "copying"
      BY <2>1 DEF TypeOK
    <3> QED BY <3>1, <3>2
  <2> QED BY <2>3, <2>5, <2>6 DEF Keeps
<1> QED BY <1>1, <1>2, <1>4, <1>5, <1>6 DEF SaveStep

\* The first mishap is damage while nobody saves: it hits one of two whole files.
LEMMA KeepsDamage ==
    ASSUME TypeOK, SoundInv, Keeps, Damage, OneMishap'
    PROVE  Keeps'
<1>1. faults = 0 /\ cuts = 0
  <2>1. faults \in Nat /\ cuts \in Nat
    BY BoundsAssumption DEF TypeOK
  <2>2. faults' = faults + 1 /\ cuts' = cuts /\ faults' + cuts' <= 1
    BY DEF Damage, OneMishap
  <2> QED BY <2>1, <2>2
<1>2. faults' + cuts' # 0
  BY <1>1 DEF Damage
<1>3. Sound
  BY <1>1 DEF SoundInv
<1>4. UNCHANGED <<pc, fd, backed>>
  BY DEF Damage
<1>5. flock = None
  BY Zenon DEF Damage, OneMishap
<1>6. \A p \in Procs : ~Saving(pc[p])
  BY <1>5, ValuesAssumption DEF TypeOK
<1>7. \A p \in Procs : pc'[p] \notin {"replaced", "copying"} /\ ~Recovering(pc'[p])
  BY <1>3, <1>4, <1>6 DEF Saving, Sound
<1>8. bak # Torn
  BY <1>1, <1>6 DEF Keeps, Saving
<1>9. CASE primary # None /\ data' = [data EXCEPT ![primary] = Torn] /\ UNCHANGED <<primary, bak>>
  <2>1. ~Readable(PrimaryContent)'
    BY <1>9 DEF PrimaryContent, Readable, TypeOK
  <2> QED BY <1>2, <1>7, <1>8, <1>9, <2>1 DEF Keeps
<1>10. CASE primary # None /\ primary' = None /\ UNCHANGED <<data, bak>>
  <2>1. ~Readable(PrimaryContent)'
    BY <1>10 DEF PrimaryContent, Readable
  <2> QED BY <1>2, <1>7, <1>8, <1>10, <2>1 DEF Keeps
<1>11. CASE bak # Absent /\ bak' = Torn /\ UNCHANGED <<primary, data>>
  <2>1. Readable(PrimaryContent) /\ PrimaryContent' = PrimaryContent
    BY <1>3, <1>11 DEF Sound, PrimaryContent
  <2>2. Readable(PrimaryContent)' /\ PrimaryContent' >= backed'
    BY <1>4, <2>1 DEF Keeps, Readable
  <2> QED BY <1>2, <1>7, <2>2 DEF Keeps
<1> QED BY <1>9, <1>10, <1>11 DEF Damage

\* Arithmetic of the counters.
LEMMA AtMostOne ==
    ASSUME NEW a \in Nat, NEW b \in Nat, NEW c \in Nat, NEW d \in Nat,
           a + b <= c + d, c + d <= 1
    PROVE  a + b <= 1
OBVIOUS

\* Every step keeps what one mishap may cost.
LEMMA KeepsStep ==
    ASSUME SoundInv, BackedInv, KeepsInv, [Next]_vars
    PROVE  KeepsInv'
<1>0. TypeOK
  BY DEF SoundInv, TypeInv
<1>1. CASE UNCHANGED vars
  BY <1>1 DEF vars, KeepsInv, OneMishap, Keeps, Readable, PrimaryContent
<1>2. CASE Next
  <2> SUFFICES ASSUME OneMishap' PROVE Keeps'
    BY DEF KeepsInv
  <2>1. faults + cuts <= faults' + cuts' /\ (overlapped => overlapped')
    BY <1>0, <1>2, MishapsGrow
  <2>2. ~overlapped
    BY <2>1, Zenon DEF OneMishap
  <2>3. faults + cuts <= 1
    <3>1. faults \in Nat /\ cuts \in Nat
      BY <1>0, BoundsAssumption DEF TypeOK
    <3>2. faults' \in Nat /\ cuts' \in Nat
      BY <1>0, <1>2, TypeStep, BoundsAssumption DEF SoundInv, TypeInv, TypeOK
    <3>3. faults' + cuts' <= 1
      BY DEF OneMishap
    <3>4. faults + cuts <= faults' + cuts'
      BY <2>1, Zenon
    <3> QED BY <3>1, <3>2, <3>3, <3>4, AtMostOne
  <2>4. Keeps
    BY <2>2, <2>3 DEF KeepsInv, OneMishap
  <2>5. ASSUME NEW p \in Procs, Crash(p) PROVE Keeps'
    <3>1. /\ UNCHANGED <<Files, backed, faults>> /\ Goto(p, "idle")
          /\ (cuts' = cuts /\ pc[p] # "copying") \/ cuts' = cuts + 1
      BY <2>5 DEF Crash
    <3>2. \A q \in Procs : q # p => fd'[q] = fd[q]
      BY <1>0, <2>5 DEF Crash, TypeOK
    <3>3. "idle" \in Labels \ {"replaced", "copying"} /\ ~Recovering("idle")
      BY DEF Labels, Recovering
    <3> QED BY <1>0, <2>4, <3>1, <3>2, <3>3, QuietKeeps
  <2> QED BY <1>0, <1>2, <2>4, <2>5, KeepsLoad, KeepsSave, KeepsDamage DEF Next
<1> QED BY <1>1, <1>2

\* Nothing is damaged, saved or read at first.
LEMMA KeepsInit == Init => BackedInv /\ Apart /\ KeepsInv
<1> SUFFICES ASSUME Init PROVE BackedInv /\ Apart /\ KeepsInv
  OBVIOUS
<1>1. /\ primary = None /\ bak = Absent /\ saves = 0 /\ backed = 0 /\ faults = 0 /\ cuts = 0
      /\ \A i \in Inodes : data[i] = Torn
      /\ \A p \in Procs : pc[p] = "idle"
  BY DEF Init, Fresh
<1>2. BackedInv
  BY <1>1 DEF BackedInv, Readable, Fresh
<1>3. Apart
  BY <1>1 DEF Apart, Saving
<1>4. ~Readable(PrimaryContent) /\ bak # Torn
  BY <1>1, ValuesAssumption DEF PrimaryContent, Readable
<1>5. Keeps
  BY <1>1, <1>4 DEF Keeps, Recovering
<1> QED BY <1>2, <1>3, <1>5 DEF KeepsInv

\* After at most one mishap a load that returns has no older state than the newest backup.
LEMMA ReturnsNoOlder ==
    ASSUME TypeOK, BackedInv, Apart, KeepsInv, NEW p \in Procs, Returns(p),
           faults + cuts <= 1, ~overlapped'
    PROVE  got'[p] >= backed
<1>1. PICK l \in Labels : Goto(p, l)
  BY SomeGoto DEF Returns, LoadStep
<1>2. pc'[p] = l /\ ~overlapped
  BY <1>1, GotoTyped, GotoApart
<1>3. Keeps
  BY <1>2 DEF KeepsInv, OneMishap
<1>4. backed \in Nat /\ (bak = Absent => backed = 0) /\ (Readable(bak) => bak = backed)
  BY ReadableTyped DEF BackedInv, Fresh
<1>5. pc'[p] \in {"idle", "restore"}
  BY DEF Returns
<1>6. ASSUME NEW c, Return(p, c) PROVE got'[p] = c
  BY <1>6 DEF Return, TypeOK
<1>7. CASE Readable(PrimaryContent) /\ Return(p, PrimaryContent)
  BY <1>3, <1>6, <1>7 DEF Keeps
<1>8. CASE bak = Absent /\ GiveUp(p)
  BY <1>4, <1>6, <1>8 DEF GiveUp, Fresh
<1>9. CASE Readable(bak) /\ Recovered(p)
  BY <1>4, <1>9 DEF Recovered, TypeOK
<1>10. CASE ReadPrimary(p) \/ RetryPrimary(p)
  BY <1>1, <1>2, <1>5, <1>7, <1>8, <1>10, GotoTyped DEF ReadPrimary, RetryPrimary, Labels
<1>11. CASE ReadBackup(p)
  BY <1>5, <1>9, <1>11, GotoTyped DEF ReadBackup, Labels
<1>12. CASE RetryBackup(p)
  <2>1. pc[p] = "bakRetry"
    BY <1>12 DEF RetryBackup
  <2>2. bak # Torn
    BY <1>3, <2>1 DEF Keeps, Recovering
  <2> QED BY <1>8, <1>9, <1>12, <2>2 DEF RetryBackup, Readable
<1> QED BY <1>10, <1>11, <1>12 DEF Returns

\* One damaged file or one copy cut short costs at most the saves whose backup was never
\* completed: in any number of processes, a load returns the state of the newest backup or a
\* newer one, as long as no save ran beside the damage or a recovery.
THEOREM OneMishapSafe == Spec => OneMishapKeepsBackup
<1> DEFINE I == SoundInv /\ BackedInv /\ Apart /\ KeepsInv
<1>1. Init => I
  BY RegisterInit, KeepsInit
<1>2. I /\ [Next]_vars => I'
  <2> SUFFICES ASSUME I, [Next]_vars PROVE I'
    OBVIOUS
  <2>1. TypeOK /\ TypeInv
    BY DEF SoundInv, TypeInv
  <2>2. TypeInv' /\ TypeOK'
    BY <2>1, TypeStep DEF TypeInv
  <2>3. SoundInv'
    BY <2>2, RegisterStep DEF SoundInv
  <2> QED BY <2>1, <2>2, <2>3, BackedStep, ApartStep, KeepsStep
<1>3. I => [\A p \in Procs : faults + cuts <= 1 /\ ~overlapped' /\ Returns(p)
                                => got'[p] >= backed]_vars
  BY ReturnsNoOlder DEF SoundInv, TypeInv
<1> QED BY <1>1, <1>2, <1>3, PTL DEF Spec, OneMishapKeepsBackup

=============================================================================
