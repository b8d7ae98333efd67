------------------------- MODULE MasterCatalogProofs -------------------------
(***************************************************************************)
(* Type correctness of the master catalog, and that its saves keep the     *)
(* newer rows while no page is deleted and the file stays readable.        *)
(***************************************************************************)
EXTENDS MasterCatalog, TLAPS

-----------------------------------------------------------------------------
(* Types *)

Jobs == [kind : Kinds, page : Pages \cup {None}, mtime : Saves,
         todo : SUBSET Pages, dirty : BOOLEAN]

TypeWorld ==
    /\ page \in [Pages -> Saves] /\ saves \in Saves
    /\ restarts \in 0..MaxRestarts /\ corruptions \in 0..MaxCorrupt
    /\ calm \in BOOLEAN

TypeDisk ==
    /\ file \in Files /\ bak \in Files
    /\ flock \in Procs \cup {None}

TypeMemory ==
    /\ rows \in [Procs -> [Pages -> Saves]]
    /\ removals \in [Procs -> SUBSET Pages]
    /\ persist \in [Procs -> BOOLEAN]

TypeKnown ==
    /\ known \subseteq Procs /\ loaded \subseteq Procs
    /\ file = Absent => known = {}

TypeControl == pc \in [Procs -> Labels] /\ job \in [Procs -> Jobs]

\* The types, split by what an action disturbs.
LEMMA TypeParts == TypeOK <=> TypeWorld /\ TypeDisk /\ TypeMemory /\ TypeKnown /\ TypeControl
BY Zenon DEF TypeOK, TypeWorld, TypeDisk, TypeMemory, TypeKnown, TypeControl, Jobs

\* A daemon that stats a page has one to stat.
OnPage == \A q \in Procs : pc[q] = "stat" => job[q].page \in Pages

TypeInv == TypeOK /\ OnPage

LEMMA Contents ==
    /\ NoRows \in [Pages -> Saves]
    /\ Absent \in Files /\ Unreadable \in Files
    /\ \A r \in [Pages -> Saves] : /\ Content("rows", r) \in Files
                                   /\ Content("rows", r) # Absent
                                   /\ Content("rows", r).kind = "rows"
                                   /\ Content("rows", r).rows = r
    /\ \A f \in Files : f.rows \in [Pages -> Saves]
    /\ \A f \in Files : f # Absent /\ f # Unreadable => f.kind = "rows"
    /\ Unreadable # Absent
    /\ Unreadable.kind = "unreadable" /\ Absent.kind = "absent"
    /\ Absent.rows = NoRows /\ Unreadable.rows = NoRows
<1>1. 0 \in Saves
  BY CatalogAssumption DEF Saves
<1>2. NoRows \in [Pages -> Saves]
  BY <1>1 DEF NoRows
<1>3. \A f \in Files : f.rows \in [Pages -> Saves]
  BY <1>2 DEF Files, Content, Absent, Unreadable
<1>4. \A f \in Files : f # Absent /\ f # Unreadable => f.kind = "rows"
  BY DEF Files, Content
<1> QED
  BY <1>2, <1>3, <1>4 DEF Files, Content, Absent, Unreadable

LEMMA JobTypes ==
    /\ NoJob \in Jobs
    /\ \A k \in Kinds : [NoJob EXCEPT !.kind = k] \in Jobs
    /\ \A p \in Pages : [NoJob EXCEPT !.kind = "sync", !.page = p] \in Jobs
    /\ \A j \in Jobs, m \in Saves : [j EXCEPT !.mtime = m] \in Jobs
    /\ \A j \in Jobs, s \in SUBSET Pages, b \in BOOLEAN : [j EXCEPT !.todo = s, !.dirty = b] \in Jobs
<1>1. 0 \in Saves
  BY CatalogAssumption DEF Saves
<1> QED
  BY <1>1 DEF Jobs, NoJob, Kinds

LEMMA TakesType ==
    ASSUME TypeControl, NEW q \in Procs, NEW label \in Labels, NEW j \in Jobs, Takes(q, label, j)
    PROVE  TypeControl'
BY DEF TypeControl, Takes, Goto

LEMMA GotoType ==
    ASSUME TypeControl, NEW q \in Procs, NEW label \in Labels, Goto(q, label), UNCHANGED job
    PROVE  TypeControl'
BY DEF TypeControl, Goto

LEMMA FinishType ==
    ASSUME TypeControl, NEW q \in Procs, Finish(q)
    PROVE  TypeControl'
<1>1. CASE Takes(q, "load", [NoJob EXCEPT !.kind = "prune"])
  <2>1. "load" \in Labels /\ [NoJob EXCEPT !.kind = "prune"] \in Jobs
    BY JobTypes DEF Labels, Kinds
  <2> QED
    BY <1>1, <2>1, TakesType
<1>2. CASE Takes(q, "idle", NoJob)
  <2>1. "idle" \in Labels /\ NoJob \in Jobs
    BY JobTypes DEF Labels
  <2> QED
    BY <1>2, <2>1, TakesType
<1> QED
  BY <1>1, <1>2 DEF Finish

LEMMA BecomesType ==
    ASSUME TypeMemory, NEW q \in Procs, NEW r \in [Pages -> Saves], NEW ok \in BOOLEAN, Becomes(q, r, ok)
    PROVE  TypeMemory'
BY DEF TypeMemory, Becomes

LEMMA UpsertType ==
    ASSUME TypeMemory, NEW q \in Procs, NEW p, NEW m \in Saves, Upsert(q, p, m), UNCHANGED persist
    PROVE  TypeMemory'
BY DEF TypeMemory, Upsert

LEMMA PruneType ==
    ASSUME TypeMemory, NEW q \in Procs, PruneMissing(q), UNCHANGED persist
    PROVE  TypeMemory'
<1>1. 0 \in Saves
  BY CatalogAssumption DEF Saves
<1>2. Ghosts(q) \subseteq Pages
  BY DEF Ghosts
<1>3. rows' \in [Procs -> [Pages -> Saves]]
  BY <1>1 DEF TypeMemory, PruneMissing
<1> QED
  BY <1>2, <1>3 DEF TypeMemory, PruneMissing

LEMMA WriteType ==
    ASSUME TypeOK, NEW q \in Procs, NEW r \in [Pages -> Saves], Write(q, r),
           UNCHANGED <<bak, flock, loaded, persist, job>>
    PROVE  TypeDisk' /\ TypeMemory' /\ TypeKnown' /\ TypeControl'
<1>1. "stamp" \in Labels
  BY DEF Labels
<1>2. TypeControl'
  BY <1>1, TypeParts, GotoType DEF Write
<1>3. TypeDisk'
  BY TypeParts, Contents DEF Write, TypeDisk
<1>4. TypeMemory'
  BY TypeParts DEF Write, TypeMemory
<1>5. TypeKnown'
  BY TypeParts DEF Write, TypeKnown
<1> QED
  BY <1>2, <1>3, <1>4, <1>5

\* The types hold before anything runs.
LEMMA TypeInit == Init => TypeOK
<1> SUFFICES ASSUME Init PROVE TypeOK
  OBVIOUS
<1>1. 0 \in Saves /\ 1 \in Saves
  BY CatalogAssumption DEF Saves
<1>2. TypeWorld
  BY <1>1, CatalogAssumption DEF Init, TypeWorld
<1>3. TypeDisk /\ TypeMemory /\ TypeKnown
  BY Contents DEF Init, TypeDisk, TypeMemory, TypeKnown
<1>4. TypeControl
  BY JobTypes DEF Init, TypeControl, Labels
<1> QED
  BY <1>2, <1>3, <1>4, TypeParts

\* Every step keeps the types.
LEMMA TypeStep == TypeInv /\ [Next]_vars => TypeOK'
<1> SUFFICES ASSUME TypeInv, [Next]_vars PROVE TypeWorld' /\ TypeDisk' /\ TypeMemory' /\ TypeKnown' /\ TypeControl'
  BY Zenon DEF TypeOK, TypeWorld, TypeDisk, TypeMemory, TypeKnown, TypeControl, Jobs
<1> TypeWorld /\ TypeDisk /\ TypeMemory /\ TypeKnown /\ TypeControl
  BY TypeParts DEF TypeInv
<1>world. (UNCHANGED <<world, calm>>) => TypeWorld'
  BY DEF world, TypeWorld
<1>disk. (UNCHANGED disk) => TypeDisk'
  BY DEF disk, TypeDisk
<1>memory. (UNCHANGED <<rows, removals, persist>>) => TypeMemory'
  BY DEF TypeMemory
<1>known. (UNCHANGED <<file, known, loaded>>) => TypeKnown'
  BY DEF TypeKnown
<1>control. (UNCHANGED <<pc, job>>) => TypeControl'
  BY DEF TypeControl
<1>labels. {"idle", "stat", "load", "read", "recover", "quarantine", "copy", "copying",
            "remember", "use", "scan", "save", "stamp"} \subseteq Labels
  BY DEF Labels
<1>job. \A q \in Procs : /\ job[q] \in Jobs /\ job[q].mtime \in Saves
                         /\ job[q].page \in Pages \cup {None} /\ job[q].todo \subseteq Pages
  BY DEF TypeControl, Jobs
<1>1. ASSUME NEW p \in Pages, HumanSave(p) PROVE TypeWorld' /\ TypeDisk' /\ TypeMemory' /\ TypeKnown' /\ TypeControl'
  <2>1. saves + 1 \in Saves
    BY <1>1, CatalogAssumption DEF HumanSave, TypeWorld, Saves
  <2>2. TypeWorld'
    BY <1>1, <2>1 DEF HumanSave, TypeWorld
  <2> QED
    BY <1>1, <2>2, <1>disk, <1>memory, <1>known, <1>control DEF HumanSave, disk, memory
<1>2. ASSUME NEW p \in Pages, HumanDelete(p) PROVE TypeWorld' /\ TypeDisk' /\ TypeMemory' /\ TypeKnown' /\ TypeControl'
  <2>0. calm' \in BOOLEAN
    BY <1>2, Zenon DEF HumanDelete
  <2>1. TypeWorld'
    BY <1>2, <2>0, CatalogAssumption DEF HumanDelete, TypeWorld, Saves
  <2> QED
    BY <1>2, <2>1, <1>disk, <1>memory, <1>known, <1>control DEF HumanDelete, disk, memory
<1>3. ASSUME Corrupt PROVE TypeWorld' /\ TypeDisk' /\ TypeMemory' /\ TypeKnown' /\ TypeControl'
  <2>0. calm' \in BOOLEAN
    BY <1>3, Zenon DEF Corrupt
  <2>1. TypeWorld'
    BY <1>3, <2>0, CatalogAssumption DEF Corrupt, TypeWorld
  <2>2. TypeDisk' /\ TypeKnown'
    BY <1>3, Contents DEF Corrupt, TypeDisk, TypeKnown
  <2> QED
    BY <1>3, <2>1, <2>2, <1>memory, <1>control DEF Corrupt
<1>4. ASSUME NEW q \in Procs, NEW p \in Pages, RobotWrite(q, p)
      PROVE  TypeWorld' /\ TypeDisk' /\ TypeMemory' /\ TypeKnown' /\ TypeControl'
  <2>1. saves + 1 \in Saves
    BY <1>4, CatalogAssumption DEF RobotWrite, TypeWorld, Saves
  <2>2. TypeWorld'
    BY <1>4, <2>1 DEF RobotWrite, TypeWorld
  <2>3. [NoJob EXCEPT !.kind = "sync", !.page = p] \in Jobs
    BY JobTypes
  <2>4. TypeControl'
    BY <1>4, <2>3, <1>labels, TakesType DEF RobotWrite
  <2> QED
    BY <1>4, <2>2, <2>4, <1>disk, <1>memory, <1>known DEF RobotWrite, disk, memory
<1>5. ASSUME NEW q \in Procs, StatPage(q) PROVE TypeWorld' /\ TypeDisk' /\ TypeMemory' /\ TypeKnown' /\ TypeControl'
  <2>1. CASE Takes(q, "idle", NoJob)
    BY <2>1, <1>5, <1>labels, JobTypes, TakesType, <1>world, <1>disk, <1>memory, <1>known DEF StatPage, disk, memory
  <2>2. CASE page[job[q].page] # 0 /\ Takes(q, "load", [job[q] EXCEPT !.mtime = page[job[q].page]])
    <3>1. page[job[q].page] \in Saves
      BY <1>5 DEF TypeWorld, TypeInv, OnPage, StatPage
    <3>2. [job[q] EXCEPT !.mtime = page[job[q].page]] \in Jobs
      BY <3>1, <1>job, JobTypes
    <3>3. TypeControl'
      BY <2>2, <3>2, <1>labels, TakesType
    <3> QED
      BY <3>3, <1>5, <1>world, <1>disk, <1>memory, <1>known DEF StatPage, disk, memory
  <2> QED
    BY <1>5, <2>1, <2>2 DEF StatPage
<1>6. ASSUME NEW q \in Procs, StartHarvest(q) PROVE TypeWorld' /\ TypeDisk' /\ TypeMemory' /\ TypeKnown' /\ TypeControl'
  <2>1. [NoJob EXCEPT !.kind = "harvest"] \in Jobs
    BY JobTypes DEF Kinds
  <2>2. TypeControl'
    BY <1>6, <2>1, <1>labels, TakesType DEF StartHarvest
  <2> QED
    BY <1>6, <2>2, <1>world, <1>disk, <1>memory, <1>known DEF StartHarvest, disk, memory
<1>7. ASSUME NEW q \in Procs, StartPrune(q) \/ StartRead(q)
      PROVE  TypeWorld' /\ TypeDisk' /\ TypeMemory' /\ TypeKnown' /\ TypeControl'
  <2>1. [NoJob EXCEPT !.kind = "prune"] \in Jobs /\ [NoJob EXCEPT !.kind = "read"] \in Jobs
    BY JobTypes DEF Kinds
  <2>2. TypeControl'
    BY <1>7, <2>1, <1>labels, TakesType DEF StartPrune, StartRead
  <2> QED
    BY <1>7, <2>2, <1>world, <1>disk, <1>memory, <1>known DEF StartPrune, StartRead, disk, memory
<1>8. ASSUME NEW q \in Procs, Shutdown(q) PROVE TypeWorld' /\ TypeDisk' /\ TypeMemory' /\ TypeKnown' /\ TypeControl'
  <2>1. [NoJob EXCEPT !.kind = "final"] \in Jobs
    BY JobTypes DEF Kinds
  <2>2. TypeControl'
    BY <1>8, <2>1, <1>labels, TakesType DEF Shutdown
  <2>3. TypeWorld'
    BY <1>8, CatalogAssumption DEF Shutdown, TypeWorld
  <2> QED
    BY <1>8, <2>2, <2>3, <1>disk, <1>memory, <1>known DEF Shutdown, disk, memory
<1>9. ASSUME NEW q \in Procs, Load(q) PROVE TypeWorld' /\ TypeDisk' /\ TypeMemory' /\ TypeKnown' /\ TypeControl'
  <2>1. TypeControl'
    BY <1>9, <1>labels, GotoType DEF Load
  <2>2. TypeMemory'
    BY <1>9, Contents DEF Load, TypeMemory
  <2> QED
    BY <1>9, <2>1, <2>2, <1>world, <1>disk, <1>known DEF Load, disk
<1>10. ASSUME NEW q \in Procs, ReadFile(q) PROVE TypeWorld' /\ TypeDisk' /\ TypeMemory' /\ TypeKnown' /\ TypeControl'
  <2>1. TypeControl'
    BY <1>10, <1>labels, GotoType, FinishType DEF ReadFile
  <2>2. TypeMemory'
    <3>1. file.rows \in [Pages -> Saves]
      BY Contents DEF TypeDisk
    <3> QED
      BY <1>10, <3>1, BecomesType, <1>memory DEF ReadFile
  <2> QED
    BY <1>10, <2>1, <2>2, <1>world, <1>disk, <1>known DEF ReadFile, disk
<1>11. ASSUME NEW q \in Procs, Recover(q) PROVE TypeWorld' /\ TypeDisk' /\ TypeMemory' /\ TypeKnown' /\ TypeControl'
  <2>1. TypeControl'
    BY <1>11, <1>labels, GotoType DEF Recover
  <2>2. TypeMemory'
    <3>1. bak.rows \in [Pages -> Saves]
      BY Contents DEF TypeDisk
    <3> QED
      BY <1>11, <3>1, BecomesType, <1>memory DEF Recover
  <2> QED
    BY <1>11, <2>1, <2>2, <1>world, <1>disk, <1>known DEF Recover, disk
<1>12. ASSUME NEW q \in Procs, Quarantine(q) PROVE TypeWorld' /\ TypeDisk' /\ TypeMemory' /\ TypeKnown' /\ TypeControl'
  <2>1. TypeControl'
    BY <1>12, <1>labels, GotoType DEF Quarantine
  <2>2. TypeMemory'
    BY <1>12, Contents, BecomesType DEF Quarantine
  <2>3. TypeDisk' /\ TypeKnown'
    BY <1>12, Contents DEF Quarantine, TypeDisk, TypeKnown
  <2> QED
    BY <1>12, <2>1, <2>2, <2>3, <1>world DEF Quarantine
<1>13. ASSUME NEW q \in Procs, BeginCopy(q) PROVE TypeWorld' /\ TypeDisk' /\ TypeMemory' /\ TypeKnown' /\ TypeControl'
  <2>1. TypeControl'
    BY <1>13, <1>labels, GotoType DEF BeginCopy
  <2>2. TypeDisk'
    BY <1>13, Contents DEF BeginCopy, TypeDisk
  <2> QED
    BY <1>13, <2>1, <2>2, <1>world, <1>memory, <1>known DEF BeginCopy, memory
<1>14. ASSUME NEW q \in Procs, EndCopy(q) PROVE TypeWorld' /\ TypeDisk' /\ TypeMemory' /\ TypeKnown' /\ TypeControl'
  <2>1. TypeControl'
    BY <1>14, <1>labels, GotoType DEF EndCopy
  <2>2. TypeDisk'
    BY <1>14 DEF EndCopy, TypeDisk
  <2> QED
    BY <1>14, <2>1, <2>2, <1>world, <1>memory, <1>known DEF EndCopy, memory
<1>15. ASSUME NEW q \in Procs, Remember(q) PROVE TypeWorld' /\ TypeDisk' /\ TypeMemory' /\ TypeKnown' /\ TypeControl'
  <2>1. TypeControl'
    BY <1>15, <1>labels, GotoType DEF Remember
  <2>2. TypeKnown'
    BY <1>15 DEF Remember, TypeKnown, Stamped, disk
  <2> QED
    BY <1>15, <2>1, <2>2, <1>world, <1>disk, <1>memory DEF Remember
<1>16. ASSUME NEW q \in Procs, UseRead(q) PROVE TypeWorld' /\ TypeDisk' /\ TypeMemory' /\ TypeKnown' /\ TypeControl'
  <2>1. TypeControl'
    BY <1>16, <1>labels, JobTypes, TakesType DEF UseRead
  <2> QED
    BY <1>16, <2>1, <1>world, <1>disk, <1>memory, <1>known DEF UseRead, disk, memory
<1>17. ASSUME NEW q \in Procs, UseSync(q) PROVE TypeWorld' /\ TypeDisk' /\ TypeMemory' /\ TypeKnown' /\ TypeControl'
  <2>1. TypeControl'
    BY <1>17, <1>labels, GotoType DEF UseSync
  <2>2. TypeMemory'
    BY <1>17, <1>job, UpsertType DEF UseSync
  <2> QED
    BY <1>17, <2>1, <2>2, <1>world, <1>disk, <1>known DEF UseSync, disk
<1>18. ASSUME NEW q \in Procs, UseFinal(q) PROVE TypeWorld' /\ TypeDisk' /\ TypeMemory' /\ TypeKnown' /\ TypeControl'
  <2>1. TypeControl'
    BY <1>18, <1>labels, GotoType DEF UseFinal
  <2> QED
    BY <1>18, <2>1, <1>world, <1>disk, <1>memory, <1>known DEF UseFinal, disk, memory
<1>19. ASSUME NEW q \in Procs, UsePrune(q) PROVE TypeWorld' /\ TypeDisk' /\ TypeMemory' /\ TypeKnown' /\ TypeControl'
  <2>1. TypeControl'
    BY <1>19, <1>labels, JobTypes, GotoType, TakesType DEF UsePrune
  <2>2. TypeMemory'
    BY <1>19, PruneType DEF UsePrune
  <2> QED
    BY <1>19, <2>1, <2>2, <1>world, <1>disk, <1>known DEF UsePrune, disk
<1>20. ASSUME NEW q \in Procs, BeginScan(q) PROVE TypeWorld' /\ TypeDisk' /\ TypeMemory' /\ TypeKnown' /\ TypeControl'
  <2>1. Stale(q) \subseteq Pages /\ Live \subseteq Pages /\ (Ghosts(q) # {}) \in BOOLEAN
    BY Zenon DEF Stale, Live
  <2>2. [job[q] EXCEPT !.todo = Stale(q), !.dirty = Ghosts(q) # {}] \in Jobs
    BY <2>1, <1>job, JobTypes
  <2>3. [job[q] EXCEPT !.todo = Live, !.dirty = TRUE] \in Jobs
    BY <2>1, <1>job, JobTypes
  <2>4. TypeControl'
    BY <1>20, <2>2, <2>3, <1>labels, TakesType DEF BeginScan
  <2>5. TypeMemory'
    BY <1>20, PruneType DEF BeginScan
  <2> QED
    BY <1>20, <2>4, <2>5, <1>world, <1>disk, <1>known DEF BeginScan, disk
<1>21. ASSUME NEW q \in Procs, NEW p \in Pages, HarvestPage(q, p) PROVE TypeWorld' /\ TypeDisk' /\ TypeMemory' /\ TypeKnown' /\ TypeControl'
  <2>1. TypeControl'
    BY <1>21 DEF HarvestPage, TypeControl, Jobs
  <2>2. 0 \in Saves /\ page[p] \in Saves
    BY CatalogAssumption DEF Saves, TypeWorld
  <2>3. TypeMemory'
    <3>1. CASE page[p] # 0
      BY <1>21, <2>2, <3>1, UpsertType DEF HarvestPage
    <3>2. CASE page[p] = 0
      <4>1. rows' = [rows EXCEPT ![q][p] = 0]
        BY <1>21, <3>2 DEF HarvestPage
      <4>2. removals' = [removals EXCEPT ![q] = @ \cup {p}] /\ persist' = persist
        BY <1>21, <3>2 DEF HarvestPage
      <4> QED
        BY <2>2, <4>1, <4>2 DEF TypeMemory
    <3> QED
      BY <3>1, <3>2
  <2> QED
    BY <1>21, <2>1, <2>3, <1>world, <1>disk, <1>known DEF HarvestPage, disk
<1>22. ASSUME NEW q \in Procs, EndScan(q) PROVE TypeWorld' /\ TypeDisk' /\ TypeMemory' /\ TypeKnown' /\ TypeControl'
  <2>1. TypeControl'
    BY <1>22, <1>labels, GotoType, FinishType DEF EndScan
  <2> QED
    BY <1>22, <2>1, <1>world, <1>disk, <1>memory, <1>known DEF EndScan, disk, memory
<1>23. ASSUME NEW q \in Procs, SaveRefused(q) PROVE TypeWorld' /\ TypeDisk' /\ TypeMemory' /\ TypeKnown' /\ TypeControl'
  <2>1. TypeControl'
    BY <1>23, FinishType DEF SaveRefused
  <2> QED
    BY <1>23, <2>1, <1>world, <1>disk, <1>memory, <1>known DEF SaveRefused, disk, memory
<1>24. ASSUME NEW q \in Procs, SaveMerge(q) PROVE TypeWorld' /\ TypeDisk' /\ TypeMemory' /\ TypeKnown' /\ TypeControl'
  <2>1. Merged(q) \in [Pages -> Saves]
    BY Contents, CatalogAssumption DEF Merged, TypeDisk, TypeMemory, Saves
  <2>2. TypeDisk' /\ TypeMemory' /\ TypeKnown' /\ TypeControl'
    BY <1>24, <2>1, WriteType DEF SaveMerge, TypeInv
  <2> QED
    BY <1>24, <2>2, <1>world DEF SaveMerge
<1>25. ASSUME NEW q \in Procs, SaveAborts(q) PROVE TypeWorld' /\ TypeDisk' /\ TypeMemory' /\ TypeKnown' /\ TypeControl'
  <2>1. TypeControl'
    BY <1>25, FinishType DEF SaveAborts
  <2>2. TypeDisk' /\ TypeKnown'
    BY <1>25, Contents DEF SaveAborts, TypeDisk, TypeKnown
  <2>3. persist' \in [Procs -> BOOLEAN]
    BY <1>25 DEF SaveAborts, TypeMemory
  <2> QED
    BY <1>25, <2>1, <2>2, <2>3, <1>world DEF SaveAborts, TypeMemory
<1>26. ASSUME NEW q \in Procs, SaveReplace(q) PROVE TypeWorld' /\ TypeDisk' /\ TypeMemory' /\ TypeKnown' /\ TypeControl'
  <2>1. rows[q] \in [Pages -> Saves]
    BY DEF TypeMemory
  <2>2. TypeDisk' /\ TypeMemory' /\ TypeKnown' /\ TypeControl'
    BY <1>26, <2>1, WriteType DEF SaveReplace, TypeInv
  <2> QED
    BY <1>26, <2>2, <1>world DEF SaveReplace
<1>27. ASSUME NEW q \in Procs, Stamp(q) PROVE TypeWorld' /\ TypeDisk' /\ TypeMemory' /\ TypeKnown' /\ TypeControl'
  <2>1. TypeControl'
    BY <1>27, FinishType DEF Stamp
  <2>2. TypeKnown'
    BY <1>27 DEF Stamp, TypeKnown, Stamped, disk
  <2> QED
    BY <1>27, <2>1, <2>2, <1>world, <1>disk, <1>memory DEF Stamp
<1>28. ASSUME NEW q \in Procs, Crash(q) PROVE TypeWorld' /\ TypeDisk' /\ TypeMemory' /\ TypeKnown' /\ TypeControl'
  <2>1. TypeControl'
    BY <1>28, <1>labels, JobTypes, TakesType DEF Crash
  <2>2. TypeWorld'
    BY <1>28, CatalogAssumption DEF Crash, TypeWorld
  <2>3. TypeDisk' /\ TypeKnown'
    BY <1>28 DEF Crash, TypeDisk, TypeKnown
  <2>4. TypeMemory'
    BY <1>28, Contents DEF Crash, TypeMemory
  <2> QED
    BY <2>1, <2>2, <2>3, <2>4
<1>29. CASE UNCHANGED vars
  BY <1>29, <1>world, <1>disk, <1>memory, <1>known, <1>control DEF vars, world, disk
<1> QED
  BY <1>1, <1>2, <1>3, <1>4, <1>5, <1>6, <1>7, <1>8, <1>9, <1>10, <1>11, <1>12, <1>13, <1>14, <1>15, <1>16, <1>17, <1>18, <1>19, <1>20, <1>21, <1>22, <1>23, <1>24, <1>25, <1>26, <1>27, <1>28, <1>29 DEF TypeInv, Next, Step

\* Only a daemon that has written a page goes to stat one.
LEMMA StatsPage ==
    ASSUME TypeOK, OnPage, NEW q \in Procs, pc' = [pc EXCEPT ![q] = pc'[q]],
           pc'[q] = "stat" => job'[q].page \in Pages,
           \A r \in Procs \ {q} : job'[r] = job[r]
    PROVE  OnPage'
BY DEF TypeOK, OnPage

\* Every step keeps that who works on a page has one.
LEMMA OnPageStep == TypeInv /\ [Next]_vars => OnPage'
<1> SUFFICES ASSUME TypeInv, [Next]_vars PROVE OnPage'
  OBVIOUS
<1> TypeOK /\ OnPage
  BY DEF TypeInv
<1>0. (UNCHANGED <<pc, job>>) => OnPage'
  BY DEF OnPage
<1>1. ASSUME NEW p \in Pages, HumanSave(p) \/ HumanDelete(p) PROVE OnPage'
  BY <1>1, <1>0 DEF HumanSave, HumanDelete
<1>2. ASSUME Corrupt PROVE OnPage'
  BY <1>2, <1>0 DEF Corrupt
<1>3. ASSUME NEW q \in Procs, NEW p \in Pages, RobotWrite(q, p) PROVE OnPage'
  BY <1>3, StatsPage DEF RobotWrite, Takes, Goto, NoJob, TypeOK
<1>4. ASSUME NEW q \in Procs, NEW p \in Pages, HarvestPage(q, p) PROVE OnPage'
  BY <1>4 DEF HarvestPage, TypeOK, OnPage
<1>5. ASSUME NEW q \in Procs, StatPage(q) PROVE OnPage'
  BY <1>5, StatsPage DEF StatPage, Takes, Goto, Finish, Write, TypeOK
<1>6. ASSUME NEW q \in Procs, StartHarvest(q) PROVE OnPage'
  BY <1>6, StatsPage DEF StartHarvest, Takes, Goto, Finish, Write, TypeOK
<1>7. ASSUME NEW q \in Procs, StartPrune(q) \/ StartRead(q) PROVE OnPage'
  BY <1>7, StatsPage DEF StartPrune, StartRead, Takes, Goto, Finish, Write, TypeOK
<1>8. ASSUME NEW q \in Procs, Shutdown(q) PROVE OnPage'
  BY <1>8, StatsPage DEF Shutdown, Takes, Goto, Finish, Write, TypeOK
<1>9. ASSUME NEW q \in Procs, Load(q) PROVE OnPage'
  BY <1>9, StatsPage DEF Load, Takes, Goto, Finish, Write, TypeOK
<1>10. ASSUME NEW q \in Procs, ReadFile(q) PROVE OnPage'
  BY <1>10, StatsPage DEF ReadFile, Takes, Goto, Finish, Write, TypeOK
<1>11. ASSUME NEW q \in Procs, Recover(q) PROVE OnPage'
  BY <1>11, StatsPage DEF Recover, Takes, Goto, Finish, Write, TypeOK
<1>12. ASSUME NEW q \in Procs, Quarantine(q) PROVE OnPage'
  BY <1>12, StatsPage DEF Quarantine, Takes, Goto, Finish, Write, TypeOK
<1>13. ASSUME NEW q \in Procs, BeginCopy(q) PROVE OnPage'
  BY <1>13, StatsPage DEF BeginCopy, Takes, Goto, Finish, Write, TypeOK
<1>14. ASSUME NEW q \in Procs, EndCopy(q) PROVE OnPage'
  BY <1>14, StatsPage DEF EndCopy, Takes, Goto, Finish, Write, TypeOK
<1>15. ASSUME NEW q \in Procs, Remember(q) PROVE OnPage'
  BY <1>15, StatsPage DEF Remember, Takes, Goto, Finish, Write, TypeOK
<1>16. ASSUME NEW q \in Procs, UseRead(q) PROVE OnPage'
  BY <1>16, StatsPage DEF UseRead, Takes, Goto, Finish, Write, TypeOK
<1>17. ASSUME NEW q \in Procs, UseSync(q) PROVE OnPage'
  BY <1>17, StatsPage DEF UseSync, Takes, Goto, Finish, Write, TypeOK
<1>18. ASSUME NEW q \in Procs, UseFinal(q) PROVE OnPage'
  BY <1>18, StatsPage DEF UseFinal, Takes, Goto, Finish, Write, TypeOK
<1>19. ASSUME NEW q \in Procs, UsePrune(q) PROVE OnPage'
  BY <1>19, StatsPage DEF UsePrune, Takes, Goto, Finish, Write, TypeOK
<1>20. ASSUME NEW q \in Procs, BeginScan(q) PROVE OnPage'
  BY <1>20, StatsPage DEF BeginScan, Takes, Goto, Finish, Write, TypeOK
<1>21. ASSUME NEW q \in Procs, EndScan(q) PROVE OnPage'
  BY <1>21, StatsPage DEF EndScan, Takes, Goto, Finish, Write, TypeOK
<1>22. ASSUME NEW q \in Procs, SaveRefused(q) PROVE OnPage'
  BY <1>22, StatsPage DEF SaveRefused, Takes, Goto, Finish, Write, TypeOK
<1>23. ASSUME NEW q \in Procs, SaveMerge(q) PROVE OnPage'
  BY <1>23, StatsPage DEF SaveMerge, Takes, Goto, Finish, Write, TypeOK
<1>24. ASSUME NEW q \in Procs, SaveAborts(q) PROVE OnPage'
  BY <1>24, StatsPage DEF SaveAborts, Takes, Goto, Finish, Write, TypeOK
<1>25. ASSUME NEW q \in Procs, SaveReplace(q) PROVE OnPage'
  BY <1>25, StatsPage DEF SaveReplace, Takes, Goto, Finish, Write, TypeOK
<1>26. ASSUME NEW q \in Procs, Stamp(q) PROVE OnPage'
  BY <1>26, StatsPage DEF Stamp, Takes, Goto, Finish, Write, TypeOK
<1>27. ASSUME NEW q \in Procs, Crash(q) PROVE OnPage'
  BY <1>27, StatsPage DEF Crash, Takes, Goto, Finish, Write, TypeOK
<1> QED
  BY <1>0, <1>1, <1>2, <1>3, <1>4, <1>5, <1>6, <1>7, <1>8, <1>9, <1>10, <1>11, <1>12, <1>13, <1>14, <1>15, <1>16, <1>17, <1>18, <1>19, <1>20, <1>21, <1>22, <1>23, <1>24, <1>25, <1>26, <1>27 DEF Next, Step, vars

\* Type correctness, for any processes and pages: the file and the backup hold a
\* catalog or are recognisably none, and no process takes a missing file for the
\* one it has loaded.
THEOREM TypeCorrect == Spec => []TypeOK
<1>1. Init => TypeInv
  BY TypeInit DEF Init, TypeInv, OnPage
<1>2. TypeInv /\ [Next]_vars => TypeInv'
  BY TypeStep, OnPageStep DEF TypeInv
<1>3. TypeInv => TypeOK
  BY DEF TypeInv
<1> QED
  BY <1>1, <1>2, <1>3, PTL DEF Spec

-----------------------------------------------------------------------------
(* Saves keep rows *)

\* The file can be read and has rows of pages that are there.
CalmFile == file # Unreadable /\ \A p \in Pages : file.rows[p] # 0 => page[p] # 0

\* So has every copy of it, and no removal is queued.
CalmMemory ==
    \A q \in Procs : removals[q] = {} /\ \A p \in Pages : rows[q][p] # 0 => page[p] # 0

\* Nobody recovers, works on a page that is gone, or replaces the file.
CalmControl ==
    \A q \in Procs : /\ pc[q] \notin {"recover", "quarantine"}
                     /\ job[q].todo \subseteq Live
                     /\ job[q].kind = "sync" => job[q].page \in Live
                     /\ pc[q] \in {"scan", "save"} => job[q].kind # "prune"

CalmInv == calm => CalmFile /\ CalmMemory /\ CalmControl

\* The calm invariant holds before anything runs.
LEMMA CalmInit == Init => CalmInv
<1> SUFFICES ASSUME Init PROVE CalmFile /\ CalmMemory /\ CalmControl
  BY DEF CalmInv
<1>1. CalmFile
  BY Contents DEF Init, CalmFile, NoRows
<1>2. CalmMemory
  BY DEF Init, CalmMemory, NoRows
<1>3. CalmControl
  BY DEF Init, CalmControl, NoJob
<1> QED
  BY <1>1, <1>2, <1>3

\* A process takes a label and a job that need no page.
LEMMA CalmTakes ==
    ASSUME TypeOK, CalmControl, NEW q \in Procs, NEW label, NEW j, Takes(q, label, j),
           label \notin {"recover", "quarantine", "save"}, label = "scan" => j.kind # "prune",
           j.todo \subseteq Live,
           j.kind = "sync" => j.page \in Live, UNCHANGED page
    PROVE  CalmControl'
BY DEF TypeOK, CalmControl, Takes, Goto, Live

LEMMA CalmGoto ==
    ASSUME TypeOK, CalmControl, NEW q \in Procs, NEW label, Goto(q, label),
           label \notin {"recover", "quarantine"}, label \in {"scan", "save"} => job[q].kind # "prune",
           UNCHANGED <<page, job>>
    PROVE  CalmControl'
BY DEF TypeOK, CalmControl, Goto, Live

LEMMA CalmFinish ==
    ASSUME TypeOK, CalmControl, NEW q \in Procs, Finish(q), UNCHANGED page
    PROVE  CalmControl'
<1>1. CASE Takes(q, "load", [NoJob EXCEPT !.kind = "prune"])
  BY <1>1, CalmTakes DEF NoJob
<1>2. CASE Takes(q, "idle", NoJob)
  BY <1>2, CalmTakes DEF NoJob
<1> QED
  BY <1>1, <1>2 DEF Finish

\* While it is calm there is nothing to prune.
LEMMA CalmPrune ==
    ASSUME TypeOK, CalmMemory, NEW q \in Procs
    PROVE  /\ Ghosts(q) = {}
           /\ PruneMissing(q) /\ UNCHANGED page => CalmMemory'
<1>1. Ghosts(q) = {}
  BY DEF CalmMemory, Ghosts, Live
<1>2. ASSUME PruneMissing(q), UNCHANGED page PROVE CalmMemory'
  BY <1>1, <1>2 DEF TypeOK, CalmMemory, PruneMissing, Live
<1> QED
  BY <1>1, <1>2

\* A merge keeps the larger row of the two.
LEMMA CalmMerge ==
    ASSUME TypeOK, CalmFile, CalmMemory, NEW q \in Procs
    PROVE  \A p \in Pages : /\ Merged(q)[p] >= file.rows[p]
                            /\ Merged(q)[p] # 0 => page[p] # 0
<1> SUFFICES ASSUME NEW p \in Pages
             PROVE  Merged(q)[p] >= file.rows[p] /\ (Merged(q)[p] # 0 => page[p] # 0)
  OBVIOUS
<1>1. file.rows \in [Pages -> Saves] /\ rows[q] \in [Pages -> Saves] /\ Saves \subseteq Nat
  BY Contents DEF TypeOK, Saves
<1>2. file.rows[p] \in Nat /\ rows[q][p] \in Nat
  BY <1>1
<1>3. Merged(q)[p] = IF rows[q][p] >= file.rows[p] THEN rows[q][p] ELSE file.rows[p]
  BY DEF CalmMemory, Merged
<1> QED
  BY <1>2, <1>3 DEF CalmFile, CalmMemory

LEMMA CalmWrite ==
    ASSUME TypeOK, CalmMemory, CalmControl, NEW q \in Procs, NEW r \in [Pages -> Saves], Write(q, r),
           \A p \in Pages : r[p] # 0 => page[p] # 0, UNCHANGED <<page, job>>
    PROVE  CalmFile' /\ CalmMemory' /\ CalmControl'
<1>1. CalmFile'
  BY Contents DEF Write, CalmFile
<1>2. CalmMemory'
  BY DEF TypeOK, CalmMemory, Write
<1>3. CalmControl'
  BY CalmGoto DEF Write
<1> QED
  BY <1>1, <1>2, <1>3

\* A save of a page changes nothing else.
LEMMA CalmSave ==
    ASSUME TypeOK, CalmFile, CalmMemory, CalmControl, NEW p \in Pages, page' = [page EXCEPT ![p] = saves + 1]
    PROVE  /\ \A x \in Pages : page[x] # 0 => page'[x] # 0
           /\ Live \subseteq Live' /\ p \in Live'
<1> saves + 1 # 0
  BY DEF TypeOK, Saves
<1> QED
  BY DEF TypeOK, Live

\* Every step keeps it.
LEMMA CalmStep == TypeInv /\ CalmInv /\ [Next]_vars => CalmInv'
<1> SUFFICES ASSUME TypeInv, CalmInv, [Next]_vars, calm' PROVE CalmFile' /\ CalmMemory' /\ CalmControl'
  BY DEF CalmInv
<1> TypeOK
  BY DEF TypeInv
<1>file. CalmFile /\ (UNCHANGED <<page, file>>) => CalmFile'
  BY DEF CalmFile
<1>memory. CalmMemory /\ (UNCHANGED <<page, rows, removals>>) => CalmMemory'
  BY DEF CalmMemory
<1>control. CalmControl /\ (UNCHANGED <<page, pc, job>>) => CalmControl'
  BY DEF CalmControl, Live
<1>calm. calm => CalmFile /\ CalmMemory /\ CalmControl
  BY DEF CalmInv
<1>1. ASSUME NEW p \in Pages, HumanSave(p) PROVE CalmFile' /\ CalmMemory' /\ CalmControl'
  <2>1. CalmFile /\ CalmMemory /\ CalmControl
    BY <1>1, <1>calm DEF HumanSave
  <2>2. (\A x \in Pages : page[x] # 0 => page'[x] # 0) /\ Live \subseteq Live'
    BY <1>1, <2>1, CalmSave DEF HumanSave
  <2> QED
    BY <1>1, <2>1, <2>2, Zenon DEF HumanSave, CalmFile, CalmMemory, CalmControl, disk, memory
<1>2. ASSUME NEW p \in Pages, HumanDelete(p) PROVE CalmFile' /\ CalmMemory' /\ CalmControl'
  BY <1>2 DEF HumanDelete
<1>3. ASSUME Corrupt PROVE CalmFile' /\ CalmMemory' /\ CalmControl'
  BY <1>3 DEF Corrupt
<1>4. ASSUME NEW q \in Procs, NEW p \in Pages, RobotWrite(q, p) PROVE CalmFile' /\ CalmMemory' /\ CalmControl'
  <2>1. CalmFile /\ CalmMemory /\ CalmControl
    BY <1>4, <1>calm DEF RobotWrite
  <2>2. (\A x \in Pages : page[x] # 0 => page'[x] # 0) /\ Live \subseteq Live' /\ p \in Live'
    BY <1>4, <2>1, CalmSave DEF RobotWrite
  <2>3. CalmFile' /\ CalmMemory'
    BY <1>4, <2>1, <2>2, Zenon DEF RobotWrite, CalmFile, CalmMemory, disk, memory
  <2>4. CalmControl'
    BY <1>4, <2>1, <2>2 DEF RobotWrite, CalmControl, Takes, Goto, NoJob, TypeOK
  <2> QED
    BY <2>3, <2>4
<1>5. ASSUME NEW q \in Procs, StatPage(q) PROVE CalmFile' /\ CalmMemory' /\ CalmControl'
  <2>1. CalmFile /\ CalmMemory /\ CalmControl
    BY <1>5, <1>calm DEF StatPage
  <2>2. CASE Takes(q, "idle", NoJob)
    BY <1>5, <2>1, <2>2, CalmTakes, <1>file, <1>memory DEF StatPage, NoJob, world, disk, memory
  <2>3. CASE Takes(q, "load", [job[q] EXCEPT !.mtime = page[job[q].page]])
    <3> DEFINE j == [job[q] EXCEPT !.mtime = page[job[q].page]]
    <3>1. j.todo = job[q].todo /\ j.kind = job[q].kind /\ j.page = job[q].page
      BY DEF TypeOK
    <3>2. /\ j.todo \subseteq Live /\ (j.kind = "sync" => j.page \in Live)
          /\ UNCHANGED page
      BY <1>5, <2>1, <3>1 DEF StatPage, CalmControl, world
    <3>3. CalmControl'
      <4>1. Takes(q, "load", j)
        BY <2>3
      <4> HIDE DEF j
      <4> QED
        BY <2>1, <3>2, <4>1, CalmTakes
    <3> QED
      BY <1>5, <2>1, <3>3, <1>file, <1>memory DEF StatPage, world, disk, memory
  <2> QED
    BY <1>5, <2>2, <2>3 DEF StatPage
<1>6. ASSUME NEW q \in Procs, StartHarvest(q) PROVE CalmFile' /\ CalmMemory' /\ CalmControl'
  <2>1. CalmFile /\ CalmMemory /\ CalmControl
    BY <1>6, <1>calm DEF StartHarvest
  <2>2. CalmControl'
    BY <1>6, <2>1, CalmTakes DEF StartHarvest, world, NoJob
  <2> QED
    BY <1>6, <2>1, <2>2, <1>file, <1>memory DEF StartHarvest, world, disk, memory
<1>7. ASSUME NEW q \in Procs, StartPrune(q) \/ StartRead(q) PROVE CalmFile' /\ CalmMemory' /\ CalmControl'
  <2>1. CalmFile /\ CalmMemory /\ CalmControl
    BY <1>7, <1>calm DEF StartPrune, StartRead
  <2>2. CalmControl'
    <3>1. CASE StartPrune(q)
      BY <3>1, <2>1, CalmTakes DEF StartPrune, world, NoJob
    <3>2. CASE StartRead(q)
      BY <3>2, <2>1, CalmTakes DEF StartRead, world, NoJob
    <3> QED BY <1>7, <3>1, <3>2
  <2> QED
    BY <1>7, <2>1, <2>2, <1>file, <1>memory DEF StartPrune, StartRead, world, disk, memory
<1>8. ASSUME NEW q \in Procs, Shutdown(q) PROVE CalmFile' /\ CalmMemory' /\ CalmControl'
  <2>1. CalmFile /\ CalmMemory /\ CalmControl
    BY <1>8, <1>calm DEF Shutdown
  <2>2. CalmControl'
    BY <1>8, <2>1, CalmTakes DEF Shutdown, NoJob
  <2> QED
    BY <1>8, <2>1, <2>2, <1>file, <1>memory DEF Shutdown, world, disk, memory
<1>9. ASSUME NEW q \in Procs, Load(q) PROVE CalmFile' /\ CalmMemory' /\ CalmControl'
  <2>1. CalmFile /\ CalmMemory /\ CalmControl
    BY <1>9, <1>calm DEF Load
  <2>2. CalmControl'
    BY <1>9, <2>1, CalmGoto DEF Load, world
  <2>3. CalmMemory'
    <3>1. CASE UNCHANGED <<rows, removals>>
      BY <1>9, <2>1, <3>1, <1>memory DEF Load, world
    <3>2. CASE rows' = [rows EXCEPT ![q] = NoRows] /\ removals' = [removals EXCEPT ![q] = {}]
      BY <1>9, <2>1, <3>2 DEF Load, CalmMemory, world, NoRows, TypeOK
    <3> QED
      BY <1>9, <3>1, <3>2 DEF Load
  <2> QED
    BY <1>9, <2>1, <2>2, <2>3, <1>file DEF Load, world, disk
<1>10. ASSUME NEW q \in Procs, ReadFile(q) PROVE CalmFile' /\ CalmMemory' /\ CalmControl'
  <2>1. CalmFile /\ CalmMemory /\ CalmControl
    BY <1>10, <1>calm DEF ReadFile
  <2>2. CalmControl'
    BY <1>10, <2>1, CalmGoto, CalmFinish DEF ReadFile, world, CalmFile
  <2>3. CalmMemory'
    <3>1. CASE UNCHANGED <<rows, removals>>
      BY <1>10, <2>1, <3>1, <1>memory DEF ReadFile, world
    <3>2. CASE Becomes(q, file.rows, TRUE)
      BY <1>10, <2>1, <3>2 DEF ReadFile, Becomes, CalmFile, CalmMemory, world, TypeOK
    <3> QED
      BY <1>10, <3>1, <3>2 DEF ReadFile
  <2> QED
    BY <1>10, <2>1, <2>2, <2>3, <1>file DEF ReadFile, world, disk
<1>11. ASSUME NEW q \in Procs, Recover(q) PROVE CalmFile' /\ CalmMemory' /\ CalmControl'
  BY <1>11, <1>calm DEF Recover, CalmControl
<1>12. ASSUME NEW q \in Procs, Quarantine(q) PROVE CalmFile' /\ CalmMemory' /\ CalmControl'
  BY <1>12, <1>calm DEF Quarantine, CalmControl
<1>13. ASSUME NEW q \in Procs, BeginCopy(q) PROVE CalmFile' /\ CalmMemory' /\ CalmControl'
  <2>1. CalmFile /\ CalmMemory /\ CalmControl
    BY <1>13, <1>calm DEF BeginCopy
  <2>2. CalmControl'
    BY <1>13, <2>1, CalmGoto DEF BeginCopy, world
  <2> QED
    BY <1>13, <2>1, <2>2, <1>file, <1>memory DEF BeginCopy, world, memory
<1>14. ASSUME NEW q \in Procs, EndCopy(q) PROVE CalmFile' /\ CalmMemory' /\ CalmControl'
  <2>1. CalmFile /\ CalmMemory /\ CalmControl
    BY <1>14, <1>calm DEF EndCopy
  <2>2. CalmControl'
    BY <1>14, <2>1, CalmGoto DEF EndCopy, world
  <2> QED
    BY <1>14, <2>1, <2>2, <1>file, <1>memory DEF EndCopy, world, disk, memory
<1>15. ASSUME NEW q \in Procs, Remember(q) PROVE CalmFile' /\ CalmMemory' /\ CalmControl'
  <2>1. CalmFile /\ CalmMemory /\ CalmControl
    BY <1>15, <1>calm DEF Remember
  <2>2. CalmControl'
    BY <1>15, <2>1, CalmGoto DEF Remember, world
  <2> QED
    BY <1>15, <2>1, <2>2, <1>file, <1>memory DEF Remember, world, disk, memory
<1>16. ASSUME NEW q \in Procs, UseRead(q) PROVE CalmFile' /\ CalmMemory' /\ CalmControl'
  <2>1. CalmFile /\ CalmMemory /\ CalmControl
    BY <1>16, <1>calm DEF UseRead
  <2>2. CalmControl'
    BY <1>16, <2>1, CalmTakes DEF UseRead, world, NoJob
  <2> QED
    BY <1>16, <2>1, <2>2, <1>file, <1>memory DEF UseRead, world, disk, memory
<1>17. ASSUME NEW q \in Procs, UseSync(q) PROVE CalmFile' /\ CalmMemory' /\ CalmControl'
  <2>1. CalmFile /\ CalmMemory /\ CalmControl
    BY <1>17, <1>calm DEF UseSync
  <2>2. CalmControl'
    BY <1>17, <2>1, CalmGoto DEF UseSync, world
  <2>3. page[job[q].page] # 0
    BY <1>17, <2>1 DEF UseSync, CalmControl, Live
  <2>4. CalmMemory'
    BY <1>17, <2>1, <2>3 DEF UseSync, Upsert, CalmMemory, world, TypeOK
  <2> QED
    BY <1>17, <2>1, <2>2, <2>4, <1>file DEF UseSync, world, disk
<1>18. ASSUME NEW q \in Procs, UseFinal(q) PROVE CalmFile' /\ CalmMemory' /\ CalmControl'
  <2>1. CalmFile /\ CalmMemory /\ CalmControl
    BY <1>18, <1>calm DEF UseFinal
  <2>2. CalmControl'
    BY <1>18, <2>1, CalmGoto DEF UseFinal, world
  <2> QED
    BY <1>18, <2>1, <2>2, <1>file, <1>memory DEF UseFinal, world, disk, memory
<1>19. ASSUME NEW q \in Procs, UsePrune(q) PROVE CalmFile' /\ CalmMemory' /\ CalmControl'
  <2>1. CalmFile /\ CalmMemory /\ CalmControl
    BY <1>19, <1>calm DEF UsePrune
  <2>2. CalmControl'
    BY <1>19, <2>1, CalmPrune, CalmTakes DEF UsePrune, world, NoJob
  <2>3. CalmMemory'
    BY <1>19, <2>1, CalmPrune DEF UsePrune, world
  <2> QED
    BY <1>19, <2>1, <2>2, <2>3, <1>file DEF UsePrune, world, disk
<1>20. ASSUME NEW q \in Procs, BeginScan(q) PROVE CalmFile' /\ CalmMemory' /\ CalmControl'
  <2>1. CalmFile /\ CalmMemory /\ CalmControl
    BY <1>20, <1>calm DEF BeginScan
  <2>2. Stale(q) \subseteq Live
    BY DEF Stale
  <2>3. CalmControl'
    <3>1. PICK s \in SUBSET Live, b \in BOOLEAN : Takes(q, "scan", [job[q] EXCEPT !.todo = s, !.dirty = b])
      BY <1>20, <2>2, Zenon DEF BeginScan
    <3> DEFINE j == [job[q] EXCEPT !.todo = s, !.dirty = b]
    <3>2. j.todo = s /\ j.kind = job[q].kind /\ j.kind = "harvest"
      BY <1>20 DEF BeginScan, TypeOK
    <3>3. /\ j.todo \subseteq Live /\ j.kind # "prune" /\ j.kind # "sync"
          /\ UNCHANGED page
      BY <1>20, <3>2 DEF BeginScan, world
    <3>4. Takes(q, "scan", j)
      BY <3>1
    <3> HIDE DEF j
    <3> QED
      BY <2>1, <3>3, <3>4, CalmTakes
  <2>4. CalmMemory'
    BY <1>20, <2>1, CalmPrune DEF BeginScan, world
  <2> QED
    BY <1>20, <2>1, <2>3, <2>4, <1>file DEF BeginScan, world, disk
<1>21. ASSUME NEW q \in Procs, NEW p \in Pages, HarvestPage(q, p) PROVE CalmFile' /\ CalmMemory' /\ CalmControl'
  <2>1. CalmFile /\ CalmMemory /\ CalmControl
    BY <1>21, <1>calm DEF HarvestPage
  <2>2. page[p] # 0
    BY <1>21, <2>1 DEF HarvestPage, CalmControl, Live
  <2>3. CalmControl'
    BY <1>21, <2>1 DEF HarvestPage, CalmControl, Live, world, TypeOK
  <2>4. CalmMemory'
    <3>1. Upsert(q, p, page[p]) /\ page' = page
      BY <1>21, <2>2 DEF HarvestPage, world
    <3> QED
      BY <2>1, <2>2, <3>1 DEF Upsert, CalmMemory, TypeOK
  <2> QED
    BY <1>21, <2>1, <2>3, <2>4, <1>file DEF HarvestPage, world, disk
<1>22. ASSUME NEW q \in Procs, EndScan(q) PROVE CalmFile' /\ CalmMemory' /\ CalmControl'
  <2>1. CalmFile /\ CalmMemory /\ CalmControl
    BY <1>22, <1>calm DEF EndScan
  <2>2. job[q].kind # "prune"
    BY <1>22, <2>1 DEF EndScan, CalmControl
  <2>3. CalmControl'
    BY <1>22, <2>1, <2>2, CalmGoto, CalmFinish DEF EndScan, world
  <2> QED
    BY <1>22, <2>1, <2>3, <1>file, <1>memory DEF EndScan, world, disk, memory
<1>23. ASSUME NEW q \in Procs, SaveRefused(q) PROVE CalmFile' /\ CalmMemory' /\ CalmControl'
  <2>1. CalmFile /\ CalmMemory /\ CalmControl
    BY <1>23, <1>calm DEF SaveRefused
  <2>2. CalmControl'
    BY <1>23, <2>1, CalmFinish DEF SaveRefused, world
  <2> QED
    BY <1>23, <2>1, <2>2, <1>file, <1>memory DEF SaveRefused, world, disk, memory
<1>24. ASSUME NEW q \in Procs, SaveMerge(q) PROVE CalmFile' /\ CalmMemory' /\ CalmControl'
  <2>1. CalmFile /\ CalmMemory /\ CalmControl
    BY <1>24, <1>calm DEF SaveMerge
  <2>2. Merged(q) \in [Pages -> Saves]
    <3>1. file.rows \in [Pages -> Saves] /\ rows[q] \in [Pages -> Saves] /\ 0 \in Saves
      BY Contents, CatalogAssumption DEF TypeOK, Saves
    <3> QED
      BY <3>1 DEF Merged
  <2> QED
    BY <1>24, <2>1, <2>2, CalmMerge, CalmWrite DEF SaveMerge, world
<1>25. ASSUME NEW q \in Procs, SaveAborts(q) PROVE CalmFile' /\ CalmMemory' /\ CalmControl'
  BY <1>25, <1>calm DEF SaveAborts, CalmFile
<1>26. ASSUME NEW q \in Procs, SaveReplace(q) PROVE CalmFile' /\ CalmMemory' /\ CalmControl'
  BY <1>26, <1>calm DEF SaveReplace, CalmControl
<1>27. ASSUME NEW q \in Procs, Stamp(q) PROVE CalmFile' /\ CalmMemory' /\ CalmControl'
  <2>1. CalmFile /\ CalmMemory /\ CalmControl
    BY <1>27, <1>calm DEF Stamp
  <2>2. CalmControl'
    BY <1>27, <2>1, CalmFinish DEF Stamp, world
  <2> QED
    BY <1>27, <2>1, <2>2, <1>file, <1>memory DEF Stamp, world, disk, memory
<1>28. ASSUME NEW q \in Procs, Crash(q) PROVE CalmFile' /\ CalmMemory' /\ CalmControl'
  <2>1. CalmFile /\ CalmMemory /\ CalmControl
    BY <1>28, <1>calm DEF Crash
  <2>2. CalmControl'
    BY <1>28, <2>1, CalmTakes DEF Crash, NoJob
  <2>3. CalmMemory'
    BY <1>28, <2>1 DEF Crash, CalmMemory, NoRows, TypeOK
  <2> QED
    BY <1>28, <2>1, <2>2, <2>3, <1>file DEF Crash
<1>29. CASE UNCHANGED vars
  BY <1>29, <1>calm, <1>file, <1>memory, <1>control DEF vars, world, disk, memory
<1> QED
  BY <1>1, <1>2, <1>3, <1>4, <1>5, <1>6, <1>7, <1>8, <1>9, <1>10, <1>11, <1>12, <1>13, <1>14, <1>15, <1>16, <1>17, <1>18, <1>19, <1>20, <1>21, <1>22, <1>23, <1>24, <1>25, <1>26, <1>27, <1>28, <1>29 DEF Next, Step

\* The file changes only in a save that merges, unless it is not calm.
LEMMA RowsStep ==
    ASSUME TypeInv, CalmInv, [Next]_vars, calm'
    PROVE  \A p \in Pages : file'.rows[p] >= file.rows[p]
<1> TypeOK
  BY DEF TypeInv
<1>0. ASSUME UNCHANGED file PROVE \A p \in Pages : file'.rows[p] >= file.rows[p]
  <2>1. file.rows \in [Pages -> Saves] /\ Saves \subseteq Nat
    BY Contents DEF TypeOK, Saves
  <2>2. \A p \in Pages : file.rows[p] \in Nat
    BY <2>1
  <2>3. file'.rows = file.rows
    BY <1>0
  <2> QED
    BY <2>2, <2>3
<1>1. ASSUME NEW q \in Procs, SaveMerge(q) PROVE \A p \in Pages : file'.rows[p] >= file.rows[p]
  <2>1. CalmFile /\ CalmMemory
    BY <1>1, Zenon DEF CalmInv, SaveMerge
  <2>2. Merged(q) \in [Pages -> Saves]
    <3>1. file.rows \in [Pages -> Saves] /\ rows[q] \in [Pages -> Saves] /\ 0 \in Saves
      BY Contents, CatalogAssumption DEF TypeOK, Saves
    <3> QED
      BY <3>1 DEF Merged
  <2>3. file'.rows = Merged(q)
    BY <1>1, <2>2, Contents DEF SaveMerge, Write
  <2> QED
    BY <2>1, <2>3, CalmMerge
<1>2. ASSUME NEW q \in Procs, SaveAborts(q) \/ SaveReplace(q) \/ Quarantine(q) PROVE FALSE
  <2>1. calm
    BY <1>2 DEF SaveAborts, SaveReplace, Quarantine
  <2> QED
    BY <1>2, <2>1 DEF CalmInv, CalmFile, CalmControl, SaveAborts, SaveReplace, Quarantine
<1>3. ASSUME Corrupt PROVE FALSE
  BY <1>3 DEF Corrupt
<1>4. ASSUME NEW p \in Pages, HumanSave(p) \/ HumanDelete(p) PROVE UNCHANGED file
  BY <1>4 DEF HumanSave, HumanDelete, disk
<1>5. ASSUME NEW q \in Procs, NEW p \in Pages, RobotWrite(q, p) \/ HarvestPage(q, p) PROVE UNCHANGED file
  BY <1>5 DEF RobotWrite, HarvestPage, disk
<1>6. ASSUME NEW q \in Procs, \/ StatPage(q) \/ StartHarvest(q) \/ StartPrune(q) \/ StartRead(q)
                              \/ Shutdown(q)
                              \/ UseRead(q) \/ UseSync(q) \/ UseFinal(q) \/ UsePrune(q)
                              \/ BeginScan(q) \/ EndScan(q) \/ SaveRefused(q)
      PROVE  UNCHANGED file
  BY <1>6 DEF StatPage, StartHarvest, StartPrune, StartRead, Shutdown, UseRead, UseSync, UseFinal, UsePrune,
              BeginScan, EndScan, SaveRefused, disk
<1>7. ASSUME NEW q \in Procs, \/ Load(q) \/ ReadFile(q) \/ Recover(q) \/ BeginCopy(q) \/ EndCopy(q)
                              \/ Remember(q) \/ Stamp(q) \/ Crash(q)
      PROVE  UNCHANGED file
  BY <1>7 DEF Load, ReadFile, Recover, BeginCopy, EndCopy, Remember, Stamp, Crash, disk
<1>8. CASE UNCHANGED vars
  BY <1>8, <1>0 DEF vars, disk
<1> QED
  BY <1>0, <1>1, <1>2, <1>3, <1>4, <1>5, <1>6, <1>7, <1>8 DEF Next, Step

\* While no page is deleted and the file stays readable, no save loses a row or
\* puts an older one in its place, for any number of processes that load, harvest,
\* prune, merge, stop and die (MasterCatalog.save).
THEOREM MergesKeepRows == Spec => RowsKept
<1>1. Init => TypeInv /\ CalmInv
  BY TypeInit, CalmInit DEF Init, TypeInv, OnPage
<1>2. TypeInv /\ CalmInv /\ [Next]_vars => (TypeInv /\ CalmInv)'
  BY TypeStep, OnPageStep, CalmStep DEF TypeInv
<1>3. TypeInv /\ CalmInv /\ [Next]_vars => [calm' => \A p \in Pages : file'.rows[p] >= file.rows[p]]_vars
  BY RowsStep
<1> QED
  BY <1>1, <1>2, <1>3, PTL DEF Spec, RowsKept

=============================================================================
