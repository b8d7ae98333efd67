---------------------------- MODULE MasterCatalog ----------------------------
(***************************************************************************)
(* The master catalog: one row per page in a JSON file that the daemon and *)
(* the manual audit write and other processes read, each through a copy it *)
(* keeps in memory for as long as the file's mtime is the one it remembers.*)
(* A default save reloads the file under its flock and merges the rows by  *)
(* last_mtime; the save after a prune replaces the file.  A loaded file is *)
(* copied to a backup that a load of an unreadable file falls back on.     *)
(*                                                                         *)
(* A page and a row are the number of the save that made the page's mtime; *)
(* 0 stands for no page and no row.  Every page has a semantic index, so a *)
(* row needs no LLM.  A process has one thread that uses the catalog, and  *)
(* the flock is free again before a wait for it times out: it is held for  *)
(* the copy of one file.                                                   *)
(***************************************************************************)
EXTENDS Naturals, FiniteSets

CONSTANTS
    Daemons, Auditors, Readers,   \* the processes
    Pages,
    MaxSaves,      \* bound: saves of pages
    MaxRestarts,   \* bound: daemons stopped, processes killed
    MaxCorrupt,    \* bound: times the file is made unreadable from outside
    None

Procs == Daemons \cup Auditors \cup Readers

ASSUME CatalogAssumption ==
    /\ MaxSaves \in Nat \ {0} /\ MaxRestarts \in Nat /\ MaxCorrupt \in Nat
    /\ None \notin Procs /\ None \notin Pages

VARIABLES
    page,       \* page[p]: its mtime
    saves, restarts, corruptions,
    file,       \* master_catalog.json
    bak,        \* master_catalog.json.bak
    flock,      \* who holds the file's flock across a step
    known,      \* processes whose _catalog_mtime_ns is the file's mtime
    loaded,     \* processes with the catalog in _loaded
    rows,       \* rows[q]: MasterCatalog.pages of q
    removals,   \* removals[q]: _pending_removals
    persist,    \* persist[q]: persist_allowed
    pc, job,
    calm        \* no page was deleted and the file never unreadable

vars == <<page, saves, restarts, corruptions, file, bak, flock, known, loaded,
          rows, removals, persist, pc, job, calm>>
world == <<page, saves, restarts, corruptions>>
disk == <<file, bak, flock>>
memory == <<known, loaded, rows, removals, persist>>

Saves == 0..MaxSaves
NoRows == [p \in Pages |-> 0]
Content(kind, r) == [kind |-> kind, rows |-> r]
Absent == Content("absent", NoRows)
Unreadable == Content("unreadable", NoRows)
NoJob == [kind |-> "none", page |-> None, mtime |-> 0, todo |-> {}, dirty |-> FALSE]

Files == {Absent, Unreadable} \cup {Content("rows", r) : r \in [Pages -> Saves]}
Kinds == {"none", "sync", "harvest", "prune", "final", "read"}
Labels == {"idle", "stat", "load", "read", "recover", "quarantine", "copy", "copying",
           "remember", "use", "scan", "save", "stamp"}

TypeOK ==
    /\ page \in [Pages -> Saves] /\ saves \in Saves
    /\ restarts \in 0..MaxRestarts /\ corruptions \in 0..MaxCorrupt
    /\ file \in Files /\ bak \in Files
    /\ flock \in Procs \cup {None}
    /\ known \subseteq Procs /\ loaded \subseteq Procs
    /\ file = Absent => known = {}
    /\ rows \in [Procs -> [Pages -> Saves]]
    /\ removals \in [Procs -> SUBSET Pages]
    /\ persist \in [Procs -> BOOLEAN]
    /\ pc \in [Procs -> Labels]
    /\ job \in [Procs -> [kind : Kinds, page : Pages \cup {None}, mtime : Saves,
                          todo : SUBSET Pages, dirty : BOOLEAN]]
    /\ calm \in BOOLEAN

Init ==
    /\ page \in [Pages -> {0, 1}] /\ saves = 1
    /\ restarts = 0 /\ corruptions = 0
    /\ file = Absent /\ bak = Absent /\ flock = None
    /\ known = {} /\ loaded = {}
    /\ rows = [q \in Procs |-> NoRows]
    /\ removals = [q \in Procs |-> {}]
    /\ persist = [q \in Procs |-> TRUE]
    /\ pc = [q \in Procs |-> "idle"]
    /\ job = [q \in Procs |-> NoJob]
    /\ calm = TRUE

Live == {p \in Pages : page[p] # 0}
Goto(q, label) == pc' = [pc EXCEPT ![q] = label]
Takes(q, label, j) == Goto(q, label) /\ job' = [job EXCEPT ![q] = j]

\* The idle cycle refreshes the catalog and then prunes it, whatever became of
\* the refresh.
Finish(q) ==
    IF q \in Daemons /\ job[q].kind = "harvest"
    THEN Takes(q, "load", [NoJob EXCEPT !.kind = "prune"])
    ELSE Takes(q, "idle", NoJob)

-----------------------------------------------------------------------------
(* The graph, and what starts a process on the catalog *)

HumanSave(p) ==
    /\ saves < MaxSaves
    /\ saves' = saves + 1
    /\ page' = [page EXCEPT ![p] = saves + 1]
    /\ UNCHANGED <<restarts, corruptions, disk, memory, pc, job, calm>>

HumanDelete(p) ==
    /\ page[p] # 0
    /\ page' = [page EXCEPT ![p] = 0]
    /\ calm' = FALSE
    /\ UNCHANGED <<saves, restarts, corruptions, disk, memory, pc, job>>

Corrupt ==
    /\ corruptions < MaxCorrupt
    /\ file.kind = "rows" /\ flock = None
    /\ corruptions' = corruptions + 1
    /\ file' = Unreadable
    /\ known' = {}
    /\ calm' = FALSE
    /\ UNCHANGED <<page, saves, restarts, bak, flock, loaded, rows, removals, persist, pc, job>>

\* The daemon writes a page and brings its row up to date.
RobotWrite(q, p) ==
    /\ q \in Daemons /\ pc[q] = "idle"
    /\ saves < MaxSaves /\ page[p] # 0
    /\ saves' = saves + 1
    /\ page' = [page EXCEPT ![p] = saves + 1]
    /\ Takes(q, "stat", [NoJob EXCEPT !.kind = "sync", !.page = p])
    /\ UNCHANGED <<restarts, corruptions, disk, memory, calm>>

\* It reads the page, then takes its mtime.
StatPage(q) ==
    /\ pc[q] = "stat"
    /\ LET p == job[q].page IN
          IF page[p] = 0 THEN Takes(q, "idle", NoJob)
                         ELSE Takes(q, "load", [job[q] EXCEPT !.mtime = page[p]])
    /\ UNCHANGED <<world, disk, memory, calm>>

StartHarvest(q) ==
    /\ q \in Daemons \cup Auditors /\ pc[q] = "idle"
    /\ Takes(q, "load", [NoJob EXCEPT !.kind = "harvest"])
    /\ UNCHANGED <<world, disk, memory, calm>>

\* The end of an active cycle, and a stop during the fast track, prune without a refresh.
StartPrune(q) ==
    /\ q \in Daemons /\ pc[q] = "idle"
    /\ Takes(q, "load", [NoJob EXCEPT !.kind = "prune"])
    /\ UNCHANGED <<world, disk, memory, calm>>

StartRead(q) ==
    /\ q \in Readers /\ pc[q] = "idle"
    /\ Takes(q, "load", [NoJob EXCEPT !.kind = "read"])
    /\ UNCHANGED <<world, disk, memory, calm>>

\* A graceful shutdown, which also cuts a harvest short, saves what is cached.
Shutdown(q) ==
    /\ q \in Daemons /\ pc[q] \in {"idle", "scan"}
    /\ restarts < MaxRestarts
    /\ restarts' = restarts + 1
    /\ Takes(q, "load", [NoJob EXCEPT !.kind = "final"])
    /\ UNCHANGED <<page, saves, corruptions, disk, memory, calm>>

-----------------------------------------------------------------------------
(* load_master_catalog *)

\* A mutant: the harvest is served from memory too.
CacheServesHarvest(q) == q \in loaded /\ (file # Absent => q \in known)

CacheHit(q) ==
    /\ job[q].kind # "harvest" /\ q \in loaded
    /\ file # Absent => q \in known

Load(q) ==
    /\ pc[q] = "load"
    /\ \/ CacheHit(q) /\ Goto(q, "use") /\ UNCHANGED <<rows, removals, persist>>
       \/ ~CacheHit(q) /\ file # Absent /\ Goto(q, "read") /\ UNCHANGED <<rows, removals, persist>>
       \/ /\ ~CacheHit(q) /\ file = Absent
          /\ rows' = [rows EXCEPT ![q] = NoRows]
          /\ removals' = [removals EXCEPT ![q] = {}]
          /\ persist' = [persist EXCEPT ![q] = TRUE]
          /\ Goto(q, "remember")
    /\ UNCHANGED <<world, disk, known, loaded, job, calm>>

Becomes(q, r, ok) ==
    /\ rows' = [rows EXCEPT ![q] = r]
    /\ removals' = [removals EXCEPT ![q] = {}]
    /\ persist' = [persist EXCEPT ![q] = ok]

\* Under the flock.  A file that vanished is a failed read: the cached catalog
\* is used if there is one, else the load fails.
ReadFile(q) ==
    /\ pc[q] = "read" /\ flock = None
    /\ \/ file.kind = "rows" /\ Becomes(q, file.rows, TRUE) /\ Goto(q, "copy") /\ UNCHANGED job
       \/ file = Unreadable /\ Goto(q, "recover") /\ UNCHANGED <<job, rows, removals, persist>>
       \/ /\ file = Absent
          /\ IF q \in loaded THEN Goto(q, "use") /\ UNCHANGED job ELSE Finish(q)
          /\ UNCHANGED <<rows, removals, persist>>
    /\ UNCHANGED <<world, disk, known, loaded, calm>>

\* The backup, under a flock of its own.
Recover(q) ==
    /\ pc[q] = "recover"
    /\ IF bak.kind = "rows" THEN Becomes(q, bak.rows, TRUE) /\ Goto(q, "copy")
                            ELSE Goto(q, "quarantine") /\ UNCHANGED <<rows, removals, persist>>
    /\ UNCHANGED <<world, disk, known, loaded, job, calm>>

\* A mutant: the caches of other processes take the missing file for current.
QuarantineKeepsStamps(q) ==
    /\ pc[q] = "quarantine" /\ flock = None
    /\ file' = Absent
    /\ Becomes(q, NoRows, FALSE)
    /\ Goto(q, "remember")
    /\ UNCHANGED <<world, bak, flock, known, loaded, job, calm>>

\* Under the flock again: the file that is there now is moved away.
Quarantine(q) ==
    /\ pc[q] = "quarantine" /\ flock = None
    /\ file' = Absent /\ known' = {}
    /\ Becomes(q, NoRows, FALSE)
    /\ Goto(q, "remember")
    /\ UNCHANGED <<world, bak, flock, loaded, job, calm>>

\* The backup is refreshed, in place, from the file that is there now, also by
\* a process that has just recovered from it.
BeginCopy(q) ==
    /\ pc[q] = "copy" /\ flock = None
    /\ IF file = Absent THEN Goto(q, "remember") /\ UNCHANGED <<bak, flock>>
                        ELSE Goto(q, "copying") /\ bak' = Unreadable /\ flock' = q
    /\ UNCHANGED <<world, file, memory, job, calm>>

EndCopy(q) ==
    /\ pc[q] = "copying"
    /\ bak' = file /\ flock' = None
    /\ Goto(q, "remember")
    /\ UNCHANGED <<world, file, memory, job, calm>>

Stamped(q) == IF file = Absent THEN known ELSE known \cup {q}

\* The mtime is taken without the flock.
Remember(q) ==
    /\ pc[q] = "remember"
    /\ loaded' = loaded \cup {q}
    /\ known' = Stamped(q)
    /\ Goto(q, "use")
    /\ UNCHANGED <<world, disk, rows, removals, persist, job, calm>>

-----------------------------------------------------------------------------
(* What the process does with it *)

Upsert(q, p, mtime) ==
    /\ rows' = [rows EXCEPT ![q][p] = mtime]
    /\ removals' = [removals EXCEPT ![q] = @ \ {p}]

Stale(q) == {p \in Live : rows[q][p] # page[p]}
Ghosts(q) == {p \in Pages \ Live : rows[q][p] # 0}

PruneMissing(q) ==
    /\ rows' = [rows EXCEPT ![q] = [p \in Pages |-> IF p \in Live THEN @[p] ELSE 0]]
    /\ removals' = [removals EXCEPT ![q] = @ \cup Ghosts(q)]

UseRead(q) ==
    /\ pc[q] = "use" /\ job[q].kind = "read"
    /\ Takes(q, "idle", NoJob)
    /\ UNCHANGED <<world, disk, memory, calm>>

UseSync(q) ==
    /\ pc[q] = "use" /\ job[q].kind = "sync"
    /\ Upsert(q, job[q].page, job[q].mtime)
    /\ Goto(q, "save")
    /\ UNCHANGED <<world, disk, known, loaded, persist, job, calm>>

UseFinal(q) ==
    /\ pc[q] = "use" /\ job[q].kind = "final"
    /\ Goto(q, "save")
    /\ UNCHANGED <<world, disk, memory, job, calm>>

UsePrune(q) ==
    /\ pc[q] = "use" /\ job[q].kind = "prune"
    /\ PruneMissing(q)
    /\ IF Ghosts(q) = {} THEN Takes(q, "idle", NoJob) ELSE Goto(q, "save") /\ UNCHANGED job
    /\ UNCHANGED <<world, disk, known, loaded, persist, calm>>

\* The bootstrap harvest takes every page and saves, the incremental one takes
\* the stale pages and saves what it changed.
BeginScan(q) ==
    /\ pc[q] = "use" /\ job[q].kind = "harvest"
    /\ PruneMissing(q)
    /\ \/ Takes(q, "scan", [job[q] EXCEPT !.todo = Stale(q), !.dirty = Ghosts(q) # {}])
       \/ q \in Daemons /\ Takes(q, "scan", [job[q] EXCEPT !.todo = Live, !.dirty = TRUE])
    /\ UNCHANGED <<world, disk, known, loaded, persist, calm>>

HarvestPage(q, p) ==
    /\ pc[q] = "scan" /\ p \in job[q].todo
    /\ IF page[p] # 0
       THEN Upsert(q, p, page[p])
       ELSE /\ rows' = [rows EXCEPT ![q][p] = 0]
            /\ removals' = [removals EXCEPT ![q] = @ \cup {p}]
    /\ job' = [job EXCEPT ![q].todo = @ \ {p}, ![q].dirty = TRUE]
    /\ UNCHANGED <<world, disk, known, loaded, persist, pc, calm>>

EndScan(q) ==
    /\ pc[q] = "scan" /\ job[q].todo = {}
    /\ IF job[q].dirty THEN Goto(q, "save") /\ UNCHANGED job ELSE Finish(q)
    /\ UNCHANGED <<world, disk, memory, calm>>

-----------------------------------------------------------------------------
(* MasterCatalog.save *)

SaveRefused(q) ==
    /\ pc[q] = "save" /\ ~persist[q]
    /\ Finish(q)
    /\ UNCHANGED <<world, disk, memory, calm>>

\* A mutant: the rows of the process win over the rows of the file.
PendingWins(q) == [p \in Pages |-> IF rows[q][p] # 0 THEN rows[q][p] ELSE file.rows[p]]

Merged(q) == [p \in Pages |-> IF p \in removals[q] THEN 0
                              ELSE IF rows[q][p] >= file.rows[p] THEN rows[q][p] ELSE file.rows[p]]

Write(q, r) ==
    /\ file' = Content("rows", r)
    /\ known' = {}
    /\ rows' = [rows EXCEPT ![q] = r]
    /\ removals' = [removals EXCEPT ![q] = {}]
    /\ Goto(q, "stamp")

\* The file is read again, merged and replaced in one hold of the flock.
SaveMerge(q) ==
    /\ pc[q] = "save" /\ persist[q] /\ job[q].kind # "prune"
    /\ flock = None
    /\ file # Unreadable
    /\ Write(q, Merged(q))
    /\ UNCHANGED <<world, bak, flock, loaded, persist, job, calm>>

SaveAborts(q) ==
    /\ pc[q] = "save" /\ persist[q] /\ job[q].kind # "prune"
    /\ flock = None
    /\ file = Unreadable
    /\ file' = Absent /\ known' = {}
    /\ persist' = [persist EXCEPT ![q] = FALSE]
    /\ Finish(q)
    /\ UNCHANGED <<world, bak, flock, loaded, rows, removals, calm>>

SaveReplace(q) ==
    /\ pc[q] = "save" /\ persist[q] /\ job[q].kind = "prune"
    /\ flock = None
    /\ Write(q, rows[q])
    /\ UNCHANGED <<world, bak, flock, loaded, persist, job, calm>>

\* The mtime is taken after the flock is given back.
Stamp(q) ==
    /\ pc[q] = "stamp"
    /\ known' = Stamped(q)
    /\ Finish(q)
    /\ UNCHANGED <<world, disk, loaded, rows, removals, persist, calm>>

Crash(q) ==
    /\ pc[q] # "idle"
    /\ restarts < MaxRestarts
    /\ restarts' = restarts + 1
    /\ Takes(q, "idle", NoJob)
    /\ flock' = IF flock = q THEN None ELSE flock
    /\ known' = known \ {q} /\ loaded' = loaded \ {q}
    /\ rows' = [rows EXCEPT ![q] = NoRows]
    /\ removals' = [removals EXCEPT ![q] = {}]
    /\ persist' = [persist EXCEPT ![q] = TRUE]
    /\ UNCHANGED <<page, saves, corruptions, file, bak, calm>>

-----------------------------------------------------------------------------
Step(q) ==
    \/ StatPage(q)
    \/ Load(q) \/ ReadFile(q) \/ Recover(q) \/ Quarantine(q) \/ BeginCopy(q) \/ EndCopy(q) \/ Remember(q)
    \/ UseRead(q) \/ UseSync(q) \/ UseFinal(q) \/ UsePrune(q) \/ BeginScan(q) \/ EndScan(q)
    \/ \E p \in Pages : HarvestPage(q, p)
    \/ SaveRefused(q) \/ SaveMerge(q) \/ SaveAborts(q) \/ SaveReplace(q) \/ Stamp(q)

Next ==
    \/ \E p \in Pages : HumanSave(p) \/ HumanDelete(p)
    \/ Corrupt
    \/ \E q \in Procs, p \in Pages : RobotWrite(q, p)
    \/ \E q \in Procs : \/ StartHarvest(q) \/ StartPrune(q) \/ StartRead(q) \/ Shutdown(q)
                        \/ Crash(q)
                        \/ Step(q)

Spec == Init /\ [][Next]_vars

\* Processes run, and the daemon's idle cycle comes round (run_forever) however often an
\* active one prunes, for its pages settle; nothing makes anybody else start.
FairSpec ==
    /\ Spec
    /\ \A q \in Procs : WF_vars(Step(q))
    /\ \A q \in Daemons : SF_vars(StartHarvest(q))

-----------------------------------------------------------------------------
(* Properties *)

\* While no page is deleted and the file stays readable, no save loses a row of
\* the file or puts an older one in its place, whichever processes load, merge,
\* prune, stop and die (MasterCatalog.save, "do not clobber each other").
RowsKept == [][calm' => \A p \in Pages : file'.rows[p] >= file.rows[p]]_vars

InStep(p) == file.rows[p] = page[p]

\* When the pages have come to rest, the daemon's idle cycles bring every row
\* to the mtime of its page, drop the rows of deleted pages, and keep it so,
\* after whatever was overwritten, resurrected, quarantined or cached stale.
CatalogConverges == <>[](file # Unreadable /\ \A p \in Pages : InStep(p))

\* An unreadable file leaves a readable backup, if there was one: it became
\* unreadable from outside, and a load restores the backup
\* (_load_catalog_payload_from_disk, "restore backup or quarantine").
BackupSurvives == [][file = Unreadable /\ bak.kind = "rows" => bak' = bak \/ bak'.kind = "rows"]_vars

=============================================================================
