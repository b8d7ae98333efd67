----------------------------- MODULE ShadowSync -----------------------------
(***************************************************************************)
(* The Shadow DB: a SQLite read cache of the Markdown pages.  A page that  *)
(* a robot writes is indexed by its post-write hook, a page the human      *)
(* saves by the daemon's file watcher, and the whole graph by a rebuild    *)
(* when a process starts and finds no usable generation.  Writers of the   *)
(* cache serialise on `shadow.writer.flock`; a failed sync raises a latch  *)
(* in its process and a marker file beside the database, which a rebuild   *)
(* removes.  Reads are served from the cache while it is healthy and the   *)
(* row's mtime and size are those of the page.                             *)
(*                                                                         *)
(* The text of a page is the number of the save that produced it; mtime    *)
(* and size name that save too (equal mtime and size of different texts    *)
(* are the subject of PageWrite).  0 stands for no file, no row, and a     *)
(* parse that failed.                                                      *)
(***************************************************************************)
EXTENDS Naturals, FiniteSets, Functions

CONSTANTS
    Procs,          \* the processes that open the cache
    Main,           \* Main[q]: the thread that starts process q
    Threads, ProcOf,
    Writers,        \* threads that write pages and run the post-write hook
    Watchers,       \* threads that run the file watcher (the daemon's)
    Readers,        \* threads that read through the cache
    Reloaders,      \* threads that prepare a running process again (the UI)
    Paths,          \* the pages
    AtStart,        \* the pages on disk before anything runs
    Mishaps,        \* what may go wrong, see MishapKinds
    MaxSaves,       \* bound: saves of pages
    None

\* A lock wait that times out; an error of SQLite or of a check on the page; a
\* parse over budget; a killed process; a human's edit while no watcher runs;
\* a process prepared again while its threads work.
MishapKinds == {"timeout", "error", "parse", "crash", "unwatched", "reload"}

ASSUME ShadowAssumption ==
    /\ ProcOf \in [Threads -> Procs]
    /\ Main \in [Procs -> Threads \ Watchers] /\ \A q \in Procs : ProcOf[Main[q]] = q
    /\ Writers \cup Watchers \cup Readers \cup Reloaders \subseteq Threads
    /\ IsFiniteSet(Paths) /\ AtStart \subseteq Paths
    /\ Mishaps \subseteq MishapKinds
    /\ MaxSaves \in Nat \ {0}
    /\ None \notin Threads /\ None \notin Paths

VARIABLES
    disk,       \* disk[p]: the save that made the page's text
    saves,      \* the last save
    db,         \* the committed cache
    tx,         \* the open transaction of a rebuild
    marker,     \* the file shadow.sync-invalid exists
    latch,      \* latch[q]: q in _invalidated_roots
    booting,    \* booting[q]: q in _bootstrapping_roots
    deferred,   \* deferred[q]: _deferred_sync_paths of q
    flock,      \* the thread that holds shadow.writer.flock
    up,         \* up[q]: the process has started
    pc,
    job,        \* the page a thread works on
    todo,       \* the pages a rebuild still has to scan or to replay
    event,      \* event[p]: what the file watcher has yet to deliver
    missed,     \* missed[q][p]: the newest save that q failed to index
    calm        \* nothing of MishapKinds but a parse over budget has happened

vars == <<disk, saves, db, tx, marker, latch, booting, deferred, flock, up, pc,
          job, todo, event, missed, calm>>
cache == <<db, tx, marker>>
process == <<latch, booting, deferred, up>>

Saves == 0..MaxSaves
NoRow == [stamp |-> 0, text |-> 0]
NoJob == [kind |-> "none", path |-> None, stamp |-> 0, text |-> 0, want |-> 0,
          from |-> None, again |-> FALSE]
NoDb == [rows |-> [p \in Paths |-> NoRow], parked |-> {}, completed |-> FALSE,
         error |-> FALSE, source |-> 0, indexed |-> 0]

Labels == {"down", "idle", "check", "defer", "lock", "stat", "parse", "commit", "delete",
           "latch", "marker", "meta", "rebuild", "scan", "unmark", "unlatch",
           "unboot", "pop", "replay", "fresh", "query", "rows", "served"}

TypeOK ==
    /\ disk \in [Paths -> Saves]
    /\ saves \in Saves
    /\ \A d \in {db, tx} :
          /\ d.rows \in [Paths -> [stamp : Saves, text : Saves]]
          /\ d.parked \subseteq {p \in Paths : d.rows[p] = NoRow}
          /\ d.source <= Cardinality(Paths) /\ d.indexed <= d.source
    /\ marker \in BOOLEAN
    /\ latch \in [Procs -> BOOLEAN] /\ booting \in [Procs -> BOOLEAN]
    /\ deferred \in [Procs -> SUBSET Paths]
    /\ flock \in Threads \cup {None}
    /\ up \in [Procs -> BOOLEAN]
    /\ pc \in [Threads -> Labels]
    /\ todo \in [Threads -> SUBSET Paths]
    /\ event \in [Paths -> {"none", "modified", "deleted"}]
    /\ missed \in [Procs -> [Paths -> Saves]]
    /\ calm \in BOOLEAN

Init ==
    /\ disk = [p \in Paths |-> IF p \in AtStart THEN 1 ELSE 0]
    /\ saves = 1
    /\ db = NoDb /\ tx = NoDb
    /\ marker = FALSE
    /\ latch = [q \in Procs |-> FALSE]
    /\ booting = [q \in Procs |-> FALSE]
    /\ deferred = [q \in Procs |-> {}]
    /\ flock = None
    /\ up = [q \in Procs |-> FALSE]
    /\ pc = [t \in Threads |-> "down"]
    /\ job = [t \in Threads |-> NoJob]
    /\ todo = [t \in Threads |-> {}]
    /\ event = [p \in Paths |-> "none"]
    /\ missed = [q \in Procs |-> [p \in Paths |-> 0]]
    /\ calm = TRUE

-----------------------------------------------------------------------------
(* Health and the contents of the cache *)

Rows(d) == {p \in Paths : d.rows[p] # NoRow}

\* resolve_shadow_health is READY: nothing invalidates the committed
\* generation and its counts account for every source page.
Ready(q) ==
    /\ up[q] /\ ~booting[q]
    /\ ~latch[q] /\ ~marker
    /\ ~db.error /\ db.completed
    /\ db.indexed = Cardinality(Rows(db))
    /\ db.source = Cardinality(Rows(db)) + Cardinality(db.parked)

NeedsBootstrap(q) == latch[q] \/ marker \/ db.error \/ ~db.completed

\* A variant: a page that parses again is not released from quarantine.
UpsertParked(d, p, stamp, text) ==
    LET row == IF stamp = 0 \/ text = 0 THEN NoRow ELSE [stamp |-> stamp, text |-> text]
    IN  [d EXCEPT !.rows[p] = row, !.parked = IF stamp # 0 /\ text = 0 THEN @ \cup {p} ELSE @]

\* One page in an open connection: no file drops the row, a failed parse parks
\* the page, anything else replaces the row.
Upsert(d, p, stamp, text) ==
    LET row == IF stamp = 0 \/ text = 0 THEN NoRow ELSE [stamp |-> stamp, text |-> text]
    IN  [d EXCEPT !.rows[p] = row,
                  !.parked = IF stamp # 0 /\ text = 0 THEN @ \cup {p} ELSE @ \ {p}]

\* The rebuild's transaction is open: other connections cannot write.
TxOpen == \E t \in Threads : job[t].kind = "scan"

Watching == \E w \in Watchers : pc[w] # "down"
Goto(t, label) == pc' = [pc EXCEPT ![t] = label]
Becomes(t, label, j) == Goto(t, label) /\ job' = [job EXCEPT ![t] = j]
Free(t) == pc[t] = "idle" /\ up[ProcOf[t]]

-----------------------------------------------------------------------------
(* Pages change *)

\* A debounced event: the last kind wins.
Notify(p, kind) == event' = IF Watching THEN [event EXCEPT ![p] = kind] ELSE event

HumanSave(p) ==
    /\ saves < MaxSaves
    /\ Watching \/ "unwatched" \in Mishaps
    /\ saves' = saves + 1
    /\ disk' = [disk EXCEPT ![p] = saves + 1]
    /\ Notify(p, "modified")
    /\ calm' = (calm /\ Watching)
    /\ UNCHANGED <<cache, process, flock, pc, job, todo, missed>>

HumanDelete(p) ==
    /\ disk[p] # 0
    /\ Watching \/ "unwatched" \in Mishaps
    /\ disk' = [disk EXCEPT ![p] = 0]
    /\ Notify(p, "deleted")
    /\ calm' = (calm /\ Watching)
    /\ UNCHANGED <<saves, cache, process, flock, pc, job, todo, missed>>

Sync(p, want) == [NoJob EXCEPT !.kind = "sync", !.path = p, !.want = want, !.again = TRUE]

\* A robot's atomic write and the start of its post-write hook.
RobotWrite(t, p) ==
    /\ t \in Writers /\ Free(t)
    /\ saves < MaxSaves
    /\ saves' = saves + 1
    /\ disk' = [disk EXCEPT ![p] = saves + 1]
    /\ Notify(p, "modified")
    /\ Becomes(t, "check", Sync(p, saves + 1))
    /\ UNCHANGED <<cache, process, flock, todo, missed, calm>>

\* The watcher hands an event over.
Deliver(t, p) ==
    /\ t \in Watchers /\ Free(t)
    /\ event[p] # "none"
    /\ event' = [event EXCEPT ![p] = "none"]
    /\ Becomes(t, "check", IF event[p] = "deleted" THEN [Sync(p, 0) EXCEPT !.kind = "delete"]
                                                   ELSE Sync(p, disk[p]))
    /\ UNCHANGED <<disk, saves, cache, process, flock, todo, missed, calm>>

-----------------------------------------------------------------------------
(* Indexing one page *)

\* is_shadow_bootstrapping, read without the state lock.
Check(t) ==
    /\ pc[t] = "check"
    /\ Goto(t, IF booting[ProcOf[t]] THEN "defer" ELSE "lock")
    /\ UNCHANGED <<disk, saves, cache, process, flock, job, todo, event, missed, calm>>

Defer(t) ==
    /\ pc[t] = "defer"
    /\ deferred' = [deferred EXCEPT ![ProcOf[t]] = @ \cup {job[t].path}]
    /\ Becomes(t, "idle", NoJob)
    /\ UNCHANGED <<disk, saves, cache, latch, booting, up, flock, todo, event, missed, calm>>

\* A variant: incremental writers do not wait for each other.
TakeLockShared(t) ==
    /\ pc[t] = "lock"
    /\ flock' = t
    /\ Goto(t, IF job[t].kind = "delete" THEN "delete" ELSE "stat")
    /\ UNCHANGED <<disk, saves, cache, process, job, todo, event, missed, calm>>

TakeLock(t) ==
    /\ pc[t] = "lock" /\ flock = None
    /\ flock' = t
    /\ Goto(t, IF job[t].kind = "delete" THEN "delete" ELSE "stat")
    /\ UNCHANGED <<disk, saves, cache, process, job, todo, event, missed, calm>>

LockTimeout(t) ==
    /\ pc[t] = "lock" /\ flock # None
    /\ "timeout" \in Mishaps
    /\ Goto(t, "latch")
    /\ calm' = FALSE
    /\ UNCHANGED <<disk, saves, cache, process, flock, job, todo, event, missed>>

\* path.stat() comes before the parse.
Stat(t) ==
    /\ pc[t] = "stat"
    /\ Becomes(t, IF disk[job[t].path] = 0 THEN "commit" ELSE "parse",
               [job[t] EXCEPT !.stamp = disk[job[t].path], !.text = 0])
    /\ UNCHANGED <<disk, saves, cache, process, flock, todo, event, missed, calm>>

\* A variant: the stamp is taken when the parse is over.
ParseThenStat(t) ==
    /\ pc[t] = "parse"
    /\ Becomes(t, "commit", [job[t] EXCEPT !.text = job[t].stamp, !.stamp = disk[job[t].path]])
    /\ UNCHANGED <<disk, saves, cache, process, flock, todo, event, missed, calm>>

Parse(t) ==
    /\ pc[t] = "parse"
    /\ \E text \in {disk[job[t].path]} \cup (IF "parse" \in Mishaps THEN {0} ELSE {}) :
          Becomes(t, "commit", [job[t] EXCEPT !.text = text])
    /\ UNCHANGED <<disk, saves, cache, process, flock, todo, event, missed, calm>>

\* Where a thread goes when it is done with a page; the rebuild keeps the lock.
Resume(t) == CASE job[t].kind = "scan" -> "scan"
              [] job[t].kind = "replay" -> "replay"
              [] OTHER -> "idle"
JobAfter(t) == IF job[t].kind = "scan" THEN [NoJob EXCEPT !.kind = "scan"] ELSE NoJob
LockAfter(t) == IF job[t].kind \in {"scan", "replay"} THEN flock ELSE None

\* The page goes into the rebuild's transaction, or into one of its own that
\* is committed before the lock is given back.
CommitPage(t) ==
    /\ pc[t] = "commit"
    /\ LET j == job[t] IN
          IF j.kind = "scan"
          THEN /\ tx' = LET d == Upsert(tx, j.path, j.stamp, j.text)
                        IN  IF d.rows[j.path] # NoRow THEN [d EXCEPT !.indexed = @ + 1] ELSE d
               /\ UNCHANGED db
          ELSE /\ db' = Upsert(db, j.path, j.stamp, j.text)
               /\ UNCHANGED tx
    /\ Becomes(t, Resume(t), JobAfter(t))
    /\ flock' = LockAfter(t)
    /\ UNCHANGED <<disk, saves, marker, process, todo, event, missed, calm>>

\* delete_shadow_page_by_file_path does not look at the file.
DeleteRow(t) ==
    /\ pc[t] = "delete"
    /\ db' = Upsert(db, job[t].path, 0, 0)
    /\ Becomes(t, "idle", NoJob)
    /\ flock' = None
    /\ UNCHANGED <<disk, saves, tx, marker, process, todo, event, missed, calm>>

\* An error on the way: the transaction is rolled back, the lock given back
\* and the failure recorded.
SyncFails(t) ==
    /\ "error" \in Mishaps
    /\ pc[t] \in {"stat", "parse", "commit", "delete"} /\ job[t].kind # "scan"
    /\ Goto(t, "latch")
    /\ flock' = LockAfter(t)
    /\ calm' = FALSE
    /\ UNCHANGED <<disk, saves, cache, process, job, todo, event, missed>>

-----------------------------------------------------------------------------
(* record_shadow_sync_failure: the latch, the marker, the error in shadow_meta *)

\* A variant: the failure is only recorded in files.
RaiseNoLatch(t) ==
    /\ pc[t] = "latch"
    /\ missed' = [missed EXCEPT ![ProcOf[t]][job[t].path] = IF job[t].want > @ THEN job[t].want ELSE @]
    /\ Goto(t, "marker")
    /\ UNCHANGED <<disk, saves, cache, process, flock, job, todo, event, calm>>

RaiseLatch(t) ==
    /\ pc[t] = "latch"
    /\ latch' = [latch EXCEPT ![ProcOf[t]] = TRUE]
    /\ missed' = [missed EXCEPT ![ProcOf[t]][job[t].path] = IF job[t].want > @ THEN job[t].want ELSE @]
    /\ Goto(t, "marker")
    /\ UNCHANGED <<disk, saves, cache, booting, deferred, up, flock, job, todo, event, calm>>

WriteMarker(t) ==
    /\ pc[t] = "marker"
    /\ marker' = TRUE
    /\ Goto(t, "meta")
    /\ UNCHANGED <<disk, saves, db, tx, process, flock, job, todo, event, missed, calm>>

\* Its own connection, without the writer lock: a rebuild's transaction outlasts
\* the busy timeout and the error is dropped.  Hook and watcher record twice,
\* once where the sync fails and once where they catch it.
RecordError(t) ==
    /\ pc[t] = "meta"
    /\ db' = IF TxOpen THEN db ELSE [db EXCEPT !.error = TRUE]
    /\ IF job[t].again
       THEN Becomes(t, "latch", [job[t] EXCEPT !.again = FALSE])
       ELSE Becomes(t, Resume(t), NoJob)
    /\ UNCHANGED <<disk, saves, tx, marker, process, flock, todo, event, missed, calm>>

-----------------------------------------------------------------------------
(* Start-up and the rebuild *)

\* The cache is prepared, whether or not the rebuild succeeded.
Started(t) ==
    /\ up' = [up EXCEPT ![ProcOf[t]] = TRUE]
    /\ pc' = [u \in Threads |->
                IF u = t \/ (ProcOf[u] = ProcOf[t] /\ pc[u] = "down" /\ u \notin Watchers)
                THEN "idle" ELSE pc[u]]

\* The daemon starts its watcher only when its bootstrap pipeline is over.
StartWatcher(t) ==
    /\ t \in Watchers /\ pc[t] = "down" /\ up[ProcOf[t]]
    /\ Goto(t, "idle")
    /\ UNCHANGED <<disk, saves, cache, process, flock, job, todo, event, missed, calm>>

\* ensure_shadow_runtime_at_startup, when the process starts and, in a reloader,
\* whenever the graph is configured again.
Prepare(t) ==
    /\ \/ pc[t] = "down" /\ t = Main[ProcOf[t]] /\ UNCHANGED calm
       \/ /\ Free(t) /\ t \in Reloaders /\ "reload" \in Mishaps
          /\ NeedsBootstrap(ProcOf[t])
          /\ calm' = FALSE
    /\ IF NeedsBootstrap(ProcOf[t])
       THEN Goto(t, "rebuild") /\ UNCHANGED up
       ELSE Started(t)
    /\ UNCHANGED <<disk, saves, cache, latch, booting, deferred, flock, job, todo, event, missed>>

\* The lock, the bootstrapping flag, the list of pages, BEGIN IMMEDIATE.
BeginRebuild(t) ==
    /\ pc[t] = "rebuild" /\ flock = None
    /\ flock' = t
    /\ booting' = [booting EXCEPT ![ProcOf[t]] = TRUE]
    /\ todo' = [todo EXCEPT ![t] = {p \in Paths : disk[p] # 0}]
    /\ tx' = [NoDb EXCEPT !.source = Cardinality({p \in Paths : disk[p] # 0})]
    /\ Becomes(t, "scan", [NoJob EXCEPT !.kind = "scan"])
    /\ UNCHANGED <<disk, saves, db, marker, latch, deferred, up, event, missed, calm>>

RebuildTimeout(t) ==
    /\ pc[t] = "rebuild" /\ flock # None
    /\ "timeout" \in Mishaps
    /\ Started(t)
    /\ calm' = FALSE
    /\ UNCHANGED <<disk, saves, cache, latch, booting, deferred, flock, job, todo, event, missed>>

\* The database does not open: the flag is up and nothing takes it down.
OpenFails(t) ==
    /\ pc[t] = "rebuild" /\ flock = None
    /\ "error" \in Mishaps
    /\ booting' = [booting EXCEPT ![ProcOf[t]] = TRUE]
    /\ Started(t)
    /\ calm' = FALSE
    /\ UNCHANGED <<disk, saves, cache, latch, deferred, flock, job, todo, event, missed>>

ScanPage(t, p) ==
    /\ pc[t] = "scan" /\ p \in todo[t]
    /\ todo' = [todo EXCEPT ![t] = @ \ {p}]
    /\ Becomes(t, "stat", [job[t] EXCEPT !.path = p])
    /\ UNCHANGED <<disk, saves, cache, process, flock, event, missed, calm>>

CommitRebuild(t) ==
    /\ pc[t] = "scan" /\ todo[t] = {}
    /\ db' = [tx EXCEPT !.completed = TRUE]
    /\ tx' = NoDb
    /\ Becomes(t, "unmark", NoJob)
    /\ UNCHANGED <<disk, saves, marker, process, flock, todo, event, missed, calm>>

\* clear_shadow_sync_failed: the marker first, then the latch of this process.
ClearMarker(t) ==
    /\ pc[t] = "unmark"
    /\ marker' = FALSE
    /\ Goto(t, "unlatch")
    /\ UNCHANGED <<disk, saves, db, tx, process, flock, job, todo, event, missed, calm>>

ClearLatch(t) ==
    /\ pc[t] = "unlatch"
    /\ latch' = [latch EXCEPT ![ProcOf[t]] = FALSE]
    /\ Goto(t, "unboot")
    /\ UNCHANGED <<disk, saves, cache, booting, deferred, up, flock, job, todo, event, missed, calm>>

\* Rollback, then the error goes into the generation that stays.
RebuildFails(t) ==
    /\ "error" \in Mishaps
    /\ job[t].kind = "scan"
    /\ tx' = NoDb
    /\ db' = [db EXCEPT !.error = TRUE]
    /\ Becomes(t, "unboot", NoJob)
    /\ todo' = [todo EXCEPT ![t] = {}]
    /\ calm' = FALSE
    /\ UNCHANGED <<disk, saves, marker, process, flock, event, missed>>

EndBootstrap(t) ==
    /\ pc[t] = "unboot"
    /\ booting' = [booting EXCEPT ![ProcOf[t]] = FALSE]
    /\ Goto(t, "pop")
    /\ UNCHANGED <<disk, saves, cache, latch, deferred, up, flock, job, todo, event, missed, calm>>

PopDeferred(t) ==
    /\ pc[t] = "pop"
    /\ todo' = [todo EXCEPT ![t] = deferred[ProcOf[t]]]
    /\ deferred' = [deferred EXCEPT ![ProcOf[t]] = {}]
    /\ Goto(t, "replay")
    /\ UNCHANGED <<disk, saves, cache, latch, booting, up, flock, job, event, missed, calm>>

\* The replayed sync enters the writer lock again on the same thread.
Replay(t, p) ==
    /\ pc[t] = "replay" /\ p \in todo[t]
    /\ todo' = [todo EXCEPT ![t] = @ \ {p}]
    /\ Becomes(t, "stat", [NoJob EXCEPT !.kind = "replay", !.path = p, !.want = disk[p]])
    /\ UNCHANGED <<disk, saves, cache, process, flock, event, missed, calm>>

EndRebuild(t) ==
    /\ pc[t] = "replay" /\ todo[t] = {}
    /\ flock' = None
    /\ Started(t)
    /\ UNCHANGED <<disk, saves, cache, latch, booting, deferred, job, todo, event, missed, calm>>

-----------------------------------------------------------------------------
(* Reading one page, and the death of a process *)

ReadHealth(t, p) ==
    /\ t \in Readers /\ Free(t) /\ Ready(ProcOf[t])
    /\ Becomes(t, "fresh", [NoJob EXCEPT !.kind = "read", !.path = p])
    /\ UNCHANGED <<disk, saves, cache, process, flock, todo, event, missed, calm>>

\* ensure_shadow_page_fresh: anything but an equal stamp falls back to Markdown.
CheckFresh(t) ==
    /\ pc[t] = "fresh"
    /\ LET p == job[t].path IN
          IF db.rows[p] # NoRow /\ db.rows[p].stamp = disk[p]
          THEN Becomes(t, "query", [job[t] EXCEPT !.want = disk[p]])
          ELSE Becomes(t, "idle", NoJob)
    /\ UNCHANGED <<disk, saves, cache, process, flock, todo, event, missed, calm>>

\* The block is looked for in the rows of every page, not of the page named; a
\* block that no row holds is answered as not found, without a look at the file.
FindAnchor(t) ==
    /\ pc[t] = "query"
    /\ \/ Rows(db) # {} /\ Becomes(t, "rows", job[t])
       \/ Becomes(t, "served", [job[t] EXCEPT !.from = None])
    /\ UNCHANGED <<disk, saves, cache, process, flock, todo, event, missed, calm>>

\* A transaction of its own selects the rows below the anchor's rowid.  Rowids
\* are used again: after a commit in between the rowid may be nothing's (an empty
\* excerpt) or another block's.  The model keeps no rowids and allows each.
SelectRows(t) ==
    /\ pc[t] = "rows"
    /\ \/ Becomes(t, "served", [job[t] EXCEPT !.from = None])
       \/ \E r \in Rows(db) :
             Becomes(t, "served", [job[t] EXCEPT !.from = r, !.text = db.rows[r].text])
    /\ UNCHANGED <<disk, saves, cache, process, flock, todo, event, missed, calm>>

\* An inconsistent subtree, or an exception of SQLite: the Markdown answers.
FallBack(t) ==
    /\ pc[t] \in {"query", "rows"}
    /\ Becomes(t, "idle", NoJob)
    /\ UNCHANGED <<disk, saves, cache, process, flock, todo, event, missed, calm>>

Answer(t) ==
    /\ pc[t] = "served"
    /\ Becomes(t, "idle", NoJob)
    /\ UNCHANGED <<disk, saves, cache, process, flock, todo, event, missed, calm>>

Of(q) == {t \in Threads : ProcOf[t] = q}

Crash(q) ==
    /\ "crash" \in Mishaps
    /\ \E t \in Of(q) : pc[t] # "down"
    /\ pc' = [t \in Threads |-> IF t \in Of(q) THEN "down" ELSE pc[t]]
    /\ job' = [t \in Threads |-> IF t \in Of(q) THEN NoJob ELSE job[t]]
    /\ todo' = [t \in Threads |-> IF t \in Of(q) THEN {} ELSE todo[t]]
    /\ flock' = IF flock \in Of(q) THEN None ELSE flock
    /\ tx' = IF \E t \in Of(q) : job[t].kind = "scan" THEN NoDb ELSE tx
    /\ latch' = [latch EXCEPT ![q] = FALSE]
    /\ booting' = [booting EXCEPT ![q] = FALSE]
    /\ deferred' = [deferred EXCEPT ![q] = {}]
    /\ up' = [up EXCEPT ![q] = FALSE]
    /\ missed' = [missed EXCEPT ![q] = [p \in Paths |-> 0]]
    /\ event' = IF Watchers \cap Of(q) # {} THEN [p \in Paths |-> "none"] ELSE event
    /\ calm' = FALSE
    /\ UNCHANGED <<disk, saves, db, marker>>

-----------------------------------------------------------------------------
Work(t) ==
    \/ Check(t) \/ Defer(t) \/ TakeLock(t) \/ LockTimeout(t)
    \/ Stat(t) \/ Parse(t) \/ CommitPage(t) \/ DeleteRow(t) \/ SyncFails(t)
    \/ RaiseLatch(t) \/ WriteMarker(t) \/ RecordError(t)
    \/ StartWatcher(t) \/ BeginRebuild(t) \/ RebuildTimeout(t) \/ OpenFails(t) \/ CommitRebuild(t) \/ RebuildFails(t)
    \/ ClearMarker(t) \/ ClearLatch(t) \/ EndBootstrap(t) \/ PopDeferred(t) \/ EndRebuild(t)
    \/ CheckFresh(t) \/ FindAnchor(t) \/ SelectRows(t) \/ FallBack(t) \/ Answer(t)

Page(p) == HumanSave(p) \/ HumanDelete(p)

PageOf(t, p) == RobotWrite(t, p) \/ Deliver(t, p) \/ ScanPage(t, p) \/ Replay(t, p) \/ ReadHealth(t, p)

Next ==
    \/ \E p \in Paths : Page(p)
    \/ \E t \in Threads : Prepare(t) \/ Work(t)
    \/ \E t \in Threads, p \in Paths : PageOf(t, p)
    \/ \E q \in Procs : Crash(q)

Spec == Init /\ [][Next]_vars

-----------------------------------------------------------------------------
(* Properties *)

\* An excerpt answered from the cache with rows of the page the reader named is
\* no older than that page was when the read compared mtime and size, whoever
\* rewrites the row meanwhile.  Rows of another page, an empty excerpt and "not
\* found" carry no such promise: nothing compares them with a file
\* (shadow_graph_repository.read_subtree_markdown, sync_page_into_connection).
ServedCurrent ==
    \A t \in Threads :
        pc[t] = "served" /\ job[t].from = job[t].path => job[t].text >= job[t].want

\* shadow/sync.py:183 has reads of a page that is not in the cache routed to the
\* Markdown: that is so at the freshness check, and no longer at the query.
AbsentGoesToMarkdown ==
    [][\A t \in Threads : pc[t] = "query" /\ pc'[t] \in {"rows", "served"}
          => db.rows[job[t].path] # NoRow]_vars

\* A process whose sync of a page failed does not call the cache ready while it
\* still holds an older text of that page, whatever other processes clear.
FailureHides ==
    \A q \in Procs, p \in Paths :
        Ready(q) /\ db.rows[p] # NoRow => db.rows[p].text >= missed[q][p]

\* Nothing is under way that would still bring the page into the cache.
Settled(p) ==
    /\ event[p] = "none"
    /\ \A q \in Procs : p \notin deferred[q]
    /\ \A t \in Threads : job[t].kind # "scan" /\ job[t].path # p /\ p \notin todo[t]

Current(p) == IF disk[p] = 0 THEN db.rows[p] = NoRow
                             ELSE p \in db.parked \/ db.rows[p].text = disk[p]

\* A cache that calls itself ready holds every page as it is on disk, but for
\* the parked ones, once nothing that concerns the page is under way.
ReadyIsComplete ==
    \A p \in Paths : Settled(p) /\ (\E q \in Procs : Ready(q)) => Current(p)

\* That much holds as long as nothing went wrong: no lock wait timed out, no
\* sync failed, no process died, none was prepared twice, and a watcher saw
\* every edit of the human, however syncs and the rebuilds of other processes
\* interleave.
CalmIsComplete == calm => ReadyIsComplete

=============================================================================
