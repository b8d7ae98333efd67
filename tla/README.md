# TLA+ models of Matryca Plumber

Matryca Plumber is a set of programs that edit one Logseq graph, a directory of Markdown files, together
with a human who edits it in Logseq: a maintenance daemon that reads pages, asks an LLM about them and writes
what it learnt back, an MCP server with tools for agents, a web UI and a command line. There is no server in the
middle. The programs share files, `flock`s beside those files, a SQLite cache and a JSON catalog, and the human
takes no lock at all. These modules model the parts where that can go wrong.

Sources are named by their path in the repository. `PROJECT.json` lists, for every definition, the lines it
stands for (`map`), every run, every finding, every hazard with the properties that watch it, and every theorem.

- [The system](#the-system): components, state, operations, what is hard
- [Modules](#modules): what models what
- [Runs](#runs): bounds, fairness, what each one shows
- [Findings](#findings)
- [Proofs](#proofs)
- [Not modelled](#not-modelled) and [what could come next](#what-could-come-next)

## The system

| Component | State it keeps | Operations | Talks to | What is hard | What makes it correct |
|---|---|---|---|---|---|
| Page lock (`src/graph/page_write_lock.py`, `src/utils/platform_lock.py`) | registry of RLocks per process (LRU, capped), flock depth per thread, a sidecar file per page | `page_rmw_lock`, `probe_page_rmw_lock`, eviction, `clear_page_write_locks`, `sweep_stale_page_rmw_sidecars` | every writer of a page | two levels of locks, eviction of entries, unlinked inodes, early exits, killed holders | one thread per page in all processes; every exit gives back what it took; a waiter gets in |
| Page writes (`src/graph/markdown_blocks.py`, `src/agent/daemon_semantic_write.py`, `daemon_llm_cycle.py`, `src/graph/property_line_edit.py`, ...) | page text and mtime, baseline mtime, temporary files | snapshot, inference, check, locked re-read, verify, stage, `os.replace`, retry | page lock, human | seconds of LLM between reading and writing, the human without a lock, baselines taken after the reading, equal mtimes, retries | robots that read under the lock keep each other's edits; a human's edit is dropped only if it came after the last check, or between a reading and a later baseline |
| Shadow DB (`src/shadow/*`, `src/agent/shadow_graph_repository.py`) | SQLite rows with mtime and size, health, latch, marker file, deferred paths, writer flock | incremental sync, delete, rebuild, replay, freshness check, subtree read | post-write hook, file watcher, bootstrap of each process | syncs during a rebuild, failures in one process seen by another, stale reads | the rows of a page that a read serves are not older than the page was when it was checked; a failed sync hides the cache; a ready cache is complete |
| Daemon lock (`src/agent/daemon_process_lock.py`, `maintenance_daemon.py`) | lock file and its inode, pid file, signal handlers | start, detached start, release, stop, escalation to SIGKILL | command line, UI | unlink after release, cleanup twice, stale pids, hung shutdown | one daemon per graph; a stop ends |
| Master catalog (`src/graph/master_catalog.py`, `bootstrap_harvest.py`) | JSON file, backup, per-process cached copy with remembered mtime, pending removals, `persist_allowed` | load, recover, quarantine, merge-on-save, prune with replace, harvest, sync after a write | daemon cycle, manual audit, readers | several writers with their own copies, corrupt files, stale caches | no save loses a newer row; the catalog comes in step with the pages |
| Daemon checkpoint (`src/agent/daemon_state.py`, `src/graph/daemon_checkpoint.py`) | JSON state, backup, sidecar flock | save, load with retry, recovery and restore | daemon, stop command, UI, MCP server, command line | a reader repairs the file without the flock; the backup is copied in place; crashes between replace and copy | an atomic register until a file is damaged; one mishap costs at most the saves without a backup |
| Duty cycle (`maintenance_daemon.py`, `daemon_llm_cycle.py`, `daemon_state.py`, `bootstrap_harvest.py`) | bootstrap gate, queue, budget, status and mtime of every page, the state a heartbeat thread is about to save | bootstrap, scan, fast track, second listing, quarantine, turn of a page with the LLM, record, writes to other pages, journey log, reload, stop, restart | checkpoint, catalog, page writes, human | the mtime recorded is not that of the text read; a second thread saves the ledger; the daemon itself revises pages whose turn it is not; failures in every step | what the ledger says of a text was found in that text; nothing is analysed twice; every page gets settled; a stop ends |
| File watcher (`src/daemon/file_watcher.py`) | pending timers by path | debounce, deliver, cancel | Shadow DB, caches | coalescing, cancelled events | the last state of a page is delivered |
| In-process caches (`generational_cache.py`, `alias_index.py`, `backlink_index.py`, `post_write.py`, `ast_cache.py`) | alias index with the signature (path, mtime) of the files, backlink counts in memory and in a file all processes share | build with three attempts, patch after a write, collect, clear; count, save, drop | searches, link resolution, audits | signature and text are read at different times; a patch and a collection change both | a matching signature serves what the files say |
| Cognitive modules, MCP tools, parsing, LLM client, agent memory, semantic index, UI, read-only gateway, support | mostly none that is shared | see `PROJECT.json` | | | |

How they meet: a page write runs inside the page lock and ends in the post-write hook, which syncs the Shadow DB
and drops caches. The daemon adds a sync of the catalog and a record of the page in its ledger,
which it keeps in the checkpoint; the ledger decides which pages the next cycle takes. The human's save reaches the Shadow DB only through the
daemon's file watcher, and the catalog only through the daemon's idle cycle or an audit. Each process prepares the
Shadow DB for itself when it starts and may rebuild it while others read and sync.

## Modules

| Module | Models | Abstract / detailed |
|---|---|---|
| `PageMutex` | the promise of `page_rmw_lock`: a set of holders per page with at most one element | abstract |
| `PageLock` | the lock itself: registry, RLocks, depth, descriptors, inodes; implements `PageMutex` | detailed |
| `PageLockProofs` | theorems on both | |
| `PageWrite` | read-modify-write of one page by robots beside the human, on the abstract lock | composes writers with the mutex |
| `PageWriteProofs` | theorems on it | |
| `ShadowSync`, `ShadowSyncProofs` | the cache, its writers, readers and rebuilds in several processes | |
| `DaemonLock`, `DaemonLockProofs` | daemon start, life and stop | |
| `MasterCatalog`, `MasterCatalogProofs` | the catalog file, its backup, the cached copies, load, save, harvest, prune | |
| `CheckpointRegister` | the promise of `save_daemon_state` and `load_daemon_state`: one atomic register | abstract |
| `Checkpoint`, `CheckpointProofs` | the file, its backup, the flock, copies in place, recovery; implements the register | detailed |
| `DutyCycle`, `DutyCycleProofs` | `run_forever`: gate, queue, turns, ledger, heartbeat; on the register and the atomic page write | composes them |
| `GraphCaches`, `GraphCachesProofs` | alias index and backlink counts of several processes beside the human | |
| `MC...` | the threads, processes and programs of the runs | |

### PageLock
`registry[p]` is `_page_locks` in order of use, `ref[t]` the RLock `_lock_for_key` returned and `stack[t]` the RLocks
a thread holds; an RLock and an inode are identities that return to the free set when nothing refers to them, so that
an evicted lock and its successor are different locks for the same page. `Call` to `ExitBody` follow one call through
`_lock_for_key`, `acquire`, the open and the flock of the sidecar; every early exit (`ThreadLockUnavailable`,
`OpenFails`, `ProbeContended`, `FlockRaises`) is an action that has to undo what the call took. `ClearRegistry` is a process that
drops its registry at the end of its lifespan, `SweepSidecar` the daemon's sweep when it stops, `Crash` a killed process.

### PageWrite
A writer is a program, a sequence of steps in the order in which one function of the code snapshots, thinks, checks,
locks, reads, verifies and writes. The programs are translated one by one (`SemanticWrite`, `PropertyEdit`, ...), and one
set of actions executes them, so that a property about "every writer that verifies" is about all of them. A thread makes one call after
the other, and `Leave` chooses the next among those it may make (`Does`). An edit is the
time at which its bytes were written, which is also the mtime it gives the page: that keeps the hazards of equal
and coarse mtimes. `LockUnavailable`, `WriteFails` (with the retries of `atomic_write_bytes`), `SweepTmp` and `Crash` may
happen at any point; `HumanSave` and `HumanDelete` ignore the lock.

Not every call takes its baseline first. The daemon's second pass takes page and baseline again after its lint modules, the page first
(`relint`); appends read under the lock and take the baseline there (`append`); an alias is appended to a text read before the lock and
before the baseline (`alias`). Two histories keep what such an order misses: `gapSeen` and `gapThought` hold what came or went on the
page while a text that had been read had no baseline yet. So `HumanEditsKept` and `InferenceCurrent` speak of every order of the code
and say what is lost in which, and `BaselineFirst` says which calls have no gap at all.

### ShadowSync
A page's text is the number of the save that made it; a row has the text it was parsed from and the stamp it was given
before. `Stat`, `Parse` and `CommitPage` are separate steps, as are the check of a reader and its two queries: `FindAnchor` looks for the
block in the rows of every page, `SelectRows` fetches its subtree in a transaction of its own, and either may meet another generation of
the cache. A block that no row holds is answered as not found without a look at the file; an inconsistency or an error goes to the Markdown
(`FallBack`). A rebuild works
in an open transaction `tx` that other processes do not see, holds the writer flock, and ends in the order of the
code: commit, marker, latch, end of bootstrap, replay of the deferred paths; a database that does not open leaves the bootstrapping flag up
until the process ends or rebuilds (`OpenFails`, `bootstrap.py:79`). The daemon starts its watcher when its bootstrap is over, not before: what the
human edits until then is not indexed, and outside `calm`. Failures raise the latch of their process,
the marker file and the error row in three separate steps, and `Crash` may come between any two.

### DaemonLock
One element of `Daemons` is one worker process. Its descriptor is of an inode, which the lock path may no longer name.
Leaving by an exception cleans up twice (`cleanups`): in the `finally` of `run_forever` and in the `except` of
`start_daemon_foreground`. A stop command reads the pid
file, signals, waits, and kills. `overtaken` is a history variable: it records that a daemon flocked while another was
between releasing and unlinking, or on an unlinked file.

### MasterCatalog
A row is the mtime it bears; a process has a copy `rows[q]`, whether it remembers the file's mtime (`known`), its queued
removals and `persist_allowed`. A load is split where the code gives the flock back: read, recover, quarantine, copy (begin
and end, the backup is written in place), remember. A save is one hold of the flock, and the mtime is taken after it.
The daemon syncs a row after each write, refreshes and prunes when idle, prunes without a refresh at the end of an active cycle or when it is
stopped in the fast track (`StartPrune`), and saves when it shuts down; the audit harvests; readers load. A file whose root is valid JSON
and no object (`master_catalog.py:401`) is outside: it gives an empty catalog that is never saved, by any process, until somebody removes
it.

### Checkpoint
A content is the number of the save that wrote it. The primary is replaced, so a file somebody has open (`fd`) may be another
than the one the path names (`primary`, `data`); the backup and a restore are written in place, so they pass through `Torn`:
`OpenBackup` and `WriteBackup`, `OpenRestore` and `WriteRestore` are two steps each. A load reads the primary, reads it again after
a pause, does the same with the backup, and restores the primary from it, all without the flock; a process under the read-only
policy does not restore. `Damage` is a file torn or removed from outside, `Crash` a killed process, and copies may fail. Two
histories: `backed`, the newest content with a complete backup, and `overlapped`, a save that ran beside a recovery or a damage.

### DutyCycle
A file is its mtime, the revision of its text, and what the daemon looks for in it (`kind`: absent, empty, bad for the structural lint, plain,
indexed by an earlier run). A human's edit revises a text, and so does a write of the daemon to a page whose turn it is not; a turn and
the journey log only add to the text they find, and leave its revision. `mem` and `disk` are the ledger in memory and in the
checkpoint, which is the register of `Checkpoint`; `beat` is the copy the heartbeat thread took under the lock and saves after it. `pc`
follows the main thread through `Bootstrap` ... `HarvestDone`, `CycleStart`, `Scan`, the fast track (`FastTrack`, `Annotate`,
`Quarantine`, `FastTracked`), the second listing of the graph, where a page that is gone ends the daemon (`Listed`), the turn (`BeginTurn`,
`ReadJournal`, `ReadPage`, `Pipeline`, `Reread`, `Ask`, `Answer`, `Apply`, `Record`, `Post`) with its three ways to go wrong (`TurnFails`,
`Unlockable`, `TurnMalformed`), the idle cycle (`Idle`, `IdleSaved`), the pass at the end of either cycle (`JourneyLog`, `JourneySettle`,
`PassRaises`), `Reload`, `Wake` and `Finalize`. The human's `Edit` may fall between any two.

`OwnWrite` is what the daemon writes to other pages: the index of a harvest or of an idle refresh (`HarvestWrites`), aliases and new pages of
the modules (`AliasWrites`, `PageSeeded`), backlinks (`BacklinkWrites`), flags of dead links and missing assets (`HygieneWrites`). A page
written so is pending again, and its new text is analysed in its turn. These writes, like those of the human, are bounded (`MaxWrites`): a
daemon that kept revising its pages would never have all of them settled, and nothing here says that it does not.

The journey log writes its line into the journal of the day (`Today`) and settles it as skipped at the mtime it has by then, unread. What a
human added meanwhile is settled with it; the properties excuse the journal from there on (`slipped`), and the table of disagreements below
has what the code says of it. `analysed` is the newest revision a turn settled, `slipped` otherwise marks a page whose last edit fell into
one of the windows of `InWindow`, where the code takes the mtime of a text it did not look at.

Seen in this module, and part of it: a page that a human creates during the harvest makes the harvest's count wrong, which is
recorded as a failed bootstrap and keeps the LLM off until a restart (`maintenance_daemon.py:527`); a write that succeeded
before a later failure of its turn leaves a record with the old mtime, so that the page is pending again at once; a lock backoff is
not recorded over a processed record; a turn abandoned at its second check costs no budget; the heartbeat thread is joined for one
second only, so that it may save after the main thread's last save (`BeatSave` in every state).

### GraphCaches
A file has a stamp (its `st_mtime_ns`, unique, 0 for a page without one) and says which aliases it declares and which pages it links
to. `alias[p]` and `memory[p]` are the caches of a process, `disk` the file `backlink_counts.json`, `job[p]` the call the process is in:
`_lock` is held through a call, so a process is in one call at a time. `Sign`, `List`, `Read` of each page and `Compare` are the
three attempts of `cached_build_alias_index`; `Patch` and `Stamp` read a written page and then stat it; `Purge` and `Resign` are the
collection; `Lookup`, `Titles` and `Sources` (the directory is listed twice), `Count` of each page, `SaveDisk` and `Keep` are a load of backlink counts, and `Forget`, `Unlink` drop them.

Four histories name what the code cannot know, so that the properties can say exactly what holds. `skipped`: the process took the
stamp of a version it did not read. `contested`: a second page asked for an alias. `missed`: a page could not be read. `came`: a page
was there while it was counted, and not when the signature was taken. Each stands for a way to serve an old answer: a
collection stamps pages it does not read; a patch reads before it stats; a failed read is stamped all the same; and a page that is
created and deleted while an index is read leaves no trace in two equal signatures, because an absent page has no stamp. When the
page that owns a contested alias goes, the alias is free and not given to the other claimant until the index is rebuilt
(`resolve` then says that a new page is safe to create).

## Runs

All runs are small on purpose: two or three actors and one or two pages are enough for every race listed, because each
involves one page and at most two robots and the human (or two processes and the file). Identities (RLocks, inodes) are
more than can be in use at once, so that running out of them never blocks a step.

| Run | Instance | Shows |
|---|---|---|
| `PageLock_safety` | 2 daemon threads, 1 server thread, 2 pages, one of them without flock, registry of 1, killed server | exclusion where flock works, refinement of `PageMutex`, bound of the registry |
| `PageLock_liveness` | 2 server threads, 1 client, nesting 2, probes, sweep, registry loss, killed client | a call returns and gives everything back, also when its exclusion was lost to a sweep |
| `PageLock_sweep` | server, client, a daemon that stops | finding |
| `PageWrite_occ` | the daemon with and without its second pass (`semantic`, `relint`), a tool that edits, appends or adds an alias, a writer that does not watch; 4 write times, 2 attempts, faults, swept temporary files, kills | robots keep each other's edits; a human's edit is lost only after the last check or in a gap before the baseline, and so is what an inference was made from; which calls have no gap |
| `PageWrite_seed` | a page that comes and goes, seeded and appended to | robots keep each other's edits and an append those of the human, also on a page that is deleted and made again; every call ends and frees the lock |
| `Shadow_cache` | daemon (cycle, watcher), server (2 tool threads), one page, 2 saves, every kind of mishap | served rows of the page named are current, failures hide the cache, a calm cache is complete |
| `DaemonLock_life` | 2 foreground workers, one of which fails and one of which dies, 1 detached, 1 stop command, 3 inodes | one daemon outside the window; the stop ends |
| `Catalog_converge` | daemon, audit that also reads, 1 page, 2 saves, 1 restart or kill, 1 corruption | rows are kept, the catalog converges |
| `Checkpoint_register` | daemon, stop command, read-only observer, 3 saves, 1 damaged file, 1 copy cut short | refinement of the register; one mishap costs at most the saves without a backup |
| `DutyCycle_settle` | an indexed page beside a plain one and no journal of the day, or beside the journal and a page still to come; 1 turn per cycle, 1 write of the human or of the daemon outside turns, 2 starts, 1 fault | the ledger tells the truth; a processed page stays so; nothing is analysed twice; the LLM waits for the bootstrap; pages are settled; a stop ends |
| `DutyCycle_deleted` | the same, with edits that make a page plain or delete it | finding |
| `GraphCaches_serve` | daemon and command line in three divisions of work, 2 pages, 1 alias, 4 stamps, 1 fault or death | a matching signature serves what the files say, for aliases and backlinks; an alias leads to a page that declares it |

Bounds by name: `MaxRegistry` and `MaxNest` (PageLock), `MaxStamp` and `Attempts` (PageWrite), `MaxSaves` (ShadowSync,
MasterCatalog, Checkpoint), `MaxRestarts` and `MaxCorrupt` (MasterCatalog), `MaxFaults` and `MaxCuts` (Checkpoint), `Budget`,
`MaxWrites`, `MaxStarts` and `MaxFaults` (DutyCycle), `MaxStamp` and `MaxFaults` (GraphCaches).
- Two saves are enough to make a row older than a page while a third actor holds the middle value; the initial page is the first
  one. One restart or kill, placed anywhere, meets every step of both processes. One corruption is enough to take each path of
  the recovery, with the backup absent, half copied and readable. Two corruptions in a row are outside this bound.
- `Checkpoint`: with three saves one is in the primary, an older one in the backup and a third beside a recovery. The inodes are
  one more than can be named and open at once.
- `DutyCycle`: an edit placed anywhere meets every step of a turn, before or after the one fault and the one restart, and so does each of the
  daemon's own writes and the line of the journey log. The bound is one for all of them, so an edit and a journey line in one
  behaviour are outside it (the proofs have them, and the disagreement about the journal needs them). A budget of one makes
  the cycle end with pages left; the second start meets every ledger the first one can leave.
- `GraphCaches`: one page is there at first and the human may create and delete both; four stamps give three writes, enough
  for one before, one during and one after a build. Two pages may ask for the same alias.

The proofs of the safety properties hold for every value of these bounds; where a property is only model-checked the bounds are all there
is.

Deadlock is checked except where the system may stop for good: `DaemonLock_life` (every worker has run and died) and
`DutyCycle_*` (the daemon was stopped as often as it may start, and nobody edits).

### Fairness
- `PageLock`: a runnable thread runs; bodies end; a blocking flock is served in turn (strong fairness of `TakeFlock`).
  The kernel queues the waiters of a flock, and nothing in the code holds a page over an unbounded wait.
- `PageWrite`: a call that has started keeps running, and gets the page lock in turn, which `PageLock_liveness` shows of the lock.
- `DaemonLock`: only the stop command is scheduled. A daemon may hang anywhere, and `StopStops` must hold all the same.
- `MasterCatalog`: processes run, and the daemon's idle cycle comes round again (`run_forever` sleeps and
  loops), however often an active cycle prunes in between: its pages get settled (`PagesSettle`), hence strong fairness of `StartHarvest`. Nobody else is made to start: the convergence is the daemon's doing.
- `DutyCycle`: the main thread runs (`WF(MainStep)`), the heartbeat thread gets to save the copy it took (`WF(BeatSave)`), the waits
  of locked pages run out (`WF(Tick)`), and a call of the LLM returns or fails however often the heartbeat saves meanwhile (`SF(Answer)`:
  the client has a timeout). Neither a start, an edit nor a stop is made to happen.
- `Checkpoint`, `GraphCaches` have no liveness property: their calls are straight sequences with a bounded number of attempts.
- `ShadowSync` has no liveness property: the code promises none, an event lost with its process is not delivered again.

## Findings

Each is a run whose counterexample is a behaviour of the code, against a sentence of the repository
(quoted in `PROJECT.json`).

1. `PageLock_sweep`: a stopping daemon unlinks the sidecar a live process has flocked; the next caller locks a new inode.
2. `DutyCycle_deleted`: a page deleted while the graph is listed for the second time (`daemon_page_queue.py:95`, called at
   `maintenance_daemon.py:945` with nothing that catches it) raises `FileNotFoundError` out of `run_cycle` and `run_forever`, and the daemon
   ends, where the turn says "never abort cycle". A page deleted between that listing and its turn does the same
   (`daemon_llm_cycle.py:349`, `:296`), and so does a malformed reference in the journal of the day or in a flagged page, whose
   `ValueError` the pass at the end of a cycle does not catch (`:208`, `:224`).

Ten more disagreements were met while modelling. No run stands for them; the definition in the last column is in the module, and
TLC finds it violated in the instance named.

| Code | Against | Definition and instance |
|---|---|---|
| `reparent_blocks.py:82` and `property_line_edit.py:595` read the page before they have the page lock, and drop another robot's edit | `docs/ARCHITECTURE.md:605` | `PageWrite!EveryRobotUpdateKept`, `Does` of a `"stale"` or `"alias"` writer beside an `"edit"` |
| `daemon_llm_cycle.py:399` reads the text of its second pass before the new baseline: an edit in between is in no text the LLM saw and is not noticed by any check | `docs/ARCHITECTURE.md:606`, `:627`, `:638` | `PageWrite!NoGap`, one writer that does `"relint"` |
| `ingestion.py:209` and `property_line_edit.py:595` take the baseline after they have read: an edit in between is overwritten | `docs/ARCHITECTURE.md:627`, `:634` (which names the alias writer) | `PageWrite!NoGap`, one writer that does `"append"` or `"alias"` |
| `shadow_graph_repository.py:153` answers "not found" from the cache when the page was parked or deleted between the freshness check and the query | `sync.py:183` "reads for it must route to Markdown" | `ShadowSync!AbsentGoesToMarkdown`, `Mishaps = {}` |
| `bootstrap.py:118` removes the marker of a failure that came after the rebuild it ends had read the page; the cache calls itself ready without it | `CHANGELOG.md:483` | `ShadowSync!ReadyIsComplete`, no reader, `Mishaps = {"timeout"}` |
| `daemon_process_lock.py:135` unlinks the lock file after its release: two daemons hold exclusive flocks on two inodes | `daemon_process_lock.py:1`, `:100` | `DaemonLock!AtMostOneDaemon`, no failures |
| `master_catalog.py:444` refreshes the backup from the primary it could not read, after it recovered from that backup | `master_catalog.py:360` | `MasterCatalog!BackupSurvives`, `MaxCorrupt = 1` |
| `daemon_llm_cycle.py:172` settles the journal of the day at its mtime after the log's line, with what a human added meanwhile | `daemon_llm_cycle.py:173` "ignores daemon appends" | `DutyCycle!JournalRevisionsRead`, `MaxWrites = 2`, `MaxFaults = 0` |
| `daemon_state.py` restores the checkpoint outside the flock in any process that loads it, and may take back a save | `daemon_checkpoint.py:1` "Read-only daemon checkpoint access" | `Checkpoint!ReadersTakeNothingBack`, as `Checkpoint_register` |
| `generational_cache.py:278` stamps files at a collection that it has not read, and serves their old rows | `generational_cache.py:284` "reusing memory when source mtimes are unchanged" | `GraphCaches!HitMeansUnchanged`, `Roles <- MCCollector`, `MaxFaults = 0` |

## Proofs

Proved with TLAPS for every value of the constants. What a theorem assumes is in its statement.

| Theorem | Says | Assumes |
|---|---|---|
| `PageLockProofs!TypeCorrect`, `CallsGiveBack` | types; every exit path gives back RLock, depth and descriptor | - |
| `PageLockProofs!RegistryStaysBounded` | the registry of RLocks is within its cap, or within the number of threads where that is more | finitely many threads |
| `PageLockProofs!PageExclusion`, `LockImplementsMutex` | one thread per page; the lock implements `PageMutex` | flock works on every page, nobody sweeps sidecars |
| `PageWriteProofs!TypeCorrect` | types, and no page bears a time to come | - |
| `PageWriteProofs!RobotUpdatesSafe` | no write of a kind that reads under the lock drops another robot's edit, whatever calls its thread and the others make | - |
| `PageWriteProofs!HumanEditsSafe` | a write that compares mtimes, in whatever order it reads and takes its baseline, drops only edits saved after its last check or in its gap | - |
| `PageWriteProofs!InferenceSafe` | in both passes of the daemon, what is written differs from the text it was inferred from at most by the gaps | - |
| `PageWriteProofs!BaselineFirstSafe` | the calls that take their baseline before anything else (`semantic`, `property`, `edit`) have no gap | the page exists all along |
| `ShadowSyncProofs!TypeCorrect`, `ReadsAreCurrent` | types; a parked page has no row, and the counts health compares never claim more indexed pages than a rebuild listed; the rows of the page named that a read serves are never older than the page was at its freshness check, whatever goes wrong | - |
| `ShadowSyncProofs!FailureStaysHidden` | a process that failed to index a save does not call the cache ready while the page's row is older | - |
| `ShadowSyncProofs!CalmComplete` | while nothing goes wrong, a cache that calls itself ready holds every page that nobody is bringing | one thread delivers the file watcher's events |
| `DaemonLockProofs!TypeCorrect`, `DaemonIsSingleton` | types; two daemons only after an overtaking | - |
| `MasterCatalogProofs!TypeCorrect`, `MergesKeepRows` | types; while no page is deleted and the file is readable no save loses or ages a row | - |
| `CheckpointProofs!TypeCorrect`, `RegisterImplemented` | types; the flock is held exactly inside a save; the checkpoint implements `CheckpointRegister` | - |
| `CheckpointProofs!OneMishapSafe` | one damaged file or one cut copy costs no state whose backup was completed | no save beside the damage or a recovery (in the property) |
| `DutyCycleProofs!TypeCorrect`, `LlmGatedSafe` | types; a turn asks the LLM only behind the bootstrap gate | the checkpoint was not lost (in the property) |
| `DutyCycleProofs!SettledSafe` | what the ledgers say of the text a page holds is what a turn found in it, but for the windows and for the journal of the day once the journey log settled it | - |
| `DutyCycleProofs!ProcessedStaysSafe`, `AnalysedOnceSafe` | a processed page stays so on disk while nobody writes it; no text is analysed twice, where a page the daemon revised outside its turn has a new text | no faults (in the properties) |
| `GraphCachesProofs!TypeCorrect`, `HitIsCurrentSafe` | types; an index served has the rows of the files as they are | - |
| `GraphCachesProofs!OwnersAgreeSafe` | through patches and collections an alias leads to a page that declares it, and back | - |
| `GraphCachesProofs!CountsMatchSignatureSafe` | backlink counts that are served are those of the files as they are | - |

The arguments:
- **PageLock.** `CallInv` says what a thread holds at each label. `SidecarInv` says why the flock excludes: whoever waits
  for a flock or is in a body has a descriptor of the inode the path names *now*, and one descriptor per inode is locked. Exclusion
  alone is not inductive: it says nothing of the thread that is about to lock. A sweep breaks the first half, which is finding 1.
  The registry: `RegistryInv` says that a registry has one entry for a page, that an RLock is in one entry, and that a thread holding
  an RLock that is still listed is locking that entry's page. So a thread keeps at most one entry from being evicted, and an eviction that
  finds none has as many other threads as entries (`AllHeld`). The bound alone is not inductive.
- **PageWrite.** The facts about programs that the proof needs (the order of read, verify and replace) are assumptions
  that TLC evaluates on the programs of the module. `LockInv` ties the holder to the place in the program, `PendingInv` says that
  what a call of `LockedKinds` read under the lock still contains every robot's edit of the page. `EditInv` follows one call that watches.
  As long as no baseline stands for what it read, or the page still has the baseline, page and reading differ by the gap (`ReadOf`,
  `ThoughtOf`); once verified, the text to be written lacks only edits of the gap and the window (`VerifiedOf`). It needs `StampInv`: a temporary file
  bears a time that no baseline has, so a page that another robot replaces gets an mtime that differs from every baseline. `FirstInv` is
  for the calls with the baseline first: past its first step such a call has one, so the histories of the gap never grow. That fails on a
  page that does not exist, whose baseline is none, hence the assumption.
- **ShadowSync.** `ServedCurrent` speaks of one reader from its check to its answer; what keeps it true are the writers.
  `WorkInv`, `RowsInv`: a stamp is never newer than the text read after it (the stat before the parse), in a job, in a row and in the
  open transaction. `TxInv`: a rebuild's row is not older than the row it will replace. `ReadInv`: at both queries, every row that is or may
  still be committed for the page named is gone or at least as new as the stamp that was compared, so it does not matter which generation
  either query sees. `LockInv` is needed because two
  writers at once would break it: whoever commits holds the flock, so nobody else has parsed. Most actions touch none of
  this (`Quiet`); the three that replace rows end with nobody in the middle of a page (`Written`).
  For the counts `CountInv` adds the open transaction of a rebuild: the pages it has indexed and those it has left are together no more
  than the pages it listed, and by `LockInv` there is one rebuild at a time to add to them.
  `FailureHides` is kept by `HideInv`. A process *owes* the saves it has missed and those its threads are indexing (`Owes`), and all of
  them are on disk or superseded (`DebtInv`). `RebuildInv`: while a process rebuilds, its `bootstrapping` flag is up, so no thread of it
  comes to owe more (it is deferred), and whatever the rebuild has put or will put in its transaction is as new as what is owed; so the
  latch it clears hides nothing (`LatchInv`). The flag is read without the state lock: a thread that read it before the rebuild
  began has had its page saved before, and the rebuild's transaction starts empty.
  `CalmIsComplete` speaks of pages that nobody is bringing; what is kept (`CalmInv`) speaks of all of them. `CacheInv`: whatever a complete
  cache lacks of a page is still to come, by an event or a thread that has yet to get the flock (`Waiting`), or by who holds it (`AtPage`).
  For that to be kept, `ReadersInv`: who has read a page has read it as it is, or the page changed since and waits again; and `ScanInv`:
  what the transaction of a rebuild lacks is on its list or waits, so the commit of the rebuild loses nothing that others brought.
  `EventInv`: a removal that is delivered late finds the page gone, or the page that replaced it has an event of its own that comes after.
  That is where one thread per watcher is needed (the debounce worker of `file_watcher.py:109`): with two that deliver, TLC finds the
  removal of the old page indexed after the sync of the new one. `StartInv` and `LabelInv` say that without mishaps nobody is
  deferred and no job takes the paths of a failure.
- **DaemonLock.** `LockInv` is `OpenFile`, `HoldsFlock`, `OnlyHolders`, `OneHolder` and `PathIsHeld`: unless somebody was
  overtaken, whoever has a flock has that of the file the path names and nobody is about to unlink it.
- **MasterCatalog.** `CalmInv`: while the file was never unreadable and no page deleted, no process is in the
  recovery, no removal is queued, no copy and no file has a row of a page that is not there, so that a prune finds nothing and
  replaces nothing, and a merge takes the larger of two rows. Without it a merge could apply a removal, which ages a row to none.
- **Checkpoint.** `SoundInv`: until a file is damaged the primary is there and whole as soon as a backup exists or is being made, and no
  process is in a recovery. That is why a torn backup does not matter: no load reads it. The refinement alone says nothing of it, and a
  load between the truncation and the write of a backup would then have to be shown to return the right state. `HasBackup` is the
  part of the types that needs an argument: a restore goes on only with a backup that is there.
  `Keeps` is what one mishap leaves: of the two files one is whole; a whole primary has the state of the newest backup or a newer one;
  where the primary is not whole, or somebody takes it for damaged, the backup is whole or was never made; and a save whose new primary is in
  place copies that primary. `BackedInv` says that a whole backup is the newest one completed. `Keeps` needs `SoundInv`: damage of the backup is harmless only because
  before the first mishap the primary is whole and nobody has begun to recover from the backup. And it needs that nobody saves while
  somebody recovers (`Apart`): a restore truncates whatever file the primary's path names by then, which may be a new save's.
- **DutyCycle.** `TypeInv` adds to the types that a turn has a page, an mtime and a budget (`Seated`). `GateInv`: from the first cycle on
  either the gate is open or the failure of the bootstrap is remembered in memory, on disk and in the copy of the heartbeat (`Behind`);
  all three are needed, because a reload takes the state from disk and the heartbeat may save its copy after it. The queue of the
  LLM loop is empty when the gate is shut.
  `LedgerInv`: every record, in memory, on disk or with the heartbeat, has an mtime that its page has or had (`Honest`), so whoever
  writes the page takes the record out of the argument for good, however late that record is saved; and what a turn has
  read is what the page holds, unless its check will fail or an edit fell into a window (`SeenInv`). The ledger alone is not inductive: it
  says nothing of the turn that is about to record. A journal settled by the journey log leaves the argument as `slipped`, unless its text was
  analysed (`LedgerJourney`).
  `FaultlessInv` is for runs without faults: disk and memory agree on every page that is done and both know every page whose text was
  analysed, but for the disk between `Record` and `Post`, and but for the journal of the day, to which the daemon adds (`AgreeInv`).
  `TurnInv`: the heartbeat's copy is memory as it is; a page in the queue or in its turn is not done and its text not analysed (`Due`), so that no
  record of a done page is replaced; what a turn is about to ask is newer than what was analysed, and never the journal of the day,
  which has its structural turn. The daemon's own writes disturb none of this: the page they revise is not that of the turn, and its text is
  newer than what was analysed of it (`Revised`). A record that could equal `NoRec` would break it, hence `RecAssumption`.
- **GraphCaches.** `Good` says of an index that its two directions agree, up to contested aliases; every operator on indexes keeps it.
  `CacheInv` ties each row to the stamp of its page in the signature (`Row`): the file has another stamp by now, or the row is what it
  says. A file that is written gets a stamp of the future, so it falls out of `Row` and never back in (`FileMine`). A build claims this
  only of the pages it has read, a patch not of the page between its read and its stat, a collection has already dropped
  what it did not list. `CountInv` does the same for the counts: while the pages are at the stamps of the signature (`Steady`) the
  counts so far are those of the pages read so far, and what is on disk was such a count whoever wrote it.

Only model-checked:
- liveness (`EveryCallReturns`, `EveryWriteEnds`, `StopStops`, `CatalogConverges`, `PagesSettle`, `StopEnds`): fairness and
  ENABLED are out of the prover's reach. Every invariant and every action property of the passing runs is proved, under
  the assumptions of the table.

No module declares a recursive operator, so nothing that is proved rests on an induction over data.

## Not modelled

- *Parsing and editing of Markdown*, prompts, ranking, rendering: pure functions of their input, which the repository tests.
- *LLM, network, SQLite and the file system* are external: their answers are choices, their guarantees (an atomic rename, one writer,
  one exclusive flock per inode, release on close) are what the code relies on. Power loss is not modelled.
- *Windows locks*, read-only observer mode, reused and foreign pids.
- *Text in the catalog*: a row is its mtime. A sync that reads the page and takes its mtime afterwards
  (`maintenance_daemon.py:605`) may give an old text the new mtime; this model cannot tell. Mtimes only grow: a page restored with an older
  mtime is harvested by every cycle and never saved (`master_catalog.py:255` against `:347`).
- *Time*: there is no clock in these models. A timeout is a choice, so that the 125 s of the stop command may fall at any point of a
  shutdown, but nothing is said about their order.
- *Blocks*: duplicate block identities across pages (`shadow/sync.py:141`), two files of one title, and writes of two pages by one
  split (`auto_split.py`).
- *Stats of a signature*: those of one signature are one step in `GraphCaches`, and so is each listing; stamps are unique, so two writes
  within the resolution of the file system's clock are not told apart there (`PageWrite` has them).
- *The BM25 corpus* is built by the same loop as the alias index and is patched only in a process that never queries it; *the AST
  cache* is keyed by text. Neither adds a race to `GraphCaches`.
- *Telemetry, grouping by cluster, cooperative yields and the registry of links* of the daemon's cycle change nothing that a
  property of `DutyCycle` looks at. What its modules, backlinks and link checks decide to write to which page is a choice there. Midnight is
  not: the day does not change. The harvest and the refresh of an idle cycle ask the LLM too, behind no gate; `LlmGated` and
  `AnalysedOnce` are about turns.
- *Reads of the cache* that no property of `ShadowSync` covers: rows of another page than the one named, which nothing compares with a file;
  an empty excerpt, when a rowid was given up between the two queries; blocks as such.
- *The file watcher's own lock and deadlines*: `ShadowSync` has the event, its coalescing and its delivery.

The map covers a small part of the repository's lines, and would do so if every stateful component were modelled to the last field. Most
of the lines are programs without shared state: release qualification and documentation scripts, parsers, the read-only gateway and
its conformance kit, the LLM client with its prompts, HTTP and terminal rendering, evaluation harnesses of the agent memory. They are
listed in `PROJECT.json` with their reason. Among the lines that decide how processes, threads and the human meet, those of the lock, the
page writes, the cache database, the daemon's life, ledger and checkpoint, the catalog and the in-memory indexes are translated.

### Hazards no property watches

Read in the code and left out, with the module that comes nearest:
- `page_write_lock.py:61`: an RLock that was returned and not yet acquired may be evicted; two threads of one process then have two
  RLocks of one page, and only the flock keeps them apart (`PageLock!InProcessExclusion` states it).
- `auto_split.py:126`: the child page's lock is taken inside the parent's; two splits in opposite directions wait for each other
  until the timeout. `auto_split.py:118`: the child is written before the parent, so a later split may replace a subtree by an embed
  of an older child. `PageWrite` has one page.
- `markdown_blocks.py:331`: the window between the last check and `os.replace`; `:239`: baselines of whole seconds. `HumanEditsKept`
  states what is kept with both.
- `shadow/sync.py:336`: the error row of a failed sync may not be written, so that only the latch of its process remembers the failure;
  `:141`: a block that moved between pages is rejected as a duplicate until the other page is synced; `:233`: two files of one title
  replace each other's row; `health.py:57`: source and indexed counts that incremental syncs do not update.
- `shadow/bootstrap.py:117`: the rebuild commits an empty error before it clears the marker and the latch; a process killed in between
  leaves a marker beside a complete cache (`ShadowSync` has the order and the crash, and no property asks that the cache comes back).
- `maintenance_daemon.py:1193`: the second cleanup of a worker that leaves by an exception; `daemon_process_lock.py:311`: `stop_daemon` removes a pid file that may be
  another daemon's by then.
- `master_catalog.py:255`: the merge takes the larger mtime while `needs_refresh` compares for inequality.
- `maintenance_daemon.py:343` gives up on writes in flight after 120 s and releases the lock; `file_watcher.py:208` drops the
  events that still wait when it stops; `graph_dispatch.py:302` computes an insertion line on a cached tree.

## What could come next

- `FileWatcher`: the debounce table with its lock and timers, delivering into `ShadowSync`.
- `PageSplit`: two pages written by one split, two page locks.
- `DutyCycle` together with `DaemonLock`: the writes in flight of a worker that is killed while its successor starts.
