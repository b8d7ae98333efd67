----------------------------- MODULE DutyCycle -----------------------------
(***************************************************************************)
(* MaintenanceDaemon.run_forever: the bootstrap gate, the queue of pending *)
(* pages, the turn of a page through the LLM, the ledger that records how  *)
(* each page was settled, the heartbeat thread, stop and restart, beside a *)
(* human who edits, creates and deletes pages, and beside what the daemon  *)
(* itself writes to pages other than the one whose turn it is.             *)
(*                                                                         *)
(* A file is a counter of its writes (the mtime), the revision of its text *)
(* (the human and the daemon's side writes revise a text; a turn and the   *)
(* journey log add to it), and what the daemon looks for in it.  Saving    *)
(* and loading the checkpoint is the atomic register of Checkpoint; the    *)
(* write of a page is that of PageWrite; the catalog is MasterCatalog's.   *)
(***************************************************************************)
EXTENDS Naturals, FiniteSets

CONSTANTS Pages,      \* pages of the graph, in the order of the queue
          Journals,   \* those under journals/
          Today,      \* the journal of the day; the day does not change
          StartKinds, \* what the pages may be at first
          EditKinds,  \* what the human may make of a page
          Budget,     \* max_files_per_cycle
          MaxWrites,  \* bound on the human's edits and the daemon's writes outside turns
          MaxStarts,  \* bound on the starts of the daemon
          MaxFaults,  \* bound on the failures and crashes
          NoRec, None

Kinds == {"absent", "empty", "bad", "plain", "indexed"}
Statuses == {"processed", "skipped", "error", "lock_backoff"}

ASSUME PagesAssumption == Pages \subseteq Nat /\ None \notin Nat /\ Journals \subseteq Pages
                           /\ Today \in Journals
ASSUME KindsAssumption == StartKinds \subseteq [Pages -> Kinds] /\ EditKinds \subseteq Kinds
ASSUME RecAssumption == NoRec \notin [status : Statuses, mtime : Nat, wait : BOOLEAN]
ASSUME BoundsAssumption == /\ Budget \in Nat \ {0} /\ MaxWrites \in Nat
                           /\ MaxStarts \in Nat /\ MaxFaults \in Nat

VARIABLES file,     \* each page: mtime, rev, kind, tidy (the modules would not change it)
          mem,      \* DaemonState in memory
          disk,     \* the checkpoint file
          beat,     \* what the heartbeat thread is about to save, or None
          gate,     \* self.bootstrap_complete
          failed,   \* self.bootstrap_failed
          index,    \* the catalog and the master index are there
          unsaved,  \* self._state_persist_failed
          stop,     \* self._stop_requested
          pc, loop, \* where run_forever is, and which of run_cycle's loops has the page
          queue, budget, \* pages left in the loop, turns left in the cycle
          cur,      \* page of the turn
          m0, base, \* its mtime at first, the OCC baseline
          seen, refs, \* the revision read, whether it has malformed references
          before,   \* pages there were when the harvest began
          analysed, \* history: newest revision of each page that a turn settled
          slipped,  \* history: its last edit fell into a window of the turn
          lost,     \* history: the checkpoint was lost
          writes, starts, faults

turn == <<cur, m0, base, seen, refs>>
others == <<writes, slipped, lost>>
boot == <<gate, failed, index, before>>
vars == <<file, mem, disk, beat, boot, unsaved, stop, pc, loop, queue, budget, turn,
          analysed, others, starts, faults>>

Rec(s, m) == [status |-> s, mtime |-> m, wait |-> s = "lock_backoff"]
FreshState == [files |-> [p \in Pages |-> NoRec], complete |-> FALSE, failed |-> FALSE]

Least(S) == CHOOSE p \in S : \A q \in S : p <= q

Exists(p) == file[p].kind # "absent"
Write(p, k) == [file EXCEPT ![p].mtime = @ + 1, ![p].kind = k]
Revise(p, k) == [file EXCEPT ![p] = [mtime |-> @.mtime + 1, rev |-> @.rev + 1, kind |-> k,
                                     tidy |-> FALSE]]
Drifted(p, m) == ~Exists(p) \/ file[p].mtime # m

(***************************************************************************)
(* The queue (list_pending_files)                                          *)
(***************************************************************************)
Terminal(p) == file[p].kind \in {"absent", "empty", "bad"}
Settles(r, p) == r # NoRec /\ r.mtime = file[p].mtime
Waits(r) == r.status = "lock_backoff" /\ r.wait

NeedsPhase1(p) ==
    LET r == mem.files[p]
    IN  Exists(p) /\ ~(Settles(r, p) /\ (r.status # "lock_backoff" \/ Waits(r)))

NeedsPhase2(p) ==
    LET r == mem.files[p]
    IN  /\ ~Terminal(p)
        /\ \/ ~Settles(r, p)
           \/ /\ p \notin Journals
              /\ \/ r.status = "lock_backoff" /\ ~r.wait
                 \/ r.status = "skipped" /\ file[p].kind = "indexed"

Pending == {p \in Pages : IF gate THEN NeedsPhase2(p) ELSE NeedsPhase1(p)}

(***************************************************************************)
(* Saving                                                                  *)
(***************************************************************************)
Fault == faults < MaxFaults /\ faults' = faults + 1

\* _persist_daemon_state: a failing save is logged and remembered.
Persist == \/ disk' = mem' /\ unsaved' = FALSE /\ UNCHANGED faults
           \/ Fault /\ unsaved' = TRUE /\ UNCHANGED disk

\* A bare save_daemon_state: a failing one raises out of the cycle.
SaveAndGoto(l) == \/ disk' = mem' /\ pc' = l /\ UNCHANGED faults
                  \/ Fault /\ pc' = "final" /\ UNCHANGED disk

Settle(p, r) == mem' = [mem EXCEPT !.files[p] = r]

(***************************************************************************)
(* Start, bootstrap                                                        *)
(***************************************************************************)
Init == /\ \E kinds \in StartKinds :
               file = [p \in Pages |-> [mtime |-> 1, rev |-> 1, kind |-> kinds[p], tidy |-> FALSE]]
        /\ mem = FreshState /\ disk = FreshState /\ beat = None
        /\ gate = FALSE /\ failed = FALSE /\ index = FALSE
        /\ unsaved = FALSE /\ stop = FALSE
        /\ pc = "off" /\ loop = None /\ queue = {} /\ budget = 0
        /\ cur = None /\ m0 = None /\ base = None /\ seen = 0 /\ refs = FALSE
        /\ before = {}
        /\ analysed = [p \in Pages |-> 0]
        /\ slipped = [p \in Pages |-> FALSE]
        /\ writes = 0 /\ starts = 0 /\ faults = 0 /\ lost = FALSE

\* _hydrate_bootstrap_phase of a state: the catalog may be found complete only if there
\* is one.
Hydrate(state) ==
    \E complete \in {TRUE} \cup (IF index /\ ~state.complete THEN {FALSE} ELSE {}) :
        LET open == state.complete \/ (index /\ complete)
        IN  /\ gate' = (gate \/ open)
            /\ failed' = (~open /\ state.failed)
            /\ mem' = [state EXCEPT !.complete = open, !.failed = ~open /\ @]

\* run_forever loads the checkpoint, forgets the errors and saves; a failure here ends it.
Start ==
    /\ pc = "off" /\ starts < MaxStarts
    /\ starts' = starts + 1
    /\ gate' = disk.complete /\ failed' = (disk.failed /\ ~disk.complete)
    /\ mem' = [disk EXCEPT !.files = [p \in Pages |->
                  IF @[p] # NoRec /\ @[p].status = "error" THEN NoRec ELSE @[p]]]
    /\ \/ disk' = mem' /\ pc' = "boot" /\ UNCHANGED faults
       \/ Fault /\ pc' = "off" /\ UNCHANGED disk
    /\ unsaved' = FALSE /\ stop' = FALSE
    /\ UNCHANGED <<file, beat, index, before, loop, queue, budget, turn, analysed, others>>

\* run_bootstrap_pipeline: nothing to do, or the harvest begins.
Bootstrap ==
    /\ pc = "boot"
    /\ Hydrate(mem)
    /\ IF gate' THEN pc' = "loop" /\ UNCHANGED <<disk, faults, before>>
                ELSE SaveAndGoto("harvest") /\ before' = {p \in Pages : Exists(p)}
    /\ UNCHANGED <<file, beat, index, unsaved, stop, loop, queue, budget, turn, analysed,
                   others, starts>>

\* The harvest completed, and created no page: the gate opens.
HarvestDone ==
    /\ pc = "harvest" /\ ~stop
    /\ \A p \in Pages \ before : ~Exists(p)
    /\ index' = TRUE /\ gate' = TRUE /\ failed' = FALSE
    /\ mem' = [mem EXCEPT !.complete = TRUE, !.failed = FALSE]
    /\ SaveAndGoto("loop")
    /\ before' = {}
    /\ UNCHANGED <<file, beat, unsaved, stop, loop, queue, budget, turn, analysed,
                   others, starts>>

\* _persist_bootstrap_failure: the daemon goes on without the LLM.
CloseGate == /\ gate' = FALSE /\ failed' = TRUE
             /\ mem' = [mem EXCEPT !.complete = FALSE, !.failed = TRUE]

\* The harvest raised three times, or left no master index.
HarvestRaises ==
    /\ pc = "harvest"
    /\ CloseGate
    /\ Fault /\ disk' = mem' /\ pc' = "loop"
    /\ index' \in {index, TRUE}
    /\ before' = {}
    /\ UNCHANGED <<file, beat, unsaved, stop, loop, queue, budget, turn, analysed,
                   others, starts>>

\* There are pages that were not there before: the harvest is taken to have made them.
HarvestMiscounts ==
    /\ pc = "harvest" /\ ~stop
    /\ \E p \in Pages \ before : Exists(p)
    /\ index' = TRUE
    /\ CloseGate
    /\ SaveAndGoto("loop")
    /\ before' = {}
    /\ UNCHANGED <<file, beat, unsaved, stop, loop, queue, budget, turn, analysed,
                   others, starts>>

HarvestStopped ==
    /\ pc = "harvest" /\ stop
    /\ UNCHANGED mem /\ SaveAndGoto("loop")
    /\ before' = {}
    /\ UNCHANGED <<file, beat, gate, failed, index, unsaved, stop, loop, queue, budget, turn, analysed,
                   others, starts>>

(***************************************************************************)
(* run_cycle: hydrate, prune, scan                                         *)
(***************************************************************************)
\* The ledger forgets the pages that are gone.
Prune(state) == [state EXCEPT !.files = [p \in Pages |-> IF Exists(p) THEN @[p] ELSE NoRec]]

CycleStart ==
    /\ pc = "loop" /\ ~stop
    /\ Hydrate(Prune(mem))
    /\ Persist
    /\ pc' = "scan"
    /\ UNCHANGED <<file, beat, index, before, stop, loop, queue, budget, turn, analysed, others,
                   starts>>

\* A mutant: what is pending is finished first.
LoopDrains ==
    /\ pc = "loop" /\ stop /\ Pending = {}
    /\ pc' = "final"
    /\ UNCHANGED <<file, mem, disk, beat, boot, unsaved, stop, loop, queue, budget, turn, analysed,
                   others, starts, faults>>

LoopEnds ==
    /\ pc = "loop" /\ stop
    /\ pc' = "final"
    /\ UNCHANGED <<file, mem, disk, beat, boot, unsaved, stop, loop, queue, budget, turn, analysed,
                   others, starts, faults>>

\* Nothing is pending: the catalog is refreshed, ...
Idle == /\ pc = "scan" /\ Pending = {}
        /\ pc' = "idle"
        /\ UNCHANGED <<file, mem, disk, beat, boot, unsaved, stop, loop, queue, budget, turn,
                       analysed, others, starts, faults>>

\* ... then an unguarded save.
IdleSaved == /\ pc = "idle"
             /\ UNCHANGED mem /\ SaveAndGoto("links")
             /\ index' \in {index, TRUE}
             /\ UNCHANGED <<file, beat, gate, failed, before, unsaved, stop, loop, queue, budget,
                            turn, analysed, others, starts>>

\* The graph cannot be listed.
ScanFails == /\ pc = "scan"
             /\ Fault /\ disk' = mem /\ pc' = "cycled"
             /\ UNCHANGED <<file, mem, beat, boot, unsaved, stop, loop, queue, budget, turn,
                            analysed, others, starts>>

Scan == /\ pc = "scan" /\ Pending # {}
        /\ queue' = Pending /\ budget' = Budget /\ loop' = "fast"
        /\ pc' = "fast"
        /\ UNCHANGED <<file, mem, disk, beat, boot, unsaved, stop, turn, analysed, others, starts,
                       faults>>

(***************************************************************************)
(* The fast track: pages settled without the LLM                           *)
(***************************************************************************)
\* A mutant: the budget is not looked at.
MoreUnbounded == ~stop /\ queue # {}

More == ~stop /\ queue # {} /\ budget > 0
Head == Least(queue)

\* A mutant: an indexed page is skipped in either phase.
SkippedInBoth(p) == file[p].kind \in {"empty", "indexed"}

SkippedAsIs(p) == file[p].kind = "empty" \/ (file[p].kind = "indexed" /\ ~gate)

\* try_fast_track_cycle_file.  A page read as malformed is annotated and quarantined in two
\* more steps; the others are settled, or left to the LLM, by the text just read.
FastTrack ==
    /\ pc = "fast" /\ More
    /\ queue' = queue \ {Head}
    /\ LET p == Head
       IN  \/ /\ file[p].kind = "bad"
              /\ cur' = p /\ m0' = file[p].mtime /\ refs' = TRUE
              /\ pc' = "annotate"
              /\ UNCHANGED <<mem, disk, unsaved, budget, faults>>
           \/ /\ SkippedAsIs(p)
              /\ Settle(p, Rec("skipped", file[p].mtime))
              /\ Persist
              /\ budget' = budget - 1
              /\ UNCHANGED <<cur, m0, refs, pc>>
           \/ /\ file[p].kind # "bad" /\ ~SkippedAsIs(p)
              /\ UNCHANGED <<mem, disk, unsaved, budget, faults, cur, m0, refs, pc>>
    /\ UNCHANGED <<file, beat, boot, stop, loop, base, seen, analysed, others, starts>>

\* append_structural_lint_warning: the malformed references are listed on the page, whatever
\* it holds by now, unless it has such a list or the append fails.
Annotate ==
    /\ pc = "annotate"
    /\ \/ refs /\ Exists(cur) /\ file' = Write(cur, "bad")
       \/ UNCHANGED file
    /\ pc' = "quarantine"
    /\ UNCHANGED <<mem, disk, beat, boot, unsaved, stop, loop, queue, budget, turn, analysed,
                   others, starts, faults>>

\* ... and the page is skipped at the mtime it has now.
Quarantine ==
    /\ pc = "quarantine"
    /\ Settle(cur, Rec("skipped", IF Exists(cur) THEN file[cur].mtime ELSE m0))
    /\ Persist
    /\ budget' = IF loop = "fast" THEN budget - 1 ELSE budget
    /\ cur' = None /\ m0' = None /\ base' = None /\ seen' = 0 /\ refs' = FALSE
    /\ pc' = loop
    /\ UNCHANGED <<file, beat, boot, stop, loop, queue, analysed, others, starts>>

\* The fast track ends; a requested stop ends the cycle with a save.
FastTrackEnds(skips) ==
    /\ pc = "fast" /\ ~More
    /\ UNCHANGED mem
    /\ IF stop THEN SaveAndGoto("cycled") /\ UNCHANGED <<queue, loop>>
       ELSE /\ loop' = "llm"
            /\ IF skips THEN queue' = {} /\ pc' = "llm"
                        ELSE queue' = {p \in Pages : Exists(p)} /\ pc' = "list"
            /\ UNCHANGED <<disk, faults>>
    /\ UNCHANGED <<file, beat, boot, unsaved, stop, budget, turn, analysed, others, starts>>

\* A mutant: the failure of the bootstrap is not looked at.
FastTrackedUngated == FastTrackEnds(FALSE)

\* The rest of the budget goes to the LLM, unless the bootstrap has failed: the graph is listed
\* again ...
FastTracked == FastTrackEnds(failed /\ ~gate)

\* ... and each page read and stated, with nothing that catches the error of a page gone
\* since the listing.
Listed ==
    /\ pc = "list"
    /\ \/ queue' = Pending \cap queue /\ pc' = "llm"
       \/ \E p \in queue : ~Exists(p)
          /\ pc' = "final" /\ UNCHANGED queue
    /\ UNCHANGED <<file, mem, disk, beat, boot, unsaved, stop, loop, budget, turn, analysed, others,
                   starts, faults>>

(***************************************************************************)
(* The turn of a page (process_llm_cycle_file)                             *)
(***************************************************************************)
EndTurn(called) ==
    /\ cur' = None /\ m0' = None /\ base' = None /\ seen' = 0 /\ refs' = FALSE
    /\ budget' = budget - called
    /\ pc' = "llm"

\* The page is stated before the try: if it is gone, the error leaves run_forever.
BeginTurn ==
    /\ pc = "llm" /\ More
    /\ UNCHANGED mem
    /\ queue' = queue \ {Head}
    /\ \/ /\ Exists(Head)
          /\ cur' = Head /\ m0' = file[Head].mtime
          /\ Persist
          /\ pc' = IF Head \in Journals THEN "journal" ELSE "read"
       \/ /\ ~Exists(Head)
          /\ pc' = "final"
          /\ UNCHANGED <<disk, unsaved, faults, cur, m0>>
    /\ UNCHANGED <<file, beat, boot, stop, loop, budget, base, seen, refs, analysed, others, starts>>

\* settle_journal_structural_cycle_file: the links are registered ...
ReadJournal ==
    /\ pc = "journal"
    /\ seen' = file[cur].rev
    /\ pc' = "stamp"
    /\ UNCHANGED <<file, mem, disk, beat, boot, unsaved, stop, loop, queue, budget, cur, m0, base,
                   refs, analysed, others, starts, faults>>

\* ... and the page stated again.
StampJournal ==
    /\ pc = "stamp"
    /\ \/ /\ Exists(cur)
          /\ Settle(cur, Rec("processed", file[cur].mtime))
          /\ analysed' = [analysed EXCEPT ![cur] = seen]
       \/ /\ ~Exists(cur)
          /\ Settle(cur, Rec("error", m0))
          /\ UNCHANGED analysed
    /\ Persist
    /\ EndTurn(0)
    /\ UNCHANGED <<file, beat, boot, stop, loop, queue, others, starts>>

\* The baseline, then the text; a page deleted meanwhile has no baseline and an empty text.
ReadPage ==
    /\ pc = "read"
    /\ base' = IF Exists(cur) THEN file[cur].mtime ELSE None
    /\ seen' = IF Exists(cur) THEN file[cur].rev ELSE 0
    /\ refs' = (file[cur].kind = "bad")
    /\ pc' = IF gate THEN "pipeline" ELSE "check"
    /\ UNCHANGED <<file, mem, disk, beat, boot, unsaved, stop, loop, queue, budget, cur, m0,
                   analysed, others, starts, faults>>

\* run_cognitive_lint_pipeline: its modules may write the page, once for a text.
Pipeline ==
    /\ pc = "pipeline"
    /\ \/ /\ Exists(cur) /\ ~file[cur].tidy
          /\ file' = [Write(cur, file[cur].kind) EXCEPT ![cur].tidy = TRUE]
       \/ UNCHANGED file
    /\ UNCHANGED mem /\ Persist
    /\ pc' = "reread"
    /\ UNCHANGED <<beat, boot, stop, loop, queue, budget, turn, analysed, others, starts>>

\* The page is read again, and only then is the new baseline taken.
Reread ==
    /\ pc = "reread"
    /\ IF Exists(cur) THEN seen' = file[cur].rev /\ refs' = (file[cur].kind = "bad") /\ pc' = "rebase"
                      ELSE pc' = "check" /\ UNCHANGED <<seen, refs>>
    /\ UNCHANGED <<file, mem, disk, beat, boot, unsaved, stop, loop, queue, budget, cur, m0, base,
                   analysed, others, starts, faults>>

Rebase ==
    /\ pc = "rebase"
    /\ base' = IF Exists(cur) THEN file[cur].mtime ELSE base
    /\ pc' = "check"
    /\ UNCHANGED <<file, mem, disk, beat, boot, unsaved, stop, loop, queue, budget, cur, m0, seen, refs,
                   analysed, others, starts, faults>>

Conflict == base # None /\ Drifted(cur, base)

\* The page has changed: the turn ends without a record.
Abandon(called) == EndTurn(called) /\ UNCHANGED mem /\ Persist

\* The first check; then the LLM is asked, under the heartbeat thread.
Ask ==
    /\ pc = "check"
    /\ IF Conflict THEN Abandon(0)
       ELSE /\ pc' = "asking"
            /\ UNCHANGED <<mem, disk, unsaved, budget, turn, faults>>
    /\ UNCHANGED <<file, beat, boot, stop, loop, queue, analysed, others, starts>>

\* A mutant: the thread is not joined.
NotJoined == UNCHANGED faults

\* The thread is joined for a second; a save of it may come later.
Joined ==
    \/ beat = None /\ UNCHANGED faults
    \/ beat # None /\ Fault

\* The answer, the end of the heartbeat, and the second check.  A turn abandoned here is
\* not counted, though the LLM was asked.
Answer ==
    /\ pc = "asking"
    /\ Joined
    /\ IF Conflict THEN EndTurn(0) /\ disk' = mem /\ unsaved' = FALSE
       ELSE pc' = "apply" /\ UNCHANGED <<disk, unsaved, budget, turn>>
    /\ UNCHANGED <<file, mem, beat, boot, stop, loop, queue, analysed, others, starts>>

\* A mutant: a write that was aborted counts as done.
ApplyUnchecked ==
    /\ pc = "apply"
    /\ file' = IF Conflict \/ file[cur].kind \in {"absent", "empty"} THEN file
               ELSE Write(cur, "indexed")
    /\ pc' = "record"
    /\ UNCHANGED <<mem, disk, unsaved, budget, turn, faults>>
    /\ UNCHANGED <<beat, boot, stop, loop, queue, analysed, others, starts>>

\* apply_semantic_page_result, under the page's lock: nothing for an empty page, an abort if
\* it changed or if the result is unsafe (L0), else the page is written.  Without a baseline
\* it takes one now.
Apply ==
    /\ pc = "apply"
    /\ \/ /\ Conflict
          /\ Abandon(1) /\ UNCHANGED file
       \/ /\ ~Conflict
          /\ file' = IF file[cur].kind \in {"absent", "empty"} THEN file ELSE Write(cur, "indexed")
          /\ pc' = "record"
          /\ UNCHANGED <<mem, disk, unsaved, budget, turn, faults>>
       \/ /\ ~Conflict
          /\ Fault /\ EndTurn(1) /\ disk' = mem /\ unsaved' = FALSE
          /\ UNCHANGED <<file, mem>>
    /\ UNCHANGED <<beat, boot, stop, loop, queue, analysed, others, starts>>

\* A mutant: the mtime recorded is the one taken at first.
RecordAtFirst ==
    /\ pc = "record" /\ Exists(cur)
    /\ Settle(cur, Rec("processed", m0))
    /\ analysed' = [analysed EXCEPT ![cur] = seen]
    /\ pc' = "post"
    /\ UNCHANGED <<disk, unsaved, budget, turn, faults>>
    /\ UNCHANGED <<file, beat, boot, stop, loop, queue, others, starts>>

\* The page is stated after the write, and recorded as processed.
Record ==
    /\ pc = "record"
    /\ \/ /\ Exists(cur)
          /\ Settle(cur, Rec("processed", file[cur].mtime))
          /\ analysed' = [analysed EXCEPT ![cur] = seen]
          /\ pc' = "post"
          /\ UNCHANGED <<disk, unsaved, budget, turn, faults>>
       \/ /\ ~Exists(cur)
          /\ Settle(cur, Rec("error", m0))
          /\ Persist /\ EndTurn(1)
          /\ UNCHANGED analysed
    /\ UNCHANGED <<file, beat, boot, stop, loop, queue, others, starts>>

\* _sync_catalog_after_page_write, and the save of the ledger.
Post ==
    /\ pc = "post"
    /\ UNCHANGED mem
    /\ Persist /\ EndTurn(1)
    /\ UNCHANGED <<file, beat, boot, stop, loop, queue, analysed, others, starts>>

InTurn == pc \in {"read", "pipeline", "reread", "rebase", "check", "asking", "apply", "record",
                   "post"}

\* Something raises in the turn: the page is recorded as failed at the mtime it had at
\* first, whatever was recorded or written since.
TurnFails ==
    /\ InTurn /\ (pc = "asking" => beat = None)
    /\ Fault
    /\ Settle(cur, Rec("error", m0))
    /\ disk' = mem' /\ unsaved' = FALSE
    /\ EndTurn(IF pc \in {"apply", "record", "post"} THEN 1 ELSE 0)
    /\ UNCHANGED <<file, beat, boot, stop, loop, queue, analysed, others, starts>>

\* A lock of the page is not to be had: it waits, unless it was processed before.
Unlockable ==
    /\ pc \in {"pipeline", "apply", "record"}
    /\ Fault
    /\ LET r == mem.files[cur]
       IN  IF r # NoRec /\ r.status = "processed" THEN UNCHANGED mem
           ELSE Settle(cur, Rec("lock_backoff", m0))
    /\ disk' = mem' /\ unsaved' = FALSE
    /\ EndTurn(IF pc = "pipeline" THEN 0 ELSE 1)
    /\ UNCHANGED <<file, beat, boot, stop, loop, queue, analysed, others, starts>>

\* The result, a module or a backlink would leave a malformed reference in a page: the page of
\* the turn is quarantined, as it is by then.
TurnMalformed ==
    /\ pc \in {"pipeline", "apply", "record"}
    /\ Fault
    /\ analysed' = [analysed EXCEPT ![cur] = seen]
    /\ slipped' = [slipped EXCEPT ![cur] = @ \/ file[cur].rev # seen]
    /\ pc' = "annotate"
    /\ UNCHANGED <<file, mem, disk, beat, boot, unsaved, stop, loop, queue, budget, turn,
                   writes, lost, starts>>

(***************************************************************************)
(* The heartbeat thread, while the LLM works                               *)
(***************************************************************************)
BeatSnapshot ==
    /\ pc = "asking" /\ beat = None /\ ~stop
    /\ beat' = mem
    /\ UNCHANGED <<file, mem, disk, boot, unsaved, stop, pc, loop, queue, budget, turn, analysed,
                   others, starts, faults>>

BeatSave ==
    /\ beat # None
    /\ \/ disk' = beat /\ unsaved' = FALSE /\ UNCHANGED faults
       \/ Fault /\ unsaved' = TRUE /\ UNCHANGED disk
    /\ beat' = None
    /\ UNCHANGED <<file, mem, boot, stop, pc, loop, queue, budget, turn, analysed, others, starts>>

(***************************************************************************)
(* The end of the cycle, the wait, the end of the daemon                   *)
(***************************************************************************)
CycleDone ==
    /\ pc = "llm" /\ ~More
    /\ UNCHANGED mem /\ Persist
    /\ queue' = {} /\ budget' = 0 /\ loop' = None
    /\ pc' = "links"
    /\ UNCHANGED <<file, beat, boot, stop, turn, analysed, others, starts>>

\* finalize_link_and_journey_pass, after an active cycle and an idle one: with anything to
\* report, and the log enabled, the activity bullet is written into the journal of the day,
\* whatever that holds by now ...
JourneyLog ==
    /\ pc = "links"
    /\ UNCHANGED mem
    /\ \/ /\ writes < MaxWrites /\ file[Today].kind # "bad"
          /\ writes' = writes + 1
          /\ file' = Write(Today, IF file[Today].kind \in {"absent", "empty"} THEN "plain"
                                 ELSE file[Today].kind)
          /\ pc' = "journey"
          /\ UNCHANGED <<disk, faults>>
       \/ /\ pc' = "cycled"
          /\ UNCHANGED <<file, writes, disk, faults>>
       \/ SaveAndGoto("cycled") /\ UNCHANGED <<file, writes>>
    /\ UNCHANGED <<beat, boot, unsaved, stop, loop, queue, budget, turn, analysed,
                   slipped, lost, starts>>

\* ... and the journal skipped, unread, at the mtime it has now; then an unguarded save.
JourneySettle ==
    /\ pc = "journey"
    /\ IF Exists(Today)
       THEN /\ Settle(Today, Rec("skipped", file[Today].mtime))
            /\ slipped' = [slipped EXCEPT ![Today] = @ \/ analysed[Today] # file[Today].rev]
       ELSE UNCHANGED <<mem, slipped>>
    /\ SaveAndGoto("cycled")
    /\ UNCHANGED <<file, beat, boot, unsaved, stop, loop, queue, budget, turn, analysed,
                   writes, lost, starts>>

\* A malformed reference in the journal of the day, or in a page whose links are flagged, has
\* the write refused with a ValueError: only an OSError is caught.
PassRaises ==
    /\ pc = "links"
    /\ \E p \in Pages : file[p].kind = "bad"
    /\ pc' = "final"
    /\ UNCHANGED <<file, mem, disk, beat, boot, unsaved, stop, loop, queue, budget, turn, analysed,
                   others, starts, faults>>

\* The ledger on disk is taken, unless the last save failed.
Reload ==
    /\ pc = "cycled"
    /\ mem' = IF unsaved THEN mem ELSE disk
    /\ queue' = {} /\ budget' = 0 /\ loop' = None
    /\ pc' = IF stop THEN "final" ELSE "wait"
    /\ UNCHANGED <<file, disk, beat, boot, unsaved, stop, turn, analysed, others, starts, faults>>

\* poll_seconds, a wake of the watcher, or a stop; with a heartbeat of the waiting daemon.
Wake == /\ pc = "wait"
        /\ UNCHANGED mem
        /\ Persist
        /\ pc' = "loop"
        /\ UNCHANGED <<file, beat, boot, stop, loop, queue, budget, turn, analysed, others, starts>>

\* _finalize_graceful_shutdown; a failing save is logged.
Off == /\ pc' = "off"
       /\ queue' = {} /\ budget' = 0 /\ loop' = None /\ beat' = None
       /\ cur' = None /\ m0' = None /\ base' = None /\ seen' = 0 /\ refs' = FALSE
       /\ mem' = FreshState /\ gate' = FALSE /\ failed' = FALSE /\ before' = {}
       /\ unsaved' = FALSE /\ stop' = FALSE
       /\ UNCHANGED <<file, index, analysed, others, starts>>

Finalize == /\ pc = "final"
            /\ \/ disk' = mem /\ UNCHANGED faults
               \/ Fault /\ UNCHANGED disk
            /\ Off

Crash == /\ pc # "off"
         /\ Fault /\ UNCHANGED disk
         /\ Off

(***************************************************************************)
(* The daemon's writes to pages whose turn it is not, under their locks    *)
(***************************************************************************)
\* The LLM of the harvest, and of the refresh of an idle cycle, indexes a page.
HarvestWrites(p, k) == pc \in {"harvest", "idle"} /\ file[p].kind = "plain" /\ k = "indexed"

\* A module of the pipeline adds an alias to a page, ...
AliasWrites(p, k) == pc = "pipeline" /\ k = file[p].kind

\* ... or creates one, for a dangling link or out of a large block.
PageSeeded(p, k) == pc = "pipeline" /\ file[p].kind = "absent" /\ k = "plain"

\* Backlinks are added to the pages that the page just written now links to.
BacklinkWrites(p, k) == pc = "record" /\ k = file[p].kind

\* Dead links and missing assets are flagged, or cleared.
HygieneWrites(p, k) == pc = "links" /\ k = file[p].kind

OwnWrite(p, k) ==
    /\ writes < MaxWrites /\ p # cur
    /\ \/ HarvestWrites(p, k) \/ PageSeeded(p, k)
       \/ (AliasWrites(p, k) \/ BacklinkWrites(p, k) \/ HygieneWrites(p, k)) /\ k \in {"plain", "indexed"}
    /\ writes' = writes + 1
    /\ file' = Revise(p, k)
    /\ slipped' = [slipped EXCEPT ![p] = FALSE]
    /\ UNCHANGED <<mem, disk, beat, boot, unsaved, stop, pc, loop, queue, budget, turn, analysed,
                   starts, faults, lost>>

(***************************************************************************)
(* The environment: the human, a stop, the time, and a checkpoint of which *)
(* neither file is readable                                                *)
(***************************************************************************)
\* The steps between what a turn looks at and the mtime it records for it.
InWindow(p) == /\ cur = p
               /\ \/ pc \in {"annotate", "quarantine", "stamp", "rebase", "record"}
                  \/ base = None /\ pc \in {"pipeline", "reread", "check", "asking", "apply"}

Edit(p, k) ==
    /\ writes < MaxWrites
    /\ k # "absent" \/ Exists(p)
    /\ writes' = writes + 1
    /\ file' = Revise(p, k)
    /\ slipped' = [slipped EXCEPT ![p] = InWindow(p)]
    /\ UNCHANGED <<mem, disk, beat, boot, unsaved, stop, pc, loop, queue, budget, turn, analysed,
                   starts, faults, lost>>

RequestStop ==
    /\ pc # "off" /\ ~stop
    /\ stop' = TRUE
    /\ UNCHANGED <<file, mem, disk, beat, boot, unsaved, pc, loop, queue, budget, turn, analysed,
                   others, starts, faults>>

\* The waits of locked pages run out.
Unwait(state) == [state EXCEPT !.files = [p \in Pages |->
                    IF @[p] # NoRec THEN [@[p] EXCEPT !.wait = FALSE] ELSE NoRec]]
Tick ==
    /\ mem # Unwait(mem) \/ disk # Unwait(disk)
    /\ mem' = Unwait(mem) /\ disk' = Unwait(disk)
    /\ beat' = IF beat = None THEN None ELSE Unwait(beat)
    /\ UNCHANGED <<file, boot, unsaved, stop, pc, loop, queue, budget, turn, analysed, others,
                   starts, faults>>

Reset ==
    /\ Fault
    /\ lost' = TRUE
    /\ disk' = FreshState
    /\ UNCHANGED <<file, mem, beat, boot, unsaved, stop, pc, loop, queue, budget, turn, analysed,
                   writes, slipped, starts>>

MainStep == \/ Bootstrap \/ HarvestDone \/ HarvestRaises \/ HarvestMiscounts \/ HarvestStopped
            \/ CycleStart \/ LoopEnds \/ Idle \/ IdleSaved \/ ScanFails \/ Scan
            \/ FastTrack \/ Annotate \/ Quarantine \/ FastTracked \/ Listed
            \/ BeginTurn \/ ReadJournal \/ StampJournal
            \/ ReadPage \/ Pipeline \/ Reread \/ Rebase \/ Ask \/ Answer
            \/ Apply \/ Record \/ Post \/ TurnFails \/ Unlockable \/ TurnMalformed
            \/ CycleDone \/ JourneyLog \/ JourneySettle \/ PassRaises \/ Reload \/ Wake \/ Finalize

Next == \/ Start \/ MainStep \/ BeatSnapshot \/ BeatSave
        \/ Crash \/ Reset \/ RequestStop \/ Tick
        \/ \E p \in Pages, k \in EditKinds : Edit(p, k)
        \/ \E p \in Pages, k \in Kinds : OwnWrite(p, k)

Spec == Init /\ [][Next]_vars

\* The daemon's thread and its heartbeat run, time passes, and a call of the LLM returns (the
\* client has a timeout) however often the heartbeat saves meanwhile.
Fairness == WF_vars(MainStep) /\ SF_vars(Answer) /\ WF_vars(BeatSave) /\ WF_vars(Tick)
FairSpec == Spec /\ Fairness

(***************************************************************************)
(* Properties                                                              *)
(***************************************************************************)
StateType == [files : [Pages -> [status : Statuses, mtime : Nat, wait : BOOLEAN] \cup {NoRec}],
              complete : BOOLEAN, failed : BOOLEAN]
TypeOK ==
    /\ file \in [Pages -> [mtime : Nat, rev : Nat, kind : Kinds, tidy : BOOLEAN]]
    /\ mem \in StateType /\ disk \in StateType /\ beat \in StateType \cup {None}
    /\ gate \in BOOLEAN /\ failed \in BOOLEAN /\ index \in BOOLEAN
    /\ unsaved \in BOOLEAN /\ stop \in BOOLEAN
    /\ pc \in {"off", "boot", "harvest", "loop", "scan", "fast", "annotate", "quarantine", "llm",
               "journal", "stamp", "read", "pipeline", "reread", "rebase", "check", "asking",
               "apply", "record", "post", "idle", "list", "links", "journey", "cycled", "wait",
               "final"}
    /\ loop \in {None, "fast", "llm"} /\ queue \subseteq Pages /\ budget \in 0..Budget
    /\ cur \in Pages \cup {None} /\ m0 \in Nat \cup {None} /\ base \in Nat \cup {None}
    /\ seen \in Nat /\ before \subseteq Pages
    /\ analysed \in [Pages -> Nat] /\ slipped \in [Pages -> BOOLEAN]
    /\ writes \in 0..MaxWrites /\ starts \in 0..MaxStarts /\ faults \in 0..MaxFaults
    /\ lost \in BOOLEAN

\* What the ledger says of the text a page holds now is what a turn found in that very text:
\* processed means analysed, skipped means unsafe, empty or indexed before; but for an edit
\* in the windows of InWindow (process_llm_cycle_file, quarantine_structural_lint), and for the
\* journal of the day, which the journey log settles unread.
Speaks(r, p) == Settles(r, p) /\ Exists(p) /\ ~slipped[p]
SettledWasAnalysed ==
    \A p \in Pages : \A r \in {mem.files[p], disk.files[p]} :
        Speaks(r, p) => /\ r.status = "processed" => analysed[p] = file[p].rev
                        /\ r.status = "skipped" => file[p].kind # "plain" \/ analysed[p] = file[p].rev

\* The journey log settles the journal so that the daemon's own lines are not read again
\* (daemon_llm_cycle.py:173): it settles what a human added since the last turn as well.
JournalRevisionsRead ==
    [][pc = "journey" /\ Exists(Today) /\ file[Today].rev > 1
        => analysed[Today] = file[Today].rev]_vars

\* A page recorded as processed stays so on disk while nobody writes it, through the saves of
\* the daemon and of its heartbeat thread, stops and restarts.
ProcessedStays ==
    [][\A p \in Pages :
        LET r == disk.files[p]
        IN  /\ faults' = 0 /\ Settles(r, p) /\ Exists(p) /\ file'[p] = file[p]
            /\ r.status = "processed"
            => disk'.files[p] = r]_vars

Asks == pc = "check" /\ pc' = "asking"

\* Without faults, a failing step of a turn among them, no text is sent to the LLM again that
\* was analysed, across stops and restarts.  A page that the daemon revised outside the page's
\* turn holds a new text: that is analysed in its turn.
AnalysedOnce == [][Asks /\ faults = 0 /\ base # None => analysed[cur] # seen]_vars

\* The LLM is asked in a turn only once the bootstrap has succeeded (maintenance_daemon.py:274
\* "block Phase 2 LLM until bootstrap succeeds"), as long as the checkpoint is not lost.  The
\* harvest, and the refresh of an idle cycle, ask it too, behind no gate.
LlmGated == [][Asks /\ ~lost => gate]_vars

\* While the daemon runs and its bootstrap has not failed, every page gets settled.
PagesSettle == <>[](pc = "off" \/ failed \/ Pending = {})

\* A requested stop ends the daemon.
StopEnds == stop ~> pc = "off"

\* Only a stop, a crash or a failing save ends the daemon: no page that is gone or malformed does
\* (daemon_llm_cycle.py:492 "quarantine per-file; never abort cycle").
CycleNeverAborts == [][pc' = "final" /\ pc # "final" => stop \/ faults' > 0]_vars
=============================================================================
