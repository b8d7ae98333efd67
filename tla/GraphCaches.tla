---------------------------- MODULE GraphCaches ----------------------------
(***************************************************************************)
(* The caches of the graph that a process keeps between calls: the alias   *)
(* index of generational_cache.py with the signature of the files it was   *)
(* read from, its patching after a write of ours and its garbage           *)
(* collection, and the backlink counts of backlink_index.py, in the memory *)
(* of each process and in one file they share, beside a human who saves    *)
(* and deletes pages at any time.                                          *)
(*                                                                         *)
(* A signature gives each page the stamp (st_mtime_ns) of its file, 0 for  *)
(* a page without one.  _lock is held through every call on the alias      *)
(* index, so a process runs one call at a time; the stats of one signature *)
(* and each listing of the graph are one step.                             *)
(***************************************************************************)
EXTENDS Naturals, FiniteSets

CONSTANTS Procs,     \* processes on the graph
          Roles,     \* what each may do: "index" and collect aliases, "load" backlink
                     \* counts, "write" pages and patch its caches
          Mortal,    \* those that may die and start again
          Pages,     \* titles, in the order of the scan; one file each
          Started,   \* those that are there at first
          Words,     \* alias texts
          Contents,  \* what a page may declare and link to
          MaxStamp,  \* bound on the writes of pages
          MaxFaults, \* bound on failed reads and saves, and on deaths
          None

ASSUME ProcsAssumption == /\ Mortal \subseteq Procs
                          /\ Roles \subseteq [Procs -> SUBSET {"index", "load", "write"}]
ASSUME PagesAssumption == Pages \subseteq Nat /\ IsFiniteSet(Pages) /\ Started \subseteq Pages
ASSUME ContentsAssumption == Contents \subseteq [names : SUBSET Words, links : SUBSET Pages]
ASSUME BoundsAssumption == MaxStamp \in Nat \ {0} /\ MaxFaults \in Nat

Stamps == 0..MaxStamp
Signatures == [Pages -> Stamps]
Indexes == [listed : SUBSET Pages, names : [Pages -> SUBSET Words],
            owner : [Words -> Pages \union {None}],
            contested : SUBSET Words, skipped : SUBSET Pages]
Kept == [sig : Signatures, index : Indexes]

ASSUME NoneAssumption == None \notin Pages /\ None \notin Kept

VARIABLES role,   \* the calls each process makes
          file,   \* each page: the stamp of its file and what it says
          clock,  \* the last stamp given
          alias,  \* _alias_cache of each process: a signature and an index, or None
          memory, \* backlink_index._memory of each process: an entry, or None
          disk,   \* backlink_counts.json: an entry, or None
          job,    \* the call each process is in
          faults

vars == <<role, file, clock, alias, memory, disk, job, faults>>

Nothing == [names |-> {}, links |-> {}]
Gone == [stamp |-> 0, says |-> Nothing]
Exists(q) == file[q].stamp # 0
Sig == [q \in Pages |-> file[q].stamp]
Listed == {q \in Pages : Exists(q)}
Serves(e) == e # None /\ e.sig = Sig
Least(S) == CHOOSE q \in S : \A r \in S : q <= r

(***************************************************************************)
(* AliasIndex: page_to_relpath (listed), page_to_aliases (names) and       *)
(* alias_to_page (owner).  Two fields are history: contested, the aliases  *)
(* a second page asked for since the index was built, and skipped, the     *)
(* pages whose entry in the signature is not the version that was read.    *)
(***************************************************************************)
EmptyIndex == [listed |-> {}, names |-> [q \in Pages |-> {}], owner |-> [w \in Words |-> None],
               contested |-> {}, skipped |-> {}]

\* The first page to ask for an alias keeps it.
Claim(i, q, ws) ==
    [listed |-> i.listed \union {q},
     names |-> [i.names EXCEPT ![q] = ws],
     owner |-> [w \in Words |-> IF w \in ws /\ i.owner[w] = None THEN q ELSE i.owner[w]],
     contested |-> i.contested \union {w \in ws : i.owner[w] \notin {None, q}},
     skipped |-> i.skipped \ {q}]

\* A bug: the keys of alias_to_page stay.
RemoveRows(i, S) ==
    [i EXCEPT !.listed = @ \ S, !.names = [q \in Pages |-> IF q \in S THEN {} ELSE @[q]]]
\* remove_page_from_alias_index, for each page of a set.
Remove(i, S) ==
    [i EXCEPT !.listed = @ \ S,
              !.names = [q \in Pages |-> IF q \in S THEN {} ELSE @[q]],
              !.owner = [w \in Words |-> IF @[w] \in S THEN None ELSE @[w]]]

Skip(i, S) == [i EXCEPT !.skipped = @ \union S]

Idle == [pc |-> "idle", page |-> None, tries |-> 0, sig |-> [q \in Pages |-> 0],
         index |-> EmptyIndex, counts |-> [q \in Pages |-> 0], titles |-> {}, missed |-> {},
         came |-> {}, todo |-> {}]

Init == /\ role \in Roles
        /\ file \in [Pages -> {Gone} \union {[stamp |-> 1, says |-> c] : c \in Contents}]
        /\ \A q \in Pages : Exists(q) <=> q \in Started
        /\ clock = 1
        /\ alias = [p \in Procs |-> None] /\ memory = [p \in Procs |-> None] /\ disk = None
        /\ job = [p \in Procs |-> Idle]
        /\ faults = 0

Fault == faults < MaxFaults /\ faults' = faults + 1
At(p, l) == job[p].pc = l
Goto(p, j) == job' = [job EXCEPT ![p] = j]
Return(p) == Goto(p, Idle)

(***************************************************************************)
(* cached_build_alias_index                                                *)
(***************************************************************************)
Build(p) == /\ "index" \in role[p] /\ At(p, "idle")
            /\ Goto(p, [Idle EXCEPT !.pc = "sign"])
            /\ UNCHANGED <<role, file, clock, alias, memory, disk, faults>>

Hit(p) == Serves(alias[p])

Sign(p) == /\ At(p, "sign")
           /\ IF Hit(p) THEN Return(p)
              ELSE Goto(p, [job[p] EXCEPT !.pc = "list", !.sig = Sig])
           /\ UNCHANGED <<role, file, clock, alias, memory, disk, faults>>

\* build_alias_index lists the files itself.
List(p) == /\ At(p, "list")
           /\ Goto(p, [job[p] EXCEPT !.pc = "read", !.index = EmptyIndex, !.todo = Listed])
           /\ UNCHANGED <<role, file, clock, alias, memory, disk, faults>>

\* A file that cannot be read, or is gone, is left out of the index.
Read(p) ==
    /\ At(p, "read") /\ job[p].todo # {}
    /\ LET q == Least(job[p].todo)
           Index(i) == Goto(p, [job[p] EXCEPT !.todo = @ \ {q}, !.index = i])
       IN  \/ /\ Exists(q)
              /\ Index(Claim(job[p].index, q, file[q].says.names))
              /\ UNCHANGED faults
           \/ /\ ~Exists(q)
              /\ Index(job[p].index)
              /\ UNCHANGED faults
           \/ /\ Exists(q) /\ Fault
              /\ Index(Skip(job[p].index, {q}))
    /\ UNCHANGED <<role, file, clock, alias, memory, disk>>

\* A bug: one attempt too many.
AttemptsOver == 4
\* How often an index is read.
Attempts ==
    3

\* A bug: the signature of after is kept with what was read before.
AgreesAlways(p) == TRUE
\* sig_before = sig_after.
Agrees(p) ==
    job[p].sig = Sig

\* The index is kept if the two signatures agree, and read at most three times.  They also
\* agree on a page that came and went in between, which the index may have read.
Compare(p) ==
    /\ At(p, "read") /\ job[p].todo = {}
    /\ \/ /\ Agrees(p)
          /\ LET i == job[p].index
             IN  alias' = [alias EXCEPT ![p] = [sig |-> Sig, index |-> Skip(i, i.listed \ Listed)]]
          /\ Return(p)
       \/ /\ ~Agrees(p)
          /\ IF job[p].tries + 1 = Attempts THEN Return(p)
             ELSE Goto(p, [Idle EXCEPT !.pc = "sign", !.tries = job[p].tries + 1])
          /\ UNCHANGED alias
    /\ UNCHANGED <<role, file, clock, memory, disk, faults>>

\* clear_generational_caches, when the bootstrap is over.
Clear(p) == /\ "index" \in role[p] /\ At(p, "idle") /\ alias[p] # None
            /\ alias' = [alias EXCEPT ![p] = None]
            /\ UNCHANGED <<role, file, clock, memory, disk, job, faults>>

(***************************************************************************)
(* gc_generational_alias_cache, at the end of a cycle of the daemon        *)
(***************************************************************************)
Purge(p) ==
    /\ "index" \in role[p] /\ At(p, "idle") /\ alias[p] # None
    /\ LET left == Remove(alias[p].index, Pages \ Listed)
       IN  alias' = [alias EXCEPT ![p].index = [left EXCEPT !.skipped = @ \intersect Listed]]
    /\ Goto(p, [Idle EXCEPT !.pc = "resign", !.todo = Listed])
    /\ UNCHANGED <<role, file, clock, memory, disk, faults>>

\* The signature of now, whatever of it the index has seen.
Resign(p) ==
    /\ At(p, "resign")
    /\ LET known == Pages \ job[p].todo
           unread == {q \in Pages : /\ file[q].stamp # alias[p].sig[q]
                                    /\ ~(q \in known /\ ~Exists(q))}
       IN  alias' = [alias EXCEPT ![p] = [sig |-> Sig, index |-> Skip(@.index, unread)]]
    /\ Return(p)
    /\ UNCHANGED <<role, file, clock, memory, disk, faults>>

(***************************************************************************)
(* A write of ours and patch_generational_caches_for_paths after it        *)
(***************************************************************************)
Put(q, c) == /\ clock < MaxStamp /\ clock' = clock + 1
             /\ file' = [file EXCEPT ![q] = [stamp |-> clock + 1, says |-> c]]

Write(p, q, c) ==
    /\ "write" \in role[p] /\ At(p, "idle")
    /\ Put(q, c)
    /\ Goto(p, [Idle EXCEPT !.page = q, !.pc = IF alias[p] = None THEN "forget" ELSE "patch"])
    /\ UNCHANGED <<role, alias, memory, disk, faults>>

\* The rows of the page are dropped and read again from its file, if it is there.
Patch(p) ==
    /\ At(p, "patch")
    /\ LET q == job[p].page
           bare == Remove(alias[p].index, {q})
           PutIndex(i) == alias' = [alias EXCEPT ![p].index = i]
       IN  /\ \/ /\ Exists(q)
                 /\ PutIndex(Claim(bare, q, file[q].says.names))
                 /\ UNCHANGED faults
              \/ /\ ~Exists(q)
                 /\ PutIndex([bare EXCEPT !.skipped = @ \ {q}])
                 /\ UNCHANGED faults
              \/ Exists(q) /\ Fault /\ PutIndex(Skip(bare, {q}))
           /\ Goto(p, [job[p] EXCEPT !.pc = "stamp", !.sig = Sig])
    /\ UNCHANGED <<role, file, clock, memory, disk>>

\* _patch_signature stats the page after its text was read.
Stamp(p) ==
    /\ At(p, "stamp")
    /\ LET q == job[p].page
           unread == IF file[q].stamp = job[p].sig[q] THEN {} ELSE {q}
       IN  alias' = [alias EXCEPT ![p] = [sig |-> [@.sig EXCEPT ![q] = file[q].stamp],
                                          index |-> Skip(@.index, unread)]]
    /\ Goto(p, [job[p] EXCEPT !.pc = "forget"])
    /\ UNCHANGED <<role, file, clock, memory, disk, faults>>

\* patch_backlink_index_for_paths: the counts are dropped from memory, then from disk.
Forget(p) ==
    /\ At(p, "forget")
    /\ memory' = [memory EXCEPT ![p] = None]
    /\ Goto(p, [job[p] EXCEPT !.pc = "unlink"])
    /\ UNCHANGED <<role, file, clock, alias, disk, faults>>

Unlink(p) ==
    /\ At(p, "unlink")
    /\ disk' = None
    /\ Return(p)
    /\ UNCHANGED <<role, file, clock, alias, memory, faults>>

(***************************************************************************)
(* load_incoming_backlinks                                                 *)
(***************************************************************************)
Load(p) == /\ "load" \in role[p] /\ At(p, "idle")
           /\ Goto(p, [Idle EXCEPT !.pc = "lookup", !.sig = Sig])
           /\ UNCHANGED <<role, file, clock, alias, memory, disk, faults>>

\* Memory, then the file on disk, serves if it was counted at the signature of this call.
Lookup(p) ==
    /\ At(p, "lookup")
    /\ LET Counted(e) == e # None /\ e.sig = job[p].sig
       IN  IF Counted(memory[p]) \/ Counted(disk)
           THEN /\ memory' = [memory EXCEPT ![p] = IF Counted(@) THEN @ ELSE disk]
                /\ Return(p)
           ELSE /\ Goto(p, [job[p] EXCEPT !.pc = "titles"])
                /\ UNCHANGED memory
    /\ UNCHANGED <<role, file, clock, alias, disk, faults>>

\* _compute_incoming_full: a first listing for the titles that count as targets, ...
\* Two fields of an entry are history: missed, the pages that could not be read, and came,
\* those listed that were not there when the signature was taken.
Came(p) == {q \in Listed : job[p].sig[q] = 0}
Titles(p) ==
    /\ At(p, "titles")
    /\ Goto(p, [job[p] EXCEPT !.pc = "sources", !.titles = Listed, !.came = Came(p)])
    /\ UNCHANGED <<role, file, clock, alias, memory, disk, faults>>

\* ... a second one for the pages to read, and then these one by one.
Sources(p) ==
    /\ At(p, "sources")
    /\ Goto(p, [job[p] EXCEPT !.pc = "count", !.todo = Listed, !.came = @ \union Came(p)])
    /\ UNCHANGED <<role, file, clock, alias, memory, disk, faults>>

AddLinks(counts, targets) == [q \in Pages |-> counts[q] + IF q \in targets THEN 1 ELSE 0]

Count(p) ==
    /\ At(p, "count") /\ job[p].todo # {}
    /\ LET q == Least(job[p].todo)
           Went(counts, missed) ==
               Goto(p, [job[p] EXCEPT !.todo = @ \ {q}, !.counts = counts, !.missed = missed])
       IN  \/ /\ Went(AddLinks(job[p].counts, file[q].says.links \intersect job[p].titles),
                      job[p].missed)
              /\ UNCHANGED faults
           \/ /\ Exists(q) /\ Fault
              /\ Went(job[p].counts, job[p].missed \union {q})
    /\ UNCHANGED <<role, file, clock, alias, memory, disk>>

\* A bug: the signature is taken when the count is over.
EntryOfNow(j) == [sig |-> Sig, counts |-> j.counts, missed |-> j.missed, came |-> j.came]
Entry(j) ==
    [sig |-> j.sig, counts |-> j.counts, missed |-> j.missed, came |-> j.came]

\* _save_disk, whose failure ends the call.
SaveDisk(p) ==
    /\ At(p, "count") /\ job[p].todo = {}
    /\ \/ /\ disk' = Entry(job[p])
          /\ Goto(p, [job[p] EXCEPT !.pc = "keep"])
          /\ UNCHANGED faults
       \/ Fault /\ Return(p) /\ UNCHANGED disk
    /\ UNCHANGED <<role, file, clock, alias, memory>>

Keep(p) == /\ At(p, "keep")
           /\ memory' = [memory EXCEPT ![p] = Entry(job[p])]
           /\ Return(p)
           /\ UNCHANGED <<role, file, clock, alias, disk, faults>>

\* The process dies and starts again: only the file on disk stays.
Restart(p) == /\ p \in Mortal /\ ~At(p, "idle") /\ Fault
              /\ alias' = [alias EXCEPT ![p] = None]
              /\ memory' = [memory EXCEPT ![p] = None]
              /\ Return(p)
              /\ UNCHANGED <<role, file, clock, disk>>

(***************************************************************************)
(* The human, in an editor                                                 *)
(***************************************************************************)
Save(q, c) == Put(q, c) /\ UNCHANGED <<role, alias, memory, disk, job, faults>>

Delete(q) == /\ Exists(q)
             /\ file' = [file EXCEPT ![q] = Gone]
             /\ UNCHANGED <<role, clock, alias, memory, disk, job, faults>>

Call(p) == \/ Build(p) \/ Sign(p) \/ List(p) \/ Read(p) \/ Compare(p) \/ Clear(p)
           \/ Purge(p) \/ Resign(p)
           \/ \E q \in Pages, c \in Contents : Write(p, q, c)
           \/ Patch(p) \/ Stamp(p) \/ Forget(p) \/ Unlink(p)
           \/ Load(p) \/ Lookup(p) \/ Titles(p) \/ Sources(p) \/ Count(p) \/ SaveDisk(p) \/ Keep(p)
           \/ Restart(p)

Next == \/ \E p \in Procs : Call(p)
        \/ \E q \in Pages : Delete(q) \/ \E c \in Contents : Save(q, c)

Spec == Init /\ [][Next]_vars

(***************************************************************************)
(* Properties                                                              *)
(***************************************************************************)
Counts == [Pages -> Nat]
Entries == [sig : Signatures, counts : Counts, missed : SUBSET Pages,
            came : SUBSET Pages]

\* The type of the state, and what a call that is over leaves behind.
TypeOK ==
    /\ role \in Roles
    /\ file \in [Pages -> [stamp : Stamps, says : Contents \union {Nothing}]]
    /\ clock \in 1..MaxStamp /\ faults \in 0..MaxFaults
    /\ alias \in [Procs -> Kept \union {None}]
    /\ memory \in [Procs -> Entries \union {None}] /\ disk \in Entries \union {None}
    /\ job \in [Procs -> [pc : {"idle", "sign", "list", "read", "resign", "patch", "stamp",
                                "forget", "unlink", "lookup", "titles", "sources", "count", "keep"},
                          page : Pages \union {None}, tries : 0..2, sig : Signatures,
                          index : Indexes, counts : Counts, titles : SUBSET Pages,
                          missed : SUBSET Pages, came : SUBSET Pages, todo : SUBSET Pages]]

RowIsCurrent(i, q) == /\ q \in i.listed <=> Exists(q)
                      /\ i.names[q] = file[q].says.names

\* The index a call is about to serve from memory has the row of every page as its file
\* says it, although pages were saved, created and deleted while it was read, patched
\* and collected; except the pages whose stamp the process took without reading that
\* version: at a collection, after the read of a patch, because a read failed, or because
\* the page came and went while the index was read (cached_build_alias_index,
\* patch_generational_caches_for_paths).
HitIsCurrent ==
    \A p \in Procs : At(p, "sign") /\ Hit(p) =>
        \A q \in Pages \ alias[p].index.skipped : RowIsCurrent(alias[p].index, q)

\* In a kept index, however patched and collected, an alias leads to a page that declares
\* it, and every alias a page declares leads to that page unless a second page asked for
\* it (index_aliases_from_file, remove_page_from_alias_index, purge_stale_alias_entries).
OwnersAgree ==
    \A p \in Procs : alias[p] # None =>
        LET i == alias[p].index
        IN  \A w \in Words :
                /\ i.owner[w] # None => i.owner[w] \in i.listed /\ w \in i.names[i.owner[w]]
                /\ \A q \in i.listed : w \in i.names[q] /\ w \notin i.contested => i.owner[w] = q

FullCount(t, S) == Cardinality({q \in S : t \in file[q].says.links})

\* Backlink counts that a load would serve, from its memory or from the file another
\* process may have written, dropped or left behind when it died, are those of the pages
\* as they are now, but for the pages that could not be read; unless a page came after the
\* signature was taken, in time to be counted, and went (load_incoming_backlinks,
\* patch_backlink_index_for_paths).
CountsMatchSignature ==
    \A e \in {memory[p] : p \in Procs} \union {disk} :
        Serves(e) /\ e.came = {} =>
            \A t \in Pages : e.counts[t] = IF Exists(t) THEN FullCount(t, Pages \ e.missed) ELSE 0

\* What the cache is documented to be: "reusing memory when source mtimes are unchanged"
\* (generational_cache.py:284), an index read before the last change of a page is not
\* served again.
HitMeansUnchanged ==
    \A p \in Procs : At(p, "sign") /\ Hit(p) => \A q \in Listed : RowIsCurrent(alias[p].index, q)
=============================================================================
