-------------------------- MODULE ShadowSyncProofs --------------------------
(***************************************************************************)
(* A read that the Shadow DB answers is never older than the page was when *)
(* the read compared its stamp; the types, with what its counts and its    *)
(* parked pages have to do with the rows; a process that failed to index a *)
(* page does not call the cache ready while its row is older; and as long  *)
(* as nothing went wrong a ready cache holds every settled page.           *)
(***************************************************************************)
EXTENDS ShadowSync, FiniteSetTheorems, TLAPS

-----------------------------------------------------------------------------
(* Types *)

JobKinds == {"none", "sync", "delete", "scan", "replay", "read"}
Jobs == [kind : JobKinds, path : Paths \cup {None}, stamp : Saves, text : Saves,
         want : Saves, from : Paths \cup {None}, again : BOOLEAN]
RowType == [stamp : Saves, text : Saves]
Dbs == [rows : [Paths -> RowType], parked : SUBSET Paths, completed : BOOLEAN,
        error : BOOLEAN, source : Nat, indexed : Nat]

TypePages == disk \in [Paths -> Saves] /\ saves \in Saves
TypeCache == db \in Dbs /\ tx \in Dbs
TypeThreads == pc \in [Threads -> Labels] /\ job \in [Threads -> Jobs]
TypeSets == todo \in [Threads -> SUBSET Paths] /\ deferred \in [Procs -> SUBSET Paths]

\* A thread that works on a page has one.
PageLabels == {"check", "defer", "lock", "stat", "parse", "commit", "delete",
               "latch", "marker", "meta", "fresh", "query", "rows", "served"}
OnPage == \A t \in Threads : pc[t] \in PageLabels => job[t].path \in Paths

Types == TypePages /\ TypeCache /\ TypeThreads /\ TypeSets /\ OnPage

-----------------------------------------------------------------------------
(* The invariant *)

\* Texts only get newer: x is of a save of p, or earlier.
Past(x, p) == x <= saves /\ (disk[p] # 0 => x <= disk[p])

\* A row's text was read after its stamp was taken, and both are past.
RowOf(d, p) ==
    \/ d.rows[p] = NoRow
    \/ 0 < d.rows[p].stamp /\ d.rows[p].stamp <= d.rows[p].text /\ Past(d.rows[p].text, p)

RowsInv == \A p \in Paths : disk[p] <= saves /\ RowOf(db, p) /\ RowOf(tx, p)

\* Who works on the cache holds the writer flock.
HoldLabels == {"stat", "parse", "commit", "delete", "scan", "unmark", "unlatch",
               "unboot", "pop", "replay"}
LockInv ==
    \A t \in Threads :
        /\ pc[t] \in HoldLabels => flock = t
        /\ job[t].kind \in {"scan", "replay"} => flock = t
        /\ job[t].kind = "scan" => pc[t] \in {"scan", "stat", "parse", "commit"}
        /\ job[t].kind = "replay" => pc[t] \in {"stat", "parse", "commit", "latch", "marker", "meta"}
        /\ pc[t] = "scan" => job[t].kind = "scan"

\* What it is about to put in place of a row is not older than the row.
WorkOf(j, l) ==
    /\ Past(j.stamp, j.path) /\ Past(j.text, j.path)
    /\ j.stamp # 0 => j.stamp >= db.rows[j.path].stamp
    /\ l = "commit" /\ j.text # 0 => j.stamp <= j.text
WorkInv == \A t \in Threads : pc[t] \in {"parse", "commit"} => WorkOf(job[t], pc[t])

\* Nor is what a rebuild has in its open transaction.
TxInv ==
    \A p \in Paths : tx.rows[p] # NoRow => /\ tx.rows[p].stamp >= db.rows[p].stamp
                                           /\ \E t \in Threads : job[t].kind = "scan"

\* A read between its comparison and its query can only meet rows of texts as
\* new as the page was at the comparison.
NewRow(d, p, want) == d.rows[p] = NoRow \/ d.rows[p].text >= want
ReadOf(t) ==
    LET p == job[t].path  want == job[t].want IN
    /\ want # 0 /\ want <= saves /\ (disk[p] # 0 => disk[p] >= want)
    /\ NewRow(db, p, want) /\ NewRow(tx, p, want)
    /\ \A u \in Threads : pc[u] \in {"parse", "commit"} /\ job[u].path = p /\ job[u].stamp # 0
                              => job[u].stamp >= want
ReadInv ==
    \A t \in Threads : /\ pc[t] \in {"query", "rows"} => ReadOf(t)
                       /\ pc[t] = "served" /\ job[t].from = job[t].path => job[t].text >= job[t].want

IInv == Types /\ RowsInv /\ LockInv /\ WorkInv /\ TxInv /\ ReadInv

\* Zero values and the types of their fields.
LEMMA Numbers ==
    /\ 0 \in Saves /\ Saves \subseteq Nat
    /\ NoRow \in RowType /\ NoJob \in Jobs /\ NoDb \in Dbs
    /\ NoRow.stamp = 0 /\ NoRow.text = 0
    /\ \A p \in Paths : NoDb.rows[p] = NoRow
    /\ NoJob.kind = "none" /\ NoJob.stamp = 0 /\ NoJob.text = 0 /\ NoJob.want = 0
    /\ \A S \in SUBSET Paths : Cardinality(S) \in Nat
<1>1. 0 \in Saves /\ Saves \subseteq Nat
  BY ShadowAssumption DEF Saves
<1>2. \A S \in SUBSET Paths : Cardinality(S) \in Nat
  BY ShadowAssumption, FS_Subset, FS_CardinalityType
<1>3. NoRow \in RowType /\ NoRow.stamp = 0 /\ NoRow.text = 0
  BY <1>1 DEF NoRow, RowType
<1>4. NoJob \in Jobs
  BY <1>1 DEF NoJob, Jobs, JobKinds
<1>5. NoDb \in Dbs
  BY <1>3 DEF NoDb, Dbs
<1> QED
  BY <1>1, <1>2, <1>3, <1>4, <1>5 DEF NoDb, NoJob

\* What Upsert puts into a generation.
NewRowOf(stamp, text) == IF stamp = 0 \/ text = 0 THEN NoRow ELSE [stamp |-> stamp, text |-> text]

\* Upsert replaces one row and leaves the count alone.
LEMMA UpsertRows ==
    ASSUME NEW d \in Dbs, NEW p \in Paths, NEW stamp \in Saves, NEW text \in Saves
    PROVE  /\ Upsert(d, p, stamp, text) \in Dbs
           /\ Upsert(d, p, stamp, text).rows = [d.rows EXCEPT ![p] = NewRowOf(stamp, text)]
           /\ Upsert(d, p, stamp, text).indexed = d.indexed
<1>1. NewRowOf(stamp, text) \in RowType
  BY Numbers DEF NewRowOf, RowType
<1> DEFINE parked == IF stamp # 0 /\ text = 0 THEN d.parked \cup {p} ELSE d.parked \ {p}
<1>2. parked \in SUBSET Paths
  BY DEF Dbs
<1>3. Upsert(d, p, stamp, text) = [d EXCEPT !.rows[p] = NewRowOf(stamp, text), !.parked = parked]
  BY DEF Upsert, NewRowOf
<1> HIDE DEF parked
<1> QED
  BY <1>1, <1>2, <1>3 DEF Dbs

\* The invariant holds before anything runs.
LEMMA InitInv == Init => IInv
<1> SUFFICES ASSUME Init PROVE IInv
  OBVIOUS
<1>1. Types
  BY Numbers, ShadowAssumption DEF Init, Types, TypePages, TypeCache, TypeThreads, TypeSets, OnPage, PageLabels, Labels, Saves
<1>2. RowsInv
  BY Numbers DEF Init, RowsInv, RowOf
<1>3. LockInv
  BY Numbers DEF Init, LockInv, HoldLabels
<1>4. WorkInv /\ TxInv /\ ReadInv
  BY Numbers DEF Init, WorkInv, TxInv, ReadInv
<1> QED
  BY <1>1, <1>2, <1>3, <1>4 DEF IInv

-----------------------------------------------------------------------------
(* Types are kept *)

\* Every job that an action builds is a job.
LEMMA JobTypes ==
    /\ [NoJob EXCEPT !.kind = "scan"] \in Jobs
    /\ \A p \in Paths, w \in Saves :
          /\ Sync(p, w) \in Jobs /\ Sync(p, w).path = p
          /\ [Sync(p, 0) EXCEPT !.kind = "delete"] \in Jobs
          /\ [Sync(p, 0) EXCEPT !.kind = "delete"].path = p
          /\ [NoJob EXCEPT !.kind = "read", !.path = p] \in Jobs
          /\ [NoJob EXCEPT !.kind = "replay", !.path = p, !.want = w] \in Jobs
    /\ \A j \in Jobs, p \in Paths, x \in Saves :
          /\ [j EXCEPT !.path = p] \in Jobs
          /\ [j EXCEPT !.stamp = x, !.text = 0] \in Jobs
          /\ [j EXCEPT !.text = x] \in Jobs
          /\ [j EXCEPT !.want = x] \in Jobs
          /\ [j EXCEPT !.again = FALSE] \in Jobs
          /\ [j EXCEPT !.from = None] \in Jobs
          /\ [j EXCEPT !.from = p, !.text = x] \in Jobs
<1>1. 0 \in Saves
  BY Numbers
<1>2. NoJob = [kind |-> "none", path |-> None, stamp |-> 0, text |-> 0, want |-> 0,
                      from |-> None, again |-> FALSE]
  BY DEF NoJob
<1>3. \A p \in Paths, w \in Saves : Sync(p, w) \in Jobs /\ Sync(p, w).path = p
  BY Numbers DEF Sync, Jobs, JobKinds
<1>4. \A j \in Jobs : /\ [j EXCEPT !.kind = "delete"] \in Jobs
                      /\ [j EXCEPT !.kind = "delete"].path = j.path
  BY DEF Jobs, JobKinds
<1>5. \A j \in Jobs, p \in Paths, x \in Saves :
          /\ [j EXCEPT !.path = p] \in Jobs
          /\ [j EXCEPT !.stamp = x, !.text = 0] \in Jobs
          /\ [j EXCEPT !.text = x] \in Jobs
          /\ [j EXCEPT !.want = x] \in Jobs
          /\ [j EXCEPT !.again = FALSE] \in Jobs
          /\ [j EXCEPT !.from = None] \in Jobs
          /\ [j EXCEPT !.from = p, !.text = x] \in Jobs
  BY <1>1 DEF Jobs
<1>6. /\ [NoJob EXCEPT !.kind = "scan"] \in Jobs
      /\ \A p \in Paths, w \in Saves :
            /\ [NoJob EXCEPT !.kind = "read", !.path = p] \in Jobs
            /\ [NoJob EXCEPT !.kind = "replay", !.path = p, !.want = w] \in Jobs
  BY <1>1, <1>2 DEF Jobs, JobKinds
<1> QED
  BY <1>1, <1>3, <1>4, <1>5, <1>6

\* A thread that takes a page with it keeps the types.
LEMMA BecomesType ==
    ASSUME TypeThreads, OnPage, NEW t \in Threads, NEW label \in Labels, NEW j \in Jobs,
           Becomes(t, label, j), label \in PageLabels => j.path \in Paths
    PROVE  TypeThreads' /\ OnPage'
BY DEF TypeThreads, OnPage, Becomes, Goto

\* So does one that keeps its job.
LEMMA GotoType ==
    ASSUME TypeThreads, OnPage, NEW t \in Threads, NEW label \in Labels,
           Goto(t, label), UNCHANGED job, label \in PageLabels => job[t].path \in Paths
    PROVE  TypeThreads' /\ OnPage'
BY DEF TypeThreads, OnPage, Goto

\* So does the end of a start-up.
LEMMA StartedType ==
    ASSUME TypeThreads, OnPage, NEW t \in Threads, Started(t), UNCHANGED job
    PROVE  TypeThreads' /\ OnPage'
<1>1. "idle" \in Labels /\ "idle" \notin PageLabels
  BY DEF Labels, PageLabels
<1> QED
  BY <1>1 DEF TypeThreads, OnPage, Started

\* The two queries of a read, and the fall back to Markdown.
Querying(t) == FindAnchor(t) \/ SelectRows(t) \/ FallBack(t)
QueryTo(t, label, j) ==
    /\ label \in {"rows", "served", "idle"} /\ j \in Jobs /\ Becomes(t, label, j)
    /\ j.path \in Paths \/ label = "idle"
    /\ (j = NoJob \/ (j.kind = job[t].kind /\ j.path = job[t].path /\ j.want = job[t].want))
    /\ label = "rows" => j = job[t]
    /\ label = "served" /\ j.from = j.path => j.path = job[t].path /\ j.want = job[t].want
                                             /\ db.rows[j.path] # NoRow /\ j.text = db.rows[j.path].text

\* They move one thread, with its page, and change nothing else.
LEMMA QueryJob ==
    ASSUME Types, NEW t \in Threads, Querying(t)
    PROVE  /\ pc[t] \in {"query", "rows"} /\ job[t].path \in Paths
           /\ UNCHANGED <<disk, saves, db, tx, marker, latch, booting, deferred, up, flock, todo,
                          event, missed, calm>>
           /\ \E label, j : QueryTo(t, label, j)
<1>1. pc[t] \in {"query", "rows"} /\ job[t].path \in Paths /\ job[t] \in Jobs
  BY DEF Querying, FindAnchor, SelectRows, FallBack, Types, TypeThreads, OnPage, PageLabels
<1>2. UNCHANGED <<disk, saves, db, tx, marker, latch, booting, deferred, up, flock, todo, event, missed, calm>>
  BY DEF Querying, FindAnchor, SelectRows, FallBack, cache, process
<1>3. \A p \in Paths : db.rows[p].text \in Saves
  BY DEF Types, TypeCache, Dbs, RowType
<1> DEFINE none == [job[t] EXCEPT !.from = None]
<1>4. /\ none \in Jobs /\ none.kind = job[t].kind /\ none.path = job[t].path
      /\ none.want = job[t].want /\ none.from = None
  BY <1>1, JobTypes DEF Jobs
<1>5. None \notin Paths /\ NoJob \in Jobs
  BY ShadowAssumption, Numbers
<1>6. CASE Becomes(t, "rows", job[t])
  <2>1. QueryTo(t, "rows", job[t])
    BY <1>1, <1>6 DEF QueryTo
  <2> QED BY <1>1, <1>2, <2>1
<1>7. CASE Becomes(t, "served", none)
  <2> HIDE DEF none
  <2>1. QueryTo(t, "served", none)
    BY <1>1, <1>4, <1>5, <1>7 DEF QueryTo
  <2> QED BY <1>1, <1>2, <2>1
<1>8. CASE \E r \in Rows(db) : Becomes(t, "served", [job[t] EXCEPT !.from = r, !.text = db.rows[r].text])
  <2>1. PICK r \in Paths : /\ db.rows[r] # NoRow
                           /\ Becomes(t, "served", [job[t] EXCEPT !.from = r, !.text = db.rows[r].text])
    BY <1>8 DEF Rows
  <2> DEFINE j == [job[t] EXCEPT !.from = r, !.text = db.rows[r].text]
  <2>2. /\ j \in Jobs /\ j.kind = job[t].kind /\ j.path = job[t].path
        /\ j.want = job[t].want /\ j.from = r /\ j.text = db.rows[r].text
    BY <1>1, <1>3, JobTypes DEF Jobs
  <2>3. Becomes(t, "served", j)
    BY <2>1
  <2> HIDE DEF j
  <2>4. QueryTo(t, "served", j)
    BY <1>1, <2>1, <2>2, <2>3 DEF QueryTo
  <2> QED BY <1>1, <1>2, <2>4
<1>9. CASE Becomes(t, "idle", NoJob)
  <2>1. QueryTo(t, "idle", NoJob)
    BY <1>5, <1>9 DEF QueryTo
  <2> QED BY <1>1, <1>2, <2>1
<1> QED
  BY <1>6, <1>7, <1>8, <1>9 DEF Querying, FindAnchor, SelectRows, FallBack

\* Every step keeps the types.
LEMMA TypesStep == Types /\ [Next]_vars => Types'
<1> SUFFICES ASSUME Types, [Next]_vars
             PROVE  TypePages' /\ TypeCache' /\ TypeThreads' /\ TypeSets' /\ OnPage'
  BY DEF Types
<1> TypePages /\ TypeCache /\ TypeThreads /\ TypeSets /\ OnPage
  BY DEF Types
<1>pages. (UNCHANGED <<disk, saves>>) => TypePages'
  BY DEF TypePages
<1>cache. (UNCHANGED <<db, tx>>) => TypeCache'
  BY DEF TypeCache
<1>threads. (UNCHANGED <<pc, job>>) => TypeThreads' /\ OnPage'
  BY DEF TypeThreads, OnPage
<1>sets. (UNCHANGED <<todo, deferred>>) => TypeSets'
  BY DEF TypeSets
<1>labels. /\ {"down", "idle", "check", "defer", "lock", "stat", "parse", "commit", "delete",
               "latch", "marker", "meta", "rebuild", "scan", "unmark", "unlatch",
               "unboot", "pop", "replay", "fresh", "query", "rows", "served"} \subseteq Labels
           /\ {"idle", "down", "rebuild", "scan", "unmark", "unlatch", "unboot", "pop", "replay"}
                 \cap PageLabels = {}
  BY DEF Labels, PageLabels
<1>job. \A t \in Threads : job[t] \in Jobs /\ job[t].stamp \in Saves /\ job[t].text \in Saves
  BY DEF TypeThreads, Jobs
<1>disk. \A p \in Paths : disk[p] \in Saves
  BY DEF TypePages
<1>1. ASSUME NEW p \in Paths, HumanSave(p) PROVE TypePages' /\ TypeCache' /\ TypeThreads' /\ TypeSets' /\ OnPage'
  <2>1. TypePages'
    BY <1>1, Numbers, ShadowAssumption DEF HumanSave, TypePages, Saves
  <2> QED
    BY <1>1, <2>1, <1>cache, <1>threads, <1>sets DEF HumanSave, cache, process
<1>2. ASSUME NEW p \in Paths, HumanDelete(p) PROVE TypePages' /\ TypeCache' /\ TypeThreads' /\ TypeSets' /\ OnPage'
  <2>1. TypePages'
    BY <1>2, Numbers, ShadowAssumption DEF HumanDelete, TypePages, Saves
  <2> QED
    BY <1>2, <2>1, <1>cache, <1>threads, <1>sets DEF HumanDelete, cache, process
<1>3. ASSUME NEW t \in Threads, NEW p \in Paths, RobotWrite(t, p) PROVE TypePages' /\ TypeCache' /\ TypeThreads' /\ TypeSets' /\ OnPage'
  <2>1. saves + 1 \in Saves
    BY <1>3, ShadowAssumption DEF RobotWrite, TypePages, Saves
  <2>2. TypePages'
    BY <1>3, <2>1 DEF RobotWrite, TypePages
  <2>3. TypeThreads' /\ OnPage'
    BY <1>3, <2>1, JobTypes, BecomesType, <1>labels DEF RobotWrite
  <2> QED
    BY <1>3, <2>2, <2>3, <1>cache, <1>sets DEF RobotWrite, cache, process
<1>4. ASSUME NEW t \in Threads, NEW p \in Paths, Deliver(t, p) PROVE TypePages' /\ TypeCache' /\ TypeThreads' /\ TypeSets' /\ OnPage'
  <2>1. TypeThreads' /\ OnPage'
    <3>1. CASE Becomes(t, "check", [Sync(p, 0) EXCEPT !.kind = "delete"])
      BY <3>1, Numbers, JobTypes, BecomesType, <1>labels
    <3>2. CASE Becomes(t, "check", Sync(p, disk[p]))
      BY <3>2, JobTypes, BecomesType, <1>labels, <1>disk
    <3> QED
      BY <1>4, <3>1, <3>2, Zenon DEF Deliver
  <2> QED
    BY <1>4, <2>1, <1>pages, <1>cache, <1>sets DEF Deliver, cache, process
<1>5. ASSUME NEW t \in Threads, Check(t) PROVE TypePages' /\ TypeCache' /\ TypeThreads' /\ TypeSets' /\ OnPage'
  <2>1. pc[t] \in PageLabels => job[t].path \in Paths
    BY DEF OnPage
  <2>2. TypeThreads' /\ OnPage'
    BY <1>5, <2>1, GotoType, <1>labels DEF Check, PageLabels
  <2> QED
    BY <1>5, <2>2, <1>pages, <1>cache, <1>sets DEF Check, cache, process
<1>6. ASSUME NEW t \in Threads, Defer(t) PROVE TypePages' /\ TypeCache' /\ TypeThreads' /\ TypeSets' /\ OnPage'
  <2>1. TypeThreads' /\ OnPage'
    BY <1>6, Numbers, BecomesType, <1>labels DEF Defer
  <2>2. job[t].path \in Paths
    BY <1>6 DEF Defer, OnPage, PageLabels
  <2>3. TypeSets'
    BY <1>6, <2>2, ShadowAssumption DEF Defer, TypeSets
  <2> QED
    BY <1>6, <2>1, <2>3, <1>pages, <1>cache DEF Defer, cache
<1>7. ASSUME NEW t \in Threads, TakeLock(t) PROVE TypePages' /\ TypeCache' /\ TypeThreads' /\ TypeSets' /\ OnPage'
  <2>1. pc[t] \in PageLabels => job[t].path \in Paths
    BY DEF OnPage
  <2>2. TypeThreads' /\ OnPage'
    BY <1>7, <2>1, GotoType, <1>labels DEF TakeLock, PageLabels
  <2> QED
    BY <1>7, <2>2, <1>pages, <1>cache, <1>sets DEF TakeLock, cache, process
<1>8. ASSUME NEW t \in Threads, LockTimeout(t) PROVE TypePages' /\ TypeCache' /\ TypeThreads' /\ TypeSets' /\ OnPage'
  <2>1. pc[t] \in PageLabels => job[t].path \in Paths
    BY DEF OnPage
  <2>2. TypeThreads' /\ OnPage'
    BY <1>8, <2>1, GotoType, <1>labels DEF LockTimeout, PageLabels
  <2> QED
    BY <1>8, <2>2, <1>pages, <1>cache, <1>sets DEF LockTimeout, cache, process
<1>9. ASSUME NEW t \in Threads, Stat(t) PROVE TypePages' /\ TypeCache' /\ TypeThreads' /\ TypeSets' /\ OnPage'
  <2>1. job[t].path \in Paths
    BY <1>9 DEF Stat, OnPage, PageLabels
  <2> DEFINE j == [job[t] EXCEPT !.stamp = disk[job[t].path], !.text = 0]
  <2>2. j \in Jobs /\ j.path = job[t].path
    <3>1. job[t] \in Jobs /\ disk[job[t].path] \in Saves
      BY <2>1, <1>job, <1>disk
    <3> QED BY <3>1, Numbers DEF Jobs
  <2>3. Becomes(t, "parse", j) \/ Becomes(t, "commit", j)
    BY <1>9 DEF Stat
  <2> HIDE DEF j
  <2>4. TypeThreads' /\ OnPage'
    BY <2>1, <2>2, <2>3, BecomesType, <1>labels
  <2> QED
    BY <1>9, <2>4, <1>pages, <1>cache, <1>sets DEF Stat, cache, process
<1>10. ASSUME NEW t \in Threads, Parse(t) PROVE TypePages' /\ TypeCache' /\ TypeThreads' /\ TypeSets' /\ OnPage'
  <2>1. job[t].path \in Paths
    BY <1>10 DEF Parse, OnPage, PageLabels
  <2>2. PICK text \in {disk[job[t].path], 0} : Becomes(t, "commit", [job[t] EXCEPT !.text = text])
    BY <1>10 DEF Parse
  <2> DEFINE j == [job[t] EXCEPT !.text = text]
  <2>3. j \in Jobs /\ j.path = job[t].path
    BY <2>1, <1>job, <1>disk, Numbers, JobTypes DEF Jobs
  <2>4. Becomes(t, "commit", j)
    BY <2>2
  <2> HIDE DEF j
  <2>5. TypeThreads' /\ OnPage'
    BY <2>1, <2>3, <2>4, BecomesType, <1>labels
  <2> QED
    BY <1>10, <2>5, <1>pages, <1>cache, <1>sets DEF Parse, cache, process
<1>11. ASSUME NEW t \in Threads, CommitPage(t) PROVE TypePages' /\ TypeCache' /\ TypeThreads' /\ TypeSets' /\ OnPage'
  <2>1. job[t].path \in Paths
    BY <1>11 DEF CommitPage, OnPage, PageLabels
  <2>2. JobAfter(t) \in Jobs /\ Resume(t) \in {"scan", "replay", "idle"}
    BY JobTypes, Numbers DEF JobAfter, Resume
  <2>3. TypeThreads' /\ OnPage'
    BY <1>11, <2>2, BecomesType, <1>labels DEF CommitPage
  <2> DEFINE d == Upsert(tx, job[t].path, job[t].stamp, job[t].text)
             e == Upsert(db, job[t].path, job[t].stamp, job[t].text)
  <2>4. d \in Dbs /\ e \in Dbs
    BY <2>1, <1>job, UpsertRows DEF TypeCache
  <2>5. [d EXCEPT !.indexed = d.indexed + 1] \in Dbs
    BY <2>4 DEF Dbs
  <2>6. \/ db' = e /\ tx' = tx
        \/ db' = db /\ tx' \in {d, [d EXCEPT !.indexed = d.indexed + 1]}
    BY <1>11 DEF CommitPage
  <2> HIDE DEF d, e
  <2>7. TypeCache'
    BY <2>4, <2>5, <2>6 DEF TypeCache
  <2> QED
    BY <1>11, <2>3, <2>7, <1>pages, <1>sets DEF CommitPage, process
<1>12. ASSUME NEW t \in Threads, DeleteRow(t) PROVE TypePages' /\ TypeCache' /\ TypeThreads' /\ TypeSets' /\ OnPage'
  <2>1. job[t].path \in Paths
    BY <1>12 DEF DeleteRow, OnPage, PageLabels
  <2>2. TypeThreads' /\ OnPage'
    BY <1>12, Numbers, BecomesType, <1>labels DEF DeleteRow
  <2>3. TypeCache'
    BY <1>12, <2>1, Numbers, UpsertRows DEF DeleteRow, TypeCache
  <2> QED
    BY <1>12, <2>2, <2>3, <1>pages, <1>sets DEF DeleteRow, process
<1>13. ASSUME NEW t \in Threads, SyncFails(t) PROVE TypePages' /\ TypeCache' /\ TypeThreads' /\ TypeSets' /\ OnPage'
  <2>1. pc[t] \in PageLabels => job[t].path \in Paths
    BY DEF OnPage
  <2>2. TypeThreads' /\ OnPage'
    BY <1>13, <2>1, GotoType, <1>labels DEF SyncFails, PageLabels
  <2> QED
    BY <1>13, <2>2, <1>pages, <1>cache, <1>sets DEF SyncFails, cache, process
<1>14. ASSUME NEW t \in Threads, RaiseLatch(t) PROVE TypePages' /\ TypeCache' /\ TypeThreads' /\ TypeSets' /\ OnPage'
  <2>1. pc[t] \in PageLabels => job[t].path \in Paths
    BY DEF OnPage
  <2>2. TypeThreads' /\ OnPage'
    BY <1>14, <2>1, GotoType, <1>labels DEF RaiseLatch, PageLabels
  <2> QED
    BY <1>14, <2>2, <1>pages, <1>cache, <1>sets DEF RaiseLatch, cache, process
<1>15. ASSUME NEW t \in Threads, WriteMarker(t) PROVE TypePages' /\ TypeCache' /\ TypeThreads' /\ TypeSets' /\ OnPage'
  <2>1. pc[t] \in PageLabels => job[t].path \in Paths
    BY DEF OnPage
  <2>2. TypeThreads' /\ OnPage'
    BY <1>15, <2>1, GotoType, <1>labels DEF WriteMarker, PageLabels
  <2> QED
    BY <1>15, <2>2, <1>pages, <1>cache, <1>sets DEF WriteMarker, cache, process
<1>16. ASSUME NEW t \in Threads, RecordError(t) PROVE TypePages' /\ TypeCache' /\ TypeThreads' /\ TypeSets' /\ OnPage'
  <2>1. job[t].path \in Paths
    BY <1>16 DEF RecordError, OnPage, PageLabels
  <2>2. Resume(t) \in {"scan", "replay", "idle"}
    BY DEF Resume
  <2>3. [job[t] EXCEPT !.again = FALSE] \in Jobs /\ [job[t] EXCEPT !.again = FALSE].path \in Paths
    BY <2>1, <1>job, Numbers, JobTypes DEF Jobs
  <2>4. TypeThreads' /\ OnPage'
    BY <1>16, <2>2, <2>3, Numbers, BecomesType, <1>labels DEF RecordError
  <2>5. [db EXCEPT !.error = TRUE] \in Dbs
    BY DEF TypeCache, Dbs
  <2>6. TypeCache'
    BY <1>16, <2>5 DEF RecordError, TypeCache
  <2> QED
    BY <1>16, <2>4, <2>6, <1>pages, <1>sets DEF RecordError, process
<1>17. ASSUME NEW t \in Threads, Prepare(t) PROVE TypePages' /\ TypeCache' /\ TypeThreads' /\ TypeSets' /\ OnPage'
  <2>1. TypeThreads' /\ OnPage'
    BY <1>17, GotoType, StartedType, <1>labels DEF Prepare
  <2> QED
    BY <1>17, <2>1, <1>pages, <1>cache, <1>sets DEF Prepare, cache
<1>18. ASSUME NEW t \in Threads, BeginRebuild(t) PROVE TypePages' /\ TypeCache' /\ TypeThreads' /\ TypeSets' /\ OnPage'
  <2>1. TypeThreads' /\ OnPage'
    BY <1>18, JobTypes, BecomesType, <1>labels DEF BeginRebuild
  <2> DEFINE S == {p \in Paths : disk[p] # 0}
  <2>2. S \in SUBSET Paths /\ Cardinality(S) \in Nat
    BY Numbers
  <2>3. tx' = [NoDb EXCEPT !.source = Cardinality(S)] /\ db' = db
    BY <1>18 DEF BeginRebuild
  <2>4. todo' = [todo EXCEPT ![t] = S] /\ deferred' = deferred
    BY <1>18 DEF BeginRebuild
  <2> HIDE DEF S
  <2>5. TypeCache'
    BY <2>2, <2>3, Numbers DEF TypeCache, Dbs
  <2>6. TypeSets'
    BY <2>2, <2>4 DEF TypeSets
  <2> QED
    BY <1>18, <2>1, <2>5, <2>6, <1>pages DEF BeginRebuild
<1>19. ASSUME NEW t \in Threads, RebuildTimeout(t) PROVE TypePages' /\ TypeCache' /\ TypeThreads' /\ TypeSets' /\ OnPage'
  <2>1. TypeThreads' /\ OnPage'
    BY <1>19, StartedType DEF RebuildTimeout
  <2> QED
    BY <1>19, <2>1, <1>pages, <1>cache, <1>sets DEF RebuildTimeout, cache
<1>20. ASSUME NEW t \in Threads, NEW p \in Paths, ScanPage(t, p) PROVE TypePages' /\ TypeCache' /\ TypeThreads' /\ TypeSets' /\ OnPage'
  <2>1. [job[t] EXCEPT !.path = p] \in Jobs /\ [job[t] EXCEPT !.path = p].path = p
    BY <1>job, Numbers, JobTypes DEF Jobs
  <2>2. TypeThreads' /\ OnPage'
    BY <1>20, <2>1, BecomesType, <1>labels DEF ScanPage
  <2>3. TypeSets'
    BY <1>20 DEF ScanPage, TypeSets, process
  <2> QED
    BY <1>20, <2>2, <2>3, <1>pages, <1>cache DEF ScanPage, cache
<1>21. ASSUME NEW t \in Threads, CommitRebuild(t) PROVE TypePages' /\ TypeCache' /\ TypeThreads' /\ TypeSets' /\ OnPage'
  <2>1. TypeThreads' /\ OnPage'
    BY <1>21, Numbers, BecomesType, <1>labels DEF CommitRebuild
  <2>2. [tx EXCEPT !.completed = TRUE] \in Dbs
    BY DEF TypeCache, Dbs
  <2>3. TypeCache'
    BY <1>21, <2>2, Numbers DEF CommitRebuild, TypeCache
  <2> QED
    BY <1>21, <2>1, <2>3, <1>pages, <1>sets DEF CommitRebuild, process
<1>22. ASSUME NEW t \in Threads, ClearMarker(t) PROVE TypePages' /\ TypeCache' /\ TypeThreads' /\ TypeSets' /\ OnPage'
  <2>1. pc[t] \in PageLabels => job[t].path \in Paths
    BY DEF OnPage
  <2>2. TypeThreads' /\ OnPage'
    BY <1>22, <2>1, GotoType, <1>labels DEF ClearMarker, PageLabels
  <2> QED
    BY <1>22, <2>2, <1>pages, <1>cache, <1>sets DEF ClearMarker, cache, process
<1>23. ASSUME NEW t \in Threads, ClearLatch(t) PROVE TypePages' /\ TypeCache' /\ TypeThreads' /\ TypeSets' /\ OnPage'
  <2>1. pc[t] \in PageLabels => job[t].path \in Paths
    BY DEF OnPage
  <2>2. TypeThreads' /\ OnPage'
    BY <1>23, <2>1, GotoType, <1>labels DEF ClearLatch, PageLabels
  <2> QED
    BY <1>23, <2>2, <1>pages, <1>cache, <1>sets DEF ClearLatch, cache, process
<1>24. ASSUME NEW t \in Threads, EndBootstrap(t) PROVE TypePages' /\ TypeCache' /\ TypeThreads' /\ TypeSets' /\ OnPage'
  <2>1. pc[t] \in PageLabels => job[t].path \in Paths
    BY DEF OnPage
  <2>2. TypeThreads' /\ OnPage'
    BY <1>24, <2>1, GotoType, <1>labels DEF EndBootstrap, PageLabels
  <2> QED
    BY <1>24, <2>2, <1>pages, <1>cache, <1>sets DEF EndBootstrap, cache, process
<1>25. ASSUME NEW t \in Threads, RebuildFails(t) PROVE TypePages' /\ TypeCache' /\ TypeThreads' /\ TypeSets' /\ OnPage'
  <2>1. TypeThreads' /\ OnPage'
    BY <1>25, Numbers, BecomesType, <1>labels DEF RebuildFails
  <2>2. [db EXCEPT !.error = TRUE] \in Dbs
    BY DEF TypeCache, Dbs
  <2>3. TypeCache'
    BY <1>25, <2>2, Numbers DEF RebuildFails, TypeCache
  <2>4. TypeSets'
    BY <1>25 DEF RebuildFails, TypeSets, process
  <2> QED
    BY <1>25, <2>1, <2>3, <2>4, <1>pages DEF RebuildFails
<1>26. ASSUME NEW t \in Threads, PopDeferred(t) PROVE TypePages' /\ TypeCache' /\ TypeThreads' /\ TypeSets' /\ OnPage'
  <2>1. TypeThreads' /\ OnPage'
    BY <1>26, GotoType, <1>labels DEF PopDeferred
  <2>2. TypeSets'
    BY <1>26, ShadowAssumption DEF PopDeferred, TypeSets
  <2> QED
    BY <1>26, <2>1, <2>2, <1>pages, <1>cache DEF PopDeferred, cache
<1>27. ASSUME NEW t \in Threads, NEW p \in Paths, Replay(t, p) PROVE TypePages' /\ TypeCache' /\ TypeThreads' /\ TypeSets' /\ OnPage'
  <2> DEFINE j == [NoJob EXCEPT !.kind = "replay", !.path = p, !.want = disk[p]]
  <2>1. j \in Jobs /\ j.path = p
    BY <1>disk, Numbers, JobTypes DEF NoJob
  <2>2. Becomes(t, "stat", j)
    BY <1>27 DEF Replay
  <2> HIDE DEF j
  <2>3. TypeThreads' /\ OnPage'
    BY <2>1, <2>2, BecomesType, <1>labels
  <2>4. TypeSets'
    BY <1>27 DEF Replay, TypeSets, process
  <2> QED
    BY <1>27, <2>3, <2>4, <1>pages, <1>cache DEF Replay, cache
<1>28. ASSUME NEW t \in Threads, EndRebuild(t) PROVE TypePages' /\ TypeCache' /\ TypeThreads' /\ TypeSets' /\ OnPage'
  <2>1. TypeThreads' /\ OnPage'
    BY <1>28, StartedType DEF EndRebuild
  <2> QED
    BY <1>28, <2>1, <1>pages, <1>cache, <1>sets DEF EndRebuild, cache
<1>35. ASSUME NEW t \in Threads, StartWatcher(t) \/ OpenFails(t)
       PROVE  TypePages' /\ TypeCache' /\ TypeThreads' /\ TypeSets' /\ OnPage'
  <2>1. CASE StartWatcher(t)
    <3>1. TypeThreads' /\ OnPage'
      BY <2>1, GotoType, <1>labels DEF StartWatcher
    <3> QED
      BY <2>1, <3>1, <1>pages, <1>cache, <1>sets DEF StartWatcher, cache, process
  <2>2. CASE OpenFails(t)
    <3>1. TypeThreads' /\ OnPage'
      BY <2>2, StartedType DEF OpenFails
    <3> QED
      BY <2>2, <3>1, <1>pages, <1>cache, <1>sets DEF OpenFails, cache
  <2> QED
    BY <1>35, <2>1, <2>2
<1>29. ASSUME NEW t \in Threads, NEW p \in Paths, ReadHealth(t, p) PROVE TypePages' /\ TypeCache' /\ TypeThreads' /\ TypeSets' /\ OnPage'
  <2> DEFINE j == [NoJob EXCEPT !.kind = "read", !.path = p]
  <2>1. j \in Jobs /\ j.path = p
    BY Numbers, JobTypes DEF NoJob
  <2>2. Becomes(t, "fresh", j)
    BY <1>29 DEF ReadHealth
  <2> HIDE DEF j
  <2>3. TypeThreads' /\ OnPage'
    BY <2>1, <2>2, BecomesType, <1>labels
  <2> QED
    BY <1>29, <2>3, <1>pages, <1>cache, <1>sets DEF ReadHealth, cache, process
<1>30. ASSUME NEW t \in Threads, CheckFresh(t) PROVE TypePages' /\ TypeCache' /\ TypeThreads' /\ TypeSets' /\ OnPage'
  <2>1. job[t].path \in Paths
    BY <1>30 DEF CheckFresh, OnPage, PageLabels
  <2> DEFINE j == [job[t] EXCEPT !.want = disk[job[t].path]]
  <2>2. j \in Jobs /\ j.path = job[t].path
    BY <2>1, <1>job, <1>disk, JobTypes DEF Jobs
  <2>3. Becomes(t, "query", j) \/ Becomes(t, "idle", NoJob)
    BY <1>30 DEF CheckFresh
  <2> HIDE DEF j
  <2>4. TypeThreads' /\ OnPage'
    BY <2>1, <2>2, <2>3, Numbers, BecomesType, <1>labels
  <2> QED
    BY <1>30, <2>4, <1>pages, <1>cache, <1>sets DEF CheckFresh, cache, process
<1>31. ASSUME NEW t \in Threads, Querying(t) PROVE TypePages' /\ TypeCache' /\ TypeThreads' /\ TypeSets' /\ OnPage'
  <2>1. PICK label, j : QueryTo(t, label, j)
    BY <1>31, QueryJob DEF Types
  <2>2. label \in Labels /\ (label \in PageLabels => j.path \in Paths)
    BY <2>1 DEF QueryTo, Labels, PageLabels
  <2>3. TypeThreads' /\ OnPage'
    BY <2>1, <2>2, BecomesType DEF QueryTo
  <2> QED
    BY <1>31, <2>3, QueryJob, <1>pages, <1>cache, <1>sets DEF Types
<1>32. ASSUME NEW t \in Threads, Answer(t) PROVE TypePages' /\ TypeCache' /\ TypeThreads' /\ TypeSets' /\ OnPage'
  <2>1. TypeThreads' /\ OnPage'
    BY <1>32, Numbers, BecomesType, <1>labels DEF Answer
  <2> QED
    BY <1>32, <2>1, <1>pages, <1>cache, <1>sets DEF Answer, cache, process
<1>33. ASSUME NEW q \in Procs, Crash(q) PROVE TypePages' /\ TypeCache' /\ TypeThreads' /\ TypeSets' /\ OnPage'
  <2>1. TypeThreads' /\ OnPage'
    BY <1>33, Numbers, <1>labels DEF Crash, TypeThreads, OnPage
  <2>2. TypeCache' /\ TypeSets'
    BY <1>33, Numbers DEF Crash, TypeCache, TypeSets
  <2> QED
    BY <1>33, <2>1, <2>2, <1>pages DEF Crash
<1>34. CASE UNCHANGED vars
  BY <1>34, <1>pages, <1>cache, <1>threads, <1>sets DEF vars, cache, process
<1> QED
  BY <1>1, <1>2, <1>3, <1>4, <1>5, <1>6, <1>7, <1>8, <1>9, <1>10, <1>11, <1>12, <1>13, <1>14, <1>15, <1>16, <1>17, <1>18, <1>19, <1>20, <1>21, <1>22, <1>23, <1>24, <1>25, <1>26, <1>27, <1>28, <1>29, <1>30, <1>31, <1>32, <1>33, <1>34, <1>35
  DEF Next, Work, Page, PageOf, Querying

-----------------------------------------------------------------------------
(* The writer flock *)

\* A step that keeps the job, as one that sets it.
LEMMA GotoBecomes ==
    ASSUME TypeThreads, NEW t \in Threads, NEW label, Goto(t, label), UNCHANGED job
    PROVE  Becomes(t, label, job[t])
BY DEF TypeThreads, Becomes

\* A step of one thread that leaves the flock with whoever else holds it.
LEMMA LockBecomes ==
    ASSUME TypeThreads, LockInv, NEW t \in Threads, NEW label, NEW j, Becomes(t, label, j),
           label \in HoldLabels \/ j.kind \in {"scan", "replay"} => flock' = t,
           j.kind = "scan" => label \in {"scan", "stat", "parse", "commit"},
           j.kind = "replay" => label \in {"stat", "parse", "commit", "latch", "marker", "meta"},
           label = "scan" => j.kind = "scan",
           \A u \in Threads \ {t} : flock = u => flock' = u
    PROVE  LockInv'
BY DEF TypeThreads, LockInv, Becomes, Goto

\* The end of a start-up releases at most the flock of the thread itself.
LEMMA LockStarted ==
    ASSUME TypeThreads, LockInv, NEW t \in Threads, Started(t), UNCHANGED job,
           job[t].kind \notin {"scan", "replay"},
           \A u \in Threads \ {t} : flock = u => flock' = u
    PROVE  LockInv'
<1> SUFFICES ASSUME NEW u \in Threads
             PROVE  /\ pc'[u] \in HoldLabels => flock' = u
                    /\ job'[u].kind \in {"scan", "replay"} => flock' = u
                    /\ job'[u].kind = "scan" => pc'[u] \in {"scan", "stat", "parse", "commit"}
                    /\ job'[u].kind = "replay" => pc'[u] \in {"stat", "parse", "commit", "latch", "marker", "meta"}
                    /\ pc'[u] = "scan" => job'[u].kind = "scan"
  BY DEF LockInv
<1>1. "idle" \notin HoldLabels
  BY DEF HoldLabels
<1>2. pc'[u] = "idle" \/ pc'[u] = pc[u]
  BY DEF Started
<1>3. CASE u = t
  BY <1>1, <1>3 DEF Started
<1>4. CASE u # t
  BY <1>1, <1>2, <1>4 DEF LockInv, Started
<1> QED
  BY <1>3, <1>4

\* Every step keeps who holds the flock.
LEMMA LockStep == Types /\ LockInv /\ [Next]_vars => LockInv'
<1> SUFFICES ASSUME Types, LockInv, [Next]_vars PROVE LockInv'
  OBVIOUS
<1> TypeThreads
  BY DEF Types
<1>same. (UNCHANGED <<pc, job, flock>>) => LockInv'
  BY DEF LockInv
<1>held. \A t \in Threads : /\ pc[t] \in HoldLabels => flock = t
                            /\ job[t].kind \in {"scan", "replay"} => flock = t
                            /\ job[t].kind = "scan" => pc[t] \in {"scan", "stat", "parse", "commit"}
                            /\ job[t].kind = "replay" => pc[t] \in {"stat", "parse", "commit", "latch", "marker", "meta"}
                            /\ pc[t] = "scan" => job[t].kind = "scan"
  BY DEF LockInv
<1>1. ASSUME NEW p \in Paths, HumanSave(p) PROVE LockInv'
  BY <1>1, <1>same DEF HumanSave
<1>2. ASSUME NEW p \in Paths, HumanDelete(p) PROVE LockInv'
  BY <1>2, <1>same DEF HumanDelete
<1>3. ASSUME NEW t \in Threads, NEW p \in Paths, RobotWrite(t, p) PROVE LockInv'
  BY <1>3, LockBecomes DEF RobotWrite, Sync, NoJob, HoldLabels
<1>4. ASSUME NEW t \in Threads, NEW p \in Paths, Deliver(t, p) PROVE LockInv'
  <2>1. CASE Becomes(t, "check", [Sync(p, 0) EXCEPT !.kind = "delete"])
    BY <1>4, <2>1, LockBecomes DEF Deliver, Sync, NoJob, HoldLabels
  <2>2. CASE Becomes(t, "check", Sync(p, disk[p]))
    BY <1>4, <2>2, LockBecomes DEF Deliver, Sync, NoJob, HoldLabels
  <2> QED
    BY <1>4, <2>1, <2>2, Zenon DEF Deliver
<1>5. ASSUME NEW t \in Threads, Check(t) PROVE LockInv'
  BY <1>5, <1>held, GotoBecomes, LockBecomes DEF Check, HoldLabels, process, LockAfter
<1>6. ASSUME NEW t \in Threads, Defer(t) PROVE LockInv'
  BY <1>6, LockBecomes DEF Defer, NoJob, HoldLabels
<1>7. ASSUME NEW t \in Threads, TakeLock(t) PROVE LockInv'
  <2>1. job[t].kind \notin {"scan", "replay"}
    BY <1>7, <1>held DEF TakeLock
  <2> QED
    BY <1>7, <2>1, ShadowAssumption, GotoBecomes, LockBecomes DEF TakeLock, HoldLabels
<1>8. ASSUME NEW t \in Threads, LockTimeout(t) PROVE LockInv'
  BY <1>8, <1>held, GotoBecomes, LockBecomes DEF LockTimeout, HoldLabels, process, LockAfter
<1>9. ASSUME NEW t \in Threads, Stat(t) PROVE LockInv'
  <2> DEFINE j == [job[t] EXCEPT !.stamp = disk[job[t].path], !.text = 0]
  <2>1. j.kind = job[t].kind
    BY DEF TypeThreads, Jobs
  <2>2. Becomes(t, "parse", j) \/ Becomes(t, "commit", j)
    BY <1>9 DEF Stat
  <2> HIDE DEF j
  <2> QED
    BY <1>9, <2>1, <2>2, <1>held, LockBecomes DEF Stat, HoldLabels
<1>10. ASSUME NEW t \in Threads, Parse(t) PROVE LockInv'
  <2>1. PICK text : Becomes(t, "commit", [job[t] EXCEPT !.text = text])
    BY <1>10 DEF Parse
  <2> DEFINE j == [job[t] EXCEPT !.text = text]
  <2>2. j.kind = job[t].kind /\ Becomes(t, "commit", j)
    BY <2>1 DEF TypeThreads, Jobs
  <2> HIDE DEF j
  <2> QED
    BY <1>10, <2>2, <1>held, LockBecomes DEF Parse, HoldLabels
<1>11. ASSUME NEW t \in Threads, CommitPage(t) PROVE LockInv'
  <2>1. flock = t
    BY <1>11, <1>held DEF CommitPage, HoldLabels
  <2>2. CASE job[t].kind = "scan"
    BY <1>11, <2>1, <2>2, LockBecomes DEF CommitPage, Resume, JobAfter, LockAfter, NoJob, HoldLabels
  <2>3. CASE job[t].kind = "replay"
    BY <1>11, <2>1, <2>3, LockBecomes DEF CommitPage, Resume, JobAfter, LockAfter, NoJob, HoldLabels
  <2>4. CASE job[t].kind \notin {"scan", "replay"}
    BY <1>11, <2>1, <2>4, LockBecomes DEF CommitPage, Resume, JobAfter, LockAfter, NoJob, HoldLabels
  <2> QED
    BY <2>2, <2>3, <2>4
<1>12. ASSUME NEW t \in Threads, DeleteRow(t) PROVE LockInv'
  BY <1>12, <1>held, LockBecomes DEF DeleteRow, NoJob, HoldLabels
<1>13. ASSUME NEW t \in Threads, SyncFails(t) PROVE LockInv'
  <2>1. flock = t
    BY <1>13, <1>held DEF SyncFails, HoldLabels
  <2>2. job[t].kind = "replay" => flock' = t
    BY <1>13, <2>1 DEF SyncFails, LockAfter
  <2> QED
    BY <1>13, <2>1, <2>2, GotoBecomes, LockBecomes DEF SyncFails, HoldLabels
<1>14. ASSUME NEW t \in Threads, RaiseLatch(t) PROVE LockInv'
  BY <1>14, <1>held, GotoBecomes, LockBecomes DEF RaiseLatch, HoldLabels, process, LockAfter
<1>15. ASSUME NEW t \in Threads, WriteMarker(t) PROVE LockInv'
  BY <1>15, <1>held, GotoBecomes, LockBecomes DEF WriteMarker, HoldLabels, process, LockAfter
<1>16. ASSUME NEW t \in Threads, RecordError(t) PROVE LockInv'
  <2>1. job[t].kind # "scan"
    BY <1>16, <1>held DEF RecordError
  <2>2. CASE Becomes(t, "latch", [job[t] EXCEPT !.again = FALSE])
    <3> DEFINE j == [job[t] EXCEPT !.again = FALSE]
    <3>1. j.kind = job[t].kind /\ Becomes(t, "latch", j)
      BY <2>2 DEF TypeThreads, Jobs
    <3> HIDE DEF j
    <3> QED
      BY <1>16, <2>1, <3>1, <1>held, LockBecomes DEF RecordError, HoldLabels
  <2>3. CASE Becomes(t, Resume(t), NoJob)
    <3>1. CASE job[t].kind = "replay"
      BY <1>16, <2>1, <2>3, <3>1, <1>held, LockBecomes DEF RecordError, Resume, NoJob, HoldLabels
    <3>2. CASE job[t].kind # "replay"
      BY <1>16, <2>1, <2>3, <3>2, <1>held, LockBecomes DEF RecordError, Resume, NoJob, HoldLabels
    <3> QED
      BY <3>1, <3>2
  <2> QED
    BY <1>16, <2>2, <2>3 DEF RecordError
<1>17. ASSUME NEW t \in Threads, Prepare(t) PROVE LockInv'
  <2>1. pc[t] \in {"down", "idle"}
    BY <1>17 DEF Prepare, Free
  <2>2. job[t].kind \notin {"scan", "replay"}
    BY <2>1, <1>held
  <2>3. CASE Goto(t, "rebuild")
    BY <1>17, <2>2, <2>3, GotoBecomes, LockBecomes DEF Prepare, HoldLabels
  <2>4. CASE Started(t)
    BY <1>17, <2>2, <2>4, LockStarted DEF Prepare
  <2> QED
    BY <1>17, <2>3, <2>4 DEF Prepare
<1>18. ASSUME NEW t \in Threads, BeginRebuild(t) PROVE LockInv'
  BY <1>18, ShadowAssumption, LockBecomes DEF BeginRebuild, NoJob, HoldLabels
<1>19. ASSUME NEW t \in Threads, RebuildTimeout(t) PROVE LockInv'
  <2>1. job[t].kind \notin {"scan", "replay"}
    BY <1>19, <1>held DEF RebuildTimeout
  <2> QED
    BY <1>19, <2>1, LockStarted DEF RebuildTimeout
<1>20. ASSUME NEW t \in Threads, NEW p \in Paths, ScanPage(t, p) PROVE LockInv'
  <2> DEFINE j == [job[t] EXCEPT !.path = p]
  <2>1. j.kind = job[t].kind /\ Becomes(t, "stat", j)
    BY <1>20 DEF ScanPage, TypeThreads, Jobs
  <2> HIDE DEF j
  <2> QED
    BY <1>20, <2>1, <1>held, LockBecomes DEF ScanPage, HoldLabels
<1>21. ASSUME NEW t \in Threads, CommitRebuild(t) PROVE LockInv'
  BY <1>21, <1>held, LockBecomes DEF CommitRebuild, NoJob, HoldLabels
<1>22. ASSUME NEW t \in Threads, ClearMarker(t) PROVE LockInv'
  BY <1>22, <1>held, GotoBecomes, LockBecomes DEF ClearMarker, HoldLabels, process, LockAfter
<1>23. ASSUME NEW t \in Threads, ClearLatch(t) PROVE LockInv'
  BY <1>23, <1>held, GotoBecomes, LockBecomes DEF ClearLatch, HoldLabels, process, LockAfter
<1>24. ASSUME NEW t \in Threads, RebuildFails(t) PROVE LockInv'
  BY <1>24, <1>held, LockBecomes DEF RebuildFails, NoJob, HoldLabels
<1>25. ASSUME NEW t \in Threads, EndBootstrap(t) PROVE LockInv'
  BY <1>25, <1>held, GotoBecomes, LockBecomes DEF EndBootstrap, HoldLabels, process, LockAfter
<1>26. ASSUME NEW t \in Threads, PopDeferred(t) PROVE LockInv'
  BY <1>26, <1>held, GotoBecomes, LockBecomes DEF PopDeferred, HoldLabels, process, LockAfter
<1>27. ASSUME NEW t \in Threads, NEW p \in Paths, Replay(t, p) PROVE LockInv'
  <2>1. flock = t
    BY <1>27, <1>held DEF Replay, HoldLabels
  <2> QED
    BY <1>27, <2>1, LockBecomes DEF Replay, NoJob, HoldLabels
<1>28. ASSUME NEW t \in Threads, EndRebuild(t) PROVE LockInv'
  <2>1. job[t].kind \notin {"scan", "replay"} /\ flock = t
    BY <1>28, <1>held DEF EndRebuild, HoldLabels
  <2> QED
    BY <1>28, <2>1, LockStarted DEF EndRebuild
<1>29. ASSUME NEW t \in Threads, NEW p \in Paths, ReadHealth(t, p) PROVE LockInv'
  BY <1>29, LockBecomes DEF ReadHealth, NoJob, HoldLabels
<1>30. ASSUME NEW t \in Threads, CheckFresh(t) PROVE LockInv'
  <2> DEFINE j == [job[t] EXCEPT !.want = disk[job[t].path]]
  <2>1. j.kind = job[t].kind
    BY DEF TypeThreads, Jobs
  <2>2. Becomes(t, "query", j) \/ Becomes(t, "idle", NoJob)
    BY <1>30 DEF CheckFresh
  <2>3. job[t].kind \notin {"scan", "replay"}
    BY <1>30, <1>held DEF CheckFresh
  <2> HIDE DEF j
  <2> QED
    BY <1>30, <2>1, <2>2, <2>3, LockBecomes DEF CheckFresh, NoJob, HoldLabels
<1>31. ASSUME NEW t \in Threads, Querying(t) PROVE LockInv'
  <2>1. PICK label, j : QueryTo(t, label, j)
    BY <1>31, QueryJob
  <2>2. job[t].kind \notin {"scan", "replay"} /\ flock' = flock
    BY <1>31, <1>held, QueryJob
  <2>3. label \notin HoldLabels /\ j.kind \notin {"scan", "replay"}
    BY <2>1, <2>2 DEF QueryTo, HoldLabels, NoJob
  <2> QED
    BY <2>1, <2>2, <2>3, LockBecomes DEF QueryTo, HoldLabels
<1>35. ASSUME NEW t \in Threads, StartWatcher(t) \/ OpenFails(t) PROVE LockInv'
  <2>1. job[t].kind \notin {"scan", "replay"} /\ flock' = flock
    BY <1>35, <1>held DEF StartWatcher, OpenFails
  <2>2. CASE StartWatcher(t)
    BY <2>1, <2>2, GotoBecomes, LockBecomes DEF StartWatcher, HoldLabels
  <2> QED
    BY <1>35, <2>1, <2>2, LockStarted DEF OpenFails
<1>32. ASSUME NEW t \in Threads, Answer(t) PROVE LockInv'
  BY <1>32, LockBecomes DEF Answer, NoJob, HoldLabels
<1>33. ASSUME NEW q \in Procs, Crash(q) PROVE LockInv'
  <2> SUFFICES ASSUME NEW u \in Threads
               PROVE  /\ pc'[u] \in HoldLabels => flock' = u
                      /\ job'[u].kind \in {"scan", "replay"} => flock' = u
                      /\ job'[u].kind = "scan" => pc'[u] \in {"scan", "stat", "parse", "commit"}
                      /\ job'[u].kind = "replay" => pc'[u] \in {"stat", "parse", "commit", "latch", "marker", "meta"}
                      /\ pc'[u] = "scan" => job'[u].kind = "scan"
    BY DEF LockInv
  <2>1. CASE u \in Of(q)
    BY <1>33, <2>1 DEF Crash, NoJob, HoldLabels
  <2>2. CASE u \notin Of(q)
    <3>1. pc'[u] = pc[u] /\ job'[u] = job[u]
      BY <1>33, <2>2, Zenon DEF Crash
    <3>2. flock = u => flock' = u
      BY <1>33, <2>2 DEF Crash
    <3> QED
      BY <3>1, <3>2, <1>held
  <2> QED
    BY <2>1, <2>2
<1>34. CASE UNCHANGED vars
  BY <1>34, <1>same DEF vars
<1> QED
  BY <1>1, <1>2, <1>3, <1>4, <1>5, <1>6, <1>7, <1>8, <1>9, <1>10, <1>11, <1>12, <1>13, <1>14, <1>15, <1>16, <1>17, <1>18, <1>19, <1>20, <1>21, <1>22, <1>23, <1>24, <1>25, <1>26, <1>27, <1>28, <1>29, <1>30, <1>31, <1>32, <1>33, <1>34, <1>35
  DEF Next, Work, Page, PageOf, Querying

-----------------------------------------------------------------------------
(* Rows, work and reads *)

DataInv == RowsInv /\ WorkInv /\ TxInv /\ ReadInv

\* A page becomes newer, or goes.
PagesAge ==
    /\ saves <= saves'
    /\ \A p \in Paths : /\ disk'[p] <= saves'
                        /\ disk'[p] # 0 => disk'[p] = disk[p] \/ disk'[p] >= saves

\* The transaction of a rebuild stays as it is, or is rolled back.
TxStays ==
    \/ /\ tx'.rows = tx.rows
       /\ \A u \in Threads : job[u].kind = "scan" => job'[u].kind = "scan"
    \/ \A p \in Paths : tx'.rows[p] = NoRow

\* No thread comes to a step that uses what an earlier one left in its job.
WorkStays ==
    \A u \in Threads : pc'[u] \in {"parse", "commit", "query", "rows", "served"}
                           => pc'[u] = pc[u] /\ job'[u] = job[u]

\* Facts on the numbers of a state.
LEMMA DataTypes ==
    ASSUME Types
    PROVE  /\ saves \in Nat
           /\ \A p \in Paths : /\ disk[p] \in Nat
                               /\ db.rows[p].stamp \in Nat /\ db.rows[p].text \in Nat
                               /\ tx.rows[p].stamp \in Nat /\ tx.rows[p].text \in Nat
           /\ \A t \in Threads : job[t].stamp \in Nat /\ job[t].text \in Nat /\ job[t].want \in Nat
           /\ \A t \in Threads : pc[t] \in {"stat", "parse", "commit", "delete", "fresh", "query", "rows"}
                                     => job[t].path \in Paths
<1>1. saves \in Nat /\ \A p \in Paths : disk[p] \in Nat
  BY Numbers DEF Types, TypePages
<1>2. \A p \in Paths : /\ db.rows[p].stamp \in Nat /\ db.rows[p].text \in Nat
                       /\ tx.rows[p].stamp \in Nat /\ tx.rows[p].text \in Nat
  BY Numbers DEF Types, TypeCache, Dbs, RowType
<1>3. \A t \in Threads : job[t].stamp \in Nat /\ job[t].text \in Nat /\ job[t].want \in Nat
  BY Numbers DEF Types, TypeThreads, Jobs
<1> QED
  BY <1>1, <1>2, <1>3 DEF Types, OnPage, PageLabels

\* A past text stays past while pages get newer or go.
LEMMA PastStays ==
    ASSUME Types, Types', PagesAge, NEW p \in Paths, NEW x \in Nat, Past(x, p)
    PROVE  Past(x, p)'
<1>1. saves \in Nat /\ saves' \in Nat /\ disk[p] \in Nat /\ disk'[p] \in Nat
  BY Numbers DEF Types, TypePages
<1> QED
  BY <1>1 DEF PagesAge, Past

\* A step that leaves the rows of the cache alone.
LEMMA Quiet ==
    ASSUME Types, Types', DataInv, PagesAge, TxStays, WorkStays, db'.rows = db.rows
    PROVE  DataInv'
<1> USE DEF DataInv
<1>1. RowsInv'
  <2> SUFFICES ASSUME NEW p \in Paths PROVE disk'[p] <= saves' /\ RowOf(db, p)' /\ RowOf(tx, p)'
    BY DEF RowsInv
  <2>1. disk'[p] <= saves'
    BY DEF PagesAge
  <2>2. RowOf(db, p)'
    BY PastStays, DataTypes DEF RowsInv, RowOf
  <2>3. RowOf(tx, p)'
    BY PastStays, DataTypes DEF RowsInv, RowOf, TxStays
  <2> QED
    BY <2>1, <2>2, <2>3
<1>2. WorkInv'
  <2> SUFFICES ASSUME NEW u \in Threads, pc'[u] \in {"parse", "commit"}
               PROVE  WorkOf(job[u], pc[u])'
    BY DEF WorkInv
  <2>1. pc'[u] = pc[u] /\ job'[u] = job[u]
    BY DEF WorkStays
  <2>2. WorkOf(job[u], pc[u]) /\ job[u].path \in Paths
    BY <2>1, DataTypes DEF WorkInv
  <2>3. Past(job[u].stamp, job[u].path)' /\ Past(job[u].text, job[u].path)'
    BY <2>1, <2>2, PastStays, DataTypes DEF WorkOf
  <2> QED
    BY <2>1, <2>2, <2>3 DEF WorkOf
<1>3. TxInv'
  BY DEF TxInv, TxStays
<1>4. ReadInv'
  <2> SUFFICES ASSUME NEW t \in Threads, pc'[t] \in {"query", "rows", "served"}
               PROVE  /\ pc'[t] \in {"query", "rows"} => ReadOf(t)'
                      /\ pc'[t] = "served" /\ job'[t].from = job'[t].path => job'[t].text >= job'[t].want
    BY DEF ReadInv
  <2>1. pc'[t] = pc[t] /\ job'[t] = job[t]
    BY DEF WorkStays
  <2>2. CASE pc[t] = "served"
    BY <2>1, <2>2 DEF ReadInv
  <2>3. CASE pc[t] \in {"query", "rows"}
    <3> DEFINE p == job[t].path  want == job[t].want
    <3>1. ReadOf(t) /\ p \in Paths /\ want \in Nat
      BY <2>3, DataTypes DEF ReadInv
    <3>2. want <= saves' /\ (disk'[p] # 0 => disk'[p] >= want)
      <4>1. saves \in Nat /\ saves' \in Nat /\ disk[p] \in Nat /\ disk'[p] \in Nat
        BY <3>1, Numbers DEF Types, TypePages
      <4> QED
        BY <3>1, <4>1 DEF ReadOf, PagesAge
    <3>3. NewRow(db, p, want)' /\ NewRow(tx, p, want)'
      BY <2>1, <3>1 DEF ReadOf, NewRow, TxStays
    <3>4. \A u \in Threads : pc'[u] \in {"parse", "commit"} /\ job'[u].path = p /\ job'[u].stamp # 0
                                 => job'[u].stamp >= want
      BY <3>1 DEF ReadOf, WorkStays
    <3>5. ReadOf(t)'
      BY <2>1, <3>1, <3>2, <3>3, <3>4 DEF ReadOf
    <3> QED
      BY <2>1, <2>3, <3>5
  <2> QED
    BY <2>1, <2>2, <2>3
<1> QED
  BY <1>1, <1>2, <1>3, <1>4

\* The pages, the cache and the transaction stay and one thread moves on.
LEMMA QuietBecomes ==
    ASSUME Types, Types', DataInv, UNCHANGED <<db, tx>>, PagesAge,
           NEW t \in Threads, NEW label, NEW j, Becomes(t, label, j),
           label \notin {"parse", "commit", "query", "rows", "served"},
           job[t].kind = "scan" => j.kind = "scan"
    PROVE  DataInv'
<1>1. \A u \in Threads : IF u = t THEN pc'[u] = label /\ job'[u] = j
                                  ELSE pc'[u] = pc[u] /\ job'[u] = job[u]
  BY DEF Types, TypeThreads, Becomes, Goto
<1>2. TxStays /\ WorkStays
  BY <1>1 DEF TxStays, WorkStays
<1> QED
  BY <1>2, Quiet

\* The pages and the jobs stay and threads move on.
LEMMA QuietGoto ==
    ASSUME Types, Types', DataInv, UNCHANGED <<disk, saves, tx, job>>, db'.rows = db.rows,
           \A u \in Threads : pc'[u] \in {"parse", "commit", "query", "rows", "served"} => pc'[u] = pc[u]
    PROVE  DataInv'
<1>1. PagesAge
  BY DataTypes DEF PagesAge, DataInv, RowsInv
<1>2. TxStays /\ WorkStays
  BY DEF TxStays, WorkStays
<1> QED
  BY <1>1, <1>2, Quiet

\* Who holds the flock is alone with the cache.
LEMMA Alone ==
    ASSUME LockInv, NEW t \in Threads, flock = t, NEW u \in Threads, u # t
    PROVE  pc[u] \notin {"stat", "parse", "commit", "delete", "scan"} /\ job[u].kind # "scan"
BY DEF LockInv, HoldLabels

\* The holder of the flock puts rows into the cache or into its transaction,
\* and nobody is left with work on a page.
LEMMA Written ==
    ASSUME Types, Types', LockInv, DataInv, NEW t \in Threads, flock = t,
           UNCHANGED <<disk, saves>>, NEW label, NEW j, Becomes(t, label, j),
           label \notin {"parse", "commit", "query", "rows", "served"},
           RowsInv', TxInv',
           \A u \in Threads : pc[u] \in {"query", "rows"} => /\ NewRow(db', job[u].path, job[u].want)
                                                             /\ NewRow(tx', job[u].path, job[u].want)
    PROVE  DataInv'
<1>1. \A u \in Threads : IF u = t THEN pc'[u] = label /\ job'[u] = j
                                  ELSE pc'[u] = pc[u] /\ job'[u] = job[u]
  BY DEF Types, TypeThreads, Becomes, Goto
<1>2. \A u \in Threads : pc'[u] \notin {"parse", "commit"}
  BY <1>1, Alone
<1>3. WorkInv'
  BY <1>2 DEF WorkInv
<1>4. \A u \in Threads : pc'[u] \in {"query", "rows"} => ReadOf(u)'
  <2> SUFFICES ASSUME NEW u \in Threads, pc'[u] \in {"query", "rows"} PROVE ReadOf(u)'
    OBVIOUS
  <2>1. u # t /\ pc[u] \in {"query", "rows"} /\ job'[u] = job[u]
    BY <1>1
  <2>2. ReadOf(u)
    BY <2>1 DEF DataInv, ReadInv
  <2>3. NewRow(db', job[u].path, job[u].want) /\ NewRow(tx', job[u].path, job[u].want)
    BY <2>1
  <2> QED
    BY <1>2, <2>1, <2>2, <2>3 DEF ReadOf, NewRow
<1>5. \A u \in Threads : pc'[u] = "served" /\ job'[u].from = job'[u].path => job'[u].text >= job'[u].want
  BY <1>1 DEF DataInv, ReadInv
<1>6. ReadInv'
  BY <1>4, <1>5 DEF ReadInv
<1> QED
  BY <1>3, <1>6 DEF DataInv

\* While somebody who is no rebuild holds the flock, no transaction is open.
LEMMA NoTx ==
    ASSUME LockInv, TxInv, NEW t \in Threads, flock = t, job[t].kind # "scan", NEW p \in Paths
    PROVE  tx.rows[p] = NoRow
BY Alone DEF TxInv


\* Every step keeps rows, work and reads.
LEMMA DataStep == Types /\ Types' /\ LockInv /\ DataInv /\ [Next]_vars => DataInv'
<1> SUFFICES ASSUME Types, Types', LockInv, DataInv, [Next]_vars PROVE DataInv'
  OBVIOUS
<1>age. (UNCHANGED <<disk, saves>>) => PagesAge
  BY DataTypes DEF PagesAge, DataInv, RowsInv
<1>old. \A p \in Paths : disk[p] <= saves /\ RowOf(db, p) /\ RowOf(tx, p)
  BY DEF DataInv, RowsInv
<1>scan. \A t \in Threads : job[t].kind = "scan" => pc[t] \in {"scan", "stat", "parse", "commit"}
  BY DEF LockInv
<1>1. ASSUME NEW p \in Paths, HumanSave(p) PROVE DataInv'
  <2>1. PagesAge
    <3>1. saves' = saves + 1 /\ disk' = [disk EXCEPT ![p] = saves + 1]
      BY <1>1 DEF HumanSave
    <3> QED
      BY <3>1, <1>old, DataTypes DEF PagesAge, Types, TypePages
  <2>2. TxStays /\ WorkStays
    BY <1>1 DEF HumanSave, TxStays, WorkStays, cache
  <2> QED
    BY <1>1, <2>1, <2>2, Quiet DEF HumanSave, cache
<1>2. ASSUME NEW p \in Paths, HumanDelete(p) PROVE DataInv'
  <2>1. PagesAge
    <3>1. saves' = saves /\ disk' = [disk EXCEPT ![p] = 0]
      BY <1>2 DEF HumanDelete
    <3> QED
      BY <3>1, <1>old, DataTypes DEF PagesAge, Types, TypePages
  <2>2. TxStays /\ WorkStays
    BY <1>2 DEF HumanDelete, TxStays, WorkStays, cache
  <2> QED
    BY <1>2, <2>1, <2>2, Quiet DEF HumanDelete, cache
<1>3. ASSUME NEW t \in Threads, NEW p \in Paths, RobotWrite(t, p) PROVE DataInv'
  <2>1. PagesAge
    <3>1. saves' = saves + 1 /\ disk' = [disk EXCEPT ![p] = saves + 1]
      BY <1>3 DEF RobotWrite
    <3> QED
      BY <3>1, <1>old, DataTypes DEF PagesAge, Types, TypePages
  <2>2. job[t].kind # "scan"
    BY <1>3, <1>scan DEF RobotWrite, Free
  <2> QED
    BY <1>3, <2>1, <2>2, QuietBecomes DEF RobotWrite, cache
<1>4. ASSUME NEW t \in Threads, NEW p \in Paths, Deliver(t, p) PROVE DataInv'
  <2>1. PagesAge /\ job[t].kind # "scan"
    BY <1>4, <1>age, <1>scan DEF Deliver, Free
  <2>2. PICK j : Becomes(t, "check", j)
    BY <1>4 DEF Deliver
  <2> QED
    BY <1>4, <2>1, <2>2, QuietBecomes DEF Deliver, cache
<1>5. ASSUME NEW t \in Threads, Check(t) PROVE DataInv'
  BY <1>5, QuietGoto DEF Check, Goto, Types, TypeThreads, cache
<1>6. ASSUME NEW t \in Threads, Defer(t) PROVE DataInv'
  <2>1. PagesAge /\ job[t].kind # "scan"
    BY <1>6, <1>age, <1>scan DEF Defer
  <2> QED
    BY <1>6, <2>1, QuietBecomes DEF Defer, cache
<1>7. ASSUME NEW t \in Threads, TakeLock(t) PROVE DataInv'
  BY <1>7, QuietGoto DEF TakeLock, Goto, Types, TypeThreads, cache
<1>8. ASSUME NEW t \in Threads, LockTimeout(t) PROVE DataInv'
  BY <1>8, QuietGoto DEF LockTimeout, Goto, Types, TypeThreads, cache
<1>9. ASSUME NEW t \in Threads, Stat(t) PROVE DataInv'
  <2> DEFINE p == job[t].path
             j == [job[t] EXCEPT !.stamp = disk[p], !.text = 0]
  <2>1. PICK label \in {"parse", "commit"} : Becomes(t, label, j)
    BY <1>9 DEF Stat
  <2>2. /\ j.stamp = disk[p] /\ j.text = 0
        /\ j.path = p /\ j.kind = job[t].kind /\ p \in Paths
    BY <1>9, DataTypes DEF Types, TypeThreads, Jobs, Stat
  <2>3. UNCHANGED <<disk, saves, db, tx>> /\ pc[t] = "stat"
    BY <1>9 DEF Stat, cache
  <2> HIDE DEF j
  <2>4. \A u \in Threads : IF u = t THEN pc'[u] = label /\ job'[u] = j
                                    ELSE pc'[u] = pc[u] /\ job'[u] = job[u]
    BY <2>1 DEF Types, TypeThreads, Becomes, Goto
  <2>5. RowsInv'
    BY <2>3 DEF DataInv, RowsInv, RowOf, Past
  <2>6. WorkInv'
    <3>1. Past(disk[p], p) /\ Past(0, p)
      BY <2>2, <1>old, DataTypes DEF Past
    <3>2. disk[p] # 0 => disk[p] >= db.rows[p].stamp
      BY <2>2, <1>old, DataTypes, Numbers DEF RowOf, Past
    <3>3. WorkOf(j, label)
      BY <2>2, <3>1, <3>2 DEF WorkOf
    <3> QED
      BY <2>3, <2>4, <3>3 DEF DataInv, WorkInv, WorkOf, Past
  <2>7. TxInv'
    BY <2>2, <2>3, <2>4 DEF DataInv, TxInv
  <2>8. ReadInv'
    <3> SUFFICES ASSUME NEW r \in Threads
                 PROVE  /\ pc'[r] \in {"query", "rows"} => ReadOf(r)'
                        /\ pc'[r] = "served" /\ job'[r].from = job'[r].path => job'[r].text >= job'[r].want
      BY DEF ReadInv
    <3>1. CASE pc'[r] \in {"query", "rows"}
      <4>1. r # t /\ pc[r] \in {"query", "rows"} /\ job'[r] = job[r] /\ ReadOf(r)
        BY <2>4, <3>1 DEF DataInv, ReadInv
      <4>2. \A u \in Threads : pc'[u] \in {"parse", "commit"} /\ job'[u].path = job[r].path /\ job'[u].stamp # 0
                                   => job'[u].stamp >= job[r].want
        BY <4>1, <2>2, <2>4 DEF ReadOf
      <4> QED
        BY <3>1, <4>1, <4>2, <2>3 DEF ReadOf, NewRow
    <3>2. CASE pc'[r] = "served"
      BY <3>2, <2>4 DEF DataInv, ReadInv
    <3> QED
      BY <3>1, <3>2
  <2> QED
    BY <2>5, <2>6, <2>7, <2>8 DEF DataInv
<1>10. ASSUME NEW t \in Threads, Parse(t) PROVE DataInv'
  <2> DEFINE p == job[t].path
  <2>1. PICK text \in {disk[p], 0} : Becomes(t, "commit", [job[t] EXCEPT !.text = text])
    BY <1>10 DEF Parse
  <2> DEFINE j == [job[t] EXCEPT !.text = text]
  <2>2. /\ j.stamp = job[t].stamp /\ j.text = text
        /\ j.path = p /\ j.kind = job[t].kind /\ p \in Paths
    BY <1>10, DataTypes DEF Types, TypeThreads, Jobs, Parse
  <2>3. UNCHANGED <<disk, saves, db, tx>> /\ pc[t] = "parse"
    BY <1>10 DEF Parse, cache
  <2>a. Becomes(t, "commit", j)
    BY <2>1
  <2> HIDE DEF j
  <2>4. \A u \in Threads : IF u = t THEN pc'[u] = "commit" /\ job'[u] = j
                                    ELSE pc'[u] = pc[u] /\ job'[u] = job[u]
    BY <2>a DEF Types, TypeThreads, Becomes, Goto
  <2>5. RowsInv'
    BY <2>3 DEF DataInv, RowsInv, RowOf, Past
  <2>6. WorkInv'
    <3>1. WorkOf(job[t], "parse")
      BY <2>3 DEF DataInv, WorkInv
    <3>2. Past(text, p) /\ (text # 0 => job[t].stamp <= text)
      BY <2>1, <2>2, <3>1, <1>old, DataTypes DEF WorkOf, Past
    <3>3. WorkOf(j, "commit")
      BY <2>2, <3>1, <3>2 DEF WorkOf
    <3> QED
      BY <2>3, <2>4, <3>3 DEF DataInv, WorkInv, WorkOf, Past
  <2>7. TxInv'
    BY <2>2, <2>3, <2>4 DEF DataInv, TxInv
  <2>8. ReadInv'
    <3> SUFFICES ASSUME NEW r \in Threads
                 PROVE  /\ pc'[r] \in {"query", "rows"} => ReadOf(r)'
                        /\ pc'[r] = "served" /\ job'[r].from = job'[r].path => job'[r].text >= job'[r].want
      BY DEF ReadInv
    <3>1. CASE pc'[r] \in {"query", "rows"}
      <4>1. r # t /\ pc[r] \in {"query", "rows"} /\ job'[r] = job[r] /\ ReadOf(r)
        BY <2>4, <3>1 DEF DataInv, ReadInv
      <4>2. \A u \in Threads : pc'[u] \in {"parse", "commit"} /\ job'[u].path = job[r].path /\ job'[u].stamp # 0
                                   => job'[u].stamp >= job[r].want
        BY <4>1, <2>2, <2>3, <2>4 DEF ReadOf
      <4> QED
        BY <3>1, <4>1, <4>2, <2>3 DEF ReadOf, NewRow
    <3>2. CASE pc'[r] = "served"
      BY <3>2, <2>4 DEF DataInv, ReadInv
    <3> QED
      BY <3>1, <3>2
  <2> QED
    BY <2>5, <2>6, <2>7, <2>8 DEF DataInv
<1>11. ASSUME NEW t \in Threads, CommitPage(t) PROVE DataInv'
  <2> DEFINE j == job[t]
             p == j.path
             row == NewRowOf(j.stamp, j.text)
  <2>1. UNCHANGED <<disk, saves>> /\ pc[t] = "commit" /\ flock = t /\ p \in Paths
    BY <1>11, DataTypes DEF CommitPage, LockInv, HoldLabels
  <2>2. WorkOf(j, "commit")
    BY <2>1 DEF DataInv, WorkInv
  <2>3. Becomes(t, Resume(t), JobAfter(t)) /\ Resume(t) \in {"scan", "replay", "idle"}
    BY <1>11 DEF CommitPage, Resume
  <2>4. row = NoRow \/ (/\ 0 < row.stamp /\ row.stamp <= row.text /\ Past(row.text, p)
                        /\ row.stamp = j.stamp /\ j.stamp # 0)
    BY <2>1, <2>2, DataTypes, Numbers DEF WorkOf, NewRowOf
  <2>5. \A u \in Threads : pc[u] \in {"query", "rows"} => /\ NewRow(db, job[u].path, job[u].want)
                                                          /\ NewRow(tx, job[u].path, job[u].want)
                                                          /\ job[u].path = p /\ j.stamp # 0 => j.stamp >= job[u].want
    BY <2>1 DEF DataInv, ReadInv, ReadOf
  <2>6. \A u \in Threads : pc[u] \in {"query", "rows"} /\ job[u].path = p => row = NoRow \/ row.text >= job[u].want
    <3> SUFFICES ASSUME NEW u \in Threads, pc[u] \in {"query", "rows"}, job[u].path = p, row # NoRow
                 PROVE  row.text >= job[u].want
      OBVIOUS
    <3>1. row = [stamp |-> j.stamp, text |-> j.text]
      BY DEF NewRowOf
    <3> QED
      BY <2>4, <2>5, <3>1, DataTypes
  <2>7. \A u \in Threads : pc[u] \in {"query", "rows"} => job[u].path \in Paths
    BY DataTypes
  <2>8. CASE j.kind = "scan"
    <3>1. db' = db /\ tx'.rows = [tx.rows EXCEPT ![p] = row]
      <4> DEFINE d == Upsert(tx, p, j.stamp, j.text)
      <4>1. d \in Dbs /\ d.rows = [tx.rows EXCEPT ![p] = row]
        BY <2>1, UpsertRows DEF Types, TypeCache, TypeThreads, Jobs
      <4>2. db' = db /\ tx' \in {d, [d EXCEPT !.indexed = d.indexed + 1]}
        BY <1>11, <2>8 DEF CommitPage
      <4> HIDE DEF d
      <4>3. [d EXCEPT !.indexed = d.indexed + 1].rows = d.rows
        BY <4>1 DEF Dbs
      <4> QED
        BY <4>1, <4>2, <4>3
    <3> HIDE DEF row
    <3>2. \A q \in Paths : tx'.rows[q] = IF q = p THEN row ELSE tx.rows[q]
      BY <3>1 DEF Types, TypeCache, Dbs
    <3>3. RowsInv'
      BY <2>1, <2>4, <3>1, <3>2 DEF DataInv, RowsInv, RowOf, Past
    <3>4. job'[t].kind = "scan"
      BY <2>3, <2>8 DEF Types, TypeThreads, Becomes, JobAfter, NoJob
    <3>5. TxInv'
      <4> SUFFICES ASSUME NEW q \in Paths, tx'.rows[q] # NoRow
                   PROVE  tx'.rows[q].stamp >= db'.rows[q].stamp
        BY <3>4 DEF TxInv
      <4> QED
        BY <2>2, <2>4, <3>1, <3>2 DEF WorkOf, DataInv, TxInv
    <3>6. \A u \in Threads : pc[u] \in {"query", "rows"} => /\ NewRow(db', job[u].path, job[u].want)
                                                            /\ NewRow(tx', job[u].path, job[u].want)
      BY <2>5, <2>6, <2>7, <3>1, <3>2 DEF NewRow
    <3> QED
      BY <2>1, <2>3, <3>3, <3>5, <3>6, Written
  <2>9. CASE j.kind # "scan"
    <3>1. tx' = tx /\ db'.rows = [db.rows EXCEPT ![p] = row]
      <4>1. Upsert(db, p, j.stamp, j.text).rows = [db.rows EXCEPT ![p] = row]
        BY <2>1, UpsertRows DEF Types, TypeCache, TypeThreads, Jobs
      <4> QED
        BY <1>11, <2>9, <4>1 DEF CommitPage
    <3> HIDE DEF row
    <3>2. \A q \in Paths : db'.rows[q] = IF q = p THEN row ELSE db.rows[q]
      BY <3>1 DEF Types, TypeCache, Dbs
    <3>3. RowsInv'
      BY <2>1, <2>4, <3>1, <3>2 DEF DataInv, RowsInv, RowOf, Past
    <3>5. TxInv'
      BY <2>1, <2>9, <3>1, NoTx DEF DataInv, TxInv
    <3>6. \A u \in Threads : pc[u] \in {"query", "rows"} => /\ NewRow(db', job[u].path, job[u].want)
                                                            /\ NewRow(tx', job[u].path, job[u].want)
      BY <2>5, <2>6, <2>7, <3>1, <3>2 DEF NewRow
    <3> QED
      BY <2>1, <2>3, <3>3, <3>5, <3>6, Written
  <2> QED
    BY <2>8, <2>9
<1>12. ASSUME NEW t \in Threads, DeleteRow(t) PROVE DataInv'
  <2> DEFINE p == job[t].path
  <2>1. /\ UNCHANGED <<disk, saves, tx>> /\ flock = t /\ p \in Paths
        /\ job[t].kind # "scan" /\ Becomes(t, "idle", NoJob)
    BY <1>12, <1>scan, DataTypes DEF DeleteRow, LockInv, HoldLabels
  <2>2. db'.rows = [db.rows EXCEPT ![p] = NoRow]
    BY <1>12, <2>1, UpsertRows, Numbers DEF DeleteRow, NewRowOf, Types, TypeCache
  <2>3. \A q \in Paths : db'.rows[q] = IF q = p THEN NoRow ELSE db.rows[q]
    BY <2>2 DEF Types, TypeCache, Dbs
  <2>4. RowsInv'
    BY <2>1, <2>3 DEF DataInv, RowsInv, RowOf, Past
  <2>5. TxInv'
    BY <2>1, NoTx DEF DataInv, TxInv
  <2>6. \A u \in Threads : pc[u] \in {"query", "rows"} => /\ NewRow(db', job[u].path, job[u].want)
                                                          /\ NewRow(tx', job[u].path, job[u].want)
    BY <2>1, <2>3, DataTypes DEF DataInv, ReadInv, ReadOf, NewRow
  <2> QED
    BY <2>1, <2>4, <2>5, <2>6, Written
<1>13. ASSUME NEW t \in Threads, SyncFails(t) PROVE DataInv'
  <2> QED
    BY <1>13, QuietGoto DEF SyncFails, Goto, Types, TypeThreads, cache
<1>14. ASSUME NEW t \in Threads, RaiseLatch(t) PROVE DataInv'
  BY <1>14, QuietGoto DEF RaiseLatch, Goto, Types, TypeThreads, cache
<1>15. ASSUME NEW t \in Threads, WriteMarker(t) PROVE DataInv'
  BY <1>15, QuietGoto DEF WriteMarker, Goto, Types, TypeThreads, cache
<1>16. ASSUME NEW t \in Threads, RecordError(t) PROVE DataInv'
  <2>1. db'.rows = db.rows /\ tx' = tx
    BY <1>16 DEF RecordError, Types, TypeCache, Dbs
  <2>2. PICK label, j : Becomes(t, label, j) /\ label \notin {"parse", "commit", "query", "rows", "served"}
    BY <1>16 DEF RecordError, Resume
  <2>3. job[t].kind # "scan"
    BY <1>16, <1>scan DEF RecordError
  <2>4. \A u \in Threads : IF u = t THEN pc'[u] = label
                                    ELSE pc'[u] = pc[u] /\ job'[u] = job[u]
    BY <2>2 DEF Types, TypeThreads, Becomes, Goto
  <2>5. TxStays /\ WorkStays
    BY <2>1, <2>2, <2>3, <2>4 DEF TxStays, WorkStays
  <2> QED
    BY <1>16, <1>age, <2>1, <2>5, Quiet DEF RecordError
<1>17. ASSUME NEW t \in Threads, Prepare(t) PROVE DataInv'
  <2>1. CASE Goto(t, "rebuild")
    BY <1>17, <2>1, QuietGoto DEF Prepare, Goto, Types, TypeThreads, cache
  <2>2. CASE Started(t)
    BY <1>17, <2>2, QuietGoto DEF Prepare, Started, cache
  <2> QED
    BY <1>17, <2>1, <2>2 DEF Prepare
<1>18. ASSUME NEW t \in Threads, BeginRebuild(t) PROVE DataInv'
  <2>1. db'.rows = db.rows /\ \A p \in Paths : tx'.rows[p] = NoRow
    BY <1>18, Numbers DEF BeginRebuild, Types, TypeCache, Dbs, NoDb
  <2>2. TxStays /\ WorkStays
    BY <1>18, <2>1 DEF BeginRebuild, Becomes, Goto, Types, TypeThreads, TxStays, WorkStays
  <2> QED
    BY <1>18, <1>age, <2>1, <2>2, Quiet DEF BeginRebuild
<1>19. ASSUME NEW t \in Threads, RebuildTimeout(t) PROVE DataInv'
  BY <1>19, QuietGoto DEF RebuildTimeout, Started, cache
<1>20. ASSUME NEW t \in Threads, NEW p \in Paths, ScanPage(t, p) PROVE DataInv'
  <2> DEFINE j == [job[t] EXCEPT !.path = p]
  <2>1. j.kind = job[t].kind /\ Becomes(t, "stat", j)
    BY <1>20 DEF ScanPage, Types, TypeThreads, Jobs
  <2> HIDE DEF j
  <2> QED
    BY <1>20, <1>age, <2>1, QuietBecomes DEF ScanPage, cache
<1>21. ASSUME NEW t \in Threads, CommitRebuild(t) PROVE DataInv'
  <2>1. /\ UNCHANGED <<disk, saves>> /\ flock = t
        /\ Becomes(t, "unmark", NoJob)
    BY <1>21 DEF CommitRebuild, LockInv, HoldLabels
  <2>2. db'.rows = tx.rows /\ \A q \in Paths : tx'.rows[q] = NoRow
    BY <1>21, Numbers DEF CommitRebuild, Types, TypeCache, Dbs
  <2>4. RowsInv'
    BY <2>1, <2>2 DEF DataInv, RowsInv, RowOf, Past
  <2>5. TxInv'
    BY <2>2 DEF TxInv
  <2>6. \A u \in Threads : pc[u] \in {"query", "rows"} => /\ NewRow(db', job[u].path, job[u].want)
                                                          /\ NewRow(tx', job[u].path, job[u].want)
    BY <2>2, DataTypes DEF DataInv, ReadInv, ReadOf, NewRow
  <2> QED
    BY <2>1, <2>4, <2>5, <2>6, Written
<1>22. ASSUME NEW t \in Threads, ClearMarker(t) PROVE DataInv'
  BY <1>22, QuietGoto DEF ClearMarker, Goto, Types, TypeThreads, cache
<1>23. ASSUME NEW t \in Threads, ClearLatch(t) PROVE DataInv'
  BY <1>23, QuietGoto DEF ClearLatch, Goto, Types, TypeThreads, cache
<1>24. ASSUME NEW t \in Threads, RebuildFails(t) PROVE DataInv'
  <2>1. db'.rows = db.rows /\ \A p \in Paths : tx'.rows[p] = NoRow
    BY <1>24, Numbers DEF RebuildFails, Types, TypeCache, Dbs, NoDb
  <2>2. TxStays /\ WorkStays
    BY <1>24, <2>1 DEF RebuildFails, Becomes, Goto, Types, TypeThreads, TxStays, WorkStays
  <2> QED
    BY <1>24, <1>age, <2>1, <2>2, Quiet DEF RebuildFails
<1>25. ASSUME NEW t \in Threads, EndBootstrap(t) PROVE DataInv'
  BY <1>25, QuietGoto DEF EndBootstrap, Goto, Types, TypeThreads, cache
<1>26. ASSUME NEW t \in Threads, PopDeferred(t) PROVE DataInv'
  BY <1>26, QuietGoto DEF PopDeferred, Goto, Types, TypeThreads, cache
<1>27. ASSUME NEW t \in Threads, NEW p \in Paths, Replay(t, p) PROVE DataInv'
  <2>1. job[t].kind # "scan"
    BY <1>27, <1>scan DEF Replay
  <2> QED
    BY <1>27, <1>age, <2>1, QuietBecomes DEF Replay, cache
<1>28. ASSUME NEW t \in Threads, EndRebuild(t) PROVE DataInv'
  BY <1>28, QuietGoto DEF EndRebuild, Started, cache
<1>29. ASSUME NEW t \in Threads, NEW p \in Paths, ReadHealth(t, p) PROVE DataInv'
  <2>1. job[t].kind # "scan"
    BY <1>29, <1>scan DEF ReadHealth, Free
  <2> QED
    BY <1>29, <1>age, <2>1, QuietBecomes DEF ReadHealth, cache
<1>30. ASSUME NEW t \in Threads, CheckFresh(t) PROVE DataInv'
  <2> DEFINE p == job[t].path
             j == [job[t] EXCEPT !.want = disk[p]]
  <2>1. UNCHANGED <<disk, saves, db, tx>> /\ pc[t] = "fresh" /\ p \in Paths /\ job[t].kind # "scan"
    BY <1>30, <1>scan, DataTypes DEF CheckFresh, cache
  <2>2. CASE Becomes(t, "idle", NoJob)
    BY <2>1, <2>2, <1>age, QuietBecomes
  <2>3. CASE Becomes(t, "query", j) /\ db.rows[p] # NoRow /\ db.rows[p].stamp = disk[p]
    <3>1. j.want = disk[p] /\ j.path = p
      BY DEF Types, TypeThreads, Jobs
    <3>2. \A u \in Threads : IF u = t THEN pc'[u] = "query" /\ job'[u] = j
                                      ELSE pc'[u] = pc[u] /\ job'[u] = job[u]
      BY <2>3 DEF Types, TypeThreads, Becomes, Goto
    <3> HIDE DEF j
    <3>3. RowsInv'
      BY <2>1 DEF DataInv, RowsInv, RowOf, Past
    <3>4. WorkInv'
      BY <2>1, <3>2 DEF DataInv, WorkInv, WorkOf, Past
    <3>5. TxInv'
      BY <2>1, <3>2 DEF DataInv, TxInv
    <3>6. disk[p] # 0 /\ disk[p] <= saves /\ db.rows[p].text >= disk[p]
      BY <2>1, <2>3, <1>old, DataTypes DEF RowOf
    <3>7. tx.rows[p] = NoRow \/ tx.rows[p].text >= disk[p]
      BY <2>1, <2>3, <1>old, DataTypes DEF RowOf, DataInv, TxInv
    <3>8. \A u \in Threads : pc'[u] \in {"parse", "commit"} /\ job'[u].path = p /\ job'[u].stamp # 0
                                 => job'[u].stamp >= disk[p]
      BY <2>1, <2>3, <3>2 DEF DataInv, WorkInv, WorkOf
    <3>9. ReadOf(t)'
      BY <2>1, <3>1, <3>2, <3>6, <3>7, <3>8, DataTypes DEF ReadOf, NewRow
    <3>10. \A r \in Threads : r # t /\ pc'[r] \in {"query", "rows"} => ReadOf(r)'
      BY <2>1, <3>2 DEF DataInv, ReadInv, ReadOf, NewRow
    <3>11. \A r \in Threads : pc'[r] = "served" /\ job'[r].from = job'[r].path => job'[r].text >= job'[r].want
      BY <3>2 DEF DataInv, ReadInv
    <3>12. ReadInv'
      BY <3>9, <3>10, <3>11 DEF ReadInv
    <3> QED
      BY <3>3, <3>4, <3>5, <3>12 DEF DataInv
  <2> QED
    BY <1>30, <2>2, <2>3 DEF CheckFresh
<1>31. ASSUME NEW t \in Threads, Querying(t) PROVE DataInv'
  <2>1. /\ UNCHANGED <<disk, saves, db, tx>> /\ pc[t] \in {"query", "rows"}
        /\ job[t].path \in Paths /\ job[t].kind # "scan"
    BY <1>31, <1>scan, QueryJob
  <2>2. PICK label, j : QueryTo(t, label, j)
    BY <1>31, QueryJob
  <2>3. \A u \in Threads : IF u = t THEN pc'[u] = label /\ job'[u] = j
                                    ELSE pc'[u] = pc[u] /\ job'[u] = job[u]
    BY <2>2 DEF QueryTo, Types, TypeThreads, Becomes, Goto
  <2>4. label \in {"rows", "served", "idle"} /\ j.kind # "scan"
    BY <2>1, <2>2, Numbers DEF QueryTo
  <2>5. RowsInv'
    BY <2>1 DEF DataInv, RowsInv, RowOf, Past
  <2>6. WorkInv'
    BY <2>1, <2>3, <2>4 DEF DataInv, WorkInv, WorkOf, Past
  <2>7. TxInv'
    BY <2>1, <2>3 DEF DataInv, TxInv
  <2>8. \A r \in Threads : pc'[r] \in {"query", "rows"} => pc[r] \in {"query", "rows"} /\ job'[r] = job[r]
    BY <2>1, <2>2, <2>3, <2>4 DEF QueryTo
  <2>9. \A u \in Threads : pc'[u] \in {"parse", "commit"} => pc'[u] = pc[u] /\ job'[u] = job[u]
    BY <2>3, <2>4
  <2>10. \A r \in Threads : pc'[r] \in {"query", "rows"} => ReadOf(r)'
    BY <2>1, <2>8, <2>9 DEF DataInv, ReadInv, ReadOf, NewRow
  <2>11. label = "served" /\ j.from = j.path => j.text >= j.want
    BY <2>1, <2>2, <2>4, Numbers DEF QueryTo, DataInv, ReadInv, ReadOf, NewRow
  <2>12. \A r \in Threads : pc'[r] = "served" /\ job'[r].from = job'[r].path => job'[r].text >= job'[r].want
    BY <2>3, <2>11 DEF DataInv, ReadInv
  <2>13. ReadInv'
    BY <2>10, <2>12 DEF ReadInv
  <2> QED
    BY <2>5, <2>6, <2>7, <2>13 DEF DataInv
<1>35. ASSUME NEW t \in Threads, StartWatcher(t) \/ OpenFails(t) PROVE DataInv'
  <2>1. CASE StartWatcher(t)
    BY <2>1, QuietGoto DEF StartWatcher, Goto, Types, TypeThreads, cache
  <2>2. CASE OpenFails(t)
    BY <2>2, QuietGoto DEF OpenFails, Started, cache
  <2> QED
    BY <1>35, <2>1, <2>2
<1>32. ASSUME NEW t \in Threads, Answer(t) PROVE DataInv'
  <2>1. job[t].kind # "scan"
    BY <1>32, <1>scan DEF Answer
  <2> QED
    BY <1>32, <1>age, <2>1, QuietBecomes DEF Answer, cache
<1>33. ASSUME NEW q \in Procs, Crash(q) PROVE DataInv'
  <2>1. \A u \in Threads : \/ pc'[u] = "down"
                           \/ u \notin Of(q) /\ pc'[u] = pc[u] /\ job'[u] = job[u]
    BY <1>33 DEF Crash
  <2>2. WorkStays
    BY <2>1 DEF WorkStays
  <2>3. CASE \E u \in Of(q) : job[u].kind = "scan"
    <3>1. tx' = NoDb
      BY <1>33, <2>3 DEF Crash
    <3>2. TxStays
      BY <3>1, Numbers DEF TxStays
    <3> QED
      BY <1>33, <1>age, <2>2, <3>2, Quiet DEF Crash
  <2>4. CASE \A u \in Of(q) : job[u].kind # "scan"
    <3>1. tx' = tx
      BY <1>33, <2>4 DEF Crash
    <3>2. \A u \in Threads : job'[u] = IF u \in Of(q) THEN NoJob ELSE job[u]
      BY <1>33, Zenon DEF Crash
    <3>3. \A u \in Threads : job[u].kind = "scan" => job'[u].kind = "scan"
      BY <2>4, <3>2
    <3>4. TxStays
      BY <3>1, <3>3 DEF TxStays
    <3> QED
      BY <1>33, <1>age, <2>2, <3>4, Quiet DEF Crash
  <2> QED
    BY <2>3, <2>4
<1>34. CASE UNCHANGED vars
  BY <1>34, QuietGoto DEF vars, cache
<1> QED
  BY <1>1, <1>2, <1>3, <1>4, <1>5, <1>6, <1>7, <1>8, <1>9, <1>10, <1>11, <1>12, <1>13, <1>14, <1>15, <1>16, <1>17, <1>18, <1>19, <1>20, <1>21, <1>22, <1>23, <1>24, <1>25, <1>26, <1>27, <1>28, <1>29, <1>30, <1>31, <1>32, <1>33, <1>34, <1>35
  DEF Next, Work, Page, PageOf, Querying

\* The invariant holds in every reachable state.
THEOREM Invariant == Spec => []IInv
<1>1. IInv /\ [Next]_vars => IInv'
  <2> SUFFICES ASSUME IInv, [Next]_vars PROVE IInv'
    OBVIOUS
  <2>1. Types'
    BY TypesStep DEF IInv
  <2>2. LockInv'
    BY LockStep DEF IInv
  <2>3. DataInv'
    BY <2>1, DataStep DEF IInv, DataInv
  <2> QED
    BY <2>1, <2>2, <2>3 DEF IInv, DataInv
<1> QED
  BY <1>1, InitInv, PTL DEF Spec

\* An excerpt answered from the cache with rows of the page the reader named is
\* no older than that page was when ensure_shadow_page_fresh compared its stamp,
\* however syncs, rebuilds and edits come between the comparison and the two
\* queries, with any number of pages among which the block is looked for.
THEOREM ReadsAreCurrent == Spec => []ServedCurrent
<1>1. IInv => ServedCurrent
  BY DEF IInv, ReadInv, ServedCurrent
<1> QED
  BY <1>1, Invariant, PTL

-----------------------------------------------------------------------------
(* Counts and parked pages *)

\* A parked page has no row, and a generation indexed no more pages than there were.
Whole(d) == /\ d.parked \subseteq {p \in Paths : d.rows[p] = NoRow}
            /\ d.source <= Cardinality(Paths) /\ d.indexed <= d.source

\* The pages a rebuild has still to index: those left, and the one at hand.
Left(t) == Cardinality(todo[t]) + IF pc[t] = "scan" THEN 0 ELSE 1
CountInv == /\ Whole(db) /\ Whole(tx)
            /\ \A t \in Threads : job[t].kind = "scan" => tx.indexed + Left(t) <= tx.source

\* Putting a page into a generation keeps its counts whole.
LEMMA UpsertWhole ==
    ASSUME NEW d \in Dbs, Whole(d), NEW p \in Paths, NEW stamp \in Saves, NEW text \in Saves
    PROVE  Whole(Upsert(d, p, stamp, text))
<1> DEFINE e == Upsert(d, p, stamp, text)
<1>1. /\ e.rows = [d.rows EXCEPT ![p] = NewRowOf(stamp, text)]
      /\ e.indexed = d.indexed
  BY UpsertRows
<1>2. /\ e.parked = IF stamp # 0 /\ text = 0 THEN d.parked \cup {p} ELSE d.parked \ {p}
      /\ e.source = d.source
  BY DEF Upsert, Dbs
<1>3. d.rows \in [Paths -> RowType] /\ d.parked \in SUBSET Paths
  BY DEF Dbs
<1> HIDE DEF e
<1>4. e.parked \subseteq {r \in Paths : e.rows[r] = NoRow}
  BY <1>1, <1>2, <1>3 DEF Whole, NewRowOf
<1> QED
  BY <1>1, <1>2, <1>4 DEF Whole, e

\* There is one rebuild at a time, and it has pages to count.
LEMMA OneScan ==
    ASSUME Types, LockInv
    PROVE  /\ \A t, u \in Threads : job[t].kind = "scan" /\ job[u].kind = "scan" => t = u
           /\ \A t \in Threads : IsFiniteSet(todo[t]) /\ Cardinality(todo[t]) \in Nat
           /\ tx.indexed \in Nat /\ tx.source \in Nat
<1>1. ASSUME NEW t \in Threads
      PROVE  IsFiniteSet(todo[t]) /\ Cardinality(todo[t]) \in Nat
  <2>1. todo[t] \in SUBSET Paths
    BY DEF Types, TypeSets
  <2> QED
    BY <2>1, ShadowAssumption, FS_Subset, FS_CardinalityType
<1> QED
  BY <1>1 DEF LockInv, Types, TypeCache, Dbs

\* A step that opens no transaction and brings no rebuild back to its list.
LEMMA CountStays ==
    ASSUME CountInv, UNCHANGED tx, Whole(db'),
           \A u \in Threads : job'[u].kind = "scan" =>
               /\ job[u].kind = "scan" /\ todo'[u] = todo[u]
               /\ (pc'[u] = "scan") = (pc[u] = "scan")
    PROVE  CountInv'
<1>1. ASSUME NEW u \in Threads, job'[u].kind = "scan"
      PROVE  tx'.indexed + Left(u)' <= tx'.source
  BY <1>1 DEF CountInv, Left
<1> QED
  BY <1>1 DEF CountInv, Whole

\* A step of one thread that does not.
LEMMA CountBecomes ==
    ASSUME Types, CountInv, NEW t \in Threads, NEW label, NEW j, Becomes(t, label, j),
           UNCHANGED <<tx, todo>>, Whole(db'),
           j.kind = "scan" => job[t].kind = "scan" /\ (label = "scan") = (pc[t] = "scan")
    PROVE  CountInv'
<1>1. \A u \in Threads : /\ job'[u] = IF u = t THEN j ELSE job[u]
                         /\ pc'[u] = IF u = t THEN label ELSE pc[u]
  BY DEF Becomes, Goto, Types, TypeThreads
<1> QED
  BY <1>1, CountStays

\* The same for one that keeps its job, or gives it up.
LEMMA CountGoto ==
    ASSUME Types, CountInv, NEW t \in Threads, NEW label,
           Becomes(t, label, NoJob) \/ (Goto(t, label) /\ UNCHANGED job),
           UNCHANGED <<tx, todo>>, Whole(db'), job[t].kind # "scan" \/ (label = "scan") = (pc[t] = "scan")
    PROVE  CountInv'
<1>1. CASE Becomes(t, label, NoJob)
  BY <1>1, Numbers, CountBecomes
<1>2. CASE Goto(t, label) /\ UNCHANGED job
  BY <1>2, GotoBecomes, CountBecomes DEF Types
<1> QED
  BY <1>1, <1>2

\* And for the end of a start-up.
LEMMA CountStarted ==
    ASSUME Types, LockInv, CountInv, NEW t \in Threads, Started(t), job[t].kind # "scan",
           UNCHANGED <<db, tx, todo, job>>
    PROVE  CountInv'
<1>1. ASSUME NEW u \in Threads, job'[u].kind = "scan"
      PROVE  pc'[u] = pc[u]
  <2>1. u # t /\ pc[u] # "down"
    BY <1>1 DEF LockInv
  <2> QED
    BY <2>1 DEF Started
<1> QED
  BY <1>1, CountStays DEF CountInv

\* The rebuild opens its transaction, takes a page, indexes it and commits.
LEMMA RebuildCount ==
    ASSUME Types, LockInv, CountInv, NEW t \in Threads,
           \/ BeginRebuild(t) \/ CommitRebuild(t) \/ RebuildFails(t)
           \/ CommitPage(t) \/ \E p \in Paths : ScanPage(t, p)
    PROVE  CountInv'
<1>0. /\ \A u, v \in Threads : job[u].kind = "scan" /\ job[v].kind = "scan" => u = v
      /\ \A u \in Threads : IsFiniteSet(todo[u]) /\ Cardinality(todo[u]) \in Nat
      /\ tx.indexed \in Nat /\ tx.source \in Nat
      /\ \A S \in SUBSET Paths : Cardinality(S) \in Nat
      /\ \A u \in Threads : job[u] \in Jobs /\ pc[u] \in Labels /\ todo[u] \in SUBSET Paths
      /\ db \in Dbs /\ tx \in Dbs
  BY OneScan, Numbers DEF Types, TypeCache, TypeThreads, TypeSets
<1>1. Whole(db) /\ Whole(tx)
  BY DEF CountInv
<1>2. Whole(NoDb)
  BY Numbers DEF Whole, NoDb
<1>3. ASSUME NEW label, NEW j, Becomes(t, label, j)
      PROVE  \A u \in Threads : /\ job'[u] = IF u = t THEN j ELSE job[u]
                                /\ pc'[u] = IF u = t THEN label ELSE pc[u]
  BY <1>3 DEF Becomes, Goto, Types, TypeThreads
<1>4. CASE BeginRebuild(t)
  <2> DEFINE S == {p \in Paths : disk[p] # 0}
  <2>1. /\ \A u \in Threads : /\ job'[u] = IF u = t THEN [NoJob EXCEPT !.kind = "scan"] ELSE job[u]
                              /\ pc'[u] = IF u = t THEN "scan" ELSE pc[u]
        /\ todo'[t] = S /\ db' = db
    BY <1>3, <1>4 DEF BeginRebuild, Types, TypeSets
  <2>2. tx'.indexed = 0 /\ tx'.source = Cardinality(S) /\ tx'.rows = NoDb.rows /\ tx'.parked = {}
    BY <1>4 DEF BeginRebuild, NoDb
  <2>3. Cardinality(S) \in Nat /\ Cardinality(S) <= Cardinality(Paths)
    BY <1>0, ShadowAssumption, FS_Subset
  <2>4. ASSUME NEW u \in Threads, job'[u].kind = "scan"
        PROVE  u = t
    <3>1. flock = None
      BY <1>4 DEF BeginRebuild
    <3> QED BY <2>1, <2>4, <3>1, ShadowAssumption DEF LockInv
  <2>5. tx'.indexed + Left(t)' <= tx'.source
    BY <2>1, <2>2, <2>3 DEF Left
  <2>6. Whole(tx')
    BY <2>2, <2>3 DEF Whole
  <2> QED BY <1>1, <2>1, <2>4, <2>5, <2>6 DEF CountInv
<1>5. CASE CommitRebuild(t)
  <2>1. /\ \A u \in Threads : job'[u] = IF u = t THEN NoJob ELSE job[u]
        /\ db' = [tx EXCEPT !.completed = TRUE] /\ tx' = NoDb
    BY <1>3, <1>5 DEF CommitRebuild
  <2>2. job[t].kind = "scan"
    BY <1>5 DEF CommitRebuild, LockInv
  <2>3. \A u \in Threads : job'[u].kind # "scan"
    BY <1>0, <2>1, <2>2, Numbers
  <2>4. Whole(db')
    <3>1. /\ db'.rows = tx.rows /\ db'.parked = tx.parked
          /\ db'.source = tx.source /\ db'.indexed = tx.indexed
      BY <1>0, <2>1 DEF Dbs
    <3> QED BY <1>1, <3>1 DEF Whole
  <2> QED BY <1>2, <2>1, <2>3, <2>4 DEF CountInv
<1>6. CASE RebuildFails(t)
  <2>1. /\ \A u \in Threads : job'[u] = IF u = t THEN NoJob ELSE job[u]
        /\ db' = [db EXCEPT !.error = TRUE] /\ tx' = NoDb /\ job[t].kind = "scan"
    BY <1>3, <1>6 DEF RebuildFails
  <2>2. \A u \in Threads : job'[u].kind # "scan"
    BY <1>0, <2>1, Numbers
  <2>3. Whole(db')
    <3>1. /\ db'.rows = db.rows /\ db'.parked = db.parked
          /\ db'.source = db.source /\ db'.indexed = db.indexed
      BY <1>0, <2>1 DEF Dbs
    <3> QED BY <1>1, <3>1 DEF Whole
  <2> QED BY <1>2, <2>1, <2>2, <2>3 DEF CountInv
<1>7. CASE CommitPage(t)
  <2>1. /\ job[t].path \in Paths /\ job[t].stamp \in Saves /\ job[t].text \in Saves
        /\ pc[t] = "commit"
    BY <1>0, <1>7 DEF CommitPage, Types, OnPage, PageLabels, Jobs
  <2>2. CASE job[t].kind # "scan"
    <3>1. Whole(db') /\ UNCHANGED <<tx, todo>>
      BY <1>0, <1>1, <1>7, <2>1, <2>2, UpsertWhole DEF CommitPage
    <3>2. JobAfter(t) = NoJob /\ Becomes(t, Resume(t), JobAfter(t))
      BY <1>7, <2>2 DEF CommitPage, JobAfter
    <3> QED BY <2>2, <3>1, <3>2, CountGoto
  <2>3. CASE job[t].kind = "scan"
    <3> DEFINE d == Upsert(tx, job[t].path, job[t].stamp, job[t].text)
    <3>0. tx \in Dbs /\ Whole(tx)
      BY <1>0, <1>1
    <3>1. d \in Dbs /\ Whole(d)
      BY <2>1, <3>0, UpsertRows, UpsertWhole
    <3>2. d.source = tx.source /\ d.indexed = tx.indexed
      BY <3>0 DEF Upsert, Dbs
    <3>3. /\ tx' = IF d.rows[job[t].path] # NoRow THEN [d EXCEPT !.indexed = d.indexed + 1] ELSE d
          /\ db' = db /\ UNCHANGED todo
          /\ Becomes(t, "scan", [NoJob EXCEPT !.kind = "scan"])
      BY <1>7, <2>3 DEF CommitPage, JobAfter, Resume
    <3> HIDE DEF d
    <3>4. /\ tx'.rows = d.rows /\ tx'.parked = d.parked /\ tx'.source = tx.source
          /\ tx'.indexed \in {tx.indexed, tx.indexed + 1}
      BY <3>1, <3>2, <3>3 DEF Dbs
    <3>5. tx.indexed + (Cardinality(todo[t]) + 1) <= tx.source
      BY <2>1, <2>3 DEF CountInv, Left
    <3>6. Whole(tx')
      BY <1>0, <3>1, <3>2, <3>4, <3>5 DEF Whole
    <3>7. ASSUME NEW u \in Threads, job'[u].kind = "scan"
          PROVE  tx'.indexed + Left(u)' <= tx'.source
      <4>1. u = t /\ pc'[t] = "scan"
        BY <1>0, <1>3, <2>3, <3>3, <3>7
      <4> QED BY <1>0, <3>3, <3>4, <3>5, <4>1 DEF Left
    <3> QED BY <1>1, <3>3, <3>6, <3>7 DEF CountInv
  <2> QED BY <2>2, <2>3
<1>8. ASSUME NEW p \in Paths, ScanPage(t, p)
      PROVE  CountInv'
  <2> DEFINE j == [job[t] EXCEPT !.path = p]
  <2>1. job[t].kind = "scan" /\ pc[t] = "scan" /\ p \in todo[t]
    BY <1>8 DEF ScanPage, LockInv
  <2>2. /\ Becomes(t, "stat", j) /\ UNCHANGED <<db, tx>> /\ todo'[t] = todo[t] \ {p}
    BY <1>8 DEF ScanPage, cache, Types, TypeSets
  <2>3. Cardinality(todo[t] \ {p}) = Cardinality(todo[t]) - 1
    BY <1>0, <2>1, FS_RemoveElement
  <2>4. tx.indexed + Cardinality(todo[t]) <= tx.source
    BY <1>0, <2>1 DEF CountInv, Left
  <2> HIDE DEF j
  <2>5. ASSUME NEW u \in Threads, job'[u].kind = "scan"
        PROVE  tx'.indexed + Left(u)' <= tx'.source
    <3>1. u = t /\ pc'[t] = "stat"
      BY <1>0, <1>3, <2>1, <2>2, <2>5
    <3>2. Left(u)' = Cardinality(todo[t])
      <4>1. Left(u)' = Cardinality(todo[t]) - 1 + 1
        BY <2>2, <2>3, <3>1 DEF Left
      <4> QED BY <1>0, <4>1
    <3> QED BY <2>2, <2>4, <3>2
  <2> QED BY <1>1, <2>2, <2>5 DEF CountInv
<1> QED BY <1>4, <1>5, <1>6, <1>7, <1>8

\* Every step keeps the counts.
LEMMA CountStep == Types /\ LockInv /\ CountInv /\ [Next]_vars => CountInv'
<1> SUFFICES ASSUME Types, LockInv, CountInv, [Next]_vars PROVE CountInv'
  OBVIOUS
<1>whole. Whole(db) /\ Whole(tx)
  BY DEF CountInv
<1>held. \A t \in Threads : /\ job[t].kind = "scan" => pc[t] \in {"scan", "stat", "parse", "commit"}
                            /\ job[t].kind = "replay" => pc[t] \in {"stat", "parse", "commit", "latch", "marker", "meta"}
                            /\ pc[t] = "scan" => job[t].kind = "scan"
  BY DEF LockInv
<1>same. (UNCHANGED <<db, tx, pc, job, todo>>) => CountInv'
  BY <1>whole, CountStays
<1>1. ASSUME NEW p \in Paths, Page(p) PROVE CountInv'
  BY <1>1, <1>same DEF Page, HumanSave, HumanDelete, cache
<1>2. ASSUME NEW t \in Threads, NEW p \in Paths, RobotWrite(t, p) \/ Deliver(t, p) \/ ReadHealth(t, p)
      PROVE  CountInv'
  <2>1. /\ Sync(p, saves + 1).kind = "sync" /\ Sync(p, disk[p]).kind = "sync"
        /\ [Sync(p, 0) EXCEPT !.kind = "delete"].kind = "delete"
        /\ [NoJob EXCEPT !.kind = "read", !.path = p].kind = "read"
    BY DEF Sync, NoJob
  <2>2. PICK label, j : Becomes(t, label, j) /\ j.kind # "scan"
    <3>1. CASE RobotWrite(t, p) \/ ReadHealth(t, p)
      BY <2>1, <3>1 DEF RobotWrite, ReadHealth
    <3>2. CASE Deliver(t, p)
      <4>1. \/ Becomes(t, "check", [Sync(p, 0) EXCEPT !.kind = "delete"])
            \/ Becomes(t, "check", Sync(p, disk[p]))
        BY <3>2, Zenon DEF Deliver
      <4> QED BY <2>1, <4>1
    <3> QED BY <1>2, <3>1, <3>2
  <2>3. UNCHANGED <<db, tx, todo>>
    BY <1>2 DEF RobotWrite, Deliver, ReadHealth, cache
  <2> QED BY <1>whole, <2>2, <2>3, CountBecomes
<1>3. ASSUME NEW t \in Threads,
             \/ Check(t) \/ Defer(t) \/ TakeLock(t) \/ LockTimeout(t) \/ RaiseLatch(t)
             \/ WriteMarker(t) \/ ClearMarker(t) \/ ClearLatch(t) \/ EndBootstrap(t) \/ Answer(t)
             \/ StartWatcher(t)
      PROVE  CountInv'
  <2>1. PICK label : Becomes(t, label, NoJob) \/ (Goto(t, label) /\ UNCHANGED job)
    BY <1>3 DEF Check, Defer, TakeLock, LockTimeout, RaiseLatch, WriteMarker, ClearMarker, ClearLatch,
                EndBootstrap, Answer, StartWatcher
  <2>2. UNCHANGED <<db, tx, todo>>
    BY <1>3 DEF Check, Defer, TakeLock, LockTimeout, RaiseLatch, WriteMarker, ClearMarker, ClearLatch,
                EndBootstrap, Answer, StartWatcher, cache
  <2>3. job[t].kind # "scan"
    BY <1>3, <1>held DEF Check, Defer, TakeLock, LockTimeout, RaiseLatch, WriteMarker, ClearMarker,
                         ClearLatch, EndBootstrap, Answer, StartWatcher
  <2> QED BY <1>whole, <2>1, <2>2, <2>3, CountGoto
<1>4. ASSUME NEW t \in Threads, Stat(t) \/ Parse(t) PROVE CountInv'
  <2>1. /\ \A x : [job[t] EXCEPT !.stamp = x, !.text = 0].kind = job[t].kind
        /\ \A x : [job[t] EXCEPT !.text = x].kind = job[t].kind
    BY DEF Types, TypeThreads, Jobs
  <2>2. PICK label, j : label \in {"parse", "commit"} /\ Becomes(t, label, j) /\ j.kind = job[t].kind
    BY <1>4, <2>1 DEF Stat, Parse
  <2>3. UNCHANGED <<db, tx, todo>> /\ pc[t] # "scan"
    BY <1>4 DEF Stat, Parse, cache
  <2> QED BY <1>whole, <2>2, <2>3, CountBecomes
<1>5. ASSUME NEW t \in Threads, SyncFails(t) PROVE CountInv'
  BY <1>5, <1>whole, CountGoto DEF SyncFails, cache
<1>6. ASSUME NEW t \in Threads, DeleteRow(t) \/ RecordError(t) PROVE CountInv'
  <2>1. job[t].kind # "scan" /\ job[t] \in Jobs /\ db \in Dbs /\ UNCHANGED <<tx, todo>>
    BY <1>6, <1>held DEF DeleteRow, RecordError, Types, TypeThreads, TypeCache
  <2>2. Whole(db')
    <3>1. CASE DeleteRow(t)
      <4>1. job[t].path \in Paths
        BY <3>1 DEF DeleteRow, Types, OnPage, PageLabels
      <4> QED BY <1>whole, <2>1, <3>1, <4>1, Numbers, UpsertWhole DEF DeleteRow
    <3>2. CASE RecordError(t)
      <4>1. db' = db \/ db' = [db EXCEPT !.error = TRUE]
        BY <3>2 DEF RecordError
      <4>2. /\ db'.rows = db.rows /\ db'.parked = db.parked
            /\ db'.source = db.source /\ db'.indexed = db.indexed
        BY <2>1, <4>1 DEF Dbs
      <4> QED BY <1>whole, <4>2 DEF Whole
    <3> QED BY <1>6, <3>1, <3>2
  <2>3. PICK label, j : Becomes(t, label, j) /\ j.kind # "scan"
    <3>1. [job[t] EXCEPT !.again = FALSE].kind # "scan"
      BY <2>1 DEF Jobs
    <3> QED BY <1>6, <3>1, Numbers DEF DeleteRow, RecordError
  <2> QED BY <2>1, <2>2, <2>3, CountBecomes
<1>7. ASSUME NEW t \in Threads, Prepare(t) \/ RebuildTimeout(t) \/ OpenFails(t) \/ EndRebuild(t)
      PROVE  CountInv'
  <2>1. job[t].kind # "scan"
    BY <1>7, <1>held DEF Prepare, Free, RebuildTimeout, OpenFails, EndRebuild
  <2>2. UNCHANGED <<db, tx, todo, job>> /\ (Goto(t, "rebuild") \/ Started(t))
    BY <1>7 DEF Prepare, RebuildTimeout, OpenFails, EndRebuild, cache
  <2> QED BY <1>whole, <2>1, <2>2, CountGoto, CountStarted
<1>8. ASSUME NEW t \in Threads, PopDeferred(t) \/ \E p \in Paths : Replay(t, p) PROVE CountInv'
  <2>1. job[t].kind # "scan" /\ \A p, w : [NoJob EXCEPT !.kind = "replay", !.path = p, !.want = w].kind = "replay"
    BY <1>8, <1>held DEF PopDeferred, Replay, NoJob
  <2>2. \A u \in Threads \ {t} : job'[u] = job[u] /\ pc'[u] = pc[u] /\ todo'[u] = todo[u]
    BY <1>8 DEF PopDeferred, Replay, Becomes, Goto, Types, TypeThreads, TypeSets
  <2>3. job'[t].kind # "scan"
    <3>1. job' = job \/ \E p, w : job' = [job EXCEPT ![t] =
                                            [NoJob EXCEPT !.kind = "replay", !.path = p, !.want = w]]
      BY <1>8 DEF PopDeferred, Replay, Becomes
    <3>2. job \in [Threads -> Jobs]
      BY DEF Types, TypeThreads
    <3>3. CASE job' = job
      BY <2>1, <3>3
    <3>4. ASSUME NEW j, j.kind # "scan", job' = [job EXCEPT ![t] = j] PROVE job'[t].kind # "scan"
      BY <3>2, <3>4
    <3> QED BY <2>1, <3>1, <3>3, <3>4
  <2>4. UNCHANGED <<db, tx>>
    BY <1>8 DEF PopDeferred, Replay, cache
  <2> QED BY <1>whole, <2>2, <2>3, <2>4, CountStays
<1>9. ASSUME NEW t \in Threads, CheckFresh(t) \/ Querying(t) PROVE CountInv'
  <2>1. job[t].kind # "scan" /\ UNCHANGED <<db, tx, todo>>
    BY <1>9, <1>held, QueryJob DEF CheckFresh, cache
  <2>2. \A x : [job[t] EXCEPT !.want = x].kind = job[t].kind
    BY DEF Types, TypeThreads, Jobs
  <2>3. PICK label, j : Becomes(t, label, j) /\ j.kind # "scan"
    <3>1. CASE CheckFresh(t)
      <4>1. \/ Becomes(t, "query", [job[t] EXCEPT !.want = disk[job[t].path]])
            \/ Becomes(t, "idle", NoJob)
        BY <3>1 DEF CheckFresh
      <4> QED BY <2>1, <2>2, <4>1, Numbers
    <3>2. CASE Querying(t)
      BY <2>1, <3>2, QueryJob, Numbers DEF QueryTo
    <3> QED BY <1>9, <3>1, <3>2
  <2> QED BY <1>whole, <2>1, <2>3, CountBecomes
<1>10. ASSUME NEW q \in Procs, Crash(q) PROVE CountInv'
  <2>1. \A u \in Threads : /\ job'[u] = IF u \in Of(q) THEN NoJob ELSE job[u]
                           /\ pc'[u] = IF u \in Of(q) THEN "down" ELSE pc[u]
                           /\ todo'[u] = IF u \in Of(q) THEN {} ELSE todo[u]
    BY <1>10 DEF Crash
  <2>2. db' = db /\ tx' = IF \E t \in Of(q) : job[t].kind = "scan" THEN NoDb ELSE tx
    BY <1>10 DEF Crash
  <2>3. Whole(NoDb)
    BY Numbers DEF Whole, NoDb
  <2>4. ASSUME NEW u \in Threads, job'[u].kind = "scan"
        PROVE  tx'.indexed + Left(u)' <= tx'.source
    <3>1. u \notin Of(q) /\ job[u].kind = "scan"
      BY <2>1, <2>4, Numbers
    <3>2. \A t \in Of(q) : job[t].kind # "scan"
      BY <3>1, OneScan DEF Of
    <3> QED BY <2>1, <2>2, <3>1, <3>2 DEF CountInv, Left
  <2> QED BY <1>whole, <2>2, <2>3, <2>4 DEF CountInv
<1>11. CASE UNCHANGED vars
  BY <1>11, <1>same DEF vars
<1> QED
  BY <1>1, <1>2, <1>3, <1>4, <1>5, <1>6, <1>7, <1>8, <1>9, <1>10, <1>11, RebuildCount DEF Next, Work, PageOf, Querying

\* What the steps write into the fields that no other fact is about.
Flags == /\ marker \in BOOLEAN /\ calm \in BOOLEAN
         /\ latch \in [Procs -> BOOLEAN] /\ booting \in [Procs -> BOOLEAN]
         /\ up \in [Procs -> BOOLEAN] /\ flock \in Threads \cup {None}
         /\ event \in [Paths -> {"none", "modified", "deleted"}]
         /\ missed \in [Procs -> [Paths -> Saves]]

\* They keep their types.
LEMMA FlagsStep == Types /\ Flags /\ [Next]_vars => Flags'
<1> SUFFICES ASSUME Types, Flags, [Next]_vars PROVE Flags'
  OBVIOUS
<1>0. ProcOf \in [Threads -> Procs]
  BY ShadowAssumption
<1>1. ASSUME NEW p \in Paths, Page(p) PROVE Flags'
  <2>1. event' \in [Paths -> {"none", "modified", "deleted"}]
    BY <1>1 DEF Page, HumanSave, HumanDelete, Notify, Flags
  <2>2. calm' \in BOOLEAN
    BY <1>1 DEF Page, HumanSave, HumanDelete, Flags, Watching
  <2> QED BY <1>1, <2>1, <2>2 DEF Page, HumanSave, HumanDelete, Flags, cache, process
<1>2. ASSUME NEW t \in Threads, NEW p \in Paths, PageOf(t, p) PROVE Flags'
  <2>1. event' \in [Paths -> {"none", "modified", "deleted"}]
    BY <1>2 DEF PageOf, RobotWrite, Deliver, ScanPage, Replay, ReadHealth, Notify, Flags
  <2> QED BY <1>2, <2>1 DEF PageOf, RobotWrite, Deliver, ScanPage, Replay, ReadHealth, Flags, cache, process
<1>3. ASSUME NEW t \in Threads, Prepare(t) \/ RebuildTimeout(t) \/ OpenFails(t) \/ EndRebuild(t) PROVE Flags'
  BY <1>0, <1>3 DEF Prepare, RebuildTimeout, OpenFails, EndRebuild, Started, Flags, cache
<1>4. ASSUME NEW t \in Threads, RaiseLatch(t) PROVE Flags'
  <2>1. job[t].path \in Paths /\ job[t].want \in Saves /\ ProcOf[t] \in Procs
    BY <1>0, <1>4 DEF RaiseLatch, Types, TypeThreads, OnPage, PageLabels, Jobs
  <2> DEFINE q == ProcOf[t]
             p == job[t].path
             x == IF job[t].want > missed[q][p] THEN job[t].want ELSE missed[q][p]
  <2>2. missed[q] \in [Paths -> Saves] /\ x \in Saves
    BY <2>1 DEF Flags
  <2>3. missed' = [missed EXCEPT ![q] = [missed[q] EXCEPT ![p] = x]]
    BY <1>4 DEF RaiseLatch
  <2> HIDE DEF q, p, x
  <2>4. missed' \in [Procs -> [Paths -> Saves]]
    BY <2>2, <2>3 DEF Flags
  <2> QED BY <1>0, <1>4, <2>4 DEF RaiseLatch, Flags, cache
<1>5. ASSUME NEW t \in Threads,
             \/ Check(t) \/ Defer(t) \/ TakeLock(t) \/ LockTimeout(t) \/ Stat(t) \/ Parse(t)
             \/ SyncFails(t) \/ WriteMarker(t) \/ RecordError(t)
      PROVE  Flags'
  BY <1>0, <1>5 DEF Check, Defer, TakeLock, LockTimeout, Stat, Parse, SyncFails, WriteMarker,
                    RecordError, Flags, cache, process, LockAfter
<1>6. ASSUME NEW t \in Threads, CommitPage(t) \/ DeleteRow(t) PROVE Flags'
  BY <1>6 DEF CommitPage, DeleteRow, Flags, process, LockAfter
<1>7. ASSUME NEW t \in Threads,
             \/ BeginRebuild(t) \/ CommitRebuild(t) \/ RebuildFails(t) \/ ClearMarker(t)
             \/ ClearLatch(t) \/ EndBootstrap(t) \/ PopDeferred(t)
             \/ CheckFresh(t) \/ FindAnchor(t) \/ SelectRows(t) \/ FallBack(t) \/ Answer(t) \/ StartWatcher(t)
      PROVE  Flags'
  BY <1>0, <1>7 DEF BeginRebuild, CommitRebuild, RebuildFails, ClearMarker, ClearLatch, EndBootstrap,
                    PopDeferred, CheckFresh, FindAnchor, SelectRows, FallBack, Answer, StartWatcher,
                    Flags, cache, process
<1>8. ASSUME NEW q \in Procs, Crash(q) PROVE Flags'
  <2>1. [p \in Paths |-> 0] \in [Paths -> Saves]
    BY Numbers
  <2>2. missed' \in [Procs -> [Paths -> Saves]]
    BY <1>8, <2>1 DEF Crash, Flags
  <2> QED BY <1>8, <2>2 DEF Crash, Flags
<1>9. CASE UNCHANGED vars
  BY <1>9 DEF vars, Flags, cache, process
<1> QED
  BY <1>1, <1>2, <1>3, <1>4, <1>5, <1>6, <1>7, <1>8, <1>9 DEF Next, Work

\* The types, and: a parked page has no row, and the counts that health compares never say that
\* more pages were indexed than there were, in the committed cache and in the open transaction
\* of a rebuild (rebuild_shadow_index, sync_page_into_connection).
THEOREM TypeCorrect == Spec => []TypeOK
<1>1. Init => CountInv /\ Flags
  <2> SUFFICES ASSUME Init PROVE CountInv /\ Flags
    OBVIOUS
  <2>1. Whole(NoDb)
    BY Numbers DEF Whole, NoDb
  <2>2. CountInv
    BY <2>1, Numbers DEF Init, CountInv
  <2>3. [p \in Paths |-> 0] \in [Paths -> Saves]
    BY Numbers
  <2>4. Flags
    BY <2>3 DEF Init, Flags
  <2> QED BY <2>2, <2>4
<1>2. Types /\ CountInv /\ Flags => TypeOK
  <2> SUFFICES ASSUME Types, CountInv, Flags PROVE TypeOK
    OBVIOUS
  <2>1. \A d \in {db, tx} : d.rows \in [Paths -> [stamp : Saves, text : Saves]] /\ Whole(d)
    BY DEF Types, TypeCache, Dbs, RowType, CountInv
  <2> QED BY <2>1 DEF TypeOK, Types, TypePages, TypeThreads, TypeSets, Flags, Whole
<1>3. Types /\ LockInv /\ CountInv /\ Flags /\ [Next]_vars => CountInv' /\ Flags'
  BY CountStep, FlagsStep
<1>4. IInv => Types /\ LockInv
  BY DEF IInv
<1> QED
  BY <1>1, <1>2, <1>3, <1>4, Invariant, PTL DEF Spec

-----------------------------------------------------------------------------
(* A failed sync hides the cache *)

\* What a process has failed to index, or may yet fail to: the saves it has
\* missed and those its threads are at, from their look at the bootstrap on.
OwingLabels == {"lock", "stat", "parse", "commit", "delete", "latch", "marker", "meta"}
Owing(u) == pc[u] \in OwingLabels /\ job[u].kind # "scan"
Owes(q, p, w) == \/ w = missed[q][p]
                 \/ \E u \in Threads : ProcOf[u] = q /\ Owing(u) /\ job[u].path = p /\ job[u].want = w

\* Such a save is on disk, or a newer one, or the page is gone.
DebtInv ==
    /\ \A q \in Procs, p \in Paths : Past(missed[q][p], p)
    /\ \A u \in Threads : Owing(u) \/ pc[u] = "check" => Past(job[u].want, job[u].path)

\* What is about to be put in a row of p.
NewWork(p, w) == \A u \in Threads : pc[u] = "commit" /\ job[u].path = p => job[u].text = 0 \/ job[u].text >= w

\* A process without its latch has missed nothing that the cache lacks or will.
LatchInv ==
    \A q \in Procs, p \in Paths :
        ~latch[q] => LET w == missed[q][p] IN NewRow(db, p, w) /\ NewRow(tx, p, w) /\ NewWork(p, w)

\* A rebuild makes up for all its process owes: who looked at the bootstrapping
\* flag before had its page saved before, who looks now is deferred.
Clears(t) == pc[t] \in {"unmark", "unlatch"}
RebuildInv ==
    \A t \in Threads :
        /\ job[t].kind = "scan" \/ Clears(t) => booting[ProcOf[t]]
        /\ \A p \in Paths, w \in Nat : Owes(ProcOf[t], p, w) =>
              /\ job[t].kind = "scan" => NewRow(tx, p, w) /\ NewWork(p, w)
              /\ Clears(t) => NewRow(db, p, w)

HideInv == DebtInv /\ LatchInv /\ RebuildInv

\* A save of no page is on disk.
LEMMA NothingOwed ==
    ASSUME Types, NEW p \in Paths
    PROVE  NewRow(db, p, 0) /\ NewRow(tx, p, 0) /\ NewWork(p, 0) /\ Past(0, p)
<1>1. \A u \in Threads : job[u].text >= 0
  BY DataTypes
<1>2. db.rows[p].text >= 0 /\ tx.rows[p].text >= 0 /\ saves >= 0 /\ disk[p] >= 0
  BY DataTypes
<1> QED BY <1>1, <1>2 DEF NewRow, NewWork, Past

\* A step that leaves the rows of the cache alone, clears no latch and makes no
\* debt in the process of a rebuild.
LEMMA Hidden ==
    ASSUME Types, Types', HideInv, DebtInv', db'.rows = db.rows,
           tx'.rows = tx.rows \/ \A p \in Paths : tx'.rows[p] = NoRow,
           \A u \in Threads : pc'[u] = "commit" => \/ pc[u] = "commit" /\ job'[u] = job[u]
                                                   \/ job'[u].text \in {0, disk'[job'[u].path]},
           \A q \in Procs, p \in Paths : ~latch'[q] => \/ missed'[q][p] = 0
                                                       \/ ~latch[q] /\ missed'[q][p] = missed[q][p],
           \A t \in Threads : job'[t].kind = "scan" \/ Clears(t)' =>
               /\ job'[t].kind = "scan" => job[t].kind = "scan"
               /\ Clears(t)' => Clears(t)
               /\ booting'[ProcOf[t]]
               /\ \A p \in Paths, w \in Nat : Owes(ProcOf[t], p, w)' => Owes(ProcOf[t], p, w) \/ w = 0
    PROVE  HideInv'
<1>0. ProcOf \in [Threads -> Procs]
  BY ShadowAssumption
<1>1. \A p \in Paths, w \in Nat : /\ NewRow(db, p, w) => NewRow(db, p, w)'
                                  /\ NewRow(tx, p, w) => NewRow(tx, p, w)'
  BY DEF NewRow
<1>2. ASSUME NEW p \in Paths, NEW w \in Nat, Past(w, p)', NewWork(p, w) PROVE NewWork(p, w)'
  <2> SUFFICES ASSUME NEW u \in Threads, pc'[u] = "commit", job'[u].path = p, job'[u].text # 0
               PROVE  job'[u].text >= w
    BY DEF NewWork
  <2>1. CASE pc[u] = "commit" /\ job'[u] = job[u]
    BY <1>2, <2>1 DEF NewWork
  <2>2. CASE job'[u].text = disk'[p]
    <3>1. disk'[p] \in Nat
      BY Numbers DEF Types, TypePages
    <3> QED BY <1>2, <2>2, <3>1 DEF Past
  <2> QED BY <2>1, <2>2
<1>3. LatchInv'
  <2> SUFFICES ASSUME NEW q \in Procs, NEW p \in Paths, ~latch'[q]
               PROVE  NewRow(db, p, missed[q][p])' /\ NewRow(tx, p, missed[q][p])' /\ NewWork(p, missed[q][p])'
    BY DEF LatchInv
  <2>1. CASE missed'[q][p] = 0
    <3>1. NewRow(db, p, 0)' /\ NewRow(tx, p, 0)' /\ NewWork(p, 0)'
      <4>1. db'.rows[p].text >= 0 /\ tx'.rows[p].text >= 0
        <5>1. db'.rows[p] \in RowType /\ tx'.rows[p] \in RowType
          BY DEF Types, TypeCache, Dbs
        <5>2. db'.rows[p].text \in Nat /\ tx'.rows[p].text \in Nat
          BY <5>1, Numbers DEF RowType
        <5> QED BY <5>2
      <4>2. \A u \in Threads : job'[u].text >= 0
        <5>1. job' \in [Threads -> Jobs]
          BY DEF Types, TypeThreads
        <5>2. \A u \in Threads : job'[u].text \in Nat
          BY <5>1, Numbers DEF Jobs
        <5> QED BY <5>2
      <4> QED BY <4>1, <4>2 DEF NewRow, NewWork
    <3> QED BY <2>1, <3>1 DEF NewRow, NewWork
  <2>2. CASE ~latch[q] /\ missed'[q][p] = missed[q][p]
    <3> DEFINE w == missed[q][p]
    <3>1. NewRow(db, p, w) /\ NewRow(tx, p, w) /\ NewWork(p, w)
      BY <2>2 DEF HideInv, LatchInv
    <3>2. Past(w, p)'
      BY <2>2 DEF DebtInv, Past
    <3>3. NewRow(db, p, w)' /\ NewRow(tx, p, w)'
      BY <2>2, <3>1 DEF NewRow
    <3>4. NewWork(p, missed[q][p])'
      BY <2>2, <3>1, <3>2 DEF NewWork, Past
    <3> QED BY <2>2, <3>3, <3>4 DEF NewRow
  <2> QED BY <2>1, <2>2
<1>4. RebuildInv'
  <2> SUFFICES ASSUME NEW t \in Threads, job'[t].kind = "scan" \/ Clears(t)'
               PROVE  /\ booting'[ProcOf[t]]
                      /\ \A p \in Paths, w \in Nat : Owes(ProcOf[t], p, w)' =>
                            /\ job'[t].kind = "scan" => NewRow(tx, p, w)' /\ NewWork(p, w)'
                            /\ Clears(t)' => NewRow(db, p, w)'
    BY DEF RebuildInv
  <2>1. ASSUME NEW p \in Paths, NEW w \in Nat, Owes(ProcOf[t], p, w)'
        PROVE  /\ job'[t].kind = "scan" => NewRow(tx, p, w)' /\ NewWork(p, w)'
               /\ Clears(t)' => NewRow(db, p, w)'
    <3>1. Past(w, p)'
      BY <1>0, <2>1 DEF DebtInv, Owes
    <3>2. CASE Owes(ProcOf[t], p, w)
      <4>1. /\ job[t].kind = "scan" => NewRow(tx, p, w) /\ NewWork(p, w)
            /\ Clears(t) => NewRow(db, p, w)
        BY <3>2 DEF HideInv, RebuildInv
      <4> QED BY <1>1, <1>2, <3>1, <4>1
    <3>3. CASE w = 0
      <4>1. NewRow(db, p, 0) /\ NewRow(tx, p, 0) /\ NewWork(p, 0)
        BY NothingOwed
      <4> QED BY <1>1, <1>2, <3>1, <3>3, <4>1
    <3> QED BY <2>1, <3>2, <3>3
  <2> QED BY <2>1
<1> QED BY <1>3, <1>4 DEF HideInv

\* One thread moves on; what it comes to owe it owed, or no rebuild of its
\* process is at work.
LEMMA HiddenMove ==
    ASSUME Types, Types', Flags, HideInv, PagesAge, db'.rows = db.rows, tx'.rows = tx.rows,
           UNCHANGED <<missed, latch, booting>>,
           NEW t \in Threads, NEW label, NEW j, Becomes(t, label, j),
           label = "commit" => j.text \in {0, disk'[j.path]},
           j.kind = "scan" => job[t].kind = "scan",
           label \in {"unmark", "unlatch"} => Clears(t),
           label = "check" => Past(j.want, j.path)',
           label \in OwingLabels /\ j.kind # "scan" =>
               \/ Owing(t) /\ j.path = job[t].path /\ j.want = job[t].want
               \/ /\ Past(j.want, j.path)'
                  /\ \A u \in Threads \ {t} : ProcOf[u] = ProcOf[t] => job[u].kind # "scan" /\ ~Clears(u)
    PROVE  HideInv'
<1>1. \A u \in Threads : IF u = t THEN pc'[u] = label /\ job'[u] = j
                                  ELSE pc'[u] = pc[u] /\ job'[u] = job[u]
  BY DEF Types, TypeThreads, Becomes, Goto
<1>past. ASSUME NEW p \in Paths, NEW x, x \in Nat, Past(x, p) PROVE Past(x, p)'
  BY <1>past, PastStays
<1>3. \A q \in Procs, p \in Paths : Past(missed[q][p], p)'
  <2>1. \A q \in Procs, p \in Paths : missed[q][p] \in Nat /\ Past(missed[q][p], p)
    BY Numbers DEF Flags, HideInv, DebtInv
  <2> QED BY <2>1, <1>past DEF Past
<1>4. ASSUME NEW u \in Threads, Owing(u)' \/ pc'[u] = "check" PROVE Past(job[u].want, job[u].path)'
  <2>1. \A v \in Threads : Owing(v) \/ pc[v] = "check" => /\ job[v].path \in Paths /\ job[v].want \in Nat
                                                          /\ Past(job[v].want, job[v].path)
    BY DataTypes DEF HideInv, DebtInv, Types, OnPage, PageLabels, Owing, OwingLabels
  <2>2. CASE u # t
    <3>1. Owing(u) \/ pc[u] = "check"
      BY <1>1, <1>4, <2>2 DEF Owing
    <3>2. Past(job[u].want, job[u].path)'
      BY <1>1, <2>1, <2>2, <3>1, <1>past DEF Past
    <3> QED BY <3>2
  <2>3. CASE u = t
    <3>1. CASE Owing(t) /\ j.path = job[t].path /\ j.want = job[t].want
      BY <1>1, <2>1, <2>3, <3>1, <1>past DEF Past
    <3>2. CASE Past(j.want, j.path)'
      BY <1>1, <2>3, <3>2 DEF Past
    <3> QED BY <1>1, <1>4, <2>3, <3>1, <3>2 DEF Owing
  <2> QED BY <2>2, <2>3
<1>5. DebtInv'
  BY <1>3, <1>4 DEF DebtInv
<1>6. ASSUME NEW u \in Threads, job'[u].kind = "scan" \/ Clears(u)'
      PROVE  /\ job'[u].kind = "scan" => job[u].kind = "scan"
             /\ Clears(u)' => Clears(u)
             /\ booting'[ProcOf[u]]
             /\ \A p \in Paths, w \in Nat : Owes(ProcOf[u], p, w)' => Owes(ProcOf[u], p, w) \/ w = 0
  <2>1. /\ job'[u].kind = "scan" => job[u].kind = "scan"
        /\ Clears(u)' => Clears(u)
    BY <1>1 DEF Clears
  <2>2. booting'[ProcOf[u]]
    BY <1>6, <2>1 DEF HideInv, RebuildInv
  <2>3. ASSUME NEW p \in Paths, NEW w \in Nat, Owes(ProcOf[u], p, w)' PROVE Owes(ProcOf[u], p, w)
    <3>1. CASE w = missed'[ProcOf[u]][p]
      BY <3>1 DEF Owes
    <3>2. ASSUME NEW v \in Threads, ProcOf[v] = ProcOf[u], Owing(v)', job'[v].path = p, job'[v].want = w
          PROVE  Owes(ProcOf[u], p, w)
      <4>1. CASE v # t
        BY <1>1, <3>2, <4>1 DEF Owes, Owing
      <4>2. CASE v = t
        <5>1. label \in OwingLabels /\ j.kind # "scan"
          BY <1>1, <3>2, <4>2 DEF Owing
        <5>2. CASE Owing(t) /\ j.path = job[t].path /\ j.want = job[t].want
          BY <1>1, <3>2, <4>2, <5>2 DEF Owes
        <5>3. CASE \A x \in Threads \ {t} : ProcOf[x] = ProcOf[t] => job[x].kind # "scan" /\ ~Clears(x)
          <6>1. u = t
            BY <1>6, <2>1, <3>2, <4>2, <5>3
          <6>2. label \notin {"unmark", "unlatch"}
            BY <5>1 DEF OwingLabels
          <6> QED BY <1>1, <1>6, <5>1, <6>1, <6>2 DEF Clears
        <5> QED BY <5>1, <5>2, <5>3
      <4> QED BY <4>1, <4>2
    <3> QED BY <2>3, <3>1, <3>2 DEF Owes
  <2> QED BY <2>1, <2>2, <2>3
<1>7. \A u \in Threads : pc'[u] = "commit" => \/ pc[u] = "commit" /\ job'[u] = job[u]
                                              \/ job'[u].text \in {0, disk'[job'[u].path]}
  BY <1>1
<1> QED BY <1>5, <1>6, <1>7, Hidden

\* The holder of the flock puts rows into the cache or into its transaction:
\* not older ones than are owed, by what it was at.
LEMMA HiddenWrite ==
    ASSUME Types, Types', LockInv, HideInv, UNCHANGED <<disk, saves, missed, latch, booting>>,
           NEW t \in Threads, flock = t, NEW label, NEW j, Becomes(t, label, j),
           label \in {"scan", "replay", "idle"}, j.kind = "scan" => job[t].kind = "scan",
           \A p \in Paths, w \in Nat : NewWork(p, w) =>
               /\ NewRow(db, p, w) => NewRow(db, p, w)'
               /\ NewRow(tx, p, w) => NewRow(tx, p, w)',
           Flags
    PROVE  HideInv'
<1>0. ProcOf \in [Threads -> Procs] /\ \A q \in Procs, p \in Paths : missed[q][p] \in Nat
  <2>1. ProcOf \in [Threads -> Procs]
    BY ShadowAssumption
  <2>2. \A q \in Procs, p \in Paths : missed[q][p] \in Nat
    BY Numbers DEF Flags
  <2> QED BY <2>1, <2>2
<1>1. \A u \in Threads : IF u = t THEN pc'[u] = label /\ job'[u] = j
                                  ELSE pc'[u] = pc[u] /\ job'[u] = job[u]
  BY DEF Types, TypeThreads, Becomes, Goto
<1>2. ~Owing(t)' /\ pc'[t] # "check"
  BY <1>1 DEF Owing, OwingLabels
<1>3. \A x, p : Past(x, p)' <=> Past(x, p)
  BY DEF Past
<1>4. DebtInv'
  <2>1. \A u \in Threads : u # t => (Owing(u)' <=> Owing(u))
    BY <1>1 DEF Owing
  <2> QED BY <1>1, <1>2, <1>3, <2>1 DEF HideInv, DebtInv
<1>5. \A u \in Threads : pc'[u] # "commit"
  BY <1>1, Alone
<1>6. LatchInv'
  <2> SUFFICES ASSUME NEW q \in Procs, NEW p \in Paths, ~latch[q]
               PROVE  NewRow(db, p, missed[q][p])' /\ NewRow(tx, p, missed[q][p])' /\ NewWork(p, missed[q][p])'
    BY DEF LatchInv
  <2>1. NewRow(db, p, missed[q][p]) /\ NewRow(tx, p, missed[q][p]) /\ NewWork(p, missed[q][p])
    BY DEF HideInv, LatchInv
  <2>2. PICK w \in Nat : w = missed[q][p]
    BY <1>0
  <2>3. NewRow(db, p, w)' /\ NewRow(tx, p, w)'
    BY <2>1, <2>2
  <2> QED BY <1>5, <2>2, <2>3 DEF NewRow, NewWork
<1>7. RebuildInv'
  <2> SUFFICES ASSUME NEW u \in Threads, job'[u].kind = "scan" \/ Clears(u)'
               PROVE  /\ booting'[ProcOf[u]]
                      /\ \A p \in Paths, w \in Nat : Owes(ProcOf[u], p, w)' =>
                            /\ job'[u].kind = "scan" => NewRow(tx, p, w)' /\ NewWork(p, w)'
                            /\ Clears(u)' => NewRow(db, p, w)'
    BY DEF RebuildInv
  <2>1. u = t
    BY <1>1, Alone DEF Clears, LockInv, HoldLabels
  <2>2. ~Clears(u)' /\ job[t].kind = "scan"
    BY <1>1, <2>1 DEF Clears
  <2>3. booting[ProcOf[t]] /\ \A p \in Paths, w \in Nat :
           Owes(ProcOf[t], p, w) => NewRow(tx, p, w) /\ NewWork(p, w)
    BY <2>2 DEF HideInv, RebuildInv
  <2>4. ASSUME NEW p \in Paths, NEW w \in Nat, Owes(ProcOf[t], p, w)'
        PROVE  Owes(ProcOf[t], p, w)
    BY <1>1, <1>2, <2>4 DEF Owes, Owing
  <2> QED BY <1>5, <2>1, <2>2, <2>3, <2>4 DEF NewWork
<1> QED BY <1>4, <1>6, <1>7 DEF HideInv

\* A generation with one row replaced by what a thread is about to put there.
LEMMA HiddenRow ==
    ASSUME NEW d \in Dbs, NEW e \in Dbs, NEW r \in Paths, NEW stamp \in Saves, NEW text \in Saves,
           e.rows = [d.rows EXCEPT ![r] = NewRowOf(stamp, text)],
           NEW p \in Paths, NEW w \in Nat, p = r => text = 0 \/ text >= w,
           NewRow(d, p, w)
    PROVE  NewRow(e, p, w)
<1>1. CASE p = r
  <2>1. e.rows[p] = NewRowOf(stamp, text)
    BY <1>1 DEF Dbs
  <2> QED BY <1>1, <2>1 DEF NewRow, NewRowOf
<1>2. CASE p # r
  <2>1. e.rows[p] = d.rows[p]
    BY <1>2 DEF Dbs
  <2> QED BY <2>1 DEF NewRow
<1> QED BY <1>1, <1>2

\* The page a thread indexes goes in with what the thread was at.
LEMMA HiddenCommit ==
    ASSUME Types, Types', Flags, LockInv, HideInv, NEW t \in Threads, CommitPage(t) \/ DeleteRow(t)
    PROVE  HideInv'
<1> DEFINE r == job[t].path
<1>1. /\ r \in Paths /\ job[t].stamp \in Saves /\ job[t].text \in Saves /\ flock = t
      /\ db \in Dbs /\ tx \in Dbs /\ db' \in Dbs /\ tx' \in Dbs /\ 0 \in Saves
  <2>1. db' \in Dbs /\ tx' \in Dbs
    BY DEF Types, TypeCache
  <2>2. job[t] \in Jobs /\ r \in Paths /\ flock = t
    BY DEF Types, TypeThreads, OnPage, PageLabels, CommitPage, DeleteRow, LockInv, HoldLabels
  <2> QED BY <2>1, <2>2, Numbers DEF Types, TypeCache, Jobs
<1>2. UNCHANGED <<disk, saves, missed, latch, booting>>
  BY DEF CommitPage, DeleteRow, process
<1>3. PICK label, j : /\ Becomes(t, label, j) /\ label \in {"scan", "replay", "idle"}
                      /\ j.kind = "scan" => job[t].kind = "scan"
  <2>1. CASE CommitPage(t)
    <3>1. Resume(t) \in {"scan", "replay", "idle"} /\ (JobAfter(t).kind = "scan" => job[t].kind = "scan")
      BY Numbers DEF Resume, JobAfter
    <3> QED BY <2>1, <3>1 DEF CommitPage
  <2>2. CASE DeleteRow(t)
    BY <2>2, Numbers DEF DeleteRow
  <2> QED BY <2>1, <2>2
<1>4. ASSUME NEW p \in Paths, NEW w \in Nat, NewWork(p, w)
      PROVE  /\ NewRow(db, p, w) => NewRow(db', p, w)
             /\ NewRow(tx, p, w) => NewRow(tx', p, w)
  <2>1. CASE CommitPage(t)
    <3>1. p = r => job[t].text = 0 \/ job[t].text >= w
      BY <1>4, <2>1 DEF NewWork, CommitPage
    <3>2. CASE job[t].kind # "scan"
      <4>1. db'.rows = [db.rows EXCEPT ![r] = NewRowOf(job[t].stamp, job[t].text)] /\ tx' = tx
        BY <1>1, <2>1, <3>2, UpsertRows DEF CommitPage
      <4> QED BY <1>1, <3>1, <4>1, HiddenRow
    <3>3. CASE job[t].kind = "scan"
      <4> DEFINE d == Upsert(tx, r, job[t].stamp, job[t].text)
      <4>1. d \in Dbs /\ d.rows = [tx.rows EXCEPT ![r] = NewRowOf(job[t].stamp, job[t].text)]
        BY <1>1, UpsertRows
      <4>2. db' = db /\ tx' = IF d.rows[r] # NoRow THEN [d EXCEPT !.indexed = d.indexed + 1] ELSE d
        BY <2>1, <3>3 DEF CommitPage
      <4> HIDE DEF d
      <4>3. tx'.rows = d.rows
        BY <4>1, <4>2 DEF Dbs
      <4>4. tx'.rows = [tx.rows EXCEPT ![r] = NewRowOf(job[t].stamp, job[t].text)]
        BY <4>1, <4>3
      <4>5. NewRow(tx, p, w) => NewRow(tx', p, w)
        BY <1>1, <3>1, <4>4, HiddenRow
      <4> QED BY <4>2, <4>5
    <3> QED BY <3>2, <3>3
  <2>2. CASE DeleteRow(t)
    <3>1. db'.rows = [db.rows EXCEPT ![r] = NewRowOf(0, 0)] /\ tx' = tx
      BY <1>1, <2>2, UpsertRows DEF DeleteRow
    <3> QED BY <1>1, <3>1, HiddenRow
  <2> QED BY <2>1, <2>2
<1>5. \A p \in Paths, w \in Nat : NewWork(p, w) => /\ NewRow(db, p, w) => NewRow(db, p, w)'
                                                   /\ NewRow(tx, p, w) => NewRow(tx, p, w)'
  BY <1>4 DEF NewRow
<1> QED BY <1>1, <1>2, <1>3, <1>5, HiddenWrite

\* A rebuild begins with all that its process owes still to be read, and may
\* clear the latch when its generation holds what the process owed.
LEMMA HiddenRebuild ==
    ASSUME Types, Types', Flags, LockInv, TxInv, HideInv, NEW t \in Threads,
           BeginRebuild(t) \/ CommitRebuild(t) \/ ClearLatch(t)
    PROVE  HideInv'
<1>0. ProcOf \in [Threads -> Procs] /\ \A q \in Procs, p \in Paths : missed[q][p] \in Nat
  <2>1. ProcOf \in [Threads -> Procs]
    BY ShadowAssumption
  <2>2. \A q \in Procs, p \in Paths : missed[q][p] \in Nat
    BY Numbers DEF Flags
  <2> QED BY <2>1, <2>2
<1>flock. \A u \in Threads \ {t} : pc[u] # "commit" /\ job[u].kind # "scan" /\ ~Clears(u)
  <2>1. flock = t \/ flock = None
    BY DEF BeginRebuild, CommitRebuild, ClearLatch, LockInv, HoldLabels
  <2>2. \A u \in Threads : pc[u] = "commit" \/ job[u].kind = "scan" \/ Clears(u) => flock = u
    BY DEF LockInv, HoldLabels, Clears
  <2>3. None \notin Threads
    BY ShadowAssumption
  <2> QED BY <2>1, <2>2, <2>3
<1>1. UNCHANGED <<disk, saves, missed>>
  BY DEF BeginRebuild, CommitRebuild, ClearLatch
<1>2. /\ \A u \in Threads \ {t} : pc'[u] = pc[u] /\ job'[u] = job[u]
      /\ pc'[t] \in {"scan", "unmark", "unboot"}
  BY DEF BeginRebuild, CommitRebuild, ClearLatch, Becomes, Goto, Types, TypeThreads
<1>3. ~Owing(t)' /\ pc'[t] # "check" /\ \A u \in Threads : u # t => (Owing(u)' <=> Owing(u))
  BY <1>2 DEF Owing, OwingLabels
<1>4. DebtInv'
  <2>1. \A x, p : Past(x, p)' <=> Past(x, p)
    BY <1>1 DEF Past
  <2> QED BY <1>1, <1>2, <1>3, <2>1 DEF HideInv, DebtInv, Past
<1>5. \A u \in Threads : pc'[u] # "commit"
  BY <1>2, <1>flock
<1>6. \A u \in Threads \ {t} : job'[u].kind # "scan" /\ ~Clears(u)'
  BY <1>2, <1>flock DEF Clears
<1>7. ASSUME NEW q \in Procs, NEW p \in Paths, NEW w, Owes(q, p, w)' PROVE Owes(q, p, w)
  BY <1>1, <1>2, <1>3, <1>7 DEF Owes
<1>8. CASE BeginRebuild(t)
  <2>1. UNCHANGED <<db, latch>> /\ booting'[ProcOf[t]] /\ pc'[t] = "scan"
        /\ \A p \in Paths : tx'.rows[p] = NoRow
    BY <1>0, <1>8, Numbers DEF BeginRebuild, Becomes, Goto, NoDb, Flags, Types, TypeThreads
  <2>2. LatchInv'
    BY <1>1, <1>5, <2>1 DEF HideInv, LatchInv, NewRow, NewWork
  <2>3. RebuildInv'
    BY <1>5, <1>6, <2>1 DEF RebuildInv, Clears, NewRow, NewWork
  <2> QED BY <1>4, <2>2, <2>3 DEF HideInv
<1>9. CASE CommitRebuild(t)
  <2>1. /\ UNCHANGED <<latch, booting>> /\ pc'[t] = "unmark" /\ job'[t].kind # "scan"
        /\ job[t].kind = "scan" /\ \A p \in Paths : tx'.rows[p] = NoRow
    BY <1>9, Numbers DEF CommitRebuild, Becomes, Goto, NoDb, Types, TypeThreads, process, LockInv
  <2>2. db'.rows = tx.rows
    BY <1>9 DEF CommitRebuild, Types, TypeCache, Dbs
  <2>3. LatchInv'
    BY <1>1, <1>5, <2>1, <2>2 DEF HideInv, LatchInv, NewRow, NewWork
  <2>4. RebuildInv'
    BY <1>0, <1>6, <1>7, <2>1, <2>2 DEF HideInv, RebuildInv, NewRow
  <2> QED BY <1>4, <2>3, <2>4 DEF HideInv
<1>10. CASE ClearLatch(t)
  <2>1. /\ UNCHANGED <<db, tx, booting, job>> /\ pc[t] = "unlatch" /\ pc'[t] = "unboot"
        /\ job[t].kind # "scan" /\ flock = t
        /\ \A q \in Procs : latch'[q] = IF q = ProcOf[t] THEN FALSE ELSE latch[q]
    BY <1>10 DEF ClearLatch, Goto, Types, TypeThreads, cache, LockInv, HoldLabels, Flags
  <2>2. \A p \in Paths : tx.rows[p] = NoRow
    BY <2>1, NoTx
  <2>3. ASSUME NEW q \in Procs, NEW p \in Paths, ~latch'[q] PROVE NewRow(db, p, missed[q][p])
    <3>1. CASE q = ProcOf[t]
      BY <1>0, <2>1, <3>1 DEF HideInv, RebuildInv, Clears, Owes
    <3>2. CASE q # ProcOf[t]
      BY <2>1, <2>3, <3>2 DEF HideInv, LatchInv
    <3> QED BY <3>1, <3>2
  <2>4. LatchInv'
    BY <1>1, <1>5, <2>1, <2>2, <2>3 DEF LatchInv, NewRow, NewWork
  <2>5. RebuildInv'
    BY <1>6, <2>1 DEF RebuildInv, Clears
  <2> QED BY <1>4, <2>4, <2>5 DEF HideInv
<1> QED BY <1>8, <1>9, <1>10

\* Debts are kept when pages age and threads take up none.
LEMMA DebtsKept ==
    ASSUME Types, Types', Flags, DebtInv, PagesAge, UNCHANGED missed,
           \A u \in Threads : Owing(u)' \/ pc'[u] = "check" =>
               /\ Owing(u) \/ pc[u] = "check"
               /\ job'[u] = job[u]
    PROVE  DebtInv'
<1>past. ASSUME NEW p \in Paths, NEW x, x \in Nat, Past(x, p) PROVE Past(x, p)'
  BY <1>past, PastStays
<1>1. \A q \in Procs, p \in Paths : Past(missed[q][p], p)'
  <2>1. \A q \in Procs, p \in Paths : missed[q][p] \in Nat /\ Past(missed[q][p], p)
    BY Numbers DEF Flags, DebtInv
  <2> QED BY <2>1, <1>past DEF Past
<1>2. ASSUME NEW u \in Threads, Owing(u)' \/ pc'[u] = "check" PROVE Past(job[u].want, job[u].path)'
  <2>1. \A v \in Threads : Owing(v) \/ pc[v] = "check" => /\ job[v].path \in Paths /\ job[v].want \in Nat
                                                          /\ Past(job[v].want, job[v].path)
    BY DataTypes DEF DebtInv, Types, OnPage, PageLabels, Owing, OwingLabels
  <2> QED BY <1>2, <2>1, <1>past DEF Past
<1> QED BY <1>1, <1>2 DEF DebtInv

\* A thread moves on with its job.
LEMMA HiddenGoto ==
    ASSUME Types, Types', Flags, LockInv, DataInv, HideInv, NEW t \in Threads,
           \/ Check(t) \/ TakeLock(t) \/ LockTimeout(t) \/ SyncFails(t) \/ WriteMarker(t)
           \/ ClearMarker(t) \/ PopDeferred(t)
    PROVE  HideInv'
<1>1. PagesAge /\ UNCHANGED <<db, tx, missed, latch, booting, disk, saves, job>>
  <2>1. UNCHANGED <<db, tx, missed, latch, booting, disk, saves, job>>
    BY DEF Check, TakeLock, LockTimeout, SyncFails, WriteMarker, ClearMarker, PopDeferred, cache, process
  <2> QED BY <2>1, DataTypes DEF PagesAge, DataInv, RowsInv
<1>2. PICK label : /\ Goto(t, label) /\ label \notin {"commit", "check"}
                   /\ label \in {"unmark", "unlatch"} => Clears(t)
                   /\ label \in OwingLabels => (pc[t] = "check" /\ ~booting[ProcOf[t]]) \/ pc[t] \in OwingLabels
  BY DEF Check, TakeLock, LockTimeout, SyncFails, WriteMarker, ClearMarker, PopDeferred, Clears, OwingLabels
<1>3. PICK j : j = job[t]
  OBVIOUS
<1>4. Becomes(t, label, j)
  BY <1>1, <1>2, <1>3, GotoBecomes DEF Types
<1>5. ASSUME label \in OwingLabels, j.kind # "scan", ~Owing(t)
      PROVE  /\ Past(j.want, j.path)'
             /\ \A u \in Threads \ {t} : ProcOf[u] = ProcOf[t] => job[u].kind # "scan" /\ ~Clears(u)
  <2>1. pc[t] = "check" /\ ~booting[ProcOf[t]]
    BY <1>2, <1>3, <1>5 DEF Owing
  <2>2. Past(j.want, j.path)
    BY <1>3, <2>1 DEF HideInv, DebtInv
  <2>3. \A u \in Threads \ {t} : ProcOf[u] = ProcOf[t] => job[u].kind # "scan" /\ ~Clears(u)
    BY <2>1 DEF HideInv, RebuildInv
  <2> QED BY <1>1, <2>2, <2>3 DEF Past
<1> QED BY <1>1, <1>2, <1>3, <1>4, <1>5, HiddenMove

\* A thread takes up a page that has changed.
LEMMA HiddenNews ==
    ASSUME Types, Types', Flags, LockInv, DataInv, HideInv, NEW t \in Threads, NEW p \in Paths,
           RobotWrite(t, p) \/ Deliver(t, p)
    PROVE  HideInv'
<1>0. disk[p] \in Nat /\ saves \in Nat /\ \A r \in Paths : disk[r] \in Nat /\ disk[r] <= saves
  BY DataTypes DEF DataInv, RowsInv
<1>1. db'.rows = db.rows /\ tx'.rows = tx.rows /\ UNCHANGED <<missed, latch, booting>>
  BY DEF RobotWrite, Deliver, cache, process
<1>2. PagesAge
  <2>1. disk \in [Paths -> Saves]
    BY DEF Types, TypePages
  <2>2. CASE RobotWrite(t, p)
    BY <1>0, <2>1, <2>2 DEF RobotWrite, PagesAge
  <2>3. CASE Deliver(t, p)
    BY <1>0, <2>3 DEF Deliver, PagesAge
  <2> QED BY <2>2, <2>3
<1>3. PICK j : Becomes(t, "check", j) /\ j.kind # "scan" /\ Past(j.want, j.path)'
  <2>1. /\ Sync(p, saves + 1).kind = "sync" /\ Sync(p, saves + 1).want = saves + 1 /\ Sync(p, saves + 1).path = p
        /\ Sync(p, disk[p]).kind = "sync" /\ Sync(p, disk[p]).want = disk[p] /\ Sync(p, disk[p]).path = p
        /\ [Sync(p, 0) EXCEPT !.kind = "delete"].kind = "delete"
        /\ [Sync(p, 0) EXCEPT !.kind = "delete"].want = 0
        /\ [Sync(p, 0) EXCEPT !.kind = "delete"].path = p
    BY DEF Sync, NoJob
  <2>2. CASE RobotWrite(t, p)
    <3>1. saves' = saves + 1 /\ disk'[p] = saves + 1 /\ Becomes(t, "check", Sync(p, saves + 1))
      BY <2>2 DEF RobotWrite, Types, TypePages
    <3>2. PICK j : j = Sync(p, saves + 1)
      OBVIOUS
    <3> QED BY <1>0, <2>1, <3>1, <3>2 DEF Past
  <2>3. CASE Deliver(t, p)
    <3>1. /\ UNCHANGED <<disk, saves>>
          /\ \/ Becomes(t, "check", [Sync(p, 0) EXCEPT !.kind = "delete"])
             \/ Becomes(t, "check", Sync(p, disk[p]))
      BY <2>3, Zenon DEF Deliver
    <3>2. PICK j : Becomes(t, "check", j) /\ j.kind # "scan" /\ j.want \in {0, disk[p]} /\ j.path = p
      BY <2>1, <3>1
    <3> QED BY <1>0, <3>1, <3>2 DEF Past
  <2> QED BY <2>2, <2>3
<1> QED BY <1>1, <1>2, <1>3, HiddenMove DEF OwingLabels

\* A thread goes on with its page, or is done with it.
LEMMA HiddenJob ==
    ASSUME Types, Types', Flags, LockInv, DataInv, HideInv, NEW t \in Threads,
           \/ \E p \in Paths : ScanPage(t, p) \/ Replay(t, p) \/ ReadHealth(t, p)
           \/ Defer(t) \/ Stat(t) \/ Parse(t) \/ RecordError(t) \/ CheckFresh(t) \/ Querying(t) \/ Answer(t)
    PROVE  HideInv'
<1>0. /\ \A p \in Paths : disk[p] \in Nat /\ disk[p] <= saves
      /\ saves \in Nat /\ job[t] \in Jobs
  BY DataTypes DEF DataInv, RowsInv, Types, TypeThreads
<1>1. UNCHANGED <<disk, saves, tx, missed, latch, booting>>
  BY QueryJob DEF ScanPage, Replay, ReadHealth, Defer, Stat, Parse, RecordError, CheckFresh, Answer,
         cache, process
<1>2. PagesAge /\ db'.rows = db.rows
  <2>1. db' = db \/ db' = [db EXCEPT !.error = TRUE]
    BY QueryJob DEF ScanPage, Replay, ReadHealth, Defer, Stat, Parse, RecordError, CheckFresh, Answer, cache
  <2> QED BY <1>0, <1>1, <2>1 DEF PagesAge, Types, TypeCache, Dbs
<1>3. ASSUME NEW p \in Paths, ScanPage(t, p) PROVE HideInv'
  <2>1. PICK j : Becomes(t, "stat", j) /\ j.kind = job[t].kind
    <3>1. PICK j : j = [job[t] EXCEPT !.path = p]
      OBVIOUS
    <3> QED BY <1>0, <1>3, <3>1 DEF ScanPage, Jobs
  <2>2. job[t].kind = "scan"
    BY <1>3 DEF ScanPage, LockInv
  <2> QED BY <1>1, <1>2, <2>1, <2>2, HiddenMove
<1>4. ASSUME NEW p \in Paths, Replay(t, p) PROVE HideInv'
  <2>1. flock = t
    BY <1>4 DEF Replay, LockInv, HoldLabels
  <2>2. PICK j : Becomes(t, "stat", j) /\ j.kind = "replay" /\ j.want = disk[p] /\ j.path = p
    <3>1. PICK j : j = [NoJob EXCEPT !.kind = "replay", !.path = p, !.want = disk[p]]
      OBVIOUS
    <3>2. j.kind = "replay" /\ j.want = disk[p] /\ j.path = p
      BY <3>1 DEF NoJob
    <3>3. Becomes(t, "stat", j)
      BY <1>4, <3>1 DEF Replay
    <3> QED BY <3>2, <3>3
  <2>3. Past(j.want, j.path)'
    BY <1>0, <1>1, <2>2 DEF Past
  <2>4. \A u \in Threads \ {t} : job[u].kind # "scan" /\ ~Clears(u)
    BY <2>1 DEF LockInv, HoldLabels, Clears
  <2> QED BY <1>1, <1>2, <2>2, <2>3, <2>4, HiddenMove
<1>5. ASSUME Stat(t) \/ Parse(t) PROVE HideInv'
  <2>1. pc[t] \in OwingLabels
    BY <1>5 DEF Stat, Parse, OwingLabels
  <2>2. PICK label, j : /\ Becomes(t, label, j) /\ label \in {"parse", "commit"}
                        /\ j.kind = job[t].kind /\ j.path = job[t].path /\ j.want = job[t].want
                        /\ label = "commit" => j.text \in {0, disk[j.path]}
    <3>1. CASE Stat(t)
      <4>1. PICK j : j = [job[t] EXCEPT !.stamp = disk[job[t].path], !.text = 0]
        OBVIOUS
      <4>2. j.kind = job[t].kind /\ j.path = job[t].path /\ j.want = job[t].want /\ j.text = 0
        BY <1>0, <4>1 DEF Jobs
      <4>3. Becomes(t, "commit", j) \/ Becomes(t, "parse", j)
        BY <3>1, <4>1 DEF Stat
      <4> QED BY <4>2, <4>3
    <3>2. CASE Parse(t)
      <4>1. PICK text \in {0, disk[job[t].path]} : Becomes(t, "commit", [job[t] EXCEPT !.text = text])
        BY <3>2 DEF Parse
      <4>2. PICK j : j = [job[t] EXCEPT !.text = text]
        OBVIOUS
      <4>3. j.kind = job[t].kind /\ j.path = job[t].path /\ j.want = job[t].want /\ j.text = text
        BY <1>0, <4>2 DEF Jobs
      <4> QED BY <4>1, <4>2, <4>3
    <3> QED BY <1>5, <3>1, <3>2
  <2> QED BY <1>1, <1>2, <2>1, <2>2, HiddenMove DEF Owing
<1>6. ASSUME RecordError(t) PROVE HideInv'
  <2>1. job[t].kind # "scan" /\ Owing(t)
    BY <1>6 DEF RecordError, LockInv, Owing, OwingLabels
  <2>2. PICK j : j = [job[t] EXCEPT !.again = FALSE]
    OBVIOUS
  <2>3. j.kind = job[t].kind /\ j.path = job[t].path /\ j.want = job[t].want
    BY <1>0, <2>2 DEF Jobs
  <2>4. Becomes(t, "latch", j) \/ Becomes(t, Resume(t), NoJob)
    BY <1>6, <2>2 DEF RecordError
  <2>5. CASE Becomes(t, "latch", j)
    BY <1>1, <1>2, <2>1, <2>3, <2>5, HiddenMove
  <2>6. CASE Becomes(t, Resume(t), NoJob)
    <3>1. PICK label, i : label = Resume(t) /\ i = NoJob
      OBVIOUS
    <3>2. label \in {"scan", "replay", "idle"} /\ i.kind = "none" /\ Becomes(t, label, i)
      BY <2>6, <3>1, Numbers DEF Resume
    <3> QED BY <1>1, <1>2, <3>2, HiddenMove DEF OwingLabels
  <2> QED BY <2>4, <2>5, <2>6
<1>7. ASSUME \/ Defer(t) \/ CheckFresh(t) \/ Querying(t) \/ Answer(t)
             \/ \E p \in Paths : ReadHealth(t, p)
      PROVE  HideInv'
  <2>1. job[t].kind # "scan"
    BY <1>7, QueryJob DEF Defer, CheckFresh, Answer, ReadHealth, Free, LockInv
  <2>2. PICK label, j : /\ Becomes(t, label, j) /\ label \in {"idle", "fresh", "query", "rows", "served"}
                        /\ j.kind # "scan"
    <3>1. CASE Defer(t) \/ Answer(t)
      BY <3>1, Numbers DEF Defer, Answer
    <3>2. ASSUME NEW p \in Paths, ReadHealth(t, p)
          PROVE  \E j : Becomes(t, "fresh", j) /\ j.kind # "scan"
      <4>1. [NoJob EXCEPT !.kind = "read", !.path = p].kind = "read"
        BY DEF NoJob
      <4> QED BY <3>2, <4>1 DEF ReadHealth
    <3>3. CASE CheckFresh(t)
      <4>1. \/ Becomes(t, "query", [job[t] EXCEPT !.want = disk[job[t].path]])
            \/ Becomes(t, "idle", NoJob)
        BY <3>3 DEF CheckFresh
      <4>2. [job[t] EXCEPT !.want = disk[job[t].path]].kind = job[t].kind
        BY <1>0 DEF Jobs
      <4> QED BY <2>1, <4>1, <4>2, Numbers
    <3>4. CASE Querying(t)
      <4>1. PICK label, j : QueryTo(t, label, j)
        BY <3>4, QueryJob
      <4> QED BY <2>1, <4>1, Numbers DEF QueryTo
    <3> QED BY <1>7, <3>1, <3>2, <3>3, <3>4
  <2> QED BY <1>1, <1>2, <2>2, HiddenMove DEF OwingLabels
<1> QED BY <1>3, <1>4, <1>5, <1>6, <1>7

\* A step after which no rebuild of a process owes what it did not.
LEMMA HiddenStill ==
    ASSUME Types, Types', Flags, HideInv, DebtInv', UNCHANGED <<missed, latch, booting>>,
           db'.rows = db.rows, tx'.rows = tx.rows,
           \A u \in Threads : job'[u] = job[u] /\ (pc'[u] = pc[u] \/ pc'[u] = "idle" \/ pc'[u] = "rebuild")
    PROVE  HideInv'
<1>1. \A u \in Threads : Owing(u)' => Owing(u)
  BY DEF Owing, OwingLabels
<1>2. \A q, p, w : Owes(q, p, w)' => Owes(q, p, w)
  BY <1>1 DEF Owes
<1>3. \A u \in Threads : Clears(u)' => Clears(u)
  BY DEF Clears
<1>4. \A u \in Threads : pc'[u] = "commit" => pc[u] = "commit" /\ job'[u] = job[u]
  OBVIOUS
<1>5. \A u \in Threads : job'[u].kind = "scan" \/ Clears(u)' => booting'[ProcOf[u]]
  BY <1>3 DEF HideInv, RebuildInv
<1> QED BY <1>2, <1>3, <1>4, <1>5, Hidden

\* Every step keeps what hides a failed sync.
LEMMA HideStep == Types /\ Types' /\ Flags /\ LockInv /\ DataInv /\ HideInv /\ [Next]_vars => HideInv'
<1> SUFFICES ASSUME Types, Types', Flags, LockInv, DataInv, HideInv, [Next]_vars PROVE HideInv'
  OBVIOUS
<1> DebtInv
  BY DEF HideInv
<1>old. saves \in Nat /\ \A p \in Paths : disk[p] \in Nat /\ disk[p] <= saves
  BY DataTypes DEF DataInv, RowsInv
<1>age. (UNCHANGED <<disk, saves>>) => PagesAge
  BY <1>old DEF PagesAge
<1>still. ASSUME PagesAge, UNCHANGED <<missed, latch, booting, job, db, tx>>,
                 \A u \in Threads : pc'[u] = pc[u] \/ pc'[u] = "idle" \/ pc'[u] = "rebuild"
          PROVE  HideInv'
  <2>1. \A u \in Threads : Owing(u)' \/ pc'[u] = "check" => Owing(u) \/ pc[u] = "check"
    BY <1>still DEF Owing, OwingLabels
  <2>2. DebtInv'
    BY <1>still, <2>1, DebtsKept
  <2> QED BY <1>still, <2>2, HiddenStill
<1>1. ASSUME NEW p \in Paths, Page(p) PROVE HideInv'
  <2>1. PagesAge
    <3>1. disk \in [Paths -> Saves]
      BY DEF Types, TypePages
    <3> QED BY <1>1, <1>old, <3>1 DEF Page, HumanSave, HumanDelete, PagesAge
  <2> QED BY <1>1, <2>1, <1>still DEF Page, HumanSave, HumanDelete, cache, process
<1>2. ASSUME NEW t \in Threads, Prepare(t) \/ RebuildTimeout(t) \/ EndRebuild(t) \/ StartWatcher(t) PROVE HideInv'
  <2>1. UNCHANGED <<disk, saves, missed, latch, booting, job, db, tx>>
    BY <1>2 DEF Prepare, RebuildTimeout, EndRebuild, StartWatcher, Started, cache, process
  <2>2. \A u \in Threads : pc'[u] = pc[u] \/ pc'[u] = "idle" \/ pc'[u] = "rebuild"
    BY <1>2 DEF Prepare, RebuildTimeout, EndRebuild, StartWatcher, Started, Goto, Types, TypeThreads
  <2> QED BY <2>1, <2>2, <1>age, <1>still
<1>3. ASSUME NEW t \in Threads, RaiseLatch(t) PROVE HideInv'
  <2>1. /\ UNCHANGED <<disk, saves, booting, job, db, tx>> /\ pc[t] = "latch" /\ pc'[t] = "marker"
        /\ \A u \in Threads \ {t} : pc'[u] = pc[u]
        /\ \A q \in Procs : latch'[q] = IF q = ProcOf[t] THEN TRUE ELSE latch[q]
    BY <1>3 DEF RaiseLatch, Goto, cache, Flags, Types, TypeThreads
  <2>2. /\ ProcOf \in [Threads -> Procs] /\ job[t].path \in Paths /\ job[t].kind # "scan" /\ Owing(t)
    BY <2>1, ShadowAssumption DEF Types, OnPage, PageLabels, LockInv, Owing, OwingLabels
  <2>3. \A q \in Procs, p \in Paths :
           \/ missed'[q][p] = missed[q][p]
           \/ q = ProcOf[t] /\ p = job[t].path /\ missed'[q][p] = job[t].want
    <3> DEFINE q == ProcOf[t]
               p == job[t].path
               x == IF job[t].want > missed[q][p] THEN job[t].want ELSE missed[q][p]
    <3>1. missed' = [missed EXCEPT ![q] = [missed[q] EXCEPT ![p] = x]]
      BY <1>3 DEF RaiseLatch
    <3>2. x = missed[q][p] \/ x = job[t].want
      OBVIOUS
    <3> HIDE DEF x
    <3>3. \A r \in Procs : missed'[r] = IF r = q THEN [missed[q] EXCEPT ![p] = x] ELSE missed[r]
      BY <2>2, <3>1 DEF Flags
    <3>4. \A s \in Paths : [missed[q] EXCEPT ![p] = x][s] = IF s = p THEN x ELSE missed[q][s]
      BY <2>2 DEF Flags
    <3> QED BY <2>2, <3>2, <3>3, <3>4
  <2>4. \A u \in Threads : Owing(u)' <=> Owing(u)
    BY <2>1 DEF Owing, OwingLabels
  <2>5. \A x, p : Past(x, p)' <=> Past(x, p)
    BY <2>1 DEF Past
  <2>6. DebtInv'
    BY <2>1, <2>2, <2>3, <2>4, <2>5 DEF DebtInv, Past
  <2>7. ASSUME NEW q \in Procs, NEW p \in Paths, NEW w, Owes(q, p, w)' PROVE Owes(q, p, w)
    BY <2>1, <2>2, <2>3, <2>4, <2>7 DEF Owes
  <2>8. \A u \in Threads : job'[u].kind = "scan" \/ Clears(u)' => (Clears(u)' => Clears(u)) /\ booting'[ProcOf[u]]
    BY <2>1 DEF HideInv, RebuildInv, Clears
  <2>9. \A u \in Threads : pc'[u] = "commit" => pc[u] = "commit" /\ job'[u] = job[u]
    BY <2>1
  <2>10. \A q \in Procs, p \in Paths : ~latch'[q] => ~latch[q] /\ missed'[q][p] = missed[q][p]
    BY <2>1, <2>3
  <2> QED BY <2>1, <2>2, <2>6, <2>7, <2>8, <2>9, <2>10, Hidden
<1>4. ASSUME NEW t \in Threads, EndBootstrap(t) \/ RebuildFails(t) PROVE HideInv'
  <2>1. flock = t
    BY <1>4 DEF EndBootstrap, RebuildFails, LockInv, HoldLabels
  <2>2. /\ UNCHANGED <<disk, saves, missed, latch>> /\ pc'[t] \in {"pop", "unboot"} /\ job'[t].kind # "scan"
        /\ \A u \in Threads \ {t} : pc'[u] = pc[u] /\ job'[u] = job[u]
    BY <1>4, Numbers DEF EndBootstrap, RebuildFails, Goto, Becomes, process, Types, TypeThreads, LockInv
  <2>3. db'.rows = db.rows /\ (tx'.rows = tx.rows \/ \A p \in Paths : tx'.rows[p] = NoRow)
    BY <1>4, Numbers DEF EndBootstrap, RebuildFails, cache, Types, TypeCache, Dbs
  <2>4. \A u \in Threads : Owing(u)' \/ pc'[u] = "check" => (Owing(u) \/ pc[u] = "check") /\ job'[u] = job[u]
    BY <2>2 DEF Owing, OwingLabels
  <2>5. DebtInv'
    BY <2>2, <2>4, <1>age, DebtsKept
  <2>6. \A u \in Threads : job'[u].kind # "scan" /\ ~Clears(u)'
    BY <2>1, <2>2 DEF LockInv, HoldLabels, Clears
  <2>7. \A u \in Threads : pc'[u] = "commit" => pc[u] = "commit" /\ job'[u] = job[u]
    BY <2>2
  <2> QED BY <2>2, <2>3, <2>5, <2>6, <2>7, Hidden
<1>5. ASSUME NEW q \in Procs, Crash(q) PROVE HideInv'
  <2>1. \A u \in Threads : /\ job'[u] = IF u \in Of(q) THEN NoJob ELSE job[u]
                           /\ pc'[u] = IF u \in Of(q) THEN "down" ELSE pc[u]
    BY <1>5 DEF Crash
  <2>2. /\ UNCHANGED <<disk, saves, db>> /\ tx' \in {tx, NoDb}
        /\ \A r \in Procs : /\ latch'[r] = IF r = q THEN FALSE ELSE latch[r]
                            /\ booting'[r] = IF r = q THEN FALSE ELSE booting[r]
                            /\ \A p \in Paths : missed'[r][p] = IF r = q THEN 0 ELSE missed[r][p]
    <3>1. UNCHANGED <<disk, saves, db>> /\ tx' \in {tx, NoDb}
      BY <1>5 DEF Crash
    <3>2. /\ latch' = [latch EXCEPT ![q] = FALSE] /\ booting' = [booting EXCEPT ![q] = FALSE]
          /\ missed' = [missed EXCEPT ![q] = [p \in Paths |-> 0]]
      BY <1>5 DEF Crash
    <3>3. \A p \in Paths : [r \in Paths |-> 0][p] = 0
      OBVIOUS
    <3> QED BY <3>1, <3>2, <3>3 DEF Flags
  <2>3. ProcOf \in [Threads -> Procs] /\ NoJob.kind = "none" /\ \A p \in Paths : NoDb.rows[p] = NoRow
    BY ShadowAssumption, Numbers
  <2>4. tx'.rows = tx.rows \/ \A p \in Paths : tx'.rows[p] = NoRow
    BY <2>2, <2>3
  <2>5. \A u \in Threads : /\ Owing(u)' => Owing(u) /\ u \notin Of(q) /\ job'[u] = job[u]
                           /\ Clears(u)' => Clears(u) /\ u \notin Of(q)
                           /\ pc'[u] = "check" => pc[u] = "check" /\ job'[u] = job[u]
                           /\ pc'[u] = "commit" => pc[u] = "commit" /\ job'[u] = job[u]
                           /\ job'[u].kind = "scan" => job[u].kind = "scan" /\ u \notin Of(q)
    BY <2>1, <2>3 DEF Owing, OwingLabels, Clears
  <2>6. \A x, p : Past(x, p)' <=> Past(x, p)
    BY <2>2 DEF Past
  <2>7. DebtInv'
    <3>1. \A r \in Procs, p \in Paths : Past(missed[r][p], p)'
      BY <1>old, <2>2, <2>6, NothingOwed DEF DebtInv, Past
    <3> QED BY <2>5, <2>6, <3>1 DEF DebtInv, Past
  <2>8. ASSUME NEW u \in Threads, job'[u].kind = "scan" \/ Clears(u)'
        PROVE  /\ booting'[ProcOf[u]]
               /\ \A p \in Paths, w \in Nat : Owes(ProcOf[u], p, w)' => Owes(ProcOf[u], p, w)
    <3>1. ProcOf[u] # q /\ ProcOf[u] \in Procs
      BY <2>3, <2>5, <2>8 DEF Of
    <3>2. booting'[ProcOf[u]]
      BY <2>2, <2>5, <2>8, <3>1 DEF HideInv, RebuildInv
    <3>3. ASSUME NEW p \in Paths, NEW w \in Nat, Owes(ProcOf[u], p, w)' PROVE Owes(ProcOf[u], p, w)
      BY <2>2, <2>5, <3>1, <3>3 DEF Owes
    <3> QED BY <3>2, <3>3
  <2>9. ASSUME NEW r \in Procs, NEW p \in Paths, ~latch'[r]
        PROVE  missed'[r][p] = 0 \/ (~latch[r] /\ missed'[r][p] = missed[r][p])
    BY <2>2, <2>9
  <2> QED BY <2>2, <2>4, <2>5, <2>7, <2>8, <2>9, Hidden
<1>6. CASE UNCHANGED vars
  BY <1>6, <1>age, <1>still DEF vars, cache, process
<1>7. ASSUME NEW t \in Threads, NEW p \in Paths, PageOf(t, p) PROVE HideInv'
  BY <1>7, HiddenNews, HiddenJob DEF PageOf
\* Nobody holds the flock, so no rebuild is under way that the flag could concern.
<1>9. ASSUME NEW t \in Threads, OpenFails(t) PROVE HideInv'
  <2>1. /\ UNCHANGED <<disk, saves, missed, latch, job, db, tx>> /\ flock = None
        /\ \A u \in Threads : pc'[u] = pc[u] \/ pc'[u] = "idle"
    BY <1>9 DEF OpenFails, Started, cache
  <2>2. \A u \in Threads : job'[u].kind # "scan" /\ ~Clears(u)'
    BY <2>1, ShadowAssumption DEF LockInv, HoldLabels, Clears
  <2>3. \A u \in Threads : Owing(u)' \/ pc'[u] = "check" => (Owing(u) \/ pc[u] = "check") /\ job'[u] = job[u]
    BY <2>1 DEF Owing, OwingLabels
  <2>4. DebtInv'
    BY <2>1, <2>3, <1>age, DebtsKept
  <2>5. \A u \in Threads : pc'[u] = "commit" => pc[u] = "commit" /\ job'[u] = job[u]
    BY <2>1
  <2> QED BY <2>1, <2>2, <2>4, <2>5, Hidden
<1>8. ASSUME NEW t \in Threads, Work(t) PROVE HideInv'
  <2>1. CASE \/ Check(t) \/ TakeLock(t) \/ LockTimeout(t) \/ SyncFails(t) \/ WriteMarker(t)
             \/ ClearMarker(t) \/ PopDeferred(t)
    BY <2>1, HiddenGoto
  <2>2. CASE \/ Defer(t) \/ Stat(t) \/ Parse(t) \/ RecordError(t) \/ CheckFresh(t) \/ Querying(t) \/ Answer(t)
    BY <2>2, HiddenJob
  <2>3. CASE CommitPage(t) \/ DeleteRow(t)
    BY <2>3, HiddenCommit
  <2>4. CASE BeginRebuild(t) \/ CommitRebuild(t) \/ ClearLatch(t)
    BY <2>4, HiddenRebuild DEF DataInv
  <2>5. CASE \/ RebuildTimeout(t) \/ EndRebuild(t) \/ RaiseLatch(t) \/ EndBootstrap(t) \/ RebuildFails(t)
             \/ StartWatcher(t) \/ OpenFails(t)
    BY <2>5, <1>2, <1>3, <1>4, <1>9
  <2> QED BY <1>8, <2>1, <2>2, <2>3, <2>4, <2>5 DEF Work, Querying
<1> QED BY <1>1, <1>2, <1>5, <1>6, <1>7, <1>8 DEF Next

\* Whatever other processes rebuild and clear, a process that failed to index a save of a page
\* does not call the cache ready while the cache has an older text of the page: its own latch
\* hides the cache until a rebuild of its own holds all it missed (record_shadow_sync_failure,
\* clear_shadow_sync_failed, is_shadow_bootstrapping).
THEOREM FailureStaysHidden == Spec => []FailureHides
<1>1. Init => HideInv /\ Flags
  <2> SUFFICES ASSUME Init PROVE HideInv /\ Flags
    OBVIOUS
  <2>1. [p \in Paths |-> 0] \in [Paths -> Saves] /\ \A p \in Paths : [r \in Paths |-> 0][p] = 0
    BY Numbers
  <2>2. Flags
    BY <2>1 DEF Init, Flags
  <2>3. Types
    BY InitInv DEF IInv
  <2>4. /\ \A t \in Threads : pc[t] = "down" /\ job[t].kind = "none"
        /\ \A q \in Procs, p \in Paths : missed[q][p] = 0
    BY <2>1, Numbers DEF Init
  <2>5. HideInv
    <3>1. DebtInv
      BY <2>3, <2>4, NothingOwed DEF DebtInv, Owing, OwingLabels
    <3>2. LatchInv
      BY <2>3, <2>4, NothingOwed DEF LatchInv
    <3>3. RebuildInv
      BY <2>4 DEF RebuildInv, Clears
    <3> QED BY <3>1, <3>2, <3>3 DEF HideInv
  <2> QED BY <2>2, <2>5
<1>2. HideInv => FailureHides
  BY DEF HideInv, LatchInv, FailureHides, Ready, NewRow
<1>3. Types /\ Types' /\ Flags /\ LockInv /\ DataInv /\ HideInv /\ [Next]_vars => HideInv' /\ Flags'
  BY HideStep, FlagsStep
<1>4. IInv => Types /\ LockInv /\ DataInv
  BY DEF IInv, DataInv
<1> QED
  BY <1>1, <1>2, <1>3, <1>4, Invariant, PTL DEF Spec

-----------------------------------------------------------------------------
(* A calm cache is complete *)

\* The file watcher delivers from one thread, in the one daemon there is.
OneWatcher == \A t, u \in Watchers : t = u

\* While nothing goes wrong a process starts once, in its main thread, and until it has
\* started no other thread of it works: nobody is deferred.
Starting(t) == \/ pc[t] \in {"rebuild", "scan", "unmark", "unlatch", "unboot", "pop", "replay"}
               \/ job[t].kind = "scan"
StartInv ==
    /\ \A q \in Procs : deferred[q] = {} /\ (booting[q] => ~up[q])
    /\ \A t \in Threads :
          /\ Starting(t) => ~up[ProcOf[t]] /\ t = Main[ProcOf[t]]
          /\ pc[t] = "down" => t \in Watchers \/ ~up[ProcOf[t]]
          /\ pc[t] \in {"down", "pop", "replay"} /\ t = Main[ProcOf[t]] => ~booting[ProcOf[t]]
          /\ job[t].kind # "scan" => todo[t] = {}

\* What a thread does at a label, while no sync fails.
LabelOf(t, l, j, started) ==
    /\ l \notin {"defer", "latch", "marker", "meta"} /\ j.kind # "replay"
    /\ j.kind \in {"sync", "delete"} => started
    /\ j.kind = "delete" => t \in Watchers /\ l \in {"check", "lock", "delete"}
    /\ l \in {"check", "lock"} => j.kind \in {"sync", "delete"}
    /\ l \in {"stat", "parse", "commit"} => j.kind \in {"sync", "scan"}
    /\ l = "delete" => j.kind = "delete"
    /\ l = "scan" => j.path = None
LabelInv == \A t \in Threads : LabelOf(t, pc[t], job[t], up[ProcOf[t]])

\* A removal that was overtaken by a new page is followed by that page's event.
EventInv ==
    /\ \A p \in Paths : /\ event[p] # "none" => Watching
                        /\ event[p] = "deleted" => disk[p] = 0
    /\ \A t \in Threads : job[t].kind = "delete" /\ disk[job[t].path] # 0 => event[job[t].path] # "none"

\* The page as it is now is still to be brought into the cache, by an event or by a thread
\* that has yet to get the flock.
Waits(t, p) == /\ pc[t] \in {"check", "lock"} /\ job[t].path = p
               /\ job[t].kind = "sync" \/ (job[t].kind = "delete" /\ disk[p] = 0)
Waiting(p) == event[p] # "none" \/ \E t \in Threads : Waits(t, p)

\* Somebody who holds the flock will bring it, or has read it.
AtPage(t, p) == /\ pc[t] \in {"stat", "parse", "commit", "delete"} /\ job[t].path = p
                /\ job[t].kind # "scan"
HasRead(t) == job[t].stamp = disk[job[t].path] /\ (pc[t] = "commit" => job[t].text \in {0, job[t].stamp})

CurrentIn(d, p) == IF disk[p] = 0 THEN d.rows[p] = NoRow
                                  ELSE p \in d.parked \/ d.rows[p].text = disk[p]

\* Whatever lacks the page as it is now will be followed by somebody who brings it.
ReadersInv ==
    \A t \in Threads, p \in Paths :
        pc[t] \in {"parse", "commit"} /\ job[t].path = p => HasRead(t) \/ Waiting(p)
CacheInv ==
    db.completed => \A p \in Paths : \/ Waiting(p) \/ CurrentIn(db, p)
                                     \/ \E t \in Threads : AtPage(t, p)
ScanInv ==
    \A t \in Threads, p \in Paths :
        job[t].kind = "scan" => \/ p \in todo[t] \/ job[t].path = p
                                \/ Waiting(p) \/ CurrentIn(tx, p)

CalmInv == calm => /\ StartInv /\ LabelInv /\ EventInv
                   /\ ReadersInv /\ CacheInv /\ ScanInv

\* A step that counts as calm comes from a calm state, and is none of the mishaps.
LEMMA CalmStays ==
    ASSUME Flags, [Next]_vars, calm'
    PROVE  /\ calm
           /\ \A p \in Paths : Page(p) => Watching
           /\ \A t \in Threads : /\ ~LockTimeout(t) /\ ~SyncFails(t) /\ ~RebuildTimeout(t)
                                 /\ ~RebuildFails(t) /\ ~OpenFails(t)
                                 /\ Prepare(t) => pc[t] = "down" /\ t = Main[ProcOf[t]]
           /\ \A q \in Procs : ~Crash(q)
<1>1. \A p \in Paths : Page(p) => calm /\ Watching
  BY Zenon DEF Page, HumanSave, HumanDelete
<1>2. \A t \in Threads : /\ ~LockTimeout(t) /\ ~SyncFails(t) /\ ~RebuildTimeout(t) /\ ~RebuildFails(t)
                         /\ ~OpenFails(t)
                         /\ Prepare(t) => pc[t] = "down" /\ t = Main[ProcOf[t]] /\ calm
  BY DEF LockTimeout, SyncFails, RebuildTimeout, RebuildFails, OpenFails, Prepare
<1>3. \A q \in Procs : ~Crash(q)
  BY DEF Crash
<1>4. \A t \in Threads, p \in Paths : PageOf(t, p) => calm
  BY DEF PageOf, RobotWrite, Deliver, ScanPage, Replay, ReadHealth
<1>5. \A t \in Threads : Work(t) => calm
  BY <1>2 DEF Work, Check, Defer, TakeLock, Stat, Parse, CommitPage, DeleteRow, RaiseLatch,
     WriteMarker, RecordError, BeginRebuild, CommitRebuild, ClearMarker, ClearLatch, EndBootstrap,
     PopDeferred, EndRebuild, StartWatcher, CheckFresh, FindAnchor, SelectRows, FallBack, Answer
<1>6. CASE UNCHANGED vars
  BY <1>1, <1>2, <1>3, <1>6 DEF vars
<1> QED BY <1>1, <1>2, <1>3, <1>4, <1>5, <1>6 DEF Next

\* The steps that remain, under the label where each begins.
CalmWork(t) ==
    \/ Check(t) /\ Goto(t, "lock")
    \/ TakeLock(t) \/ Stat(t) \/ Parse(t) \/ CommitPage(t) \/ DeleteRow(t)
    \/ BeginRebuild(t) \/ CommitRebuild(t) \/ ClearMarker(t) \/ ClearLatch(t) \/ EndBootstrap(t)
    \/ PopDeferred(t) \/ EndRebuild(t) \/ StartWatcher(t)
    \/ CheckFresh(t) \/ Querying(t) \/ Answer(t)
CalmNext ==
    \/ \E p \in Paths : Page(p) /\ Watching
    \/ \E t \in Threads : Prepare(t) /\ pc[t] = "down" /\ t = Main[ProcOf[t]]
    \/ \E t \in Threads : CalmWork(t)
    \/ \E t \in Threads, p \in Paths : RobotWrite(t, p) \/ Deliver(t, p) \/ ScanPage(t, p) \/ ReadHealth(t, p)
    \/ UNCHANGED vars

\* A step that counts as calm is one of them: no other label is reached.
LEMMA CalmSteps ==
    ASSUME Types, Flags, LockInv, StartInv, LabelInv, [Next]_vars, calm'
    PROVE  CalmNext
<1>0. ProcOf \in [Threads -> Procs]
  BY ShadowAssumption
<1>1. ASSUME NEW t \in Threads, Check(t) PROVE Goto(t, "lock")
  <2>1. pc[t] = "check"
    BY <1>1 DEF Check
  <2>2. up[ProcOf[t]]
    BY <2>1 DEF LabelInv, LabelOf
  <2>3. ~booting[ProcOf[t]]
    BY <1>0, <2>2 DEF StartInv
  <2> QED BY <1>1, <2>3 DEF Check
<1>2. ASSUME NEW t \in Threads, Defer(t) \/ RaiseLatch(t) \/ WriteMarker(t) \/ RecordError(t)
      PROVE  FALSE
  BY <1>2 DEF LabelInv, LabelOf, Defer, RaiseLatch, WriteMarker, RecordError
<1>3. ASSUME NEW t \in Threads, NEW p \in Paths, Replay(t, p) PROVE FALSE
  <2>1. pc[t] = "replay" /\ p \in todo[t]
    BY <1>3 DEF Replay
  <2>2. job[t].kind # "scan"
    BY <2>1 DEF LockInv
  <2> QED BY <2>1, <2>2 DEF StartInv
<1>4. ASSUME NEW t \in Threads, Work(t) PROVE CalmWork(t)
  BY <1>1, <1>2, <1>4, CalmStays DEF Work, CalmWork, Querying
<1>5. ASSUME NEW t \in Threads, NEW p \in Paths, PageOf(t, p)
      PROVE  RobotWrite(t, p) \/ Deliver(t, p) \/ ScanPage(t, p) \/ ReadHealth(t, p)
  BY <1>3, <1>5 DEF PageOf
<1>6. ASSUME NEW p \in Paths, Page(p) PROVE Watching
  BY <1>6, CalmStays
<1>7. ASSUME NEW t \in Threads, Prepare(t) PROVE pc[t] = "down" /\ t = Main[ProcOf[t]]
  BY <1>7, CalmStays
<1> QED BY <1>4, <1>5, <1>6, <1>7, CalmStays DEF Next, CalmNext

\* The jobs that threads begin.
LEMMA NewJobs ==
    \A p, w :
        /\ Sync(p, w).kind = "sync" /\ Sync(p, w).path = p
        /\ [Sync(p, 0) EXCEPT !.kind = "delete"].kind = "delete"
        /\ [Sync(p, 0) EXCEPT !.kind = "delete"].path = p
        /\ [NoJob EXCEPT !.kind = "read", !.path = p].kind = "read"
        /\ [NoJob EXCEPT !.kind = "read", !.path = p].path = p
        /\ [NoJob EXCEPT !.kind = "scan"].kind = "scan"
        /\ [NoJob EXCEPT !.kind = "scan"].path = None
        /\ NoJob.path = None
<1> SUFFICES ASSUME NEW p, NEW w
             PROVE  /\ Sync(p, w).kind = "sync" /\ Sync(p, w).path = p
                    /\ [Sync(p, 0) EXCEPT !.kind = "delete"].kind = "delete"
                    /\ [Sync(p, 0) EXCEPT !.kind = "delete"].path = p
                    /\ [NoJob EXCEPT !.kind = "read", !.path = p].kind = "read"
                    /\ [NoJob EXCEPT !.kind = "read", !.path = p].path = p
                    /\ [NoJob EXCEPT !.kind = "scan"].kind = "scan"
                    /\ [NoJob EXCEPT !.kind = "scan"].path = None
                    /\ NoJob.path = None
  OBVIOUS
<1>1. NoJob = [kind |-> "none", path |-> None, stamp |-> 0, text |-> 0, want |-> 0,
                      from |-> None, again |-> FALSE]
  BY DEF NoJob
<1>2. Sync(p, w).kind = "sync" /\ Sync(p, w).path = p
  BY <1>1 DEF Sync
<1>3. /\ [Sync(p, 0) EXCEPT !.kind = "delete"].kind = "delete"
      /\ [Sync(p, 0) EXCEPT !.kind = "delete"].path = p
  BY <1>1 DEF Sync
<1> QED BY <1>1, <1>2, <1>3

\* An event becomes a removal or a sync.
LEMMA EventJob ==
    ASSUME NEW t \in Threads, NEW p \in Paths, Deliver(t, p)
    PROVE  \/ event[p] = "deleted" /\ Becomes(t, "check", [Sync(p, 0) EXCEPT !.kind = "delete"])
           \/ event[p] # "deleted" /\ Becomes(t, "check", Sync(p, disk[p]))
BY Zenon DEF Deliver

\* What becomes of the job of a thread that reads a page ...
LEMMA StatJob ==
    ASSUME TypeThreads, NEW t \in Threads, Stat(t)
    PROVE  \E label \in {"commit", "parse"} : \E j :
              /\ Becomes(t, label, j)
              /\ j.kind = job[t].kind /\ j.path = job[t].path
              /\ j.stamp = disk[job[t].path] /\ j.text = 0
              /\ label = "commit" <=> disk[job[t].path] = 0
<1> DEFINE j == [job[t] EXCEPT !.stamp = disk[job[t].path], !.text = 0]
<1>1. /\ j.kind = job[t].kind /\ j.path = job[t].path
      /\ j.stamp = disk[job[t].path] /\ j.text = 0
  BY DEF TypeThreads, Jobs
<1>2. Becomes(t, IF disk[job[t].path] = 0 THEN "commit" ELSE "parse", j)
  BY DEF Stat
<1> HIDE DEF j
<1> QED BY <1>1, <1>2

\* ... or parses it ...
LEMMA ParseJob ==
    ASSUME TypeThreads, NEW t \in Threads, Parse(t)
    PROVE  \E j : /\ Becomes(t, "commit", j)
                  /\ j.kind = job[t].kind /\ j.path = job[t].path /\ j.stamp = job[t].stamp
                  /\ j.text \in {disk[job[t].path], 0}
<1>1. PICK text \in {disk[job[t].path], 0} : Becomes(t, "commit", [job[t] EXCEPT !.text = text])
  BY DEF Parse
<1> DEFINE j == [job[t] EXCEPT !.text = text]
<1>2. j.kind = job[t].kind /\ j.path = job[t].path /\ j.stamp = job[t].stamp /\ j.text = text
  BY DEF TypeThreads, Jobs
<1>3. Becomes(t, "commit", j)
  BY <1>1
<1> HIDE DEF j
<1> QED BY <1>2, <1>3

\* ... and of one that reads through the cache.
LEMMA ReadJob ==
    ASSUME Types, NEW t \in Threads, CheckFresh(t) \/ Querying(t) \/ Answer(t)
    PROVE  \E label \in {"query", "rows", "served", "idle"} : \E j :
              Becomes(t, label, j) /\ j.kind \in {job[t].kind, "none"}
<1>1. \A x : /\ [job[t] EXCEPT !.want = x].kind = job[t].kind
             /\ [job[t] EXCEPT !.text = x].kind = job[t].kind
  BY DEF Types, TypeThreads, Jobs
<1>2. CASE CheckFresh(t)
  BY <1>1, <1>2, Numbers DEF CheckFresh
<1>3. CASE Querying(t)
  <2>1. PICK label, j : QueryTo(t, label, j)
    BY <1>3, QueryJob
  <2> QED BY <2>1, Numbers DEF QueryTo
<1>4. CASE Answer(t)
  BY <1>4, Numbers DEF Answer
<1> QED BY <1>2, <1>3, <1>4

\* A step of one thread that changes nothing of the process but what it says.
LEMMA StartBecomes ==
    ASSUME TypeThreads, StartInv, NEW t \in Threads, NEW label, NEW j, Becomes(t, label, j),
           UNCHANGED <<deferred, up>>,
           \A q \in Procs : booting'[q] => booting[q] \/ ~up[q],
           \A u \in Threads : u # t => todo'[u] = todo[u] /\ (booting'[ProcOf[u]] => booting[ProcOf[u]] \/ u # Main[ProcOf[u]]),
           label \in {"rebuild", "scan", "unmark", "unlatch", "unboot", "pop", "replay"} \/ j.kind = "scan"
              => ~up[ProcOf[t]] /\ t = Main[ProcOf[t]],
           label # "down",
           label \in {"pop", "replay"} => ~booting'[ProcOf[t]],
           j.kind # "scan" => todo'[t] = {}
    PROVE  StartInv'
<1>1. /\ pc'[t] = label /\ job'[t] = j
      /\ \A u \in Threads : u # t => pc'[u] = pc[u] /\ job'[u] = job[u]
  BY DEF Becomes, Goto, TypeThreads
<1>2. \A q \in Procs : deferred'[q] = {} /\ (booting'[q] => ~up'[q])
  BY DEF StartInv
<1>3. \A u \in Threads :
          /\ Starting(u)' => ~up'[ProcOf[u]] /\ u = Main[ProcOf[u]]
          /\ pc'[u] = "down" => u \in Watchers \/ ~up'[ProcOf[u]]
          /\ pc'[u] \in {"down", "pop", "replay"} /\ u = Main[ProcOf[u]] => ~booting'[ProcOf[u]]
          /\ job'[u].kind # "scan" => todo'[u] = {}
  <2> TAKE u \in Threads
  <2>1. CASE u = t
    BY <1>1, <2>1 DEF Starting
  <2>2. CASE u # t
    BY <1>1, <2>2 DEF Starting, StartInv
  <2> QED BY <2>1, <2>2
<1> QED BY <1>2, <1>3 DEF StartInv

\* The end of a start-up.
LEMMA StartStarted ==
    ASSUME TypeThreads, Flags, StartInv, NEW t \in Threads, Started(t), UNCHANGED <<job, deferred, booting, todo>>,
           t = Main[ProcOf[t]], job[t].kind # "scan", ~booting[ProcOf[t]]
    PROVE  StartInv'
<1>0. ProcOf \in [Threads -> Procs] /\ Main \in [Procs -> Threads]
  BY ShadowAssumption
<1>1. /\ up' = [up EXCEPT ![ProcOf[t]] = TRUE]
      /\ \A u \in Threads :
            pc'[u] = IF u = t \/ (ProcOf[u] = ProcOf[t] /\ pc[u] = "down" /\ u \notin Watchers)
                     THEN "idle" ELSE pc[u]
  BY DEF Started
<1>2. \A q \in Procs : up'[q] <=> q = ProcOf[t] \/ up[q]
  BY <1>0, <1>1 DEF Flags
<1>3. \A q \in Procs : deferred'[q] = {} /\ (booting'[q] => ~up'[q])
  BY <1>2 DEF StartInv
<1>4. \A u \in Threads :
          /\ Starting(u)' => ~up'[ProcOf[u]] /\ u = Main[ProcOf[u]]
          /\ pc'[u] = "down" => u \in Watchers \/ ~up'[ProcOf[u]]
          /\ pc'[u] \in {"down", "pop", "replay"} /\ u = Main[ProcOf[u]] => ~booting'[ProcOf[u]]
          /\ job'[u].kind # "scan" => todo'[u] = {}
  <2> TAKE u \in Threads
  <2>1. CASE pc'[u] = "idle"
    BY <1>0, <1>2, <2>1 DEF Starting, StartInv
  <2>2. CASE pc'[u] # "idle"
    <3>1. u # t /\ pc'[u] = pc[u] /\ (ProcOf[u] = ProcOf[t] /\ pc[u] = "down" => u \in Watchers)
      BY <1>1, <2>2
    <3>2. Starting(u) => ProcOf[u] # ProcOf[t]
      BY <3>1 DEF StartInv
    <3>3. u \in Watchers => u # Main[ProcOf[u]]
      BY <1>0, ShadowAssumption
    <3> QED BY <1>0, <1>2, <3>1, <3>2, <3>3 DEF Starting, StartInv
  <2> QED BY <2>1, <2>2
<1> QED BY <1>3, <1>4 DEF StartInv

\* Until a process has started, its main thread alone works, and nobody is deferred.
LEMMA StartStep ==
    ASSUME Types, Flags, LockInv, StartInv, LabelInv, CalmNext
    PROVE  StartInv'
<1>0. TypeThreads /\ ProcOf \in [Threads -> Procs] /\ Main \in [Procs -> Threads]
  BY ShadowAssumption DEF Types
<1>1. todo \in [Threads -> SUBSET Paths]
  BY DEF Types, TypeSets
<1>same. (UNCHANGED <<pc, job, todo, deferred, booting, up>>) => StartInv'
  BY DEF StartInv, Starting
<1>2. CASE \E p \in Paths : Page(p) /\ Watching
  BY <1>2, <1>same DEF Page, HumanSave, HumanDelete, process
<1>3. ASSUME NEW t \in Threads, Prepare(t), pc[t] = "down", t = Main[ProcOf[t]]
      PROVE  StartInv'
  <2>0. t \notin Watchers
    BY <1>0, <1>3, ShadowAssumption
  <2>1. job[t].kind # "scan" /\ ~booting[ProcOf[t]] /\ ~up[ProcOf[t]] /\ todo[t] = {}
    BY <1>0, <1>3, <2>0 DEF LockInv, StartInv
  <2>2. CASE Goto(t, "rebuild") /\ UNCHANGED up
    <3>1. Becomes(t, "rebuild", job[t])
      BY <1>0, <1>3, <2>2, GotoBecomes DEF Prepare
    <3> QED BY <1>0, <1>3, <2>1, <2>2, <3>1, StartBecomes DEF Prepare
  <2>3. CASE Started(t)
    BY <1>0, <1>3, <2>1, <2>3, StartStarted DEF Prepare
  <2> QED BY <1>3, <2>2, <2>3 DEF Prepare
\* A step of a thread that has work to do, or that starts none.
<1>4. ASSUME NEW t \in Threads, NEW label, NEW j, Becomes(t, label, j), UNCHANGED <<deferred, up, booting>>,
             \A u \in Threads : u # t => todo'[u] = todo[u],
             label \in {"rebuild", "scan", "unmark", "unlatch", "unboot", "pop", "replay"} \/ j.kind = "scan"
                => Starting(t),
             label \notin {"down", "pop", "replay"},
             j.kind # "scan" => todo'[t] = {}
      PROVE  StartInv'
  <2>1. Starting(t) => ~up[ProcOf[t]] /\ t = Main[ProcOf[t]]
    BY DEF StartInv
  <2> QED BY <1>0, <1>4, <2>1, StartBecomes
<1>5. ASSUME NEW t \in Threads, NEW p \in Paths, RobotWrite(t, p) \/ Deliver(t, p)
      PROVE  StartInv'
  <2>0. pc[t] = "idle"
    BY <1>5 DEF RobotWrite, Deliver, Free
  <2>1. todo[t] = {}
    BY <2>0 DEF LockInv, StartInv
  <2>2. PICK j : Becomes(t, "check", j) /\ j.kind # "scan"
    BY <1>5, EventJob, NewJobs DEF RobotWrite
  <2> QED BY <1>4, <1>5, <2>1, <2>2 DEF RobotWrite, Deliver, process
<1>6. ASSUME NEW t \in Threads, NEW p \in Paths, ReadHealth(t, p)
      PROVE  StartInv'
  <2>0. pc[t] = "idle"
    BY <1>6 DEF ReadHealth, Free
  <2>1. todo[t] = {}
    BY <2>0 DEF LockInv, StartInv
  <2>2. PICK j : Becomes(t, "fresh", j) /\ j.kind # "scan"
    BY <1>6, NewJobs DEF ReadHealth
  <2> QED BY <1>4, <1>6, <2>1, <2>2 DEF ReadHealth, process
<1>7. ASSUME NEW t \in Threads, NEW p \in Paths, ScanPage(t, p)
      PROVE  StartInv'
  <2>1. job[t].kind = "scan"
    BY <1>7 DEF ScanPage, LockInv
  <2>2. PICK j : Becomes(t, "stat", j) /\ j.kind = "scan"
    <3>1. [job[t] EXCEPT !.path = p].kind = "scan"
      BY <1>0, <2>1 DEF TypeThreads, Jobs
    <3> QED BY <1>7, <3>1 DEF ScanPage
  <2>3. \A u \in Threads : u # t => todo'[u] = todo[u]
    BY <1>7 DEF ScanPage, Types, TypeSets
  <2> QED BY <1>4, <1>7, <2>1, <2>2, <2>3 DEF ScanPage, process, Starting
<1>8. ASSUME NEW t \in Threads, CalmWork(t) PROVE StartInv'
  <2>0. job[t].kind # "scan" => todo[t] = {}
    BY DEF StartInv
  <2>1. CASE Check(t) /\ Goto(t, "lock")
    <3>1. Becomes(t, "lock", job[t])
      BY <1>0, <2>1, GotoBecomes DEF Check
    <3>2. job[t].kind # "scan"
      BY <2>1 DEF Check, LockInv
    <3> QED BY <1>4, <2>0, <2>1, <3>1, <3>2 DEF Check, process
  <2>2. CASE TakeLock(t)
    <3>1. job[t].kind # "scan"
      BY <2>2 DEF TakeLock, LockInv
    <3>2. PICK label \in {"delete", "stat"} : Becomes(t, label, job[t])
      BY <1>0, <2>2, GotoBecomes DEF TakeLock
    <3> QED BY <1>4, <2>0, <2>2, <3>1, <3>2 DEF TakeLock, process
  <2>3. CASE Stat(t) \/ Parse(t)
    <3>1. PICK label \in {"commit", "parse"} : \E j : Becomes(t, label, j) /\ j.kind = job[t].kind
      BY <1>0, <2>3, StatJob, ParseJob
    <3>2. UNCHANGED <<process, todo>>
      BY <2>3 DEF Stat, Parse
    <3> QED BY <1>4, <2>0, <3>1, <3>2 DEF process, Starting
  <2>4. CASE CommitPage(t)
    <3>1. CASE job[t].kind = "scan"
      <4>1. Becomes(t, "scan", [NoJob EXCEPT !.kind = "scan"])
        BY <2>4, <3>1 DEF CommitPage, Resume, JobAfter
      <4>2. [NoJob EXCEPT !.kind = "scan"].kind = "scan"
        BY DEF NoJob
      <4> QED BY <1>4, <2>4, <3>1, <4>1, <4>2 DEF CommitPage, process, Starting
    <3>2. CASE job[t].kind # "scan"
      <4>1. Becomes(t, "idle", NoJob)
        BY <2>4, <3>2 DEF CommitPage, Resume, JobAfter, LabelInv, LabelOf
      <4> QED BY <1>4, <2>0, <2>4, <3>2, <4>1, Numbers DEF CommitPage, process
    <3> QED BY <3>1, <3>2
  <2>5. CASE DeleteRow(t)
    <3>1. job[t].kind # "scan"
      BY <2>5 DEF DeleteRow, LabelInv, LabelOf
    <3> QED BY <1>4, <2>0, <2>5, <3>1, Numbers DEF DeleteRow, process
  <2>6. CASE BeginRebuild(t)
    <3>1. /\ Becomes(t, "scan", [NoJob EXCEPT !.kind = "scan"]) /\ UNCHANGED <<deferred, up>>
          /\ booting' = [booting EXCEPT ![ProcOf[t]] = TRUE]
      BY <2>6 DEF BeginRebuild
    <3>2. Starting(t) /\ ~up[ProcOf[t]] /\ t = Main[ProcOf[t]]
      BY <2>6 DEF BeginRebuild, Starting, StartInv
    <3>3. \A u \in Threads : u # t => /\ todo'[u] = todo[u]
                                      /\ booting'[ProcOf[u]] => booting[ProcOf[u]] \/ u # Main[ProcOf[u]]
      BY <1>0, <2>6, <3>1, <3>2 DEF BeginRebuild, Types, TypeSets, Flags
    <3>4. \A q \in Procs : booting'[q] => booting[q] \/ ~up[q]
      BY <1>0, <3>1, <3>2 DEF Flags
    <3>5. [NoJob EXCEPT !.kind = "scan"].kind = "scan"
      BY DEF NoJob
    <3> QED BY <1>0, <3>1, <3>2, <3>3, <3>4, <3>5, StartBecomes
  <2>7. CASE CommitRebuild(t)
    <3>1. job[t].kind = "scan" /\ todo[t] = {}
      BY <2>7 DEF CommitRebuild, LockInv
    <3> QED BY <1>4, <2>7, <3>1, Numbers DEF CommitRebuild, process, Starting
  <2>8. CASE ClearMarker(t) \/ ClearLatch(t)
    <3>1. PICK label \in {"unlatch", "unboot"} : Becomes(t, label, job[t])
      BY <1>0, <2>8, GotoBecomes DEF ClearMarker, ClearLatch
    <3>2. Starting(t) /\ UNCHANGED <<deferred, up, booting, todo>>
      BY <2>8 DEF ClearMarker, ClearLatch, Starting, process
    <3> QED BY <1>4, <2>0, <3>1, <3>2
  <2>9. CASE EndBootstrap(t)
    <3>1. /\ Becomes(t, "pop", job[t]) /\ UNCHANGED <<deferred, up, todo>>
          /\ booting' = [booting EXCEPT ![ProcOf[t]] = FALSE]
      BY <1>0, <2>9, GotoBecomes DEF EndBootstrap
    <3>2. Starting(t) /\ ~up[ProcOf[t]] /\ t = Main[ProcOf[t]]
      BY <2>9 DEF EndBootstrap, Starting, StartInv
    <3>3. \A q \in Procs : booting'[q] => booting[q]
      BY <3>1 DEF Flags
    <3>4. ~booting'[ProcOf[t]]
      BY <1>0, <3>1 DEF Flags
    <3> QED BY <1>0, <2>0, <3>1, <3>2, <3>3, <3>4, StartBecomes
  <2>10. CASE PopDeferred(t)
    <3>1. /\ Becomes(t, "replay", job[t]) /\ UNCHANGED <<booting, up>>
          /\ todo' = [todo EXCEPT ![t] = deferred[ProcOf[t]]]
          /\ deferred' = [deferred EXCEPT ![ProcOf[t]] = {}]
      BY <1>0, <2>10, GotoBecomes DEF PopDeferred
    <3>2. Starting(t) /\ ~up[ProcOf[t]] /\ t = Main[ProcOf[t]] /\ ~booting[ProcOf[t]]
      BY <2>10 DEF PopDeferred, Starting, StartInv
    <3>3. deferred' = deferred /\ todo'[t] = {}
      <4>1. deferred \in [Procs -> SUBSET Paths] /\ todo \in [Threads -> SUBSET Paths]
        BY DEF Types, TypeSets
      <4> QED BY <1>0, <3>1, <4>1 DEF StartInv
    <3>4. \A u \in Threads : u # t => todo'[u] = todo[u]
      BY <3>1 DEF Types, TypeSets
    <3> QED BY <1>0, <3>1, <3>2, <3>3, <3>4, StartBecomes
  <2>11. CASE EndRebuild(t)
    <3>1. job[t].kind # "scan" /\ Starting(t) /\ t = Main[ProcOf[t]] /\ ~booting[ProcOf[t]]
      BY <2>11 DEF EndRebuild, Starting, StartInv, LockInv
    <3> QED BY <1>0, <2>11, <3>1, StartStarted DEF EndRebuild
  <2>12. CASE CheckFresh(t) \/ Querying(t) \/ Answer(t)
    <3>1. job[t].kind # "scan" /\ UNCHANGED <<deferred, up, booting, todo>>
      BY <2>12, QueryJob DEF CheckFresh, Answer, LockInv, process
    <3>2. PICK label \in {"query", "rows", "served", "idle"} :
             \E j : Becomes(t, label, j) /\ j.kind \in {job[t].kind, "none"}
      BY <2>12, ReadJob
    <3> QED BY <1>4, <2>0, <3>1, <3>2
  <2>13. CASE StartWatcher(t)
    <3>1. job[t].kind # "scan" /\ UNCHANGED <<deferred, up, booting, todo>>
      BY <2>13 DEF StartWatcher, LockInv, process
    <3>2. Becomes(t, "idle", job[t])
      BY <1>0, <2>13, GotoBecomes DEF StartWatcher
    <3> QED BY <1>4, <2>0, <3>1, <3>2
  <2> QED BY <1>8, <2>1, <2>2, <2>3, <2>4, <2>5, <2>6, <2>7, <2>8, <2>9, <2>10, <2>11, <2>12, <2>13 DEF CalmWork
<1>9. CASE UNCHANGED vars
  BY <1>9, <1>same DEF vars
<1> QED BY <1>2, <1>3, <1>5, <1>6, <1>7, <1>8, <1>9 DEF CalmNext

\* What becomes of the job of a thread in the middle of its work.
LEMMA WorkJob ==
    ASSUME Types, LockInv, LabelInv, NEW t \in Threads, CalmWork(t), ~EndRebuild(t)
    PROVE  /\ UNCHANGED <<disk, event, up>>
           /\ \E label, j : /\ Becomes(t, label, j) /\ label # "down"
                            /\ LabelOf(t, label, j, up[ProcOf[t]])
                            /\ j.kind = "delete" => job[t].kind = "delete" /\ j.path = job[t].path
<1>0. TypeThreads
  BY DEF Types
<1>1. UNCHANGED <<disk, event, up>>
  BY QueryJob DEF CalmWork, Check, TakeLock, Stat, Parse, CommitPage, DeleteRow, BeginRebuild, CommitRebuild,
     ClearMarker, ClearLatch, EndBootstrap, PopDeferred, StartWatcher, CheckFresh, Answer, process
<1>2. LabelOf(t, pc[t], job[t], up[ProcOf[t]])
  BY DEF LabelInv
<1>3. \A label : LabelOf(t, label, NoJob, up[ProcOf[t]])
                 <=> label \notin {"defer", "latch", "marker", "meta", "check", "lock", "stat",
                                   "parse", "commit", "delete"}
  BY Numbers, NewJobs DEF LabelOf
<1> DEFINE Result == \E label, j : /\ Becomes(t, label, j) /\ label # "down"
                                   /\ LabelOf(t, label, j, up[ProcOf[t]])
                                   /\ j.kind = "delete" => job[t].kind = "delete" /\ j.path = job[t].path
<1>r. ASSUME NEW label, NEW j, Becomes(t, label, j), label # "down", LabelOf(t, label, j, up[ProcOf[t]]),
             j.kind = "delete" => job[t].kind = "delete" /\ j.path = job[t].path
      PROVE  Result
  BY <1>r
<1> HIDE DEF Result
<1>4. ASSUME NEW label, Goto(t, label), label # "down", UNCHANGED job, LabelOf(t, label, job[t], up[ProcOf[t]])
      PROVE  Result
  <2>1. Becomes(t, label, job[t])
    BY <1>0, <1>4, GotoBecomes
  <2> QED BY <1>4, <1>r, <2>1
<1>5. ASSUME NEW label, Becomes(t, label, NoJob), label \in {"idle", "unmark"}
      PROVE  Result
  <2>1. LabelOf(t, label, NoJob, up[ProcOf[t]])
    BY <1>3, <1>5
  <2>2. NoJob.kind # "delete"
    BY Numbers
  <2> QED BY <1>5, <1>r, <2>1, <2>2
<1>6. ASSUME Becomes(t, "scan", [NoJob EXCEPT !.kind = "scan"])
      PROVE  Result
  <2> DEFINE j == [NoJob EXCEPT !.kind = "scan"]
  <2>1. j.kind = "scan" /\ j.path = None /\ Becomes(t, "scan", j)
    BY <1>6, NewJobs
  <2> HIDE DEF j
  <2>2. LabelOf(t, "scan", j, up[ProcOf[t]])
    BY <2>1 DEF LabelOf
  <2> QED BY <1>r, <2>1, <2>2
<1>7. ASSUME Check(t) /\ Goto(t, "lock") PROVE Result
  BY <1>2, <1>4, <1>7 DEF Check, LabelOf
<1>8. ASSUME TakeLock(t) PROVE Result
  <2>1. Goto(t, IF job[t].kind = "delete" THEN "delete" ELSE "stat") /\ UNCHANGED job /\ pc[t] = "lock"
    BY <1>8 DEF TakeLock
  <2>2. CASE job[t].kind = "delete"
    BY <1>2, <1>4, <2>1, <2>2 DEF LabelOf
  <2>3. CASE job[t].kind # "delete"
    BY <1>2, <1>4, <2>1, <2>3 DEF LabelOf
  <2> QED BY <2>2, <2>3
<1>9. ASSUME Stat(t) \/ Parse(t) PROVE Result
  <2>1. PICK label \in {"commit", "parse"} :
           \E j : Becomes(t, label, j) /\ j.kind = job[t].kind /\ j.path = job[t].path
    BY <1>0, <1>9, StatJob, ParseJob
  <2>2. PICK j : Becomes(t, label, j) /\ j.kind = job[t].kind /\ j.path = job[t].path
    BY <2>1
  <2>3. pc[t] \in {"stat", "parse"}
    BY <1>9 DEF Stat, Parse
  <2>4. LabelOf(t, label, j, up[ProcOf[t]])
    BY <1>2, <2>2, <2>3 DEF LabelOf
  <2> QED BY <1>r, <2>2, <2>4
<1>10. ASSUME CommitPage(t) PROVE Result
  <2>1. CASE job[t].kind = "scan"
    BY <1>6, <1>10, <2>1 DEF CommitPage, Resume, JobAfter
  <2>2. CASE job[t].kind # "scan"
    BY <1>2, <1>5, <1>10, <2>2 DEF CommitPage, Resume, JobAfter, LabelOf
  <2> QED BY <2>1, <2>2
<1>11. ASSUME DeleteRow(t) \/ Answer(t) PROVE Result
  BY <1>5, <1>11 DEF DeleteRow, Answer
<1>12. ASSUME BeginRebuild(t) PROVE Result
  BY <1>6, <1>12 DEF BeginRebuild
<1>13. ASSUME CommitRebuild(t) PROVE Result
  BY <1>5, <1>13 DEF CommitRebuild
<1>14. ASSUME NEW label \in {"unlatch", "unboot", "pop", "replay"}, Goto(t, label), UNCHANGED job,
              pc[t] \in {"unmark", "unlatch", "unboot", "pop"}
       PROVE  Result
  BY <1>2, <1>4, <1>14 DEF LabelOf
<1>15. ASSUME ClearMarker(t) \/ ClearLatch(t) \/ EndBootstrap(t) \/ PopDeferred(t) PROVE Result
  BY <1>14, <1>15 DEF ClearMarker, ClearLatch, EndBootstrap, PopDeferred
<1>16. ASSUME CheckFresh(t) \/ Querying(t) PROVE Result
  <2>1. PICK label \in {"query", "rows", "served", "idle"} :
           \E j : Becomes(t, label, j) /\ j.kind \in {job[t].kind, "none"}
    BY <1>16, ReadJob
  <2>2. PICK j : Becomes(t, label, j) /\ j.kind \in {job[t].kind, "none"}
    BY <2>1
  <2>3. pc[t] \in {"fresh", "query", "rows"}
    BY <1>16, QueryJob DEF CheckFresh
  <2>4. LabelOf(t, label, j, up[ProcOf[t]]) /\ j.kind # "delete"
    BY <1>2, <2>2, <2>3 DEF LabelOf
  <2> QED BY <1>r, <2>2, <2>4
<1>18. ASSUME StartWatcher(t) PROVE Result
  BY <1>2, <1>4, <1>18 DEF StartWatcher, LabelOf
<1>17. Result
  BY <1>7, <1>8, <1>9, <1>10, <1>11, <1>12, <1>13, <1>15, <1>16, <1>18 DEF CalmWork
<1> QED BY <1>1, <1>17 DEF Result

\* A thread that does not end keeps watching.
LEMMA Watches ==
    ASSUME TypeThreads, NEW t \in Threads, NEW label, NEW j, Becomes(t, label, j), label # "down"
    PROVE  Watching => Watching'
<1>1. Watchers \subseteq Threads
  BY ShadowAssumption
<1> QED BY <1>1 DEF TypeThreads, Becomes, Goto, Watching

\* A process that starts makes its idle threads available.
LEMMA StartedLabels ==
    ASSUME TypeThreads, Flags, LabelInv, NEW t \in Threads, Started(t), UNCHANGED job,
           pc[t] \notin PageLabels
    PROVE  LabelInv' /\ (Watching => Watching')
<1>0. ProcOf \in [Threads -> Procs] /\ Watchers \subseteq Threads
  BY ShadowAssumption
<1>1. \A q \in Procs : up[q] => up'[q]
  BY <1>0 DEF Started, Flags
<1>2. Watching => Watching'
  BY <1>0 DEF Started, Watching
<1>3. \A u \in Threads : LabelOf(u, pc'[u], job'[u], up'[ProcOf[u]])
  <2> TAKE u \in Threads
  <2>1. LabelOf(u, pc[u], job[u], up[ProcOf[u]]) /\ (up[ProcOf[u]] => up'[ProcOf[u]])
    BY <1>0, <1>1 DEF LabelInv
  <2>2. CASE pc'[u] = pc[u]
    BY <2>1, <2>2 DEF LabelOf
  <2>3. CASE pc'[u] # pc[u]
    <3>1. pc'[u] = "idle" /\ pc[u] \notin PageLabels
      BY <2>3 DEF Started, PageLabels
    <3> QED BY <2>1, <3>1 DEF LabelOf, PageLabels
  <2> QED BY <2>2, <2>3
<1> QED BY <1>2, <1>3 DEF LabelInv

\* A step of one thread, to a label where its job is allowed.
LEMMA LabelBecomes ==
    ASSUME TypeThreads, LabelInv, NEW t \in Threads, NEW label, NEW j, Becomes(t, label, j),
           UNCHANGED up, LabelOf(t, label, j, up[ProcOf[t]])
    PROVE  LabelInv'
BY DEF TypeThreads, Becomes, Goto, LabelInv

\* A step that takes no removal on and leaves the pages and their events alone.
LEMMA EventKept ==
    ASSUME EventInv, UNCHANGED <<disk, event>>, Watching => Watching',
           \A u \in Threads : job'[u].kind = "delete" => job[u].kind = "delete" /\ job'[u].path = job[u].path
    PROVE  EventInv'
BY DEF EventInv

\* Every thread has the job of its label, and a removal that was overtaken has an event behind it.
LEMMA LabelStep ==
    ASSUME Types, Flags, LockInv, StartInv, LabelInv, EventInv, OneWatcher, CalmNext
    PROVE  LabelInv' /\ EventInv'
<1>0. TypeThreads
  BY DEF Types
<1>1. ProcOf \in [Threads -> Procs] /\ Watchers \subseteq Threads
  BY ShadowAssumption
<1>2. \A u \in Threads : LabelOf(u, pc[u], job[u], up[ProcOf[u]])
  BY DEF LabelInv
<1>3. \A u \in Threads : job[u].kind = "delete" => u \in Watchers /\ up[ProcOf[u]] /\ job[u].path \in Paths
                                                   /\ pc[u] \in {"check", "lock", "delete"}
  BY <1>2 DEF LabelOf, Types, OnPage, PageLabels
\* A page changes, and where somebody watches there is an event of its new state.
<1>4. ASSUME NEW p \in Paths, \A q \in Paths : q # p => disk'[q] = disk[q] /\ event'[q] = event[q],
             Watching => event'[p] # "none" /\ (event'[p] = "deleted" => disk'[p] = 0),
             ~Watching => event'[p] = event[p],
             Watching' <=> Watching,
             \A u \in Threads : job'[u].kind = "delete" => job[u].kind = "delete" /\ job'[u].path = job[u].path
      PROVE  EventInv'
  <2>1. Watching' <=> Watching
    BY <1>4
  <2>2. \A q \in Paths : event'[q] # "none" => Watching'
    BY <1>4, <2>1 DEF EventInv
  <2>3. \A q \in Paths : event'[q] = "deleted" => disk'[q] = 0
    <3> SUFFICES ASSUME NEW q \in Paths, event'[q] = "deleted" PROVE disk'[q] = 0
      OBVIOUS
    <3>1. Watching
      BY <2>1, <2>2
    <3> QED BY <1>4, <3>1 DEF EventInv
  <2>4. ASSUME NEW u \in Threads, job'[u].kind = "delete", disk'[job'[u].path] # 0
        PROVE  event'[job'[u].path] # "none"
    <3>1. u \in Watchers /\ pc[u] # "down" /\ job'[u].path \in Paths /\ job[u].kind = "delete"
          /\ job'[u].path = job[u].path
      BY <1>3, <1>4, <2>4
    <3>2. Watching
      BY <3>1 DEF Watching
    <3> QED BY <1>4, <2>4, <3>1, <3>2 DEF EventInv
  <2> QED BY <2>2, <2>3, <2>4 DEF EventInv
<1>5. ASSUME NEW p \in Paths, Page(p), Watching PROVE LabelInv' /\ EventInv'
  <2>1. UNCHANGED <<pc, job, up>>
    BY <1>5 DEF Page, HumanSave, HumanDelete, process
  <2>2. LabelInv'
    BY <2>1 DEF LabelInv
  <2>3. \A q \in Paths : q # p => disk'[q] = disk[q] /\ event'[q] = event[q]
    BY <1>5 DEF Page, HumanSave, HumanDelete, Notify, Types, TypePages, Flags
  <2>4. event'[p] # "none" /\ (event'[p] = "deleted" => disk'[p] = 0)
    <3>1. CASE HumanSave(p)
      BY <1>5, <3>1 DEF HumanSave, Notify, Flags
    <3>2. CASE HumanDelete(p)
      BY <1>5, <3>2 DEF HumanDelete, Notify, Flags, Types, TypePages
    <3> QED BY <1>5, <3>1, <3>2 DEF Page
  <2>5. Watching' <=> Watching
    BY <2>1 DEF Watching
  <2> QED BY <1>4, <1>5, <2>1, <2>2, <2>3, <2>4, <2>5
<1>6. ASSUME NEW t \in Threads, Prepare(t), pc[t] = "down", t = Main[ProcOf[t]]
      PROVE  LabelInv' /\ EventInv'
  <2>1. UNCHANGED <<job, disk, event>>
    BY <1>6 DEF Prepare
  <2>2. CASE Goto(t, "rebuild") /\ UNCHANGED up
    <3>1. Becomes(t, "rebuild", job[t])
      BY <1>0, <2>1, <2>2, GotoBecomes
    <3>2. LabelOf(t, "rebuild", job[t], up[ProcOf[t]])
      BY <1>2, <1>6 DEF LabelOf
    <3>3. LabelInv'
      BY <1>0, <2>2, <3>1, <3>2, LabelBecomes
    <3> QED BY <1>0, <2>1, <3>1, <3>3, Watches, EventKept
  <2>3. CASE Started(t)
    <3>1. LabelInv' /\ (Watching => Watching')
      BY <1>0, <1>6, <2>1, <2>3, StartedLabels DEF PageLabels
    <3> QED BY <2>1, <3>1, EventKept
  <2> QED BY <1>6, <2>2, <2>3 DEF Prepare
<1>7. ASSUME NEW t \in Threads, EndRebuild(t) PROVE LabelInv' /\ EventInv'
  <2>1. UNCHANGED <<job, disk, event>> /\ Started(t) /\ pc[t] = "replay"
    BY <1>7 DEF EndRebuild
  <2>2. LabelInv' /\ (Watching => Watching')
    BY <1>0, <2>1, StartedLabels DEF PageLabels
  <2> QED BY <2>1, <2>2, EventKept
<1>8. ASSUME NEW t \in Threads, CalmWork(t), ~EndRebuild(t) PROVE LabelInv' /\ EventInv'
  <2>1. UNCHANGED <<disk, event, up>>
    BY <1>8, WorkJob
  <2>2. PICK label : \E j : /\ Becomes(t, label, j) /\ label # "down"
                            /\ LabelOf(t, label, j, up[ProcOf[t]])
                            /\ j.kind = "delete" => job[t].kind = "delete" /\ j.path = job[t].path
    BY <1>8, WorkJob
  <2>3. PICK j : /\ Becomes(t, label, j) /\ label # "down"
                 /\ LabelOf(t, label, j, up[ProcOf[t]])
                 /\ j.kind = "delete" => job[t].kind = "delete" /\ j.path = job[t].path
    BY <2>2
  <2>4. \A u \in Threads : job'[u].kind = "delete" => job[u].kind = "delete" /\ job'[u].path = job[u].path
    BY <1>0, <2>3 DEF Becomes, TypeThreads
  <2> QED BY <1>0, <2>1, <2>3, <2>4, LabelBecomes, Watches, EventKept
<1>9. ASSUME NEW t \in Threads, NEW p \in Paths, RobotWrite(t, p) PROVE LabelInv' /\ EventInv'
  <2>1. Becomes(t, "check", Sync(p, saves + 1)) /\ UNCHANGED up /\ up[ProcOf[t]]
        /\ disk' = [disk EXCEPT ![p] = saves + 1] /\ Notify(p, "modified")
    BY <1>9 DEF RobotWrite, Free, process
  <2>2. LabelOf(t, "check", Sync(p, saves + 1), up[ProcOf[t]])
    BY <2>1, NewJobs DEF LabelOf
  <2>3. LabelInv'
    BY <1>0, <2>1, <2>2, LabelBecomes
  <2>4. \A u \in Threads : job'[u].kind = "delete" => job[u].kind = "delete" /\ job'[u].path = job[u].path
    BY <1>0, <2>1, NewJobs DEF Becomes, TypeThreads
  <2>5. \A q \in Paths : q # p => disk'[q] = disk[q] /\ event'[q] = event[q]
    BY <2>1 DEF Notify, Types, TypePages, Flags
  <2>6. IF Watching THEN event'[p] = "modified" ELSE event'[p] = event[p]
    BY <2>1 DEF Notify, Flags
  <2>7. Watching' <=> Watching
    <3>1. pc[t] = "idle" /\ \A u \in Threads : pc'[u] = IF u = t THEN "check" ELSE pc[u]
      BY <1>0, <1>9, <2>1 DEF RobotWrite, Free, Becomes, Goto, TypeThreads
    <3> QED BY <1>1, <3>1 DEF Watching
  <2> QED BY <1>4, <2>1, <2>3, <2>4, <2>5, <2>6, <2>7
<1>10. ASSUME NEW t \in Threads, NEW p \in Paths, Deliver(t, p) PROVE LabelInv' /\ EventInv'
  <2>1. /\ t \in Watchers /\ pc[t] = "idle" /\ up[ProcOf[t]] /\ UNCHANGED <<disk, up>>
        /\ event' = [event EXCEPT ![p] = "none"]
    BY <1>10 DEF Deliver, Free, process
  <2>2. PICK j : /\ Becomes(t, "check", j) /\ j.path = p
                 /\ \/ j.kind = "delete" /\ event[p] = "deleted"
                    \/ j.kind = "sync"
    <3> DEFINE d == [Sync(p, 0) EXCEPT !.kind = "delete"]
               m == Sync(p, disk[p])
    <3>1. d.kind = "delete" /\ d.path = p /\ m.kind = "sync" /\ m.path = p
      BY NewJobs
    <3>2. \/ event[p] = "deleted" /\ Becomes(t, "check", d)
          \/ Becomes(t, "check", m)
      BY <1>10, EventJob
    <3> HIDE DEF d, m
    <3> QED BY <3>1, <3>2
  <2>3. LabelOf(t, "check", j, up[ProcOf[t]])
    BY <2>1, <2>2 DEF LabelOf
  <2>4. LabelInv'
    BY <1>0, <2>1, <2>2, <2>3, LabelBecomes
  <2>5. \A q \in Paths : (event'[q] # "none" => Watching') /\ (event'[q] = "deleted" => disk'[q] = 0)
    <3>1. Watching => Watching'
      BY <1>0, <2>2, Watches
    <3> QED BY <2>1, <3>1 DEF EventInv, Flags
  <2>6. ASSUME NEW u \in Threads, job'[u].kind = "delete", disk'[job'[u].path] # 0
        PROVE  event'[job'[u].path] # "none"
    <3>1. CASE u = t
      BY <1>0, <2>1, <2>2, <2>6, <3>1 DEF Becomes, TypeThreads, EventInv
    <3>2. CASE u # t
      <4>1. job'[u] = job[u]
        BY <1>0, <2>2, <3>2 DEF Becomes, TypeThreads
      <4>2. u \in Watchers /\ pc[u] # "idle"
        BY <1>3, <2>6, <4>1
      <4> QED BY <2>1, <3>2, <4>2 DEF OneWatcher
    <3> QED BY <3>1, <3>2
  <2> QED BY <2>4, <2>5, <2>6 DEF EventInv
\* A step that takes no removal on.
<1>11. ASSUME NEW t \in Threads, NEW label, NEW j, Becomes(t, label, j), UNCHANGED <<disk, event, up>>,
              label # "down", LabelOf(t, label, j, up[ProcOf[t]]), j.kind # "delete"
       PROVE  LabelInv' /\ EventInv'
  <2>1. \A u \in Threads : job'[u].kind = "delete" => job[u].kind = "delete" /\ job'[u].path = job[u].path
    BY <1>0, <1>11 DEF Becomes, TypeThreads
  <2> QED BY <1>0, <1>11, <2>1, LabelBecomes, Watches, EventKept
<1>12. ASSUME NEW t \in Threads, NEW p \in Paths, ScanPage(t, p) PROVE LabelInv' /\ EventInv'
  <2>1. pc[t] = "scan" /\ job[t].kind = "scan" /\ UNCHANGED <<disk, event, up>>
    BY <1>12 DEF ScanPage, LockInv, process
  <2>2. PICK j : Becomes(t, "stat", j) /\ j.kind = "scan"
    <3>1. [job[t] EXCEPT !.path = p].kind = "scan"
      BY <1>0, <2>1 DEF TypeThreads, Jobs
    <3> QED BY <1>12, <3>1 DEF ScanPage
  <2> QED BY <1>11, <2>1, <2>2 DEF LabelOf
<1>13. ASSUME NEW t \in Threads, NEW p \in Paths, ReadHealth(t, p) PROVE LabelInv' /\ EventInv'
  <2>1. UNCHANGED <<disk, event, up>>
    BY <1>13 DEF ReadHealth, process
  <2>2. PICK j : Becomes(t, "fresh", j) /\ j.kind = "read"
    BY <1>13, NewJobs DEF ReadHealth
  <2> QED BY <1>11, <2>1, <2>2 DEF LabelOf
<1>14. CASE UNCHANGED vars
  BY <1>14 DEF vars, process, LabelInv, EventInv, Watching
<1> QED BY <1>5, <1>6, <1>7, <1>8, <1>9, <1>10, <1>12, <1>13, <1>14 DEF CalmNext

-----------------------------------------------------------------------------
(* What lacks a page is followed by what brings it *)

PagesInv == ReadersInv /\ CacheInv /\ ScanInv

\* A step of a thread that waits for no page, or goes on waiting for its own.
LEMMA WaitsOn ==
    ASSUME TypeThreads, UNCHANGED <<disk, event>>, NEW t \in Threads, NEW label, NEW j,
           Becomes(t, label, j), NEW p \in Paths, Waiting(p),
           Waits(t, p) => label \in {"check", "lock"} /\ j.path = job[t].path /\ j.kind = job[t].kind
    PROVE  Waiting(p)'
<1>1. CASE event[p] # "none"
  BY <1>1 DEF Waiting
<1>2. CASE \E u \in Threads : Waits(u, p)
  <2>1. PICK u \in Threads : Waits(u, p)
    BY <1>2
  <2>2. Waits(u, p)'
    BY <2>1 DEF Waits, Becomes, Goto, TypeThreads
  <2> QED BY <2>2 DEF Waiting
<1> QED BY <1>1, <1>2 DEF Waiting

\* A step that leaves the cache and the pages alone, of a thread that is not at a page.
LEMMA PagesKept ==
    ASSUME Types, PagesInv, NEW t \in Threads, UNCHANGED <<disk, db, tx>>,
           \A q \in Paths : Waiting(q) => Waiting(q)',
           \A u \in Threads : u # t => /\ job'[u] = job[u] /\ todo'[u] = todo[u]
                                       /\ pc'[u] = pc[u] \/ (pc[u] = "down" /\ pc'[u] = "idle"),
           pc[t] \notin {"stat", "parse", "commit", "delete"}, pc'[t] \notin {"parse", "commit"},
           job'[t].kind = "scan" =>
              /\ job[t].kind = "scan"
              /\ \A q \in Paths : q \in todo[t] \/ job[t].path = q => q \in todo'[t] \/ job'[t].path = q
    PROVE  PagesInv'
<1>2. ReadersInv'
  <2> SUFFICES ASSUME NEW u \in Threads, NEW q \in Paths, pc'[u] \in {"parse", "commit"}, job'[u].path = q
               PROVE  HasRead(u)' \/ Waiting(q)'
    BY DEF ReadersInv
  <2>1. u # t /\ job'[u] = job[u] /\ pc'[u] = pc[u]
    OBVIOUS
  <2>2. HasRead(u) \/ Waiting(q)
    BY <2>1 DEF PagesInv, ReadersInv
  <2>3. HasRead(u) => HasRead(u)'
    BY <2>1 DEF HasRead
  <2> QED BY <2>2, <2>3
<1>3. CacheInv'
  <2> SUFFICES ASSUME db.completed, NEW q \in Paths
               PROVE  Waiting(q)' \/ CurrentIn(db, q)' \/ \E u \in Threads : AtPage(u, q)'
    BY DEF CacheInv
  <2>1. CurrentIn(db, q) => CurrentIn(db, q)'
    BY DEF CurrentIn
  <2>2. \A u \in Threads : AtPage(u, q) => AtPage(u, q)'
    BY DEF AtPage
  <2> QED BY <2>1, <2>2 DEF PagesInv, CacheInv
<1>4. ScanInv'
  <2> SUFFICES ASSUME NEW u \in Threads, NEW q \in Paths, job'[u].kind = "scan"
               PROVE  q \in todo'[u] \/ job'[u].path = q \/ Waiting(q)' \/ CurrentIn(tx, q)'
    BY DEF ScanInv
  <2>1. CurrentIn(tx, q) => CurrentIn(tx, q)'
    BY DEF CurrentIn
  <2>2. job[u].kind = "scan" /\ (q \in todo[u] \/ job[u].path = q => q \in todo'[u] \/ job'[u].path = q)
    OBVIOUS
  <2> QED BY <2>1, <2>2 DEF PagesInv, ScanInv
<1> QED BY <1>2, <1>3, <1>4 DEF PagesInv

\* A page changes, and its new state waits to be brought.
LEMMA PageChanged ==
    ASSUME Types, LockInv, PagesInv, NEW p \in Paths, Waiting(p)', UNCHANGED <<db, tx, todo>>,
           \A q \in Paths : q # p => disk'[q] = disk[q] /\ event'[q] = event[q],
           \A u \in Threads : \/ job'[u] = job[u] /\ pc'[u] = pc[u]
                              \/ pc[u] = "idle" /\ pc'[u] = "check" /\ job'[u].kind # "scan"
    PROVE  PagesInv'
<1>1. ASSUME NEW q \in Paths, q # p PROVE Waiting(q) => Waiting(q)'
  <2>1. \A u \in Threads : Waits(u, q) => Waits(u, q)'
    BY <1>1 DEF Waits
  <2> QED BY <1>1, <2>1 DEF Waiting
<1>2. \A q \in Paths : q # p => /\ CurrentIn(db, q) => CurrentIn(db, q)'
                                /\ CurrentIn(tx, q) => CurrentIn(tx, q)'
  BY DEF CurrentIn
<1>3. ReadersInv'
  <2> SUFFICES ASSUME NEW u \in Threads, NEW q \in Paths, pc'[u] \in {"parse", "commit"}, job'[u].path = q
               PROVE  HasRead(u)' \/ Waiting(q)'
    BY DEF ReadersInv
  <2>1. job'[u] = job[u] /\ pc'[u] = pc[u]
    OBVIOUS
  <2>2. CASE q # p
    <3>1. HasRead(u) => HasRead(u)'
      BY <2>1, <2>2 DEF HasRead
    <3> QED BY <1>1, <2>1, <2>2, <3>1 DEF PagesInv, ReadersInv
  <2> QED BY <2>2
<1>4. CacheInv'
  <2> SUFFICES ASSUME db.completed, NEW q \in Paths
               PROVE  Waiting(q)' \/ CurrentIn(db, q)' \/ \E u \in Threads : AtPage(u, q)'
    BY DEF CacheInv
  <2>1. \A u \in Threads : AtPage(u, q) => AtPage(u, q)'
    BY DEF AtPage
  <2> QED BY <1>1, <1>2, <2>1 DEF PagesInv, CacheInv
<1>5. ScanInv'
  <2> SUFFICES ASSUME NEW u \in Threads, NEW q \in Paths, job'[u].kind = "scan"
               PROVE  q \in todo'[u] \/ job'[u].path = q \/ Waiting(q)' \/ CurrentIn(tx, q)'
    BY DEF ScanInv
  <2>1. job'[u] = job[u]
    OBVIOUS
  <2> QED BY <1>1, <1>2, <2>1 DEF PagesInv, ScanInv
<1> QED BY <1>3, <1>4, <1>5 DEF PagesInv

\* A page is read by who holds the flock.
LEMMA PageRead ==
    ASSUME Types, PagesInv, NEW t \in Threads, NEW label \in {"parse", "commit"}, NEW j,
           Becomes(t, label, j), UNCHANGED <<disk, event, db, tx, todo>>,
           pc[t] \in {"stat", "parse"}, j.kind = job[t].kind, j.path = job[t].path,
           \A q \in Paths : job[t].path = q => HasRead(t)' \/ Waiting(q)
    PROVE  PagesInv'
<1>0. TypeThreads
  BY DEF Types
<1>1. /\ pc'[t] = label /\ job'[t] = j
      /\ \A u \in Threads : u # t => pc'[u] = pc[u] /\ job'[u] = job[u]
  BY <1>0 DEF Becomes, Goto, TypeThreads
<1>2. \A q \in Paths : Waiting(q) => Waiting(q)'
  <2> SUFFICES ASSUME NEW q \in Paths, Waiting(q) PROVE Waiting(q)'
    OBVIOUS
  <2>1. ~Waits(t, q)
    BY DEF Waits
  <2> QED BY <1>0, <2>1, WaitsOn
<1>3. \A q \in Paths : /\ CurrentIn(db, q) => CurrentIn(db, q)'
                       /\ CurrentIn(tx, q) => CurrentIn(tx, q)'
  BY DEF CurrentIn
<1>4. ReadersInv'
  <2> SUFFICES ASSUME NEW u \in Threads, NEW q \in Paths, pc'[u] \in {"parse", "commit"}, job'[u].path = q
               PROVE  HasRead(u)' \/ Waiting(q)'
    BY DEF ReadersInv
  <2>1. CASE u = t
    BY <1>1, <1>2, <2>1
  <2>2. CASE u # t
    <3>1. HasRead(u) => HasRead(u)'
      BY <1>1, <2>2 DEF HasRead
    <3> QED BY <1>1, <1>2, <2>2, <3>1 DEF PagesInv, ReadersInv
  <2> QED BY <2>1, <2>2
<1>5. CacheInv'
  <2> SUFFICES ASSUME db.completed, NEW q \in Paths
               PROVE  Waiting(q)' \/ CurrentIn(db, q)' \/ \E u \in Threads : AtPage(u, q)'
    BY DEF CacheInv
  <2>1. \A u \in Threads : AtPage(u, q) => AtPage(u, q)'
    BY <1>1 DEF AtPage
  <2> QED BY <1>2, <1>3, <2>1 DEF PagesInv, CacheInv
<1>6. ScanInv'
  <2> SUFFICES ASSUME NEW u \in Threads, NEW q \in Paths, job'[u].kind = "scan"
               PROVE  q \in todo'[u] \/ job'[u].path = q \/ Waiting(q)' \/ CurrentIn(tx, q)'
    BY DEF ScanInv
  <2>1. job'[u].kind = job[u].kind /\ job'[u].path = job[u].path
    BY <1>1
  <2> QED BY <1>2, <1>3, <2>1 DEF PagesInv, ScanInv
<1> QED BY <1>4, <1>5, <1>6 DEF PagesInv

\* A page that is put into a generation as it is now is current there; other pages stay.
LEMMA UpsertCurrent ==
    ASSUME TypePages, NEW d \in Dbs, NEW e, NEW p \in Paths, NEW stamp \in Saves, NEW text \in Saves,
           e.rows = Upsert(d, p, stamp, text).rows, e.parked = Upsert(d, p, stamp, text).parked
    PROVE  /\ \A q \in Paths : q # p /\ CurrentIn(d, q) => CurrentIn(e, q)
           /\ stamp = disk[p] /\ text \in {0, stamp} => CurrentIn(e, p)
<1>1. e.rows = [d.rows EXCEPT ![p] = NewRowOf(stamp, text)] /\ d.rows \in [Paths -> RowType]
  BY UpsertRows DEF Dbs
<1>2. e.parked = IF stamp # 0 /\ text = 0 THEN d.parked \cup {p} ELSE d.parked \ {p}
  BY DEF Upsert, Dbs
<1>3. \A q \in Paths : q # p => e.rows[q] = d.rows[q] /\ (q \in e.parked <=> q \in d.parked)
  BY <1>1, <1>2
<1>4. e.rows[p] = NewRowOf(stamp, text)
  BY <1>1
<1>5. ASSUME stamp = disk[p], text \in {0, stamp} PROVE CurrentIn(e, p)
  <2>1. CASE stamp = 0
    BY <1>4, <1>5, <2>1 DEF CurrentIn, NewRowOf
  <2>2. CASE stamp # 0 /\ text = 0
    BY <1>2, <1>5, <2>2 DEF CurrentIn
  <2>3. CASE stamp # 0 /\ text = stamp
    <3>1. e.rows[p].text = disk[p]
      BY <1>4, <1>5, <2>3 DEF NewRowOf
    <3> QED BY <1>5, <2>3, <3>1 DEF CurrentIn
  <2> QED BY <1>5, <2>1, <2>2, <2>3
<1> QED BY <1>3, <1>5 DEF CurrentIn

\* Who holds the flock is alone at a page and with a rebuild.
LEMMA AloneAtPage ==
    ASSUME LockInv, NEW t \in Threads, flock \in {t, None}
    PROVE  \A u \in Threads : u # t => /\ pc[u] \notin {"stat", "parse", "commit", "delete"}
                                       /\ job[u].kind # "scan"
BY ShadowAssumption DEF LockInv, HoldLabels

\* The holder of the flock puts its page into the committed cache.
LEMMA RowWritten ==
    ASSUME Types, LockInv, PagesInv, NEW t \in Threads, NEW p \in Paths, flock = t,
           pc[t] \in {"commit", "delete"}, job[t].path = p,
           Becomes(t, "idle", NoJob), UNCHANGED <<disk, event, tx, todo>>,
           NEW stamp \in Saves, NEW text \in Saves, db' = Upsert(db, p, stamp, text),
           (stamp = disk[p] /\ text \in {0, stamp}) \/ Waiting(p)
    PROVE  PagesInv'
<1>0. TypeThreads /\ TypePages /\ db \in Dbs
  BY DEF Types, TypeCache
<1>1. /\ pc'[t] = "idle" /\ job'[t].kind = "none"
      /\ \A u \in Threads : u # t => pc'[u] = pc[u] /\ job'[u] = job[u]
  BY <1>0, Numbers DEF Becomes, Goto, TypeThreads
<1>2. \A u \in Threads : pc'[u] \notin {"parse", "commit"} /\ job'[u].kind # "scan"
  BY <1>1, AloneAtPage
<1>3. \A q \in Paths : Waiting(q) => Waiting(q)'
  <2> SUFFICES ASSUME NEW q \in Paths, Waiting(q) PROVE Waiting(q)'
    OBVIOUS
  <2>1. ~Waits(t, q)
    BY DEF Waits
  <2> QED BY <1>0, <2>1, WaitsOn
<1>4. /\ \A q \in Paths : q # p /\ CurrentIn(db, q) => CurrentIn(db', q)
      /\ stamp = disk[p] /\ text \in {0, stamp} => CurrentIn(db', p)
  <2>1. PICK e : e = db'
    OBVIOUS
  <2>2. e.rows = Upsert(db, p, stamp, text).rows /\ e.parked = Upsert(db, p, stamp, text).parked
    BY <2>1
  <2>3. /\ \A q \in Paths : q # p /\ CurrentIn(db, q) => CurrentIn(e, q)
        /\ stamp = disk[p] /\ text \in {0, stamp} => CurrentIn(e, p)
    BY <1>0, <2>2, UpsertCurrent
  <2> QED BY <2>1, <2>3
<1>5. \A q \in Paths : CurrentIn(db', q) => CurrentIn(db, q)'
  BY DEF CurrentIn
<1>6. CacheInv'
  <2> SUFFICES ASSUME db.completed, NEW q \in Paths PROVE Waiting(q)' \/ CurrentIn(db, q)'
    <3>1. db'.completed => db.completed
      BY <1>0 DEF Upsert, Dbs
    <3> QED BY <3>1 DEF CacheInv
  <2>1. CASE q = p
    BY <1>3, <1>4, <1>5, <2>1
  <2>2. CASE q # p
    <3>1. \A u \in Threads : ~AtPage(u, q)
      BY <2>2, AloneAtPage DEF AtPage
    <3> QED BY <1>3, <1>4, <1>5, <2>2, <3>1 DEF PagesInv, CacheInv
  <2> QED BY <2>1, <2>2
<1> QED BY <1>2, <1>6 DEF PagesInv, ReadersInv, ScanInv

\* A rebuild puts its page into its transaction.
LEMMA RowScanned ==
    ASSUME Types, LockInv, PagesInv, NEW t \in Threads, NEW p \in Paths, flock = t,
           pc[t] = "commit", job[t].path = p, job[t].kind = "scan", NEW j, j.kind = "scan",
           Becomes(t, "scan", j), UNCHANGED <<disk, event, db, todo>>,
           NEW stamp \in Saves, NEW text \in Saves,
           tx'.rows = Upsert(tx, p, stamp, text).rows, tx'.parked = Upsert(tx, p, stamp, text).parked,
           (stamp = disk[p] /\ text \in {0, stamp}) \/ Waiting(p)
    PROVE  PagesInv'
<1>0. TypeThreads /\ TypePages /\ tx \in Dbs
  BY DEF Types, TypeCache
<1>1. /\ pc'[t] = "scan" /\ job'[t].kind = "scan"
      /\ \A u \in Threads : u # t => pc'[u] = pc[u] /\ job'[u] = job[u]
  BY <1>0 DEF Becomes, Goto, TypeThreads
<1>2. \A u \in Threads : pc'[u] \notin {"parse", "commit"} /\ (u # t => job'[u].kind # "scan")
  BY <1>1, AloneAtPage
<1>3. \A q \in Paths : Waiting(q) => Waiting(q)'
  <2> SUFFICES ASSUME NEW q \in Paths, Waiting(q) PROVE Waiting(q)'
    OBVIOUS
  <2>1. ~Waits(t, q)
    BY DEF Waits
  <2> QED BY <1>0, <2>1, WaitsOn
<1>4. /\ \A q \in Paths : q # p /\ CurrentIn(tx, q) => CurrentIn(tx', q)
      /\ stamp = disk[p] /\ text \in {0, stamp} => CurrentIn(tx', p)
  BY <1>0, UpsertCurrent
<1>5. \A q \in Paths : /\ CurrentIn(tx', q) => CurrentIn(tx, q)'
                       /\ CurrentIn(db, q) => CurrentIn(db, q)'
  BY DEF CurrentIn
<1>6. ScanInv'
  <2> SUFFICES ASSUME NEW q \in Paths PROVE q \in todo'[t] \/ Waiting(q)' \/ CurrentIn(tx, q)'
    BY <1>2 DEF ScanInv
  <2>1. CASE q = p
    BY <1>3, <1>4, <1>5, <2>1
  <2>2. CASE q # p
    BY <1>3, <1>4, <1>5, <2>2 DEF PagesInv, ScanInv
  <2> QED BY <2>1, <2>2
<1>7. CacheInv'
  <2> SUFFICES ASSUME db.completed, NEW q \in Paths PROVE Waiting(q)' \/ CurrentIn(db, q)'
    BY DEF CacheInv
  <2>1. \A u \in Threads : ~AtPage(u, q)
    BY AloneAtPage DEF AtPage
  <2> QED BY <1>3, <1>5, <2>1 DEF PagesInv, CacheInv
<1> QED BY <1>2, <1>6, <1>7 DEF PagesInv, ReadersInv

\* The steps of a rebuild, and of who takes the flock for a page.
LEMMA PagesRebuild ==
    ASSUME Types, LockInv, LabelInv, PagesInv, NEW t \in Threads,
           TakeLock(t) \/ BeginRebuild(t) \/ CommitRebuild(t)
    PROVE  PagesInv'
<1>0. TypeThreads
  BY DEF Types
<1>free. \A u \in Threads : u # t => /\ pc[u] \notin {"stat", "parse", "commit", "delete"}
                                     /\ job[u].kind # "scan"
  <2>1. flock \in {t, None}
    BY DEF TakeLock, BeginRebuild, CommitRebuild, LockInv, HoldLabels
  <2> QED BY <2>1, AloneAtPage
<1>label. LabelOf(t, pc[t], job[t], up[ProcOf[t]])
  BY DEF LabelInv
<1>1. CASE TakeLock(t)
  <2>1. /\ pc[t] = "lock" /\ UNCHANGED <<disk, event, db, tx, todo, job>>
        /\ Goto(t, IF job[t].kind = "delete" THEN "delete" ELSE "stat")
    BY <1>1 DEF TakeLock, cache
  <2>2. /\ pc'[t] \in {"delete", "stat"} /\ \A u \in Threads : u # t => pc'[u] = pc[u]
    BY <1>0, <2>1 DEF Goto, TypeThreads
  <2>3. job[t].kind \in {"sync", "delete"}
    BY <1>label, <2>1 DEF LabelOf
  <2>4. \A u \in Threads : pc'[u] \notin {"parse", "commit"} /\ job'[u].kind # "scan"
    BY <1>free, <2>1, <2>2, <2>3
  <2>5. CacheInv'
    <3> SUFFICES ASSUME db.completed, NEW q \in Paths
                 PROVE  Waiting(q)' \/ CurrentIn(db, q)' \/ \E u \in Threads : AtPage(u, q)'
      BY <2>1 DEF CacheInv
    <3>1. CurrentIn(db, q) => CurrentIn(db, q)'
      BY <2>1 DEF CurrentIn
    <3>2. \A u \in Threads : ~AtPage(u, q)
      BY <1>free, <2>1 DEF AtPage
    <3>3. CASE job[t].path = q
      BY <2>1, <2>2, <2>3, <3>3 DEF AtPage
    <3>4. CASE job[t].path # q
      <4>1. Becomes(t, pc'[t], job[t]) /\ ~Waits(t, q)
        BY <1>0, <2>1, <3>4 DEF Becomes, Goto, Waits, TypeThreads
      <4>2. Waiting(q) => Waiting(q)'
        BY <1>0, <2>1, <4>1, WaitsOn
      <4> QED BY <3>1, <3>2, <4>2 DEF PagesInv, CacheInv
    <3> QED BY <3>3, <3>4
  <2> QED BY <2>4, <2>5 DEF PagesInv, ReadersInv, ScanInv
<1>2. ASSUME NEW label, NEW j, Becomes(t, label, j), pc[t] \notin {"check", "lock"},
             UNCHANGED <<disk, event>>
      PROVE  \A q \in Paths : Waiting(q) => Waiting(q)'
  <2> SUFFICES ASSUME NEW q \in Paths, Waiting(q) PROVE Waiting(q)'
    OBVIOUS
  <2>1. ~Waits(t, q)
    BY <1>2 DEF Waits
  <2> QED BY <1>0, <1>2, <2>1, WaitsOn
<1>3. CASE BeginRebuild(t)
  <2> DEFINE j == [NoJob EXCEPT !.kind = "scan"]
  <2>1. /\ pc[t] = "rebuild" /\ Becomes(t, "scan", j) /\ UNCHANGED <<disk, event, db>>
        /\ todo' = [todo EXCEPT ![t] = {p \in Paths : disk[p] # 0}]
        /\ tx' = [NoDb EXCEPT !.source = Cardinality({p \in Paths : disk[p] # 0})]
    BY <1>3 DEF BeginRebuild
  <2>2. j.kind = "scan" /\ j.path = None
    BY NewJobs
  <2> HIDE DEF j
  <2>3. /\ pc'[t] = "scan" /\ job'[t] = j
        /\ \A u \in Threads : u # t => pc'[u] = pc[u] /\ job'[u] = job[u]
    BY <1>0, <2>1 DEF Becomes, Goto, TypeThreads
  <2>4. \A u \in Threads : pc'[u] \notin {"parse", "commit"} /\ (u # t => job'[u].kind # "scan")
    BY <1>free, <2>3
  <2>5. \A q \in Paths : Waiting(q) => Waiting(q)'
    BY <1>2, <2>1
  <2>6. CacheInv'
    <3> SUFFICES ASSUME db.completed, NEW q \in Paths PROVE Waiting(q)' \/ CurrentIn(db, q)'
      BY <2>1 DEF CacheInv
    <3>1. CurrentIn(db, q) => CurrentIn(db, q)'
      BY <2>1 DEF CurrentIn
    <3>2. \A u \in Threads : ~AtPage(u, q)
      BY <1>free, <2>1 DEF AtPage
    <3> QED BY <2>5, <3>1, <3>2 DEF PagesInv, CacheInv
  <2>7. ScanInv'
    <3> SUFFICES ASSUME NEW q \in Paths PROVE q \in todo'[t] \/ CurrentIn(tx, q)'
      BY <2>4 DEF ScanInv
    <3>1. q \in todo'[t] \/ disk[q] = 0
      BY <2>1 DEF Types, TypeSets
    <3>2. tx'.rows[q] = NoRow
      BY <2>1, Numbers DEF NoDb
    <3> QED BY <2>1, <3>1, <3>2 DEF CurrentIn
  <2> QED BY <2>4, <2>6, <2>7 DEF PagesInv, ReadersInv
<1>4. CASE CommitRebuild(t)
  <2>1. /\ pc[t] = "scan" /\ todo[t] = {} /\ Becomes(t, "unmark", NoJob) /\ UNCHANGED <<disk, event, todo>>
        /\ db' = [tx EXCEPT !.completed = TRUE]
    BY <1>4 DEF CommitRebuild
  <2>2. job[t].kind = "scan" /\ job[t].path \notin Paths
    BY <1>label, <2>1, ShadowAssumption DEF LabelOf, LockInv
  <2>3. /\ pc'[t] = "unmark" /\ job'[t].kind = "none"
        /\ \A u \in Threads : u # t => pc'[u] = pc[u] /\ job'[u] = job[u]
    BY <1>0, <2>1, Numbers DEF Becomes, Goto, TypeThreads
  <2>4. \A u \in Threads : pc'[u] \notin {"parse", "commit"} /\ job'[u].kind # "scan"
    BY <1>free, <2>3
  <2>5. \A q \in Paths : Waiting(q) => Waiting(q)'
    BY <1>2, <2>1
  <2>6. \A q \in Paths : Waiting(q)' \/ CurrentIn(db, q)'
    <3> TAKE q \in Paths
    <3>1. Waiting(q) \/ CurrentIn(tx, q)
      BY <2>1, <2>2 DEF PagesInv, ScanInv
    <3>2. db'.rows = tx.rows /\ db'.parked = tx.parked
      BY <2>1 DEF Types, TypeCache, Dbs
    <3>3. CurrentIn(tx, q) => CurrentIn(db, q)'
      BY <2>1, <3>2 DEF CurrentIn
    <3> QED BY <2>5, <3>1, <3>3
  <2> QED BY <2>4, <2>6 DEF PagesInv, ReadersInv, ScanInv, CacheInv
<1> QED BY <1>1, <1>3, <1>4

\* Every step that counts as calm keeps the pages coming.
LEMMA PagesStep ==
    ASSUME Types, Flags, LockInv, StartInv, LabelInv, EventInv, PagesInv, CalmNext
    PROVE  PagesInv'
<1>0. TypeThreads /\ TypePages /\ TypeCache /\ TypeSets
  BY DEF Types
<1>jobs. \A u \in Threads : job[u] \in Jobs /\ job[u].stamp \in Saves /\ job[u].text \in Saves
  BY <1>0 DEF TypeThreads, Jobs
<1>1. ASSUME NEW p \in Paths, Page(p), Watching PROVE PagesInv'
  <2>1. Notify(p, "modified") \/ Notify(p, "deleted")
    BY <1>1 DEF Page, HumanSave, HumanDelete, cache
  <2>2. UNCHANGED <<db, tx, todo, pc, job>>
    BY <1>1 DEF Page, HumanSave, HumanDelete, cache
  <2>3. \A q \in Paths : q # p => disk'[q] = disk[q] /\ event'[q] = event[q]
    BY <1>0, <1>1 DEF Page, HumanSave, HumanDelete, Notify, TypePages, Flags
  <2>4. event'[p] # "none"
    BY <1>1, <2>1 DEF Notify, Flags
  <2> QED BY <2>2, <2>3, <2>4, PageChanged DEF Waiting
<1>2. ASSUME NEW t \in Threads, NEW p \in Paths, RobotWrite(t, p) PROVE PagesInv'
  <2>1. /\ pc[t] = "idle" /\ Becomes(t, "check", Sync(p, saves + 1)) /\ UNCHANGED <<db, tx, todo>>
        /\ disk' = [disk EXCEPT ![p] = saves + 1] /\ Notify(p, "modified")
    BY <1>2 DEF RobotWrite, Free, cache
  <2>2. Sync(p, saves + 1).kind = "sync" /\ Sync(p, saves + 1).path = p
    BY NewJobs
  <2>3. /\ pc'[t] = "check" /\ job'[t].kind = "sync" /\ job'[t].path = p
        /\ \A u \in Threads : u # t => pc'[u] = pc[u] /\ job'[u] = job[u]
    BY <1>0, <2>1, <2>2 DEF Becomes, Goto, TypeThreads
  <2>4. \A q \in Paths : q # p => disk'[q] = disk[q] /\ event'[q] = event[q]
    BY <1>0, <2>1 DEF Notify, TypePages, Flags
  <2>5. Waiting(p)'
    BY <2>3 DEF Waiting, Waits
  <2>6. \A u \in Threads : \/ job'[u] = job[u] /\ pc'[u] = pc[u]
                           \/ pc[u] = "idle" /\ pc'[u] = "check" /\ job'[u].kind # "scan"
    BY <2>1, <2>3
  <2> QED BY <2>1, <2>4, <2>5, <2>6, PageChanged
\* A step of a thread that is not at a page, and takes none into or out of a rebuild.
<1>3. ASSUME NEW t \in Threads, NEW label, NEW j, Becomes(t, label, j),
             UNCHANGED <<disk, event, db, tx>>, \A u \in Threads : u # t => todo'[u] = todo[u],
             pc[t] \notin {"check", "lock", "stat", "parse", "commit", "delete"},
             label \notin {"parse", "commit"},
             j.kind = "scan" => /\ job[t].kind = "scan"
                                /\ \A q \in Paths : q \in todo[t] \/ job[t].path = q
                                                      => q \in todo'[t] \/ j.path = q
      PROVE  PagesInv'
  <2>1. /\ pc'[t] = label /\ job'[t] = j
        /\ \A u \in Threads : u # t => pc'[u] = pc[u] /\ job'[u] = job[u]
    BY <1>0, <1>3 DEF Becomes, Goto, TypeThreads
  <2>2. \A q \in Paths : Waiting(q) => Waiting(q)'
    <3> SUFFICES ASSUME NEW q \in Paths, Waiting(q) PROVE Waiting(q)'
      OBVIOUS
    <3>1. ~Waits(t, q)
      BY <1>3 DEF Waits
    <3> QED BY <1>0, <1>3, <3>1, WaitsOn
  <2> QED BY <1>3, <2>1, <2>2, PagesKept
<1>4. ASSUME NEW t \in Threads, NEW p \in Paths, Deliver(t, p) PROVE PagesInv'
  <2>1. pc[t] = "idle" /\ UNCHANGED <<disk, db, tx, todo>> /\ event' = [event EXCEPT ![p] = "none"]
    BY <1>4 DEF Deliver, Free, cache
  <2>2. PICK j : /\ Becomes(t, "check", j) /\ j.path = p
                 /\ \/ j.kind = "delete" /\ event[p] = "deleted"
                    \/ j.kind = "sync"
    <3> DEFINE d == [Sync(p, 0) EXCEPT !.kind = "delete"]
               m == Sync(p, disk[p])
    <3>1. d.kind = "delete" /\ d.path = p /\ m.kind = "sync" /\ m.path = p
      BY NewJobs
    <3>2. \/ event[p] = "deleted" /\ Becomes(t, "check", d)
          \/ Becomes(t, "check", m)
      BY <1>4, EventJob
    <3> HIDE DEF d, m
    <3> QED BY <3>1, <3>2
  <2>3. /\ pc'[t] = "check" /\ job'[t] = j
        /\ \A u \in Threads : u # t => pc'[u] = pc[u] /\ job'[u] = job[u]
    BY <1>0, <2>2 DEF Becomes, Goto, TypeThreads
  <2>4. Waiting(p)'
    <3>1. j.kind = "sync" \/ (j.kind = "delete" /\ disk'[p] = 0)
      BY <2>1, <2>2 DEF EventInv
    <3>2. Waits(t, p)'
      BY <2>2, <2>3, <3>1 DEF Waits
    <3> QED BY <3>2 DEF Waiting
  <2>5. ASSUME NEW q \in Paths, Waiting(q) PROVE Waiting(q)'
    <3>1. CASE q = p
      BY <2>4, <3>1
    <3>2. CASE q # p /\ event[q] # "none"
      BY <2>1, <3>2 DEF Waiting, Flags
    <3>3. ASSUME NEW u \in Threads, Waits(u, q) PROVE Waiting(q)'
      <4>1. u # t
        BY <2>1, <3>3 DEF Waits
      <4>2. Waits(u, q)'
        BY <2>1, <2>3, <3>3, <4>1 DEF Waits
      <4> QED BY <4>2 DEF Waiting
    <3> QED BY <2>5, <3>1, <3>2, <3>3 DEF Waiting
  <2>6. j.kind # "scan"
    BY <2>2
  <2> QED BY <2>1, <2>3, <2>5, <2>6, PagesKept
<1>5. ASSUME NEW t \in Threads, NEW p \in Paths, ScanPage(t, p) PROVE PagesInv'
  <2>1. /\ pc[t] = "scan" /\ job[t].kind = "scan" /\ UNCHANGED <<disk, event, db, tx>>
        /\ todo' = [todo EXCEPT ![t] = @ \ {p}]
    BY <1>5 DEF ScanPage, LockInv, cache
  <2>2. PICK j : Becomes(t, "stat", j) /\ j.path = p
    <3>1. [job[t] EXCEPT !.path = p].path = p
      BY <1>0 DEF TypeThreads, Jobs
    <3> QED BY <1>5, <3>1 DEF ScanPage
  <2>3. job[t].path \notin Paths
    BY <2>1, ShadowAssumption DEF LabelInv, LabelOf
  <2>4. \A q \in Paths : q \in todo[t] => q \in todo'[t] \/ q = p
    BY <1>0, <2>1 DEF TypeSets
  <2>5. \A u \in Threads : u # t => todo'[u] = todo[u]
    BY <1>0, <2>1 DEF TypeSets
  <2>6. \A q \in Paths : q \in todo[t] \/ job[t].path = q => q \in todo'[t] \/ j.path = q
    BY <2>2, <2>3, <2>4
  <2> QED BY <1>3, <2>1, <2>2, <2>5, <2>6
<1>6. ASSUME NEW t \in Threads, NEW p \in Paths, ReadHealth(t, p) PROVE PagesInv'
  <2>1. pc[t] = "idle" /\ UNCHANGED <<disk, event, db, tx, todo>>
    BY <1>6 DEF ReadHealth, Free, cache
  <2>2. PICK j : Becomes(t, "fresh", j) /\ j.kind = "read"
    BY <1>6, NewJobs DEF ReadHealth
  <2> QED BY <1>3, <2>1, <2>2
<1>7. ASSUME NEW t \in Threads, Started(t), UNCHANGED <<disk, event, db, tx, job, todo>>,
             pc[t] \in {"down", "replay"}
      PROVE  PagesInv'
  <2>1. \A u \in Threads : pc'[u] = pc[u] \/ (pc[u] \in {"down", "replay"} /\ pc'[u] = "idle")
    BY <1>7 DEF Started
  <2>2. \A u \in Threads : u # t => pc'[u] = pc[u] \/ (pc[u] = "down" /\ pc'[u] = "idle")
    BY <1>7 DEF Started
  <2>3. \A q \in Paths : Waiting(q) => Waiting(q)'
    BY <1>7, <2>1 DEF Waiting, Waits
  <2>4. pc'[t] = "idle"
    BY <1>7 DEF Started
  <2> QED BY <1>7, <2>2, <2>3, <2>4, PagesKept
<1>8. ASSUME NEW t \in Threads, Prepare(t), pc[t] = "down" PROVE PagesInv'
  <2>1. UNCHANGED <<disk, event, db, tx, job, todo>>
    BY <1>8 DEF Prepare, cache
  <2>2. CASE Goto(t, "rebuild")
    <3>1. Becomes(t, "rebuild", job[t])
      BY <1>0, <2>1, <2>2, GotoBecomes
    <3> QED BY <1>3, <1>8, <2>1, <3>1
  <2>3. CASE Started(t)
    BY <1>7, <1>8, <2>1, <2>3
  <2> QED BY <1>8, <2>2, <2>3 DEF Prepare
<1>9. ASSUME NEW t \in Threads, CalmWork(t) PROVE PagesInv'
  <2>label. LabelOf(t, pc[t], job[t], up[ProcOf[t]])
    BY DEF LabelInv
  <2>1. CASE Check(t) /\ Goto(t, "lock")
    <3>1. pc[t] = "check" /\ Becomes(t, "lock", job[t]) /\ UNCHANGED <<disk, event, db, tx, job, todo>>
      BY <1>0, <2>1, GotoBecomes DEF Check, cache
    <3>2. /\ pc'[t] = "lock" /\ \A u \in Threads : u # t => pc'[u] = pc[u]
      BY <1>0, <3>1 DEF Becomes, Goto, TypeThreads
    <3>3. \A q \in Paths : Waiting(q) => Waiting(q)'
      <4> SUFFICES ASSUME NEW q \in Paths, Waiting(q) PROVE Waiting(q)'
        OBVIOUS
      <4> QED BY <1>0, <3>1, WaitsOn
    <3> QED BY <3>1, <3>2, <3>3, PagesKept
  <2>2. CASE TakeLock(t) \/ BeginRebuild(t) \/ CommitRebuild(t)
    BY <2>2, PagesRebuild
  <2>3. CASE Stat(t)
    <3>1. PICK label \in {"commit", "parse"} :
             \E j : /\ Becomes(t, label, j) /\ j.kind = job[t].kind /\ j.path = job[t].path
                    /\ j.stamp = disk[job[t].path] /\ j.text = 0
      BY <1>0, <2>3, StatJob
    <3>2. PICK j : /\ Becomes(t, label, j) /\ j.kind = job[t].kind /\ j.path = job[t].path
                   /\ j.stamp = disk[job[t].path] /\ j.text = 0
      BY <3>1
    <3>3. pc[t] = "stat" /\ UNCHANGED <<disk, event, db, tx, todo>>
      BY <2>3 DEF Stat, cache
    <3>4. HasRead(t)'
      BY <1>0, <3>2, <3>3 DEF HasRead, Becomes, TypeThreads
    <3> QED BY <3>2, <3>3, <3>4, PageRead
  <2>4. CASE Parse(t)
    <3>1. PICK j : /\ Becomes(t, "commit", j) /\ j.kind = job[t].kind /\ j.path = job[t].path
                   /\ j.stamp = job[t].stamp /\ j.text \in {disk[job[t].path], 0}
      BY <1>0, <2>4, ParseJob
    <3>2. pc[t] = "parse" /\ UNCHANGED <<disk, event, db, tx, todo>>
      BY <2>4 DEF Parse, cache
    <3>3. HasRead(t) => HasRead(t)'
      BY <1>0, <3>1, <3>2 DEF HasRead, Becomes, TypeThreads
    <3>4. \A q \in Paths : job[t].path = q => HasRead(t)' \/ Waiting(q)
      BY <3>2, <3>3 DEF PagesInv, ReadersInv
    <3> QED BY <3>1, <3>2, <3>4, PageRead
  <2>5. CASE CommitPage(t)
    <3>1. pc[t] = "commit" /\ flock = t /\ UNCHANGED <<disk, event, todo>>
      BY <2>5 DEF CommitPage, LockInv, HoldLabels
    <3>2. PICK p \in Paths : job[t].path = p
      BY <3>1 DEF Types, OnPage, PageLabels
    <3>3. (job[t].stamp = disk[p] /\ job[t].text \in {0, job[t].stamp}) \/ Waiting(p)
      BY <3>1, <3>2 DEF PagesInv, ReadersInv, HasRead
    <3>4. job[t].stamp \in Saves /\ job[t].text \in Saves
      BY <1>jobs
    <3>5. CASE job[t].kind = "scan"
      <4> DEFINE d == Upsert(tx, p, job[t].stamp, job[t].text)
      <4>1. tx' = IF d.rows[p] # NoRow THEN [d EXCEPT !.indexed = @ + 1] ELSE d
        BY <2>5, <3>2, <3>5 DEF CommitPage
      <4>2. d \in Dbs
        BY <1>0, <3>4, UpsertRows DEF TypeCache
      <4>3. UNCHANGED db
        BY <2>5, <3>5 DEF CommitPage
      <4> HIDE DEF d
      <4>4. tx'.rows = d.rows /\ tx'.parked = d.parked
        BY <4>1, <4>2 DEF Dbs
      <4>5. PICK j : Becomes(t, "scan", j) /\ j.kind = "scan"
        BY <2>5, <3>5, NewJobs DEF CommitPage, Resume, JobAfter
      <4> QED BY <3>1, <3>2, <3>3, <3>4, <3>5, <4>3, <4>4, <4>5, RowScanned DEF d
    <3>6. CASE job[t].kind # "scan"
      <4>1. Becomes(t, "idle", NoJob)
        BY <2>5, <2>label, <3>6 DEF CommitPage, Resume, JobAfter, LabelOf
      <4>2. db' = Upsert(db, p, job[t].stamp, job[t].text) /\ UNCHANGED tx
        BY <2>5, <3>2, <3>6 DEF CommitPage
      <4> QED BY <3>1, <3>2, <3>3, <3>4, <4>1, <4>2, RowWritten
    <3> QED BY <3>5, <3>6
  <2>6. CASE DeleteRow(t)
    <3>1. pc[t] = "delete" /\ flock = t /\ UNCHANGED <<disk, event, tx, todo>> /\ Becomes(t, "idle", NoJob)
      BY <2>6 DEF DeleteRow, LockInv, HoldLabels
    <3>2. PICK p \in Paths : job[t].path = p
      BY <3>1 DEF Types, OnPage, PageLabels
    <3>3. db' = Upsert(db, p, 0, 0)
      BY <2>6, <3>2 DEF DeleteRow
    <3>4. job[t].kind = "delete"
      BY <2>label, <3>1 DEF LabelOf
    <3>5. disk[p] = 0 \/ Waiting(p)
      BY <3>2, <3>4 DEF EventInv, Waiting
    <3> QED BY <3>1, <3>2, <3>3, <3>5, Numbers, RowWritten
  <2>7. CASE ClearMarker(t) \/ ClearLatch(t) \/ EndBootstrap(t) \/ PopDeferred(t)
    <3>1. /\ pc[t] \in {"unmark", "unlatch", "unboot", "pop"} /\ UNCHANGED <<disk, event, db, tx, job>>
          /\ \A u \in Threads : u # t => todo'[u] = todo[u]
      BY <1>0, <2>7 DEF ClearMarker, ClearLatch, EndBootstrap, PopDeferred, cache, TypeSets
    <3>2. PICK label \in {"unlatch", "unboot", "pop", "replay"} : Becomes(t, label, job[t])
      BY <1>0, <2>7, GotoBecomes DEF ClearMarker, ClearLatch, EndBootstrap, PopDeferred
    <3>3. job[t].kind # "scan"
      BY <3>1 DEF LockInv
    <3> QED BY <1>3, <3>1, <3>2, <3>3
  <2>8. CASE EndRebuild(t)
    BY <1>7, <2>8 DEF EndRebuild, cache
  <2>9. CASE CheckFresh(t) \/ Querying(t) \/ Answer(t)
    <3>1. /\ pc[t] \in {"fresh", "query", "rows", "served"} /\ UNCHANGED <<disk, event, db, tx, todo>>
      BY <2>9, QueryJob DEF CheckFresh, Answer, cache
    <3>2. PICK label \in {"query", "rows", "served", "idle"} :
             \E j : Becomes(t, label, j) /\ j.kind \in {job[t].kind, "none"}
      BY <2>9, ReadJob
    <3>3. PICK j : Becomes(t, label, j) /\ j.kind \in {job[t].kind, "none"}
      BY <3>2
    <3>4. j.kind # "scan"
      BY <3>1, <3>3 DEF LockInv
    <3> QED BY <1>3, <3>1, <3>3, <3>4
  <2>10. CASE StartWatcher(t)
    <3>1. pc[t] = "down" /\ UNCHANGED <<disk, event, db, tx, job, todo>>
      BY <2>10 DEF StartWatcher, cache
    <3>2. Becomes(t, "idle", job[t]) /\ job[t].kind # "scan"
      BY <1>0, <2>10, <3>1, GotoBecomes DEF StartWatcher, LockInv
    <3> QED BY <1>3, <3>1, <3>2
  <2> QED BY <1>9, <2>1, <2>2, <2>3, <2>4, <2>5, <2>6, <2>7, <2>8, <2>9, <2>10 DEF CalmWork
<1>10. CASE UNCHANGED vars
  BY <1>10 DEF vars, PagesInv, ReadersInv, CacheInv, ScanInv, HasRead, Waiting, Waits, AtPage, CurrentIn
<1> QED BY <1>1, <1>2, <1>4, <1>5, <1>6, <1>8, <1>9, <1>10 DEF CalmNext

\* Nothing has begun: no cache is complete, and no thread has a page.
LEMMA CalmInit == Init => CalmInv
<1> SUFFICES ASSUME Init PROVE StartInv /\ LabelInv /\ EventInv /\ ReadersInv /\ CacheInv /\ ScanInv
  BY DEF CalmInv
<1>0. ProcOf \in [Threads -> Procs]
  BY ShadowAssumption
<1>1. /\ \A q \in Procs : deferred[q] = {} /\ ~booting[q] /\ ~up[q]
      /\ \A t \in Threads : pc[t] = "down" /\ job[t] = NoJob /\ todo[t] = {}
      /\ \A p \in Paths : event[p] = "none"
      /\ ~db.completed /\ NoJob.kind = "none"
  BY Numbers DEF Init, NoDb
<1>2. StartInv
  BY <1>0, <1>1 DEF StartInv, Starting
<1>3. LabelInv /\ EventInv
  BY <1>1 DEF LabelInv, LabelOf, EventInv
<1>4. ReadersInv /\ CacheInv /\ ScanInv
  BY <1>1 DEF ReadersInv, CacheInv, ScanInv
<1> QED BY <1>2, <1>3, <1>4

\* Every step keeps it: one that is not calm makes it void for good.
LEMMA CalmStep ==
    ASSUME OneWatcher, Types, Flags, LockInv, CalmInv, [Next]_vars
    PROVE  CalmInv'
<1> SUFFICES ASSUME calm'
             PROVE  (StartInv /\ LabelInv /\ EventInv /\ PagesInv)'
  BY DEF CalmInv, PagesInv
<1>1. StartInv /\ LabelInv /\ EventInv /\ PagesInv
  BY CalmStays DEF CalmInv, PagesInv
<1>2. CalmNext
  BY <1>1, CalmSteps
<1>3. StartInv'
  BY <1>1, <1>2, StartStep
<1>4. LabelInv' /\ EventInv'
  BY <1>1, <1>2, LabelStep
<1>5. PagesInv'
  BY <1>1, <1>2, PagesStep
<1> QED BY <1>3, <1>4, <1>5

\* As long as nothing went wrong, a cache that calls itself ready holds every page as it is on
\* disk, but for the parked ones, once nothing that concerns the page is under way
\* (resolve_shadow_health, sync_page_from_disk, rebuild_shadow_index), however the syncs of one
\* process interleave with the saves and the rebuilds of another. The events come from one
\* thread (the debounce worker of GraphFileWatcher, in the daemon that holds the lock): with two,
\* a removal could be delivered after the sync of the page that replaced what it removed.
THEOREM CalmComplete ==
    ASSUME OneWatcher
    PROVE  Spec => []CalmIsComplete
<1>1. Init => CalmInv /\ Flags
  <2>1. ASSUME Init PROVE Flags
    <3>1. [p \in Paths |-> 0] \in [Paths -> Saves]
      BY Numbers
    <3> QED BY <2>1, <3>1 DEF Init, Flags
  <2> QED BY <2>1, CalmInit
<1>2. IInv /\ Flags /\ CalmInv /\ [Next]_vars => Flags' /\ CalmInv'
  BY FlagsStep, CalmStep DEF IInv
<1>3. CalmInv => CalmIsComplete
  <2> SUFFICES ASSUME CalmInv, calm, NEW p \in Paths, Settled(p), NEW q \in Procs, Ready(q)
               PROVE  Current(p)
    BY DEF CalmIsComplete, ReadyIsComplete
  <2>1. db.completed
    BY DEF Ready
  <2>2. ~Waiting(p) /\ \A t \in Threads : ~AtPage(t, p)
    BY DEF Settled, Waiting, Waits, AtPage
  <2>3. CurrentIn(db, p)
    BY <2>1, <2>2 DEF CalmInv, CacheInv
  <2> QED BY <2>3 DEF CurrentIn, Current
<1> QED BY <1>1, <1>2, <1>3, Invariant, PTL DEF Spec

=============================================================================
