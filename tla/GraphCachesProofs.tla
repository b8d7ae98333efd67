------------------------- MODULE GraphCachesProofs -------------------------
(***************************************************************************)
(* Proofs about the caches of the graph, for any processes, roles, pages,  *)
(* aliases and contents and any number of writes and faults: the types,    *)
(* who owns an alias, and that an index is served only for the pages as    *)
(* they are.                                                               *)
(***************************************************************************)
EXTENDS GraphCaches, TLAPS, FiniteSetTheorems, WellFoundedInduction

-----------------------------------------------------------------------------
(* The operators on indexes *)

Files == [stamp : Stamps, says : Contents \union {Nothing}]
Jobs == [pc : {"idle", "sign", "list", "read", "resign", "patch", "stamp",
               "forget", "unlink", "lookup", "titles", "sources", "count", "keep"},
         page : Pages \union {None}, tries : 0..2, sig : Signatures,
         index : Indexes, counts : Counts, titles : SUBSET Pages,
         missed : SUBSET Pages, came : SUBSET Pages, todo : SUBSET Pages]

\* The next page of a scan is one of those left.
LEMMA LeastIn ==
    ASSUME NEW S \in SUBSET Nat, S # {}
    PROVE  Least(S) \in S
<1>1. PICK x \in S : \A y \in S : ~(<<y, x>> \in OpToRel(<, Nat))
  BY WFMin, NatLessThanWellFounded
<1>2. ASSUME NEW y \in S, y < x PROVE FALSE
  <2>1. <<y, x>> \in OpToRel(<, Nat)
    BY <1>2, Zenon DEF OpToRel
  <2> QED BY <1>1, <2>1
<1>3. \A y \in S : x <= y
  BY <1>2
<1> QED BY <1>3 DEF Least

LEMMA EmptyTyped == EmptyIndex \in Indexes
BY DEF EmptyIndex, Indexes

LEMMA ClaimTyped ==
    ASSUME NEW i \in Indexes, NEW q \in Pages, NEW ws \in SUBSET Words
    PROVE  Claim(i, q, ws) \in Indexes
BY DEF Claim, Indexes

LEMMA RemoveTyped ==
    ASSUME NEW i \in Indexes, NEW S \in SUBSET Pages
    PROVE  Remove(i, S) \in Indexes
BY DEF Remove, Indexes

LEMMA SkipTyped ==
    ASSUME NEW i \in Indexes, NEW S \in SUBSET Pages
    PROVE  Skip(i, S) \in Indexes
BY DEF Skip, Indexes

LEMMA IdleTyped == Idle \in Jobs
<1>1. 0 \in Stamps
  BY BoundsAssumption DEF Stamps
<1> QED BY <1>1, EmptyTyped DEF Idle, Jobs, Signatures, Counts

\* A job of one process takes another step.
LEMMA GotoTyped ==
    ASSUME TypeOK, NEW p \in Procs, NEW j \in Jobs, Goto(p, j)
    PROVE  job' \in [Procs -> Jobs] /\ \A r \in Procs : job'[r] = IF r = p THEN j ELSE job[r]
BY DEF TypeOK, Jobs, Goto

\* What the pages are.
LEMMA PagesTyped ==
    ASSUME TypeOK
    PROVE  /\ Sig \in Signatures /\ Listed \in SUBSET Pages
           /\ \A q \in Pages : /\ file[q] \in Files
                               /\ file[q].says.names \in SUBSET Words
                               /\ file[q].says.links \in SUBSET Pages
<1>1. \A q \in Pages : file[q] \in Files
  BY DEF TypeOK, Files
<1>2. \A c \in Contents \union {Nothing} : c.names \in SUBSET Words /\ c.links \in SUBSET Pages
  BY ContentsAssumption DEF Nothing
<1> QED BY <1>1, <1>2 DEF Sig, Listed, Signatures, Files

-----------------------------------------------------------------------------
(* Types *)

\* A patch and a collection have an index to work on, a patch a page.
Working == \A p \in Procs :
               /\ job[p].pc \in {"patch", "stamp", "resign"} => alias[p] \in Kept
               /\ job[p].pc \in {"patch", "stamp", "forget", "unlink"} => job[p].page \in Pages
TypeInv == TypeOK /\ Working

LEMMA InitTyped == Init => TypeInv
<1> SUFFICES ASSUME Init PROVE TypeInv
  OBVIOUS
<1>1. job \in [Procs -> Jobs] /\ \A p \in Procs : job[p].pc = "idle"
  <2>1. job = [p \in Procs |-> Idle] /\ Idle.pc = "idle"
    BY DEF Init, Idle
  <2> QED BY <2>1, IdleTyped
<1>2. file \in [Pages -> Files]
  <2>1. Gone \in Files /\ \A c \in Contents : [stamp |-> 1, says |-> c] \in Files
    BY BoundsAssumption DEF Gone, Files, Stamps
  <2> QED BY <2>1 DEF Init
<1>3. /\ alias \in [Procs -> Kept \union {None}]
      /\ memory \in [Procs -> Entries \union {None}] /\ disk \in Entries \union {None}
  BY DEF Init
<1>4. role \in Roles /\ clock \in 1..MaxStamp /\ faults \in 0..MaxFaults
  BY BoundsAssumption DEF Init
<1> QED BY <1>1, <1>2, <1>3, <1>4 DEF TypeInv, TypeOK, Working, Jobs, Files, Kept

LEMMA PutTyped ==
    ASSUME TypeOK, NEW q \in Pages, NEW c \in Contents, Put(q, c)
    PROVE  file' \in [Pages -> Files] /\ clock' \in 1..MaxStamp
<1>1. clock + 1 \in 1..MaxStamp /\ clock + 1 \in Stamps
  BY BoundsAssumption DEF TypeOK, Put, Stamps
<1>2. [stamp |-> clock + 1, says |-> c] \in Files
  BY <1>1 DEF Files
<1>3. file \in [Pages -> Files]
  BY DEF TypeOK, Files
<1> QED BY <1>1, <1>2, <1>3 DEF Put

\* A step of one process types if its new job and what it changes of the caches do.
LEMMA StepTyped ==
    ASSUME TypeInv, NEW p \in Procs, NEW j \in Jobs, Goto(p, j),
           UNCHANGED role, file' \in [Pages -> Files], clock' \in 1..MaxStamp,
           faults' = faults \/ Fault,
           NEW a \in Kept \union {None}, alias' = [alias EXCEPT ![p] = a],
           NEW m \in Entries \union {None}, memory' = [memory EXCEPT ![p] = m],
           disk' \in Entries \union {None},
           j.pc \in {"patch", "stamp", "resign"} => a \in Kept,
           j.pc \in {"patch", "stamp", "forget", "unlink"} => j.page \in Pages
    PROVE  TypeInv'
<1>1. /\ job' \in [Procs -> Jobs]
      /\ \A r \in Procs : job'[r] = IF r = p THEN j ELSE job[r]
  BY GotoTyped DEF TypeInv
<1>2. faults' \in 0..MaxFaults
  BY BoundsAssumption DEF TypeInv, TypeOK, Fault
<1>3. /\ alias' \in [Procs -> Kept \union {None}]
      /\ memory' \in [Procs -> Entries \union {None}]
      /\ \A r \in Procs : alias'[r] = IF r = p THEN a ELSE alias[r]
  BY DEF TypeInv, TypeOK, Kept
<1>4. Working'
  BY <1>1, <1>3 DEF TypeInv, Working
<1> QED BY <1>1, <1>2, <1>3, <1>4 DEF TypeInv, TypeOK, Jobs, Files, Kept

\* What a step finds.
LEMMA Found ==
    ASSUME TypeInv, NEW p \in Procs
    PROVE  /\ job[p] \in Jobs /\ alias[p] \in Kept \union {None}
           /\ memory[p] \in Entries \union {None} /\ disk \in Entries \union {None}
           /\ file \in [Pages -> Files] /\ clock \in 1..MaxStamp
           /\ alias = [alias EXCEPT ![p] = alias[p]] /\ memory = [memory EXCEPT ![p] = memory[p]]
           /\ Sig \in Signatures /\ Listed \in SUBSET Pages
BY PagesTyped DEF TypeInv, TypeOK, Jobs, Kept, Files

LEMMA IndexStepsTyped ==
    ASSUME TypeInv, NEW p \in Procs,
           Build(p) \/ Sign(p) \/ List(p) \/ Read(p) \/ Compare(p) \/ Clear(p)
    PROVE  TypeInv'
<1>0. /\ job[p] \in Jobs /\ alias[p] \in Kept \union {None}
      /\ memory[p] \in Entries \union {None} /\ disk \in Entries \union {None}
      /\ file \in [Pages -> Files] /\ clock \in 1..MaxStamp
      /\ alias = [alias EXCEPT ![p] = alias[p]] /\ memory = [memory EXCEPT ![p] = memory[p]]
      /\ Sig \in Signatures /\ Listed \in SUBSET Pages
  BY Found
<1>1. Idle \in Jobs /\ Idle.pc = "idle"
  BY IdleTyped DEF Idle
<1>2. CASE Build(p)
  <2> DEFINE j == [Idle EXCEPT !.pc = "sign"]
  <2>1. j \in Jobs /\ j.pc = "sign"
    BY <1>1 DEF Jobs
  <2> HIDE DEF j
  <2> QED BY <1>0, <1>2, <2>1, StepTyped DEF Build, j
<1>3. CASE Sign(p)
  <2> DEFINE j == [job[p] EXCEPT !.pc = "list", !.sig = Sig]
  <2>1. j \in Jobs /\ j.pc = "list"
    BY <1>0 DEF Jobs
  <2> HIDE DEF j
  <2>2. Goto(p, Idle) \/ Goto(p, j)
    BY <1>3 DEF Sign, Return, j
  <2> QED BY <1>0, <1>1, <1>3, <2>1, <2>2, StepTyped DEF Sign
<1>4. CASE List(p)
  <2> DEFINE j == [job[p] EXCEPT !.pc = "read", !.index = EmptyIndex, !.todo = Listed]
  <2>1. j \in Jobs /\ j.pc = "read"
    BY <1>0, EmptyTyped DEF Jobs
  <2> HIDE DEF j
  <2> QED BY <1>0, <1>4, <2>1, StepTyped DEF List, j
<1>5. CASE Read(p)
  <2> DEFINE q == Least(job[p].todo)
  <2>1. q \in job[p].todo /\ q \in Pages /\ job[p].pc = "read"
    <3>1. job[p].todo \in SUBSET Nat /\ job[p].todo # {} /\ job[p].todo \subseteq Pages
      BY <1>0, <1>5, PagesAssumption DEF Read, Jobs
    <3> QED BY <1>5, <3>1, LeastIn DEF Read, At
  <2> HIDE DEF q
  <2>2. PICK i \in Indexes : Goto(p, [job[p] EXCEPT !.todo = @ \ {q}, !.index = i])
    <3>1. /\ job[p].index \in Indexes
          /\ Claim(job[p].index, q, file[q].says.names) \in Indexes
          /\ Skip(job[p].index, {q}) \in Indexes
      BY <1>0, <2>1, PagesTyped, ClaimTyped, SkipTyped DEF TypeInv, Jobs
    <3> QED BY <1>5, <3>1 DEF Read, q
  <2> DEFINE j == [job[p] EXCEPT !.todo = @ \ {q}, !.index = i]
  <2>3. j \in Jobs /\ j.pc = "read"
    BY <1>0, <2>1 DEF Jobs
  <2>4. faults' = faults \/ Fault
    BY <1>5 DEF Read
  <2>5. Goto(p, j)
    BY <2>2
  <2> HIDE DEF j
  <2> QED BY <1>0, <1>5, <2>3, <2>4, <2>5, StepTyped DEF Read
<1>6. CASE Compare(p)
  <2>1. CASE Agrees(p)
    <3> DEFINE i == Skip(job[p].index, job[p].index.listed \ Listed)
               e == [sig |-> Sig, index |-> i]
    <3>1. i \in Indexes
      <4>1. job[p].index \in Indexes /\ job[p].index.listed \ Listed \in SUBSET Pages
        BY <1>0 DEF Jobs, Indexes
      <4> QED BY <4>1, SkipTyped
    <3> HIDE DEF i
    <3>2. e \in Kept
      BY <1>0, <3>1 DEF Kept
    <3>3. alias' = [alias EXCEPT ![p] = e] /\ Goto(p, Idle)
      BY <1>6, <2>1 DEF Compare, Return, i
    <3> HIDE DEF e
    <3> QED BY <1>0, <1>1, <1>6, <3>2, <3>3, StepTyped DEF Compare
  <2>2. CASE ~Agrees(p)
    <3> DEFINE j == [Idle EXCEPT !.pc = "sign", !.tries = job[p].tries + 1]
    <3>1. job[p].tries + 1 # 3 => j \in Jobs /\ j.pc = "sign"
      <4>1. job[p].tries + 1 # 3 => job[p].tries + 1 \in 0..2
        BY <1>0 DEF Jobs
      <4> QED BY <1>1, <4>1 DEF Jobs
    <3>2. UNCHANGED alias /\ (Goto(p, Idle) \/ (job[p].tries + 1 # 3 /\ Goto(p, j)))
      BY <1>6, <2>2 DEF Compare, Return, Attempts
    <3> HIDE DEF j
    <3> QED BY <1>0, <1>1, <1>6, <3>1, <3>2, StepTyped DEF Compare
  <2> QED BY <2>1, <2>2
<1>7. CASE Clear(p)
  BY <1>7 DEF Clear, TypeInv, TypeOK, Working, At
<1> QED BY <1>2, <1>3, <1>4, <1>5, <1>6, <1>7

LEMMA UpkeepStepsTyped ==
    ASSUME TypeInv, NEW p \in Procs,
           \/ Purge(p) \/ Resign(p) \/ Patch(p) \/ Stamp(p) \/ Forget(p) \/ Unlink(p)
           \/ Restart(p) \/ \E q \in Pages, c \in Contents : Write(p, q, c)
    PROVE  TypeInv'
<1>0. /\ job[p] \in Jobs /\ alias[p] \in Kept \union {None}
      /\ memory[p] \in Entries \union {None} /\ disk \in Entries \union {None}
      /\ file \in [Pages -> Files] /\ clock \in 1..MaxStamp
      /\ alias = [alias EXCEPT ![p] = alias[p]] /\ memory = [memory EXCEPT ![p] = memory[p]]
      /\ Sig \in Signatures /\ Listed \in SUBSET Pages
  BY Found
<1>1. Idle \in Jobs /\ Idle.pc = "idle"
  BY IdleTyped DEF Idle
<1>2. /\ job[p].pc \in {"patch", "stamp", "resign"} => alias[p] \in Kept
      /\ job[p].pc \in {"patch", "stamp", "forget", "unlink"} => job[p].page \in Pages
  BY DEF TypeInv, Working
<1>3. CASE Purge(p)
  <2>1. alias[p] \in Kept
    BY <1>0, <1>3 DEF Purge
  <2> DEFINE i == [Remove(alias[p].index, Pages \ Listed) EXCEPT !.skipped = @ \intersect Listed]
             e == [alias[p] EXCEPT !.index = i]
             j == [Idle EXCEPT !.pc = "resign", !.todo = Listed]
  <2>2. i \in Indexes
    <3>1. Remove(alias[p].index, Pages \ Listed) \in Indexes
      BY <2>1, RemoveTyped DEF Kept
    <3> QED BY <3>1 DEF Indexes
  <2>3. j \in Jobs /\ j.pc = "resign"
    BY <1>0, <1>1 DEF Jobs
  <2>4. alias' = [alias EXCEPT ![p] = e]
    BY <1>3 DEF Purge
  <2> HIDE DEF i
  <2>5. e \in Kept
    BY <2>1, <2>2 DEF Kept
  <2> HIDE DEF e, j
  <2> QED BY <1>0, <1>3, <2>3, <2>4, <2>5, StepTyped DEF Purge, j
<1>4. CASE Resign(p)
  <2>1. alias[p] \in Kept
    BY <1>2, <1>4 DEF Resign, At
  <2>2. PICK unread \in SUBSET Pages :
           alias' = [alias EXCEPT ![p] = [sig |-> Sig, index |-> Skip(@.index, unread)]]
    BY <1>4 DEF Resign
  <2> DEFINE e == [sig |-> Sig, index |-> Skip(alias[p].index, unread)]
  <2>3. e \in Kept
    BY <1>0, <2>1, SkipTyped DEF Kept
  <2>4. alias' = [alias EXCEPT ![p] = e] /\ Goto(p, Idle)
    BY <1>4, <2>2 DEF Resign, Return
  <2> HIDE DEF e
  <2> QED BY <1>0, <1>1, <1>4, <2>3, <2>4, StepTyped DEF Resign
<1>5. CASE Patch(p)
  <2> DEFINE q == job[p].page
             bare == Remove(alias[p].index, {q})
             j == [job[p] EXCEPT !.pc = "stamp", !.sig = Sig]
  <2>1. alias[p] \in Kept /\ q \in Pages
    BY <1>2, <1>5 DEF Patch, At
  <2>2. bare \in Indexes
    BY <2>1, RemoveTyped DEF Kept
  <2>3. j \in Jobs /\ j.pc = "stamp" /\ j.page = q
    BY <1>0 DEF Jobs
  <2>4. PICK i \in Indexes : alias' = [alias EXCEPT ![p].index = i]
    <3> HIDE DEF bare, q
    <3>1. /\ Claim(bare, q, file[q].says.names) \in Indexes
          /\ [bare EXCEPT !.skipped = @ \ {q}] \in Indexes
          /\ Skip(bare, {q}) \in Indexes
      <4>1. file[q].says.names \in SUBSET Words
        BY <2>1, PagesTyped DEF TypeInv
      <4>2. [bare EXCEPT !.skipped = @ \ {q}] \in Indexes
        BY <2>2 DEF Indexes
      <4> QED BY <2>1, <2>2, <4>1, <4>2, ClaimTyped, SkipTyped
    <3> QED BY <1>5, <3>1 DEF Patch, bare, q
  <2> DEFINE e == [alias[p] EXCEPT !.index = i]
  <2>5. e \in Kept /\ alias' = [alias EXCEPT ![p] = e]
    BY <2>1, <2>4 DEF Kept
  <2>6. faults' = faults \/ Fault
    BY <1>5 DEF Patch
  <2>7. Goto(p, j)
    BY <1>5 DEF Patch
  <2> HIDE DEF e, j, q
  <2> QED BY <1>0, <1>5, <2>1, <2>3, <2>5, <2>6, <2>7, StepTyped DEF Patch
<1>6. CASE Stamp(p)
  <2> DEFINE q == job[p].page
             j == [job[p] EXCEPT !.pc = "forget"]
  <2>1. alias[p] \in Kept /\ q \in Pages
    BY <1>2, <1>6 DEF Stamp, At
  <2>2. j \in Jobs /\ j.pc = "forget" /\ j.page = q
    BY <1>0 DEF Jobs
  <2>3. PICK unread \in SUBSET Pages :
           alias' = [alias EXCEPT ![p] = [sig |-> [@.sig EXCEPT ![q] = file[q].stamp],
                                          index |-> Skip(@.index, unread)]]
    BY <1>6, <2>1 DEF Stamp
  <2> DEFINE e == [sig |-> [alias[p].sig EXCEPT ![q] = file[q].stamp],
                   index |-> Skip(alias[p].index, unread)]
  <2>4. e \in Kept
    <3>1. Skip(alias[p].index, unread) \in Indexes
      BY <2>1, SkipTyped DEF Kept
    <3>2. [alias[p].sig EXCEPT ![q] = file[q].stamp] \in Signatures
      BY <1>0, <2>1 DEF Kept, Signatures, Files
    <3> QED BY <3>1, <3>2 DEF Kept
  <2>5. alias' = [alias EXCEPT ![p] = e] /\ Goto(p, j)
    BY <1>6, <2>3 DEF Stamp
  <2>6. UNCHANGED <<role, file, clock, memory, disk, faults>> /\ j.page \in Pages
    BY <1>6, <2>1, <2>2 DEF Stamp
  <2> HIDE DEF e, j, q
  <2> QED BY <1>0, <2>2, <2>4, <2>5, <2>6, StepTyped
<1>7. CASE Forget(p)
  <2> DEFINE j == [job[p] EXCEPT !.pc = "unlink"]
  <2>1. j \in Jobs /\ j.pc = "unlink" /\ j.page \in Pages
    BY <1>0, <1>2, <1>7 DEF Jobs, Forget, At
  <2> HIDE DEF j
  <2> QED BY <1>0, <1>7, <2>1, StepTyped DEF Forget, j
<1>8. CASE Unlink(p)
  BY <1>0, <1>1, <1>8, StepTyped DEF Unlink, Return
<1>9. CASE Restart(p)
  <2>1. None \in Kept \union {None} /\ None \in Entries \union {None}
    OBVIOUS
  <2>2. /\ Goto(p, Idle) /\ Fault
        /\ alias' = [alias EXCEPT ![p] = None] /\ memory' = [memory EXCEPT ![p] = None]
        /\ UNCHANGED <<role, file, clock, disk>>
    BY <1>9 DEF Restart, Return
  <2> QED BY <1>0, <1>1, <2>1, <2>2, StepTyped
<1>10. ASSUME NEW q \in Pages, NEW c \in Contents, Write(p, q, c)
       PROVE  TypeInv'
  <2> DEFINE j == [Idle EXCEPT !.page = q, !.pc = IF alias[p] = None THEN "forget" ELSE "patch"]
  <2>1. j \in Jobs /\ j.page = q /\ (j.pc = "patch" => alias[p] \in Kept)
        /\ j.pc \in {"forget", "patch"}
    BY <1>0, <1>1 DEF Jobs
  <2>2. file' \in [Pages -> Files] /\ clock' \in 1..MaxStamp
    BY <1>10, PutTyped DEF Write, TypeInv
  <2>3. Goto(p, j)
    BY <1>10 DEF Write
  <2> HIDE DEF j
  <2> QED BY <1>0, <1>10, <2>1, <2>2, <2>3, StepTyped DEF Write
<1> QED BY <1>3, <1>4, <1>5, <1>6, <1>7, <1>8, <1>9, <1>10

LEMMA CountStepsTyped ==
    ASSUME TypeInv, NEW p \in Procs,
           \/ Load(p) \/ Lookup(p) \/ Titles(p) \/ Sources(p) \/ Count(p)
           \/ SaveDisk(p) \/ Keep(p)
    PROVE  TypeInv'
<1>0. /\ job[p] \in Jobs /\ alias[p] \in Kept \union {None}
      /\ memory[p] \in Entries \union {None} /\ disk \in Entries \union {None}
      /\ file \in [Pages -> Files] /\ clock \in 1..MaxStamp
      /\ alias = [alias EXCEPT ![p] = alias[p]] /\ memory = [memory EXCEPT ![p] = memory[p]]
      /\ Sig \in Signatures /\ Listed \in SUBSET Pages
  BY Found
<1>1. Idle \in Jobs /\ Idle.pc = "idle"
  BY IdleTyped DEF Idle
<1>2. Entry(job[p]) \in Entries
  BY <1>0 DEF Entry, Entries, Jobs
<1>3. CASE Load(p)
  <2> DEFINE j == [Idle EXCEPT !.pc = "lookup", !.sig = Sig]
  <2>1. j \in Jobs /\ j.pc = "lookup"
    BY <1>0, <1>1 DEF Jobs
  <2> HIDE DEF j
  <2> QED BY <1>0, <1>3, <2>1, StepTyped DEF Load, j
<1>4. CASE Lookup(p)
  <2> DEFINE j == [job[p] EXCEPT !.pc = "titles"]
  <2>1. j \in Jobs /\ j.pc = "titles"
    BY <1>0 DEF Jobs
  <2>2. CASE /\ memory' = [memory EXCEPT ![p] = memory[p]] \/ memory' = [memory EXCEPT ![p] = disk]
             /\ Goto(p, Idle)
    BY <1>0, <1>1, <1>4, <2>2, StepTyped DEF Lookup
  <2>3. CASE UNCHANGED memory /\ Goto(p, j)
    <3> HIDE DEF j
    <3> QED BY <1>0, <1>4, <2>1, <2>3, StepTyped DEF Lookup
  <2> QED BY <1>4, <2>2, <2>3 DEF Lookup, Return
<1>5. CASE Titles(p)
  <2> DEFINE j == [job[p] EXCEPT !.pc = "sources", !.titles = Listed, !.came = Came(p)]
  <2>1. j \in Jobs /\ j.pc = "sources"
    BY <1>0 DEF Jobs, Came
  <2> HIDE DEF j
  <2> QED BY <1>0, <1>5, <2>1, StepTyped DEF Titles, j
<1>10. CASE Sources(p)
  <2> DEFINE j == [job[p] EXCEPT !.pc = "count", !.todo = Listed, !.came = @ \union Came(p)]
  <2>1. j \in Jobs /\ j.pc = "count"
    BY <1>0 DEF Jobs, Came
  <2> HIDE DEF j
  <2> QED BY <1>0, <1>10, <2>1, StepTyped DEF Sources, j
<1>6. CASE Count(p)
  <2> DEFINE q == Least(job[p].todo)
             Counted(c, m) == [job[p] EXCEPT !.todo = @ \ {q}, !.counts = c, !.missed = m]
             more == AddLinks(job[p].counts, file[q].says.links \intersect job[p].titles)
  <2>1. q \in Pages /\ job[p].pc = "count"
    <3>1. job[p].todo \in SUBSET Nat /\ job[p].todo # {} /\ job[p].todo \subseteq Pages
      BY <1>0, <1>6, PagesAssumption DEF Count, Jobs
    <3> QED BY <1>6, <3>1, LeastIn DEF Count, At
  <2>2. job[p].counts \in Counts /\ job[p].missed \in SUBSET Pages
    BY <1>0 DEF Jobs
  <2>3. more \in Counts
    <3>1. ASSUME NEW targets, NEW r \in Pages
          PROVE  job[p].counts[r] + (IF r \in targets THEN 1 ELSE 0) \in Nat
      BY <2>2 DEF Counts
    <3> QED BY <3>1 DEF AddLinks, Counts
  <2>4. \/ Goto(p, Counted(more, job[p].missed))
        \/ Goto(p, Counted(job[p].counts, job[p].missed \union {q}))
    BY <1>6 DEF Count
  <2>5. faults' = faults \/ Fault
    BY <1>6 DEF Count
  <2> HIDE DEF q, more
  <2>6. ASSUME NEW c \in Counts, NEW m \in SUBSET Pages, Goto(p, Counted(c, m))
        PROVE  TypeInv'
    <3> DEFINE j == Counted(c, m)
    <3>1. j \in Jobs /\ j.pc = "count"
      BY <1>0, <2>1 DEF Jobs
    <3>2. Goto(p, j)
      BY <2>6
    <3> HIDE DEF j
    <3> QED BY <1>0, <1>6, <2>5, <3>1, <3>2, StepTyped DEF Count
  <2>7. job[p].missed \union {q} \in SUBSET Pages
    BY <2>1, <2>2
  <2> HIDE DEF Counted
  <2> QED BY <2>2, <2>3, <2>4, <2>6, <2>7
<1>7. CASE SaveDisk(p)
  <2> DEFINE j == [job[p] EXCEPT !.pc = "keep"]
  <2>1. j \in Jobs /\ j.pc = "keep"
    BY <1>0 DEF Jobs
  <2> HIDE DEF j
  <2> QED BY <1>0, <1>1, <1>2, <1>7, <2>1, StepTyped DEF SaveDisk, Return, j
<1>8. CASE Keep(p)
  BY <1>0, <1>1, <1>2, <1>8, StepTyped DEF Keep, Return
<1> QED BY <1>3, <1>4, <1>5, <1>6, <1>7, <1>8, <1>10

LEMMA HumanStepsTyped ==
    ASSUME TypeInv, NEW q \in Pages, Delete(q) \/ \E c \in Contents : Save(q, c)
    PROVE  TypeInv'
<1>1. CASE Delete(q)
  <2>1. Gone \in Files /\ file \in [Pages -> Files]
    BY BoundsAssumption DEF Gone, Files, Stamps, TypeInv, TypeOK
  <2>2. file' \in [Pages -> Files]
    BY <1>1, <2>1 DEF Delete
  <2> QED BY <1>1, <2>2 DEF Delete, TypeInv, TypeOK, Working, Files
<1>2. ASSUME NEW c \in Contents, Save(q, c)
      PROVE  TypeInv'
  <2>1. file' \in [Pages -> Files] /\ clock' \in 1..MaxStamp
    BY <1>2, PutTyped DEF Save, TypeInv
  <2> QED BY <1>2, <2>1 DEF Save, TypeInv, TypeOK, Working, Files
<1> QED BY <1>1, <1>2

LEMMA NextTyped == TypeInv /\ [Next]_vars => TypeInv'
<1> SUFFICES ASSUME TypeInv, [Next]_vars PROVE TypeInv'
  OBVIOUS
<1>1. ASSUME NEW p \in Procs, Call(p)
      PROVE  TypeInv'
  BY <1>1, IndexStepsTyped, UpkeepStepsTyped, CountStepsTyped, Zenon DEF Call
<1>2. CASE UNCHANGED vars
  BY <1>2 DEF vars, TypeInv, TypeOK, Working
<1> QED BY <1>1, <1>2, HumanStepsTyped DEF Next

\* The indexes, the counts and the calls keep their types, and what runs on an index has one:
\* a patch and a collection find the cache they were started for (_lock is held).
THEOREM TypeCorrect == Spec => []TypeOK
<1>1. Spec => []TypeInv
  BY InitTyped, NextTyped, PTL DEF Spec
<1>2. TypeInv => TypeOK
  BY DEF TypeInv
<1> QED BY <1>1, <1>2, PTL

-----------------------------------------------------------------------------
(* Who owns an alias *)

\* An owner is a page that declares the alias, a declared alias leads somewhere it should,
\* and a page without a row declares nothing.
Good(i) ==
    /\ \A w \in Words : i.owner[w] # None => i.owner[w] \in i.listed /\ w \in i.names[i.owner[w]]
    /\ \A q \in i.listed : \A w \in i.names[q] : w \in i.contested \/ i.owner[w] = q
    /\ \A q \in Pages \ i.listed : i.names[q] = {}

LEMMA EmptyGood == Good(EmptyIndex)
BY DEF Good, EmptyIndex

LEMMA SkipGood ==
    ASSUME NEW i \in Indexes, Good(i), NEW S
    PROVE  Good(Skip(i, S)) /\ Good([i EXCEPT !.skipped = S])
BY DEF Good, Skip, Indexes

\* A page with no row claims its aliases.
LEMMA ClaimGood ==
    ASSUME NEW i \in Indexes, Good(i), NEW q \in Pages, q \notin i.listed,
           NEW ws \in SUBSET Words
    PROVE  Good(Claim(i, q, ws))
<1> DEFINE c == Claim(i, q, ws)
<1>0. /\ i.listed \in SUBSET Pages /\ i.names \in [Pages -> SUBSET Words]
      /\ i.owner \in [Words -> Pages \union {None}] /\ i.contested \in SUBSET Words
  BY DEF Indexes
<1>1. /\ c.listed = i.listed \union {q}
      /\ \A r \in Pages : c.names[r] = IF r = q THEN ws ELSE i.names[r]
      /\ \A w \in Words : c.owner[w] = IF w \in ws /\ i.owner[w] = None THEN q ELSE i.owner[w]
      /\ c.contested = i.contested \union {w \in ws : i.owner[w] \notin {None, q}}
  BY <1>0 DEF Claim
<1> HIDE DEF c
<1>2. ASSUME NEW w \in Words, c.owner[w] # None
      PROVE  c.owner[w] \in c.listed /\ w \in c.names[c.owner[w]]
  <2>1. CASE w \in ws /\ i.owner[w] = None
    BY <1>1, <2>1
  <2>2. CASE ~(w \in ws /\ i.owner[w] = None)
    <3>1. c.owner[w] = i.owner[w] /\ i.owner[w] \in i.listed /\ w \in i.names[i.owner[w]]
      BY <1>1, <1>2, <2>2 DEF Good
    <3>2. i.owner[w] # q /\ i.owner[w] \in Pages
      BY <1>0, <3>1
    <3> QED BY <1>1, <3>1, <3>2
  <2> QED BY <2>1, <2>2
<1>3. ASSUME NEW r \in c.listed, NEW w \in c.names[r]
      PROVE  w \in c.contested \/ c.owner[w] = r
  <2>1. CASE r = q
    <3>1. w \in ws /\ w \in Words
      BY <1>1, <1>3, <2>1
    <3> QED BY <1>1, <2>1, <3>1
  <2>2. CASE r # q
    <3>1. r \in i.listed /\ r \in Pages /\ w \in i.names[r] /\ w \in Words
      BY <1>0, <1>1, <1>3, <2>2
    <3>2. w \in i.contested \/ i.owner[w] = r
      BY <3>1 DEF Good
    <3>3. r # None
      BY <3>1, NoneAssumption
    <3> QED BY <1>1, <3>1, <3>2, <3>3
  <2> QED BY <2>1, <2>2
<1>4. ASSUME NEW r \in Pages \ c.listed
      PROVE  c.names[r] = {}
  BY <1>1, <1>4 DEF Good
<1> QED BY <1>2, <1>3, <1>4 DEF Good, c

\* The rows of some pages go, and with them the aliases they own.
LEMMA RemoveGood ==
    ASSUME NEW i \in Indexes, Good(i), NEW S \in SUBSET Pages
    PROVE  /\ Good(Remove(i, S))
           /\ Remove(i, S).listed = i.listed \ S /\ Remove(i, S).skipped = i.skipped
           /\ \A q \in Pages \ S : Remove(i, S).names[q] = i.names[q]
<1> DEFINE c == Remove(i, S)
<1>0. /\ i.listed \in SUBSET Pages /\ i.names \in [Pages -> SUBSET Words]
      /\ i.owner \in [Words -> Pages \union {None}] /\ i.contested \in SUBSET Words
  BY DEF Indexes
<1>1. /\ c.listed = i.listed \ S /\ c.contested = i.contested /\ c.skipped = i.skipped
      /\ \A r \in Pages : c.names[r] = IF r \in S THEN {} ELSE i.names[r]
      /\ \A w \in Words : c.owner[w] = IF i.owner[w] \in S THEN None ELSE i.owner[w]
  BY DEF Remove, Indexes
<1> HIDE DEF c
<1>2. ASSUME NEW w \in Words, c.owner[w] # None
      PROVE  c.owner[w] \in c.listed /\ w \in c.names[c.owner[w]]
  BY <1>0, <1>1, <1>2 DEF Good
<1>3. ASSUME NEW r \in c.listed, NEW w \in c.names[r]
      PROVE  w \in c.contested \/ c.owner[w] = r
  <2>1. r \in i.listed /\ r \in Pages /\ r \notin S /\ w \in i.names[r] /\ w \in Words
    BY <1>0, <1>1, <1>3
  <2> QED BY <1>1, <2>1 DEF Good
<1>4. ASSUME NEW r \in Pages \ c.listed
      PROVE  c.names[r] = {}
  BY <1>1, <1>4 DEF Good
<1> QED BY <1>1, <1>2, <1>3, <1>4 DEF Good, c

-----------------------------------------------------------------------------
(* What a row and a stamp say of a page *)

\* No stamp is of the future, and a page that is gone says nothing.
FilesInv == \A q \in Pages : file[q].stamp <= clock /\ (file[q].stamp = 0 => file[q].says = Nothing)

\* A page whose file is still at stamp s has the row of it.
Row(i, s, q) == \/ q \in i.skipped
                \/ /\ s = 0 => q \notin i.listed
                   /\ s # 0 /\ file[q].stamp = s => RowIsCurrent(i, q)

\* What a call and the cache of its process hold: the signatures are of the past; the index
\* is good and has the row of each stamp, but for the page a patch has read and not stated;
\* so have the rows a build has read; a collection has dropped what it did not list.
Mine(j, a) ==
    /\ \A q \in Pages : j.sig[q] <= clock
    /\ a # None => /\ Good(a.index)
                   /\ \A q \in Pages : a.sig[q] <= clock
                   /\ \A q \in Pages : \/ j.pc = "stamp" /\ q = j.page
                                       \/ Row(a.index, a.sig[q], q)
    /\ j.pc = "read" => /\ Good(j.index) /\ j.index.listed \intersect j.todo = {}
                        /\ \A q \in Pages \ j.todo : j.sig[q] # 0 => Row(j.index, j.sig[q], q)
    /\ j.pc = "stamp" => j.page \in Pages /\ Row(a.index, j.sig[j.page], j.page)
    /\ j.pc = "resign" => \A q \in Pages \ j.todo : q \notin a.index.listed
CacheInv == FilesInv /\ \A p \in Procs : Mine(job[p], alias[p])

\* A step of a process that leaves the pages alone.
LEMMA StepMine ==
    ASSUME TypeInv, CacheInv, NEW p \in Procs, NEW j, Goto(p, j),
           UNCHANGED <<file, clock>>, NEW a, alias' = [alias EXCEPT ![p] = a], Mine(j, a)
    PROVE  CacheInv'
<1>1. \A r \in Procs : /\ job'[r] = IF r = p THEN j ELSE job[r]
                       /\ alias'[r] = IF r = p THEN a ELSE alias[r]
  BY DEF TypeInv, TypeOK, Goto
<1>2. \A r \in Procs : Mine(job'[r], alias'[r])
  BY <1>1 DEF CacheInv
<1>3. FilesInv'
  BY DEF CacheInv, FilesInv
<1>4. \A k, b : Mine(k, b) => Mine(k, b)'
  BY DEF Mine, Row, RowIsCurrent, Exists
<1> QED BY <1>2, <1>3, <1>4 DEF CacheInv

\* A page is saved with a new stamp, or deleted: no row becomes one of a stamp it is not of.
LEMMA FileMine ==
    ASSUME TypeInv, FilesInv, NEW q \in Pages, clock' \in Nat, clock <= clock',
           NEW f \in Files, file' = [file EXCEPT ![q] = f],
           \/ f.stamp = 0 /\ f.says = Nothing
           \/ clock < f.stamp /\ f.stamp <= clock'
    PROVE  /\ FilesInv'
           /\ \A j \in Jobs, a \in Kept \union {None} : Mine(j, a) => Mine(j, a)'
<1>0. /\ clock \in Nat /\ \A r \in Pages : file[r].stamp \in Nat
      /\ \A r \in Pages : file'[r] = IF r = q THEN f ELSE file[r]
  BY BoundsAssumption DEF TypeInv, TypeOK, Files, Stamps
<1>1. FilesInv'
  BY <1>0 DEF FilesInv
<1>2. ASSUME NEW i, NEW s \in Nat, s <= clock, NEW r \in Pages, Row(i, s, r)
      PROVE  Row(i, s, r)'
  <2>1. CASE r = q
    <3>1. s # 0 => file'[r].stamp # s
      BY <1>0, <1>2, <2>1
    <3> QED BY <1>2, <3>1 DEF Row
  <2>2. CASE r # q
    <3>1. file'[r] = file[r]
      BY <1>0, <2>2
    <3> QED BY <1>2, <3>1 DEF Row, RowIsCurrent, Exists
  <2> QED BY <2>1, <2>2
<1>3. ASSUME NEW j \in Jobs, NEW a \in Kept \union {None}, Mine(j, a)
      PROVE  Mine(j, a)'
  <2>1. \A r \in Pages : j.sig[r] \in Nat /\ (a # None => a.sig[r] \in Nat)
    BY DEF Jobs, Kept, Signatures, Stamps
  <2>2. \A r \in Pages : j.sig[r] <= clock /\ j.sig[r] <= clock'
                         /\ (a # None => a.sig[r] <= clock /\ a.sig[r] <= clock')
    BY <1>0, <1>3, <2>1 DEF Mine
  <2>3. a # None => \A r \in Pages : \/ j.pc = "stamp" /\ r = j.page
                                     \/ Row(a.index, a.sig[r], r)'
    BY <1>2, <1>3, <2>1, <2>2 DEF Mine
  <2>4. j.pc = "read" => \A r \in Pages \ j.todo : j.sig[r] # 0 => Row(j.index, j.sig[r], r)'
    BY <1>2, <1>3, <2>1, <2>2 DEF Mine
  <2>5. j.pc = "stamp" => Row(a.index, j.sig[j.page], j.page)'
    BY <1>2, <1>3, <2>1, <2>2 DEF Mine
  <2> QED BY <1>3, <2>2, <2>3, <2>4, <2>5 DEF Mine
<1> QED BY <1>1, <1>3

LEMMA CacheInit == Init => CacheInv
<1> SUFFICES ASSUME Init PROVE CacheInv
  OBVIOUS
<1>1. FilesInv
  <2>1. \A q \in Pages : file[q] \in {Gone} \union {[stamp |-> 1, says |-> c] : c \in Contents}
    BY DEF Init
  <2>2. clock = 1
    BY DEF Init
  <2> QED BY <2>1, <2>2 DEF FilesInv, Gone
<1>2. ASSUME NEW p \in Procs
      PROVE  Mine(job[p], alias[p])
  <2>1. job[p] = Idle /\ alias[p] = None /\ clock = 1
    BY DEF Init
  <2> QED BY <2>1 DEF Mine, Idle
<1> QED BY <1>1, <1>2 DEF CacheInv

\* A call that is over, or begins, holds what the cache holds.
LEMMA CalmMine ==
    ASSUME TypeInv, CacheInv, NEW p \in Procs, NEW j \in Jobs,
           j.pc \notin {"read", "stamp", "resign"}, job[p].pc # "stamp",
           \A q \in Pages : j.sig[q] <= clock
    PROVE  Mine(j, alias[p]) /\ Mine(j, None)
BY DEF Mine, CacheInv

LEMMA SigPast ==
    ASSUME TypeInv, CacheInv, NEW p \in Procs
    PROVE  /\ \A q \in Pages : /\ Sig[q] = file[q].stamp /\ Sig[q] <= clock
                               /\ Idle.sig[q] <= clock /\ job[p].sig[q] <= clock
           /\ Idle \in Jobs /\ Idle.pc = "idle"
<1>1. clock \in Nat /\ Idle \in Jobs
  BY IdleTyped DEF TypeInv, TypeOK
<1> QED BY <1>1 DEF CacheInv, FilesInv, Mine, Sig, Idle

\* The steps of a process after which the index is what it was.
LEMMA CalmSteps ==
    ASSUME TypeInv, CacheInv, NEW p \in Procs,
           \/ Build(p) \/ Sign(p) \/ Clear(p) \/ Forget(p) \/ Unlink(p)
           \/ Load(p) \/ Lookup(p) \/ Titles(p) \/ Sources(p) \/ SaveDisk(p) \/ Keep(p)
           \/ Restart(p)
    PROVE  CacheInv'
<1>0. /\ job[p] \in Jobs /\ Idle \in Jobs /\ Idle.pc = "idle"
      /\ \A q \in Pages : Sig[q] <= clock /\ Idle.sig[q] <= clock /\ job[p].sig[q] <= clock
      /\ alias = [alias EXCEPT ![p] = alias[p]] /\ Sig \in Signatures /\ Listed \in SUBSET Pages
  BY SigPast, Found
<1>1. ASSUME NEW j \in Jobs, j.pc \notin {"read", "stamp", "resign"}, job[p].pc # "stamp",
             \A q \in Pages : j.sig[q] <= clock, Goto(p, j), UNCHANGED <<file, clock>>,
             UNCHANGED alias \/ alias' = [alias EXCEPT ![p] = None]
      PROVE  CacheInv'
  BY <1>0, <1>1, CalmMine, StepMine
<1>2. CASE Build(p)
  <2> DEFINE j == [Idle EXCEPT !.pc = "sign"]
  <2>1. j \in Jobs /\ j.pc = "sign" /\ \A q \in Pages : j.sig[q] <= clock
    BY <1>0 DEF Jobs
  <2> HIDE DEF j
  <2> QED BY <1>1, <1>2, <2>1 DEF Build, At, j
<1>3. CASE Sign(p)
  <2> DEFINE j == [job[p] EXCEPT !.pc = "list", !.sig = Sig]
  <2>1. j \in Jobs /\ j.pc = "list" /\ \A q \in Pages : j.sig[q] <= clock
    BY <1>0 DEF Jobs
  <2>2. Goto(p, Idle) \/ Goto(p, j)
    BY <1>3 DEF Sign, Return
  <2> HIDE DEF j
  <2> QED BY <1>0, <1>1, <1>3, <2>1, <2>2 DEF Sign, At
<1>4. CASE Clear(p)
  <2>1. Goto(p, job[p]) /\ job[p].pc = "idle"
    BY <1>4 DEF Clear, At, Goto, TypeInv, TypeOK
  <2> QED BY <1>0, <1>1, <1>4, <2>1 DEF Clear
<1>5. CASE Forget(p)
  <2> DEFINE j == [job[p] EXCEPT !.pc = "unlink"]
  <2>1. j \in Jobs /\ j.pc = "unlink" /\ \A q \in Pages : j.sig[q] <= clock
    BY <1>0 DEF Jobs
  <2> HIDE DEF j
  <2> QED BY <1>1, <1>5, <2>1 DEF Forget, At, j
<1>6. CASE Unlink(p)
  BY <1>0, <1>1, <1>6 DEF Unlink, Return, At
<1>7. CASE Load(p)
  <2> DEFINE j == [Idle EXCEPT !.pc = "lookup", !.sig = Sig]
  <2>1. j \in Jobs /\ j.pc = "lookup" /\ \A q \in Pages : j.sig[q] <= clock
    BY <1>0 DEF Jobs
  <2> HIDE DEF j
  <2> QED BY <1>1, <1>7, <2>1 DEF Load, At, j
<1>8. CASE Lookup(p)
  <2> DEFINE j == [job[p] EXCEPT !.pc = "titles"]
  <2>1. j \in Jobs /\ j.pc = "titles" /\ \A q \in Pages : j.sig[q] <= clock
    BY <1>0 DEF Jobs
  <2>2. Goto(p, Idle) \/ Goto(p, j)
    BY <1>8 DEF Lookup, Return
  <2> HIDE DEF j
  <2> QED BY <1>0, <1>1, <1>8, <2>1, <2>2 DEF Lookup, At
<1>9. CASE Titles(p)
  <2> DEFINE j == [job[p] EXCEPT !.pc = "sources", !.titles = Listed, !.came = Came(p)]
  <2>1. j \in Jobs /\ j.pc = "sources" /\ \A q \in Pages : j.sig[q] <= clock
    BY <1>0 DEF Jobs, Came
  <2> HIDE DEF j
  <2> QED BY <1>1, <1>9, <2>1 DEF Titles, At, j
<1>13. CASE Sources(p)
  <2> DEFINE j == [job[p] EXCEPT !.pc = "count", !.todo = Listed, !.came = @ \union Came(p)]
  <2>1. j \in Jobs /\ j.pc = "count" /\ \A q \in Pages : j.sig[q] <= clock
    BY <1>0 DEF Jobs, Came
  <2> HIDE DEF j
  <2> QED BY <1>1, <1>13, <2>1 DEF Sources, At, j
<1>10. CASE SaveDisk(p)
  <2> DEFINE j == [job[p] EXCEPT !.pc = "keep"]
  <2>1. j \in Jobs /\ j.pc = "keep" /\ \A q \in Pages : j.sig[q] <= clock
    BY <1>0 DEF Jobs
  <2>2. Goto(p, Idle) \/ Goto(p, j)
    BY <1>10 DEF SaveDisk, Return
  <2> HIDE DEF j
  <2> QED BY <1>0, <1>1, <1>10, <2>1, <2>2 DEF SaveDisk, At
<1>11. CASE Keep(p)
  BY <1>0, <1>1, <1>11 DEF Keep, Return, At
<1>12. CASE Restart(p)
  <2>1. /\ Goto(p, Idle) /\ alias' = [alias EXCEPT ![p] = None] /\ UNCHANGED <<file, clock>>
    BY <1>12 DEF Restart, Return
  <2>2. Mine(Idle, None)
    BY <1>0 DEF Mine
  <2> QED BY <2>1, <2>2, StepMine
<1> QED BY <1>2, <1>3, <1>4, <1>5, <1>6, <1>7, <1>8, <1>9, <1>10, <1>11, <1>12, <1>13

LEMMA CountMine ==
    ASSUME TypeInv, CacheInv, NEW p \in Procs, Count(p)
    PROVE  CacheInv'
<1>1. PICK q, c, m : Goto(p, [job[p] EXCEPT !.todo = @ \ {q}, !.counts = c, !.missed = m])
  BY DEF Count
<1> DEFINE j == [job[p] EXCEPT !.todo = @ \ {q}, !.counts = c, !.missed = m]
<1>2. job[p] \in Jobs /\ job[p].pc = "count" /\ alias = [alias EXCEPT ![p] = alias[p]]
  BY Found DEF Count, At
<1>3. j.pc = "count" /\ j.sig = job[p].sig
  BY <1>2 DEF Jobs
<1>4. Mine(j, alias[p])
  <2> HIDE DEF j
  <2> QED BY <1>2, <1>3 DEF Mine, CacheInv
<1>5. Goto(p, j)
  BY <1>1
<1> HIDE DEF j
<1> QED BY <1>2, <1>4, <1>5, StepMine DEF Count

\* A build begins with no row, and has those of the pages that were not listed: they have
\* gone since they were stated, or were not there.
LEMMA ListMine ==
    ASSUME TypeInv, CacheInv, NEW p \in Procs, List(p)
    PROVE  CacheInv'
<1> DEFINE j == [job[p] EXCEPT !.pc = "read", !.index = EmptyIndex, !.todo = Listed]
<1>1. /\ job[p] \in Jobs /\ job[p].pc = "list" /\ alias = [alias EXCEPT ![p] = alias[p]]
      /\ \A q \in Pages : job[p].sig[q] <= clock
  BY Found, SigPast DEF List, At
<1>2. j.pc = "read" /\ j.sig = job[p].sig /\ j.index = EmptyIndex /\ j.todo = Listed
  BY <1>1 DEF Jobs
<1>3. Goto(p, j) /\ UNCHANGED <<file, clock, alias>>
  BY DEF List
<1> HIDE DEF j
<1>4. ASSUME NEW q \in Pages \ j.todo, j.sig[q] # 0
      PROVE  Row(j.index, j.sig[q], q)
  BY <1>2, <1>4 DEF Row, Listed, Exists
<1>5. Good(j.index) /\ j.index.listed \intersect j.todo = {}
  BY <1>2, EmptyGood DEF EmptyIndex
<1>6. Mine(j, alias[p])
  BY <1>1, <1>2, <1>4, <1>5 DEF Mine, CacheInv
<1> QED BY <1>1, <1>3, <1>6, StepMine

\* Each page read is one more row.
LEMMA ReadMine ==
    ASSUME TypeInv, CacheInv, NEW p \in Procs, Read(p)
    PROVE  CacheInv'
<1> DEFINE q == Least(job[p].todo)
           i == job[p].index
<1>1. /\ job[p] \in Jobs /\ job[p].pc = "read" /\ alias = [alias EXCEPT ![p] = alias[p]]
      /\ i \in Indexes /\ Good(i) /\ job[p].todo \subseteq Pages
      /\ \A r \in Pages : job[p].sig[r] <= clock
  BY Found, SigPast DEF Read, At, CacheInv, Mine, Jobs
<1>2. q \in job[p].todo /\ q \in Pages /\ q \notin i.listed
  <2>1. job[p].todo \in SUBSET Nat /\ job[p].todo # {} /\ job[p].todo \subseteq Pages
    BY <1>1, PagesAssumption DEF Read
  <2>2. q \in job[p].todo
    BY <2>1, LeastIn
  <2>3. i.listed \intersect job[p].todo = {}
    BY <1>1 DEF CacheInv, Mine
  <2> QED BY <2>1, <2>2, <2>3
<1>3. file[q].says.names \in SUBSET Words
  BY <1>2, PagesTyped DEF TypeInv
<1> DEFINE J(k) == [job[p] EXCEPT !.todo = @ \ {q}, !.index = k]
<1>4. ASSUME NEW k \in Indexes, Good(k), k.listed \subseteq i.listed \union {q},
             Row(k, job[p].sig[q], q) \/ job[p].sig[q] = 0,
             \A r \in Pages \ {q} : /\ r \in i.skipped => r \in k.skipped
                                    /\ r \in k.listed <=> r \in i.listed
                                    /\ k.names[r] = i.names[r],
             Goto(p, J(k))
      PROVE  CacheInv'
  <2> DEFINE j == J(k)
  <2>1. j.pc = "read" /\ j.sig = job[p].sig /\ j.index = k /\ j.todo = job[p].todo \ {q}
    BY <1>1 DEF Jobs
  <2>2. Goto(p, j)
    BY <1>4
  <2> HIDE DEF j
  <2>3. ASSUME NEW r \in Pages \ j.todo, j.sig[r] # 0
        PROVE  Row(j.index, j.sig[r], r)
    <3>1. CASE r = q
      BY <1>4, <2>1, <2>3, <3>1
    <3>2. CASE r # q
      <4>1. Row(i, job[p].sig[r], r)
        BY <1>1, <2>1, <2>3, <3>2 DEF CacheInv, Mine
      <4> QED BY <1>4, <2>1, <2>3, <3>2, <4>1 DEF Row, RowIsCurrent
    <3> QED BY <3>1, <3>2
  <2>4. j.index.listed \intersect j.todo = {}
    <3>1. i.listed \intersect job[p].todo = {}
      BY <1>1 DEF CacheInv, Mine
    <3> QED BY <1>4, <2>1, <3>1
  <2>5. Mine(j, alias[p])
    BY <1>1, <1>4, <2>1, <2>3, <2>4 DEF Mine, CacheInv
  <2> QED BY <1>1, <2>2, <2>5, StepMine DEF Read
<1> HIDE DEF q, i, J
<1>5. CASE Exists(q) /\ Goto(p, J(Claim(i, q, file[q].says.names)))
  <2> DEFINE k == Claim(i, q, file[q].says.names)
  <2>1. k \in Indexes /\ Good(k)
    BY <1>1, <1>2, <1>3, ClaimTyped, ClaimGood
  <2>2. /\ k.listed = i.listed \union {q} /\ k.skipped = i.skipped \ {q}
        /\ \A r \in Pages : k.names[r] = IF r = q THEN file[q].says.names ELSE i.names[r]
    BY <1>1, <1>2 DEF Claim, Indexes
  <2> HIDE DEF k
  <2>3. Row(k, job[p].sig[q], q) \/ job[p].sig[q] = 0
    BY <1>2, <1>5, <2>2 DEF Row, RowIsCurrent
  <2>4. Goto(p, J(k))
    BY <1>5 DEF k
  <2> QED BY <1>4, <2>1, <2>2, <2>3, <2>4
<1>6. CASE ~Exists(q) /\ Goto(p, J(i))
  <2>1. Row(i, job[p].sig[q], q) \/ job[p].sig[q] = 0
    BY <1>6 DEF Row, Exists
  <2> QED BY <1>1, <1>4, <1>6, <2>1
<1>7. CASE Goto(p, J(Skip(i, {q})))
  <2> DEFINE k == Skip(i, {q})
  <2>1. k \in Indexes /\ Good(k)
    BY <1>1, <1>2, SkipTyped, SkipGood
  <2>2. k.listed = i.listed /\ k.skipped = i.skipped \union {q} /\ k.names = i.names
    BY <1>1 DEF Skip, Indexes
  <2> HIDE DEF k
  <2>3. Row(k, job[p].sig[q], q)
    BY <2>2 DEF Row
  <2>4. Goto(p, J(k))
    BY <1>7 DEF k
  <2> QED BY <1>4, <2>1, <2>2, <2>3, <2>4
<1>8. \/ Exists(q) /\ Goto(p, J(Claim(i, q, file[q].says.names)))
      \/ ~Exists(q) /\ Goto(p, J(i))
      \/ Goto(p, J(Skip(i, {q})))
  BY DEF Read, J, q, i
<1> QED BY <1>5, <1>6, <1>7, <1>8

\* An index is kept under the signature of now if that is the one it was begun with: each row
\* is of the stamp it had then, and has still.
LEMMA CompareMine ==
    ASSUME TypeInv, CacheInv, NEW p \in Procs, Compare(p)
    PROVE  CacheInv'
<1> DEFINE i == job[p].index
           s == job[p].sig
<1>1. /\ job[p] \in Jobs /\ job[p].pc = "read" /\ alias = [alias EXCEPT ![p] = alias[p]]
      /\ Idle \in Jobs /\ Idle.pc = "idle" /\ i \in Indexes /\ Good(i) /\ job[p].todo = {}
      /\ \A r \in Pages : Idle.sig[r] <= clock /\ Sig[r] = file[r].stamp /\ Sig[r] <= clock
      /\ Sig \in Signatures
  BY Found, SigPast DEF Compare, At, CacheInv, Mine, Jobs
<1>2. CASE Agrees(p)
  <2> DEFINE k == Skip(i, i.listed \ Listed)
             e == [sig |-> Sig, index |-> k]
  <2>1. Good(k) /\ k.listed = i.listed /\ k.names = i.names
        /\ k.skipped = i.skipped \union (i.listed \ Listed)
    BY <1>1, SkipGood DEF Skip, Indexes
  <2>2. ASSUME NEW r \in Pages
        PROVE  Row(k, Sig[r], r)
    <3>1. s[r] = Sig[r] /\ Sig[r] = file[r].stamp
      BY <1>1, <1>2 DEF Agrees
    <3>2. CASE Sig[r] = 0
      BY <1>1, <2>1, <3>1, <3>2 DEF Row, Listed, Exists
    <3>3. CASE Sig[r] # 0
      <4>1. Row(i, s[r], r)
        BY <1>1, <3>1, <3>3 DEF CacheInv, Mine
      <4> QED BY <2>1, <3>1, <3>3, <4>1 DEF Row, RowIsCurrent
    <3> QED BY <3>2, <3>3
  <2>3. alias' = [alias EXCEPT ![p] = e] /\ Goto(p, Idle) /\ UNCHANGED <<file, clock>>
    BY <1>2 DEF Compare, Return
  <2> HIDE DEF k
  <2>4. Mine(Idle, e)
    BY <1>1, <2>1, <2>2 DEF Mine
  <2> HIDE DEF e
  <2> QED BY <2>3, <2>4, StepMine
<1>3. CASE ~Agrees(p)
  <2> DEFINE j == [Idle EXCEPT !.pc = "sign", !.tries = job[p].tries + 1]
  <2>1. j.pc = "sign" /\ j.sig = Idle.sig
    BY <1>1 DEF Jobs
  <2>2. UNCHANGED <<file, clock, alias>> /\ (Goto(p, Idle) \/ Goto(p, j))
    BY <1>3 DEF Compare, Return
  <2> HIDE DEF j
  <2>3. Mine(Idle, alias[p]) /\ Mine(j, alias[p])
    BY <1>1, <2>1 DEF Mine, CacheInv
  <2> QED BY <1>1, <2>2, <2>3, StepMine
<1> QED BY <1>2, <1>3

\* A collection drops the rows of the pages that are gone ...
LEMMA PurgeMine ==
    ASSUME TypeInv, CacheInv, NEW p \in Procs, Purge(p)
    PROVE  CacheInv'
<1> DEFINE i == alias[p].index
           left == Remove(i, Pages \ Listed)
           k == [left EXCEPT !.skipped = @ \intersect Listed]
           e == [alias[p] EXCEPT !.index = k]
           j == [Idle EXCEPT !.pc = "resign", !.todo = Listed]
<1>1. /\ alias[p] \in Kept /\ alias[p] # None /\ i \in Indexes /\ Good(i)
      /\ job[p].pc = "idle" /\ Idle \in Jobs /\ Listed \in SUBSET Pages
      /\ \A r \in Pages : Idle.sig[r] <= clock
  BY Found, SigPast DEF Purge, At, CacheInv, Mine, Kept
<1>2. left \in Indexes /\ Good(left) /\ left.listed = i.listed \ (Pages \ Listed)
      /\ left.skipped = i.skipped /\ \A r \in Listed : left.names[r] = i.names[r]
  BY <1>1, RemoveTyped, RemoveGood
<1>3. alias' = [alias EXCEPT ![p] = e] /\ Goto(p, j) /\ UNCHANGED <<file, clock>>
  BY DEF Purge
<1> HIDE DEF left
<1>4. Good(k) /\ k.listed = left.listed /\ k.names = left.names
      /\ k.skipped = i.skipped \intersect Listed
  BY <1>2, SkipGood DEF Indexes
<1> HIDE DEF k
<1>5. e.index = k /\ e.sig = alias[p].sig
  BY <1>1 DEF Kept
<1>6. j.pc = "resign" /\ j.sig = Idle.sig /\ j.todo = Listed
  BY <1>1 DEF Jobs
<1>7. ASSUME NEW r \in Pages
      PROVE  Row(k, e.sig[r], r)
  <2>1. CASE r \in Listed
    <3>1. Row(i, alias[p].sig[r], r)
      BY <1>1 DEF CacheInv, Mine
    <3> QED BY <1>2, <1>4, <1>5, <2>1, <3>1 DEF Row, RowIsCurrent
  <2>2. CASE r \notin Listed
    BY <1>2, <1>4, <2>2 DEF Row, Listed, Exists
  <2> QED BY <2>1, <2>2
<1>8. \A r \in Pages : e.sig[r] <= clock
  BY <1>1, <1>5 DEF CacheInv, Mine
<1>9. \A r \in Pages \ j.todo : r \notin e.index.listed
  BY <1>2, <1>4, <1>5, <1>6
<1> HIDE DEF e, j
<1>10. Mine(j, e)
  BY <1>1, <1>4, <1>5, <1>6, <1>7, <1>8, <1>9 DEF Mine
<1> QED BY <1>3, <1>10, StepMine

\* ... and takes the stamps of now, of rows that have them or are not accounted for.
LEMMA ResignMine ==
    ASSUME TypeInv, CacheInv, NEW p \in Procs, Resign(p)
    PROVE  CacheInv'
<1> DEFINE i == alias[p].index
           known == Pages \ job[p].todo
           unread == {q \in Pages : /\ file[q].stamp # alias[p].sig[q]
                                    /\ ~(q \in known /\ ~Exists(q))}
           k == Skip(i, unread)
           e == [sig |-> Sig, index |-> k]
<1>1. /\ alias[p] \in Kept /\ alias[p] # None /\ i \in Indexes /\ Good(i)
      /\ job[p].pc = "resign" /\ Idle.pc = "idle"
      /\ \A r \in Pages : Idle.sig[r] <= clock /\ Sig[r] = file[r].stamp /\ Sig[r] <= clock
  BY SigPast, NoneAssumption DEF Resign, At, CacheInv, Mine, Kept, TypeInv, Working
<1>2. alias' = [alias EXCEPT ![p] = e] /\ Goto(p, Idle) /\ UNCHANGED <<file, clock>>
  BY DEF Resign, Return
<1>3. Good(k) /\ k.listed = i.listed /\ k.names = i.names /\ k.skipped = i.skipped \union unread
  BY <1>1, SkipGood DEF Skip, Indexes
<1> HIDE DEF k
<1>4. ASSUME NEW r \in Pages
      PROVE  Row(k, Sig[r], r)
  <2>1. CASE r \in unread
    BY <1>3, <2>1 DEF Row
  <2>2. CASE file[r].stamp = alias[p].sig[r]
    <3>1. Row(i, alias[p].sig[r], r)
      BY <1>1 DEF CacheInv, Mine
    <3> QED BY <1>1, <1>3, <2>2, <3>1 DEF Row, RowIsCurrent
  <2>3. CASE r \in known /\ ~Exists(r)
    <3>1. r \notin i.listed
      BY <1>1, <2>3 DEF CacheInv, Mine
    <3> QED BY <1>1, <1>3, <2>3, <3>1 DEF Row, Exists
  <2> QED BY <2>1, <2>2, <2>3
<1>5. Mine(Idle, e)
  BY <1>1, <1>3, <1>4 DEF Mine
<1> HIDE DEF e
<1> QED BY <1>2, <1>5, StepMine

\* A patch reads the row of its page again and keeps the stamp the page has then ...
LEMMA PatchMine ==
    ASSUME TypeInv, CacheInv, NEW p \in Procs, Patch(p)
    PROVE  CacheInv'
<1> DEFINE q == job[p].page
           i == alias[p].index
           bare == Remove(i, {q})
           j == [job[p] EXCEPT !.pc = "stamp", !.sig = Sig]
<1>1. /\ alias[p] \in Kept /\ alias[p] # None /\ i \in Indexes /\ Good(i) /\ q \in Pages
      /\ job[p] \in Jobs /\ job[p].pc = "patch"
      /\ \A r \in Pages : Sig[r] = file[r].stamp /\ Sig[r] <= clock
  BY Found, SigPast, NoneAssumption DEF Patch, At, CacheInv, Mine, Kept, TypeInv, Working
<1>2. bare \in Indexes /\ Good(bare) /\ bare.listed = i.listed \ {q} /\ bare.skipped = i.skipped
      /\ \A r \in Pages \ {q} : bare.names[r] = i.names[r]
  BY <1>1, RemoveTyped, RemoveGood
<1>3. file[q].says.names \in SUBSET Words
  BY <1>1, PagesTyped DEF TypeInv
<1>4. j.pc = "stamp" /\ j.page = q /\ j.sig = Sig /\ Goto(p, j) /\ UNCHANGED <<file, clock>>
  BY <1>1 DEF Patch, Jobs
<1> HIDE DEF bare, q, j
<1>5. ASSUME NEW k \in Indexes, Good(k), alias' = [alias EXCEPT ![p].index = k],
             Row(k, Sig[q], q),
             \A r \in Pages \ {q} : /\ r \in i.skipped => r \in k.skipped
                                    /\ r \in k.listed <=> r \in i.listed
                                    /\ k.names[r] = i.names[r]
      PROVE  CacheInv'
  <2> DEFINE e == [alias[p] EXCEPT !.index = k]
  <2>1. e.index = k /\ e.sig = alias[p].sig /\ alias' = [alias EXCEPT ![p] = e]
    BY <1>1, <1>5 DEF Kept
  <2> HIDE DEF e
  <2>2. ASSUME NEW r \in Pages, r # q
        PROVE  Row(k, e.sig[r], r)
    <3>1. Row(i, alias[p].sig[r], r)
      BY <1>1, <2>2 DEF CacheInv, Mine
    <3> QED BY <1>5, <2>1, <2>2, <3>1 DEF Row, RowIsCurrent
  <2>3. \A r \in Pages : e.sig[r] <= clock
    BY <1>1, <2>1 DEF CacheInv, Mine
  <2>4. Mine(j, e)
    BY <1>1, <1>4, <1>5, <2>1, <2>2, <2>3 DEF Mine
  <2> QED BY <1>4, <2>1, <2>4, StepMine
<1>6. CASE Exists(q) /\ alias' = [alias EXCEPT ![p].index = Claim(bare, q, file[q].says.names)]
  <2> DEFINE k == Claim(bare, q, file[q].says.names)
  <2>1. k \in Indexes /\ Good(k)
    BY <1>1, <1>2, <1>3, ClaimTyped, ClaimGood
  <2>2. /\ k.listed = bare.listed \union {q} /\ k.skipped = bare.skipped \ {q}
        /\ \A r \in Pages : k.names[r] = IF r = q THEN file[q].says.names ELSE bare.names[r]
    BY <1>1, <1>2 DEF Claim, Indexes
  <2>3. alias' = [alias EXCEPT ![p].index = k]
    BY <1>6
  <2> HIDE DEF k
  <2>4. Row(k, Sig[q], q)
    BY <1>1, <1>6, <2>2 DEF Row, RowIsCurrent, Exists
  <2> QED BY <1>2, <1>5, <2>1, <2>2, <2>3, <2>4
<1>7. CASE ~Exists(q) /\ alias' = [alias EXCEPT ![p].index = [bare EXCEPT !.skipped = @ \ {q}]]
  <2> DEFINE k == [bare EXCEPT !.skipped = @ \ {q}]
  <2>1. k \in Indexes /\ Good(k) /\ k.listed = bare.listed /\ k.names = bare.names
        /\ k.skipped = bare.skipped \ {q}
    BY <1>2, SkipGood DEF Indexes
  <2>2. alias' = [alias EXCEPT ![p].index = k]
    BY <1>7
  <2> HIDE DEF k
  <2>3. Row(k, Sig[q], q)
    BY <1>1, <1>2, <1>7, <2>1 DEF Row, Exists
  <2> QED BY <1>2, <1>5, <2>1, <2>2, <2>3
<1>8. CASE alias' = [alias EXCEPT ![p].index = Skip(bare, {q})]
  <2> DEFINE k == Skip(bare, {q})
  <2>1. k \in Indexes /\ Good(k)
    BY <1>1, <1>2, SkipTyped, SkipGood
  <2>2. k.listed = bare.listed /\ k.names = bare.names /\ k.skipped = bare.skipped \union {q}
    BY <1>2 DEF Skip, Indexes
  <2>3. alias' = [alias EXCEPT ![p].index = k]
    BY <1>8
  <2> HIDE DEF k
  <2>4. Row(k, Sig[q], q)
    BY <2>2 DEF Row
  <2> QED BY <1>2, <1>5, <2>1, <2>2, <2>3, <2>4
<1>9. \/ Exists(q) /\ alias' = [alias EXCEPT ![p].index = Claim(bare, q, file[q].says.names)]
      \/ ~Exists(q) /\ alias' = [alias EXCEPT ![p].index = [bare EXCEPT !.skipped = @ \ {q}]]
      \/ alias' = [alias EXCEPT ![p].index = Skip(bare, {q})]
  BY DEF Patch, bare, q
<1> QED BY <1>6, <1>7, <1>8, <1>9

\* ... and gives the page its stamp of now, as a row that was not read if that is another.
LEMMA StampMine ==
    ASSUME TypeInv, CacheInv, NEW p \in Procs, Stamp(p)
    PROVE  CacheInv'
<1> DEFINE q == job[p].page
           i == alias[p].index
           unread == IF file[q].stamp = job[p].sig[q] THEN {} ELSE {q}
           k == Skip(i, unread)
           e == [sig |-> [alias[p].sig EXCEPT ![q] = file[q].stamp], index |-> k]
           j == [job[p] EXCEPT !.pc = "forget"]
<1>1. /\ alias[p] \in Kept /\ alias[p] # None /\ i \in Indexes /\ Good(i) /\ q \in Pages
      /\ job[p] \in Jobs /\ job[p].pc = "stamp"
      /\ \A r \in Pages : /\ Sig[r] = file[r].stamp /\ Sig[r] <= clock
                          /\ job[p].sig[r] <= clock /\ alias[p].sig[r] <= clock
  BY Found, SigPast, NoneAssumption DEF Stamp, At, CacheInv, Mine, Kept, TypeInv, Working
<1>2. j.pc = "forget" /\ j.sig = job[p].sig
  BY <1>1 DEF Jobs
<1>3. alias' = [alias EXCEPT ![p] = e] /\ Goto(p, j) /\ UNCHANGED <<file, clock>>
  BY DEF Stamp
<1>4. Good(k) /\ k.listed = i.listed /\ k.names = i.names /\ k.skipped = i.skipped \union unread
  BY <1>1, SkipGood DEF Skip, Indexes
<1>5. \A r \in Pages : e.sig[r] = IF r = q THEN file[q].stamp ELSE alias[p].sig[r]
  BY <1>1 DEF Kept, Signatures
<1>6. e.index = k
  OBVIOUS
<1> HIDE DEF k, e, j
<1>7. ASSUME NEW r \in Pages
      PROVE  Row(k, e.sig[r], r)
  <2>1. CASE r = q
    <3>1. CASE file[q].stamp = job[p].sig[q]
      <4>1. Row(i, job[p].sig[q], q)
        BY <1>1 DEF CacheInv, Mine
      <4> QED BY <1>4, <1>5, <2>1, <3>1, <4>1 DEF Row, RowIsCurrent
    <3>2. CASE file[q].stamp # job[p].sig[q]
      BY <1>4, <2>1, <3>2 DEF Row
    <3> QED BY <3>1, <3>2
  <2>2. CASE r # q
    <3>1. Row(i, alias[p].sig[r], r)
      BY <1>1, <2>2 DEF CacheInv, Mine
    <3> QED BY <1>4, <1>5, <2>2, <3>1 DEF Row, RowIsCurrent
  <2> QED BY <2>1, <2>2
<1>8. \A r \in Pages : e.sig[r] <= clock
  BY <1>1, <1>5
<1>9. Mine(j, e)
  BY <1>1, <1>2, <1>4, <1>6, <1>7, <1>8 DEF Mine
<1> QED BY <1>3, <1>9, StepMine

\* Pages change under every index and every call.
LEMMA PutMine ==
    ASSUME TypeInv, CacheInv, NEW q \in Pages, NEW c \in Contents, Put(q, c)
    PROVE  FilesInv' /\ \A j \in Jobs, a \in Kept \union {None} : Mine(j, a) => Mine(j, a)'
<1> DEFINE f == [stamp |-> clock + 1, says |-> c]
<1>1. clock \in Nat /\ clock' = clock + 1 /\ file' = [file EXCEPT ![q] = f]
  BY DEF Put, TypeInv, TypeOK
<1>2. f \in Files /\ f.stamp = clock + 1
  <2>1. clock + 1 \in Stamps
    BY BoundsAssumption DEF Put, TypeInv, TypeOK, Stamps
  <2> QED BY <2>1 DEF Files
<1> HIDE DEF f
<1>3. clock' \in Nat /\ clock <= clock' /\ clock < f.stamp /\ f.stamp <= clock'
  BY <1>1, <1>2
<1>4. FilesInv
  BY DEF CacheInv
<1> QED BY <1>1, <1>2, <1>3, <1>4, FileMine

LEMMA HumanMine ==
    ASSUME TypeInv, CacheInv, NEW q \in Pages, Delete(q) \/ \E c \in Contents : Save(q, c)
    PROVE  CacheInv'
<1>1. /\ UNCHANGED <<alias, job>> /\ clock \in Nat
      /\ \A p \in Procs : job[p] \in Jobs /\ alias[p] \in Kept \union {None}
  BY Found DEF Delete, Save, TypeInv, TypeOK
<1>2. FilesInv' /\ \A j \in Jobs, a \in Kept \union {None} : Mine(j, a) => Mine(j, a)'
  <2>1. CASE Delete(q)
    <3>1. Gone \in Files /\ Gone.stamp = 0 /\ Gone.says = Nothing
      BY BoundsAssumption DEF Gone, Files, Stamps
    <3>2. clock' = clock /\ file' = [file EXCEPT ![q] = Gone]
      BY <2>1 DEF Delete
    <3>3. clock' \in Nat /\ clock <= clock' /\ FilesInv
      BY <1>1, <3>2 DEF CacheInv
    <3> QED BY <3>1, <3>2, <3>3, FileMine
  <2>2. ASSUME NEW c \in Contents, Put(q, c)
        PROVE  FilesInv' /\ \A j \in Jobs, a \in Kept \union {None} : Mine(j, a) => Mine(j, a)'
    BY <2>2, PutMine
  <2> QED BY <2>1, <2>2 DEF Save
<1> QED BY <1>1, <1>2 DEF CacheInv

LEMMA WriteMine ==
    ASSUME TypeInv, CacheInv, NEW p \in Procs, NEW q \in Pages, NEW c \in Contents, Write(p, q, c)
    PROVE  CacheInv'
<1> DEFINE j == [Idle EXCEPT !.page = q, !.pc = IF alias[p] = None THEN "forget" ELSE "patch"]
<1>1. /\ \A r \in Procs : job[r] \in Jobs /\ alias[r] \in Kept \union {None}
      /\ Idle \in Jobs /\ job[p].pc = "idle" /\ \A r \in Pages : Idle.sig[r] <= clock
      /\ UNCHANGED alias
  BY Found, SigPast DEF Write, At
<1>2. j \in Jobs /\ j.pc \in {"forget", "patch"} /\ j.sig = Idle.sig
  BY <1>1 DEF Jobs
<1>3. Goto(p, j) /\ Put(q, c)
  BY DEF Write
<1> HIDE DEF j
<1>4. FilesInv' /\ \A k \in Jobs, a \in Kept \union {None} : Mine(k, a) => Mine(k, a)'
  BY <1>3, PutMine
<1>5. Mine(j, alias[p])
  BY <1>1, <1>2, CalmMine
<1>6. \A r \in Procs : job'[r] = IF r = p THEN j ELSE job[r]
  BY <1>3 DEF Goto, TypeInv, TypeOK
<1> QED BY <1>1, <1>2, <1>4, <1>5, <1>6 DEF CacheInv

LEMMA CacheNext == TypeInv /\ CacheInv /\ [Next]_vars => CacheInv'
<1> SUFFICES ASSUME TypeInv, CacheInv, [Next]_vars PROVE CacheInv'
  OBVIOUS
<1>1. ASSUME NEW p \in Procs, Call(p)
      PROVE  CacheInv'
  BY <1>1, CalmSteps, CountMine, ListMine, ReadMine, CompareMine, PurgeMine, ResignMine,
     PatchMine, StampMine, WriteMine, Zenon DEF Call
<1>2. CASE UNCHANGED vars
  <2>1. UNCHANGED <<file, clock, alias, job>>
    BY <1>2 DEF vars
  <2> QED BY <2>1 DEF CacheInv, FilesInv, Mine, Row, RowIsCurrent, Exists
<1> QED BY <1>1, <1>2, HumanMine DEF Next

LEMMA CacheSafe == Spec => [](TypeInv /\ CacheInv)
BY InitTyped, NextTyped, CacheInit, CacheNext, PTL DEF Spec

\* An index served from memory has the row of every page as its file is, whatever is saved,
\* created and deleted while it is read, patched and collected, but for the pages whose stamp
\* was taken without reading that version (cached_build_alias_index).
THEOREM HitIsCurrentSafe == Spec => []HitIsCurrent
<1>1. TypeInv /\ CacheInv => HitIsCurrent
  <2> SUFFICES ASSUME TypeInv, CacheInv, NEW p \in Procs, At(p, "sign"), Hit(p),
                      NEW q \in Pages \ alias[p].index.skipped
               PROVE  RowIsCurrent(alias[p].index, q)
    BY DEF HitIsCurrent
  <2>1. alias[p] # None /\ alias[p].sig[q] = file[q].stamp /\ job[p].pc = "sign"
    BY DEF Hit, Serves, Sig, At
  <2>2. Row(alias[p].index, file[q].stamp, q) /\ Good(alias[p].index)
    BY <2>1 DEF CacheInv, Mine
  <2>3. CASE file[q].stamp = 0
    <3>1. file[q].says.names = {}
      BY <2>3 DEF CacheInv, FilesInv, Nothing
    <3> QED BY <2>2, <2>3, <3>1 DEF Row, RowIsCurrent, Good, Exists
  <2>4. CASE file[q].stamp # 0
    BY <2>2, <2>4 DEF Row
  <2> QED BY <2>3, <2>4
<1> QED BY <1>1, CacheSafe, PTL

\* Through patches and collections an alias leads to a page that declares it, and a declared
\* alias to its page, unless a second page asked for it (remove_page_from_alias_index).
THEOREM OwnersAgreeSafe == Spec => []OwnersAgree
<1>1. TypeInv /\ CacheInv => OwnersAgree
  <2> SUFFICES ASSUME TypeInv, CacheInv, NEW p \in Procs, alias[p] # None, NEW w \in Words
               PROVE  LET i == alias[p].index
                      IN  /\ i.owner[w] # None => i.owner[w] \in i.listed
                                                  /\ w \in i.names[i.owner[w]]
                          /\ \A q \in i.listed : w \in i.names[q] /\ w \notin i.contested
                                => i.owner[w] = q
    BY DEF OwnersAgree
  <2>1. Good(alias[p].index)
    BY DEF CacheInv, Mine
  <2> QED BY <2>1 DEF Good
<1> QED BY <1>1, CacheSafe, PTL

-----------------------------------------------------------------------------
(* The backlink counts *)

\* The pages that had a file when signature s was taken are still at the stamps of s.
Steady(s) == \A q \in Pages : s[q] # 0 => file[q].stamp = s[q]
Past(s) == \A q \in Pages : s[q] <= clock
Signed(s) == {q \in Pages : s[q] # 0}

\* The counts are those of the links of the pages in S, to the pages that had a file.
Tally(s, counts, S) ==
    \A t \in Pages : counts[t] = IF s[t] # 0 THEN FullCount(t, S) ELSE 0

\* An entry counts the links of the pages it was signed for, if they are what they were; and
\* so does the call that makes one of those it has read.
Told(e) == Past(e.sig) /\ (Steady(e.sig) /\ e.came = {}
                             => Tally(e.sig, e.counts, Signed(e.sig) \ e.missed))
Counting(j) ==
    /\ j.pc \in {"lookup", "titles", "sources"} => j.missed = {} /\ \A t \in Pages : j.counts[t] = 0
    /\ j.pc = "sources" /\ Steady(j.sig) /\ j.came = {} => j.titles = Signed(j.sig)
    /\ j.pc = "keep" => j.todo = {}
    /\ j.pc \in {"count", "keep"} /\ Steady(j.sig) /\ j.came = {}
         => /\ j.titles = Signed(j.sig) /\ j.todo \subseteq j.titles /\ j.todo \intersect j.missed = {}
            /\ Tally(j.sig, j.counts, j.titles \ (j.todo \union j.missed))
CountInv == /\ \A p \in Procs : Counting(job[p]) /\ (memory[p] # None => Told(memory[p]))
            /\ disk # None => Told(disk)

\* A step of a process that leaves the pages alone.
LEMMA StepCount ==
    ASSUME TypeInv, CountInv, NEW p \in Procs, NEW j, Goto(p, j), UNCHANGED <<file, clock>>,
           Counting(j), NEW m, memory' = [memory EXCEPT ![p] = m], m # None => Told(m),
           NEW d, disk' = d, d # None => Told(d)
    PROVE  CountInv'
<1>1. \A r \in Procs : /\ job'[r] = IF r = p THEN j ELSE job[r]
                       /\ memory'[r] = IF r = p THEN m ELSE memory[r]
  BY DEF TypeInv, TypeOK, Goto
<1>2. \A e : Told(e) => Told(e)'
  BY DEF Told, Past, Steady, Tally, FullCount
<1>3. \A k : Counting(k) => Counting(k)'
  BY DEF Counting, Steady, Tally, FullCount
<1>4. ASSUME NEW r \in Procs
      PROVE  Counting(job[r])' /\ (memory'[r] # None => Told(memory[r])')
  BY <1>1, <1>2, <1>3 DEF CountInv
<1>5. disk' # None => Told(disk)'
  BY <1>2
<1> QED BY <1>4, <1>5 DEF CountInv

\* A page is saved or deleted: one that had a file is no longer at its stamp, and for the
\* others nothing that was counted has changed.
LEMMA FileTold ==
    ASSUME TypeInv, NEW q \in Pages, NEW f \in Files, file' = [file EXCEPT ![q] = f],
           clock' \in Nat, clock <= clock', f.stamp = 0 \/ clock < f.stamp
    PROVE  /\ \A e \in Entries : Told(e) => Told(e)'
           /\ \A j \in Jobs : Past(j.sig) /\ Counting(j) => Counting(j)'
<1>0. /\ clock \in Nat
      /\ \A r \in Pages : file'[r] = IF r = q THEN f ELSE file[r]
  BY DEF TypeInv, TypeOK, Files
<1>1. ASSUME NEW s \in Signatures, Past(s), Steady(s)'
      PROVE  Steady(s) /\ \A r \in Signed(s) : file'[r] = file[r]
  <2>1. s[q] = 0
    <3>1. s[q] \in Nat /\ s[q] <= clock
      BY <1>1 DEF Past, Signatures, Stamps
    <3>2. s[q] # 0 => f.stamp = s[q]
      BY <1>0, <1>1 DEF Steady
    <3>3. f.stamp \in Nat
      BY DEF Files, Stamps
    <3> QED BY <1>0, <3>1, <3>2, <3>3
  <2> QED BY <1>0, <1>1, <2>1 DEF Steady, Signed
<1>2. ASSUME NEW s \in Signatures, Past(s), Steady(s)', NEW counts,
             NEW S \in SUBSET Signed(s), Tally(s, counts, S)
      PROVE  Tally(s, counts, S)'
  <2>1. ASSUME NEW t \in Pages
        PROVE  FullCount(t, S)' = FullCount(t, S)
    <3>1. {r \in S : t \in file[r].says.links} = {r \in S : t \in file'[r].says.links}
      BY <1>1, <1>2
    <3> QED BY <3>1 DEF FullCount
  <2> QED BY <1>2, <2>1 DEF Tally
<1>3. ASSUME NEW s \in Signatures, Past(s)
      PROVE  Past(s)'
  BY <1>0, <1>3 DEF Past, Signatures, Stamps
<1>4. ASSUME NEW e \in Entries, Told(e)
      PROVE  Told(e)'
  <2>1. e.sig \in Signatures /\ Signed(e.sig) \ e.missed \in SUBSET Signed(e.sig)
    BY DEF Entries
  <2>2. ASSUME Steady(e.sig)', e.came = {}
        PROVE  Tally(e.sig, e.counts, Signed(e.sig) \ e.missed)'
    BY <1>1, <1>2, <1>4, <2>1, <2>2 DEF Told
  <2> QED BY <1>3, <1>4, <2>1, <2>2 DEF Told, Signed
<1>5. ASSUME NEW j \in Jobs, Past(j.sig), Counting(j)
      PROVE  Counting(j)'
  <2>1. j.sig \in Signatures
    BY DEF Jobs
  <2>2. ASSUME j.pc \in {"count", "keep"}, Steady(j.sig)', j.came = {}
        PROVE  /\ j.titles = Signed(j.sig) /\ j.todo \subseteq j.titles /\ j.todo \intersect j.missed = {}
               /\ Tally(j.sig, j.counts, j.titles \ (j.todo \union j.missed))'
    <3>1. /\ j.titles = Signed(j.sig) /\ j.todo \subseteq j.titles /\ j.todo \intersect j.missed = {}
          /\ Tally(j.sig, j.counts, j.titles \ (j.todo \union j.missed))
      BY <1>1, <1>5, <2>1, <2>2 DEF Counting
    <3>2. j.titles \ (j.todo \union j.missed) \in SUBSET Signed(j.sig)
      BY <3>1
    <3> QED BY <1>2, <1>5, <2>1, <2>2, <3>1, <3>2
  <2>3. ASSUME j.pc = "sources", Steady(j.sig)', j.came = {}
        PROVE  j.titles = Signed(j.sig)
    BY <1>1, <1>5, <2>1, <2>3 DEF Counting
  <2> QED BY <1>5, <2>2, <2>3 DEF Counting, Signed
<1> QED BY <1>4, <1>5

LEMMA CountInit == Init => CountInv
<1> SUFFICES ASSUME Init PROVE CountInv
  OBVIOUS
<1>1. \A p \in Procs : job[p] = Idle /\ memory[p] = None
  BY DEF Init
<1>2. disk = None /\ Idle.pc = "idle"
  BY DEF Init, Idle
<1> QED BY <1>1, <1>2 DEF CountInv, Counting

\* The steps of the calls that count nothing, and the end of those that do.
LEMMA OtherCount ==
    ASSUME TypeInv, CountInv, NEW p \in Procs,
           \/ Build(p) \/ Sign(p) \/ List(p) \/ Read(p) \/ Compare(p) \/ Clear(p) \/ Purge(p)
           \/ Resign(p) \/ Patch(p) \/ Stamp(p) \/ Forget(p) \/ Unlink(p) \/ Restart(p)
    PROVE  CountInv'
<1>0. /\ job[p] \in Jobs /\ Idle \in Jobs /\ Idle.pc = "idle"
      /\ memory = [memory EXCEPT ![p] = memory[p]]
  BY Found, IdleTyped DEF Idle
<1>1. PICK j : Goto(p, j) /\ j.pc \notin {"lookup", "titles", "sources", "count", "keep"}
  <2>1. CASE Build(p)
    <3>1. [Idle EXCEPT !.pc = "sign"].pc = "sign"
      BY <1>0 DEF Jobs
    <3> QED BY <2>1, <3>1 DEF Build
  <2>2. CASE Sign(p)
    <3>1. [job[p] EXCEPT !.pc = "list", !.sig = Sig].pc = "list"
      BY <1>0 DEF Jobs
    <3> QED BY <1>0, <2>2, <3>1 DEF Sign, Return
  <2>3. CASE List(p)
    <3>1. [job[p] EXCEPT !.pc = "read", !.index = EmptyIndex, !.todo = Listed].pc = "read"
      BY <1>0 DEF Jobs
    <3> QED BY <2>3, <3>1 DEF List
  <2>4. CASE Read(p)
    <3>1. PICK q, i : Goto(p, [job[p] EXCEPT !.todo = @ \ {q}, !.index = i])
      BY <2>4 DEF Read
    <3>2. [job[p] EXCEPT !.todo = @ \ {q}, !.index = i].pc = "read"
      BY <1>0, <2>4 DEF Read, At, Jobs
    <3> QED BY <3>1, <3>2
  <2>5. CASE Compare(p)
    <3>1. [Idle EXCEPT !.pc = "sign", !.tries = job[p].tries + 1].pc = "sign"
      BY <1>0 DEF Jobs
    <3> QED BY <1>0, <2>5, <3>1 DEF Compare, Return
  <2>6. CASE Clear(p)
    <3>1. Goto(p, job[p]) /\ job[p].pc = "idle"
      BY <2>6 DEF Clear, At, Goto, TypeInv, TypeOK
    <3> QED BY <3>1
  <2>7. CASE Purge(p)
    <3>1. [Idle EXCEPT !.pc = "resign", !.todo = Listed].pc = "resign"
      BY <1>0 DEF Jobs
    <3> QED BY <2>7, <3>1 DEF Purge
  <2>8. CASE Patch(p)
    <3>1. [job[p] EXCEPT !.pc = "stamp", !.sig = Sig].pc = "stamp"
      BY <1>0 DEF Jobs
    <3> QED BY <2>8, <3>1 DEF Patch
  <2>9. CASE Stamp(p)
    <3>1. [job[p] EXCEPT !.pc = "forget"].pc = "forget"
      BY <1>0 DEF Jobs
    <3> QED BY <2>9, <3>1 DEF Stamp
  <2>10. CASE Forget(p)
    <3>1. [job[p] EXCEPT !.pc = "unlink"].pc = "unlink"
      BY <1>0 DEF Jobs
    <3> QED BY <2>10, <3>1 DEF Forget
  <2>11. CASE Resign(p) \/ Unlink(p) \/ Restart(p)
    BY <1>0, <2>11 DEF Resign, Unlink, Restart, Return
  <2> QED BY <2>1, <2>2, <2>3, <2>4, <2>5, <2>6, <2>7, <2>8, <2>9, <2>10, <2>11
<1>2. Counting(j)
  BY <1>1 DEF Counting
<1>3. /\ UNCHANGED <<file, clock>> /\ (disk' = disk \/ disk' = None)
      /\ memory' = memory \/ memory' = [memory EXCEPT ![p] = None]
  BY DEF Build, Sign, List, Read, Compare, Clear, Purge, Resign, Patch, Stamp, Forget, Unlink,
         Restart
<1>4. PICK m : memory' = [memory EXCEPT ![p] = m] /\ (m = None \/ m = memory[p])
  BY <1>0, <1>3
<1>5. m # None => Told(m)
  BY <1>4 DEF CountInv
<1>6. disk' # None => Told(disk)  /\ disk' = disk
  BY <1>3 DEF CountInv
<1> QED BY <1>1, <1>2, <1>3, <1>4, <1>5, <1>6, StepCount

LEMMA FileCount ==
    ASSUME TypeInv, CacheInv, CountInv,
           \/ \E q \in Pages : Delete(q) \/ \E c \in Contents : Save(q, c)
           \/ \E p \in Procs, q \in Pages, c \in Contents : Write(p, q, c)
    PROVE  CountInv'
<1>0. /\ \A p \in Procs : /\ job[p] \in Jobs /\ memory[p] \in Entries \union {None}
                          /\ Past(job[p].sig)
      /\ disk \in Entries \union {None} /\ clock \in Nat
  BY Found, SigPast DEF Past, TypeInv, TypeOK
<1>1. /\ \A e \in Entries : Told(e) => Told(e)'
      /\ \A j \in Jobs : Past(j.sig) /\ Counting(j) => Counting(j)'
  <2>1. PICK q \in Pages, f \in Files :
           /\ file' = [file EXCEPT ![q] = f] /\ clock' \in Nat /\ clock <= clock'
           /\ f.stamp = 0 \/ clock < f.stamp
    <3>1. CASE \E q \in Pages : Delete(q)
      <4>1. Gone \in Files /\ Gone.stamp = 0
        BY BoundsAssumption DEF Gone, Files, Stamps
      <4>2. PICK q \in Pages : file' = [file EXCEPT ![q] = Gone] /\ clock' = clock
        BY <3>1 DEF Delete
      <4>3. clock' \in Nat /\ clock <= clock'
        BY <1>0, <4>2
      <4> QED BY <4>1, <4>2, <4>3, Zenon
    <3>2. ASSUME NEW q \in Pages, NEW c \in Contents, Put(q, c)
          PROVE  \E r \in Pages, f \in Files :
                    /\ file' = [file EXCEPT ![r] = f] /\ clock' \in Nat /\ clock <= clock'
                    /\ f.stamp = 0 \/ clock < f.stamp
      <4> DEFINE f == [stamp |-> clock + 1, says |-> c]
      <4>1. f \in Files /\ f.stamp = clock + 1
        <5>1. clock + 1 \in Stamps
          BY <3>2, BoundsAssumption DEF Put, TypeInv, TypeOK, Stamps
        <5> QED BY <5>1 DEF Files
      <4>2. file' = [file EXCEPT ![q] = f] /\ clock' = clock + 1
        BY <3>2 DEF Put
      <4> HIDE DEF f
      <4>3. clock' \in Nat /\ clock <= clock' /\ clock < f.stamp
        BY <1>0, <4>1, <4>2
      <4> QED BY <4>1, <4>2, <4>3, Zenon
    <3> QED BY <3>1, <3>2 DEF Save, Write
  <2> QED BY <2>1, FileTold
<1>2. UNCHANGED <<memory, disk>>
  BY DEF Delete, Save, Write
<1>3. ASSUME NEW r \in Procs
      PROVE  Counting(job[r])'
  <2>1. CASE job'[r] = job[r]
    BY <1>0, <1>1, <2>1 DEF CountInv
  <2>2. ASSUME NEW p \in Procs, NEW q \in Pages, NEW c \in Contents, Write(p, q, c)
        PROVE  Counting(job[r])'
    <3> DEFINE j == [Idle EXCEPT !.page = q, !.pc = IF alias[p] = None THEN "forget" ELSE "patch"]
    <3>1. j.pc \in {"forget", "patch"}
      BY IdleTyped DEF Jobs
    <3>2. Goto(p, j)
      BY <2>2 DEF Write
    <3> HIDE DEF j
    <3>3. job'[r] = IF r = p THEN j ELSE job[r]
      BY <3>2 DEF Goto, TypeInv, TypeOK
    <3>4. CASE r = p
      BY <3>1, <3>3, <3>4 DEF Counting
    <3> QED BY <2>1, <3>3, <3>4
  <2>3. (\E q \in Pages : Delete(q) \/ \E c \in Contents : Save(q, c)) => UNCHANGED job
    BY DEF Delete, Save
  <2> QED BY <2>1, <2>2, <2>3
<1>4. ASSUME NEW r \in Procs
      PROVE  memory'[r] # None => Told(memory[r])'
  BY <1>0, <1>1, <1>2 DEF CountInv
<1>5. disk' # None => Told(disk)'
  BY <1>0, <1>1, <1>2 DEF CountInv
<1> QED BY <1>3, <1>4, <1>5 DEF CountInv

\* One more page with a link counts one more.
LEMMA OneMore ==
    ASSUME TypeInv, NEW t \in Pages, NEW S \in SUBSET Pages, NEW q \in Pages \ S
    PROVE  FullCount(t, S \union {q}) =
               FullCount(t, S) + (IF t \in file[q].says.links THEN 1 ELSE 0)
<1> DEFINE A == {r \in S : t \in file[r].says.links}
           B == {r \in S \union {q} : t \in file[r].says.links}
<1>1. IsFiniteSet(A) /\ q \notin A
  <2>1. A \in SUBSET Pages
    OBVIOUS
  <2> QED BY <2>1, PagesAssumption, FS_Subset
<1>2. Cardinality(A) \in Nat
  BY <1>1, FS_CardinalityType
<1>3. CASE t \in file[q].says.links
  <2>1. B = A \union {q}
    BY <1>3
  <2> QED BY <1>1, <1>3, <2>1, FS_AddElement DEF FullCount
<1>4. CASE t \notin file[q].says.links
  <2>1. B = A
    BY <1>4
  <2>2. FullCount(t, S \union {q}) = FullCount(t, S)
    BY <2>1 DEF FullCount
  <2>3. FullCount(t, S) \in Nat
    BY <1>2 DEF FullCount
  <2> HIDE DEF A, B
  <2> QED BY <1>4, <2>2, <2>3
<1> QED BY <1>3, <1>4

\* A call that has taken its signature, and looked for an entry of it.
LEMMA LookCount ==
    ASSUME TypeInv, CacheInv, CountInv, NEW p \in Procs, Load(p) \/ Lookup(p)
    PROVE  CountInv'
<1>0. /\ job[p] \in Jobs /\ Idle \in Jobs /\ Idle.pc = "idle"
      /\ memory = [memory EXCEPT ![p] = memory[p]]
  BY Found, IdleTyped DEF Idle
<1>1. CASE Load(p)
  <2> DEFINE j == [Idle EXCEPT !.pc = "lookup", !.sig = Sig]
  <2>1. j.pc = "lookup" /\ j.missed = {} /\ \A t \in Pages : j.counts[t] = 0
    BY <1>0 DEF Jobs, Idle
  <2>2. Goto(p, j) /\ UNCHANGED <<file, clock, memory, disk>>
    BY <1>1 DEF Load
  <2> HIDE DEF j
  <2>3. Counting(j)
    BY <2>1 DEF Counting
  <2> QED BY <1>0, <2>2, <2>3, StepCount DEF CountInv
<1>2. CASE Lookup(p)
  <2> DEFINE j == [job[p] EXCEPT !.pc = "titles"]
  <2>1. j.pc = "titles" /\ j.missed = job[p].missed /\ j.counts = job[p].counts
    BY <1>0 DEF Jobs
  <2>2. Counting(j) /\ Counting(Idle)
    <3>1. j.missed = {} /\ \A t \in Pages : j.counts[t] = 0
      BY <1>2, <2>1 DEF CountInv, Counting, Lookup, At
    <3> QED BY <1>0, <2>1, <3>1 DEF Counting
  <2>3. /\ Goto(p, j) \/ Goto(p, Idle)
        /\ UNCHANGED <<file, clock, disk>>
        /\ memory' = [memory EXCEPT ![p] = memory[p]] \/ memory' = [memory EXCEPT ![p] = disk]
    BY <1>0, <1>2 DEF Lookup, Return
  <2> HIDE DEF j
  <2>4. (memory[p] # None => Told(memory[p])) /\ (disk # None => Told(disk))
    BY DEF CountInv
  <2> QED BY <2>2, <2>3, <2>4, StepCount
<1> QED BY <1>1, <1>2

\* A listing has the pages of the signature, if none came and they are what they were.
LEMMA ListedSigned ==
    ASSUME NEW p \in Procs, Steady(job[p].sig), Came(p) = {}
    PROVE  Listed = Signed(job[p].sig)
BY DEF Listed, Signed, Exists, Steady, Came

LEMMA TitlesCount ==
    ASSUME TypeInv, CountInv, NEW p \in Procs, Titles(p)
    PROVE  CountInv'
<1> DEFINE o == job[p]
           j == [o EXCEPT !.pc = "sources", !.titles = Listed, !.came = Came(p)]
<1>1. o \in Jobs /\ memory = [memory EXCEPT ![p] = memory[p]] /\ o.pc = "titles"
  BY Found DEF Titles, At
<1>2. /\ j.pc = "sources" /\ j.titles = Listed /\ j.came = Came(p)
      /\ j.sig = o.sig /\ j.counts = o.counts /\ j.missed = o.missed
  BY <1>1 DEF Jobs
<1>3. o.missed = {} /\ \A t \in Pages : o.counts[t] = 0
  BY <1>1 DEF CountInv, Counting
<1>4. Goto(p, j) /\ UNCHANGED <<file, clock, memory, disk>>
  BY DEF Titles
<1> HIDE DEF j
<1>5. Counting(j)
  BY <1>2, <1>3, ListedSigned DEF Counting
<1> QED BY <1>1, <1>4, <1>5, StepCount DEF CountInv

LEMMA SourcesCount ==
    ASSUME TypeInv, CountInv, NEW p \in Procs, Sources(p)
    PROVE  CountInv'
<1> DEFINE o == job[p]
           j == [o EXCEPT !.pc = "count", !.todo = Listed, !.came = @ \union Came(p)]
<1>1. o \in Jobs /\ memory = [memory EXCEPT ![p] = memory[p]] /\ o.pc = "sources"
  BY Found DEF Sources, At
<1>2. /\ j.pc = "count" /\ j.titles = o.titles /\ j.todo = Listed
      /\ j.came = o.came \union Came(p)
      /\ j.sig = o.sig /\ j.counts = o.counts /\ j.missed = o.missed
  BY <1>1 DEF Jobs
<1>3. /\ o.missed = {} /\ \A t \in Pages : o.counts[t] = 0
      /\ Steady(o.sig) /\ o.came = {} => o.titles = Signed(o.sig)
  BY <1>1 DEF CountInv, Counting
<1>4. Goto(p, j) /\ UNCHANGED <<file, clock, memory, disk>>
  BY DEF Sources
<1> HIDE DEF j
<1>5. ASSUME Steady(j.sig), j.came = {}
      PROVE  /\ j.titles = Signed(j.sig) /\ Listed = Signed(j.sig)
             /\ Tally(j.sig, j.counts, j.titles \ (Listed \union j.missed))
  <2>1. Listed = Signed(j.sig) /\ j.titles = Signed(j.sig)
    BY <1>2, <1>3, <1>5, ListedSigned
  <2>2. ASSUME NEW t \in Pages
        PROVE  FullCount(t, j.titles \ (Listed \union j.missed)) = 0
    <3>1. {q \in j.titles \ (Listed \union j.missed) : t \in file[q].says.links} = {}
      BY <2>1
    <3> QED BY <3>1, FS_EmptySet DEF FullCount
  <2> QED BY <1>2, <1>3, <2>1, <2>2 DEF Tally
<1>6. Counting(j)
  BY <1>2, <1>3, <1>5 DEF Counting
<1> QED BY <1>1, <1>4, <1>6, StepCount DEF CountInv

\* A page that is counted has its file still; one that cannot be read is missed.
LEMMA PageCount ==
    ASSUME TypeInv, CountInv, NEW p \in Procs, Count(p)
    PROVE  CountInv'
<1> DEFINE o == job[p]
           q == Least(o.todo)
           next(c, m) == [o EXCEPT !.todo = @ \ {q}, !.counts = c, !.missed = m]
           more == AddLinks(o.counts, file[q].says.links \intersect o.titles)
<1>1. o \in Jobs /\ memory = [memory EXCEPT ![p] = memory[p]] /\ o.pc = "count"
  BY Found DEF Count, At
<1>2. q \in o.todo /\ q \in Pages
  <2>1. o.todo \in SUBSET Nat /\ o.todo # {} /\ o.todo \subseteq Pages
    BY <1>1, PagesAssumption DEF Count, Jobs
  <2> QED BY <2>1, LeastIn
<1>3. UNCHANGED <<file, clock, memory, disk>>
  BY DEF Count
<1>4. Goto(p, next(more, o.missed)) \/ Goto(p, next(o.counts, o.missed \union {q}))
  BY DEF Count
<1>5. \A t \in Pages : more[t] = o.counts[t]
                                   + (IF t \in file[q].says.links /\ t \in o.titles THEN 1 ELSE 0)
  BY DEF AddLinks
<1> HIDE DEF q, more
<1>6. \A c, m : LET j == next(c, m)
                IN  /\ j.pc = "count" /\ j.titles = o.titles /\ j.todo = o.todo \ {q}
                    /\ j.came = o.came /\ j.sig = o.sig /\ j.counts = c /\ j.missed = m
  BY <1>1 DEF Jobs
<1> HIDE DEF next
<1>7. ASSUME Steady(o.sig), o.came = {}
      PROVE  /\ o.titles = Signed(o.sig) /\ o.todo \subseteq o.titles
             /\ o.todo \intersect o.missed = {}
             /\ Tally(o.sig, o.counts, o.titles \ (o.todo \union o.missed))
  BY <1>1, <1>7 DEF CountInv, Counting
<1>8. Counting(next(more, o.missed))
  <2> DEFINE j == next(more, o.missed)
             S == o.titles \ (o.todo \union o.missed)
             T == j.titles \ (j.todo \union j.missed)
  <2>1. ASSUME Steady(o.sig), o.came = {}
        PROVE  Tally(o.sig, more, T)
    <3>1. T = S \union {q} /\ q \notin S /\ S \in SUBSET Pages
      BY <1>2, <1>6, <1>7, <2>1 DEF Signed
    <3>2. ASSUME NEW t \in Pages
          PROVE  more[t] = IF o.sig[t] # 0 THEN FullCount(t, T) ELSE 0
      <4>1. o.counts[t] = IF o.sig[t] # 0 THEN FullCount(t, S) ELSE 0
        BY <1>7, <2>1 DEF Tally
      <4>2. t \in o.titles <=> o.sig[t] # 0
        BY <1>7, <2>1 DEF Signed
      <4>3. FullCount(t, T) = FullCount(t, S) + (IF t \in file[q].says.links THEN 1 ELSE 0)
        BY <1>2, <3>1, OneMore
      <4> HIDE DEF S, T
      <4> QED BY <1>5, <4>1, <4>2, <4>3
    <3> QED BY <3>2 DEF Tally
  <2> QED BY <1>6, <1>7, <2>1 DEF Counting
<1>9. Counting(next(o.counts, o.missed \union {q}))
  <2> DEFINE j == next(o.counts, o.missed \union {q})
  <2>1. ASSUME Steady(o.sig), o.came = {}
        PROVE  j.titles \ (j.todo \union j.missed) = o.titles \ (o.todo \union o.missed)
    BY <1>2, <1>6
  <2>2. /\ j.pc = "count" /\ j.titles = o.titles /\ j.todo = o.todo \ {q} /\ j.came = o.came
        /\ j.sig = o.sig /\ j.counts = o.counts /\ j.missed = o.missed \union {q}
    BY <1>6
  <2> HIDE DEF j
  <2>3. ASSUME Steady(j.sig), j.came = {}
        PROVE  /\ j.titles = Signed(j.sig) /\ j.todo \subseteq j.titles
               /\ j.todo \intersect j.missed = {}
               /\ Tally(j.sig, j.counts, j.titles \ (j.todo \union j.missed))
    BY <1>7, <2>1, <2>2, <2>3
  <2>4. Counting(j)
    BY <2>2, <2>3 DEF Counting
  <2> QED BY <2>4 DEF j
<1> QED BY <1>1, <1>3, <1>4, <1>8, <1>9, StepCount DEF CountInv

\* The entry is saved, and kept, when no page is left to count.
LEMMA SavedCount ==
    ASSUME TypeInv, CacheInv, CountInv, NEW p \in Procs, SaveDisk(p) \/ Keep(p)
    PROVE  CountInv'
<1> DEFINE o == job[p]
           j == [o EXCEPT !.pc = "keep"]
<1>1. /\ o \in Jobs /\ Idle \in Jobs /\ Idle.pc = "idle"
      /\ memory = [memory EXCEPT ![p] = memory[p]]
      /\ o.pc \in {"count", "keep"} /\ o.todo = {}
  <2>1. CASE SaveDisk(p)
    BY <2>1, Found, IdleTyped DEF SaveDisk, At, Idle
  <2>2. CASE Keep(p)
    BY <2>2, Found, IdleTyped DEF Keep, At, Idle, CountInv, Counting
  <2> QED BY <2>1, <2>2
<1>2. /\ j.pc = "keep" /\ j.titles = o.titles /\ j.todo = o.todo /\ j.missed = o.missed
      /\ j.came = o.came /\ j.sig = o.sig /\ j.counts = o.counts
  BY <1>1 DEF Jobs
<1>3. Counting(o)
  BY DEF CountInv
<1>4. Counting(j) /\ Counting(Idle)
  <2> HIDE DEF j
  <2> QED BY <1>1, <1>2, <1>3 DEF Counting
<1>5. Told(Entry(o))
  <2>1. Past(o.sig)
    BY SigPast DEF Past
  <2>2. ASSUME Steady(o.sig), o.came = {}
        PROVE  Tally(o.sig, o.counts, Signed(o.sig) \ o.missed)
    <3>1. o.titles \ (o.todo \union o.missed) = Signed(o.sig) \ o.missed
      BY <1>1, <1>3, <2>2 DEF Counting
    <3> QED BY <1>1, <1>3, <2>2, <3>1 DEF Counting
  <2> QED BY <2>1, <2>2 DEF Told, Entry
<1>6. CASE SaveDisk(p)
  <2>1. /\ (Goto(p, j) /\ disk' = Entry(o)) \/ (Goto(p, Idle) /\ disk' = disk)
        /\ UNCHANGED <<file, clock, memory>>
    BY <1>6 DEF SaveDisk, Return
  <2> HIDE DEF j
  <2>2. (memory[p] # None => Told(memory[p])) /\ (disk # None => Told(disk))
    BY DEF CountInv
  <2>3. memory' = [memory EXCEPT ![p] = memory[p]] /\ UNCHANGED <<file, clock>>
    BY <1>1, <2>1
  <2>4. CASE Goto(p, j) /\ disk' = Entry(o)
    BY <1>4, <1>5, <2>2, <2>3, <2>4, StepCount
  <2>5. CASE Goto(p, Idle) /\ disk' = disk
    BY <1>4, <2>2, <2>3, <2>5, StepCount
  <2> QED BY <2>1, <2>4, <2>5
<1>7. CASE Keep(p)
  <2>1. Goto(p, Idle) /\ memory' = [memory EXCEPT ![p] = Entry(o)] /\ UNCHANGED <<file, clock, disk>>
    BY <1>7 DEF Keep, Return
  <2> QED BY <1>4, <1>5, <2>1, StepCount DEF CountInv
<1> QED BY <1>6, <1>7

LEMMA CountNext == TypeInv /\ CacheInv /\ CountInv /\ [Next]_vars => CountInv'
<1> SUFFICES ASSUME TypeInv, CacheInv, CountInv, [Next]_vars PROVE CountInv'
  OBVIOUS
<1>1. ASSUME NEW p \in Procs, Call(p)
      PROVE  CountInv'
  BY <1>1, OtherCount, FileCount, LookCount, TitlesCount, SourcesCount, PageCount, SavedCount, Zenon DEF Call
<1>2. CASE UNCHANGED vars
  <2>1. UNCHANGED <<file, clock, memory, disk, job>>
    BY <1>2 DEF vars
  <2>2. /\ \A e : Told(e) => Told(e)'
        /\ \A j : Counting(j) => Counting(j)'
    BY <2>1 DEF Told, Counting, Past, Steady, Tally, FullCount
  <2> QED BY <2>1, <2>2 DEF CountInv
<1> QED BY <1>1, <1>2, FileCount DEF Next

\* Backlink counts that are served, from memory or from the file the processes share, are
\* those of the pages as they are, whoever counted, saved, dropped or died in between, but for
\* the pages that could not be read (load_incoming_backlinks).
THEOREM CountsMatchSignatureSafe == Spec => []CountsMatchSignature
<1>1. TypeInv /\ CacheInv /\ CountInv => CountsMatchSignature
  <2> SUFFICES ASSUME TypeInv, CacheInv, CountInv,
                      NEW e \in {memory[p] : p \in Procs} \union {disk},
                      Serves(e), e.came = {}, NEW t \in Pages
               PROVE  e.counts[t] = IF Exists(t) THEN FullCount(t, Pages \ e.missed) ELSE 0
    BY DEF CountsMatchSignature
  <2>1. Told(e) /\ e.sig = Sig
    BY DEF CountInv, Serves
  <2>2. \A q \in Pages : e.sig[q] = file[q].stamp
    BY <2>1 DEF Sig
  <2>3. Steady(e.sig)
    BY <2>2 DEF Steady
  <2>4. FullCount(t, Signed(e.sig) \ e.missed) = FullCount(t, Pages \ e.missed)
    <3>1. \A q \in Pages : e.sig[q] = 0 => t \notin file[q].says.links
      BY <2>2 DEF CacheInv, FilesInv, Nothing
    <3>2. {q \in Signed(e.sig) \ e.missed : t \in file[q].says.links}
             = {q \in Pages \ e.missed : t \in file[q].says.links}
      BY <3>1 DEF Signed
    <3> QED BY <3>2 DEF FullCount
  <2> QED BY <2>1, <2>2, <2>3, <2>4 DEF Told, Tally, Exists
<1>2. Spec => [](TypeInv /\ CacheInv /\ CountInv)
  BY InitTyped, NextTyped, CacheInit, CacheNext, CountInit, CountNext, PTL DEF Spec
<1> QED BY <1>1, <1>2, PTL
=============================================================================
