----------------------------- MODULE PageWrite -----------------------------
(***************************************************************************)
(* Read-modify-write of one page by robots (daemon, MCP tools, importers)  *)
(* while a human edits it in Logseq, which takes no lock.  Robots exclude  *)
(* each other by the page lock (module PageMutex) and watch for the human  *)
(* by optimistic concurrency control: they remember the page's mtime and   *)
(* give up when it has changed by the time they write.                     *)
(*                                                                         *)
(* The text of a page is the set of edits it contains.  An edit is named   *)
(* by the time its bytes were written, which is also the mtime it gives    *)
(* the page; 0 is the mtime of a page that does not exist, and a baseline  *)
(* of None.  Each writer makes one call after the other; a call runs one   *)
(* program, the order in which a function of the code snapshots, reads,    *)
(* locks, checks and writes.                                               *)
(***************************************************************************)
EXTENDS Naturals, Sequences, SequencesExt, FiniteSets

CONSTANTS
    Writers,        \* threads of any process that call writing functions
    Does,           \* the kinds of calls a writer makes
    MaxStamp,       \* bound: times of writes
    Attempts,       \* IO_RETRY_ATTEMPTS
    HumanActs,      \* what the human does: subset of {"save", "delete"}
    PageAtStart,    \* the page exists
    IOFaults,       \* writing may fail (disk full, permissions)
    TmpSwept,       \* another process starts and sweeps temporary files
    Mortal,         \* the writers whose process may be killed
    None

VARIABLES
    kind,       \* the writer's call, or the one it makes next
    text,       \* the edits the page contains
    mtime,      \* st_mtime_ns of the page, 0 when there is no file
    clock,      \* the time of the next write
    holder,     \* the writer inside page_rmw_lock
    pc,         \* the writer's place in its program
    base,       \* baseline_mtime, 0 for None
    seen,       \* the text the writer will extend
    thought,    \* the text its inference was made from
    tmp,        \* the write time of its temporary file, 0 when there is none
    tries,      \* failed attempts of atomic_write_bytes
    byRobot,    \* history: the edits of robots
    window,     \* history: human edits since the writer's last verification
    gapSeen,    \* history: what came or went between reading seen and the baseline
    gapThought  \* history: what came or went between reading thought and the baseline

vars == <<kind, text, mtime, clock, holder, pc, base, seen, thought, tmp, tries, byRobot, window, gapSeen, gapThought>>
page == <<text, mtime, clock, byRobot>>
gaps == <<gapSeen, gapThought>>
local == <<base, seen, thought, tmp, tries, gapSeen, gapThought>>

-----------------------------------------------------------------------------
(* The programs *)

\* Mutant: the page is read for inference before the baseline is taken.
ThinkThenSnapshot ==
    <<"think", "snapshot", "check", "check", "adopt", "check",
      "lock", "read", "adopt", "check", "check", "verify", "stage", "replace", "unlock">>

\* The daemon: one inference, then apply_semantic_page_result.
SemanticWrite ==
    <<"snapshot", "think", "check", "check", "adopt", "check",
      "lock", "read", "adopt", "check", "check", "verify", "stage", "replace", "unlock">>

\* The daemon after the cognitive lint modules have run: page and baseline are
\* taken again, the page first.
SemanticAfterLint ==
    <<"snapshot", "think", "think", "snapshot", "check", "check", "adopt", "check",
      "lock", "read", "adopt", "check", "check", "verify", "stage", "replace", "unlock">>

\* edit_block_property_lines
PropertyEdit ==
    <<"snapshot", "check", "lock", "read", "check", "verify", "stage", "replace", "unlock">>

\* Lint warnings, bootstrap index, link hygiene, appended blocks.
CheckedEdit ==
    <<"snapshot", "check", "lock", "check", "read", "check", "verify", "stage", "replace", "unlock">>

\* Ingestion, Tana import, backlinks: the baseline is taken under the lock.
LockedAppend ==
    <<"lock", "read", "snapshot", "check", "check", "verify", "stage", "replace", "unlock">>

\* append_page_alias_line: the page is read first, without the lock.
AliasAppend ==
    <<"read", "snapshot", "lock", "check", "check", "verify", "stage", "replace", "unlock">>

\* Journal activity, tag unification: no baseline.
LockedRewrite == <<"lock", "read", "stage", "replace", "unlock">>

\* Reparenting, splitting of large blocks, flashcards: read outside the lock.
StaleRewrite == <<"read", "lock", "stage", "replace", "unlock">>

\* Seeding of a missing page.
SeedPage == <<"lock", "absent", "stage", "replace", "unlock">>

Program ==
    [semantic |-> SemanticWrite, relint |-> SemanticAfterLint, property |-> PropertyEdit,
     edit |-> CheckedEdit, append |-> LockedAppend, alias |-> AliasAppend, rewrite |-> LockedRewrite,
     stale |-> StaleRewrite, seed |-> SeedPage]

Kinds == DOMAIN Program

\* The kinds that write a page that does not exist yet.
CreatesPage == {"append", "rewrite", "seed"}

-----------------------------------------------------------------------------
(* What the orders have in common *)

\* The kinds whose last comparison of mtimes is the one of atomic_write_bytes.
Watches(k) == "verify" \in Range(Program[k])

\* A program takes the lock once, writes under it, ends with its only unlock
\* and has a step to retry from.
WellFormed(p) ==
    /\ p \in Seq(STRING)
    /\ p # <<>>
    /\ \A i \in 1..Len(p) : p[i] = "unlock" <=> i = Len(p)
    /\ \E i \in 1..Len(p) : p[i] = IF "verify" \in Range(p) THEN "verify" ELSE "stage"
    /\ \E l \in 1..Len(p) : \A i \in 1..Len(p) :
          /\ p[i] = "lock" <=> i = l
          /\ p[i] \in {"verify", "stage", "replace"} => l < i

\* The page is read once, at r, and written once, at s, inside the lock taken
\* at l; a failed write is tried again from somewhere in between.
LockedUpdate(p) ==
    \E l, r, s \in 1..Len(p) :
        /\ \A i \in 1..Len(p) : p[i] = "lock" <=> i = l
        /\ \A i \in 1..Len(p) : p[i] \in {"read", "absent"} <=> i = r
        /\ \A i \in 1..Len(p) : p[i] = "replace" <=> i = s
        /\ \A i \in 1..Len(p) : p[i] \in {"verify", "stage"} => r < i /\ i < s
        /\ l < r /\ r < s

\* The mtime is compared right before the temporary file is written, after
\* every reading of the page and of its mtime, in whatever order those come.
WatchedUpdate(p) ==
    \E v \in 1..Len(p) :
        /\ \A i \in 1..Len(p) :
              /\ p[i] = "verify" <=> i = v
              /\ p[i] = "stage" <=> i = v + 1
              /\ p[i] = "replace" <=> i = v + 2
              /\ p[i] \in {"snapshot", "think", "read", "adopt"} => i < v
        /\ \E i \in 1..Len(p) : p[i] = "read"

\* The programs that take their only baseline before anything else.
BaselineFirstKinds == {"semantic", "property", "edit"}

\* Two functions read the page before they have the lock.
LockedKinds == Kinds \ {"alias", "stale"}

ASSUME ProgramsAssumption ==
    /\ \A k \in Kinds : WellFormed(Program[k])
    /\ \A k \in LockedKinds : LockedUpdate(Program[k])
    /\ \A k \in Kinds : Watches(k) => WatchedUpdate(Program[k])

-----------------------------------------------------------------------------
ASSUME PageWriteAssumption ==
    /\ Does \in [Writers -> (SUBSET Kinds) \ {{}}]
    /\ MaxStamp \in Nat /\ Attempts \in Nat \ {0}
    /\ HumanActs \subseteq {"save", "delete"}
    /\ PageAtStart \in BOOLEAN /\ IOFaults \in BOOLEAN /\ TmpSwept \in BOOLEAN
    /\ Mortal \subseteq Writers
    /\ None \notin Writers

P(w) == Program[kind[w]]
At(w, step) == P(w)[pc[w]] = step

TypeOK ==
    /\ kind \in [Writers -> Kinds] /\ \A w \in Writers : kind[w] \in Does[w]
    /\ clock \in Nat \ {0} /\ mtime \in 0..(clock - 1)
    /\ text \subseteq 1..(clock - 1) /\ byRobot \subseteq 1..(clock - 1)
    /\ holder \in Writers \cup {None}
    /\ pc \in [Writers -> Nat \ {0}] /\ \A w \in Writers : pc[w] <= Len(P(w))
    /\ base \in [Writers -> Nat] /\ tmp \in [Writers -> Nat] /\ tries \in [Writers -> Nat]
    /\ seen \in [Writers -> SUBSET Nat] /\ thought \in [Writers -> SUBSET Nat]
    /\ window \in [Writers -> SUBSET Nat]
    /\ gapSeen \in [Writers -> SUBSET Nat] /\ gapThought \in [Writers -> SUBSET Nat]
    /\ \A w \in Writers : base[w] < clock /\ tmp[w] < clock /\ seen[w] \subseteq 1..(clock - 1)

Init ==
    /\ kind \in [Writers -> Kinds] /\ \A w \in Writers : kind[w] \in Does[w]
    /\ text = IF PageAtStart THEN {1} ELSE {}
    /\ mtime = IF PageAtStart THEN 1 ELSE 0
    /\ clock = IF PageAtStart THEN 2 ELSE 1
    /\ byRobot = {}
    /\ holder = None
    /\ pc = [w \in Writers |-> 1]
    /\ base = [w \in Writers |-> 0]
    /\ seen = [w \in Writers |-> {}]
    /\ thought = [w \in Writers |-> {}]
    /\ tmp = [w \in Writers |-> 0]
    /\ tries = [w \in Writers |-> 0]
    /\ window = [w \in Writers |-> {}]
    /\ gapSeen = [w \in Writers |-> {}]
    /\ gapThought = [w \in Writers |-> {}]

-----------------------------------------------------------------------------
(* The steps of a program *)

Advance(w) == pc' = [pc EXCEPT ![w] = @ + 1] /\ UNCHANGED kind

\* Mutant: an early return inside the with-block keeps the page lock.
LeaveLocked(w) ==
    /\ pc' = [pc EXCEPT ![w] = 1]
    /\ base' = [base EXCEPT ![w] = 0]
    /\ seen' = [seen EXCEPT ![w] = {}]
    /\ thought' = [thought EXCEPT ![w] = {}]
    /\ tmp' = [tmp EXCEPT ![w] = 0]
    /\ tries' = [tries EXCEPT ![w] = 0]
    /\ window' = [window EXCEPT ![w] = {}]
    /\ gapSeen' = [gapSeen EXCEPT ![w] = {}]
    /\ gapThought' = [gapThought EXCEPT ![w] = {}]
    /\ \E k \in Does[w] : kind' = [kind EXCEPT ![w] = k]
    /\ holder' = IF At(w, "unlock") THEN None ELSE holder

\* The call returns or raises: the with-block gives the lock back, the
\* temporary file is unlinked and the local variables are gone.  The thread may
\* call another function next.
Leave(w) ==
    /\ pc' = [pc EXCEPT ![w] = 1]
    /\ base' = [base EXCEPT ![w] = 0]
    /\ seen' = [seen EXCEPT ![w] = {}]
    /\ thought' = [thought EXCEPT ![w] = {}]
    /\ tmp' = [tmp EXCEPT ![w] = 0]
    /\ tries' = [tries EXCEPT ![w] = 0]
    /\ window' = [window EXCEPT ![w] = {}]
    /\ gapSeen' = [gapSeen EXCEPT ![w] = {}]
    /\ gapThought' = [gapThought EXCEPT ![w] = {}]
    /\ \E k \in Does[w] : kind' = [kind EXCEPT ![w] = k]
    /\ holder' = IF holder = w THEN None ELSE holder

\* Mutant: baselines compared in coarser units than the file system keeps.
DriftedInSeconds(w) == base[w] # 0 /\ mtime \div 2 # base[w] \div 2

\* file_mtime_drifted; the callers skip it when they have no baseline.
Drifted(w) == base[w] # 0 /\ mtime # base[w]

\* occ_snapshot.  A missing page ends the call or leaves it without baseline.
Snapshot(w) ==
    /\ At(w, "snapshot")
    /\ \/ /\ mtime # 0 \/ kind[w] # "edit"
          /\ base' = [base EXCEPT ![w] = mtime]
          /\ Advance(w)
          /\ UNCHANGED <<holder, seen, thought, tmp, tries, window, gaps>>
       \/ /\ mtime = 0 /\ kind[w] # "append"
          /\ Leave(w)
    /\ UNCHANGED page

\* Inference reads the page without the lock.
Think(w) ==
    /\ At(w, "think")
    /\ thought' = [thought EXCEPT ![w] = text]
    /\ gapThought' = [gapThought EXCEPT ![w] = {}]
    /\ Advance(w)
    /\ UNCHANGED <<page, holder, base, seen, tmp, tries, window, gapSeen>>

Check(w) ==
    /\ At(w, "check")
    /\ \/ /\ Drifted(w)
          /\ Leave(w)
       \/ /\ ~Drifted(w)
          /\ Advance(w)
          /\ UNCHANGED <<holder, local, window>>
    /\ UNCHANGED page

\* Mutant: the lock is not exclusive.
LockShared(w) ==
    /\ At(w, "lock")
    /\ holder' = w
    /\ Advance(w)
    /\ UNCHANGED <<page, local, window>>

Lock(w) ==
    /\ At(w, "lock")
    /\ holder = None
    /\ holder' = w
    /\ Advance(w)
    /\ UNCHANGED <<page, local, window>>

\* PageLockUnavailableError: another thread of the process keeps the lock.
LockUnavailable(w) ==
    /\ At(w, "lock")
    /\ holder # None
    /\ Leave(w)
    /\ UNCHANGED page

\* A function returns when the page is missing, when it holds nothing, or when
\* there is nothing to change.
Read(w) ==
    /\ At(w, "read")
    /\ \/ /\ mtime # 0 \/ kind[w] \in CreatesPage
          /\ seen' = [seen EXCEPT ![w] = text]
          /\ gapSeen' = [gapSeen EXCEPT ![w] = {}]
          /\ Advance(w)
          /\ UNCHANGED <<holder, base, thought, tmp, tries, window, gapThought>>
       \/ Leave(w)
    /\ UNCHANGED page

\* Mutant: the baseline is always taken anew at the write.
AdoptAnew(w) ==
    /\ At(w, "adopt")
    /\ base' = [base EXCEPT ![w] = mtime]
    /\ Advance(w)
    /\ UNCHANGED <<page, holder, seen, thought, tmp, tries, window, gaps>>

\* A baseline that could not be taken earlier is taken at the write.
Adopt(w) ==
    /\ At(w, "adopt")
    /\ base' = [base EXCEPT ![w] = IF @ = 0 THEN mtime ELSE @]
    /\ Advance(w)
    /\ UNCHANGED <<page, holder, seen, thought, tmp, tries, window, gaps>>

\* The page to seed exists by now: nothing to do.
Absent(w) ==
    /\ At(w, "absent")
    /\ \/ /\ mtime # 0
          /\ Leave(w)
       \/ /\ mtime = 0
          /\ Advance(w)
          /\ UNCHANGED <<holder, local, window>>
    /\ UNCHANGED page

\* The check of atomic_write_bytes before each attempt.
Verify(w) ==
    /\ At(w, "verify")
    /\ \/ /\ Drifted(w)
          /\ Leave(w)
       \/ /\ ~Drifted(w)
          /\ Advance(w)
          /\ window' = [window EXCEPT ![w] = {}]
          /\ UNCHANGED <<holder, local>>
    /\ UNCHANGED page

\* Mutant: a clock too coarse to tell two writes apart.
StageCoarse(w) ==
    /\ At(w, "stage")
    /\ clock <= MaxStamp
    /\ tmp' = [tmp EXCEPT ![w] = clock]
    /\ Advance(w)
    /\ UNCHANGED <<page, holder, base, seen, thought, tries, window, gaps>>

\* mkstemp, write, fsync: the temporary file gets its mtime here.
Stage(w) ==
    /\ At(w, "stage")
    /\ clock <= MaxStamp
    /\ tmp' = [tmp EXCEPT ![w] = clock]
    /\ clock' = clock + 1
    /\ Advance(w)
    /\ UNCHANGED <<text, mtime, byRobot, holder, base, seen, thought, tries, window, gaps>>

\* The writer read the page for the step named s, and no baseline tells it yet
\* what happens to the page since: none stands, or one is still to be taken.
Blind(w, s) ==
    /\ Watches(kind[w])
    /\ \E i \in 1..(pc[w] - 1) : P(w)[i] = s
    /\ base[w] = 0 \/ \E i \in pc[w]..Len(P(w)) : P(w)[i] = "snapshot"

\* History: the page changes, and the writers it escapes are noted.
Unwatched ==
    LET changed == (text \ text') \cup (text' \ text)
    IN  /\ gapSeen' = [w \in Writers |-> gapSeen[w] \cup IF Blind(w, "read") THEN changed ELSE {}]
        /\ gapThought' = [w \in Writers |-> gapThought[w] \cup IF Blind(w, "think") THEN changed ELSE {}]

\* os.replace: the page becomes the temporary file, mtime included.
Replace(w) ==
    /\ At(w, "replace")
    /\ tmp[w] # 0
    /\ text' = seen[w] \cup {tmp[w]}
    /\ mtime' = tmp[w]
    /\ byRobot' = byRobot \cup {tmp[w]}
    /\ tmp' = [tmp EXCEPT ![w] = 0]
    /\ Advance(w)
    /\ Unwatched
    /\ UNCHANGED <<clock, holder, base, seen, thought, tries, window>>

\* Where an attempt of atomic_write_bytes starts.
RetryAt(w) == CHOOSE i \in DOMAIN P(w) :
                 P(w)[i] = IF "verify" \in Range(P(w)) THEN "verify" ELSE "stage"

\* OSError while staging or replacing: try again, verification first.
WriteFails(w) ==
    /\ \/ At(w, "replace") /\ tmp[w] = 0
       \/ IOFaults /\ (At(w, "stage") \/ At(w, "replace"))
    /\ \/ /\ tries[w] + 1 < Attempts
          /\ tries' = [tries EXCEPT ![w] = @ + 1]
          /\ tmp' = [tmp EXCEPT ![w] = 0]
          /\ pc' = [pc EXCEPT ![w] = RetryAt(w)]
          /\ UNCHANGED <<kind, holder, base, seen, thought, window, gaps>>
       \/ /\ tries[w] + 1 >= Attempts
          /\ Leave(w)
    /\ UNCHANGED page

Unlock(w) ==
    /\ At(w, "unlock")
    /\ Leave(w)
    /\ UNCHANGED page

-----------------------------------------------------------------------------
(* Around the writers *)

\* Logseq saves the page, with whatever it contains and one edit more.
HumanSave ==
    /\ "save" \in HumanActs
    /\ clock <= MaxStamp
    /\ text' = text \cup {clock}
    /\ mtime' = clock
    /\ clock' = clock + 1
    /\ window' = [w \in Writers |-> window[w] \cup {clock}]
    /\ Unwatched
    /\ UNCHANGED <<kind, byRobot, holder, pc, base, seen, thought, tmp, tries>>

HumanDelete ==
    /\ "delete" \in HumanActs
    /\ mtime # 0
    /\ text' = {}
    /\ mtime' = 0
    /\ Unwatched
    /\ UNCHANGED <<kind, clock, byRobot, holder, pc, base, seen, thought, tmp, tries, window>>

\* sweep_dangling_atomic_tmp_files of a starting process takes live ones too.
SweepTmp(w) ==
    /\ TmpSwept
    /\ tmp[w] # 0
    /\ tmp' = [tmp EXCEPT ![w] = 0]
    /\ UNCHANGED <<kind, page, holder, pc, base, seen, thought, tries, window, gaps>>

\* The process dies: its lock is free and nothing it did not replace is seen.
Crash(w) ==
    /\ w \in Mortal
    /\ pc[w] # 1
    /\ Leave(w)
    /\ UNCHANGED page

Step(w) ==
    \/ Snapshot(w) \/ Think(w) \/ Check(w) \/ Lock(w) \/ Read(w) \/ Adopt(w) \/ Absent(w)
    \/ Verify(w) \/ Stage(w) \/ Replace(w) \/ WriteFails(w) \/ Unlock(w)

Next ==
    \/ \E w \in Writers : Step(w) \/ LockUnavailable(w) \/ SweepTmp(w) \/ Crash(w)
    \/ HumanSave
    \/ HumanDelete

Spec == Init /\ [][Next]_vars

\* A started call keeps running, and a waiter gets the lock in turn.
FairSpec == Spec /\ \A w \in Writers : WF_vars(pc[w] # 1 /\ Step(w)) /\ SF_vars(Lock(w))

-----------------------------------------------------------------------------
(* Properties *)

Replaces(w) == At(w, "replace") /\ pc'[w] # pc[w] /\ text' # text

\* A robot that reads the page under the lock never drops another robot's edit,
\* whatever the human and the other robots do: the lock covers the reading of the
\* text that is written back.
RobotUpdatesKept ==
    [][\A w \in Writers : Replaces(w) /\ kind[w] \in LockedKinds => text \cap byRobot \subseteq text']_vars

\* Lost-update detection, whatever order a watching writer takes its text and its
\* baseline in: it drops only edits the human saved after it last compared the
\* mtime, and edits of the gap between its reading and its baseline.
HumanEditsKept ==
    [][\A w \in Writers : Replaces(w) /\ Watches(kind[w]) =>
          text \ text' \subseteq window[w] \cup gapSeen[w]]_vars

\* The text an inference was made from and the text its result is written into
\* differ at most by what came or went in the gaps before the baseline.
InferenceCurrent ==
    \A w \in Writers : At(w, "replace") /\ "think" \in Range(P(w)) =>
        (thought[w] \ seen[w]) \cup (seen[w] \ thought[w]) \subseteq gapSeen[w] \cup gapThought[w]

\* Of a page that is there, nothing escapes the calls that capture the baseline
\* before they read or infer, as docs/ARCHITECTURE.md:627 has it of every write:
\* for them the two properties above hold without the gaps.  The calls it does
\* not hold for are "relint", "append" and "alias".
BaselineFirst ==
    \A w \in Writers : kind[w] \in BaselineFirstKinds => gapSeen[w] = {} /\ gapThought[w] = {}

\* docs/ARCHITECTURE.md:605 has the page lock keep all robots apart: "alias" and
\* "stale" read before they have it, and drop what another robot wrote since.
EveryRobotUpdateKept ==
    [][\A w \in Writers : Replaces(w) => text \cap byRobot \subseteq text']_vars

\* docs/ARCHITECTURE.md:627 has the baseline captured before the page is read, in
\* every write: "relint", "append" and "alias" capture it after.
NoGap == \A w \in Writers : gapSeen[w] = {} /\ gapThought[w] = {}

\* No call runs or waits for ever, and none leaves with the page lock.
EveryWriteEnds ==
    \A w \in Writers : /\ (pc[w] # 1) ~> (pc[w] = 1)
                       /\ (holder = w) ~> (holder # w)
=============================================================================
