-------------------------- MODULE DutyCycleProofs --------------------------
(***************************************************************************)
(* Proofs about the duty cycle, for any pages, kinds of edit, budget and   *)
(* bounds: the types, and that the LLM is asked only behind the bootstrap  *)
(* gate, that what the ledgers say of a page is what a turn found in it,   *)
(* and that without faults what was analysed stays recorded, on disk too,  *)
(* and is not analysed again.                                              *)
(***************************************************************************)
EXTENDS DutyCycle, TLAPS, WellFoundedInduction

-----------------------------------------------------------------------------
(* Types *)

\* The steps of a turn, or of a quarantine: there is a page, and budget for it.
LlmTurn == {"journal", "stamp", "read", "pipeline", "reread", "rebase", "check", "asking",
            "apply", "record", "post"}
Quarantining == {"annotate", "quarantine"}

Seated == pc \in LlmTurn \cup Quarantining => cur \in Pages /\ m0 \in Nat /\ budget > 0
Looping == /\ pc = "fast" => loop = "fast"
           /\ pc \in LlmTurn \cup {"list", "llm"} => loop = "llm"
           /\ pc \in Quarantining => loop \in {"fast", "llm"}
TypeInv == TypeOK /\ Seated /\ Looping

FileType == [mtime : Nat, rev : Nat, kind : Kinds, tidy : BOOLEAN]
RecType == [status : Statuses, mtime : Nat, wait : BOOLEAN]

\* The first page of a queue is a page of it.
LEMMA LeastIn ==
    ASSUME NEW S \in SUBSET Nat, S # {}
    PROVE  Least(S) \in S
<1>1. PICK x \in S : \A y \in S : ~(<<y, x>> \in OpToRel(<, Nat))
  BY WFMin, NatLessThanWellFounded
<1>2. ASSUME NEW y \in S, y < x PROVE FALSE
  <2>1. <<y, x>> \in OpToRel(<, Nat)
    BY <1>2, Zenon DEF OpToRel
  <2> QED BY <1>1, <2>1
<1>3. \A y \in S : x <= y
  BY <1>2
<1> QED BY <1>3 DEF Least

\* A record of the ledger.
LEMMA RecTyped ==
    ASSUME NEW s \in Statuses, NEW m \in Nat
    PROVE  Rec(s, m) \in RecType
<1>1. (s = "lock_backoff") \in BOOLEAN
  OBVIOUS
<1> QED BY <1>1 DEF Rec, RecType

\* A ledger with another record of a page is one.
LEMMA SettleTyped ==
    ASSUME mem \in StateType, NEW p \in Pages, NEW r \in RecType, Settle(p, r)
    PROVE  mem' \in StateType
BY DEF Settle, StateType, RecType

\* A ledger without the pages that are gone is one.
LEMMA PruneTyped ==
    ASSUME NEW state \in StateType
    PROVE  Prune(state) \in StateType
BY DEF Prune, StateType

\* A ledger in which nothing waits is one.
LEMMA UnwaitTyped ==
    ASSUME NEW state \in StateType
    PROVE  Unwait(state) \in StateType
<1>1. ASSUME NEW p \in Pages
      PROVE  (IF state.files[p] # NoRec THEN [state.files[p] EXCEPT !.wait = FALSE] ELSE NoRec)
                \in RecType \cup {NoRec}
  BY DEF StateType, RecType
<1> QED BY <1>1 DEF Unwait, StateType, RecType

\* The state of a first start.
LEMMA FreshTyped == FreshState \in StateType
BY DEF FreshState, StateType

\* Hydrating a state gives a state, and sets the gate.
LEMMA HydrateTyped ==
    ASSUME NEW state \in StateType, Hydrate(state), gate \in BOOLEAN, index \in BOOLEAN
    PROVE  gate' \in BOOLEAN /\ failed' \in BOOLEAN /\ mem' \in StateType
<1>0. state.complete \in BOOLEAN /\ state.failed \in BOOLEAN
  BY DEF StateType
<1>1. PICK complete \in BOOLEAN :
        LET open == state.complete \/ (index /\ complete)
        IN  /\ gate' = (gate \/ open)
            /\ failed' = (~open /\ state.failed)
            /\ mem' = [state EXCEPT !.complete = open, !.failed = ~open /\ @]
  BY <1>0 DEF Hydrate
<1>2. gate' \in BOOLEAN /\ failed' \in BOOLEAN
  BY <1>0, <1>1, Zenon
<1> DEFINE open == state.complete \/ (index /\ complete)
<1>3. open \in BOOLEAN /\ (~open /\ state.failed) \in BOOLEAN
  BY <1>0, Zenon
<1>4. mem' = [state EXCEPT !.complete = open, !.failed = ~open /\ @]
  BY <1>1
<1>5. mem' \in StateType
  <2> HIDE DEF open
  <2> QED BY <1>3, <1>4 DEF StateType
<1> QED BY <1>2, <1>5

\* A failure is counted.
LEMMA FaultTyped ==
    ASSUME faults \in 0..MaxFaults, Fault
    PROVE  faults' \in 0..MaxFaults
BY BoundsAssumption DEF Fault

\* Saving keeps the types.
LEMMA PersistTyped ==
    ASSUME TypeOK, Persist, mem' \in StateType
    PROVE  disk' \in StateType /\ unsaved' \in BOOLEAN /\ faults' \in 0..MaxFaults
<1>0. disk \in StateType /\ faults \in 0..MaxFaults /\ unsaved \in BOOLEAN
  BY DEF TypeOK
<1>1. CASE disk' = mem' /\ unsaved' = FALSE /\ UNCHANGED faults
  BY <1>0, <1>1, Zenon
<1>2. CASE Fault /\ unsaved' = TRUE /\ UNCHANGED disk
  BY <1>0, <1>2, FaultTyped, Zenon
<1> QED BY <1>1, <1>2 DEF Persist

LEMMA SaveTyped ==
    ASSUME TypeOK, NEW l, SaveAndGoto(l), mem' \in StateType
    PROVE  disk' \in StateType /\ faults' \in 0..MaxFaults /\ pc' \in {l, "final"}
<1>0. disk \in StateType /\ faults \in 0..MaxFaults
  BY DEF TypeOK
<1>1. CASE disk' = mem' /\ pc' = l /\ UNCHANGED faults
  BY <1>0, <1>1, Zenon
<1>2. CASE Fault /\ pc' = "final" /\ UNCHANGED disk
  BY <1>0, <1>2, FaultTyped, Zenon
<1> QED BY <1>1, <1>2 DEF SaveAndGoto
\* What is read of a page, and what is written.
LEMMA FileTyped ==
    ASSUME TypeOK, NEW p \in Pages
    PROVE  /\ file[p].mtime \in Nat /\ file[p].rev \in Nat
           /\ file[p].kind \in Kinds /\ file[p].tidy \in BOOLEAN
BY DEF TypeOK

LEMMA WriteTyped ==
    ASSUME TypeOK, NEW p \in Pages, NEW k \in Kinds
    PROVE  Write(p, k) \in [Pages -> FileType]
<1> DEFINE r == [file[p] EXCEPT !.mtime = @ + 1, !.kind = k]
<1>1. file \in [Pages -> FileType]
  BY DEF TypeOK, FileType
<1>2. r \in FileType
  <2>1. file[p] \in FileType
    BY <1>1
  <2>2. [file[p] EXCEPT !.mtime = @ + 1] \in FileType
    BY <2>1 DEF FileType
  <2> QED BY <2>2 DEF FileType
<1>3. Write(p, k) = [file EXCEPT ![p] = r]
  <2>1. [file EXCEPT ![p].mtime = @ + 1] = [file EXCEPT ![p] = [file[p] EXCEPT !.mtime = @ + 1]]
    OBVIOUS
  <2>2. [file EXCEPT ![p].mtime = @ + 1][p] = [file[p] EXCEPT !.mtime = @ + 1]
    BY <1>1
  <2> QED BY <1>1, <2>1, <2>2 DEF Write, FileType
<1> HIDE DEF r
<1> QED BY <1>1, <1>2, <1>3

LEMMA ReviseTyped ==
    ASSUME TypeOK, NEW p \in Pages, NEW k \in Kinds
    PROVE  Revise(p, k) \in [Pages -> FileType]
<1>1. [mtime |-> file[p].mtime + 1, rev |-> file[p].rev + 1, kind |-> k, tidy |-> FALSE]
         \in FileType
  BY FileTyped DEF FileType
<1>2. Revise(p, k) = [file EXCEPT ![p] = [mtime |-> file[p].mtime + 1, rev |-> file[p].rev + 1,
                                          kind |-> k, tidy |-> FALSE]]
  BY DEF Revise
<1>3. file \in [Pages -> FileType]
  BY DEF TypeOK, FileType
<1> QED BY <1>1, <1>2, <1>3

LEMMA InitTyped == Init => TypeInv
<1> SUFFICES ASSUME Init PROVE TypeInv
  OBVIOUS
<1>1. mem \in StateType /\ disk \in StateType /\ beat \in StateType \cup {None}
  <2>1. mem = FreshState /\ disk = FreshState /\ beat = None
    BY DEF Init
  <2> QED BY <2>1, FreshTyped, Zenon
<1>2. file \in [Pages -> FileType]
  <2>1. ASSUME NEW k \in Kinds
        PROVE  [mtime |-> 1, rev |-> 1, kind |-> k, tidy |-> FALSE] \in FileType
    BY <2>1 DEF FileType
  <2>2. PICK kinds \in StartKinds :
            file = [p \in Pages |-> [mtime |-> 1, rev |-> 1, kind |-> kinds[p], tidy |-> FALSE]]
    BY DEF Init
  <2>3. \A p \in Pages : kinds[p] \in Kinds
    BY <2>2, KindsAssumption
  <2> QED BY <2>1, <2>2, <2>3
<1>3. /\ queue \subseteq Pages /\ before \subseteq Pages /\ seen \in Nat
      /\ analysed \in [Pages -> Nat] /\ slipped \in [Pages -> BOOLEAN]
  BY DEF Init
<1>4. /\ budget \in 0..Budget /\ writes \in 0..MaxWrites
      /\ starts \in 0..MaxStarts /\ faults \in 0..MaxFaults
  BY BoundsAssumption DEF Init
<1>5. /\ gate \in BOOLEAN /\ failed \in BOOLEAN /\ index \in BOOLEAN
      /\ unsaved \in BOOLEAN /\ stop \in BOOLEAN /\ lost \in BOOLEAN
  BY Zenon DEF Init
<1>6. pc = "off" /\ loop = None /\ cur = None /\ m0 = None /\ base = None
  BY DEF Init
<1>7. TypeOK
  BY <1>1, <1>2, <1>3, <1>4, <1>5, <1>6 DEF TypeOK, FileType
<1> QED BY <1>6, <1>7 DEF TypeInv, Seated, Looping, LlmTurn, Quarantining

-----------------------------------------------------------------------------
(* Every step keeps the types: those that save nothing ... *)

LEMMA QuietStepsTyped ==
    ASSUME TypeInv,
           LoopEnds \/ Scan \/ ReadJournal \/ ReadPage \/ Reread \/ Rebase \/ Annotate
           \/ TurnMalformed \/ BeatSnapshot \/ RequestStop \/ Idle \/ Listed \/ PassRaises
    PROVE  TypeInv'
<1> USE DEF TypeInv, TypeOK, Seated, Looping, LlmTurn, Quarantining, turn, others, boot
<1>1. CASE LoopEnds
  BY <1>1 DEF LoopEnds
<1>2. CASE Scan
  <2>1. Budget \in 0..Budget
    BY BoundsAssumption
  <2> QED BY <1>2, <2>1 DEF Scan, Pending
<1>3. CASE ReadJournal
  BY <1>3, FileTyped DEF ReadJournal
<1>4. CASE ReadPage
  BY <1>4, FileTyped DEF ReadPage
<1>5. CASE Reread
  BY <1>5, FileTyped DEF Reread
<1>6. CASE Rebase
  BY <1>6, FileTyped DEF Rebase
<1>7. CASE Annotate
  <2>1. cur \in Pages /\ "bad" \in Kinds
    BY <1>7 DEF Annotate, Kinds
  <2>2. file' \in [Pages -> FileType]
    BY <1>7, <2>1, WriteTyped DEF Annotate, FileType
  <2> QED BY <1>7, <2>2 DEF Annotate, FileType
<1>8. CASE TurnMalformed
  <2>1. faults' \in 0..MaxFaults
    BY <1>8, FaultTyped DEF TurnMalformed
  <2> QED BY <1>8, <2>1, FileTyped DEF TurnMalformed
<1>9. CASE BeatSnapshot
  BY <1>9 DEF BeatSnapshot
<1>10. CASE RequestStop
  BY <1>10 DEF RequestStop
<1>11. CASE Idle
  BY <1>11 DEF Idle
<1>12. CASE Listed
  BY <1>12 DEF Listed
<1>13. CASE PassRaises
  BY <1>13 DEF PassRaises
<1> QED BY <1>1, <1>2, <1>3, <1>4, <1>5, <1>6, <1>7, <1>8, <1>9, <1>10, <1>11, <1>12, <1>13


\* ... those of a daemon that starts, scans, waits and ends ...
LEMMA CycleStepsTyped ==
    ASSUME TypeInv,
           Start \/ Bootstrap \/ CycleStart \/ IdleSaved \/ ScanFails \/ CycleDone \/ Reload
           \/ Wake \/ Finalize \/ Crash
    PROVE  TypeInv'
<1> USE DEF TypeInv, TypeOK, Seated, Looping, LlmTurn, Quarantining, turn, others, boot
<1>1. CASE Start
  <2>1. starts' \in 0..MaxStarts
    BY <1>1, BoundsAssumption DEF Start
  <2>2. mem' \in StateType
    BY <1>1 DEF Start, StateType
  <2>3. gate' \in BOOLEAN /\ failed' \in BOOLEAN
    <3>1. disk.complete \in BOOLEAN /\ disk.failed \in BOOLEAN
      BY DEF StateType
    <3> QED BY <1>1, <3>1, Zenon DEF Start
  <2>4. disk' \in StateType /\ faults' \in 0..MaxFaults /\ pc' \in {"boot", "off"}
    <3>1. CASE disk' = mem' /\ pc' = "boot" /\ UNCHANGED faults
      BY <2>2, <3>1
    <3>2. CASE Fault /\ pc' = "off" /\ UNCHANGED disk
      BY <3>2, FaultTyped
    <3> QED BY <1>1, <3>1, <3>2 DEF Start
  <2> QED BY <1>1, <2>1, <2>2, <2>3, <2>4 DEF Start
<1>2. CASE Bootstrap
  <2>1. gate' \in BOOLEAN /\ failed' \in BOOLEAN /\ mem' \in StateType
    BY <1>2, HydrateTyped DEF Bootstrap
  <2>2. /\ disk' \in StateType /\ faults' \in 0..MaxFaults /\ pc' \in {"loop", "harvest", "final"}
        /\ before' \subseteq Pages
    <3>1. CASE gate'
      BY <1>2, <3>1 DEF Bootstrap
    <3>2. CASE ~gate'
      BY <1>2, <2>1, <3>2, SaveTyped DEF Bootstrap
    <3> QED BY <3>1, <3>2
  <2> QED BY <1>2, <2>1, <2>2 DEF Bootstrap
<1>3. CASE CycleStart
  <2>1. gate' \in BOOLEAN /\ failed' \in BOOLEAN /\ mem' \in StateType
    BY <1>3, PruneTyped, HydrateTyped DEF CycleStart
  <2>2. disk' \in StateType /\ unsaved' \in BOOLEAN /\ faults' \in 0..MaxFaults
    BY <1>3, <2>1, PersistTyped DEF CycleStart
  <2> QED BY <1>3, <2>1, <2>2 DEF CycleStart
<1>4. CASE IdleSaved
  <2>1. disk' \in StateType /\ faults' \in 0..MaxFaults /\ pc' \in {"links", "final"}
    BY <1>4, SaveTyped DEF IdleSaved
  <2>2. index' \in BOOLEAN
    BY <1>4, Zenon DEF IdleSaved
  <2> QED BY <1>4, <2>1, <2>2 DEF IdleSaved
<1>5. CASE ScanFails
  BY <1>5, FaultTyped DEF ScanFails
<1>6. CASE CycleDone
  <2>1. disk' \in StateType /\ unsaved' \in BOOLEAN /\ faults' \in 0..MaxFaults
    BY <1>6, PersistTyped DEF CycleDone
  <2> QED BY <1>6, <2>1, BoundsAssumption DEF CycleDone
<1>7. CASE Reload
  BY <1>7, BoundsAssumption DEF Reload
<1>8. CASE Wake
  <2>1. disk' \in StateType /\ unsaved' \in BOOLEAN /\ faults' \in 0..MaxFaults
    BY <1>8, PersistTyped DEF Wake
  <2> QED BY <1>8, <2>1 DEF Wake
<1>9. ASSUME Off, disk' \in StateType, faults' \in 0..MaxFaults
      PROVE  TypeInv'
  <2>1. /\ pc' = "off" /\ queue' = {} /\ loop' = None /\ beat' = None
        /\ cur' = None /\ m0' = None /\ base' = None /\ before' = {}
        /\ UNCHANGED <<file, index, analysed, writes, slipped, lost, starts>>
    BY <1>9 DEF Off
  <2>2. mem' \in StateType
    BY <1>9, FreshTyped, Zenon DEF Off
  <2>3. /\ gate' \in BOOLEAN /\ failed' \in BOOLEAN /\ refs' \in BOOLEAN
        /\ unsaved' \in BOOLEAN /\ stop' \in BOOLEAN
    BY <1>9, Zenon DEF Off
  <2>4. budget' \in 0..Budget /\ seen' \in Nat
    BY <1>9, BoundsAssumption DEF Off
  <2> QED BY <1>9, <2>1, <2>2, <2>3, <2>4
<1>10. CASE Finalize
  <2>1. disk' \in StateType /\ faults' \in 0..MaxFaults
    BY <1>10, FaultTyped DEF Finalize
  <2> QED BY <1>9, <1>10, <2>1 DEF Finalize
<1>11. CASE Crash
  <2>1. disk' \in StateType /\ faults' \in 0..MaxFaults
    BY <1>11, FaultTyped DEF Crash
  <2> QED BY <1>9, <1>11, <2>1 DEF Crash
<1> QED BY <1>1, <1>2, <1>3, <1>4, <1>5, <1>6, <1>7, <1>8, <1>10, <1>11

\* ... those of the harvest ...
LEMMA HarvestStepsTyped ==
    ASSUME TypeInv, HarvestDone \/ HarvestRaises \/ HarvestMiscounts \/ HarvestStopped
    PROVE  TypeInv'
<1> USE DEF TypeInv, TypeOK, Seated, Looping, LlmTurn, Quarantining, turn, others, boot
<1>1. ASSUME NEW c \in BOOLEAN, NEW f \in BOOLEAN
      PROVE  [mem EXCEPT !.complete = c, !.failed = f] \in StateType
  BY DEF StateType
<1>2. CASE HarvestDone
  <2>1. mem' \in StateType
    BY <1>1, <1>2 DEF HarvestDone
  <2>2. disk' \in StateType /\ faults' \in 0..MaxFaults /\ pc' \in {"loop", "final"}
    BY <1>2, <2>1, SaveTyped DEF HarvestDone
  <2> QED BY <1>2, <2>1, <2>2 DEF HarvestDone
<1>3. CASE HarvestRaises
  <2>1. mem' \in StateType
    BY <1>1, <1>3 DEF HarvestRaises, CloseGate
  <2> QED BY <1>3, <2>1, FaultTyped DEF HarvestRaises, CloseGate
<1>4. CASE HarvestMiscounts
  <2>1. mem' \in StateType
    BY <1>1, <1>4 DEF HarvestMiscounts, CloseGate
  <2>2. disk' \in StateType /\ faults' \in 0..MaxFaults /\ pc' \in {"loop", "final"}
    BY <1>4, <2>1, SaveTyped DEF HarvestMiscounts
  <2> QED BY <1>4, <2>1, <2>2 DEF HarvestMiscounts, CloseGate
<1>5. CASE HarvestStopped
  <2>1. disk' \in StateType /\ faults' \in 0..MaxFaults /\ pc' \in {"loop", "final"}
    BY <1>5, SaveTyped DEF HarvestStopped
  <2> QED BY <1>5, <2>1 DEF HarvestStopped
<1> QED BY <1>2, <1>3, <1>4, <1>5


\* ... those of the fast track ...
LEMMA FastStepsTyped ==
    ASSUME TypeInv, FastTrack \/ Quarantine \/ FastTracked
    PROVE  TypeInv'
<1> USE DEF TypeInv, TypeOK, Seated, Looping, LlmTurn, Quarantining, turn, others, boot
<1>1. CASE FastTrack
  <2>1. Head \in queue /\ Head \in Pages /\ budget - 1 \in 0..Budget
    BY <1>1, LeastIn, PagesAssumption, BoundsAssumption DEF FastTrack, More, Head
  <2> DEFINE p == Head
  <2>2. p \in Pages /\ file[p].mtime \in Nat
    BY <2>1, FileTyped
  <2> HIDE DEF p
  <2>3. CASE cur' = p /\ m0' = file[p].mtime /\ pc' = "annotate"
             /\ UNCHANGED <<mem, disk, unsaved, budget, faults>>
    BY <1>1, <2>2, <2>3 DEF FastTrack, More
  <2>4. CASE /\ Settle(p, Rec("skipped", file[p].mtime)) /\ Persist
             /\ budget' = budget - 1 /\ UNCHANGED <<cur, m0, refs, pc>>
    <3>1. mem' \in StateType
      BY <2>2, <2>4, RecTyped, SettleTyped DEF Statuses
    <3>2. disk' \in StateType /\ unsaved' \in BOOLEAN /\ faults' \in 0..MaxFaults
      BY <2>4, <3>1, PersistTyped
    <3> QED BY <1>1, <2>1, <2>4, <3>1, <3>2 DEF FastTrack
  <2>5. CASE UNCHANGED <<mem, disk, unsaved, budget, faults, cur, m0, refs, pc>>
    BY <1>1, <2>5 DEF FastTrack
  <2> QED BY <1>1, <2>3, <2>4, <2>5 DEF FastTrack, p
<1>2. CASE Quarantine
  <2>1. cur \in Pages /\ m0 \in Nat /\ budget - 1 \in 0..Budget
    BY <1>2, BoundsAssumption DEF Quarantine
  <2>2. mem' \in StateType
    <3>1. (IF Exists(cur) THEN file[cur].mtime ELSE m0) \in Nat
      BY <2>1, FileTyped
    <3> QED BY <1>2, <2>1, <3>1, RecTyped, SettleTyped DEF Quarantine, Statuses
  <2>3. disk' \in StateType /\ unsaved' \in BOOLEAN /\ faults' \in 0..MaxFaults
    BY <1>2, <2>2, PersistTyped DEF Quarantine
  <2> QED BY <1>2, <2>1, <2>2, <2>3 DEF Quarantine
<1>3. CASE FastTracked
  <2>1. CASE stop
    <3>1. disk' \in StateType /\ faults' \in 0..MaxFaults /\ pc' \in {"cycled", "final"}
      BY <1>3, <2>1, SaveTyped DEF FastTracked, FastTrackEnds
    <3> QED BY <1>3, <2>1, <3>1 DEF FastTracked, FastTrackEnds
  <2>2. CASE ~stop
    BY <1>3, <2>2 DEF FastTracked, FastTrackEnds
  <2> QED BY <2>1, <2>2
<1> QED BY <1>1, <1>2, <1>3

\* ... those of a turn ...
LEMMA TurnEndTyped ==
    ASSUME TypeInv, pc \in LlmTurn, NEW called \in {0, 1}, EndTurn(called),
           mem' \in StateType, disk' \in StateType, unsaved' \in BOOLEAN,
           faults' \in 0..MaxFaults, file' \in [Pages -> FileType],
           analysed' \in [Pages -> Nat],
           UNCHANGED <<beat, gate, failed, index, before, stop, loop, queue, writes, slipped, lost,
                       starts>>
    PROVE  TypeInv'
<1>1. budget' \in 0..Budget /\ seen' \in Nat
  BY BoundsAssumption DEF EndTurn, TypeInv, TypeOK, Seated
<1>2. cur' = None /\ m0' = None /\ base' = None /\ pc' = "llm"
  BY DEF EndTurn
<1> QED BY <1>1, <1>2 DEF TypeInv, TypeOK, Seated, Looping, LlmTurn, Quarantining, FileType

LEMMA BeginTurnTyped ==
    ASSUME TypeInv, BeginTurn
    PROVE  TypeInv'
<1> USE DEF TypeInv, TypeOK, Seated, Looping, LlmTurn, Quarantining, turn, others, boot
<1>1. Head \in queue /\ Head \in Pages
  BY LeastIn, PagesAssumption DEF BeginTurn, More, Head
<1> DEFINE p == Head
<1>2. p \in Pages /\ file[p].mtime \in Nat
  BY <1>1, FileTyped
<1> HIDE DEF p
<1>3. CASE cur' = p /\ m0' = file[p].mtime /\ Persist /\ pc' \in {"journal", "read"}
  <2>1. disk' \in StateType /\ unsaved' \in BOOLEAN /\ faults' \in 0..MaxFaults
    BY <1>3, PersistTyped DEF BeginTurn
  <2> QED BY <1>2, <1>3, <2>1 DEF BeginTurn, More
<1>4. CASE pc' = "final" /\ UNCHANGED <<disk, unsaved, faults, cur, m0>>
  BY <1>4 DEF BeginTurn
<1> QED BY <1>3, <1>4 DEF BeginTurn, p


LEMMA TurnStepsTyped ==
    ASSUME TypeInv,
           StampJournal \/ Pipeline \/ Ask \/ Answer \/ Apply \/ Record \/ Post
           \/ TurnFails \/ Unlockable
    PROVE  TypeInv'
<1>0. TypeOK /\ Seated /\ Looping
  BY DEF TypeInv
<1>1. /\ pc \in LlmTurn => cur \in Pages /\ m0 \in Nat
      /\ mem \in StateType /\ disk \in StateType /\ unsaved \in BOOLEAN
      /\ faults \in 0..MaxFaults /\ file \in [Pages -> FileType] /\ analysed \in [Pages -> Nat]
      /\ seen \in Nat
  BY <1>0 DEF TypeOK, Seated, FileType
<1>2. /\ InTurn => pc \in LlmTurn
      /\ pc \in {"stamp", "pipeline", "check", "asking", "apply", "record", "post"} => pc \in LlmTurn
  BY DEF InTurn, LlmTurn
<1>3. ASSUME pc \in LlmTurn, NEW s \in Statuses, NEW m \in Nat, Settle(cur, Rec(s, m))
      PROVE  mem' \in StateType
  BY <1>1, <1>3, RecTyped, SettleTyped
<1>4. ASSUME pc \in LlmTurn
      PROVE  file[cur].mtime \in Nat /\ file[cur].kind \in Kinds
  BY <1>0, <1>1, <1>4, FileTyped
<1>5. ASSUME pc \in LlmTurn, pc' \in LlmTurn,
             mem' \in StateType, disk' \in StateType, unsaved' \in BOOLEAN,
             faults' \in 0..MaxFaults, file' \in [Pages -> FileType],
             analysed' \in [Pages -> Nat],
             UNCHANGED <<beat, gate, failed, index, before, stop, loop, queue, writes, slipped, lost,
                         starts, budget, cur, m0, base, seen, refs>>
      PROVE  TypeInv'
  BY <1>5 DEF TypeInv, TypeOK, Seated, Looping, LlmTurn, Quarantining, FileType
<1>6. CASE StampJournal
  <2>1. mem' \in StateType /\ analysed' \in [Pages -> Nat]
    BY <1>1, <1>2, <1>3, <1>4, <1>6 DEF StampJournal, Statuses
  <2>2. disk' \in StateType /\ unsaved' \in BOOLEAN /\ faults' \in 0..MaxFaults
    BY <1>0, <1>6, <2>1, PersistTyped DEF StampJournal
  <2> QED BY <1>1, <1>2, <1>6, <2>1, <2>2, TurnEndTyped DEF StampJournal, boot, others
<1>7. CASE Pipeline
  <2>1. file' \in [Pages -> FileType]
    <3>1. CASE UNCHANGED file
      BY <1>1, <3>1
    <3>2. CASE file' = [Write(cur, file[cur].kind) EXCEPT ![cur].tidy = TRUE]
      <4> DEFINE w == Write(cur, file[cur].kind)
      <4>1. cur \in Pages /\ w \in [Pages -> FileType]
        BY <1>0, <1>1, <1>2, <1>4, <1>7, WriteTyped DEF Pipeline
      <4>2. file' = [w EXCEPT ![cur] = [w[cur] EXCEPT !.tidy = TRUE]]
        BY <3>2
      <4> HIDE DEF w
      <4>3. [w[cur] EXCEPT !.tidy = TRUE] \in FileType
        BY <4>1 DEF FileType
      <4> QED BY <4>1, <4>2, <4>3
    <3> QED BY <1>7, <3>1, <3>2 DEF Pipeline
  <2>2. disk' \in StateType /\ unsaved' \in BOOLEAN /\ faults' \in 0..MaxFaults /\ mem' \in StateType
    BY <1>0, <1>1, <1>7, PersistTyped DEF Pipeline
  <2>3. pc' \in LlmTurn
    BY <1>7 DEF Pipeline, LlmTurn
  <2> QED BY <1>1, <1>2, <1>5, <1>7, <2>1, <2>2, <2>3 DEF Pipeline, boot, others, turn
<1>8. CASE Ask
  <2>1. CASE Conflict
    <3>1. disk' \in StateType /\ unsaved' \in BOOLEAN /\ faults' \in 0..MaxFaults
      BY <1>0, <1>1, <1>8, <2>1, PersistTyped DEF Ask, Abandon
    <3> QED BY <1>1, <1>2, <1>8, <2>1, <3>1, TurnEndTyped DEF Ask, Abandon, boot, others
  <2>2. CASE ~Conflict
    <3>1. pc' \in LlmTurn
      BY <1>8, <2>2 DEF Ask, LlmTurn
    <3> QED BY <1>1, <1>2, <1>5, <1>8, <2>2, <3>1 DEF Ask, boot, others, turn
  <2> QED BY <2>1, <2>2
<1>9. CASE Answer
  <2>1. faults' \in 0..MaxFaults
    BY <1>1, <1>9, FaultTyped DEF Answer, Joined
  <2>2. CASE Conflict
    BY <1>1, <1>2, <1>9, <2>1, <2>2, TurnEndTyped DEF Answer, boot, others
  <2>3. CASE ~Conflict
    <3>1. pc' \in LlmTurn
      BY <1>9, <2>3 DEF Answer, LlmTurn
    <3> QED BY <1>1, <1>2, <1>5, <1>9, <2>1, <2>3, <3>1 DEF Answer, boot, others, turn
  <2> QED BY <2>2, <2>3
<1>10. CASE Apply
  <2>1. pc \in LlmTurn /\ cur \in Pages
    BY <1>1, <1>2, <1>10 DEF Apply
  <2>2. CASE Abandon(1) /\ UNCHANGED file
    <3>1. disk' \in StateType /\ unsaved' \in BOOLEAN /\ faults' \in 0..MaxFaults
      BY <1>0, <1>1, <2>2, PersistTyped DEF Abandon
    <3> QED BY <1>1, <1>10, <2>1, <2>2, <3>1, TurnEndTyped DEF Apply, Abandon, boot, others
  <2>3. CASE /\ file' = IF file[cur].kind \in {"absent", "empty"} THEN file ELSE Write(cur, "indexed")
             /\ pc' = "record" /\ UNCHANGED <<mem, disk, unsaved, budget, turn, faults>>
    <3>1. file' \in [Pages -> FileType]
      <4>1. Write(cur, "indexed") \in [Pages -> FileType]
        BY <1>0, <2>1, WriteTyped DEF Kinds
      <4> QED BY <1>1, <2>3, <4>1
    <3>2. pc' \in LlmTurn
      BY <2>3 DEF LlmTurn
    <3> QED BY <1>1, <1>5, <1>10, <2>1, <2>3, <3>1, <3>2 DEF Apply, boot, others, turn
  <2>4. CASE Fault /\ EndTurn(1) /\ disk' = mem /\ unsaved' = FALSE /\ UNCHANGED <<file, mem>>
    <3>1. faults' \in 0..MaxFaults
      BY <1>1, <2>4, FaultTyped
    <3> QED BY <1>1, <1>10, <2>1, <2>4, <3>1, TurnEndTyped DEF Apply, boot, others
  <2> QED BY <1>10, <2>2, <2>3, <2>4 DEF Apply
<1>11. CASE Record
  <2>1. pc \in LlmTurn /\ cur \in Pages
    BY <1>1, <1>2, <1>11 DEF Record
  <2>2. CASE /\ Settle(cur, Rec("processed", file[cur].mtime))
             /\ analysed' = [analysed EXCEPT ![cur] = seen]
             /\ pc' = "post" /\ UNCHANGED <<disk, unsaved, budget, turn, faults>>
    <3>1. mem' \in StateType /\ analysed' \in [Pages -> Nat]
      BY <1>1, <1>3, <1>4, <2>1, <2>2 DEF Statuses
    <3>2. pc' \in LlmTurn
      BY <2>2 DEF LlmTurn
    <3> QED BY <1>1, <1>5, <1>11, <2>1, <2>2, <3>1, <3>2 DEF Record, boot, others, turn
  <2>3. CASE Settle(cur, Rec("error", m0)) /\ Persist /\ EndTurn(1) /\ UNCHANGED analysed
    <3>1. mem' \in StateType
      BY <1>1, <1>3, <2>1, <2>3 DEF Statuses
    <3>2. disk' \in StateType /\ unsaved' \in BOOLEAN /\ faults' \in 0..MaxFaults
      BY <1>0, <2>3, <3>1, PersistTyped
    <3> QED BY <1>1, <1>11, <2>1, <2>3, <3>1, <3>2, TurnEndTyped DEF Record, boot, others
  <2> QED BY <1>11, <2>2, <2>3 DEF Record
<1>12. CASE Post
  <2>1. disk' \in StateType /\ unsaved' \in BOOLEAN /\ faults' \in 0..MaxFaults /\ mem' \in StateType
    BY <1>0, <1>1, <1>12, PersistTyped DEF Post
  <2> QED BY <1>1, <1>2, <1>12, <2>1, TurnEndTyped DEF Post, boot, others
<1>13. CASE TurnFails
  <2>1. pc \in LlmTurn /\ mem' \in StateType /\ faults' \in 0..MaxFaults
    BY <1>1, <1>2, <1>3, <1>13, FaultTyped DEF TurnFails, Statuses
  <2>2. PICK called \in {0, 1} : EndTurn(called)
    BY <1>13 DEF TurnFails
  <2> QED BY <1>1, <1>13, <2>1, <2>2, TurnEndTyped DEF TurnFails, boot, others
<1>14. CASE Unlockable
  <2>1. pc \in LlmTurn /\ faults' \in 0..MaxFaults
    BY <1>1, <1>2, <1>14, FaultTyped DEF Unlockable
  <2>2. mem' \in StateType
    BY <1>1, <1>3, <1>14, <2>1 DEF Unlockable, Statuses
  <2>3. PICK called \in {0, 1} : EndTurn(called)
    BY <1>14 DEF Unlockable
  <2> QED BY <1>1, <1>14, <2>1, <2>2, <2>3, TurnEndTyped DEF Unlockable, boot, others
<1> QED BY <1>6, <1>7, <1>8, <1>9, <1>10, <1>11, <1>12, <1>13, <1>14


\* ... and those of the heartbeat, the human, the daemon's side writes and the time.
LEMMA OtherStepsTyped ==
    ASSUME TypeInv,
           \/ BeatSave \/ Tick \/ Reset \/ JourneyLog \/ JourneySettle
           \/ \E p \in Pages, k \in EditKinds : Edit(p, k)
           \/ \E p \in Pages, k \in Kinds : OwnWrite(p, k)
    PROVE  TypeInv'
<1> USE DEF TypeInv, TypeOK, Seated, Looping, LlmTurn, Quarantining, turn, others, boot
<1>1. CASE BeatSave
  <2>0. beat \in StateType
    BY <1>1 DEF BeatSave
  <2>1. CASE disk' = beat /\ unsaved' = FALSE /\ UNCHANGED faults
    <3>1. disk' \in StateType /\ unsaved' \in BOOLEAN /\ beat' = None
      BY <1>1, <2>0, <2>1, Zenon DEF BeatSave
    <3> QED BY <1>1, <2>1, <3>1 DEF BeatSave
  <2>2. CASE Fault /\ unsaved' = TRUE /\ UNCHANGED disk
    BY <1>1, <2>2, FaultTyped DEF BeatSave
  <2> QED BY <1>1, <2>1, <2>2 DEF BeatSave
<1>2. CASE Tick
  <2>1. mem' \in StateType /\ disk' \in StateType /\ beat' \in StateType \cup {None}
    BY <1>2, UnwaitTyped DEF Tick
  <2> QED BY <1>2, <2>1 DEF Tick
<1>3. CASE Reset
  <2>1. disk' \in StateType /\ faults' \in 0..MaxFaults
    BY <1>3, FreshTyped, FaultTyped DEF Reset
  <2> QED BY <1>3, <2>1 DEF Reset
<1>4. ASSUME NEW p \in Pages, NEW k \in Kinds, Edit(p, k) \/ OwnWrite(p, k)
      PROVE  TypeInv'
  <2>1. file' \in [Pages -> FileType]
    BY <1>4, ReviseTyped DEF Edit, OwnWrite
  <2>2. writes' \in 0..MaxWrites
    BY <1>4, BoundsAssumption DEF Edit, OwnWrite
  <2>3. slipped' \in [Pages -> BOOLEAN]
    <3>1. InWindow(p) \in BOOLEAN
      BY DEF InWindow
    <3> QED BY <1>4, <3>1 DEF Edit, OwnWrite
  <2> QED BY <1>4, <2>1, <2>2, <2>3 DEF Edit, OwnWrite, FileType
<1>5. CASE JourneyLog
  <2>1. /\ pc = "links" /\ pc' \in {"journey", "cycled", "final"} /\ disk' \in StateType
        /\ faults' \in 0..MaxFaults
    BY <1>5, SaveTyped DEF JourneyLog, SaveAndGoto
  <2>2. writes' \in 0..MaxWrites
    BY <1>5, BoundsAssumption DEF JourneyLog
  <2>3. file' \in [Pages -> FileType]
    <3>1. Today \in Pages
      BY PagesAssumption
    <3>2. (IF file[Today].kind \in {"absent", "empty"} THEN "plain" ELSE file[Today].kind) \in Kinds
      BY <3>1, FileTyped DEF Kinds
    <3> DEFINE k == IF file[Today].kind \in {"absent", "empty"} THEN "plain" ELSE file[Today].kind
    <3>3. Write(Today, k) \in [Pages -> FileType]
      BY <3>1, <3>2, WriteTyped
    <3> HIDE DEF k
    <3>4. file' = file \/ file' = Write(Today, k)
      BY <1>5 DEF JourneyLog, k
    <3> QED BY <3>3, <3>4 DEF FileType
  <2> QED BY <1>5, <2>1, <2>2, <2>3 DEF JourneyLog, FileType
<1>6. CASE JourneySettle
  <2>1. Today \in Pages /\ file[Today].mtime \in Nat
    BY PagesAssumption, FileTyped
  <2>2. mem' \in StateType
    BY <1>6, <2>1, RecTyped, SettleTyped DEF JourneySettle, Statuses
  <2>3. disk' \in StateType /\ faults' \in 0..MaxFaults /\ pc' \in {"cycled", "final"}
    BY <1>6, <2>2, SaveTyped DEF JourneySettle
  <2>4. slipped' \in [Pages -> BOOLEAN]
    <3>1. (slipped[Today] \/ analysed[Today] # file[Today].rev) \in BOOLEAN
      BY <2>1
    <3> QED BY <1>6, <3>1 DEF JourneySettle
  <2> QED BY <1>6, <2>2, <2>3, <2>4 DEF JourneySettle
<1> QED BY <1>1, <1>2, <1>3, <1>4, <1>5, <1>6, KindsAssumption

LEMMA NextTyped == TypeInv /\ [Next]_vars => TypeInv'
<1> SUFFICES ASSUME TypeInv, [Next]_vars PROVE TypeInv'
  OBVIOUS
<1>1. CASE Next
  BY <1>1, QuietStepsTyped, CycleStepsTyped, HarvestStepsTyped, FastStepsTyped, BeginTurnTyped,
     TurnStepsTyped, OtherStepsTyped, Zenon DEF Next, MainStep
<1>2. CASE UNCHANGED vars
  BY <1>2 DEF vars, turn, others, boot, TypeInv, TypeOK, Seated, Looping, LlmTurn, Quarantining
<1> QED BY <1>1, <1>2

\* What the daemon keeps in memory, saves, and knows of the page of its turn is of its type: a
\* turn has a page and budget for it, from BeginTurn to its end (process_llm_cycle_file).
THEOREM TypeCorrect == Spec => []TypeOK
<1>1. Spec => []TypeInv
  BY InitTyped, NextTyped, PTL DEF Spec
<1>2. TypeInv => TypeOK
  BY DEF TypeInv
<1> QED BY <1>1, <1>2, PTL


-----------------------------------------------------------------------------
(* The LLM is asked only behind the gate *)

\* The gate is open, or the failure of the bootstrap is remembered wherever the daemon may
\* take its state from.
Behind == \/ gate
          \/ failed /\ mem.failed /\ disk.failed /\ (beat # None => beat.failed)

\* Before the first cycle no heartbeat runs and nothing is queued.  From then on the daemon is
\* behind the gate, but for a stop of the harvest, and a page gets to the LLM only when the
\* gate is open.
GateInv ==
    /\ pc \in {"off", "boot", "harvest"} => beat = None /\ queue = {}
    /\ ~lost => /\ \/ pc \in {"off", "boot", "harvest", "final"}
                   \/ pc = "loop" /\ stop
                   \/ Behind
                /\ pc \in LlmTurn => gate
                /\ loop = "llm" => gate \/ queue = {}

\* A record of a page leaves the rest of the state alone, and so do time and pruning.
LEMMA SettleKeeps ==
    ASSUME mem \in StateType, NEW p, NEW r, Settle(p, r)
    PROVE  mem'.failed = mem.failed
BY DEF Settle, StateType

LEMMA UnwaitKeeps ==
    ASSUME NEW state \in StateType
    PROVE  Unwait(state).failed = state.failed /\ Prune(state).failed = state.failed
BY DEF Unwait, Prune, StateType

\* The steps of a cycle that leave the gate alone.
LEMMA GateKept ==
    ASSUME GateInv, UNCHANGED <<gate, failed, lost>>,
           pc \notin {"off", "boot", "harvest"}, pc' \notin {"off", "boot", "harvest"},
           pc = "loop" => ~stop \/ pc' = "final",
           pc = "final" => pc' = "final",
           mem'.failed = mem.failed \/ mem' = disk,
           \/ disk' = disk \/ disk'.failed = mem.failed
           \/ beat # None /\ disk' = beat,
           beat' \in {None, beat, mem},
           pc' \in LlmTurn => pc \in LlmTurn \/ (loop = "llm" /\ queue # {}),
           loop' = "llm" => \/ queue' = {}
                            \/ loop = "llm" /\ queue' \subseteq queue
                            \/ pc = "fast" /\ (failed /\ ~gate => queue' = {})
    PROVE  GateInv'
<1>1. CASE lost
  BY <1>1 DEF GateInv
<1>2. CASE ~lost
  <2>1. pc' = "final" \/ Behind
    BY <1>2 DEF GateInv
  <2>2. Behind => Behind'
    BY DEF Behind
  <2>3. pc' \in LlmTurn => gate
    BY <1>2 DEF GateInv
  <2>4. loop' = "llm" => gate \/ queue' = {}
    <3>1. CASE loop = "llm" /\ queue' \subseteq queue
      BY <1>2, <3>1 DEF GateInv
    <3>2. CASE pc = "fast" /\ (failed /\ ~gate => queue' = {})
      BY <1>2, <3>2 DEF GateInv, Behind
    <3> QED BY <3>1, <3>2, Zenon
  <2> QED BY <2>1, <2>2, <2>3, <2>4 DEF GateInv
<1> QED BY <1>1, <1>2

\* The steps that leave the daemon where it is.
LEMMA GateUntouched ==
    ASSUME GateInv, UNCHANGED <<gate, failed, lost, pc, loop, queue>>, stop => stop',
           mem'.failed = mem.failed, disk'.failed = disk.failed,
           \/ beat' = None
           \/ beat # None /\ beat'.failed = beat.failed
    PROVE  GateInv'
<1>1. Behind => Behind'
  BY DEF Behind
<1> QED BY <1>1 DEF GateInv


LEMMA GateStart ==
    ASSUME TypeInv, GateInv, Start \/ Bootstrap \/ Reset
    PROVE  GateInv'
<1> USE DEF boot, others, turn
<1>1. CASE Start
  BY <1>1 DEF Start, GateInv, LlmTurn
<1>2. CASE Bootstrap
  <2>1. CASE gate'
    BY <1>2, <2>1 DEF Bootstrap, GateInv, Behind, LlmTurn
  <2>2. CASE ~gate'
    BY <1>2, <2>2 DEF Bootstrap, SaveAndGoto, GateInv, LlmTurn
  <2> QED BY <2>1, <2>2
<1>3. CASE Reset
  BY <1>3 DEF Reset, GateInv, others
<1> QED BY <1>1, <1>2, <1>3

LEMMA GateHarvest ==
    ASSUME TypeInv, GateInv, HarvestDone \/ HarvestRaises \/ HarvestMiscounts \/ HarvestStopped
    PROVE  GateInv'
<1> USE DEF boot, others, turn
<1>0. mem \in StateType /\ beat = None /\ queue = {}
  BY DEF TypeInv, TypeOK, GateInv, HarvestDone, HarvestRaises, HarvestMiscounts, HarvestStopped
<1>1. CASE HarvestDone
  BY <1>0, <1>1 DEF HarvestDone, SaveAndGoto, GateInv, Behind, LlmTurn
<1>2. CASE HarvestRaises
  <2>1. mem'.failed
    <3>1. mem' = [mem EXCEPT !.complete = FALSE, !.failed = TRUE]
      BY <1>2 DEF HarvestRaises, CloseGate
    <3> QED BY <1>0, <3>1 DEF StateType
  <2> QED BY <1>0, <1>2, <2>1 DEF HarvestRaises, CloseGate, GateInv, Behind, LlmTurn
<1>3. CASE HarvestMiscounts
  <2>1. mem'.failed
    <3>1. mem' = [mem EXCEPT !.complete = FALSE, !.failed = TRUE]
      BY <1>3 DEF HarvestMiscounts, CloseGate
    <3> QED BY <1>0, <3>1 DEF StateType
  <2> QED BY <1>0, <1>3, <2>1 DEF HarvestMiscounts, CloseGate, SaveAndGoto, GateInv, Behind, LlmTurn
<1>4. CASE HarvestStopped
  BY <1>0, <1>4 DEF HarvestStopped, SaveAndGoto, GateInv, LlmTurn
<1> QED BY <1>1, <1>2, <1>3, <1>4

\* A cycle hydrates its gate from a state that knows of the failure.
LEMMA GateCycle ==
    ASSUME TypeInv, GateInv, CycleStart
    PROVE  GateInv'
<1>0. /\ mem \in StateType /\ disk \in StateType /\ gate \in BOOLEAN
      /\ pc = "loop" /\ ~stop /\ pc' = "scan"
      /\ UNCHANGED <<beat, loop, queue, lost>>
  BY DEF CycleStart, TypeInv, TypeOK, others
<1>1. CASE lost
  BY <1>0, <1>1 DEF GateInv
<1>2. CASE ~lost
  <2>0. Behind
    BY <1>0, <1>2 DEF GateInv
  <2> DEFINE state == Prune(mem)
  <2>1. state \in StateType /\ state.failed = mem.failed
    BY <1>0, PruneTyped, UnwaitKeeps
  <2> HIDE DEF state
  <2>2. PICK open \in BOOLEAN :
           /\ gate' = (gate \/ open)
           /\ failed' = (~open /\ state.failed)
           /\ mem' = [state EXCEPT !.complete = open, !.failed = ~open /\ @]
    <3>1. Hydrate(state)
      BY DEF CycleStart, state
    <3>2. PICK complete \in BOOLEAN :
             LET open == state.complete \/ (index /\ complete)
             IN  /\ gate' = (gate \/ open)
                 /\ failed' = (~open /\ state.failed)
                 /\ mem' = [state EXCEPT !.complete = open, !.failed = ~open /\ @]
      BY <3>1 DEF Hydrate
    <3>3. (state.complete \/ (index /\ complete)) \in BOOLEAN
      OBVIOUS
    <3> QED BY <3>2, <3>3
  <2>3. mem'.failed = (~open /\ state.failed)
    BY <2>1, <2>2 DEF StateType
  <2>4. disk' = mem' \/ disk' = disk
    BY DEF CycleStart, Persist
  <2>5. Behind'
    <3>1. CASE gate'
      BY <3>1 DEF Behind
    <3>2. CASE ~gate'
      <4>1. ~gate /\ ~open
        BY <2>2, <3>2
      <4>2. failed /\ mem.failed /\ disk.failed /\ (beat # None => beat.failed)
        BY <2>0, <4>1 DEF Behind
      <4> QED BY <1>0, <2>1, <2>2, <2>3, <2>4, <4>1, <4>2 DEF Behind
    <3> QED BY <3>1, <3>2
  <2>6. loop' = "llm" => gate' \/ queue' = {}
    BY <1>0, <1>2, <2>2 DEF GateInv
  <2> QED BY <1>0, <2>5, <2>6 DEF GateInv, LlmTurn
<1> QED BY <1>1, <1>2

LEMMA GateQuiet ==
    ASSUME TypeInv, GateInv,
           \/ LoopEnds \/ Idle \/ IdleSaved \/ ScanFails \/ Scan \/ FastTrack \/ Annotate
           \/ Quarantine \/ FastTracked \/ Listed \/ BeginTurn
           \/ BeatSnapshot \/ BeatSave \/ CycleDone \/ Reload \/ Wake
           \/ JourneyLog \/ JourneySettle \/ PassRaises
    PROVE  GateInv'
<1>0. mem \in StateType /\ disk \in StateType
  BY DEF TypeInv, TypeOK
<1> USE DEF boot, others, turn
<1>1. CASE LoopEnds
  BY <1>1, GateKept DEF LoopEnds, LlmTurn
<1>2. CASE Idle
  BY <1>2, GateKept DEF Idle, LlmTurn
<1>3. CASE ScanFails
  BY <1>3, GateKept DEF ScanFails, LlmTurn
<1>4. CASE Scan
  BY <1>4, GateKept DEF Scan, LlmTurn
<1>5. CASE FastTrack
  <2>1. mem'.failed = mem.failed /\ (disk' = disk \/ disk'.failed = mem.failed)
    BY <1>0, <1>5, SettleKeeps DEF FastTrack, Persist
  <2>2. pc' \in {"fast", "annotate"} /\ pc = "fast" /\ queue' \subseteq queue
        /\ UNCHANGED <<beat, gate, failed, lost, loop>>
    BY <1>5 DEF FastTrack
  <2> QED BY <2>1, <2>2, GateKept DEF LlmTurn
<1>6. CASE Annotate
  BY <1>6, GateKept DEF Annotate, LlmTurn
<1>7. CASE Quarantine
  <2>1. mem'.failed = mem.failed /\ (disk' = disk \/ disk'.failed = mem.failed)
    BY <1>0, <1>7, SettleKeeps DEF Quarantine, Persist
  <2>2. pc' \in {"fast", "llm"} /\ pc = "quarantine"
        /\ UNCHANGED <<beat, gate, failed, lost, loop, queue>>
    BY <1>7 DEF Quarantine, TypeInv, Looping, Quarantining
  <2> QED BY <2>1, <2>2, GateKept DEF LlmTurn
<1>8. CASE FastTracked
  <2>1. /\ mem' = mem /\ (disk' = disk \/ disk' = mem) /\ pc = "fast"
        /\ pc' \in {"cycled", "list", "llm", "final"} /\ UNCHANGED <<beat, gate, failed, lost>>
    BY <1>8 DEF FastTracked, FastTrackEnds, SaveAndGoto
  <2>2. \/ UNCHANGED <<queue, loop>>
        \/ failed /\ ~gate => queue' = {}
    BY <1>8 DEF FastTracked, FastTrackEnds
  <2>3. loop' = "llm" => \/ loop = "llm" /\ queue' \subseteq queue
                         \/ pc = "fast" /\ (failed /\ ~gate => queue' = {})
    BY <2>1, <2>2
  <2> QED BY <2>1, <2>3, GateKept DEF LlmTurn
<1>9. CASE BeginTurn
  <2>1. /\ mem' = mem /\ (disk' = disk \/ disk' = mem) /\ pc' \in {"journal", "read", "final"}
        /\ pc = "llm" /\ queue # {} /\ queue' \subseteq queue
        /\ UNCHANGED <<beat, gate, failed, lost, loop>>
    BY <1>9 DEF BeginTurn, Persist, More
  <2>2. loop = "llm"
    BY <2>1 DEF TypeInv, Looping
  <2> QED BY <2>1, <2>2, GateKept DEF LlmTurn
<1>10. CASE BeatSnapshot
  BY <1>10, GateKept DEF BeatSnapshot, LlmTurn
<1>11. CASE BeatSave
  <2>1. pc \notin {"off", "boot", "harvest"}
    BY <1>11 DEF BeatSave, GateInv
  <2>2. CASE lost
    BY <1>11, <2>1, <2>2 DEF BeatSave, GateInv
  <2>3. CASE ~lost
    <3>1. Behind => Behind'
      BY <1>11 DEF BeatSave, Behind
    <3> QED BY <1>11, <2>1, <2>3, <3>1 DEF BeatSave, GateInv
  <2> QED BY <2>2, <2>3
<1>12. CASE CycleDone
  BY <1>12, GateKept DEF CycleDone, Persist, LlmTurn
<1>13. CASE Reload
  BY <1>13, GateKept DEF Reload, LlmTurn
<1>14. CASE Wake
  <2>1. CASE lost
    BY <1>14, <2>1 DEF Wake, GateInv
  <2> QED BY <1>14, GateKept DEF Wake, Persist, LlmTurn
<1>15. CASE IdleSaved
  BY <1>15, GateKept DEF IdleSaved, SaveAndGoto, LlmTurn
<1>16. CASE Listed
  <2>1. loop = "llm" /\ queue' \subseteq queue
    BY <1>16 DEF Listed, TypeInv, Looping
  <2> QED BY <1>16, <2>1, GateKept DEF Listed, LlmTurn
<1>17. CASE JourneyLog
  BY <1>17, GateKept DEF JourneyLog, SaveAndGoto, LlmTurn
<1>18. CASE JourneySettle
  <2>1. mem'.failed = mem.failed
    BY <1>0, <1>18, SettleKeeps DEF JourneySettle
  <2>2. /\ pc = "journey" /\ pc' \in {"cycled", "final"} /\ (disk' = disk \/ disk' = mem')
        /\ UNCHANGED <<beat, gate, failed, lost, loop, queue>>
    BY <1>18 DEF JourneySettle, SaveAndGoto
  <2> QED BY <2>1, <2>2, GateKept DEF LlmTurn
<1>19. CASE PassRaises
  BY <1>19, GateKept DEF PassRaises, LlmTurn
<1> QED BY <1>1, <1>2, <1>3, <1>4, <1>5, <1>6, <1>7, <1>8, <1>9, <1>10, <1>11, <1>12, <1>13, <1>14,
           <1>15, <1>16, <1>17, <1>18, <1>19


\* A turn leaves the gate as it is, and ends where the next one begins.
LEMMA GateTurn ==
    ASSUME TypeInv, GateInv,
           \/ ReadJournal \/ StampJournal \/ ReadPage \/ Pipeline \/ Reread \/ Rebase \/ Ask
           \/ Answer \/ Apply \/ Record \/ Post \/ TurnFails \/ Unlockable \/ TurnMalformed
    PROVE  GateInv'
<1>0. mem \in StateType
  BY DEF TypeInv, TypeOK
<1> USE DEF boot, others, turn
<1> DEFINE Turning == pc \in LlmTurn /\ pc' \in LlmTurn \cup {"llm", "annotate"}
           Still == UNCHANGED <<beat, gate, failed, lost, loop, queue>>
           Ledger == /\ mem'.failed = mem.failed
                     /\ disk' = disk \/ disk'.failed = mem.failed
<1>1. ASSUME Turning, Still, Ledger
      PROVE  GateInv'
  BY <1>1, GateKept DEF LlmTurn
<1>2. ASSUME UNCHANGED mem, disk' = disk \/ disk' = mem
      PROVE  Ledger
  BY <1>2
<1>3. ASSUME NEW p, NEW r, Settle(p, r), disk' = disk \/ disk' = mem'
      PROVE  Ledger
  BY <1>0, <1>3, SettleKeeps
<1> HIDE DEF Ledger
<1>4. CASE ReadJournal \/ ReadPage \/ Reread \/ Rebase \/ TurnMalformed
  <2>1. Turning /\ Still /\ UNCHANGED <<mem, disk>>
    BY <1>4 DEF ReadJournal, ReadPage, Reread, Rebase, TurnMalformed, LlmTurn
  <2> QED BY <1>1, <1>2, <2>1
<1>5. CASE Pipeline \/ Ask \/ Answer \/ Post
  <2>1. Turning /\ Still
    BY <1>5 DEF Pipeline, Ask, Answer, Post, Abandon, EndTurn, LlmTurn
  <2>2. UNCHANGED mem /\ (disk' = disk \/ disk' = mem)
    BY <1>5 DEF Pipeline, Ask, Answer, Post, Abandon, Persist
  <2> QED BY <1>1, <1>2, <2>1, <2>2
<1>6. CASE Apply
  <2>1. Turning /\ Still
    BY <1>6 DEF Apply, Abandon, EndTurn, LlmTurn
  <2>2. UNCHANGED mem /\ (disk' = disk \/ disk' = mem)
    BY <1>6 DEF Apply, Abandon, Persist
  <2> QED BY <1>1, <1>2, <2>1, <2>2
<1>7. CASE StampJournal \/ Record
  <2>1. Turning /\ Still
    BY <1>7 DEF StampJournal, Record, EndTurn, LlmTurn
  <2>2. Ledger
    BY <1>3, <1>7 DEF StampJournal, Record, Persist
  <2> QED BY <1>1, <2>1, <2>2
<1>8. CASE TurnFails \/ Unlockable
  <2>1. Turning /\ Still
    BY <1>8 DEF TurnFails, InTurn, Unlockable, EndTurn, LlmTurn
  <2>2. Ledger
    BY <1>2, <1>3, <1>8 DEF TurnFails, Unlockable
  <2> QED BY <1>1, <2>1, <2>2
<1> QED BY <1>4, <1>5, <1>6, <1>7, <1>8

LEMMA GateOthers ==
    ASSUME TypeInv, GateInv,
           \/ Finalize \/ Crash \/ RequestStop \/ Tick
           \/ \E p \in Pages, k \in EditKinds : Edit(p, k)
           \/ \E p \in Pages, k \in Kinds : OwnWrite(p, k)
    PROVE  GateInv'
<1> USE DEF boot, others, turn
<1>1. CASE Finalize \/ Crash
  <2>1. pc' = "off" /\ beat' = None /\ queue' = {}
    BY <1>1 DEF Finalize, Crash, Off
  <2> QED BY <2>1 DEF GateInv, LlmTurn
<1>2. CASE RequestStop
  BY <1>2, GateUntouched DEF RequestStop
<1>3. CASE Tick
  <2>1. mem'.failed = mem.failed /\ disk'.failed = disk.failed
    BY <1>3, UnwaitKeeps DEF Tick, TypeInv, TypeOK
  <2>2. beat' = None \/ (beat # None /\ beat'.failed = beat.failed)
    BY <1>3, UnwaitKeeps DEF Tick, TypeInv, TypeOK
  <2> QED BY <1>3, <2>1, <2>2, GateUntouched DEF Tick
<1>4. ASSUME NEW p \in Pages, NEW k \in Kinds, Edit(p, k) \/ OwnWrite(p, k)
      PROVE  GateInv'
  BY <1>4, GateUntouched DEF Edit, OwnWrite
<1> QED BY <1>1, <1>2, <1>3, <1>4, KindsAssumption

LEMMA GateNext == TypeInv /\ GateInv /\ [Next]_vars => GateInv'
<1> SUFFICES ASSUME TypeInv, GateInv, [Next]_vars PROVE GateInv'
  OBVIOUS
<1>1. CASE Next
  BY <1>1, GateStart, GateHarvest, GateCycle, GateQuiet, GateTurn, GateOthers, Zenon
     DEF Next, MainStep
<1>2. CASE UNCHANGED vars
  BY <1>2 DEF vars, turn, others, boot, GateInv, Behind, LlmTurn
<1> QED BY <1>1, <1>2

\* The LLM is asked only once the bootstrap has succeeded (maintenance_daemon.py:274), whatever
\* the daemon crashes, restarts and fails to save, unless its checkpoint is lost: the failure
\* of the bootstrap is in its memory, on disk and with the heartbeat, and no reload forgets it.
THEOREM LlmGatedSafe == Spec => LlmGated
<1>1. Init => GateInv
  BY DEF Init, GateInv, LlmTurn
<1>2. Spec => [](TypeInv /\ GateInv)
  BY <1>1, InitTyped, NextTyped, GateNext, PTL DEF Spec
<1>3. TypeInv /\ GateInv /\ [Next]_vars => [Asks /\ ~lost => gate]_vars
  BY DEF GateInv, Asks, LlmTurn
<1> QED BY <1>2, <1>3, PTL DEF Spec, LlmGated

-----------------------------------------------------------------------------
(* What the ledgers say of a page is what a turn found in it *)

\* The ledgers there are: in memory, on disk, and the one the heartbeat may be saving.
Ledgers == {mem, disk} \cup (IF beat = None THEN {} ELSE {beat})

\* A record of a page whose file is f, analysed up to revision a: it is not ahead of the file,
\* waits for no lock if it is processed, and is right about the text unless an edit slipped in.
Honest(r, f, a, s) ==
    r # NoRec =>
       /\ r.mtime <= f.mtime
       /\ r.status = "processed" => ~r.wait
       /\ r.mtime = f.mtime /\ f.kind # "absent" /\ ~s =>
             /\ r.status = "processed" => a = f.rev
             /\ r.status = "skipped" => f.kind # "plain" \/ a = f.rev

HonestInv == \A st \in Ledgers, p \in Pages : Honest(st.files[p], file[p], analysed[p], slipped[p])

\* The steps of a turn that hold a baseline to check the page against, and those that hold none.
Guarded == {"pipeline", "reread", "check", "asking", "apply"}
Exposed == {"stamp", "rebase", "record"}

\* What a turn knows of its page: its mtimes are not ahead of the file, and what it read, or
\* quarantines, is what the page holds, unless an edit slipped in or the check will find it.
Unslipped == ~slipped[cur] /\ Exists(cur)
SeenInv ==
    /\ pc \in LlmTurn \cup Quarantining => m0 <= file[cur].mtime
    /\ base # None => pc \in LlmTurn \cup Quarantining /\ base <= file[cur].mtime
    /\ pc \in Quarantining /\ Unslipped => file[cur].kind = "bad" \/ analysed[cur] = file[cur].rev
    /\ pc \in Exposed /\ Unslipped => seen = file[cur].rev
    /\ pc \in Guarded /\ Unslipped /\ ~Conflict => seen = file[cur].rev

\* What a step does to a page: it is written, or judged as before or as its text deserves.
Onward(p) ==
    \/ file'[p].mtime > file[p].mtime
    \/ /\ file'[p] = file[p] /\ (slipped[p] => slipped'[p])
       /\ \/ analysed'[p] = analysed[p] \/ analysed'[p] = file[p].rev
          \/ slipped'[p] \/ file[p].kind = "absent"

\* A record stays honest through such a step.
LEMMA HonestStays ==
    ASSUME NEW f \in FileType, NEW g \in FileType, NEW a, NEW b, NEW s, NEW t,
           NEW r \in RecType \cup {NoRec}, Honest(r, f, a, s),
           \/ g.mtime > f.mtime
           \/ /\ g = f /\ (s => t)
              /\ b = a \/ b = f.rev \/ t \/ f.kind = "absent"
    PROVE  Honest(r, g, b, t)
<1>1. CASE r = NoRec
  BY <1>1 DEF Honest
<1>2. CASE r # NoRec
  <2>1. r.mtime \in Nat /\ f.mtime \in Nat /\ g.mtime \in Nat /\ r.mtime <= f.mtime
        /\ (r.status = "processed" => ~r.wait)
    BY <1>2 DEF RecType, FileType, Honest
  <2>2. CASE g.mtime > f.mtime
    <3>1. r.mtime <= g.mtime /\ r.mtime # g.mtime
      BY <2>1, <2>2
    <3> QED BY <2>1, <3>1, Zenon DEF Honest
  <2>3. CASE /\ g = f /\ (s => t)
             /\ b = a \/ b = f.rev \/ t \/ f.kind = "absent"
    BY <1>2, <2>3, Zenon DEF Honest
  <2> QED BY <2>2, <2>3
<1> QED BY <1>1, <1>2

\* The files and the records of a state of the daemon.
LEMMA LedgerTyped ==
    ASSUME TypeOK, NEW p \in Pages
    PROVE  /\ file[p] \in FileType
           /\ \A st \in Ledgers : st \in StateType /\ st.files[p] \in RecType \cup {NoRec}
BY DEF TypeOK, FileType, Ledgers, StateType, RecType

\* The ledgers stay honest when each of their records was in a ledger before, or is honest.
LEMMA LedgersKept ==
    ASSUME TypeOK, TypeOK', HonestInv, \A p \in Pages : Onward(p),
           \A st \in Ledgers', p \in Pages :
              \/ st.files[p] = NoRec
              \/ \E o \in Ledgers : st.files[p] = o.files[p]
              \/ Honest(st.files[p], file'[p], analysed'[p], slipped'[p])
    PROVE  HonestInv'
<1> SUFFICES ASSUME NEW st \in Ledgers', NEW p \in Pages
             PROVE  Honest(st.files[p], file'[p], analysed'[p], slipped'[p])
  BY DEF HonestInv
<1>1. CASE st.files[p] = NoRec
  BY <1>1 DEF Honest
<1>2. ASSUME NEW o \in Ledgers, st.files[p] = o.files[p]
      PROVE  Honest(st.files[p], file'[p], analysed'[p], slipped'[p])
  <2>1. file[p] \in FileType /\ o.files[p] \in RecType \cup {NoRec}
    BY LedgerTyped
  <2>2. file'[p] \in FileType
    BY DEF TypeOK, FileType
  <2>3. Honest(o.files[p], file[p], analysed[p], slipped[p])
    BY DEF HonestInv
  <2>4. \/ file'[p].mtime > file[p].mtime
        \/ /\ file'[p] = file[p] /\ (slipped[p] => slipped'[p])
           /\ \/ analysed'[p] = analysed[p] \/ analysed'[p] = file[p].rev
              \/ slipped'[p] \/ file[p].kind = "absent"
    BY DEF Onward
  <2>5. Honest(o.files[p], file'[p], analysed'[p], slipped'[p])
    BY <2>1, <2>2, <2>3, <2>4, HonestStays
  <2> QED BY <1>2, <2>5
<1> QED BY <1>1, <1>2

\* So do ledgers that are passed on, pruned, or emptied ...
LEMMA LedgersPassed ==
    ASSUME TypeOK, TypeOK', HonestInv, \A p \in Pages : Onward(p),
           \A p \in Pages : mem'.files[p] \in {NoRec, mem.files[p], disk.files[p]},
           disk' \in Ledgers \cup {mem', FreshState}, beat' \in {None, beat, mem}
    PROVE  HonestInv'
<1>1. mem \in Ledgers /\ disk \in Ledgers
  BY DEF Ledgers
<1>2. \A p \in Pages : FreshState.files[p] = NoRec
  BY DEF FreshState
<1>3. \A st \in Ledgers' : st \in {mem'} \cup Ledgers \cup {FreshState}
  BY <1>1 DEF Ledgers
<1>4. ASSUME NEW st \in Ledgers', NEW p \in Pages
      PROVE  st.files[p] = NoRec \/ \E o \in Ledgers : st.files[p] = o.files[p]
  <2>1. CASE st = mem'
    BY <1>1, <2>1
  <2>2. CASE st \in Ledgers
    BY <2>2
  <2>3. CASE st = FreshState
    BY <1>2, <2>3
  <2> QED BY <1>3, <2>1, <2>2, <2>3
<1> QED BY <1>4, LedgersKept

\* ... and those in which a page is settled honestly.
LEMMA LedgersSettled ==
    ASSUME TypeOK, TypeOK', HonestInv, \A p \in Pages : Onward(p),
           NEW q \in Pages, NEW r, Settle(q, r),
           Honest(r, file'[q], analysed'[q], slipped'[q]),
           disk' \in {disk, mem'}, UNCHANGED beat
    PROVE  HonestInv'
<1>1. mem \in Ledgers /\ disk \in Ledgers
  BY DEF Ledgers
<1>2. \A p \in Pages : mem'.files[p] = IF p = q THEN r ELSE mem.files[p]
  BY DEF Settle, TypeOK, StateType
<1>3. \A st \in Ledgers' : st \in {mem'} \cup Ledgers
  BY <1>1 DEF Ledgers
<1>4. ASSUME NEW st \in Ledgers', NEW p \in Pages
      PROVE  \/ \E o \in Ledgers : st.files[p] = o.files[p]
             \/ Honest(st.files[p], file'[p], analysed'[p], slipped'[p])
  <2>1. CASE st = mem'
    <3>1. CASE p = q
      BY <1>2, <2>1, <3>1
    <3>2. CASE p # q
      BY <1>1, <1>2, <2>1, <3>2
    <3> QED BY <3>1, <3>2
  <2>2. CASE st \in Ledgers
    BY <2>2
  <2> QED BY <1>3, <2>1, <2>2
<1> QED BY <1>4, LedgersKept

\* What is written, and what is not.
LEMMA Written ==
    ASSUME TypeOK, NEW p \in Pages, NEW k \in Kinds, NEW q \in Pages
    PROVE  /\ Write(p, k)[q].rev = file[q].rev
           /\ p # q => Write(p, k)[q] = file[q]
           /\ Write(p, k)[p].mtime = file[p].mtime + 1 /\ Write(p, k)[p].kind = k
BY DEF Write, TypeOK

\* A step that leaves the pages alone, and a step that writes one.
LEMMA OnwardQuiet ==
    ASSUME UNCHANGED <<file, slipped, analysed>>
    PROVE  \A p \in Pages : Onward(p)
BY DEF Onward

LEMMA OnwardWrite ==
    ASSUME TypeOK, NEW p \in Pages, UNCHANGED <<slipped, analysed>>,
           file'[p].mtime = file[p].mtime + 1,
           \A q \in Pages : q # p => file'[q] = file[q]
    PROVE  \A q \in Pages : Onward(q)
<1>1. file'[p].mtime > file[p].mtime
  BY FileTyped
<1> QED BY <1>1 DEF Onward

\* A turn that ends, or has not begun, knows nothing.
LEMMA SeenOut ==
    ASSUME pc' \notin LlmTurn \cup Quarantining, base' = None
    PROVE  SeenInv'
BY DEF SeenInv, LlmTurn, Quarantining, Exposed, Guarded

\* One that goes on with the page it has knows what it knew.
LEMMA SeenSame ==
    ASSUME SeenInv, UNCHANGED <<file, analysed, slipped, cur, m0, base, seen>>,
           pc' \in LlmTurn \cup Quarantining <=> pc \in LlmTurn \cup Quarantining,
           pc' \in Quarantining => pc \in Quarantining,
           pc' \in Exposed => pc \in Exposed,
           pc' \in Guarded => pc \in Guarded
    PROVE  SeenInv'
BY DEF SeenInv, Unslipped, Exists, Conflict, Drifted

LedgerInv == HonestInv /\ SeenInv

\* A step that writes nothing, and settles nothing.
LEMMA LedgerGoesOn ==
    ASSUME TypeInv, TypeInv', LedgerInv,
           UNCHANGED <<file, slipped, analysed, mem, beat>>, disk' \in {disk, mem'}
    PROVE  HonestInv'
BY OnwardQuiet, LedgersPassed DEF LedgerInv, TypeInv, Ledgers

\* Hydrating a state keeps its records.
LEMMA HydrateKeeps ==
    ASSUME NEW state \in StateType, Hydrate(state)
    PROVE  mem'.files = state.files
BY DEF Hydrate, StateType

\* The steps of a daemon that has no page pass its ledgers on ...
LEMMA LedgerStart ==
    ASSUME TypeInv, TypeInv', LedgerInv,
           \/ Start \/ Bootstrap \/ HarvestDone \/ HarvestRaises \/ HarvestMiscounts
           \/ HarvestStopped \/ CycleStart
    PROVE  LedgerInv'
<1> USE DEF boot, others, turn
<1>0. mem \in StateType /\ disk \in StateType
  BY DEF TypeInv, TypeOK
<1>1. UNCHANGED <<file, slipped, analysed, beat, cur, m0, base, seen>>
  BY DEF Start, Bootstrap, HarvestDone, HarvestRaises, HarvestMiscounts, HarvestStopped, CycleStart
<1>2. SeenInv'
  <2>1. pc \notin LlmTurn \cup Quarantining /\ pc' \notin LlmTurn \cup Quarantining
    BY DEF Start, Bootstrap, HarvestDone, HarvestRaises, HarvestMiscounts, HarvestStopped,
           CycleStart, SaveAndGoto, LlmTurn, Quarantining
  <2> QED BY <1>1, <2>1, SeenSame DEF LedgerInv, Exposed, Guarded, LlmTurn, Quarantining
<1>3. \A p \in Pages : mem'.files[p] \in {NoRec, mem.files[p], disk.files[p]}
  <2>1. CASE Start
    BY <1>0, <2>1 DEF Start, StateType
  <2>2. CASE Bootstrap
    BY <1>0, <2>2, HydrateKeeps DEF Bootstrap
  <2>3. CASE HarvestDone
    BY <1>0, <2>3 DEF HarvestDone, StateType
  <2>4. CASE HarvestRaises \/ HarvestMiscounts
    BY <1>0, <2>4 DEF HarvestRaises, HarvestMiscounts, CloseGate, StateType
  <2>5. CASE HarvestStopped
    BY <2>5 DEF HarvestStopped
  <2>6. CASE CycleStart
    <3>1. mem'.files = Prune(mem).files
      BY <1>0, <2>6, PruneTyped, HydrateKeeps DEF CycleStart
    <3> QED BY <1>0, <3>1 DEF Prune, StateType
  <2> QED BY <2>1, <2>2, <2>3, <2>4, <2>5, <2>6
<1>4. disk' \in {disk, mem'}
  BY DEF Start, Bootstrap, HarvestDone, HarvestRaises, HarvestMiscounts, HarvestStopped,
         CycleStart, SaveAndGoto, Persist
<1>5. HonestInv'
  BY <1>1, <1>3, <1>4, OnwardQuiet, LedgersPassed DEF LedgerInv, Ledgers, TypeInv
<1> QED BY <1>2, <1>5 DEF LedgerInv

\* The steps of a cycle that neither have a page nor touch one.
Between == \/ LoopEnds \/ Idle \/ IdleSaved \/ ScanFails \/ Scan \/ FastTracked \/ Listed
           \/ CycleDone \/ PassRaises \/ Reload \/ Wake
Beside == Reset \/ RequestStop \/ BeatSnapshot \/ BeatSave

LEMMA LedgerCycle ==
    ASSUME TypeInv, TypeInv', LedgerInv, Between \/ Finalize \/ Crash \/ Beside
    PROVE  LedgerInv'
<1> USE DEF boot, others, turn
<1>1. UNCHANGED <<file, slipped, analysed>>
  BY DEF Between, LoopEnds, Idle, IdleSaved, ScanFails, Scan, FastTracked, FastTrackEnds, Listed,
         CycleDone, PassRaises, Reload, Wake, Finalize, Crash, Off, Beside, Reset, RequestStop,
         BeatSnapshot, BeatSave
<1>2. SeenInv'
  <2>1. CASE Finalize \/ Crash
    BY <2>1, SeenOut DEF Finalize, Crash, Off, LlmTurn, Quarantining
  <2>2. CASE Between
    <3>1. pc \notin LlmTurn \cup Quarantining /\ pc' \notin LlmTurn \cup Quarantining
          /\ UNCHANGED <<cur, m0, base, seen>>
      BY <2>2 DEF Between, LoopEnds, Idle, IdleSaved, ScanFails, Scan, FastTracked, FastTrackEnds,
                  Listed, CycleDone, PassRaises, Reload, Wake, SaveAndGoto, LlmTurn, Quarantining
    <3> QED BY <1>1, <3>1, SeenSame DEF LedgerInv, Exposed, Guarded, LlmTurn, Quarantining
  <2>3. CASE Beside
    <3>1. UNCHANGED <<pc, cur, m0, base, seen>>
      BY <2>3 DEF Beside, Reset, RequestStop, BeatSnapshot, BeatSave
    <3> QED BY <1>1, <3>1, SeenSame DEF LedgerInv
  <2> QED BY <2>1, <2>2, <2>3
<1>3. \A p \in Pages : mem'.files[p] \in {NoRec, mem.files[p], disk.files[p]}
  <2>1. CASE Finalize \/ Crash
    BY <2>1 DEF Finalize, Crash, Off, FreshState
  <2>2. CASE Between \/ Beside
    <3>1. mem' = mem \/ mem' = disk
      BY <2>2 DEF Between, LoopEnds, Idle, IdleSaved, ScanFails, Scan, FastTracked, FastTrackEnds,
                  Listed, CycleDone, PassRaises, Reload, Wake, Beside, Reset, RequestStop,
                  BeatSnapshot, BeatSave
    <3> QED BY <3>1
  <2> QED BY <2>1, <2>2
<1>4. mem \in Ledgers /\ disk \in Ledgers /\ (beat # None => beat \in Ledgers)
  BY DEF Ledgers
<1>5. disk' \in Ledgers \cup {mem', FreshState}
  BY <1>4 DEF Between, LoopEnds, Idle, IdleSaved, ScanFails, Scan, FastTracked, FastTrackEnds, Listed,
              CycleDone, PassRaises, Reload, Wake, Finalize, Crash, Beside, Reset, RequestStop,
              BeatSnapshot, BeatSave, SaveAndGoto, Persist
<1>6. beat' \in {None, beat, mem}
  BY DEF Between, LoopEnds, Idle, IdleSaved, ScanFails, Scan, FastTracked, FastTrackEnds, Listed,
         CycleDone, PassRaises, Reload, Wake, Finalize, Crash, Off, Beside, Reset, RequestStop,
         BeatSnapshot, BeatSave
<1>7. HonestInv'
  BY <1>1, <1>3, <1>5, <1>6, OnwardQuiet, LedgersPassed DEF LedgerInv, TypeInv
<1> QED BY <1>2, <1>7 DEF LedgerInv

\* ... the journal of the day is written without a turn, and settled as slipped if its text
\* was not analysed ...
LEMMA LedgerJourney ==
    ASSUME TypeInv, TypeInv', LedgerInv, JourneyLog \/ JourneySettle
    PROVE  LedgerInv'
<1> USE DEF boot, others, turn
<1>0. /\ TypeOK /\ TypeOK' /\ HonestInv /\ SeenInv
      /\ Today \in Pages /\ file[Today].mtime \in Nat
  BY PagesAssumption, FileTyped DEF TypeInv, LedgerInv
<1>1. /\ pc \notin LlmTurn \cup Quarantining /\ pc' \notin LlmTurn \cup Quarantining
      /\ UNCHANGED <<beat, base, analysed>> /\ disk' \in {disk, mem'}
  BY DEF JourneyLog, JourneySettle, SaveAndGoto, LlmTurn, Quarantining
<1>2. SeenInv'
  BY <1>0, <1>1, SeenOut DEF SeenInv
<1>3. CASE JourneyLog
  <2>1. UNCHANGED <<mem, slipped>>
    BY <1>3 DEF JourneyLog
  <2>2. CASE UNCHANGED file
    BY <1>1, <1>2, <2>1, <2>2, LedgerGoesOn DEF LedgerInv
  <2>3. CASE file' = Write(Today, IF file[Today].kind \in {"absent", "empty"} THEN "plain"
                                  ELSE file[Today].kind)
    <3> DEFINE k == IF file[Today].kind \in {"absent", "empty"} THEN "plain" ELSE file[Today].kind
    <3>1. k \in Kinds
      BY <1>0, FileTyped DEF Kinds
    <3>2. file' = Write(Today, k)
      BY <2>3
    <3> HIDE DEF k
    <3>3. /\ file'[Today].mtime = file[Today].mtime + 1
          /\ \A q \in Pages : q # Today => file'[q] = file[q]
      BY <1>0, <3>1, <3>2, Written
    <3>4. HonestInv'
      BY <1>0, <1>1, <2>1, <3>3, OnwardWrite, LedgersPassed DEF Ledgers
    <3> QED BY <1>2, <3>4 DEF LedgerInv
  <2> QED BY <1>3, <2>2, <2>3 DEF JourneyLog
<1>4. CASE JourneySettle
  <2>1. UNCHANGED file
    BY <1>4 DEF JourneySettle
  <2>2. CASE ~Exists(Today)
    BY <1>1, <1>2, <1>4, <2>1, <2>2, LedgerGoesOn DEF JourneySettle, LedgerInv
  <2>3. CASE Exists(Today)
    <3>1. /\ Settle(Today, Rec("skipped", file[Today].mtime))
          /\ slipped' = [slipped EXCEPT ![Today] = @ \/ analysed[Today] # file[Today].rev]
      BY <1>4, <2>3 DEF JourneySettle
    <3>2. /\ slipped'[Today] = (slipped[Today] \/ analysed[Today] # file[Today].rev)
          /\ \A q \in Pages : q # Today => slipped'[q] = slipped[q]
      BY <1>0, <3>1 DEF TypeOK
    <3>3. \A p \in Pages : Onward(p)
      BY <1>1, <2>1, <3>2 DEF Onward
    <3>4. Honest(Rec("skipped", file[Today].mtime), file'[Today], analysed'[Today], slipped'[Today])
      <4> DEFINE r == Rec("skipped", file[Today].mtime)
      <4>1. r.mtime = file[Today].mtime /\ r.status = "skipped" /\ r.mtime <= file[Today].mtime
        BY <1>0 DEF Rec
      <4> HIDE DEF r
      <4>2. Honest(r, file[Today], analysed[Today], slipped'[Today])
        BY <3>2, <4>1, Zenon DEF Honest
      <4> QED BY <1>1, <2>1, <4>2 DEF r
    <3>5. HonestInv'
      BY <1>0, <1>1, <3>1, <3>3, <3>4, LedgersSettled
    <3> QED BY <1>2, <3>5 DEF LedgerInv
  <2> QED BY <2>2, <2>3
<1> QED BY <1>3, <1>4

\* ... time ends the waits of records, not what they say ...
LEMMA LedgerTick ==
    ASSUME TypeInv, TypeInv', LedgerInv, Tick
    PROVE  LedgerInv'
<1>1. UNCHANGED <<file, slipped, analysed, pc, cur, m0, base, seen>>
  BY DEF Tick, others, turn
<1>2. \A st \in Ledgers' : \E o \in Ledgers : st = Unwait(o)
  BY DEF Tick, Ledgers
<1>3. ASSUME NEW st \in Ledgers', NEW p \in Pages
      PROVE  \/ st.files[p] = NoRec
             \/ Honest(st.files[p], file'[p], analysed'[p], slipped'[p])
  <2>1. PICK o \in Ledgers : st = Unwait(o)
    BY <1>2
  <2>2. o.files[p] \in RecType \cup {NoRec} /\ o \in StateType
    BY LedgerTyped DEF TypeInv
  <2>3. Honest(o.files[p], file[p], analysed[p], slipped[p])
    BY DEF LedgerInv, HonestInv
  <2>4. st.files[p] = IF o.files[p] # NoRec THEN [o.files[p] EXCEPT !.wait = FALSE] ELSE NoRec
    BY <2>1, <2>2 DEF Unwait, StateType
  <2>5. CASE o.files[p] # NoRec
    <3> DEFINE r == [o.files[p] EXCEPT !.wait = FALSE]
    <3>1. r.mtime = o.files[p].mtime /\ r.status = o.files[p].status /\ r.wait = FALSE
      BY <2>2, <2>5 DEF RecType
    <3> HIDE DEF r
    <3>2. Honest(r, file[p], analysed[p], slipped[p])
      BY <2>3, <2>5, <3>1 DEF Honest
    <3> QED BY <1>1, <2>4, <2>5, <3>2 DEF r
  <2> QED BY <2>4, <2>5
<1>4. HonestInv'
  BY <1>1, <1>3, OnwardQuiet, LedgersKept DEF LedgerInv, TypeInv
<1>5. SeenInv'
  BY <1>1, SeenSame DEF LedgerInv
<1> QED BY <1>4, <1>5 DEF LedgerInv

\* What is revised, and what is not.
LEMMA Revised ==
    ASSUME TypeOK, NEW q \in Pages, NEW k, file' = Revise(q, k)
    PROVE  /\ file'[q].mtime = file[q].mtime + 1 /\ file'[q].rev = file[q].rev + 1
           /\ \A p \in Pages : p # q => file'[p] = file[p]
BY DEF Revise, TypeOK

\* ... and the edit of a page is not in them: it is in a window, or the turn will find it, or
\* it is of another page.
LEMMA LedgerEdit ==
    ASSUME TypeInv, TypeInv', LedgerInv, NEW q \in Pages, NEW k \in Kinds,
           Edit(q, k) \/ OwnWrite(q, k)
    PROVE  LedgerInv'
<1>1. UNCHANGED <<mem, disk, beat, analysed, pc, cur, m0, base, seen>>
  BY DEF Edit, OwnWrite, turn
<1>2. /\ file'[q].mtime = file[q].mtime + 1
      /\ \A p \in Pages : p # q => file'[p] = file[p] /\ slipped'[p] = slipped[p]
      /\ cur = q => slipped'[q] = InWindow(q)
  <2>1. file' = Revise(q, k)
    BY DEF Edit, OwnWrite
  <2>2. /\ \A p \in Pages : p # q => slipped'[p] = slipped[p]
        /\ cur = q => slipped'[q] = InWindow(q)
    BY DEF Edit, OwnWrite, TypeInv, TypeOK
  <2> QED BY <2>1, <2>2, Revised DEF TypeInv
<1>3. file[q].mtime \in Nat /\ file'[q].mtime > file[q].mtime
  BY <1>2, FileTyped DEF TypeInv
<1>4. \A p \in Pages : Onward(p)
  BY <1>1, <1>2, <1>3 DEF Onward
<1>5. HonestInv'
  BY <1>1, <1>4, LedgersPassed DEF LedgerInv, Ledgers, TypeInv
<1>6. SeenInv'
  <2>1. CASE pc \notin LlmTurn \cup Quarantining
    BY <1>1, <2>1 DEF LedgerInv, SeenInv, Exposed, Guarded, LlmTurn, Quarantining
  <2>2. CASE pc \in LlmTurn \cup Quarantining /\ cur # q
    <3>1. cur \in Pages /\ file'[cur] = file[cur] /\ slipped'[cur] = slipped[cur]
      BY <1>2, <2>2 DEF TypeInv, Seated
    <3> QED BY <1>1, <2>2, <3>1 DEF LedgerInv, SeenInv, Unslipped, Exists, Conflict, Drifted
  <2>3. CASE pc \in LlmTurn \cup Quarantining /\ cur = q
    <3>1. m0 \in Nat /\ m0 <= file[q].mtime /\ (base # None => base \in Nat /\ base <= file[q].mtime)
      BY <2>3 DEF LedgerInv, SeenInv, TypeInv, TypeOK, Seated
    <3>2. m0 <= file'[q].mtime /\ (base # None => base <= file'[q].mtime /\ base # file'[q].mtime)
      BY <1>3, <3>1, <1>2
    <3>3. base # None => Conflict'
      BY <1>1, <2>3, <3>2 DEF Conflict, Drifted
    <3>4. pc \in Quarantining \cup Exposed => slipped'[q]
      BY <1>2, <2>3 DEF InWindow, Quarantining, Exposed
    <3>5. pc \in Guarded /\ base = None => slipped'[q]
      BY <1>2, <2>3 DEF InWindow, Guarded
    <3> QED BY <1>1, <2>3, <3>2, <3>3, <3>4, <3>5 DEF SeenInv, Unslipped
  <2> QED BY <2>1, <2>2, <2>3
<1> QED BY <1>5, <1>6 DEF LedgerInv

\* A page is skipped for what it holds, or for what the turn found in it.
LEMMA LedgerFast ==
    ASSUME TypeInv, TypeInv', LedgerInv, FastTrack \/ Annotate \/ Quarantine
    PROVE  LedgerInv'
<1> USE DEF boot, others, turn
<1>0. /\ TypeOK /\ TypeOK' /\ HonestInv /\ SeenInv
      /\ \A p \in Pages : file[p].mtime \in Nat
  BY FileTyped DEF TypeInv, LedgerInv
<1>1. CASE FastTrack
  <2>1. Head \in Pages /\ pc = "fast"
    BY <1>0, <1>1, LeastIn, PagesAssumption DEF FastTrack, More, Head, TypeOK
  <2> DEFINE p == Head
  <2>2. p \in Pages /\ base = None
    BY <1>0, <2>1 DEF SeenInv, LlmTurn, Quarantining
  <2> HIDE DEF p
  <2>3. UNCHANGED <<file, slipped, analysed, beat, base, seen>>
    BY <1>1 DEF FastTrack
  <2>4. CASE /\ file[p].kind = "bad" /\ cur' = p /\ m0' = file[p].mtime /\ pc' = "annotate"
             /\ UNCHANGED <<mem, disk>>
    <3>1. HonestInv'
      BY <1>0, <2>3, <2>4, OnwardQuiet, LedgersPassed DEF Ledgers
    <3>2. SeenInv'
      BY <1>0, <2>2, <2>3, <2>4 DEF SeenInv, LlmTurn, Quarantining, Exposed, Guarded
    <3> QED BY <3>1, <3>2 DEF LedgerInv
  <2>5. CASE /\ SkippedAsIs(p) /\ Settle(p, Rec("skipped", file[p].mtime)) /\ Persist
             /\ UNCHANGED <<cur, m0, pc>>
    <3>1. Honest(Rec("skipped", file[p].mtime), file'[p], analysed'[p], slipped'[p])
      BY <1>0, <2>2, <2>3, <2>5 DEF Honest, Rec, SkippedAsIs
    <3>2. disk' \in {disk, mem'}
      BY <2>5 DEF Persist
    <3>3. HonestInv'
      BY <1>0, <2>2, <2>3, <2>5, <3>1, <3>2, OnwardQuiet, LedgersSettled
    <3>4. SeenInv'
      BY <1>0, <2>3, <2>5, SeenSame
    <3> QED BY <3>3, <3>4 DEF LedgerInv
  <2>6. CASE UNCHANGED <<mem, disk, cur, m0, pc>>
    <3>1. HonestInv'
      BY <1>0, <2>3, <2>6, OnwardQuiet, LedgersPassed DEF Ledgers
    <3>2. SeenInv'
      BY <1>0, <2>3, <2>6, SeenSame
    <3> QED BY <3>1, <3>2 DEF LedgerInv
  <2> QED BY <1>1, <2>4, <2>5, <2>6 DEF FastTrack, p
<1>2. CASE Annotate
  <2>1. /\ cur \in Pages /\ pc = "annotate" /\ pc' = "quarantine"
        /\ UNCHANGED <<mem, disk, beat, slipped, analysed, cur, m0, base, seen>>
    BY <1>2 DEF Annotate, TypeInv, Seated, Quarantining
  <2>2. CASE UNCHANGED file
    <3>1. HonestInv'
      BY <1>0, <2>1, <2>2, OnwardQuiet, LedgersPassed DEF Ledgers
    <3>2. SeenInv'
      BY <1>0, <2>1, <2>2, SeenSame DEF Exposed, Guarded, LlmTurn, Quarantining
    <3> QED BY <3>1, <3>2 DEF LedgerInv
  <2>3. CASE file' = Write(cur, "bad")
    <3>1. /\ file'[cur].mtime = file[cur].mtime + 1 /\ file'[cur].kind = "bad"
          /\ \A q \in Pages : q # cur => file'[q] = file[q]
      BY <1>0, <2>1, <2>3, Written DEF Kinds
    <3>2. HonestInv'
      BY <1>0, <2>1, <3>1, OnwardWrite, LedgersPassed DEF Ledgers
    <3>3. m0 <= file'[cur].mtime /\ (base # None => base <= file'[cur].mtime)
      <4>1. m0 \in Nat /\ m0 <= file[cur].mtime /\ (base # None => base \in Nat /\ base <= file[cur].mtime)
        BY <1>0, <2>1 DEF SeenInv, TypeInv, TypeOK, Seated, Quarantining
      <4> QED BY <1>0, <2>1, <3>1, <4>1
    <3>4. SeenInv'
      BY <2>1, <3>1, <3>3 DEF SeenInv, Quarantining, Exposed, Guarded
    <3> QED BY <3>2, <3>4 DEF LedgerInv
  <2> QED BY <1>2, <2>2, <2>3 DEF Annotate
<1>3. CASE Quarantine
  <2>1. /\ cur \in Pages /\ m0 \in Nat /\ pc = "quarantine" /\ m0 <= file[cur].mtime
        /\ UNCHANGED <<file, slipped, analysed, beat>>
    BY <1>0, <1>3 DEF Quarantine, TypeInv, Seated, Quarantining, SeenInv
  <2> DEFINE m == IF Exists(cur) THEN file[cur].mtime ELSE m0
  <2>2. Settle(cur, Rec("skipped", m)) /\ disk' \in {disk, mem'}
    BY <1>3 DEF Quarantine, Persist
  <2>3. Honest(Rec("skipped", m), file[cur], analysed[cur], slipped[cur])
    <3>1. m <= file[cur].mtime
      BY <1>0, <2>1
    <3>2. Unslipped => file[cur].kind = "bad" \/ analysed[cur] = file[cur].rev
      BY <1>0, <2>1 DEF SeenInv, Quarantining
    <3> HIDE DEF m
    <3> QED BY <3>1, <3>2 DEF Honest, Rec, Unslipped, Exists
  <2> HIDE DEF m
  <2>4. HonestInv'
    BY <1>0, <2>1, <2>2, <2>3, OnwardQuiet, LedgersSettled
  <2>5. SeenInv'
    <3>1. pc' \in {"fast", "llm"} /\ base' = None
      BY <1>3 DEF Quarantine, TypeInv, Looping, Quarantining
    <3> QED BY <3>1, SeenOut DEF LlmTurn, Quarantining
  <2> QED BY <2>4, <2>5 DEF LedgerInv
<1> QED BY <1>1, <1>2, <1>3

\* A page that failed, or whose lock was not to be had, is recorded so, which says nothing of
\* its text.
LEMMA FailedHonest ==
    ASSUME TypeInv, SeenInv, pc \in LlmTurn, NEW s \in {"error", "lock_backoff"}, NEW a, NEW b
    PROVE  Honest(Rec(s, m0), file[cur], a, b)
BY DEF SeenInv, Honest, Rec

\* A turn that ends by saving its ledger, or not.
LEMMA LedgerAbandoned ==
    ASSUME TypeInv, TypeInv', LedgerInv, NEW called, EndTurn(called),
           UNCHANGED <<file, slipped, analysed, mem, beat>>, disk' \in {disk, mem'}
    PROVE  LedgerInv'
<1>1. SeenInv'
  BY SeenOut DEF EndTurn, LlmTurn, Quarantining
<1>2. HonestInv'
  BY OnwardQuiet, LedgersPassed DEF LedgerInv, TypeInv, Ledgers
<1> QED BY <1>1, <1>2 DEF LedgerInv

\* One that settles its page as failed.
LEMMA LedgerFailed ==
    ASSUME TypeInv, TypeInv', LedgerInv, pc \in LlmTurn, NEW called, EndTurn(called),
           NEW s \in {"error", "lock_backoff"}, Settle(cur, Rec(s, m0)),
           UNCHANGED <<file, slipped, analysed, beat>>, disk' \in {disk, mem'}
    PROVE  LedgerInv'
<1>1. SeenInv'
  BY SeenOut DEF EndTurn, LlmTurn, Quarantining
<1>2. cur \in Pages
  BY DEF TypeInv, Seated
<1>3. Honest(Rec(s, m0), file'[cur], analysed'[cur], slipped'[cur])
  BY FailedHonest DEF LedgerInv
<1>4. HonestInv'
  BY <1>2, <1>3, OnwardQuiet, LedgersSettled DEF LedgerInv, TypeInv
<1> QED BY <1>1, <1>4 DEF LedgerInv

\* One that records the page as processed: what it read is what the page holds.
LEMMA LedgerProcessed ==
    ASSUME TypeInv, TypeInv', LedgerInv, pc \in Exposed, Exists(cur),
           Settle(cur, Rec("processed", file[cur].mtime)),
           analysed' = [analysed EXCEPT ![cur] = seen],
           UNCHANGED <<file, slipped, beat>>, disk' \in {disk, mem'}
    PROVE  HonestInv'
<1>1. cur \in Pages /\ analysed' \in [Pages -> Nat] /\ analysed \in [Pages -> Nat]
  BY DEF TypeInv, TypeOK, Seated, Exposed, LlmTurn
<1>2. ~slipped[cur] => seen = file[cur].rev
  BY DEF LedgerInv, SeenInv, Unslipped
<1>3. \A p \in Pages : Onward(p)
  BY <1>1, <1>2 DEF Onward
<1>4. file[cur].mtime \in Nat
  BY <1>1, FileTyped DEF TypeInv
<1>5. Honest(Rec("processed", file[cur].mtime), file'[cur], analysed'[cur], slipped'[cur])
  <2>1. /\ file'[cur] = file[cur] /\ analysed'[cur] = seen /\ slipped'[cur] = slipped[cur]
        /\ file[cur].mtime <= file[cur].mtime
    BY <1>1, <1>4
  <2> DEFINE r == Rec("processed", file[cur].mtime)
  <2>2. r.mtime = file[cur].mtime /\ r.status = "processed" /\ r.wait = FALSE
    BY DEF Rec
  <2> HIDE DEF r
  <2>3. Honest(r, file[cur], seen, slipped[cur])
    BY <1>2, <2>1, <2>2, Zenon DEF Honest
  <2> QED BY <2>1, <2>3 DEF r
<1> QED BY <1>1, <1>3, <1>5, LedgersSettled DEF LedgerInv, TypeInv

LEMMA LedgerTurn ==
    ASSUME TypeInv, TypeInv', LedgerInv,
           \/ BeginTurn \/ ReadJournal \/ StampJournal \/ ReadPage \/ Reread \/ Rebase \/ Ask
           \/ Answer \/ Record \/ Post \/ TurnFails \/ Unlockable
    PROVE  LedgerInv'
<1> USE DEF boot, others, turn
<1>0. SeenInv /\ \A p \in Pages : file[p].mtime \in Nat
  BY FileTyped DEF TypeInv, LedgerInv
<1>1. CASE BeginTurn
  <2>1. HonestInv'
    BY <1>1, LedgerGoesOn DEF BeginTurn, Persist
  <2>2. base' = None
    BY <1>0, <1>1 DEF BeginTurn, SeenInv, LlmTurn, Quarantining
  <2>3. \/ pc' \in {"journal", "read"} /\ cur' \in Pages /\ m0' = file'[cur'].mtime
        \/ pc' = "final"
    <3>1. Head \in Pages
      BY <1>1, LeastIn, PagesAssumption DEF BeginTurn, More, Head, TypeInv, TypeOK
    <3> QED BY <1>1, <3>1 DEF BeginTurn
  <2>4. SeenInv'
    <3>1. CASE pc' = "final"
      BY <2>2, <3>1, SeenOut DEF LlmTurn, Quarantining
    <3>2. CASE pc' \in {"journal", "read"} /\ cur' \in Pages /\ m0' = file'[cur'].mtime
      <4>1. file'[cur'].mtime \in Nat
        BY <1>0, <1>1, <3>2 DEF BeginTurn
      <4> QED BY <2>2, <3>2, <4>1 DEF SeenInv, Quarantining, Exposed, Guarded
    <3> QED BY <2>3, <3>1, <3>2
  <2> QED BY <2>1, <2>4 DEF LedgerInv
<1>2. CASE ReadJournal
  <2>1. HonestInv'
    BY <1>2, LedgerGoesOn DEF ReadJournal
  <2>2. SeenInv'
    BY <1>0, <1>2 DEF ReadJournal, SeenInv, Unslipped, Exists, LlmTurn, Quarantining, Exposed, Guarded
  <2> QED BY <2>1, <2>2 DEF LedgerInv
<1>3. CASE StampJournal
  <2>1. CASE Exists(cur)
    <3>1. HonestInv'
      BY <1>3, <2>1, LedgerProcessed DEF StampJournal, Persist, Exposed
    <3>2. SeenInv'
      BY <1>3, SeenOut DEF StampJournal, EndTurn, LlmTurn, Quarantining
    <3> QED BY <3>1, <3>2 DEF LedgerInv
  <2>2. CASE ~Exists(cur)
    BY <1>3, <2>2, LedgerFailed DEF StampJournal, Persist, LlmTurn
  <2> QED BY <2>1, <2>2
<1>4. CASE ReadPage
  <2>1. HonestInv'
    BY <1>4, LedgerGoesOn DEF ReadPage
  <2>2. /\ cur \in Pages /\ pc = "read" /\ pc' \in {"pipeline", "check"}
        /\ UNCHANGED <<file, slipped, analysed, cur, m0>>
        /\ base' = IF Exists(cur) THEN file[cur].mtime ELSE None
        /\ seen' = IF Exists(cur) THEN file[cur].rev ELSE 0
    BY <1>4 DEF ReadPage, TypeInv, Seated, LlmTurn
  <2>3. SeenInv'
    BY <1>0, <2>2 DEF SeenInv, Unslipped, Exists, LlmTurn, Quarantining, Exposed, Guarded
  <2> QED BY <2>1, <2>3 DEF LedgerInv
<1>5. CASE Reread
  <2>1. HonestInv'
    BY <1>5, LedgerGoesOn DEF Reread
  <2>2. /\ pc = "reread" /\ UNCHANGED <<file, slipped, analysed, cur, m0, base>>
        /\ IF Exists(cur) THEN seen' = file[cur].rev /\ pc' = "rebase"
                          ELSE pc' = "check" /\ seen' = seen
    BY <1>5 DEF Reread
  <2>3. SeenInv'
    BY <1>0, <2>2 DEF SeenInv, Unslipped, Exists, LlmTurn, Quarantining, Exposed, Guarded
  <2> QED BY <2>1, <2>3 DEF LedgerInv
<1>6. CASE Rebase
  <2>1. HonestInv'
    BY <1>6, LedgerGoesOn DEF Rebase
  <2>2. /\ cur \in Pages /\ pc = "rebase" /\ pc' = "check"
        /\ UNCHANGED <<file, slipped, analysed, cur, m0, seen>>
        /\ base' = IF Exists(cur) THEN file[cur].mtime ELSE base
    BY <1>6 DEF Rebase, TypeInv, Seated, LlmTurn
  <2>3. SeenInv'
    BY <1>0, <2>2 DEF SeenInv, Unslipped, Exists, LlmTurn, Quarantining, Exposed, Guarded
  <2> QED BY <2>1, <2>3 DEF LedgerInv
<1>7. CASE Ask
  <2>1. CASE Conflict
    BY <1>7, <2>1, LedgerAbandoned DEF Ask, Abandon, Persist
  <2>2. CASE ~Conflict
    <3>1. HonestInv'
      BY <1>7, <2>2, LedgerGoesOn DEF Ask
    <3>2. SeenInv'
      BY <1>0, <1>7, <2>2, SeenSame DEF Ask, LlmTurn, Quarantining, Exposed, Guarded
    <3> QED BY <3>1, <3>2 DEF LedgerInv
  <2> QED BY <2>1, <2>2
<1>8. CASE Answer
  <2>1. CASE Conflict
    BY <1>8, <2>1, LedgerAbandoned DEF Answer
  <2>2. CASE ~Conflict
    <3>1. HonestInv'
      BY <1>8, <2>2, LedgerGoesOn DEF Answer
    <3>2. SeenInv'
      BY <1>0, <1>8, <2>2, SeenSame DEF Answer, LlmTurn, Quarantining, Exposed, Guarded
    <3> QED BY <3>1, <3>2 DEF LedgerInv
  <2> QED BY <2>1, <2>2
<1>9. CASE Record
  <2>1. CASE Exists(cur)
    <3>1. HonestInv'
      BY <1>9, <2>1, LedgerProcessed DEF Record, Exposed
    <3>2. /\ pc = "record" /\ pc' = "post" /\ UNCHANGED <<file, slipped, cur, m0, base>>
      BY <1>9, <2>1 DEF Record
    <3>3. SeenInv'
      BY <1>0, <3>2 DEF SeenInv, LlmTurn, Quarantining, Exposed, Guarded
    <3> QED BY <3>1, <3>3 DEF LedgerInv
  <2>2. CASE ~Exists(cur)
    BY <1>9, <2>2, LedgerFailed DEF Record, Persist, LlmTurn
  <2> QED BY <2>1, <2>2
<1>10. CASE Post
  BY <1>10, LedgerAbandoned DEF Post, Persist
<1>11. CASE TurnFails
  <2>1. PICK called \in {0, 1} : EndTurn(called)
    BY <1>11 DEF TurnFails
  <2>2. pc \in LlmTurn
    BY <1>11 DEF TurnFails, InTurn, LlmTurn
  <2> QED BY <1>11, <2>1, <2>2, LedgerFailed DEF TurnFails
<1>12. CASE Unlockable
  <2>1. PICK called \in {0, 1} : EndTurn(called)
    BY <1>12 DEF Unlockable
  <2>2. pc \in LlmTurn /\ UNCHANGED <<file, slipped, analysed, beat>> /\ disk' = mem'
    BY <1>12 DEF Unlockable, LlmTurn
  <2>3. UNCHANGED mem \/ Settle(cur, Rec("lock_backoff", m0))
    BY <1>12 DEF Unlockable
  <2> QED BY <2>1, <2>2, <2>3, LedgerFailed, LedgerAbandoned
<1> QED BY <1>1, <1>2, <1>3, <1>4, <1>5, <1>6, <1>7, <1>8, <1>9, <1>10, <1>11, <1>12

\* What a turn writes it checks against its baseline first, or finds drifted afterwards.
LEMMA LedgerWrites ==
    ASSUME TypeInv, TypeInv', LedgerInv, Pipeline \/ Apply \/ TurnMalformed
    PROVE  LedgerInv'
<1> USE DEF boot, others, turn
<1>0. /\ TypeOK /\ TypeOK' /\ HonestInv /\ SeenInv
      /\ cur \in Pages /\ m0 \in Nat /\ m0 <= file[cur].mtime
      /\ base # None => base \in Nat /\ base <= file[cur].mtime
      /\ file[cur].mtime \in Nat
  <2>1. pc \in LlmTurn /\ cur \in Pages /\ m0 \in Nat
    BY DEF Pipeline, Apply, TurnMalformed, TypeInv, Seated, LlmTurn
  <2> QED BY <2>1, FileTyped DEF LedgerInv, SeenInv, TypeInv, TypeOK
<1>1. CASE Pipeline
  <2>1. /\ pc = "pipeline" /\ pc' = "reread" /\ disk' \in {disk, mem'}
        /\ UNCHANGED <<mem, beat, slipped, analysed, cur, m0, base, seen>>
    BY <1>1 DEF Pipeline, Persist
  <2>2. CASE UNCHANGED file
    <3>1. HonestInv'
      BY <2>1, <2>2, LedgerGoesOn
    <3>2. SeenInv'
      BY <1>0, <2>1, <2>2, SeenSame DEF LlmTurn, Quarantining, Exposed, Guarded
    <3> QED BY <3>1, <3>2 DEF LedgerInv
  <2>3. CASE Exists(cur) /\ file' = [Write(cur, file[cur].kind) EXCEPT ![cur].tidy = TRUE]
    <3>1. /\ file'[cur].mtime = file[cur].mtime + 1 /\ file'[cur].rev = file[cur].rev
          /\ file'[cur].kind = file[cur].kind
          /\ \A q \in Pages : q # cur => file'[q] = file[q]
      <4> DEFINE w == Write(cur, file[cur].kind)
      <4>1. file[cur].kind \in Kinds /\ w \in [Pages -> FileType]
        BY <1>0, FileTyped, WriteTyped
      <4>2. /\ w[cur].mtime = file[cur].mtime + 1 /\ w[cur].rev = file[cur].rev
            /\ w[cur].kind = file[cur].kind
            /\ \A q \in Pages : q # cur => w[q] = file[q]
        BY <1>0, <4>1, Written
      <4>3. file' = [w EXCEPT ![cur].tidy = TRUE]
        BY <2>3
      <4> HIDE DEF w
      <4> QED BY <1>0, <4>1, <4>2, <4>3 DEF FileType
    <3>2. HonestInv'
      BY <1>0, <2>1, <3>1, OnwardWrite, LedgersPassed DEF Ledgers
    <3>3. /\ m0 <= file'[cur].mtime
          /\ base # None => base <= file'[cur].mtime /\ base # file'[cur].mtime
      BY <1>0, <3>1
    <3>4. Unslipped' /\ base = None => seen = file[cur].rev
      BY <1>0, <2>1, <3>1 DEF SeenInv, Unslipped, Exists, Conflict, Guarded
    <3>5. SeenInv'
      BY <2>1, <3>1, <3>3, <3>4 DEF SeenInv, Conflict, Drifted, LlmTurn, Quarantining, Exposed, Guarded
    <3> QED BY <3>2, <3>5 DEF LedgerInv
  <2> QED BY <1>1, <2>2, <2>3 DEF Pipeline
<1>2. CASE Apply
  <2>1. CASE Abandon(1) /\ UNCHANGED file
    BY <1>2, <2>1, LedgerAbandoned DEF Apply, Abandon, Persist
  <2>2. CASE /\ ~Conflict
             /\ file' = IF file[cur].kind \in {"absent", "empty"} THEN file ELSE Write(cur, "indexed")
             /\ pc' = "record" /\ UNCHANGED <<mem, disk, unsaved, budget, turn, faults>>
    <3>0. pc = "apply" /\ UNCHANGED <<beat, slipped, analysed>>
      BY <1>2 DEF Apply
    <3>1. Unslipped => seen = file[cur].rev
      BY <1>0, <2>2, <3>0 DEF SeenInv, Guarded
    <3>2. CASE UNCHANGED file
      <4>1. HonestInv'
        BY <2>2, <3>0, <3>2, LedgerGoesOn
      <4>2. SeenInv'
        BY <1>0, <2>2, <3>0, <3>1, <3>2
           DEF SeenInv, Unslipped, Exists, LlmTurn, Quarantining, Exposed, Guarded
      <4> QED BY <4>1, <4>2 DEF LedgerInv
    <3>3. CASE Exists(cur) /\ file' = Write(cur, "indexed")
      <4>1. /\ file'[cur].mtime = file[cur].mtime + 1 /\ file'[cur].rev = file[cur].rev
            /\ \A q \in Pages : q # cur => file'[q] = file[q]
        BY <1>0, <3>3, Written DEF Kinds
      <4>2. HonestInv'
        BY <1>0, <2>2, <3>0, <4>1, OnwardWrite, LedgersPassed DEF Ledgers
      <4>3. m0 <= file'[cur].mtime /\ (base # None => base <= file'[cur].mtime)
        BY <1>0, <4>1
      <4>4. Unslipped' => seen = file[cur].rev
        BY <2>2, <3>0, <3>1, <3>3 DEF Unslipped
      <4>5. SeenInv'
        BY <2>2, <4>1, <4>3, <4>4 DEF SeenInv, LlmTurn, Quarantining, Exposed, Guarded
      <4> QED BY <4>2, <4>5 DEF LedgerInv
    <3> QED BY <2>2, <3>2, <3>3 DEF Exists
  <2>3. CASE Fault /\ EndTurn(1) /\ disk' = mem /\ UNCHANGED <<file, mem>>
    BY <1>2, <2>3, LedgerAbandoned DEF Apply
  <2> QED BY <1>2, <2>1, <2>2, <2>3 DEF Apply
<1>3. CASE TurnMalformed
  <2>1. /\ UNCHANGED <<file, mem, disk, beat, cur, m0, base, seen>> /\ pc' = "annotate"
        /\ analysed' = [analysed EXCEPT ![cur] = seen]
        /\ slipped' = [slipped EXCEPT ![cur] = @ \/ file[cur].rev # seen]
    BY <1>3 DEF TurnMalformed, others
  <2>2. /\ analysed'[cur] = seen /\ (slipped[cur] => slipped'[cur])
        /\ slipped'[cur] \/ file[cur].rev = seen
        /\ \A q \in Pages : q # cur => analysed'[q] = analysed[q] /\ slipped'[q] = slipped[q]
    BY <1>0, <2>1 DEF TypeOK
  <2>3. \A p \in Pages : Onward(p)
    BY <2>1, <2>2 DEF Onward
  <2>4. HonestInv'
    BY <1>0, <2>1, <2>3, LedgersPassed DEF Ledgers
  <2>5. SeenInv'
    BY <1>0, <2>1, <2>2 DEF SeenInv, Unslipped, Exists, LlmTurn, Quarantining, Exposed, Guarded
  <2> QED BY <2>4, <2>5 DEF LedgerInv
<1> QED BY <1>1, <1>2, <1>3

LEMMA LedgerNext == TypeInv /\ LedgerInv /\ [Next]_vars => LedgerInv'
<1> SUFFICES ASSUME TypeInv, LedgerInv, [Next]_vars PROVE LedgerInv'
  OBVIOUS
<1>0. TypeInv'
  BY NextTyped
<1>1. CASE Next
  BY <1>0, <1>1, LedgerStart, LedgerCycle, LedgerJourney, LedgerTick, LedgerEdit, LedgerFast,
     LedgerTurn, LedgerWrites, KindsAssumption, Zenon
     DEF Next, MainStep, Between, Beside
<1>2. CASE UNCHANGED vars
  <2>1. UNCHANGED <<file, mem, disk, beat, slipped, analysed, pc, cur, m0, base, seen>>
    BY <1>2 DEF vars, turn, others
  <2>2. HonestInv'
    BY <1>0, <2>1, LedgerGoesOn
  <2>3. SeenInv'
    BY <2>1, SeenSame DEF LedgerInv
  <2> QED BY <2>2, <2>3 DEF LedgerInv
<1> QED BY <1>1, <1>2

LEMMA LedgerInit == Init => LedgerInv
<1> SUFFICES ASSUME Init PROVE LedgerInv
  OBVIOUS
<1>1. \A st \in Ledgers : st = FreshState
  BY DEF Init, Ledgers
<1>2. \A p \in Pages : FreshState.files[p] = NoRec
  BY DEF FreshState
<1>3. HonestInv
  BY <1>1, <1>2 DEF HonestInv, Honest
<1>4. SeenInv
  BY DEF Init, SeenInv, LlmTurn, Quarantining, Exposed, Guarded
<1> QED BY <1>3, <1>4 DEF LedgerInv

\* What the ledger says of the text a page holds now, in memory and on disk, is what a turn
\* found in that very text, but for an edit in the windows of InWindow
\* (process_llm_cycle_file, quarantine_structural_lint): whatever is written, saved late by the
\* heartbeat, lost or restarted, a record that is not about this text has another mtime.
THEOREM SettledSafe == Spec => []SettledWasAnalysed
<1>1. Spec => [](TypeInv /\ LedgerInv)
  BY InitTyped, LedgerInit, NextTyped, LedgerNext, PTL DEF Spec
<1>2. LedgerInv => SettledWasAnalysed
  BY DEF LedgerInv, HonestInv, Honest, Ledgers, SettledWasAnalysed, Speaks, Settles, Exists
<1> QED BY <1>1, <1>2, PTL

-----------------------------------------------------------------------------
(* Without faults, what was analysed stays recorded *)

\* The page is recorded as processed, as it is.
Done(r, f) == r # NoRec /\ r.mtime = f.mtime /\ r.status = "processed" /\ f.kind # "absent"

\* While the daemon runs, memory m and disk d agree on what is done of a page f, and both know
\* of every page whose text was analysed, but for the disk between Record and Post (late), and
\* for the journal of the day, which the daemon adds to.
Agreed(m, d, f, a, off, late, today) ==
    /\ Done(d, f) => off \/ m = d
    /\ a <= f.rev
    /\ a = f.rev /\ ~today => (off \/ Done(m, f)) /\ (Done(d, f) \/ late)

AgreeInv == \A p \in Pages : Agreed(mem.files[p], disk.files[p], file[p], analysed[p],
                                    pc = "off", pc = "post" /\ cur = p, p = Today)

\* A page that waits for its turn, or has it, is not done and not analysed, the heartbeat saves
\* what is in memory, and what a turn is about to ask of the LLM is newer than what was analysed:
\* it is no journal.  A journal that was just written is not done.
Due(p) == ~Done(mem.files[p], file[p]) /\ (p = Today \/ analysed[p] < file[p].rev)
Turning == (LlmTurn \ {"post"}) \cup Quarantining
TurnInv ==
    /\ beat # None => pc = "asking" /\ beat = mem
    /\ \A p \in queue : (pc \in {"list", "final"} \/ Due(p)) /\ p # cur
    /\ pc \in LlmTurn \ {"journal", "stamp"} => cur # Today
    /\ pc = "journey" => ~Done(mem.files[Today], file[Today])
    /\ pc \notin LlmTurn \cup Quarantining => cur = None
    /\ pc \in Turning => Due(cur)
    /\ pc \in Guarded \cup Exposed => seen <= file[cur].rev
    /\ pc = "rebase" => analysed[cur] < seen
    /\ pc \in Guarded /\ base # None => analysed[cur] < seen

FaultlessInv == faults = 0 => AgreeInv /\ TurnInv
AllInv == TypeInv /\ GateInv /\ LedgerInv /\ FaultlessInv

\* A step of a run without faults fails at nothing.
LEMMA Faultless ==
    ASSUME TypeOK, faults' = 0
    PROVE  /\ ~Fault
           /\ Persist => disk' = mem' /\ unsaved' = FALSE /\ UNCHANGED faults
           /\ \A l : SaveAndGoto(l) => disk' = mem' /\ pc' = l /\ UNCHANGED faults
<1>1. ~Fault
  BY DEF Fault, TypeOK
<1> QED BY <1>1 DEF Persist, SaveAndGoto

\* Saving keeps memory and disk in agreement, if memory forgets nothing that is done ...
LEMMA AgreeSaved ==
    ASSUME AgreeInv, UNCHANGED <<file, analysed>>, pc # "off", disk' = mem',
           \A p \in Pages : p # Today /\ Done(mem.files[p], file[p])
                            => mem'.files[p] = mem.files[p]
    PROVE  AgreeInv'
BY DEF AgreeInv, Agreed

\* ... and so does leaving both alone ...
LEMMA AgreeUnsaved ==
    ASSUME AgreeInv, UNCHANGED <<file, analysed>>, pc' = "off" <=> pc = "off",
           pc = "post" => pc' = "post" /\ UNCHANGED cur,
           \A p \in Pages : mem'.files[p] = mem.files[p] /\ disk'.files[p] = disk.files[p]
    PROVE  AgreeInv'
BY DEF AgreeInv, Agreed

\* ... or writing a page that is not analysed: what was recorded of it is of an older mtime.
LEMMA AgreeWritten ==
    ASSUME TypeOK, HonestInv, AgreeInv, NEW q \in Pages,
           file'[q].mtime > file[q].mtime, file'[q].mtime \in Nat, file'[q].rev \in Nat,
           analysed[q] <= file'[q].rev, q = Today \/ analysed[q] < file'[q].rev,
           \A p \in Pages : p # q => file'[p] = file[p],
           UNCHANGED analysed, UNCHANGED mem, disk' = disk \/ (disk' = mem /\ pc # "off"),
           pc' = "off" <=> pc = "off",
           pc = "post" => pc' = "post" /\ UNCHANGED cur
    PROVE  AgreeInv' /\ ~Done(mem'.files[q], file'[q])
<1>1. ASSUME NEW st \in Ledgers
      PROVE  ~Done(st.files[q], file'[q])
  <2>1. CASE st.files[q] = NoRec
    BY <2>1 DEF Done
  <2>2. CASE st.files[q] # NoRec
    <3>1. st.files[q].mtime \in Nat /\ file[q].mtime \in Nat
      BY <2>2, LedgerTyped DEF FileType, RecType
    <3>2. st.files[q].mtime <= file[q].mtime
      BY <2>2 DEF HonestInv, Honest
    <3> QED BY <3>1, <3>2 DEF Done
  <2> QED BY <2>1, <2>2
<1>2. ~Done(mem'.files[q], file'[q]) /\ ~Done(disk'.files[q], file'[q])
  BY <1>1 DEF Ledgers
<1>3. Agreed(mem'.files[q], disk'.files[q], file'[q], analysed'[q], pc' = "off",
             pc' = "post" /\ cur' = q, q = Today)
  <2>1. /\ analysed[q] \in Nat /\ analysed[q] <= file'[q].rev
        /\ q = Today \/ analysed[q] # file'[q].rev
    BY DEF TypeOK
  <2> QED BY <1>2, <2>1 DEF Agreed
<1>4. ASSUME NEW p \in Pages, p # q
      PROVE  Agreed(mem'.files[p], disk'.files[p], file'[p], analysed'[p],
                    pc' = "off", pc' = "post" /\ cur' = p, p = Today)
  BY <1>4 DEF AgreeInv, Agreed
<1> QED BY <1>2, <1>3, <1>4 DEF AgreeInv

\* A page stays due while it is not written, recorded or analysed.
LEMMA QueueKept ==
    ASSUME TypeOK, TurnInv, pc \notin {"list", "final"}, UNCHANGED <<file, analysed>>, queue' \subseteq queue,
           \A p \in queue' : mem'.files[p] \in {NoRec, mem.files[p]},
           \A p \in queue' : p # cur'
    PROVE  \A p \in queue' : Due(p)' /\ p # cur'
BY DEF TurnInv, Due, Done

\* Where there is no turn, only the queue is to be looked at.
LEMMA TurnOut ==
    ASSUME pc' \notin LlmTurn \cup Quarantining \cup {"journey"}, cur' = None, beat' = None,
           \A p \in queue' : (pc' \in {"list", "final"} \/ Due(p)') /\ p # cur'
    PROVE  TurnInv'
BY DEF TurnInv, LlmTurn, Quarantining, Turning, Guarded, Exposed

\* A step beside the turn leaves it as it is.
LEMMA TurnKept ==
    ASSUME TurnInv,
           UNCHANGED <<file, analysed, mem, pc, queue, cur, base, seen>>, beat' \in {None, beat}
    PROVE  TurnInv'
BY DEF TurnInv, Due

\* What is pending is due.
LEMMA PendingDue ==
    ASSUME TypeOK, AgreeInv, NEW p \in Pending, pc \notin {"off", "post"}
    PROVE  Due(p)
<1>1. p \in Pages /\ (NeedsPhase1(p) \/ NeedsPhase2(p))
  BY DEF Pending
<1>2. ~Done(mem.files[p], file[p])
  BY <1>1 DEF Done, NeedsPhase1, NeedsPhase2, Settles, Terminal, Waits, Exists
<1>3. analysed[p] <= file[p].rev /\ (p = Today \/ analysed[p] # file[p].rev)
  BY <1>1, <1>2 DEF AgreeInv, Agreed
<1>4. analysed[p] \in Nat /\ file[p].rev \in Nat
  BY <1>1 DEF TypeOK
<1> QED BY <1>2, <1>3, <1>4 DEF Due

\* The settling of a page is of that page.
LEMMA SettleOther ==
    ASSUME TypeOK, NEW q \in Pages, NEW r, Settle(q, r)
    PROVE  mem'.files[q] = r /\ \A p \in Pages : p # q => mem'.files[p] = mem.files[p]
BY DEF Settle, TypeOK, StateType

LEMMA CalmStart ==
    ASSUME AllInv, faults' = 0,
           \/ Start \/ Bootstrap \/ HarvestDone \/ HarvestRaises \/ HarvestMiscounts
           \/ HarvestStopped \/ CycleStart
    PROVE  AgreeInv' /\ TurnInv'
<1> USE DEF boot, others, turn
<1>0. /\ faults = 0 /\ ~HarvestRaises
      /\ Start => disk' = mem' /\ pc' = "boot"
      /\ Bootstrap => \/ disk' = mem' /\ pc' = "harvest"
                      \/ disk' = disk /\ pc' = "loop"
      /\ HarvestDone \/ HarvestMiscounts \/ HarvestStopped => disk' = mem' /\ pc' = "loop"
      /\ CycleStart => disk' = mem' /\ pc' = "scan"
  BY Faultless DEF Start, Bootstrap, HarvestDone, HarvestRaises, HarvestMiscounts, HarvestStopped,
                   CycleStart, AllInv, TypeInv
<1>1. /\ TypeOK /\ TurnInv /\ AgreeInv /\ HonestInv
      /\ mem \in StateType /\ disk \in StateType
  BY <1>0 DEF AllInv, FaultlessInv, LedgerInv, TypeInv, TypeOK
<1>2. UNCHANGED <<file, analysed, cur, queue, beat>>
  BY DEF Start, Bootstrap, HarvestDone, HarvestRaises, HarvestMiscounts, HarvestStopped, CycleStart
<1>3. /\ pc \in {"off", "boot", "harvest", "loop"} /\ cur = None /\ beat = None
      /\ pc \in {"off", "boot", "harvest"} => queue = {}
      /\ pc' \in {"boot", "harvest", "loop", "scan"}
      /\ pc = "off" <=> Start
  BY <1>0, <1>1 DEF Start, Bootstrap, HarvestDone, HarvestMiscounts, HarvestStopped, CycleStart,
                    TurnInv, AllInv, GateInv, LlmTurn, Quarantining
<1>4. CASE Start
  <2>1. ASSUME NEW p \in Pages
        PROVE  /\ Done(disk.files[p], file[p]) => mem'.files[p] = disk.files[p]
    BY <1>1, <1>4 DEF Start, StateType, Done
  <2>2. AgreeInv'
    BY <1>0, <1>1, <1>2, <1>3, <1>4, <2>1 DEF AgreeInv, Agreed
  <2>3. TurnInv'
    BY <1>2, <1>3, <1>4, TurnOut DEF LlmTurn, Quarantining
  <2> QED BY <2>2, <2>3
<1>5. CASE ~Start
  <2>1. \A p \in Pages : mem'.files[p] \in {NoRec, mem.files[p]}
                         /\ (mem'.files[p] = mem.files[p] \/ (~Exists(p) /\ CycleStart))
    <3>1. CASE Bootstrap
      BY <1>1, <3>1, HydrateKeeps DEF Bootstrap
    <3>2. CASE HarvestDone
      BY <1>1, <3>2 DEF HarvestDone, StateType
    <3>3. CASE HarvestMiscounts
      BY <1>1, <3>3 DEF HarvestMiscounts, CloseGate, StateType
    <3>4. CASE HarvestStopped
      BY <3>4 DEF HarvestStopped
    <3>5. CASE CycleStart
      <4>1. mem'.files = Prune(mem).files
        BY <1>1, <3>5, PruneTyped, HydrateKeeps DEF CycleStart
      <4> QED BY <1>1, <3>5, <4>1 DEF Prune, StateType
    <3> QED BY <1>0, <1>5, <3>1, <3>2, <3>3, <3>4, <3>5
  <2>2. \A p \in Pages : Done(mem.files[p], file[p]) => mem'.files[p] = mem.files[p]
    BY <2>1 DEF Done, Exists
  <2>3. AgreeInv'
    <3>1. CASE disk' = mem'
      BY <1>1, <1>2, <1>3, <1>5, <2>2, <3>1, AgreeSaved
    <3>2. CASE Bootstrap /\ disk' = disk
      <4>1. \A p \in Pages : mem'.files[p] = mem.files[p]
        BY <2>1, <3>2 DEF Bootstrap, CycleStart
      <4> QED BY <1>1, <1>2, <1>3, <1>5, <3>2, <4>1, AgreeUnsaved
    <3> QED BY <1>0, <1>5, <3>1, <3>2
  <2>4. \A p \in queue' : p # cur'
    BY <1>1, <1>2 DEF TurnInv
  <2>5. TurnInv'
    <3>1. \A p \in queue' : Due(p)' /\ p # cur'
      BY <1>1, <1>2, <1>3, <2>1, <2>4, QueueKept DEF TypeOK
    <3> QED BY <1>2, <1>3, <3>1, TurnOut DEF LlmTurn, Quarantining
  <2> QED BY <2>3, <2>5
<1> QED BY <1>4, <1>5

LEMMA CalmCycle ==
    ASSUME AllInv, faults' = 0, Between \/ Finalize \/ Crash \/ Beside
    PROVE  AgreeInv' /\ TurnInv'
<1> USE DEF boot, others, turn
<1>0. /\ faults = 0 /\ ~ScanFails /\ ~Crash /\ ~Reset
      /\ IdleSaved => disk' = mem' /\ pc' = "links"
      /\ FastTracked => \/ disk' = mem' /\ pc' = "cycled" /\ queue' = queue
                        \/ disk' = disk /\ pc' = "list" /\ queue' \subseteq Pages
                        \/ disk' = disk /\ pc' = "llm" /\ queue' = {}
      /\ CycleDone \/ Wake => disk' = mem'
      /\ Finalize => disk' = mem
      /\ BeatSave => disk' = beat
  BY Faultless DEF Between, LoopEnds, Idle, IdleSaved, ScanFails, Scan, FastTracked, FastTrackEnds,
                   Listed, CycleDone, PassRaises, Reload, Wake, Finalize, Crash, Beside, Reset,
                   RequestStop, BeatSnapshot, BeatSave, AllInv, TypeInv
<1>1. TypeOK /\ TurnInv /\ AgreeInv /\ HonestInv
  BY <1>0 DEF AllInv, FaultlessInv, LedgerInv, TypeInv
<1>2. UNCHANGED <<file, analysed>>
  BY DEF Between, LoopEnds, Idle, IdleSaved, ScanFails, Scan, FastTracked, FastTrackEnds, Listed,
         CycleDone, PassRaises, Reload, Wake, Finalize, Crash, Off, Beside, Reset, RequestStop,
         BeatSnapshot, BeatSave
<1>3. CASE Finalize
  <2>1. pc = "final" /\ pc' = "off" /\ queue' = {} /\ cur' = None /\ beat' = None /\ disk' = mem
    BY <1>0, <1>3 DEF Finalize, Off
  <2>2. AgreeInv'
    BY <1>1, <1>2, <2>1 DEF AgreeInv, Agreed
  <2>3. TurnInv'
    BY <2>1, TurnOut DEF LlmTurn, Quarantining
  <2> QED BY <2>2, <2>3
<1>4. CASE Between
  <2>1. /\ pc \in {"loop", "scan", "idle", "fast", "list", "llm", "links", "wait", "cycled"}
        /\ pc' \in {"loop", "final", "idle", "links", "cycled", "fast", "list", "llm", "wait"}
        /\ pc' # "scan" /\ UNCHANGED <<beat, cur>>
        /\ mem' = mem \/ (mem' = disk /\ Reload)
    BY <1>0, <1>4 DEF Between, LoopEnds, Idle, IdleSaved, Scan, FastTracked, FastTrackEnds, Listed,
                      CycleDone, PassRaises, Wake, Reload
  <2>2. cur = None /\ beat = None
    BY <1>1, <2>1 DEF TurnInv, LlmTurn, Quarantining
  <2>3. AgreeInv'
    <3>1. CASE mem' = mem /\ disk' = mem'
      BY <1>1, <1>2, <2>1, <3>1, AgreeSaved
    <3>2. CASE mem' = mem /\ disk' = disk
      BY <1>1, <1>2, <2>1, <3>2, AgreeUnsaved
    <3>3. CASE mem' = disk /\ Reload
      <4>1. disk' = disk
        BY <3>3 DEF Reload
      <4> QED BY <1>1, <1>2, <2>1, <3>3, <4>1 DEF AgreeInv, Agreed
    <3>4. disk' = mem' \/ disk' = disk
      BY <1>0, <1>4 DEF Between, LoopEnds, Idle, Scan, Listed, PassRaises, Reload
    <3> QED BY <2>1, <3>1, <3>2, <3>3, <3>4
  <2>4. \A p \in queue' : pc' \in {"list", "final"} \/ Due(p)'
    <3>1. \/ pc' \in {"list", "final"} \/ queue' \subseteq Pending
          \/ pc \notin {"list", "final"} /\ queue' \subseteq queue
      <4>1. Listed => pc' = "final" \/ queue' \subseteq Pending
        BY DEF Listed
      <4>2. Scan => queue' \subseteq Pending
        BY DEF Scan
      <4>3. ~Listed /\ ~Scan => pc # "list" /\ (pc' = "list" \/ queue' \subseteq queue)
        BY <1>0, <1>4 DEF Between, LoopEnds, Idle, IdleSaved, FastTracked, FastTrackEnds,
                          CycleDone, PassRaises, Wake, Reload
      <4> QED BY <2>1, <4>1, <4>2, <4>3
    <3>2. \A p \in Pending : Due(p)
      BY <1>1, <2>1, PendingDue
    <3>3. pc \notin {"list", "final"} => \A p \in queue : Due(p)
      BY <1>1 DEF TurnInv
    <3>4. Reload => queue' = {}
      BY DEF Reload
    <3> QED BY <1>2, <2>1, <3>1, <3>2, <3>3, <3>4 DEF Due
  <2>5. \A p \in queue' : p # cur'
    <3>1. queue' \subseteq Pages
      BY <1>0, <1>1, <1>4 DEF TypeOK, Pending, Between, LoopEnds, Idle, IdleSaved, Scan, Listed,
                              CycleDone, PassRaises, Wake, Reload
    <3> QED BY <2>1, <2>2, <3>1, PagesAssumption
  <2>6. TurnInv'
    BY <2>1, <2>2, <2>4, <2>5, TurnOut DEF LlmTurn, Quarantining
  <2> QED BY <2>3, <2>6
<1>5. CASE RequestStop
  <2>1. UNCHANGED <<mem, disk, beat, pc, queue, cur, base, seen>>
    BY <1>5 DEF RequestStop
  <2> QED BY <1>1, <1>2, <2>1, TurnKept, AgreeUnsaved
<1>6. CASE BeatSnapshot
  <2>1. /\ UNCHANGED <<mem, disk, pc, queue, cur, base, seen>> /\ beat' = mem /\ pc = "asking"
    BY <1>6 DEF BeatSnapshot
  <2>2. AgreeInv'
    BY <1>1, <1>2, <2>1, AgreeUnsaved
  <2>3. TurnInv'
    BY <1>1, <1>2, <2>1 DEF TurnInv, Due
  <2> QED BY <2>2, <2>3
<1>7. CASE BeatSave
  <2>1. /\ UNCHANGED <<mem, pc, queue, cur, base, seen>> /\ beat' = None /\ pc = "asking"
        /\ disk' = mem
    BY <1>0, <1>1, <1>7 DEF BeatSave, TurnInv
  <2> QED BY <1>1, <1>2, <2>1, AgreeSaved, TurnKept
<1> QED BY <1>0, <1>3, <1>4, <1>5, <1>6, <1>7 DEF Beside

\* The journal of the day is written, which makes it done nowhere, and settled as skipped.
LEMMA CalmJourney ==
    ASSUME AllInv, faults' = 0, JourneyLog \/ JourneySettle
    PROVE  AgreeInv' /\ TurnInv'
<1> USE DEF boot, others, turn
<1>0. /\ faults = 0 /\ (JourneyLog => disk' \in {disk, mem})
      /\ (JourneySettle => disk' = mem' /\ pc' = "cycled")
  BY Faultless DEF JourneyLog, JourneySettle, AllInv, TypeInv
<1>1. /\ TypeOK /\ TurnInv /\ AgreeInv /\ HonestInv /\ TypeInv
      /\ Today \in Pages /\ queue \subseteq Pages
  BY <1>0, PagesAssumption DEF AllInv, FaultlessInv, LedgerInv, TypeInv, TypeOK
<1>2. /\ pc \in {"links", "journey"} /\ pc' \in {"journey", "cycled", "final"}
      /\ UNCHANGED <<beat, queue, cur, analysed>>
  BY DEF JourneyLog, JourneySettle, SaveAndGoto
<1>3. cur = None /\ beat = None
  BY <1>1, <1>2 DEF TurnInv, LlmTurn, Quarantining
<1>4. CASE JourneyLog /\ UNCHANGED file
  <2>1. pc = "links" /\ UNCHANGED mem /\ pc' \in {"cycled", "final"} \cup {"journey"}
    BY <1>2, <1>4 DEF JourneyLog
  <2>2. pc' # "journey"
    <3>1. \/ file' = Write(Today, IF file[Today].kind \in {"absent", "empty"} THEN "plain"
                                  ELSE file[Today].kind)
          \/ pc' # "journey"
      BY <1>4 DEF JourneyLog, SaveAndGoto
    <3>2. ASSUME NEW k \in Kinds PROVE Write(Today, k) # file
      <4>1. Write(Today, k)[Today].mtime = file[Today].mtime + 1 /\ file[Today].mtime \in Nat
        BY <1>1, Written, FileTyped
      <4> QED BY <4>1
    <3>3. (IF file[Today].kind \in {"absent", "empty"} THEN "plain" ELSE file[Today].kind) \in Kinds
      BY <1>1, FileTyped DEF Kinds
    <3> QED BY <1>4, <3>1, <3>2, <3>3
  <2>3. AgreeInv'
    BY <1>0, <1>1, <1>2, <1>4, <2>1, AgreeSaved, AgreeUnsaved
  <2>4. TurnInv'
    BY <1>1, <1>2, <1>3, <1>4, <2>1, <2>2 DEF TurnInv, Due, Turning, Guarded, Exposed, LlmTurn, Quarantining
  <2> QED BY <2>3, <2>4
<1>5. CASE JourneyLog /\ ~UNCHANGED file
  <2> DEFINE k == IF file[Today].kind \in {"absent", "empty"} THEN "plain" ELSE file[Today].kind
  <2>1. k \in Kinds
    BY <1>1, FileTyped DEF Kinds
  <2>2. file' = Write(Today, k) /\ pc = "links" /\ pc' = "journey" /\ UNCHANGED <<mem, disk>>
    BY <1>5 DEF JourneyLog
  <2> HIDE DEF k
  <2>3. /\ file'[Today].mtime = file[Today].mtime + 1 /\ file'[Today].rev = file[Today].rev
        /\ \A q \in Pages : q # Today => file'[q] = file[q]
    BY <1>1, <2>1, <2>2, Written
  <2>4. /\ file'[Today].mtime > file[Today].mtime /\ file'[Today].mtime \in Nat
        /\ file'[Today].rev \in Nat /\ analysed[Today] <= file'[Today].rev
    BY <1>1, <2>3, FileTyped DEF AgreeInv, Agreed
  <2>5. AgreeInv' /\ ~Done(mem'.files[Today], file'[Today])
    BY <1>1, <1>2, <2>2, <2>3, <2>4, AgreeWritten
  <2>6. \A p \in queue' : Due(p)' /\ p # cur'
    <3>1. \A p \in queue : Due(p) /\ p # cur
      BY <1>1, <2>2 DEF TurnInv
    <3> QED BY <1>1, <1>2, <2>2, <2>3, <2>5, <3>1 DEF Due
  <2> QED BY <1>2, <1>3, <2>2, <2>5, <2>6
          DEF TurnInv, Turning, Guarded, Exposed, LlmTurn, Quarantining
<1>6. CASE JourneySettle
  <2>1. \A p \in Pages : p # Today => mem'.files[p] = mem.files[p]
    BY <1>1, <1>6, SettleOther DEF JourneySettle
  <2>2. ~Done(mem'.files[Today], file[Today]) /\ UNCHANGED file
    <3>1. ~Done(mem.files[Today], file[Today])
      BY <1>1, <1>6 DEF JourneySettle, TurnInv
    <3>2. CASE Exists(Today)
      <4>1. mem'.files[Today] = Rec("skipped", file[Today].mtime)
        BY <1>1, <1>6, <3>2, SettleOther DEF JourneySettle
      <4> QED BY <1>6, <4>1 DEF Done, Rec, JourneySettle
    <3>3. CASE ~Exists(Today)
      BY <1>6, <3>1, <3>3 DEF JourneySettle
    <3> QED BY <3>2, <3>3
  <2>3. AgreeInv'
    BY <1>0, <1>1, <1>2, <1>6, <2>1, <2>2, AgreeSaved
  <2>4. \A p \in queue' : Due(p)' /\ p # cur'
    <3>1. \A p \in queue : Due(p) /\ p # cur
      BY <1>1, <1>2 DEF TurnInv
    <3> QED BY <1>1, <1>2, <2>1, <2>2, <3>1 DEF Due
  <2>5. TurnInv'
    BY <1>0, <1>2, <1>3, <1>6, <2>4, TurnOut DEF LlmTurn, Quarantining
  <2> QED BY <2>3, <2>5
<1> QED BY <1>4, <1>5, <1>6

LEMMA CalmTick ==
    ASSUME AllInv, faults' = 0, Tick
    PROVE  AgreeInv' /\ TurnInv'
<1>0. faults = 0 /\ UNCHANGED <<file, analysed, pc, queue, cur, base, seen>>
  BY DEF Tick, others, turn
<1>1. TypeOK /\ TurnInv /\ AgreeInv /\ HonestInv
  BY <1>0 DEF AllInv, FaultlessInv, LedgerInv, TypeInv
<1>2. ASSUME NEW st \in Ledgers, NEW p \in Pages
      PROVE  /\ Done(st.files[p], file[p]) => Unwait(st).files[p] = st.files[p]
             /\ Done(Unwait(st).files[p], file[p]) => Done(st.files[p], file[p])
  <2>1. st \in StateType /\ st.files[p] \in RecType \cup {NoRec}
    BY <1>1, LedgerTyped
  <2>2. Unwait(st).files[p] = IF st.files[p] # NoRec THEN [st.files[p] EXCEPT !.wait = FALSE] ELSE NoRec
    BY <2>1 DEF Unwait, StateType
  <2>3. st.files[p] # NoRec /\ st.files[p].status = "processed" => ~st.files[p].wait
    BY <1>1 DEF HonestInv, Honest
  <2>4. CASE st.files[p] # NoRec
    <3>1. st.files[p] \in RecType
      BY <2>1, <2>4
    <3>2. /\ ~st.files[p].wait => [st.files[p] EXCEPT !.wait = FALSE] = st.files[p]
          /\ [st.files[p] EXCEPT !.wait = FALSE].status = st.files[p].status
          /\ [st.files[p] EXCEPT !.wait = FALSE].mtime = st.files[p].mtime
      BY <3>1 DEF RecType
    <3> QED BY <2>2, <2>3, <2>4, <3>2 DEF Done
  <2>5. CASE st.files[p] = NoRec
    BY <2>2, <2>5 DEF Done
  <2> QED BY <2>4, <2>5
<1>3. mem' = Unwait(mem) /\ disk' = Unwait(disk) /\ mem \in Ledgers /\ disk \in Ledgers
  BY DEF Tick, Ledgers
<1>4. ASSUME NEW p \in Pages
      PROVE  /\ Done(mem.files[p], file[p]) => mem'.files[p] = mem.files[p]
             /\ Done(disk.files[p], file[p]) => disk'.files[p] = disk.files[p]
             /\ Done(mem'.files[p], file[p]) => Done(mem.files[p], file[p])
             /\ Done(disk'.files[p], file[p]) => Done(disk.files[p], file[p])
  BY <1>2, <1>3
<1>5. AgreeInv'
  BY <1>0, <1>1, <1>4 DEF AgreeInv, Agreed
<1>6. TurnInv'
  <2>1. \A p \in Pages : Due(p) => Due(p)'
    BY <1>0, <1>4 DEF Due
  <2>2. queue \subseteq Pages /\ (pc \in Turning => cur \in Pages)
    BY <1>1 DEF TypeOK, AllInv, TypeInv, Seated, Turning
  <2>3. pc \in Turning => Due(cur)'
    BY <1>0, <1>1, <1>4, <2>2 DEF Due, TurnInv
  <2>4. beat' # None => pc = "asking" /\ beat' = mem'
    BY <1>1, <1>3 DEF Tick, TurnInv
  <2>5. pc = "journey" => ~Done(mem'.files[Today], file'[Today])
    BY <1>0, <1>1, <1>4, PagesAssumption DEF TurnInv
  <2> QED BY <1>0, <1>1, <2>1, <2>2, <2>3, <2>4, <2>5 DEF TurnInv
<1> QED BY <1>5, <1>6

\* A page that is written stays due, and makes nothing else due or done.
LEMMA TurnWritten ==
    ASSUME TypeInv, TurnInv, NEW q \in Pages,
           file'[q].rev >= file[q].rev, file'[q].rev \in Nat, ~Done(mem.files[q], file'[q]),
           \A p \in Pages : p # q => file'[p] = file[p],
           UNCHANGED <<analysed, mem, beat, queue, cur, base, seen>>,
           \/ pc' = pc
           \/ pc \in Quarantining /\ pc' \in Quarantining
           \/ pc \in {"pipeline", "apply"} /\ pc' \in {"reread", "record"}
    PROVE  TurnInv'
<1>1. ASSUME NEW p \in Pages
      PROVE  /\ Due(p) => ~Done(mem.files[p], file'[p])
             /\ Due(p) => (p = Today \/ analysed[p] < file'[p].rev)
             /\ ~Done(mem.files[p], file[p]) => ~Done(mem.files[p], file'[p])
             /\ seen <= file[p].rev => seen <= file'[p].rev
  <2>1. analysed[p] \in Nat /\ file[p].rev \in Nat /\ seen \in Nat
    BY DEF TypeInv, TypeOK
  <2> QED BY <2>1 DEF Due
<1>2. \A p \in queue' : (pc' \in {"list", "final"} \/ Due(p)') /\ p # cur'
  <2>1. queue \subseteq Pages
    BY DEF TypeInv, TypeOK
  <2> QED BY <1>1, <2>1 DEF TurnInv, Due, Quarantining
<1>3. pc \in LlmTurn \cup Quarantining => cur \in Pages
  BY DEF TypeInv, Seated
<1>4. pc' \in Turning => ~Done(mem'.files[cur'], file'[cur'])
                        /\ (cur' = Today \/ analysed'[cur'] < file'[cur'].rev)
  <2>1. pc' \in Turning => pc \in Turning /\ pc \in LlmTurn \cup Quarantining
    BY DEF Turning, LlmTurn, Quarantining
  <2> QED BY <1>1, <1>3, <2>1 DEF TurnInv
<1>5. pc' \in Guarded \cup Exposed => seen' <= file'[cur'].rev
  <2>1. pc' \in Guarded \cup Exposed => pc \in Guarded \cup Exposed /\ pc \in LlmTurn \cup Quarantining
    BY DEF Guarded, Exposed, LlmTurn, Quarantining
  <2> QED BY <1>1, <1>3, <2>1 DEF TurnInv
<1>6. /\ beat' # None => pc' = "asking" /\ beat' = mem'
      /\ pc' \notin LlmTurn \cup Quarantining => cur' = None
      /\ pc' = "rebase" => analysed'[cur'] < seen'
      /\ pc' \in Guarded /\ base' # None => analysed'[cur'] < seen'
      /\ pc' \in LlmTurn \ {"journal", "stamp"} => cur' # Today
  BY DEF TurnInv, Guarded, LlmTurn, Quarantining
<1>7. pc' = "journey" => ~Done(mem'.files[Today], file'[Today])
  BY <1>1, PagesAssumption DEF TurnInv, Quarantining
<1> QED BY <1>2, <1>4, <1>5, <1>6, <1>7 DEF TurnInv, Due

\* Without a turn, no page is the one of the turn.
LEMMA NotOfTurn ==
    ASSUME TypeOK, NEW p \in queue
    PROVE  p # None
BY PagesAssumption DEF TypeOK

LEMMA CalmEdit ==
    ASSUME AllInv, faults' = 0, NEW q \in Pages, NEW k \in Kinds, Edit(q, k) \/ OwnWrite(q, k)
    PROVE  AgreeInv' /\ TurnInv'
<1>0. faults = 0 /\ UNCHANGED <<mem, disk, beat, analysed, pc, queue, cur, base, seen>>
  BY DEF Edit, OwnWrite, turn
<1>1. TypeOK /\ TurnInv /\ AgreeInv /\ HonestInv /\ TypeInv
  BY <1>0 DEF AllInv, FaultlessInv, LedgerInv, TypeInv
<1>2. /\ file'[q].mtime = file[q].mtime + 1 /\ file'[q].rev = file[q].rev + 1
      /\ \A p \in Pages : p # q => file'[p] = file[p]
  BY <1>1, Revised DEF Edit, OwnWrite
<1>3. /\ file'[q].mtime > file[q].mtime /\ file'[q].mtime \in Nat
      /\ file'[q].rev \in Nat /\ file'[q].rev >= file[q].rev
      /\ analysed[q] <= file'[q].rev /\ analysed[q] < file'[q].rev
  <2>1. file[q].mtime \in Nat /\ file[q].rev \in Nat /\ analysed[q] \in Nat
    BY <1>1 DEF TypeOK
  <2>2. analysed[q] <= file[q].rev
    BY <1>1 DEF AgreeInv, Agreed
  <2> QED BY <1>2, <2>1, <2>2
<1>4. AgreeInv' /\ ~Done(mem'.files[q], file'[q])
  BY <1>0, <1>1, <1>2, <1>3, AgreeWritten
<1> QED BY <1>0, <1>1, <1>2, <1>3, <1>4, TurnWritten

LEMMA CalmFast ==
    ASSUME AllInv, faults' = 0, FastTrack \/ Annotate \/ Quarantine
    PROVE  AgreeInv' /\ TurnInv'
<1> USE DEF boot, others, turn
<1>0. faults = 0
  BY Faultless DEF FastTrack, Annotate, Quarantine, AllInv, TypeInv
<1>1. TypeOK /\ TurnInv /\ AgreeInv /\ HonestInv /\ TypeInv
  BY <1>0 DEF AllInv, FaultlessInv, LedgerInv, TypeInv
<1>2. CASE FastTrack
  <2>1. Head \in queue /\ Head \in Pages /\ pc = "fast"
    BY <1>1, <1>2, LeastIn, PagesAssumption DEF FastTrack, More, Head, TypeOK
  <2> DEFINE q == Head
  <2>2. /\ q \in queue /\ q \in Pages /\ Due(q) /\ queue' = queue \ {q} /\ beat' = beat
        /\ UNCHANGED <<file, analysed>>
    BY <1>1, <1>2, <2>1 DEF FastTrack, TurnInv
  <2>3. cur = None /\ beat = None
    BY <1>1, <2>1 DEF TurnInv, LlmTurn, Quarantining
  <2> HIDE DEF q
  <2>4. CASE cur' = q /\ pc' = "annotate" /\ UNCHANGED <<mem, disk>>
    <3>1. AgreeInv'
      BY <1>1, <2>1, <2>2, <2>4, AgreeUnsaved
    <3>2. TurnInv'
      BY <1>1, <2>1, <2>2, <2>3, <2>4
         DEF TurnInv, Due, Turning, Guarded, Exposed, LlmTurn, Quarantining
    <3> QED BY <3>1, <3>2
  <2>5. CASE Settle(q, Rec("skipped", file[q].mtime)) /\ Persist /\ UNCHANGED <<cur, pc>>
    <3>1. disk' = mem' /\ \A p \in Pages : p # q => mem'.files[p] = mem.files[p]
      BY <1>1, <2>2, <2>5, Faultless, SettleOther
    <3>2. AgreeInv'
      BY <1>1, <2>1, <2>2, <2>5, <3>1, AgreeSaved DEF Due
    <3>3. \A p \in queue' : Due(p)' /\ p # cur'
      <4>1. queue \subseteq Pages
        BY <1>1 DEF TypeOK
      <4> QED BY <1>1, <2>1, <2>2, <2>5, <3>1, <4>1 DEF TurnInv, Due
    <3>4. TurnInv'
      BY <2>1, <2>2, <2>3, <2>5, <3>3, TurnOut DEF LlmTurn, Quarantining
    <3> QED BY <3>2, <3>4
  <2>6. CASE UNCHANGED <<mem, disk, cur, pc>>
    <3>1. AgreeInv'
      BY <1>1, <2>1, <2>2, <2>6, AgreeUnsaved
    <3>2. \A p \in queue' : Due(p)' /\ p # cur'
      BY <1>1, <2>1, <2>2, <2>6 DEF TurnInv, Due
    <3>3. TurnInv'
      BY <2>1, <2>2, <2>3, <2>6, <3>2, TurnOut DEF LlmTurn, Quarantining
    <3> QED BY <3>1, <3>3
  <2> QED BY <1>2, <2>4, <2>5, <2>6 DEF FastTrack, q
<1>3. CASE Annotate
  <2>1. /\ cur \in Pages /\ pc = "annotate" /\ pc' = "quarantine" /\ Due(cur)
        /\ UNCHANGED <<mem, disk, beat, analysed, queue, cur, base, seen>>
    BY <1>1, <1>3 DEF Annotate, TypeInv, Seated, TurnInv, Turning, Quarantining
  <2>2. CASE UNCHANGED file
    <3>1. AgreeInv'
      BY <1>1, <2>1, <2>2, AgreeUnsaved
    <3>2. TurnInv'
      BY <1>1, <2>1, <2>2 DEF TurnInv, Due, Turning, Guarded, Exposed, LlmTurn, Quarantining
    <3> QED BY <3>1, <3>2
  <2>3. CASE file' = Write(cur, "bad")
    <3>1. PICK q \in Pages : q = cur
      BY <2>1
    <3>2. /\ file'[q].mtime = file[q].mtime + 1 /\ file'[q].rev = file[q].rev
          /\ \A p \in Pages : p # q => file'[p] = file[p]
          /\ file[q].mtime \in Nat /\ file[q].rev \in Nat /\ analysed[q] \in Nat
          /\ analysed[q] <= file[q].rev /\ (q = Today \/ analysed[q] < file[q].rev)
      BY <1>1, <2>1, <2>3, <3>1, Written, FileTyped DEF Kinds, Due, TypeOK, AgreeInv, Agreed
    <3>3. /\ file'[q].mtime > file[q].mtime /\ file'[q].mtime \in Nat
          /\ file'[q].rev >= file[q].rev
      BY <3>2
    <3>4. AgreeInv' /\ ~Done(mem'.files[q], file'[q])
      BY <1>1, <2>1, <3>2, <3>3, AgreeWritten
    <3>5. TurnInv'
      BY <1>1, <2>1, <3>2, <3>3, <3>4, TurnWritten DEF Quarantining
    <3> QED BY <3>4, <3>5
  <2> QED BY <1>3, <2>2, <2>3 DEF Annotate
<1>4. CASE Quarantine
  <2>1. /\ cur \in Pages /\ pc = "quarantine" /\ Due(cur) /\ pc' \in {"fast", "llm"}
        /\ cur' = None /\ UNCHANGED <<file, analysed, beat, queue>>
    BY <1>1, <1>4 DEF Quarantine, TypeInv, Seated, Looping, TurnInv, Turning, Quarantining
  <2>2. PICK q \in Pages : q = cur
    BY <2>1
  <2>3. disk' = mem' /\ \A p \in Pages : p # q => mem'.files[p] = mem.files[p]
    BY <1>1, <1>4, <2>2, Faultless, SettleOther DEF Quarantine
  <2>4. AgreeInv'
    BY <1>1, <2>1, <2>2, <2>3, AgreeSaved DEF Due
  <2>5. \A p \in queue' : Due(p)' /\ p # cur'
    <3>1. queue \subseteq Pages /\ \A p \in queue : p # None
      BY <1>1, NotOfTurn DEF TypeOK
    <3> QED BY <1>1, <2>1, <2>2, <2>3, <3>1 DEF TurnInv, Due
  <2>6. beat' = None
    BY <1>1, <2>1 DEF TurnInv
  <2>7. TurnInv'
    BY <2>1, <2>5, <2>6, TurnOut DEF LlmTurn, Quarantining
  <2> QED BY <2>4, <2>7
<1> QED BY <1>2, <1>3, <1>4

\* A turn that ends with its ledger saved, and nothing recorded of a page that is done.
LEMMA CalmEnds ==
    ASSUME TypeOK, TurnInv, AgreeInv, NEW called, EndTurn(called), pc \notin {"off", "list", "final"},
           pc = "asking" => beat = None,
           UNCHANGED <<file, analysed, queue, beat>>, disk' = mem',
           \A p \in Pages : p # cur => mem'.files[p] = mem.files[p],
           mem'.files[cur] = mem.files[cur] \/ Due(cur)
    PROVE  AgreeInv' /\ TurnInv'
<1>1. \A p \in Pages : Done(mem.files[p], file[p]) => mem'.files[p] = mem.files[p]
  BY DEF Due
<1>2. AgreeInv'
  BY <1>1, AgreeSaved
<1>3. pc' = "llm" /\ cur' = None
  BY DEF EndTurn
<1>4. beat' = None
  BY DEF TurnInv
<1>5. \A p \in queue' : Due(p)' /\ p # cur'
  <2>1. queue \subseteq Pages /\ \A p \in queue : p # None
    BY NotOfTurn DEF TypeOK
  <2> QED BY <1>3, <2>1 DEF TurnInv, Due
<1> QED BY <1>2, <1>3, <1>4, <1>5, TurnOut DEF LlmTurn, Quarantining

\* What is recorded as processed is what was read, and the disk does not know it yet.
LEMMA CalmProcessed ==
    ASSUME TypeInv, TurnInv, AgreeInv, pc \in {"stamp", "record"}, Exists(cur),
           Settle(cur, Rec("processed", file[cur].mtime)),
           analysed' = [analysed EXCEPT ![cur] = seen],
           UNCHANGED <<file, queue, beat>>,
           \/ disk' = mem' /\ cur' = None /\ pc' = "llm"
           \/ pc = "record" /\ disk' = disk /\ cur' = cur /\ pc' = "post"
    PROVE  AgreeInv' /\ TurnInv'
<1>0. cur \in Pages
  BY DEF TypeInv, Seated, LlmTurn
<1>1. PICK q \in Pages : q = cur
  BY <1>0
<1>2. mem'.files[q] = Rec("processed", file[q].mtime)
      /\ \A p \in Pages : p # q => mem'.files[p] = mem.files[p]
  BY <1>1, SettleOther DEF TypeInv
<1>3. Done(mem'.files[q], file[q])
  <2> DEFINE r == Rec("processed", file[q].mtime)
  <2>1. r \in RecType
    BY RecTyped, FileTyped DEF Statuses, TypeInv
  <2>2. r # NoRec
    BY <2>1, RecAssumption, Zenon DEF RecType
  <2>3. r.mtime = file[q].mtime /\ r.status = "processed"
    BY DEF Rec
  <2> HIDE DEF r
  <2> QED BY <1>1, <1>2, <2>2, <2>3 DEF Done, Exists, r
<1>4. /\ analysed'[q] = seen /\ seen <= file[q].rev /\ seen \in Nat /\ file[q].rev \in Nat
      /\ \A p \in Pages : p # q => analysed'[p] = analysed[p]
  BY <1>1 DEF TypeInv, TypeOK, TurnInv, Exposed
<1>5. Due(q)
  BY <1>1 DEF TurnInv, Turning, LlmTurn
<1>6. ~Done(disk.files[q], file[q])
  BY <1>5 DEF AgreeInv, Agreed, Due
<1>7. AgreeInv'
  <2>1. Agreed(mem'.files[q], disk'.files[q], file'[q], analysed'[q], pc' = "off",
               pc' = "post" /\ cur' = q, q = Today)
    BY <1>1, <1>3, <1>4, <1>6 DEF Agreed
  <2>2. ASSUME NEW p \in Pages, p # q
        PROVE  Agreed(mem'.files[p], disk'.files[p], file'[p], analysed'[p],
                      pc' = "off", pc' = "post" /\ cur' = p, p = Today)
    <3>1. Agreed(mem.files[p], disk.files[p], file[p], analysed[p], FALSE, FALSE, p = Today)
      BY <2>2, <1>1 DEF AgreeInv, Agreed
    <3> QED BY <1>2, <1>4, <2>2, <3>1 DEF Agreed
  <2> QED BY <2>1, <2>2 DEF AgreeInv
<1>8. beat' = None
  BY DEF TurnInv
<1>9. \A p \in queue' : Due(p)' /\ p # cur'
  <2>1. queue \subseteq Pages /\ \A p \in queue : p # None /\ p # q
    BY <1>1, NotOfTurn DEF TypeInv, TypeOK, TurnInv
  <2> QED BY <1>1, <1>2, <1>4, <2>1 DEF TurnInv, Due
<1>10. TurnInv'
  <2>1. CASE cur' = None /\ pc' = "llm"
    BY <1>8, <1>9, <2>1, TurnOut DEF LlmTurn, Quarantining
  <2>2. CASE pc = "record" /\ cur' = cur /\ pc' = "post"
    BY <1>8, <1>9, <2>2 DEF TurnInv, Turning, LlmTurn, Quarantining, Guarded, Exposed
  <2> QED BY <2>1, <2>2
<1> QED BY <1>7, <1>10

LEMMA CalmReads ==
    ASSUME AllInv, faults' = 0,
           BeginTurn \/ ReadJournal \/ ReadPage \/ Reread \/ Rebase
    PROVE  AgreeInv' /\ TurnInv'
<1> USE DEF boot, others, turn
<1>0. faults = 0 /\ (BeginTurn => disk' = disk \/ disk' = mem)
  BY Faultless DEF BeginTurn, ReadJournal, ReadPage, Reread, Rebase, AllInv, TypeInv
<1>1. TypeOK /\ TurnInv /\ AgreeInv /\ TypeInv
  BY <1>0 DEF AllInv, FaultlessInv, TypeInv
<1>2. UNCHANGED <<file, analysed, mem, beat>> /\ beat' = None
  BY <1>1 DEF BeginTurn, ReadJournal, ReadPage, Reread, Rebase, TurnInv
<1>3. AgreeInv'
  <2>1. CASE disk' = disk
    <3>1. pc \notin {"off", "post"} /\ pc' \notin {"off", "post"}
      BY DEF BeginTurn, ReadJournal, ReadPage, Reread, Rebase
    <3> QED BY <1>1, <1>2, <2>1, <3>1, AgreeUnsaved
  <2>2. CASE BeginTurn /\ disk' = mem
    BY <1>1, <1>2, <2>2, AgreeSaved DEF BeginTurn
  <2> QED BY <1>0, <2>1, <2>2 DEF ReadJournal, ReadPage, Reread, Rebase
<1>4. CASE BeginTurn
  <2>1. Head \in queue /\ Head \in Pages
    BY <1>1, <1>4, LeastIn, PagesAssumption DEF BeginTurn, More, Head, TypeOK
  <2> DEFINE q == Head
  <2>2. q \in queue /\ queue' = queue \ {q} /\ Due(q) /\ cur = None
    BY <1>1, <1>4, <2>1 DEF BeginTurn, TurnInv, LlmTurn, Quarantining
  <2>3. \/ cur' = q /\ (pc' = "journal" \/ (pc' = "read" /\ q # Today))
        \/ cur' = cur /\ pc' = "final"
    <3>1. Head \notin Journals => Head # Today
      BY PagesAssumption
    <3>2. \/ cur' = q /\ pc' = IF q \in Journals THEN "journal" ELSE "read"
          \/ cur' = cur /\ pc' = "final"
      BY <1>4 DEF BeginTurn
    <3> QED BY <3>1, <3>2
  <2> HIDE DEF q
  <2>4. \A p \in queue' : Due(p)' /\ p # cur'
    BY <1>1, <1>2, <1>4, <2>2, <2>3 DEF BeginTurn, TurnInv, Due
  <2>5. CASE cur' = q /\ (pc' = "journal" \/ (pc' = "read" /\ q # Today))
    <3>1. Due(cur)'
      BY <1>2, <2>2, <2>5 DEF Due
    <3>2. TurnInv'
      BY <1>2, <2>4, <2>5, <3>1 DEF TurnInv, Turning, LlmTurn, Quarantining, Guarded, Exposed
    <3> QED BY <1>3, <3>2
  <2>6. CASE cur' = cur /\ pc' = "final"
    BY <1>2, <1>3, <2>2, <2>4, <2>6, TurnOut DEF LlmTurn, Quarantining
  <2> QED BY <2>3, <2>5, <2>6
<1>5. CASE ~BeginTurn
  <2>1. /\ UNCHANGED <<queue, cur>> /\ pc \in {"journal", "read", "reread", "rebase"}
        /\ pc' \in {"stamp", "pipeline", "check", "rebase"}
    BY <1>5 DEF ReadJournal, ReadPage, Reread, Rebase
  <2>2. cur \in Pages /\ Due(cur)
    BY <1>1, <2>1 DEF TypeInv, Seated, TurnInv, Turning, LlmTurn
  <2>3. /\ file[cur].rev \in Nat /\ analysed[cur] \in Nat
        /\ pc # "journal" => cur # Today /\ analysed[cur] < file[cur].rev
    BY <1>1, <2>1, <2>2 DEF TypeOK, Due, TurnInv, LlmTurn
  <2>4. \A p \in queue' : Due(p)' /\ p # cur'
    BY <1>1, <1>2, <2>1 DEF TurnInv, Due
  <2>5. Due(cur)'
    BY <1>2, <2>1, <2>2 DEF Due
  <2>6. /\ seen' <= file'[cur'].rev
        /\ pc' = "rebase" => analysed'[cur'] < seen'
        /\ pc' \in Guarded /\ base' # None => analysed'[cur'] < seen'
    <3>1. CASE ReadJournal
      BY <1>2, <2>1, <2>3, <3>1 DEF ReadJournal, Guarded
    <3>2. CASE ReadPage
      BY <1>2, <2>1, <2>3, <3>2 DEF ReadPage, Guarded
    <3>3. CASE Reread
      BY <1>1, <1>2, <2>1, <2>3, <3>3 DEF Reread, TurnInv, Guarded
    <3>4. CASE Rebase
      BY <1>1, <1>2, <2>1, <2>3, <3>4 DEF Rebase, TurnInv, Guarded, Exposed
    <3> QED BY <1>5, <3>1, <3>2, <3>3, <3>4
  <2>7. pc' \in LlmTurn \ {"journal", "stamp"} => cur' # Today
    BY <1>5, <2>1, <2>3 DEF ReadJournal, ReadPage, Reread, Rebase
  <2>8. TurnInv'
    BY <1>2, <2>1, <2>4, <2>5, <2>6, <2>7 DEF TurnInv, LlmTurn
  <2> QED BY <1>3, <2>8
<1> QED BY <1>4, <1>5

LEMMA CalmTurn ==
    ASSUME AllInv, faults' = 0,
           \/ StampJournal \/ Pipeline \/ Ask \/ Answer \/ Apply \/ Record \/ Post
           \/ TurnFails \/ Unlockable \/ TurnMalformed
    PROVE  AgreeInv' /\ TurnInv'
<1> USE DEF boot, others, turn
<1>0. /\ faults = 0 /\ ~Fault /\ (Persist => disk' = mem')
      /\ ~TurnFails /\ ~Unlockable /\ ~TurnMalformed /\ (Answer => beat = None)
  <2>1. ~Fault /\ (Persist => disk' = mem' /\ UNCHANGED faults)
    BY Faultless DEF AllInv, TypeInv
  <2>2. ~TurnFails /\ ~Unlockable /\ ~TurnMalformed /\ (Answer => beat = None /\ UNCHANGED faults)
    BY <2>1 DEF TurnFails, Unlockable, TurnMalformed, Answer, Joined
  <2>3. UNCHANGED faults
    BY <2>1, <2>2 DEF StampJournal, Pipeline, Ask, Answer, Apply, Record, Post, Abandon
  <2> QED BY <2>1, <2>2, <2>3
<1>1. TypeOK /\ TurnInv /\ AgreeInv /\ TypeInv /\ HonestInv
  BY <1>0 DEF AllInv, FaultlessInv, TypeInv, LedgerInv
<1>2. PICK q \in Pages : q = cur
  BY <1>0 DEF AllInv, TypeInv, Seated, LlmTurn, StampJournal, Pipeline, Ask, Answer, Apply, Record, Post
<1>3. UNCHANGED <<beat, queue>>
  BY <1>0 DEF StampJournal, Pipeline, Ask, Answer, Apply, Record, Post
<1>4. ASSUME NEW called, EndTurn(called), UNCHANGED <<file, analysed>>, disk' = mem',
             pc \in LlmTurn, pc = "asking" => beat = None,
             \/ UNCHANGED mem
             \/ Due(cur) /\ \E r : Settle(cur, r)
      PROVE  AgreeInv' /\ TurnInv'
  <2>1. \A p \in Pages : p # cur => mem'.files[p] = mem.files[p]
    BY <1>1, <1>2, <1>4, SettleOther
  <2>2. pc \notin {"off", "list", "final"}
    BY <1>4 DEF LlmTurn
  <2> QED BY <1>1, <1>3, <1>4, <2>1, <2>2, CalmEnds
<1>5. ASSUME UNCHANGED <<file, analysed, mem, cur, base, seen>>, disk' \in {disk, mem'},
             pc \in Guarded, pc' \in {"reread", "asking", "apply", "record"},
             pc' # "asking" => beat = None
      PROVE  AgreeInv' /\ TurnInv'
  <2>1. pc \notin {"off", "post"} /\ pc' \notin {"off", "post"}
    BY <1>5 DEF Guarded
  <2>2. AgreeInv'
    BY <1>1, <1>5, <2>1, AgreeSaved, AgreeUnsaved
  <2>3. TurnInv'
    BY <1>1, <1>3, <1>5 DEF TurnInv, Due, Turning, Guarded, Exposed, LlmTurn, Quarantining
  <2> QED BY <2>2, <2>3
<1>6. ASSUME file'[q].mtime = file[q].mtime + 1, file'[q].rev = file[q].rev,
             \A p \in Pages : p # q => file'[p] = file[p],
             UNCHANGED <<analysed, mem, cur, base, seen>>, disk' \in {disk, mem},
             pc \in {"pipeline", "apply"}, pc' \in {"reread", "record"}
      PROVE  AgreeInv' /\ TurnInv'
  <2>1. /\ file[q].mtime \in Nat /\ file[q].rev \in Nat /\ analysed[q] \in Nat
        /\ analysed[q] < file[q].rev
    BY <1>1, <1>2, <1>6 DEF TypeOK, TurnInv, Turning, LlmTurn, Due
  <2>2. /\ file'[q].mtime > file[q].mtime /\ file'[q].mtime \in Nat
        /\ analysed[q] <= file'[q].rev /\ file'[q].rev >= file[q].rev /\ file'[q].rev \in Nat
        /\ analysed[q] < file'[q].rev
    BY <1>6, <2>1
  <2>3. AgreeInv' /\ ~Done(mem'.files[q], file'[q])
    BY <1>1, <1>6, <2>2, AgreeWritten
  <2>4. TurnInv'
    BY <1>1, <1>3, <1>6, <2>2, <2>3, TurnWritten
  <2> QED BY <2>3, <2>4
<1>7. CASE StampJournal
  <2>1. pc = "stamp" /\ disk' = mem' /\ EndTurn(0) /\ Due(cur) /\ UNCHANGED file
    BY <1>0, <1>1, <1>7 DEF StampJournal, TurnInv, Turning, LlmTurn
  <2>2. CASE Exists(cur)
    BY <1>1, <1>3, <1>7, <2>1, <2>2, CalmProcessed DEF StampJournal, EndTurn
  <2>3. CASE ~Exists(cur)
    BY <1>4, <1>7, <2>1, <2>3 DEF StampJournal, LlmTurn
  <2> QED BY <2>2, <2>3
<1>8. CASE Pipeline
  <2>1. /\ pc = "pipeline" /\ pc' = "reread" /\ disk' = mem
        /\ UNCHANGED <<analysed, mem, cur, base, seen>>
    BY <1>0, <1>8 DEF Pipeline
  <2>2. CASE UNCHANGED file
    BY <1>1, <1>5, <2>1, <2>2 DEF Guarded, TurnInv
  <2>3. CASE file' = [Write(cur, file[cur].kind) EXCEPT ![cur].tidy = TRUE]
    <3> DEFINE w == Write(cur, file[cur].kind)
    <3>1. file[cur].kind \in Kinds /\ w \in [Pages -> FileType]
      BY <1>1, <1>2, FileTyped, WriteTyped
    <3>2. /\ w[q].mtime = file[q].mtime + 1 /\ w[q].rev = file[q].rev
          /\ \A p \in Pages : p # q => w[p] = file[p]
      BY <1>1, <1>2, <3>1, Written
    <3>3. file' = [w EXCEPT ![q].tidy = TRUE]
      BY <1>2, <2>3
    <3> HIDE DEF w
    <3>4. /\ file'[q].mtime = file[q].mtime + 1 /\ file'[q].rev = file[q].rev
          /\ \A p \in Pages : p # q => file'[p] = file[p]
      BY <3>1, <3>2, <3>3 DEF FileType
    <3> QED BY <1>6, <2>1, <3>4
  <2> QED BY <1>8, <2>2, <2>3 DEF Pipeline
<1>9. CASE Ask
  <2>1. CASE Conflict
    BY <1>0, <1>4, <1>9, <2>1 DEF Ask, Abandon, LlmTurn
  <2>2. CASE ~Conflict
    BY <1>5, <1>9, <2>2 DEF Ask, Guarded
  <2> QED BY <2>1, <2>2
<1>10. CASE Answer
  <2>1. CASE Conflict
    BY <1>0, <1>4, <1>10, <2>1 DEF Answer, LlmTurn
  <2>2. CASE ~Conflict
    BY <1>0, <1>5, <1>10, <2>2 DEF Answer, Guarded
  <2> QED BY <2>1, <2>2
<1>11. CASE Apply
  <2>1. CASE Abandon(1) /\ UNCHANGED file
    BY <1>0, <1>4, <1>11, <2>1 DEF Apply, Abandon, LlmTurn
  <2>2. CASE /\ file' = IF file[cur].kind \in {"absent", "empty"} THEN file ELSE Write(cur, "indexed")
             /\ pc' = "record" /\ UNCHANGED <<mem, disk, unsaved, budget, turn, faults>>
    <3>0. pc = "apply" /\ UNCHANGED analysed /\ beat = None
      BY <1>1, <1>11 DEF Apply, TurnInv
    <3>1. CASE UNCHANGED file
      BY <1>5, <2>2, <3>0, <3>1 DEF Guarded
    <3>2. CASE file' = Write(cur, "indexed")
      <4>1. /\ file'[q].mtime = file[q].mtime + 1 /\ file'[q].rev = file[q].rev
            /\ \A p \in Pages : p # q => file'[p] = file[p]
        BY <1>1, <1>2, <3>2, Written DEF Kinds
      <4> QED BY <1>6, <2>2, <3>0, <4>1
    <3> QED BY <2>2, <3>1, <3>2
  <2> QED BY <1>0, <1>11, <2>1, <2>2 DEF Apply
<1>12. CASE Record
  <2>1. CASE Exists(cur)
    BY <1>1, <1>3, <1>12, <2>1, CalmProcessed DEF Record
  <2>2. CASE ~Exists(cur)
    <3>1. Due(cur)
      BY <1>1, <1>12 DEF Record, TurnInv, Turning, LlmTurn
    <3> QED BY <1>0, <1>4, <1>12, <2>2, <3>1 DEF Record, LlmTurn
  <2> QED BY <2>1, <2>2
<1>13. CASE Post
  BY <1>0, <1>4, <1>13 DEF Post, LlmTurn
<1> QED BY <1>0, <1>7, <1>8, <1>9, <1>10, <1>11, <1>12, <1>13

LEMMA CalmNext == AllInv /\ [Next]_vars => FaultlessInv'
<1> SUFFICES ASSUME AllInv, [Next]_vars, faults' = 0 PROVE AgreeInv' /\ TurnInv'
  BY DEF FaultlessInv
<1>1. CASE Next
  BY <1>1, CalmStart, CalmCycle, CalmJourney, CalmTick, CalmEdit, CalmFast, CalmReads, CalmTurn,
     KindsAssumption, Zenon DEF Next, MainStep, Between, Beside
<1>2. CASE UNCHANGED vars
  <2>1. UNCHANGED <<file, mem, disk, beat, analysed, faults, pc, queue, cur, base, seen>>
    BY <1>2 DEF vars, turn
  <2> QED BY <2>1, TurnKept, AgreeUnsaved DEF AllInv, FaultlessInv
<1> QED BY <1>1, <1>2

LEMMA CalmInit == Init => FaultlessInv
<1> SUFFICES ASSUME Init PROVE AgreeInv /\ TurnInv
  BY DEF FaultlessInv
<1>1. \A p \in Pages : file[p].rev = 1
  BY DEF Init
<1>2. AgreeInv
  BY <1>1 DEF Init, AgreeInv, Agreed, Done, FreshState
<1>3. TurnInv
  BY DEF Init, TurnInv, Turning, LlmTurn, Quarantining, Guarded, Exposed
<1> QED BY <1>2, <1>3

LEMMA AllCorrect == Spec => []AllInv
<1>1. Init => AllInv
  <2>1. Init => GateInv
    BY DEF Init, GateInv, LlmTurn
  <2> QED BY <2>1, InitTyped, LedgerInit, CalmInit DEF AllInv
<1>2. AllInv /\ [Next]_vars => AllInv'
  <2>1. AllInv => TypeInv /\ GateInv /\ LedgerInv
    BY DEF AllInv
  <2>2. TypeInv' /\ GateInv' /\ LedgerInv' /\ FaultlessInv' => AllInv'
    BY DEF AllInv
  <2> QED BY <2>1, <2>2, NextTyped, GateNext, LedgerNext, CalmNext
<1> QED BY <1>1, <1>2, PTL DEF Spec

\* Without faults no text is sent to the LLM again that was analysed, whatever stops, restarts,
\* edits and saves of the heartbeat come between (process_llm_cycle_file): what was analysed is
\* recorded in memory and on disk before the next page has its turn.
THEOREM AnalysedOnceSafe == Spec => AnalysedOnce
<1>1. AllInv /\ [Next]_vars => [Asks /\ faults = 0 /\ base # None => analysed[cur] # seen]_vars
  <2> SUFFICES ASSUME AllInv, Asks, faults = 0, base # None PROVE analysed[cur] # seen
    OBVIOUS
  <2>1. cur \in Pages /\ pc \in Guarded
    BY DEF AllInv, TypeInv, Seated, Asks, LlmTurn, Guarded
  <2>2. analysed[cur] < seen /\ analysed[cur] \in Nat /\ seen \in Nat
    BY <2>1 DEF AllInv, FaultlessInv, TurnInv, TypeInv, TypeOK
  <2> QED BY <2>2
<1> QED BY <1>1, AllCorrect, PTL DEF Spec, AnalysedOnce

\* What is done on disk stays there: in the steps that record nothing ...
LEMMA DoneKept ==
    ASSUME AllInv, faults' = 0, NEW p \in Pages, Done(disk.files[p], file[p]),
           \/ Between \/ Finalize \/ Crash \/ Beside \/ JourneyLog
           \/ HarvestRaises \/ HarvestStopped \/ Annotate \/ BeginTurn \/ ReadJournal \/ ReadPage
           \/ Pipeline \/ Reread \/ Rebase \/ Ask \/ Answer \/ Apply \/ Post
           \/ TurnFails \/ Unlockable \/ TurnMalformed
           \/ \E q \in Pages, k \in Kinds : Edit(q, k) \/ OwnWrite(q, k)
    PROVE  disk'.files[p] = disk.files[p]
<1> USE DEF boot, others, turn
<1>1. /\ ~Fault
      /\ Persist => disk' = mem' /\ UNCHANGED faults
      /\ \A l : SaveAndGoto(l) => disk' = mem' /\ UNCHANGED faults
  BY Faultless DEF AllInv, TypeInv
<1>2. /\ faults = 0
      /\ \/ disk' = disk
         \/ disk' = mem /\ pc # "off"
         \/ disk' = beat /\ beat # None
  <2>1. CASE Between \/ Finalize \/ Crash \/ Beside \/ JourneyLog
    BY <1>1, <2>1 DEF Between, LoopEnds, Idle, IdleSaved, ScanFails, Scan, FastTracked, FastTrackEnds,
                      Listed, CycleDone, PassRaises, Reload, Wake, Finalize, Crash, Beside, Reset,
                      RequestStop, BeatSnapshot, BeatSave, JourneyLog
  <2>2. CASE \/ HarvestRaises \/ HarvestStopped \/ Annotate \/ BeginTurn \/ ReadJournal \/ ReadPage
             \/ Pipeline \/ Reread \/ Rebase \/ Ask \/ Answer \/ Apply \/ Post
             \/ TurnFails \/ Unlockable \/ TurnMalformed
    BY <1>1, <2>2 DEF HarvestRaises, HarvestStopped, Annotate, BeginTurn, ReadJournal, ReadPage,
                      Pipeline, Reread, Rebase, Ask, Answer, Joined, Apply, Post, Abandon, TurnFails,
                      Unlockable, TurnMalformed
  <2>3. ASSUME NEW q \in Pages, NEW k \in Kinds, Edit(q, k) \/ OwnWrite(q, k)
        PROVE  UNCHANGED <<disk, faults>>
    BY <2>3 DEF Edit, OwnWrite
  <2> QED BY <2>1, <2>2, <2>3
<1>3. /\ beat # None => beat = mem /\ pc # "off"
      /\ pc # "off" => mem.files[p] = disk.files[p]
  BY <1>2 DEF AllInv, FaultlessInv, TurnInv, AgreeInv, Agreed
<1> QED BY <1>2, <1>3

\* ... in those that record a page, which is not done ...
LEMMA DoneKeptSettling ==
    ASSUME AllInv, faults' = 0, NEW p \in Pages, Done(disk.files[p], file[p]),
           FastTrack \/ Quarantine \/ StampJournal \/ Record \/ JourneySettle
    PROVE  disk'.files[p] = disk.files[p]
<1>1. /\ faults = 0 /\ (disk' = disk \/ disk' = mem') /\ pc # "off"
  BY Faultless DEF AllInv, TypeInv, FastTrack, Quarantine, StampJournal, Record, JourneySettle
<1>2. TypeOK /\ TurnInv /\ mem.files[p] = disk.files[p] /\ ~Due(p)
  BY <1>1 DEF AllInv, TypeInv, FaultlessInv, AgreeInv, Agreed, Due
<1>3. (FastTrack /\ p # Head) \/ (JourneySettle /\ p # Today)
      \/ ((Quarantine \/ StampJournal \/ Record) /\ p # cur)
  <2>1. FastTrack => Due(Head)
    BY <1>2, LeastIn, PagesAssumption DEF FastTrack, More, Head, TurnInv, TypeOK
  <2>2. Quarantine \/ StampJournal \/ Record => Due(cur)
    BY <1>2 DEF Quarantine, StampJournal, Record, TurnInv, Turning, LlmTurn, Quarantining
  <2>3. JourneySettle => p # Today
    BY <1>2 DEF JourneySettle, TurnInv
  <2> QED BY <1>2, <2>1, <2>2, <2>3
<1>4. mem'.files[p] = mem.files[p]
  <2>1. ASSUME NEW q, NEW r, Settle(q, r), p # q
        PROVE  mem'.files[p] = mem.files[p]
    BY <1>2, <2>1 DEF Settle, TypeOK, StateType
  <2> QED BY <1>3, <2>1 DEF FastTrack, Quarantine, StampJournal, Record, JourneySettle
<1> QED BY <1>1, <1>2, <1>4

\* ... and in those that load, hydrate or prune the ledger, or end its waits.
LEMMA DoneKeptStarting ==
    ASSUME AllInv, faults' = 0, NEW p \in Pages, Done(disk.files[p], file[p]),
           Start \/ Bootstrap \/ HarvestDone \/ HarvestMiscounts \/ CycleStart \/ Tick
    PROVE  disk'.files[p] = disk.files[p]
<1>0. mem \in StateType /\ disk \in StateType /\ Exists(p)
  BY DEF AllInv, TypeInv, TypeOK, Done, Exists
<1>1. CASE Start
  <2>1. disk' = mem'
    BY <1>1, Faultless DEF Start, AllInv, TypeInv
  <2> QED BY <1>0, <1>1, <2>1 DEF Start, StateType, Done
<1>2. CASE Bootstrap \/ HarvestDone \/ HarvestMiscounts \/ CycleStart
  <2>1. faults = 0 /\ (disk' = disk \/ disk' = mem') /\ pc # "off"
    BY <1>2, Faultless DEF Bootstrap, HarvestDone, HarvestMiscounts, CycleStart, AllInv, TypeInv
  <2>2. mem.files[p] = disk.files[p]
    BY <2>1 DEF AllInv, FaultlessInv, AgreeInv, Agreed
  <2>3. mem'.files[p] = mem.files[p]
    <3>1. CASE Bootstrap
      BY <1>0, <3>1, HydrateKeeps DEF Bootstrap
    <3>2. CASE HarvestDone \/ HarvestMiscounts
      BY <1>0, <3>2 DEF HarvestDone, HarvestMiscounts, CloseGate, StateType
    <3>3. CASE CycleStart
      <4>1. mem'.files = Prune(mem).files
        BY <1>0, <3>3, PruneTyped, HydrateKeeps DEF CycleStart
      <4> QED BY <1>0, <4>1 DEF Prune, StateType
    <3> QED BY <1>2, <3>1, <3>2, <3>3
  <2> QED BY <2>1, <2>2, <2>3
<1>3. CASE Tick
  <2>1. disk' = Unwait(disk) /\ disk.files[p] \in RecType /\ ~disk.files[p].wait
    <3>1. Honest(disk.files[p], file[p], analysed[p], slipped[p])
      BY DEF AllInv, LedgerInv, HonestInv, Ledgers
    <3> QED BY <1>0, <1>3, <3>1 DEF Tick, Done, Honest, StateType, RecType
  <2>2. [disk.files[p] EXCEPT !.wait = FALSE] = disk.files[p]
    BY <2>1 DEF RecType
  <2> QED BY <1>0, <2>1, <2>2 DEF Unwait, StateType, Done
<1> QED BY <1>1, <1>2, <1>3

\* A page recorded as processed stays so on disk while nobody writes it, through the saves of
\* the daemon and of its heartbeat thread, stops and restarts: what is saved agrees with it.
THEOREM ProcessedStaysSafe == Spec => ProcessedStays
<1>1. AllInv /\ [Next]_vars =>
        [\A p \in Pages :
            LET r == disk.files[p]
            IN  /\ faults' = 0 /\ Settles(r, p) /\ Exists(p) /\ file'[p] = file[p]
                /\ r.status = "processed"
                => disk'.files[p] = r]_vars
  <2> SUFFICES ASSUME AllInv, Next, NEW p \in Pages, faults' = 0, file'[p] = file[p],
                      Done(disk.files[p], file[p])
               PROVE  disk'.files[p] = disk.files[p]
    BY DEF Done, Settles, Exists
  <2> QED BY DoneKept, DoneKeptSettling, DoneKeptStarting, KindsAssumption, Zenon
          DEF Next, MainStep, Between, Beside
<1> QED BY <1>1, AllCorrect, PTL DEF Spec, ProcessedStays

=============================================================================
