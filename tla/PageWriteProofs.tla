-------------------------- MODULE PageWriteProofs --------------------------
(***************************************************************************)
(* Proofs about module PageWrite, for any writers, any choice of calls     *)
(* they make and whatever the human does: type correctness, the two        *)
(* lost-update properties, and that what an inference read and what its    *)
(* result is written into differ at most by the gap before the baseline.   *)
(***************************************************************************)
EXTENDS PageWrite, TLAPS

\* The writer has behind it a step named s.
Done(w, s) == \E i \in 1..(pc[w] - 1) : P(w)[i] = s

LEMMA ProgramOf == ASSUME NEW w \in Writers, TypeOK
                   PROVE  kind[w] \in Kinds /\ WellFormed(P(w))
BY ProgramsAssumption DEF P, TypeOK

\* A retry goes back to a step of the program.
LEMMA RetryInside ==
    ASSUME NEW w \in Writers, TypeOK
    PROVE  /\ RetryAt(w) \in 1..Len(P(w))
           /\ P(w)[RetryAt(w)] \in {"verify", "stage"}
<1>1. WellFormed(P(w))
  BY ProgramOf
<1>2. DOMAIN P(w) = 1..Len(P(w))
  BY <1>1 DEF WellFormed
<1> DEFINE step == IF "verify" \in Range(P(w)) THEN "verify" ELSE "stage"
<1>3. \E i \in 1..Len(P(w)) : P(w)[i] = step
  BY <1>1 DEF WellFormed
<1>4. RetryAt(w) = CHOOSE i \in 1..Len(P(w)) : P(w)[i] = step
  BY <1>2 DEF RetryAt
<1> QED BY <1>3, <1>4

\* A step that is not the last one leaves room for the next.
LEMMA RoomToAdvance ==
    ASSUME NEW w \in Writers, TypeOK, P(w)[pc[w]] # "unlock"
    PROVE  pc[w] + 1 \in 1..Len(P(w))
<1>1. pc[w] \in 1..Len(P(w)) /\ Len(P(w)) \in Nat
  BY ProgramOf DEF TypeOK, WellFormed
<1>2. pc[w] # Len(P(w))
  BY <1>1, ProgramOf DEF WellFormed
<1> QED BY <1>1, <1>2

-----------------------------------------------------------------------------
(* Type correctness *)

TypePc == /\ kind \in [Writers -> Kinds] /\ \A w \in Writers : kind[w] \in Does[w]
          /\ pc \in [Writers -> Nat \ {0}]
          /\ \A w \in Writers : pc[w] <= Len(P(w))

TypeLocal ==
    /\ holder \in Writers \cup {None}
    /\ base \in [Writers -> Nat] /\ tmp \in [Writers -> Nat] /\ tries \in [Writers -> Nat]
    /\ seen \in [Writers -> SUBSET Nat] /\ thought \in [Writers -> SUBSET Nat]
    /\ window \in [Writers -> SUBSET Nat]
    /\ gapSeen \in [Writers -> SUBSET Nat] /\ gapThought \in [Writers -> SUBSET Nat]
    /\ \A w \in Writers : base[w] < clock /\ tmp[w] < clock /\ seen[w] \subseteq 1..(clock - 1)

TypePage ==
    /\ clock \in Nat \ {0} /\ mtime \in 0..(clock - 1)
    /\ text \subseteq 1..(clock - 1) /\ byRobot \subseteq 1..(clock - 1)

LEMMA AdvanceType ==
    ASSUME NEW w \in Writers, TypeOK, P(w)[pc[w]] # "unlock", Advance(w)
    PROVE  TypePc'
<1>1. kind' = kind /\ pc' = [pc EXCEPT ![w] = pc[w] + 1]
  BY DEF Advance
<1>2. pc[w] + 1 \in 1..Len(Program[kind[w]]) /\ Len(Program[kind[w]]) \in Nat
  BY RoomToAdvance, ProgramOf DEF WellFormed, P
<1>3. pc[w] + 1 \in Nat \ {0} /\ pc[w] + 1 <= Len(Program[kind[w]])
  BY <1>2
<1> QED BY <1>1, <1>3 DEF TypeOK, TypePc, P

\* Every program has a first step.
LEMMA ProgramsBegin == \A k \in Kinds : 1 <= Len(Program[k])
BY ProgramsAssumption DEF WellFormed

LEMMA LeaveType ==
    ASSUME NEW w \in Writers, TypeOK, Leave(w), clock' = clock
    PROVE  TypePc' /\ TypeLocal'
<1>1. PICK k \in Does[w] : kind' = [kind EXCEPT ![w] = k]
  BY DEF Leave
<1>2. k \in Kinds
  BY <1>1, PageWriteAssumption
<1>3. kind' \in [Writers -> Kinds] /\ \A v \in Writers : kind'[v] \in Does[v]
  BY <1>1, <1>2 DEF TypeOK
<1>4. \A v \in Writers : pc'[v] = IF v = w THEN 1 ELSE pc[v]
  BY DEF Leave, TypeOK
<1>5. \A v \in Writers : kind'[v] = IF v = w THEN k ELSE kind[v]
  BY <1>1 DEF TypeOK
<1>6. \A v \in Writers : pc'[v] <= Len(Program[kind'[v]])
  BY <1>2, <1>4, <1>5, ProgramsBegin DEF TypeOK, P
<1>7. TypePc'
  BY <1>3, <1>6 DEF TypeOK, TypePc, Leave, P
<1>8. TypeLocal'
  BY DEF TypeOK, TypeLocal, Leave
<1> QED BY <1>7, <1>8

\* What escapes a writer is made of edits.
LEMMA UnwatchedType ==
    ASSUME TypeOK, Unwatched, text' \subseteq Nat
    PROVE  gapSeen' \in [Writers -> SUBSET Nat] /\ gapThought' \in [Writers -> SUBSET Nat]
<1>1. text \subseteq Nat
  BY DEF TypeOK
<1> DEFINE changed == (text \ text') \cup (text' \ text)
<1>2. changed \subseteq Nat
  BY <1>1
<1>3. /\ gapSeen' = [w \in Writers |-> gapSeen[w] \cup IF Blind(w, "read") THEN changed ELSE {}]
      /\ gapThought' = [w \in Writers |-> gapThought[w] \cup IF Blind(w, "think") THEN changed ELSE {}]
  BY DEF Unwatched
<1> HIDE DEF changed
<1> QED BY <1>2, <1>3 DEF TypeOK

\* A step that leaves the page leaves its type.
LEMMA PageKept == ASSUME TypeOK, UNCHANGED page PROVE TypePage' /\ clock' = clock
BY DEF TypeOK, TypePage, page

\* The types hold before anything runs.
LEMMA TypeInit == Init => TypeOK
<1> SUFFICES ASSUME Init PROVE TypeOK
  OBVIOUS
<1>1. \A v \in Writers : 1 <= Len(P(v))
  BY ProgramsBegin DEF Init, P
<1> QED BY <1>1 DEF Init, TypeOK

\* Every step keeps the types.
LEMMA TypeStep == TypeOK /\ [Next]_vars => TypeOK'
<1> SUFFICES ASSUME TypeOK, [Next]_vars PROVE TypeOK'
  OBVIOUS
<1>1. ASSUME UNCHANGED vars PROVE TypeOK'
  BY <1>1 DEF TypeOK, vars, P
<1>2. ASSUME NEW w \in Writers, Leave(w), UNCHANGED page PROVE TypeOK'
  BY <1>2, LeaveType, PageKept DEF TypeOK, TypePage, TypePc, TypeLocal
<1>3. ASSUME NEW w \in Writers, P(w)[pc[w]] # "unlock", Advance(w), TypePage', TypeLocal' PROVE TypeOK'
  BY <1>3, AdvanceType DEF TypeOK, TypePage, TypePc, TypeLocal
<1>4. ASSUME NEW w \in Writers, Step(w) PROVE TypeOK'
  <2>1. CASE Snapshot(w)
    <3>1. CASE Leave(w)
      BY <2>1, <3>1, <1>2 DEF Snapshot
    <3>2. CASE ~Leave(w)
      <4>2. base' = [base EXCEPT ![w] = mtime] /\ UNCHANGED <<page, holder, seen, thought, tmp, tries, window, gaps>>
        BY <2>1, <3>2 DEF Snapshot
      <4>3. mtime \in Nat /\ mtime < clock /\ clock' = clock /\ TypePage'
        BY <4>2, PageKept DEF TypeOK
      <4>4. base' \in [Writers -> Nat] /\ \A v \in Writers : base'[v] < clock'
        BY <4>2, <4>3 DEF TypeOK
      <4>1. TypePage' /\ TypeLocal'
        BY <4>2, <4>3, <4>4 DEF TypeOK, TypeLocal, gaps
      <4> QED BY <2>1, <3>2, <4>1, <1>3 DEF Snapshot, At
    <3> QED BY <3>1, <3>2
  <2>2. CASE Think(w)
    <3>1. TypePage' /\ TypeLocal'
      <4>1. text \in SUBSET Nat
        BY DEF TypeOK
      <4> QED BY <2>2, <4>1, PageKept DEF Think, TypeOK, TypeLocal, page
    <3> QED BY <2>2, <3>1, <1>3 DEF Think, At
  <2>3. CASE Check(w)
    <3>1. CASE Leave(w)
      BY <2>3, <3>1, <1>2 DEF Check
    <3>2. CASE Advance(w) /\ UNCHANGED <<holder, local, window>>
      <4>1. TypePage' /\ TypeLocal'
        BY <2>3, <3>2, PageKept DEF Check, TypeOK, TypeLocal, page, local
      <4> QED BY <2>3, <3>2, <4>1, <1>3 DEF Check, At
    <3> QED BY <2>3, <3>1, <3>2 DEF Check
  <2>4. CASE Lock(w)
    <3>1. TypePage' /\ TypeLocal'
      BY <2>4, PageKept DEF Lock, TypeOK, TypeLocal, page, local
    <3> QED BY <2>4, <3>1, <1>3 DEF Lock, At
  <2>5. CASE Read(w)
    <3>1. CASE Leave(w)
      BY <2>5, <3>1, <1>2 DEF Read
    <3>2. CASE ~Leave(w)
      <4>1. text \in SUBSET Nat
        BY DEF TypeOK
      <4>2. TypePage' /\ TypeLocal'
        BY <2>5, <3>2, <4>1, PageKept DEF Read, TypeOK, TypeLocal, page
      <4> QED BY <2>5, <3>2, <4>2, <1>3 DEF Read, At
    <3> QED BY <3>1, <3>2
  <2>6. CASE Adopt(w)
    <3>1. TypePage' /\ TypeLocal'
      BY <2>6, PageKept DEF Adopt, TypeOK, TypeLocal, page, gaps
    <3> QED BY <2>6, <3>1, <1>3 DEF Adopt, At
  <2>7. CASE Absent(w)
    <3>1. CASE Leave(w)
      BY <2>7, <3>1, <1>2 DEF Absent
    <3>2. CASE Advance(w) /\ UNCHANGED <<holder, local, window>>
      <4>1. TypePage' /\ TypeLocal'
        BY <2>7, <3>2, PageKept DEF Absent, TypeOK, TypeLocal, page, local
      <4> QED BY <2>7, <3>2, <4>1, <1>3 DEF Absent, At
    <3> QED BY <2>7, <3>1, <3>2 DEF Absent
  <2>8. CASE Verify(w)
    <3>1. CASE Leave(w)
      BY <2>8, <3>1, <1>2 DEF Verify
    <3>2. CASE ~Leave(w)
      <4>1. TypePage' /\ TypeLocal'
        BY <2>8, <3>2, PageKept DEF Verify, TypeOK, TypeLocal, page, local
      <4> QED BY <2>8, <3>2, <4>1, <1>3 DEF Verify, At
    <3> QED BY <3>1, <3>2
  <2>9. CASE Stage(w)
    <3>0. clock' = clock + 1 /\ clock \in Nat \ {0} /\ \A S : S \subseteq 1..(clock - 1) => S \subseteq 1..(clock' - 1)
      BY <2>9 DEF Stage, TypeOK
    <3>2. TypePage'
      BY <2>9, <3>0 DEF Stage, TypeOK, TypePage
    <3>3. tmp' = [tmp EXCEPT ![w] = clock] /\ UNCHANGED <<holder, base, seen, thought, tries, window, gapSeen, gapThought>>
      BY <2>9 DEF Stage, gaps
    <3>4. tmp' \in [Writers -> Nat] /\ \A v \in Writers : base'[v] < clock' /\ tmp'[v] < clock'
      BY <3>0, <3>3 DEF TypeOK
    <3>5. \A v \in Writers : seen'[v] \subseteq 1..(clock' - 1)
      BY <3>0, <3>3 DEF TypeOK
    <3>1. TypePage' /\ TypeLocal'
      BY <3>2, <3>3, <3>4, <3>5 DEF TypeOK, TypeLocal
    <3> QED BY <2>9, <3>1, <1>3 DEF Stage, At
  <2>10. CASE Replace(w)
    <3>1. tmp[w] \in 1..(clock - 1) /\ seen[w] \subseteq 1..(clock - 1)
      BY <2>10 DEF Replace, TypeOK
    <3>6. text' = seen[w] \cup {tmp[w]} /\ mtime' = tmp[w] /\ byRobot' = byRobot \cup {tmp[w]} /\ clock' = clock
      BY <2>10 DEF Replace
    <3>7. clock \in Nat \ {0} /\ byRobot \subseteq 1..(clock - 1)
      BY DEF TypeOK
    <3>8. tmp[w] \in 0..(clock - 1) /\ {tmp[w]} \subseteq 1..(clock - 1)
      BY <3>1, <3>7
    <3>2. TypePage'
      BY <3>1, <3>6, <3>7, <3>8 DEF TypePage
    <3>3. tmp' = [tmp EXCEPT ![w] = 0] /\ UNCHANGED <<clock, holder, base, seen, thought, tries, window>>
      BY <2>10 DEF Replace
    <3>4. tmp' \in [Writers -> Nat] /\ \A v \in Writers : tmp'[v] < clock'
      BY <3>3 DEF TypeOK
    <3>9. gapSeen' \in [Writers -> SUBSET Nat] /\ gapThought' \in [Writers -> SUBSET Nat]
      BY <2>10, <3>2, UnwatchedType DEF Replace, TypePage
    <3>5. TypeLocal'
      BY <3>3, <3>4, <3>9 DEF TypeOK, TypeLocal
    <3> QED BY <2>10, <3>2, <3>5, <1>3 DEF Replace, At
  <2>11. CASE WriteFails(w)
    <3>1. CASE Leave(w)
      BY <2>11, <3>1, <1>2 DEF WriteFails
    <3>2. CASE ~Leave(w)
      <4>1. RetryAt(w) \in Nat \ {0} /\ RetryAt(w) <= Len(P(w))
        BY RetryInside, ProgramOf DEF WellFormed
      <4>8. pc' = [pc EXCEPT ![w] = RetryAt(w)] /\ kind' = kind
        BY <2>11, <3>2 DEF WriteFails
      <4>2. TypePc'
        BY <4>1, <4>8 DEF TypeOK, TypePc, P
      <4>4. /\ tries' = [tries EXCEPT ![w] = tries[w] + 1] /\ tmp' = [tmp EXCEPT ![w] = 0]
            /\ UNCHANGED <<page, holder, base, seen, thought, window, gapSeen, gapThought>>
        BY <2>11, <3>2 DEF WriteFails, gaps
      <4>5. tries[w] + 1 \in Nat /\ clock' = clock
        BY <4>4 DEF TypeOK, page
      <4>6. tries' \in [Writers -> Nat]
        BY <4>4, <4>5 DEF TypeOK
      <4>7. tmp' \in [Writers -> Nat] /\ \A v \in Writers : tmp'[v] < clock'
        BY <4>4, <4>5 DEF TypeOK
      <4>3. TypePage' /\ TypeLocal'
        BY <4>4, <4>5, <4>6, <4>7, PageKept DEF TypeOK, TypeLocal
      <4> QED BY <4>2, <4>3 DEF TypeOK, TypePage, TypePc, TypeLocal
    <3> QED BY <3>1, <3>2
  <2>12. CASE Unlock(w)
    BY <2>12, <1>2 DEF Unlock
  <2> QED BY <1>4, <2>1, <2>2, <2>3, <2>4, <2>5, <2>6, <2>7, <2>8, <2>9, <2>10, <2>11, <2>12 DEF Step
<1>5. ASSUME NEW w \in Writers, LockUnavailable(w) \/ Crash(w) PROVE TypeOK'
  BY <1>5, <1>2 DEF LockUnavailable, Crash
<1>6. ASSUME NEW w \in Writers, SweepTmp(w) PROVE TypeOK'
  BY <1>6 DEF SweepTmp, TypeOK, page, gaps, P
<1>7. ASSUME HumanSave PROVE TypeOK'
  <2>1. text' \subseteq 1..(clock' - 1) /\ clock' \in Nat \ {0} /\ text' \subseteq Nat /\ clock' = clock + 1
    <3>1. text' = text \cup {clock} /\ clock' = clock + 1
      BY <1>7 DEF HumanSave
    <3>2. text \subseteq 1..(clock - 1) /\ clock \in Nat \ {0}
      BY DEF TypeOK
    <3> QED BY <3>1, <3>2
  <2>2. gapSeen' \in [Writers -> SUBSET Nat] /\ gapThought' \in [Writers -> SUBSET Nat]
    BY <1>7, <2>1, UnwatchedType DEF HumanSave
  <2>3. window' \in [Writers -> SUBSET Nat]
    BY <1>7 DEF HumanSave, TypeOK
  <2>4. TypePage' /\ TypePc'
    BY <1>7, <2>1 DEF HumanSave, TypeOK, TypePage, TypePc, P
  <2>5. TypeLocal'
    BY <1>7, <2>1, <2>2, <2>3 DEF HumanSave, TypeOK, TypeLocal
  <2> QED BY <2>4, <2>5 DEF TypeOK, TypePage, TypePc, TypeLocal
<1>8. ASSUME HumanDelete PROVE TypeOK'
  <2>1. text' \subseteq Nat
    BY <1>8 DEF HumanDelete
  <2>2. gapSeen' \in [Writers -> SUBSET Nat] /\ gapThought' \in [Writers -> SUBSET Nat]
    BY <1>8, <2>1, UnwatchedType DEF HumanDelete
  <2>3. TypePage' /\ TypePc' /\ TypeLocal'
    BY <1>8, <2>2 DEF HumanDelete, TypeOK, TypePage, TypePc, TypeLocal, P
  <2> QED BY <2>3 DEF TypeOK, TypePage, TypePc, TypeLocal
<1> QED BY <1>1, <1>4, <1>5, <1>6, <1>7, <1>8 DEF Next

\* Type correctness, for all programs: a program never runs past its end, and no
\* page, baseline or temporary file bears a time that has not come yet.
THEOREM TypeCorrect == Spec => []TypeOK
BY TypeInit, TypeStep, PTL DEF Spec

-----------------------------------------------------------------------------
(* Where a writer is, before and after a step *)

LEMMA AdvanceDone ==
    ASSUME NEW w \in Writers, TypeOK, Advance(w), NEW CONSTANT s
    PROVE  Done(w, s)' <=> Done(w, s) \/ P(w)[pc[w]] = s
<1>1. pc[w] \in Nat \ {0} /\ pc'[w] = pc[w] + 1
  BY DEF TypeOK, Advance
<1>3. kind' = kind
  BY DEF Advance
<1>2. Done(w, s)' <=> \E i \in 1..pc[w] : P(w)[i] = s
  BY <1>1, <1>3 DEF Done, P
<1> QED BY <1>1, <1>2 DEF Done

LEMMA LeaveDone ==
    ASSUME NEW w \in Writers, TypeOK, Leave(w), NEW CONSTANT s
    PROVE  ~Done(w, s)'
<1>1. pc'[w] = 1
  BY DEF TypeOK, Leave
<1> QED BY <1>1 DEF Done

LEMMA OthersDone ==
    ASSUME NEW v \in Writers, pc'[v] = pc[v], kind'[v] = kind[v], NEW CONSTANT s
    PROVE  Done(v, s)' <=> Done(v, s)
BY DEF Done, P

\* The writer has the text it will extend and has not written it yet.
Pending(w) == (Done(w, "read") \/ Done(w, "absent")) /\ ~Done(w, "replace")

\* Where the lock stands in every program.
LEMMA LockOrder ==
    ASSUME NEW w \in Writers, TypeOK
    PROVE  /\ At(w, "lock") => ~Done(w, "lock")
           /\ At(w, "verify") \/ At(w, "stage") \/ At(w, "replace") => Done(w, "lock")
           /\ Done(w, "verify") => Done(w, "lock")
           /\ pc' = [pc EXCEPT ![w] = RetryAt(w)] /\ kind' = kind => Done(w, "lock")'
<1>1. PICK l \in 1..Len(P(w)) : \A i \in 1..Len(P(w)) :
        /\ P(w)[i] = "lock" <=> i = l
        /\ P(w)[i] \in {"verify", "stage", "replace"} => l < i
  BY ProgramOf DEF WellFormed
<1>2. pc[w] \in 1..Len(P(w)) /\ Len(P(w)) \in Nat
  BY ProgramOf DEF TypeOK, WellFormed
<1>3. \A i \in 1..(pc[w] - 1) : i \in 1..Len(P(w))
  BY <1>2
<1>4. Done(w, "lock") <=> l < pc[w]
  BY <1>1, <1>2, <1>3 DEF Done
<1>5. Done(w, "verify") => Done(w, "lock")
  <2> SUFFICES ASSUME NEW i \in 1..(pc[w] - 1), P(w)[i] = "verify" PROVE l < pc[w]
    BY <1>4 DEF Done
  <2>1. l < i
    BY <1>1, <1>3
  <2> QED BY <2>1, <1>2
<1>6. ASSUME pc' = [pc EXCEPT ![w] = RetryAt(w)], kind' = kind PROVE Done(w, "lock")'
  <2> DEFINE n == RetryAt(w)
  <2>1. n \in 1..Len(P(w)) /\ l < n
    BY <1>1, RetryInside
  <2>2. pc'[w] = n
    BY <1>6 DEF TypeOK
  <2> HIDE DEF n
  <2>3. l \in 1..(n - 1) /\ P(w)[l] = "lock"
    BY <1>1, <1>2, <2>1
  <2> QED BY <1>6, <2>2, <2>3 DEF Done, P
<1> QED BY <1>1, <1>2, <1>4, <1>5, <1>6 DEF At

\* Where a writer is that reads the page once and under the lock.
LEMMA LockedOrder ==
    ASSUME NEW w \in Writers, TypeOK, kind[w] \in LockedKinds
    PROVE  /\ At(w, "replace") => Pending(w)
           /\ At(w, "stage") => Pending(w)
           /\ Pending(w) => Done(w, "lock")
<1>1. PICK l, r, s \in 1..Len(P(w)) :
        /\ \A i \in 1..Len(P(w)) : P(w)[i] = "lock" <=> i = l
        /\ \A i \in 1..Len(P(w)) : P(w)[i] \in {"read", "absent"} <=> i = r
        /\ \A i \in 1..Len(P(w)) : P(w)[i] = "replace" <=> i = s
        /\ \A i \in 1..Len(P(w)) : P(w)[i] \in {"verify", "stage"} => r < i /\ i < s
        /\ l < r /\ r < s
  BY ProgramsAssumption DEF LockedUpdate, P
<1>2. pc[w] \in 1..Len(P(w)) /\ Len(P(w)) \in Nat
  BY ProgramOf DEF TypeOK, WellFormed
<1>3. \A i \in 1..(pc[w] - 1) : i \in 1..Len(P(w))
  BY <1>2
<1>4. Done(w, "lock") <=> l < pc[w]
  BY <1>1, <1>2, <1>3 DEF Done
<1>5. Done(w, "read") \/ Done(w, "absent") <=> r < pc[w]
  BY <1>1, <1>2, <1>3 DEF Done
<1>6. Done(w, "replace") <=> s < pc[w]
  BY <1>1, <1>2, <1>3 DEF Done
<1> QED BY <1>1, <1>2, <1>4, <1>5, <1>6 DEF At, Pending

-----------------------------------------------------------------------------
(* Robots keep each other's edits *)

LockInv == \A w \in Writers : holder = w <=> Done(w, "lock")

MissingInv == mtime = 0 => text = {}

PendingInv == \A w \in Writers : kind[w] \in LockedKinds /\ Pending(w) => text \cap byRobot \subseteq seen[w]

RobotInv == LockInv /\ MissingInv /\ PendingInv

\* No robot's edit is pending at the start.
LEMMA RobotInit == Init => RobotInv
<1> SUFFICES ASSUME Init PROVE RobotInv
  OBVIOUS
<1>1. \A w \in Writers : pc[w] = 1 /\ holder # w
  BY PageWriteAssumption DEF Init
<1>2. \A w \in Writers : \A s : ~Done(w, s)
  BY <1>1 DEF Done
<1> QED BY <1>1, <1>2 DEF RobotInv, LockInv, MissingInv, PendingInv, Pending, Init

\* What a call leaves of the others.
LEMMA LeaveOthers ==
    ASSUME NEW w \in Writers, TypeOK, Leave(w)
    PROVE  \A v \in Writers \ {w} :
              /\ pc'[v] = pc[v] /\ kind'[v] = kind[v] /\ base'[v] = base[v]
              /\ seen'[v] = seen[v] /\ thought'[v] = thought[v] /\ window'[v] = window[v]
              /\ gapSeen'[v] = gapSeen[v] /\ gapThought'[v] = gapThought[v]
<1>1. PICK k \in Does[w] : kind' = [kind EXCEPT ![w] = k]
  BY DEF Leave
<1>2. \A v \in Writers \ {w} : kind'[v] = kind[v]
  BY <1>1 DEF TypeOK
<1> QED BY <1>2 DEF Leave, TypeOK

LEMMA AdvanceOthers ==
    ASSUME NEW w \in Writers, TypeOK, Advance(w)
    PROVE  \A v \in Writers \ {w} : pc'[v] = pc[v] /\ kind'[v] = kind[v]
BY DEF Advance, TypeOK

LEMMA LeaveKeeps ==
    ASSUME NEW w \in Writers, TypeOK, RobotInv, Leave(w), UNCHANGED page
    PROVE  RobotInv'
<1>1. \A s : ~Done(w, s)'
  BY LeaveDone
<1>2. \A v \in Writers \ {w} : pc'[v] = pc[v] /\ seen'[v] = seen[v] /\ kind'[v] = kind[v]
  BY LeaveOthers
<1>3. \A v \in Writers \ {w} : \A s : Done(v, s)' <=> Done(v, s)
  BY <1>2, OthersDone
<1>4. holder' = IF holder = w THEN None ELSE holder
  BY DEF Leave
<1>5. LockInv'
  BY <1>1, <1>3, <1>4, PageWriteAssumption DEF RobotInv, LockInv
<1>6. PendingInv'
  BY <1>1, <1>2, <1>3 DEF RobotInv, PendingInv, Pending, page
<1> QED BY <1>5, <1>6 DEF RobotInv, MissingInv, page

LEMMA AdvanceKeeps ==
    ASSUME NEW w \in Writers, TypeOK, RobotInv, Advance(w), UNCHANGED <<text, mtime, byRobot>>,
           UNCHANGED <<holder, seen>>, ~At(w, "lock"), ~At(w, "read"), ~At(w, "absent")
    PROVE  RobotInv'
<1>1. \A s : Done(w, s)' <=> Done(w, s) \/ P(w)[pc[w]] = s
  BY AdvanceDone
<1>2. \A v \in Writers \ {w} : pc'[v] = pc[v] /\ kind'[v] = kind[v]
  BY AdvanceOthers
<1>3. \A v \in Writers \ {w} : \A s : Done(v, s)' <=> Done(v, s)
  BY <1>2, OthersDone
<1>4. LockInv'
  BY <1>1, <1>3 DEF RobotInv, LockInv, At
<1>5. \A v \in Writers : Pending(v)' => Pending(v)
  BY <1>1, <1>3 DEF Pending, At
<1>6. kind' = kind
  BY DEF Advance
<1> QED BY <1>4, <1>5, <1>6 DEF RobotInv, MissingInv, PendingInv

\* While one writer is in the lock, no other is about to write a text it read
\* there.
LEMMA OneInside ==
    ASSUME TypeOK, LockInv, NEW w \in Writers, Done(w, "lock"), NEW v \in Writers, v # w
    PROVE  /\ ~Done(v, "lock") /\ ~Done(v, "verify")
           /\ kind[v] \in LockedKinds => ~Pending(v)
<1>1. ~Done(v, "lock")
  BY DEF LockInv
<1> QED BY <1>1, LockOrder, LockedOrder

\* Every step keeps what the robots have written.
LEMMA RobotStep == ASSUME TypeOK, RobotInv, [Next]_vars PROVE RobotInv'
<1>1. ASSUME UNCHANGED vars PROVE RobotInv'
  BY <1>1 DEF vars, RobotInv, LockInv, MissingInv, PendingInv, Pending, Done, P
<1>2. ASSUME NEW w \in Writers, Step(w) PROVE RobotInv'
  <2>1. CASE Snapshot(w)
    BY <2>1, AdvanceKeeps, LeaveKeeps DEF Snapshot, At, page
  <2>2. CASE Think(w)
    BY <2>2, AdvanceKeeps DEF Think, At, page
  <2>3. CASE Check(w)
    BY <2>3, AdvanceKeeps, LeaveKeeps DEF Check, At, local, page
  <2>4. CASE Lock(w)
    <3>1. \A s : Done(w, s)' <=> Done(w, s) \/ P(w)[pc[w]] = s
      BY <2>4, AdvanceDone DEF Lock
    <3>2. \A v \in Writers \ {w} : pc'[v] = pc[v] /\ kind'[v] = kind[v]
      BY <2>4, AdvanceOthers DEF Lock
    <3>3. \A v \in Writers \ {w} : \A s : Done(v, s)' <=> Done(v, s)
      BY <3>2, OthersDone
    <3>4. LockInv'
      BY <2>4, <3>1, <3>3, PageWriteAssumption DEF RobotInv, LockInv, Lock, At
    <3>5. \A v \in Writers : Pending(v)' => Pending(v)
      BY <2>4, <3>1, <3>3 DEF Pending, Lock, At
    <3> QED BY <2>4, <3>4, <3>5 DEF RobotInv, MissingInv, PendingInv, Lock, Advance, page, local
  <2>5. CASE Read(w)
    <3>1. CASE Leave(w)
      BY <2>5, <3>1, LeaveKeeps DEF Read
    <3>2. CASE Advance(w) /\ seen' = [seen EXCEPT ![w] = text] /\ holder' = holder
      <4>1. \A s : Done(w, s)' <=> Done(w, s) \/ P(w)[pc[w]] = s
        BY <3>2, AdvanceDone
      <4>2. \A v \in Writers \ {w} : pc'[v] = pc[v] /\ kind'[v] = kind[v] /\ seen'[v] = seen[v]
        BY <3>2, AdvanceOthers DEF TypeOK
      <4>3. \A v \in Writers \ {w} : \A s : Done(v, s)' <=> Done(v, s)
        BY <4>2, OthersDone
      <4>4. LockInv'
        BY <2>5, <3>2, <4>1, <4>3 DEF RobotInv, LockInv, Read, At
      <4>5. seen'[w] = text
        BY <3>2 DEF TypeOK
      <4>6. PendingInv'
        BY <2>5, <4>2, <4>3, <4>5 DEF RobotInv, PendingInv, Pending, Read, page
      <4> QED BY <2>5, <4>4, <4>6 DEF RobotInv, MissingInv, Read, page
    <3> QED BY <2>5, <3>1, <3>2 DEF Read
  <2>6. CASE Adopt(w)
    BY <2>6, AdvanceKeeps DEF Adopt, At, page
  <2>7. CASE Absent(w)
    <3>1. CASE Leave(w)
      BY <2>7, <3>1, LeaveKeeps DEF Absent
    <3>2. CASE mtime = 0 /\ Advance(w) /\ UNCHANGED <<holder, local, window>>
      <4>1. \A s : Done(w, s)' <=> Done(w, s) \/ P(w)[pc[w]] = s
        BY <3>2, AdvanceDone
      <4>2. \A v \in Writers \ {w} : pc'[v] = pc[v] /\ kind'[v] = kind[v]
        BY <3>2, AdvanceOthers
      <4>3. \A v \in Writers \ {w} : \A s : Done(v, s)' <=> Done(v, s)
        BY <4>2, OthersDone
      <4>4. LockInv'
        BY <2>7, <3>2, <4>1, <4>3 DEF RobotInv, LockInv, Absent, At
      <4>5. text = {} /\ UNCHANGED page
        BY <2>7, <3>2 DEF RobotInv, MissingInv, Absent
      <4> QED BY <4>4, <4>5 DEF RobotInv, MissingInv, PendingInv, page
    <3> QED BY <2>7, <3>1, <3>2 DEF Absent
  <2>8. CASE Verify(w)
    BY <2>8, AdvanceKeeps, LeaveKeeps DEF Verify, At, local, page
  <2>9. CASE Stage(w)
    BY <2>9, AdvanceKeeps DEF Stage, At
  <2>10. CASE Replace(w)
    <3>1. \A s : Done(w, s)' <=> Done(w, s) \/ P(w)[pc[w]] = s
      BY <2>10, AdvanceDone DEF Replace
    <3>2. \A v \in Writers \ {w} : pc'[v] = pc[v] /\ kind'[v] = kind[v]
      BY <2>10, AdvanceOthers DEF Replace
    <3>3. \A v \in Writers \ {w} : \A s : Done(v, s)' <=> Done(v, s)
      BY <3>2, OthersDone
    <3>4. LockInv'
      BY <2>10, <3>1, <3>3 DEF RobotInv, LockInv, Replace, At
    <3>5. ~Pending(w)'
      BY <2>10, <3>1 DEF Pending, Replace, At
    <3>6. Done(w, "lock")
      BY <2>10, LockOrder DEF Replace
    <3>7. \A v \in Writers \ {w} : kind[v] \in LockedKinds => ~Pending(v)'
      <4>2. \A v \in Writers \ {w} : kind[v] \in LockedKinds => ~Pending(v)
        BY <3>6, OneInside DEF RobotInv
      <4> QED BY <4>2, <3>3 DEF Pending
    <3>8. MissingInv'
      BY <2>10 DEF Replace, MissingInv
    <3>9. PendingInv'
      BY <3>2, <3>5, <3>7 DEF PendingInv
    <3> QED BY <3>4, <3>8, <3>9 DEF RobotInv
  <2>11. CASE WriteFails(w)
    <3>1. CASE Leave(w)
      BY <2>11, <3>1, LeaveKeeps DEF WriteFails
    <3>2. CASE pc' = [pc EXCEPT ![w] = RetryAt(w)] /\ UNCHANGED <<kind, holder, seen>>
      <4>1. Done(w, "lock")' /\ Done(w, "lock")
        BY <2>11, <3>2, LockOrder DEF WriteFails
      <4>2. kind[w] \in LockedKinds => Pending(w)
        BY <2>11, LockedOrder DEF WriteFails
      <4>3. \A v \in Writers \ {w} : pc'[v] = pc[v]
        BY <3>2 DEF TypeOK
      <4>4. \A v \in Writers \ {w} : \A s : Done(v, s)' <=> Done(v, s)
        BY <3>2, <4>3, OthersDone
      <4>5. LockInv'
        BY <3>2, <4>1, <4>4 DEF RobotInv, LockInv
      <4>6. \A v \in Writers : kind[v] \in LockedKinds /\ Pending(v)' => Pending(v)
        BY <4>2, <4>4 DEF Pending
      <4> QED BY <2>11, <3>2, <4>5, <4>6 DEF RobotInv, MissingInv, PendingInv, WriteFails, page
    <3> QED BY <2>11, <3>1, <3>2 DEF WriteFails
  <2>12. CASE Unlock(w)
    BY <2>12, LeaveKeeps DEF Unlock
  <2> QED BY <1>2, <2>1, <2>2, <2>3, <2>4, <2>5, <2>6, <2>7, <2>8, <2>9, <2>10, <2>11, <2>12 DEF Step
<1>3. ASSUME NEW w \in Writers, LockUnavailable(w) \/ Crash(w) PROVE RobotInv'
  BY <1>3, LeaveKeeps DEF LockUnavailable, Crash
<1>4. ASSUME NEW w \in Writers, SweepTmp(w) PROVE RobotInv'
  BY <1>4 DEF SweepTmp, RobotInv, LockInv, MissingInv, PendingInv, Pending, Done, P, page
<1>5. ASSUME HumanSave PROVE RobotInv'
  <2>1. clock \in Nat \ {0} /\ clock \notin byRobot
    BY DEF TypeOK
  <2>2. \A v \in Writers : \A s : Done(v, s)' <=> Done(v, s)
    BY <1>5, OthersDone DEF HumanSave
  <2> QED BY <1>5, <2>1, <2>2 DEF HumanSave, RobotInv, LockInv, MissingInv, PendingInv, Pending
<1>6. ASSUME HumanDelete PROVE RobotInv'
  <2>2. \A v \in Writers : \A s : Done(v, s)' <=> Done(v, s)
    BY <1>6, OthersDone DEF HumanDelete
  <2> QED BY <1>6, <2>2 DEF HumanDelete, RobotInv, LockInv, MissingInv, PendingInv, Pending
<1> QED BY <1>1, <1>2, <1>3, <1>4, <1>5, <1>6 DEF Next

\* Only os.replace changes the page while its writer moves on.
LEMMA OnlyReplaceReplaces ==
    ASSUME TypeOK, Next, NEW w \in Writers, Replaces(w)
    PROVE  Replace(w)
<1>1. At(w, "replace") /\ pc'[w] # pc[w] /\ text' # text
  BY DEF Replaces
<1>2. ASSUME NEW v \in Writers, v # w, Advance(v) \/ Leave(v) PROVE FALSE
  BY <1>1, <1>2 DEF Advance, Leave, TypeOK
<1>3. ASSUME NEW v \in Writers, Step(v) PROVE v = w
  <2> SUFFICES ASSUME v # w PROVE FALSE
    OBVIOUS
  <2>1. CASE WriteFails(v)
    BY <2>1, <1>1 DEF WriteFails, page
  <2>2. CASE ~WriteFails(v)
    BY <1>3, <2>2, <1>2 DEF Step, Snapshot, Think, Check, Lock, Read, Adopt, Absent, Verify, Stage, Replace, Unlock
  <2> QED BY <2>1, <2>2
<1>4. ASSUME Step(w) PROVE Replace(w)
  BY <1>1, <1>4 DEF Step, Snapshot, Think, Check, Lock, Read, Adopt, Absent, Verify, Stage, WriteFails, Unlock, At, page
<1>5. ASSUME NEW v \in Writers, LockUnavailable(v) \/ SweepTmp(v) \/ Crash(v) PROVE FALSE
  BY <1>1, <1>5 DEF LockUnavailable, SweepTmp, Crash, page
<1>6. ~HumanSave /\ ~HumanDelete
  BY <1>1 DEF HumanSave, HumanDelete
<1> QED BY <1>3, <1>4, <1>5, <1>6 DEF Next

\* Whatever the human does, however often writes fail and whoever is killed, no
\* robot that reads the page under the page lock drops another robot's edit,
\* whatever calls the robots make: it sees every robot's edit until it has
\* replaced the page.
THEOREM RobotUpdatesSafe == Spec => RobotUpdatesKept
<1>1. Init => TypeOK /\ RobotInv
  BY TypeInit, RobotInit
<1>2. TypeOK /\ RobotInv /\ [Next]_vars => TypeOK' /\ RobotInv'
  BY TypeStep, RobotStep
<1>3. TypeOK /\ RobotInv /\ [Next]_vars =>
        [\A w \in Writers : Replaces(w) /\ kind[w] \in LockedKinds => text \cap byRobot \subseteq text']_vars
  <2> SUFFICES ASSUME TypeOK, RobotInv, Next, NEW w \in Writers, Replaces(w), kind[w] \in LockedKinds
               PROVE  text \cap byRobot \subseteq text'
    BY DEF vars
  <2>1. Replace(w)
    BY OnlyReplaceReplaces
  <2>2. Pending(w)
    BY <2>1, LockedOrder DEF Replace
  <2> QED BY <2>1, <2>2 DEF Replace, RobotInv, PendingInv
<1> QED BY <1>1, <1>2, <1>3, PTL DEF Spec, RobotUpdatesKept

\* A temporary file bears a time that no baseline, no page and no other
\* temporary file has.
StampInv ==
    \A v \in Writers : tmp[v] # 0 =>
        /\ tmp[v] # mtime
        /\ \A u \in Writers : tmp[v] # base[u] /\ (tmp[u] = tmp[v] => u = v)

\* Every step keeps the times apart: a new one is given out once.
LEMMA StampStep == TypeOK /\ StampInv /\ [Next]_vars => StampInv'
<1> SUFFICES ASSUME TypeOK, StampInv, [Next]_vars PROVE StampInv'
  OBVIOUS
<1>1. ASSUME mtime' \in {mtime, 0, clock}, \A v \in Writers : base'[v] \in {base[v], 0, mtime} /\ tmp'[v] \in {tmp[v], 0}
      PROVE  StampInv'
  BY <1>1 DEF StampInv, TypeOK
<1>2. ASSUME NEW w \in Writers, Leave(w), UNCHANGED page PROVE StampInv'
  BY <1>1, <1>2 DEF Leave, page, TypeOK
<1>3. ASSUME NEW w \in Writers, Stage(w) PROVE StampInv'
  <2>1. tmp' = [tmp EXCEPT ![w] = clock] /\ UNCHANGED <<mtime, base>>
    BY <1>3 DEF Stage
  <2>2. \A v \in Writers : tmp'[v] = IF v = w THEN clock ELSE tmp[v]
    BY <2>1 DEF TypeOK
  <2>3. mtime < clock /\ \A v \in Writers : base[v] < clock /\ tmp[v] < clock
    BY DEF TypeOK
  <2>4. clock \in Nat /\ mtime \in Nat /\ \A v \in Writers : base[v] \in Nat /\ tmp[v] \in Nat
    BY DEF TypeOK
  <2>5. mtime # clock /\ \A v \in Writers : base[v] # clock /\ tmp[v] # clock
    BY <2>3, <2>4
  <2> QED BY <2>1, <2>2, <2>5 DEF StampInv
<1>4. ASSUME NEW w \in Writers, Replace(w) PROVE StampInv'
  BY <1>4 DEF Replace, StampInv, TypeOK
<1>5. ASSUME NEW w \in Writers,
             Snapshot(w) \/ Think(w) \/ Check(w) \/ Lock(w) \/ Read(w) \/ Adopt(w) \/ Absent(w) \/ Verify(w)
                \/ WriteFails(w) \/ Unlock(w) \/ LockUnavailable(w) \/ SweepTmp(w) \/ Crash(w)
      PROVE  StampInv'
  <2>1. CASE Leave(w)
    BY <1>2, <1>5, <2>1 DEF Snapshot, Think, Check, Lock, Read, Adopt, Absent, Verify, WriteFails, Unlock,
                            LockUnavailable, SweepTmp, Crash, page
  <2>2. CASE ~Leave(w)
    <3>1. mtime' = mtime
      BY <1>5, <2>2 DEF Snapshot, Think, Check, Lock, Read, Adopt, Absent, Verify, WriteFails, Unlock,
                        LockUnavailable, SweepTmp, Crash, page
    <3>2. \A v \in Writers : base'[v] \in {base[v], 0, mtime} /\ tmp'[v] \in {tmp[v], 0}
      BY <1>5, <2>2 DEF Snapshot, Think, Check, Lock, Read, Adopt, Absent, Verify, WriteFails, Unlock,
                        LockUnavailable, SweepTmp, Crash, local, TypeOK
    <3> QED BY <1>1, <3>1, <3>2
  <2> QED BY <2>1, <2>2
<1>6. ASSUME HumanSave \/ HumanDelete PROVE StampInv'
  BY <1>1, <1>6 DEF HumanSave, HumanDelete, local
<1>7. CASE UNCHANGED vars
  BY <1>7 DEF vars, StampInv
<1> QED BY <1>3, <1>4, <1>5, <1>6, <1>7 DEF Next, Step

-----------------------------------------------------------------------------
(* Robots notice what happens to the page *)

Watching == {w \in Writers : Watches(kind[w])}

\* No baseline stands for what the writer has read.
Uncovered(w) == base[w] = 0 \/ \E i \in pc[w]..Len(P(w)) : P(w)[i] = "snapshot"

Apart(S, T) == (S \ T) \cup (T \ S)

\* While no baseline stands, or the page still has it, page and reading differ
\* by the gap.
ReadOf(w) ==
    Done(w, "read") /\ ~Done(w, "replace") /\ (Uncovered(w) \/ base[w] = mtime) =>
        Apart(seen[w], text) \subseteq gapSeen[w]

ThoughtOf(w) ==
    Done(w, "think") /\ ~Done(w, "replace") /\ (Uncovered(w) \/ base[w] = mtime) =>
        Apart(thought[w], text) \subseteq gapThought[w]

\* Once verified, the text to be written lacks only edits of gap and window.
VerifiedOf(w) ==
    Done(w, "verify") /\ ~Done(w, "replace") =>
        /\ text \ seen[w] \subseteq window[w] \cup gapSeen[w]
        /\ Done(w, "think") => Apart(thought[w], seen[w]) \subseteq gapSeen[w] \cup gapThought[w]

EditInv(w) == ReadOf(w) /\ ThoughtOf(w) /\ VerifiedOf(w)

WatchInv == \A w \in Watching : EditInv(w)

\* Where a watching writer is, and where a retry puts it.
LEMMA WatchedOrder ==
    ASSUME NEW w \in Watching, TypeOK
    PROVE  /\ At(w, "verify") \/ At(w, "stage") \/ At(w, "replace") => Done(w, "read") /\ ~Done(w, "replace")
           /\ At(w, "stage") \/ At(w, "replace") => Done(w, "verify")
           /\ At(w, "snapshot") \/ At(w, "think") \/ At(w, "read") \/ At(w, "adopt") => ~Done(w, "verify")
           /\ ("think" \in Range(P(w)) /\ (At(w, "stage") \/ At(w, "replace"))) => Done(w, "think")
<1>0. w \in Writers /\ pc[w] \in 1..Len(P(w)) /\ Len(P(w)) \in Nat /\ DOMAIN P(w) = 1..Len(P(w))
  BY ProgramOf DEF TypeOK, WellFormed, Watching
<1>1. WatchedUpdate(P(w))
  BY <1>0, ProgramsAssumption, ProgramOf DEF Watching, P
<1>2. PICK v \in 1..Len(P(w)) :
        /\ \A i \in 1..Len(P(w)) :
              /\ P(w)[i] = "verify" <=> i = v
              /\ P(w)[i] = "stage" <=> i = v + 1
              /\ P(w)[i] = "replace" <=> i = v + 2
              /\ P(w)[i] \in {"snapshot", "think", "read", "adopt"} => i < v
        /\ \E i \in 1..Len(P(w)) : P(w)[i] = "read"
  BY <1>1 DEF WatchedUpdate
<1>3. \A i \in 1..(pc[w] - 1) : i \in 1..Len(P(w))
  BY <1>0
<1>4. Done(w, "verify") <=> v < pc[w]
  BY <1>0, <1>2, <1>3 DEF Done
<1>5. Done(w, "replace") => v + 2 < pc[w]
  <2> SUFFICES ASSUME NEW i \in 1..(pc[w] - 1), P(w)[i] = "replace" PROVE v + 2 < pc[w]
    BY DEF Done
  <2>1. i = v + 2
    BY <1>2, <1>3
  <2> QED BY <2>1, <1>0
<1>6. v <= pc[w] => Done(w, "read")
  <2>1. PICK r \in 1..Len(P(w)) : P(w)[r] = "read"
    BY <1>2
  <2>2. r < v
    BY <1>2, <2>1
  <2> QED BY <1>0, <2>1, <2>2 DEF Done
<1>7. v <= pc[w] /\ "think" \in Range(P(w)) => Done(w, "think")
  <2> SUFFICES ASSUME v <= pc[w], "think" \in Range(P(w)) PROVE Done(w, "think")
    OBVIOUS
  <2>1. PICK r \in 1..Len(P(w)) : P(w)[r] = "think"
    BY <1>0 DEF Range
  <2>2. r < v
    BY <1>2, <2>1
  <2> QED BY <1>0, <2>1, <2>2 DEF Done
<1>8. /\ At(w, "verify") => pc[w] = v
      /\ At(w, "stage") => pc[w] = v + 1
      /\ At(w, "replace") => pc[w] = v + 2
      /\ At(w, "snapshot") \/ At(w, "think") \/ At(w, "read") \/ At(w, "adopt") => pc[w] < v
  BY <1>0, <1>2 DEF At
<1>9. v \in Nat /\ pc[w] \in Nat
  BY <1>0
<1> QED BY <1>4, <1>5, <1>6, <1>7, <1>8, <1>9

\* A retry starts with the comparison, after every reading.
LEMMA RetryWatches ==
    ASSUME NEW w \in Watching, TypeOK, At(w, "stage") \/ At(w, "replace"),
           pc' = [pc EXCEPT ![w] = RetryAt(w)], kind' = kind, base' = base
    PROVE  /\ ~Done(w, "verify")'
           /\ Done(w, "read") /\ ~Done(w, "replace")
           /\ Done(w, "think")' => Done(w, "think")
           /\ Uncovered(w)' => Uncovered(w)
<1>0. w \in Writers /\ pc[w] \in 1..Len(P(w)) /\ Len(P(w)) \in Nat /\ DOMAIN P(w) = 1..Len(P(w))
  BY ProgramOf DEF TypeOK, WellFormed, Watching
<1>1. WatchedUpdate(P(w)) /\ "verify" \in Range(P(w))
  BY <1>0, ProgramsAssumption, ProgramOf DEF Watching, P, Watches
<1>2. PICK v \in 1..Len(P(w)) :
        \A i \in 1..Len(P(w)) :
              /\ P(w)[i] = "verify" <=> i = v
              /\ P(w)[i] = "stage" <=> i = v + 1
              /\ P(w)[i] = "replace" <=> i = v + 2
              /\ P(w)[i] \in {"snapshot", "think", "read", "adopt"} => i < v
  BY <1>1 DEF WatchedUpdate
<1>3. RetryAt(w) = v
  <2>1. RetryAt(w) = CHOOSE i \in 1..Len(P(w)) : P(w)[i] = "verify"
    BY <1>0, <1>1 DEF RetryAt
  <2>2. \A i \in 1..Len(P(w)) : P(w)[i] = "verify" <=> i = v
    BY <1>2
  <2> QED BY <2>1, <2>2
<1>4. pc'[w] = v /\ P(w)' = P(w)
  BY <1>0, <1>3 DEF TypeOK, P
<1>5. v < pc[w]
  BY <1>0, <1>2 DEF At
<1>6. ~Done(w, "verify")'
  BY <1>2, <1>4 DEF Done
<1>7. Done(w, "think")' => Done(w, "think")
  BY <1>0, <1>4, <1>5 DEF Done
<1>8. Uncovered(w)' => base[w] = 0
  BY <1>0, <1>2, <1>4 DEF Uncovered
<1> QED BY <1>6, <1>7, <1>8, WatchedOrder DEF Uncovered

LEMMA OthersUncovered ==
    ASSUME NEW v \in Writers, pc'[v] = pc[v], kind'[v] = kind[v], base'[v] = base[v]
    PROVE  Uncovered(v)' <=> Uncovered(v)
BY DEF Uncovered, P

\* Nothing happens to a writer or to the page.
LEMMA OthersEdit ==
    ASSUME NEW v \in Writers, EditInv(v), pc'[v] = pc[v], kind'[v] = kind[v], UNCHANGED <<text, mtime>>,
           base'[v] = base[v], seen'[v] = seen[v], thought'[v] = thought[v],
           window'[v] = window[v], gapSeen'[v] = gapSeen[v], gapThought'[v] = gapThought[v]
    PROVE  EditInv(v)'
<1>1. \A s : Done(v, s)' <=> Done(v, s)
  BY OthersDone
<1>2. Uncovered(v)' <=> Uncovered(v)
  BY OthersUncovered
<1>3. ReadOf(v)'
  BY <1>1, <1>2 DEF EditInv, ReadOf
<1>4. ThoughtOf(v)'
  BY <1>1, <1>2 DEF EditInv, ThoughtOf
<1>5. VerifiedOf(v)'
  BY <1>1 DEF EditInv, VerifiedOf
<1> QED BY <1>3, <1>4, <1>5 DEF EditInv

\* The page changes under a writer: it notices, or the change goes into its gap.
LEMMA PageMoves ==
    ASSUME NEW v \in Watching, TypeOK, EditInv(v), pc'[v] = pc[v], kind'[v] = kind[v],
           base'[v] = base[v], seen'[v] = seen[v], thought'[v] = thought[v],
           base[v] # 0 => mtime' # base[v], Unwatched,
           Done(v, "verify") /\ ~Done(v, "replace") =>
               window[v] \subseteq window'[v] /\ text' \ text \subseteq window'[v]
    PROVE  EditInv(v)'
<1>0. v \in Writers /\ Watches(kind[v])
  BY DEF Watching
<1>1. \A s : Done(v, s)' <=> Done(v, s)
  BY <1>0, OthersDone
<1>2. Uncovered(v)' <=> Uncovered(v)
  BY <1>0, OthersUncovered
<1>3. \A s : Blind(v, s) <=> Done(v, s) /\ Uncovered(v)
  BY <1>0 DEF Blind, Done, Uncovered
<1>4. /\ gapSeen'[v] = gapSeen[v] \cup IF Blind(v, "read") THEN Apart(text, text') ELSE {}
      /\ gapThought'[v] = gapThought[v] \cup IF Blind(v, "think") THEN Apart(text, text') ELSE {}
  BY <1>0 DEF Unwatched, Apart
<1>5. gapSeen[v] \subseteq gapSeen'[v] /\ gapThought[v] \subseteq gapThought'[v]
  BY <1>4
<1>6. ReadOf(v)'
  <2> SUFFICES ASSUME Done(v, "read"), ~Done(v, "replace"), Uncovered(v) \/ base[v] = mtime'
               PROVE  Apart(seen[v], text') \subseteq gapSeen'[v]
    BY <1>1, <1>2 DEF ReadOf
  <2>1. Uncovered(v)
    BY DEF Uncovered
  <2>2. Apart(seen[v], text) \subseteq gapSeen[v]
    BY <2>1 DEF EditInv, ReadOf
  <2>3. Apart(text, text') \subseteq gapSeen'[v]
    BY <1>3, <1>4, <2>1
  <2> QED BY <1>5, <2>2, <2>3 DEF Apart
<1>7. ThoughtOf(v)'
  <2> SUFFICES ASSUME Done(v, "think"), ~Done(v, "replace"), Uncovered(v) \/ base[v] = mtime'
               PROVE  Apart(thought[v], text') \subseteq gapThought'[v]
    BY <1>1, <1>2 DEF ThoughtOf
  <2>1. Uncovered(v)
    BY DEF Uncovered
  <2>2. Apart(thought[v], text) \subseteq gapThought[v]
    BY <2>1 DEF EditInv, ThoughtOf
  <2>3. Apart(text, text') \subseteq gapThought'[v]
    BY <1>3, <1>4, <2>1
  <2> QED BY <1>5, <2>2, <2>3 DEF Apart
<1>8. VerifiedOf(v)'
  <2> SUFFICES ASSUME Done(v, "verify"), ~Done(v, "replace")
               PROVE  /\ text' \ seen[v] \subseteq window'[v] \cup gapSeen'[v]
                      /\ Done(v, "think") => Apart(thought[v], seen[v]) \subseteq gapSeen'[v] \cup gapThought'[v]
    BY <1>1 DEF VerifiedOf
  <2>1. /\ text \ seen[v] \subseteq window[v] \cup gapSeen[v]
        /\ Done(v, "think") => Apart(thought[v], seen[v]) \subseteq gapSeen[v] \cup gapThought[v]
    BY DEF EditInv, VerifiedOf
  <2> QED BY <1>5, <2>1
<1> QED BY <1>6, <1>7, <1>8 DEF EditInv

LEMMA LeaveWatches ==
    ASSUME NEW w \in Writers, TypeOK, WatchInv, Leave(w), UNCHANGED page
    PROVE  WatchInv'
<1>1. \A s : ~Done(w, s)'
  BY LeaveDone
<1>2. \A v \in Writers \ {w} :
        /\ pc'[v] = pc[v] /\ kind'[v] = kind[v] /\ base'[v] = base[v]
        /\ seen'[v] = seen[v] /\ thought'[v] = thought[v] /\ window'[v] = window[v]
        /\ gapSeen'[v] = gapSeen[v] /\ gapThought'[v] = gapThought[v]
  BY LeaveOthers
<1>3. ASSUME NEW v \in Writers \ {w}, Watches(kind'[v]) PROVE EditInv(v)'
  <2>1. EditInv(v)
    BY <1>2, <1>3 DEF WatchInv, Watching
  <2> QED BY <1>2, <2>1, OthersEdit DEF page
<1>4. EditInv(w)'
  BY <1>1 DEF EditInv, ReadOf, ThoughtOf, VerifiedOf
<1> QED BY <1>3, <1>4 DEF WatchInv, Watching

\* A step that changes nothing a writer knows leaves what it knows.
LEMMA OtherWatchers ==
    ASSUME NEW w \in Writers, TypeOK, WatchInv, Advance(w), UNCHANGED <<text, mtime>>,
           \A v \in Writers \ {w} :
              /\ base'[v] = base[v] /\ seen'[v] = seen[v] /\ thought'[v] = thought[v]
              /\ window'[v] = window[v] /\ gapSeen'[v] = gapSeen[v] /\ gapThought'[v] = gapThought[v],
           w \in Watching => EditInv(w)'
    PROVE  WatchInv'
<1>1. \A v \in Writers \ {w} : pc'[v] = pc[v] /\ kind'[v] = kind[v]
  BY AdvanceOthers
<1>2. ASSUME NEW v \in Writers \ {w}, Watches(kind'[v]) PROVE EditInv(v)'
  <2>1. EditInv(v)
    BY <1>1, <1>2 DEF WatchInv, Watching
  <2> QED BY <1>1, <2>1, OthersEdit
<1>3. kind' = kind
  BY DEF Advance
<1> QED BY <1>2, <1>3 DEF WatchInv, Watching

\* Going on, a writer stays as covered as it was unless it takes a baseline.
LEMMA AdvanceCovered ==
    ASSUME NEW w \in Writers, TypeOK, Advance(w)
    PROVE  Uncovered(w)' => base'[w] = 0 \/ \E i \in pc[w]..Len(P(w)) : P(w)[i] = "snapshot"
<1>1. kind' = kind /\ pc'[w] = pc[w] + 1 /\ pc[w] \in Nat
  BY DEF Advance, TypeOK
<1>2. P(w)' = P(w) /\ Len(P(w)) \in Nat
  BY <1>1, ProgramOf DEF P, WellFormed
<1>3. \A i \in (pc[w] + 1)..Len(P(w)) : i \in pc[w]..Len(P(w))
  BY <1>1, <1>2
<1> QED BY <1>1, <1>2, <1>3 DEF Uncovered

LEMMA AdvanceWatches ==
    ASSUME NEW w \in Writers, TypeOK, WatchInv, Advance(w),
           UNCHANGED <<text, mtime, base, seen, thought, window, gapSeen, gapThought>>,
           ~At(w, "read"), ~At(w, "think"), ~At(w, "verify")
    PROVE  WatchInv'
<1>1. \A s : Done(w, s)' <=> Done(w, s) \/ P(w)[pc[w]] = s
  BY AdvanceDone
<1>2. ASSUME w \in Watching PROVE EditInv(w)'
  <2>1. /\ Done(w, "read")' => Done(w, "read")
        /\ Done(w, "think")' => Done(w, "think")
        /\ Done(w, "verify")' => Done(w, "verify")
        /\ ~Done(w, "replace")' => ~Done(w, "replace")
    BY <1>1 DEF At
  <2>2. Uncovered(w)' => Uncovered(w)
    BY AdvanceCovered DEF Uncovered
  <2>3. ReadOf(w) /\ ThoughtOf(w) /\ VerifiedOf(w)
    BY <1>2 DEF WatchInv, EditInv
  <2>4. ReadOf(w)'
    BY <2>1, <2>2, <2>3 DEF ReadOf
  <2>5. ThoughtOf(w)'
    BY <2>1, <2>2, <2>3 DEF ThoughtOf
  <2>6. VerifiedOf(w)'
    BY <2>1, <2>3 DEF VerifiedOf
  <2> QED BY <2>4, <2>5, <2>6 DEF EditInv
<1> QED BY <1>2, OtherWatchers

\* Before the comparison nothing is verified.
LEMMA BaselineWatches ==
    ASSUME NEW w \in Writers, TypeOK, WatchInv, Advance(w), At(w, "snapshot") \/ At(w, "adopt"),
           UNCHANGED <<text, mtime, seen, thought, window, gapSeen, gapThought>>,
           \A v \in Writers \ {w} : base'[v] = base[v],
           base'[w] = base[w] \/ Uncovered(w)
    PROVE  WatchInv'
<1>1. \A s : Done(w, s)' <=> Done(w, s) \/ P(w)[pc[w]] = s
  BY AdvanceDone
<1>2. ASSUME w \in Watching PROVE EditInv(w)'
  <2>1. /\ Done(w, "read")' => Done(w, "read")
        /\ Done(w, "think")' => Done(w, "think")
        /\ ~Done(w, "replace")' => ~Done(w, "replace")
        /\ ~Done(w, "verify")'
    BY <1>1, <1>2, WatchedOrder DEF At
  <2>2. Uncovered(w)' \/ base'[w] = mtime' => Uncovered(w) \/ base[w] = mtime
    BY AdvanceCovered DEF Uncovered
  <2>3. ReadOf(w) /\ ThoughtOf(w)
    BY <1>2 DEF WatchInv, EditInv
  <2>4. ReadOf(w)'
    BY <2>1, <2>2, <2>3 DEF ReadOf
  <2>5. ThoughtOf(w)'
    BY <2>1, <2>2, <2>3 DEF ThoughtOf
  <2> QED BY <2>1, <2>4, <2>5 DEF EditInv, VerifiedOf
<1> QED BY <1>2, OtherWatchers

\* Nothing is read at the start.
LEMMA WatchInit == Init => WatchInv
<1> SUFFICES ASSUME Init PROVE WatchInv
  OBVIOUS
<1>1. \A w \in Writers : \A s : ~Done(w, s)
  BY DEF Init, Done
<1> QED BY <1>1 DEF WatchInv, EditInv, ReadOf, ThoughtOf, VerifiedOf, Watching

\* Every step keeps what a watching writer knows of the page.
LEMMA WatchStep ==
    ASSUME TypeOK, RobotInv, StampInv, WatchInv, [Next]_vars
    PROVE  WatchInv'
<1>0. LockInv
  BY DEF RobotInv
<1>1. ASSUME UNCHANGED vars PROVE WatchInv'
  <2>1. Watching' = Watching
    BY <1>1 DEF vars, Watching
  <2>2. \A v \in Watching : v \in Writers /\ EditInv(v)
    BY DEF WatchInv, Watching
  <2> QED BY <1>1, <2>1, <2>2, OthersEdit DEF vars, WatchInv
<1>2. ASSUME NEW w \in Writers, Step(w) PROVE WatchInv'
  <2>1. CASE Snapshot(w)
    <3>1. CASE Leave(w)
      BY <2>1, <3>1, LeaveWatches DEF Snapshot
    <3>2. CASE Advance(w) /\ base' = [base EXCEPT ![w] = mtime] /\ UNCHANGED <<seen, thought, window, gaps>>
      <4>1. \A v \in Writers \ {w} : base'[v] = base[v]
        BY <3>2 DEF TypeOK
      <4>2. Uncovered(w)
        <5>1. pc[w] \in pc[w]..Len(P(w))
          BY ProgramOf DEF TypeOK, WellFormed
        <5> QED BY <2>1, <5>1 DEF Uncovered, Snapshot, At
      <4> QED BY <2>1, <3>2, <4>1, <4>2, BaselineWatches DEF Snapshot, page, gaps
    <3> QED BY <2>1, <3>1, <3>2 DEF Snapshot
  <2>2. CASE Think(w)
    <3>0. Advance(w) /\ thought'[w] = text /\ gapThought'[w] = {} /\ UNCHANGED <<text, mtime, base, seen, window, gapSeen>>
      BY <2>2 DEF Think, TypeOK, page
    <3>1. \A s : Done(w, s)' <=> Done(w, s) \/ P(w)[pc[w]] = s
      BY <3>0, AdvanceDone
    <3>2. \A v \in Writers \ {w} : thought'[v] = thought[v] /\ gapThought'[v] = gapThought[v]
      BY <2>2 DEF Think, TypeOK
    <3>3. ASSUME w \in Watching PROVE EditInv(w)'
      <4>1. ~Done(w, "verify")'
        BY <2>2, <3>1, <3>3, WatchedOrder DEF Think, At
      <4>2. ThoughtOf(w)'
        BY <3>0 DEF ThoughtOf, Apart
      <4>3. Uncovered(w)' => Uncovered(w)
        BY <3>0, AdvanceCovered DEF Uncovered
      <4>4. (Done(w, "read")' => Done(w, "read")) /\ (~Done(w, "replace")' => ~Done(w, "replace"))
        BY <2>2, <3>1 DEF Think, At
      <4>5. ReadOf(w)'
        BY <3>0, <3>3, <4>3, <4>4 DEF WatchInv, EditInv, ReadOf
      <4> QED BY <4>1, <4>2, <4>5 DEF EditInv, VerifiedOf
    <3> QED BY <3>0, <3>2, <3>3, OtherWatchers
  <2>3. CASE Check(w)
    BY <2>3, AdvanceWatches, LeaveWatches DEF Check, At, local, page
  <2>4. CASE Lock(w)
    BY <2>4, AdvanceWatches DEF Lock, At, local, page
  <2>5. CASE Read(w)
    <3>1. CASE Leave(w)
      BY <2>5, <3>1, LeaveWatches DEF Read
    <3>2. CASE ~Leave(w)
      <4>0. /\ Advance(w) /\ seen' = [seen EXCEPT ![w] = text] /\ gapSeen' = [gapSeen EXCEPT ![w] = {}]
            /\ UNCHANGED <<text, mtime, base, thought, window, gapThought>>
        BY <2>5, <3>2 DEF Read, page
      <4>1. \A s : Done(w, s)' <=> Done(w, s) \/ P(w)[pc[w]] = s
        BY <4>0, AdvanceDone
      <4>2. \A v \in Writers \ {w} : seen'[v] = seen[v] /\ gapSeen'[v] = gapSeen[v]
        BY <4>0 DEF TypeOK
      <4>3. seen'[w] = text
        BY <4>0 DEF TypeOK
      <4>4. ASSUME w \in Watching PROVE EditInv(w)'
        <5>1. ~Done(w, "verify")'
          BY <2>5, <4>1, <4>4, WatchedOrder DEF Read, At
        <5>2. ReadOf(w)'
          BY <4>0, <4>3 DEF ReadOf, Apart
        <5>3. Uncovered(w)' => Uncovered(w)
          BY <4>0, AdvanceCovered DEF Uncovered
        <5>4. (Done(w, "think")' => Done(w, "think")) /\ (~Done(w, "replace")' => ~Done(w, "replace"))
          BY <2>5, <4>1 DEF Read, At
        <5>5. ThoughtOf(w)'
          BY <4>0, <4>4, <5>3, <5>4 DEF WatchInv, EditInv, ThoughtOf
        <5> QED BY <5>1, <5>2, <5>5 DEF EditInv, VerifiedOf
      <4> QED BY <4>0, <4>2, <4>4, OtherWatchers
    <3> QED BY <3>1, <3>2
  <2>6. CASE Adopt(w)
    <3>1. \A v \in Writers : base'[v] = IF v = w /\ base[w] = 0 THEN mtime ELSE base[v]
      BY <2>6 DEF Adopt, TypeOK
    <3> QED BY <2>6, <3>1, BaselineWatches DEF Adopt, page, gaps, Uncovered
  <2>7. CASE Absent(w)
    BY <2>7, AdvanceWatches, LeaveWatches DEF Absent, At, local, page
  <2>8. CASE Verify(w)
    <3>1. CASE Leave(w)
      BY <2>8, <3>1, LeaveWatches DEF Verify
    <3>2. CASE ~Leave(w)
      <4>0. /\ ~Drifted(w) /\ Advance(w) /\ window' = [window EXCEPT ![w] = {}]
            /\ UNCHANGED <<text, mtime, base, seen, thought, gapSeen, gapThought>>
        BY <2>8, <3>2 DEF Verify, page, local
      <4>1. \A s : Done(w, s)' <=> Done(w, s) \/ P(w)[pc[w]] = s
        BY <4>0, AdvanceDone
      <4>2. \A v \in Writers \ {w} : window'[v] = window[v]
        BY <4>0 DEF TypeOK
      <4>3. Uncovered(w) \/ base[w] = mtime
        BY <4>0 DEF Drifted, Uncovered
      <4>4. ASSUME w \in Watching PROVE EditInv(w)'
        <5>1. Done(w, "read") /\ ~Done(w, "replace")
          BY <2>8, <4>4, WatchedOrder DEF Verify
        <5>2. EditInv(w)
          BY <4>4 DEF WatchInv
        <5>3. Apart(seen[w], text) \subseteq gapSeen[w]
          BY <4>3, <5>1, <5>2 DEF EditInv, ReadOf
        <5>4. Done(w, "think") => Apart(thought[w], text) \subseteq gapThought[w]
          BY <4>3, <5>1, <5>2 DEF EditInv, ThoughtOf
        <5>5. (Done(w, "think")' => Done(w, "think")) /\ Apart(seen[w], text)' = Apart(seen[w], text)
              /\ Apart(thought[w], text)' = Apart(thought[w], text)
          BY <2>8, <4>0, <4>1 DEF Verify, At
        <5>6. ReadOf(w)' /\ ThoughtOf(w)'
          BY <4>0, <5>3, <5>4, <5>5 DEF ReadOf, ThoughtOf
        <5>7. VerifiedOf(w)'
          BY <4>0, <5>3, <5>4, <5>5 DEF VerifiedOf, Apart
        <5> QED BY <5>6, <5>7 DEF EditInv
      <4> QED BY <4>0, <4>2, <4>4, OtherWatchers
    <3> QED BY <3>1, <3>2
  <2>9. CASE Stage(w)
    BY <2>9, AdvanceWatches DEF Stage, At, gaps
  <2>10. CASE Replace(w)
    <3>0. Advance(w) /\ Unwatched /\ mtime' = tmp[w] /\ tmp[w] # 0 /\ UNCHANGED <<base, seen, thought, window>>
      BY <2>10 DEF Replace
    <3>1. \A s : Done(w, s)' <=> Done(w, s) \/ P(w)[pc[w]] = s
      BY <3>0, AdvanceDone
    <3>2. \A v \in Writers \ {w} : pc'[v] = pc[v] /\ kind'[v] = kind[v]
      BY <3>0, AdvanceOthers
    <3>3. \A v \in Writers : mtime' # base[v]
      BY <3>0 DEF StampInv
    <3>4. Done(w, "lock")
      BY <2>10, LockOrder DEF Replace
    <3>5. ASSUME NEW v \in Writers \ {w}, Watches(kind'[v]) PROVE EditInv(v)'
      <4>1. v \in Watching /\ EditInv(v)
        BY <3>2, <3>5 DEF WatchInv, Watching
      <4>2. ~Done(v, "verify")
        BY <1>0, <3>4, OneInside
      <4> QED BY <3>0, <3>2, <3>3, <4>1, <4>2, PageMoves
    <3>6. EditInv(w)'
      BY <2>10, <3>1 DEF EditInv, ReadOf, ThoughtOf, VerifiedOf, Replace, At
    <3> QED BY <3>5, <3>6 DEF WatchInv, Watching
  <2>11. CASE WriteFails(w)
    <3>1. CASE Leave(w)
      BY <2>11, <3>1, LeaveWatches DEF WriteFails
    <3>2. CASE ~Leave(w)
      <4>0. /\ pc' = [pc EXCEPT ![w] = RetryAt(w)]
            /\ UNCHANGED <<kind, text, mtime, base, seen, thought, window, gapSeen, gapThought>>
        BY <2>11, <3>2 DEF WriteFails, page, gaps
      <4>1. \A v \in Writers \ {w} : pc'[v] = pc[v]
        BY <4>0 DEF TypeOK
      <4>2. ASSUME NEW v \in Writers \ {w}, Watches(kind'[v]) PROVE EditInv(v)'
        <5>1. EditInv(v)
          BY <4>0, <4>2 DEF WatchInv, Watching
        <5> QED BY <4>0, <4>1, <5>1, OthersEdit
      <4>3. ASSUME w \in Watching PROVE EditInv(w)'
        <5>1. /\ ~Done(w, "verify")'
              /\ Done(w, "read") /\ ~Done(w, "replace")
              /\ Done(w, "think")' => Done(w, "think")
              /\ Uncovered(w)' => Uncovered(w)
          BY <2>11, <4>0, <4>3, RetryWatches DEF WriteFails
        <5>2. EditInv(w)
          BY <4>3 DEF WatchInv
        <5>3. ReadOf(w)'
          BY <4>0, <5>1, <5>2 DEF EditInv, ReadOf
        <5>4. ThoughtOf(w)'
          BY <4>0, <5>1, <5>2 DEF EditInv, ThoughtOf
        <5> QED BY <5>1, <5>3, <5>4 DEF EditInv, VerifiedOf
      <4> QED BY <4>0, <4>2, <4>3 DEF WatchInv, Watching
    <3> QED BY <3>1, <3>2
  <2>12. CASE Unlock(w)
    BY <2>12, LeaveWatches DEF Unlock
  <2> QED BY <1>2, <2>1, <2>2, <2>3, <2>4, <2>5, <2>6, <2>7, <2>8, <2>9, <2>10, <2>11, <2>12 DEF Step
<1>3. ASSUME NEW w \in Writers, LockUnavailable(w) \/ Crash(w) PROVE WatchInv'
  BY <1>3, LeaveWatches DEF LockUnavailable, Crash
<1>4. ASSUME NEW w \in Writers, SweepTmp(w) PROVE WatchInv'
  <2>1. Watching' = Watching
    BY <1>4 DEF SweepTmp, Watching
  <2>2. \A v \in Watching : v \in Writers /\ EditInv(v)
    BY DEF WatchInv, Watching
  <2> QED BY <1>4, <2>1, <2>2, OthersEdit DEF SweepTmp, WatchInv, page, gaps
<1>5. ASSUME HumanSave PROVE WatchInv'
  <2>1. Watching' = Watching
    BY <1>5 DEF HumanSave, Watching
  <2>2. \A v \in Watching : v \in Writers /\ EditInv(v) /\ mtime' # base[v]
    BY <1>5 DEF HumanSave, WatchInv, Watching, TypeOK
  <2>3. \A v \in Writers : window'[v] = window[v] \cup {clock} /\ text' \ text \subseteq {clock}
    BY <1>5 DEF HumanSave
  <2> QED BY <1>5, <2>1, <2>2, <2>3, PageMoves DEF HumanSave, WatchInv
<1>6. ASSUME HumanDelete PROVE WatchInv'
  <2>1. Watching' = Watching
    BY <1>6 DEF HumanDelete, Watching
  <2>2. \A v \in Watching : v \in Writers /\ EditInv(v)
    BY DEF WatchInv, Watching
  <2>3. mtime' = 0 /\ text' \ text = {}
    BY <1>6 DEF HumanDelete
  <2> QED BY <1>6, <2>1, <2>2, <2>3, PageMoves DEF HumanDelete, WatchInv
<1> QED BY <1>1, <1>2, <1>3, <1>4, <1>5, <1>6 DEF Next

-----------------------------------------------------------------------------
(* The theorems about watching *)

\* Every call that infers compares mtimes.
LEMMA ThinkersWatch ==
    ASSUME TypeOK, NEW w \in Writers, "think" \in Range(P(w))
    PROVE  w \in Watching
<1>1. kind[w] \in {"semantic", "relint", "property", "edit", "append", "alias", "rewrite", "stale", "seed"}
  BY DEF TypeOK, Kinds, Program
<1>2. "verify" \in Range(SemanticWrite) /\ "verify" \in Range(SemanticAfterLint)
  <2>1. SemanticWrite[12] = "verify" /\ 12 \in DOMAIN SemanticWrite
    BY DEF SemanticWrite
  <2>2. SemanticAfterLint[14] = "verify" /\ 14 \in DOMAIN SemanticAfterLint
    BY DEF SemanticAfterLint
  <2> QED BY <2>1, <2>2 DEF Range
<1>3. "think" \notin Range(PropertyEdit) /\ "think" \notin Range(CheckedEdit)
  BY DEF PropertyEdit, CheckedEdit, Range
<1>4. "think" \notin Range(LockedAppend) /\ "think" \notin Range(AliasAppend)
  BY DEF LockedAppend, AliasAppend, Range
<1>5. "think" \notin Range(LockedRewrite) /\ "think" \notin Range(StaleRewrite) /\ "think" \notin Range(SeedPage)
  BY DEF LockedRewrite, StaleRewrite, SeedPage, Range
<1> QED BY <1>1, <1>2, <1>3, <1>4, <1>5 DEF Program, Watching, Watches, P

Inv == TypeOK /\ RobotInv /\ StampInv /\ WatchInv

\* The parts of the invariant hold together.
LEMMA InvHolds == Spec => []Inv
<1>1. Init => Inv
  <2>1. Init => StampInv
    BY DEF Init, StampInv
  <2> QED BY <2>1, TypeInit, RobotInit, WatchInit DEF Inv
<1>2. Inv /\ [Next]_vars => Inv'
  BY TypeStep, RobotStep, StampStep, WatchStep DEF Inv
<1> QED BY <1>1, <1>2, PTL DEF Spec

\* Whoever else writes, whatever the human does and whatever order a call takes
\* its text and its baseline in, a robot that compares mtimes drops only what was
\* saved after its last comparison and what came in the gap before its baseline.
THEOREM HumanEditsSafe == Spec => HumanEditsKept
<1>1. Inv /\ [Next]_vars =>
        [\A w \in Writers : Replaces(w) /\ Watches(kind[w]) =>
            text \ text' \subseteq window[w] \cup gapSeen[w]]_vars
  <2> SUFFICES ASSUME Inv, Next, NEW w \in Writers, Replaces(w), Watches(kind[w])
               PROVE  text \ text' \subseteq window[w] \cup gapSeen[w]
    BY DEF vars
  <2>1. Replace(w)
    BY OnlyReplaceReplaces DEF Inv
  <2>2. w \in Watching
    BY DEF Watching
  <2>3. Done(w, "verify") /\ ~Done(w, "replace")
    BY <2>1, <2>2, WatchedOrder DEF Inv, Replace
  <2>4. text \ seen[w] \subseteq window[w] \cup gapSeen[w]
    BY <2>2, <2>3 DEF Inv, WatchInv, EditInv, VerifiedOf
  <2>5. seen[w] \subseteq text'
    BY <2>1 DEF Replace
  <2> QED BY <2>4, <2>5
<1> QED BY <1>1, InvHolds, PTL DEF Spec, HumanEditsKept

\* The daemon never writes what was inferred from another text, but for the gap:
\* whatever order it reads and takes its baseline in, the text of the inference
\* and the text that is written differ at most by what came or went in between
\* (the retake after the lint modules reads first, daemon_llm_cycle.py).
THEOREM InferenceSafe == Spec => []InferenceCurrent
<1>1. Inv => InferenceCurrent
  <2> SUFFICES ASSUME Inv, NEW w \in Writers, At(w, "replace"), "think" \in Range(P(w))
               PROVE  Apart(thought[w], seen[w]) \subseteq gapSeen[w] \cup gapThought[w]
    BY DEF InferenceCurrent, Apart
  <2>1. w \in Watching
    BY ThinkersWatch DEF Inv
  <2>2. Done(w, "verify") /\ ~Done(w, "replace") /\ Done(w, "think")
    BY <2>1, WatchedOrder DEF Inv
  <2> QED BY <2>1, <2>2 DEF Inv, WatchInv, EditInv, VerifiedOf
<1> QED BY <1>1, InvHolds, PTL

-----------------------------------------------------------------------------
(* Where the baseline comes first *)

\* The page is there, and a call past its first step has a baseline.
FirstInv ==
    /\ mtime # 0
    /\ \A w \in Writers : kind[w] \in BaselineFirstKinds =>
          /\ pc[w] > 1 => base[w] # 0
          /\ gapSeen[w] = {} /\ gapThought[w] = {}

\* They take no baseline later, but at the write if there is none.
LEMMA FirstPrograms ==
    ASSUME NEW k \in BaselineFirstKinds
    PROVE  Program[k][1] = "snapshot" /\ \A i \in 2..Len(Program[k]) : Program[k][i] # "snapshot"
<1>1. SemanticWrite[1] = "snapshot" /\ \A i \in 2..Len(SemanticWrite) : SemanticWrite[i] # "snapshot"
  BY DEF SemanticWrite
<1>2. PropertyEdit[1] = "snapshot" /\ \A i \in 2..Len(PropertyEdit) : PropertyEdit[i] # "snapshot"
  BY DEF PropertyEdit
<1>3. CheckedEdit[1] = "snapshot" /\ \A i \in 2..Len(CheckedEdit) : CheckedEdit[i] # "snapshot"
  BY DEF CheckedEdit
<1> QED BY <1>1, <1>2, <1>3 DEF BaselineFirstKinds, Program

LEMMA FirstSteps ==
    ASSUME TypeOK, NEW w \in Writers, kind[w] \in BaselineFirstKinds
    PROVE  /\ pc[w] = 1 => At(w, "snapshot")
           /\ pc[w] > 1 => \A i \in pc[w]..Len(P(w)) : P(w)[i] # "snapshot"
<1>1. \A i \in 2..Len(P(w)) : P(w)[i] # "snapshot"
  BY FirstPrograms DEF P
<1>2. P(w)[1] = "snapshot"
  BY FirstPrograms DEF P
<1>3. pc[w] \in Nat /\ Len(P(w)) \in Nat
  BY ProgramOf DEF TypeOK, WellFormed
<1> QED BY <1>1, <1>2, <1>3 DEF At

\* Nothing escapes a writer that has a baseline and takes no other.
LEMMA NothingEscapes ==
    ASSUME TypeOK, FirstInv, Unwatched, NEW w \in Writers, kind[w] \in BaselineFirstKinds
    PROVE  gapSeen'[w] = {} /\ gapThought'[w] = {}
<1>1. ASSUME NEW s, Blind(w, s) PROVE FALSE
  <2>1. PICK i \in 1..(pc[w] - 1) : TRUE
    BY <1>1 DEF Blind
  <2>2. pc[w] > 1
    BY <2>1 DEF TypeOK
  <2> QED BY <1>1, <2>2, FirstSteps DEF Blind, FirstInv
<1> QED BY <1>1 DEF Unwatched, FirstInv

\* Every step keeps the baselines of those calls, and the page.
LEMMA FirstStep ==
    ASSUME PageAtStart, "delete" \notin HumanActs, TypeOK, FirstInv, [Next]_vars
    PROVE  FirstInv'
<1>1. ASSUME NEW w \in Writers, Leave(w), UNCHANGED page PROVE FirstInv'
  <2>1. \A v \in Writers \ {w} :
          /\ pc'[v] = pc[v] /\ kind'[v] = kind[v] /\ base'[v] = base[v]
          /\ gapSeen'[v] = gapSeen[v] /\ gapThought'[v] = gapThought[v]
    BY <1>1, LeaveOthers
  <2>2. pc'[w] = 1 /\ gapSeen'[w] = {} /\ gapThought'[w] = {}
    BY <1>1 DEF Leave, TypeOK
  <2> QED BY <1>1, <2>1, <2>2 DEF FirstInv, page
<1>2. ASSUME NEW w \in Writers, kind' = kind, mtime' # 0,
             \A v \in Writers \ {w} : pc'[v] = pc[v] /\ base'[v] = base[v],
             kind[w] \in BaselineFirstKinds => base'[w] # 0,
             \A v \in Writers : kind[v] \in BaselineFirstKinds => gapSeen'[v] = {} /\ gapThought'[v] = {}
      PROVE  FirstInv'
  BY <1>2 DEF FirstInv
<1>3. ASSUME NEW w \in Writers,
             Snapshot(w) \/ Think(w) \/ Check(w) \/ Lock(w) \/ Read(w) \/ Adopt(w) \/ Absent(w) \/ Verify(w)
                \/ Stage(w) \/ WriteFails(w) \/ Unlock(w) \/ LockUnavailable(w) \/ Crash(w) \/ Replace(w)
      PROVE  FirstInv'
  <2>1. CASE Leave(w) /\ UNCHANGED page
    BY <1>1, <2>1
  <2>2. CASE ~(Leave(w) /\ UNCHANGED page)
    <3>1. /\ kind' = kind /\ \A v \in Writers \ {w} : pc'[v] = pc[v] /\ base'[v] = base[v]
      BY <1>3, <2>2 DEF Snapshot, Think, Check, Lock, Read, Adopt, Absent, Verify, Stage, WriteFails, Unlock,
                        LockUnavailable, Crash, Replace, Advance, local, TypeOK
    <3>2. mtime' # 0
      BY <1>3, <2>2 DEF Snapshot, Think, Check, Lock, Read, Adopt, Absent, Verify, Stage, WriteFails, Unlock,
                        LockUnavailable, Crash, Replace, page, FirstInv
    <3>3. ASSUME kind[w] \in BaselineFirstKinds PROVE base'[w] # 0
      <4>1. CASE Snapshot(w) \/ Adopt(w)
        BY <2>2, <3>3, <4>1 DEF Snapshot, Adopt, TypeOK, FirstInv
      <4>2. CASE ~(Snapshot(w) \/ Adopt(w))
        <5>1. ~At(w, "snapshot")
          BY <1>3, <2>2, <4>2 DEF Think, Check, Lock, Read, Absent, Verify, Stage, WriteFails, Unlock,
                        LockUnavailable, Crash, Replace, At
        <5>2. pc[w] > 1
          BY <3>3, <5>1, FirstSteps DEF TypeOK
        <5>3. base' = base
          BY <1>3, <2>2, <4>2 DEF Think, Check, Lock, Read, Absent, Verify, Stage, WriteFails, Unlock,
                        LockUnavailable, Crash, Replace, local
        <5> QED BY <3>3, <5>2, <5>3 DEF FirstInv
      <4> QED BY <4>1, <4>2
    <3>4. ASSUME NEW v \in Writers, kind[v] \in BaselineFirstKinds PROVE gapSeen'[v] = {} /\ gapThought'[v] = {}
      <4>1. CASE Replace(w)
        BY <3>4, <4>1, NothingEscapes DEF Replace
      <4>2. CASE ~Replace(w)
        BY <1>3, <2>2, <3>4, <4>2 DEF Snapshot, Think, Check, Lock, Read, Adopt, Absent, Verify, Stage, WriteFails,
                        Unlock, LockUnavailable, Crash, local, gaps, TypeOK, FirstInv
      <4> QED BY <4>1, <4>2
    <3> QED BY <1>2, <3>1, <3>2, <3>3, <3>4
  <2> QED BY <2>1, <2>2
<1>4. ASSUME NEW w \in Writers, SweepTmp(w) PROVE FirstInv'
  BY <1>4 DEF SweepTmp, FirstInv, page, gaps
<1>5. ASSUME HumanSave PROVE FirstInv'
  <2>1. \A v \in Writers : kind[v] \in BaselineFirstKinds => gapSeen'[v] = {} /\ gapThought'[v] = {}
    BY <1>5, NothingEscapes DEF HumanSave
  <2> QED BY <1>5, <2>1 DEF HumanSave, FirstInv, TypeOK
<1>6. ~HumanDelete
  BY DEF HumanDelete
<1>7. CASE UNCHANGED vars
  BY <1>7 DEF vars, FirstInv
<1> QED BY <1>3, <1>4, <1>5, <1>6, <1>7 DEF Next, Step

\* Of a page that is and stays there, no edit escapes a call that captures its
\* baseline before it reads or infers: with the two theorems above, it drops
\* nothing it could have noticed and writes only what was inferred from the text
\* it replaces.
THEOREM BaselineFirstSafe ==
    ASSUME PageAtStart, "delete" \notin HumanActs
    PROVE  Spec => []BaselineFirst
<1>1. Init => TypeOK /\ FirstInv
  BY TypeInit DEF Init, FirstInv
<1>2. TypeOK /\ FirstInv /\ [Next]_vars => TypeOK' /\ FirstInv'
  BY TypeStep, FirstStep
<1>3. FirstInv => BaselineFirst
  BY DEF FirstInv, BaselineFirst
<1> QED BY <1>1, <1>2, <1>3, PTL DEF Spec
============================================================================
