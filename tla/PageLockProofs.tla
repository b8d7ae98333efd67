--------------------------- MODULE PageLockProofs ---------------------------
(***************************************************************************)
(* Proofs about page_rmw_lock, for any number of threads, processes, pages *)
(* and nested entries, with and without flock, crashes and sweeps.         *)
(***************************************************************************)
EXTENDS PageLock, SequenceTheorems, FiniteSetTheorems, WellFoundedInduction, TLAPS

\* Dropping an element of a sequence leaves a sequence over the same set.
LEMMA RemoveAtType ==
    ASSUME NEW S, NEW s \in Seq(S), NEW i \in DOMAIN s
    PROVE  RemoveAt(s, i) \in Seq(S)
<1>1. i \in 1..Len(s) /\ Len(s) \in Nat
  BY LenProperties
<1>2. SubSeq(s, 1, i-1) \in Seq(S)
  <2>1. \A j \in 1..(i-1) : s[j] \in S
    BY <1>1, ElementOfSeq
  <2> QED BY <1>1, <2>1, SubSeqProperties
<1>3. SubSeq(s, i+1, Len(s)) \in Seq(S)
  <2>1. \A j \in (i+1)..Len(s) : s[j] \in S
    BY <1>1, ElementOfSeq
  <2> QED BY <1>1, <2>1, SubSeqProperties
<1> QED BY <1>2, <1>3, ConcatProperties DEF RemoveAt

\* The sequence without its last element: one shorter, over the same set.
LEMMA FrontType ==
    ASSUME NEW S, NEW s \in Seq(S)
    PROVE  /\ Front(s) \in Seq(S)
           /\ Len(s) > 0 => Len(Front(s)) = Len(s) - 1
<1>1. Len(s) \in Nat
  BY LenProperties
<1>2. \A j \in 1..(Len(s)-1) : s[j] \in S
  BY <1>1, ElementOfSeq
<1> DEFINE n == Len(s) - 1
<1>3. n \in Int
  BY <1>1
<1> HIDE DEF n
<1>4. /\ SubSeq(s, 1, n) \in Seq(S)
      /\ Len(SubSeq(s, 1, n)) = IF 1 <= n THEN n - 1 + 1 ELSE 0
  BY <1>3, <1>2, SubSeqProperties DEF n
<1>5. Front(s) = SubSeq(s, 1, n)
  BY DEF Front, n
<1>6. n >= 0 => (IF 1 <= n THEN n - 1 + 1 ELSE 0) = n
  BY <1>3
<1>7. Len(s) > 0 => n >= 0
  BY <1>1 DEF n
<1>8. Len(s) > 0 => Len(Front(s)) = n
  BY <1>4, <1>5, <1>6, <1>7, Zenon
<1> QED BY <1>4, <1>5, <1>8 DEF n

\* The least index of a non-empty set of registry places is one of them.
LEMMA LeastIn ==
    ASSUME NEW S \in SUBSET Nat, S # {}
    PROVE  Least(S) \in S
<1>1. PICK x \in S : \A y \in S : ~(<<y, x>> \in OpToRel(<, Nat))
  BY WFMin, NatLessThanWellFounded
<1>2. ASSUME NEW y \in S, y < x PROVE FALSE
  <2>1. <<y, x>> \in OpToRel(<, Nat)
    BY <1>2, Zenon DEF OpToRel
  <2> QED BY <1>1, <2>1
<1>3. \A y \in S : x <= y
  BY <1>2
<1> QED BY <1>3 DEF Least

\* Evicting an entry leaves a list of entries.
LEMMA EvictionType ==
    ASSUME TypeOK, NEW p \in Procs, NEW t \in Threads
    PROVE  AfterEviction(p, t) \in Seq(Entry)
<1>1. registry[p] \in Seq(Entry)
  BY DEF TypeOK
<1>2. ASSUME Unheld(p, t) # {}
      PROVE  RemoveAt(registry[p], Least(Unheld(p, t))) \in Seq(Entry)
  <2>1. Unheld(p, t) \in SUBSET (1..Len(registry[p]))
    BY <1>1, LenProperties DEF Unheld
  <2>2. Unheld(p, t) \in SUBSET Nat
    BY <1>1, <2>1, LenProperties
  <2>3. Least(Unheld(p, t)) \in DOMAIN registry[p]
    BY <1>2, <2>2, LeastIn DEF Unheld
  <2> QED BY <1>1, <2>3, RemoveAtType
<1> QED BY <1>1, <1>2 DEF AfterEviction

\* _lock_for_key hands a lock object to the caller and leaves the registry a
\* list of entries.
LEMMA LockForKeyType ==
    ASSUME TypeOK, NEW t \in Threads, NEW k \in Keys, LockForKey(t, k)
    PROVE  /\ registry' \in [Procs -> Seq(Entry)]
           /\ \E l \in LockIds : ref' = [ref EXCEPT ![t] = l]
<1> DEFINE p == ProcOf[t]
<1>1. p \in Procs
  BY PageLockAssumption
<1>2. registry \in [Procs -> Seq(Entry)] /\ registry[p] \in Seq(Entry)
  BY <1>1 DEF TypeOK
<1> HIDE DEF p
<1>3. CASE \E i \in Places(p, k) :
              /\ ref' = [ref EXCEPT ![t] = registry[p][i].lock]
              /\ registry' = [registry EXCEPT ![p] = Append(RemoveAt(@, i), @[i])]
  <2>1. PICK i \in Places(p, k) :
              /\ ref' = [ref EXCEPT ![t] = registry[p][i].lock]
              /\ registry' = [registry EXCEPT ![p] = Append(RemoveAt(@, i), @[i])]
    BY <1>3
  <2>2. i \in DOMAIN registry[p]
    BY DEF Places
  <2>3. registry[p][i] \in Entry
    BY <1>2, <2>2, LenProperties, ElementOfSeq
  <2>4. RemoveAt(registry[p], i) \in Seq(Entry)
    BY <1>2, <2>2, RemoveAtType
  <2>5. Append(RemoveAt(registry[p], i), registry[p][i]) \in Seq(Entry)
    BY <2>3, <2>4, AppendProperties
  <2> QED BY <1>2, <2>1, <2>3, <2>5 DEF Entry
<1>4. CASE /\ FreeLocks # {}
           /\ LET l == CHOOSE x \in FreeLocks : TRUE IN
              /\ ref' = [ref EXCEPT ![t] = l]
              /\ registry' = [registry EXCEPT ![p] = Append(AfterEviction(p, t), [key |-> k, lock |-> l])]
  <2> DEFINE l == CHOOSE x \in FreeLocks : TRUE
  <2>1. l \in LockIds
    BY <1>4 DEF FreeLocks
  <2>2. /\ ref' = [ref EXCEPT ![t] = l]
        /\ registry' = [registry EXCEPT ![p] = Append(AfterEviction(p, t), [key |-> k, lock |-> l])]
    BY <1>4
  <2> HIDE DEF l
  <2>3. [key |-> k, lock |-> l] \in Entry
    BY <2>1 DEF Entry
  <2>4. Append(AfterEviction(p, t), [key |-> k, lock |-> l]) \in Seq(Entry)
    BY <1>1, <2>3, EvictionType, AppendProperties
  <2> QED BY <1>2, <2>1, <2>2, <2>4
<1> QED BY <1>3, <1>4 DEF LockForKey, p

-----------------------------------------------------------------------------
\* The initial state is well typed and nobody holds anything.
LEMMA InitCall == Init => TypeOK /\ CallInv
<1> SUFFICES ASSUME Init PROVE TypeOK /\ CallInv
  OBVIOUS
<1>1. TypeOK
  BY EmptySeq DEF Init, TypeOK, Labels
<1>2. CallInv
  BY DEF Init, CallInv
<1> QED BY <1>1, <1>2

\* A thread that has just been given an RLock by _lock_for_key.
LEMMA CallStep ==
    ASSUME TypeOK, CallInv, NEW t \in Threads,
           Reenter(t) \/ \E k \in Keys, m \in Modes : Call(t, k, m)
    PROVE  TypeOK' /\ CallInv'
<1>1. CASE Reenter(t)
  <2>1. key[t] \in Keys
    BY <1>1 DEF Reenter, CallInv
  <2>2. registry' \in [Procs -> Seq(Entry)]
    BY <1>1, <2>1, LockForKeyType DEF Reenter
  <2>3. PICK l \in LockIds : ref' = [ref EXCEPT ![t] = l]
    BY <1>1, <2>1, LockForKeyType DEF Reenter
  <2>4. TypeOK'
    BY <1>1, <2>2, <2>3 DEF Reenter, TypeOK, Labels
  <2>5. CallInv'
    BY <1>1, <2>3 DEF Reenter, TypeOK, CallInv, Labels
  <2> QED BY <2>4, <2>5
<1>2. ASSUME NEW k \in Keys, NEW m \in Modes, Call(t, k, m)
      PROVE  TypeOK' /\ CallInv'
  <2>1. registry' \in [Procs -> Seq(Entry)]
    BY <1>2, LockForKeyType DEF Call
  <2>2. PICK l \in LockIds : ref' = [ref EXCEPT ![t] = l]
    BY <1>2, LockForKeyType DEF Call
  <2>3. TypeOK'
    BY <1>2, <2>1, <2>2, PageLockAssumption DEF Call, TypeOK, Labels
  <2>4. Len(stack[t]) = 0 /\ depth[t] = 0
    BY <1>2, EmptySeq DEF Call, CallInv
  <2>5. CallInv'
    BY <1>2, <2>2, <2>4 DEF Call, TypeOK, CallInv, Labels
  <2> QED BY <2>3, <2>5
<1> QED BY <1>1, <1>2

\* The RLock is pushed: the stack grows by one.
LEMMA AcquireStep ==
    ASSUME TypeOK, CallInv, NEW t \in Threads, AcquireThreadLock(t)
    PROVE  TypeOK' /\ CallInv'
<1>1. ref[t] \in LockIds /\ stack[t] \in Seq(LockIds) /\ Len(stack[t]) = depth[t]
  BY DEF AcquireThreadLock, CallInv, TypeOK
<1>2. /\ Append(stack[t], ref[t]) \in Seq(LockIds)
      /\ Len(Append(stack[t], ref[t])) = depth[t] + 1
  BY <1>1, AppendProperties
<1>3. stack' = [stack EXCEPT ![t] = Append(stack[t], ref[t])]
  BY DEF AcquireThreadLock
<1>4. TypeOK'
  <2>1. stack' \in [Threads -> Seq(LockIds)]
    BY <1>2, <1>3 DEF TypeOK
  <2>2. depth' \in [Threads -> Nat] /\ pc' \in [Threads -> Labels]
    <3>1. CASE depth[t] > 0
      <4>1. depth' = [depth EXCEPT ![t] = depth[t] + 1] /\ pc' = [pc EXCEPT ![t] = "body"]
        BY <3>1 DEF AcquireThreadLock
      <4>2. depth[t] + 1 \in Nat
        BY DEF TypeOK
      <4> QED BY <4>1, <4>2 DEF TypeOK, Labels
    <3>2. CASE ~(depth[t] > 0)
      BY <3>2 DEF AcquireThreadLock, TypeOK, Labels
    <3> QED BY <3>1, <3>2
  <2> QED BY <2>1, <2>2 DEF AcquireThreadLock, TypeOK
<1>5. CallInv'
  BY <1>2, <1>3 DEF AcquireThreadLock, TypeOK, CallInv, Labels
<1> QED BY <1>4, <1>5

\* An exit pops the RLock it pushed.
LEMMA ExitStep ==
    ASSUME TypeOK, CallInv, NEW t \in Threads, ExitNested(t) \/ ReleaseThreadLock(t)
    PROVE  TypeOK' /\ CallInv'
<1> DEFINE s == Front(stack[t])
<1>1. stack[t] \in Seq(LockIds) /\ depth[t] \in Nat
  BY DEF TypeOK
<1>2. s \in Seq(LockIds) /\ (Len(stack[t]) > 0 => Len(s) = Len(stack[t]) - 1)
  BY <1>1, FrontType
<1>3. stack' = [stack EXCEPT ![t] = s]
  BY DEF ExitNested, ReleaseThreadLock
<1> HIDE DEF s
<1>4. TypeOK'
  <2>1. stack' \in [Threads -> Seq(LockIds)]
    BY <1>2, <1>3 DEF TypeOK
  <2>2. depth' \in [Threads -> Nat]
    <3>1. CASE ExitNested(t)
      BY <1>1, <3>1 DEF ExitNested, TypeOK
    <3>2. CASE ReleaseThreadLock(t)
      BY <3>2 DEF ReleaseThreadLock, TypeOK
    <3> QED BY <3>1, <3>2
  <2> QED BY <2>1, <2>2 DEF ExitNested, ReleaseThreadLock, TypeOK, Labels
<1>5. CASE ExitNested(t)
  <2>1. Len(s) = depth[t] - 1
    BY <1>1, <1>2, <1>5 DEF ExitNested, CallInv
  <2>2. CallInv'
    BY <1>1, <1>3, <1>5, <2>1 DEF ExitNested, CallInv, TypeOK, Labels
  <2> QED BY <1>4, <2>2
<1>6. CASE ReleaseThreadLock(t)
  <2>1. s = <<>>
    <3>1. Len(stack[t]) = 1
      BY <1>6 DEF ReleaseThreadLock, CallInv
    <3>2. Len(s) = 0
      BY <1>2, <3>1
    <3> QED BY <1>2, <3>2, EmptySeq
  <2>2. CallInv'
    BY <1>3, <1>6, <2>1 DEF ReleaseThreadLock, CallInv, TypeOK, Labels
  <2> QED BY <1>4, <2>2
<1> QED BY <1>5, <1>6

\* The steps between the RLock and the body leave the stack alone.
LEMMA SidecarStep ==
    ASSUME TypeOK, CallInv, NEW t \in Threads,
           \/ ThreadLockUnavailable(t) \/ OpenSidecar(t) \/ OpenFails(t) \/ TakeFlock(t)
           \/ ProbeContended(t) \/ FlockRaises(t) \/ ExitBody(t)
    PROVE  TypeOK' /\ CallInv'
<1>1. CASE ThreadLockUnavailable(t)
  <2>1. TypeOK'
    BY <1>1 DEF ThreadLockUnavailable, TypeOK, Labels
  <2>2. depth[t] = 0 => stack[t] = <<>>
    BY <1>1, EmptySeq DEF ThreadLockUnavailable, CallInv, TypeOK
  <2>3. CallInv'
    BY <1>1, <2>2 DEF ThreadLockUnavailable, TypeOK, CallInv, Labels
  <2> QED BY <2>1, <2>3
<1>2. CASE OpenSidecar(t)
  <2>1. PICK i \in Inodes : /\ fd' = [fd EXCEPT ![t] = i]
                            /\ sidecar' \in {sidecar, [sidecar EXCEPT ![key[t]] = i]}
    <3>1. key[t] \in Keys /\ sidecar[key[t]] \in Inodes \cup {None}
      BY <1>2 DEF OpenSidecar, CallInv, TypeOK
    <3>2. FreeInodes # {} => (CHOOSE x \in FreeInodes : TRUE) \in Inodes
      BY DEF FreeInodes
    <3> QED BY <1>2, <3>1, <3>2 DEF OpenSidecar
  <2>2. TypeOK'
    BY <1>2, <2>1 DEF OpenSidecar, TypeOK, Labels
  <2>3. CallInv'
    BY <1>2, <2>1 DEF OpenSidecar, TypeOK, CallInv, Labels
  <2> QED BY <2>2, <2>3
<1>3. CASE TakeFlock(t)
  <2>1. CASE mode[t] = "probe"
    <3>1. TypeOK'
      BY <1>3, <2>1 DEF TakeFlock, TypeOK, Labels
    <3>2. CallInv'
      BY <1>3, <2>1 DEF TakeFlock, TypeOK, CallInv, Labels
    <3> QED BY <3>1, <3>2
  <2>2. CASE ~(mode[t] = "probe")
    <3> DEFINE one == 1
    <3>1. /\ pc[t] = "flock"
          /\ pc' = [pc EXCEPT ![t] = "body"] /\ depth' = [depth EXCEPT ![t] = one]
          /\ flocked' = [flocked EXCEPT ![t] = TRUE]
          /\ UNCHANGED <<registry, key, mode, ref, stack, fd, sidecar>>
      BY <1>3, <2>2 DEF TakeFlock
    <3>2. one \in Nat /\ one > 0
      OBVIOUS
    <3>3. Len(stack[t]) = one
      BY <3>1 DEF CallInv
    <3> HIDE DEF one
    <3>4. TypeOK'
      BY <3>1, <3>2 DEF TypeOK, Labels
    <3>5. CallInv'
      BY <3>1, <3>2, <3>3 DEF TypeOK, CallInv, Labels
    <3> QED BY <3>4, <3>5
  <2> QED BY <2>1, <2>2
<1>4. CASE OpenFails(t) \/ ProbeContended(t)
  BY <1>4 DEF OpenFails, ProbeContended, TypeOK, CallInv, Labels
<1>5. CASE FlockRaises(t)
  <2>1. CASE DegradationAllowed /\ mode[t] # "probe"
    <3> DEFINE one == 1
    <3>1. /\ pc[t] = "flock"
          /\ pc' = [pc EXCEPT ![t] = "body"] /\ depth' = [depth EXCEPT ![t] = one]
          /\ flocked' = flocked
          /\ UNCHANGED <<registry, key, mode, ref, stack, fd, sidecar>>
      BY <1>5, <2>1 DEF FlockRaises
    <3>2. one \in Nat /\ one > 0
      OBVIOUS
    <3>3. Len(stack[t]) = one
      BY <3>1 DEF CallInv
    <3> HIDE DEF one
    <3>4. TypeOK'
      BY <3>1, <3>2 DEF TypeOK, Labels
    <3>5. CallInv'
      BY <3>1, <3>2, <3>3 DEF TypeOK, CallInv, Labels
    <3> QED BY <3>4, <3>5
  <2>2. CASE ~(DegradationAllowed /\ mode[t] # "probe")
    <3>1. TypeOK'
      BY <1>5, <2>2 DEF FlockRaises, TypeOK, Labels
    <3>2. CallInv'
      BY <1>5, <2>2 DEF FlockRaises, TypeOK, CallInv, Labels
    <3> QED BY <3>1, <3>2
  <2> QED BY <2>1, <2>2
<1>6. CASE ExitBody(t)
  <2>1. TypeOK'
    BY <1>6 DEF ExitBody, TypeOK, Labels
  <2>2. CallInv'
    BY <1>6 DEF ExitBody, TypeOK, CallInv, Labels
  <2> QED BY <2>1, <2>2
<1> QED BY <1>1, <1>2, <1>3, <1>4, <1>5, <1>6

\* What the process does around the calls.
LEMMA ProcessStep ==
    ASSUME TypeOK, CallInv, NEW p \in Procs,
           ClearRegistry(p) \/ (\E k \in Keys : SweepSidecar(p, k)) \/ Crash(p)
    PROVE  TypeOK' /\ CallInv'
<1>1. CASE ClearRegistry(p)
  <2>1. [registry EXCEPT ![p] = <<>>] \in [Procs -> Seq(Entry)]
    BY EmptySeq DEF TypeOK
  <2> QED BY <1>1, <2>1 DEF ClearRegistry, TypeOK, CallInv, threadVars
<1>2. CASE \E k \in Keys : SweepSidecar(p, k)
  BY <1>2 DEF SweepSidecar, TypeOK, CallInv, threadVars
<1>3. CASE Crash(p)
  <2>1. [registry EXCEPT ![p] = <<>>] \in [Procs -> Seq(Entry)]
    BY EmptySeq DEF TypeOK
  <2>2. TypeOK'
    BY <1>3, <2>1, EmptySeq DEF Crash, TypeOK, Labels
  <2>3. CallInv'
    BY <1>3 DEF Crash, CallInv, TypeOK
  <2> QED BY <2>2, <2>3
<1> QED BY <1>1, <1>2, <1>3

\* Every step keeps the types and gives back what the call took.
LEMMA NextCall == TypeOK /\ CallInv /\ [Next]_vars => (TypeOK /\ CallInv)'
<1> SUFFICES ASSUME TypeOK, CallInv, [Next]_vars PROVE (TypeOK /\ CallInv)'
  OBVIOUS
<1>1. CASE \E t \in Threads : Reenter(t) \/ \E k \in Keys, m \in Modes : Call(t, k, m)
  BY <1>1, CallStep
<1>2. CASE \E t \in Threads : Step(t)
  BY <1>2, AcquireStep, ExitStep, SidecarStep DEF Step
<1>3. CASE \E p \in Procs : ClearRegistry(p) \/ (\E k \in Keys : SweepSidecar(p, k)) \/ Crash(p)
  BY <1>3, ProcessStep
<1>4. CASE UNCHANGED vars
  BY <1>4 DEF vars, TypeOK, CallInv
<1> QED BY <1>1, <1>2, <1>3, <1>4 DEF Next

\* Type correctness of the page lock and of its registry.
THEOREM TypeCorrect == Spec => []TypeOK
<1>1. Spec => [](TypeOK /\ CallInv)
  BY InitCall, NextCall, PTL DEF Spec
<1> QED BY <1>1, PTL

\* Every call of page_rmw_lock and probe_page_rmw_lock gives back its RLock, its
\* depth and its descriptor on every exit path: success, contention, a failing
\* flock, a nested entry that could not be had.
THEOREM CallsGiveBack == Spec => []NothingLeaks
<1>1. Spec => [](TypeOK /\ CallInv)
  BY InitCall, NextCall, PTL DEF Spec
<1>2. TypeOK /\ CallInv => NothingLeaks
  BY DEF CallInv, NothingLeaks
<1> QED BY <1>1, <1>2, PTL

-----------------------------------------------------------------------------
(* The registry of RLocks *)

OnePerKey(s) == \A i, j \in DOMAIN s : s[i].key = s[j].key => i = j

\* The RLocks a thread holds or is about to take.
LocksOf(t) == Range(stack[t]) \cup IF pc[t] = "acquire" THEN {ref[t]} ELSE {}

\* A registry has one entry for a page, an RLock is in one entry only, and a
\* thread that has an RLock which is still in a registry is in that process and
\* locking that page: a thread keeps at most one entry from being evicted.
RegistryInv ==
    /\ \A p \in Procs : OnePerKey(registry[p])
    /\ \A p, q \in Procs : \A i \in DOMAIN registry[p], j \in DOMAIN registry[q] :
          registry[p][i].lock = registry[q][j].lock
             => p = q /\ registry[p][i].key = registry[q][j].key
    /\ \A p \in Procs, t \in Threads : \A i \in DOMAIN registry[p] :
          registry[p][i].lock \in LocksOf(t) => ProcOf[t] = p /\ key[t] = registry[p][i].key

\* Removing an entry: one less, and the others stay what they are.
LEMMA Removed ==
    ASSUME NEW s \in Seq(Entry), OnePerKey(s), NEW i \in DOMAIN s
    PROVE  LET r == RemoveAt(s, i) IN
           /\ r \in Seq(Entry) /\ Len(r) = Len(s) - 1 /\ OnePerKey(r)
           /\ \A j \in DOMAIN r : r[j].key # s[i].key /\ \E h \in DOMAIN s : r[j] = s[h]
<1> DEFINE r == RemoveAt(s, i)
           a == SubSeq(s, 1, i-1)
           b == SubSeq(s, i+1, Len(s))
<1>1. i \in 1..Len(s) /\ Len(s) \in Nat /\ DOMAIN s = 1..Len(s)
  BY LenProperties
<1>2. a \in Seq(Entry) /\ Len(a) = i - 1 /\ \A j \in 1..(i-1) : a[j] = s[j]
  <2>1. \A j \in 1..(i-1) : s[j] \in Entry
    BY <1>1, ElementOfSeq
  <2> QED BY <1>1, <2>1, SubSeqProperties
<1>3. b \in Seq(Entry) /\ Len(b) = Len(s) - i /\ \A j \in 1..(Len(s) - i) : b[j] = s[i+j]
  <2>1. \A j \in (i+1)..Len(s) : s[j] \in Entry
    BY <1>1, ElementOfSeq
  <2> QED BY <1>1, <2>1, SubSeqProperties
<1>4. /\ r \in Seq(Entry) /\ Len(r) = Len(a) + Len(b)
      /\ \A j \in 1..(Len(a) + Len(b)) : r[j] = IF j <= Len(a) THEN a[j] ELSE b[j - Len(a)]
  BY <1>2, <1>3, ConcatProperties DEF RemoveAt
<1> HIDE DEF r, a, b
<1>5. Len(r) = Len(s) - 1
  BY <1>1, <1>2, <1>3, <1>4
<1> DEFINE old(j) == IF j < i THEN j ELSE j + 1
<1>6. ASSUME NEW j \in 1..(Len(s) - 1) PROVE old(j) \in DOMAIN s /\ old(j) # i /\ r[j] = s[old(j)]
  <2>1. CASE j < i
    BY <1>1, <1>2, <1>3, <1>4, <1>5, <2>1
  <2>2. CASE ~(j < i)
    <3>1. j - Len(a) \in 1..(Len(s) - i) /\ i + (j - Len(a)) = j + 1
      BY <1>1, <1>2, <2>2
    <3>2. r[j] = b[j - Len(a)]
      BY <1>1, <1>2, <1>3, <1>4, <2>2
    <3> QED BY <1>1, <1>3, <2>2, <3>1, <3>2
  <2> QED BY <2>1, <2>2
<1>7. DOMAIN r = 1..(Len(s) - 1)
  BY <1>4, <1>5, LenProperties
<1>8. OnePerKey(r)
  <2> SUFFICES ASSUME NEW j \in 1..(Len(s) - 1), NEW h \in 1..(Len(s) - 1), r[j].key = r[h].key
               PROVE  j = h
    BY <1>7 DEF OnePerKey
  <2>1. old(j) = old(h)
    BY <1>6 DEF OnePerKey
  <2> QED BY <1>1, <2>1
<1>9. ASSUME NEW j \in DOMAIN r PROVE r[j].key # s[i].key /\ \E h \in DOMAIN s : r[j] = s[h]
  BY <1>6, <1>7 DEF OnePerKey
<1> QED BY <1>4, <1>5, <1>8, <1>9 DEF r

\* Adding an entry for a page that has none.
LEMMA Added ==
    ASSUME NEW s \in Seq(Entry), OnePerKey(s), NEW e \in Entry, \A j \in DOMAIN s : s[j].key # e.key
    PROVE  LET r == Append(s, e) IN
           /\ r \in Seq(Entry) /\ Len(r) = Len(s) + 1 /\ OnePerKey(r)
           /\ \A j \in DOMAIN r : r[j] = e \/ \E h \in DOMAIN s : r[j] = s[h]
<1> DEFINE r == Append(s, e)
<1>1. Len(s) \in Nat /\ DOMAIN s = 1..Len(s)
  BY LenProperties
<1>2. /\ r \in Seq(Entry) /\ Len(r) = Len(s) + 1
      /\ \A j \in 1..Len(s) : r[j] = s[j]
      /\ r[Len(s) + 1] = e
  BY AppendProperties
<1> HIDE DEF r
<1>3. DOMAIN r = 1..(Len(s) + 1)
  BY <1>2, LenProperties
<1>4. \A j \in DOMAIN r : \/ j = Len(s) + 1 /\ r[j] = e
                          \/ j \in DOMAIN s /\ r[j] = s[j]
  BY <1>1, <1>2, <1>3
<1>5. OnePerKey(r)
  BY <1>4 DEF OnePerKey
<1> QED BY <1>2, <1>4, <1>5 DEF r

\* Eviction drops one entry or none; none from a full registry only when another
\* thread holds every entry.
LEMMA Evicted ==
    ASSUME TypeOK, RegistryInv, NEW p \in Procs, NEW t \in Threads
    PROVE  LET r == AfterEviction(p, t) IN
           /\ r \in Seq(Entry) /\ OnePerKey(r)
           /\ \A j \in DOMAIN r : \E h \in DOMAIN registry[p] : r[j] = registry[p][h]
           /\ \/ Len(r) < Len(registry[p])
              \/ Len(r) = Len(registry[p]) /\ (Len(r) < MaxRegistry \/ Unheld(p, t) = {})
<1>1. registry[p] \in Seq(Entry) /\ OnePerKey(registry[p]) /\ Len(registry[p]) \in Nat
  BY LenProperties DEF TypeOK, RegistryInv
<1>2. CASE Len(registry[p]) >= MaxRegistry /\ Unheld(p, t) # {}
  <2>1. Unheld(p, t) \in SUBSET Nat /\ Unheld(p, t) \subseteq DOMAIN registry[p]
    BY <1>1, LenProperties DEF Unheld
  <2>2. Least(Unheld(p, t)) \in DOMAIN registry[p]
    BY <1>2, <2>1, LeastIn
  <2>3. AfterEviction(p, t) = RemoveAt(registry[p], Least(Unheld(p, t)))
    BY <1>2 DEF AfterEviction
  <2> QED BY <1>1, <2>2, <2>3, Removed
<1>3. CASE ~(Len(registry[p]) >= MaxRegistry /\ Unheld(p, t) # {})
  <2>1. AfterEviction(p, t) = registry[p]
    BY <1>3 DEF AfterEviction
  <2>2. Len(registry[p]) < MaxRegistry \/ Unheld(p, t) = {}
    BY <1>1, <1>3, PageLockAssumption
  <2> QED BY <1>1, <2>1, <2>2
<1> QED BY <1>2, <1>3

\* What _lock_for_key does to the registry of the process: the page's entry is
\* the caller's RLock, new or found; the other entries were there before.
LEMMA LockForKeyEntries ==
    ASSUME TypeOK, RegistryInv, NEW t \in Threads, NEW k \in Keys, LockForKey(t, k)
    PROVE  \E l \in LockIds, s \in Seq(Entry) :
              /\ ref' = [ref EXCEPT ![t] = l]
              /\ registry' = [registry EXCEPT ![ProcOf[t]] = s]
              /\ OnePerKey(s)
              /\ \A j \in DOMAIN s :
                    \/ s[j] = [key |-> k, lock |-> l]
                    \/ s[j].key # k /\ \E h \in DOMAIN registry[ProcOf[t]] : s[j] = registry[ProcOf[t]][h]
              /\ \/ l \in FreeLocks
                 \/ \E h \in DOMAIN registry[ProcOf[t]] : registry[ProcOf[t]][h] = [key |-> k, lock |-> l]
              /\ \/ Len(s) <= MaxRegistry
                 \/ Len(s) <= Len(registry[ProcOf[t]])
                 \/ Len(s) = Len(registry[ProcOf[t]]) + 1 /\ Unheld(ProcOf[t], t) = {}
<1> DEFINE p == ProcOf[t]
<1>1. p \in Procs
  BY PageLockAssumption
<1>2. registry[p] \in Seq(Entry) /\ OnePerKey(registry[p]) /\ Len(registry[p]) \in Nat
  BY <1>1, LenProperties DEF TypeOK, RegistryInv
<1> HIDE DEF p
<1>3. CASE \E i \in Places(p, k) :
              /\ ref' = [ref EXCEPT ![t] = registry[p][i].lock]
              /\ registry' = [registry EXCEPT ![p] = Append(RemoveAt(@, i), @[i])]
  <2>1. PICK i \in Places(p, k) :
              /\ ref' = [ref EXCEPT ![t] = registry[p][i].lock]
              /\ registry' = [registry EXCEPT ![p] = Append(RemoveAt(@, i), @[i])]
    BY <1>3
  <2> DEFINE e == registry[p][i]
             r == RemoveAt(registry[p], i)
             s == Append(r, e)
  <2>2. i \in DOMAIN registry[p] /\ e.key = k
    BY DEF Places
  <2>3. e \in Entry
    BY <1>2, <2>2, LenProperties, ElementOfSeq
  <2>4. /\ r \in Seq(Entry) /\ Len(r) = Len(registry[p]) - 1 /\ OnePerKey(r)
        /\ \A j \in DOMAIN r : r[j].key # k /\ \E h \in DOMAIN registry[p] : r[j] = registry[p][h]
    BY <1>2, <2>2, Removed
  <2>5. registry' = [registry EXCEPT ![p] = s] /\ ref' = [ref EXCEPT ![t] = e.lock]
    BY <1>1, <2>1 DEF TypeOK
  <2>6. e = [key |-> k, lock |-> e.lock] /\ e.lock \in LockIds
    BY <2>2, <2>3 DEF Entry
  <2> HIDE DEF e, r
  <2>7. /\ s \in Seq(Entry) /\ Len(s) = Len(r) + 1 /\ OnePerKey(s)
        /\ \A j \in DOMAIN s : s[j] = e \/ \E h \in DOMAIN r : s[j] = r[h]
    BY <2>2, <2>3, <2>4, Added
  <2> HIDE DEF s
  <2>8. \A j \in DOMAIN s : \/ s[j] = [key |-> k, lock |-> e.lock]
                            \/ s[j].key # k /\ \E h \in DOMAIN registry[p] : s[j] = registry[p][h]
    BY <2>4, <2>6, <2>7
  <2>9. Len(s) <= Len(registry[p])
    BY <1>2, <2>4, <2>7
  <2>10. \E h \in DOMAIN registry[p] : registry[p][h] = [key |-> k, lock |-> e.lock]
    BY <2>2, <2>6 DEF e
  <2> QED BY <2>5, <2>6, <2>7, <2>8, <2>9, <2>10 DEF p
<1>4. CASE /\ Places(p, k) = {}
           /\ FreeLocks # {}
           /\ LET l == CHOOSE x \in FreeLocks : TRUE IN
              /\ ref' = [ref EXCEPT ![t] = l]
              /\ registry' = [registry EXCEPT ![p] = Append(AfterEviction(p, t), [key |-> k, lock |-> l])]
  <2> DEFINE l == CHOOSE x \in FreeLocks : TRUE
             e == [key |-> k, lock |-> l]
             r == AfterEviction(p, t)
             s == Append(r, e)
  <2>1. l \in FreeLocks /\ l \in LockIds
    BY <1>4 DEF FreeLocks
  <2>2. ref' = [ref EXCEPT ![t] = l] /\ registry' = [registry EXCEPT ![p] = s]
    BY <1>4
  <2>3. e \in Entry /\ e.key = k
    BY <2>1 DEF Entry
  <2>4. /\ r \in Seq(Entry) /\ OnePerKey(r)
        /\ \A j \in DOMAIN r : \E h \in DOMAIN registry[p] : r[j] = registry[p][h]
        /\ \/ Len(r) < Len(registry[p])
           \/ Len(r) = Len(registry[p]) /\ (Len(r) < MaxRegistry \/ Unheld(p, t) = {})
    BY <1>1, Evicted
  <2>5. e = [key |-> k, lock |-> l]
    OBVIOUS
  <2> HIDE DEF l, e, r
  <2>6. \A h \in DOMAIN registry[p] : registry[p][h].key # k
    BY <1>4 DEF Places
  <2>7. \A j \in DOMAIN r : r[j].key # e.key
    BY <2>3, <2>4, <2>6
  <2>8. /\ s \in Seq(Entry) /\ Len(s) = Len(r) + 1 /\ OnePerKey(s)
        /\ \A j \in DOMAIN s : s[j] = e \/ \E h \in DOMAIN r : s[j] = r[h]
    BY <2>3, <2>4, <2>7, Added
  <2> HIDE DEF s
  <2>9. \A j \in DOMAIN s : \/ s[j] = [key |-> k, lock |-> l]
                            \/ s[j].key # k /\ \E h \in DOMAIN registry[p] : s[j] = registry[p][h]
    BY <2>3, <2>4, <2>5, <2>7, <2>8
  <2>10. \/ Len(s) <= MaxRegistry
         \/ Len(s) <= Len(registry[p])
         \/ Len(s) = Len(registry[p]) + 1 /\ Unheld(p, t) = {}
    <3>1. Len(r) \in Nat /\ MaxRegistry \in Nat
      BY <2>4, LenProperties, PageLockAssumption
    <3> QED BY <1>2, <2>4, <2>8, <3>1
  <2> QED BY <2>1, <2>2, <2>8, <2>9, <2>10 DEF p
<1> QED BY <1>3, <1>4 DEF LockForKey, p

\* The caller of _lock_for_key has no other RLock than those of that page.
LEMMA LookupKeepsRegistry ==
    ASSUME TypeOK, RegistryInv, NEW t \in Threads, NEW k \in Keys, LockForKey(t, k),
           pc' = [pc EXCEPT ![t] = "acquire"], pc[t] # "acquire", stack' = stack,
           stack[t] = <<>> \/ key[t] = k, key' \in {key, [key EXCEPT ![t] = k]}, key'[t] = k
    PROVE  RegistryInv'
<1>1. PICK l \in LockIds, s \in Seq(Entry) :
              /\ ref' = [ref EXCEPT ![t] = l]
              /\ registry' = [registry EXCEPT ![ProcOf[t]] = s]
              /\ OnePerKey(s)
              /\ \A j \in DOMAIN s :
                    \/ s[j] = [key |-> k, lock |-> l]
                    \/ s[j].key # k /\ \E h \in DOMAIN registry[ProcOf[t]] : s[j] = registry[ProcOf[t]][h]
              /\ \/ l \in FreeLocks
                 \/ \E h \in DOMAIN registry[ProcOf[t]] : registry[ProcOf[t]][h] = [key |-> k, lock |-> l]
              /\ \/ Len(s) <= MaxRegistry
                 \/ Len(s) <= Len(registry[ProcOf[t]])
                 \/ Len(s) = Len(registry[ProcOf[t]]) + 1 /\ Unheld(ProcOf[t], t) = {}
  BY LockForKeyEntries, Zenon
<1> DEFINE p == ProcOf[t]
<1>2. p \in Procs
  BY PageLockAssumption
<1> HIDE DEF p
<1>3. /\ registry' = [registry EXCEPT ![p] = s]
      /\ \A j \in DOMAIN s :
            \/ s[j] = [key |-> k, lock |-> l]
            \/ s[j].key # k /\ \E h \in DOMAIN registry[p] : s[j] = registry[p][h]
      /\ \/ l \in FreeLocks
         \/ \E h \in DOMAIN registry[p] : registry[p][h] = [key |-> k, lock |-> l]
  BY <1>1 DEF p
<1>4. registry'[p] = s /\ \A q \in Procs : q # p => registry'[q] = registry[q]
  BY <1>2, <1>3 DEF TypeOK
<1>5. /\ \A u \in Threads : u # t => LocksOf(u)' = LocksOf(u) /\ key'[u] = key[u]
      /\ LocksOf(t)' = LocksOf(t) \cup {l}
  BY <1>1 DEF TypeOK, LocksOf
<1>6. /\ \A q \in Procs : \A h \in DOMAIN registry[q] :
            registry[q][h].lock = l => q = p /\ registry[q][h].key = k
      /\ \A u \in Threads : l \in LocksOf(u) => ProcOf[u] = p /\ key[u] = k
  <2>1. CASE l \in FreeLocks
    <3>1. \A q \in Procs : \A h \in DOMAIN registry[q] : registry[q][h].lock # l
      BY <2>1 DEF FreeLocks
    <3>2. \A u \in Threads : l \notin LocksOf(u)
      BY <2>1 DEF FreeLocks, Holders, LocksOf
    <3> QED BY <3>1, <3>2
  <2>2. ASSUME NEW i \in DOMAIN registry[p], registry[p][i] = [key |-> k, lock |-> l]
        PROVE  /\ \A q \in Procs : \A h \in DOMAIN registry[q] :
                     registry[q][h].lock = l => q = p /\ registry[q][h].key = k
               /\ \A u \in Threads : l \in LocksOf(u) => ProcOf[u] = p /\ key[u] = k
    <3>1. registry[p][i].lock = l /\ registry[p][i].key = k
      BY <2>2
    <3> QED BY <1>2, <3>1 DEF RegistryInv
  <2> QED BY <1>3, <2>1, <2>2
<1>7. ASSUME NEW q \in Procs, NEW j \in DOMAIN registry'[q]
      PROVE  \/ q = p /\ registry'[q][j].key = k /\ registry'[q][j].lock = l
             \/ /\ q = p => registry'[q][j].key # k
                /\ \E h \in DOMAIN registry[q] : registry'[q][j] = registry[q][h]
  <2>1. [key |-> k, lock |-> l].key = k /\ [key |-> k, lock |-> l].lock = l
    OBVIOUS
  <2> QED BY <1>3, <1>4, <1>7, <2>1
<1>8. \A q \in Procs : OnePerKey(registry'[q])
  BY <1>1, <1>4 DEF RegistryInv
<1>9. ASSUME NEW q \in Procs, NEW r \in Procs, NEW i \in DOMAIN registry'[q], NEW j \in DOMAIN registry'[r],
             registry'[q][i].lock = registry'[r][j].lock
      PROVE  q = r /\ registry'[q][i].key = registry'[r][j].key
  BY <1>6, <1>7, <1>9 DEF RegistryInv
<1>10. ASSUME NEW q \in Procs, NEW u \in Threads, NEW i \in DOMAIN registry'[q],
              registry'[q][i].lock \in LocksOf(u)'
       PROVE  ProcOf[u] = q /\ key'[u] = registry'[q][i].key
  <2>1. CASE q = p /\ registry'[q][i].key = k /\ registry'[q][i].lock = l
    BY <1>5, <1>6, <1>10, <2>1 DEF p
  <2>2. ASSUME NEW h \in DOMAIN registry[q], registry'[q][i] = registry[q][h],
               q = p => registry'[q][i].key # k
        PROVE  ProcOf[u] = q /\ key'[u] = registry'[q][i].key
    <3>1. registry[q][h].lock # l
      BY <1>6, <2>2
    <3>2. registry[q][h].lock \in LocksOf(u)
      BY <1>5, <1>10, <2>2, <3>1
    <3>3. ProcOf[u] = q /\ key[u] = registry[q][h].key
      BY <3>2 DEF RegistryInv
    <3>4. u # t
      <4>1. CASE stack[t] = <<>>
        BY <3>2, <4>1, EmptySeq DEF LocksOf, Range
      <4>2. CASE key[t] = k
        BY <2>2, <3>3, <4>2 DEF p
      <4> QED BY <4>1, <4>2
    <3> QED BY <1>5, <2>2, <3>3, <3>4
  <2> QED BY <1>7, <2>1, <2>2
<1> QED BY <1>8, <1>9, <1>10 DEF RegistryInv

\* A step that empties registries and gives RLocks back keeps the invariant.
LEMMA ReleaseKeepsRegistry ==
    ASSUME RegistryInv, \A p \in Procs : registry'[p] \in {registry[p], <<>>},
           \A u \in Threads : /\ LocksOf(u)' \subseteq LocksOf(u)
                              /\ key'[u] = key[u] \/ LocksOf(u)' = {}
    PROVE  RegistryInv'
<1>1. \A p \in Procs : \A i \in DOMAIN registry'[p] :
          registry'[p] = registry[p] /\ i \in DOMAIN registry[p]
  BY EmptySeq
<1>2. \A p \in Procs : OnePerKey(registry'[p])
  BY <1>1 DEF RegistryInv, OnePerKey
<1>3. ASSUME NEW p \in Procs, NEW q \in Procs, NEW i \in DOMAIN registry'[p], NEW j \in DOMAIN registry'[q],
             registry'[p][i].lock = registry'[q][j].lock
      PROVE  p = q /\ registry'[p][i].key = registry'[q][j].key
  BY <1>1, <1>3 DEF RegistryInv
<1>4. ASSUME NEW p \in Procs, NEW u \in Threads, NEW i \in DOMAIN registry'[p],
             registry'[p][i].lock \in LocksOf(u)'
      PROVE  ProcOf[u] = p /\ key'[u] = registry'[p][i].key
  BY <1>1, <1>4 DEF RegistryInv
<1> QED BY <1>2, <1>3, <1>4 DEF RegistryInv

\* At the start the registries are empty.
LEMMA InitRegistry == IsFiniteSet(Threads) /\ Init => RegistryInv /\ RegistryBounded
<1> SUFFICES ASSUME IsFiniteSet(Threads), Init PROVE RegistryInv /\ RegistryBounded
  OBVIOUS
<1>1. \A p \in Procs : registry[p] = <<>>
  BY DEF Init
<1>2. RegistryInv
  BY <1>1, EmptySeq DEF RegistryInv, OnePerKey
<1>3. RegistryBounded
  <2> SUFFICES ASSUME NEW p \in Procs
               PROVE  LET n == Cardinality({t \in Threads : ProcOf[t] = p})
                      IN  Len(registry[p]) <= IF n > MaxRegistry THEN n ELSE MaxRegistry
    BY DEF RegistryBounded
  <2> DEFINE n == Cardinality({t \in Threads : ProcOf[t] = p})
  <2>1. Len(registry[p]) = 0 /\ MaxRegistry \in Nat
    BY <1>1, EmptySeq, PageLockAssumption
  <2>2. n \in Nat
    BY FS_Subset, FS_CardinalityType
  <2> HIDE DEF n
  <2>3. Len(registry[p]) <= IF n > MaxRegistry THEN n ELSE MaxRegistry
    BY <2>1, <2>2
  <2> QED BY <2>3 DEF n
<1> QED BY <1>2, <1>3

\* Each step of a call, and each of the process around it, keeps the registries
\* in order.
LEMMA RegistryStep == TypeOK /\ CallInv /\ RegistryInv /\ [Next]_vars => RegistryInv'
<1> SUFFICES ASSUME TypeOK, CallInv, RegistryInv, [Next]_vars PROVE RegistryInv'
  OBVIOUS
<1>1. ASSUME NEW t \in Threads, NEW k \in Keys, NEW m \in Modes, Call(t, k, m) PROVE RegistryInv'
  <2>1. stack[t] = <<>> /\ key' = [key EXCEPT ![t] = k] /\ key'[t] = k /\ pc[t] # "acquire"
    BY <1>1 DEF Call, CallInv, TypeOK
  <2> QED BY <1>1, <2>1, LookupKeepsRegistry DEF Call
<1>2. ASSUME NEW t \in Threads, Reenter(t) PROVE RegistryInv'
  <2>1. key[t] \in Keys /\ pc[t] # "acquire" /\ key' = key /\ stack' = stack
    BY <1>2 DEF Reenter, CallInv
  <2> QED BY <1>2, <2>1, LookupKeepsRegistry DEF Reenter
<1>3. ASSUME NEW t \in Threads, AcquireThreadLock(t) PROVE RegistryInv'
  <2>1. stack[t] \in Seq(LockIds) /\ ref[t] \in LockIds
    BY <1>3 DEF AcquireThreadLock, CallInv, TypeOK
  <2>2. Range(Append(stack[t], ref[t])) \subseteq Range(stack[t]) \cup {ref[t]}
    <3>1. /\ DOMAIN Append(stack[t], ref[t]) = 1..(Len(stack[t]) + 1) /\ DOMAIN stack[t] = 1..Len(stack[t])
          /\ \A i \in 1..Len(stack[t]) : Append(stack[t], ref[t])[i] = stack[t][i]
          /\ Append(stack[t], ref[t])[Len(stack[t]) + 1] = ref[t]
      BY <2>1, AppendProperties, LenProperties
    <3>2. Len(stack[t]) \in Nat
      BY <2>1, LenProperties
    <3> QED BY <3>1, <3>2 DEF Range
  <2>3. \A u \in Threads : LocksOf(u)' \subseteq LocksOf(u)
    <3>1. pc[t] = "acquire" /\ pc'[t] # "acquire" /\ stack'[t] = Append(stack[t], ref[t])
      BY <1>3 DEF AcquireThreadLock, TypeOK
    <3>2. \A u \in Threads \ {t} : pc'[u] = pc[u] /\ stack'[u] = stack[u] /\ ref'[u] = ref[u]
      BY <1>3 DEF AcquireThreadLock, TypeOK
    <3> QED BY <2>2, <3>1, <3>2 DEF LocksOf
  <2> QED BY <1>3, <2>3, ReleaseKeepsRegistry DEF AcquireThreadLock
<1>4. ASSUME NEW t \in Threads, ExitNested(t) \/ ReleaseThreadLock(t) PROVE RegistryInv'
  <2>1. stack[t] \in Seq(LockIds) /\ Len(stack[t]) > 0 /\ Len(stack[t]) \in Nat
    <3> DEFINE n == Len(stack[t])
    <3>1. stack[t] \in Seq(LockIds)
      BY DEF TypeOK
    <3>2. depth[t] \in Nat
      BY DEF TypeOK
    <3>3. (n = depth[t] /\ depth[t] > 1) \/ n = 1
      BY <1>4 DEF ExitNested, ReleaseThreadLock, CallInv
    <3>4. n \in Nat
      BY <3>1, LenProperties
    <3> HIDE DEF n
    <3>5. n > 0
      BY <3>2, <3>3, <3>4
    <3> QED BY <3>1, <3>4, <3>5 DEF n
  <2> DEFINE s == Front(stack[t])
  <2>2. s \in Seq(LockIds) /\ Len(s) = Len(stack[t]) - 1
    BY <2>1, FrontType
  <2>3. Range(s) \subseteq Range(stack[t])
    <3>1. \A i \in 1..Len(stack[t])-1 : stack[t][i] \in LockIds
      BY <2>1, ElementOfSeq
    <3>2. \A i \in 1..Len(stack[t])-1 : s[i] = stack[t][i]
      BY <2>1, <3>1, SubSeqProperties DEF Front
    <3> QED BY <2>1, <2>2, <3>2, LenProperties DEF Range
  <2>4. ReleaseThreadLock(t) => Range(s) = {}
    <3>1. ReleaseThreadLock(t) => Len(stack[t]) = 1
      BY DEF ReleaseThreadLock, CallInv
    <3>2. ReleaseThreadLock(t) => s = <<>>
      <4> HIDE DEF s
      <4>1. ReleaseThreadLock(t) => Len(s) = 0
        BY <2>2, <3>1
      <4> QED BY <2>2, <4>1, EmptySeq
    <3> HIDE DEF s
    <3>3. Range(<<>>) = {}
      BY EmptySeq DEF Range
    <3> QED BY <3>2, <3>3
  <2> HIDE DEF s
  <2>5. pc[t] # "acquire" /\ pc'[t] # "acquire" /\ stack'[t] = s
    BY <1>4 DEF ExitNested, ReleaseThreadLock, TypeOK, s
  <2>6. \A u \in Threads \ {t} : pc'[u] = pc[u] /\ stack'[u] = stack[u] /\ key'[u] = key[u]
    BY <1>4 DEF ExitNested, ReleaseThreadLock, TypeOK
  <2>7. ref' = ref /\ registry' = registry /\ (key' = key \/ ReleaseThreadLock(t))
    BY <1>4 DEF ExitNested, ReleaseThreadLock
  <2>8. \A u \in Threads : /\ LocksOf(u)' \subseteq LocksOf(u)
                           /\ key'[u] = key[u] \/ LocksOf(u)' = {}
    BY <2>3, <2>4, <2>5, <2>6, <2>7 DEF LocksOf
  <2> QED BY <2>7, <2>8, ReleaseKeepsRegistry
<1>5. ASSUME NEW t \in Threads, ThreadLockUnavailable(t) PROVE RegistryInv'
  <2>1. /\ registry' = registry /\ stack' = stack /\ pc'[t] # "acquire"
        /\ \A u \in Threads \ {t} : pc'[u] = pc[u] /\ ref'[u] = ref[u] /\ key'[u] = key[u]
    BY <1>5 DEF ThreadLockUnavailable, TypeOK
  <2>2. key' = key \/ Range(stack[t]) = {}
    <3>1. key' = key \/ Len(stack[t]) = 0
      BY <1>5 DEF ThreadLockUnavailable, CallInv, TypeOK
    <3> QED BY <3>1, LenProperties DEF Range, TypeOK
  <2>3. \A u \in Threads : /\ LocksOf(u)' \subseteq LocksOf(u)
                           /\ key'[u] = key[u] \/ LocksOf(u)' = {}
    BY <2>1, <2>2 DEF LocksOf
  <2> QED BY <2>1, <2>3, ReleaseKeepsRegistry
<1>6. ASSUME NEW t \in Threads,
             \/ OpenSidecar(t) \/ OpenFails(t) \/ TakeFlock(t) \/ ProbeContended(t)
             \/ FlockRaises(t) \/ ExitBody(t)
      PROVE  RegistryInv'
  <2>1. UNCHANGED <<registry, stack, ref, key>> /\ pc'[t] # "acquire"
    BY <1>6 DEF OpenSidecar, OpenFails, TakeFlock, ProbeContended, FlockRaises, ExitBody, TypeOK
  <2>2. \A u \in Threads \ {t} : pc'[u] = pc[u]
    BY <1>6 DEF OpenSidecar, OpenFails, TakeFlock, ProbeContended, FlockRaises, ExitBody, TypeOK
  <2>3. \A u \in Threads : LocksOf(u)' \subseteq LocksOf(u)
    BY <2>1, <2>2 DEF LocksOf
  <2> QED BY <2>1, <2>3, ReleaseKeepsRegistry
<1>7. ASSUME NEW p \in Procs, ClearRegistry(p) \/ \E k \in Keys : SweepSidecar(p, k) PROVE RegistryInv'
  <2>1. \A q \in Procs : registry'[q] \in {registry[q], <<>>}
    BY <1>7 DEF ClearRegistry, SweepSidecar, TypeOK
  <2>2. UNCHANGED threadVars
    BY <1>7 DEF ClearRegistry, SweepSidecar
  <2> QED BY <2>1, <2>2, ReleaseKeepsRegistry DEF LocksOf, threadVars
<1>8. ASSUME NEW p \in Procs, Crash(p) PROVE RegistryInv'
  <2>1. \A q \in Procs : registry'[q] \in {registry[q], <<>>}
    BY <1>8 DEF Crash, TypeOK
  <2>2. ASSUME NEW u \in Threads
        PROVE  /\ LocksOf(u)' \subseteq LocksOf(u)
               /\ key'[u] = key[u] \/ LocksOf(u)' = {}
    <3>1. CASE ProcOf[u] = p
      <4>1. stack'[u] = <<>> /\ pc'[u] = "idle"
        BY <1>8, <3>1 DEF Crash
      <4> QED BY <4>1, EmptySeq DEF LocksOf, Range
    <3>2. CASE ProcOf[u] # p
      BY <1>8, <3>2 DEF Crash, LocksOf
    <3> QED BY <3>1, <3>2
  <2> QED BY <2>1, <2>2, ReleaseKeepsRegistry
<1>9. CASE UNCHANGED vars
  BY <1>9 DEF vars, RegistryInv, LocksOf, OnePerKey
<1> QED
  BY <1>1, <1>2, <1>3, <1>4, <1>5, <1>6, <1>7, <1>8, <1>9 DEF Next, Step

\* When no entry can be dropped, each is held by a thread of its own, and the
\* caller is not among them.
LEMMA AllHeld ==
    ASSUME IsFiniteSet(Threads), TypeOK, RegistryInv, NEW t \in Threads, Unheld(ProcOf[t], t) = {}
    PROVE  Len(registry[ProcOf[t]]) + 1 <= Cardinality({u \in Threads : ProcOf[u] = ProcOf[t]})
<1> DEFINE p == ProcOf[t]
           s == registry[p]
           Team == {u \in Threads : ProcOf[u] = p}
           f == [i \in DOMAIN s |-> CHOOSE u \in Team \ {t} : s[i].lock \in LocksOf(u)]
<1>1. p \in Procs
  BY PageLockAssumption
<1>2. s \in Seq(Entry) /\ Len(s) \in Nat /\ DOMAIN s = 1..Len(s)
  BY <1>1, LenProperties DEF TypeOK
<1>3. ASSUME NEW i \in DOMAIN s PROVE f[i] \in Team \ {t} /\ s[i].lock \in LocksOf(f[i])
  <2>1. PICK u \in Threads \ {t} : s[i].lock \in Range(stack[u])
    BY DEF Unheld, Holders
  <2>2. s[i].lock \in LocksOf(u)
    BY <2>1 DEF LocksOf
  <2>3. ProcOf[u] = p
    BY <1>1, <2>1, <2>2 DEF RegistryInv
  <2> QED BY <2>1, <2>2, <2>3
<1>4. \A i \in DOMAIN s : key[f[i]] = s[i].key
  BY <1>1, <1>3 DEF RegistryInv
<1>5. f \in Injection(DOMAIN s, Team \ {t})
  <2>1. f \in [DOMAIN s -> Team \ {t}]
    BY <1>3
  <2> HIDE DEF f
  <2>2. \A i, j \in DOMAIN s : f[i] = f[j] => i = j
    BY <1>1, <1>4 DEF RegistryInv, OnePerKey
  <2> QED BY <2>1, <2>2 DEF Injection, IsInjective
<1>6. IsFiniteSet(Team) /\ Cardinality(Team) \in Nat
  BY FS_Subset, FS_CardinalityType
<1>7. IsFiniteSet(Team \ {t}) /\ Cardinality(Team \ {t}) = Cardinality(Team) - 1
  BY <1>6, FS_RemoveElement
<1>8. Cardinality(DOMAIN s) = Len(s)
  BY <1>2, FS_Interval
<1> HIDE DEF s, Team, f
<1>9. Cardinality(DOMAIN s) <= Cardinality(Team \ {t})
  BY <1>5, <1>7, FS_Injection
<1> QED BY <1>2, <1>6, <1>7, <1>8, <1>9 DEF s, Team

\* Only _lock_for_key adds to a registry.
LEMMA BoundedStep ==
    IsFiniteSet(Threads) /\ TypeOK /\ CallInv /\ RegistryInv /\ RegistryBounded /\ [Next]_vars => RegistryBounded'
<1> SUFFICES ASSUME IsFiniteSet(Threads), TypeOK, CallInv, RegistryInv, RegistryBounded, [Next]_vars
             PROVE  RegistryBounded'
  OBVIOUS
<1> DEFINE n(p) == Cardinality({t \in Threads : ProcOf[t] = p})
           cap(p) == IF n(p) > MaxRegistry THEN n(p) ELSE MaxRegistry
<1>1. \A p \in Procs : n(p) \in Nat /\ MaxRegistry \in Nat /\ Len(registry[p]) \in Nat
  <2>1. \A p \in Procs : IsFiniteSet({t \in Threads : ProcOf[t] = p})
    BY FS_Subset
  <2> QED BY <2>1, FS_CardinalityType, LenProperties, PageLockAssumption DEF TypeOK
<1>2. \A p \in Procs : Len(registry[p]) <= cap(p)
  BY DEF RegistryBounded
<1> SUFFICES ASSUME NEW p \in Procs PROVE Len(registry'[p]) <= cap(p)
  BY DEF RegistryBounded
<1>3. CASE registry'[p] \in {registry[p], <<>>}
  <2>1. Len(registry'[p]) = Len(registry[p]) \/ Len(registry'[p]) = 0
    BY <1>3, EmptySeq
  <2> HIDE DEF n
  <2> QED BY <1>1, <1>2, <2>1
<1>4. ASSUME NEW t \in Threads, NEW k \in Keys, LockForKey(t, k) PROVE Len(registry'[p]) <= cap(p)
  <2>1. PICK s \in Seq(Entry) :
          /\ registry' = [registry EXCEPT ![ProcOf[t]] = s]
          /\ \/ Len(s) <= MaxRegistry
             \/ Len(s) <= Len(registry[ProcOf[t]])
             \/ Len(s) = Len(registry[ProcOf[t]]) + 1 /\ Unheld(ProcOf[t], t) = {}
    BY <1>4, LockForKeyEntries
  <2>2. Len(s) \in Nat /\ ProcOf[t] \in Procs
    BY LenProperties, PageLockAssumption
  <2>3. CASE ProcOf[t] = p
    <3>1. registry'[p] = s
      BY <2>1, <2>3 DEF TypeOK
    <3>2. Unheld(ProcOf[t], t) = {} => Len(registry[p]) + 1 <= n(p)
      BY <2>3, AllHeld
    <3> HIDE DEF n
    <3> QED BY <1>1, <1>2, <2>1, <2>2, <2>3, <3>1, <3>2
  <2>4. CASE ProcOf[t] # p
    BY <1>3, <2>1, <2>4 DEF TypeOK
  <2> QED BY <2>3, <2>4
<1>5. \/ \A q \in Procs : registry'[q] \in {registry[q], <<>>}
      \/ \E t \in Threads, k \in Keys : LockForKey(t, k)
  <2>1. ASSUME NEW t \in Threads, Step(t) PROVE registry' = registry
    BY <2>1 DEF Step, AcquireThreadLock, ThreadLockUnavailable, OpenSidecar, OpenFails, TakeFlock,
                ProbeContended, FlockRaises, ExitNested, ExitBody, ReleaseThreadLock
  <2>2. ASSUME NEW q \in Procs, ClearRegistry(q) \/ (\E k \in Keys : SweepSidecar(q, k)) \/ Crash(q)
        PROVE  \A r \in Procs : registry'[r] \in {registry[r], <<>>}
    BY <2>2 DEF ClearRegistry, SweepSidecar, Crash, TypeOK
  <2>3. ASSUME NEW t \in Threads, Reenter(t) \/ \E k \in Keys, m \in Modes : Call(t, k, m)
        PROVE  \E k \in Keys : LockForKey(t, k)
    BY <2>3 DEF Reenter, Call, CallInv
  <2>4. CASE UNCHANGED vars
    BY <2>4 DEF vars
  <2> QED BY <2>1, <2>2, <2>3, <2>4 DEF Next
<1> QED BY <1>3, <1>4, <1>5

\* The registry of a process never holds more RLocks than its cap or, where that
\* is more, than the process has threads: an eviction that finds every entry
\* held leaves at most one entry per other thread (_lock_for_key).
THEOREM RegistryStaysBounded ==
    ASSUME IsFiniteSet(Threads)
    PROVE  Spec => []RegistryBounded
<1>1. TypeOK /\ CallInv /\ RegistryInv /\ RegistryBounded /\ [Next]_vars
         => (TypeOK /\ CallInv /\ RegistryInv /\ RegistryBounded)'
  BY NextCall, RegistryStep, BoundedStep
<1> QED BY <1>1, InitCall, InitRegistry, PTL DEF Spec

-----------------------------------------------------------------------------
\* A step that leaves every body, every waiting descriptor and the sidecars as
\* they are keeps the reason the flock excludes.
LEMMA SidecarInvFrame ==
    ASSUME TypeOK, CallInv, SidecarInv, NEW t \in Threads,
           UNCHANGED <<fd, flocked, sidecar>>,
           \A u \in Threads : pc'[u] = "flock" => pc[u] = "flock",
           \A u \in Threads : depth'[u] > 0 => depth[u] > 0,
           \A u \in Threads : pc'[u] = "flock" \/ depth'[u] > 0 => key'[u] = key[u]
    PROVE  SidecarInv'
BY DEF SidecarInv, InBody

\* Where flock works and nothing unlinks sidecars, every step of a call keeps
\* the reason the flock excludes.
LEMMA SidecarInvStep ==
    ASSUME FlockKeys = Keys, Sweepers = {}, TypeOK, CallInv, SidecarInv, [Next]_vars
    PROVE  SidecarInv'
<1>1. ASSUME NEW t \in Threads, NEW k \in Keys, NEW m \in Modes, Call(t, k, m)
      PROVE  SidecarInv'
  <2>1. depth[t] = 0
    BY <1>1 DEF Call, CallInv
  <2> QED BY <1>1, <2>1, SidecarInvFrame DEF Call, TypeOK
<1>2. ASSUME NEW t \in Threads, Reenter(t)
      PROVE  SidecarInv'
  BY <1>2, SidecarInvFrame DEF Reenter, TypeOK
<1>3. ASSUME NEW t \in Threads, AcquireThreadLock(t)
      PROVE  SidecarInv'
  BY <1>3, SidecarInvFrame DEF AcquireThreadLock, TypeOK
<1>4. ASSUME NEW t \in Threads, ThreadLockUnavailable(t)
      PROVE  SidecarInv'
  BY <1>4, SidecarInvFrame DEF ThreadLockUnavailable, TypeOK
<1>5. ASSUME NEW t \in Threads, OpenSidecar(t)
      PROVE  SidecarInv'
  <2>1. key[t] \in Keys /\ depth[t] = 0 /\ ~flocked[t]
    BY <1>5 DEF OpenSidecar, CallInv
  <2>2. CASE /\ sidecar[key[t]] # None
             /\ fd' = [fd EXCEPT ![t] = sidecar[key[t]]]
             /\ UNCHANGED sidecar
    BY <1>5, <2>1, <2>2 DEF OpenSidecar, SidecarInv, InBody, TypeOK
  <2>3. ASSUME NEW i \in Inodes, sidecar[key[t]] = None,
               fd' = [fd EXCEPT ![t] = i], sidecar' = [sidecar EXCEPT ![key[t]] = i]
        PROVE  SidecarInv'
    <3>1. \A u \in Threads \ {t} : pc[u] = "flock" \/ InBody(u) => sidecar'[key[u]] = sidecar[key[u]]
      BY <2>1, <2>3 DEF SidecarInv, TypeOK
    <3>2. sidecar'[key[t]] = i /\ i # None
      BY <2>1, <2>3, PageLockAssumption DEF TypeOK
    <3> QED BY <1>5, <2>1, <2>3, <3>1, <3>2 DEF OpenSidecar, SidecarInv, InBody, TypeOK
  <2>4. FreeInodes # {} => (CHOOSE x \in FreeInodes : TRUE) \in Inodes
    BY DEF FreeInodes
  <2> QED BY <1>5, <2>2, <2>3, <2>4 DEF OpenSidecar
<1>6. ASSUME NEW t \in Threads, TakeFlock(t)
      PROVE  SidecarInv'
  <2>1. depth[t] = 0 /\ ~flocked[t] /\ fd[t] # None /\ fd[t] = sidecar[key[t]]
    BY <1>6 DEF TakeFlock, CallInv, SidecarInv
  <2>2. CASE mode[t] = "probe"
    BY <1>6, <2>1, <2>2 DEF TakeFlock, SidecarInv, InBody, TypeOK
  <2>3. CASE mode[t] # "probe"
    <3>1. \A u \in Threads : flocked[u] => fd[u] # fd[t]
      BY <1>6 DEF TakeFlock, FlockFree
    <3>2. /\ pc'[t] # "flock" /\ \A u \in Threads \ {t} : pc'[u] = pc[u]
          /\ flocked'[t] /\ \A u \in Threads \ {t} : flocked'[u] = flocked[u]
          /\ \A u \in Threads \ {t} : depth'[u] = depth[u]
          /\ UNCHANGED <<key, fd, sidecar>>
      BY <1>6, <2>3 DEF TakeFlock, TypeOK
    <3> QED BY <2>1, <3>1, <3>2 DEF SidecarInv, InBody
  <2> QED BY <2>2, <2>3
<1>7. ASSUME NEW t \in Threads, OpenFails(t) \/ ProbeContended(t)
      PROVE  SidecarInv'
  <2>1. depth[t] = 0 /\ ~flocked[t]
    BY <1>7 DEF OpenFails, ProbeContended, CallInv
  <2>2. CASE OpenFails(t)
    BY <2>1, <2>2, SidecarInvFrame DEF OpenFails, TypeOK
  <2>3. CASE ProbeContended(t)
    BY <2>1, <2>3 DEF ProbeContended, SidecarInv, InBody, TypeOK
  <2> QED BY <1>7, <2>2, <2>3
<1>8. ASSUME NEW t \in Threads, ExitNested(t)
      PROVE  SidecarInv'
  <2>1. \A u \in Threads : depth'[u] > 0 => depth[u] > 0
    BY <1>8 DEF ExitNested, TypeOK
  <2> QED BY <1>8, <2>1, SidecarInvFrame DEF ExitNested
<1>9. ASSUME NEW t \in Threads, ExitBody(t)
      PROVE  SidecarInv'
  BY <1>9 DEF ExitBody, SidecarInv, InBody, TypeOK
<1>10. ASSUME NEW t \in Threads, ReleaseThreadLock(t)
       PROVE  SidecarInv'
  <2>1. depth[t] = 0
    BY <1>10 DEF ReleaseThreadLock, CallInv
  <2> QED BY <1>10, <2>1, SidecarInvFrame DEF ReleaseThreadLock, TypeOK
<1>11. ASSUME NEW p \in Procs, ClearRegistry(p)
       PROVE  SidecarInv'
  BY <1>11 DEF ClearRegistry, threadVars, SidecarInv, InBody
<1>12. ASSUME NEW p \in Procs, Crash(p)
       PROVE  SidecarInv'
  BY <1>12 DEF Crash, SidecarInv, InBody
<1>13. CASE UNCHANGED vars
  BY <1>13 DEF vars, SidecarInv, InBody
<1>14. \A p \in Procs, k \in Keys : ~SweepSidecar(p, k)
  BY DEF SweepSidecar
<1>15. \A t \in Threads : ~FlockRaises(t)
  BY DEF FlockRaises, CallInv
<1> QED BY <1>1, <1>2, <1>3, <1>4, <1>5, <1>6, <1>7, <1>8, <1>9, <1>10, <1>11,
           <1>12, <1>13, <1>14, <1>15 DEF Next, Step

\* No descriptor is open at the start.
LEMMA InitSidecar == Init => SidecarInv
BY DEF Init, SidecarInv, InBody

\* Two bodies of one page hold the flock of one inode, so they are one body.
LEMMA SidecarExcludes ==
    ASSUME SidecarInv PROVE MutualExclusion
BY DEF SidecarInv, MutualExclusion, Inside, InBody

\* page_rmw_lock excludes every other thread and process from the page, for any
\* number of them and any sequence of calls, nested entries, crashes and lost
\* registries, as long as flock works and nobody unlinks a sidecar.
THEOREM PageExclusion ==
    ASSUME FlockKeys = Keys, Sweepers = {}
    PROVE  Spec => []MutualExclusion
<1>1. Init => TypeOK /\ CallInv /\ SidecarInv
  BY InitCall, InitSidecar
<1>2. TypeOK /\ CallInv /\ SidecarInv /\ [Next]_vars => (TypeOK /\ CallInv /\ SidecarInv)'
  BY NextCall, SidecarInvStep
<1>3. TypeOK /\ CallInv /\ SidecarInv => MutualExclusion
  BY SidecarExcludes
<1> QED BY <1>1, <1>2, <1>3, PTL DEF Spec

\* A step after which the same threads are in the same bodies is a stutter of
\* the abstract mutex.
LEMMA SameBodies ==
    ASSUME TypeOK, CallInv,
           \A t \in Threads : depth'[t] > 0 <=> depth[t] > 0,
           \A t \in Threads : depth[t] > 0 => key'[t] = key[t]
    PROVE  [k \in Keys |-> Inside(k)]' = [k \in Keys |-> Inside(k)]
<1>1. \A k \in Keys : Inside(k)' = Inside(k)
  BY DEF Inside, InBody
<1> QED BY <1>1

\* Entering the outermost body is the abstract Acquire, leaving it or dying in it
\* the abstract Release, and every other step a stutter.
LEMMA StepImplements ==
    ASSUME FlockKeys = Keys, Sweepers = {}, TypeOK, CallInv, SidecarInv, [Next]_vars
    PROVE  [Mutex!MutexNext]_([k \in FlockKeys |-> Inside(k)])
<1> DEFINE holders == [k \in FlockKeys |-> Inside(k)]
<1> USE DEF Mutex!MutexNext
<1>1. ASSUME NEW t \in Threads,
             \/ Reenter(t) \/ \E k \in Keys, m \in Modes : Call(t, k, m)
             \/ AcquireThreadLock(t) \/ ThreadLockUnavailable(t) \/ OpenSidecar(t)
             \/ OpenFails(t) \/ ProbeContended(t) \/ ExitNested(t) \/ ReleaseThreadLock(t)
      PROVE  holders' = holders
  <2>1. depth[t] > 0 => key'[t] = key[t]
    BY <1>1 DEF Reenter, Call, AcquireThreadLock, ThreadLockUnavailable, OpenSidecar,
                OpenFails, ProbeContended, ExitNested, ReleaseThreadLock, CallInv
  <2>2. \A u \in Threads \ {t} : key'[u] = key[u] /\ depth'[u] = depth[u]
    BY <1>1 DEF Reenter, Call, AcquireThreadLock, ThreadLockUnavailable, OpenSidecar,
                OpenFails, ProbeContended, ExitNested, ReleaseThreadLock, TypeOK
  <2>3. depth'[t] > 0 <=> depth[t] > 0
    <3>1. CASE ExitNested(t)
      BY <3>1 DEF ExitNested, TypeOK
    <3>2. CASE AcquireThreadLock(t)
      BY <3>2 DEF AcquireThreadLock, TypeOK
    <3> QED BY <1>1, <3>1, <3>2 DEF Reenter, Call, ThreadLockUnavailable, OpenSidecar,
                OpenFails, ProbeContended, ReleaseThreadLock
  <2> QED BY <2>1, <2>2, <2>3, SameBodies
<1>2. ASSUME NEW t \in Threads, TakeFlock(t)
      PROVE  holders' = holders \/ \E k \in Keys : Mutex!Acquire(t, k)
  <2>1. key[t] \in Keys /\ depth[t] = 0 /\ fd[t] = sidecar[key[t]]
    BY <1>2 DEF TakeFlock, CallInv, SidecarInv
  <2>2. CASE mode[t] = "probe"
    BY <1>2, <2>2, SameBodies DEF TakeFlock
  <2>3. CASE mode[t] # "probe"
    <3>1. Inside(key[t]) = {}
      <4>1. \A u \in Threads : flocked[u] => fd[u] # fd[t]
        BY <1>2 DEF TakeFlock, FlockFree
      <4> QED BY <2>1, <4>1 DEF Inside, InBody, SidecarInv
    <3>2. depth'[t] > 0 /\ key' = key /\ \A u \in Threads \ {t} : depth'[u] = depth[u]
      BY <1>2, <2>3 DEF TakeFlock, TypeOK
    <3>3. \A k \in Keys : Inside(k)' = IF k = key[t] THEN {t} ELSE Inside(k)
      BY <2>1, <3>1, <3>2 DEF Inside, InBody
    <3> QED BY <2>1, <3>1, <3>3 DEF Mutex!Acquire
  <2> QED BY <2>2, <2>3
<1>3. ASSUME NEW t \in Threads, ExitBody(t)
      PROVE  Mutex!Release({t})
  <2>1. key[t] \in Keys /\ t \in Inside(key[t])
    BY <1>3 DEF ExitBody, CallInv, Inside, InBody
  <2>2. depth'[t] = 0 /\ key' = key /\ \A u \in Threads \ {t} : depth'[u] = depth[u]
    BY <1>3 DEF ExitBody, TypeOK
  <2>3. \A k \in Keys : Inside(k)' = Inside(k) \ {t}
    BY <2>2 DEF Inside, InBody
  <2> QED BY <2>1, <2>3 DEF Mutex!Release
<1>4. ASSUME NEW p \in Procs, Crash(p)
      PROVE  holders' = holders \/ Mutex!Release({t \in Threads : ProcOf[t] = p})
  <2> DEFINE S == {t \in Threads : ProcOf[t] = p}
  <2>1. /\ depth' = [t \in Threads |-> IF ProcOf[t] = p THEN 0 ELSE depth[t]]
        /\ key' = [t \in Threads |-> IF ProcOf[t] = p THEN None ELSE key[t]]
    BY <1>4 DEF Crash
  <2>2. \A k \in Keys : Inside(k)' = Inside(k) \ S
    BY <2>1 DEF Inside, InBody
  <2>3. holders' = [k \in Keys |-> holders[k] \ S]
    BY <2>2
  <2>4. CASE \E k \in Keys : holders[k] \cap S # {}
    BY <2>3, <2>4 DEF Mutex!Release
  <2>5. CASE ~ \E k \in Keys : holders[k] \cap S # {}
    <3>1. \A k \in Keys : Inside(k) \ S = Inside(k)
      BY <2>5
    <3> QED BY <2>2, <3>1
  <2> QED BY <2>4, <2>5
<1>5. ASSUME NEW p \in Procs, ClearRegistry(p)
      PROVE  holders' = holders
  BY <1>5, SameBodies DEF ClearRegistry, threadVars
<1>6. ASSUME UNCHANGED vars
      PROVE  holders' = holders
  BY <1>6, SameBodies DEF vars
<1>7. \A p \in Procs, k \in Keys : ~SweepSidecar(p, k)
  BY DEF SweepSidecar
<1>8. \A t \in Threads : ~FlockRaises(t)
  BY DEF FlockRaises, CallInv
<1>9. ASSUME NEW t \in Threads, Step(t)
      PROVE  holders' = holders \/ Mutex!MutexNext
  <2>1. Mutex!Release({t}) => Mutex!MutexNext
    OBVIOUS
  <2>2. (\E k \in Keys : Mutex!Acquire(t, k)) => Mutex!MutexNext
    OBVIOUS
  <2> HIDE DEF holders, Mutex!MutexNext
  <2> QED BY <1>1, <1>2, <1>3, <1>8, <1>9, <2>1, <2>2 DEF Step
<1>10. ASSUME NEW p \in Procs, Crash(p)
       PROVE  holders' = holders \/ Mutex!MutexNext
  <2> DEFINE S == {t \in Threads : ProcOf[t] = p}
  <2>1. S \in SUBSET Threads
    OBVIOUS
  <2>2. holders' = holders \/ Mutex!Release(S)
    BY <1>4, <1>10
  <2> HIDE DEF S
  <2> QED BY <2>1, <2>2
<1> HIDE DEF holders, Mutex!MutexNext
<1>11. holders' = holders \/ Mutex!MutexNext
  <2>1. ASSUME NEW t \in Threads, Reenter(t) \/ \E k \in Keys, m \in Modes : Call(t, k, m)
        PROVE  holders' = holders
    BY <1>1, <2>1
  <2>2. CASE \E t \in Threads : Reenter(t) \/ \E k \in Keys, m \in Modes : Call(t, k, m)
    BY <2>1, <2>2
  <2>3. CASE \E t \in Threads : Step(t)
    BY <1>9, <2>3
  <2>4. CASE \E p \in Procs : ClearRegistry(p) \/ (\E k \in Keys : SweepSidecar(p, k)) \/ Crash(p)
    BY <1>5, <1>7, <1>10, <2>4
  <2> QED BY <1>6, <2>2, <2>3, <2>4 DEF Next
<1> QED BY <1>11 DEF holders

\* The detailed lock implements the abstract page mutex of module PageMutex.
THEOREM LockImplementsMutex ==
    ASSUME FlockKeys = Keys, Sweepers = {}
    PROVE  Spec => ImplementsMutex
<1>1. Init => TypeOK /\ CallInv /\ SidecarInv
  BY InitCall, InitSidecar
<1>2. TypeOK /\ CallInv /\ SidecarInv /\ [Next]_vars => (TypeOK /\ CallInv /\ SidecarInv)'
  BY NextCall, SidecarInvStep
<1>3. Init => Mutex!MutexInit
  BY DEF Init, Inside, InBody, Mutex!MutexInit
<1>4. TypeOK /\ CallInv /\ SidecarInv /\ [Next]_vars
        => [Mutex!MutexNext]_([k \in FlockKeys |-> Inside(k)])
  BY StepImplements
<1> QED BY <1>1, <1>2, <1>3, <1>4, PTL DEF Spec, ImplementsMutex, Mutex!MutexSpec
=============================================================================
