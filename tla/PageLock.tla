------------------------------ MODULE PageLock ------------------------------
(***************************************************************************)
(* page_rmw_lock: one thread in one process at a time may read, change and *)
(* write back a page of the graph.  A caller takes the page's RLock from a *)
(* bounded registry of its process, then an flock on the sidecar file      *)
(* `.<page>.matryca.lock` next to the page, runs its body, and gives both  *)
(* back.                                                                   *)
(*                                                                         *)
(* An RLock is its identity (LockIds) and a file its inode (Inodes); both  *)
(* return to the free set when nothing refers to them.  An RLock is held   *)
(* by the threads that have it on their stack, once per nested entry.      *)
(***************************************************************************)
EXTENDS Naturals, Sequences, SequencesExt, FiniteSets

CONSTANTS
    Threads,              \* the threads that lock pages
    Procs,                \* the processes: daemon, MCP server, UI, CLI
    ProcOf,               \* the process of a thread
    Keys,                 \* the normalised page paths
    LockIds, Inodes,      \* object identities and inode numbers
    MaxRegistry,          \* _MAX_PAGE_LOCK_REGISTRY
    MaxNest,              \* bound: how deep a thread re-enters one page
    Modes,                \* the calls made: subset of {"rmw", "wait", "probe"}
    FlockKeys,            \* the pages whose file system implements flock
    DegradationAllowed,   \* MATRYCA_ALLOW_FLOCK_DEGRADATION
    Stopping,             \* processes that drop their registry (their lifespan ends)
    Sweepers,             \* those of them that also sweep sidecars (the daemon)
    Mortal,               \* processes that may be killed
    None

ASSUME PageLockAssumption ==
    /\ ProcOf \in [Threads -> Procs]
    /\ Modes \subseteq {"rmw", "wait", "probe"}
    /\ FlockKeys \subseteq Keys
    /\ DegradationAllowed \in BOOLEAN
    /\ Sweepers \subseteq Stopping /\ Stopping \subseteq Procs /\ Mortal \subseteq Procs
    /\ MaxRegistry \in Nat \ {0} /\ MaxNest \in Nat \ {0}
    /\ None \notin Keys /\ None \notin LockIds /\ None \notin Inodes

VARIABLES
    registry,   \* registry[p]: the entries of _page_locks, least recently used first
    pc,         \* where a thread is in page_rmw_lock or probe_page_rmw_lock
    key,        \* the page the thread is locking
    mode,       \* "rmw", "wait" (wait_for_thread_lock) or "probe"
    ref,        \* the RLock _lock_for_key returned, not yet acquired
    stack,      \* the RLocks the thread holds, innermost last
    depth,      \* flock_depths()[key]
    fd,         \* the inode of the thread's open sidecar descriptor
    flocked,    \* that descriptor holds the exclusive flock
    sidecar     \* sidecar[k]: the inode the sidecar path names

vars == <<registry, pc, key, mode, ref, stack, depth, fd, flocked, sidecar>>
threadVars == <<pc, key, mode, ref, stack, depth, fd, flocked>>

Labels == {"idle", "acquire", "open", "flock", "body", "release"}
Entry == [key : Keys, lock : LockIds]

TypeOK ==
    /\ registry \in [Procs -> Seq(Entry)]
    /\ pc \in [Threads -> Labels]
    /\ key \in [Threads -> Keys \cup {None}]
    /\ mode \in [Threads -> {"rmw", "wait", "probe"}]
    /\ ref \in [Threads -> LockIds \cup {None}]
    /\ stack \in [Threads -> Seq(LockIds)]
    /\ depth \in [Threads -> Nat]
    /\ fd \in [Threads -> Inodes \cup {None}]
    /\ flocked \in [Threads -> BOOLEAN]
    /\ sidecar \in [Keys -> Inodes \cup {None}]

Init ==
    /\ registry = [p \in Procs |-> <<>>]
    /\ pc = [t \in Threads |-> "idle"]
    /\ key = [t \in Threads |-> None]
    /\ mode = [t \in Threads |-> "rmw"]
    /\ ref = [t \in Threads |-> None]
    /\ stack = [t \in Threads |-> <<>>]
    /\ depth = [t \in Threads |-> 0]
    /\ fd = [t \in Threads |-> None]
    /\ flocked = [t \in Threads |-> FALSE]
    /\ sidecar = [k \in Keys |-> None]

-----------------------------------------------------------------------------
(* The registry of RLocks *)

Holders(l) == {t \in Threads : l \in Range(stack[t])}

\* Objects nobody refers to: neither a registry, nor a caller, nor a holder.
FreeLocks ==
    {l \in LockIds : /\ Holders(l) = {}
                     /\ \A t \in Threads : ref[t] # l
                     /\ \A p \in Procs : \A i \in DOMAIN registry[p] : registry[p][i].lock # l}

Places(p, k) == {i \in DOMAIN registry[p] : registry[p][i].key = k}

\* What acquire(blocking=False) can take for thread t: an RLock nobody else
\* holds.  (RLock.locked, which also spares t's own, needs Python 3.14.)
Unheld(p, t) == {i \in DOMAIN registry[p] : Holders(registry[p][i].lock) \subseteq {t}}
Least(S) == CHOOSE i \in S : \A j \in S : i <= j

\* Mutant: the cap is never enforced.
NoEviction(p, t) == registry[p]

\* A full registry drops its least recently used entry that no thread holds.
AfterEviction(p, t) ==
    IF Len(registry[p]) >= MaxRegistry /\ Unheld(p, t) # {}
      THEN RemoveAt(registry[p], Least(Unheld(p, t)))
      ELSE registry[p]

\* Mutant: a new lock object on every call, as without the registry lookup.
LockPerCall(t, k) ==
    /\ FreeLocks # {}
    /\ LET l == CHOOSE x \in FreeLocks : TRUE IN
       /\ ref' = [ref EXCEPT ![t] = l]
       /\ registry' = [registry EXCEPT ![ProcOf[t]] = <<[key |-> k, lock |-> l]>>]

\* _lock_for_key: under the registry guard, find the page's lock or make one.
LockForKey(t, k) ==
    LET p == ProcOf[t] IN
    \/ \E i \in Places(p, k) :
          /\ ref' = [ref EXCEPT ![t] = registry[p][i].lock]
          /\ registry' = [registry EXCEPT ![p] = Append(RemoveAt(@, i), @[i])]
    \/ /\ Places(p, k) = {}
       /\ FreeLocks # {}
       /\ LET l == CHOOSE x \in FreeLocks : TRUE IN
          /\ ref' = [ref EXCEPT ![t] = l]
          /\ registry' = [registry EXCEPT ![p] = Append(AfterEviction(p, t), [key |-> k, lock |-> l])]

-----------------------------------------------------------------------------
(* One call of page_rmw_lock or probe_page_rmw_lock *)

Call(t, k, m) ==
    /\ pc[t] = "idle"
    /\ LockForKey(t, k)
    /\ pc' = [pc EXCEPT ![t] = "acquire"]
    /\ key' = [key EXCEPT ![t] = k]
    /\ mode' = [mode EXCEPT ![t] = m]
    /\ UNCHANGED <<stack, depth, fd, flocked, sidecar>>

\* The body calls page_rmw_lock again for the page it is in.
Reenter(t) ==
    /\ pc[t] = "body"
    /\ depth[t] < MaxNest
    /\ LockForKey(t, key[t])
    /\ pc' = [pc EXCEPT ![t] = "acquire"]
    /\ UNCHANGED <<key, mode, stack, depth, fd, flocked, sidecar>>

\* Mutant: the reference is dropped before it is recorded as held.
AcquireForgetsLock(t) ==
    /\ pc[t] = "acquire"
    /\ Holders(ref[t]) \subseteq {t}
    /\ ref' = [ref EXCEPT ![t] = None]
    /\ stack' = [stack EXCEPT ![t] = Append(@, ref'[t])]
    /\ pc' = [pc EXCEPT ![t] = "open"]
    /\ UNCHANGED <<registry, key, mode, depth, fd, flocked, sidecar>>

\* The RLock is free or already this thread's.  An entry nested in a held
\* flock only counts one level deeper; the outermost opens the sidecar.
AcquireThreadLock(t) ==
    /\ pc[t] = "acquire"
    /\ Holders(ref[t]) \subseteq {t}
    /\ stack' = [stack EXCEPT ![t] = Append(@, ref[t])]
    /\ ref' = [ref EXCEPT ![t] = None]
    /\ IF depth[t] > 0
         THEN /\ depth' = [depth EXCEPT ![t] = @ + 1]
              /\ pc' = [pc EXCEPT ![t] = "body"]
         ELSE /\ pc' = [pc EXCEPT ![t] = "open"]
              /\ UNCHANGED depth
    /\ UNCHANGED <<registry, key, mode, fd, flocked, sidecar>>

\* PageLockUnavailableError after the bounded retries, or at once for a probe.
\* A nested failure returns to the enclosing body.
ThreadLockUnavailable(t) ==
    /\ pc[t] = "acquire"
    /\ mode[t] # "wait"
    /\ ~(Holders(ref[t]) \subseteq {t})
    /\ ref' = [ref EXCEPT ![t] = None]
    /\ IF depth[t] > 0
         THEN pc' = [pc EXCEPT ![t] = "body"] /\ UNCHANGED key
         ELSE pc' = [pc EXCEPT ![t] = "idle"] /\ key' = [key EXCEPT ![t] = None]
    /\ UNCHANGED <<registry, mode, stack, depth, fd, flocked, sidecar>>

FreeInodes == Inodes \ (Range(sidecar) \cup Range(fd))

\* os.open(sidecar, O_CREAT | O_RDWR): the inode the path names, or a new one.
OpenSidecar(t) ==
    /\ pc[t] = "open"
    /\ pc' = [pc EXCEPT ![t] = "flock"]
    /\ \/ /\ sidecar[key[t]] # None
          /\ fd' = [fd EXCEPT ![t] = sidecar[key[t]]]
          /\ UNCHANGED sidecar
       \/ /\ sidecar[key[t]] = None
          /\ FreeInodes # {}
          /\ LET i == CHOOSE x \in FreeInodes : TRUE IN
             /\ fd' = [fd EXCEPT ![t] = i]
             /\ sidecar' = [sidecar EXCEPT ![key[t]] = i]
    /\ UNCHANGED <<registry, key, mode, ref, stack, depth, flocked>>

\* The locks directory cannot be made, or the sidecar not be opened: the call fails.
OpenFails(t) ==
    /\ pc[t] = "open"
    /\ pc' = [pc EXCEPT ![t] = "release"]
    /\ UNCHANGED <<registry, key, mode, ref, stack, depth, fd, flocked, sidecar>>

\* Mutant: a shared lock (LOCK_SH) is asked for.
FlockShared(i) == i # None

FlockFree(i) == \A t \in Threads : ~(fd[t] = i /\ flocked[t])

\* flock succeeds when no descriptor of the inode holds it.  A probe gives it
\* back at once; a writer enters its body.
TakeFlock(t) ==
    /\ pc[t] = "flock"
    /\ key[t] \in FlockKeys
    /\ FlockFree(fd[t])
    /\ IF mode[t] = "probe"
         THEN /\ pc' = [pc EXCEPT ![t] = "release"]
              /\ fd' = [fd EXCEPT ![t] = None]
              /\ UNCHANGED <<flocked, depth>>
         ELSE /\ pc' = [pc EXCEPT ![t] = "body"]
              /\ flocked' = [flocked EXCEPT ![t] = TRUE]
              /\ depth' = [depth EXCEPT ![t] = 1]
              /\ UNCHANGED fd
    /\ UNCHANGED <<registry, key, mode, ref, stack, sidecar>>

\* Mutant: the error leaves without the finally that releases the RLock.
ProbeSkipsFinally(t) ==
    /\ pc[t] = "flock"
    /\ key[t] \in FlockKeys
    /\ mode[t] = "probe"
    /\ ~FlockFree(fd[t])
    /\ pc' = [pc EXCEPT ![t] = "idle"]
    /\ key' = [key EXCEPT ![t] = None]
    /\ fd' = [fd EXCEPT ![t] = None]
    /\ UNCHANGED <<registry, mode, ref, stack, depth, flocked, sidecar>>

\* A contended probe raises; a contended writer keeps blocking (no step).
ProbeContended(t) ==
    /\ pc[t] = "flock"
    /\ key[t] \in FlockKeys
    /\ mode[t] = "probe"
    /\ ~FlockFree(fd[t])
    /\ pc' = [pc EXCEPT ![t] = "release"]
    /\ fd' = [fd EXCEPT ![t] = None]
    /\ UNCHANGED <<registry, key, mode, ref, stack, depth, flocked, sidecar>>

\* flock raises OSError: the body runs on the thread lock alone where the
\* operator allowed it, and otherwise the call fails.
FlockRaises(t) ==
    /\ pc[t] = "flock"
    /\ key[t] \notin FlockKeys
    /\ IF DegradationAllowed /\ mode[t] # "probe"
         THEN /\ pc' = [pc EXCEPT ![t] = "body"]
              /\ depth' = [depth EXCEPT ![t] = 1]
              /\ UNCHANGED fd
         ELSE /\ pc' = [pc EXCEPT ![t] = "release"]
              /\ fd' = [fd EXCEPT ![t] = None]
              /\ UNCHANGED depth
    /\ UNCHANGED <<registry, key, mode, ref, stack, flocked, sidecar>>

ExitNested(t) ==
    /\ pc[t] = "body"
    /\ depth[t] > 1
    /\ depth' = [depth EXCEPT ![t] = @ - 1]
    /\ stack' = [stack EXCEPT ![t] = Front(@)]
    /\ UNCHANGED <<registry, pc, key, mode, ref, fd, flocked, sidecar>>

\* Mutant: the sidecar is unlinked with the lock, as a lock file would be.
ExitUnlinksSidecar(t) ==
    /\ pc[t] = "body"
    /\ depth[t] = 1
    /\ pc' = [pc EXCEPT ![t] = "release"]
    /\ depth' = [depth EXCEPT ![t] = 0]
    /\ flocked' = [flocked EXCEPT ![t] = FALSE]
    /\ fd' = [fd EXCEPT ![t] = None]
    /\ sidecar' = [sidecar EXCEPT ![key[t]] = None]
    /\ UNCHANGED <<registry, key, mode, ref, stack>>

\* Mutant: the descriptor is neither unlocked nor closed.
ExitKeepsFlock(t) ==
    /\ pc[t] = "body"
    /\ depth[t] = 1
    /\ pc' = [pc EXCEPT ![t] = "release"]
    /\ depth' = [depth EXCEPT ![t] = 0]
    /\ UNCHANGED <<registry, key, mode, ref, stack, fd, flocked, sidecar>>

\* The outermost exit: drop the depth, LOCK_UN, close the descriptor ...
ExitBody(t) ==
    /\ pc[t] = "body"
    /\ depth[t] = 1
    /\ pc' = [pc EXCEPT ![t] = "release"]
    /\ depth' = [depth EXCEPT ![t] = 0]
    /\ flocked' = [flocked EXCEPT ![t] = FALSE]
    /\ fd' = [fd EXCEPT ![t] = None]
    /\ UNCHANGED <<registry, key, mode, ref, stack, sidecar>>

\* ... then release the RLock, in the finally of every path that acquired it.
ReleaseThreadLock(t) ==
    /\ pc[t] = "release"
    /\ pc' = [pc EXCEPT ![t] = "idle"]
    /\ key' = [key EXCEPT ![t] = None]
    /\ stack' = [stack EXCEPT ![t] = Front(@)]
    /\ UNCHANGED <<registry, mode, ref, depth, fd, flocked, sidecar>>

-----------------------------------------------------------------------------
(* The process around the calls *)

\* clear_page_write_locks at the end of the process's lifespan.
ClearRegistry(p) ==
    /\ p \in Stopping
    /\ registry[p] # <<>>
    /\ registry' = [registry EXCEPT ![p] = <<>>]
    /\ UNCHANGED <<threadVars, sidecar>>

\* sweep_matryca_lock_sidecars unlinks each sidecar it finds, held or not.
SweepSidecar(p, k) ==
    /\ p \in Sweepers
    /\ sidecar[k] # None
    /\ sidecar' = [sidecar EXCEPT ![k] = None]
    /\ UNCHANGED <<registry, threadVars>>

\* A killed process loses its memory and its descriptors; sidecars stay.
Crash(p) ==
    LET Dead(t) == ProcOf[t] = p IN
    /\ p \in Mortal
    /\ \E t \in Threads : Dead(t) /\ pc[t] # "idle"
    /\ registry' = [registry EXCEPT ![p] = <<>>]
    /\ pc' = [t \in Threads |-> IF Dead(t) THEN "idle" ELSE pc[t]]
    /\ key' = [t \in Threads |-> IF Dead(t) THEN None ELSE key[t]]
    /\ ref' = [t \in Threads |-> IF Dead(t) THEN None ELSE ref[t]]
    /\ stack' = [t \in Threads |-> IF Dead(t) THEN <<>> ELSE stack[t]]
    /\ depth' = [t \in Threads |-> IF Dead(t) THEN 0 ELSE depth[t]]
    /\ fd' = [t \in Threads |-> IF Dead(t) THEN None ELSE fd[t]]
    /\ flocked' = [t \in Threads |-> IF Dead(t) THEN FALSE ELSE flocked[t]]
    /\ UNCHANGED <<mode, sidecar>>

\* The steps a started call takes on its own.
Step(t) ==
    \/ AcquireThreadLock(t)
    \/ ThreadLockUnavailable(t)
    \/ OpenSidecar(t)
    \/ OpenFails(t)
    \/ TakeFlock(t)
    \/ ProbeContended(t)
    \/ FlockRaises(t)
    \/ ExitNested(t)
    \/ ExitBody(t)
    \/ ReleaseThreadLock(t)

Next ==
    \/ \E t \in Threads :
          \/ \E k \in Keys, m \in Modes : Call(t, k, m)
          \/ Reenter(t)
          \/ Step(t)
    \/ \E p \in Procs :
          \/ ClearRegistry(p)
          \/ \E k \in Keys : SweepSidecar(p, k)
          \/ Crash(p)

Spec == Init /\ [][Next]_vars

\* A runnable thread runs, a body is finite, and the kernel serves the waiters
\* of a blocking flock in turn.
FairSpec ==
    /\ Spec
    /\ \A t \in Threads : WF_vars(Step(t)) /\ SF_vars(ExitBody(t)) /\ SF_vars(TakeFlock(t))

-----------------------------------------------------------------------------
(* Properties *)

InBody(t) == depth[t] > 0
Inside(k) == {t \in Threads : InBody(t) /\ key[t] = k}

\* The thread- and process-safety page_rmw_lock announces: no page
\* whose file system has flock is in the body of two threads, whichever processes they belong to.
MutualExclusion == \A k \in FlockKeys : \A t, u \in Inside(k) : t = u

\* What is left when flock is unsupported and degradation is allowed: two
\* threads of one process still exclude each other.
InProcessExclusion ==
    \A k \in Keys : \A t, u \in Inside(k) : ProcOf[t] = ProcOf[u] => t = u

\* The registry outgrows its cap only as far as the process has threads that
\* hold page locks: eviction fails only when every entry is held.
RegistryBounded ==
    \A p \in Procs :
        LET n == Cardinality({t \in Threads : ProcOf[t] = p}) IN
        Len(registry[p]) <= IF n > MaxRegistry THEN n ELSE MaxRegistry

\* A call gives everything back: a thread outside page_rmw_lock holds no RLock,
\* no flock depth and no descriptor, on every exit path of the code.
NothingLeaks ==
    \A t \in Threads :
        pc[t] = "idle" => stack[t] = <<>> /\ depth[t] = 0 /\ fd[t] = None /\ ~flocked[t]

\* A caller that got its RLock neither deadlocks with the flock nor starves.
EveryCallReturns == \A t \in Threads : (pc[t] # "idle") ~> (pc[t] = "idle")

\* What a thread holds at each point of the call: the inductive strengthening
\* of TypeOK and NothingLeaks.
CallInv ==
    \A t \in Threads :
        /\ pc[t] # "idle" => key[t] \in Keys
        /\ pc[t] = "acquire" => ref[t] \in LockIds
        /\ pc[t] \in {"acquire", "body"} => Len(stack[t]) = depth[t]
        /\ pc[t] = "idle" => stack[t] = <<>>
        /\ pc[t] \in {"open", "flock", "release"} => Len(stack[t]) = 1
        /\ pc[t] = "body" => depth[t] > 0
        /\ pc[t] \in {"idle", "open", "flock", "release"} => depth[t] = 0
        /\ depth[t] = 0 => ~flocked[t] /\ (fd[t] # None => pc[t] = "flock")

\* Why the flock excludes: a descriptor that is waiting or in a body is of the
\* inode the page's sidecar path names, and one descriptor of it is locked.
\* The inductive strengthening of MutualExclusion where flock works.
SidecarInv ==
    /\ \A t \in Threads :
          /\ pc[t] = "flock" \/ InBody(t) => fd[t] # None /\ fd[t] = sidecar[key[t]]
          /\ InBody(t) => flocked[t]
    /\ \A t, u \in Threads : flocked[t] /\ flocked[u] /\ fd[t] = fd[u] => t = u

\* page_rmw_lock implements the abstract page mutex, for the pages whose file
\* system has flock.
Mutex == INSTANCE PageMutex WITH Keys <- FlockKeys, holders <- [k \in FlockKeys |-> Inside(k)]
ImplementsMutex == Mutex!MutexSpec
=============================================================================
