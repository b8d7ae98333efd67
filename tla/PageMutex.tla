------------------------------ MODULE PageMutex ------------------------------
(***************************************************************************)
(* What page_rmw_lock promises its callers: at most one thread, in any     *)
(* process, runs the read-modify-write body of a page at a time.           *)
(***************************************************************************)
CONSTANTS Threads, Keys

VARIABLE holders      \* holders[k]: the threads inside the body for page k

MutexInit == holders = [k \in Keys |-> {}]

\* A thread enters the body of a page nobody is in.
Acquire(t, k) ==
    /\ holders[k] = {}
    /\ holders' = [holders EXCEPT ![k] = {t}]

\* The threads in S leave, one after its body or all those of a dead process.
Release(S) ==
    /\ \E k \in Keys : holders[k] \cap S # {}
    /\ holders' = [k \in Keys |-> holders[k] \ S]

MutexNext ==
    \/ \E t \in Threads, k \in Keys : Acquire(t, k)
    \/ \E S \in SUBSET Threads : Release(S)

MutexSpec == MutexInit /\ [][MutexNext]_holders
=============================================================================
