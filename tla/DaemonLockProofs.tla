-------------------------- MODULE DaemonLockProofs --------------------------
(***************************************************************************)
(* Proofs about the daemon's lock, for any number of daemons, stop         *)
(* commands and lock files, with failures and deaths anywhere.             *)
(***************************************************************************)
EXTENDS DaemonLock, TLAPS

-----------------------------------------------------------------------------
(* Types *)

\* A cleanup in progress is one of those the daemon owes.
OwesCleanup ==
    \A d \in Daemons : pc[d] \in {"finalize", "rmpid", "unlock", "unlink"} => cleanups[d] \in 1..2

\* A stop command that waits or clears has read somebody's pid.
HasTarget == \A s \in Stoppers : stop[s] # "idle" => target[s] \in Daemons

TypeInv == TypeOK /\ OwesCleanup /\ HasTarget

\* The types hold before anything runs.
LEMMA TypeInit == Init => TypeInv
<1> SUFFICES ASSUME Init PROVE TypeInv
  OBVIOUS
<1>1. TypeOK
  <2>1. cleanups \in [Daemons -> 0..2]
    BY DEF Init
  <2>2. pc \in [Daemons -> Labels] /\ flocked \in [Daemons -> BOOLEAN]
    BY DEF Init, Labels
  <2> QED BY <2>1, <2>2 DEF Init, TypeOK
<1>2. OwesCleanup
  BY DEF Init, OwesCleanup
<1>3. HasTarget
  BY DEF Init, HasTarget
<1> QED BY <1>1, <1>2, <1>3 DEF TypeInv

\* A step of a worker keeps the types.
LEMMA TypeWorker ==
    ASSUME TypeInv, NEW d \in Daemons, Worker(d)
    PROVE  TypeInv'
<1> USE DEF TypeInv, TypeOK, OwesCleanup, HasTarget, Labels, Goto, stopVars
<1>1. CASE StartForeground(d)
  BY <1>1 DEF StartForeground
<1>2. CASE StartDetached(d)
  BY <1>2 DEF StartDetached
<1>3. CASE RemoveStalePid(d)
  BY <1>3 DEF RemoveStalePid
<1>4. CASE StartTimeout(d)
  BY <1>4 DEF StartTimeout
<1>5. CASE OpenLockFile(d)
  BY <1>5 DEF OpenLockFile, FreeInodes
<1>6. CASE TryFlock(d)
  BY <1>6 DEF TryFlock, Dies
<1>7. CASE PublishPid(d)
  BY <1>7 DEF PublishPid
<1>8. CASE RegisterHandlers(d)
  BY <1>8 DEF RegisterHandlers
<1>9. CASE EnterLoop(d)
  BY <1>9 DEF EnterLoop
<1>10. CASE Sigterm(d)
  <2>1. CASE Dies(d) /\ UNCHANGED cleanups
    BY <1>10, <2>1 DEF Sigterm, Dies
  <2>2. CASE Leave(d, "rmpid", 2) /\ UNCHANGED <<fd, flocked>>
    BY <1>10, <2>2 DEF Sigterm, Leave
  <2>3. CASE Leave(d, "finalize", 1) /\ UNCHANGED <<fd, flocked>>
    BY <1>10, <2>3 DEF Sigterm, Leave
  <2> QED BY <1>10, <2>1, <2>2, <2>3 DEF Sigterm
<1>11. CASE Fail(d)
  BY <1>11 DEF Fail, Leave
<1>12. CASE Finalize(d)
  BY <1>12 DEF Finalize
<1>13. CASE RemovePid(d)
  BY <1>13 DEF RemovePid
<1>14. CASE Unlock(d)
  BY <1>14 DEF Unlock
<1>15. CASE UnlinkLockFile(d)
  <2>1. cleanups[d] = 1 \/ cleanups[d] = 2
    BY <1>15 DEF UnlinkLockFile
  <2>2. CASE cleanups[d] = 1
    BY <1>15, <2>2 DEF UnlinkLockFile, Leave
  <2>3. CASE cleanups[d] = 2
    BY <1>15, <2>3 DEF UnlinkLockFile, Leave
  <2> QED BY <2>1, <2>2, <2>3
<1>16. CASE Die(d)
  BY <1>16 DEF Die, Dies
<1> QED BY <1>1, <1>2, <1>3, <1>4, <1>5, <1>6, <1>7, <1>8, <1>9, <1>10, <1>11, <1>12,
          <1>13, <1>14, <1>15, <1>16 DEF Worker

\* A step of a stop command keeps the types.
LEMMA TypeCommand ==
    ASSUME TypeInv, NEW s \in Stoppers, Command(s)
    PROVE  TypeInv'
<1> USE DEF TypeInv, TypeOK, OwesCleanup, HasTarget, Labels, Goto, stopVars
<1>1. CASE ReadPid(s)
  BY <1>1 DEF ReadPid
<1>2. CASE SeesDead(s)
  BY <1>2 DEF SeesDead
<1>3. CASE Sigkill(s)
  BY <1>3 DEF Sigkill, Dies
<1>4. CASE ClearPid(s)
  BY <1>4 DEF ClearPid
<1> QED BY <1>1, <1>2, <1>3, <1>4 DEF Command

\* Every step keeps the types.
LEMMA TypeStep == TypeInv /\ [Next]_vars => TypeInv'
<1> SUFFICES ASSUME TypeInv, [Next]_vars PROVE TypeInv'
  OBVIOUS
<1>1. CASE UNCHANGED vars
  BY <1>1 DEF vars, stopVars, TypeInv, TypeOK, OwesCleanup, HasTarget
<1>2. CASE Next
  BY <1>2, TypeWorker, TypeCommand DEF Next
<1> QED BY <1>1, <1>2

\* The lock path, the pid file, and what each daemon and stop command holds of
\* them keep their kinds, and no daemon cleans up more often than it owes.
THEOREM TypeCorrect == Spec => []TypeOK
<1>1. TypeInv => TypeOK
  BY DEF TypeInv
<1> QED BY <1>1, TypeInit, TypeStep, PTL DEF Spec

-----------------------------------------------------------------------------
(* The flock *)

Holders == {"publish", "handlers", "boot", "loop", "finalize"}

\* A daemon has an open file to flock, and holds the flock from then until it
\* gives it back.
OpenFile == \A d \in Daemons : pc[d] = "flock" \/ flocked[d] => fd[d] # None
HoldsFlock == \A d \in Daemons : pc[d] \in Holders => flocked[d]
OnlyHolders == \A d \in Daemons : flocked[d] => pc[d] \in Holders \cup {"rmpid", "unlock"}

\* The kernel gives one open file's lock to one daemon.
OneHolder == \A d, e \in Daemons : flocked[d] /\ flocked[e] /\ fd[d] = fd[e] => d = e

\* Unless a daemon was overtaken, who holds a flock holds that of the file the
\* path names, and nobody is about to unlink it.
PathIsHeld ==
    ~overtaken => \A d \in Daemons : flocked[d] => /\ fd[d] = lockFile
                                                   /\ \A e \in Daemons : ~Leaving(e)

LockInv == OpenFile /\ HoldsFlock /\ OnlyHolders /\ OneHolder /\ PathIsHeld

\* Nobody holds anything at the start.
LEMMA LockInit == Init => LockInv
BY Zenon DEF Init, LockInv, OpenFile, HoldsFlock, OnlyHolders, OneHolder, PathIsHeld, Holders

\* A daemon that dies, at any point, gives up its descriptor and its flock.
LEMMA LockDies ==
    ASSUME TypeInv, LockInv, NEW d \in Daemons, Dies(d),
           UNCHANGED <<lockFile, overtaken>>
    PROVE  LockInv'
BY DEF TypeInv, TypeOK, LockInv, OpenFile, HoldsFlock, OnlyHolders, OneHolder, PathIsHeld,
       Holders, Leaving, Dies, Goto

\* A step of a worker keeps the lock file's invariant.
LEMMA LockWorker ==
    ASSUME TypeInv, LockInv, NEW d \in Daemons, Worker(d)
    PROVE  LockInv'
<1> USE DEF TypeInv, TypeOK, LockInv, OpenFile, HoldsFlock, OnlyHolders, OneHolder, PathIsHeld,
            Holders, Leaving, Goto, stopVars
<1>1. CASE StartForeground(d)
  BY <1>1 DEF StartForeground
<1>2. CASE StartDetached(d)
  BY <1>2 DEF StartDetached
<1>3. CASE RemoveStalePid(d)
  BY <1>3 DEF RemoveStalePid
<1>4. CASE StartTimeout(d)
  BY <1>4 DEF StartTimeout
<1>5. CASE OpenLockFile(d)
  BY <1>5, DaemonLockAssumption DEF OpenLockFile, FreeInodes
<1>6. CASE TryFlock(d)
  <2>1. CASE FlockFree(fd[d])
    <3>1. /\ pc[d] = "flock" /\ pc' = [pc EXCEPT ![d] = "publish"]
          /\ flocked' = [flocked EXCEPT ![d] = TRUE]
          /\ UNCHANGED <<lockFile, fd>>
      BY <1>6, <2>1 DEF TryFlock
    <3>2. OpenFile' /\ HoldsFlock' /\ OnlyHolders'
      BY <3>1
    <3>3. OneHolder'
      BY <2>1, <3>1 DEF FlockFree
    <3>4. PathIsHeld'
      <4>1. overtaken' = (overtaken \/ fd[d] # lockFile \/ \E e \in Daemons : Leaving(e))
        BY <1>6, <2>1 DEF TryFlock
      <4> SUFFICES ASSUME ~overtaken', NEW x \in Daemons, flocked'[x]
                   PROVE  fd'[x] = lockFile' /\ \A e \in Daemons : ~Leaving(e)'
        OBVIOUS
      <4>2. ~overtaken /\ fd[d] = lockFile /\ \A e \in Daemons : ~Leaving(e)
        BY <4>1, Zenon
      <4>3. x = d
        BY <2>1, <3>1, <4>2 DEF FlockFree
      <4> QED BY <3>1, <4>2, <4>3
    <3> QED BY <3>2, <3>3, <3>4
  <2>2. CASE ~FlockFree(fd[d])
    BY <1>6, <2>2, LockDies DEF TryFlock
  <2> QED BY <2>1, <2>2
<1>7. CASE PublishPid(d)
  BY <1>7 DEF PublishPid
<1>8. CASE RegisterHandlers(d)
  BY <1>8 DEF RegisterHandlers
<1>9. CASE EnterLoop(d)
  BY <1>9 DEF EnterLoop
<1>10. CASE Sigterm(d)
  <2>1. CASE Dies(d)
    BY <1>10, <2>1, LockDies DEF Sigterm
  <2>2. CASE pc[d] = "boot" /\ Leave(d, "rmpid", 2) /\ UNCHANGED <<fd, flocked>>
    BY <1>10, <2>2 DEF Sigterm, Leave
  <2>3. CASE pc[d] = "loop" /\ Leave(d, "finalize", 1) /\ UNCHANGED <<fd, flocked>>
    BY <1>10, <2>3 DEF Sigterm, Leave
  <2> QED BY <1>10, <2>1, <2>2, <2>3 DEF Sigterm
<1>11. CASE Fail(d)
  BY <1>11 DEF Fail, Leave
<1>12. CASE Finalize(d)
  BY <1>12 DEF Finalize
<1>13. CASE RemovePid(d)
  BY <1>13 DEF RemovePid
<1>14. CASE Unlock(d)
  BY <1>14 DEF Unlock
<1>15. CASE UnlinkLockFile(d)
  BY <1>15 DEF UnlinkLockFile, Leave
<1>16. CASE Die(d)
  BY <1>16, LockDies DEF Die
<1> QED BY <1>1, <1>2, <1>3, <1>4, <1>5, <1>6, <1>7, <1>8, <1>9, <1>10, <1>11, <1>12,
          <1>13, <1>14, <1>15, <1>16 DEF Worker

\* Every step keeps it: a stop command disturbs the lock only by its SIGKILL.
LEMMA LockStep == TypeInv /\ LockInv /\ [Next]_vars => LockInv'
<1> SUFFICES ASSUME TypeInv, LockInv, [Next]_vars PROVE LockInv'
  OBVIOUS
<1> USE DEF LockInv, OpenFile, HoldsFlock, OnlyHolders, OneHolder, PathIsHeld, Leaving
<1>1. CASE UNCHANGED vars
  BY <1>1 DEF vars
<1>2. ASSUME NEW s \in Stoppers, Command(s) PROVE LockInv'
  <2>1. CASE Sigkill(s)
    <3>1. target[s] \in Daemons
      BY <2>1 DEF Sigkill, TypeInv, HasTarget
    <3> QED BY <2>1, <3>1, LockDies DEF Sigkill
  <2>2. CASE ReadPid(s) \/ SeesDead(s) \/ ClearPid(s)
    BY <2>2 DEF ReadPid, SeesDead, ClearPid
  <2> QED BY <1>2, <2>1, <2>2 DEF Command
<1> QED BY <1>1, <1>2, LockWorker DEF Next

\* One path, one inode, one flock: one daemon.
LEMMA OnePathOneDaemon == LockInv => SingletonUnlessOvertaken
<1> SUFFICES ASSUME LockInv, ~overtaken,
                    NEW d \in Daemons, NEW e \in Daemons, Running(d), Running(e)
             PROVE  d = e
  BY DEF SingletonUnlessOvertaken, AtMostOneDaemon
<1>1. flocked[d] /\ flocked[e]
  BY DEF LockInv, HoldsFlock, Holders, Running
<1>2. fd[d] = lockFile /\ fd[e] = lockFile
  BY <1>1 DEF LockInv, PathIsHeld
<1> QED BY <1>1, <1>2 DEF LockInv, OneHolder

\* Two daemons run on one graph only after one took its flock while another was
\* between giving its own back and unlinking the path, or took it on a file that
\* the path no longer named: the lock of _try_acquire_daemon_process_lock is
\* exclusive outside that window, whoever fails, dies or is killed, and when.
THEOREM DaemonIsSingleton == Spec => []SingletonUnlessOvertaken
<1>1. TypeInv /\ LockInv /\ [Next]_vars => (TypeInv /\ LockInv)'
  BY TypeStep, LockStep
<1> QED BY <1>1, TypeInit, LockInit, OnePathOneDaemon, PTL DEF Spec

=============================================================================
