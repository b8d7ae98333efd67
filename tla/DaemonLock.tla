----------------------------- MODULE DaemonLock -----------------------------
(***************************************************************************)
(* At most one maintenance daemon per graph.  A daemon flocks              *)
(* `.matryca_plumber_daemon.lock` for its whole life, publishes its pid,   *)
(* and when it stops removes the pid file, gives the flock back and        *)
(* unlinks the lock file, twice when it leaves by an exception.  Stop and  *)
(* start commands find the daemon by the pid file.                         *)
(*                                                                         *)
(* A daemon here is one worker process; a restart is another element of    *)
(* Daemons.  A pid is the daemon it belongs to: reused pids are left out.  *)
(***************************************************************************)
EXTENDS Naturals, FiniteSets

CONSTANTS
    Daemons,      \* worker processes, each started at most once
    Stoppers,     \* commands that stop the daemon
    Inodes,
    Detached,     \* workers that start_daemon_detached launches
    MayFail,      \* workers that may leave by an exception
    MayDie,       \* workers that may die without a stop command
    None

ASSUME DaemonLockAssumption ==
    /\ Detached \subseteq Daemons /\ MayFail \subseteq Daemons /\ MayDie \subseteq Daemons
    /\ None \notin Daemons /\ None \notin Inodes

VARIABLES
    lockFile,    \* the inode the lock path names
    pidFile,     \* the daemon the pid file names
    pc,          \* where a worker, or the command that starts it, is
    fd,          \* the inode of _daemon_process_lock_fd
    flocked,     \* that descriptor holds the flock
    cleanups,    \* how many times the worker will still clean up
    term,        \* workers with a SIGTERM pending
    stop,        \* what a stop command is doing
    target,      \* the pid it read
    overtaken    \* a daemon took its lock while another was giving it up

vars == <<lockFile, pidFile, pc, fd, flocked, cleanups, term, stop, target, overtaken>>
stopVars == <<stop, target>>

Labels == {"absent", "sweep", "open", "flock", "publish", "handlers", "boot", "loop",
           "finalize", "rmpid", "unlock", "unlink", "dead"}

TypeOK ==
    /\ lockFile \in Inodes \cup {None}
    /\ pidFile \in Daemons \cup {None}
    /\ pc \in [Daemons -> Labels]
    /\ fd \in [Daemons -> Inodes \cup {None}]
    /\ flocked \in [Daemons -> BOOLEAN]
    /\ cleanups \in [Daemons -> 0..2]
    /\ term \subseteq Daemons
    /\ stop \in [Stoppers -> {"idle", "waiting", "clear"}]
    /\ target \in [Stoppers -> Daemons \cup {None}]
    /\ overtaken \in BOOLEAN

Init ==
    /\ lockFile = None /\ pidFile = None
    /\ pc = [d \in Daemons |-> "absent"]
    /\ fd = [d \in Daemons |-> None]
    /\ flocked = [d \in Daemons |-> FALSE]
    /\ cleanups = [d \in Daemons |-> 0]
    /\ term = {}
    /\ stop = [s \in Stoppers |-> "idle"]
    /\ target = [s \in Stoppers |-> None]
    /\ overtaken = FALSE

Alive(d) == pc[d] \notin {"absent", "sweep", "dead"}
Running(d) == pc[d] \in {"handlers", "boot", "loop", "finalize"}
Goto(d, label) == pc' = [pc EXCEPT ![d] = label]

\* Between giving the flock back and the last unlink of the lock path.
Leaving(d) == \/ pc[d] = "unlink"
              \/ pc[d] \in {"rmpid", "unlock"} /\ ~flocked[d]

FreeInodes == Inodes \ ({lockFile} \cup {fd[d] : d \in Daemons})

\* The process is gone: its descriptor is closed and its flock with it.
Dies(d) ==
    /\ Goto(d, "dead")
    /\ fd' = [fd EXCEPT ![d] = None]
    /\ flocked' = [flocked EXCEPT ![d] = FALSE]

-----------------------------------------------------------------------------
(* Starting *)

StartForeground(d) ==
    /\ d \notin Detached /\ pc[d] = "absent"
    /\ Goto(d, "open")
    /\ UNCHANGED <<lockFile, pidFile, fd, flocked, cleanups, term, stopVars, overtaken>>

\* start_daemon_detached reads the pid file: a live daemon ends the command, a
\* dead one's file is removed.
StartDetached(d) ==
    /\ d \in Detached /\ pc[d] = "absent"
    /\ pidFile # None => ~Alive(pidFile)
    /\ Goto(d, IF pidFile = None THEN "open" ELSE "sweep")
    /\ UNCHANGED <<lockFile, pidFile, fd, flocked, cleanups, term, stopVars, overtaken>>

RemoveStalePid(d) ==
    /\ pc[d] = "sweep"
    /\ pidFile' = None
    /\ Goto(d, "open")
    /\ UNCHANGED <<lockFile, fd, flocked, cleanups, term, stopVars, overtaken>>

\* No live pid was published in time: the worker is told to terminate.
StartTimeout(d) ==
    /\ d \in Detached \ term
    /\ pc[d] \in {"open", "flock", "publish", "handlers", "boot", "loop"}
    /\ pidFile # None => ~Alive(pidFile)
    /\ term' = term \cup {d}
    /\ UNCHANGED <<lockFile, pidFile, pc, fd, flocked, cleanups, stopVars, overtaken>>

OpenLockFile(d) ==
    /\ pc[d] = "open"
    /\ \E i \in (IF lockFile = None THEN FreeInodes ELSE {lockFile}) :
          /\ lockFile' = i
          /\ fd' = [fd EXCEPT ![d] = i]
    /\ Goto(d, "flock")
    /\ UNCHANGED <<pidFile, flocked, cleanups, term, stopVars, overtaken>>

FlockFree(i) == \A e \in Daemons : ~(flocked[e] /\ fd[e] = i)

\* Variant: the daemon that finds the lock taken removes the file on its way out.
TryFlockUnlinks(d) ==
    /\ pc[d] = "flock"
    /\ IF FlockFree(fd[d])
       THEN /\ Goto(d, "publish")
            /\ flocked' = [flocked EXCEPT ![d] = TRUE]
            /\ overtaken' = (overtaken \/ fd[d] # lockFile \/ \E e \in Daemons : Leaving(e))
            /\ UNCHANGED <<lockFile, fd>>
       ELSE Dies(d) /\ lockFile' = None /\ UNCHANGED overtaken
    /\ UNCHANGED <<pidFile, cleanups, term, stopVars>>

\* LOCK_EX | LOCK_NB: the daemon that does not get it exits.
TryFlock(d) ==
    /\ pc[d] = "flock"
    /\ IF FlockFree(fd[d])
       THEN /\ Goto(d, "publish")
            /\ flocked' = [flocked EXCEPT ![d] = TRUE]
            /\ overtaken' = (overtaken \/ fd[d] # lockFile \/ \E e \in Daemons : Leaving(e))
            /\ UNCHANGED fd
       ELSE Dies(d) /\ UNCHANGED overtaken
    /\ UNCHANGED <<lockFile, pidFile, cleanups, term, stopVars>>

PublishPid(d) ==
    /\ pc[d] = "publish"
    /\ pidFile' = d
    /\ Goto(d, "handlers")
    /\ UNCHANGED <<lockFile, fd, flocked, cleanups, term, stopVars, overtaken>>

RegisterHandlers(d) ==
    /\ pc[d] = "handlers"
    /\ Goto(d, "boot")
    /\ UNCHANGED <<lockFile, pidFile, fd, flocked, cleanups, term, stopVars, overtaken>>

EnterLoop(d) ==
    /\ pc[d] = "boot"
    /\ Goto(d, "loop")
    /\ UNCHANGED <<lockFile, pidFile, fd, flocked, cleanups, term, stopVars, overtaken>>

-----------------------------------------------------------------------------
(* Stopping *)

Leave(d, label, n) == Goto(d, label) /\ cleanups' = [cleanups EXCEPT ![d] = n]

\* SIGTERM kills a worker without a handler; the bootstrap handler cleans up and
\* raises SystemExit, which the caller's except clause cleans up after again; in
\* the loop it asks for the graceful shutdown.
Sigterm(d) ==
    /\ d \in term
    /\ \/ pc[d] \in {"open", "flock", "publish", "handlers"} /\ Dies(d) /\ UNCHANGED cleanups
       \/ pc[d] = "boot" /\ Leave(d, "rmpid", 2) /\ UNCHANGED <<fd, flocked>>
       \/ pc[d] = "loop" /\ Leave(d, "finalize", 1) /\ UNCHANGED <<fd, flocked>>
    /\ term' = term \ {d}
    /\ UNCHANGED <<lockFile, pidFile, stopVars, overtaken>>

\* An exception before the loop's try cleans up once, one inside it twice.
Fail(d) ==
    /\ d \in MayFail
    /\ \/ pc[d] \in {"boot", "loop"} /\ Leave(d, "rmpid", 1)
       \/ pc[d] = "loop" /\ Leave(d, "finalize", 2)
    /\ UNCHANGED <<lockFile, pidFile, fd, flocked, term, stopVars, overtaken>>

Finalize(d) ==
    /\ pc[d] = "finalize"
    /\ Goto(d, "rmpid")
    /\ UNCHANGED <<lockFile, pidFile, fd, flocked, cleanups, term, stopVars, overtaken>>

\* remove_pid_file does not look whose pid it is.
RemovePid(d) ==
    /\ pc[d] = "rmpid"
    /\ pidFile' = None
    /\ Goto(d, "unlock")
    /\ UNCHANGED <<lockFile, fd, flocked, cleanups, term, stopVars, overtaken>>

Unlock(d) ==
    /\ pc[d] = "unlock"
    /\ fd' = [fd EXCEPT ![d] = None]
    /\ flocked' = [flocked EXCEPT ![d] = FALSE]
    /\ Goto(d, "unlink")
    /\ UNCHANGED <<lockFile, pidFile, cleanups, term, stopVars, overtaken>>

\* Variant: every removal is followed by another cleanup.
UnlinkForever(d) ==
    /\ pc[d] = "unlink"
    /\ lockFile' = None
    /\ Leave(d, "rmpid", cleanups[d] - 1)
    /\ UNCHANGED <<pidFile, fd, flocked, term, stopVars, overtaken>>

UnlinkLockFile(d) ==
    /\ pc[d] = "unlink"
    /\ lockFile' = None
    /\ Leave(d, IF cleanups[d] = 2 THEN "rmpid" ELSE "dead", cleanups[d] - 1)
    /\ UNCHANGED <<pidFile, fd, flocked, term, stopVars, overtaken>>

Die(d) ==
    /\ d \in MayDie /\ Alive(d)
    /\ Dies(d)
    /\ UNCHANGED <<lockFile, pidFile, cleanups, term, stopVars, overtaken>>

\* stop_daemon reads the pid file and terminates a live daemon.
ReadPid(s) ==
    /\ stop[s] = "idle" /\ pidFile # None
    /\ target' = [target EXCEPT ![s] = pidFile]
    /\ stop' = [stop EXCEPT ![s] = IF Alive(pidFile) THEN "waiting" ELSE "clear"]
    /\ term' = IF Alive(pidFile) THEN term \cup {pidFile} ELSE term
    /\ UNCHANGED <<lockFile, pidFile, pc, fd, flocked, cleanups, overtaken>>

SeesDead(s) ==
    /\ stop[s] = "waiting" /\ ~Alive(target[s])
    /\ stop' = [stop EXCEPT ![s] = "clear"]
    /\ UNCHANGED <<lockFile, pidFile, pc, fd, flocked, cleanups, term, target, overtaken>>

\* Variant: a daemon that has begun its shutdown is left to finish it.
SigkillSparesShutdown(s) ==
    /\ stop[s] = "waiting" /\ Alive(target[s]) /\ pc[target[s]] # "finalize"
    /\ Dies(target[s])
    /\ UNCHANGED <<lockFile, pidFile, cleanups, term, stopVars, overtaken>>

\* After 125 s the daemon is killed.
Sigkill(s) ==
    /\ stop[s] = "waiting" /\ Alive(target[s])
    /\ Dies(target[s])
    /\ UNCHANGED <<lockFile, pidFile, cleanups, term, stopVars, overtaken>>

ClearPid(s) ==
    /\ stop[s] = "clear"
    /\ pidFile' = None
    /\ stop' = [stop EXCEPT ![s] = "idle"]
    /\ target' = [target EXCEPT ![s] = None]
    /\ UNCHANGED <<lockFile, pc, fd, flocked, cleanups, term, overtaken>>

-----------------------------------------------------------------------------
Worker(d) ==
    \/ StartForeground(d) \/ StartDetached(d) \/ RemoveStalePid(d) \/ StartTimeout(d)
    \/ OpenLockFile(d) \/ TryFlock(d) \/ PublishPid(d)
    \/ RegisterHandlers(d) \/ EnterLoop(d)
    \/ Sigterm(d) \/ Fail(d) \/ Finalize(d) \/ RemovePid(d) \/ Unlock(d) \/ UnlinkLockFile(d)
    \/ Die(d)
Command(s) == ReadPid(s) \/ SeesDead(s) \/ Sigkill(s) \/ ClearPid(s)

Next == (\E d \in Daemons : Worker(d)) \/ (\E s \in Stoppers : Command(s))

Spec == Init /\ [][Next]_vars

\* Only the stop command is scheduled: a daemon may hang anywhere.
FairSpec == Spec /\ \A s \in Stoppers : WF_vars(SeesDead(s) \/ Sigkill(s) \/ ClearPid(s))

-----------------------------------------------------------------------------
(* Properties *)

\* The daemon is a singleton (daemon_process_lock.py, "singleton lock").
AtMostOneDaemon == \A d, e \in Daemons : Running(d) /\ Running(e) => d = e

\* It is one as long as no daemon takes its flock while another is between
\* giving it back and unlinking the path, or on a file the path no longer names.
SingletonUnlessOvertaken == ~overtaken => AtMostOneDaemon

\* A stop command ends and has ended the daemon it signalled, which may hang in
\* its shutdown (stop_daemon escalates to SIGKILL).
StopStops == \A s \in Stoppers : stop[s] = "waiting" ~> (stop[s] = "idle")

=============================================================================
