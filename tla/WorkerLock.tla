----------------------------- MODULE WorkerLock -----------------------------
(***************************************************************************)
(* Exclusive ownership of a workspace by a durable-review worker:          *)
(* startWorker, stopWorker and checkWorkerReady of                         *)
(* packages/durable-review/src/worker.ts, in processes that share only the *)
(* file .worker.lock.  Every file operation is a step of its own; another  *)
(* process may run, or this one die, between any two of them.              *)
(***************************************************************************)
EXTENDS Integers, FiniteSets

CONSTANTS Process,      (* a process, by its pid                            *)
          MaxCrashes,   (* bound: the crashes of one behaviour              *)
          MaxLeaks,     (* bound: the databases that fail to open or close  *)
          PidReuse      (* whether a restarted process gets its old pid     *)

ASSUME LockAssumption ==
  /\ {MaxCrashes, MaxLeaks} \subseteq Nat
  /\ PidReuse \in BOOLEAN

VARIABLES
  lock,     (* .worker.lock                                                 *)
  pc,       (* where each process is in the worker's lifecycle              *)
  run,      (* the incarnation of each process                              *)
  seen,     (* the lock each process has read                               *)
  leaked,   (* the processes that hold a database no worker of theirs will  *)
            (* ever close                                                   *)
  crashes

vars == <<lock, pc, run, seen, leaked, crashes>>

NoLock == [kind |-> "none"]

(* The content of the lock file: a worker, or what an interrupted create   *)
(* leaves behind, which no one can parse.                                  *)
Written(p) == [kind |-> "written", pid |-> p, run |-> run[p]]
Empty(p) == [kind |-> "empty", pid |-> p, run |-> run[p]]

Runs == 0..MaxCrashes

Lock == {NoLock} \cup [kind: {"written", "empty"}, pid: Process, run: Runs]

Acquiring == {"look", "read", "judge", "takeover", "create", "fill"}

PC == {"down", "idle", "opening", "running", "releasing", "unlink"} \cup Acquiring

TypeOK ==
  /\ lock \in Lock
  /\ pc \in [Process -> PC]
  /\ run \in [Process -> Runs]
  /\ seen \in [Process -> Lock]
  /\ leaked \subseteq Process
  /\ crashes \in 0..MaxCrashes

Init ==
  /\ lock = NoLock
  /\ pc = [p \in Process |-> "idle"]
  /\ run = [p \in Process |-> 0]
  /\ seen = [p \in Process |-> NoLock]
  /\ leaked = {}
  /\ crashes = 0

Holds(p) == lock = Written(p)

(* isProcessAlive: signal 0 finds a process with this pid.                 *)
Alive(l) == pc[l.pid] # "down" /\ (PidReuse \/ run[l.pid] = l.run)

Goto(p, next) == pc' = [pc EXCEPT ![p] = next]

----------------------------------------------------------------------------
(* startWorker, in a process whose last worker is gone.                    *)
Start(p) ==
  /\ pc[p] = "idle"
  /\ Goto(p, "look")
  /\ UNCHANGED <<lock, run, seen, leaked, crashes>>

(* existsSync                                                              *)
Look(p) ==
  /\ pc[p] = "look"
  /\ Goto(p, IF lock = NoLock THEN "create" ELSE "read")
  /\ UNCHANGED <<lock, run, seen, leaked, crashes>>

(* The lock is read, before and after a create that found it there; a file *)
(* that is gone or cannot be parsed ends the attempt.                      *)
Read(p) ==
  /\ pc[p] = "read"
  /\ IF lock.kind = "written"
     THEN seen' = [seen EXCEPT ![p] = lock] /\ Goto(p, "judge")
     ELSE seen' = seen /\ Goto(p, "idle")
  /\ UNCHANGED <<lock, run, leaked, crashes>>

(* Mutant of Judge: the owner is taken for dead.                           *)
JudgeDead(p) ==
  /\ pc[p] = "judge"
  /\ Goto(p, "takeover")
  /\ UNCHANGED <<lock, run, seen, leaked, crashes>>

(* Mutant of Judge: any lock that exists is respected.                     *)
JudgeAlive(p) ==
  /\ pc[p] = "judge"
  /\ Goto(p, "idle")
  /\ UNCHANGED <<lock, run, seen, leaked, crashes>>

(* verifyOwnerAlive                                                        *)
Judge(p) ==
  /\ pc[p] = "judge"
  /\ Goto(p, IF Alive(seen[p]) THEN "idle" ELSE "takeover")
  /\ UNCHANGED <<lock, run, seen, leaked, crashes>>

(* The new lock is written aside and renamed over whatever is there.       *)
Takeover(p) ==
  /\ pc[p] = "takeover"
  /\ lock' = Written(p)
  /\ Goto(p, "opening")
  /\ UNCHANGED <<run, seen, leaked, crashes>>

(* Mutant of Create: the file is created whether it exists or not.         *)
CreateOver(p) ==
  /\ pc[p] = "create"
  /\ lock' = Written(p)
  /\ Goto(p, "opening")
  /\ UNCHANGED <<run, seen, leaked, crashes>>

(* The exclusive create: it fails when the file exists, and leaves an      *)
(* empty file for the write that follows.                                  *)
Create(p) ==
  /\ pc[p] = "create"
  /\ IF lock = NoLock
     THEN lock' = Empty(p) /\ Goto(p, "fill")
     ELSE lock' = lock /\ Goto(p, "read")
  /\ UNCHANGED <<run, seen, leaked, crashes>>

(* The content reaches the created file, wherever it is by now.            *)
Fill(p) ==
  /\ pc[p] = "fill"
  /\ lock' = IF lock = Empty(p) THEN Written(p) ELSE lock
  /\ Goto(p, "opening")
  /\ UNCHANGED <<run, seen, leaked, crashes>>

(* A harness fails, and the database of p stays open without its worker.   *)
Leak(p) ==
  /\ Cardinality(leaked) < MaxLeaks
  /\ leaked' = leaked \cup {p}

(* The database is opened and the harness on it, or the worker gives up    *)
(* and releases its lock.  A harness that fails after the storage was      *)
(* opened leaves the storage as it is.                                     *)
Open(p) ==
  /\ pc[p] = "opening"
  /\ \/ Goto(p, "running") /\ UNCHANGED leaked
     \/ Goto(p, "releasing") /\ (UNCHANGED leaked \/ Leak(p))
  /\ UNCHANGED <<lock, run, seen, crashes>>

(* stopWorker closes the harness first, and ignores it when that fails.    *)
Stop(p) ==
  /\ pc[p] = "running"
  /\ UNCHANGED leaked \/ Leak(p)
  /\ Goto(p, "releasing")
  /\ UNCHANGED <<lock, run, seen, crashes>>

(* checkWorkerReady finds another lock: the worker is forgotten, its       *)
(* harness stays open.                                                     *)
LoseLock(p) ==
  /\ pc[p] = "running"
  /\ ~Holds(p)
  /\ Goto(p, "idle")
  /\ leaked' = leaked \cup {p}
  /\ UNCHANGED <<lock, run, seen, crashes>>

(* releaseOwnership reads the lock ...                                     *)
Release(p) ==
  /\ pc[p] = "releasing"
  /\ Goto(p, IF Holds(p) THEN "unlink" ELSE "idle")
  /\ UNCHANGED <<lock, run, seen, leaked, crashes>>

(* ... and unlinks it if it is its own.                                    *)
Unlink(p) ==
  /\ pc[p] = "unlink"
  /\ lock' = NoLock
  /\ Goto(p, "idle")
  /\ UNCHANGED <<run, seen, leaked, crashes>>

Crash(p) ==
  /\ pc[p] # "down"
  /\ crashes < MaxCrashes
  /\ crashes' = crashes + 1
  /\ leaked' = leaked \ {p}
  /\ Goto(p, "down")
  /\ UNCHANGED <<lock, run, seen>>

Restart(p) ==
  /\ pc[p] = "down"
  /\ run' = [run EXCEPT ![p] = crashes]
  /\ Goto(p, "idle")
  /\ UNCHANGED <<lock, seen, leaked, crashes>>

----------------------------------------------------------------------------
Starts(p) ==
  \/ Start(p) \/ Look(p) \/ Read(p) \/ Judge(p) \/ Takeover(p)
  \/ Create(p) \/ Fill(p) \/ Open(p)

Stops(p) == Stop(p) \/ LoseLock(p) \/ Release(p) \/ Unlink(p)

Next == \E p \in Process : Starts(p) \/ Stops(p) \/ Crash(p) \/ Restart(p)

Spec == Init /\ [][Next]_vars

(* A process that runs keeps going, and asks again after a refusal; it     *)
(* need neither stop nor restart.                                          *)
FairSpec ==
  Spec /\ \A p \in Process : WF_vars(Starts(p)) /\ WF_vars(Release(p) \/ Unlink(p))

----------------------------------------------------------------------------
Running == {p \in Process : pc[p] = "running"}

(* As long as no worker has died, only one at a time runs, and it is the   *)
(* one the lock names: no two processes get through the checks, whatever   *)
(* the order of their file operations and whatever fails on the way.       *)
ExclusiveUntilCrash ==
  crashes = 0 => \A p \in Running : Holds(p)

(* As long as no worker has died, a lock is only ever removed by the       *)
(* worker it names, never replaced.                                        *)
OnlyTheOwnerReleases ==
  [][crashes = 0 /\ lock.kind = "written" /\ lock' # lock
       => lock' = NoLock /\ pc[lock.pid] = "unlink"]_vars

(* The lock of a dead worker does not block the workspace for ever, as     *)
(* long as some process keeps asking for it.                               *)
Dead(l) == pc[l.pid] = "down" \/ run[l.pid] # l.run

Orphaned(kind) == lock.kind = kind /\ Dead(lock)

StaleLockIsRecovered ==
  Orphaned("written") ~> ~Orphaned("written") \/ \A p \in Process : pc[p] = "down"

(* The same of the lock of a worker that died before it wrote it: false.   *)
TornLockIsRecovered ==
  Orphaned("empty") ~> ~Orphaned("empty") \/ \A p \in Process : pc[p] = "down"

(* "only one worker can hold it at a time": false when two processes have  *)
(* both seen the lock of a dead worker, or one of them created it anew     *)
(* after the other saw it: the rename replaces the lock of a living owner. *)
OneWorker == Cardinality(Running) <= 1

(* The same of the database, "exclusive process ownership": false without  *)
(* any crash, when a harness failed to open or to close and the lock was   *)
(* released all the same.                                                  *)
OneDatabase == crashes = 0 => Cardinality(Running \cup leaked) <= 1
=============================================================================
