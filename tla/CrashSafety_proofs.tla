------------------------ MODULE CrashSafety_proofs ------------------------
(***************************************************************************)
(* Proofs about the two parts whose state is files that a process leaves   *)
(* behind when it dies: WorkerLock, for any number of processes and        *)
(* crashes (until the first crash the lock file is a mutual exclusion),    *)
(* and CheckpointStore, for any number of tasks, threads, puts and         *)
(* restarts (a checkpoint is never named before it is there).              *)
(***************************************************************************)
EXTENDS WorkerLock, CheckpointStore, TLAPS

-----------------------------------------------------------------------------
(* The lock of a durable-review worker.                                    *)

(* Before the first crash nobody sees a dead owner, so nobody takes over,  *)
(* and whoever is past the create is named by the lock.                    *)
Undisturbed ==
  crashes = 0 =>
    /\ \A p \in Process : run[p] = 0 /\ pc[p] \notin {"down", "takeover"}
    /\ lock # NoLock => lock.run = 0
    /\ \A p \in Process : pc[p] = "judge" => seen[p] \in [kind: {"written"}, pid: Process, run: {0}]
    /\ \A p \in Process : pc[p] \in {"opening", "running", "releasing", "unlink"} => Holds(p)
    /\ \A p \in Process : pc[p] = "fill" => lock = Empty(p)

LockInv == TypeOK /\ Undisturbed

LEMMA WrittenIsLock ==
  ASSUME TypeOK, NEW p \in Process
  PROVE  /\ Written(p) \in Lock /\ Empty(p) \in Lock
         /\ Written(p) # NoLock /\ Empty(p) # NoLock
         /\ Written(p).run = run[p] /\ Empty(p).run = run[p]
         /\ Written(p).kind = "written" /\ Empty(p).kind = "empty"
         /\ Written(p).pid = p /\ Empty(p).pid = p
  BY DEF TypeOK, Lock, Written, Empty, NoLock

LEMMA LockFields ==
  ASSUME TypeOK, lock.kind = "written"
  PROVE  lock \in [kind: {"written"}, pid: Process, run: Runs] /\ lock # NoLock
  BY DEF TypeOK, Lock, NoLock

LEMMA LockTypeStep == TypeOK /\ [Next]_vars => TypeOK'
  <1> SUFFICES ASSUME TypeOK, [Next]_vars PROVE TypeOK'
    OBVIOUS
  <1> USE LockAssumption DEF Goto, PC, Acquiring, Runs
  <1>1. ASSUME NEW p \in Process, Start(p) \/ Look(p) \/ Judge(p) \/ LoseLock(p) \/ Release(p)
        PROVE  TypeOK'
    BY <1>1 DEF TypeOK, Start, Look, Judge, LoseLock, Release
  <1>2. ASSUME NEW p \in Process, Read(p) PROVE TypeOK'
    BY <1>2 DEF TypeOK, Read
  <1>3. ASSUME NEW p \in Process, Takeover(p) PROVE TypeOK'
    BY <1>3, WrittenIsLock DEF TypeOK, Takeover
  <1>4. ASSUME NEW p \in Process, Create(p) PROVE TypeOK'
    <2>1. lock' \in Lock
      BY <1>4, WrittenIsLock DEF TypeOK, Create
    <2>2. pc' \in [Process -> PC]
      BY <1>4 DEF TypeOK, Create
    <2> QED
      BY <1>4, <2>1, <2>2 DEF TypeOK, Create
  <1>5. ASSUME NEW p \in Process, Fill(p) PROVE TypeOK'
    BY <1>5, WrittenIsLock DEF TypeOK, Fill
  <1>6. ASSUME NEW p \in Process, Open(p) \/ Stop(p) PROVE TypeOK'
    BY <1>6 DEF TypeOK, Open, Stop, Leak
  <1>7. ASSUME NEW p \in Process, Unlink(p) PROVE TypeOK'
    BY <1>7 DEF TypeOK, Unlink, Lock
  <1>8. ASSUME NEW p \in Process, Crash(p) PROVE TypeOK'
    BY <1>8 DEF TypeOK, Crash
  <1>9. ASSUME NEW p \in Process, Restart(p) PROVE TypeOK'
    BY <1>9 DEF TypeOK, Restart
  <1>10. CASE UNCHANGED vars
    BY <1>10 DEF TypeOK, vars
  <1> QED
    BY <1>1, <1>2, <1>3, <1>4, <1>5, <1>6, <1>7, <1>8, <1>9, <1>10 DEF Next, Starts, Stops

LEMMA LockInvInit == Init => LockInv
  <1> SUFFICES ASSUME Init PROVE LockInv
    OBVIOUS
  <1>1. TypeOK
    BY LockAssumption DEF Init, TypeOK, Lock, PC, Runs
  <1>2. Undisturbed
    BY DEF Init, Undisturbed
  <1> QED
    BY <1>1, <1>2 DEF LockInv

LEMMA LockInvStep == LockInv /\ [Next]_vars => LockInv'
  <1> SUFFICES ASSUME LockInv, [Next]_vars PROVE LockInv'
    OBVIOUS
  <1>1. TypeOK /\ TypeOK'
    BY LockTypeStep DEF LockInv
  <1> SUFFICES ASSUME crashes' = 0 PROVE Undisturbed'
    BY <1>1 DEF LockInv, Undisturbed
  <1> USE DEF Goto
  <1>2. ASSUME NEW p \in Process, Crash(p) PROVE FALSE
    BY <1>1, <1>2, LockAssumption DEF Crash, TypeOK
  <1>3. ASSUME crashes = 0
        PROVE  /\ \A p \in Process : run[p] = 0 /\ pc[p] \notin {"down", "takeover"}
               /\ lock # NoLock => lock.run = 0
               /\ \A p \in Process : pc[p] = "judge" => seen[p] \in [kind: {"written"}, pid: Process, run: {0}]
               /\ \A p \in Process : pc[p] \in {"opening", "running", "releasing", "unlink"} => Holds(p)
               /\ \A p \in Process : pc[p] = "fill" => lock = Empty(p)
    BY <1>3 DEF LockInv, Undisturbed
  <1>4. ASSUME NEW p \in Process, UNCHANGED <<lock, run, crashes>>,
               pc' = [pc EXCEPT ![p] = pc'[p]],
               pc'[p] \in {"idle", "look", "create", "read", "judge", "running", "releasing", "unlink"},
               pc'[p] = "judge" => seen'[p] \in [kind: {"written"}, pid: Process, run: {0}],
               \A q \in Process \ {p} : seen'[q] = seen[q],
               pc'[p] \in {"running", "releasing", "unlink"} => Holds(p)
        PROVE  Undisturbed'
    <2>1. crashes = 0 /\ \A q \in Process : Holds(q)' <=> Holds(q)
      BY <1>4 DEF Holds, Written
    <2>2. \A q \in Process \ {p} : pc'[q] = pc[q]
      BY <1>1, <1>4 DEF TypeOK
    <2>3. \A q \in Process : Empty(q)' = Empty(q)
      BY <1>4 DEF Empty
    <2> QED
      BY <1>1, <1>3, <1>4, <2>1, <2>2, <2>3 DEF Undisturbed, TypeOK
  <1>4a. ASSUME NEW p \in Process, UNCHANGED <<run, seen, crashes>>,
                \A q \in Process \ {p} :
                  pc'[q] = pc[q] /\ pc[q] \notin {"opening", "running", "releasing", "unlink", "fill"},
                lock' = NoLock \/ lock'.run = 0,
                pc'[p] \in {"opening", "fill", "idle"},
                pc'[p] = "opening" => Holds(p)',
                pc'[p] = "fill" => lock' = Empty(p)'
         PROVE  Undisturbed'
    <2>1. crashes = 0
      BY <1>4a
    <2>2. \A q \in Process : run'[q] = 0 /\ pc'[q] \notin {"down", "takeover"}
      BY <1>3, <1>4a, <2>1
    <2>3. \A q \in Process :
            pc'[q] = "judge" => seen'[q] \in [kind: {"written"}, pid: Process, run: {0}]
      BY <1>3, <1>4a, <2>1
    <2>4. \A q \in Process :
            pc'[q] \in {"opening", "running", "releasing", "unlink"} => q = p /\ pc'[q] = "opening"
      BY <1>4a
    <2>5. \A q \in Process : pc'[q] = "fill" => q = p
      BY <1>4a
    <2>7. \A q \in Process : pc'[q] \in {"opening", "running", "releasing", "unlink"} => Holds(q)'
      BY <1>4a, <2>4
    <2>8. \A q \in Process : pc'[q] = "fill" => lock' = Empty(q)'
      BY <1>4a, <2>5
    <2> QED
      BY <1>4a, <2>2, <2>3, <2>7, <2>8 DEF Undisturbed
  <1>5. ASSUME NEW p \in Process, Start(p) PROVE Undisturbed'
    BY <1>1, <1>4, <1>5 DEF Start, TypeOK
  <1>6. ASSUME NEW p \in Process, Look(p) PROVE Undisturbed'
    BY <1>1, <1>4, <1>6 DEF Look, TypeOK
  <1>7. ASSUME NEW p \in Process, Read(p) PROVE Undisturbed'
    <2>1. crashes = 0
      BY <1>3, <1>7 DEF Read
    <2>2. CASE lock.kind = "written"
      <3>1. lock \in [kind: {"written"}, pid: Process, run: {0}]
        BY <1>1, <1>3, <2>1, <2>2, LockFields
      <3>2. /\ pc' = [pc EXCEPT ![p] = "judge"] /\ seen'[p] = lock
            /\ \A q \in Process \ {p} : seen'[q] = seen[q]
            /\ UNCHANGED <<lock, run, crashes>>
        BY <1>1, <1>7, <2>2 DEF Read, TypeOK
      <3>3. pc'[p] = "judge" /\ pc' = [pc EXCEPT ![p] = pc'[p]]
        BY <1>1, <3>2 DEF TypeOK
      <3> QED
        BY <1>4, <2>1, <3>1, <3>2, <3>3
    <2>3. CASE lock.kind # "written"
      BY <1>1, <1>4, <1>7, <2>1, <2>3 DEF Read, TypeOK
    <2> QED
      BY <2>2, <2>3
  <1>8. ASSUME NEW p \in Process, Judge(p) PROVE Undisturbed'
    <2>1. crashes = 0
      BY <1>3, <1>8 DEF Judge
    <2>2. Alive(seen[p])
      BY <1>3, <1>8, <2>1 DEF Judge, Alive
    <2> QED
      BY <1>1, <1>4, <1>8, <2>1, <2>2 DEF Judge, TypeOK
  <1>9. ASSUME NEW p \in Process, Takeover(p) PROVE FALSE
    BY <1>3, <1>9 DEF Takeover
  <1>10. ASSUME NEW p \in Process, Create(p) PROVE Undisturbed'
    <2>1. crashes = 0
      BY <1>3, <1>10 DEF Create
    <2>2. CASE lock # NoLock
      BY <1>1, <1>4, <1>10, <2>1, <2>2 DEF Create, TypeOK
    <2>3. CASE lock = NoLock
      <3>1. \A q \in Process : ~Holds(q) /\ lock # Empty(q)
        BY <1>1, <2>3, WrittenIsLock DEF Holds
      <3>2. \A q \in Process : pc[q] \notin {"opening", "running", "releasing", "unlink", "fill"}
        BY <1>3, <2>1, <3>1
      <3>3. /\ UNCHANGED <<run, seen, crashes>>
            /\ \/ lock' = Written(p) /\ pc' = [pc EXCEPT ![p] = "opening"]
               \/ lock' = Empty(p) /\ pc' = [pc EXCEPT ![p] = "fill"]
        BY <1>10, <2>3, LockAssumption DEF Create
      <3>4. /\ \A q \in Process \ {p} : pc'[q] = pc[q]
            /\ \/ pc'[p] = "opening" /\ lock' = Written(p)
               \/ pc'[p] = "fill" /\ lock' = Empty(p)
        BY <1>1, <3>3 DEF TypeOK
      <3>5. lock'.run = 0
        BY <1>1, <1>3, <2>1, <3>4, WrittenIsLock
      <3>6. Holds(p)' <=> lock' = Written(p)
        BY <3>3 DEF Holds, Written
      <3>7. Empty(p)' = Empty(p)
        BY <3>3 DEF Empty
      <3> QED
        BY <1>4a, <2>1, <3>2, <3>3, <3>4, <3>5, <3>6, <3>7
    <2> QED
      BY <2>2, <2>3
  <1>11. ASSUME NEW p \in Process, Fill(p) PROVE Undisturbed'
    <2>1. crashes = 0 /\ lock = Empty(p)
      BY <1>3, <1>11 DEF Fill
    <2>2. /\ lock' = Written(p) /\ pc'[p] = "opening" /\ UNCHANGED <<run, seen, crashes>>
          /\ \A q \in Process \ {p} : pc'[q] = pc[q]
      BY <1>1, <1>11, <2>1 DEF Fill, TypeOK
    <2>3. \A q \in Process \ {p} :
            pc[q] \notin {"opening", "running", "releasing", "unlink", "fill"}
      <3>1. \A q \in Process \ {p} : ~Holds(q) /\ lock # Empty(q)
        BY <1>1, <2>1, WrittenIsLock DEF Holds
      <3> QED
        BY <1>3, <2>1, <3>1
    <2>4. Holds(p)' /\ lock'.run = 0
      BY <1>1, <1>3, <2>1, <2>2, WrittenIsLock DEF Holds, Written
    <2> QED
      BY <1>4a, <2>1, <2>2, <2>3, <2>4
  <1>12. ASSUME NEW p \in Process, Open(p) PROVE Undisturbed'
    <2>1. crashes = 0 /\ Holds(p)
      BY <1>3, <1>12 DEF Open
    <2>2. UNCHANGED <<lock, run, seen, crashes>> /\ pc' = [pc EXCEPT ![p] = pc'[p]]
          /\ pc'[p] \in {"running", "releasing"}
      BY <1>1, <1>12 DEF Open, TypeOK
    <2> QED
      BY <1>4, <2>1, <2>2
  <1>13. ASSUME NEW p \in Process, Stop(p) PROVE Undisturbed'
    <2>1. crashes = 0 /\ Holds(p)
      BY <1>3, <1>13 DEF Stop
    <2> QED
      BY <1>1, <1>4, <1>13, <2>1 DEF Stop, TypeOK
  <1>14. ASSUME NEW p \in Process, LoseLock(p) PROVE FALSE
    BY <1>3, <1>14 DEF LoseLock
  <1>15. ASSUME NEW p \in Process, Release(p) PROVE Undisturbed'
    <2>1. crashes = 0 /\ Holds(p)
      BY <1>3, <1>15 DEF Release
    <2> QED
      <3>1. pc' = [pc EXCEPT ![p] = "unlink"] /\ UNCHANGED <<lock, run, seen, crashes>>
        BY <1>15, <2>1 DEF Release
      <3>2. pc'[p] = "unlink" /\ pc' = [pc EXCEPT ![p] = pc'[p]]
        BY <1>1, <3>1 DEF TypeOK
      <3> QED
        BY <1>4, <2>1, <3>1, <3>2
  <1>16. ASSUME NEW p \in Process, Unlink(p) PROVE Undisturbed'
    <2>1. crashes = 0 /\ Holds(p)
      BY <1>3, <1>16 DEF Unlink
    <2>2. \A q \in Process \ {p} :
            pc[q] \notin {"opening", "running", "releasing", "unlink", "fill"}
      <3>1. \A q \in Process \ {p} : ~Holds(q) /\ lock # Empty(q)
        BY <1>1, <2>1, WrittenIsLock DEF Holds
      <3> QED
        BY <1>3, <2>1, <3>1
    <2>3. /\ lock' = NoLock /\ pc'[p] = "idle" /\ UNCHANGED <<run, seen, crashes>>
          /\ \A q \in Process \ {p} : pc'[q] = pc[q]
      BY <1>1, <1>16 DEF Unlink, TypeOK
    <2> QED
      BY <1>4a, <2>1, <2>2, <2>3
  <1>17. ASSUME NEW p \in Process, Restart(p) PROVE FALSE
    BY <1>3, <1>17 DEF Restart
  <1>18. CASE UNCHANGED vars
    BY <1>18 DEF vars, LockInv, Undisturbed, Holds, Written, Empty
  <1> QED
    BY <1>2, <1>5, <1>6, <1>7, <1>8, <1>9, <1>10, <1>11, <1>12, <1>13, <1>14, <1>15, <1>16,
       <1>17, <1>18 DEF Next, Starts, Stops

(* Until a process dies, whoever is past the create is named by the lock,  *)
(* nobody takes over, and only the owner is about to remove it.            *)
THEOREM LockInvariance == Spec => []LockInv
  BY LockInvInit, LockInvStep, PTL DEF Spec

(* Whoever runs holds the lock, until the first crash (worker.ts:225-301), *)
(* also when a harness failed to open or to close on the way.              *)
THEOREM ExclusionUntilCrash == Spec => []ExclusiveUntilCrash
  <1>1. LockInv => ExclusiveUntilCrash
    BY DEF LockInv, TypeOK, Undisturbed, ExclusiveUntilCrash, Running
  <1> QED
    BY <1>1, LockInvariance, PTL

(* Until the first crash a written lock is only removed, by its owner.     *)
THEOREM ReleasesAreTheOwners == Spec => OnlyTheOwnerReleases
  <1>1. ASSUME LockInv, [Next]_vars, crashes = 0, lock.kind = "written", lock' # lock
        PROVE  lock' = NoLock /\ pc[lock.pid] = "unlink"
    <2>1. PICK p \in Process :
            Takeover(p) \/ Create(p) \/ Fill(p) \/ Unlink(p)
      BY <1>1 DEF Next, Starts, Stops, vars, Start, Look, Read, Judge, Open, Stop, LoseLock,
                  Release, Crash, Restart
    <2>2. ~Takeover(p)
      BY <1>1 DEF LockInv, Undisturbed, Takeover
    <2>3. ~Create(p)
      BY <1>1, LockFields DEF LockInv, Create
    <2>4. ~Fill(p)
      BY <1>1, WrittenIsLock DEF LockInv, Undisturbed, Fill
    <2>5. lock = Written(p) /\ lock' = NoLock /\ pc[p] = "unlink"
      BY <1>1, <2>1, <2>2, <2>3, <2>4 DEF LockInv, Undisturbed, Unlink, Holds
    <2> QED
      BY <1>1, <2>5, WrittenIsLock DEF LockInv
  <1>2. LockInv /\ [Next]_vars =>
          [crashes = 0 /\ lock.kind = "written" /\ lock' # lock
             => lock' = NoLock /\ pc[lock.pid] = "unlink"]_vars
    BY <1>1
  <1> QED
    BY <1>2, LockInvariance, PTL DEF Spec, OnlyTheOwnerReleases

(* The workspace as a task of TaskOwnership, owned by the process whose    *)
(* worker runs.                                                            *)
Nobody == CHOOSE p : p \notin Process

RunBy ==
  [w \in {"workspace"} |-> IF Running = {} THEN Nobody ELSE CHOOSE p \in Process : p \in Running]

Ownership == INSTANCE TaskOwnership
  WITH Daemon <- Process, Task <- {"workspace"}, NoDaemon <- Nobody, owner <- RunBy

LEMMA OneRuns ==
  ASSUME LockInv, crashes = 0
  PROVE  \/ Running = {} /\ RunBy = [w \in {"workspace"} |-> Nobody]
         \/ \E p \in Process : /\ Running = {p} /\ pc[p] = "running" /\ Holds(p)
                              /\ RunBy = [w \in {"workspace"} |-> p]
  <1>1. CASE Running = {}
    BY <1>1 DEF RunBy
  <1>2. ASSUME NEW p \in Running
        PROVE  p \in Process /\ pc[p] = "running" /\ Holds(p)
    BY <1>2 DEF LockInv, Undisturbed, Running
  <1>3. ASSUME NEW p \in Running PROVE Running = {p}
    <2>1. \A q \in Running : q = p
      BY <1>2, <1>3, WrittenIsLock DEF Holds, LockInv
    <2> QED
      BY <1>3, <2>1
  <1>4. ASSUME NEW p \in Running PROVE RunBy = [w \in {"workspace"} |-> p]
    <2>1. (CHOOSE q \in Process : q \in Running) = p
      BY <1>2, <1>3, <1>4
    <2> QED
      BY <1>4, <2>1 DEF RunBy
  <1> QED
    BY <1>1, <1>2, <1>3, <1>4

LEMMA RunStepRefines ==
  ASSUME LockInv, LockInv', crashes = 0, crashes' = 0, [Next]_vars
  PROVE  [Ownership!Next]_RunBy
  <1>0. pc \in [Process -> PC]
    BY DEF LockInv, TypeOK
  <1>1. CASE Running' = Running
    BY <1>1 DEF RunBy
  <1>2. CASE Running' # Running
    <2>1. PICK p \in Process : Open(p) \/ Stop(p)
      <3>1. CASE UNCHANGED vars
        BY <1>2, <3>1 DEF vars, Running
      <3>2. ASSUME NEW p \in Process,
                   Start(p) \/ Look(p) \/ Read(p) \/ Judge(p) \/ Takeover(p) \/ Create(p)
                     \/ Fill(p) \/ Release(p) \/ Unlink(p) \/ Restart(p)
            PROVE  FALSE
        <4>1. /\ pc[p] # "running" /\ pc'[p] # "running"
              /\ \A q \in Process \ {p} : pc'[q] = pc[q]
          BY <1>0, <3>2 DEF Goto, Start, Look, Read, Judge, Takeover, Create, Fill, Release,
                            Unlink, Restart
        <4> QED
          BY <1>2, <4>1 DEF Running
      <3>3. ASSUME NEW p \in Process, LoseLock(p) PROVE FALSE
        BY <3>3 DEF LoseLock, LockInv, Undisturbed
      <3>4. ASSUME NEW p \in Process, Crash(p) PROVE FALSE
        BY <3>4, LockAssumption DEF Crash
      <3> QED
        BY <3>1, <3>2, <3>3, <3>4 DEF Next, Starts, Stops
    <2>2. CASE Open(p)
      <3>1. pc[p] = "opening" /\ Holds(p) /\ \A q \in Process \ {p} : pc'[q] = pc[q]
        BY <1>0, <2>2 DEF Open, Goto, LockInv, Undisturbed
      <3>2. Running = {}
        <4>1. ASSUME NEW q \in Process, pc[q] = "running", Holds(q) PROVE FALSE
          <5>1. Written(p).pid = p /\ Written(q).pid = q
            BY WrittenIsLock DEF LockInv
          <5>2. p = q
            BY <3>1, <4>1, <5>1 DEF Holds
          <5> QED
            BY <3>1, <4>1, <5>2
        <4>2. Running = {} \/ \E q \in Process : pc[q] = "running" /\ Holds(q)
          BY OneRuns
        <4> QED
          BY <4>1, <4>2
      <3>3. RunBy = [w \in {"workspace"} |-> Nobody]
        BY <3>2 DEF RunBy
      <3>4. Running' = {p}
        BY <1>2, <3>1, <3>2 DEF Running
      <3>5. RunBy' = [w \in {"workspace"} |-> p]
        <4>1. (CHOOSE q \in Process : q \in {p}) = p
          OBVIOUS
        <4> QED
          BY <3>4, <4>1 DEF RunBy
      <3>6. Ownership!Take(p, "workspace")
        BY <3>3, <3>5 DEF Ownership!Take
      <3> QED
        BY <3>6 DEF Ownership!Next
    <2>3. CASE Stop(p)
      <3>1. /\ pc[p] = "running" /\ pc'[p] # "running"
            /\ \A q \in Process \ {p} : pc'[q] = pc[q]
        BY <1>0, <2>3 DEF Stop, Goto
      <3>2. Running = {p} /\ RunBy = [w \in {"workspace"} |-> p]
        <4>1. p \in Running
          BY <3>1 DEF Running
        <4> QED
          BY <4>1, OneRuns
      <3>3. Running' = {}
        BY <3>1, <3>2 DEF Running
      <3>4. RunBy' = [w \in {"workspace"} |-> Nobody]
        BY <3>3 DEF RunBy
      <3>5. Ownership!GiveUp(p, {"workspace"})
        BY <3>2, <3>4 DEF Ownership!GiveUp
      <3> QED
        BY <3>5 DEF Ownership!Next
    <2> QED
      BY <2>1, <2>2, <2>3
  <1> QED
    BY <1>1, <1>2

(* While nobody dies the lock file gives what the leases of the daemon     *)
(* give (TaskOwnership): a worker starts to run when none does, and stops  *)
(* before another starts (worker.ts:225-301).  A database that failed to   *)
(* open or to close is not a worker's any more and may outlast it.         *)
THEOREM LockRefinement == ASSUME MaxCrashes = 0 PROVE Spec => Ownership!Spec
  <1>1. Init => Ownership!Init
    BY DEF Init, Ownership!Init, RunBy, Running
  <1>2. (LockInv => crashes = 0) /\ (LockInv' => crashes' = 0)
    BY DEF LockInv, TypeOK
  <1>3. LockInv /\ LockInv' /\ [Next]_vars => [Ownership!Next]_RunBy
    BY <1>2, RunStepRefines
  <1> QED
    BY <1>1, <1>3, LockInvariance, PTL DEF Spec, Ownership!Spec

-----------------------------------------------------------------------------
(* The checkpoints of the loop daemon.                                     *)

(* No line is in the index before its checkpoint is in its place, and a    *)
(* readable index ends with the last put that was complete.                *)
FilesFirst ==
  /\ \A t \in Thread : \A n \in DOMAIN index[t] : index[t][n].id \in files[t]
  /\ putting.stage = "append" => putting.id \in files[putting.thread]

LastLineIsSaved ==
  \A t \in Thread :
    Readable(t) => saved[t] = IF index[t] = <<>> THEN None ELSE LastId(t)

(* The put underway is newer than what its thread has saved.               *)
PutIsNewer ==
  /\ \A t \in Thread : saved[t] <= puts
  /\ putting # NoPut => saved[putting.thread] <= putting.id /\ putting.id <= puts

StoreInv == StoreTypeOK /\ FilesFirst /\ LastLineIsSaved /\ PutIsNewer

LEMMA AddLineAppends ==
  ASSUME StoreTypeOK, putting.stage = "append", NEW whole \in BOOLEAN, AddLine(whole)
  PROVE  LET u == putting.thread
             line == [id |-> putting.id, whole |-> whole]
         IN  /\ u \in Thread /\ putting.id \in Id /\ line \in Line
             /\ index' \in [Thread -> Seq(Line)]
             /\ Len(index[u]) \in Nat
             /\ index'[u] # <<>>
             /\ Len(index'[u]) = Len(index[u]) + 1
             /\ DOMAIN index[u] = 1..Len(index[u])
             /\ DOMAIN index'[u] = 1..(Len(index[u]) + 1)
             /\ \A n \in DOMAIN index[u] : index'[u][n] = index[u][n]
             /\ index'[u][Len(index[u]) + 1] = line
             /\ \A t \in Thread : t # u => index'[t] = index[t]
  <1> DEFINE u == putting.thread
             line == [id |-> putting.id, whole |-> whole]
  <1>1. u \in Thread /\ putting.id \in Id
    BY DEF StoreTypeOK, Put, NoPut
  <1>2. line \in Line
    BY <1>1 DEF Line
  <1>3. index[u] \in Seq(Line)
    BY <1>1 DEF StoreTypeOK
  <1> HIDE DEF u, line
  <1>4. index' = [index EXCEPT ![u] = Append(index[u], line)]
    BY DEF AddLine, u, line
  <1>5. index'[u] = Append(index[u], line) /\ \A t \in Thread : t # u => index'[t] = index[t]
    BY <1>1, <1>4 DEF StoreTypeOK
  <1>6. Append(index[u], line) \in Seq(Line)
    BY <1>2, <1>3
  <1>7. index' \in [Thread -> Seq(Line)]
    BY <1>1, <1>4, <1>6 DEF StoreTypeOK
  <1> QED
    BY <1>1, <1>2, <1>3, <1>5, <1>7 DEF u, line

LEMMA StoreTypeStep == StoreTypeOK /\ [StoreNext]_storeVars => StoreTypeOK'
  <1> SUFFICES ASSUME StoreTypeOK, [StoreNext]_storeVars PROVE StoreTypeOK'
    OBVIOUS
  <1> USE StoreAssumption DEF Id, None
  <1>1. ASSUME NEW t \in Thread, NEW k \in Task, StartRun(t, k) PROVE StoreTypeOK'
    <2>1. Recovered(t) \in Nat
      BY DEF StoreTypeOK, Recovered, Latest, LastId, Readable, Line
    <2> QED
      BY <1>1, <2>1 DEF StoreTypeOK, StartRun
  <1>2. ASSUME NEW t \in Thread, SaveStep(t) PROVE StoreTypeOK'
    <2>1. putting' \in Put /\ puts' \in 0..MaxPuts /\ puts' \in Id
      BY <1>2 DEF StoreTypeOK, SaveStep, Put
    <2>2. step' \in [Thread -> Nat] /\ at' \in [Id -> Nat]
      BY <1>2 DEF StoreTypeOK, SaveStep
    <2> QED
      BY <1>2, <2>1, <2>2 DEF StoreTypeOK, SaveStep
  <1>3. ASSUME NEW t \in Thread, FinishRun(t) PROVE StoreTypeOK'
    BY <1>3 DEF StoreTypeOK, FinishRun
  <1>4. CASE Rename
    <2>1. putting \in [stage: {"rename"}, thread: Thread, id: Id]
      BY <1>4 DEF StoreTypeOK, Rename, Put, NoPut
    <2>2. putting' \in [stage: {"append"}, thread: Thread, id: Id]
      BY <1>4, <2>1 DEF Rename
    <2>3. putting' \in Put /\ putting.thread \in Thread /\ putting.id \in Id
      BY <2>1, <2>2 DEF Put
    <2>4. files' \in [Thread -> SUBSET Id]
      BY <1>4, <2>3 DEF StoreTypeOK, Rename
    <2> QED
      BY <1>4, <2>3, <2>4 DEF StoreTypeOK, Rename
  <1>5. CASE AppendIndex
    <2>1. index' \in [Thread -> Seq(Line)] /\ putting.id \in Id
      BY <1>5, AddLineAppends DEF AppendIndex
    <2> QED
      BY <1>5, <2>1 DEF StoreTypeOK, AppendIndex, Put
  <1>6. CASE AppendPart
    <2>1. index' \in [Thread -> Seq(Line)]
      BY <1>6, AddLineAppends DEF AppendPart
    <2> QED
      BY <1>6, <2>1 DEF StoreTypeOK, AppendPart, Put
  <1>7. CASE CrashAndRestart
    BY <1>7 DEF StoreTypeOK, CrashAndRestart, Put
  <1>8. CASE PutFails
    BY <1>8 DEF StoreTypeOK, PutFails, Put
  <1>9. CASE UNCHANGED storeVars
    BY <1>9 DEF StoreTypeOK, storeVars
  <1> QED
    BY <1>1, <1>2, <1>3, <1>4, <1>5, <1>6, <1>7, <1>8, <1>9 DEF StoreNext

LEMMA FilesFirstStep ==
  ASSUME StoreTypeOK, StoreTypeOK', FilesFirst, [StoreNext]_storeVars
  PROVE  FilesFirst'
  <1>1. ASSUME NEW t \in Thread, NEW k \in Task, StartRun(t, k) PROVE FilesFirst'
    BY <1>1 DEF FilesFirst, StartRun
  <1>2. ASSUME NEW t \in Thread, SaveStep(t) PROVE FilesFirst'
    BY <1>2 DEF FilesFirst, SaveStep
  <1>3. ASSUME NEW t \in Thread, FinishRun(t) PROVE FilesFirst'
    BY <1>3 DEF FilesFirst, FinishRun
  <1>4. CASE Rename
    <2>1. /\ putting.thread \in Thread
          /\ putting'.id = putting.id /\ putting'.thread = putting.thread
          /\ putting.id \in files'[putting.thread]
          /\ \A t \in Thread : files[t] \subseteq files'[t]
      BY <1>4 DEF StoreTypeOK, Rename, Put, NoPut
    <2> QED
      BY <1>4, <2>1 DEF FilesFirst, Rename
  <1>5. CASE AppendIndex \/ AppendPart
    <2>1. /\ putting.stage = "append" /\ putting' = NoPut /\ files' = files
          /\ \E whole \in BOOLEAN : AddLine(whole)
      BY <1>5 DEF AppendIndex, AppendPart
    <2> PICK whole \in BOOLEAN : AddLine(whole)
      BY <2>1
    <2>2. ASSUME NEW t \in Thread, NEW n \in DOMAIN index'[t]
          PROVE  index'[t][n].id \in files'[t]
      <3>1. CASE t # putting.thread
        BY <2>1, <3>1, AddLineAppends DEF FilesFirst
      <3>2. CASE t = putting.thread /\ n \in DOMAIN index[t]
        BY <2>1, <3>2, AddLineAppends DEF FilesFirst
      <3>3. CASE t = putting.thread /\ n \notin DOMAIN index[t]
        <4> DEFINE len == Len(index[t])
        <4>0. /\ len \in Nat /\ DOMAIN index[t] = 1..len /\ DOMAIN index'[t] = 1..(len + 1)
          BY <2>1, <3>3, AddLineAppends
        <4>1. n = len + 1
          BY <2>2, <3>3, <4>0
        <4>2. index'[t][n] = [id |-> putting.id, whole |-> whole]
          BY <2>1, <3>3, <4>1, AddLineAppends
        <4> QED
          BY <2>1, <3>3, <4>2 DEF FilesFirst
      <3> QED
        BY <3>1, <3>2, <3>3
    <2> QED
      BY <2>1, <2>2 DEF FilesFirst, NoPut
  <1>6. CASE CrashAndRestart \/ PutFails
    BY <1>6 DEF FilesFirst, CrashAndRestart, PutFails, NoPut
  <1>7. CASE UNCHANGED storeVars
    BY <1>7 DEF FilesFirst, storeVars
  <1> QED
    BY <1>1, <1>2, <1>3, <1>4, <1>5, <1>6, <1>7 DEF StoreNext

LEMMA LastLineStep ==
  ASSUME StoreTypeOK, LastLineIsSaved, [StoreNext]_storeVars
  PROVE  LastLineIsSaved'
  <1>1. ASSUME UNCHANGED <<index, saved>> PROVE LastLineIsSaved'
    BY <1>1 DEF LastLineIsSaved, Readable, LastId
  <1>2. CASE AppendIndex
    <2> SUFFICES ASSUME NEW t \in Thread, Readable(t)'
                 PROVE  saved'[t] = IF index'[t] = <<>> THEN None ELSE LastId(t)'
      BY DEF LastLineIsSaved
    <2>1. AddLine(TRUE) /\ putting.stage = "append" /\ saved' = [saved EXCEPT ![putting.thread] = putting.id]
      BY <1>2 DEF AppendIndex
    <2>2. CASE t = putting.thread
      <3>1. index'[t] # <<>> /\ Len(index'[t]) = Len(index[t]) + 1
        BY <2>1, <2>2, AddLineAppends
      <3>2. index'[t][Len(index[t]) + 1] = [id |-> putting.id, whole |-> TRUE]
        BY <2>1, <2>2, AddLineAppends
      <3>3. saved'[t] = putting.id
        BY <2>1, <2>2 DEF StoreTypeOK
      <3> QED
        BY <3>1, <3>2, <3>3 DEF LastId
    <2>3. CASE t # putting.thread
      <3>1. index'[t] = index[t] /\ saved'[t] = saved[t]
        BY <2>1, <2>3, AddLineAppends DEF StoreTypeOK
      <3> QED
        BY <3>1 DEF LastLineIsSaved, Readable, LastId
    <2> QED
      BY <2>2, <2>3
  <1>3. CASE AppendPart
    <2> SUFFICES ASSUME NEW t \in Thread, Readable(t)'
                 PROVE  saved'[t] = IF index'[t] = <<>> THEN None ELSE LastId(t)'
      BY DEF LastLineIsSaved
    <2>1. AddLine(FALSE) /\ putting.stage = "append" /\ saved' = saved
      BY <1>3 DEF AppendPart
    <2>2. t # putting.thread
      <3> SUFFICES ASSUME t = putting.thread PROVE FALSE
        OBVIOUS
      <3> DEFINE last == Len(index[t]) + 1
      <3>1. Len(index[t]) \in Nat /\ DOMAIN index'[t] = 1..last
        BY <2>1, AddLineAppends
      <3>2. index'[t][last] = [id |-> putting.id, whole |-> FALSE]
        BY <2>1, AddLineAppends
      <3>3. last \in DOMAIN index'[t]
        BY <3>1
      <3> QED
        BY <3>2, <3>3 DEF Readable
    <2>3. index'[t] = index[t]
      BY <2>1, <2>2, AddLineAppends
    <2> QED
      BY <2>1, <2>3 DEF LastLineIsSaved, Readable, LastId
  <1> QED
    BY <1>1, <1>2, <1>3
    DEF StoreNext, StartRun, SaveStep, FinishRun, Rename, PutFails, CrashAndRestart, storeVars

LEMMA PutIsNewerStep ==
  ASSUME StoreTypeOK, PutIsNewer, [StoreNext]_storeVars
  PROVE  PutIsNewer'
  <1> USE DEF Id, None
  <1>1. ASSUME UNCHANGED <<saved, puts>>, putting' \in {putting, NoPut} PROVE PutIsNewer'
    BY <1>1 DEF PutIsNewer
  <1>2. ASSUME NEW t \in Thread, SaveStep(t) PROVE PutIsNewer'
    <2>1. /\ putting'.id = puts + 1 /\ putting'.thread = t
          /\ puts' = puts + 1 /\ saved' = saved /\ puts \in Nat
          /\ \A u \in Thread : saved[u] \in Nat
      BY <1>2, StoreAssumption DEF SaveStep, StoreTypeOK
    <2> QED
      BY <2>1 DEF PutIsNewer
  <1>3. CASE Rename
    <2>1. putting \in [stage: {"rename"}, thread: Thread, id: Id] /\ putting # NoPut
      BY <1>3 DEF StoreTypeOK, Rename, Put, NoPut
    <2>2. putting'.id = putting.id /\ putting'.thread = putting.thread
      BY <1>3, <2>1 DEF Rename
    <2> QED
      BY <1>3, <2>1, <2>2 DEF PutIsNewer, Rename
  <1>4. CASE AppendIndex
    <2>1. putting # NoPut /\ putting.thread \in Thread
      BY <1>4 DEF StoreTypeOK, AppendIndex, Put, NoPut
    <2> QED
      BY <1>4, <2>1 DEF PutIsNewer, StoreTypeOK, AppendIndex
  <1> QED
    BY <1>1, <1>2, <1>3, <1>4
    DEF StoreNext, StartRun, FinishRun, AppendPart, PutFails, CrashAndRestart, storeVars

(* Every checkpoint the index names is in its place, and a readable index  *)
(* ends with the last complete put: appendIndex comes after atomicWrite.   *)
THEOREM StoreInvariance == StoreSpec => []StoreInv
  <1>1. StoreInit => StoreInv
    BY StoreAssumption
    DEF StoreInit, StoreInv, StoreTypeOK, FilesFirst, LastLineIsSaved, PutIsNewer, Put, NoPut, None, Id, Readable
  <1>2. StoreInv /\ [StoreNext]_storeVars => StoreInv'
    BY StoreTypeStep, FilesFirstStep, LastLineStep, PutIsNewerStep DEF StoreInv
  <1> QED
    BY <1>1, <1>2, PTL DEF StoreSpec

LEMMA LatestFromInvariant == StoreInv => LatestIsSaved
  <1> SUFFICES ASSUME StoreInv, NEW t \in Thread, Readable(t) PROVE Latest(t) = saved[t]
    BY DEF LatestIsSaved
  <1>1. saved[t] = IF index[t] = <<>> THEN None ELSE LastId(t)
    BY DEF StoreInv, LastLineIsSaved
  <1>2. index[t] # <<>> => LastId(t) \in files[t]
    BY DEF StoreInv, StoreTypeOK, FilesFirst, LastId
  <1> QED
    BY <1>1, <1>2 DEF Latest

(* Whoever dies and wherever, a thread whose index is not torn is found at *)
(* its last complete put.                                                  *)
THEOREM LatestCorrect == StoreSpec => []LatestIsSaved
  BY StoreInvariance, LatestFromInvariant, PTL

LEMMA OnlyLinesAreAdded ==
  ASSUME StoreTypeOK, [StoreNext]_storeVars, NEW t \in Thread, Readable(t)'
  PROVE  Readable(t)
  <1>1. CASE UNCHANGED index
    BY <1>1 DEF Readable
  <1>2. CASE AppendIndex \/ AppendPart
    <2>1. putting.stage = "append" /\ \E whole \in BOOLEAN : AddLine(whole)
      BY <1>2 DEF AppendIndex, AppendPart
    <2>2. \A n \in DOMAIN index[t] : n \in DOMAIN index'[t] /\ index'[t][n] = index[t][n]
      <3>1. CASE t # putting.thread
        BY <2>1, <3>1, AddLineAppends
      <3>2. CASE t = putting.thread
        <4> DEFINE len == Len(index[t])
        <4>1. /\ len \in Nat /\ DOMAIN index[t] = 1..len /\ DOMAIN index'[t] = 1..(len + 1)
              /\ \A n \in DOMAIN index[t] : index'[t][n] = index[t][n]
          BY <2>1, <3>2, AddLineAppends
        <4>2. \A n \in 1..len : n \in 1..(len + 1)
          BY <4>1
        <4> QED
          BY <4>1, <4>2
      <3> QED
        BY <3>1, <3>2
    <2> QED
      BY <2>2 DEF Readable
  <1> QED
    BY <1>1, <1>2
    DEF StoreNext, StartRun, SaveStep, FinishRun, Rename, PutFails, CrashAndRestart, storeVars

LEMMA SavedGrows ==
  ASSUME StoreInv, [StoreNext]_storeVars, NEW t \in Thread
  PROVE  saved'[t] >= saved[t]
  <1> USE DEF Id, None
  <1>0. saved[t] \in Nat
    BY StoreAssumption DEF StoreInv, StoreTypeOK
  <1>1. CASE UNCHANGED saved
    BY <1>0, <1>1
  <1>2. CASE AppendIndex
    <2>1. putting # NoPut /\ putting.thread \in Thread /\ putting.id \in Nat
      BY <1>2 DEF StoreInv, StoreTypeOK, AppendIndex, Put, NoPut
    <2> QED
      BY <1>0, <1>2, <2>1 DEF StoreInv, StoreTypeOK, PutIsNewer, AppendIndex
  <1> QED
    BY <1>1, <1>2
    DEF StoreNext, StartRun, SaveStep, FinishRun, Rename, AppendPart, PutFails, CrashAndRestart, storeVars

(* Where a run of a thread starts never falls back, as long as the index   *)
(* of the thread is not torn.                                              *)
THEOREM GroundIsKept == StoreSpec => NeverLosesGround
  <1>1. ASSUME StoreInv, StoreInv', [StoreNext]_storeVars, NEW t \in Thread, Readable(t)', Latest(t) # None
        PROVE  Latest(t)' >= Latest(t)
    <2>1. Readable(t)
      BY <1>1, OnlyLinesAreAdded DEF StoreInv
    <2>2. Latest(t) = saved[t]
      BY <1>1, <2>1, LatestFromInvariant DEF LatestIsSaved
    <2>3. LatestIsSaved'
      BY <1>1, LatestFromInvariant, PTL
    <2>4. Latest(t)' = saved'[t]
      BY <1>1, <2>3 DEF LatestIsSaved
    <2> QED
      BY <1>1, <2>2, <2>4, SavedGrows
  <1>2. StoreInv /\ StoreInv' /\ [StoreNext]_storeVars =>
          [\A t \in Thread : Readable(t)' /\ Latest(t) # None => Latest(t)' >= Latest(t)]_storeVars
    BY <1>1
  <1> QED
    BY <1>2, StoreInvariance, PTL DEF StoreSpec, NeverLosesGround
=============================================================================
