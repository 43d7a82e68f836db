-------------------------- MODULE LoopDaemon_proofs --------------------------
(***************************************************************************)
(* Proofs about LoopDaemon: when no two daemons share a worker id, a task  *)
(* has at most one entitled daemon, and the daemons implement              *)
(* TaskOwnership.  IInv of LoopDaemon is the inductive invariant.  Whoever *)
(* shares an id, no run leaves its lease file behind but by a crash.       *)
(***************************************************************************)
EXTENDS LoopDaemon, TLAPS

LEMMA NoFileNotLeaseFile == NoFile \notin LeaseFile
  BY NoDaemonAssumption DEF NoFile, LeaseFile

(* TypeOK is inductive by itself.                                          *)
LEMMA TypeOKInit == Init => TypeOK
  BY DaemonAssumption DEF Init, TypeOK, LeaseInit, LeaseTypeOK, Pc, Unlinking, Stage

LEMMA TypeOKStep == TypeOK /\ [Next]_vars => TypeOK'
  <1> SUFFICES ASSUME TypeOK, [Next]_vars PROVE TypeOK'
    OBVIOUS
  <1> USE DaemonAssumption, NoDaemonAssumption
      DEF TypeOK, LeaseTypeOK, LeaseFile, LeaseData, NoFile, Pc, Unlinking, Stage, Working, Verdict,
          procVars, envVars
  <1>1. ASSUME NEW d \in Daemon, Reaping(d) PROVE TypeOK'
    <2>1. CASE Construct(d)
      BY <2>1 DEF Construct
    <2>2. ASSUME NEW t \in Task, ReapRead(d, t) PROVE TypeOK'
      <3>1. Exists(t) => lease[t].by \in Daemon
        BY DEF Exists
      <3>2. CASE Readable(t)
        BY <2>2, <3>2 DEF ReapRead
      <3>3. CASE ~Readable(t)
        <4>1. /\ toRead' = [toRead EXCEPT ![d] = @ \ {t}]
              /\ pc' = [pc EXCEPT ![d] = "corrupt"]
              /\ cur' = [cur EXCEPT ![d] = t]
              /\ UNCHANGED <<toFree, lease, stopped, seen, running, job, envVars>>
          BY <2>2, <3>3 DEF ReapRead
        <4>2. forfeited' \subseteq Daemon \X Task
          BY <2>2, <3>1, <3>3 DEF ReapRead, Forfeit
        <4> QED
          BY <4>1, <4>2
      <3> QED
        BY <3>2, <3>3
    <2>3. ASSUME NEW t \in Task, ReapRelease(d, t) PROVE TypeOK'
      BY <2>3 DEF ReapRelease, Unlink
    <2>4. CASE ReapCorrupt(d)
      BY <2>4 DEF ReapCorrupt, Unlink
    <2>5. CASE ReapDone(d)
      BY <2>5 DEF ReapDone
    <2> QED
      BY <1>1, <2>1, <2>2, <2>3, <2>4, <2>5 DEF Reaping
  <1>2. ASSUME NEW d \in Daemon, Start(d) PROVE TypeOK'
    BY <1>2 DEF Start
  <1>3. ASSUME NEW d \in Daemon, Stop(d) PROVE TypeOK'
    BY <1>3 DEF Stop
  <1>4. ASSUME NEW d \in Daemon, Stopping(d) PROVE TypeOK'
    <2>1. ASSUME NEW t \in Task, StopCheck(d, t) PROVE TypeOK'
      <3>1. CASE HeldBy(t, d)
        <4>1. /\ running' = [running EXCEPT ![d] = @ \ {t}]
              /\ pc' = [pc EXCEPT ![d] = "stopUnlink"]
              /\ cur' = [cur EXCEPT ![d] = t]
              /\ UNCHANGED <<lease, toRead, toFree, stopped, seen, job, envVars, forfeited>>
          BY <2>1, <3>1 DEF StopCheck
        <4> QED
          BY <4>1
      <3>2. CASE ~HeldBy(t, d)
        BY <2>1, <3>2 DEF StopCheck
      <3> QED
        BY <3>1, <3>2
    <2>2. CASE StopUnlink(d)
      BY <2>2 DEF StopUnlink, Unlink
    <2>3. CASE StopDone(d)
      BY <2>3 DEF StopDone
    <2> QED
      BY <1>4, <2>1, <2>2, <2>3 DEF Stopping
  <1>5. ASSUME NEW d \in Daemon, Triggering(d) PROVE TypeOK'
    <2>1. ASSUME NEW t \in Task, TriggerSkipped(d, t) PROVE TypeOK'
      BY <2>1 DEF TriggerSkipped, Polls
    <2>2. ASSUME NEW t \in Task, ClaimOpen(d, t) PROVE TypeOK'
      BY <2>2 DEF ClaimOpen, Polls, OpenExclusive, Forfeit
    <2>3. CASE ClaimWrite(d)
      <3>1. cur[d] \in Task
        BY <2>3 DEF ClaimWrite
      <3>2. LeaseTypeOK'
        BY <2>3, <3>1 DEF ClaimWrite, WriteLease
      <3>3. QED
        BY <2>3, <3>1, <3>2 DEF ClaimWrite, Gated
    <2>4. CASE ClaimFails(d)
      BY <2>4 DEF ClaimFails, Unlink
    <2> QED
      BY <1>5, <2>1, <2>2, <2>3, <2>4 DEF Triggering
  <1>6. ASSUME NEW d \in Daemon, NEW t \in Task, Looping(d, t) PROVE TypeOK'
    <2> USE DEF Advance
    <2>1. CASE GateApproved(d, t)
      BY <2>1 DEF GateApproved
    <2>2. CASE GateDenied(d, t)
      BY <2>2 DEF GateDenied
    <2>3. ASSUME NEW v \in Verdict, LoopReturns(d, t, v) PROVE TypeOK'
      BY <2>3 DEF LoopReturns
    <2>4. CASE LoopThrows(d, t)
      BY <2>4 DEF LoopThrows
    <2>5. CASE BlockedAcked(d, t)
      BY <2>5 DEF BlockedAcked
    <2>6. CASE Finish(d, t)
      BY <2>6 DEF Finish
    <2>7. CASE ReleaseCheck(d, t)
      <3>1. CASE HeldBy(t, d)
        <4>1. /\ pc' = [pc EXCEPT ![d] = "unlink"]
              /\ cur' = [cur EXCEPT ![d] = t]
              /\ UNCHANGED <<lease, toRead, toFree, stopped, seen, running, job, envVars, forfeited>>
          BY <2>7, <3>1 DEF ReleaseCheck
        <4> QED
          BY <4>1
      <3>2. CASE ~HeldBy(t, d)
        <4>1. /\ Released(d, t)
              /\ UNCHANGED <<pc, cur, lease, toRead, toFree, stopped, seen, envVars, forfeited>>
          BY <2>7, <3>2 DEF ReleaseCheck
        <4> QED
          BY <4>1 DEF Released
      <3> QED
        BY <3>1, <3>2
    <2> QED
      BY <1>6, <2>1, <2>2, <2>3, <2>4, <2>5, <2>6, <2>7 DEF Looping, Handling, RunEnds
  <1>7. ASSUME NEW d \in Daemon, ReleaseUnlink(d) PROVE TypeOK'
    BY <1>7 DEF ReleaseUnlink, Unlink, Released
  <1>8. ASSUME NEW d \in Daemon, Crash(d) PROVE TypeOK'
    BY <1>8 DEF Crash
  <1>9. CASE Environment
    <2>1. ASSUME NEW t \in Task, TaskAppears(t) PROVE TypeOK'
      BY <2>1 DEF TaskAppears
    <2>2. ASSUME NEW t \in Task, HumanApproves(t) PROVE TypeOK'
      BY <2>2 DEF HumanApproves
    <2>3. ASSUME NEW t \in Task, LeaseExpires(t) PROVE TypeOK'
      BY <2>3 DEF LeaseExpires, Expire, Forfeit
    <2> QED
      BY <1>9, <2>1, <2>2, <2>3 DEF Environment
  <1>10. CASE UNCHANGED vars
    BY <1>10 DEF vars
  <1> QED
    BY <1>1, <1>2, <1>3, <1>4, <1>5, <1>6, <1>7, <1>8, <1>9, <1>10 DEF Next

(* The program's variables have their types in every reachable state.      *)
THEOREM TypeCorrect == Spec => []TypeOK
  BY TypeOKInit, TypeOKStep, PTL DEF Spec

(* SectionsConsistent is inductive relative to TypeOK.                     *)
LEMMA SectionsStep ==
  TypeOK /\ SectionsConsistent /\ [Next]_vars => SectionsConsistent'
  <1> SUFFICES ASSUME TypeOK, SectionsConsistent, [Next]_vars PROVE SectionsConsistent'
    OBVIOUS
  <1> USE DEF TypeOK, SectionsConsistent, Pc, Unlinking, Stage, Working, Verdict, procVars, envVars
  <1>1. ASSUME NEW d \in Daemon, Reaping(d) PROVE SectionsConsistent'
    <2>1. CASE Construct(d)
      BY <2>1 DEF Construct
    <2>2. ASSUME NEW t \in Task, ReapRead(d, t) PROVE SectionsConsistent'
      <3>1. CASE Readable(t)
        <4>1. /\ pc[d] = "reap" /\ t \in toRead[d]
              /\ toRead' = [toRead EXCEPT ![d] = @ \ {t}]
              /\ toFree' = [toFree EXCEPT ![d] = IF lease[t].data = "expired" THEN @ \cup {t} ELSE @]
              /\ UNCHANGED <<pc, cur, forfeited, lease, stopped, seen, running, job, envVars>>
          BY <2>2, <3>1 DEF ReapRead, Forfeit
        <4> QED
          BY <4>1
      <3>2. CASE ~Readable(t)
        <4>1. /\ pc[d] = "reap" /\ t \in toRead[d]
              /\ toRead' = [toRead EXCEPT ![d] = @ \ {t}]
              /\ pc' = [pc EXCEPT ![d] = "corrupt"]
              /\ cur' = [cur EXCEPT ![d] = t]
              /\ forfeited \subseteq forfeited'
              /\ Exists(t) => <<lease[t].by, t>> \in forfeited'
              /\ UNCHANGED <<toFree, lease, stopped, seen, running, job, envVars>>
          BY <2>2, <3>2 DEF ReapRead, Forfeit
        <4> QED
          BY <4>1
      <3> QED
        BY <3>1, <3>2
    <2>3. ASSUME NEW t \in Task, ReapRelease(d, t) PROVE SectionsConsistent'
      BY <2>3 DEF ReapRelease, Unlink
    <2>4. CASE ReapCorrupt(d)
      BY <2>4 DEF ReapCorrupt, Unlink
    <2>5. CASE ReapDone(d)
      BY <2>5 DEF ReapDone
    <2> QED
      BY <1>1, <2>1, <2>2, <2>3, <2>4, <2>5 DEF Reaping
  <1>2. ASSUME NEW d \in Daemon, Start(d) PROVE SectionsConsistent'
    BY <1>2 DEF Start
  <1>3. ASSUME NEW d \in Daemon, Stop(d) PROVE SectionsConsistent'
    BY <1>3 DEF Stop
  <1>4. ASSUME NEW d \in Daemon, Stopping(d) PROVE SectionsConsistent'
    <2>1. ASSUME NEW t \in Task, StopCheck(d, t) PROVE SectionsConsistent'
      <3>1. CASE HeldBy(t, d)
        <4>1. /\ pc[d] = "stopping" /\ t \in running[d]
              /\ running' = [running EXCEPT ![d] = @ \ {t}]
              /\ pc' = [pc EXCEPT ![d] = "stopUnlink"]
              /\ cur' = [cur EXCEPT ![d] = t]
              /\ UNCHANGED <<lease, toRead, toFree, stopped, seen, job, envVars, forfeited>>
          BY <2>1, <3>1 DEF StopCheck
        <4> QED
          BY <4>1
      <3>2. CASE ~HeldBy(t, d)
        <4>1. /\ pc[d] = "stopping" /\ t \in running[d]
              /\ running' = [running EXCEPT ![d] = @ \ {t}]
              /\ UNCHANGED <<pc, cur, lease, toRead, toFree, stopped, seen, job, envVars, forfeited>>
          BY <2>1, <3>2 DEF StopCheck
        <4> QED
          BY <4>1
      <3> QED
        BY <3>1, <3>2
    <2>2. CASE StopUnlink(d)
      BY <2>2 DEF StopUnlink, Unlink
    <2>3. CASE StopDone(d)
      BY <2>3 DEF StopDone
    <2> QED
      BY <1>4, <2>1, <2>2, <2>3 DEF Stopping
  <1>5. ASSUME NEW d \in Daemon, Triggering(d) PROVE SectionsConsistent'
    <2>1. ASSUME NEW t \in Task, TriggerSkipped(d, t) PROVE SectionsConsistent'
      BY <2>1 DEF TriggerSkipped, Polls
    <2>2. ASSUME NEW t \in Task, ClaimOpen(d, t) PROVE SectionsConsistent'
      BY <2>2 DEF ClaimOpen, Polls, OpenExclusive, Forfeit
    <2>3. CASE ClaimWrite(d)
      <3>1. cur[d] \in Task
        BY <2>3 DEF ClaimWrite
      <3>2. PICK to \in {"gate", "loop"} : job' = [job EXCEPT ![d][cur[d]] = to]
        BY <2>3 DEF ClaimWrite
      <3>3. /\ pc[d] = "claim"
            /\ pc' = [pc EXCEPT ![d] = "ready"]
            /\ running' = [running EXCEPT ![d] = @ \cup {cur[d]}]
            /\ UNCHANGED <<cur, toRead, toFree, stopped, seen, envVars, forfeited>>
        BY <2>3 DEF ClaimWrite
      <3>4. cur[d] \in seen[d]
        BY <2>3 DEF ClaimWrite
      <3> QED
        BY <3>1, <3>2, <3>3, <3>4
    <2>4. CASE ClaimFails(d)
      BY <2>4 DEF ClaimFails, Unlink
    <2> QED
      BY <1>5, <2>1, <2>2, <2>3, <2>4 DEF Triggering
  <1>6. ASSUME NEW d \in Daemon, NEW t \in Task, Looping(d, t) PROVE SectionsConsistent'
    <2>1. CASE GateApproved(d, t)
      BY <2>1 DEF GateApproved, Advance
    <2>2. CASE GateDenied(d, t)
      BY <2>2 DEF GateDenied, Advance
    <2>3. ASSUME NEW v \in Verdict, LoopReturns(d, t, v) PROVE SectionsConsistent'
      BY <2>3 DEF LoopReturns, Advance
    <2>4. CASE LoopThrows(d, t)
      BY <2>4 DEF LoopThrows, Advance
    <2>5. CASE BlockedAcked(d, t)
      BY <2>5 DEF BlockedAcked, Advance
    <2>6. CASE Finish(d, t)
      BY <2>6 DEF Finish, Advance
    <2>7. CASE ReleaseCheck(d, t)
      <3>1. CASE HeldBy(t, d)
        <4>1. /\ pc[d] = "ready" /\ job[d][t] \in {"release", "releaseTwice"}
              /\ pc' = [pc EXCEPT ![d] = "unlink"]
              /\ cur' = [cur EXCEPT ![d] = t]
              /\ UNCHANGED <<lease, toRead, toFree, stopped, seen, running, job, envVars, forfeited>>
          BY <2>7, <3>1 DEF ReleaseCheck, Released
        <4> QED
          BY <4>1
      <3>2. CASE ~HeldBy(t, d)
        <4>1. /\ pc[d] = "ready" /\ job[d][t] \in {"release", "releaseTwice"}
              /\ job' = [job EXCEPT ![d][t] = IF @ = "releaseTwice" THEN "release" ELSE "none"]
              /\ running' = [running EXCEPT ![d] = @ \ {t}]
              /\ UNCHANGED <<pc, cur, lease, toRead, toFree, stopped, seen, envVars, forfeited>>
          BY <2>7, <3>2 DEF ReleaseCheck, Released
        <4> QED
          BY <4>1
      <3> QED
        BY <3>1, <3>2
    <2> HIDE DEF TypeOK, SectionsConsistent
    <2> QED
      BY <1>6, <2>1, <2>2, <2>3, <2>4, <2>5, <2>6, <2>7 DEF Looping, Handling, RunEnds
  <1>7. ASSUME NEW d \in Daemon, ReleaseUnlink(d) PROVE SectionsConsistent'
    BY <1>7 DEF ReleaseUnlink, Unlink, Released
  <1>8. ASSUME NEW d \in Daemon, Crash(d) PROVE SectionsConsistent'
    BY <1>8 DEF Crash
  <1>9. CASE Environment
    <2>1. ASSUME NEW t \in Task, TaskAppears(t) PROVE SectionsConsistent'
      BY <2>1 DEF TaskAppears
    <2>2. ASSUME NEW t \in Task, HumanApproves(t) PROVE SectionsConsistent'
      BY <2>2 DEF HumanApproves
    <2>3. ASSUME NEW t \in Task, LeaseExpires(t) PROVE SectionsConsistent'
      BY <2>3 DEF LeaseExpires, Expire, Forfeit
    <2> QED
      BY <1>9, <2>1, <2>2, <2>3 DEF Environment
  <1>10. CASE UNCHANGED vars
    BY <1>10 DEF vars
  <1> QED
    BY <1>1, <1>2, <1>3, <1>4, <1>5, <1>6, <1>7, <1>8, <1>9, <1>10 DEF Next

(* An expired lease stays forfeited until the file is gone.                *)
LEMMA ExpiredStep ==
  TypeOK /\ ExpiredIsForfeited /\ [Next]_vars => ExpiredIsForfeited'
  <1> SUFFICES ASSUME TypeOK, ExpiredIsForfeited, [Next]_vars PROVE ExpiredIsForfeited'
    OBVIOUS
  <1> USE NoDaemonAssumption
      DEF TypeOK, ExpiredIsForfeited, LeaseTypeOK, LeaseFile, LeaseData, NoFile, procVars, envVars
  <1>1. ASSUME NEW d \in Daemon, Reaping(d) PROVE ExpiredIsForfeited'
    <2>1. CASE Construct(d)
      BY <2>1 DEF Construct
    <2>2. ASSUME NEW t \in Task, ReapRead(d, t) PROVE ExpiredIsForfeited'
      BY <2>2 DEF ReapRead, Forfeit
    <2>3. ASSUME NEW t \in Task, ReapRelease(d, t) PROVE ExpiredIsForfeited'
      BY <2>3 DEF ReapRelease, Unlink
    <2>4. CASE ReapCorrupt(d)
      BY <2>4 DEF ReapCorrupt, Unlink
    <2>5. CASE ReapDone(d)
      BY <2>5 DEF ReapDone
    <2> QED
      BY <1>1, <2>1, <2>2, <2>3, <2>4, <2>5 DEF Reaping
  <1>2. ASSUME NEW d \in Daemon, Start(d) PROVE ExpiredIsForfeited'
    BY <1>2 DEF Start
  <1>3. ASSUME NEW d \in Daemon, Stop(d) PROVE ExpiredIsForfeited'
    BY <1>3 DEF Stop
  <1>4. ASSUME NEW d \in Daemon, Stopping(d) PROVE ExpiredIsForfeited'
    <2>1. ASSUME NEW t \in Task, StopCheck(d, t) PROVE ExpiredIsForfeited'
      BY <2>1 DEF StopCheck
    <2>2. CASE StopUnlink(d)
      BY <2>2 DEF StopUnlink, Unlink
    <2>3. CASE StopDone(d)
      BY <2>3 DEF StopDone
    <2> QED
      BY <1>4, <2>1, <2>2, <2>3 DEF Stopping
  <1>5. ASSUME NEW d \in Daemon, Triggering(d) PROVE ExpiredIsForfeited'
    <2>1. ASSUME NEW t \in Task, TriggerSkipped(d, t) PROVE ExpiredIsForfeited'
      BY <2>1 DEF TriggerSkipped, Polls
    <2>2. ASSUME NEW t \in Task, ClaimOpen(d, t) PROVE ExpiredIsForfeited'
      BY <2>2 DEF ClaimOpen, Polls, OpenExclusive, Forfeit
    <2>3. CASE ClaimWrite(d)
      BY <2>3 DEF ClaimWrite, WriteLease
    <2>4. CASE ClaimFails(d)
      BY <2>4 DEF ClaimFails, Unlink
    <2> QED
      BY <1>5, <2>1, <2>2, <2>3, <2>4 DEF Triggering
  <1>6. ASSUME NEW d \in Daemon, NEW t \in Task, Looping(d, t) PROVE ExpiredIsForfeited'
    <2>1. CASE GateApproved(d, t)
      BY <2>1 DEF GateApproved, Advance
    <2>2. CASE GateDenied(d, t)
      BY <2>2 DEF GateDenied, Advance
    <2>3. ASSUME NEW v \in Verdict, LoopReturns(d, t, v) PROVE ExpiredIsForfeited'
      BY <2>3 DEF LoopReturns, Advance
    <2>4. CASE LoopThrows(d, t)
      BY <2>4 DEF LoopThrows, Advance
    <2>5. CASE BlockedAcked(d, t)
      BY <2>5 DEF BlockedAcked, Advance
    <2>6. CASE Finish(d, t)
      BY <2>6 DEF Finish, Advance
    <2>7. CASE ReleaseCheck(d, t)
      BY <2>7 DEF ReleaseCheck, Released
    <2> QED
      BY <1>6, <2>1, <2>2, <2>3, <2>4, <2>5, <2>6, <2>7 DEF Looping, Handling, RunEnds
  <1>7. ASSUME NEW d \in Daemon, ReleaseUnlink(d) PROVE ExpiredIsForfeited'
    BY <1>7 DEF ReleaseUnlink, Unlink, Released
  <1>8. ASSUME NEW d \in Daemon, Crash(d) PROVE ExpiredIsForfeited'
    BY <1>8 DEF Crash
  <1>9. CASE Environment
    <2>1. ASSUME NEW t \in Task, TaskAppears(t) PROVE ExpiredIsForfeited'
      BY <2>1 DEF TaskAppears
    <2>2. ASSUME NEW t \in Task, HumanApproves(t) PROVE ExpiredIsForfeited'
      BY <2>2 DEF HumanApproves
    <2>3. ASSUME NEW t \in Task, LeaseExpires(t) PROVE ExpiredIsForfeited'
      BY <2>3 DEF LeaseExpires, Expire, Forfeit
    <2> QED
      BY <1>9, <2>1, <2>2, <2>3 DEF Environment
  <1>10. CASE UNCHANGED vars
    BY <1>10 DEF vars
  <1> QED
    BY <1>1, <1>2, <1>3, <1>4, <1>5, <1>6, <1>7, <1>8, <1>9, <1>10 DEF Next

(* The lease file of a task stays the one its entitled daemon created.     *)
LEMMA LeaseBacksOwnerStep ==
  IInv /\ [Next]_vars => LeaseBacksOwner'
  <1> SUFFICES ASSUME IInv, [Next]_vars PROVE LeaseBacksOwner'
    OBVIOUS
  <1> USE NoDaemonAssumption
      DEF IInv, TypeOK, LeaseBacksOwner, SectionsConsistent, UnlinkIsSafe, LeaseTypeOK, LeaseFile,
          LeaseData, NoFile, Entitled, Executing, Claiming, PendingUnlink, Unlinking, Working,
          Verdict, procVars, envVars
  <1>1. ASSUME NEW d \in Daemon, Reaping(d) PROVE LeaseBacksOwner'
    <2>1. CASE Construct(d)
      BY <2>1 DEF Construct
    <2>2. ASSUME NEW t \in Task, ReapRead(d, t) PROVE LeaseBacksOwner'
      BY <2>2 DEF ReapRead, Forfeit
    <2>3. ASSUME NEW t \in Task, ReapRelease(d, t) PROVE LeaseBacksOwner'
      <3> SUFFICES ASSUME NEW u \in Task, NEW e \in Daemon, Entitled(e, u)'
                   PROVE  lease'[u].by = e
        BY DEF LeaseBacksOwner
      <3>1. /\ pc[d] = "reap" /\ t \in toFree[d]
            /\ lease' = [lease EXCEPT ![t] = NoFile]
            /\ UNCHANGED <<pc, cur, job, forfeited>>
        BY <2>3 DEF ReapRelease, Unlink
      <3>2. Entitled(e, u)
        BY <3>1
      <3>3. ~Entitled(d, t)
        BY <3>1
      <3>4. PendingUnlink(d, t)
        BY <3>1
      <3>5. ASSUME u = t PROVE FALSE
        <4>1. e = d
          BY <3>2, <3>4, <3>5
        <4> QED
          BY <3>2, <3>3, <3>5, <4>1
      <3> QED
        BY <3>1, <3>2, <3>5
    <2>4. CASE ReapCorrupt(d)
      <3> SUFFICES ASSUME NEW u \in Task, NEW e \in Daemon, Entitled(e, u)'
                   PROVE  lease'[u].by = e
        BY DEF LeaseBacksOwner
      <3>1. /\ pc[d] = "corrupt" /\ cur[d] \in Task
            /\ lease' = [lease EXCEPT ![cur[d]] = NoFile]
            /\ pc' = [pc EXCEPT ![d] = "reap"]
            /\ UNCHANGED <<cur, job, forfeited>>
        BY <2>4 DEF ReapCorrupt, Unlink
      <3>2. Entitled(e, u)
        BY <3>1
      <3>3. ~Entitled(d, cur[d])
        BY <3>1
      <3>4. u # cur[d]
        BY <3>1, <3>2, <3>3
      <3> QED
        BY <3>1, <3>2, <3>4
    <2>5. CASE ReapDone(d)
      BY <2>5 DEF ReapDone
    <2> QED
      BY <1>1, <2>1, <2>2, <2>3, <2>4, <2>5 DEF Reaping
  <1>2. ASSUME NEW d \in Daemon, Start(d) PROVE LeaseBacksOwner'
    BY <1>2 DEF Start
  <1>3. ASSUME NEW d \in Daemon, Stop(d) PROVE LeaseBacksOwner'
    BY <1>3 DEF Stop
  <1>4. ASSUME NEW d \in Daemon, Stopping(d) PROVE LeaseBacksOwner'
    <2>1. ASSUME NEW t \in Task, StopCheck(d, t) PROVE LeaseBacksOwner'
      BY <2>1 DEF StopCheck
    <2>2. CASE StopUnlink(d)
      BY <2>2 DEF StopUnlink, Unlink
    <2>3. CASE StopDone(d)
      BY <2>3 DEF StopDone
    <2> QED
      BY <1>4, <2>1, <2>2, <2>3 DEF Stopping
  <1>5. ASSUME NEW d \in Daemon, Triggering(d) PROVE LeaseBacksOwner'
    <2>1. ASSUME NEW t \in Task, TriggerSkipped(d, t) PROVE LeaseBacksOwner'
      BY <2>1 DEF TriggerSkipped, Polls
    <2>2. ASSUME NEW t \in Task, ClaimOpen(d, t) PROVE LeaseBacksOwner'
      <3> SUFFICES ASSUME NEW u \in Task, NEW e \in Daemon, Entitled(e, u)'
                   PROVE  lease'[u].by = e
        BY DEF LeaseBacksOwner
      <3>1. /\ lease[t] = NoFile /\ pc[d] = "ready" /\ t \notin seen[d]
            /\ lease' = [lease EXCEPT ![t] = [by |-> d, data |-> "empty"]]
            /\ pc' = [pc EXCEPT ![d] = "claim"]
            /\ cur' = [cur EXCEPT ![d] = t]
            /\ UNCHANGED <<toFree, job>>
        BY <2>2 DEF ClaimOpen, Polls, OpenExclusive, Exists
      <3>2. forfeited' = forfeited \cup {<<d, t>>} \/ forfeited' = forfeited \ {<<d, t>>}
        BY <2>2 DEF ClaimOpen, Forfeit
      <3>3. CASE e = d /\ u = t
        BY <3>1, <3>3
      <3>4. CASE ~(e = d /\ u = t)
        <4>1. <<e, u>> \notin forfeited
          BY <3>2, <3>4
        <4>2. e # d \/ Executing(e, u)
          BY <3>1, <3>4
        <4>3. Entitled(e, u)
          BY <3>1, <4>1, <4>2
        <4>4. lease[u].by = e
          BY <4>3
        <4>5. u # t
          BY <3>1, <4>4
        <4> QED
          BY <3>1, <4>4, <4>5
      <3> QED
        BY <3>3, <3>4
    <2>3. CASE ClaimWrite(d)
      BY <2>3 DEF ClaimWrite, WriteLease
    <2>4. CASE ClaimFails(d)
      BY <2>4 DEF ClaimFails, Unlink
    <2> QED
      BY <1>5, <2>1, <2>2, <2>3, <2>4 DEF Triggering
  <1>6. ASSUME NEW d \in Daemon, NEW t \in Task, Looping(d, t) PROVE LeaseBacksOwner'
    <2>1. CASE GateApproved(d, t)
      BY <2>1 DEF GateApproved, Advance
    <2>2. CASE GateDenied(d, t)
      BY <2>2 DEF GateDenied, Advance
    <2>3. ASSUME NEW v \in Verdict, LoopReturns(d, t, v) PROVE LeaseBacksOwner'
      BY <2>3 DEF LoopReturns, Advance
    <2>4. CASE LoopThrows(d, t)
      BY <2>4 DEF LoopThrows, Advance
    <2>5. CASE BlockedAcked(d, t)
      BY <2>5 DEF BlockedAcked, Advance
    <2>6. CASE Finish(d, t)
      BY <2>6 DEF Finish, Advance
    <2>7. CASE ReleaseCheck(d, t)
      <3>1. CASE HeldBy(t, d)
        <4>1. /\ pc[d] = "ready" /\ job[d][t] \in {"release", "releaseTwice"}
              /\ pc' = [pc EXCEPT ![d] = "unlink"]
              /\ cur' = [cur EXCEPT ![d] = t]
              /\ UNCHANGED <<lease, toRead, toFree, stopped, seen, running, job, envVars, forfeited>>
          BY <2>7, <3>1 DEF ReleaseCheck, Released
        <4> QED
          BY <4>1
      <3>2. CASE ~HeldBy(t, d)
        <4>1. /\ pc[d] = "ready" /\ job[d][t] \in {"release", "releaseTwice"}
              /\ job' = [job EXCEPT ![d][t] = IF @ = "releaseTwice" THEN "release" ELSE "none"]
              /\ running' = [running EXCEPT ![d] = @ \ {t}]
              /\ UNCHANGED <<pc, cur, lease, toRead, toFree, stopped, seen, envVars, forfeited>>
          BY <2>7, <3>2 DEF ReleaseCheck, Released
        <4> QED
          BY <4>1
      <3> QED
        BY <3>1, <3>2
    <2> QED
      BY <1>6, <2>1, <2>2, <2>3, <2>4, <2>5, <2>6, <2>7 DEF Looping, Handling, RunEnds
  <1>7. ASSUME NEW d \in Daemon, ReleaseUnlink(d) PROVE LeaseBacksOwner'
    BY <1>7 DEF ReleaseUnlink, Unlink, Released
  <1>8. ASSUME NEW d \in Daemon, Crash(d) PROVE LeaseBacksOwner'
    BY <1>8 DEF Crash
  <1>9. CASE Environment
    <2>1. ASSUME NEW t \in Task, TaskAppears(t) PROVE LeaseBacksOwner'
      BY <2>1 DEF TaskAppears
    <2>2. ASSUME NEW t \in Task, HumanApproves(t) PROVE LeaseBacksOwner'
      BY <2>2 DEF HumanApproves
    <2>3. ASSUME NEW t \in Task, LeaseExpires(t) PROVE LeaseBacksOwner'
      BY <2>3 DEF LeaseExpires, Expire, Forfeit
    <2> QED
      BY <1>9, <2>1, <2>2, <2>3 DEF Environment
  <1>10. CASE UNCHANGED vars
    BY <1>10 DEF vars
  <1> QED
    BY <1>1, <1>2, <1>3, <1>4, <1>5, <1>6, <1>7, <1>8, <1>9, <1>10 DEF Next

(* No process comes to unlink the lease file of an entitled daemon.        *)
LEMMA UnlinkIsSafeStep ==
  DistinctIds /\ IInv /\ [Next]_vars => UnlinkIsSafe'
  <1> SUFFICES ASSUME DistinctIds, IInv, [Next]_vars PROVE UnlinkIsSafe'
    OBVIOUS
  <1> USE NoDaemonAssumption
      DEF IInv, TypeOK, LeaseBacksOwner, SectionsConsistent, UnlinkIsSafe, LeaseTypeOK, LeaseFile,
          LeaseData, NoFile, Entitled, Executing, Claiming, PendingUnlink, Unlinking, Working,
          Verdict, procVars, envVars
  <1>1. ASSUME NEW d \in Daemon, Reaping(d) PROVE UnlinkIsSafe'
    <2>1. CASE Construct(d)
      BY <2>1 DEF Construct
    <2>2. ASSUME NEW t \in Task, ReapRead(d, t) PROVE UnlinkIsSafe'
      <3> SUFFICES ASSUME NEW u \in Task, NEW e \in Daemon, NEW o \in Daemon,
                          PendingUnlink(e, u)', Entitled(o, u)'
                   PROVE  o = e
        BY DEF UnlinkIsSafe
      <3>1. /\ pc[d] = "reap"
            /\ UNCHANGED <<lease, job>>
        BY <2>2 DEF ReapRead
      <3>2. /\ forfeited \subseteq forfeited'
            /\ (pc' = pc /\ cur' = cur) \/ (pc' = [pc EXCEPT ![d] = "corrupt"] /\ cur' = [cur EXCEPT ![d] = t])
        BY <2>2 DEF ReapRead, Forfeit
      <3>3. Entitled(o, u)
        BY <3>1, <3>2
      <3>4. lease[u].by = o
        BY <3>3
      <3>5. CASE PendingUnlink(e, u)
        BY <3>3, <3>5
      <3>6. CASE ~PendingUnlink(e, u)
        <4>1. e = d /\ u = t
          BY <2>2, <3>6 DEF ReapRead
        <4>2. CASE Readable(t)
          <5>1. lease[t].data = "expired"
            BY <2>2, <3>6, <4>1, <4>2 DEF ReapRead
          <5> QED
            BY <3>3, <3>4, <4>1, <5>1 DEF ExpiredIsForfeited
        <4>3. CASE ~Readable(t)
          <5>1. Exists(t)
            BY <3>4, <4>1 DEF Exists
          <5>2. <<lease[t].by, t>> \in forfeited'
            BY <2>2, <4>3, <5>1 DEF ReapRead, Forfeit
          <5> QED
            BY <3>4, <4>1, <5>2
        <4> QED
          BY <4>2, <4>3
      <3> QED
        BY <3>5, <3>6
    <2>3. ASSUME NEW t \in Task, ReapRelease(d, t) PROVE UnlinkIsSafe'
      BY <2>3 DEF ReapRelease, Unlink
    <2>4. CASE ReapCorrupt(d)
      BY <2>4 DEF ReapCorrupt, Unlink
    <2>5. CASE ReapDone(d)
      BY <2>5 DEF ReapDone
    <2> QED
      BY <1>1, <2>1, <2>2, <2>3, <2>4, <2>5 DEF Reaping
  <1>2. ASSUME NEW d \in Daemon, Start(d) PROVE UnlinkIsSafe'
    BY <1>2 DEF Start
  <1>3. ASSUME NEW d \in Daemon, Stop(d) PROVE UnlinkIsSafe'
    BY <1>3 DEF Stop
  <1>4. ASSUME NEW d \in Daemon, Stopping(d) PROVE UnlinkIsSafe'
    <2>1. ASSUME NEW t \in Task, StopCheck(d, t) PROVE UnlinkIsSafe'
      <3> SUFFICES ASSUME NEW u \in Task, NEW e \in Daemon, NEW o \in Daemon,
                          PendingUnlink(e, u)', Entitled(o, u)'
                   PROVE  o = e
        BY DEF UnlinkIsSafe
      <3>1. CASE HeldBy(t, d)
        <4>1. /\ pc[d] = "stopping" /\ t \in running[d]
              /\ pc' = [pc EXCEPT ![d] = "stopUnlink"]
              /\ cur' = [cur EXCEPT ![d] = t]
              /\ UNCHANGED <<lease, toRead, toFree, job, forfeited>>
          BY <2>1, <3>1 DEF StopCheck
        <4>2. Entitled(o, u)
          BY <4>1
        <4>3. CASE e = d /\ u = t
          <5>1. lease[t].by = o
            BY <4>2, <4>3
          <5>2. AgentId[o] = AgentId[d]
            BY <3>1, <5>1 DEF HeldBy
          <5> QED
            BY <4>3, <5>2 DEF DistinctIds
        <4>4. CASE ~(e = d /\ u = t)
          <5>1. PendingUnlink(e, u)
            BY <4>1, <4>4
          <5> QED
            BY <4>2, <5>1
        <4> QED
          BY <4>3, <4>4
      <3>2. CASE ~HeldBy(t, d)
        <4>1. /\ UNCHANGED <<pc, cur, lease, toRead, toFree, job, forfeited>>
          BY <2>1, <3>2 DEF StopCheck
        <4> QED
          BY <4>1
      <3> QED
        BY <3>1, <3>2
    <2>2. CASE StopUnlink(d)
      BY <2>2 DEF StopUnlink, Unlink
    <2>3. CASE StopDone(d)
      BY <2>3 DEF StopDone
    <2> QED
      BY <1>4, <2>1, <2>2, <2>3 DEF Stopping
  <1>5. ASSUME NEW d \in Daemon, Triggering(d) PROVE UnlinkIsSafe'
    <2>1. ASSUME NEW t \in Task, TriggerSkipped(d, t) PROVE UnlinkIsSafe'
      BY <2>1 DEF TriggerSkipped, Polls
    <2>2. ASSUME NEW t \in Task, ClaimOpen(d, t) PROVE UnlinkIsSafe'
      <3> SUFFICES ASSUME NEW u \in Task, NEW e \in Daemon, NEW o \in Daemon,
                          PendingUnlink(e, u)', Entitled(o, u)'
                   PROVE  o = e
        BY DEF UnlinkIsSafe
      <3>1. /\ lease[t] = NoFile /\ pc[d] = "ready" /\ t \notin seen[d]
            /\ lease' = [lease EXCEPT ![t] = [by |-> d, data |-> "empty"]]
            /\ pc' = [pc EXCEPT ![d] = "claim"]
            /\ cur' = [cur EXCEPT ![d] = t]
            /\ UNCHANGED <<toFree, job>>
        BY <2>2 DEF ClaimOpen, Polls, OpenExclusive, Exists
      <3>2. forfeited' = forfeited \cup {<<d, t>>} \/ forfeited' = forfeited \ {<<d, t>>}
        BY <2>2 DEF ClaimOpen, Forfeit
      <3>3. CASE o = d /\ u = t
        <4>1. CASE e = d
          BY <3>3, <4>1
        <4>2. CASE e # d
          <5>1. PendingUnlink(e, t)
            BY <3>1, <3>3, <4>2
          <5>2. forfeited' = forfeited \cup {<<d, t>>}
            BY <2>2, <4>2, <5>1 DEF ClaimOpen, Forfeit
          <5> QED
            BY <3>3, <5>2
        <4> QED
          BY <4>1, <4>2
      <3>4. CASE ~(o = d /\ u = t)
        <4>1. <<o, u>> \notin forfeited
          BY <3>2, <3>4
        <4>2. o # d \/ Executing(o, u)
          BY <3>1, <3>4
        <4>3. Entitled(o, u)
          BY <3>1, <4>1, <4>2
        <4>4. lease[u].by = o
          BY <4>3
        <4>5. u # t
          BY <3>1, <4>4
        <4>6. PendingUnlink(e, u)
          BY <3>1, <4>5
        <4> QED
          BY <4>3, <4>6
      <3> QED
        BY <3>3, <3>4
    <2>3. CASE ClaimWrite(d)
      BY <2>3 DEF ClaimWrite, WriteLease
    <2>4. CASE ClaimFails(d)
      BY <2>4 DEF ClaimFails, Unlink
    <2> QED
      BY <1>5, <2>1, <2>2, <2>3, <2>4 DEF Triggering
  <1>6. ASSUME NEW d \in Daemon, NEW t \in Task, Looping(d, t) PROVE UnlinkIsSafe'
    <2>1. CASE GateApproved(d, t)
      BY <2>1 DEF GateApproved, Advance
    <2>2. CASE GateDenied(d, t)
      BY <2>2 DEF GateDenied, Advance
    <2>3. ASSUME NEW v \in Verdict, LoopReturns(d, t, v) PROVE UnlinkIsSafe'
      BY <2>3 DEF LoopReturns, Advance
    <2>4. CASE LoopThrows(d, t)
      BY <2>4 DEF LoopThrows, Advance
    <2>5. CASE BlockedAcked(d, t)
      BY <2>5 DEF BlockedAcked, Advance
    <2>6. CASE Finish(d, t)
      BY <2>6 DEF Finish, Advance
    <2>7. CASE ReleaseCheck(d, t)
      <3> SUFFICES ASSUME NEW u \in Task, NEW e \in Daemon, NEW o \in Daemon,
                          PendingUnlink(e, u)', Entitled(o, u)'
                   PROVE  o = e
        BY DEF UnlinkIsSafe
      <3>1. CASE HeldBy(t, d)
        <4>1. /\ pc[d] = "ready" /\ job[d][t] \in {"release", "releaseTwice"}
              /\ pc' = [pc EXCEPT ![d] = "unlink"]
              /\ cur' = [cur EXCEPT ![d] = t]
              /\ UNCHANGED <<lease, toRead, toFree, job, forfeited>>
          BY <2>7, <3>1 DEF ReleaseCheck, Released
        <4>2. Entitled(o, u)
          BY <4>1
        <4>3. CASE e = d /\ u = t
          <5>1. lease[t].by = o
            BY <4>2, <4>3
          <5>2. AgentId[o] = AgentId[d]
            BY <3>1, <5>1 DEF HeldBy
          <5> QED
            BY <4>3, <5>2 DEF DistinctIds
        <4>4. CASE ~(e = d /\ u = t)
          <5>1. PendingUnlink(e, u)
            BY <4>1, <4>4
          <5> QED
            BY <4>2, <5>1
        <4> QED
          BY <4>3, <4>4
      <3>2. CASE ~HeldBy(t, d)
        <4>1. /\ pc[d] = "ready" /\ job[d][t] \in {"release", "releaseTwice"}
              /\ job' = [job EXCEPT ![d][t] = IF @ = "releaseTwice" THEN "release" ELSE "none"]
              /\ UNCHANGED <<pc, cur, lease, toRead, toFree, forfeited>>
          BY <2>7, <3>2 DEF ReleaseCheck, Released
        <4> QED
          BY <4>1
      <3> QED
        BY <3>1, <3>2
    <2> QED
      BY <1>6, <2>1, <2>2, <2>3, <2>4, <2>5, <2>6, <2>7 DEF Looping, Handling, RunEnds
  <1>7. ASSUME NEW d \in Daemon, ReleaseUnlink(d) PROVE UnlinkIsSafe'
    BY <1>7 DEF ReleaseUnlink, Unlink, Released
  <1>8. ASSUME NEW d \in Daemon, Crash(d) PROVE UnlinkIsSafe'
    BY <1>8 DEF Crash
  <1>9. CASE Environment
    <2>1. ASSUME NEW t \in Task, TaskAppears(t) PROVE UnlinkIsSafe'
      BY <2>1 DEF TaskAppears
    <2>2. ASSUME NEW t \in Task, HumanApproves(t) PROVE UnlinkIsSafe'
      BY <2>2 DEF HumanApproves
    <2>3. ASSUME NEW t \in Task, LeaseExpires(t) PROVE UnlinkIsSafe'
      BY <2>3 DEF LeaseExpires, Expire, Forfeit
    <2> QED
      BY <1>9, <2>1, <2>2, <2>3 DEF Environment
  <1>10. CASE UNCHANGED vars
    BY <1>10 DEF vars
  <1> QED
    BY <1>1, <1>2, <1>3, <1>4, <1>5, <1>6, <1>7, <1>8, <1>9, <1>10 DEF Next

(* IInv holds initially and is preserved by every step.                    *)
LEMMA IInvInit == Init => IInv
  <1> SUFFICES ASSUME Init PROVE IInv
    OBVIOUS
  <1>1. TypeOK
    BY TypeOKInit
  <1> QED
    BY <1>1, NoDaemonAssumption
    DEF Init, IInv, LeaseInit, NoFile, LeaseBacksOwner, UnlinkIsSafe, ExpiredIsForfeited,
        SectionsConsistent, Entitled, Executing, Claiming, Working, Verdict

LEMMA IInvStep ==
  ASSUME DistinctIds PROVE IInv /\ [Next]_vars => IInv'
  <1> SUFFICES ASSUME IInv, [Next]_vars PROVE IInv'
    OBVIOUS
  <1>1. TypeOK'
    BY TypeOKStep DEF IInv
  <1>2. SectionsConsistent'
    BY SectionsStep DEF IInv
  <1>3. ExpiredIsForfeited'
    BY ExpiredStep DEF IInv
  <1>4. LeaseBacksOwner'
    BY LeaseBacksOwnerStep
  <1>5. UnlinkIsSafe'
    BY UnlinkIsSafeStep
  <1> QED
    BY <1>1, <1>2, <1>3, <1>4, <1>5 DEF IInv

LEMMA IInvImpliesExclusive == IInv => Exclusive
  BY DEF IInv, LeaseBacksOwner, Exclusive

(* When no two processes share a worker id, the inductive invariant holds. *)
THEOREM Invariance == ASSUME DistinctIds PROVE Spec => []IInv
  BY IInvInit, IInvStep, PTL DEF Spec

(* When no two processes share a worker id, a second daemon runs a task    *)
(* only if the first outlived its TTL, was stopped, or lost its file to a  *)
(* claim that fell between a check and an unlink.                          *)
THEOREM ExclusiveOwnership == ASSUME DistinctIds PROVE Spec => []Exclusive
  BY Invariance, IInvImpliesExclusive, PTL

(* ...and whatever is about to unlink a lease file, its creator is no      *)
(* longer entitled to the task.                                            *)
THEOREM UnlinksAreSafe == ASSUME DistinctIds PROVE Spec => []UnlinkIsSafe
  <1>1. IInv => UnlinkIsSafe
    BY DEF IInv
  <1> QED
    BY <1>1, Invariance, PTL

----------------------------------------------------------------------------
(* No execution of a gated task gets past the gate without an approval.    *)
LEMMA GateStep ==
  TypeOK /\ GateHolds /\ [Next]_vars => GateHolds'
  <1> SUFFICES ASSUME TypeOK, GateHolds, [Next]_vars PROVE GateHolds'
    OBVIOUS
  <1> USE DEF TypeOK, GateHolds, Verdict, procVars, envVars, Gated, EffectivePolicy
  <1>1. ASSUME NEW d \in Daemon, Reaping(d) PROVE GateHolds'
    <2>1. CASE Construct(d)
      BY <2>1 DEF Construct
    <2>2. ASSUME NEW t \in Task, ReapRead(d, t) PROVE GateHolds'
      BY <2>2 DEF ReapRead, Forfeit
    <2>3. ASSUME NEW t \in Task, ReapRelease(d, t) PROVE GateHolds'
      BY <2>3 DEF ReapRelease, Unlink
    <2>4. CASE ReapCorrupt(d)
      BY <2>4 DEF ReapCorrupt, Unlink
    <2>5. CASE ReapDone(d)
      BY <2>5 DEF ReapDone
    <2> QED
      BY <1>1, <2>1, <2>2, <2>3, <2>4, <2>5 DEF Reaping
  <1>2. ASSUME NEW d \in Daemon, Start(d) PROVE GateHolds'
    BY <1>2 DEF Start
  <1>3. ASSUME NEW d \in Daemon, Stop(d) PROVE GateHolds'
    BY <1>3 DEF Stop
  <1>4. ASSUME NEW d \in Daemon, Stopping(d) PROVE GateHolds'
    <2>1. ASSUME NEW t \in Task, StopCheck(d, t) PROVE GateHolds'
      BY <2>1 DEF StopCheck
    <2>2. CASE StopUnlink(d)
      BY <2>2 DEF StopUnlink, Unlink
    <2>3. CASE StopDone(d)
      BY <2>3 DEF StopDone
    <2> QED
      BY <1>4, <2>1, <2>2, <2>3 DEF Stopping
  <1>5. ASSUME NEW d \in Daemon, Triggering(d) PROVE GateHolds'
    <2>1. ASSUME NEW t \in Task, TriggerSkipped(d, t) PROVE GateHolds'
      BY <2>1 DEF TriggerSkipped, Polls
    <2>2. ASSUME NEW t \in Task, ClaimOpen(d, t) PROVE GateHolds'
      BY <2>2 DEF ClaimOpen, Polls, OpenExclusive, Forfeit
    <2>3. CASE ClaimWrite(d)
      BY <2>3 DEF ClaimWrite, WriteLease
    <2>4. CASE ClaimFails(d)
      BY <2>4 DEF ClaimFails, Unlink
    <2> QED
      BY <1>5, <2>1, <2>2, <2>3, <2>4 DEF Triggering
  <1>6. ASSUME NEW d \in Daemon, NEW t \in Task, Looping(d, t) PROVE GateHolds'
    <2>1. CASE GateApproved(d, t)
      BY <2>1 DEF GateApproved, Advance
    <2>2. CASE GateDenied(d, t)
      BY <2>2 DEF GateDenied, Advance
    <2>3. ASSUME NEW v \in Verdict, LoopReturns(d, t, v) PROVE GateHolds'
      BY <2>3 DEF LoopReturns, Advance
    <2>4. CASE LoopThrows(d, t)
      BY <2>4 DEF LoopThrows, Advance
    <2>5. CASE BlockedAcked(d, t)
      BY <2>5 DEF BlockedAcked, Advance
    <2>6. CASE Finish(d, t)
      BY <2>6 DEF Finish, Advance
    <2>7. CASE ReleaseCheck(d, t)
      <3>1. CASE HeldBy(t, d)
        <4>1. /\ UNCHANGED <<job, acked>>
          BY <2>7, <3>1 DEF ReleaseCheck, Released, envVars
        <4> QED
          BY <4>1
      <3>2. CASE ~HeldBy(t, d)
        <4>1. /\ job[d][t] \in {"release", "releaseTwice"}
              /\ job' = [job EXCEPT ![d][t] = IF @ = "releaseTwice" THEN "release" ELSE "none"]
              /\ UNCHANGED acked
          BY <2>7, <3>2 DEF ReleaseCheck, Released, envVars
        <4> QED
          BY <4>1
      <3> QED
        BY <3>1, <3>2
    <2> QED
      BY <1>6, <2>1, <2>2, <2>3, <2>4, <2>5, <2>6, <2>7 DEF Looping, Handling, RunEnds
  <1>7. ASSUME NEW d \in Daemon, ReleaseUnlink(d) PROVE GateHolds'
    BY <1>7 DEF ReleaseUnlink, Unlink, Released
  <1>8. ASSUME NEW d \in Daemon, Crash(d) PROVE GateHolds'
    BY <1>8 DEF Crash
  <1>9. CASE Environment
    <2>1. ASSUME NEW t \in Task, TaskAppears(t) PROVE GateHolds'
      BY <2>1 DEF TaskAppears
    <2>2. ASSUME NEW t \in Task, HumanApproves(t) PROVE GateHolds'
      BY <2>2 DEF HumanApproves
    <2>3. ASSUME NEW t \in Task, LeaseExpires(t) PROVE GateHolds'
      BY <2>3 DEF LeaseExpires, Expire, Forfeit
    <2> QED
      BY <1>9, <2>1, <2>2, <2>3 DEF Environment
  <1>10. CASE UNCHANGED vars
    BY <1>10 DEF vars
  <1> QED
    BY <1>1, <1>2, <1>3, <1>4, <1>5, <1>6, <1>7, <1>8, <1>9, <1>10 DEF Next

(* For every policy and class, and whoever shares a worker id.             *)
THEOREM GateCorrect == Spec => []GateHolds
  <1>1. Init => GateHolds
    BY DEF Init, GateHolds, Verdict
  <1> QED
    BY <1>1, TypeCorrect, GateStep, PTL DEF Spec

----------------------------------------------------------------------------
(* Refinement.  A step leaves every entitlement as it is, or takes some    *)
(* from a single daemon, or gives one daemon a task nobody was entitled to.*)
Unmoved == \A e \in Daemon, u \in Task : Entitled(e, u)' <=> Entitled(e, u)

Loses(d) ==
  \A e \in Daemon, u \in Task :
    /\ Entitled(e, u)' => Entitled(e, u)
    /\ Entitled(e, u) /\ e # d => Entitled(e, u)'

Gains(d, t) ==
  /\ \A e \in Daemon : ~Entitled(e, t)
  /\ \A e \in Daemon, u \in Task :
       Entitled(e, u)' <=> Entitled(e, u) \/ (e = d /\ u = t)

Shifts ==
  \/ Unmoved
  \/ \E d \in Daemon : Loses(d)
  \/ \E d \in Daemon, t \in Task : Gains(d, t)

(* Every step of the daemons shifts entitlements in one of those ways.     *)
LEMMA EntitlementStep == IInv /\ [Next]_vars => Shifts
  <1> SUFFICES ASSUME IInv, [Next]_vars PROVE Shifts
    OBVIOUS
  <1> USE NoDaemonAssumption
      DEF IInv, TypeOK, SectionsConsistent, LeaseTypeOK, LeaseFile, LeaseData, NoFile, Unlinking, Working, Verdict, procVars, envVars
  <1>1. ASSUME NEW d \in Daemon, Reaping(d) PROVE Shifts
    <2>1. CASE Construct(d)
      <3>1. Unmoved
        <4> SUFFICES ASSUME NEW e \in Daemon, NEW u \in Task PROVE Entitled(e, u)' <=> Entitled(e, u)
          BY DEF Unmoved
        <4> QED
          BY <2>1 DEF Entitled, Executing, Claiming, Construct
      <3> QED
        BY <3>1 DEF Shifts
    <2>2. ASSUME NEW t \in Task, ReapRead(d, t) PROVE Shifts
      <3>1. /\ pc[d] = "reap" /\ UNCHANGED job
            /\ \/ UNCHANGED <<pc, cur>>
               \/ pc' = [pc EXCEPT ![d] = "corrupt"] /\ cur' = [cur EXCEPT ![d] = t]
        BY <2>2 DEF ReapRead
      <3>2. CASE UNCHANGED forfeited
        <4>1. Unmoved
          <5> SUFFICES ASSUME NEW e \in Daemon, NEW u \in Task PROVE Entitled(e, u)' <=> Entitled(e, u)
            BY DEF Unmoved
          <5> QED
            BY <3>1, <3>2 DEF Entitled, Executing, Claiming
        <4> QED
          BY <4>1 DEF Shifts
      <3>3. CASE ~UNCHANGED forfeited
        <4>0. /\ lease[t].by \in Daemon
              /\ forfeited' = forfeited \cup {<<lease[t].by, t>>}
          BY <2>2, <3>3 DEF ReapRead, Forfeit, Exists
        <4>1. PICK x \in Daemon : forfeited' = forfeited \cup {<<x, t>>}
          BY <4>0
        <4>2. Loses(x)
          <5> SUFFICES ASSUME NEW e \in Daemon, NEW u \in Task
                       PROVE  /\ Entitled(e, u)' => Entitled(e, u)
                              /\ Entitled(e, u) /\ e # x => Entitled(e, u)'
            BY DEF Loses
          <5> QED
            BY <3>1, <4>1 DEF Entitled, Executing, Claiming
        <4> QED
          BY <4>1, <4>2 DEF Shifts
      <3> QED
        BY <3>2, <3>3
    <2>3. ASSUME NEW t \in Task, ReapRelease(d, t) PROVE Shifts
      <3>1. Unmoved
        <4> SUFFICES ASSUME NEW e \in Daemon, NEW u \in Task PROVE Entitled(e, u)' <=> Entitled(e, u)
          BY DEF Unmoved
        <4> QED
          BY <2>3 DEF Entitled, Executing, Claiming, ReapRelease, Unlink
      <3> QED
        BY <3>1 DEF Shifts
    <2>4. CASE ReapCorrupt(d)
      <3>1. Unmoved
        <4> SUFFICES ASSUME NEW e \in Daemon, NEW u \in Task PROVE Entitled(e, u)' <=> Entitled(e, u)
          BY DEF Unmoved
        <4> QED
          BY <2>4 DEF Entitled, Executing, Claiming, ReapCorrupt, Unlink
      <3> QED
        BY <3>1 DEF Shifts
    <2>5. CASE ReapDone(d)
      <3>1. Unmoved
        <4> SUFFICES ASSUME NEW e \in Daemon, NEW u \in Task PROVE Entitled(e, u)' <=> Entitled(e, u)
          BY DEF Unmoved
        <4> QED
          BY <2>5 DEF Entitled, Executing, Claiming, ReapDone
      <3> QED
        BY <3>1 DEF Shifts
    <2> QED
      BY <1>1, <2>1, <2>2, <2>3, <2>4, <2>5 DEF Reaping
  <1>2. ASSUME NEW d \in Daemon, Start(d) PROVE Shifts
    <2>1. Unmoved
      <3> SUFFICES ASSUME NEW e \in Daemon, NEW u \in Task PROVE Entitled(e, u)' <=> Entitled(e, u)
        BY DEF Unmoved
      <3> QED
        BY <1>2 DEF Entitled, Executing, Claiming, Start
    <2> QED
      BY <2>1 DEF Shifts
  <1>3. ASSUME NEW d \in Daemon, Stop(d) PROVE Shifts
    <2>1. Loses(d)
      <3> SUFFICES ASSUME NEW e \in Daemon, NEW u \in Task
                   PROVE  /\ Entitled(e, u)' => Entitled(e, u)
                          /\ Entitled(e, u) /\ e # d => Entitled(e, u)'
        BY DEF Loses
      <3> QED
        BY <1>3 DEF Entitled, Executing, Claiming, Stop
    <2> QED
      BY <2>1 DEF Shifts
  <1>4. ASSUME NEW d \in Daemon, Stopping(d) PROVE Shifts
    <2>1. ASSUME NEW t \in Task, StopCheck(d, t) PROVE Shifts
      <3>1. Loses(d)
        <4> SUFFICES ASSUME NEW e \in Daemon, NEW u \in Task
                     PROVE  /\ Entitled(e, u)' => Entitled(e, u)
                            /\ Entitled(e, u) /\ e # d => Entitled(e, u)'
          BY DEF Loses
        <4> QED
          BY <2>1 DEF Entitled, Executing, Claiming, StopCheck
      <3> QED
        BY <3>1 DEF Shifts
    <2>2. CASE StopUnlink(d)
      <3>1. Unmoved
        <4> SUFFICES ASSUME NEW e \in Daemon, NEW u \in Task PROVE Entitled(e, u)' <=> Entitled(e, u)
          BY DEF Unmoved
        <4> QED
          BY <2>2 DEF Entitled, Executing, Claiming, StopUnlink, Unlink
      <3> QED
        BY <3>1 DEF Shifts
    <2>3. CASE StopDone(d)
      <3>1. Unmoved
        <4> SUFFICES ASSUME NEW e \in Daemon, NEW u \in Task PROVE Entitled(e, u)' <=> Entitled(e, u)
          BY DEF Unmoved
        <4> QED
          BY <2>3 DEF Entitled, Executing, Claiming, StopDone
      <3> QED
        BY <3>1 DEF Shifts
    <2> QED
      BY <1>4, <2>1, <2>2, <2>3 DEF Stopping
  <1>5. ASSUME NEW d \in Daemon, Triggering(d) PROVE Shifts
    <2>1. ASSUME NEW t \in Task, TriggerSkipped(d, t) PROVE Shifts
      <3>1. Unmoved
        <4> SUFFICES ASSUME NEW e \in Daemon, NEW u \in Task PROVE Entitled(e, u)' <=> Entitled(e, u)
          BY DEF Unmoved
        <4> QED
          BY <2>1 DEF Entitled, Executing, Claiming, TriggerSkipped, Polls
      <3> QED
        BY <3>1 DEF Shifts
    <2>2. ASSUME NEW t \in Task, ClaimOpen(d, t) PROVE Shifts
      <3>1. /\ lease[t] = NoFile /\ pc[d] = "ready" /\ t \notin seen[d]
            /\ lease' = [lease EXCEPT ![t] = [by |-> d, data |-> "empty"]]
            /\ pc' = [pc EXCEPT ![d] = "claim"]
            /\ cur' = [cur EXCEPT ![d] = t]
            /\ UNCHANGED <<toFree, job>>
        BY <2>2 DEF ClaimOpen, Polls, OpenExclusive, Exists
      <3>2. forfeited' = forfeited \cup {<<d, t>>} \/ forfeited' = forfeited \ {<<d, t>>}
        BY <2>2 DEF ClaimOpen, Forfeit
      <3>3. \A e \in Daemon : ~Entitled(e, t)
        BY <3>1 DEF LeaseBacksOwner
      <3>4. CASE <<d, t>> \notin forfeited'
        <4>1. ASSUME NEW e \in Daemon, NEW u \in Task
              PROVE  Entitled(e, u)' <=> Entitled(e, u) \/ (e = d /\ u = t)
          BY <3>1, <3>2, <3>4 DEF Entitled, Executing, Claiming
        <4>2. Gains(d, t)
          BY <3>3, <4>1 DEF Gains
        <4> QED
          BY <4>2 DEF Shifts
      <3>5. CASE <<d, t>> \in forfeited'
        <4>1. forfeited' = forfeited \cup {<<d, t>>}
          BY <3>2, <3>5
        <4>2. Loses(d)
          <5> SUFFICES ASSUME NEW e \in Daemon, NEW u \in Task
                       PROVE  /\ Entitled(e, u)' => Entitled(e, u)
                              /\ Entitled(e, u) /\ e # d => Entitled(e, u)'
            BY DEF Loses
          <5> QED
            BY <3>1, <4>1 DEF Entitled, Executing, Claiming
        <4> QED
          BY <4>2 DEF Shifts
      <3> QED
        BY <3>4, <3>5
    <2>3. CASE ClaimWrite(d)
      <3>1. Loses(d)
        <4> SUFFICES ASSUME NEW e \in Daemon, NEW u \in Task
                     PROVE  /\ Entitled(e, u)' => Entitled(e, u)
                            /\ Entitled(e, u) /\ e # d => Entitled(e, u)'
          BY DEF Loses
        <4> QED
          BY <2>3 DEF Entitled, Executing, Claiming, ClaimWrite, WriteLease
      <3> QED
        BY <3>1 DEF Shifts
    <2>4. CASE ClaimFails(d)
      <3>1. Loses(d)
        <4> SUFFICES ASSUME NEW e \in Daemon, NEW u \in Task
                     PROVE  /\ Entitled(e, u)' => Entitled(e, u)
                            /\ Entitled(e, u) /\ e # d => Entitled(e, u)'
          BY DEF Loses
        <4> QED
          BY <2>4 DEF Entitled, Executing, Claiming, ClaimFails, Unlink
      <3> QED
        BY <3>1 DEF Shifts
    <2> QED
      BY <1>5, <2>1, <2>2, <2>3, <2>4 DEF Triggering
  <1>6. ASSUME NEW d \in Daemon, NEW t \in Task, Looping(d, t) PROVE Shifts
    <2>1. CASE GateApproved(d, t)
      <3>1. Loses(d)
        <4> SUFFICES ASSUME NEW e \in Daemon, NEW u \in Task
                     PROVE  /\ Entitled(e, u)' => Entitled(e, u)
                            /\ Entitled(e, u) /\ e # d => Entitled(e, u)'
          BY DEF Loses
        <4> QED
          BY <2>1 DEF Entitled, Executing, Claiming, GateApproved, Advance
      <3> QED
        BY <3>1 DEF Shifts
    <2>2. CASE GateDenied(d, t)
      <3>1. Loses(d)
        <4> SUFFICES ASSUME NEW e \in Daemon, NEW u \in Task
                     PROVE  /\ Entitled(e, u)' => Entitled(e, u)
                            /\ Entitled(e, u) /\ e # d => Entitled(e, u)'
          BY DEF Loses
        <4> QED
          BY <2>2 DEF Entitled, Executing, Claiming, GateDenied, Advance
      <3> QED
        BY <3>1 DEF Shifts
    <2>3. ASSUME NEW v \in Verdict, LoopReturns(d, t, v) PROVE Shifts
      <3>1. Loses(d)
        <4> SUFFICES ASSUME NEW e \in Daemon, NEW u \in Task
                     PROVE  /\ Entitled(e, u)' => Entitled(e, u)
                            /\ Entitled(e, u) /\ e # d => Entitled(e, u)'
          BY DEF Loses
        <4> QED
          BY <2>3 DEF Entitled, Executing, Claiming, LoopReturns, Advance
      <3> QED
        BY <3>1 DEF Shifts
    <2>4. CASE LoopThrows(d, t)
      <3>1. Loses(d)
        <4> SUFFICES ASSUME NEW e \in Daemon, NEW u \in Task
                     PROVE  /\ Entitled(e, u)' => Entitled(e, u)
                            /\ Entitled(e, u) /\ e # d => Entitled(e, u)'
          BY DEF Loses
        <4> QED
          BY <2>4 DEF Entitled, Executing, Claiming, LoopThrows, Advance
      <3> QED
        BY <3>1 DEF Shifts
    <2>5. CASE BlockedAcked(d, t)
      <3>1. Loses(d)
        <4> SUFFICES ASSUME NEW e \in Daemon, NEW u \in Task
                     PROVE  /\ Entitled(e, u)' => Entitled(e, u)
                            /\ Entitled(e, u) /\ e # d => Entitled(e, u)'
          BY DEF Loses
        <4> QED
          BY <2>5 DEF Entitled, Executing, Claiming, BlockedAcked, Advance
      <3> QED
        BY <3>1 DEF Shifts
    <2>6. CASE Finish(d, t)
      <3>1. Loses(d)
        <4> SUFFICES ASSUME NEW e \in Daemon, NEW u \in Task
                     PROVE  /\ Entitled(e, u)' => Entitled(e, u)
                            /\ Entitled(e, u) /\ e # d => Entitled(e, u)'
          BY DEF Loses
        <4> QED
          BY <2>6 DEF Entitled, Executing, Claiming, Finish, Advance
      <3> QED
        BY <3>1 DEF Shifts
    <2>7. CASE ReleaseCheck(d, t)
      <3>1. CASE HeldBy(t, d)
        <4>1. /\ pc[d] = "ready" /\ job[d][t] \in {"release", "releaseTwice"}
              /\ pc' = [pc EXCEPT ![d] = "unlink"]
              /\ UNCHANGED <<job, forfeited>>
              /\ cur' = [cur EXCEPT ![d] = t]
          BY <2>7, <3>1 DEF ReleaseCheck, Released
        <4>2. Unmoved
          <5> SUFFICES ASSUME NEW e \in Daemon, NEW u \in Task PROVE Entitled(e, u)' <=> Entitled(e, u)
            BY DEF Unmoved
          <5> QED
            BY <4>1 DEF Entitled, Executing, Claiming
        <4> QED
          BY <4>2 DEF Shifts
      <3>2. CASE ~HeldBy(t, d)
        <4>1. /\ pc[d] = "ready" /\ job[d][t] \in {"release", "releaseTwice"}
              /\ job' = [job EXCEPT ![d][t] = IF @ = "releaseTwice" THEN "release" ELSE "none"]
              /\ UNCHANGED <<pc, cur, forfeited>>
          BY <2>7, <3>2 DEF ReleaseCheck, Released
        <4>2. Unmoved
          <5> SUFFICES ASSUME NEW e \in Daemon, NEW u \in Task PROVE Entitled(e, u)' <=> Entitled(e, u)
            BY DEF Unmoved
          <5> QED
            BY <4>1 DEF Entitled, Executing, Claiming
        <4> QED
          BY <4>2 DEF Shifts
      <3> QED
        BY <3>1, <3>2
    <2> QED
      BY <1>6, <2>1, <2>2, <2>3, <2>4, <2>5, <2>6, <2>7 DEF Looping, Handling, RunEnds
  <1>7. ASSUME NEW d \in Daemon, ReleaseUnlink(d) PROVE Shifts
    <2>1. Loses(d)
      <3> SUFFICES ASSUME NEW e \in Daemon, NEW u \in Task
                   PROVE  /\ Entitled(e, u)' => Entitled(e, u)
                          /\ Entitled(e, u) /\ e # d => Entitled(e, u)'
        BY DEF Loses
      <3> QED
        BY <1>7 DEF Entitled, Executing, Claiming, ReleaseUnlink, Unlink, Released
    <2> QED
      BY <2>1 DEF Shifts
  <1>8. ASSUME NEW d \in Daemon, Crash(d) PROVE Shifts
    <2>1. Loses(d)
      <3> SUFFICES ASSUME NEW e \in Daemon, NEW u \in Task
                   PROVE  /\ Entitled(e, u)' => Entitled(e, u)
                          /\ Entitled(e, u) /\ e # d => Entitled(e, u)'
        BY DEF Loses
      <3> QED
        BY <1>8 DEF Entitled, Executing, Claiming, Crash
    <2> QED
      BY <2>1 DEF Shifts
  <1>9. CASE Environment
    <2>1. ASSUME NEW t \in Task, TaskAppears(t) PROVE Shifts
      <3>1. Unmoved
        <4> SUFFICES ASSUME NEW e \in Daemon, NEW u \in Task PROVE Entitled(e, u)' <=> Entitled(e, u)
          BY DEF Unmoved
        <4> QED
          BY <2>1 DEF Entitled, Executing, Claiming, TaskAppears
      <3> QED
        BY <3>1 DEF Shifts
    <2>2. ASSUME NEW t \in Task, HumanApproves(t) PROVE Shifts
      <3>1. Unmoved
        <4> SUFFICES ASSUME NEW e \in Daemon, NEW u \in Task PROVE Entitled(e, u)' <=> Entitled(e, u)
          BY DEF Unmoved
        <4> QED
          BY <2>2 DEF Entitled, Executing, Claiming, HumanApproves
      <3> QED
        BY <3>1 DEF Shifts
    <2>3. ASSUME NEW t \in Task, LeaseExpires(t) PROVE Shifts
      <3>0. /\ lease[t].by \in Daemon
            /\ forfeited' = forfeited \cup {<<lease[t].by, t>>}
            /\ UNCHANGED <<pc, cur, job>>
        BY <2>3 DEF LeaseExpires, Expire, Forfeit
      <3>1. PICK x \in Daemon :
              /\ forfeited' = forfeited \cup {<<x, t>>}
              /\ UNCHANGED <<pc, cur, job>>
        BY <3>0
      <3>2. Loses(x)
        <4> SUFFICES ASSUME NEW e \in Daemon, NEW u \in Task
                     PROVE  /\ Entitled(e, u)' => Entitled(e, u)
                            /\ Entitled(e, u) /\ e # x => Entitled(e, u)'
          BY DEF Loses
        <4> QED
          BY <3>1 DEF Entitled, Executing, Claiming
      <3> QED
        BY <3>1, <3>2 DEF Shifts
    <2> QED
      BY <1>9, <2>1, <2>2, <2>3 DEF Environment
  <1>10. CASE UNCHANGED vars
    BY <1>10 DEF vars, Unmoved, Shifts, Entitled, Executing, Claiming
  <1> QED
    BY <1>1, <1>2, <1>3, <1>4, <1>5, <1>6, <1>7, <1>8, <1>9, <1>10 DEF Next

(* Under Exclusive the owner of a task is whoever is entitled to it.       *)
OwnerIsEntitled ==
  /\ Owner = [t \in Task |-> Owner[t]]
  /\ \A t \in Task :
       /\ \A d \in Daemon : Owner[t] = d <=> Entitled(d, t)
       /\ Owner[t] = NoDaemon <=> \A d \in Daemon : ~Entitled(d, t)
       /\ Owner[t] \in Daemon \cup {NoDaemon}

LEMMA ExclusiveGivesOwner == Exclusive => OwnerIsEntitled
  <1> SUFFICES ASSUME Exclusive, NEW t \in Task
               PROVE  /\ \A d \in Daemon : Owner[t] = d <=> Entitled(d, t)
                      /\ Owner[t] = NoDaemon <=> \A d \in Daemon : ~Entitled(d, t)
                      /\ Owner[t] \in Daemon \cup {NoDaemon}
    BY DEF Owner, OwnerIsEntitled
  <1>1. CASE \E d \in Daemon : Entitled(d, t)
    <2>1. Owner[t] \in Daemon /\ Entitled(Owner[t], t)
      BY <1>1 DEF Owner
    <2> QED
      BY <2>1, NoDaemonAssumption DEF Exclusive
  <1>2. CASE ~ \E d \in Daemon : Entitled(d, t)
    BY <1>2, NoDaemonAssumption DEF Owner
  <1> QED
    BY <1>1, <1>2

(* A shift of entitlements is a step of TaskOwnership, or a stutter.       *)
LEMMA ShiftRefines ==
  ASSUME OwnerIsEntitled, OwnerIsEntitled', Shifts
  PROVE  [Ownership!Next]_Owner
  <1> USE NoDaemonAssumption
  <1>1. CASE Unmoved
    <2>1. ASSUME NEW t \in Task PROVE Owner'[t] = Owner[t]
      BY <1>1 DEF Unmoved, OwnerIsEntitled
    <2>2. Owner' = Owner
      BY <2>1 DEF OwnerIsEntitled
    <2> QED
      BY <2>2
  <1>2. ASSUME NEW d \in Daemon, Loses(d) PROVE [Ownership!Next]_Owner
    <2> DEFINE Lost == {t \in Task : Owner[t] = d /\ Owner'[t] # d}
    <2>1. ASSUME NEW t \in Task
          PROVE  Owner'[t] = IF t \in Lost THEN NoDaemon ELSE Owner[t]
      BY <1>2 DEF Loses, OwnerIsEntitled
    <2>2. Owner' = [t \in Task |-> IF t \in Lost THEN NoDaemon ELSE Owner[t]]
      BY <2>1 DEF OwnerIsEntitled
    <2>3. Ownership!GiveUp(d, Lost)
      BY <2>2 DEF Ownership!GiveUp
    <2> QED
      BY <2>3 DEF Ownership!Next
  <1>3. ASSUME NEW d \in Daemon, NEW t \in Task, Gains(d, t) PROVE [Ownership!Next]_Owner
    <2>1. Owner[t] = NoDaemon
      BY <1>3 DEF Gains, OwnerIsEntitled
    <2>2. ASSUME NEW u \in Task PROVE Owner'[u] = IF u = t THEN d ELSE Owner[u]
      BY <1>3 DEF Gains, OwnerIsEntitled
    <2>3. Owner' = [Owner EXCEPT ![t] = d]
      BY <2>2 DEF OwnerIsEntitled
    <2>4. Ownership!Take(d, t)
      BY <2>1, <2>3 DEF Ownership!Take
    <2> QED
      BY <2>4 DEF Ownership!Next
  <1> QED
    BY <1>1, <1>2, <1>3 DEF Shifts

(* The daemons implement the abstract ownership of tasks.                  *)
THEOREM Refinement == ASSUME DistinctIds PROVE Spec => RefinesOwnership
  <1>1. Init => Ownership!Init
    <2> SUFFICES ASSUME Init PROVE Ownership!Init
      OBVIOUS
    <2>1. \A t \in Task, d \in Daemon : ~Entitled(d, t)
      BY DEF Init, Entitled, Executing, Claiming, Working, Verdict
    <2> QED
      BY <2>1 DEF Ownership!Init, Owner
  <1>2. IInv => OwnerIsEntitled
    BY IInvImpliesExclusive, ExclusiveGivesOwner
  <1>3. OwnerIsEntitled /\ OwnerIsEntitled' /\ Shifts => [Ownership!Next]_Owner
    BY ShiftRefines
  <1> QED
    BY <1>1, <1>2, <1>3, Invariance, EntitlementStep, PTL
    DEF Spec, RefinesOwnership, Ownership!Spec

----------------------------------------------------------------------------
(* What a daemon does with the leases it took, whoever shares its id.      *)

(* The daemon has a section or a job that has the lease of t to give back. *)
Owes(d, t) == Claiming(d, t) \/ job[d][t] # "none"

(* Past its claim a daemon has written the file, if it is still its own:   *)
(* release() can read it.                                                  *)
FileIsWritten ==
  \A d \in Daemon : \A t \in Task :
    job[d][t] # "none" /\ lease[t].by = d => lease[t].data # "empty"

(* A file stays what it is, expires, or is unlinked.                       *)
FileFades(t) ==
  \/ lease'[t] \in {lease[t], NoFile}
  \/ lease'[t].by = lease[t].by /\ lease'[t].data = "expired"

(* A step in which nobody takes a lease or is done with one.               *)
Quiet ==
  /\ crashes' = crashes
  /\ \A d \in Daemon : \A t \in Task :
       /\ Owes(d, t)' <=> Owes(d, t)
       /\ job'[d][t] # "none" <=> job[d][t] # "none"
  /\ \A t \in Task : FileFades(t)

Busy(d) ==
  \/ \E t \in Task : ClaimOpen(d, t)
  \/ ClaimWrite(d)
  \/ ClaimFails(d)
  \/ \E t \in Task : ReleaseCheck(d, t) /\ ~HeldBy(t, d)
  \/ ReleaseUnlink(d)
  \/ Crash(d)

LEMMA QuietOrBusy ==
  ASSUME TypeOK, [Next]_vars
  PROVE  Quiet \/ \E d \in Daemon : Busy(d)
  <1> USE DEF TypeOK, Quiet, Owes, Claiming, FileFades, LeaseTypeOK, LeaseFile, NoFile,
              procVars, envVars
  <1>1. ASSUME NEW d \in Daemon, Reaping(d) PROVE Quiet
    <2>1. CASE Construct(d)
      BY <2>1 DEF Construct
    <2>2. ASSUME NEW t \in Task, ReapRead(d, t) PROVE Quiet
      BY <2>2 DEF ReapRead
    <2>3. ASSUME NEW t \in Task, ReapRelease(d, t) PROVE Quiet
      BY <2>3 DEF ReapRelease, Unlink
    <2>4. CASE ReapCorrupt(d)
      BY <2>4 DEF ReapCorrupt, Unlink
    <2>5. CASE ReapDone(d)
      BY <2>5 DEF ReapDone
    <2> QED
      BY <1>1, <2>1, <2>2, <2>3, <2>4, <2>5 DEF Reaping
  <1>2. ASSUME NEW d \in Daemon, Start(d) PROVE Quiet
    BY <1>2 DEF Start
  <1>3. ASSUME NEW d \in Daemon, Stop(d) PROVE Quiet
    BY <1>3 DEF Stop
  <1>4. ASSUME NEW d \in Daemon, Stopping(d) PROVE Quiet
    <2>1. ASSUME NEW t \in Task, StopCheck(d, t) PROVE Quiet
      BY <2>1 DEF StopCheck
    <2>2. CASE StopUnlink(d)
      BY <2>2 DEF StopUnlink, Unlink
    <2>3. CASE StopDone(d)
      BY <2>3 DEF StopDone
    <2> QED
      BY <1>4, <2>1, <2>2, <2>3 DEF Stopping
  <1>5. ASSUME NEW d \in Daemon, Triggering(d) PROVE Quiet \/ Busy(d)
    <2>1. ASSUME NEW t \in Task, TriggerSkipped(d, t) PROVE Quiet
      BY <2>1 DEF TriggerSkipped, Polls
    <2> HIDE DEF TypeOK, Quiet
    <2> QED
      BY <1>5, <2>1 DEF Triggering, Busy
  <1>6. ASSUME NEW d \in Daemon, NEW t \in Task, Looping(d, t) PROVE Quiet \/ Busy(d)
    <2>1. ASSUME NEW from \in SUBSET Stage, NEW to \in Stage \ {"none"},
                 Advance(d, t, from, to), "none" \notin from
          PROVE  Quiet
      BY <2>1 DEF Advance
    <2>2. /\ Working \subseteq Stage /\ Verdict \subseteq Stage
          /\ "none" \notin Verdict
          /\ {"loop", "release", "releaseTwice", "ackBlocked", "gate", "blocked"} \subseteq Stage
      BY DEF Stage, Working, Verdict
    <2>3. GateApproved(d, t) \/ GateDenied(d, t) \/ LoopThrows(d, t) \/ BlockedAcked(d, t) => Quiet
      BY <2>1, <2>2 DEF GateApproved, GateDenied, LoopThrows, BlockedAcked
    <2>4. ASSUME NEW v \in Verdict, LoopReturns(d, t, v) PROVE Quiet
      <3>1. PICK to \in Stage \ {"none"} : Advance(d, t, {"loop"}, to)
        BY <2>2, <2>4 DEF LoopReturns
      <3> QED
        BY <2>1, <2>2, <3>1
    <2>5. Finish(d, t) => Quiet
      BY <2>1, <2>2 DEF Finish
    <2>6. CASE ReleaseCheck(d, t) /\ HeldBy(t, d)
      BY <2>6 DEF ReleaseCheck
    <2> HIDE DEF TypeOK, Quiet
    <2> QED
      BY <1>6, <2>3, <2>4, <2>5, <2>6 DEF Looping, Handling, RunEnds, Busy
  <1>7. CASE Environment
    <2>1. ASSUME NEW t \in Task, TaskAppears(t) \/ HumanApproves(t) PROVE Quiet
      BY <2>1 DEF TaskAppears, HumanApproves
    <2>2. ASSUME NEW t \in Task, LeaseExpires(t) PROVE Quiet
      BY <2>2 DEF LeaseExpires, Expire
    <2> QED
      BY <1>7, <2>1, <2>2 DEF Environment
  <1>8. CASE UNCHANGED vars
    BY <1>8 DEF vars
  <1> HIDE DEF TypeOK, Quiet
  <1> QED
    BY <1>1, <1>2, <1>3, <1>4, <1>5, <1>6, <1>7, <1>8 DEF Next, Busy

LEMMA BusyHandsBack ==
  ASSUME TypeOK, SectionsConsistent, FileIsWritten, NEW d \in Daemon, Busy(d)
  PROVE  /\ FileIsWritten'
         /\ \A e \in Daemon : \A t \in Task :
              Owes(e, t) /\ ~Owes(e, t)' => lease'[t].by # e \/ crashes' # crashes
         /\ \A e \in Daemon : \A t \in Task :
              lease'[t].by = e /\ lease[t].by # e => Owes(e, t)'
         /\ crashes' # crashes => crashes' # 0
  <1> DEFINE Returned == \A e \in Daemon : \A t \in Task :
                           Owes(e, t) /\ ~Owes(e, t)' => lease'[t].by # e \/ crashes' # crashes
             Taken == \A e \in Daemon : \A t \in Task :
                        lease'[t].by = e /\ lease[t].by # e => Owes(e, t)'
             Goal == FileIsWritten' /\ Returned /\ Taken /\ (crashes' # crashes => crashes' # 0)
  <1> USE NoDaemonAssumption, DaemonAssumption
      DEF TypeOK, Owes, Claiming, LeaseTypeOK, LeaseFile, LeaseData, NoFile, FileIsWritten,
          SectionsConsistent, Unlinking, procVars, envVars
  <1>1. ASSUME NEW t \in Task, ClaimOpen(d, t) PROVE Goal
    <2>1. /\ t \notin seen[d] /\ pc[d] = "ready"
          /\ lease' = [lease EXCEPT ![t] = [by |-> d, data |-> "empty"]]
          /\ pc' = [pc EXCEPT ![d] = "claim"]
          /\ cur' = [cur EXCEPT ![d] = t]
          /\ UNCHANGED <<job, crashes>>
      BY <1>1 DEF ClaimOpen, Polls, OpenExclusive
    <2>2. job[d][t] = "none"
      BY <2>1
    <2> QED
      BY <2>1, <2>2
  <1>2. CASE ClaimWrite(d)
    <2>1. PICK to \in {"gate", "loop"} : job' = [job EXCEPT ![d][cur[d]] = to]
      BY <1>2 DEF ClaimWrite
    <2>2. /\ pc[d] = "claim" /\ cur[d] \in Task
          /\ pc' = [pc EXCEPT ![d] = "ready"]
          /\ UNCHANGED <<cur, crashes>>
          /\ lease' = IF lease[cur[d]].by = d
                      THEN [lease EXCEPT ![cur[d]] = [by |-> d, data |-> "fresh"]]
                      ELSE lease
      BY <1>2 DEF ClaimWrite, WriteLease
    <2> QED
      BY <2>1, <2>2
  <1>3. CASE ClaimFails(d)
    BY <1>3 DEF ClaimFails, Unlink
  <1>4. ASSUME NEW t \in Task, ReleaseCheck(d, t), ~HeldBy(t, d) PROVE Goal
    <2>1. /\ pc[d] = "ready" /\ job[d][t] \in {"release", "releaseTwice"}
          /\ job' = [job EXCEPT ![d][t] = IF @ = "releaseTwice" THEN "release" ELSE "none"]
          /\ UNCHANGED <<pc, cur, lease, crashes>>
      BY <1>4 DEF ReleaseCheck, Released
    <2>2. lease[t].by # d
      BY <1>4, <2>1 DEF HeldBy, Readable, Exists
    <2> QED
      BY <2>1, <2>2
  <1>5. CASE ReleaseUnlink(d)
    <2>1. /\ pc[d] = "unlink" /\ cur[d] \in Task
          /\ lease' = [lease EXCEPT ![cur[d]] = NoFile]
          /\ pc' = [pc EXCEPT ![d] = "ready"]
          /\ job' = [job EXCEPT ![d][cur[d]] = IF @ = "releaseTwice" THEN "release" ELSE "none"]
          /\ UNCHANGED <<cur, crashes>>
      BY <1>5 DEF ReleaseUnlink, Unlink, Released
    <2> QED
      BY <2>1
  <1>6. CASE Crash(d)
    BY <1>6 DEF Crash
  <1> QED
    BY <1>1, <1>2, <1>3, <1>4, <1>5, <1>6 DEF Busy

LEMMA QuietHandsBack ==
  ASSUME TypeOK, FileIsWritten, Quiet
  PROVE  /\ FileIsWritten'
         /\ \A e \in Daemon : \A t \in Task :
              Owes(e, t) /\ ~Owes(e, t)' => lease'[t].by # e
         /\ \A e \in Daemon : \A t \in Task :
              lease'[t].by = e => lease[t].by = e
  <1>1. ASSUME NEW e \in Daemon, NEW t \in Task, lease'[t].by = e
        PROVE  lease[t].by = e /\ lease'[t].data \in {lease[t].data, "expired"}
    <2>1. FileFades(t) /\ lease'[t] # NoFile
      BY <1>1, NoDaemonAssumption DEF Quiet, NoFile
    <2> QED
      BY <1>1, <2>1 DEF FileFades
  <1>2. FileIsWritten'
    BY <1>1 DEF Quiet, FileIsWritten
  <1> QED
    BY <1>1, <1>2 DEF Quiet

LEMMA HandsBackStep ==
  ASSUME TypeOK, SectionsConsistent, FileIsWritten, [Next]_vars
  PROVE  /\ FileIsWritten'
         /\ \A d \in Daemon : \A t \in Task :
              Owes(d, t) /\ ~Owes(d, t)' => lease'[t].by # d \/ crashes' # crashes
         /\ \A d \in Daemon : \A t \in Task :
              lease'[t].by = d /\ lease[t].by # d => Owes(d, t)'
         /\ crashes' # crashes => crashes' # 0
  <1>1. CASE Quiet
    BY <1>1, QuietHandsBack DEF Quiet
  <1>2. CASE \E d \in Daemon : Busy(d)
    BY <1>2, BusyHandsBack
  <1> QED
    BY <1>1, <1>2, QuietOrBusy

(* What becomes of the leases a daemon took: it is done with one only when *)
(* the file is no longer its own, or by a crash.                           *)
HandsBack ==
  [][\A d \in Daemon : \A t \in Task :
       Owes(d, t) /\ ~Owes(d, t)' => lease'[t].by # d \/ crashes' # crashes]_vars

LeasesAreOwed ==
  crashes = 0 => \A d \in Daemon : \A t \in Task : lease[t].by = d => Owes(d, t)

LEMMA WrittenInvariance == Spec => [](TypeOK /\ SectionsConsistent /\ FileIsWritten)
  <1>1. Init => TypeOK /\ SectionsConsistent /\ FileIsWritten
    BY TypeOKInit DEF Init, SectionsConsistent, FileIsWritten
  <1>2. TypeOK /\ SectionsConsistent /\ FileIsWritten /\ [Next]_vars
          => (TypeOK /\ SectionsConsistent /\ FileIsWritten)'
    BY TypeOKStep, SectionsStep, HandsBackStep
  <1> QED
    BY <1>1, <1>2, PTL DEF Spec

(* No path of _runTask or of a failed claim leaves a lease file behind:    *)
(* denied gate, error, timeout, any verdict, a stop() underway             *)
(* (daemon.ts:1105-1111, 1437-1441).  This is the safety core of           *)
(* LeaseReturned, and needs no distinct ids.                               *)
THEOREM LeasesAreHandedBack == Spec => HandsBack
  <1>1. TypeOK /\ SectionsConsistent /\ FileIsWritten /\ [Next]_vars =>
          [\A d \in Daemon : \A t \in Task :
             Owes(d, t) /\ ~Owes(d, t)' => lease'[t].by # d \/ crashes' # crashes]_vars
    BY HandsBackStep
  <1> QED
    BY <1>1, WrittenInvariance, PTL DEF Spec, HandsBack

(* So before the first crash every lease file has a daemon at work behind  *)
(* it: the reaper has nothing to do but for crashes (and for runs that     *)
(* outlive their TTL).                                                     *)
THEOREM NoOrphanBeforeACrash == Spec => []LeasesAreOwed
  <1>1. Init => LeasesAreOwed
    BY NoDaemonAssumption DEF Init, LeasesAreOwed, LeaseInit, NoFile
  <1>2. ASSUME TypeOK, SectionsConsistent, FileIsWritten, LeasesAreOwed, [Next]_vars
        PROVE  LeasesAreOwed'
    BY <1>2, HandsBackStep DEF LeasesAreOwed
  <1> QED
    BY <1>1, <1>2, WrittenInvariance, PTL DEF Spec
=============================================================================
