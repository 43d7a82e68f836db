----------------------------- MODULE LoopDaemon -----------------------------
(***************************************************************************)
(* harness/langchain/daemon.ts: several LoopDaemon processes that watch    *)
(* the same sources and share one lease directory.                         *)
(*                                                                         *)
(* A process is single-threaded: while it is inside claim(), release(),    *)
(* stop() or the reaping of its constructor no other code of that process  *)
(* runs, but the other processes do, between any two file-system calls.    *)
(* pc[d] is the position in such a synchronous section ("ready" between    *)
(* them) and cur[d] the task it works on.  job[d][t] is the position of    *)
(* the asynchronous _runTask(t), whose awaits interleave with everything.  *)
(***************************************************************************)
EXTENDS Lease, Naturals

CONSTANTS Source,      (* Source[t]: the watcher that delivers task t       *)
          HumanClass,  (* tasks of class human_approval_required            *)
          Policy,      (* approvalPolicy of the daemons                     *)
          MaxCrashes,  (* bound: process crashes in a behaviour             *)
          NoTask

Policies == {"never", "always", "on_blocked", "on_class"}

ASSUME DaemonAssumption ==
  /\ NoTask \notin Task
  /\ HumanClass \subseteq Task
  /\ Policy \in Policies
  /\ MaxCrashes \in Nat
  /\ Source \in [Task -> {"inbox", "bd-tasks", "codex"}]

VARIABLES
  pc,         (* pc[d]: where process d is in its synchronous code          *)
  cur,        (* cur[d]: the task that code works on                        *)
  toRead,     (* toRead[d]: lease files reap() has listed and not read      *)
  toFree,     (* toFree[d]: expired leases reapAndRelease() will remove     *)
  stopped,    (* the flag of start() and stop()                             *)
  seen,       (* the watchers' memory of what they have triggered           *)
  running,    (* the keys of the `running' map                              *)
  job,        (* job[d][t]: where _runTask(t) of process d is               *)
  visible,    (* tasks an inbox file or a pending bd issue announces        *)
  acked,      (* tasks with an ack file whose decision is "approved"        *)
  finished,   (* loop.finished events published, per task                   *)
  crashes,    (* crashes so far                                             *)
  forfeited   (* history: claims that no longer entitle their daemon        *)

procVars == <<pc, cur, toRead, toFree, stopped, seen, running, job>>
envVars  == <<visible, acked, finished, crashes>>
vars     == <<lease, procVars, envVars, forfeited>>

Verdict == {"approved", "changes_requested", "blocked"}

(* A job past its claim and before its lease is given back.                *)
Working == {"gate", "loop", "ackBlocked"} \cup Verdict

Stage == Working \cup {"none", "releaseTwice", "release"}

(* Positions at which the process is about to unlink (or, in "claim", may  *)
(* have to unlink) the lease file of cur[d] whatever that file has become. *)
Unlinking == {"claim", "corrupt", "unlink", "stopUnlink"}

Pc == Unlinking \cup {"down", "reap", "ready", "stopping"}

TypeOK ==
  /\ LeaseTypeOK
  /\ pc \in [Daemon -> Pc]
  /\ cur \in [Daemon -> Task \cup {NoTask}]
  /\ \A d \in Daemon : pc[d] \in Unlinking => cur[d] \in Task
  /\ toRead \in [Daemon -> SUBSET Task]
  /\ toFree \in [Daemon -> SUBSET Task]
  /\ stopped \in [Daemon -> BOOLEAN]
  /\ seen \in [Daemon -> SUBSET Task]
  /\ running \in [Daemon -> SUBSET Task]
  /\ job \in [Daemon -> [Task -> Stage]]
  /\ visible \subseteq Task
  /\ acked \subseteq Task
  /\ finished \in [Task -> Nat]
  /\ crashes \in 0..MaxCrashes
  /\ forfeited \subseteq Daemon \X Task

Init ==
  /\ LeaseInit
  /\ pc = [d \in Daemon |-> "down"]
  /\ cur = [d \in Daemon |-> NoTask]
  /\ toRead = [d \in Daemon |-> {}]
  /\ toFree = [d \in Daemon |-> {}]
  /\ stopped = [d \in Daemon |-> TRUE]
  /\ seen = [d \in Daemon |-> {}]
  /\ running = [d \in Daemon |-> {}]
  /\ job = [d \in Daemon |-> [t \in Task |-> "none"]]
  /\ visible = {}
  /\ acked = {}
  /\ finished = [t \in Task |-> 0]
  /\ crashes = 0
  /\ forfeited = {}

----------------------------------------------------------------------------
(* effectivePolicy: on_class gates only the tasks of the human class.      *)
EffectivePolicy(t) ==
  IF Policy = "on_class"
  THEN IF t \in HumanClass THEN "on_blocked" ELSE "never"
  ELSE Policy

Gated(t) == EffectivePolicy(t) \in {"always", "on_blocked"}

(* Process e is between deciding to unlink the lease file of t and doing   *)
(* it: a file created there meanwhile may be removed by e.                 *)
PendingUnlink(e, t) ==
  \/ pc[e] \in Unlinking /\ cur[e] = t
  \/ t \in toFree[e]

Forfeit(d, t) == forfeited' = forfeited \cup {<<d, t>>}

----------------------------------------------------------------------------
(* The constructor reaps: reap() lists and reads every lease file, unlinks *)
(* at once what it cannot read, and reapAndRelease() then unlinks the      *)
(* expired ones by task id, without reading them again.                    *)
Construct(d) ==
  /\ pc[d] = "down"
  /\ pc' = [pc EXCEPT ![d] = "reap"]
  /\ toRead' = [toRead EXCEPT ![d] = {t \in Task : Exists(t)}]
  /\ UNCHANGED <<lease, cur, toFree, stopped, seen, running, job, envVars, forfeited>>

(* Mutant of ReapRead: the expiry comparison turned round.                 *)
ReapReadFresh(d, t) ==
  /\ pc[d] = "reap"
  /\ t \in toRead[d]
  /\ toRead' = [toRead EXCEPT ![d] = @ \ {t}]
  /\ toFree' = [toFree EXCEPT ![d] =
                  IF lease[t].data = "fresh" THEN @ \cup {t} ELSE @]
  /\ UNCHANGED <<lease, pc, cur, stopped, seen, running, job, envVars, forfeited>>

ReapRead(d, t) ==
  /\ pc[d] = "reap"
  /\ t \in toRead[d]
  /\ toRead' = [toRead EXCEPT ![d] = @ \ {t}]
  /\ IF Readable(t)
     THEN /\ toFree' = [toFree EXCEPT ![d] =
                          IF lease[t].data = "expired" THEN @ \cup {t} ELSE @]
          /\ UNCHANGED <<pc, cur, forfeited>>
     ELSE /\ pc' = [pc EXCEPT ![d] = "corrupt"]
          /\ cur' = [cur EXCEPT ![d] = t]
          /\ IF Exists(t) THEN Forfeit(lease[t].by, t) ELSE UNCHANGED forfeited
          /\ UNCHANGED toFree
  /\ UNCHANGED <<lease, stopped, seen, running, job, envVars>>

ReapCorrupt(d) ==
  /\ pc[d] = "corrupt"
  /\ Unlink(cur[d])
  /\ pc' = [pc EXCEPT ![d] = "reap"]
  /\ UNCHANGED <<cur, toRead, toFree, stopped, seen, running, job, envVars, forfeited>>

ReapRelease(d, t) ==
  /\ pc[d] = "reap"
  /\ toRead[d] = {}
  /\ t \in toFree[d]
  /\ Unlink(t)
  /\ toFree' = [toFree EXCEPT ![d] = @ \ {t}]
  /\ UNCHANGED <<pc, cur, toRead, stopped, seen, running, job, envVars, forfeited>>

ReapDone(d) ==
  /\ pc[d] = "reap"
  /\ toRead[d] = {}
  /\ toFree[d] = {}
  /\ pc' = [pc EXCEPT ![d] = "ready"]
  /\ UNCHANGED <<lease, cur, toRead, toFree, stopped, seen, running, job, envVars, forfeited>>

----------------------------------------------------------------------------
(* start(): the inbox watcher seeds its memory with the files it finds;    *)
(* the other watchers start from the memory they have.                     *)
Start(d) ==
  /\ pc[d] = "ready"
  /\ stopped[d]
  /\ stopped' = [stopped EXCEPT ![d] = FALSE]
  /\ seen' = [seen EXCEPT ![d] = @ \cup {t \in visible : Source[t] = "inbox"}]
  /\ UNCHANGED <<lease, pc, cur, toRead, toFree, running, job, envVars, forfeited>>

(* stop() releases what the running map holds and clears the map.  The     *)
(* _runTask promises are not cancelled: their jobs go on.                  *)
Stop(d) ==
  /\ pc[d] = "ready"
  /\ ~stopped[d]
  /\ stopped' = [stopped EXCEPT ![d] = TRUE]
  /\ pc' = [pc EXCEPT ![d] = "stopping"]
  /\ forfeited' = forfeited \cup {<<d, t>> : t \in running[d]}
  /\ UNCHANGED <<lease, cur, toRead, toFree, seen, running, job, envVars>>

StopCheck(d, t) ==
  /\ pc[d] = "stopping"
  /\ t \in running[d]
  /\ running' = [running EXCEPT ![d] = @ \ {t}]
  /\ IF HeldBy(t, d)
     THEN /\ pc' = [pc EXCEPT ![d] = "stopUnlink"]
          /\ cur' = [cur EXCEPT ![d] = t]
     ELSE UNCHANGED <<pc, cur>>
  /\ UNCHANGED <<lease, toRead, toFree, stopped, seen, job, envVars, forfeited>>

StopUnlink(d) ==
  /\ pc[d] = "stopUnlink"
  /\ Unlink(cur[d])
  /\ pc' = [pc EXCEPT ![d] = "stopping"]
  /\ UNCHANGED <<cur, toRead, toFree, stopped, seen, running, job, envVars, forfeited>>

StopDone(d) ==
  /\ pc[d] = "stopping"
  /\ running[d] = {}
  /\ pc' = [pc EXCEPT ![d] = "ready"]
  /\ UNCHANGED <<lease, cur, toRead, toFree, stopped, seen, running, job, envVars, forfeited>>

----------------------------------------------------------------------------
(* A watcher polls: every task it sees for the first time is remembered    *)
(* before _onTriggered decides what to do with it.                         *)
Polls(d, t) ==
  /\ pc[d] = "ready"
  /\ ~stopped[d]
  /\ t \in visible \ seen[d]
  /\ seen' = [seen EXCEPT ![d] = @ \cup {t}]

(* Mutant of TriggerSkipped: the clean-up of a failed write also covers    *)
(* the failed open, and unlinks the winner's file.                         *)
TriggerSkippedUnlinks(d, t) ==
  /\ Polls(d, t)
  /\ t \in running[d] \/ Exists(t)
  /\ Unlink(t)
  /\ UNCHANGED <<pc, cur, toRead, toFree, stopped, running, job, envVars, forfeited>>

TriggerSkipped(d, t) ==
  /\ Polls(d, t)
  /\ t \in running[d] \/ Exists(t)
  /\ UNCHANGED <<lease, pc, cur, toRead, toFree, stopped, running, job, envVars, forfeited>>

ClaimOpen(d, t) ==
  /\ Polls(d, t)
  /\ t \notin running[d]
  /\ OpenExclusive(d, t)
  /\ pc' = [pc EXCEPT ![d] = "claim"]
  /\ cur' = [cur EXCEPT ![d] = t]
  /\ IF \E e \in Daemon \ {d} : PendingUnlink(e, t)
     THEN Forfeit(d, t)
     ELSE forfeited' = forfeited \ {<<d, t>>}
  /\ UNCHANGED <<toRead, toFree, stopped, running, job, envVars>>

(* The lease is written, and _runTask runs up to its first await.          *)
ClaimWrite(d) ==
  /\ pc[d] = "claim"
  /\ WriteLease(d, cur[d])
  /\ pc' = [pc EXCEPT ![d] = "ready"]
  /\ running' = [running EXCEPT ![d] = @ \cup {cur[d]}]
  /\ job' = [job EXCEPT ![d][cur[d]] = IF Gated(cur[d]) THEN "gate" ELSE "loop"]
  /\ UNCHANGED <<cur, toRead, toFree, stopped, seen, envVars, forfeited>>

(* writeSync fails: claim() unlinks the path and throws; the watcher logs. *)
ClaimFails(d) ==
  /\ pc[d] = "claim"
  /\ Unlink(cur[d])
  /\ pc' = [pc EXCEPT ![d] = "ready"]
  /\ UNCHANGED <<cur, toRead, toFree, stopped, seen, running, job, envVars, forfeited>>

----------------------------------------------------------------------------
(* _runTask between its awaits.                                            *)
Advance(d, t, from, to) ==
  /\ pc[d] = "ready"
  /\ job[d][t] \in from
  /\ job' = [job EXCEPT ![d][t] = to]
  /\ UNCHANGED <<lease, pc, cur, toRead, toFree, stopped, seen, running,
                 acked, crashes, forfeited>>

GateApproved(d, t) ==
  /\ t \in acked
  /\ Advance(d, t, {"gate"}, "loop")
  /\ UNCHANGED <<visible, finished>>

(* Mutant of GateDenied: the denied branch does not return.                *)
GateDeniedFallsThrough(d, t) ==
  /\ Advance(d, t, {"gate"}, "loop")
  /\ UNCHANGED <<visible, finished>>

(* A "denied" ack, or the 30-minute deadline.  The branch releases, and so *)
(* does the finally it returns through.                                    *)
GateDenied(d, t) ==
  /\ Advance(d, t, {"gate"}, "releaseTwice")
  /\ UNCHANGED <<visible, finished>>

LoopReturns(d, t, verdict) ==
  /\ Advance(d, t, {"loop"},
             IF verdict = "blocked" /\ EffectivePolicy(t) = "on_blocked"
             THEN "ackBlocked" ELSE verdict)
  /\ UNCHANGED <<visible, finished>>

(* Mutant of LoopThrows: no finally and no catch that releases.            *)
LoopThrowsUnreleased(d, t) ==
  /\ Advance(d, t, {"loop"}, "none")
  /\ UNCHANGED <<visible, finished>>

(* A graph error, or the task timeout, whose promise rejects: the finally  *)
(* releases, and then the catch in _onTriggered releases again.            *)
LoopThrows(d, t) ==
  /\ Advance(d, t, {"loop"}, "releaseTwice")
  /\ UNCHANGED <<visible, finished>>

(* The second gate: whatever the human answers, the task stays blocked.    *)
BlockedAcked(d, t) ==
  /\ Advance(d, t, {"ackBlocked"}, "blocked")
  /\ UNCHANGED <<visible, finished>>

(* Publish loop.finished, notify, close the bd issue unless blocked.       *)
Finish(d, t) ==
  /\ Advance(d, t, Verdict, "release")
  /\ finished' = [finished EXCEPT ![t] = @ + 1]
  /\ visible' = IF Source[t] = "bd-tasks" /\ job[d][t] # "blocked"
                THEN visible \ {t} ELSE visible

(* What a release leaves: the error paths come back to release once more.  *)
Released(d, t) ==
  /\ job' = [job EXCEPT ![d][t] = IF @ = "releaseTwice" THEN "release" ELSE "none"]
  /\ running' = [running EXCEPT ![d] = @ \ {t}]

(* release(): get() the file and check its worker; LeaseError is caught.   *)
ReleaseCheck(d, t) ==
  /\ pc[d] = "ready"
  /\ job[d][t] \in {"release", "releaseTwice"}
  /\ IF HeldBy(t, d)
     THEN /\ pc' = [pc EXCEPT ![d] = "unlink"]
          /\ cur' = [cur EXCEPT ![d] = t]
          /\ UNCHANGED <<running, job>>
     ELSE /\ Released(d, t)
          /\ UNCHANGED <<pc, cur>>
  /\ UNCHANGED <<lease, toRead, toFree, stopped, seen, envVars, forfeited>>

ReleaseUnlink(d) ==
  /\ pc[d] = "unlink"
  /\ Unlink(cur[d])
  /\ pc' = [pc EXCEPT ![d] = "ready"]
  /\ Released(d, cur[d])
  /\ UNCHANGED <<cur, toRead, toFree, stopped, seen, envVars, forfeited>>

----------------------------------------------------------------------------
(* The process dies anywhere; the lease directory is what it left.         *)
Crash(d) ==
  /\ pc[d] # "down"
  /\ crashes < MaxCrashes
  /\ crashes' = crashes + 1
  /\ pc' = [pc EXCEPT ![d] = "down"]
  /\ cur' = [cur EXCEPT ![d] = NoTask]
  /\ toRead' = [toRead EXCEPT ![d] = {}]
  /\ toFree' = [toFree EXCEPT ![d] = {}]
  /\ stopped' = [stopped EXCEPT ![d] = TRUE]
  /\ seen' = [seen EXCEPT ![d] = {}]
  /\ running' = [running EXCEPT ![d] = {}]
  /\ job' = [job EXCEPT ![d] = [t \in Task |-> "none"]]
  /\ UNCHANGED <<lease, visible, acked, finished, forfeited>>

(* The environment: a task appears, a human approves, a TTL runs out.      *)
TaskAppears(t) ==
  /\ visible' = visible \cup {t}
  /\ t \notin visible
  /\ finished[t] = 0
  /\ UNCHANGED <<lease, procVars, acked, finished, crashes, forfeited>>

HumanApproves(t) ==
  /\ t \notin acked
  /\ acked' = acked \cup {t}
  /\ UNCHANGED <<lease, procVars, visible, finished, crashes, forfeited>>

LeaseExpires(t) ==
  /\ Expire(t)
  /\ Forfeit(lease[t].by, t)
  /\ UNCHANGED <<procVars, envVars>>

----------------------------------------------------------------------------
Reaping(d) ==
  \/ Construct(d)
  \/ \E t \in Task : ReapRead(d, t) \/ ReapRelease(d, t)
  \/ ReapCorrupt(d)
  \/ ReapDone(d)

Stopping(d) ==
  \/ \E t \in Task : StopCheck(d, t)
  \/ StopUnlink(d)
  \/ StopDone(d)

Triggering(d) ==
  \/ \E t \in Task : TriggerSkipped(d, t) \/ ClaimOpen(d, t)
  \/ ClaimWrite(d)
  \/ ClaimFails(d)

RunEnds(d, t) ==
  \/ \E verdict \in Verdict : LoopReturns(d, t, verdict)
  \/ LoopThrows(d, t)

(* What _runTask does before and after the run of the write-review loop.   *)
Handling(d, t) ==
  \/ GateApproved(d, t)
  \/ GateDenied(d, t)
  \/ BlockedAcked(d, t)
  \/ Finish(d, t)
  \/ ReleaseCheck(d, t)

Looping(d, t) == Handling(d, t) \/ RunEnds(d, t)

Environment ==
  \E t \in Task : TaskAppears(t) \/ HumanApproves(t) \/ LeaseExpires(t)

Next ==
  \/ \E d \in Daemon :
       \/ Reaping(d)
       \/ Start(d)
       \/ Stop(d)
       \/ Stopping(d)
       \/ Triggering(d)
       \/ \E t \in Task : Looping(d, t)
       \/ ReleaseUnlink(d)
       \/ Crash(d)
  \/ Environment

Spec == Init /\ [][Next]_vars

(* Fairness.  The event loop of a live process runs every callback that is *)
(* ready: a synchronous section completes (weak fairness), and a pending   *)
(* continuation is not postponed for ever by the sections of other         *)
(* callbacks that keep interrupting its enabledness (strong fairness): the *)
(* gates have a deadline, and what follows a run has no wait without one.  *)
(* The run itself may last for ever, for taskTimeoutMs has no default:     *)
(* nothing is assumed of RunEnds.  A daemon that is down is started again  *)
(* by whoever supervises it.                                               *)
Progress(d) ==
  /\ WF_vars(Reaping(d))
  /\ WF_vars(Stopping(d))
  /\ WF_vars(ClaimWrite(d) \/ ClaimFails(d))
  /\ WF_vars(ReleaseUnlink(d))
  /\ \A t \in Task : SF_vars(Handling(d, t))

Supervised(d) ==
  /\ WF_vars(Start(d))
  /\ \A t \in Task : SF_vars(TriggerSkipped(d, t) \/ ClaimOpen(d, t))

FairSpec == Spec /\ \A d \in Daemon : Progress(d) /\ Supervised(d)

----------------------------------------------------------------------------
Claiming(d, t) == pc[d] = "claim" /\ cur[d] = t

Executing(d, t) == job[d][t] \in Working

(* A claim or a job of d that has not outlived its lease, was not handed   *)
(* back by stop(), and was not created under another process' unlink.      *)
Entitled(d, t) ==
  /\ Executing(d, t) \/ Claiming(d, t)
  /\ <<d, t>> \notin forfeited

(* No two daemons are entitled to one task: a second execution of a task   *)
(* starts only after the first one outlived the TTL or was stopped, or     *)
(* when the claim itself fell between another process' check and unlink.   *)
Exclusive ==
  \A t \in Task : \A d, e \in Daemon : Entitled(d, t) /\ Entitled(e, t) => d = e

(* Why Exclusive holds: the lease file of a task is the one its entitled   *)
(* daemon created, so no claim of another process can succeed.             *)
LeaseBacksOwner ==
  \A t \in Task : \A d \in Daemon : Entitled(d, t) => lease[t].by = d

(* Whatever is about to unlink a lease file, the daemon that created the   *)
(* file is no longer entitled to its task, unless it unlinks its own.      *)
UnlinkIsSafe ==
  \A t \in Task : \A d, e \in Daemon :
    PendingUnlink(e, t) /\ Entitled(d, t) => d = e

(* The loop of a gated task has run only if the human's ack file said      *)
(* "approved", on every path that leads past the gate.                     *)
GateHolds ==
  \A d \in Daemon : \A t \in Task :
    Gated(t) /\ job[d][t] \in {"loop", "ackBlocked"} \cup Verdict => t \in acked

(* A daemon that does not crash gives every lease it works under back,     *)
(* unless a run of the write-review loop never ends: no path of _runTask   *)
(* (denied gate, error, timeout, any verdict, a stop() underway, a failed  *)
(* write) leaves its file behind.                                          *)
LeaseReturned ==
  \A t \in Task : \A d \in Daemon :
    []<>(job[d][t] # "loop") =>
      \A n \in 0..MaxCrashes :
        (lease[t].by = d /\ (Claiming(d, t) \/ Executing(d, t)) /\ crashes = n)
          ~> (lease[t].by # d \/ crashes # n)

----------------------------------------------------------------------------
(* The inductive invariant behind Exclusive, when no two processes share a *)
(* worker id (DistinctIds).                                                *)
DistinctIds == \A d, e \in Daemon : AgentId[d] = AgentId[e] => d = e

(* An expired lease no longer entitles the daemon that created it.         *)
ExpiredIsForfeited ==
  \A t \in Task : lease[t].data = "expired" => <<lease[t].by, t>> \in forfeited

(* Where a process is in its synchronous code bounds what its jobs are.    *)
SectionsConsistent ==
  \A d \in Daemon :
    /\ pc[d] \in {"down", "reap", "corrupt"} => \A t \in Task : job[d][t] = "none"
    /\ toFree[d] # {} => pc[d] \in {"reap", "corrupt"}
    /\ pc[d] = "claim" => job[d][cur[d]] = "none" /\ cur[d] \in seen[d]
    /\ pc[d] = "unlink" => job[d][cur[d]] \in {"release", "releaseTwice"}
    /\ pc[d] = "stopUnlink" => <<d, cur[d]>> \in forfeited
    /\ pc[d] \in {"stopping", "stopUnlink"} =>
         \A t \in running[d] : <<d, t>> \in forfeited
    /\ \A t \in Task : job[d][t] # "none" => t \in seen[d]

IInv ==
  /\ TypeOK
  /\ LeaseBacksOwner
  /\ UnlinkIsSafe
  /\ ExpiredIsForfeited
  /\ SectionsConsistent

----------------------------------------------------------------------------
(* What the documentation says of the daemon, and the code does not do.    *)

(* README.md: "Exactly one daemon processes a task at a time               *)
(* (lease-based)".                                                         *)
ExactlyOneDaemon ==
  \A t \in Task : \A d, e \in Daemon : Executing(d, t) /\ Executing(e, t) => d = e

(* daemon.test.ts, T5: "With two daemons, we expect exactly 1              *)
(* loop.finished".                                                         *)
FinishedOnce == \A t \in Task : finished[t] <= 1

(* lease.ts: "A worker that dies: its lease expires, the reaper releases   *)
(* it back to queued".                                                     *)
OrphanReleased ==
  \A t \in Task :
    (lease[t].data = "expired" /\ \A d \in Daemon : job[d][t] = "none")
      ~> ~Exists(t)

(* daemon.test.ts, T7: "new daemon picks up the task" that was pending     *)
(* when it started.                                                        *)
PickedUpOnStart ==
  \A t \in Task :
    (t \in visible /\ \A d \in Daemon : pc[d] = "down")
      ~> (\E d \in Daemon : Executing(d, t))

(* daemon.ts, after a failed task: "Release lease so the task can be       *)
(* picked up again on next poll".                                          *)
RetriedAfterFailure ==
  \A d \in Daemon : \A t \in Task :
    (job[d][t] = "releaseTwice") ~> (\E e \in Daemon : Executing(e, t))

----------------------------------------------------------------------------
(* The abstract specification: a task has at most one owner, who takes it  *)
(* when nobody has it and gives it up before anybody else takes it.        *)
Owner ==
  [t \in Task |-> IF \E d \in Daemon : Entitled(d, t)
                  THEN CHOOSE d \in Daemon : Entitled(d, t)
                  ELSE NoDaemon]

Ownership == INSTANCE TaskOwnership WITH owner <- Owner

RefinesOwnership == Ownership!Spec
=============================================================================
