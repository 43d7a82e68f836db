------------------------------- MODULE Lease -------------------------------
(***************************************************************************)
(* The lease directory of packages/autonomous-runtime/src/lease.ts: one    *)
(* file per claimed task, shared by every daemon process of the machine.   *)
(*                                                                         *)
(* A file is what other processes can observe of it: absent, created but   *)
(* not yet written ("empty", which JSON.parse rejects), written and within *)
(* its TTL ("fresh"), or written and past expiresAt ("expired").  `by' is  *)
(* the process that created it; the file itself only names that process'   *)
(* worker id, AgentId[by], which several processes may share.              *)
(***************************************************************************)
CONSTANTS Daemon,    (* the daemon processes                                *)
          Task,      (* the task ids, one lease path each                   *)
          AgentId,   (* the workerId each process signs its leases with     *)
          NoDaemon   (* the creator of a file that is not there             *)

ASSUME NoDaemonAssumption == NoDaemon \notin Daemon

VARIABLE lease

LeaseData == {"empty", "fresh", "expired"}

NoFile == [by |-> NoDaemon, data |-> "none"]

LeaseFile == [by: Daemon, data: LeaseData]

LeaseTypeOK == lease \in [Task -> LeaseFile \cup {NoFile}]

LeaseInit == lease = [t \in Task |-> NoFile]

----------------------------------------------------------------------------
Exists(t) == lease[t] # NoFile

(* get() returns a lease only for a file that exists and parses.           *)
Readable(t) == Exists(t) /\ lease[t].data # "empty"

(* Mutant of HeldBy: release() without its check of the worker id.         *)
HeldByAnyone(t, d) == Readable(t)

(* The check release() makes before it removes the file.                   *)
HeldBy(t, d) == Readable(t) /\ AgentId[lease[t].by] = AgentId[d]

(* openSync(path, "wx"): creates the file, or fails when there is one.     *)
OpenExclusive(d, t) ==
  /\ ~Exists(t)
  /\ lease' = [lease EXCEPT ![t] = [by |-> d, data |-> "empty"]]

(* Mutant of WriteLease: the lease is written to the path, not through the *)
(* descriptor, whatever has become of the file.                            *)
WriteLeaseByPath(d, t) == lease' = [lease EXCEPT ![t].data = "fresh"]

(* writeSync through the descriptor: it reaches the directory entry only   *)
(* while that entry is still the file this process created.                *)
WriteLease(d, t) ==
  lease' = IF lease[t].by = d
           THEN [lease EXCEPT ![t] = [by |-> d, data |-> "fresh"]]
           ELSE lease

(* unlinkSync: removes whatever is at the path, whoever created it.        *)
Unlink(t) == lease' = [lease EXCEPT ![t] = NoFile]

(* expiresAt passes.  The daemon never heartbeats, so nothing renews it.   *)
Expire(t) ==
  /\ lease[t].data = "fresh"
  /\ lease' = [lease EXCEPT ![t] = [by |-> @.by, data |-> "expired"]]
=============================================================================
