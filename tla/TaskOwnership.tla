--------------------------- MODULE TaskOwnership ---------------------------
(***************************************************************************)
(* What the lease directory is for: a task belongs to at most one daemon.  *)
(* A daemon takes a task nobody owns, and may give up any of its tasks.    *)
(***************************************************************************)
CONSTANTS Daemon, Task, NoDaemon

VARIABLE owner

Init == owner = [t \in Task |-> NoDaemon]

Take(d, t) ==
  /\ owner[t] = NoDaemon
  /\ owner' = [owner EXCEPT ![t] = d]

GiveUp(d, tasks) ==
  /\ \A t \in tasks : owner[t] = d
  /\ owner' = [t \in Task |-> IF t \in tasks THEN NoDaemon ELSE owner[t]]

Next ==
  \E d \in Daemon :
    \/ \E t \in Task : Take(d, t)
    \/ \E tasks \in SUBSET Task : GiveUp(d, tasks)

Spec == Init /\ [][Next]_owner
=============================================================================
