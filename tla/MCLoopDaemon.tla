---------------------------- MODULE MCLoopDaemon ----------------------------
(* Instances of LoopDaemon for TLC.                                        *)
EXTENDS LoopDaemon, TLC

CONSTANTS d1, d2, t1, t2

TwoDaemons == {d1, d2}
OneTask    == {t1}
TwoTasks   == {t1, t2}

(* Every process signs with an id of its own, or with the default one.     *)
OwnIds      == [d \in Daemon |-> d]
DefaultIds  == [d \in Daemon |-> "loop-daemon"]

InboxSource == [t \in Task |-> "inbox"]
BdSource    == [t \in Task |-> "bd-tasks"]
=============================================================================
