---------------------------- MODULE MCWorkerLock ----------------------------
(* Small instances of WorkerLock for TLC.                                  *)
EXTENDS WorkerLock, TLC

CONSTANTS p1, p2, p3
=============================================================================
