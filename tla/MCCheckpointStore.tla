------------------------- MODULE MCCheckpointStore -------------------------
(* Small instances of CheckpointStore for TLC.                             *)
EXTENDS CheckpointStore, TLC

(* Thread ids are random, so which is which does not matter.               *)
Sym == Permutations(Thread)
=============================================================================
