---------------------- MODULE MCContinuationController ----------------------
(* Small instances of ContinuationController for TLC.                      *)
EXTENDS ContinuationController, TLC

CONSTANTS h1, h2, h3, i1, i2

Sym == Permutations(Handler) \cup Permutations(Item)
=============================================================================
