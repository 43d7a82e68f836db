------------------------- MODULE MCTwoPhaseReview -------------------------
(* Small instances of TwoPhaseReview for TLC.                              *)
EXTENDS TwoPhaseReview, TLC

(* The todo list of an agent that works through the phases.  That tests    *)
(* are closed without a ledger that says so is what a ledger that cannot   *)
(* be read adds.                                                           *)
Item(impl, reviewed, fixes, tests, passed) ==
  [list |-> [impl |-> impl, reviewed |-> reviewed, fixes |-> fixes, tests |-> tests], passed |-> passed]

Implementing == Item("open", {}, FALSE, "none", FALSE)
Fixing       == Item("done", {1}, TRUE, "open", FALSE)
Validated    == Item("done", 1 .. MaxChunks, FALSE, "closed", TRUE)
MCLists == {Implementing, Fixing, Validated}
=============================================================================
