------------------------- MODULE MCWriteReviewLoop -------------------------
(* Instances of WriteReviewLoop for TLC.  One unit of time is 30 seconds.  *)
EXTENDS WriteReviewLoop, TLC

CONSTANTS c1, c2

TwoDrafts == {c1, c2}
(* Without a stated delay (120 s), "recovers within 1-5 minutes", 20 min.  *)
Stated == {4, 6, 40}
=============================================================================
