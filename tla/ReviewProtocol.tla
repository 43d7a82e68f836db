--------------------------- MODULE ReviewProtocol ---------------------------
(***************************************************************************)
(* What a write-review loop promises: the verdict it ends with is a        *)
(* reviewer's verdict on the last draft, and no draft is judged twice or   *)
(* thrown away unjudged unless the loop starts over or fails.              *)
(***************************************************************************)
CONSTANT Verdict

VARIABLES draft,    (* "none", "unjudged", or the verdict it got            *)
          outcome   (* "running", "failed", or the verdict of the loop      *)

Init == draft = "none" /\ outcome = "running"

(* A first draft, or the answer to requested changes.                      *)
Write ==
  /\ outcome = "running"
  /\ draft \in {"none", "changes_requested"}
  /\ draft' = "unjudged"
  /\ UNCHANGED outcome

Judge(v) ==
  /\ outcome = "running"
  /\ draft = "unjudged"
  /\ draft' = v
  /\ UNCHANGED outcome

Conclude ==
  /\ outcome = "running"
  /\ draft \in Verdict
  /\ outcome' = draft
  /\ UNCHANGED draft

StartOver ==
  /\ outcome = "running"
  /\ draft' = "none"
  /\ UNCHANGED outcome

Fail ==
  /\ outcome = "running"
  /\ outcome' = "failed"
  /\ draft' = "none"

Next == Write \/ (\E v \in Verdict : Judge(v)) \/ Conclude \/ StartOver \/ Fail

Spec == Init /\ [][Next]_<<draft, outcome>>
=============================================================================
