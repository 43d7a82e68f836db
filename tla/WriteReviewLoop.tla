-------------------------- MODULE WriteReviewLoop --------------------------
(***************************************************************************)
(* One task's write-review loop: the graph of harness/langchain/graph.ts   *)
(* (plan, write, review, route, finish), invoked by _runTask of daemon.ts  *)
(* through the retry wrappers of surge.ts, with the scoreboard that the    *)
(* steps keep in packages/write-review/src/blackboard.ts.                  *)
(*                                                                         *)
(* A failed invocation is repeated with the same input on the same thread: *)
(* the graph starts over at its plan node, and with a checkpointer (the    *)
(* default) it finds the channels the failed invocation left.              *)
(***************************************************************************)
EXTENDS SurgeBackoff

CONSTANTS Draft,          (* what the coder may output                      *)
          NoDraft,
          MaxIterations,
          RetryAfter,     (* the recovery delays providers state            *)
          Checkpointing,  (* FALSE when the config turns the saver off      *)
          HasTimeout      (* whether the config sets taskTimeoutMs          *)

ASSUME LoopAssumption ==
  /\ NoDraft \notin Draft
  /\ MaxIterations \in Nat
  /\ RetryAfter \subseteq Nat
  /\ Checkpointing \in BOOLEAN
  /\ HasTimeout \in BOOLEAN

VARIABLES
  node,        (* the node about to run, "paused", "done" or "failed"       *)
  iteration,   (* channel                                                   *)
  code,        (* channel                                                   *)
  prevCode,    (* channel                                                   *)
  review,      (* channel: the reviewer's last verdict and comments         *)
  attempts,    (* the surge scheduler's counter, kept for the whole task    *)
  pause,       (* the last pause: its kind and length                       *)
  board,       (* .write-review/status.json: phase and verdict              *)
  published,   (* the verdict in the last review.completed event            *)
  judged       (* history: the review channel is about the code channel     *)

channels == <<iteration, code, prevCode, review>>
vars == <<node, channels, attempts, pause, board, published, judged>>

Verdict == {"approved", "changes_requested", "blocked"}

(* What routing tells apart in the comments: none, one or two minor ones,  *)
(* more minor ones, or at least one that is major or critical.             *)
Comments == {"none", "fewMinor", "manyMinor", "major"}

NoReview == [verdict |-> "none", comments |-> "none"]

Review == [verdict: Verdict, comments: Comments]

Node == {"plan", "write", "review", "finish", "paused", "done", "failed"}

LoopTypeOK ==
  /\ node \in Node
  /\ iteration \in 0..Larger(1, MaxIterations)
  /\ code \in Draft \cup {NoDraft}
  /\ prevCode \in Draft \cup {NoDraft}
  /\ review \in Review \cup {NoReview}
  /\ attempts \in 0..MaxAttempts
  /\ board \in [phase: {"idle", "writing"} \cup Verdict, verdict: Verdict \cup {"none"}]
  /\ published \in Verdict \cup {"none"}
  /\ judged \in BOOLEAN

PauseTypeOK ==
  pause \in [kind: {"none", "surge", "exhausted", "quota"}, length: Nat]

TypeOK == LoopTypeOK /\ PauseTypeOK

Init ==
  /\ node = "plan"
  /\ iteration = 0
  /\ code = NoDraft
  /\ prevCode = NoDraft
  /\ review = NoReview
  /\ attempts = 0
  /\ pause = [kind |-> "none", length |-> 0]
  /\ board = [phase |-> "idle", verdict |-> "none"]
  /\ published = "none"
  /\ judged = FALSE

----------------------------------------------------------------------------
(* planNode; onStep re-initialises the scoreboard.                         *)
PlanStep ==
  /\ node = "plan"
  /\ node' = "write"
  /\ iteration' = 0
  /\ board' = [phase |-> "writing", verdict |-> "none"]
  /\ UNCHANGED <<code, prevCode, review, attempts, pause, published, judged>>

(* Mutant of WriteStep: the iteration is not counted.                      *)
WriteStepUncounted(draft) ==
  /\ node = "write"
  /\ node' = "review"
  /\ prevCode' = code
  /\ code' = draft
  /\ judged' = FALSE
  /\ UNCHANGED <<iteration, review, attempts, pause, board, published>>

(* writeNode: the last draft is kept for the comparison that detects a     *)
(* stuck coder.                                                            *)
WriteStep(draft) ==
  /\ node = "write"
  /\ node' = "review"
  /\ iteration' = iteration + 1
  /\ prevCode' = code
  /\ code' = draft
  /\ judged' = FALSE
  /\ UNCHANGED <<review, attempts, pause, board, published>>

(* Mutant of Finished: a blocked draft is sent back to the coder.          *)
FinishedUnlessBlocked(r) ==
  \/ r.verdict = "approved"
  \/ iteration >= MaxIterations
  \/ r.comments \in {"none", "fewMinor"}
  \/ prevCode # NoDraft /\ code = prevCode

(* routeAfterReview, on the state the review has been written to.          *)
Finished(r) ==
  \/ r.verdict \in {"approved", "blocked"}
  \/ iteration >= MaxIterations
  \/ r.comments \in {"none", "fewMinor"}
  \/ prevCode # NoDraft /\ code = prevCode

(* Mutant of ReviewStep: a later draft keeps the first draft's review.     *)
ReviewStepCached(r) ==
  /\ node = "review"
  /\ review' = IF review = NoReview THEN r ELSE review
  /\ judged' = (review = NoReview)
  /\ node' = IF Finished(review') THEN "finish" ELSE "write"
  /\ UNCHANGED <<iteration, code, prevCode, attempts, pause, board, published>>

(* reviewNode calls onStep with the state the node was given, before this  *)
(* review is part of it: the event and the scoreboard get the last one.    *)
ReviewStep(r) ==
  /\ node = "review"
  /\ review' = r
  /\ judged' = TRUE
  /\ published' = IF review = NoReview THEN "blocked" ELSE review.verdict
  /\ board' = IF review = NoReview THEN board
              ELSE [phase |-> review.verdict, verdict |-> review.verdict]
  /\ node' = IF Finished(r) THEN "finish" ELSE "write"
  /\ UNCHANGED <<iteration, code, prevCode, attempts, pause>>

FinishStep ==
  /\ node = "finish"
  /\ node' = "done"
  /\ UNCHANGED <<channels, attempts, pause, board, published, judged>>

----------------------------------------------------------------------------
(* A node that calls a model fails, and the invocation with it.            *)
Calling == node \in {"plan", "write", "review"}

Pause(kind, length) ==
  /\ node' = "paused"
  /\ pause' = [kind |-> kind, length |-> length]
  /\ UNCHANGED <<channels, board, published, judged>>

(* invokeWithSurgeRetry: nextAttempt() counts, the delay escalates.        *)
Surge(retryAfter) ==
  /\ Calling
  /\ attempts < MaxAttempts
  /\ attempts' = attempts + 1
  /\ \E delay \in SurgeDelays(retryAfter, attempts + 1) : Pause("surge", delay)

(* nextAttempt() is null; the daemon's onExhausted waits and returns true. *)
SurgeExhausted ==
  /\ Calling
  /\ attempts = MaxAttempts
  /\ Pause("exhausted", ExhaustedWait(attempts))
  /\ UNCHANGED attempts

(* invokeWithGLMRetry: wait until the quota is reset.                      *)
QuotaExhausted ==
  /\ Calling
  /\ Pause("quota", 0)
  /\ UNCHANGED attempts

(* The pause is over and the graph is invoked again.  Without a saver its  *)
(* channels start from their defaults.                                     *)
Resume ==
  /\ node = "paused"
  /\ node' = "plan"
  /\ IF Checkpointing
     THEN UNCHANGED <<channels, judged>>
     ELSE /\ iteration' = 0
          /\ code' = NoDraft
          /\ prevCode' = NoDraft
          /\ review' = NoReview
          /\ judged' = FALSE
  /\ UNCHANGED <<attempts, pause, board, published>>

(* Any other error ends the task.                                          *)
Fails ==
  /\ Calling
  /\ node' = "failed"
  /\ UNCHANGED <<channels, attempts, pause, board, published, judged>>

(* Mutant of TaskTimeout: the timer runs during invocations only.          *)
TaskTimeoutOfInvocation ==
  /\ HasTimeout
  /\ node \notin {"done", "failed", "paused"}
  /\ node' = "failed"
  /\ UNCHANGED <<channels, attempts, pause, board, published, judged>>

(* The race of _runTask is lost, whatever the loop is doing.               *)
TaskTimeout ==
  /\ HasTimeout
  /\ node \notin {"done", "failed"}
  /\ node' = "failed"
  /\ UNCHANGED <<channels, attempts, pause, board, published, judged>>

----------------------------------------------------------------------------
Refused ==
  \/ \E retryAfter \in RetryAfter : Surge(retryAfter)
  \/ SurgeExhausted
  \/ QuotaExhausted

Works ==
  \/ PlanStep
  \/ \E draft \in Draft : WriteStep(draft)
  \/ \E r \in Review : ReviewStep(r)
  \/ FinishStep
  \/ Resume

Next == Works \/ Refused \/ Fails \/ TaskTimeout

Spec == Init /\ [][Next]_vars

(* Every model call of a live daemon returns or fails, and every pause is  *)
(* a timer that fires.                                                     *)
FairSpec == Spec /\ WF_vars(Works \/ Refused \/ Fails)

----------------------------------------------------------------------------
(* The retry wrappers never hammer a provider, and never sleep longer than *)
(* the policy's ceiling, whatever the provider states and the jitter draws.*)
PauseWithinPolicy ==
  node = "paused" /\ pause.kind \in {"surge", "exhausted"} =>
    pause.length \in MinDelay..MaxDelay

(* The loop gives up on changes it should still make only when the cap is  *)
(* reached or two drafts of this run were the same: never on the first     *)
(* draft of a run, unless one iteration is all it may have.                *)
GivesUpFairly ==
  node = "finish" /\ review.verdict = "changes_requested"
                  /\ review.comments \in {"manyMinor", "major"} =>
    iteration >= Smaller(2, MaxIterations)

(* Unless the provider refuses for ever, the task ends.                    *)
EndsUnlessRefused ==
  <>[][~Refused]_vars => <>(node \in {"done", "failed"})

(* With a task timeout, which is a timer that fires, it ends even then.    *)
TimeoutEnds ==
  WF_vars(TaskTimeout) => <>(node \in {"done", "failed"})

----------------------------------------------------------------------------
(* The loop implements ReviewProtocol.                                     *)
DraftState ==
  IF node \in {"plan", "paused", "failed"} \/ (node = "write" /\ iteration = 0)
  THEN "none"
  ELSE IF judged THEN review.verdict ELSE "unjudged"

Outcome ==
  IF node = "done" THEN review.verdict
  ELSE IF node = "failed" THEN "failed" ELSE "running"

Protocol == INSTANCE ReviewProtocol WITH draft <- DraftState, outcome <- Outcome

RefinesReviewProtocol == Protocol!Spec

(* The inductive invariant: between a draft and its review nothing else    *)
(* runs, so the loop moves on, and ends, only with a review of its draft.  *)
JudgedBeforeMovingOn ==
  /\ node = "review" => ~judged /\ iteration > 0
  /\ node \in {"finish", "done"} => judged /\ review \in Review
  /\ node = "write" /\ iteration > 0 =>
       judged /\ review.verdict = "changes_requested" /\ iteration < MaxIterations

----------------------------------------------------------------------------
(* What documentation, comments and tests say, and the code does not do.   *)

(* README.md, I5: "Loop always terminates: maxIterations, blocked verdict, *)
(* or error".                                                              *)
LoopAlwaysTerminates == <>(node \in {"done", "failed"})

(* daemon.ts, onExhausted: "Escalating backoff: [...] Surge 1: sleep 3min  *)
(* -> retry. Surge 2: sleep 6min -> retry."                                *)
ExhaustedEscalates ==
  [][(SurgeExhausted /\ pause.kind = "exhausted")
       => pause'.length > pause.length \/ pause'.length = MaxDelay]_vars

(* README.md, I4: "Every transition is observable via HerdrEventBus".      *)
PublishedIsVerdict == node = "done" => published = review.verdict

(* scoreboard.test.ts expects the phase "approved" after an approval.      *)
ScoreboardApproved ==
  node = "done" /\ review.verdict = "approved" => board.phase = "approved"
=============================================================================
