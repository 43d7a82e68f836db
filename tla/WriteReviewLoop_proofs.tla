----------------------- MODULE WriteReviewLoop_proofs -----------------------
(***************************************************************************)
(* Proofs about WriteReviewLoop: the loop implements ReviewProtocol, with  *)
(* JudgedBeforeMovingOn as the inductive invariant; its pauses escalate    *)
(* and stay within the surge policy; and its steps count towards its end.  *)
(***************************************************************************)
EXTENDS WriteReviewLoop, WellFoundedInduction, TLAPS

-----------------------------------------------------------------------------
(* The recursive function Factor is what its definition says.  Induction   *)
(* over the naturals is used in the form of a least counterexample.        *)
LEMMA LeastOf ==
  ASSUME NEW S, S \subseteq Nat, S # {}
  PROVE  \E least \in S : \A n \in S : least <= n
  <1> DEFINE R == OpToRel(<, Nat)
  <1> HIDE DEF R
  <1>1. \A x, y \in Nat : x < y => <<x, y>> \in R
    BY DEF OpToRel, R
  <1>2. IsWellFoundedOn(R, Nat)
    BY NatLessThanWellFounded DEF R
  <1>3. PICK least \in S : \A n \in S : ~(<<n, least>> \in R)
    BY <1>2, WFMin
  <1>4. ASSUME NEW n \in S PROVE least <= n
    <2>1. n \in Nat /\ least \in Nat /\ ~(n < least)
      BY <1>1, <1>3
    <2> QED
      BY <2>1
  <1> QED
    BY <1>4

(* The factors after at most n refusals.                                   *)
Table(n) ==
  {f \in [0..n -> Nat] :
     f[0] = 1 /\ \A k \in 1..n : f[k] = Multiplier * f[k - 1]}

LEMMA TableExists == \A n \in Nat : Table(n) # {}
  <1> DEFINE None == {n \in Nat : Table(n) = {}}
  <1> SUFFICES ASSUME None # {} PROVE FALSE
    OBVIOUS
  <1>1. PICK n \in None : \A m \in None : n <= m
    BY LeastOf
  <1>2. n \in Nat /\ Table(n) = {}
    OBVIOUS
  <1>3. CASE n = 0
    <2> DEFINE f == [k \in 0..0 |-> 1]
    <2>1. f \in [0..0 -> Nat] /\ f[0] = 1 /\ 1..0 = {}
      OBVIOUS
    <2> HIDE DEF f
    <2>2. f \in Table(0)
      BY <2>1 DEF Table
    <2> QED
      BY <1>2, <1>3, <2>2
  <1>4. CASE n # 0
    <2>1. n - 1 \in Nat /\ ~(n <= n - 1)
      BY <1>2, <1>4
    <2>2. PICK f : f \in Table(n - 1)
      BY <1>1, <2>1
    <2>3. f \in [0..(n - 1) -> Nat] /\ f[0] = 1
          /\ \A k \in 1..(n - 1) : f[k] = Multiplier * f[k - 1]
      BY <2>2 DEF Table
    <2> DEFINE next == Multiplier * f[n - 1]
               g == [k \in 0..n |-> IF k = n THEN next ELSE f[k]]
    <2>4. next \in Nat
      BY <2>1, <2>3, PolicyAssumption
    <2> HIDE DEF next
    <2>5. g \in [0..n -> Nat]
      BY <2>1, <2>3, <2>4
    <2>6. g[n] = next /\ \A k \in 0..(n - 1) : g[k] = f[k]
      BY <1>2, <1>4
    <2> HIDE DEF g
    <2>7. g[0] = 1 /\ g[n] = Multiplier * g[n - 1]
      BY <1>2, <1>4, <2>3, <2>6 DEF next
    <2>8. ASSUME NEW k \in 1..(n - 1) PROVE g[k] = Multiplier * g[k - 1]
      BY <1>2, <2>3, <2>6
    <2>9. \A k \in 1..n : k = n \/ k \in 1..(n - 1)
      BY <1>2
    <2> QED
      BY <1>2, <2>5, <2>7, <2>8, <2>9 DEF Table
  <1> QED
    BY <1>3, <1>4

LEMMA TablesAgree ==
  ASSUME NEW m \in Nat, NEW n \in Nat, m <= n, NEW f \in Table(m), NEW g \in Table(n)
  PROVE  f[m] = g[m]
  <1> DEFINE Differ == {k \in 0..m : f[k] # g[k]}
  <1>1. /\ f[0] = 1 /\ \A k \in 1..m : f[k] = Multiplier * f[k - 1]
        /\ g[0] = 1 /\ \A k \in 1..n : g[k] = Multiplier * g[k - 1]
    BY DEF Table
  <1>2. ASSUME Differ # {} PROVE FALSE
    <2>1. PICK k \in Differ : \A j \in Differ : k <= j
      <3>1. Differ \subseteq Nat
        OBVIOUS
      <3> HIDE DEF Differ
      <3> QED
        BY <1>2, <3>1, LeastOf
    <2>2. k \in 1..m /\ k \in 1..n /\ k - 1 \in 0..m /\ ~(k <= k - 1)
      BY <1>1, <2>1
    <2>3. f[k - 1] = g[k - 1]
      BY <2>1, <2>2
    <2>4. f[k] = g[k]
      BY <1>1, <2>2, <2>3
    <2> QED
      BY <2>1, <2>4
  <1> QED
    BY <1>2

LEMMA FactorIsPower ==
  /\ Factor \in [Nat -> Nat \ {0}]
  /\ Factor[0] = 1
  /\ \A n \in Nat : Factor[n + 1] = Multiplier * Factor[n]
  <1> DEFINE Of(n) == CHOOSE f : f \in Table(n)
             power == [n \in Nat |-> Of(n)[n]]
             Equation(f) ==
               f = [n \in Nat |-> IF n = 0 THEN 1 ELSE Multiplier * f[n - 1]]
  <1>1. \A n \in Nat : Of(n) \in Table(n)
    BY TableExists
  <1> HIDE DEF Of
  <1>2. ASSUME NEW n \in Nat
        PROVE  power[n] = IF n = 0 THEN 1 ELSE Multiplier * power[n - 1]
    <2>1. CASE n = 0
      BY <1>1, <2>1 DEF Table
    <2>2. CASE n # 0
      <3>1. n - 1 \in Nat /\ n - 1 <= n /\ n \in 1..n
        BY <2>2
      <3>2. Of(n)[n] = Multiplier * Of(n)[n - 1]
        BY <1>1, <3>1 DEF Table
      <3>3. Of(n - 1)[n - 1] = Of(n)[n - 1]
        BY <1>1, <3>1, TablesAgree
      <3> QED
        BY <2>2, <3>1, <3>2, <3>3
    <2> QED
      BY <2>1, <2>2
  <1>3. Equation(power)
    BY <1>2
  <1> HIDE DEF power
  <1>4. Factor = CHOOSE f : Equation(f)
    BY DEF Factor
  <1> HIDE DEF Equation
  <1>5. Equation(Factor)
    BY <1>3, <1>4
  <1>6. /\ DOMAIN Factor = Nat /\ Factor = [n \in Nat |-> Factor[n]]
        /\ \A n \in Nat : Factor[n] = IF n = 0 THEN 1 ELSE Multiplier * Factor[n - 1]
    BY <1>5 DEF Equation
  <1> DEFINE Wrong == {n \in Nat : Factor[n] \notin Nat \ {0}}
  <1>7. ASSUME Wrong # {} PROVE FALSE
    <2>1. PICK n \in Wrong : \A m \in Wrong : n <= m
      BY <1>7, LeastOf
    <2>2. n \in Nat /\ Factor[n] \notin Nat \ {0} /\ n # 0 /\ n - 1 \in Nat
      BY <1>6, <2>1
    <2>3. Factor[n - 1] \in Nat \ {0}
      BY <2>1, <2>2
    <2>4. \A x, y \in Nat \ {0} : x * y \in Nat \ {0}
      OBVIOUS
    <2>5. Multiplier * Factor[n - 1] \in Nat \ {0}
      BY <2>3, <2>4, PolicyAssumption
    <2> QED
      BY <1>6, <2>2, <2>5
  <1>8. \A n \in Nat : Factor[n] \in Nat \ {0}
    BY <1>7
  <1>9. Factor \in [Nat -> Nat \ {0}]
    BY <1>6, <1>8
  <1>10. Factor[0] = 1
    BY <1>6
  <1>11. ASSUME NEW n \in Nat PROVE Factor[n + 1] = Multiplier * Factor[n]
    <2>1. n + 1 \in Nat /\ n + 1 # 0 /\ (n + 1) - 1 = n
      OBVIOUS
    <2> QED
      BY <1>6, <2>1
  <1> QED
    BY <1>9, <1>10, <1>11

LEMMA ClampBounds ==
  ASSUME NEW x \in Int
  PROVE  Clamp(x) \in MinDelay..MaxDelay
  BY PolicyAssumption DEF Clamp, Smaller, Larger

(* computeSurgeDelayMs stays between the floor and the ceiling, with and   *)
(* without jitter, whatever delay the provider states.                     *)
LEMMA SurgeDelayBounds ==
  ASSUME NEW retryAfter \in Nat, NEW attempt \in Nat
  PROVE  /\ Escalated(retryAfter, attempt) \in MinDelay..MaxDelay
         /\ SurgeDelays(retryAfter, attempt) \subseteq MinDelay..MaxDelay
  <1>1. Larger(0, attempt - 1) \in Nat
    BY DEF Larger
  <1>2. retryAfter * Factor[Larger(0, attempt - 1)] \in Int
    BY <1>1, FactorIsPower
  <1>3. Escalated(retryAfter, attempt) \in MinDelay..MaxDelay
    BY <1>2, ClampBounds DEF Escalated
  <1>4. ASSUME NEW j \in (-Jitter(Escalated(retryAfter, attempt)))..Jitter(Escalated(retryAfter, attempt))
        PROVE  Clamp(Escalated(retryAfter, attempt) + j) \in MinDelay..MaxDelay
    <2>1. Escalated(retryAfter, attempt) + j \in Int
      BY <1>3, PolicyAssumption
    <2> QED
      BY <2>1, ClampBounds
  <1> QED
    BY <1>3, <1>4 DEF SurgeDelays

(* "3 -> 6 -> 12 min": without jitter the pauses never shrink from one     *)
(* refusal to the next, whatever delay the provider states and wherever    *)
(* floor and ceiling are.                                                  *)
THEOREM PausesNeverShrink ==
  \A retryAfter, attempt \in Nat :
    Escalated(retryAfter, attempt) <= Escalated(retryAfter, attempt + 1)
  <1> SUFFICES ASSUME NEW retryAfter \in Nat, NEW attempt \in Nat
               PROVE  Escalated(retryAfter, attempt) <= Escalated(retryAfter, attempt + 1)
    OBVIOUS
  <1> DEFINE now == Factor[Larger(0, attempt - 1)]
             next == Factor[Larger(0, attempt)]
  <1>1. now \in Nat /\ next \in Nat /\ now <= next
    <2>1. CASE attempt = 0
      <3>1. Larger(0, attempt - 1) = 0 /\ Larger(0, attempt) = 0
        BY <2>1 DEF Larger
      <3> QED
        BY <3>1, FactorIsPower
    <2>2. CASE attempt # 0
      <3>1. /\ attempt - 1 \in Nat
            /\ Larger(0, attempt - 1) = attempt - 1
            /\ Larger(0, attempt) = (attempt - 1) + 1
        BY <2>2 DEF Larger
      <3>2. next = Multiplier * now /\ now \in Nat
        BY <3>1, FactorIsPower
      <3> HIDE DEF now, next
      <3>3. \A m \in Nat \ {0}, x \in Nat : m * x \in Nat /\ x <= m * x
        OBVIOUS
      <3> QED
        BY <3>2, <3>3, PolicyAssumption
    <2> QED
      BY <2>1, <2>2
  <1>2. /\ Escalated(retryAfter, attempt) = Clamp(retryAfter * now)
        /\ Escalated(retryAfter, attempt + 1) = Clamp(retryAfter * next)
    <2>1. (attempt + 1) - 1 = attempt
      OBVIOUS
    <2> QED
      BY <2>1 DEF Escalated
  <1> HIDE DEF now, next
  <1>3. \A r, x, y \in Nat : x <= y => r * x \in Nat /\ r * y \in Nat /\ r * x <= r * y
    OBVIOUS
  <1>4. \A x, y \in Nat : x <= y => Clamp(x) <= Clamp(y)
    BY PolicyAssumption DEF Clamp, Smaller, Larger
  <1> QED
    BY <1>1, <1>2, <1>3, <1>4

----------------------------------------------------------------------------
LEMMA LoopTypeInit == Init => LoopTypeOK
  <1>1. 0 \in 0..MaxAttempts /\ 0 \in 0..Larger(1, MaxIterations)
    BY PolicyAssumption, LoopAssumption DEF Larger
  <1>2. Init => board \in [phase: {"idle", "writing"} \cup Verdict, verdict: Verdict \cup {"none"}]
    BY DEF Init
  <1>3. Init => judged \in BOOLEAN
    BY DEF Init
  <1> QED
    BY <1>1, <1>2, <1>3 DEF Init, LoopTypeOK, Node

(* The loop's type and the invariant on judged drafts, step by step.       *)
LoopInv == LoopTypeOK /\ JudgedBeforeMovingOn

LEMMA LoopInvInit == Init => LoopInv
  <1> SUFFICES ASSUME Init PROVE LoopInv
    OBVIOUS
  <1>1. LoopTypeOK
    BY LoopTypeInit
  <1> QED
    BY <1>1 DEF Init, LoopInv, JudgedBeforeMovingOn

LEMMA LoopInvStep == LoopInv /\ [Next]_vars => LoopInv'
  <1> SUFFICES ASSUME LoopInv, [Next]_vars PROVE LoopInv'
    OBVIOUS
  <1> USE PolicyAssumption, LoopAssumption
      DEF LoopInv, LoopTypeOK, JudgedBeforeMovingOn, Node, Larger, channels
  <1>1. CASE PlanStep
    BY <1>1 DEF PlanStep, Verdict
  <1>2. ASSUME NEW draft \in Draft, WriteStep(draft) PROVE LoopInv'
    <2>1. node = "write" /\ node' = "review" /\ ~judged' /\ judged' \in BOOLEAN
      BY <1>2 DEF WriteStep
    <2>2. iteration' = iteration + 1 /\ iteration' \in 0..Larger(1, MaxIterations)
      BY <1>2, <2>1 DEF WriteStep
    <2>3. /\ code' \in Draft \cup {NoDraft} /\ prevCode' \in Draft \cup {NoDraft}
          /\ UNCHANGED <<review, attempts, board, published>>
      BY <1>2 DEF WriteStep
    <2> QED
      BY <2>1, <2>2, <2>3
  <1>3. ASSUME NEW r \in Review, ReviewStep(r) PROVE LoopInv'
    <2>1. /\ board' \in [phase: {"idle", "writing"} \cup Verdict, verdict: Verdict \cup {"none"}]
          /\ published' \in Verdict \cup {"none"}
      BY <1>3 DEF ReviewStep, Review, NoReview, Verdict
    <2>2. CASE Finished(r)
      BY <1>3, <2>1, <2>2 DEF ReviewStep
    <2>3. CASE ~Finished(r)
      <3>1. r.verdict = "changes_requested" /\ iteration < MaxIterations
        BY <2>3 DEF Finished, Review, Verdict
      <3> QED
        BY <1>3, <2>1, <2>3, <3>1 DEF ReviewStep
    <2> QED
      BY <2>2, <2>3
  <1>4. CASE FinishStep
    BY <1>4 DEF FinishStep
  <1>5. CASE Resume
    <2>1. CASE Checkpointing
      BY <1>5, <2>1 DEF Resume
    <2>2. CASE ~Checkpointing
      <3>1. /\ node' = "plan" /\ iteration' = 0 /\ code' = NoDraft /\ prevCode' = NoDraft
            /\ review' = NoReview /\ judged' = FALSE
            /\ UNCHANGED <<attempts, board, published>>
        BY <1>5, <2>2 DEF Resume
      <3>2. iteration' \in 0..Larger(1, MaxIterations)
        BY <3>1
      <3> QED
        BY <3>1, <3>2
    <2> QED
      BY <2>1, <2>2
  <1>6. CASE Refused
    <2>1. node' = "paused" /\ UNCHANGED <<channels, board, published, judged>>
      BY <1>6 DEF Refused, Surge, SurgeExhausted, QuotaExhausted, Pause
    <2>2. attempts' \in 0..MaxAttempts
      BY <1>6 DEF Refused, Surge, SurgeExhausted, QuotaExhausted
    <2> QED
      BY <2>1, <2>2
  <1>7. CASE Fails
    BY <1>7 DEF Fails
  <1>8. CASE TaskTimeout
    BY <1>8 DEF TaskTimeout
  <1>9. CASE UNCHANGED vars
    BY <1>9 DEF vars
  <1> QED
    BY <1>1, <1>2, <1>3, <1>4, <1>5, <1>6, <1>7, <1>8, <1>9 DEF Next, Works

(* Iterations stay within the cap, and the loop moves on from a draft only *)
(* with a review of it.                                                    *)
THEOREM LoopInvariance == Spec => []LoopInv
  BY LoopInvInit, LoopInvStep, PTL DEF Spec

(* The verdict the loop acts on is of the draft it has, on every path.     *)
THEOREM JudgedCorrect == Spec => []JudgedBeforeMovingOn
  <1>1. LoopInv => JudgedBeforeMovingOn
    BY DEF LoopInv
  <1> QED
    BY <1>1, LoopInvariance, PTL

----------------------------------------------------------------------------
(* Every surge pause, and every wait after the attempts are exhausted, is  *)
(* within the policy, when there is at least one attempt and the daemon's  *)
(* own wait is not shorter than the floor.                                 *)
PauseInv ==
  /\ PauseTypeOK
  /\ pause.kind \in {"surge", "exhausted"} => pause.length \in MinDelay..MaxDelay

LEMMA PauseStep ==
  ASSUME RetryAfter \subseteq Nat, MaxAttempts >= 1, MinDelay <= BaseWait,
         LoopTypeOK, PauseInv, [Next]_vars
  PROVE  PauseInv'
  <1> USE PolicyAssumption DEF PauseInv, PauseTypeOK
  <1>1. ASSUME NEW retryAfter \in RetryAfter, Surge(retryAfter) PROVE PauseInv'
    <2>1. attempts + 1 \in Nat
      BY DEF LoopTypeOK
    <2>2. PICK delay \in SurgeDelays(retryAfter, attempts + 1) : Pause("surge", delay)
      BY <1>1 DEF Surge
    <2>3. delay \in MinDelay..MaxDelay
      BY <2>1, <2>2, SurgeDelayBounds
    <2> QED
      BY <2>2, <2>3 DEF Pause
  <1>2. CASE SurgeExhausted
    <2>1. BaseWait * MaxAttempts \in Nat /\ BaseWait <= BaseWait * MaxAttempts
      OBVIOUS
    <2>2. ExhaustedWait(MaxAttempts) \in MinDelay..MaxDelay
      BY <2>1 DEF ExhaustedWait, Smaller
    <2> QED
      BY <1>2, <2>2 DEF SurgeExhausted, Pause
  <1>3. CASE QuotaExhausted
    BY <1>3 DEF QuotaExhausted, Pause
  <1>4. CASE UNCHANGED pause
    BY <1>4
  <1>5. Works \/ Fails \/ TaskTimeout \/ UNCHANGED vars => UNCHANGED pause
    BY DEF Works, PlanStep, WriteStep, ReviewStep, FinishStep, Resume, Fails, TaskTimeout, vars
  <1> QED
    BY <1>1, <1>2, <1>3, <1>4, <1>5 DEF Next, Refused

(* The exhausted wait is a length of time even where it is below the floor.*)
LEMMA PauseTypeStep ==
  ASSUME LoopTypeOK, PauseTypeOK, [Next]_vars
  PROVE  PauseTypeOK'
  <1>1. ASSUME NEW retryAfter \in RetryAfter, Surge(retryAfter) PROVE PauseTypeOK'
    <2>1. attempts + 1 \in Nat /\ retryAfter \in Nat
      BY PolicyAssumption, LoopAssumption DEF LoopTypeOK
    <2>2. PICK delay \in SurgeDelays(retryAfter, attempts + 1) : Pause("surge", delay)
      BY <1>1 DEF Surge
    <2>3. delay \in Nat
      BY <2>1, <2>2, SurgeDelayBounds, PolicyAssumption
    <2> QED
      BY <2>2, <2>3 DEF Pause, PauseTypeOK
  <1>2. CASE SurgeExhausted
    <2>1. attempts \in Nat
      BY PolicyAssumption DEF LoopTypeOK
    <2>2. BaseWait * attempts \in Nat
      BY <2>1, PolicyAssumption
    <2>3. ExhaustedWait(attempts) \in Nat
      BY <2>2, PolicyAssumption DEF ExhaustedWait, Smaller
    <2> QED
      BY <1>2, <2>3 DEF SurgeExhausted, Pause, PauseTypeOK
  <1>3. CASE QuotaExhausted
    BY <1>3 DEF QuotaExhausted, Pause, PauseTypeOK
  <1>4. CASE UNCHANGED pause
    BY <1>4 DEF PauseTypeOK
  <1>5. Works \/ Fails \/ TaskTimeout \/ UNCHANGED vars => UNCHANGED pause
    BY DEF Works, PlanStep, WriteStep, ReviewStep, FinishStep, Resume, Fails, TaskTimeout, vars
  <1> QED
    BY <1>1, <1>2, <1>3, <1>4, <1>5 DEF Next, Refused

(* The channels, the retry counter, the pauses and the scoreboard of a     *)
(* loop keep their types: the iterations never pass the cap and the        *)
(* scheduler never counts past its attempts, however often it starts over. *)
THEOREM TypeCorrect == Spec => []TypeOK
  <1>1. Init => PauseTypeOK
    BY DEF Init, PauseTypeOK
  <1>2. LoopInv /\ PauseTypeOK /\ [Next]_vars => PauseTypeOK'
    BY PauseTypeStep DEF LoopInv
  <1>3. LoopInv /\ PauseTypeOK => TypeOK
    BY DEF LoopInv, TypeOK
  <1> QED
    BY <1>1, <1>2, <1>3, LoopInvariance, PTL DEF Spec

(* Every pause the retry wrappers or the exhausted wait make lies between  *)
(* the floor and the ceiling, if the daemon may retry at all.              *)
THEOREM PausesWithinPolicy ==
  ASSUME MaxAttempts >= 1, MinDelay <= BaseWait
  PROVE  Spec => []PauseWithinPolicy
  <1>1. Init => PauseInv
    BY DEF Init, PauseInv, PauseTypeOK
  <1>2. LoopInv /\ PauseInv /\ [Next]_vars => PauseInv'
    BY PauseStep, LoopAssumption DEF LoopInv
  <1>3. PauseInv => PauseWithinPolicy
    BY DEF PauseInv, PauseWithinPolicy
  <1> QED
    BY <1>1, <1>2, <1>3, LoopInvariance, PTL DEF Spec

----------------------------------------------------------------------------
(* Every step of the loop is a step of ReviewProtocol or leaves its state. *)
LEMMA RefinementStep ==
  ASSUME LoopInv, LoopInv', [Next]_vars
  PROVE  [Protocol!Next]_<<DraftState, Outcome>>
  <1> USE LoopAssumption
      DEF LoopInv, LoopTypeOK, JudgedBeforeMovingOn, DraftState, Outcome, channels
  <1>1. CASE PlanStep
    BY <1>1 DEF PlanStep
  <1>2. ASSUME NEW draft \in Draft, WriteStep(draft) PROVE Protocol!Write
    <2>1. node = "write" /\ node' = "review" /\ iteration' = iteration + 1 /\ ~judged'
      BY <1>2 DEF WriteStep
    <2>2. DraftState \in {"none", "changes_requested"} /\ Outcome = "running"
      BY <2>1
    <2>3. DraftState' = "unjudged" /\ Outcome' = "running"
      BY <2>1
    <2> QED
      BY <2>2, <2>3 DEF Protocol!Write
  <1>3. ASSUME NEW r \in Review, ReviewStep(r) PROVE Protocol!Judge(r.verdict)
    <2>1. /\ node = "review" /\ node' \in {"finish", "write"}
          /\ review' = r /\ judged' /\ iteration' = iteration
      BY <1>3 DEF ReviewStep
    <2>2. DraftState = "unjudged" /\ Outcome = "running"
      BY <2>1
    <2>3. DraftState' = r.verdict /\ Outcome' = "running"
      BY <2>1
    <2> QED
      BY <2>2, <2>3 DEF Protocol!Judge
  <1>4. CASE FinishStep
    <2>1. node = "finish" /\ node' = "done" /\ UNCHANGED <<judged, review>>
      BY <1>4 DEF FinishStep
    <2>2. Protocol!Conclude
      BY <2>1 DEF Protocol!Conclude, Review
    <2> QED
      BY <2>2 DEF Protocol!Next
  <1>5. CASE Resume
    BY <1>5 DEF Resume
  <1>6. CASE Refused
    <2>1. node \in {"plan", "write", "review"} /\ node' = "paused"
      BY <1>6 DEF Refused, Surge, SurgeExhausted, QuotaExhausted, Pause, Calling
    <2>2. Protocol!StartOver
      BY <2>1 DEF Protocol!StartOver
    <2> QED
      BY <2>2 DEF Protocol!Next
  <1>7. CASE Fails \/ TaskTimeout
    <2>1. node \notin {"done", "failed"} /\ node' = "failed"
      BY <1>7 DEF Fails, TaskTimeout, Calling
    <2>2. Protocol!Fail
      BY <2>1 DEF Protocol!Fail
    <2> QED
      BY <2>2 DEF Protocol!Next
  <1>8. CASE UNCHANGED vars
    BY <1>8 DEF vars
  <1>9. \A r \in Review : r.verdict \in Verdict
    BY DEF Review
  <1> QED
    BY <1>1, <1>2, <1>3, <1>4, <1>5, <1>6, <1>7, <1>8, <1>9 DEF Next, Works, Protocol!Next

(* The verdict a loop ends with is the reviewer's verdict on its last      *)
(* draft: the loop implements ReviewProtocol.                              *)
THEOREM LoopRefinement == Spec => RefinesReviewProtocol
  <1>1. Init => Protocol!Init
    BY DEF Init, Protocol!Init, DraftState, Outcome
  <1>2. LoopInv /\ LoopInv' /\ [Next]_vars => [Protocol!Next]_<<DraftState, Outcome>>
    BY RefinementStep
  <1> QED
    BY <1>1, <1>2, LoopInvariance, PTL DEF Spec, RefinesReviewProtocol, Protocol!Spec

-----------------------------------------------------------------------------
(* What brings the loop to its end: how many steps it can still take before*)
(* it ends or the provider refuses.                                        *)
Drafts == Larger(1, MaxIterations)

Rank ==
  IF node = "paused" THEN 2 * Drafts + 5
  ELSE IF node = "plan" THEN 2 * Drafts + 4
  ELSE IF node = "review" THEN 2 * (Drafts - iteration) + 3
  ELSE IF node = "write" THEN 2 * (Drafts - iteration) + 2
  ELSE IF node = "finish" THEN 1 ELSE 0

EveryStepCounts ==
  [][Refused \/ (Rank \in Nat /\ Rank' < Rank)]_vars

LEMMA DraftsAreCapped == Drafts \in Nat /\ Drafts >= 1 /\ Drafts >= MaxIterations
  BY LoopAssumption DEF Drafts, Larger

LEMMA RankFalls ==
  ASSUME LoopInv, Next, ~Refused
  PROVE  Rank \in Nat /\ Rank' < Rank
  <1>1. iteration \in 0..Drafts /\ iteration \in Int /\ Drafts \in Int
    BY DraftsAreCapped DEF LoopInv, LoopTypeOK, Drafts
  <1> USE DraftsAreCapped, <1>1
  <1>2. Drafts' = Drafts
    BY DEF Drafts, Larger
  <1>3. Rank \in Nat
    BY DEF Rank
  <1>4. CASE PlanStep
    BY <1>2, <1>4 DEF PlanStep, Rank
  <1>5. ASSUME NEW draft \in Draft, WriteStep(draft) PROVE Rank' < Rank
    BY <1>2, <1>5 DEF WriteStep, Rank
  <1>6. ASSUME NEW r \in Review, ReviewStep(r) PROVE Rank' < Rank
    BY <1>2, <1>6 DEF ReviewStep, Rank
  <1>7. CASE FinishStep
    BY <1>2, <1>7 DEF FinishStep, Rank
  <1>8. CASE Resume
    BY <1>2, <1>8 DEF Resume, Rank
  <1>9. CASE Fails
    <2>1. node \in {"plan", "write", "review"} /\ node' = "failed"
      BY <1>9 DEF Fails, Calling
    <2> QED
      BY <2>1 DEF Rank
  <1>10. CASE TaskTimeout
    <2>1. node \in Node \ {"done", "failed"} /\ node' = "failed"
      BY <1>10 DEF TaskTimeout, LoopInv, LoopTypeOK
    <2>2. Rank' = 0
      BY <2>1 DEF Rank
    <2>3. Rank > 0
      BY <2>1 DEF Rank, Node
    <2> QED
      BY <1>3, <2>2, <2>3
  <1> QED
    BY <1>3, <1>4, <1>5, <1>6, <1>7, <1>8, <1>9, <1>10 DEF Next, Works

(* Every step that is not a refusal of the provider brings the loop nearer *)
(* to its end (routeAfterReview, graph.ts:248-276), for any number of      *)
(* iterations and drafts and on whatever thread it resumed: between two    *)
(* refusals it takes at most 2 * Drafts + 5 steps, a write and a review    *)
(* for each draft and the steps before and after them.                     *)
THEOREM StepsCount == Spec => EveryStepCounts
  <1>1. LoopInv /\ [Next]_vars => [Refused \/ (Rank \in Nat /\ Rank' < Rank)]_vars
    BY RankFalls
  <1> QED
    BY <1>1, LoopInvariance, PTL DEF Spec, EveryStepCounts
=============================================================================
