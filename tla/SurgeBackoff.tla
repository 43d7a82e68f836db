---------------------------- MODULE SurgeBackoff ----------------------------
(***************************************************************************)
(* harness/langchain/surge.ts: how long the daemon pauses before it        *)
(* invokes the loop again after an overloaded provider refused it.  Times  *)
(* are natural numbers of some unit; the jitter is a percentage.           *)
(***************************************************************************)
EXTENDS Integers

CONSTANTS Multiplier, MinDelay, MaxDelay, JitterPercent, MaxAttempts,
          BaseWait   (* the step of the daemon's own wait: three minutes    *)

ASSUME PolicyAssumption ==
  /\ Multiplier \in Nat \ {0}
  /\ MinDelay \in Nat
  /\ MaxDelay \in Nat
  /\ MinDelay <= MaxDelay
  /\ JitterPercent \in 0..100
  /\ MaxAttempts \in Nat
  /\ BaseWait \in Nat

Smaller(a, b) == IF a <= b THEN a ELSE b

Larger(a, b) == IF a >= b THEN a ELSE b

Clamp(delay) == Smaller(Larger(delay, MinDelay), MaxDelay)

(* The factor of a delay after so many refusals: the multiplier's power.   *)
Factor[refusals \in Nat] ==
  IF refusals = 0 THEN 1 ELSE Multiplier * Factor[refusals - 1]

(* computeSurgeDelayMs without jitter; attempts count from 1.              *)
Escalated(retryAfter, attempt) ==
  Clamp(retryAfter * Factor[Larger(0, attempt - 1)])

Jitter(delay) == (delay * JitterPercent) \div 100

(* Mutant of SurgeDelays: the jitter is added after the clamp.             *)
SurgeDelaysUnclamped(retryAfter, attempt) ==
  LET clamped == Escalated(retryAfter, attempt)
  IN {clamped + j : j \in (-Jitter(clamped))..Jitter(clamped)}

(* Every delay the jitter draw can yield.                                  *)
SurgeDelays(retryAfter, attempt) ==
  LET clamped == Escalated(retryAfter, attempt)
  IN {Clamp(clamped + j) : j \in (-Jitter(clamped))..Jitter(clamped)}

(* onExhausted of the daemon: the wait once the scheduler has no attempts  *)
(* left, from the number of attempts the scheduler has counted.            *)
ExhaustedWait(attempts) == Smaller(BaseWait * attempts, MaxDelay)
=============================================================================
