------------------------ MODULE QuestionWait_proofs -----------------------
(***************************************************************************)
(* Theorems about the wait for a human's answer, for any set of questions  *)
(* and any waiting times.                                                  *)
(***************************************************************************)
EXTENDS QuestionWait, TLAPS

(* A countdown that fired is still bound to its question, and the decision *)
(* that it started is about that question.                                 *)
FiredIsAsked ==
  countdown.fired =>
    Engaged /\ (check.pc = "judging" => check.question = countdown.request)

(* The inductive invariant. *)
IInv == TypeOK /\ WaitHasItsQuestion /\ FiredIsAsked /\ AnsweredOnce /\ ReservedForTheHuman

USE NoneAssumption, ReservedAssumption, TimesAssumption, FaultsAssumption

-----------------------------------------------------------------------------
(* What the shared parts of the actions yield.                             *)

LEMMA ConstantsAreTyped ==
  /\ Stopped \in Binding /\ Stopped.request = None /\ ~Stopped.fired
  /\ NoCheck \in InFlight /\ NoCheck.pc = "idle"
  BY DEF Stopped, Binding, NoCheck, InFlight

(* A countdown that begins again counts for the pending question or not at *)
(* all.                                                                    *)
LEMMA RecheckIsBound ==
  ASSUME NEW q \in Questions \cup {None}
  PROVE  /\ Recheck(q) \in Binding
         /\ ~Recheck(q).fired
         /\ Recheck(q).request # None => IsPending(q) /\ Recheck(q).request = q
  BY DEF Recheck, Stopped, Binding

(* A question that is answered is one of the set, and its state changes    *)
(* alone.                                                                  *)
LEMMA AnswerIsTyped ==
  ASSUME TypeOK, NEW q \in Questions, NEW state \in QuestionState
  PROVE  [question EXCEPT ![q] = state] \in [Questions -> QuestionState]
  BY DEF TypeOK

LEMMA ToldIsTyped ==
  ASSUME TypeOK, AnsweredOnce, NEW q \in Questions, question[q] = "pending"
  PROVE  [told EXCEPT ![q] = @ + 1] \in [Questions -> 0 .. 2]
  <1>1. told[q] = 0
    BY DEF AnsweredOnce
  <1> QED
    BY <1>1 DEF TypeOK

LEMMA CapturedIsTyped ==
  ASSUME TypeOK
  PROVE  /\ check.question \in Questions \cup {None} /\ countdown.request \in Questions \cup {None}
         /\ countdown.left \in Nat /\ countdown.fired \in BOOLEAN
         /\ check.waited \in 0 .. MaxWait /\ check.pc \in {"idle", "snapshot", "judging"}
  BY DEF TypeOK, Binding, InFlight

-----------------------------------------------------------------------------
(* Types.                                                                  *)

LEMMA TypeInit == Init => TypeOK
  <1> SUFFICES ASSUME Init PROVE TypeOK
    OBVIOUS
  <1>1. question \in [Questions -> QuestionState] /\ told \in [Questions -> 0 .. 2]
    BY DEF Init, QuestionState
  <1>2. countdown \in Binding /\ check \in InFlight
    BY ConstantsAreTyped DEF Init
  <1>3. current \in Questions \cup {None} /\ waiting \in {NoWait} \cup (0 .. MaxWait)
    BY DEF Init
  <1>4. mail \subseteq Questions \cup {None} /\ faults \in 0 .. MaxFaults
    BY DEF Init
  <1>5. inference \in BOOLEAN /\ running \in BOOLEAN /\ agent \in {"idle", "working"}
    BY DEF Init
  <1> QED
    BY <1>1, <1>2, <1>3, <1>4, <1>5 DEF TypeOK

LEMMA StartIsTyped ==
  ASSUME TypeOK, MayDecide, StartCheck
  PROVE  inference' \in BOOLEAN /\ check' \in InFlight
  <1>1. waiting \in 0 .. MaxWait
    BY DEF TypeOK, MayDecide
  <1> QED
    BY <1>1 DEF StartCheck, InFlight

(* The age of a wait and the minutes that are left stay in their ranges. *)
LEMMA MinuteIsTyped ==
  ASSUME TypeOK, Minute
  PROVE  /\ waiting' \in {NoWait} \cup (0 .. MaxWait)
         /\ countdown' \in Binding
         /\ countdown'.request = countdown.request /\ countdown'.fired = countdown.fired
         /\ waiting' = NoWait <=> waiting = NoWait
  <1>1. waiting' \in {NoWait} \cup (0 .. MaxWait) /\ (waiting' = NoWait <=> waiting = NoWait)
    <2>1. waiting' = IF waiting = NoWait \/ waiting = MaxWait THEN waiting ELSE waiting + 1
      BY DEF Minute
    <2>2. waiting \in {NoWait} \cup (0 .. MaxWait) /\ MaxWait \in Nat
      BY DEF TypeOK
    <2> QED
      BY <2>1, <2>2 DEF NoWait
  <1>2. PICK left \in Nat : countdown' = [countdown EXCEPT !.left = left]
    <2>1. (IF countdown.left = 0 THEN 0 ELSE countdown.left - 1) \in Nat
      BY CapturedIsTyped
    <2> QED
      BY <2>1 DEF Minute
  <1>3. countdown \in Binding
    BY DEF TypeOK
  <1> QED
    BY <1>1, <1>2, <1>3 DEF Binding

LEMMA TypeStep ==
  ASSUME TypeOK, AnsweredOnce, [Next]_vars
  PROVE  TypeOK'
<1>1. ASSUME NEW q \in Questions, Ask(q) PROVE TypeOK'
  <2>1. question' \in [Questions -> QuestionState]
    BY <1>1, AnswerIsTyped DEF Ask, QuestionState
  <2>2. countdown' \in Binding
    BY <1>1 DEF Ask, Binding
  <2>3. waiting' \in {NoWait} \cup (0 .. MaxWait)
    BY <1>1 DEF Ask
  <2> QED
    BY <1>1, <2>1, <2>2, <2>3 DEF Ask, TypeOK
<1>2. ASSUME NEW q \in Questions, NEW answer \in {"yes", "no"}, Click(q, answer) PROVE TypeOK'
  <2>1. question' \in [Questions -> QuestionState]
    BY <1>2, AnswerIsTyped DEF Click, QuestionState
  <2>2. told' \in [Questions -> 0 .. 2]
    BY <1>2, ToldIsTyped DEF Click, CanResolve
  <2>3. mail' \subseteq Questions \cup {None}
    BY <1>2 DEF Click, TypeOK
  <2> QED
    BY <1>2, <2>1, <2>2, <2>3, ConstantsAreTyped DEF Click, ClearWait, TypeOK
<1>3. ASSUME UserTypes \/ Deliver PROVE TypeOK'
  <2>1. MessageStart /\ mail' \subseteq Questions \cup {None} /\ running' \in BOOLEAN
    BY <1>3 DEF UserTypes, Deliver, MessageStart, TypeOK
  <2>2. question' \in [Questions -> QuestionState]
    BY <2>1 DEF MessageStart, TypeOK, QuestionState
  <2>3. waiting' \in {NoWait} \cup (0 .. MaxWait) /\ countdown' \in Binding /\ current' \in Questions \cup {None}
    BY <2>1, ConstantsAreTyped DEF MessageStart, ClearWait, TypeOK
  <2> QED
    BY <2>1, <2>2, <2>3 DEF MessageStart, TypeOK
<1>4. CASE Settle
  <2>1. mail' \subseteq Questions \cup {None}
    BY <1>4 DEF Settle
  <2> QED
    BY <1>4, <2>1 DEF Settle, TypeOK
<1>5. ASSUME SessionSwitch \/ Shutdown PROVE TypeOK'
  <2>1. EndWait /\ inference' \in BOOLEAN /\ running' \in BOOLEAN
    BY <1>5 DEF SessionSwitch, Shutdown, TypeOK
  <2>2. question' \in [Questions -> QuestionState]
    BY <2>1 DEF EndWait, TypeOK, QuestionState
  <2> QED
    BY <2>1, <2>2, ConstantsAreTyped DEF EndWait, ClearWait, TypeOK
<1>6. CASE Minute
  BY <1>6, MinuteIsTyped DEF Minute, TypeOK
<1>7. CASE Deadline
  <2>1. CASE MayDecide /\ IsPending(countdown.request)
    <3>1. StartCheck /\ countdown' = [countdown EXCEPT !.fired = TRUE]
      BY <1>7, <2>1 DEF Deadline
    <3>2. countdown' \in Binding
      BY <3>1 DEF TypeOK, Binding
    <3> QED
      BY <1>7, <2>1, <3>1, <3>2, StartIsTyped DEF Deadline, TypeOK
  <2>2. CASE ~(MayDecide /\ IsPending(countdown.request))
    <3>1. countdown' = Recheck(countdown.request) /\ UNCHANGED <<inference, check>>
      BY <1>7, <2>2 DEF Deadline
    <3>2. countdown' \in Binding
      BY <3>1, CapturedIsTyped, RecheckIsBound
    <3> QED
      BY <1>7, <3>1, <3>2 DEF Deadline, TypeOK
  <2> QED
    BY <2>1, <2>2
<1>8. CASE Poll
  BY <1>8, StartIsTyped DEF Poll, TypeOK
<1>9. CASE Snapshot
  <2>1. check' \in InFlight
    BY <1>9 DEF Snapshot, TypeOK, InFlight
  <2> QED
    BY <1>9, <2>1 DEF Snapshot, TypeOK
<1>10. CASE NothingToDecide
  BY <1>10, ConstantsAreTyped DEF NothingToDecide, EndCheck, TypeOK
<1>11. CASE TooLate
  BY <1>11, ConstantsAreTyped DEF TooLate, EndCheck, TypeOK
<1>12. CASE DecideToWait
  <2>1. question' \in [Questions -> QuestionState]
    BY <1>12, AnswerIsTyped, CapturedIsTyped DEF DecideToWait, CanResolve, TypeOK, QuestionState
  <2>2. countdown' \in Binding
    BY <1>12, CapturedIsTyped, RecheckIsBound, ConstantsAreTyped DEF DecideToWait, ClearWait, TypeOK
  <2>3. waiting' \in {NoWait} \cup (0 .. MaxWait)
    BY <1>12 DEF DecideToWait, ClearWait, TypeOK
  <2> QED
    BY <1>12, <2>1, <2>2, <2>3, ConstantsAreTyped DEF DecideToWait, EndCheck, TypeOK
<1>13. CASE Discard
  <2>1. countdown' \in Binding /\ waiting' \in {NoWait} \cup (0 .. MaxWait)
    BY <1>13, ConstantsAreTyped DEF Discard, ClearWait, TypeOK
  <2> QED
    BY <1>13, <2>1, ConstantsAreTyped DEF Discard, EndCheck, TypeOK
<1>14. CASE Reject
  <2>1. question' \in [Questions -> QuestionState]
    BY <1>14, AnswerIsTyped, CapturedIsTyped DEF Reject, CanResolve, QuestionState
  <2> QED
    BY <1>14, <2>1, ConstantsAreTyped DEF Reject, ClearWait, TypeOK
<1>15. CASE Approve
  <2>1. check.question \in Questions /\ question[check.question] = "pending"
    BY <1>15, CapturedIsTyped DEF Approve, CanResolve
  <2>2. question' \in [Questions -> QuestionState]
    BY <1>15, <2>1, AnswerIsTyped DEF Approve, QuestionState
  <2>3. told' \in [Questions -> 0 .. 2]
    BY <1>15, <2>1, ToldIsTyped DEF Approve
  <2>4. mail' \subseteq Questions \cup {None}
    BY <1>15, <2>1 DEF Approve, TypeOK
  <2>5. countdown' \in Binding /\ check' \in InFlight
    BY <1>15, ConstantsAreTyped DEF Approve, ClearWait, EndCheck
  <2>6. waiting' \in {NoWait} \cup (0 .. MaxWait) /\ inference' \in BOOLEAN
    BY <1>15 DEF Approve, ClearWait, EndCheck
  <2>7. /\ current' \in Questions \cup {None} /\ agent' \in {"idle", "working"}
        /\ running' \in BOOLEAN /\ faults' \in 0 .. MaxFaults
    BY <1>15 DEF Approve, TypeOK
  <2> QED
    BY <2>2, <2>3, <2>4, <2>5, <2>6, <2>7 DEF TypeOK
<1>16. CASE CheckFails
  <2>1. faults' \in 0 .. MaxFaults
    BY <1>16 DEF CheckFails, TypeOK
  <2> QED
    BY <1>16, <2>1, ConstantsAreTyped DEF CheckFails, EndCheck, TypeOK
<1>17. CASE UNCHANGED vars
  BY <1>17 DEF vars, TypeOK
<1> QED
  BY <1>1, <1>2, <1>3, <1>4, <1>5, <1>6, <1>7, <1>8, <1>9, <1>10, <1>11, <1>12, <1>13, <1>14, <1>15, <1>16, <1>17
  DEF Next, Decision

-----------------------------------------------------------------------------
(* The wait, its question and its countdown.                               *)

LEMMA WaitInit == Init => WaitHasItsQuestion /\ FiredIsAsked
  BY ConstantsAreTyped DEF Init, WaitHasItsQuestion, FiredIsAsked, Engaged

(* An action that clears the wait leaves nothing to bind. *)
LEMMA ClearedIsBound ==
  ASSUME ClearWait
  PROVE  WaitHasItsQuestion' /\ FiredIsAsked'
  BY ConstantsAreTyped DEF ClearWait, WaitHasItsQuestion, FiredIsAsked, Engaged, NoWait

(* A countdown that begins again, while the wait and its question stay. *)
LEMMA RecheckedIsBound ==
  ASSUME TypeOK, WaitHasItsQuestion, UNCHANGED <<question, current, waiting>>,
         NEW q \in Questions \cup {None}, countdown' = Recheck(q)
  PROVE  WaitHasItsQuestion' /\ FiredIsAsked'
  <1>1. countdown' \in Binding /\ ~countdown'.fired
        /\ (countdown'.request # None => IsPending(q) /\ countdown'.request = q)
    BY RecheckIsBound
  <1> QED
    BY <1>1 DEF WaitHasItsQuestion, FiredIsAsked, Engaged, IsPending, CurrentIs, NoWait

(* The same when the countdown is stopped and when nothing it depends on   *)
(* changes.                                                                *)
LEMMA StoppedIsBound ==
  ASSUME WaitHasItsQuestion, UNCHANGED <<question, current, waiting>>, countdown' = Stopped
  PROVE  WaitHasItsQuestion' /\ FiredIsAsked'
  BY ConstantsAreTyped DEF WaitHasItsQuestion, FiredIsAsked, Engaged, CurrentIs, NoWait

LEMMA SameIsBound ==
  ASSUME WaitHasItsQuestion, FiredIsAsked, UNCHANGED <<question, current, waiting, countdown, check>>
  PROVE  WaitHasItsQuestion' /\ FiredIsAsked'
  BY DEF WaitHasItsQuestion, FiredIsAsked, Engaged, CurrentIs, NoWait

LEMMA WaitStep ==
  ASSUME IInv, [Next]_vars
  PROVE  WaitHasItsQuestion' /\ FiredIsAsked'
<1> USE DEF IInv
<1>1. ASSUME NEW q \in Questions, Ask(q) PROVE WaitHasItsQuestion' /\ FiredIsAsked'
  <2>1. question'[q] = "pending" /\ current' = q /\ waiting' = 0
        /\ countdown'.request = q /\ ~countdown'.fired
    BY <1>1 DEF Ask, TypeOK
  <2> QED
    BY <2>1 DEF WaitHasItsQuestion, FiredIsAsked, Engaged, CurrentIs, NoWait
<1>2. ASSUME NEW q \in Questions, NEW answer \in {"yes", "no"}, Click(q, answer)
      PROVE  WaitHasItsQuestion' /\ FiredIsAsked'
  BY <1>2, ClearedIsBound DEF Click
<1>3. ASSUME UserTypes \/ Deliver PROVE WaitHasItsQuestion' /\ FiredIsAsked'
  BY <1>3, ClearedIsBound, SameIsBound DEF UserTypes, Deliver, MessageStart
<1>4. CASE Settle
  BY <1>4, SameIsBound DEF Settle
<1>5. ASSUME SessionSwitch \/ Shutdown PROVE WaitHasItsQuestion' /\ FiredIsAsked'
  BY <1>5, ClearedIsBound DEF SessionSwitch, Shutdown, EndWait
<1>6. CASE Minute
  BY <1>6, MinuteIsTyped DEF Minute, WaitHasItsQuestion, FiredIsAsked, Engaged, CurrentIs, NoWait
<1>7. CASE Deadline
  <2>1. CASE MayDecide /\ IsPending(countdown.request)
    <3>1. countdown'.request = countdown.request /\ countdown'.fired = TRUE /\ check'.pc = "snapshot"
      BY <1>7, <2>1, CapturedIsTyped DEF Deadline, StartCheck, TypeOK, Binding
    <3> QED
      BY <1>7, <3>1 DEF Deadline, WaitHasItsQuestion, FiredIsAsked, Engaged, CurrentIs, NoWait
  <2>2. CASE ~(MayDecide /\ IsPending(countdown.request))
    BY <1>7, <2>2, CapturedIsTyped, RecheckedIsBound DEF Deadline
  <2> QED
    BY <2>1, <2>2
<1>8. CASE Poll
  <2>1. ~countdown.fired
    BY <1>8 DEF Poll, FiredIsAsked
  <2> QED
    BY <1>8, <2>1 DEF Poll, WaitHasItsQuestion, FiredIsAsked, Engaged, CurrentIs, NoWait
<1>9. CASE Snapshot
  <2>1. check'.pc = "judging" /\ check'.question = current
    BY <1>9 DEF Snapshot, TypeOK, InFlight
  <2> QED
    BY <1>9, <2>1 DEF Snapshot, WaitHasItsQuestion, FiredIsAsked, Engaged, CurrentIs, NoWait
<1>10. CASE NothingToDecide
  BY <1>10, StoppedIsBound DEF NothingToDecide
<1>11. CASE TooLate
  <2>1. ~Engaged /\ ~countdown.fired
    BY <1>11 DEF TooLate, WaitHasItsQuestion, FiredIsAsked, CurrentIs
  <2> QED
    BY <1>11, <2>1 DEF TooLate, WaitHasItsQuestion, FiredIsAsked, Engaged, CurrentIs, NoWait
<1>12. CASE DecideToWait
  <2> DEFINE q == check.question
  <2>1. CASE check.waited >= MaxWait /\ WaitBelongsTo(q)
    BY <1>12, <2>1, ClearedIsBound DEF DecideToWait
  <2>2. CASE check.waited >= MaxWait /\ ~WaitBelongsTo(q)
    <3>1. ~countdown.fired /\ current # q
      BY <1>12, <2>2 DEF DecideToWait, InTime, WaitBelongsTo, FiredIsAsked, WaitHasItsQuestion
    <3>2. UNCHANGED <<question, current, waiting, countdown>>
      BY <1>12, <2>2, <3>1 DEF DecideToWait, CanResolve
    <3> QED
      BY <3>1, <3>2 DEF WaitHasItsQuestion, FiredIsAsked, Engaged, CurrentIs, NoWait
  <2>3. CASE ~(check.waited >= MaxWait) /\ q # None
    BY <1>12, <2>3, CapturedIsTyped, RecheckedIsBound DEF DecideToWait
  <2>4. CASE ~(check.waited >= MaxWait) /\ q = None
    <3>1. ~countdown.fired
      BY <1>12, <2>4 DEF DecideToWait, InTime, FiredIsAsked, Engaged
    <3>2. UNCHANGED <<question, current, waiting, countdown>>
      BY <1>12, <2>4 DEF DecideToWait
    <3> QED
      BY <3>1, <3>2 DEF WaitHasItsQuestion, FiredIsAsked, Engaged, CurrentIs, NoWait
  <2> QED
    BY <2>1, <2>2, <2>3, <2>4
<1>13. CASE Discard
  <2>1. CASE WaitBelongsTo(check.question)
    BY <1>13, <2>1, ClearedIsBound DEF Discard
  <2>2. CASE ~WaitBelongsTo(check.question)
    <3>1. ~countdown.fired
      BY <1>13, <2>2 DEF Discard, InTime, WaitBelongsTo, FiredIsAsked, WaitHasItsQuestion
    <3> QED
      BY <1>13, <2>2, <3>1 DEF Discard, WaitHasItsQuestion, FiredIsAsked, Engaged, CurrentIs, NoWait
  <2> QED
    BY <2>1, <2>2
<1>14. CASE Reject
  BY <1>14, ClearedIsBound DEF Reject
<1>15. CASE Approve
  BY <1>15, ClearedIsBound DEF Approve
<1>16. CASE CheckFails
  BY <1>16, StoppedIsBound DEF CheckFails
<1>17. CASE UNCHANGED vars
  BY <1>17, SameIsBound DEF vars
<1> QED
  BY <1>1, <1>2, <1>3, <1>4, <1>5, <1>6, <1>7, <1>8, <1>9, <1>10, <1>11, <1>12, <1>13, <1>14, <1>15, <1>16, <1>17
  DEF Next, Decision

-----------------------------------------------------------------------------
(* The answers.                                                            *)

(* An answer resolves one pending question, and the agent is told of it.   *)
Resolves(q, state) ==
  /\ q \in Questions /\ question[q] = "pending"
  /\ question' = [question EXCEPT ![q] = state]
  /\ told' = [told EXCEPT ![q] = @ + 1]

(* Any other step tells nothing, closes no question twice and answers none.*)
Closes ==
  /\ told' = told
  /\ \A q \in Questions :
       \/ question'[q] = question[q]
       \/ question[q] \notin Closed /\ question'[q] \in {"pending", "rejected", "expired", "cancelled"}

LEMMA StepAnswersOrCloses ==
  ASSUME IInv, [Next]_vars
  PROVE  \/ Closes
         \/ \E q \in Questions :
              \/ Resolves(q, "yes") \/ Resolves(q, "no")
              \/ Resolves(q, "approved") /\ q \notin Reserved
<1> DEFINE Effect == \/ Closes
                     \/ \E q \in Questions :
                          \/ Resolves(q, "yes") \/ Resolves(q, "no")
                          \/ Resolves(q, "approved") /\ q \notin Reserved
<1> USE DEF IInv
<1>1. ASSUME NEW q \in Questions, Ask(q) PROVE Closes
  BY <1>1 DEF Ask, Closes, Closed, Resolved, TypeOK
<1>2. ASSUME NEW q \in Questions, Click(q, "yes") \/ Click(q, "no") PROVE Effect
  BY <1>2 DEF Click, CanResolve, Resolves
<1>3. ASSUME UserTypes \/ Deliver PROVE Closes
  <2>1. MessageStart
    BY <1>3 DEF UserTypes, Deliver
  <2>2. CASE waiting # NoWait
    <3>1. question[current] = "pending"
      BY <2>2 DEF WaitHasItsQuestion, CurrentIs
    <3>2. told' = told
          /\ question' = [q \in Questions |-> IF q = current THEN "cancelled" ELSE question[q]]
      BY <2>1, <2>2 DEF MessageStart
    <3> QED
      BY <3>1, <3>2 DEF Closes, Closed, Resolved
  <2>3. CASE waiting = NoWait
    BY <2>1, <2>3 DEF MessageStart, Closes
  <2> QED
    BY <2>2, <2>3
<1>4. CASE Settle
  BY <1>4 DEF Settle, Closes
<1>5. ASSUME SessionSwitch \/ Shutdown PROVE Closes
  <2>1. told' = told
        /\ question' = [q \in Questions |->
                          IF q = current /\ question[q] = "pending" THEN "expired" ELSE question[q]]
    BY <1>5 DEF SessionSwitch, Shutdown, EndWait
  <2> QED
    BY <2>1 DEF Closes, Closed, Resolved
<1>6. CASE Minute
  BY <1>6 DEF Minute, Closes
<1>7. CASE Deadline
  BY <1>7 DEF Deadline, Closes
<1>8. CASE Poll
  BY <1>8 DEF Poll, Closes
<1>9. CASE Snapshot \/ NothingToDecide \/ TooLate \/ Discard \/ CheckFails
  BY <1>9 DEF Snapshot, NothingToDecide, TooLate, Discard, CheckFails, Closes
<1>10. CASE DecideToWait
  <2>1. \/ question' = question
        \/ CanResolve(check.question) /\ question' = [question EXCEPT ![check.question] = "expired"]
    BY <1>10 DEF DecideToWait
  <2>2. told' = told
    BY <1>10 DEF DecideToWait
  <2>3. \A q \in Questions : CanResolve(q) => question[q] \notin Closed
    BY DEF CanResolve, Closed, Resolved
  <2> QED
    BY <2>1, <2>2, <2>3, CapturedIsTyped DEF Closes, CanResolve, TypeOK
<1>11. CASE Reject
  <2> DEFINE q == check.question
  <2>1. q \in Questions /\ question[q] = "pending"
    BY <1>11, CapturedIsTyped DEF Reject, CanResolve
  <2>2. told' = told /\ question' = [question EXCEPT ![q] = "rejected"]
    BY <1>11 DEF Reject
  <2> HIDE DEF q
  <2> QED
    BY <2>1, <2>2 DEF Closes, Closed, Resolved, TypeOK
<1>12. CASE Approve
  <2> DEFINE q == check.question
  <2>1. q \in Questions /\ question[q] = "pending" /\ q \notin Reserved
    BY <1>12, CapturedIsTyped DEF Approve, CanResolve, Outcomes
  <2>2. told' = [told EXCEPT ![q] = @ + 1] /\ question' = [question EXCEPT ![q] = "approved"]
    BY <1>12 DEF Approve
  <2> QED
    BY <2>1, <2>2 DEF Resolves
<1>13. CASE UNCHANGED vars
  BY <1>13 DEF vars, Closes
<1> QED
  BY <1>1, <1>2, <1>3, <1>4, <1>5, <1>6, <1>7, <1>8, <1>9, <1>10, <1>11, <1>12, <1>13 DEF Next, Decision

LEMMA AnswerStep ==
  ASSUME IInv, [Next]_vars
  PROVE  AnsweredOnce' /\ ReservedForTheHuman'
<1> USE DEF IInv
<1>1. CASE Closes
  BY <1>1 DEF Closes, Closed, Resolved, AnsweredOnce, ReservedForTheHuman
<1>2. ASSUME NEW q \in Questions, NEW state \in {"yes", "no", "approved"}, Resolves(q, state),
             state = "approved" => q \notin Reserved
      PROVE  AnsweredOnce' /\ ReservedForTheHuman'
  <2>1. \A r \in Questions : question'[r] = IF r = q THEN state ELSE question[r]
    BY <1>2 DEF Resolves, TypeOK
  <2>2. \A r \in Questions : told'[r] = IF r = q THEN 1 ELSE told[r]
    BY <1>2 DEF Resolves, TypeOK, AnsweredOnce
  <2>3. AnsweredOnce'
    BY <1>2, <2>1, <2>2 DEF AnsweredOnce
  <2>4. ReservedForTheHuman'
    BY <1>2, <2>1 DEF ReservedForTheHuman
  <2> QED
    BY <2>3, <2>4
<1> QED
  BY <1>1, <1>2, StepAnswersOrCloses

-----------------------------------------------------------------------------
(* The theorems.                                                           *)

(* Every reachable state satisfies the inductive invariant. *)
THEOREM Invariance == Spec => []IInv
<1>1. Init => IInv
  <2> SUFFICES ASSUME Init PROVE IInv
    OBVIOUS
  <2>1. AnsweredOnce /\ ReservedForTheHuman
    BY DEF Init, AnsweredOnce, ReservedForTheHuman
  <2> QED
    BY <2>1, TypeInit, WaitInit DEF IInv
<1>2. IInv /\ [Next]_vars => IInv'
  BY TypeStep, WaitStep, AnswerStep DEF IInv
<1> QED
  BY <1>1, <1>2, PTL DEF Spec

(* The questions, the wait, the countdown and the decision in flight of    *)
(* index.ts keep their types: an age never passes the longest wait and a   *)
(* countdown never goes below zero.                                        *)
THEOREM TypeCorrect == Spec => []TypeOK
  BY Invariance, PTL DEF IInv

(* sharedState's wait, the controller's pending question and the countdown *)
(* of index.ts belong together, whatever handlers run while a decision     *)
(* waits for the todo list and the judge.                                  *)
THEOREM WaitTogether == Spec => []WaitHasItsQuestion
  BY Invariance, PTL DEF IInv

(* The agent is told of a question once when it is answered and never      *)
(* otherwise, whoever answers first: a button or the judge.                *)
THEOREM OneAnswer == Spec => []AnsweredOnce
  BY Invariance, PTL DEF IInv

(* The judge approves no question that is reserved for the human.          *)
THEOREM ReservedIsReserved == Spec => []ReservedForTheHuman
  BY Invariance, PTL DEF IInv

(* resolve, expireByTimeout and cancel of the controller leave a closed    *)
(* question as it is: the first answer wins.                               *)
THEOREM FirstAnswerWins == Spec => ClosedStaysClosed
<1>1. IInv /\ [Next]_vars
      => [\A q \in Questions : question[q] \in Closed => question'[q] = question[q]]_vars
  <2> SUFFICES ASSUME IInv, [Next]_vars, NEW q \in Questions, question[q] \in Closed
               PROVE  question'[q] = question[q]
    OBVIOUS
  <2>1. CASE Closes
    BY <2>1 DEF Closes
  <2>2. ASSUME NEW r \in Questions, NEW state, Resolves(r, state) PROVE question'[q] = question[q]
    <3>1. question[r] # question[q]
      BY <2>2 DEF Resolves, Closed, Resolved
    <3> QED
      BY <2>2, <3>1 DEF Resolves, IInv, TypeOK
  <2> QED
    BY <2>1, <2>2, StepAnswersOrCloses
<1> QED
  BY <1>1, Invariance, PTL DEF Spec, ClosedStaysClosed

-----------------------------------------------------------------------------
(* What serves a question that waits.  The minutes that can still change   *)
(* its wait or its countdown are over, ...                                 *)
TimeIsUp == waiting = MaxWait /\ countdown.left = 0

(* ... and the deadline of the countdown, or the poll, starts a decision.  *)
DecisionIsDue ==
  /\ MayDecide
  /\ Engaged => ~countdown.fired /\ countdown.left = 0 /\ IsPending(countdown.request)

WaitIsNeverLeft ==
  running /\ waiting # NoWait /\ ~FlagIsStuck =>
    ~TimeIsUp \/ DecisionIsDue \/ check.pc # "idle"

(* A question that waits is never left alone: minutes pass, the next       *)
(* deadline or poll does start a decision, or one is in flight - unless a  *)
(* refusal kept the flag (index.ts:1899).  No stopped or fired countdown,  *)
(* and no flag of a decision that has ended, keeps the judge from it: this *)
(* is the safety core of WaitIsServed.                                     *)
THEOREM WaitGoesOn == Spec => []WaitIsNeverLeft
<1>1. IInv => WaitIsNeverLeft
  <2> SUFFICES ASSUME IInv, waiting # NoWait, ~FlagIsStuck, TimeIsUp, check.pc = "idle"
               PROVE  DecisionIsDue
    BY DEF WaitIsNeverLeft
  <2>1. MayDecide
    BY DEF MayDecide, FlagIsStuck, TimeIsUp
  <2>2. ~countdown.fired /\ countdown.left = 0
    BY DEF IInv, WaitHasItsQuestion, TimeIsUp
  <2>3. Engaged => IsPending(countdown.request)
    BY DEF IInv, WaitHasItsQuestion, CurrentIs, IsPending
  <2> QED
    BY <2>1, <2>2, <2>3 DEF DecisionIsDue
<1> QED
  BY <1>1, Invariance, PTL
=============================================================================
