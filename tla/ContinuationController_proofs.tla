-------------------- MODULE ContinuationController_proofs --------------------
(***************************************************************************)
(* Proofs about ContinuationController.  The sequence numbers of the       *)
(* dispatches that run are pairwise different, so the in-flight guard      *)
(* names at most one of them (Sequenced); from that it follows which       *)
(* dispatch a pause withdraws (Withdrawals) and which success is counted   *)
(* against the budget (BudgetHolds).                                       *)
(***************************************************************************)
EXTENDS ContinuationController, TLAPS

(* The dispatch of h runs, or its success is still to count.               *)
Live(h) == Running(h) \/ call[h].pc = "counting"

(* Every live dispatch has its own sequence number, and the guard is taken *)
(* by the last one, exactly while it runs and its watchdog has not fired.  *)
Sequenced ==
  /\ owner \in {0, lastSeq}
  /\ \A h \in Handler :
       Live(h) => call[h].item \in Item /\ call[h].seq \in 1..lastSeq
  /\ \A g, h \in Handler :
       Live(g) /\ Live(h) /\ call[g].seq = call[h].seq => g = h
  /\ \A h \in Handler : Running(h) /\ ~call[h].overdue => owner = call[h].seq
  /\ owner # 0 => \E h \in Handler : Owns(h) /\ ~call[h].overdue

(* A withdrawal leaves a cancel intent, and a turn that began during the   *)
(* read was begun by the user, who withdraws, or by a stray message.       *)
Withdrawals ==
  \A h \in Handler : Owns(h) =>
    /\ call[h].withdrawn => cancel
    /\ call[h].pc = "reading" /\ busy => call[h].stray \/ cancel

IInv == TypeOK /\ Sequenced /\ NothingLeftBehind /\ Withdrawals /\ BudgetHolds

----------------------------------------------------------------------------
(* How a step changes the running dispatches.                              *)

(* The same dispatches run.                                                *)
SameDispatches ==
  /\ UNCHANGED <<owner, lastSeq>>
  /\ \A h \in Handler :
       /\ (Running(h)' <=> Running(h))
       /\ (Live(h)' <=> Live(h))
       /\ Live(h) => /\ call'[h].item = call[h].item
                     /\ call'[h].seq = call[h].seq
                     /\ call'[h].overdue = call[h].overdue

(* The dispatch of h ends, or is to be counted, and gives the guard back   *)
(* if it has it.                                                           *)
Ends(h) ==
  /\ Live(h)
  /\ lastSeq' = lastSeq
  /\ owner' = IF Owns(h) THEN 0 ELSE owner
  /\ call' = [call EXCEPT ![h] = Idle] \/ call' = [call EXCEPT ![h].pc = "counting"]

(* The dispatch of h loses the guard and runs on.                          *)
Loses(h) ==
  /\ Owns(h)
  /\ lastSeq' = lastSeq
  /\ owner' = 0
  /\ call' = [call EXCEPT ![h].overdue = TRUE]

LEMMA IdleIsCall == Idle \in Call
  BY ControllerAssumption DEF Idle, Call

LEMMA SameDispatchesKeepSequenced ==
  ASSUME Sequenced, SameDispatches
  PROVE  Sequenced'
  <1>1. Sequenced!1' /\ Sequenced!2' /\ Sequenced!3'
    BY DEF Sequenced, SameDispatches
  <1>2. Sequenced!4' /\ Sequenced!5'
    BY DEF Sequenced, SameDispatches, Owns, Live
  <1> QED
    BY <1>1, <1>2 DEF Sequenced

LEMMA EndsKeepsSequenced ==
  ASSUME TypeOK, Sequenced, NEW h \in Handler, Ends(h)
  PROVE  Sequenced'
  <1>1. /\ ~Running(h)'
        /\ Live(h)' => call'[h].item = call[h].item /\ call'[h].seq = call[h].seq
        /\ \A g \in Handler \ {h} : /\ call'[g] = call[g]
                                     /\ (Running(g)' <=> Running(g))
                                     /\ (Live(g)' <=> Live(g))
    BY DEF TypeOK, Call, Ends, Running, Live, Idle
  <1>2. \A g \in Handler \ {h} : Running(g) /\ ~call[g].overdue => owner' = call[g].seq
    <2> SUFFICES ASSUME NEW g \in Handler \ {h}, Running(g), ~call[g].overdue
                 PROVE  owner' = call[g].seq
      OBVIOUS
    <2>1. owner = call[g].seq /\ ~Owns(h)
      BY DEF Sequenced, Owns, Live
    <2> QED
      BY <2>1 DEF Ends
  <1>3. owner' # 0 => \E g \in Handler : Owns(g)' /\ ~call'[g].overdue
    <2> SUFFICES ASSUME owner' # 0
                 PROVE  \E g \in Handler : Owns(g)' /\ ~call'[g].overdue
      OBVIOUS
    <2>1. owner' = owner /\ ~Owns(h)
      BY DEF Ends
    <2>2. PICK g \in Handler : Owns(g) /\ ~call[g].overdue
      BY <2>1 DEF Sequenced
    <2> QED
      BY <1>1, <2>1, <2>2 DEF Owns
  <1>4. owner' \in {0, lastSeq'}
    BY DEF Ends, Sequenced
  <1>5. \A g \in Handler :
          Live(g)' => /\ Live(g) /\ call'[g].item = call[g].item
                      /\ call'[g].seq = call[g].seq
    BY <1>1 DEF Ends
  <1>6. Sequenced!2' /\ Sequenced!3'
    BY <1>5 DEF Sequenced, Ends
  <1> QED
    BY <1>1, <1>2, <1>3, <1>4, <1>6 DEF Sequenced

LEMMA LosesKeepsSequenced ==
  ASSUME TypeOK, Sequenced, NEW h \in Handler, Loses(h)
  PROVE  Sequenced'
  <1>1. /\ Running(h) /\ Running(h)'
        /\ Live(h) /\ Live(h)'
        /\ call'[h].overdue /\ call'[h].seq = call[h].seq /\ call'[h].item = call[h].item
        /\ \A g \in Handler \ {h} : /\ call'[g] = call[g]
                                     /\ (Running(g)' <=> Running(g))
                                     /\ (Live(g)' <=> Live(g))
    BY DEF TypeOK, Call, Loses, Running, Live, Owns
  <1>2. \A g \in Handler \ {h} : ~(Running(g) /\ ~call[g].overdue)
    BY DEF Sequenced, Owns, Live, Loses
  <1>3. owner' = 0
    BY DEF Loses
  <1> QED
    BY <1>1, <1>2, <1>3 DEF Sequenced, Loses

LEMMA AcquireKeepsSequenced ==
  ASSUME TypeOK, Sequenced, NEW h \in Handler, NEW i \in Item, Acquire(h, i)
  PROVE  Sequenced'
  <1>1. ~Live(h) /\ owner = 0 /\ owner' = lastSeq + 1 /\ lastSeq' = lastSeq + 1
    BY DEF Acquire, MayDispatch, Running, Live
  <1>2. /\ call'[h].item = i /\ call'[h].seq = lastSeq + 1
        /\ call'[h].pc = "reading" /\ ~call'[h].overdue
        /\ \A g \in Handler \ {h} : call'[g] = call[g]
    BY DEF TypeOK, Acquire, Idle
  <1>3. /\ Running(h)' /\ Owns(h)' /\ Live(h)'
        /\ \A g \in Handler \ {h} : (Running(g)' <=> Running(g)) /\ (Live(g)' <=> Live(g))
    BY <1>1, <1>2 DEF Running, Owns, Live
  <1>4. \A g \in Handler \ {h} : Live(g) => call[g].seq \in 1..lastSeq
    BY DEF Sequenced
  <1>5. lastSeq \in Nat
    BY ControllerAssumption DEF TypeOK
  <1>6. \A g \in Handler \ {h} : Running(g) => call[g].overdue
    <2> SUFFICES ASSUME NEW g \in Handler \ {h}, Running(g), ~call[g].overdue
                 PROVE  FALSE
      BY DEF TypeOK, Call
    <2>1. owner = call[g].seq /\ Live(g)
      BY DEF Sequenced, Live
    <2> QED
      BY <1>1, <1>4, <1>5, <2>1
  <1>7. Sequenced!2' /\ Sequenced!3'
    BY <1>1, <1>2, <1>3, <1>4, <1>5 DEF Sequenced
  <1>8. Sequenced!4' /\ Sequenced!5'
    BY <1>1, <1>2, <1>3, <1>6
  <1> QED
    BY <1>1, <1>7, <1>8 DEF Sequenced

LEMMA DisposeKeepsSequenced ==
  ASSUME TypeOK, Sequenced, Dispose
  PROVE  Sequenced'
  <1>1. owner' = 0 /\ lastSeq' = lastSeq
    BY DEF Dispose
  <1>2. \A h \in Handler : call'[h] = IF Owns(h) THEN [call[h] EXCEPT !.overdue = TRUE]
                                                 ELSE call[h]
    BY DEF Dispose
  <1>3. \A h \in Handler : /\ call'[h].pc = call[h].pc
                           /\ call'[h].seq = call[h].seq /\ call'[h].item = call[h].item
    BY <1>2 DEF TypeOK, Call
  <1>4. \A h \in Handler : (Running(h)' <=> Running(h)) /\ (Live(h)' <=> Live(h))
    BY <1>3 DEF Running, Live
  <1>5. ASSUME NEW h \in Handler, Running(h)
        PROVE  call'[h].overdue
    <2>1. CASE Owns(h)
      BY <1>2, <2>1 DEF TypeOK, Call
    <2>2. CASE ~Owns(h)
      <3>1. call[h].overdue
        BY <1>5, <2>2 DEF Sequenced, Owns, TypeOK, Call
      <3> QED
        BY <1>2, <2>2, <3>1
    <2> QED
      BY <2>1, <2>2
  <1> QED
    BY <1>1, <1>3, <1>4, <1>5 DEF Sequenced

----------------------------------------------------------------------------
(* Which step has which effect.                                            *)
Undisturbed ==
  \/ SettledIgnored \/ SettledLost \/ SettledStop
  \/ GuardTimer \/ CooldownEnds
  \/ UserMessage \/ UnpausedMessage \/ StopMessage \/ ResumeMessage
  \/ Ask \/ Refuse
  \/ \E h \in Handler : \/ SettledDecide(h) \/ DecideStop(h) \/ Blocked(h)
                        \/ StartSend(h) \/ Land(h)

Over(h) ==
  \/ ReadRefused(h) \/ Superseded(h) \/ Withdraw(h) \/ Abort(h)
  \/ SendOk(h) \/ SendFails(h) \/ Count(h)

LEMMA NextSteps ==
  ASSUME Next
  PROVE  \/ Undisturbed
         \/ \E h \in Handler : Over(h) \/ Watchdog(h)
         \/ \E h \in Handler, i \in Item : Acquire(h, i)
         \/ Dispose
  BY DEF Next, Deciding, Dispatching, Surroundings, Undisturbed, Over

LEMMA WithdrawnKeepsDispatches ==
  ASSUME TypeOK, NEW h \in Handler
  PROVE  /\ Withdrawn[h] \in Call
         /\ Withdrawn[h].pc = call[h].pc
         /\ Withdrawn[h].item = call[h].item
         /\ Withdrawn[h].seq = call[h].seq
         /\ Withdrawn[h].landed = call[h].landed
         /\ Withdrawn[h].overdue = call[h].overdue
         /\ Withdrawn[h].stray = call[h].stray
         /\ ~Owns(h) => Withdrawn[h] = call[h]
  BY DEF Withdrawn, TypeOK, Call

LEMMA StrayedKeepsDispatches ==
  ASSUME TypeOK, NEW h \in Handler
  PROVE  /\ Strayed[h] \in Call
         /\ Strayed[h].pc = call[h].pc
         /\ Strayed[h].item = call[h].item
         /\ Strayed[h].seq = call[h].seq
         /\ Strayed[h].overdue = call[h].overdue
         /\ Strayed[h].withdrawn = call[h].withdrawn
         /\ Strayed[h].stray = (call[h].stray \/ Owns(h))
  BY DEF Strayed, TypeOK, Call

LEMMA UndisturbedSameDispatches ==
  ASSUME TypeOK, Undisturbed
  PROVE  SameDispatches
  <1> USE DEF SameDispatches
  <1>1. CASE \/ SettledIgnored \/ SettledLost \/ GuardTimer \/ CooldownEnds
             \/ Ask \/ Refuse
    <2>1. UNCHANGED <<owner, lastSeq, call>>
      BY <1>1 DEF SettledIgnored, SettledLost, GuardTimer, CooldownEnds, Ask, Refuse
    <2> QED
      BY <2>1 DEF Running, Live
  <1>2. CASE SettledStop \/ UserMessage \/ StopMessage \/ ResumeMessage
    <2>1. UNCHANGED <<owner, lastSeq>> /\ call' = Withdrawn
      BY <1>2 DEF SettledStop, UserMessage, StopMessage, ResumeMessage, Interrupt
    <2> QED
      BY <2>1, WithdrawnKeepsDispatches DEF Running, Live
  <1>3. ASSUME NEW h \in Handler, SettledDecide(h)
        PROVE  SameDispatches
    <2>1. /\ UNCHANGED <<owner, lastSeq>> /\ call[h].pc = "idle" /\ call'[h].pc = "deciding"
          /\ \A g \in Handler \ {h} : call'[g] = call[g]
      BY <1>3 DEF SettledDecide, TypeOK, Call
    <2> QED
      BY <2>1 DEF Running, Live
  <1>4. ASSUME NEW h \in Handler, DecideStop(h) \/ Blocked(h)
        PROVE  SameDispatches
    <2>1. CASE call' = [call EXCEPT ![h] = Idle]
      <3>1. /\ UNCHANGED <<owner, lastSeq>> /\ call[h].pc = "deciding" /\ call'[h].pc = "idle"
            /\ \A g \in Handler \ {h} : call'[g] = call[g]
        BY <1>4, <2>1 DEF DecideStop, Blocked, TypeOK, Idle
      <3> QED
        BY <3>1 DEF Running, Live
    <2>2. CASE call' = [Withdrawn EXCEPT ![h] = Idle]
      <3>1. /\ UNCHANGED <<owner, lastSeq>> /\ call[h].pc = "deciding" /\ call'[h].pc = "idle"
            /\ \A g \in Handler \ {h} : call'[g] = Withdrawn[g]
        BY <1>4, <2>2 DEF DecideStop, Blocked, TypeOK, Idle, Withdrawn
      <3> QED
        BY <3>1, WithdrawnKeepsDispatches DEF Running, Live
    <2> QED
      BY <1>4, <2>1, <2>2 DEF DecideStop, Blocked
  <1>5. ASSUME NEW h \in Handler, StartSend(h)
        PROVE  SameDispatches
    <2>1. /\ UNCHANGED <<owner, lastSeq>> /\ call[h].pc = "reading" /\ call'[h].pc = "sending"
          /\ call'[h].item = call[h].item /\ call'[h].seq = call[h].seq
          /\ call'[h].overdue = call[h].overdue
          /\ \A g \in Handler \ {h} : call'[g] = call[g]
      BY <1>5 DEF StartSend, TypeOK, Call
    <2> QED
      BY <2>1 DEF Running, Live
  <1>6. ASSUME NEW h \in Handler, Land(h)
        PROVE  SameDispatches
    <2>1. /\ UNCHANGED <<owner, lastSeq>>
          /\ \A g \in Handler : /\ call'[g].pc = call[g].pc
                                /\ call'[g].item = call[g].item
                                /\ call'[g].seq = call[g].seq
                                /\ call'[g].overdue = call[g].overdue
      BY <1>6, StrayedKeepsDispatches DEF Land, TypeOK, Call, Strayed
    <2> QED
      BY <2>1 DEF Running, Live
  <1>7. CASE UnpausedMessage
    <2>1. UNCHANGED <<owner, lastSeq>> /\ call' = Strayed
      BY <1>7 DEF UnpausedMessage
    <2> QED
      BY <2>1, StrayedKeepsDispatches DEF Running, Live
  <1> QED
    BY <1>1, <1>2, <1>3, <1>4, <1>5, <1>6, <1>7 DEF Undisturbed

LEMMA OverEnds ==
  ASSUME NEW h \in Handler, Over(h)
  PROVE  Ends(h)
  <1>1. CASE Count(h)
    BY <1>1 DEF Count, Ends, Live, Running, Owns
  <1>2. CASE ~Count(h)
    BY <1>2 DEF Over, ReadRefused, Superseded, Withdraw, Abort, SendOk, SendFails, Settle,
                Ends, Owned, Running, Live
  <1> QED
    BY <1>1, <1>2

LEMMA WatchdogLoses ==
  ASSUME NEW h \in Handler, Watchdog(h)
  PROVE  Loses(h)
  BY DEF Watchdog, Loses

LEMMA SequencedInit == Init => Sequenced
  BY ControllerAssumption DEF Init, Sequenced, Running, Live, Idle

LEMMA SequencedStep == TypeOK /\ Sequenced /\ [Next]_vars => Sequenced'
  <1> SUFFICES ASSUME TypeOK, Sequenced, [Next]_vars PROVE Sequenced'
    OBVIOUS
  <1>1. CASE Undisturbed
    BY <1>1, UndisturbedSameDispatches, SameDispatchesKeepSequenced
  <1>2. ASSUME NEW h \in Handler, Over(h) PROVE Sequenced'
    BY <1>2, OverEnds, EndsKeepsSequenced
  <1>3. ASSUME NEW h \in Handler, Watchdog(h) PROVE Sequenced'
    BY <1>3, WatchdogLoses, LosesKeepsSequenced
  <1>4. ASSUME NEW h \in Handler, NEW i \in Item, Acquire(h, i) PROVE Sequenced'
    BY <1>4, AcquireKeepsSequenced
  <1>5. CASE Dispose
    BY <1>5, DisposeKeepsSequenced
  <1>6. CASE UNCHANGED vars
    <2>1. SameDispatches
      BY <1>6 DEF vars, SameDispatches, Running, Live
    <2> QED
      BY <2>1, SameDispatchesKeepSequenced
  <1> QED
    BY <1>1, <1>2, <1>3, <1>4, <1>5, <1>6, NextSteps

LEMMA SequencedGivesOneOwner == Sequenced => OneOwner
  BY DEF Sequenced, OneOwner, Owns, Live

----------------------------------------------------------------------------
LEMMA TypeInit == Init => TypeOK
  <1> SUFFICES ASSUME Init PROVE TypeOK
    OBVIOUS
  <1>1. /\ queued \in BOOLEAN /\ userPaused \in BOOLEAN /\ stopped \in BOOLEAN
        /\ cancel \in BOOLEAN /\ cooling \in BOOLEAN /\ disposed \in BOOLEAN
        /\ busy \in BOOLEAN /\ waiting \in BOOLEAN /\ refused \in BOOLEAN
    BY DEF Init
  <1>2. 0 \in 0..MaxDispatch /\ 0 \in 0..MaxFailures
    BY ControllerAssumption
  <1>3. call \in [Handler -> Call] /\ attempts \in [Item -> Nat]
    BY IdleIsCall DEF Init
  <1> QED
    BY <1>1, <1>2, <1>3 DEF Init, TypeOK

(* The two guards, the cancel intent and the pending release keep their    *)
(* types in every operation that the steps share.                          *)
GuardTypeOK ==
  /\ queued \in BOOLEAN
  /\ owner \in 0..MaxDispatch
  /\ cancel \in BOOLEAN
  /\ pending \in 0..MaxDispatch
  /\ timer \in {"off", "net", "short"}

LEMMA SettleType ==
  ASSUME TypeOK, NEW q \in BOOLEAN, NEW t \in {"off", "net", "short"},
         NEW c \in BOOLEAN, Settle(q, t, c)
  PROVE  GuardTypeOK'
  <1>1. queued' \in BOOLEAN /\ cancel' \in BOOLEAN
    BY DEF Settle
  <1>2. owner' = 0 /\ pending' = 0 /\ 0 \in 0..MaxDispatch
    BY ControllerAssumption DEF Settle
  <1>3. timer' \in {"off", "net", "short"}
    BY DEF Settle
  <1> QED
    BY <1>1, <1>2, <1>3 DEF GuardTypeOK

LEMMA TypeStep == TypeOK /\ Sequenced /\ [Next]_vars => TypeOK'
  <1> SUFFICES ASSUME TypeOK, Sequenced, [Next]_vars PROVE TypeOK'
    OBVIOUS
  <1> USE ControllerAssumption DEF guard, pauses, breaker, budget, agent
  <1>1. CASE SettledIgnored
    BY <1>1 DEF TypeOK, SettledIgnored, ReleaseGuard, Disarm
  <1>2. CASE SettledLost
    BY <1>2 DEF TypeOK, SettledLost
  <1>3. Withdrawn \in [Handler -> Call]
    BY WithdrawnKeepsDispatches DEF Withdrawn
  <1>4. CASE SettledStop
    <2>1. call' \in [Handler -> Call]
      BY <1>3, <1>4 DEF SettledStop
    <2>2. userPaused' \in BOOLEAN /\ cancel' \in BOOLEAN /\ busy' \in BOOLEAN
          /\ pending' \in 0..MaxDispatch
      BY <1>4 DEF SettledStop, TypeOK, PausedAtDecision
    <2> QED
      BY <1>4, <2>1, <2>2 DEF TypeOK, SettledStop, Disarm
  <1>5. CASE GuardTimer
    BY <1>5 DEF TypeOK, GuardTimer, Disarm
  <1>6. CASE CooldownEnds
    BY <1>6 DEF TypeOK, CooldownEnds
  <1>7. ASSUME Interrupt
        PROVE  /\ userPaused' \in BOOLEAN /\ queued' \in BOOLEAN /\ cancel' \in BOOLEAN
               /\ timer' \in {"off", "net", "short"} /\ pending' \in 0..MaxDispatch
               /\ call' \in [Handler -> Call]
    <2>1. userPaused' \in BOOLEAN /\ queued' \in BOOLEAN /\ cancel' \in BOOLEAN
      BY <1>7 DEF Interrupt, Disarm
    <2>2. timer' = "off" /\ pending' = 0 /\ call' = Withdrawn
      BY <1>7 DEF Interrupt, Disarm
    <2> QED
      BY <1>3, <2>1, <2>2
  <1>8. CASE UserMessage
    BY <1>7, <1>8 DEF TypeOK, UserMessage
  <1>9. CASE StopMessage
    BY <1>7, <1>9 DEF TypeOK, StopMessage
  <1>25. CASE UnpausedMessage
    <2>1. Strayed \in [Handler -> Call]
      BY StrayedKeepsDispatches DEF Strayed
    <2>2. waiting' \in BOOLEAN /\ refused' \in BOOLEAN /\ busy' \in BOOLEAN
      BY <1>25 DEF UnpausedMessage, TypeOK
    <2> QED
      BY <1>25, <2>1, <2>2 DEF TypeOK, UnpausedMessage
  <1>10. CASE ResumeMessage
    <2>1. /\ stopped' \in BOOLEAN /\ cooling' \in BOOLEAN /\ busy' \in BOOLEAN
          /\ waiting' \in BOOLEAN /\ refused' \in BOOLEAN
      BY <1>10 DEF ResumeMessage
    <2>2. failures' \in 0..MaxFailures
      BY <1>10 DEF ResumeMessage
    <2> QED
      BY <1>7, <1>10, <2>1, <2>2 DEF TypeOK, ResumeMessage
  <1>11. CASE Ask
    BY <1>11 DEF TypeOK, Ask
  <1>12. CASE Refuse
    BY <1>12 DEF TypeOK, Refuse
  <1>13. CASE Dispose
    <2>1. \A h \in Handler : [call[h] EXCEPT !.overdue = TRUE] \in Call
      BY DEF TypeOK, Call
    <2>2. call' \in [Handler -> Call]
      BY <1>13, <2>1 DEF TypeOK, Dispose
    <2>3. disposed' \in BOOLEAN /\ queued' \in BOOLEAN /\ cancel' \in BOOLEAN
      BY <1>13 DEF Dispose, Disarm
    <2>4. timer' = "off" /\ pending' = 0 /\ owner' = 0 /\ stalled' = NoItem
          /\ UNCHANGED <<pauses, lastSeq, breaker, attempts, total, late, agent>>
      BY <1>13 DEF Dispose, Disarm
    <2> QED
      BY <2>2, <2>3, <2>4 DEF TypeOK
  <1>14. ASSUME NEW h \in Handler, SettledDecide(h) PROVE TypeOK'
    <2>1. call' \in [Handler -> Call]
      BY <1>14 DEF TypeOK, SettledDecide, Call
    <2>2. userPaused' \in BOOLEAN /\ busy' \in BOOLEAN
      BY <1>14 DEF TypeOK, SettledDecide, PausedAtDecision
    <2> QED
      BY <1>14, <2>1, <2>2 DEF TypeOK, SettledDecide, ReleaseGuard, Disarm
  <1>15. ASSUME NEW h \in Handler, DecideStop(h) PROVE TypeOK'
    <2>1. call' \in [Handler -> Call]
      BY <1>3, <1>15, IdleIsCall DEF TypeOK, DecideStop
    <2> QED
      BY <1>15, <2>1 DEF TypeOK, DecideStop, ClearQueue, Disarm
  <1>16. ASSUME NEW h \in Handler, Blocked(h) PROVE TypeOK'
    BY <1>16, IdleIsCall DEF TypeOK, Blocked
  <1>17. ASSUME NEW h \in Handler, NEW i \in Item, Acquire(h, i) PROVE TypeOK'
    <2>1. lastSeq + 1 \in 0..MaxDispatch
      BY <1>17 DEF TypeOK, Acquire
    <2>2. call' \in [Handler -> Call]
      BY <1>17, <2>1 DEF TypeOK, Acquire, Call, Idle
    <2> QED
      BY <1>17, <2>1, <2>2 DEF TypeOK, Acquire
  <1>18. ASSUME NEW h \in Handler,
                ReadRefused(h) \/ Superseded(h) \/ Withdraw(h) \/ Abort(h)
         PROVE  TypeOK'
    <2>1. call' \in [Handler -> Call] /\ UNCHANGED <<pauses, lastSeq, breaker, budget, disposed, agent>>
      BY <1>18, IdleIsCall DEF TypeOK, ReadRefused, Superseded, Withdraw, Abort
    <2>2. GuardTypeOK'
      <3>1. CASE Superseded(h)
        BY <3>1 DEF Superseded, TypeOK, GuardTypeOK
      <3>2. CASE ReadRefused(h)
        BY <3>2, SettleType DEF ReadRefused, TypeOK
      <3>3. CASE Withdraw(h)
        BY <3>3, SettleType DEF Withdraw, TypeOK
      <3>4. CASE Abort(h)
        BY <3>4, SettleType DEF Abort, TypeOK
      <3> QED
        BY <1>18, <3>1, <3>2, <3>3, <3>4
    <2> QED
      BY <2>1, <2>2 DEF TypeOK, GuardTypeOK
  <1>19. ASSUME NEW h \in Handler, StartSend(h) PROVE TypeOK'
    <2>1. call' \in [Handler -> Call]
      BY <1>19 DEF TypeOK, StartSend, Call
    <2> QED
      BY <1>19, <2>1 DEF TypeOK, StartSend
  <1>20. ASSUME NEW h \in Handler, Land(h) PROVE TypeOK'
    <2>1. [call[h] EXCEPT !.landed = TRUE] \in Call
      BY DEF TypeOK, Call
    <2>3. Strayed \in [Handler -> Call]
      BY StrayedKeepsDispatches DEF Strayed
    <2>2. call' \in [Handler -> Call]
      BY <1>20, <2>1, <2>3 DEF Land
    <2> QED
      BY <1>20, <2>2 DEF TypeOK, Land
  <1>21. ASSUME NEW h \in Handler, SendOk(h) PROVE TypeOK'
    <2>1. [call[h] EXCEPT !.pc = "counting"] \in Call
      BY DEF TypeOK, Call
    <2>2. /\ call' \in [Handler -> Call]
          /\ UNCHANGED <<pauses, lastSeq, cooling, budget, disposed, agent>>
      BY <1>21, <2>1 DEF TypeOK, SendOk
    <2>3. GuardTypeOK' /\ failures' \in 0..MaxFailures
      <3>1. CASE Owned(h)
        BY <1>21, <3>1, SettleType DEF SendOk, TypeOK
      <3>2. CASE ~Owned(h)
        BY <1>21, <3>2 DEF SendOk, TypeOK, GuardTypeOK
      <3> QED
        BY <3>1, <3>2
    <2> QED
      BY <2>2, <2>3 DEF TypeOK, GuardTypeOK
  <1>26. ASSUME NEW h \in Handler, Count(h) PROVE TypeOK'
    <2>1. call[h].item \in Item
      BY <1>26 DEF Count, Sequenced, Live
    <2>2. /\ call' \in [Handler -> Call] /\ attempts' \in [Item -> Nat] /\ total' \in Nat
          /\ late' \in Nat /\ stalled' \in Item \cup {NoItem}
      BY <1>26, <2>1, IdleIsCall DEF TypeOK, Count
    <2> QED
      BY <1>26, <2>2 DEF TypeOK, Count
  <1>22. ASSUME NEW h \in Handler, SendFails(h) PROVE TypeOK'
    <2>1. call' \in [Handler -> Call] /\ UNCHANGED <<pauses, lastSeq, budget, disposed, agent>>
      BY <1>22, IdleIsCall DEF TypeOK, SendFails
    <2>2. GuardTypeOK' /\ failures' \in 0..MaxFailures /\ cooling' \in BOOLEAN
      <3>1. CASE Owned(h)
        <4>1. Settle(FALSE, "off", cancel) /\ cooling' \in BOOLEAN
          BY <1>22, <3>1 DEF SendFails
        <4>2. GuardTypeOK'
          BY <4>1, SettleType DEF TypeOK
        <4>3. failures' \in 0..MaxFailures
          BY <1>22, <3>1 DEF SendFails, TypeOK
        <4> QED
          BY <4>1, <4>2, <4>3
      <3>2. CASE ~Owned(h)
        BY <1>22, <3>2 DEF SendFails, TypeOK, GuardTypeOK
      <3> QED
        BY <3>1, <3>2
    <2> QED
      BY <2>1, <2>2 DEF TypeOK, GuardTypeOK
  <1>23. ASSUME NEW h \in Handler, Watchdog(h) PROVE TypeOK'
    <2>1. [call[h] EXCEPT !.overdue = TRUE] \in Call
      BY DEF TypeOK, Call
    <2>2. call' \in [Handler -> Call]
      BY <1>23, <2>1 DEF TypeOK, Watchdog
    <2>3. queued' \in BOOLEAN /\ cancel' \in BOOLEAN
      BY <1>23 DEF Watchdog, Disarm
    <2>4. stalled' \in Item \cup {NoItem}
      BY <1>23 DEF TypeOK, Watchdog, Call
    <2> QED
      BY <1>23, <2>2, <2>3, <2>4 DEF TypeOK, Watchdog, Disarm
  <1>24. CASE UNCHANGED vars
    BY <1>24 DEF TypeOK, vars
  <1> QED
    BY <1>1, <1>2, <1>4, <1>5, <1>6, <1>8, <1>9, <1>10, <1>11, <1>12, <1>13, <1>14, <1>15,
       <1>16, <1>17, <1>18, <1>19, <1>20, <1>21, <1>22, <1>23, <1>24, <1>25, <1>26
    DEF Next, Deciding, Dispatching, Surroundings

----------------------------------------------------------------------------
LEMMA LeftBehindStep ==
  ASSUME TypeOK, NothingLeftBehind, [Next]_vars
  PROVE  NothingLeftBehind'
  <1> USE DEF NothingLeftBehind, guard
  <1>1. ASSUME Disarm, cancel' => owner' # 0
        PROVE  NothingLeftBehind'
    BY <1>1 DEF Disarm
  <1>2. ASSUME NEW q \in BOOLEAN, NEW t, NEW c \in BOOLEAN, Settle(q, t, c),
               q => t # "off"
        PROVE  NothingLeftBehind'
    BY <1>2 DEF Settle
  <1>3. ASSUME ReleaseGuard, UNCHANGED <<owner, cancel>>
        PROVE  NothingLeftBehind'
    BY <1>3 DEF ReleaseGuard, Disarm
  <1>4. CASE \/ SettledIgnored \/ \E h \in Handler : SettledDecide(h)
    BY <1>3, <1>4 DEF SettledIgnored, SettledDecide
  <1>5. CASE \/ SettledStop \/ GuardTimer
             \/ UserMessage \/ StopMessage \/ ResumeMessage \/ Dispose
    <2>1. CASE SettledStop
      BY <1>1, <2>1 DEF SettledStop
    <2>2. CASE GuardTimer
      BY <1>1, <2>2 DEF GuardTimer
    <2>3. CASE UserMessage \/ StopMessage \/ ResumeMessage
      <3>1. Disarm /\ owner' = owner /\ cancel' = (cancel \/ owner # 0)
        BY <2>3 DEF UserMessage, StopMessage, ResumeMessage, Interrupt
      <3> QED
        BY <1>1, <3>1
    <2>4. CASE Dispose
      BY <1>1, <2>4 DEF Dispose
    <2> QED
      BY <1>5, <2>1, <2>2, <2>3, <2>4
  <1>6. ASSUME UNCHANGED <<guard, owner, cancel>>
        PROVE  NothingLeftBehind'
    BY <1>6
  <1>7. CASE SettledLost \/ CooldownEnds \/ UnpausedMessage \/ Ask \/ Refuse \/ UNCHANGED vars
    BY <1>6, <1>7 DEF SettledLost, CooldownEnds, UnpausedMessage, Ask, Refuse, vars
  <1>8. ASSUME NEW h \in Handler, Blocked(h) \/ Superseded(h) \/ Land(h) \/ Count(h)
        PROVE  NothingLeftBehind'
    BY <1>6, <1>8 DEF Blocked, Superseded, Land, Count
  <1>9. ASSUME NEW h \in Handler, NEW i \in Item, Acquire(h, i)
        PROVE  NothingLeftBehind'
    <2>1. UNCHANGED <<guard, cancel>> /\ owner' # 0
      BY <1>9, ControllerAssumption DEF Acquire, TypeOK
    <2> QED
      BY <2>1
  <1>10. ASSUME NEW h \in Handler, DecideStop(h)
         PROVE  NothingLeftBehind'
    BY <1>10 DEF DecideStop, ClearQueue, Disarm
  <1>11. ASSUME NEW h \in Handler, StartSend(h)
         PROVE  NothingLeftBehind'
    BY <1>11 DEF StartSend
  <1>12. ASSUME NEW h \in Handler, ReadRefused(h) \/ Withdraw(h) \/ Abort(h)
         PROVE  NothingLeftBehind'
    BY <1>2, <1>12 DEF ReadRefused, Withdraw, Abort, TypeOK
  <1>13. ASSUME NEW h \in Handler, SendOk(h) \/ SendFails(h)
         PROVE  NothingLeftBehind'
    <2>1. CASE Owned(h)
      BY <1>2, <1>13, <2>1 DEF SendOk, SendFails, TypeOK
    <2>2. CASE ~Owned(h)
      BY <1>6, <1>13, <2>2 DEF SendOk, SendFails
    <2> QED
      BY <2>1, <2>2
  <1>14. ASSUME NEW h \in Handler, Watchdog(h)
         PROVE  NothingLeftBehind'
    BY <1>1, <1>14 DEF Watchdog
  <1> QED
    BY <1>4, <1>5, <1>7, <1>8, <1>9, <1>10, <1>11, <1>12, <1>13, <1>14
    DEF Next, Deciding, Dispatching, Surroundings

----------------------------------------------------------------------------
LEMMA WithdrawalsStep ==
  ASSUME TypeOK, Sequenced, Withdrawals, [Next]_vars
  PROVE  Withdrawals'
  <1>1. ASSUME SameDispatches, cancel' = cancel, busy' => busy,
               \A h \in Handler : Running(h) =>
                 /\ call'[h].withdrawn = call[h].withdrawn
                 /\ call'[h].stray = call[h].stray
                 /\ call'[h].pc = "reading" => call[h].pc = "reading"
        PROVE  Withdrawals'
    BY <1>1 DEF Withdrawals, SameDispatches, Owns, Live
  <1>2. ASSUME owner' = 0
        PROVE  Withdrawals'
    <2>1. \A h \in Handler : ~Owns(h)'
      BY <1>2, SequencedStep DEF Sequenced, Owns, Live
    <2> QED
      BY <2>1 DEF Withdrawals
  <1>3. ASSUME owner # 0 => cancel', SameDispatches
        PROVE  Withdrawals'
    <2>1. \A h \in Handler : Owns(h)' => owner # 0
      BY <1>3 DEF SameDispatches, Owns, Sequenced, Live
    <2> QED
      BY <1>3, <2>1 DEF Withdrawals
  <1>4. CASE \/ SettledIgnored \/ SettledLost \/ GuardTimer \/ CooldownEnds \/ Ask \/ Refuse
             \/ UNCHANGED vars
    <2>1. UNCHANGED <<call, cancel, owner, lastSeq>> /\ (busy' => busy)
      BY <1>4 DEF SettledIgnored, SettledLost, GuardTimer, CooldownEnds, Ask, Refuse, vars, agent
    <2>2. SameDispatches
      BY <2>1 DEF SameDispatches, Running, Live
    <2> QED
      BY <1>1, <2>1, <2>2
  <1>5. CASE SettledStop \/ UserMessage \/ StopMessage \/ ResumeMessage
    <2>1. SameDispatches
      BY <1>5, UndisturbedSameDispatches DEF Undisturbed
    <2>2. owner # 0 => cancel'
      BY <1>5 DEF SettledStop, UserMessage, StopMessage, ResumeMessage, Interrupt
    <2> QED
      BY <1>3, <2>1, <2>2
  <1>6. ASSUME NEW h \in Handler, DecideStop(h), ~disposed
        PROVE  Withdrawals'
    <2>1. SameDispatches
      BY <1>6, UndisturbedSameDispatches DEF Undisturbed
    <2>2. owner # 0 => cancel'
      BY <1>6 DEF DecideStop, ClearQueue
    <2> QED
      BY <1>3, <2>1, <2>2
  <1>7. ASSUME NEW h \in Handler, call' = [call EXCEPT ![h] = Idle], ~Running(h),
               UNCHANGED <<owner, lastSeq, cancel, busy>>
        PROVE  Withdrawals'
    <2>1. /\ ~Running(h)'
          /\ \A g \in Handler \ {h} : call'[g] = call[g] /\ (Running(g)' <=> Running(g))
      BY <1>7 DEF TypeOK, Running, Idle
    <2>2. \A g \in Handler \ {h} : Owns(g)' => Owns(g)
      BY <1>7, <2>1 DEF Owns
    <2>3. ~Owns(h)'
      BY <2>1 DEF Owns
    <2> QED
      BY <1>7, <2>1, <2>2, <2>3 DEF Withdrawals
  <1>8. ASSUME NEW h \in Handler, (DecideStop(h) /\ disposed) \/ Blocked(h)
        PROVE  Withdrawals'
    BY <1>7, <1>8 DEF DecideStop, Blocked, Running, agent
  <1>9. ASSUME NEW h \in Handler, SettledDecide(h)
        PROVE  Withdrawals'
    <2>1. /\ ~Running(h) /\ UNCHANGED <<owner, lastSeq, cancel>> /\ ~busy'
          /\ call'[h].pc = "deciding" /\ \A g \in Handler \ {h} : call'[g] = call[g]
      BY <1>9 DEF SettledDecide, TypeOK, Call, Running
    <2>2. SameDispatches
      BY <1>9, UndisturbedSameDispatches DEF Undisturbed
    <2> QED
      BY <1>1, <2>1, <2>2
  <1>10. ASSUME NEW h \in Handler, StartSend(h)
         PROVE  Withdrawals'
    <2>1. /\ UNCHANGED <<cancel, busy>> /\ call'[h].pc = "sending"
          /\ call'[h].withdrawn = call[h].withdrawn /\ call'[h].stray = call[h].stray
          /\ \A g \in Handler \ {h} : call'[g] = call[g]
      BY <1>10 DEF StartSend, TypeOK, Call, agent
    <2>2. SameDispatches
      BY <1>10, UndisturbedSameDispatches DEF Undisturbed
    <2> QED
      BY <1>1, <2>1, <2>2
  <1>11. ASSUME SameDispatches, cancel' = cancel,
                \A g \in Handler : /\ call'[g].withdrawn = call[g].withdrawn
                                   /\ call'[g].pc = call[g].pc
                                   /\ Owns(g) /\ call[g].pc = "reading" => call'[g].stray
         PROVE  Withdrawals'
    BY <1>11 DEF Withdrawals, SameDispatches, Owns, Live
  <1>16. CASE UnpausedMessage
    <2>1. SameDispatches
      BY <1>16, UndisturbedSameDispatches DEF Undisturbed
    <2>2. call' = Strayed /\ cancel' = cancel
      BY <1>16 DEF UnpausedMessage
    <2> QED
      BY <1>11, <2>1, <2>2, StrayedKeepsDispatches
  <1>17. ASSUME NEW h \in Handler, Land(h)
         PROVE  Withdrawals'
    <2>1. SameDispatches
      BY <1>17, UndisturbedSameDispatches DEF Undisturbed
    <2>2. /\ cancel' = cancel /\ call[h].pc = "sending"
          /\ call' = [Strayed EXCEPT ![h] = [call[h] EXCEPT !.landed = TRUE]]
      BY <1>17 DEF Land
    <2>3. /\ call'[h].withdrawn = call[h].withdrawn /\ call'[h].pc = call[h].pc
          /\ \A g \in Handler \ {h} : call'[g] = Strayed[g]
      BY <2>2 DEF TypeOK, Call, Strayed
    <2> QED
      BY <1>11, <2>1, <2>2, <2>3, StrayedKeepsDispatches
  <1>12. ASSUME NEW h \in Handler, NEW i \in Item, Acquire(h, i)
         PROVE  Withdrawals'
    <2>1. ~busy' /\ owner' = lastSeq + 1
      BY <1>12 DEF Acquire, MayDispatch, agent
    <2>2. ~call'[h].withdrawn
      BY <1>12 DEF Acquire, TypeOK, Idle
    <2>3. \A g \in Handler : Owns(g)' => g = h
      <3>1. Owns(h)'
        BY <1>12 DEF Acquire, TypeOK, Idle, Owns, Running
      <3> QED
        BY <1>12, <3>1, AcquireKeepsSequenced DEF Sequenced, Owns, Live
    <2> QED
      BY <2>1, <2>2, <2>3 DEF Withdrawals
  <1>13. ASSUME NEW h \in Handler, Over(h), Owns(h)
         PROVE  Withdrawals'
    BY <1>2, <1>13, OverEnds DEF Ends
  <1>14. ASSUME NEW h \in Handler, Over(h), ~Owns(h)
         PROVE  Withdrawals'
    <2>1. UNCHANGED <<owner, lastSeq, cancel, busy>>
      BY <1>14 DEF Over, ReadRefused, Superseded, Withdraw, Abort, SendOk, SendFails, Count,
                   Owned, agent, Running
    <2>2. ~Running(h)' /\ \A g \in Handler \ {h} : call'[g] = call[g]
      BY <1>14, OverEnds DEF Ends, TypeOK, Call, Running, Idle
    <2>3. ~Owns(h)' /\ \A g \in Handler \ {h} : Owns(g)' => Owns(g)
      BY <2>1, <2>2 DEF Running, Owns
    <2> QED
      BY <2>1, <2>2, <2>3 DEF Withdrawals
  <1>15. CASE Dispose \/ \E h \in Handler : Watchdog(h)
    BY <1>2, <1>15 DEF Dispose, Watchdog
  <1> QED
    BY <1>4, <1>5, <1>6, <1>8, <1>9, <1>10, <1>12, <1>13, <1>14, <1>15, <1>16,
       <1>17, NextSteps
    DEF Undisturbed

----------------------------------------------------------------------------
LEMMA UncountedIsLast ==
  ASSUME TypeOK, Sequenced, NEW h \in Handler, Uncounted(h)
  PROVE  Live(h) /\ ~call[h].overdue /\ call[h].seq = lastSeq
  <1>1. CASE Owns(h)
    <2>1. Live(h) /\ owner = call[h].seq /\ owner # 0
      BY <1>1, ControllerAssumption DEF Owns, Live, Sequenced
    <2>2. PICK g \in Handler : Owns(g) /\ ~call[g].overdue
      BY <2>1 DEF Sequenced
    <2>3. g = h
      BY <2>1, <2>2 DEF Owns, Live, Sequenced
    <2> QED
      BY <2>1, <2>2, <2>3 DEF Sequenced
  <1>2. CASE ~Owns(h)
    BY <1>2 DEF Uncounted, Live
  <1> QED
    BY <1>1, <1>2

LEMMA BudgetStep ==
  ASSUME TypeOK, Sequenced, BudgetHolds, [Next]_vars
  PROVE  BudgetHolds'
  <1> USE ControllerAssumption
  <1>1. ASSUME UNCHANGED <<total, attempts, late>>,
               \A h \in Handler :
                 Uncounted(h)' => Uncounted(h) /\ call'[h].item = call[h].item
        PROVE  BudgetHolds'
    <2>1. (\E h \in Handler : Uncounted(h))' => \E h \in Handler : Uncounted(h)
      BY <1>1
    <2>2. \A i \in Item : (\E h \in Handler : Uncounted(h) /\ call[h].item = i)'
                           => \E h \in Handler : Uncounted(h) /\ call[h].item = i
      BY <1>1
    <2>3. BudgetHolds!1'
      BY <1>1, <2>1 DEF BudgetHolds, TypeOK
    <2>4. ASSUME NEW i \in Item
          PROVE  (attempts[i] + (IF \E h \in Handler : Uncounted(h) /\ call[h].item = i
                                 THEN 1 ELSE 0) <= MaxSteer + late)'
      <3>1. attempts[i] + (IF \E h \in Handler : Uncounted(h) /\ call[h].item = i
                           THEN 1 ELSE 0) <= MaxSteer + late
        BY DEF BudgetHolds
      <3> QED
        BY <1>1, <2>2, <3>1 DEF TypeOK
    <2> QED
      BY <2>3, <2>4 DEF BudgetHolds
  <1>2. ASSUME SameDispatches, UNCHANGED <<total, attempts, late>>
        PROVE  BudgetHolds'
    <2>1. \A h \in Handler :
            Uncounted(h)' => Uncounted(h) /\ call'[h].item = call[h].item
      BY <1>2 DEF SameDispatches, Uncounted, Owns, Live, Running
    <2> QED
      BY <1>1, <1>2, <2>1
  <1>3. CASE Undisturbed
    <2>1. UNCHANGED <<total, attempts, late>>
      BY <1>3 DEF Undisturbed, SettledIgnored, SettledLost, SettledStop, GuardTimer,
                  CooldownEnds, UserMessage, UnpausedMessage, StopMessage, ResumeMessage,
                  Ask, Refuse, SettledDecide, DecideStop, Blocked, StartSend, Land, budget
    <2> QED
      BY <1>2, <1>3, <2>1, UndisturbedSameDispatches
  <1>4. CASE UNCHANGED vars
    BY <1>2, <1>4 DEF vars, budget, SameDispatches, Running, Live
  <1>5. Sequenced'
    BY SequencedStep
  <1>6. ASSUME NEW h \in Handler, Watchdog(h)
        PROVE  BudgetHolds'
    <2>1. owner' = 0 /\ lastSeq' = lastSeq /\ UNCHANGED <<total, attempts, late>>
          /\ call' = [call EXCEPT ![h].overdue = TRUE]
      BY <1>6 DEF Watchdog
    <2>2. \A g \in Handler : ~Owns(g)'
      BY <1>5, <2>1 DEF Sequenced, Owns, Live
    <2>3. \A g \in Handler : Uncounted(g)' => Uncounted(g) /\ call'[g].item = call[g].item
      BY <2>1, <2>2 DEF Uncounted, TypeOK, Call
    <2> QED
      BY <1>1, <2>1, <2>3
  <1>7. CASE Dispose
    <2>1. owner' = 0 /\ lastSeq' = lastSeq /\ UNCHANGED <<total, attempts, late>>
          /\ call' = [h \in Handler |->
                        IF Owns(h) THEN [call[h] EXCEPT !.overdue = TRUE] ELSE call[h]]
      BY <1>7 DEF Dispose
    <2>2. \A g \in Handler : ~Owns(g)'
      BY <1>5, <2>1 DEF Sequenced, Owns, Live
    <2>3. \A g \in Handler : Uncounted(g)' => Uncounted(g) /\ call'[g].item = call[g].item
      BY <2>1, <2>2 DEF Uncounted, TypeOK, Call
    <2> QED
      BY <1>1, <2>1, <2>3
  <1>8. ASSUME NEW h \in Handler, Over(h)
        PROVE  /\ ~Owns(h)' /\ lastSeq' = lastSeq
               /\ \A g \in Handler \ {h} :
                    /\ call'[g] = call[g]
                    /\ Uncounted(g)' => Uncounted(g)
    <2>1. Ends(h)
      BY <1>8, OverEnds
    <2>2. ~Running(h)' /\ \A g \in Handler \ {h} : call'[g] = call[g]
      BY <2>1 DEF TypeOK, Call, Ends, Running, Idle
    <2>3. \A g \in Handler \ {h} : Owns(g)' => Owns(g)
      <3> SUFFICES ASSUME NEW g \in Handler \ {h}, Owns(g)' PROVE Owns(g)
        OBVIOUS
      <3>1. Running(g) /\ call'[g].seq = call[g].seq /\ owner' # 0
        BY <1>5, <2>2 DEF Owns, Running, Live, Sequenced
      <3> QED
        BY <2>1, <3>1 DEF Ends, Owns
    <2> QED
      BY <2>1, <2>2, <2>3 DEF Uncounted, Owns, Ends
  <1>9. ASSUME NEW h \in Handler,
               \/ ReadRefused(h) \/ Superseded(h) \/ Withdraw(h) \/ Abort(h) \/ SendFails(h)
        PROVE  BudgetHolds'
    <2>1. Over(h) /\ UNCHANGED <<total, attempts, late>> /\ call' = [call EXCEPT ![h] = Idle]
      BY <1>9 DEF Over, ReadRefused, Superseded, Withdraw, Abort, SendFails, budget
    <2>2. ~Uncounted(h)'
      BY <1>8, <2>1 DEF Uncounted, TypeOK, Idle
    <2> QED
      BY <1>1, <1>8, <2>1, <2>2
  <1>10. ASSUME NEW h \in Handler, SendOk(h)
         PROVE  BudgetHolds'
    <2>1. /\ Over(h) /\ Running(h) /\ UNCHANGED <<total, attempts, late>>
          /\ call'[h].item = call[h].item /\ call'[h].seq = call[h].seq
          /\ call'[h].overdue = call[h].overdue
      BY <1>10 DEF Over, SendOk, Running, budget, TypeOK, Call
    <2>2. Uncounted(h)' => Uncounted(h)
      <3> SUFFICES ASSUME Uncounted(h)' PROVE Owns(h)
        BY DEF Uncounted
      <3>1. ~call[h].overdue
        BY <1>8, <2>1 DEF Uncounted
      <3> QED
        BY <2>1, <3>1 DEF Sequenced, Owns
    <2> QED
      BY <1>1, <1>8, <2>1, <2>2
  <1>12. ASSUME NEW h \in Handler, Count(h)
         PROVE  BudgetHolds'
    <2>1. /\ Over(h) /\ Live(h) /\ call[h].item \in Item
          /\ total' = total + 1
          /\ attempts' = [attempts EXCEPT ![call[h].item] = @ + 1]
          /\ late' = IF call[h].overdue \/ call[h].seq # lastSeq THEN late + 1 ELSE late
          /\ call'[h].pc = "idle"
      BY <1>12 DEF Over, Count, Live, Sequenced, TypeOK, Idle
    <2>2. ~Uncounted(h)'
      BY <1>8, <2>1 DEF Uncounted
    <2>3. CASE Uncounted(h)
      <3>1. late' = late
        BY <2>1, <2>3, UncountedIsLast
      <3>2. \A g \in Handler : ~Uncounted(g)'
        <4> SUFFICES ASSUME NEW g \in Handler \ {h}, Uncounted(g) PROVE FALSE
          BY <1>8, <2>1, <2>2
        <4> QED
          BY <2>3, UncountedIsLast DEF Sequenced
      <3>3. total + 1 <= MaxTotal + late
        BY <2>3 DEF BudgetHolds
      <3>4. attempts[call[h].item] + 1 <= MaxSteer + late
        BY <2>1, <2>3 DEF BudgetHolds
      <3>5. \A i \in Item : attempts[i] <= MaxSteer + late
        BY DEF BudgetHolds, TypeOK
      <3>6. \A i \in Item : attempts'[i] + 0 <= MaxSteer + late'
        BY <2>1, <3>1, <3>4, <3>5 DEF TypeOK
      <3>7. total' + 0 <= MaxTotal + late'
        BY <2>1, <3>1, <3>3 DEF TypeOK
      <3> QED
        BY <3>2, <3>6, <3>7 DEF BudgetHolds
    <2>4. CASE ~Uncounted(h)
      <3>1. late' = late + 1
        BY <1>12, <2>1, <2>4 DEF Uncounted, Count
      <3>2. BudgetHolds!1'
        <4>1. (\E g \in Handler : Uncounted(g))' => \E g \in Handler : Uncounted(g)
          BY <1>8, <2>1, <2>2
        <4> QED
          BY <2>1, <3>1, <4>1 DEF BudgetHolds, TypeOK
      <3>3. ASSUME NEW i \in Item
            PROVE  (attempts[i] + (IF \E g \in Handler : Uncounted(g) /\ call[g].item = i
                                   THEN 1 ELSE 0) <= MaxSteer + late)'
        <4>1. (\E g \in Handler : Uncounted(g) /\ call[g].item = i)'
                => \E g \in Handler : Uncounted(g) /\ call[g].item = i
          BY <1>8, <2>1, <2>2
        <4>2. attempts[i] + (IF \E g \in Handler : Uncounted(g) /\ call[g].item = i
                             THEN 1 ELSE 0) <= MaxSteer + late
          BY DEF BudgetHolds
        <4>3. attempts'[i] <= attempts[i] + 1 /\ attempts'[i] \in Nat /\ attempts[i] \in Nat
          BY <2>1 DEF TypeOK
        <4> QED
          BY <3>1, <4>1, <4>2, <4>3 DEF TypeOK
      <3> QED
        BY <3>2, <3>3 DEF BudgetHolds
    <2> QED
      BY <2>3, <2>4
  <1>11. ASSUME NEW h \in Handler, NEW j \in Item, Acquire(h, j)
         PROVE  BudgetHolds'
    <2>1. /\ attempts[j] < MaxSteer /\ total < MaxTotal
          /\ UNCHANGED <<total, attempts, late>>
          /\ call'[h].item = j /\ call'[h].seq = lastSeq' /\ Live(h)'
      BY <1>11 DEF Acquire, WithinBudget, budget, TypeOK, Idle, Live, Running
    <2>2. \A g \in Handler : Uncounted(g)' => g = h
      <3>1. owner' = lastSeq'
        BY <1>11 DEF Acquire
      <3>2. \A g \in Handler : Uncounted(g)' => Live(g)' /\ call'[g].seq = lastSeq'
        BY <3>1 DEF Uncounted, Owns, Live
      <3> QED
        BY <1>5, <2>1, <3>2 DEF Sequenced
    <2>3. BudgetHolds!1'
      BY <2>1 DEF TypeOK
    <2>4. ASSUME NEW i \in Item
          PROVE  (attempts[i] + (IF \E g \in Handler : Uncounted(g) /\ call[g].item = i
                                 THEN 1 ELSE 0) <= MaxSteer + late)'
      <3>1. attempts[i] <= MaxSteer + late
        BY DEF BudgetHolds, TypeOK
      <3> QED
        BY <2>1, <2>2, <3>1 DEF TypeOK
    <2> QED
      BY <2>3, <2>4 DEF BudgetHolds
  <1> QED
    BY <1>3, <1>4, <1>6, <1>7, <1>9, <1>10, <1>11, <1>12, NextSteps DEF Over

----------------------------------------------------------------------------
LEMMA IInvInit == Init => IInv
  <1> SUFFICES ASSUME Init PROVE IInv
    OBVIOUS
  <1>1. \A h \in Handler : ~Owns(h) /\ ~Uncounted(h)
    BY DEF Init, Owns, Uncounted, Running, Idle
  <1>2. NothingLeftBehind
    BY DEF Init, NothingLeftBehind
  <1>3. BudgetHolds
    BY <1>1, ControllerAssumption DEF Init, BudgetHolds
  <1>4. Withdrawals
    BY <1>1 DEF Withdrawals
  <1> QED
    BY <1>2, <1>3, <1>4, TypeInit, SequencedInit DEF IInv

LEMMA IInvStep == IInv /\ [Next]_vars => IInv'
  BY TypeStep, SequencedStep, LeftBehindStep, WithdrawalsStep, BudgetStep DEF IInv

(* Dispatches have numbers of their own, and the owner is the last of them *)
(* that neither settled nor was released; a withdrawal leaves its intent.  *)
THEOREM Invariance == Spec => []IInv
  BY IInvInit, IInvStep, PTL DEF Spec

(* Every variable keeps its type, for any number of handlers and items.    *)
THEOREM TypeCorrect == Spec => []TypeOK
  BY Invariance, PTL DEF IInv

(* The guard always has its timer, a cancel intent its dispatch.           *)
THEOREM NothingIsLeftBehind == Spec => []NothingLeftBehind
  BY Invariance, PTL DEF IInv

(* No stale dispatch gives away the in-flight guard of a newer one.        *)
THEOREM OwnershipCorrect == Spec => []OneOwner
  BY Invariance, SequencedGivesOneOwner, PTL DEF IInv

(* Only successes of released dispatches exceed the attempt limits.        *)
THEOREM BudgetCorrect == Spec => []BudgetHolds
  BY Invariance, PTL DEF IInv

(* A step that hands a message to the agent is StartSend, of the owner.    *)
LEMMA SendingSteps ==
  ASSUME TypeOK, Sequenced, [Next]_vars, NEW h \in Handler,
         call[h].pc = "reading", call'[h].pc = "sending"
  PROVE  StartSend(h)
  <1>1. CASE SettledIgnored \/ SettledLost \/ GuardTimer \/ CooldownEnds \/ Ask \/ Refuse
             \/ UNCHANGED vars
    BY <1>1 DEF SettledIgnored, SettledLost, GuardTimer, CooldownEnds, Ask, Refuse, vars
  <1>2. CASE SettledStop \/ UserMessage \/ StopMessage \/ ResumeMessage
    <2>1. call' = Withdrawn
      BY <1>2 DEF SettledStop, UserMessage, StopMessage, ResumeMessage, Interrupt
    <2> QED
      BY <2>1, WithdrawnKeepsDispatches
  <1>3. ASSUME NEW g \in Handler, DecideStop(g)
        PROVE  FALSE
    <2>1. g # h
      BY <1>3 DEF DecideStop
    <2>2. call'[h] = call[h] \/ call'[h] = Withdrawn[h]
      BY <1>3, <2>1 DEF DecideStop, TypeOK, Withdrawn
    <2> QED
      BY <2>2, WithdrawnKeepsDispatches
  <1>4. ASSUME NEW g \in Handler, SettledDecide(g) \/ Blocked(g) \/ Watchdog(g)
        PROVE  FALSE
    BY <1>4 DEF SettledDecide, Blocked, Watchdog, TypeOK, Call, Idle
  <1>5. ASSUME NEW g \in Handler, Over(g)
        PROVE  FALSE
    BY <1>5, OverEnds DEF Ends, TypeOK, Call, Idle
  <1>6. ASSUME NEW g \in Handler, NEW i \in Item, Acquire(g, i)
        PROVE  FALSE
    BY <1>6 DEF Acquire, TypeOK, Idle
  <1>7. ASSUME NEW g \in Handler, Land(g)
        PROVE  FALSE
    BY <1>7, StrayedKeepsDispatches DEF Land, TypeOK, Call, Strayed
  <1>8. CASE Dispose
    BY <1>8 DEF Dispose, TypeOK, Call
  <1>10. CASE UnpausedMessage
    BY <1>10, StrayedKeepsDispatches DEF UnpausedMessage
  <1>9. ASSUME NEW g \in Handler, StartSend(g)
        PROVE  StartSend(h)
    BY <1>9 DEF StartSend, TypeOK
  <1> QED
    BY <1>1, <1>2, <1>3, <1>4, <1>5, <1>6, <1>7, <1>8, <1>9, <1>10, NextSteps DEF Undisturbed

(* What was paused or cleared while its snapshot was read is not sent.     *)
THEOREM WithdrawalsAreHonoured == Spec => WithdrawnIsNotSent
  <1>1. ASSUME IInv, [Next]_vars, NEW h \in Handler,
               call[h].pc = "reading", call'[h].pc = "sending"
        PROVE  ~call[h].withdrawn
    BY <1>1, SendingSteps DEF IInv, StartSend, Owned, Wanted, Withdrawals
  <1>2. IInv /\ [Next]_vars =>
          [\A h \in Handler :
             call[h].pc = "reading" /\ call'[h].pc = "sending" => ~call[h].withdrawn]_vars
    BY <1>1
  <1> QED
    BY <1>2, Invariance, PTL DEF Spec, WithdrawnIsNotSent

(* The agent is idle when a message is handed over, unless a message that  *)
(* pauses nothing came in between.                                         *)
THEOREM AgentIsIdle == Spec => SendsToIdleAgent
  <1>1. ASSUME IInv, [Next]_vars, NEW h \in Handler,
               call[h].pc = "reading", call'[h].pc = "sending"
        PROVE  ~busy \/ call[h].stray
    BY <1>1, SendingSteps DEF IInv, StartSend, Owned, Wanted, Withdrawals
  <1>2. IInv /\ [Next]_vars =>
          [\A h \in Handler :
             call[h].pc = "reading" /\ call'[h].pc = "sending" => ~busy \/ call[h].stray]_vars
    BY <1>1
  <1> QED
    BY <1>2, Invariance, PTL DEF Spec, SendsToIdleAgent
=============================================================================
