----------------------- MODULE ContinuationController -----------------------
(***************************************************************************)
(* The todo-driven auto-continuation: TodoContinuationController of        *)
(* packages/jev-judge/src/continuation-controller.ts, with the handlers of *)
(* index.ts that call it (agent_settled, message_start, session_shutdown)  *)
(* and the agent they steer.                                               *)
(*                                                                         *)
(* The program is single-threaded: a step runs from one await to the next. *)
(* What overlaps are the activations of the agent_settled handler, each    *)
(* suspended in the todo provider or in the send, the timers, and the      *)
(* messages of the user.                                                   *)
(***************************************************************************)
EXTENDS Integers

CONSTANTS Handler,      (* activations of the agent_settled handler         *)
          Item,         (* todo items                                       *)
          NoItem,
          MaxSteer,     (* maxSteerAttempts                                 *)
          MaxTotal,     (* maxTotalSteerAttempts                            *)
          MaxFailures,  (* maxConsecutiveFailures                           *)
          MaxDispatch   (* bound: the dispatches of one behaviour           *)

ASSUME ControllerAssumption ==
  /\ NoItem \notin Item
  /\ MaxSteer \in Nat
  /\ MaxTotal \in Nat
  /\ MaxFailures \in Nat \ {0}
  /\ MaxDispatch \in Nat

VARIABLES
  queued,      (* state.continuationQueued: the continuation guard          *)
  userPaused,  (* state.userPaused                                          *)
  stopped,     (* state.explicitPause                                       *)
  owner,       (* _inFlightSeq, 0 for null                                  *)
  lastSeq,     (* _dispatchSeq                                              *)
  cancel,      (* _cancelRequested                                          *)
  pending,     (* _pendingGuardRelease: the dispatch it was deferred for    *)
  timer,       (* the guard timer: off, or the delay it is armed with       *)
  stalled,     (* _stalledItemId                                            *)
  failures,    (* _consecutiveFailures, counted up to the breaker's limit   *)
  cooling,     (* the last failure is younger than the breaker's cooldown   *)
  attempts,    (* _attemptsByItem                                           *)
  total,       (* _totalAttempts                                            *)
  disposed,    (* _disposed                                                 *)
  call,        (* the activations of the handler                            *)
  busy,        (* the agent runs a turn: ctx.isIdle() is false              *)
  waiting,     (* waitingForUserSince is set                                *)
  refused,     (* history: the last question was refused, and no user spoke *)
  late         (* history: successes counted after their dispatch was       *)
               (* released by the watchdog or followed by another           *)

guard == <<queued, timer>>
pauses == <<userPaused, stopped>>
breaker == <<failures, cooling>>
budget == <<attempts, total, stalled, late>>
agent == <<busy, waiting, refused>>
vars == <<guard, pauses, owner, lastSeq, cancel, pending, breaker, budget,
          disposed, call, agent>>

(* A call is suspended in decide(), in the snapshot read of its dispatch,  *)
(* in its send, or before it counts its success. History: whether the      *)
(* message reached the agent, whether the guard was taken from the         *)
(* dispatch, whether a pause or a clearQueue came while it ran, and        *)
(* whether a message came that pauses nothing.                             *)
Call ==
  [pc: {"idle", "deciding", "reading", "sending", "counting"},
   item: Item \cup {NoItem}, seq: 0..MaxDispatch, landed: BOOLEAN, overdue: BOOLEAN,
   withdrawn: BOOLEAN, stray: BOOLEAN]

Idle == [pc |-> "idle", item |-> NoItem, seq |-> 0, landed |-> FALSE,
         overdue |-> FALSE, withdrawn |-> FALSE, stray |-> FALSE]

TypeOK ==
  /\ queued \in BOOLEAN
  /\ userPaused \in BOOLEAN
  /\ stopped \in BOOLEAN
  /\ owner \in 0..MaxDispatch
  /\ lastSeq \in 0..MaxDispatch
  /\ cancel \in BOOLEAN
  /\ pending \in 0..MaxDispatch
  /\ timer \in {"off", "net", "short"}
  /\ stalled \in Item \cup {NoItem}
  /\ failures \in 0..MaxFailures
  /\ cooling \in BOOLEAN
  /\ attempts \in [Item -> Nat]
  /\ total \in Nat
  /\ disposed \in BOOLEAN
  /\ call \in [Handler -> Call]
  /\ busy \in BOOLEAN
  /\ waiting \in BOOLEAN
  /\ refused \in BOOLEAN
  /\ late \in Nat

Init ==
  /\ queued = FALSE
  /\ userPaused = FALSE
  /\ stopped = FALSE
  /\ owner = 0
  /\ lastSeq = 0
  /\ cancel = FALSE
  /\ pending = 0
  /\ timer = "off"
  /\ stalled = NoItem
  /\ failures = 0
  /\ cooling = FALSE
  /\ attempts = [i \in Item |-> 0]
  /\ total = 0
  /\ disposed = FALSE
  /\ call = [h \in Handler |-> Idle]
  /\ busy \in BOOLEAN
  /\ waiting = FALSE
  /\ refused = FALSE
  /\ late = 0

Running(h) == call[h].pc \in {"reading", "sending"}

Owns(h) == Running(h) /\ owner = call[h].seq

(* The calls after a pause or a clearQueue: the dispatch on the wire has   *)
(* been withdrawn.                                                         *)
Withdrawn ==
  [h \in Handler |->
     IF Owns(h) THEN [call[h] EXCEPT !.withdrawn = TRUE] ELSE call[h]]

(* The calls after a message that pauses nothing.                          *)
Strayed ==
  [h \in Handler |->
     IF Owns(h) THEN [call[h] EXCEPT !.stray = TRUE] ELSE call[h]]

----------------------------------------------------------------------------
(* Mutant of Disarm: the timer is cancelled, the guard stays set.          *)
DisarmTimerOnly ==
  /\ queued' = queued
  /\ timer' = "off"

Disarm ==
  /\ queued' = FALSE
  /\ timer' = "off"

(* clearQueue                                                              *)
ClearQueue ==
  /\ Disarm
  /\ cancel' = (cancel \/ owner # 0)
  /\ UNCHANGED pending

(* releaseContinuationGuard: deferred while a dispatch is on the wire.     *)
ReleaseGuard ==
  IF owner # 0
  THEN pending' = owner /\ UNCHANGED guard
  ELSE Disarm /\ UNCHANGED pending

(* tempPause, explicitPause and pause                                      *)
Interrupt ==
  /\ userPaused' = TRUE
  /\ Disarm
  /\ pending' = 0
  /\ cancel' = (cancel \/ owner # 0)
  /\ call' = Withdrawn

(* The finally block of guardedDispatch for the dispatch that owns the     *)
(* in-flight guard, after a body that leaves the guard as q and t and the  *)
(* cancel intent as c.                                                     *)
Settle(q, t, c) ==
  /\ owner' = 0
  /\ cancel' = FALSE
  /\ queued' = (q /\ ~c)
  /\ pending' = 0
  /\ timer' = IF pending # 0 THEN "short" ELSE IF c THEN "off" ELSE t

(* Mutant of Owned: any dispatch that settles releases the guard.          *)
OwnedByAnyone(h) == Running(h)

(* The sequence check in the finally block and after every await.          *)
Owned(h) == Owns(h)

----------------------------------------------------------------------------
(* agent_settled, ignored: an inference runs or messages are pending.      *)
SettledIgnored ==
  /\ busy /\ ~disposed
  /\ busy' = FALSE
  /\ ReleaseGuard
  /\ UNCHANGED <<pauses, owner, lastSeq, cancel, breaker, budget, disposed,
                 call, waiting, refused>>

(* The turn ended and its agent_settled event was lost.                    *)
SettledLost ==
  /\ busy
  /\ busy' = FALSE
  /\ UNCHANGED <<guard, pauses, owner, lastSeq, cancel, pending, breaker,
                 budget, disposed, call, waiting, refused>>

(* The temporary pause as the next decision sees it.                       *)
PausedAtDecision == userPaused /\ owner # 0

(* agent_settled with nothing to decide: the user is being waited for, or  *)
(* decide() finds a pause; the guard is released, then the queue cleared.  *)
SettledStop ==
  /\ busy /\ ~disposed
  /\ waiting \/ stopped \/ PausedAtDecision
  /\ userPaused' = IF waiting THEN userPaused ELSE PausedAtDecision
  /\ busy' = FALSE
  /\ Disarm
  /\ pending' = IF owner # 0 THEN owner ELSE pending
  /\ cancel' = (cancel \/ owner # 0)
  /\ call' = Withdrawn
  /\ UNCHANGED <<stopped, owner, lastSeq, breaker, budget, disposed, waiting,
                 refused>>

(* agent_settled up to the first await of decide().                        *)
SettledDecide(h) ==
  /\ busy /\ ~disposed
  /\ call[h].pc = "idle"
  /\ ~waiting /\ ~stopped /\ ~PausedAtDecision
  /\ userPaused' = PausedAtDecision
  /\ busy' = FALSE
  /\ ReleaseGuard
  /\ call' = [call EXCEPT ![h].pc = "deciding"]
  /\ UNCHANGED <<stopped, owner, lastSeq, cancel, breaker, budget, disposed,
                 waiting, refused>>

(* decide() selects nothing: no provider, no item that may proceed, or an  *)
(* item whose attempts or time are spent. The handler clears the queue. A  *)
(* handler that outlives the session finds no controller.                  *)
DecideStop(h) ==
  /\ call[h].pc = "deciding"
  /\ IF disposed
     THEN /\ call' = [call EXCEPT ![h] = Idle]
          /\ UNCHANGED <<guard, pending, cancel>>
     ELSE /\ call' = [Withdrawn EXCEPT ![h] = Idle]
          /\ ClearQueue
  /\ UNCHANGED <<pauses, owner, lastSeq, breaker, budget, disposed, agent>>

BreakerOpen == failures = MaxFailures /\ cooling

(* Mutant of WithinBudget: only the attempts of the item are limited.      *)
WithinItemBudget(i) == attempts[i] < MaxSteer

(* The limits that decide() and steerToContinue() check.                   *)
WithinBudget(i) == attempts[i] < MaxSteer /\ total < MaxTotal

(* Mutant of MayDispatch: the session is not asked whether it is idle.     *)
MayDispatchBusy ==
  /\ ~disposed
  /\ owner = 0
  /\ ~stopped
  /\ ~userPaused
  /\ ~BreakerOpen
  /\ ~queued

(* The guards at the top of guardedDispatch.                               *)
MayDispatch ==
  /\ ~disposed
  /\ owner = 0
  /\ ~stopped
  /\ ~userPaused
  /\ ~BreakerOpen
  /\ ~busy
  /\ ~queued

(* steerToContinue and the guards of guardedDispatch pass: the in-flight   *)
(* guard is taken, the watchdog armed and the snapshot read begun.         *)
Acquire(h, i) ==
  /\ call[h].pc = "deciding"
  /\ WithinBudget(i)
  /\ MayDispatch
  /\ lastSeq < MaxDispatch
  /\ lastSeq' = lastSeq + 1
  /\ owner' = lastSeq + 1
  /\ call' = [call EXCEPT ![h] =
                [Idle EXCEPT !.pc = "reading", !.item = i, !.seq = lastSeq + 1]]
  /\ UNCHANGED <<guard, pauses, cancel, pending, breaker, budget, disposed,
                 agent>>

(* A guard of guardedDispatch refuses; only the blocked counter changes.   *)
Blocked(h) ==
  /\ call[h].pc = "deciding"
  /\ ~MayDispatch
  /\ call' = [call EXCEPT ![h] = Idle]
  /\ UNCHANGED <<guard, pauses, owner, lastSeq, cancel, pending, breaker,
                 budget, disposed, agent>>

----------------------------------------------------------------------------
(* The snapshot read fails, or the item is completed.                      *)
ReadRefused(h) ==
  /\ call[h].pc = "reading"
  /\ Owned(h)
  /\ Settle(queued, timer, cancel)
  /\ call' = [call EXCEPT ![h] = Idle]
  /\ UNCHANGED <<pauses, lastSeq, breaker, budget, disposed, agent>>

(* The read ends after the guard was taken away from the dispatch.         *)
Superseded(h) ==
  /\ call[h].pc = "reading"
  /\ ~Owned(h)
  /\ call' = [call EXCEPT ![h] = Idle]
  /\ UNCHANGED <<guard, pauses, owner, lastSeq, cancel, pending, breaker,
                 budget, disposed, agent>>

(* Mutant of Wanted: what the guards saw before the read is believed.      *)
WantedBeforeRead == TRUE

(* The state is looked at again after the read.                            *)
Wanted == ~stopped /\ ~userPaused /\ ~cancel

(* A pause or a cancel intent came during the read; it is consumed.        *)
Withdraw(h) ==
  /\ call[h].pc = "reading"
  /\ Owned(h)
  /\ ~Wanted
  /\ Settle(queued, timer, FALSE)
  /\ call' = [call EXCEPT ![h] = Idle]
  /\ UNCHANGED <<pauses, lastSeq, breaker, budget, disposed, agent>>

(* The message builder finds the time budget of the item spent.            *)
Abort(h) ==
  /\ call[h].pc = "reading"
  /\ Owned(h)
  /\ Wanted
  /\ Settle(FALSE, "off", cancel)
  /\ call' = [call EXCEPT ![h] = Idle]
  /\ UNCHANGED <<pauses, lastSeq, breaker, budget, disposed, agent>>

(* The guard is set, its timer armed and the message handed to dispatch.   *)
StartSend(h) ==
  /\ call[h].pc = "reading"
  /\ Owned(h)
  /\ Wanted
  /\ queued' = TRUE
  /\ timer' = "net"
  /\ call' = [call EXCEPT ![h].pc = "sending"]
  /\ UNCHANGED <<pauses, owner, lastSeq, cancel, pending, breaker, budget,
                 disposed, agent>>

(* pi delivers the message: it starts a turn, or joins the one running.    *)
Land(h) ==
  /\ call[h].pc = "sending"
  /\ ~call[h].landed
  /\ busy' = TRUE
  /\ call' = [Strayed EXCEPT ![h] = [call[h] EXCEPT !.landed = TRUE]]
  /\ UNCHANGED <<guard, pauses, owner, lastSeq, cancel, pending, breaker,
                 budget, disposed, waiting, refused>>

(* The send resolves.                                                      *)
SendOk(h) ==
  /\ call[h].pc = "sending"
  /\ call[h].landed
  /\ IF Owned(h)
     THEN Settle(queued, timer, cancel) /\ failures' = 0
     ELSE UNCHANGED <<guard, owner, cancel, pending, failures>>
  /\ call' = [call EXCEPT ![h].pc = "counting"]
  /\ UNCHANGED <<pauses, lastSeq, cooling, budget, disposed, agent>>

(* steerToContinue records the attempt, whoever owns the guard by now. It  *)
(* resumes in a microtask of its own; what else is ready may come first.   *)
Count(h) ==
  /\ call[h].pc = "counting"
  /\ attempts' = [attempts EXCEPT ![call[h].item] = @ + 1]
  /\ total' = total + 1
  /\ stalled' = IF stalled = call[h].item THEN NoItem ELSE stalled
  /\ late' = IF call[h].overdue \/ call[h].seq # lastSeq THEN late + 1 ELSE late
  /\ call' = [call EXCEPT ![h] = Idle]
  /\ UNCHANGED <<guard, pauses, owner, lastSeq, cancel, pending, breaker,
                 disposed, agent>>

(* The send rejects; only the owner touches the guard and the breaker.     *)
SendFails(h) ==
  /\ call[h].pc = "sending"
  /\ ~call[h].landed
  /\ IF Owned(h)
     THEN /\ Settle(FALSE, "off", cancel)
          /\ failures' = IF failures < MaxFailures THEN failures + 1 ELSE failures
          /\ cooling' = TRUE
     ELSE UNCHANGED <<guard, owner, cancel, pending, breaker>>
  /\ call' = [call EXCEPT ![h] = Idle]
  /\ UNCHANGED <<pauses, lastSeq, budget, disposed, agent>>

----------------------------------------------------------------------------
(* Mutant of Watchdog: the cancel intent survives the dispatch it is for.  *)
WatchdogKeepsCancel(h) ==
  /\ Owns(h)
  /\ owner' = 0
  /\ stalled' = IF queued THEN call[h].item ELSE stalled
  /\ Disarm
  /\ call' = [call EXCEPT ![h].overdue = TRUE]
  /\ UNCHANGED <<pauses, lastSeq, cancel, pending, breaker, attempts, total,
                 late, disposed, agent>>

(* The dispatch has been on the wire for inFlightTimeoutMs.                *)
Watchdog(h) ==
  /\ Owns(h)
  /\ owner' = 0
  /\ stalled' = IF queued THEN call[h].item ELSE stalled
  /\ Disarm
  /\ cancel' = FALSE
  /\ call' = [call EXCEPT ![h].overdue = TRUE]
  /\ UNCHANGED <<pauses, lastSeq, pending, breaker, attempts, total, late,
                 disposed, agent>>

(* The guard timer fires. With the delays index.ts leaves at their default *)
(* the watchdog of a send (60 s) fires before the timer of its guard       *)
(* (5 min); the short delay starts when the dispatch has settled.          *)
GuardTimer ==
  /\ timer # "off"
  /\ timer = "net" => owner = 0
  /\ Disarm
  /\ UNCHANGED <<pauses, owner, lastSeq, cancel, pending, breaker, budget,
                 disposed, call, agent>>

(* circuitBreakerCooldownMs after the last failure.                        *)
CooldownEnds ==
  /\ cooling
  /\ cooling' = FALSE
  /\ UNCHANGED <<guard, pauses, owner, lastSeq, cancel, pending, failures,
                 budget, disposed, call, agent>>

(* message_start with a message of the user, where there is a task intake  *)
(* controller; it ends a wait for the user.                                *)
UserMessage ==
  /\ ~disposed
  /\ Interrupt
  /\ busy' = TRUE
  /\ waiting' = FALSE
  /\ refused' = FALSE
  /\ UNCHANGED <<stopped, owner, lastSeq, breaker, budget, disposed>>

(* A message that starts a turn and pauses nothing: any message where no   *)
(* task intake controller was made, or one the harness marks as its own,   *)
(* which does not end a wait either.                                       *)
UnpausedMessage ==
  /\ ~disposed
  /\ busy' = TRUE
  /\ \/ waiting' = FALSE /\ refused' = FALSE
     \/ UNCHANGED <<waiting, refused>>
  /\ call' = Strayed
  /\ UNCHANGED <<guard, pauses, owner, lastSeq, cancel, pending, breaker,
                 budget, disposed>>

(* A message that says stop or pause: explicitPause().                     *)
StopMessage ==
  /\ ~disposed
  /\ Interrupt
  /\ stopped' = TRUE
  /\ busy' = TRUE
  /\ waiting' = FALSE
  /\ refused' = FALSE
  /\ UNCHANGED <<owner, lastSeq, breaker, budget, disposed>>

(* A message that says resume: resume(), then tempPause() as for any       *)
(* message.                                                                *)
ResumeMessage ==
  /\ ~disposed
  /\ Interrupt
  /\ stopped' = FALSE
  /\ failures' = 0
  /\ cooling' = FALSE
  /\ busy' = TRUE
  /\ waiting' = FALSE
  /\ refused' = FALSE
  /\ UNCHANGED <<owner, lastSeq, budget, disposed>>

(* The running turn asks the user a question.                              *)
Ask ==
  /\ busy /\ ~waiting /\ ~disposed
  /\ waiting' = TRUE
  /\ UNCHANGED <<guard, pauses, owner, lastSeq, cancel, pending, breaker,
                 budget, disposed, call, busy, refused>>

(* A channel or the judge answers the question with a refusal. The pause   *)
(* goes to sharedState.todoContinuationController, which nothing assigns:  *)
(* the wait ends and the controller is left as it is.                      *)
Refuse ==
  /\ waiting /\ ~disposed
  /\ waiting' = FALSE
  /\ refused' = TRUE
  /\ UNCHANGED <<guard, pauses, owner, lastSeq, cancel, pending, breaker,
                 budget, disposed, call, busy>>

(* session_shutdown: dispose().                                            *)
Dispose ==
  /\ ~disposed
  /\ disposed' = TRUE
  /\ Disarm
  /\ pending' = 0
  /\ owner' = 0
  /\ cancel' = FALSE
  /\ stalled' = NoItem
  /\ call' = [h \in Handler |->
                IF Owns(h) THEN [call[h] EXCEPT !.overdue = TRUE] ELSE call[h]]
  /\ UNCHANGED <<pauses, lastSeq, breaker, attempts, total, late, agent>>

----------------------------------------------------------------------------
Dispatching(h) ==
  \/ ReadRefused(h) \/ Superseded(h) \/ Withdraw(h) \/ Abort(h)
  \/ StartSend(h) \/ Land(h) \/ SendOk(h) \/ SendFails(h) \/ Count(h)
  \/ Watchdog(h)

Deciding(h) ==
  \/ SettledDecide(h) \/ DecideStop(h) \/ Blocked(h)
  \/ \E i \in Item : Acquire(h, i)

Surroundings ==
  \/ SettledIgnored \/ SettledLost \/ SettledStop
  \/ GuardTimer \/ CooldownEnds
  \/ UserMessage \/ UnpausedMessage \/ StopMessage \/ ResumeMessage
  \/ Ask \/ Refuse \/ Dispose

Next ==
  \/ \E h \in Handler : Deciding(h) \/ Dispatching(h)
  \/ Surroundings

Spec == Init /\ [][Next]_vars

(* The timers fire. Nothing is assumed of the provider, of the send or of  *)
(* the agent: each may hang for ever.                                      *)
FairSpec ==
  /\ Spec
  /\ WF_vars(GuardTimer)
  /\ \A h \in Handler : WF_vars(Watchdog(h))

----------------------------------------------------------------------------
(* Nothing the controller waits for can outlive what ends it: the guard    *)
(* has an armed timer as long as it is set, and a cancel intent only       *)
(* exists while the dispatch it is meant for is on the wire (the comments  *)
(* in explicitPause, clearQueue and the watchdog name the failures).       *)
NothingLeftBehind ==
  /\ queued => timer # "off"
  /\ cancel => owner # 0

(* The in-flight guard belongs to exactly the dispatch that took it and    *)
(* has neither settled nor been released by its watchdog: no stale         *)
(* dispatch gives away the guard of a newer one.                           *)
OneOwner ==
  /\ \A h \in Handler : Running(h) /\ ~call[h].overdue => owner = call[h].seq
  /\ owner # 0 => \E h \in Handler : Owns(h) /\ ~call[h].overdue
  /\ \A g, h \in Handler : Owns(g) /\ Owns(h) => g = h

(* No message is sent for a dispatch that was paused or cleared after it   *)
(* took the guard, whatever happened since: also when the pause was        *)
(* resumed or another decision ran in between.                             *)
WithdrawnIsNotSent ==
  [][\A h \in Handler :
       call[h].pc = "reading" /\ call'[h].pc = "sending" => ~call[h].withdrawn]_vars

(* The idle check is made before the snapshot read, the message sent after *)
(* it: the agent is nevertheless idle, unless a message came during the    *)
(* read that pauses nothing: of a dispatch that the watchdog had released, *)
(* of the harness, or of a user without a task intake controller. Every    *)
(* turn that does pause stops the send.                                    *)
SendsToIdleAgent ==
  [][\A h \in Handler :
       call[h].pc = "reading" /\ call'[h].pc = "sending" => ~busy \/ call[h].stray]_vars

(* The dispatch that was last begun and whose success is still to count.   *)
Uncounted(h) ==
  \/ Owns(h)
  \/ call[h].pc = "counting" /\ ~call[h].overdue /\ call[h].seq = lastSeq

(* The attempts stay within both limits but for the successes that were    *)
(* counted late; the dispatch on the wire is already counted.              *)
BudgetHolds ==
  /\ total + (IF \E h \in Handler : Uncounted(h) THEN 1 ELSE 0) <= MaxTotal + late
  /\ \A i \in Item :
       attempts[i] + (IF \E h \in Handler : Uncounted(h) /\ call[h].item = i THEN 1 ELSE 0)
         <= MaxSteer + late

(* Neither guard is held for ever, even if the provider, the send and the  *)
(* agent all hang and every settle event is lost.                          *)
GuardsAreReleased ==
  /\ queued ~> ~queued
  /\ \A n \in 1..MaxDispatch : owner = n ~> owner # n

----------------------------------------------------------------------------
(* "Max successful dispatches per session across all items": false, a      *)
(* dispatch that the watchdog released is counted when it succeeds late.   *)
TotalWithinCap == total <= MaxTotal

(* "a later dispatch for the same item is a RETRY of a message that may    *)
(* still land. The message says so": false. The watchdog takes the queue   *)
(* flag for the fact that the send had started, and a pause clears it; the *)
(* one slot for a stalled item is overwritten by the next stall.           *)
RetriesAreMarked ==
  [][\A h \in Handler :
       /\ call[h].pc = "reading"
       /\ call'[h].pc = "sending"
       /\ \E g \in Handler \ {h} :
            call[g].pc = "sending" /\ call[g].item = call[h].item
       => stalled = call[h].item]_vars

(* "A guard release that arrived while the dispatch was on the wire is     *)
(* DROPPED": the short timer is armed for a release that arrived during    *)
(* this dispatch. False: the watchdog leaves the release of the dispatch   *)
(* it ends, and the next dispatch takes it for its own.                    *)
DropsOwnRelease ==
  [][owner # 0 /\ timer' = "short" /\ timer # "short" => pending = owner]_vars

(* "the work pauses: no continuation steer is sent, so the agent waits for *)
(* a human": false, the pause reaches no controller.                       *)
RefusalPauses ==
  [][\A h \in Handler :
       call[h].pc = "reading" /\ call'[h].pc = "sending" => ~refused]_vars
=============================================================================
