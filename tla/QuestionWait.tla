--------------------------- MODULE QuestionWait ---------------------------
(***************************************************************************)
(* The wait for a human's answer: the pending question of the notification *)
(* package, the countdown that the extension shows for it, and the         *)
(* autonomous decision that follows when nobody answers (index.ts, with    *)
(* harness/pending-countdown.ts and packages/notification).  Everything    *)
(* runs in one process; handlers interleave where the decision waits for   *)
(* the todo list and for the judge.  Buttons of the channels stay with the *)
(* human for as long as the chat exists, and a message that the extension  *)
(* sends to the agent begins, when it is delivered, like one that the user *)
(* typed.                                                                  *)
(*                                                                         *)
(* Time is counted in minutes.  The human, the agent, the judge and the    *)
(* todo list are the environment.                                          *)
(***************************************************************************)
EXTENDS Integers

CONSTANTS
  Questions,    \* request ids
  Reserved,     \* the questions that the policy never lets the judge approve
  None,
  MinWait,      \* minutes before the judge may decide
  MaxWait,      \* minutes after which a wait ends; ages are not told apart beyond
  RecheckWait,  \* minutes until the judge is asked again
  MaxFaults     \* bound on decisions that fail

ASSUME NoneAssumption == None \notin Questions
ASSUME ReservedAssumption == Reserved \subseteq Questions
ASSUME TimesAssumption ==
  /\ MinWait \in Nat \ {0} /\ MaxWait \in Nat /\ MinWait <= MaxWait
  /\ RecheckWait \in Nat \ {0}
ASSUME FaultsAssumption == MaxFaults \in Nat

VARIABLES
  question,   \* the state of every question
  current,    \* the controller's current question, or None
  waiting,    \* the age of the wait, or NoWait
  countdown,  \* the countdown and the question it belongs to
  inference,  \* the flag that keeps decisions from overlapping
  check,      \* the decision in flight: what it read before it waited
  mail,       \* messages on their way to the agent: the question they answer,
              \* or None for a continuation of the todo list
  agent,      \* is the agent in a turn?
  running,    \* FALSE once the session is shut down
  told,       \* history: messages sent in answer to a question (0, 1 or more)
  faults

vars == <<question, current, waiting, countdown, inference, check, mail, agent, running, told, faults>>

NoWait == -1

(* A question of the controller.  "evaluating" is left out: nothing starts *)
(* an evaluation.  A resolution is told apart by who gave it.              *)
QuestionState == {"none", "pending", "yes", "no", "approved", "rejected", "expired", "cancelled"}
Resolved == {"yes", "no", "approved", "rejected"}
Closed   == Resolved \cup {"expired", "cancelled"}

(* The binding of a countdown; it is engaged as long as it has a request,  *)
(* and its timer runs until the deadline fires.                            *)
Binding == [request : Questions \cup {None}, left : Nat, fired : BOOLEAN]
Stopped == [request |-> None, left |-> 0, fired |-> FALSE]
Engaged == countdown.request # None

(* The decision in flight, and the wait and the question that it read.     *)
InFlight ==
  [pc : {"idle", "snapshot", "judging"}, waited : 0 .. MaxWait, question : Questions \cup {None}]
NoCheck == [pc |-> "idle", waited |-> 0, question |-> None]

TypeOK ==
  /\ question \in [Questions -> QuestionState]
  /\ current \in Questions \cup {None}
  /\ waiting \in {NoWait} \cup (0 .. MaxWait)
  /\ countdown \in Binding
  /\ inference \in BOOLEAN
  /\ check \in InFlight
  /\ mail \subseteq Questions \cup {None}
  /\ agent \in {"idle", "working"}
  /\ running \in BOOLEAN
  /\ told \in [Questions -> 0 .. 2]
  /\ faults \in 0 .. MaxFaults

Init ==
  /\ question = [q \in Questions |-> "none"]
  /\ current = None
  /\ waiting = NoWait
  /\ countdown = Stopped
  /\ inference = FALSE
  /\ check = NoCheck
  /\ mail = {}
  /\ agent = "idle"
  /\ running = TRUE
  /\ told = [q \in Questions |-> 0]
  /\ faults = 0

-----------------------------------------------------------------------------
(* The wait and the countdown.                                             *)

(* Mutant: the countdown of a wait goes on after the wait. *)
ClearWaitOnly == waiting' = NoWait /\ UNCHANGED countdown

ClearWait == waiting' = NoWait /\ countdown' = Stopped

CurrentIs(state) == current # None /\ question[current] = state

(* Is q still the question that the wait is about? *)
IsPending(q) == waiting # NoWait /\ current = q /\ question[q] = "pending"

(* A countdown that begins makes its first tick at once, which stops it    *)
(* when its question is not the pending one.                               *)
Recheck(q) ==
  IF IsPending(q) THEN [request |-> q, left |-> RecheckWait, fired |-> FALSE] ELSE Stopped

(* Does the shared wait belong to the question that was captured? *)
WaitBelongsTo(q) == q = None \/ current = None \/ current = q

Minute ==
  LET age  == IF waiting = NoWait \/ waiting = MaxWait THEN waiting ELSE waiting + 1
      left == IF countdown.left = 0 THEN 0 ELSE countdown.left - 1
  IN /\ running
     /\ age # waiting \/ left # countdown.left
     /\ waiting' = age
     /\ countdown' = [countdown EXCEPT !.left = left]
     /\ UNCHANGED <<question, current, inference, check, mail, agent, running, told, faults>>

-----------------------------------------------------------------------------
(* The agent and the human.                                                *)

(* A message of the agent ends with a question while no wait is running.   *)
Ask(q) ==
  /\ running /\ agent = "working" /\ waiting = NoWait
  /\ question[q] = "none"
  /\ question' = [question EXCEPT ![q] = "pending"]
  /\ current' = q
  /\ waiting' = 0
  /\ countdown' = [request |-> q, left |-> MinWait, fired |-> FALSE]
  /\ UNCHANGED <<inference, check, mail, agent, running, told, faults>>

(* Mutant: a resolution does not look at the question's state. *)
CanResolveClosed(q) == q # None /\ current = q

(* A button of any question, in Telegram or in LINE: resolve takes it only *)
(* for the current question, and only while that is pending.               *)
CanResolve(q) == q # None /\ current = q /\ question[q] = "pending"

Click(q, answer) ==
  /\ running
  /\ CanResolve(q)
  /\ question' = [question EXCEPT ![q] = answer]
  /\ ClearWait
  /\ mail' = mail \cup {q}
  /\ told' = [told EXCEPT ![q] = @ + 1]
  /\ UNCHANGED <<current, inference, check, agent, running, faults>>

(* Mutant: a user message cancels the current question in any case. *)
MessageStartAlways ==
  /\ agent' = "working"
  /\ ClearWait
  /\ question' = [q \in Questions |-> IF q = current THEN "cancelled" ELSE question[q]]
  /\ current' = None
  /\ UNCHANGED <<inference, check, running, told, faults>>

(* A user message begins: it answers the question that is waited for,      *)
(* whoever wrote the message.                                              *)
MessageStart ==
  /\ agent' = "working"
  /\ IF waiting # NoWait
       THEN /\ ClearWait
            /\ question' = [q \in Questions |-> IF q = current THEN "cancelled" ELSE question[q]]
            /\ current' = None
       ELSE UNCHANGED <<waiting, countdown, question, current>>
  /\ UNCHANGED <<inference, check, running, told, faults>>

UserTypes == running /\ MessageStart /\ UNCHANGED mail

Deliver == running /\ \E m \in mail : mail' = mail \ {m} /\ MessageStart

(* The agent's turn has settled: the continuation of the todo list is      *)
(* dispatched, unless a question waits or a decision is being made.        *)
Settle ==
  /\ running /\ agent = "working" /\ mail = {}
  /\ agent' = "idle"
  /\ \/ mail' = {}
     \/ /\ waiting = NoWait /\ ~inference
        /\ mail' = {None}
  /\ UNCHANGED <<question, current, waiting, countdown, inference, check, running, told, faults>>

(* The wait ends with its session, which closes its question first. *)
EndWait ==
  /\ question' = [q \in Questions |-> IF q = current /\ question[q] = "pending" THEN "expired" ELSE question[q]]
  /\ ClearWait
  /\ agent' = "idle"
  /\ mail' = {}
  /\ UNCHANGED <<current, check, told, faults>>

SessionSwitch == running /\ EndWait /\ UNCHANGED <<inference, running>>

Shutdown ==
  /\ running /\ EndWait
  /\ running' = FALSE
  /\ inference' = FALSE

-----------------------------------------------------------------------------
(* The autonomous decision, checkAndAutoContinue.                          *)

MayDecide == ~inference /\ waiting # NoWait /\ waiting >= MinWait

StartCheck ==
  /\ inference' = TRUE
  /\ check' = [pc |-> "snapshot", waited |-> waiting, question |-> None]

(* Mutant: a deadline that falls into another decision is lost. *)
DeadlineLost ==
  /\ running /\ Engaged /\ ~countdown.fired /\ countdown.left = 0
  /\ IF MayDecide THEN StartCheck ELSE UNCHANGED <<inference, check>>
  /\ countdown' = [countdown EXCEPT !.fired = TRUE]
  /\ UNCHANGED <<question, current, waiting, mail, agent, running, told, faults>>

(* The countdown is at its deadline.  A decision that may not start leaves *)
(* the countdown armed for another attempt.                                *)
Deadline ==
  /\ running /\ Engaged /\ ~countdown.fired /\ countdown.left = 0
  /\ IF MayDecide /\ IsPending(countdown.request)
       THEN StartCheck /\ countdown' = [countdown EXCEPT !.fired = TRUE]
       ELSE countdown' = Recheck(countdown.request) /\ UNCHANGED <<inference, check>>
  /\ UNCHANGED <<question, current, waiting, mail, agent, running, told, faults>>

(* The fallback poll, which keeps out of the countdown's way. *)
Poll ==
  /\ running /\ ~Engaged /\ MayDecide
  /\ StartCheck
  /\ UNCHANGED <<question, current, waiting, countdown, mail, agent, running, told, faults>>

EndCheck == check' = NoCheck /\ inference' = FALSE

(* The todo list has been read.  The question to decide about is the one   *)
(* that is current by now.                                                 *)
Snapshot ==
  /\ check.pc = "snapshot"
  /\ check' = [check EXCEPT !.pc = "judging", !.question = current]
  /\ UNCHANGED <<question, current, waiting, countdown, inference, mail, agent, running, told, faults>>

(* There are no todo items, and the question is gone. *)
NothingToDecide ==
  /\ check.pc = "snapshot"
  /\ ~CurrentIs("pending")
  /\ EndCheck
  /\ countdown' = Stopped
  /\ UNCHANGED <<question, current, waiting, mail, agent, running, told, faults>>

(* The todo list or the judge failed. *)
CheckFails ==
  /\ check.pc # "idle" /\ faults < MaxFaults
  /\ faults' = faults + 1
  /\ EndCheck
  /\ countdown' = Stopped
  /\ UNCHANGED <<question, current, waiting, mail, agent, running, told>>

(* What the judge may say of a question, once its policy is applied. *)
Outcomes(q) == IF q \in Reserved THEN {"wait", "reject"} ELSE {"approve", "wait", "reject"}

(* The wait is over, or a human has refused: the decision comes too late. *)
TooLate ==
  /\ check.pc = "judging"
  /\ waiting = NoWait \/ CurrentIs("no")
  /\ EndCheck
  /\ UNCHANGED <<question, current, waiting, countdown, mail, agent, running, told, faults>>

InTime ==
  /\ check.pc = "judging"
  /\ waiting # NoWait
  /\ ~CurrentIs("no")

(* The judge wants to wait.  After the deadline the captured question      *)
(* expires; before it, the judge is asked again.                           *)
DecideToWait ==
  LET q == check.question IN
  /\ InTime /\ "wait" \in Outcomes(q)
  /\ EndCheck
  /\ IF check.waited >= MaxWait
       THEN /\ question' = IF CanResolve(q) THEN [question EXCEPT ![q] = "expired"] ELSE question
            /\ IF WaitBelongsTo(q) THEN ClearWait ELSE UNCHANGED <<waiting, countdown>>
       ELSE /\ countdown' = IF q # None THEN Recheck(q) ELSE countdown
            /\ UNCHANGED <<question, waiting>>
  /\ UNCHANGED <<current, mail, agent, running, told, faults>>

(* The captured question is not pending any more: the decision is stale. *)
Discard ==
  /\ InTime /\ ~CanResolve(check.question)
  /\ EndCheck
  /\ IF WaitBelongsTo(check.question) THEN ClearWait ELSE UNCHANGED <<waiting, countdown>>
  /\ UNCHANGED <<question, current, mail, agent, running, told, faults>>

(* The judge refuses: the question is closed.  The flag is not given back. *)
Reject ==
  LET q == check.question IN
  /\ InTime /\ CanResolve(q) /\ "reject" \in Outcomes(q)
  /\ question' = [question EXCEPT ![q] = "rejected"]
  /\ ClearWait
  /\ check' = NoCheck
  /\ UNCHANGED <<current, inference, mail, agent, running, told, faults>>

(* Mutant: an approval closes whatever question is current. *)
ApproveCurrent ==
  /\ InTime /\ CurrentIs("pending") /\ "approve" \in Outcomes(check.question)
  /\ question' = [question EXCEPT ![current] = "approved"]
  /\ mail' = mail \cup {current}
  /\ told' = [told EXCEPT ![current] = @ + 1]
  /\ ClearWait
  /\ EndCheck
  /\ UNCHANGED <<current, agent, running, faults>>

(* The judge approves: the question is closed and the agent is told so. *)
Approve ==
  LET q == check.question IN
  /\ InTime /\ CanResolve(q) /\ "approve" \in Outcomes(q)
  /\ question' = [question EXCEPT ![q] = "approved"]
  /\ mail' = mail \cup {q}
  /\ told' = [told EXCEPT ![q] = @ + 1]
  /\ ClearWait
  /\ EndCheck
  /\ UNCHANGED <<current, agent, running, faults>>

Decision == Snapshot \/ NothingToDecide \/ TooLate \/ DecideToWait \/ Discard \/ Reject \/ Approve

Next ==
  \/ \E q \in Questions : Ask(q) \/ Click(q, "yes") \/ Click(q, "no")
  \/ UserTypes \/ Deliver \/ Settle \/ SessionSwitch \/ Shutdown
  \/ Minute \/ Deadline \/ Poll
  \/ Decision \/ CheckFails

Spec == Init /\ [][Next]_vars

(* What the extension does by itself goes on: time, timers and the awaits  *)
(* of a decision.  Nothing is assumed of the human and of the agent.       *)
FairSpec ==
  /\ Spec
  /\ WF_vars(Minute) /\ WF_vars(Deadline) /\ WF_vars(Poll) /\ WF_vars(Decision)

-----------------------------------------------------------------------------
(* Properties.                                                             *)

(* The wait, the question and the countdown belong together                *)
(* (harness/pending-wait.ts): a wait has a current question that is        *)
(* pending, a countdown counts for that question, and a countdown whose    *)
(* deadline has passed, which has no timer any more, has a decision in     *)
(* flight - else neither it nor the poll would ever ask the judge.         *)
WaitHasItsQuestion ==
  /\ waiting # NoWait => CurrentIs("pending")
  /\ Engaged => waiting # NoWait /\ countdown.request = current
  /\ countdown.fired => check.pc # "idle"

(* One answer per question: the agent is told something about a question   *)
(* exactly once if a human answered it or the judge approved it, whatever  *)
(* buttons are pressed while the judge thinks, and never otherwise.        *)
AnsweredOnce ==
  \A q \in Questions : told[q] = IF question[q] \in {"yes", "no", "approved"} THEN 1 ELSE 0

(* A question that is reserved for the human is never approved by the      *)
(* judge, though another question may take its place while the judge       *)
(* thinks.                                                                 *)
ReservedForTheHuman == \A q \in Reserved : question[q] # "approved"

(* The first answer wins: a question that is closed stays as it was closed,*)
(* against late clicks, late decisions, expiries and messages.             *)
ClosedStaysClosed ==
  [][\A q \in Questions : question[q] \in Closed => question'[q] = question[q]]_vars

(* A decision that refused a question ended without giving back its flag.  *)
FlagIsStuck == inference /\ check.pc = "idle"

(* A question that waits is put before the judge, or its wait ends - unless*)
(* the judge has refused an earlier question.                              *)
WaitIsServed ==
  \A q \in Questions :
    (waiting # NoWait /\ current = q) ~>
      \/ waiting = NoWait \/ current # q \/ ~running
      \/ check.pc = "judging" /\ check.question = q
      \/ FlagIsStuck

-----------------------------------------------------------------------------
(* What comments of the code say, and the code does not do.                *)

(* index.ts:1103: "The deadline is not lost: the countdown is armed again  *)
(* and the decision follows."                                              *)
DecisionFollows ==
  \A q \in Questions :
    (countdown.request = q /\ countdown.left = 0) ~>
      \/ waiting = NoWait \/ current # q \/ ~running
      \/ check.pc = "judging" /\ check.question = q

(* index.ts:1584: a question is cancelled because the "user answered via   *)
(* Pi instead of button" - not because a message of the extension itself   *)
(* reached the agent.                                                      *)
OnlyTheUserCancels ==
  [][\A q \in Questions : (question'[q] = "cancelled" /\ question[q] # "cancelled") => mail' = mail]_vars

(* index.ts:1868: "The wait state belongs to the captured question: a      *)
(* newer question keeps its own wait."                                     *)
PendingIsWaitedFor ==
  CurrentIs("pending") => waiting # NoWait

(* index.ts:947: "Minimum wait before auto-continue": no question is       *)
(* decided before a human had that time.                                   *)
MinimumWait ==
  [][\A q \in Questions :
       (question[q] = "pending" /\ question'[q] \in {"approved", "rejected"}) => waiting >= MinWait]_vars
=============================================================================
