--------------------------- MODULE BlackboardLoop ---------------------------
(***************************************************************************)
(* The two-terminal write-review loop of the harness: loop-controller.ts,  *)
(* loop-code-agent.ts and loop-review-agent.ts, three processes that       *)
(* coordinate through one file, the status.json of blackboard.ts.          *)
(*                                                                         *)
(* SharedBlackboard.load replaces the process' copy of the record by the   *)
(* file; every operation changes the copy and save() writes all of it.     *)
(* Nothing is locked meanwhile, so a load and a save are steps of their    *)
(* own, and a save takes back whatever others wrote since the load.  The   *)
(* file is truncated before it is written: a death in between leaves one   *)
(* that every later load takes for none.                                   *)
(***************************************************************************)
EXTENDS Integers, FiniteSets, SequencesExt

CONSTANTS WriteCount,   (* the writes of the loop, 1 to 20                  *)
          ReviewCount,  (* its reviews, 0 to 20                             *)
          MaxCrashes    (* bound: how often an agent dies or is restarted   *)

ASSUME LoopAssumption ==
  /\ WriteCount \in 1..20
  /\ ReviewCount \in 0..20
  /\ MaxCrashes \in Nat

VARIABLES
  board,    (* status.json, as it was last saved whole                      *)
  torn,     (* a death inside a save has cut the file off since             *)
  mem,      (* the copy of it in each process                               *)
  pc,       (* where each process is                                        *)
  task,     (* the task each agent has taken                                *)
  outcome,  (* how the controller ended                                     *)
  crashes,
  lost,     (* history: some save wrote over what its process had not seen  *)
  said      (* history: the last verdict a review came to                   *)

vars == <<board, torn, mem, pc, task, outcome, crashes, lost, said>>

Agent == {"code", "review"}
Process == Agent \cup {"controller"}

Verdict == {"approved", "changes_requested", "blocked"}
None == "none"

Task(kind, n) == [kind |-> kind, n |-> n]
NoTask == Task(None, 0)
Report == Task("report", 0)
Tasks == {Report} \cup [kind: {"write"}, n: 1..WriteCount]
                  \cup [kind: {"review"}, n: 1..ReviewCount]

Judgement == [n: 1..ReviewCount, verdict: Verdict]

(* What the steps of the loop read of a BlackboardRecord: judged holds the *)
(* decided reviews in the order of their updatedAt; a task that is not in  *)
(* written, judged or reported is pending.                                 *)
Record == [next: Tasks \cup {NoTask}, written: SUBSET (1..WriteCount),
           judged: Seq(Judgement), reported: BOOLEAN,
           locks: SUBSET (Tasks \X Agent), agents: SUBSET Agent]

(* createBlackboard with the graph of buildLoopTaskGraph.                  *)
Fresh == [next |-> NoTask, written |-> {}, judged |-> <<>>,
          reported |-> FALSE, locks |-> {}, agents |-> {}]

Trailing == {"unlock", "tell", "rest"}
AgentPC == {"off", "astray", "register", "settle", "idle", "claim", "mark",
            "work", "next", "leave", "exited"} \cup Trailing
ControllerPC == {"config", "action", "monitor", "ended"}

TypeOK ==
  /\ board \in Record
  /\ torn \in BOOLEAN
  /\ mem \in [Process -> Record]
  /\ pc \in [Process -> AgentPC \cup ControllerPC]
  /\ pc["controller"] \in ControllerPC /\ \A a \in Agent : pc[a] \in AgentPC
  /\ task \in [Agent -> Tasks \cup {NoTask}]
  /\ outcome \in Verdict \cup {None, "crashed"}
  /\ crashes \in 0..MaxCrashes
  /\ lost \in BOOLEAN
  /\ said \in Verdict \cup {None}

Init ==
  /\ board = Fresh
  /\ torn = FALSE
  /\ mem = [p \in Process |-> Fresh]
  /\ pc = [p \in Process |-> IF p = "controller" THEN "config" ELSE "off"]
  /\ task = [a \in Agent |-> NoTask]
  /\ outcome = None
  /\ crashes = 0
  /\ lost = FALSE
  /\ said = None
-----------------------------------------------------------------------------
(* The record.                                                             *)

Judged(m) == {m.judged[i].n : i \in DOMAIN m.judged}
Verdicts(m) == {m.judged[i].verdict : i \in DOMAIN m.judged}
Locked(m, t) == \E a \in Agent : <<t, a>> \in m.locks

Pending(m, t) ==
  /\ t \in Tasks
  /\ CASE t.kind = "write" -> t.n \notin m.written
       [] t.kind = "review" -> t.n \notin Judged(m)
       [] t.kind = "report" -> ~m.reported

(* updateTaskStatus of the review agent: the node gets a new updatedAt.    *)
Decide(m, n, v) ==
  LET place == CHOOSE i \in DOMAIN m.judged : m.judged[i].n = n
      others == IF n \in Judged(m) THEN RemoveAt(m.judged, place) ELSE m.judged
  IN  [m EXCEPT !.judged = Append(others, [n |-> n, verdict |-> v])]

(* How many writes go to one review.                                       *)
Step == LET share == WriteCount \div (IF ReviewCount = 0 THEN 1 ELSE ReviewCount)
        IN  IF share > 1 THEN share ELSE 1

(* What the code agent asks for after write i, the review agent after it   *)
(* requested changes in review r, which it takes for the number of a write.*)
AfterWrite(m, i) ==
  LET review == Task("review", (i + Step - 1) \div Step)
      write == Task("write", i + 1)
  IN  IF Pending(m, review) THEN review
      ELSE IF Pending(m, write) THEN write
      ELSE Report

(* Mutant of AfterChanges: without another write nothing is asked for.     *)
AfterChangesOnly(m, r) ==
  IF Pending(m, Task("write", r + 1)) THEN Task("write", r + 1) ELSE m.next

AfterChanges(m, r) ==
  IF Pending(m, Task("write", r + 1)) THEN Task("write", r + 1) ELSE Report

AfterReview(m, r) ==
  IF \E i \in DOMAIN m.judged : /\ m.judged[i].n = r
                                /\ m.judged[i].verdict = "changes_requested"
  THEN AfterChanges(m, r) ELSE Report

(* SharedBlackboard.save of p, whose copy has become m, to its end.        *)
Save(p, m) ==
  /\ mem' = [mem EXCEPT ![p] = m]
  /\ board' = m
  /\ torn' = FALSE
  /\ lost' = (lost \/ board # mem[p])

(* updateAgentStatus saves only for an agent the copy knows.               *)
SaveStatus(a) ==
  IF a \in mem[a].agents THEN Save(a, mem[a]) ELSE UNCHANGED <<mem, board, torn, lost>>

Goto(p, label) == pc' = [pc EXCEPT ![p] = label]
-----------------------------------------------------------------------------
(* The controller.                                                         *)

LoopKnown == pc["controller"] # "config"

WriteConfig ==
  /\ pc["controller"] = "config"
  /\ Goto("controller", "action")
  /\ UNCHANGED <<board, torn, mem, task, outcome, crashes, lost, said>>

(* The first action is saved from the copy of createBlackboard.            *)
FirstAction ==
  /\ pc["controller"] = "action"
  /\ Goto("controller", "monitor")
  /\ Save("controller", [mem["controller"] EXCEPT !.next = Task("write", 1)])
  /\ UNCHANGED <<task, outcome, crashes, said>>

(* The reviews that are done, by their place; a blocked one is not.        *)
Done(m) == {i \in DOMAIN m.judged : m.judged[i].verdict # "blocked"}

(* Mutant of Outcome: the reviews are sorted the other way round.          *)
OutcomeOfFirst(m) ==
  CASE m.reported /\ Done(m) # {} -> m.judged[Min(Done(m))].verdict
    [] m.reported /\ Done(m) = {} -> "crashed"
    [] ~m.reported /\ "blocked" \in Verdicts(m) -> "blocked"
    [] OTHER -> None

(* One poll of monitorLoop that finds the loop over.  A reported loop is   *)
(* not looked at for a blocked task, and has the verdict of its last       *)
(* review that is done; without one the controller fails.  The poll of a   *)
(* torn file changes nothing, here and in the agents.                      *)
Outcome(m) ==
  CASE m.reported /\ Done(m) # {} -> m.judged[Max(Done(m))].verdict
    [] m.reported /\ Done(m) = {} -> "crashed"
    [] ~m.reported /\ "blocked" \in Verdicts(m) -> "blocked"
    [] OTHER -> None

Monitor ==
  /\ pc["controller"] = "monitor"
  /\ ~torn
  /\ Outcome(board) # None
  /\ outcome' = Outcome(board)
  /\ Goto("controller", "ended")
  /\ UNCHANGED <<board, torn, mem, task, crashes, lost, said>>
-----------------------------------------------------------------------------
(* What both agents do.                                                    *)

Saving(p) ==
  \/ pc[p] \in {"register", "claim", "work", "next", "unlock", "tell", "action"}
  \/ pc[p] \in {"settle", "mark", "rest", "leave"} /\ p \in mem[p].agents

(* An agent looks for the loop once: one that is started before its        *)
(* configuration is there never finds it.  One that reads a torn file, or  *)
(* the file while another process writes it, has no record to register in. *)
Start(a) ==
  /\ pc[a] = "off"
  /\ \/ ~LoopKnown /\ Goto(a, "astray") /\ UNCHANGED mem
     \/ /\ LoopKnown /\ ~torn
        /\ Goto(a, "register") /\ mem' = [mem EXCEPT ![a] = board]
     \/ /\ LoopKnown /\ (torn \/ \E p \in Process \ {a} : Saving(p))
        /\ Goto(a, "idle") /\ UNCHANGED mem
  /\ UNCHANGED <<board, torn, task, outcome, crashes, lost, said>>

Register(a) ==
  /\ pc[a] = "register"
  /\ Goto(a, "settle")
  /\ Save(a, [mem[a] EXCEPT !.agents = @ \cup {a}])
  /\ UNCHANGED <<task, outcome, crashes, said>>

Settle(a) ==
  /\ pc[a] = "settle"
  /\ Goto(a, "idle")
  /\ SaveStatus(a)
  /\ UNCHANGED <<task, outcome, crashes, said>>

(* checkEarlyExit of either agent.  The code agent does not look at the    *)
(* report, the review agent at nothing else.                               *)
EarlyExit(a, m) ==
  \/ a = "code" /\ Verdicts(m) \cap {"approved", "blocked"} # {}
  \/ a = "review" /\ m.reported

(* Mutant of Addressed: the agent type of an action is not looked at.      *)
AddressedToAll(a, t) == t.kind # None

Addressed(a, t) ==
  \/ a = "code" /\ t.kind = "write"
  \/ a = "review" /\ t.kind \in {"review", "report"}

(* A poll that finds nothing to do changes nothing.                        *)
PollExit(a) ==
  /\ pc[a] = "idle"
  /\ ~torn
  /\ EarlyExit(a, board)
  /\ mem' = [mem EXCEPT ![a] = board]
  /\ Goto(a, IF a = "code" THEN "leave" ELSE "exited")
  /\ UNCHANGED <<board, torn, task, outcome, crashes, lost, said>>

(* Mutant of PollTask: the copy is not loaded again before the claim.      *)
PollTaskUnloaded(a) ==
  /\ pc[a] = "idle"
  /\ ~torn
  /\ ~EarlyExit(a, board)
  /\ Addressed(a, board.next)
  /\ ~Locked(board, board.next)
  /\ task' = [task EXCEPT ![a] = board.next]
  /\ Goto(a, "claim")
  /\ UNCHANGED <<board, torn, mem, outcome, crashes, lost, said>>

PollTask(a) ==
  /\ pc[a] = "idle"
  /\ ~torn
  /\ ~EarlyExit(a, board)
  /\ Addressed(a, board.next)
  /\ ~Locked(board, board.next)
  /\ mem' = [mem EXCEPT ![a] = board]
  /\ task' = [task EXCEPT ![a] = board.next]
  /\ Goto(a, "claim")
  /\ UNCHANGED <<board, torn, outcome, crashes, lost, said>>

Claim(a) ==
  /\ pc[a] = "claim"
  /\ Goto(a, "mark")
  /\ Save(a, [mem[a] EXCEPT !.locks = @ \cup {<<task[a], a>>}])
  /\ UNCHANGED <<task, outcome, crashes, said>>

Mark(a) ==
  /\ pc[a] = "mark"
  /\ Goto(a, "work")
  /\ SaveStatus(a)
  /\ UNCHANGED <<task, outcome, crashes, said>>

Unlock(a) ==
  /\ pc[a] = "unlock"
  /\ Goto(a, "tell")
  /\ Save(a, [mem[a] EXCEPT !.locks = @ \ {<<task[a], a>>}])
  /\ UNCHANGED <<task, outcome, crashes, said>>

WriteReport(a) ==
  /\ pc[a] = "tell"
  /\ Goto(a, "rest")
  /\ Save(a, mem[a])
  /\ UNCHANGED <<task, outcome, crashes, said>>

(* The code agent has set the next action before; the review agent does so *)
(* when it rests.                                                          *)
Rest(a) ==
  /\ pc[a] = "rest"
  /\ Goto(a, IF a = "code" THEN "idle" ELSE "next")
  /\ SaveStatus(a)
  /\ UNCHANGED <<task, outcome, crashes, said>>

Leave(a) ==
  /\ pc[a] = "leave"
  /\ Goto(a, "exited")
  /\ SaveStatus(a)
  /\ UNCHANGED <<task, outcome, crashes, said>>

(* The process ends, by a failure or the user, and is started again.  One  *)
(* that is saving may have emptied the file and not filled it again.       *)
Crash(a) ==
  /\ pc[a] \notin {"off", "exited"}
  /\ crashes < MaxCrashes
  /\ crashes' = crashes + 1
  /\ Goto(a, "off")
  /\ task' = [task EXCEPT ![a] = NoTask]
  /\ mem' = [mem EXCEPT ![a] = Fresh]
  /\ \/ UNCHANGED torn
     \/ Saving(a) /\ torn' = TRUE
  /\ UNCHANGED <<board, outcome, lost, said>>
-----------------------------------------------------------------------------
(* The work of the code agent: write, ask for what comes next, then unlock,*)
(* report and rest.                                                        *)

WriteDone ==
  /\ pc["code"] = "work"
  /\ Goto("code", "next")
  /\ Save("code", [mem["code"] EXCEPT !.written = @ \cup {task["code"].n}])
  /\ UNCHANGED <<task, outcome, crashes, said>>

NextOfCode ==
  /\ pc["code"] = "next"
  /\ Goto("code", "unlock")
  /\ Save("code", [mem["code"] EXCEPT
                     !.next = AfterWrite(mem["code"], task["code"].n)])
  /\ UNCHANGED <<task, outcome, crashes, said>>

(* The work of the review agent: the verdict somebody puts into the file,  *)
(* or changes_requested when the time for it is over.                      *)
Judge ==
  /\ pc["review"] = "work"
  /\ task["review"].kind = "review"
  /\ \E v \in Verdict :
       /\ said' = v
       /\ Save("review", Decide(mem["review"], task["review"].n, v))
  /\ Goto("review", "unlock")
  /\ UNCHANGED <<task, outcome, crashes>>

NextOfReview ==
  /\ pc["review"] = "next"
  /\ Goto("review", "idle")
  /\ Save("review", [mem["review"] EXCEPT
                       !.next = AfterReview(mem["review"], task["review"].n)])
  /\ UNCHANGED <<task, outcome, crashes, said>>

FinishReport ==
  /\ pc["review"] = "work"
  /\ task["review"] = Report
  /\ Goto("review", "exited")
  /\ Save("review", [mem["review"] EXCEPT !.reported = TRUE])
  /\ UNCHANGED <<task, outcome, crashes, said>>

ControllerStep == WriteConfig \/ FirstAction \/ Monitor

Shared(a) ==
  \/ Register(a) \/ Settle(a) \/ PollExit(a) \/ PollTask(a) \/ Claim(a)
  \/ Mark(a) \/ Unlock(a) \/ WriteReport(a) \/ Rest(a) \/ Leave(a)

CodeStep == Shared("code") \/ WriteDone \/ NextOfCode
ReviewStep == Shared("review") \/ Judge \/ NextOfReview \/ FinishReport

Next ==
  \/ ControllerStep \/ CodeStep \/ ReviewStep
  \/ \E a \in Agent : Start(a) \/ Crash(a)

Spec == Init /\ [][Next]_vars

(* A process that runs goes on, and a review ends by its deadline; nobody  *)
(* has to start an agent.                                                  *)
FairSpec ==
  /\ Spec
  /\ WF_vars(ControllerStep) /\ WF_vars(CodeStep) /\ WF_vars(ReviewStep)
-----------------------------------------------------------------------------
(* Properties.                                                             *)

Works(a) == pc[a] \in {"mark", "work"}

(* The agents take turns by the next action: the code agent never writes   *)
(* while a review of what it wrote is under way, whoever saved last.       *)
TakeTurns == ~(Works("code") /\ Works("review"))

(* The verdict the controller reports is the one the last review came to,  *)
(* even if saves were lost and agents restarted, unless that was to block: *)
(* a loop that is reported before the controller looks hides it.           *)
LastVerdictStands ==
  outcome \in {"approved", "changes_requested"} => outcome = said \/ said = "blocked"

(* What is done stays done in the file until an agent that is being        *)
(* registered, the trailing saves of the code agent, or the one it leaves  *)
(* with, write back a copy from before, or an agent dies inside a save and *)
(* tears it.  The work itself never does: what it saves over a torn file   *)
(* holds all that was done before.                                         *)
Progress(m, n) ==
  /\ m.written \subseteq n.written
  /\ Judged(m) \subseteq Judged(n)
  /\ m.reported => n.reported

OnlyLateSavesTakeBack ==
  [][ \/ Progress(board, board') /\ (torn' => torn)
      \/ \E a \in Agent : pc[a] \in {"register", "settle"} /\ pc'[a] # pc[a]
      \/ pc["code"] \in Trailing \cup {"leave"} /\ pc'["code"] # pc["code"]
      \/ \E a \in Agent : Saving(a) /\ pc'[a] = "off" ]_vars

(* A loop whose agents both found it comes to an end, reported or blocked, *)
(* unless a save was lost, the file stays torn, which everybody then polls *)
(* for ever, or the next task is stranded: locked by an                    *)
(* agent that does not have it, for nothing releases the lock of one that  *)
(* died, or meant for one that has left, as when a review whose agent died *)
(* is done again and no longer approves.                                   *)
Joined(a) == pc[a] \notin {"off", "astray"}
Stranded ==
  \E a \in Agent :
    \/ <<board.next, a>> \in board.locks /\ task[a] # board.next
    \/ Addressed(a, board.next) /\ pc[a] = "exited" /\ Outcome(board) = None

LoopEnds ==
  ([]~lost /\ []<>~torn /\ []~Stranded /\ <>[](\A a \in Agent : Joined(a)))
    => <>(outcome # None)
=============================================================================
