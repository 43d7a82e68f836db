------------------------ MODULE BlackboardLoop_proofs ------------------------
(***************************************************************************)
(* Proofs about BlackboardLoop, for any number of writes, reviews and      *)
(* crashes: the next action works as a token, although anybody may write   *)
(* an old one back.  An agent whose copy names a task of its own has the   *)
(* turn, and nobody has a copy, nor is the file one, that gives the turn   *)
(* to the other; so the copies that others may still write back are older. *)
(* The second half is about how the loop ends: while no save is lost it    *)
(* never stands still, and every step counts.                              *)
(***************************************************************************)
EXTENDS BlackboardLoop, SequenceTheorems, FiniteSetTheorems, WellFoundedInduction, TLAPS

(* The copy of a may still be saved.                                       *)
Live(a) == pc[a] \in {"register", "settle", "claim", "mark", "work", "next",
                      "leave"} \cup Trailing

HasTurn(a) == Live(a) /\ Addressed(a, mem[a].next)

(* An agent at work has a task that is meant for it.                       *)
TaskTaken ==
  \A a \in Agent :
    pc[a] \in {"claim", "mark", "work", "next"} \cup Trailing => Addressed(a, task[a])

(* The task of an agent is the next one of its copy, until the code agent  *)
(* has asked for another.                                                  *)
TaskInHand ==
  /\ \A a \in Agent :
       pc[a] \in {"claim", "mark", "work"} => task[a] = mem[a].next /\ HasTurn(a)
  /\ pc["code"] = "next" => task["code"] = mem["code"].next /\ HasTurn("code")
  /\ pc["review"] \in Trailing \cup {"next"} =>
       task["review"] = mem["review"].next /\ task["review"].kind = "review"
  /\ pc["review"] # "leave"

OneTurn ==
  \A a \in Agent : \A b \in Agent \ {a} :
    HasTurn(a) => ~HasTurn(b) /\ ~Addressed(b, board.next)

(* Before the first action there is nothing, and a copy from then has      *)
(* nothing.                                                                *)
Untouched(m) == m.written = {} /\ m.judged = <<>> /\ ~m.reported

NotBegun ==
  /\ board.next = NoTask => Untouched(board)
  /\ \A a \in Agent : Live(a) /\ mem[a].next = NoTask => Untouched(mem[a])
  /\ pc["controller"] \in {"config", "action"} =>
       /\ mem["controller"] = Fresh
       /\ board.next = NoTask
       /\ \A a \in Agent : Live(a) => mem[a].next = NoTask

(* What others may still write back is older than the copy of the agent    *)
(* that has the turn, or will get it.                                      *)
TurnIsNewest ==
  \A a \in Agent :
    /\ HasTurn(a) => Progress(board, mem[a])
    /\ \A b \in Agent \ {a} : Live(b) =>
         /\ HasTurn(a) => Progress(mem[b], mem[a])
         /\ Addressed(a, board.next) => Progress(mem[b], board)

(* While a review is in hand, nobody has a copy that is past it.           *)
Past(m) == m.next.kind \in {"write", "report"}
Reviewing == Live("review") /\ mem["review"].next.kind = "review"

NothingPastReview ==
  /\ Reviewing => ~Past(board)
  /\ Live("code") /\ Past(mem["code"]) => ~Reviewing /\ board.next.kind # "review"

(* Wherever a loop is asked to go on, its last verdict is the last one.    *)
EndsWithSaid(m) ==
  said = "blocked" \/ m.judged = <<>> \/ m.judged[Len(m.judged)].verdict = said

VerdictIsKept ==
  /\ Past(board) \/ board.reported => EndsWithSaid(board)
  /\ \A a \in Agent : Live(a) /\ (Past(mem[a]) \/ mem[a].reported) => EndsWithSaid(mem[a])
  /\ pc["review"] \in Trailing \cup {"next"} => EndsWithSaid(mem["review"])

(* After the report there are no more verdicts.                            *)
ReportIsTheEnd ==
  /\ board.reported => pc["review"] = "exited"
  /\ \A a \in Agent : Live(a) /\ mem[a].reported => pc["review"] = "exited"
  /\ outcome \in {"approved", "changes_requested"} =>
       pc["review"] = "exited" /\ (outcome = said \/ said = "blocked")

IInv ==
  /\ TypeOK /\ TaskTaken /\ TaskInHand /\ OneTurn /\ NotBegun /\ TurnIsNewest
  /\ NothingPastReview /\ VerdictIsKept /\ ReportIsTheEnd

-----------------------------------------------------------------------------
(* A set of places has a last one: the naturals are well-founded.          *)
LEMMA LargestIsMax ==
  ASSUME NEW n \in Nat, NEW S, S \subseteq 1..n, S # {}
  PROVE  Max(S) \in S /\ \A y \in S : Max(S) >= y
  <1> DEFINE R == OpToRel(<, Nat)
             T == {n - x : x \in S}
  <1> HIDE DEF R
  <1>1. T \subseteq Nat /\ T # {}
    <2>1. \A x \in S : n - x \in Nat
      OBVIOUS
    <2>2. PICK x \in S : TRUE
      OBVIOUS
    <2>3. n - x \in T
      OBVIOUS
    <2> QED
      BY <2>1, <2>3
  <1>2. \A x, y \in Nat : x < y => <<x, y>> \in R
    BY DEF OpToRel, R
  <1>3. IsWellFoundedOn(R, Nat)
    BY NatLessThanWellFounded DEF R
  <1> HIDE DEF T
  <1>4. PICK t \in T : \A u \in T : ~(<<u, t>> \in R)
    BY <1>1, <1>3, WFMin
  <1>5. PICK x \in S : t = n - x
    BY <1>4 DEF T
  <1>6. \A y \in S : x >= y
    <2> SUFFICES ASSUME NEW y \in S, ~(x >= y) PROVE FALSE
      OBVIOUS
    <2>1. n - y \in T /\ n - y < t /\ n - y \in Nat /\ t \in Nat
      BY <1>1, <1>5 DEF T
    <2> QED
      BY <1>2, <1>4, <2>1
  <1> QED
    BY <1>5, <1>6 DEF Max

LEMMA LastDone ==
  ASSUME NEW m \in Record, Done(m) # {}
  PROVE  /\ Max(Done(m)) \in DOMAIN m.judged
         /\ m.judged[Max(Done(m))].verdict \in {"approved", "changes_requested"}
         /\ \A i \in Done(m) : Max(Done(m)) >= i
  <1>1. m.judged \in Seq(Judgement)
    BY DEF Record
  <1>2. Len(m.judged) \in Nat /\ DOMAIN m.judged = 1..Len(m.judged)
    BY <1>1
  <1>3. Done(m) \subseteq 1..Len(m.judged)
    BY <1>2 DEF Done
  <1>4. Max(Done(m)) \in Done(m) /\ \A i \in Done(m) : Max(Done(m)) >= i
    BY <1>2, <1>3, LargestIsMax
  <1>5. ASSUME NEW i \in DOMAIN m.judged PROVE m.judged[i].verdict \in Verdict
    <2>1. m.judged[i] \in Judgement
      BY <1>1
    <2> QED
      BY <2>1 DEF Judgement
  <1>6. \A i \in Done(m) : i \in DOMAIN m.judged /\ m.judged[i].verdict # "blocked"
    BY DEF Done
  <1> HIDE DEF Done
  <1> DEFINE last == Max(Done(m))
  <1>7. last \in Done(m)
    BY <1>4
  <1> HIDE DEF last
  <1>8. last \in DOMAIN m.judged /\ m.judged[last].verdict \in {"approved", "changes_requested"}
    BY <1>5, <1>6, <1>7 DEF Verdict
  <1> QED
    BY <1>4, <1>8 DEF last

-----------------------------------------------------------------------------
(* Types.                                                                  *)

LEMMA TasksAreTyped ==
  /\ Report \in Tasks /\ Task("write", 1) \in Tasks /\ NoTask \notin Tasks
  /\ Report.kind = "report" /\ NoTask.kind = None
  /\ \A k, n : Task(k, n).kind = k /\ Task(k, n).n = n
  /\ \A t \in Tasks :
       /\ t.kind \in {"write", "review", "report"}
       /\ t.kind = "write" => t.n \in 1..WriteCount
       /\ t.kind = "review" => t.n \in 1..ReviewCount
       /\ t.kind = "report" => t = Report
  BY LoopAssumption DEF Tasks, Report, NoTask, Task, None

LEMMA FreshIsTyped == Fresh \in Record /\ Untouched(Fresh) /\ Fresh.next = NoTask
  <1>1. <<>> \in Seq(Judgement)
    OBVIOUS
  <1> QED
    BY <1>1 DEF Fresh, Record, Untouched

LEMMA UpdatesAreTyped ==
  ASSUME NEW m \in Record
  PROVE  /\ \A t \in Tasks : [m EXCEPT !.next = t] \in Record
         /\ \A n \in 1..WriteCount : [m EXCEPT !.written = @ \cup {n}] \in Record
         /\ \A s \in Seq(Judgement) : [m EXCEPT !.judged = s] \in Record
         /\ [m EXCEPT !.reported = TRUE] \in Record
         /\ \A l \in Tasks \X Agent : /\ [m EXCEPT !.locks = @ \cup {l}] \in Record
                                      /\ [m EXCEPT !.locks = @ \ {l}] \in Record
         /\ \A a \in Agent : [m EXCEPT !.agents = @ \cup {a}] \in Record
  BY DEF Record

LEMMA DecideTyped ==
  ASSUME NEW m \in Record, NEW n \in 1..ReviewCount, NEW v \in Verdict
  PROVE  LET d == Decide(m, n, v)
         IN  /\ d \in Record /\ d.next = m.next /\ d.written = m.written
             /\ d.reported = m.reported
             /\ d.judged # <<>> /\ d.judged[Len(d.judged)].verdict = v
             /\ Judged(m) \cup {n} \subseteq Judged(d) /\ d.locks = m.locks
  <1> DEFINE place == CHOOSE i \in DOMAIN m.judged : m.judged[i].n = n
             others == IF n \in Judged(m) THEN RemoveAt(m.judged, place) ELSE m.judged
             last == [n |-> n, verdict |-> v]
             d == Decide(m, n, v)
  <1>1. m.judged \in Seq(Judgement) /\ last \in Judgement
    BY DEF Record, Judgement
  <1>2. others \in Seq(Judgement)
        /\ \A i \in DOMAIN m.judged :
             m.judged[i].n # n => \E j \in DOMAIN others : others[j] = m.judged[i]
    <2>1. CASE n \notin Judged(m)
      BY <1>1, <2>1
    <2>2. CASE n \in Judged(m)
      <3> DEFINE s == m.judged
                 before == SubSeq(s, 1, place - 1)
                 after == SubSeq(s, place + 1, Len(s))
      <3>1. place \in DOMAIN s /\ s[place].n = n
        BY <2>2 DEF Judged
      <3> HIDE DEF place
      <3>2. place \in 1..Len(s) /\ Len(s) \in Nat /\ DOMAIN s = 1..Len(s)
        BY <1>1, <3>1
      <3>3. /\ before \in Seq(Judgement) /\ Len(before) = place - 1
            /\ \A i \in 1..(place - 1) : before[i] = s[i]
        BY <1>1, <3>2
      <3>4. /\ after \in Seq(Judgement) /\ Len(after) = Len(s) - place
            /\ \A i \in 1..(Len(s) - place) : after[i] = s[place + i]
        BY <1>1, <3>2
      <3>5. others = before \o after
        BY <2>2 DEF RemoveAt
      <3> HIDE DEF before, after, others, s
      <3>6. /\ others \in Seq(Judgement) /\ Len(others) = Len(s) - 1
            /\ DOMAIN others = 1..(Len(s) - 1)
            /\ \A i \in 1..(place - 1) : others[i] = s[i]
            /\ \A i \in 1..(Len(s) - place) : others[place - 1 + i] = s[place + i]
        <4>1. others \in Seq(Judgement) /\ Len(others) = Len(before) + Len(after)
          BY <3>3, <3>4, <3>5, ConcatProperties
        <4>2. Len(others) = Len(s) - 1 /\ DOMAIN others = 1..(Len(s) - 1)
          BY <3>2, <3>3, <3>4, <4>1
        <4>3. ASSUME NEW i \in 1..(place - 1) PROVE others[i] = s[i]
          <5>1. i \in 1..(Len(before) + Len(after)) /\ i <= Len(before)
            BY <3>2, <3>3, <3>4
          <5>2. others[i] = before[i]
            BY <3>3, <3>4, <3>5, <5>1, ConcatProperties
          <5> QED
            BY <3>3, <5>2
        <4>4. ASSUME NEW i \in 1..(Len(s) - place)
              PROVE  others[place - 1 + i] = s[place + i]
          <5> DEFINE k == place - 1 + i
          <5>1. k \in 1..(Len(before) + Len(after)) /\ ~(k <= Len(before))
                /\ k - Len(before) = i
            BY <3>2, <3>3, <3>4
          <5> HIDE DEF k
          <5>2. others[k] = after[i]
            BY <3>3, <3>4, <3>5, <5>1, ConcatProperties
          <5>3. others[k] = s[place + i]
            BY <3>4, <5>2
          <5> QED
            BY <5>3 DEF k
        <4> QED
          BY <4>1, <4>2, <4>3, <4>4
      <3>7. ASSUME NEW i \in DOMAIN s, s[i].n # n
            PROVE  \E j \in DOMAIN others : others[j] = s[i]
        <4>1. CASE i < place
          BY <3>2, <3>6, <4>1
        <4>2. CASE i > place
          <5>1. i - 1 \in DOMAIN others /\ i - place \in 1..(Len(s) - place)
            BY <3>2, <3>6, <4>2
          <5>2. others[place - 1 + (i - place)] = s[place + (i - place)]
            BY <3>6, <5>1
          <5> QED
            BY <3>2, <5>1, <5>2
        <4> QED
          BY <3>1, <3>2, <3>7, <4>1, <4>2
      <3> QED
        BY <3>6, <3>7 DEF s
    <2> QED
      BY <2>1, <2>2
  <1>3. d = [m EXCEPT !.judged = Append(others, last)]
    BY DEF Decide
  <1> HIDE DEF others, last, d
  <1>4. /\ Append(others, last) \in Seq(Judgement)
        /\ Len(Append(others, last)) = Len(others) + 1
        /\ Append(others, last)[Len(others) + 1] = last
        /\ Append(others, last) # <<>>
        /\ DOMAIN others = 1..Len(others) /\ Len(others) \in Nat
        /\ DOMAIN Append(others, last) = 1..(Len(others) + 1)
        /\ \A j \in DOMAIN others : Append(others, last)[j] = others[j]
    BY <1>1, <1>2
  <1>5. /\ d \in Record /\ d.next = m.next /\ d.written = m.written
        /\ d.reported = m.reported /\ d.judged = Append(others, last)
        /\ d.locks = m.locks
    <2> DEFINE judged == Append(others, last)
    <2>1. judged \in Seq(Judgement) /\ d = [m EXCEPT !.judged = judged]
      BY <1>3, <1>4
    <2> HIDE DEF judged
    <2>2. /\ d \in Record /\ d.next = m.next /\ d.written = m.written
          /\ d.reported = m.reported /\ d.judged = judged /\ d.locks = m.locks
      BY <2>1 DEF Record
    <2> QED
      BY <2>2 DEF judged
  <1>6. n \in Judged(d)
    <2>1. Len(others) + 1 \in DOMAIN d.judged /\ d.judged[Len(others) + 1].n = n
      BY <1>4, <1>5 DEF last
    <2> QED
      BY <2>1 DEF Judged
  <1>7. ASSUME NEW i \in DOMAIN m.judged PROVE m.judged[i].n \in Judged(d)
    <2>1. CASE m.judged[i].n = n
      BY <1>6, <2>1
    <2>2. CASE m.judged[i].n # n
      <3>1. PICK j \in DOMAIN others : others[j] = m.judged[i]
        BY <1>2, <2>2
      <3>2. j \in DOMAIN d.judged /\ d.judged[j] = m.judged[i]
        BY <1>4, <1>5, <3>1
      <3> QED
        BY <3>2 DEF Judged
    <2> QED
      BY <2>1, <2>2
  <1>8. Judged(m) \subseteq Judged(d)
    BY <1>7 DEF Judged
  <1>9. d.judged # <<>> /\ d.judged[Len(d.judged)].verdict = v
    BY <1>4, <1>5 DEF last
  <1> QED
    BY <1>5, <1>6, <1>8, <1>9 DEF d

LEMMA SaveIsTyped ==
  ASSUME TypeOK, NEW p \in Process, NEW m \in Record, Save(p, m)
  PROVE  /\ board' \in Record /\ mem' \in [Process -> Record] /\ {lost', torn'} \subseteq BOOLEAN
         /\ board' = m /\ mem'[p] = m
         /\ \A q \in Process \ {p} : mem'[q] = mem[q]
  BY DEF TypeOK, Save

LEMMA SaveStatusIsTyped ==
  ASSUME TypeOK, NEW a \in Agent, SaveStatus(a)
  PROVE  /\ board' \in Record /\ mem' \in [Process -> Record] /\ {lost', torn'} \subseteq BOOLEAN
         /\ mem'[a] = mem[a] /\ board' \in {board, mem[a]}
         /\ \A q \in Process \ {a} : mem'[q] = mem[q]
  <1>1. a \in Process /\ mem[a] \in Record
    BY DEF TypeOK, Process
  <1>2. CASE a \in mem[a].agents
    BY <1>1, <1>2, SaveIsTyped DEF SaveStatus
  <1>3. CASE a \notin mem[a].agents
    BY <1>3 DEF SaveStatus, TypeOK
  <1> QED
    BY <1>2, <1>3

LEMMA GotoIsTyped ==
  ASSUME TypeOK
  PROVE  /\ \A p \in Process : \A l :
              Goto(p, l) => pc'[p] = l /\ \A q \in Process \ {p} : pc'[q] = pc[q]
         /\ \A a \in Agent, l \in AgentPC : Goto(a, l) =>
              /\ pc' \in [Process -> AgentPC \cup ControllerPC]
              /\ pc'["controller"] \in ControllerPC
              /\ \A b \in Agent : pc'[b] \in AgentPC
         /\ \A l \in ControllerPC : Goto("controller", l) =>
              /\ pc' \in [Process -> AgentPC \cup ControllerPC]
              /\ pc'["controller"] \in ControllerPC
              /\ \A b \in Agent : pc'[b] \in AgentPC
  BY DEF TypeOK, Goto, Process, Agent

(* Where the steps of an agent lead.                                       *)
LEMMA PlacesAreTyped ==
  /\ AgentPC = {"off", "astray", "register", "settle", "idle", "claim", "mark", "work",
                "next", "leave", "exited", "unlock", "tell", "rest"}
  /\ ControllerPC = {"config", "action", "monitor", "ended"}
  BY DEF AgentPC, ControllerPC, Trailing

LEMMA NextIsTyped ==
  ASSUME NEW m \in Record
  PROVE  /\ \A i : AfterWrite(m, i) \in Tasks
         /\ \A i : AfterWrite(m, i).kind \in {"review", "write", "report"}
         /\ \A r : AfterReview(m, r) \in Tasks /\ Past([m EXCEPT !.next = AfterReview(m, r)])
         /\ \A r : AfterReview(m, r).kind \in {"write", "report"}
  <1>1. \A i : AfterWrite(m, i) \in Tasks
    BY TasksAreTyped DEF AfterWrite, Pending
  <1>2. \A r : AfterReview(m, r) \in Tasks /\ AfterReview(m, r).kind \in {"write", "report"}
    BY TasksAreTyped DEF AfterReview, AfterChanges, Pending
  <1>3. \A t \in Tasks : [m EXCEPT !.next = t].next = t
    BY DEF Record
  <1> QED
    BY <1>1, <1>2, <1>3, TasksAreTyped DEF Past

LEMMA TakenIsTyped ==
  ASSUME TypeOK, TaskTaken, NEW a \in Agent,
         pc[a] \in {"claim", "mark", "work", "next"} \cup Trailing
  PROVE  /\ task[a] \in Tasks
         /\ a = "code" => task[a].n \in 1..WriteCount
         /\ task[a].kind = "review" => task[a].n \in 1..ReviewCount
  <1>1. Addressed(a, task[a])
    BY DEF TaskTaken
  <1>2. task[a] \in Tasks \cup {NoTask}
    BY DEF TypeOK
  <1>3. task[a].kind \in {"write", "review", "report"} /\ (a = "code" => task[a].kind = "write")
    BY <1>1 DEF Addressed
  <1>4. task[a] \in Tasks
    BY <1>2, <1>3, TasksAreTyped DEF None
  <1> QED
    BY <1>3, <1>4, TasksAreTyped

LEMMA TypeStep == TypeOK /\ TaskTaken /\ [Next]_vars => TypeOK'
  <1> SUFFICES ASSUME TypeOK, TaskTaken, [Next]_vars PROVE TypeOK'
    OBVIOUS
  <1>1. /\ Agent \subseteq Process /\ "controller" \in Process
        /\ "code" \in Agent /\ "review" \in Agent
    BY DEF Agent, Process
  <1>2. \A p \in Process : mem[p] \in Record
    BY DEF TypeOK
  <1>3. CASE WriteConfig
    BY <1>3, GotoIsTyped, PlacesAreTyped DEF TypeOK, WriteConfig
  <1>4. CASE FirstAction
    <2>1. [mem["controller"] EXCEPT !.next = Task("write", 1)] \in Record
      BY <1>1, <1>2, UpdatesAreTyped, TasksAreTyped
    <2> QED
      BY <1>1, <1>4, <2>1, SaveIsTyped, GotoIsTyped, PlacesAreTyped DEF TypeOK, FirstAction
  <1>5. CASE Monitor
    <2>1. Outcome(board) \in Verdict \cup {None, "crashed"}
      <3>1. board \in Record
        BY DEF TypeOK
      <3>2. CASE Done(board) = {}
        BY <3>2 DEF Outcome, Verdict
      <3>3. CASE Done(board) # {}
        BY <3>1, <3>3, LastDone DEF Outcome, Verdict
      <3> QED
        BY <3>2, <3>3
    <2> QED
      BY <1>5, <2>1, GotoIsTyped, PlacesAreTyped DEF TypeOK, Monitor
  <1>6. ASSUME NEW a \in Agent, Start(a) \/ PollExit(a) \/ PollTask(a) \/ Crash(a) PROVE TypeOK'
    <2>1. a \in Process /\ board \in Record /\ Fresh \in Record
      BY <1>1, FreshIsTyped DEF TypeOK
    <2>2. mem' \in [Process -> Record]
      BY <1>6, <2>1 DEF TypeOK, Start, PollExit, PollTask, Crash
    <2>3. task' \in [Agent -> Tasks \cup {NoTask}]
      BY <1>6, <2>1 DEF TypeOK, Record, Start, PollExit, PollTask, Crash
    <2>4. \E l \in AgentPC : Goto(a, l)
      BY <1>6, PlacesAreTyped DEF Start, PollExit, PollTask, Crash
    <2>5. crashes' \in 0..MaxCrashes
      BY <1>6, LoopAssumption DEF TypeOK, Start, PollExit, PollTask, Crash
    <2>6. UNCHANGED <<board, outcome, lost, said>> /\ torn' \in BOOLEAN
      BY <1>6 DEF TypeOK, Start, PollExit, PollTask, Crash
    <2> QED
      BY <2>2, <2>3, <2>4, <2>5, <2>6, GotoIsTyped DEF TypeOK
  <1>7. ASSUME NEW a \in Agent, Settle(a) \/ Mark(a) \/ Rest(a) \/ Leave(a) PROVE TypeOK'
    <2>1. SaveStatus(a) /\ UNCHANGED <<task, outcome, crashes, said>>
      BY <1>7 DEF Settle, Mark, Rest, Leave
    <2>2. \E l \in AgentPC : Goto(a, l)
      BY <1>7, PlacesAreTyped DEF Settle, Mark, Rest, Leave
    <2> QED
      BY <2>1, <2>2, SaveStatusIsTyped, GotoIsTyped DEF TypeOK
  <1>8. ASSUME NEW a \in Agent, Register(a) PROVE TypeOK'
    <2>1. [mem[a] EXCEPT !.agents = @ \cup {a}] \in Record
      BY <1>1, <1>2, UpdatesAreTyped
    <2> QED
      BY <1>1, <1>8, <2>1, SaveIsTyped, GotoIsTyped, PlacesAreTyped DEF TypeOK, Register
  <1>9. ASSUME NEW a \in Agent, Claim(a) \/ Unlock(a) \/ WriteReport(a) PROVE TypeOK'
    <2>1. task[a] \in Tasks
      BY <1>9, TakenIsTyped DEF Claim, Unlock, WriteReport, Trailing
    <2>2. PICK m \in Record : Save(a, m)
      <3> DEFINE l == <<task[a], a>>
      <3>1. l \in Tasks \X Agent
        BY <2>1
      <3> HIDE DEF l
      <3>2. /\ mem[a] \in Record
            /\ [mem[a] EXCEPT !.locks = @ \cup {l}] \in Record
            /\ [mem[a] EXCEPT !.locks = @ \ {l}] \in Record
        BY <1>1, <1>2, <3>1, UpdatesAreTyped
      <3> QED
        BY <1>9, <3>2 DEF Claim, Unlock, WriteReport, l
    <2>3. /\ \E l \in AgentPC : Goto(a, l)
          /\ UNCHANGED <<task, outcome, crashes, said>>
      BY <1>9, PlacesAreTyped DEF Claim, Unlock, WriteReport
    <2> QED
      BY <1>1, <2>2, <2>3, SaveIsTyped, GotoIsTyped DEF TypeOK
  <1>10. CASE WriteDone
    <2>1. task["code"].n \in 1..WriteCount
      BY <1>1, <1>10, TakenIsTyped DEF WriteDone
    <2>2. [mem["code"] EXCEPT !.written = @ \cup {task["code"].n}] \in Record
      BY <1>1, <1>2, <2>1, UpdatesAreTyped
    <2> QED
      BY <1>1, <1>10, <2>2, SaveIsTyped, GotoIsTyped, PlacesAreTyped DEF TypeOK, WriteDone
  <1>11. CASE NextOfCode
    <2>1. [mem["code"] EXCEPT !.next = AfterWrite(mem["code"], task["code"].n)] \in Record
      BY <1>1, <1>2, NextIsTyped, UpdatesAreTyped
    <2> QED
      BY <1>1, <1>11, <2>1, SaveIsTyped, GotoIsTyped, PlacesAreTyped DEF TypeOK, NextOfCode
  <1>12. CASE Judge
    <2>1. task["review"].n \in 1..ReviewCount
      BY <1>1, <1>12, TakenIsTyped DEF Judge
    <2>2. PICK v \in Verdict : said' = v /\ Save("review", Decide(mem["review"], task["review"].n, v))
      BY <1>12 DEF Judge
    <2>3. Decide(mem["review"], task["review"].n, v) \in Record
      BY <1>1, <1>2, <2>1, DecideTyped
    <2> QED
      BY <1>1, <1>12, <2>2, <2>3, SaveIsTyped, GotoIsTyped, PlacesAreTyped DEF TypeOK, Judge
  <1>13. CASE NextOfReview
    <2>1. [mem["review"] EXCEPT !.next = AfterReview(mem["review"], task["review"].n)] \in Record
      BY <1>1, <1>2, NextIsTyped, UpdatesAreTyped
    <2> QED
      BY <1>1, <1>13, <2>1, SaveIsTyped, GotoIsTyped, PlacesAreTyped DEF TypeOK, NextOfReview
  <1>14. CASE FinishReport
    <2>1. [mem["review"] EXCEPT !.reported = TRUE] \in Record
      BY <1>1, <1>2, UpdatesAreTyped
    <2> QED
      BY <1>1, <1>14, <2>1, SaveIsTyped, GotoIsTyped, PlacesAreTyped DEF TypeOK, FinishReport
  <1>15. CASE UNCHANGED vars
    BY <1>15 DEF TypeOK, vars
  <1> QED
    BY <1>1, <1>3, <1>4, <1>5, <1>6, <1>7, <1>8, <1>9, <1>10, <1>11, <1>12, <1>13, <1>14, <1>15
    DEF Next, ControllerStep, CodeStep, ReviewStep, Shared

-----------------------------------------------------------------------------
(* What a step does to the parts of the state the invariant is about.      *)

(* Only p moves, and only its copy changes.                                *)
OnlyOf(p) ==
  /\ \A q \in Process \ {p} : mem'[q] = mem[q] /\ pc'[q] = pc[q]
  /\ \A b \in Agent \ {p} : task'[b] = task[b]

SameWork(m, n) ==
  /\ n.next = m.next /\ n.written = m.written
  /\ n.judged = m.judged /\ n.reported = m.reported

(* The agent saves what it has, or leaves the file alone.                  *)
Resaves(a) ==
  /\ OnlyOf(a)
  /\ UNCHANGED <<task, outcome, said>>
  /\ SameWork(mem[a], mem'[a])
  /\ board' = board \/ board' = mem'[a]
  /\ \/ pc[a] = "register" /\ pc'[a] = "settle"
     \/ pc[a] = "settle" /\ pc'[a] = "idle"
     \/ pc[a] = "claim" /\ pc'[a] = "mark"
     \/ pc[a] = "mark" /\ pc'[a] = "work"
     \/ pc[a] = "unlock" /\ pc'[a] = "tell"
     \/ pc[a] = "tell" /\ pc'[a] = "rest"
     \/ a = "code" /\ pc[a] = "rest" /\ pc'[a] = "idle"
     \/ a = "review" /\ pc[a] = "rest" /\ pc'[a] = "next"
     \/ pc[a] = "leave" /\ pc'[a] = "exited"

(* The agent reads the file: to register, to take a task, to leave.        *)
Loads(a) ==
  /\ OnlyOf(a)
  /\ UNCHANGED <<board, outcome, said>>
  /\ mem'[a] = board
  /\ \/ pc[a] = "off" /\ pc'[a] = "register"
     \/ pc[a] = "idle" /\ a = "code" /\ pc'[a] = "leave"
     \/ pc[a] = "idle" /\ pc'[a] = "claim" /\ task'[a] = board.next /\ Addressed(a, board.next)

(* The agent has no copy any more.                                         *)
Drops(a) ==
  /\ OnlyOf(a)
  /\ UNCHANGED <<board, outcome, said>>
  /\ pc[a] # "exited"
  /\ pc'[a] \in {"off", "astray", "idle", "exited"}

(* A step of the work of a, saved at once.                                 *)
DoesWork(a, from, to) ==
  /\ OnlyOf(a)
  /\ UNCHANGED <<task, outcome>>
  /\ pc[a] = from /\ pc'[a] = to
  /\ board' = mem'[a]
  /\ Progress(mem[a], mem'[a])

Writes ==
  /\ DoesWork("code", "work", "next")
  /\ said' = said
  /\ mem'["code"].next = mem["code"].next
  /\ mem'["code"].judged = mem["code"].judged
  /\ mem'["code"].reported = mem["code"].reported

Asks(a) ==
  /\ \/ a = "code" /\ DoesWork(a, "next", "unlock")
                   /\ mem'[a].next.kind \in {"review", "write", "report"}
     \/ a = "review" /\ DoesWork(a, "next", "idle") /\ Past(mem'[a])
  /\ said' = said
  /\ mem'[a].judged = mem[a].judged
  /\ mem'[a].reported = mem[a].reported

Judges ==
  /\ DoesWork("review", "work", "unlock")
  /\ task["review"].kind = "review"
  /\ mem'["review"].next = mem["review"].next
  /\ mem'["review"].reported = mem["review"].reported
  /\ EndsWithSaid(mem["review"])'

Reports ==
  /\ DoesWork("review", "work", "exited")
  /\ said' = said
  /\ task["review"].kind = "report"
  /\ mem'["review"].next = mem["review"].next
  /\ mem'["review"].judged = mem["review"].judged

Begins ==
  /\ OnlyOf("controller")
  /\ UNCHANGED <<outcome, said>>
  /\ pc["controller"] = "action" /\ pc'["controller"] = "monitor"
  /\ board'.next.kind = "write"
  /\ mem["controller"] = Fresh => Untouched(board')

Ends ==
  /\ \A a \in Agent : mem'[a] = mem[a] /\ pc'[a] = pc[a] /\ task'[a] = task[a]
  /\ UNCHANGED <<board, said>>
  /\ pc'["controller"] = "ended"
  /\ outcome' = Outcome(board)

Waits ==
  /\ UNCHANGED <<board, mem, task, outcome, said>>
  /\ \A a \in Agent : pc'[a] = pc[a]
  /\ pc'["controller"] \in {"config", "action"} => pc["controller"] \in {"config", "action"}

LEMMA SaveStep ==
  ASSUME TypeOK, NEW p \in Process, NEW m \in Record, NEW l,
         Goto(p, l), Save(p, m), UNCHANGED task
  PROVE  OnlyOf(p) /\ pc'[p] = l /\ mem'[p] = m /\ board' = m
  <1>1. pc'[p] = l /\ \A q \in Process \ {p} : pc'[q] = pc[q]
    BY GotoIsTyped
  <1> QED
    BY <1>1, SaveIsTyped DEF OnlyOf

LEMMA SaveStatusStep ==
  ASSUME TypeOK, NEW a \in Agent, NEW l, Goto(a, l), SaveStatus(a), UNCHANGED task
  PROVE  OnlyOf(a) /\ pc'[a] = l /\ mem'[a] = mem[a] /\ (board' = board \/ board' = mem'[a])
  <1>1. a \in Process
    BY DEF Process
  <1>2. pc'[a] = l /\ \A q \in Process \ {a} : pc'[q] = pc[q]
    BY <1>1, GotoIsTyped
  <1> QED
    BY <1>1, <1>2, SaveStatusIsTyped DEF OnlyOf

LEMMA LocalStep ==
  ASSUME TypeOK, NEW a \in Agent, NEW l, NEW m, NEW t, Goto(a, l),
         mem' = [mem EXCEPT ![a] = m] \/ UNCHANGED mem,
         task' = [task EXCEPT ![a] = t] \/ UNCHANGED task
  PROVE  /\ OnlyOf(a) /\ pc'[a] = l
         /\ UNCHANGED mem \/ mem'[a] = m
         /\ UNCHANGED task \/ task'[a] = t
  <1>1. a \in Process
    BY DEF Process
  <1>2. pc'[a] = l /\ \A q \in Process \ {a} : pc'[q] = pc[q]
    BY <1>1, GotoIsTyped
  <1>3. /\ \A q \in Process \ {a} : mem'[q] = mem[q]
        /\ \A b \in Agent \ {a} : task'[b] = task[b]
        /\ UNCHANGED mem \/ mem'[a] = m
        /\ UNCHANGED task \/ task'[a] = t
    BY <1>1 DEF TypeOK
  <1> QED
    BY <1>2, <1>3 DEF OnlyOf

LEMMA UpdatesKeep ==
  ASSUME NEW m \in Record
  PROVE  /\ \A t : LET n == [m EXCEPT !.next = t]
                   IN  n.next = t /\ Progress(m, n) /\ n.judged = m.judged /\ n.reported = m.reported
         /\ \A k : LET n == [m EXCEPT !.written = @ \cup {k}]
                   IN  /\ n.next = m.next /\ Progress(m, n)
                       /\ n.judged = m.judged /\ n.reported = m.reported
         /\ LET n == [m EXCEPT !.reported = TRUE]
            IN  n.next = m.next /\ Progress(m, n) /\ n.judged = m.judged
         /\ \A l : /\ SameWork(m, [m EXCEPT !.locks = @ \cup {l}])
                   /\ SameWork(m, [m EXCEPT !.locks = @ \ {l}])
                   /\ SameWork(m, [m EXCEPT !.agents = @ \cup {l}])
  BY DEF Record, Progress, Judged, SameWork

LEMMA StepKinds ==
  ASSUME TypeOK, TaskTaken, [Next]_vars
  PROVE  \/ \E a \in Agent : Resaves(a) \/ Loads(a) \/ Drops(a) \/ Asks(a)
         \/ Writes \/ Judges \/ Reports \/ Begins \/ Ends \/ Waits
  <1>1. /\ Agent \subseteq Process /\ "controller" \in Process /\ "controller" \notin Agent
        /\ "code" \in Agent /\ "review" \in Agent
    BY DEF Agent, Process
  <1>2. \A p \in Process : mem[p] \in Record
    BY DEF TypeOK
  <1>3. CASE WriteConfig
    BY <1>1, <1>3, GotoIsTyped DEF WriteConfig, Waits
  <1>4. CASE FirstAction
    <2> DEFINE m == [mem["controller"] EXCEPT !.next = Task("write", 1)]
    <2>1. m \in Record /\ m.next.kind = "write"
      <3> DEFINE t == Task("write", 1)
      <3>1. t \in Tasks /\ t.kind = "write"
        BY TasksAreTyped
      <3>2. m = [mem["controller"] EXCEPT !.next = t]
        OBVIOUS
      <3> HIDE DEF m, t
      <3> QED
        BY <1>1, <1>2, <3>1, <3>2, UpdatesAreTyped, UpdatesKeep
    <2>2. mem["controller"] = Fresh => Untouched(m)
      BY DEF Fresh, Untouched
    <2> HIDE DEF m
    <2>3. Goto("controller", "monitor") /\ Save("controller", m) /\ UNCHANGED task
      BY <1>4 DEF FirstAction, m
    <2>4. OnlyOf("controller") /\ pc'["controller"] = "monitor" /\ board' = m
      BY <1>1, <2>1, <2>3, SaveStep
    <2> QED
      BY <1>4, <2>1, <2>2, <2>4 DEF FirstAction, Begins
  <1>5. CASE Monitor
    BY <1>1, <1>5, GotoIsTyped DEF Monitor, Ends
  <1>6. ASSUME NEW a \in Agent, Start(a) PROVE Loads(a) \/ Drops(a)
    <2>1. CASE Goto(a, "register") /\ mem' = [mem EXCEPT ![a] = board]
      <3>1. OnlyOf(a) /\ pc'[a] = "register"
        BY <1>6, <2>1, LocalStep DEF Start
      <3>2. mem'[a] = board
        BY <1>1, <2>1 DEF TypeOK
      <3> QED
        BY <1>6, <3>1, <3>2 DEF Start, Loads
    <2>2. CASE (Goto(a, "astray") \/ Goto(a, "idle")) /\ UNCHANGED mem
      <3>1. OnlyOf(a) /\ pc'[a] \in {"astray", "idle"}
        BY <1>6, <2>2, LocalStep DEF Start
      <3> QED
        BY <1>6, <3>1 DEF Start, Drops
    <2> QED
      BY <1>6, <2>1, <2>2 DEF Start
  <1>7. ASSUME NEW a \in Agent, PollExit(a) PROVE Loads(a) \/ Drops(a)
    <2>1. /\ OnlyOf(a) /\ pc'[a] = IF a = "code" THEN "leave" ELSE "exited"
          /\ mem'[a] = board
      BY <1>1, <1>7, LocalStep DEF PollExit, TypeOK
    <2> QED
      BY <1>7, <2>1 DEF PollExit, Loads, Drops
  <1>8. ASSUME NEW a \in Agent, PollTask(a) PROVE Loads(a)
    <2>1. OnlyOf(a) /\ pc'[a] = "claim"
      BY <1>8, LocalStep DEF PollTask
    <2>2. mem'[a] = board /\ task'[a] = board.next
      BY <1>1, <1>8 DEF PollTask, TypeOK
    <2> QED
      BY <1>8, <2>1, <2>2 DEF PollTask, Loads
  <1>9. ASSUME NEW a \in Agent, Crash(a) PROVE Drops(a)
    <2>1. OnlyOf(a) /\ pc'[a] = "off"
      BY <1>9, LocalStep DEF Crash
    <2> QED
      BY <1>9, <2>1 DEF Crash, Drops
  <1>10. ASSUME NEW a \in Agent, Settle(a) \/ Mark(a) \/ Rest(a) \/ Leave(a) PROVE Resaves(a)
    <2>1. /\ OnlyOf(a) /\ mem'[a] = mem[a] /\ (board' = board \/ board' = mem'[a])
          /\ \/ pc[a] = "settle" /\ pc'[a] = "idle"
             \/ pc[a] = "mark" /\ pc'[a] = "work"
             \/ pc[a] = "rest" /\ pc'[a] = IF a = "code" THEN "idle" ELSE "next"
             \/ pc[a] = "leave" /\ pc'[a] = "exited"
      BY <1>10, SaveStatusStep DEF Settle, Mark, Rest, Leave
    <2>2. a = "code" \/ a = "review"
      BY DEF Agent
    <2> QED
      BY <1>10, <2>1, <2>2 DEF Settle, Mark, Rest, Leave, Resaves, SameWork
  <1>11. ASSUME NEW a \in Agent, Register(a) \/ Claim(a) \/ Unlock(a) \/ WriteReport(a)
         PROVE  Resaves(a)
    <2>1. PICK m \in Record : Save(a, m) /\ SameWork(mem[a], m)
      <3> DEFINE l == <<task[a], a>>
      <3>1. mem[a] \in Record /\ SameWork(mem[a], mem[a])
        BY <1>1, <1>2 DEF SameWork
      <3>2. CASE Register(a)
        BY <3>1, <3>2, UpdatesAreTyped, UpdatesKeep DEF Register
      <3>3. CASE WriteReport(a)
        BY <3>1, <3>3 DEF WriteReport
      <3>4. CASE Claim(a) \/ Unlock(a)
        <4>1. l \in Tasks \X Agent
          BY <3>4, TakenIsTyped DEF Claim, Unlock, Trailing
        <4> HIDE DEF l
        <4>2. /\ [mem[a] EXCEPT !.locks = @ \cup {l}] \in Record
              /\ [mem[a] EXCEPT !.locks = @ \ {l}] \in Record
              /\ SameWork(mem[a], [mem[a] EXCEPT !.locks = @ \cup {l}])
              /\ SameWork(mem[a], [mem[a] EXCEPT !.locks = @ \ {l}])
          BY <3>1, <4>1, UpdatesAreTyped, UpdatesKeep
        <4> QED
          BY <3>4, <4>2 DEF Claim, Unlock, l
      <3> QED
        BY <1>11, <3>2, <3>3, <3>4
    <2>2. /\ OnlyOf(a) /\ mem'[a] = m /\ board' = m
          /\ \/ pc[a] = "register" /\ pc'[a] = "settle"
             \/ pc[a] = "claim" /\ pc'[a] = "mark"
             \/ pc[a] = "unlock" /\ pc'[a] = "tell"
             \/ pc[a] = "tell" /\ pc'[a] = "rest"
      BY <1>1, <1>11, <2>1, SaveStep DEF Register, Claim, Unlock, WriteReport
    <2> QED
      BY <1>11, <2>1, <2>2 DEF Register, Claim, Unlock, WriteReport, Resaves
  <1>12. CASE WriteDone
    <2> DEFINE m == [mem["code"] EXCEPT !.written = @ \cup {task["code"].n}]
    <2>1. /\ m \in Record /\ m.next = mem["code"].next /\ Progress(mem["code"], m)
          /\ m.judged = mem["code"].judged /\ m.reported = mem["code"].reported
      <3>1. task["code"].n \in 1..WriteCount
        BY <1>1, <1>12, TakenIsTyped DEF WriteDone
      <3> QED
        BY <1>1, <1>2, <3>1, UpdatesAreTyped, UpdatesKeep
    <2>2. Save("code", m) /\ Goto("code", "next") /\ UNCHANGED task
      BY <1>12 DEF WriteDone
    <2> HIDE DEF m
    <2>3. OnlyOf("code") /\ pc'["code"] = "next" /\ mem'["code"] = m /\ board' = m
      BY <1>1, <2>1, <2>2, SaveStep
    <2>4. Writes
      BY <1>12, <2>1, <2>3 DEF WriteDone, Writes, DoesWork
    <2> QED
      BY <2>4
  <1>13. CASE NextOfCode
    <2> DEFINE m == [mem["code"] EXCEPT !.next = AfterWrite(mem["code"], task["code"].n)]
    <2>1. /\ m \in Record /\ m.next.kind \in {"review", "write", "report"}
          /\ Progress(mem["code"], m)
          /\ m.judged = mem["code"].judged /\ m.reported = mem["code"].reported
      <3> DEFINE t == AfterWrite(mem["code"], task["code"].n)
      <3>1. t \in Tasks /\ t.kind \in {"review", "write", "report"}
        BY <1>1, <1>2, NextIsTyped
      <3>2. m = [mem["code"] EXCEPT !.next = t]
        OBVIOUS
      <3> HIDE DEF m, t
      <3> QED
        BY <1>1, <1>2, <3>1, <3>2, UpdatesAreTyped, UpdatesKeep
    <2>2. Save("code", m) /\ Goto("code", "unlock") /\ UNCHANGED task
      BY <1>13 DEF NextOfCode
    <2> HIDE DEF m
    <2>3. OnlyOf("code") /\ pc'["code"] = "unlock" /\ mem'["code"] = m /\ board' = m
      BY <1>1, <2>1, <2>2, SaveStep
    <2>4. Asks("code")
      BY <1>13, <2>1, <2>3 DEF NextOfCode, Asks, DoesWork
    <2> QED
      BY <1>1, <2>4
  <1>14. CASE NextOfReview
    <2> DEFINE m == [mem["review"] EXCEPT !.next = AfterReview(mem["review"], task["review"].n)]
    <2>1. /\ m \in Record /\ Past(m) /\ Progress(mem["review"], m)
          /\ m.judged = mem["review"].judged /\ m.reported = mem["review"].reported
      BY <1>1, <1>2, UpdatesAreTyped, UpdatesKeep, NextIsTyped
    <2>2. Save("review", m) /\ Goto("review", "idle") /\ UNCHANGED task
      BY <1>14 DEF NextOfReview
    <2> HIDE DEF m
    <2>3. OnlyOf("review") /\ pc'["review"] = "idle" /\ mem'["review"] = m /\ board' = m
      BY <1>1, <2>1, <2>2, SaveStep
    <2>4. Asks("review")
      BY <1>14, <2>1, <2>3 DEF NextOfReview, Asks, DoesWork
    <2> QED
      BY <1>1, <2>4
  <1>15. CASE Judge
    <2>1. PICK v \in Verdict : said' = v /\ Save("review", Decide(mem["review"], task["review"].n, v))
      BY <1>15 DEF Judge
    <2> DEFINE m == Decide(mem["review"], task["review"].n, v)
    <2>2. /\ m \in Record /\ m.next = mem["review"].next /\ m.written = mem["review"].written
          /\ m.reported = mem["review"].reported
          /\ m.judged[Len(m.judged)].verdict = v /\ Judged(mem["review"]) \subseteq Judged(m)
      <3>1. task["review"].n \in 1..ReviewCount
        BY <1>1, <1>15, TakenIsTyped DEF Judge
      <3> QED
        BY <1>1, <1>2, <3>1, DecideTyped
    <2>3. Save("review", m) /\ Goto("review", "unlock") /\ UNCHANGED task
      BY <1>15, <2>1 DEF Judge
    <2> HIDE DEF m
    <2>4. OnlyOf("review") /\ pc'["review"] = "unlock" /\ mem'["review"] = m /\ board' = m
      BY <1>1, <2>2, <2>3, SaveStep
    <2>5. Judges
      BY <1>15, <2>1, <2>2, <2>4 DEF Judge, Judges, DoesWork, Progress, EndsWithSaid
    <2> QED
      BY <2>5
  <1>16. CASE FinishReport
    <2> DEFINE m == [mem["review"] EXCEPT !.reported = TRUE]
    <2>1. /\ m \in Record /\ m.next = mem["review"].next /\ Progress(mem["review"], m)
          /\ m.judged = mem["review"].judged
      BY <1>1, <1>2, UpdatesAreTyped, UpdatesKeep
    <2>2. Save("review", m) /\ Goto("review", "exited") /\ UNCHANGED task
      BY <1>16 DEF FinishReport
    <2> HIDE DEF m
    <2>3. OnlyOf("review") /\ pc'["review"] = "exited" /\ mem'["review"] = m /\ board' = m
      BY <1>1, <2>1, <2>2, SaveStep
    <2>4. Reports
      BY <1>16, <2>1, <2>3, TasksAreTyped DEF FinishReport, Reports, DoesWork
    <2> QED
      BY <2>4
  <1>17. CASE UNCHANGED vars
    BY <1>17 DEF vars, Waits
  <1> QED
    BY <1>1, <1>3, <1>4, <1>5, <1>6, <1>7, <1>8, <1>9, <1>10, <1>11, <1>12, <1>13, <1>14,
       <1>15, <1>16, <1>17
    DEF Next, ControllerStep, CodeStep, ReviewStep, Shared

-----------------------------------------------------------------------------
(* Each part of the invariant, step by step.                               *)

LEMMA AgentsOnly ==
  /\ Agent = {"code", "review"} /\ "controller" \notin Agent
  /\ Agent \subseteq Process /\ "controller" \in Process
  BY DEF Agent, Process

LEMMA TaskTakenStep == IInv /\ [Next]_vars => TaskTaken'
  <1> SUFFICES ASSUME IInv, [Next]_vars PROVE TaskTaken'
    OBVIOUS
  <1> USE AgentsOnly DEF IInv, TaskTaken, Trailing
  <1>1. ASSUME NEW a \in Agent, Resaves(a) PROVE TaskTaken'
    BY <1>1 DEF Resaves, OnlyOf, SameWork
  <1>2. ASSUME NEW a \in Agent, Loads(a) PROVE TaskTaken'
    BY <1>2 DEF Loads, OnlyOf
  <1>3. ASSUME NEW a \in Agent, Drops(a) PROVE TaskTaken'
    BY <1>3 DEF Drops, OnlyOf
  <1>4. ASSUME NEW a \in Agent, Asks(a) PROVE TaskTaken'
    BY <1>4 DEF Asks, DoesWork, OnlyOf
  <1>5. CASE Writes
    BY <1>5 DEF Writes, DoesWork, OnlyOf
  <1>6. CASE Judges
    BY <1>6 DEF Judges, DoesWork, OnlyOf
  <1>7. CASE Reports
    BY <1>7 DEF Reports, DoesWork, OnlyOf
  <1>8. CASE Begins
    BY <1>8 DEF Begins, OnlyOf
  <1>9. CASE Ends
    BY <1>9 DEF Ends
  <1>10. CASE Waits
    BY <1>10 DEF Waits
  <1> QED
    BY <1>1, <1>2, <1>3, <1>4, <1>5, <1>6, <1>7, <1>8, <1>9, <1>10, StepKinds

LEMMA TaskInHandStep == IInv /\ [Next]_vars => TaskInHand'
  <1> SUFFICES ASSUME IInv, [Next]_vars PROVE TaskInHand'
    OBVIOUS
  <1> USE AgentsOnly DEF IInv, TaskInHand, TaskTaken, HasTurn, Live,
       Trailing, Addressed, Past, NoTask, Task, None
  <1>1. ASSUME NEW a \in Agent, Resaves(a) PROVE TaskInHand'
    BY <1>1 DEF Resaves, OnlyOf, SameWork
  <1>2. ASSUME NEW a \in Agent, Loads(a) PROVE TaskInHand'
    BY <1>2 DEF Loads, OnlyOf
  <1>3. ASSUME NEW a \in Agent, Drops(a) PROVE TaskInHand'
    BY <1>3 DEF Drops, OnlyOf
  <1>4. ASSUME NEW a \in Agent, Asks(a) PROVE TaskInHand'
    BY <1>4 DEF Asks, DoesWork, OnlyOf
  <1>5. CASE Writes
    BY <1>5 DEF Writes, DoesWork, OnlyOf
  <1>6. CASE Judges
    BY <1>6 DEF Judges, DoesWork, OnlyOf
  <1>7. CASE Reports
    BY <1>7 DEF Reports, DoesWork, OnlyOf
  <1>8. CASE Begins
    BY <1>8 DEF Begins, OnlyOf
  <1>9. CASE Ends
    BY <1>9 DEF Ends
  <1>10. CASE Waits
    BY <1>10 DEF Waits
  <1> QED
    BY <1>1, <1>2, <1>3, <1>4, <1>5, <1>6, <1>7, <1>8, <1>9, <1>10, StepKinds

LEMMA OneTurnStep == IInv /\ [Next]_vars => OneTurn'
  <1> SUFFICES ASSUME IInv, [Next]_vars PROVE OneTurn'
    OBVIOUS
  <1> USE AgentsOnly DEF IInv, OneTurn, TaskInHand, NotBegun, HasTurn, Live,
       Trailing, Addressed, Past, NoTask, Task, None
  <1>1. ASSUME NEW a \in Agent, Resaves(a) PROVE OneTurn'
    BY <1>1 DEF Resaves, OnlyOf, SameWork
  <1>2. ASSUME NEW a \in Agent, Loads(a) PROVE OneTurn'
    BY <1>2 DEF Loads, OnlyOf
  <1>3. ASSUME NEW a \in Agent, Drops(a) PROVE OneTurn'
    BY <1>3 DEF Drops, OnlyOf
  <1>4. ASSUME NEW a \in Agent, Asks(a) PROVE OneTurn'
    BY <1>4 DEF Asks, DoesWork, OnlyOf
  <1>5. CASE Writes
    BY <1>5 DEF Writes, DoesWork, OnlyOf
  <1>6. CASE Judges
    BY <1>6 DEF Judges, DoesWork, OnlyOf
  <1>7. CASE Reports
    BY <1>7 DEF Reports, DoesWork, OnlyOf
  <1>8. CASE Begins
    BY <1>8 DEF Begins, OnlyOf
  <1>9. CASE Ends
    BY <1>9 DEF Ends
  <1>10. CASE Waits
    BY <1>10 DEF Waits
  <1> QED
    BY <1>1, <1>2, <1>3, <1>4, <1>5, <1>6, <1>7, <1>8, <1>9, <1>10, StepKinds

LEMMA NotBegunStep == IInv /\ [Next]_vars => NotBegun'
  <1> SUFFICES ASSUME IInv, [Next]_vars PROVE NotBegun'
    OBVIOUS
  <1> USE AgentsOnly DEF IInv, NotBegun, Untouched, TaskInHand, HasTurn,
       Live, Trailing, Addressed, Past, NoTask, Task, None, Fresh
  <1>1. ASSUME NEW a \in Agent, Resaves(a) PROVE NotBegun'
    BY <1>1 DEF Resaves, OnlyOf, SameWork
  <1>2. ASSUME NEW a \in Agent, Loads(a) PROVE NotBegun'
    BY <1>2 DEF Loads, OnlyOf
  <1>3. ASSUME NEW a \in Agent, Drops(a) PROVE NotBegun'
    BY <1>3 DEF Drops, OnlyOf
  <1>4. ASSUME NEW a \in Agent, Asks(a) PROVE NotBegun'
    BY <1>4 DEF Asks, DoesWork, OnlyOf
  <1>5. CASE Writes
    BY <1>5 DEF Writes, DoesWork, OnlyOf
  <1>6. CASE Judges
    BY <1>6 DEF Judges, DoesWork, OnlyOf
  <1>7. CASE Reports
    BY <1>7 DEF Reports, DoesWork, OnlyOf
  <1>8. CASE Begins
    BY <1>8 DEF Begins, OnlyOf
  <1>9. CASE Ends
    BY <1>9 DEF Ends
  <1>10. CASE Waits
    BY <1>10 DEF Waits
  <1> QED
    BY <1>1, <1>2, <1>3, <1>4, <1>5, <1>6, <1>7, <1>8, <1>9, <1>10, StepKinds

LEMMA NothingPastReviewStep == IInv /\ [Next]_vars => NothingPastReview'
  <1> SUFFICES ASSUME IInv, [Next]_vars PROVE NothingPastReview'
    OBVIOUS
  <1> USE AgentsOnly DEF IInv, NothingPastReview, Reviewing, OneTurn,
       NotBegun, TaskInHand, HasTurn, Live, Trailing, Addressed, Past,
       NoTask, Task, None
  <1>1. ASSUME NEW a \in Agent, Resaves(a) PROVE NothingPastReview'
    BY <1>1 DEF Resaves, OnlyOf, SameWork
  <1>2. ASSUME NEW a \in Agent, Loads(a) PROVE NothingPastReview'
    BY <1>2 DEF Loads, OnlyOf
  <1>3. ASSUME NEW a \in Agent, Drops(a) PROVE NothingPastReview'
    BY <1>3 DEF Drops, OnlyOf
  <1>4. ASSUME NEW a \in Agent, Asks(a) PROVE NothingPastReview'
    BY <1>4 DEF Asks, DoesWork, OnlyOf
  <1>5. CASE Writes
    BY <1>5 DEF Writes, DoesWork, OnlyOf
  <1>6. CASE Judges
    BY <1>6 DEF Judges, DoesWork, OnlyOf
  <1>7. CASE Reports
    BY <1>7 DEF Reports, DoesWork, OnlyOf
  <1>8. CASE Begins
    BY <1>8 DEF Begins, OnlyOf
  <1>9. CASE Ends
    BY <1>9 DEF Ends
  <1>10. CASE Waits
    BY <1>10 DEF Waits
  <1> QED
    BY <1>1, <1>2, <1>3, <1>4, <1>5, <1>6, <1>7, <1>8, <1>9, <1>10, StepKinds

LEMMA VerdictIsKeptStep == IInv /\ [Next]_vars => VerdictIsKept'
  <1> SUFFICES ASSUME IInv, [Next]_vars PROVE VerdictIsKept'
    OBVIOUS
  <1> USE AgentsOnly DEF IInv, VerdictIsKept, EndsWithSaid,
       NothingPastReview, Reviewing, ReportIsTheEnd, NotBegun, Untouched,
       OneTurn, TaskInHand, HasTurn, Live, Trailing, Addressed, Past,
       NoTask, Task, None
  <1>1. ASSUME NEW a \in Agent, Resaves(a) PROVE VerdictIsKept'
    BY <1>1 DEF Resaves, OnlyOf, SameWork
  <1>2. ASSUME NEW a \in Agent, Loads(a) PROVE VerdictIsKept'
    BY <1>2 DEF Loads, OnlyOf
  <1>3. ASSUME NEW a \in Agent, Drops(a) PROVE VerdictIsKept'
    BY <1>3 DEF Drops, OnlyOf
  <1>4. ASSUME NEW a \in Agent, Asks(a) PROVE VerdictIsKept'
    BY <1>4 DEF Asks, DoesWork, OnlyOf
  <1>5. CASE Writes
    BY <1>5 DEF Writes, DoesWork, OnlyOf
  <1>6. CASE Judges
    BY <1>6 DEF Judges, DoesWork, OnlyOf
  <1>7. CASE Reports
    BY <1>7 DEF Reports, DoesWork, OnlyOf
  <1>8. CASE Begins
    BY <1>8 DEF Begins, OnlyOf
  <1>9. CASE Ends
    BY <1>9 DEF Ends
  <1>10. CASE Waits
    BY <1>10 DEF Waits
  <1> QED
    BY <1>1, <1>2, <1>3, <1>4, <1>5, <1>6, <1>7, <1>8, <1>9, <1>10, StepKinds

(* A verdict that ends the reported loop is that of its last review.       *)
LEMMA OutcomeIsSaid ==
  ASSUME TypeOK, board.reported, EndsWithSaid(board), said # "blocked",
         Outcome(board) \in {"approved", "changes_requested"}
  PROVE  Outcome(board) = said
  <1>1. board \in Record /\ said \in Verdict \cup {None}
    BY DEF TypeOK
  <1>2. Done(board) # {} /\ Outcome(board) = board.judged[Max(Done(board))].verdict
    BY DEF Outcome
  <1> DEFINE last == Len(board.judged)
  <1>3. last \in Nat /\ DOMAIN board.judged = 1..last
    BY <1>1 DEF Record
  <1>4. Max(Done(board)) \in 1..last /\ \A i \in Done(board) : Max(Done(board)) >= i
    BY <1>1, <1>2, <1>3, LastDone
  <1>5. board.judged # <<>> /\ last \in 1..last
    BY <1>3, <1>4
  <1>6. board.judged[last].verdict = said
    BY <1>5 DEF EndsWithSaid
  <1>7. last \in Done(board)
    BY <1>3, <1>5, <1>6 DEF Done
  <1>8. Max(Done(board)) = last
    BY <1>3, <1>4, <1>7
  <1> QED
    BY <1>2, <1>6, <1>8

LEMMA ReportIsTheEndStep == IInv /\ [Next]_vars => ReportIsTheEnd'
  <1> SUFFICES ASSUME IInv, [Next]_vars PROVE ReportIsTheEnd'
    OBVIOUS
  <1> USE AgentsOnly DEF IInv, ReportIsTheEnd, VerdictIsKept, EndsWithSaid,
       NotBegun, Untouched, TaskInHand, HasTurn, Live, Trailing, Addressed,
       Past
  <1>1. ASSUME NEW a \in Agent, Resaves(a) PROVE ReportIsTheEnd'
    BY <1>1 DEF Resaves, OnlyOf, SameWork
  <1>2. ASSUME NEW a \in Agent, Loads(a) PROVE ReportIsTheEnd'
    BY <1>2 DEF Loads, OnlyOf
  <1>3. ASSUME NEW a \in Agent, Drops(a) PROVE ReportIsTheEnd'
    BY <1>3 DEF Drops, OnlyOf
  <1>4. ASSUME NEW a \in Agent, Asks(a) PROVE ReportIsTheEnd'
    BY <1>4 DEF Asks, DoesWork, OnlyOf
  <1>5. CASE Writes
    BY <1>5 DEF Writes, DoesWork, OnlyOf
  <1>6. CASE Judges
    BY <1>6 DEF Judges, DoesWork, OnlyOf
  <1>7. CASE Reports
    BY <1>7 DEF Reports, DoesWork, OnlyOf
  <1>8. CASE Begins
    BY <1>8 DEF Begins, OnlyOf
  <1>9. CASE Ends
    <2>1. board.reported => EndsWithSaid(board)
      BY DEF IInv, VerdictIsKept
    <2>2. outcome' \in {"approved", "changes_requested"} => board.reported
      BY <1>9 DEF Ends, Outcome, None
    <2>3. outcome' \in {"approved", "changes_requested"} => outcome' = said' \/ said' = "blocked"
      BY <1>9, <2>1, <2>2, OutcomeIsSaid DEF Ends, IInv
    <2> QED
      BY <1>9, <2>2, <2>3 DEF IInv, ReportIsTheEnd, Ends, Live
  <1>10. CASE Waits
    BY <1>10 DEF Waits
  <1> QED
    BY <1>1, <1>2, <1>3, <1>4, <1>5, <1>6, <1>7, <1>8, <1>9, <1>10, StepKinds

LEMMA ProgressIsOrder ==
  /\ \A m, n, o : Progress(m, n) /\ Progress(n, o) => Progress(m, o)
  /\ \A m, n : SameWork(m, n) => Progress(m, n) /\ Progress(n, m)
  /\ \A m, n : Untouched(m) => Progress(m, n)
  /\ \A m : Progress(m, m)
  <1>1. \A m, n, o : Progress(m, n) /\ Progress(n, o) => Progress(m, o)
    BY DEF Progress
  <1>2. ASSUME NEW m, NEW n, SameWork(m, n) PROVE Progress(m, n) /\ Progress(n, m)
    <2>1. Judged(m) = Judged(n)
      BY <1>2 DEF Judged, SameWork
    <2> QED
      BY <1>2, <2>1 DEF Progress, SameWork
  <1>3. ASSUME NEW m, NEW n, Untouched(m) PROVE Progress(m, n)
    <2>1. Judged(m) = {}
      BY <1>3 DEF Judged, Untouched
    <2> QED
      BY <1>3, <2>1 DEF Progress, Untouched
  <1>4. \A m : Progress(m, m)
    BY DEF Progress
  <1> QED
    BY <1>1, <1>2, <1>3, <1>4

LEMMA TurnIsNewestStep == IInv /\ [Next]_vars => TurnIsNewest'
  <1> SUFFICES ASSUME IInv, [Next]_vars PROVE TurnIsNewest'
    OBVIOUS
  <1> USE AgentsOnly, ProgressIsOrder DEF IInv, TurnIsNewest, OneTurn,
       NotBegun, TaskInHand, HasTurn, Live, Trailing, Addressed, Past,
       NoTask, Task, None
  <1>1. ASSUME NEW a \in Agent, Resaves(a) PROVE TurnIsNewest'
    <2>1. /\ Progress(mem[a], mem'[a]) /\ Progress(mem'[a], mem[a])
          /\ mem'[a].next = mem[a].next
      BY <1>1 DEF Resaves, SameWork
    <2> QED
      BY <1>1, <2>1 DEF Resaves, OnlyOf
  <1>2. ASSUME NEW a \in Agent, Loads(a) PROVE TurnIsNewest'
    BY <1>2 DEF Loads, OnlyOf
  <1>3. ASSUME NEW a \in Agent, Drops(a) PROVE TurnIsNewest'
    BY <1>3 DEF Drops, OnlyOf
  <1>4. ASSUME NEW a \in Agent, Asks(a) PROVE TurnIsNewest'
    BY <1>4 DEF Asks, DoesWork, OnlyOf
  <1>5. CASE Writes
    BY <1>5 DEF Writes, DoesWork, OnlyOf
  <1>6. CASE Judges
    BY <1>6 DEF Judges, DoesWork, OnlyOf
  <1>7. CASE Reports
    BY <1>7 DEF Reports, DoesWork, OnlyOf
  <1>8. CASE Begins
    BY <1>8 DEF Begins, OnlyOf
  <1>9. CASE Ends
    BY <1>9 DEF Ends
  <1>10. CASE Waits
    BY <1>10 DEF Waits
  <1> QED
    BY <1>1, <1>2, <1>3, <1>4, <1>5, <1>6, <1>7, <1>8, <1>9, <1>10, StepKinds

-----------------------------------------------------------------------------
(* The theorems.                                                           *)

LEMMA IInvInit == Init => IInv
  <1> SUFFICES ASSUME Init PROVE IInv
    OBVIOUS
  <1> USE AgentsOnly, FreshIsTyped DEF Init
  <1>1. TypeOK
    <2>1. board \in Record /\ mem \in [Process -> Record]
      OBVIOUS
    <2>2. /\ pc \in [Process -> AgentPC \cup ControllerPC]
          /\ pc["controller"] \in ControllerPC /\ \A a \in Agent : pc[a] \in AgentPC
      BY PlacesAreTyped
    <2>3. /\ task \in [Agent -> Tasks \cup {NoTask}]
          /\ outcome \in Verdict \cup {None, "crashed"} /\ said \in Verdict \cup {None}
          /\ lost \in BOOLEAN
      OBVIOUS
    <2>4. crashes \in 0..MaxCrashes
      BY LoopAssumption
    <2> QED
      BY <2>1, <2>2, <2>3, <2>4 DEF TypeOK
  <1>2. \A a \in Agent : pc[a] = "off" /\ ~Live(a) /\ ~HasTurn(a)
    BY DEF Live, HasTurn, Trailing
  <1>3. TaskTaken /\ TaskInHand
    BY <1>2 DEF TaskTaken, TaskInHand, Trailing
  <1>4. \A a \in Agent : ~Addressed(a, NoTask)
    BY TasksAreTyped DEF Addressed, None
  <1>5. OneTurn /\ NotBegun /\ TurnIsNewest
    BY <1>2, <1>4 DEF OneTurn, NotBegun, TurnIsNewest
  <1>6. NothingPastReview /\ VerdictIsKept /\ ReportIsTheEnd
    BY <1>2, TasksAreTyped
    DEF NothingPastReview, Reviewing, Past, VerdictIsKept, ReportIsTheEnd, Untouched,
        Trailing, None
  <1> QED
    BY <1>1, <1>3, <1>5, <1>6 DEF IInv

LEMMA IInvStep == IInv /\ [Next]_vars => IInv'
  BY TypeStep, TaskTakenStep, TaskInHandStep, OneTurnStep, NotBegunStep, TurnIsNewestStep,
     NothingPastReviewStep, VerdictIsKeptStep, ReportIsTheEndStep DEF IInv

(* The next action is a token: no two copies that may still be saved give  *)
(* the turn to both agents (loop-code-agent.ts:45-117).                    *)
THEOREM Invariance == Spec => []IInv
  BY IInvInit, IInvStep, PTL DEF Spec

(* The record and its copies are what the steps of the loop take them for, *)
(* an agent never takes a task of the other one (loop-code-agent.ts:62-69, *)
(* loop-review-agent.ts:259-271).                                          *)
THEOREM TypeCorrect == Spec => [](TypeOK /\ TaskTaken)
  BY Invariance, PTL DEF IInv

(* For any number of writes, reviews and restarts, the code agent never    *)
(* writes while a review is under way: an agent at work has a copy with    *)
(* its own task in it, and two copies never give the turn to both.         *)
THEOREM AgentsTakeTurns == Spec => []TakeTurns
  <1>1. IInv => TakeTurns
    BY AgentsOnly DEF IInv, TaskInHand, OneTurn, TakeTurns, Works
  <1> QED
    BY <1>1, Invariance, PTL

(* For any number of them, the verdict the controller reports is that of   *)
(* the last review, or that was to block.                                  *)
THEOREM VerdictStands == Spec => []LastVerdictStands
  <1>1. IInv => LastVerdictStands
    BY DEF IInv, ReportIsTheEnd, LastVerdictStands
  <1> QED
    BY <1>1, Invariance, PTL

(* The copy of an agent at work is newer than the file.                    *)
LEMMA WorkKeepsProgress ==
  ASSUME IInv, [Next]_vars
  PROVE  \/ Progress(board, board')
         \/ \E a \in Agent : pc[a] \in {"register", "settle"} /\ pc'[a] # pc[a]
         \/ pc["code"] \in Trailing \cup {"leave"} /\ pc'["code"] # pc["code"]
  <1> USE AgentsOnly, ProgressIsOrder
  <1> DEFINE Kept == Progress(board, board')
             Late == \/ \E a \in Agent : pc[a] \in {"register", "settle"} /\ pc'[a] # pc[a]
                     \/ pc["code"] \in Trailing \cup {"leave"} /\ pc'["code"] # pc["code"]
  <1>1. ASSUME NEW a \in Agent, Resaves(a) PROVE Kept \/ Late
    <2>1. CASE pc[a] \in {"register", "settle"}
      BY <1>1, <2>1 DEF Resaves
    <2>2. CASE a = "code" /\ pc[a] \in Trailing \cup {"leave"}
      BY <1>1, <2>2 DEF Resaves, Trailing
    <2>3. CASE HasTurn(a)
      <3>1. Progress(board, mem[a]) /\ Progress(mem[a], mem'[a])
        BY <1>1, <2>3 DEF IInv, TurnIsNewest, Resaves
      <3> QED
        BY <1>1, <3>1 DEF Resaves
    <2>4. pc[a] \in {"claim", "mark"} => HasTurn(a)
      BY DEF IInv, TaskInHand
    <2>5. a = "review" /\ pc[a] \in Trailing => HasTurn(a)
      BY DEF IInv, TaskInHand, HasTurn, Live, Addressed
    <2>6. ~(a = "review" /\ pc[a] = "leave")
      BY DEF IInv, TaskInHand
    <2> QED
      BY <1>1, <2>1, <2>2, <2>3, <2>4, <2>5, <2>6 DEF Resaves, Trailing
  <1>2. ASSUME NEW a \in Agent, Loads(a) \/ Drops(a) PROVE Kept
    BY <1>2 DEF Loads, Drops
  <1>3. ASSUME NEW a \in Agent, HasTurn(a), Progress(mem[a], mem'[a]), board' = mem'[a] PROVE Kept
    BY <1>3 DEF IInv, TurnIsNewest
  <1>4. ASSUME NEW a \in Agent, Asks(a) PROVE Kept
    BY <1>3, <1>4 DEF Asks, DoesWork, IInv, TaskInHand, HasTurn, Live, Addressed
  <1>5. CASE Writes \/ Judges \/ Reports
    BY <1>3, <1>5 DEF Writes, Judges, Reports, DoesWork, IInv, TaskInHand
  <1>6. CASE Begins
    BY <1>6 DEF Begins, IInv, NotBegun
  <1>7. CASE Ends \/ Waits
    BY <1>7 DEF Ends, Waits
  <1> QED
    BY <1>1, <1>2, <1>4, <1>5, <1>6, <1>7, StepKinds DEF IInv

(* The file is torn by nothing but the death of an agent that saves.       *)
LEMMA OnlyDeathTears ==
  ASSUME TypeOK, [Next]_vars
  PROVE  (torn' => torn) \/ \E a \in Agent : Saving(a) /\ pc'[a] = "off"
  <1>1. \A p, m : Save(p, m) => ~torn'
    BY DEF Save
  <1>2. \A a : SaveStatus(a) => (torn' => torn)
    BY <1>1 DEF SaveStatus
  <1>3. CASE ControllerStep
    BY <1>1, <1>3 DEF ControllerStep, WriteConfig, FirstAction, Monitor
  <1>4. ASSUME NEW a \in Agent, Shared(a) PROVE torn' => torn
    BY <1>1, <1>2, <1>4 DEF Shared, Register, Settle, PollExit, PollTask, Claim, Mark,
         Unlock, WriteReport, Rest, Leave
  <1>5. CASE WriteDone \/ NextOfCode \/ Judge \/ NextOfReview \/ FinishReport
    BY <1>1, <1>5 DEF WriteDone, NextOfCode, Judge, NextOfReview, FinishReport
  <1>6. ASSUME NEW a \in Agent, Start(a) PROVE torn' => torn
    BY <1>6 DEF Start
  <1>7. ASSUME NEW a \in Agent, Crash(a)
        PROVE  (torn' => torn) \/ (Saving(a) /\ pc'[a] = "off")
    <2>1. a \in DOMAIN pc
      BY DEF TypeOK, Process
    <2> QED
      BY <1>7, <2>1 DEF Crash, Goto
  <1>8. CASE UNCHANGED vars
    BY <1>8 DEF vars
  <1> QED
    BY <1>3, <1>4, <1>5, <1>6, <1>7, <1>8 DEF Next, CodeStep, ReviewStep, Agent

(* For any number of them, progress in the file is only ever taken back by *)
(* a registration, a trailing save of the code agent or a death inside a   *)
(* save (cli.ts:70-76); a save over the torn file puts it back.            *)
THEOREM LateSavesTakeBack == Spec => OnlyLateSavesTakeBack
  <1>1. IInv /\ [Next]_vars =>
          [ \/ Progress(board, board') /\ (torn' => torn)
            \/ \E a \in Agent : pc[a] \in {"register", "settle"} /\ pc'[a] # pc[a]
            \/ pc["code"] \in Trailing \cup {"leave"} /\ pc'["code"] # pc["code"]
            \/ \E a \in Agent : Saving(a) /\ pc'[a] = "off" ]_vars
    BY WorkKeepsProgress, OnlyDeathTears DEF IInv
  <1> QED
    BY <1>1, Invariance, PTL DEF Spec, OnlyLateSavesTakeBack

-----------------------------------------------------------------------------
(* What brings a loop to its end.  As long as no save was lost the file is *)
(* the one record, and every save changes it as it is.                     *)

(* The agent is between the claim of its task and its release.             *)
Holding(a) == pc[a] \in {"mark", "work", "unlock"} \/ (a = "code" /\ pc[a] = "next")

LocksAreHeld ==
  ~lost => \A a \in Agent :
             <<task[a], a>> \in board.locks => Holding(a) \/ board.reported

AlwaysAsked ==
  ~lost /\ pc["controller"] \notin {"config", "action"} => board.next \in Tasks

ReportIsLast == ~lost /\ board.reported => board.next = Report

EndHasOutcome == pc["controller"] = "ended" => outcome # None

OwnTask == \A a \in Agent : task[a] = NoTask \/ Addressed(a, task[a])

LosslessInv ==
  LocksAreHeld /\ AlwaysAsked /\ ReportIsLast /\ EndHasOutcome /\ OwnTask

LEMMA LosslessSave ==
  ASSUME TypeOK, NEW p \in Process, NEW m, Save(p, m), ~lost'
  PROVE  ~lost /\ board = mem[p] /\ board' = m
  BY DEF TypeOK, Save

LEMMA LosslessStatus ==
  ASSUME TypeOK, NEW a \in Agent, SaveStatus(a), ~lost'
  PROVE  ~lost /\ board' = board
  <1>1. CASE a \in mem[a].agents
    BY <1>1, AgentsOnly, LosslessSave DEF SaveStatus
  <1>2. CASE a \notin mem[a].agents
    BY <1>2 DEF SaveStatus
  <1> QED
    BY <1>1, <1>2

(* Only p moves, from one place to another.                                *)
Moves(p, from, to) ==
  /\ pc[p] = from /\ pc'[p] = to
  /\ \A q \in Process \ {p} : pc'[q] = pc[q]

LEMMA GotoMoves ==
  ASSUME TypeOK, NEW p \in Process, NEW from, NEW to, pc[p] = from, Goto(p, to)
  PROVE  Moves(p, from, to)
  BY GotoIsTyped DEF Moves

(* The steps of an agent that leave the work as it is.                     *)
Passes(a) ==
  \/ Moves(a, "register", "settle")
  \/ Moves(a, "settle", "idle")
  \/ Moves(a, "mark", "work")
  \/ Moves(a, "tell", "rest")
  \/ a = "code" /\ Moves(a, "rest", "idle")
  \/ a = "review" /\ Moves(a, "rest", "next")
  \/ Moves(a, "leave", "exited")

LEMMA LosslessPasses ==
  ASSUME TypeOK, ~lost', NEW a \in Agent,
         Register(a) \/ Settle(a) \/ Mark(a) \/ WriteReport(a) \/ Rest(a) \/ Leave(a)
  PROVE  /\ ~lost /\ UNCHANGED <<task, outcome>> /\ Passes(a)
         /\ SameWork(board, board') /\ board'.locks = board.locks
  <1>1. a \in Process /\ board \in Record /\ (a = "code" \/ a = "review")
    BY AgentsOnly DEF TypeOK
  <1>2. CASE Register(a)
    <2>1. ~lost /\ board' = [board EXCEPT !.agents = @ \cup {a}]
      BY <1>1, <1>2, LosslessSave DEF Register
    <2>2. SameWork(board, board') /\ board'.locks = board.locks
      BY <1>1, <2>1 DEF Record, SameWork
    <2> QED
      BY <1>1, <1>2, <2>1, <2>2, GotoMoves DEF Register, Passes
  <1>3. CASE WriteReport(a)
    <2>1. ~lost /\ board' = board
      BY <1>1, <1>3, LosslessSave DEF WriteReport
    <2> QED
      BY <1>1, <1>3, <2>1, GotoMoves DEF WriteReport, Passes, SameWork
  <1>4. CASE Settle(a) \/ Mark(a) \/ Rest(a) \/ Leave(a)
    <2>1. ~lost /\ board' = board
      BY <1>4, LosslessStatus DEF Settle, Mark, Rest, Leave
    <2> QED
      BY <1>1, <1>4, <2>1, GotoMoves DEF Settle, Mark, Rest, Leave, Passes, SameWork
  <1> QED
    BY <1>2, <1>3, <1>4

LEMMA LosslessLocks ==
  ASSUME TypeOK, ~lost', NEW a \in Agent
  PROVE  /\ Claim(a) =>
              /\ ~lost /\ UNCHANGED <<task, outcome>> /\ Moves(a, "claim", "mark")
              /\ SameWork(board, board') /\ board'.locks = board.locks \cup {<<task[a], a>>}
         /\ Unlock(a) =>
              /\ ~lost /\ UNCHANGED <<task, outcome>> /\ Moves(a, "unlock", "tell")
              /\ SameWork(board, board') /\ board'.locks = board.locks \ {<<task[a], a>>}
  <1>1. a \in Process /\ board \in Record
    BY AgentsOnly DEF TypeOK
  <1> DEFINE l == <<task[a], a>>
  <1>2. ASSUME Claim(a)
        PROVE  /\ ~lost /\ UNCHANGED <<task, outcome>> /\ Moves(a, "claim", "mark")
               /\ SameWork(board, board') /\ board'.locks = board.locks \cup {l}
    <2>1. ~lost /\ board' = [board EXCEPT !.locks = @ \cup {l}]
      BY <1>1, <1>2, LosslessSave DEF Claim
    <2> HIDE DEF l
    <2>2. SameWork(board, board') /\ board'.locks = board.locks \cup {l}
      BY <1>1, <2>1 DEF Record, SameWork
    <2> QED
      BY <1>1, <1>2, <2>1, <2>2, GotoMoves DEF Claim
  <1>3. ASSUME Unlock(a)
        PROVE  /\ ~lost /\ UNCHANGED <<task, outcome>> /\ Moves(a, "unlock", "tell")
               /\ SameWork(board, board') /\ board'.locks = board.locks \ {l}
    <2>1. ~lost /\ board' = [board EXCEPT !.locks = @ \ {l}]
      BY <1>1, <1>3, LosslessSave DEF Unlock
    <2> HIDE DEF l
    <2>2. SameWork(board, board') /\ board'.locks = board.locks \ {l}
      BY <1>1, <2>1 DEF Record, SameWork
    <2> QED
      BY <1>1, <1>3, <2>1, <2>2, GotoMoves DEF Unlock
  <1> QED
    BY <1>2, <1>3

(* The steps of the work itself, on the file as it is.                     *)
LEMMA LosslessWork ==
  ASSUME TypeOK, ~lost'
  PROVE  /\ WriteDone =>
              /\ ~lost /\ UNCHANGED <<task, outcome>> /\ Moves("code", "work", "next")
              /\ board = mem["code"]
              /\ board' = [board EXCEPT !.written = @ \cup {task["code"].n}]
         /\ NextOfCode =>
              /\ ~lost /\ UNCHANGED <<task, outcome>> /\ Moves("code", "next", "unlock")
              /\ board = mem["code"]
              /\ board' = [board EXCEPT !.next = AfterWrite(board, task["code"].n)]
         /\ Judge =>
              /\ ~lost /\ UNCHANGED <<task, outcome>> /\ Moves("review", "work", "unlock")
              /\ task["review"].kind = "review"
              /\ board = mem["review"]
              /\ \E v \in Verdict : board' = Decide(board, task["review"].n, v)
         /\ NextOfReview =>
              /\ ~lost /\ UNCHANGED <<task, outcome>> /\ Moves("review", "next", "idle")
              /\ board = mem["review"]
              /\ board' = [board EXCEPT !.next = AfterReview(board, task["review"].n)]
         /\ FinishReport =>
              /\ ~lost /\ UNCHANGED <<task, outcome>> /\ Moves("review", "work", "exited")
              /\ task["review"] = Report
              /\ board = mem["review"]
              /\ board' = [board EXCEPT !.reported = TRUE]
  <1>1. "code" \in Process /\ "review" \in Process
    BY AgentsOnly
  <1>2. WriteDone =>
              /\ ~lost /\ UNCHANGED <<task, outcome>> /\ Moves("code", "work", "next")
              /\ board = mem["code"]
              /\ board' = [board EXCEPT !.written = @ \cup {task["code"].n}]
    BY <1>1, LosslessSave, GotoMoves DEF WriteDone
  <1>3. NextOfCode =>
              /\ ~lost /\ UNCHANGED <<task, outcome>> /\ Moves("code", "next", "unlock")
              /\ board = mem["code"]
              /\ board' = [board EXCEPT !.next = AfterWrite(board, task["code"].n)]
    BY <1>1, LosslessSave, GotoMoves DEF NextOfCode
  <1>4. Judge =>
              /\ ~lost /\ UNCHANGED <<task, outcome>> /\ Moves("review", "work", "unlock")
              /\ task["review"].kind = "review"
              /\ board = mem["review"]
              /\ \E v \in Verdict : board' = Decide(board, task["review"].n, v)
    BY <1>1, LosslessSave, GotoMoves DEF Judge
  <1>5. NextOfReview =>
              /\ ~lost /\ UNCHANGED <<task, outcome>> /\ Moves("review", "next", "idle")
              /\ board = mem["review"]
              /\ board' = [board EXCEPT !.next = AfterReview(board, task["review"].n)]
    BY <1>1, LosslessSave, GotoMoves DEF NextOfReview
  <1>6. FinishReport =>
              /\ ~lost /\ UNCHANGED <<task, outcome>> /\ Moves("review", "work", "exited")
              /\ task["review"] = Report
              /\ board = mem["review"]
              /\ board' = [board EXCEPT !.reported = TRUE]
    BY <1>1, LosslessSave, GotoMoves DEF FinishReport
  <1> QED
    BY <1>2, <1>3, <1>4, <1>5, <1>6

LEMMA WorkKeepsLocks ==
  ASSUME TypeOK, TaskTaken, ~lost', WriteDone \/ NextOfCode \/ Judge \/ NextOfReview \/ FinishReport
  PROVE  board'.locks = board.locks /\ (board.reported => board'.reported)
  <1>1. board \in Record
    BY DEF TypeOK
  <1>2. CASE WriteDone
    BY <1>1, <1>2, LosslessWork DEF Record
  <1>3. CASE NextOfCode
    BY <1>1, <1>3, LosslessWork DEF Record
  <1>4. CASE NextOfReview
    BY <1>1, <1>4, LosslessWork DEF Record
  <1>5. CASE FinishReport
    BY <1>1, <1>5, LosslessWork DEF Record
  <1>6. CASE Judge
    <2>1. task["review"].n \in 1..ReviewCount
      BY <1>6, AgentsOnly, TakenIsTyped DEF Judge
    <2> QED
      BY <1>1, <1>6, <2>1, LosslessWork, DecideTyped
  <1> QED
    BY <1>2, <1>3, <1>4, <1>5, <1>6

(* A step of a alone keeps the locks held if a's own one is.               *)
LEMMA HeldStep ==
  ASSUME LocksAreHeld, ~lost, NEW a \in Agent,
         \A q \in Process \ {a} : pc'[q] = pc[q],
         \A b \in Agent \ {a} : /\ task'[b] = task[b]
                                /\ <<task[b], b>> \in board'.locks => <<task[b], b>> \in board.locks,
         board.reported => board'.reported,
         <<task'[a], a>> \in board'.locks => Holding(a)' \/ board'.reported
  PROVE  LocksAreHeld'
  BY AgentsOnly DEF LocksAreHeld, Holding

LEMMA LocksAreHeldStep ==
  ASSUME TypeOK, TaskTaken, LocksAreHeld, [Next]_vars
  PROVE  LocksAreHeld'
  <1> SUFFICES ASSUME ~lost' PROVE LocksAreHeld'
    BY DEF LocksAreHeld
  <1> USE AgentsOnly
  <1>1. board \in Record
    BY DEF TypeOK
  <1>2. ASSUME NEW a \in Agent,
               Register(a) \/ Settle(a) \/ Mark(a) \/ WriteReport(a) \/ Rest(a) \/ Leave(a)
        PROVE  LocksAreHeld'
    <2>1. /\ ~lost /\ UNCHANGED task /\ Passes(a)
          /\ board'.locks = board.locks /\ board'.reported = board.reported
      BY <1>2, LosslessPasses DEF SameWork
    <2>2. Holding(a)' \/ ~Holding(a)
      BY <2>1 DEF Passes, Moves, Holding
    <2>3. \A q \in Process \ {a} : pc'[q] = pc[q]
      BY <2>1 DEF Passes, Moves
    <2>4. <<task[a], a>> \in board.locks => Holding(a) \/ board.reported
      BY <2>1 DEF LocksAreHeld
    <2> QED
      BY <2>1, <2>2, <2>3, <2>4, HeldStep
  <1>3. ASSUME NEW a \in Agent, Claim(a) PROVE LocksAreHeld'
    <2>1. /\ ~lost /\ UNCHANGED task /\ Moves(a, "claim", "mark")
          /\ board'.locks = board.locks \cup {<<task[a], a>>}
          /\ board'.reported = board.reported
      BY <1>3, LosslessLocks DEF SameWork
    <2>2. Holding(a)'
      BY <2>1 DEF Moves, Holding
    <2>3. \A b \in Agent \ {a} : <<task[b], b>> \in board'.locks => <<task[b], b>> \in board.locks
      BY <2>1
    <2> QED
      BY <2>1, <2>2, <2>3, HeldStep DEF Moves
  <1>4. ASSUME NEW a \in Agent, Unlock(a) PROVE LocksAreHeld'
    <2>1. /\ ~lost /\ UNCHANGED task /\ Moves(a, "unlock", "tell")
          /\ board'.locks = board.locks \ {<<task[a], a>>}
          /\ board'.reported = board.reported
      BY <1>4, LosslessLocks DEF SameWork
    <2> QED
      BY <2>1, HeldStep DEF Moves
  <1>5. CASE WriteDone \/ NextOfCode
    <2>1. /\ ~lost /\ UNCHANGED task
          /\ Moves("code", "work", "next") \/ Moves("code", "next", "unlock")
      BY <1>5, LosslessWork
    <2>2. Holding("code")'
      BY <2>1 DEF Moves, Holding
    <2> QED
      BY <1>5, <2>1, <2>2, WorkKeepsLocks, HeldStep DEF Moves
  <1>6. CASE Judge
    <2>1. ~lost /\ UNCHANGED task /\ Moves("review", "work", "unlock")
      BY <1>6, LosslessWork
    <2>2. Holding("review")'
      BY <2>1 DEF Moves, Holding
    <2> QED
      BY <1>6, <2>1, <2>2, WorkKeepsLocks, HeldStep DEF Moves
  <1>7. CASE NextOfReview
    <2>1. ~lost /\ UNCHANGED task /\ Moves("review", "next", "idle")
      BY <1>7, LosslessWork
    <2>2. ~Holding("review")
      BY <2>1 DEF Moves, Holding
    <2>3. <<task["review"], "review">> \in board.locks => board.reported
      BY <2>1, <2>2 DEF LocksAreHeld
    <2> QED
      BY <1>7, <2>1, <2>3, WorkKeepsLocks, HeldStep DEF Moves
  <1>8. CASE FinishReport
    <2>1. /\ ~lost /\ UNCHANGED task /\ Moves("review", "work", "exited")
          /\ board' = [board EXCEPT !.reported = TRUE]
      BY <1>8, LosslessWork
    <2>2. board'.reported
      BY <1>1, <2>1 DEF Record
    <2> QED
      BY <1>8, <2>1, <2>2, WorkKeepsLocks, HeldStep DEF Moves
  <1>9. ASSUME NEW a \in Agent, Start(a) \/ PollExit(a) PROVE LocksAreHeld'
    <2>1. /\ ~lost /\ UNCHANGED <<board, task>> /\ ~Holding(a)
          /\ \A q \in Process \ {a} : pc'[q] = pc[q]
      BY <1>9, GotoIsTyped DEF Start, PollExit, Holding
    <2> QED
      BY <2>1, HeldStep DEF LocksAreHeld
  <1>10. ASSUME NEW a \in Agent, PollTask(a) PROVE LocksAreHeld'
    <2>1. /\ ~lost /\ UNCHANGED board /\ <<board.next, a>> \notin board.locks
          /\ \A q \in Process \ {a} : pc'[q] = pc[q]
      BY <1>10, GotoIsTyped DEF PollTask, Locked
    <2>2. task'[a] = board.next /\ \A b \in Agent \ {a} : task'[b] = task[b]
      BY <1>10 DEF PollTask, TypeOK
    <2> QED
      BY <2>1, <2>2, HeldStep
  <1>11. ASSUME NEW a \in Agent, Crash(a) PROVE LocksAreHeld'
    <2>1. /\ ~lost /\ UNCHANGED board /\ \A q \in Process \ {a} : pc'[q] = pc[q]
      BY <1>11, GotoIsTyped DEF Crash
    <2>2. task'[a] = NoTask /\ \A b \in Agent \ {a} : task'[b] = task[b]
      BY <1>11 DEF Crash, TypeOK
    <2>3. <<NoTask, a>> \notin board.locks
      BY <1>1, TasksAreTyped DEF Record
    <2> QED
      BY <2>1, <2>2, <2>3, HeldStep
  <1>12. CASE FirstAction
    <2>1. ~lost /\ board' = [board EXCEPT !.next = Task("write", 1)]
      BY <1>12, LosslessSave DEF FirstAction
    <2>2. board'.locks = board.locks /\ board'.reported = board.reported
      BY <1>1, <2>1 DEF Record
    <2>3. UNCHANGED task /\ \A a \in Agent : pc'[a] = pc[a]
      BY <1>12, GotoIsTyped DEF FirstAction
    <2> QED
      BY <2>1, <2>2, <2>3 DEF LocksAreHeld, Holding
  <1>13. CASE WriteConfig \/ Monitor
    <2>1. ~lost /\ UNCHANGED <<board, task>> /\ \A a \in Agent : pc'[a] = pc[a]
      BY <1>13, GotoIsTyped DEF WriteConfig, Monitor
    <2> QED
      BY <2>1 DEF LocksAreHeld, Holding
  <1>14. CASE UNCHANGED vars
    BY <1>14 DEF vars, LocksAreHeld, Holding
  <1> QED
    BY <1>2, <1>3, <1>4, <1>5, <1>6, <1>7, <1>8, <1>9, <1>10, <1>11, <1>12, <1>13, <1>14
    DEF Next, ControllerStep, CodeStep, ReviewStep, Shared

(* Nobody goes on asking once the report is there.                         *)
LEMMA NothingAskedAfterReport ==
  ASSUME IInv, ReportIsLast, ~lost', NextOfCode \/ NextOfReview
  PROVE  ~board.reported
  <1> USE AgentsOnly
  <1>1. TypeOK
    BY DEF IInv
  <1>2. CASE NextOfCode
    <2>1. ~lost /\ pc["code"] = "next" /\ board = mem["code"]
      BY <1>1, <1>2, LosslessWork DEF Moves
    <2>2. Addressed("code", board.next)
      BY <2>1 DEF IInv, TaskInHand, HasTurn
    <2> QED
      BY <2>1, <2>2, TasksAreTyped DEF ReportIsLast, Addressed
  <1>3. CASE NextOfReview
    <2>1. ~lost /\ pc["review"] = "next" /\ board = mem["review"]
      BY <1>1, <1>3, LosslessWork DEF Moves
    <2>2. board.next.kind = "review"
      BY <2>1 DEF IInv, TaskInHand
    <2> QED
      BY <2>1, <2>2, TasksAreTyped DEF ReportIsLast
  <1> QED
    BY <1>2, <1>3

(* What has been asked for stays a task, and the report the last one.      *)
LEMMA NextIsKept ==
  ASSUME IInv, AlwaysAsked, ReportIsLast, [Next]_vars
  PROVE  AlwaysAsked' /\ ReportIsLast'
  <1> SUFFICES ASSUME ~lost' PROVE AlwaysAsked' /\ ReportIsLast'
    BY DEF AlwaysAsked, ReportIsLast
  <1> USE AgentsOnly
  <1>1. TypeOK /\ TaskTaken /\ board \in Record
    BY DEF IInv, TypeOK
  <1>2. ASSUME ~lost, board'.next = board.next, board'.reported = board.reported,
               pc'["controller"] \in {"config", "action"} \/ pc["controller"] \notin {"config", "action"}
        PROVE  AlwaysAsked' /\ ReportIsLast'
    BY <1>2 DEF AlwaysAsked, ReportIsLast
  <1>3. ASSUME NEW a \in Agent,
               Register(a) \/ Settle(a) \/ Mark(a) \/ WriteReport(a) \/ Rest(a) \/ Leave(a)
        PROVE  AlwaysAsked' /\ ReportIsLast'
    <2>1. /\ ~lost /\ SameWork(board, board') /\ pc'["controller"] = pc["controller"]
      BY <1>1, <1>3, LosslessPasses DEF Passes, Moves
    <2> QED
      BY <1>2, <2>1 DEF SameWork
  <1>4. ASSUME NEW a \in Agent, Claim(a) \/ Unlock(a) PROVE AlwaysAsked' /\ ReportIsLast'
    <2>1. /\ ~lost /\ SameWork(board, board') /\ pc'["controller"] = pc["controller"]
      BY <1>1, <1>4, LosslessLocks DEF Moves
    <2> QED
      BY <1>2, <2>1 DEF SameWork
  <1>5. ASSUME NEW a \in Agent, Start(a) \/ PollExit(a) \/ PollTask(a) \/ Crash(a)
        PROVE  AlwaysAsked' /\ ReportIsLast'
    <2>1. ~lost /\ UNCHANGED board /\ pc'["controller"] = pc["controller"]
      BY <1>1, <1>5, GotoIsTyped DEF Start, PollExit, PollTask, Crash
    <2> QED
      BY <1>2, <2>1
  <1>6. CASE WriteDone
    <2>1. /\ ~lost /\ pc'["controller"] = pc["controller"]
          /\ board' = [board EXCEPT !.written = @ \cup {task["code"].n}]
      BY <1>1, <1>6, LosslessWork DEF Moves
    <2>2. board'.next = board.next /\ board'.reported = board.reported
      BY <1>1, <2>1 DEF Record
    <2> QED
      BY <1>2, <2>1, <2>2
  <1>7. CASE Judge
    <2>1. /\ ~lost /\ pc'["controller"] = pc["controller"]
          /\ \E v \in Verdict : board' = Decide(board, task["review"].n, v)
      BY <1>1, <1>7, LosslessWork DEF Moves
    <2>2. task["review"].n \in 1..ReviewCount
      BY <1>1, <1>7, TakenIsTyped DEF Judge
    <2>3. board'.next = board.next /\ board'.reported = board.reported
      BY <1>1, <2>1, <2>2, DecideTyped
    <2> QED
      BY <1>2, <2>1, <2>3
  <1>8. CASE NextOfCode
    <2>1. board' = [board EXCEPT !.next = AfterWrite(board, task["code"].n)]
      BY <1>1, <1>8, LosslessWork
    <2>2. board'.next \in Tasks /\ ~board'.reported
      BY <1>1, <1>8, <2>1, NothingAskedAfterReport, NextIsTyped DEF Record
    <2> QED
      BY <2>2 DEF AlwaysAsked, ReportIsLast
  <1>9. CASE NextOfReview
    <2>1. board' = [board EXCEPT !.next = AfterReview(board, task["review"].n)]
      BY <1>1, <1>9, LosslessWork
    <2>2. board'.next \in Tasks /\ ~board'.reported
      BY <1>1, <1>9, <2>1, NothingAskedAfterReport, NextIsTyped DEF Record
    <2> QED
      BY <2>2 DEF AlwaysAsked, ReportIsLast
  <1>10. CASE FinishReport
    <2>1. /\ ~lost /\ pc["review"] = "work" /\ board = mem["review"]
          /\ task["review"] = Report
          /\ board' = [board EXCEPT !.reported = TRUE]
      BY <1>1, <1>10, LosslessWork DEF Moves
    <2>2. board.next = Report
      BY <2>1 DEF IInv, TaskInHand
    <2>3. board'.next = Report
      BY <1>1, <2>1, <2>2 DEF Record
    <2> QED
      BY <2>3, TasksAreTyped DEF AlwaysAsked, ReportIsLast
  <1>11. CASE FirstAction
    <2>1. ~lost /\ board = Fresh /\ board' = [board EXCEPT !.next = Task("write", 1)]
      BY <1>1, <1>11, LosslessSave DEF FirstAction, IInv, NotBegun
    <2>2. board'.next = Task("write", 1) /\ ~board'.reported
      BY <2>1 DEF Fresh
    <2> QED
      BY <2>2, TasksAreTyped DEF AlwaysAsked, ReportIsLast
  <1>12. CASE WriteConfig \/ Monitor
    <2>1. /\ ~lost /\ UNCHANGED board
          /\ pc'["controller"] \in {"config", "action"} \/ pc["controller"] \notin {"config", "action"}
      BY <1>1, <1>12, GotoIsTyped DEF WriteConfig, Monitor
    <2> QED
      BY <1>2, <2>1
  <1>13. CASE UNCHANGED vars
    BY <1>2, <1>13 DEF vars
  <1> QED
    BY <1>3, <1>4, <1>5, <1>6, <1>7, <1>8, <1>9, <1>10, <1>11, <1>12, <1>13
    DEF Next, ControllerStep, CodeStep, ReviewStep, Shared

LEMMA OwnTaskStep ==
  ASSUME TypeOK, EndHasOutcome, OwnTask, [Next]_vars
  PROVE  EndHasOutcome' /\ OwnTask'
  <1> USE AgentsOnly
  <1>1. CASE UNCHANGED <<outcome, task>> /\ pc'["controller"] = pc["controller"]
    BY <1>1 DEF EndHasOutcome, OwnTask, Addressed
  <1>2. ASSUME NEW a \in Agent, NEW t, UNCHANGED outcome, pc'["controller"] = pc["controller"],
               task' = [task EXCEPT ![a] = t], t = NoTask \/ Addressed(a, t)
        PROVE  EndHasOutcome' /\ OwnTask'
    BY <1>2 DEF TypeOK, EndHasOutcome, OwnTask, Addressed
  <1>3. ASSUME NEW a \in Agent, Start(a) \/ Shared(a) PROVE EndHasOutcome' /\ OwnTask'
    <2>1. pc'["controller"] = pc["controller"] /\ UNCHANGED outcome
      BY <1>3, GotoIsTyped
      DEF Start, Shared, Register, Settle, PollExit, PollTask, Claim, Mark, Unlock,
          WriteReport, Rest, Leave
    <2>2. CASE PollTask(a)
      BY <1>2, <2>1, <2>2 DEF PollTask
    <2>3. CASE ~PollTask(a)
      <3>1. UNCHANGED task
        BY <1>3, <2>3
        DEF Start, Shared, Register, Settle, PollExit, Claim, Mark, Unlock,
            WriteReport, Rest, Leave
      <3> QED
        BY <1>1, <2>1, <3>1
    <2> QED
      BY <2>2, <2>3
  <1>4. ASSUME NEW a \in Agent, Crash(a) PROVE EndHasOutcome' /\ OwnTask'
    <2>1. pc'["controller"] = pc["controller"] /\ UNCHANGED outcome
      BY <1>4, GotoIsTyped DEF Crash
    <2> QED
      BY <1>2, <1>4, <2>1 DEF Crash
  <1>5. CASE WriteDone \/ NextOfCode \/ Judge \/ NextOfReview \/ FinishReport
    <2>1. pc'["controller"] = pc["controller"] /\ UNCHANGED <<outcome, task>>
      BY <1>5, GotoIsTyped DEF WriteDone, NextOfCode, Judge, NextOfReview, FinishReport
    <2> QED
      BY <1>1, <2>1
  <1>6. CASE WriteConfig \/ FirstAction
    <2>1. pc'["controller"] # "ended" /\ UNCHANGED task
      BY <1>6, GotoIsTyped DEF WriteConfig, FirstAction
    <2> QED
      BY <2>1 DEF EndHasOutcome, OwnTask, Addressed
  <1>7. CASE Monitor
    BY <1>7 DEF Monitor, EndHasOutcome, OwnTask, Addressed
  <1>8. CASE UNCHANGED vars
    BY <1>1, <1>8 DEF vars
  <1> QED
    BY <1>3, <1>4, <1>5, <1>6, <1>7, <1>8 DEF Next, ControllerStep, CodeStep, ReviewStep

LEMMA LosslessInvariance == Spec => []LosslessInv
  <1>1. Init => LosslessInv
    <2> SUFFICES ASSUME Init PROVE LosslessInv
      OBVIOUS
    <2>1. board.locks = {} /\ ~board.reported /\ pc["controller"] = "config"
      BY AgentsOnly DEF Init, Fresh
    <2>2. OwnTask
      BY DEF Init, OwnTask
    <2> QED
      BY <2>1, <2>2
      DEF LosslessInv, LocksAreHeld, AlwaysAsked, ReportIsLast, EndHasOutcome
  <1>2. LosslessInv /\ IInv /\ [Next]_vars => LosslessInv'
    <2> SUFFICES ASSUME LosslessInv, IInv, [Next]_vars PROVE LosslessInv'
      OBVIOUS
    <2>1. TypeOK /\ TaskTaken
      BY DEF IInv
    <2> QED
      BY <2>1, LocksAreHeldStep, NextIsKept, OwnTaskStep DEF LosslessInv
  <1> QED
    BY <1>1, <1>2, Invariance, PTL DEF Spec

(* When the controller or an agent has a step to make: these are the       *)
(* conditions under which ControllerStep, CodeStep and ReviewStep are      *)
(* enabled.                                                                *)
ControllerCanMove ==
  \/ pc["controller"] \in {"config", "action"}
  \/ pc["controller"] = "monitor" /\ ~torn /\ Outcome(board) # None

CanMove(a) ==
  \/ pc[a] \in {"register", "settle", "claim", "mark", "next", "leave"} \cup Trailing
  \/ pc[a] = "work" /\ (a = "review" => task[a].kind = "review" \/ task[a] = Report)
  \/ pc[a] = "idle" /\ ~torn /\ EarlyExit(a, board)
  \/ pc[a] = "idle" /\ ~torn /\ Addressed(a, board.next) /\ ~Locked(board, board.next)

(* A loop whose agents both found it never stands still before it has an   *)
(* outcome, unless a save was lost, the file is torn or its next task is   *)
(* stranded.                                                               *)
NoStandstill ==
  outcome = None /\ ~lost /\ ~torn /\ ~Stranded /\ (\A a \in Agent : Joined(a))
    => ControllerCanMove \/ \E a \in Agent : CanMove(a)

LEMMA ReportedHasOutcome ==
  ASSUME TypeOK, board.reported
  PROVE  Outcome(board) # None
  <1>1. board \in Record
    BY DEF TypeOK
  <1>2. CASE Done(board) = {}
    BY <1>2 DEF Outcome, None
  <1>3. CASE Done(board) # {}
    <2>1. Outcome(board) \in {"approved", "changes_requested"}
      BY <1>1, <1>3, LastDone DEF Outcome
    <2> QED
      BY <2>1 DEF None
  <1> QED
    BY <1>2, <1>3

(* As long as no save is lost, nobody waits for somebody who waits         *)
(* (loop-controller.ts:42-115, loop-code-agent.ts:45-75,                   *)
(* loop-review-agent.ts:47-80): with fairness, and because every step      *)
(* counts (below), this is why LoopEnds holds.                             *)
THEOREM NeverStandsStill == Spec => []NoStandstill
  <1>1. IInv /\ LosslessInv => NoStandstill
    <2> SUFFICES ASSUME IInv, LosslessInv,
                        outcome = None, ~lost, ~torn, ~Stranded, \A a \in Agent : Joined(a),
                        ~ControllerCanMove
                 PROVE  \E a \in Agent : CanMove(a)
      BY DEF NoStandstill
    <2> USE AgentsOnly
    <2>1. TypeOK /\ TaskTaken
      BY DEF IInv
    <2>2. pc["controller"] = "monitor" /\ Outcome(board) = None
      BY <2>1, PlacesAreTyped DEF LosslessInv, EndHasOutcome, ControllerCanMove, TypeOK
    <2>3. board.next \in Tasks /\ ~board.reported
      BY <2>1, <2>2, ReportedHasOutcome DEF LosslessInv, AlwaysAsked
    <2>4. PICK a \in Agent : Addressed(a, board.next)
      BY <2>3, TasksAreTyped DEF Addressed
    <2>5. ASSUME NEW b \in Agent, Holding(b) PROVE CanMove(b)
      <3>1. CASE pc[b] = "work"
        <4>1. Addressed(b, task[b]) /\ (task[b].kind = "report" => task[b] = Report)
          BY <2>1, <3>1, TasksAreTyped DEF TaskTaken, TypeOK, None
        <4> QED
          BY <3>1, <4>1 DEF CanMove, Addressed
      <3>2. CASE pc[b] # "work"
        BY <2>5, <3>2 DEF CanMove, Holding, Trailing
      <3> QED
        BY <3>1, <3>2
    <2>6. CASE pc[a] = "idle"
      <3>1. CASE ~Locked(board, board.next)
        BY <2>4, <2>6, <3>1 DEF CanMove
      <3>2. CASE Locked(board, board.next)
        <4>1. PICK b \in Agent : <<board.next, b>> \in board.locks
          BY <3>2 DEF Locked
        <4>2. task[b] = board.next
          BY <4>1 DEF Stranded
        <4>3. Holding(b)
          BY <2>3, <4>1, <4>2 DEF LosslessInv, LocksAreHeld
        <4> QED
          BY <2>5, <4>3
      <3> QED
        BY <3>1, <3>2
    <2>7. CASE pc[a] = "work"
      BY <2>5, <2>7 DEF Holding
    <2>8. pc[a] # "exited"
      BY <2>2, <2>4 DEF Stranded
    <2>9. CASE pc[a] \notin {"idle", "work"}
      <3>1. pc[a] \in AgentPC /\ pc[a] \notin {"off", "astray"}
        BY <2>1 DEF TypeOK, Joined
      <3> QED
        BY <2>8, <2>9, <3>1, PlacesAreTyped DEF CanMove, Trailing
    <2> QED
      BY <2>6, <2>7, <2>9
  <1> QED
    BY <1>1, Invariance, LosslessInvariance, PTL

-----------------------------------------------------------------------------
(* How far the loop is from its end, while no save is lost: the tasks that *)
(* are left to take, and where each process is.                            *)

Open(m) == {t \in Tasks : Pending(m, t)}

(* What the agents have taken, and what they have done and still keep as   *)
(* the next action, or ended with.                                         *)
AtIt(a) == pc[a] \in {"claim", "mark", "work"}
HasDone(a) == IF a = "code" THEN pc[a] = "next" ELSE pc[a] \in {"next", "exited"} \cup Trailing
InHand == {task[a] : a \in {b \in Agent : AtIt(b)}}
Behind == {task[a] : a \in {b \in Agent : HasDone(b)}}

(* The tasks that are open and not in hand, and one that is done but asked *)
(* for again.                                                              *)
Left == (Open(board) \cup (({board.next} \cap Tasks) \ Behind)) \ InHand

Place(a) ==
  CASE pc[a] = "claim" -> 9
    [] pc[a] = "mark" -> 8
    [] pc[a] = "work" -> 7
    [] pc[a] = "next" -> IF a = "code" THEN 6 ELSE 3
    [] pc[a] = "unlock" -> IF a = "code" THEN 5 ELSE 6
    [] pc[a] = "tell" -> IF a = "code" THEN 4 ELSE 5
    [] pc[a] = "rest" -> IF a = "code" THEN 3 ELSE 4
    [] pc[a] = "register" -> 4
    [] pc[a] = "settle" -> 3
    [] pc[a] = "idle" -> 2
    [] pc[a] = "leave" -> 1
    [] OTHER -> 0

ControllerPlace ==
  CASE pc["controller"] = "config" -> 3
    [] pc["controller"] = "action" -> 2
    [] pc["controller"] = "monitor" -> 1
    [] OTHER -> 0

Rank == 8 * Cardinality(Left) + Place("code") + Place("review") + ControllerPlace

(* Every step of a process of the loop brings it nearer to its end, or     *)
(* loses a save; only a death or a start of an agent takes it back.        *)
EveryStepCounts ==
  [][ControllerStep \/ CodeStep \/ ReviewStep => lost' \/ Rank' < Rank]_vars

LEMMA TasksAreFinite == IsFiniteSet(Tasks)
  <1> DEFINE W == [kind: {"write"}, n: 1..WriteCount]
             R == [kind: {"review"}, n: 1..ReviewCount]
  <1>1. IsFiniteSet(1..WriteCount) /\ IsFiniteSet(1..ReviewCount)
    BY LoopAssumption, FS_Interval
  <1>2. [t \in W |-> t.n] \in Injection(W, 1..WriteCount)
    <2> DEFINE f == [t \in W |-> t.n]
    <2>1. f \in [W -> 1..WriteCount] /\ \A t, u \in W : f[t] = f[u] => t = u
      OBVIOUS
    <2> HIDE DEF f, W
    <2>2. f \in Injection(W, 1..WriteCount)
      BY <2>1 DEF Injection, IsInjective
    <2> QED
      BY <2>2 DEF f
  <1>3. [t \in R |-> t.n] \in Injection(R, 1..ReviewCount)
    <2> DEFINE f == [t \in R |-> t.n]
    <2>1. f \in [R -> 1..ReviewCount] /\ \A t, u \in R : f[t] = f[u] => t = u
      OBVIOUS
    <2> HIDE DEF f, R
    <2>2. f \in Injection(R, 1..ReviewCount)
      BY <2>1 DEF Injection, IsInjective
    <2> QED
      BY <2>2 DEF f
  <1>4. IsFiniteSet(W) /\ IsFiniteSet(R) /\ IsFiniteSet({Report})
    BY <1>1, <1>2, <1>3, FS_Injection, FS_Singleton
  <1>5. IsFiniteSet({Report} \cup W \cup R)
    BY <1>4, FS_Union
  <1> QED
    BY <1>5 DEF Tasks

Places == Place("code") + Place("review") + ControllerPlace

LEMMA RankFalls ==
  /\ Left' \subseteq Left /\ Places' < Places => Rank' < Rank
  /\ \A t \in Left : Left' \subseteq Left \ {t} /\ Places' < Places + 8 => Rank' < Rank
  <1>1. IsFiniteSet(Left) /\ IsFiniteSet(Left')
    <2>1. Left \in SUBSET Tasks
      BY DEF Left, Open
    <2>2. Left' \in SUBSET Tasks
      BY DEF Left, Open
    <2> QED
      BY <2>1, <2>2, TasksAreFinite, FS_Subset
  <1>2. Cardinality(Left) \in Nat /\ Cardinality(Left') \in Nat
    BY <1>1, FS_CardinalityType
  <1>3. \A a : Place(a) \in 0..9 /\ Place(a)' \in 0..9
    BY DEF Place
  <1>4. /\ Places \in Nat /\ Places' \in Nat
        /\ Rank = 8 * Cardinality(Left) + Places
        /\ Rank' = 8 * Cardinality(Left') + Places'
    <2>1. ControllerPlace \in 0..3 /\ ControllerPlace' \in 0..3
      BY DEF ControllerPlace
    <2> QED
      BY <1>2, <1>3, <2>1 DEF Rank, Places
  <1>5. ASSUME Left' \subseteq Left PROVE Cardinality(Left') <= Cardinality(Left)
    BY <1>1, <1>5, FS_Subset
  <1>6. ASSUME NEW t \in Left, Left' \subseteq Left \ {t}
        PROVE  Cardinality(Left') + 1 <= Cardinality(Left)
    <2>1. /\ IsFiniteSet(Left \ {t})
          /\ Cardinality(Left \ {t}) = Cardinality(Left) - 1
      BY <1>1, FS_RemoveElement
    <2>2. Cardinality(Left') <= Cardinality(Left \ {t})
      BY <1>6, <2>1, FS_Subset
    <2> QED
      BY <1>2, <2>1, <2>2
  <1> HIDE DEF Rank, Places, Left
  <1>7. Left' \subseteq Left /\ Places' < Places => Rank' < Rank
    BY <1>2, <1>4, <1>5
  <1>8. ASSUME NEW t \in Left, Left' \subseteq Left \ {t}, Places' < Places + 8
        PROVE  Rank' < Rank
    BY <1>2, <1>4, <1>6, <1>8
  <1> QED
    BY <1>7, <1>8

LEMMA PassingKeepsLeft ==
  ASSUME NEW a \in Agent, \A b \in Agent \ {a} : pc'[b] = pc[b], UNCHANGED task,
         SameWork(board, board'), AtIt(a) => AtIt(a)', HasDone(a) => HasDone(a)'
  PROVE  Left' \subseteq Left
  <1>1. \A t : Pending(board', t) <=> Pending(board, t)
    BY DEF SameWork, Pending, Judged
  <1>2. Open(board') = Open(board) /\ board'.next = board.next
    BY <1>1 DEF Open, SameWork
  <1>3. \A b \in Agent : (AtIt(b) => AtIt(b)') /\ (HasDone(b) => HasDone(b)')
    BY DEF AtIt, HasDone
  <1>4. InHand \subseteq InHand' /\ Behind \subseteq Behind'
    BY <1>3 DEF InHand, Behind
  <1> QED
    BY <1>2, <1>4 DEF Left

LEMMA DoneKeepsLeft ==
  ASSUME NEW a \in Agent, \A b \in Agent \ {a} : pc'[b] = pc[b], UNCHANGED task,
         HasDone(a)', board.next = task[a], board'.next = task[a],
         Open(board') \subseteq Open(board) \ {task[a]}
  PROVE  Left' \subseteq Left
  <1>1. task[a] \in Behind'
    BY DEF Behind
  <1>2. ASSUME NEW t \in InHand, t # task[a] PROVE t \in InHand'
    BY <1>2 DEF InHand, AtIt
  <1> QED
    BY <1>1, <1>2 DEF Left

LEMMA AskingKeepsLeft ==
  ASSUME InHand' = InHand, board'.next \in Open(board), Open(board') = Open(board)
  PROVE  Left' \subseteq Left
  BY DEF Left

(* Whatever is asked for is open, as long as the report is.                *)
LEMMA AskedIsOpen ==
  ASSUME NEW m, ~m.reported
  PROVE  /\ \A i : AfterWrite(m, i) \in Open(m)
         /\ \A r : AfterReview(m, r) \in Open(m)
  <1>1. Pending(m, Report)
    BY TasksAreTyped DEF Pending
  <1>2. \A t : Pending(m, t) => t \in Open(m)
    BY DEF Open, Pending
  <1> QED
    BY <1>1, <1>2 DEF AfterWrite, AfterReview, AfterChanges

LEMMA NextKeepsOpen ==
  ASSUME NEW m \in Record, NEW t
  PROVE  Open([m EXCEPT !.next = t]) = Open(m)
  <1>1. \A u : Pending([m EXCEPT !.next = t], u) <=> Pending(m, u)
    BY DEF Record, Pending, Judged
  <1> QED
    BY <1>1 DEF Open

LEMMA PlacesFall ==
  ASSUME NEW a \in Agent, \A q \in Process \ {a} : pc'[q] = pc[q]
  PROVE  /\ Place(a)' < Place(a) => Places' < Places
         /\ Place(a)' < Place(a) + 8 => Places' < Places + 8
  <1>1. \A b : Place(b) \in 0..9 /\ Place(b)' \in 0..9
    BY DEF Place
  <1>2. ControllerPlace \in 0..3 /\ ControllerPlace' = ControllerPlace
    BY AgentsOnly DEF ControllerPlace
  <1>3. ASSUME NEW b \in Agent, b # a PROVE Place(b)' = Place(b)
    BY <1>3, AgentsOnly DEF Place
  <1>4. CASE a = "code"
    BY <1>1, <1>2, <1>3, <1>4, AgentsOnly DEF Places
  <1>5. CASE a = "review"
    BY <1>1, <1>2, <1>3, <1>5, AgentsOnly DEF Places
  <1> QED
    BY <1>4, <1>5, AgentsOnly

LEMMA PassesCount ==
  ASSUME TypeOK, ~lost', NEW a \in Agent,
         \/ Register(a) \/ Settle(a) \/ Mark(a) \/ WriteReport(a) \/ Rest(a) \/ Leave(a)
         \/ Claim(a) \/ Unlock(a) \/ PollExit(a)
  PROVE  Rank' < Rank
  <1> DEFINE Exits == \/ a = "code" /\ Moves(a, "idle", "leave")
                      \/ a = "review" /\ Moves(a, "idle", "exited")
             Locks == Moves(a, "claim", "mark") \/ Moves(a, "unlock", "tell")
  <1>1. UNCHANGED task /\ SameWork(board, board') /\ (Passes(a) \/ Locks \/ Exits)
    <2>1. CASE PollExit(a)
      <3>1. Exits
        BY <2>1, AgentsOnly, GotoMoves DEF PollExit
      <3> QED
        BY <2>1, <3>1 DEF PollExit, SameWork
    <2> QED
      BY <2>1, LosslessPasses, LosslessLocks
  <1>2. a = "code" \/ a = "review"
    BY AgentsOnly
  <1>3. \A q \in Process \ {a} : pc'[q] = pc[q]
    BY <1>1 DEF Passes, Moves
  <1>4. (AtIt(a) => AtIt(a)') /\ (HasDone(a) => HasDone(a)')
    BY <1>1, <1>2 DEF Passes, Moves, AtIt, HasDone, Trailing
  <1>5. Left' \subseteq Left
    BY <1>1, <1>3, <1>4, AgentsOnly, PassingKeepsLeft
  <1>6. Place(a)' < Place(a)
    BY <1>1, <1>2 DEF Passes, Moves, Place
  <1> QED
    BY <1>3, <1>5, <1>6, PlacesFall, RankFalls

LEMMA TakingCounts ==
  ASSUME TypeOK, OwnTask, NEW a \in Agent, PollTask(a)
  PROVE  Rank' < Rank
  <1> USE AgentsOnly
  <1>1. /\ UNCHANGED board /\ Moves(a, "idle", "claim") /\ Addressed(a, board.next)
        /\ task'[a] = board.next /\ \A b \in Agent \ {a} : task'[b] = task[b]
    BY GotoMoves DEF PollTask, TypeOK
  <1>2. board.next \in Tasks
    <2>1. board.next \in Tasks \cup {NoTask}
      BY DEF TypeOK, Record
    <2> QED
      BY <1>1, <2>1, TasksAreTyped DEF Addressed, None
  <1>3. \A b \in Agent \ {a} : task[b] # board.next
    BY <1>1, <1>2, TasksAreTyped DEF OwnTask, Addressed
  <1>4. ~AtIt(a) /\ ~HasDone(a) /\ AtIt(a)'
    BY <1>1 DEF Moves, AtIt, HasDone, Trailing
  <1>5. board.next \notin InHand /\ board.next \notin Behind
    BY <1>3, <1>4 DEF InHand, Behind
  <1>6. board.next \in Left
    BY <1>2, <1>5 DEF Left
  <1>7. board.next \in InHand'
    BY <1>1, <1>4 DEF InHand
  <1>8. InHand \subseteq InHand'
    <2>1. ASSUME NEW b \in Agent, AtIt(b) PROVE AtIt(b)' /\ task'[b] = task[b]
      BY <1>1, <1>4, <2>1 DEF Moves, AtIt
    <2> QED
      BY <2>1 DEF InHand
  <1>9. Left' \subseteq Left \ {board.next}
    BY <1>1, <1>7, <1>8 DEF Left
  <1>10. Place(a)' < Place(a) + 8
    BY <1>1 DEF Moves, Place
  <1> QED
    BY <1>1, <1>6, <1>9, <1>10, PlacesFall, RankFalls DEF Moves

LEMMA DoingCounts ==
  ASSUME IInv, ~lost', WriteDone \/ Judge \/ FinishReport
  PROVE  Rank' < Rank
  <1> USE AgentsOnly
  <1>1. TypeOK /\ TaskTaken /\ board \in Record
    BY DEF IInv, TypeOK
  <1>2. ASSUME NEW a \in Agent, NEW to, Moves(a, "work", to), UNCHANGED task,
               board = mem[a], board'.next = board.next, HasDone(a)', Place(a)' < 7,
               Open(board') \subseteq Open(board) \ {task[a]}
        PROVE  Rank' < Rank
    <2>1. board.next = task[a]
      BY <1>2 DEF Moves, IInv, TaskInHand
    <2>2. Left' \subseteq Left
      BY <1>2, <2>1, DoneKeepsLeft DEF Moves
    <2>3. Place(a) = 7
      BY <1>2 DEF Moves, Place
    <2> QED
      BY <1>2, <2>2, <2>3, PlacesFall, RankFalls DEF Moves
  <1>3. CASE WriteDone
    <2>1. /\ UNCHANGED task /\ Moves("code", "work", "next") /\ board = mem["code"]
          /\ board' = [board EXCEPT !.written = @ \cup {task["code"].n}]
      BY <1>1, <1>3, LosslessWork
    <2>2. HasDone("code")' /\ Place("code")' < 7
      BY <2>1 DEF Moves, HasDone, Place
    <2>3. task["code"].kind = "write"
      BY <1>1, <2>1 DEF Moves, TaskTaken, Addressed
    <2>4. /\ board'.next = board.next /\ board'.written = board.written \cup {task["code"].n}
          /\ board'.judged = board.judged /\ board'.reported = board.reported
      BY <1>1, <2>1 DEF Record
    <2>5. \A t : Pending(board', t) => Pending(board, t) /\ t # task["code"]
      <3>1. Judged(board') = Judged(board)
        BY <2>4 DEF Judged
      <3>2. ASSUME NEW t \in Tasks, Pending(board', t)
            PROVE  Pending(board, t) /\ t # task["code"]
        <4>1. CASE t.kind = "write"
          BY <2>4, <3>2, <4>1 DEF Pending
        <4>2. CASE t.kind \in {"review", "report"}
          BY <2>3, <2>4, <3>1, <3>2, <4>2 DEF Pending
        <4> QED
          BY <4>1, <4>2, TasksAreTyped
      <3> QED
        BY <3>2 DEF Pending
    <2>6. Open(board') \subseteq Open(board) \ {task["code"]}
      BY <2>5 DEF Open
    <2> QED
      BY <1>2, <2>1, <2>2, <2>4, <2>6
  <1>4. CASE Judge
    <2>1. /\ UNCHANGED task /\ Moves("review", "work", "unlock") /\ board = mem["review"]
          /\ task["review"].kind = "review"
          /\ \E v \in Verdict : board' = Decide(board, task["review"].n, v)
      BY <1>1, <1>4, LosslessWork
    <2>2. HasDone("review")' /\ Place("review")' < 7
      BY <2>1 DEF Moves, HasDone, Place, Trailing
    <2>3. task["review"].n \in 1..ReviewCount
      BY <1>1, <2>1, TakenIsTyped DEF Moves
    <2>4. /\ board'.next = board.next /\ board'.written = board.written
          /\ board'.reported = board.reported
          /\ Judged(board) \cup {task["review"].n} \subseteq Judged(board')
      BY <1>1, <2>1, <2>3, DecideTyped
    <2>5. \A t : Pending(board', t) => Pending(board, t) /\ t # task["review"]
      BY <2>1, <2>4, TasksAreTyped DEF Pending
    <2>6. Open(board') \subseteq Open(board) \ {task["review"]}
      BY <2>5 DEF Open
    <2> QED
      BY <1>2, <2>1, <2>2, <2>4, <2>6
  <1>5. CASE FinishReport
    <2>1. /\ UNCHANGED task /\ Moves("review", "work", "exited") /\ board = mem["review"]
          /\ task["review"] = Report
          /\ board' = [board EXCEPT !.reported = TRUE]
      BY <1>1, <1>5, LosslessWork
    <2>2. HasDone("review")' /\ Place("review")' < 7
      BY <2>1 DEF Moves, HasDone, Place
    <2>3. /\ board'.next = board.next /\ board'.written = board.written
          /\ board'.judged = board.judged /\ board'.reported
      BY <1>1, <2>1 DEF Record
    <2>4. \A t : Pending(board', t) => Pending(board, t) /\ t # Report
      <3>1. Judged(board') = Judged(board)
        BY <2>3 DEF Judged
      <3>2. ASSUME NEW t \in Tasks, Pending(board', t)
            PROVE  Pending(board, t) /\ t # Report
        <4>1. CASE t.kind = "report"
          BY <2>3, <3>2, <4>1 DEF Pending
        <4>2. CASE t.kind \in {"write", "review"}
          BY <2>3, <3>1, <3>2, <4>2, TasksAreTyped DEF Pending
        <4> QED
          BY <4>1, <4>2, TasksAreTyped
      <3> QED
        BY <3>2 DEF Pending
    <2>5. Open(board') \subseteq Open(board) \ {Report}
      BY <2>4 DEF Open
    <2> QED
      BY <1>2, <2>1, <2>2, <2>3, <2>5
  <1> QED
    BY <1>3, <1>4, <1>5

LEMMA AskingCounts ==
  ASSUME IInv, ReportIsLast, ~lost', NextOfCode \/ NextOfReview
  PROVE  Rank' < Rank
  <1> USE AgentsOnly
  <1>1. TypeOK /\ TaskTaken /\ board \in Record
    BY DEF IInv, TypeOK
  <1>0. PICK a \in Agent : \E t :
          /\ UNCHANGED task
          /\ \/ a = "code" /\ Moves(a, "next", "unlock") /\ t = AfterWrite(board, task["code"].n)
             \/ a = "review" /\ Moves(a, "next", "idle") /\ t = AfterReview(board, task["review"].n)
          /\ board' = [board EXCEPT !.next = t]
    BY <1>1, LosslessWork
  <1>2. PICK t :
          /\ UNCHANGED task
          /\ \/ a = "code" /\ Moves(a, "next", "unlock") /\ t = AfterWrite(board, task["code"].n)
             \/ a = "review" /\ Moves(a, "next", "idle") /\ t = AfterReview(board, task["review"].n)
          /\ board' = [board EXCEPT !.next = t]
    BY <1>0
  <1>3. ~board.reported
    BY NothingAskedAfterReport
  <1>4. t \in Open(board)
    BY <1>2, <1>3, AskedIsOpen
  <1>5. board'.next = t /\ Open(board') = Open(board)
    <2>1. board'.next = t
      BY <1>1, <1>2 DEF Record
    <2> QED
      BY <1>1, <1>2, <2>1, NextKeepsOpen
  <1>6. \A b \in Agent : AtIt(b)' <=> AtIt(b)
    BY <1>2 DEF Moves, AtIt
  <1>7. InHand' = InHand
    BY <1>2, <1>6 DEF InHand
  <1>8. Left' \subseteq Left
    BY <1>4, <1>5, <1>7, AskingKeepsLeft
  <1>9. Place(a)' < Place(a)
    BY <1>2 DEF Moves, Place
  <1> QED
    BY <1>2, <1>8, <1>9, PlacesFall, RankFalls DEF Moves

LEMMA ControllerCounts ==
  ASSUME IInv, ~lost', ControllerStep
  PROVE  Rank' < Rank
  <1> USE AgentsOnly
  <1>1. TypeOK /\ board \in Record
    BY DEF IInv, TypeOK
  <1>2. /\ UNCHANGED task /\ \A a \in Agent : pc'[a] = pc[a]
        /\ ControllerPlace' < ControllerPlace
    BY <1>1, GotoIsTyped DEF ControllerStep, WriteConfig, FirstAction, Monitor, ControllerPlace
  <1>3. /\ InHand' = InHand /\ Behind' = Behind
        /\ \A b \in Agent : Place(b)' = Place(b)
    BY <1>2 DEF InHand, Behind, AtIt, HasDone, Place
  <1>4. Places' < Places
    <2>1. \A b : Place(b) \in 0..9
      BY DEF Place
    <2>2. ControllerPlace \in 0..3 /\ ControllerPlace' \in 0..3
      BY DEF ControllerPlace
    <2> QED
      BY <1>2, <1>3, <2>1, <2>2 DEF Places
  <1>5. CASE FirstAction
    <2> DEFINE t == Task("write", 1)
    <2>1. board = Fresh /\ board' = [board EXCEPT !.next = t]
      BY <1>1, <1>5, LosslessSave DEF FirstAction, IInv, NotBegun
    <2>2. t \in Open(board)
      BY <2>1, TasksAreTyped DEF Open, Pending, Fresh
    <2> HIDE DEF t
    <2>3. board'.next = t /\ Open(board') = Open(board)
      <3>1. board'.next = t
        BY <1>1, <2>1 DEF Record
      <3> QED
        BY <1>1, <2>1, <3>1, NextKeepsOpen
    <2> QED
      BY <1>3, <1>4, <2>2, <2>3, AskingKeepsLeft, RankFalls
  <1>6. CASE WriteConfig \/ Monitor
    <2>1. UNCHANGED board
      BY <1>6 DEF WriteConfig, Monitor
    <2>2. Left' \subseteq Left
      BY <1>3, <2>1 DEF Left
    <2> QED
      BY <1>4, <2>2, RankFalls
  <1> QED
    BY <1>5, <1>6 DEF ControllerStep

(* A loop that loses no save takes a bounded number of steps between two   *)
(* deaths or starts of its agents, for any number of writes, reviews and   *)
(* restarts: nothing is asked for twice, and a poll that takes a task      *)
(* takes one that is left (loop-code-agent.ts:77-117,                      *)
(* loop-review-agent.ts:259-290).                                          *)
THEOREM StepsCount == Spec => EveryStepCounts
  <1>1. ASSUME IInv, LosslessInv, ControllerStep \/ CodeStep \/ ReviewStep, ~lost'
        PROVE  Rank' < Rank
    <2>1. TypeOK /\ OwnTask /\ ReportIsLast
      BY <1>1 DEF IInv, LosslessInv
    <2>2. ASSUME NEW a \in Agent, Shared(a) PROVE Rank' < Rank
      BY <1>1, <2>1, <2>2, PassesCount, TakingCounts DEF Shared
    <2> QED
      BY <1>1, <2>1, <2>2, AgentsOnly, DoingCounts, AskingCounts, ControllerCounts
      DEF CodeStep, ReviewStep
  <1>2. IInv /\ LosslessInv /\ [Next]_vars
          => [ControllerStep \/ CodeStep \/ ReviewStep => lost' \/ Rank' < Rank]_vars
    BY <1>1
  <1> QED
    BY <1>2, Invariance, LosslessInvariance, PTL DEF Spec, EveryStepCounts
=============================================================================
