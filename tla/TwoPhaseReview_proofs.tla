----------------------- MODULE TwoPhaseReview_proofs -----------------------
(***************************************************************************)
(* Proofs about TwoPhaseReview, for any tasks, todo lists, handlers in     *)
(* flight, commits, edits and faults, with sessions that are switched and  *)
(* restarted at any time.                                                  *)
(***************************************************************************)
EXTENDS TwoPhaseReview, TLAPS

(* A state of the right type that does not start ahead of the workspace.   *)
Fits(s) == s \in State /\ (s.startRevision # NoRevision => s.startRevision <= head)

(* A state that may be kept: its phase is earned, unless its task is mixed. *)
Sound(s) == Fits(s) /\ (s.task \notin mixed => Earned(s))

FilesAreSound == \A t \in Tasks : disk[t] # NoFile => Sound(disk[t]) /\ disk[t].task = t

(* What a todo list says is really done in the session t.                  *)
Backed(list, t) ==
  /\ list.reviewed \subseteq evidence[t]
  /\ list.impl = "done" => 0 \in evidence[t]

ListsAreBacked == \A t \in Tasks : Backed(todos[t].list, t)

(* A handler in flight holds a list of its own session, and, while it      *)
(* waits for the ledger, a state that was in memory.                       *)
HandlersAreSound ==
  \A h \in Slots :
    /\ handler[h].at # "idle" => Backed(handler[h].read, handler[h].of)
    /\ handler[h].at = "sync" => Sound(handler[h].snapshot)

IInv ==
  /\ TypeOK
  /\ Sound(state)
  /\ FilesAreSound
  /\ ListsAreBacked
  /\ HandlersAreSound
  /\ MemoryIsWritten

(***************************************************************************)
(* The operations on a state: they stay with the task and its start        *)
(* revision, and keep a phase earned that was earned.                      *)
(***************************************************************************)
Same(s, n) == n \in State /\ n.task = s.task /\ n.startRevision = s.startRevision

LEMMA MoveIsTyped ==
  ASSUME NEW s \in State, NEW p \in Phases
  PROVE  /\ MoveToPhase(s, p) \in State
         /\ MoveToPhase(s, p).task = s.task
         /\ MoveToPhase(s, p).startRevision = s.startRevision
         /\ MoveToPhase(s, p).chunks = s.chunks
         /\ MoveToPhase(s, p).done = s.done
         /\ MoveToPhase(s, p).signals = s.signals
         /\ MoveToPhase(s, p).phase \in {p, s.phase}
  BY DEF MoveToPhase, State

LEMMA MoveIsEarned ==
  ASSUME NEW s \in State, NEW p \in {"review_fixes", "test_pending", "complete"},
         s.phase # "implementation", AllChunksDone(s)
  PROVE  Same(s, MoveToPhase(s, p)) /\ (Earned(s) => Earned(MoveToPhase(s, p)))
  <1>1. p \in Phases
    BY DEF Phases
  <1> QED
    BY <1>1, MoveIsTyped DEF Same, Earned, AllChunksDone

(* "The status only moves forward" (rules.ts:261), and only by an item of  *)
(* the list.                                                               *)
LEMMA SyncIsEarned ==
  ASSUME NEW s \in State, NEW list \in TodoList
  PROVE  /\ Same(s, SyncChunkStatus(s, list))
         /\ s.done \subseteq SyncChunkStatus(s, list).done
         /\ SyncChunkStatus(s, list).phase = s.phase
         /\ Earned(s) /\ list.reviewed \subseteq evidence[s.task] => Earned(SyncChunkStatus(s, list))
  <1> DEFINE n == SyncChunkStatus(s, list)
  <1>1. n = [s EXCEPT !.done = s.done \cup (list.reviewed \cap (1 .. s.chunks))]
    BY DEF SyncChunkStatus
  <1>2. list.reviewed \in SUBSET (1 .. MaxChunks)
    BY DEF TodoList
  <1>3. s.done \cup (list.reviewed \cap (1 .. s.chunks)) \in SUBSET (1 .. MaxChunks)
    BY <1>2 DEF State
  <1>4. n \in State /\ n.task = s.task /\ n.phase = s.phase /\ n.chunks = s.chunks
        /\ n.startRevision = s.startRevision /\ n.done = s.done \cup (list.reviewed \cap (1 .. s.chunks))
    BY <1>1, <1>3 DEF State
  <1> HIDE DEF n
  <1> QED
    BY <1>4 DEF n, Same, Earned

(* The state a sync may end in: what the list marked, moved on or not.     *)
LEMMA ProgressMoves ==
  ASSUME NEW s, NEW list, NEW passed,
         NEW n, n = SyncChunkStatus(s, list)
  PROVE  Progress(s, list, passed) \in
           {n, MarkComplete(n), TransitionToTestPending(n), TransitionToReviewFixes(n)}
  <1> DEFINE workDone == list.tests # "open" /\ passed
  <1>1. CASE n.phase = "review" /\ AllChunksDone(n)
    BY <1>1 DEF Progress
  <1>2. CASE n.phase = "review_fixes" /\ ~list.fixes
    BY <1>2 DEF Progress
  <1>3. CASE n.phase = "test_pending" /\ workDone
    BY <1>3 DEF Progress
  <1>4. CASE ~(n.phase = "review" /\ AllChunksDone(n)) /\ ~(n.phase = "review_fixes" /\ ~list.fixes)
             /\ ~(n.phase = "test_pending" /\ workDone)
    BY <1>4 DEF Progress
  <1> QED
    BY <1>1, <1>2, <1>3, <1>4

LEMMA ProgressIsEarned ==
  ASSUME NEW s \in State, NEW list \in TodoList, NEW passed \in BOOLEAN
  PROVE  /\ Same(s, Progress(s, list, passed))
         /\ Earned(s) /\ list.reviewed \subseteq evidence[s.task] => Earned(Progress(s, list, passed))
  <1> DEFINE n == SyncChunkStatus(s, list)
             Kept(m) == Same(n, m) /\ (Earned(n) => Earned(m))
  <1>1. n \in State /\ Same(s, n) /\ (Earned(s) /\ list.reviewed \subseteq evidence[s.task] => Earned(n))
    BY SyncIsEarned DEF Same
  <1>2. Progress(s, list, passed) \in {n, MarkComplete(n), TransitionToTestPending(n), TransitionToReviewFixes(n)}
    BY ProgressMoves
  <1> HIDE DEF n
  <1>3. Kept(n)
    BY <1>1 DEF Same
  <1>4. Kept(MarkComplete(n))
    BY <1>1, <1>3, MoveIsEarned DEF MarkComplete
  <1>5. Kept(TransitionToTestPending(n))
    BY <1>1, <1>3, MoveIsEarned DEF TransitionToTestPending
  <1>6. Kept(TransitionToReviewFixes(n))
    BY <1>1, <1>3, MoveIsEarned DEF TransitionToReviewFixes
  <1> QED
    BY <1>1, <1>2, <1>3, <1>4, <1>5, <1>6 DEF Same

LEMMA CompleteIsEarned ==
  ASSUME NEW s \in State, s.phase = "implementation"
  PROVE  /\ Same(s, CompleteWithoutReview(s))
         /\ Earned(s) /\ 0 \in evidence[s.task] => Earned(CompleteWithoutReview(s))
  <1>1. "complete" \in Phases
    BY DEF Phases
  <1>2. CompleteWithoutReview(s) = MoveToPhase(s, "complete")
    BY DEF CompleteWithoutReview
  <1>3. Same(s, MoveToPhase(s, "complete"))
    BY <1>1, MoveIsTyped DEF Same
  <1>4. ASSUME Earned(s), 0 \in evidence[s.task] PROVE Earned(MoveToPhase(s, "complete"))
    <2>1. s.chunks = 0 /\ MoveToPhase(s, "complete").chunks = 0
      BY <1>1, <1>4, MoveIsTyped DEF Earned
    <2>2. 1 .. 0 = {}
      OBVIOUS
    <2>3. MoveToPhase(s, "complete").phase = "complete"
      BY <1>1 DEF MoveToPhase, PhaseOrder, State
    <2> QED
      BY <1>1, <1>4, <2>1, <2>2, <2>3, MoveIsTyped DEF Earned
  <1> QED
    BY <1>2, <1>3, <1>4

LEMMA StartIsEarned ==
  ASSUME NEW s \in State, s.phase = "implementation", NEW n \in 0 .. MaxChunks
  PROVE  /\ Same(s, StartReview(s, n))
         /\ Earned(s) /\ 0 \in evidence[s.task] => Earned(StartReview(s, n))
  <1> DEFINE pending == MoveToPhase(s, "review_pending")
             moved == MoveToPhase(pending, "review")
  <1>1. {"review_pending", "review"} \subseteq Phases
    BY DEF Phases
  <1>2. pending \in State /\ pending.task = s.task /\ pending.startRevision = s.startRevision
        /\ pending.done = s.done /\ pending.phase = "review_pending"
    BY <1>1, MoveIsTyped DEF MoveToPhase, PhaseOrder, State
  <1> HIDE DEF pending
  <1>3. moved \in State /\ moved.task = s.task /\ moved.startRevision = s.startRevision
        /\ moved.done = s.done /\ moved.phase = "review"
    BY <1>1, <1>2, MoveIsTyped DEF MoveToPhase, PhaseOrder, State
  <1>4. StartReview(s, n) = [moved EXCEPT !.chunks = n]
    BY DEF StartReview, pending
  <1> HIDE DEF moved
  <1>5. StartReview(s, n) \in State /\ StartReview(s, n).task = s.task
        /\ StartReview(s, n).startRevision = s.startRevision /\ StartReview(s, n).done = s.done
        /\ StartReview(s, n).phase = "review"
    BY <1>3, <1>4 DEF State
  <1> QED
    BY <1>5 DEF Same, Earned

LEMMA SignalIsEarned ==
  ASSUME NEW s \in State, NEW g \in Signals
  PROVE  Same(s, RecordSignal(s, g)) /\ (Earned(s) => Earned(RecordSignal(s, g)))
  <1>1. RecordSignal(s, g) = [s EXCEPT !.signals = s.signals \cup {g}]
    BY DEF RecordSignal
  <1>2. RecordSignal(s, g) \in State /\ RecordSignal(s, g).task = s.task
        /\ RecordSignal(s, g).startRevision = s.startRevision /\ RecordSignal(s, g).done = s.done
        /\ RecordSignal(s, g).phase = s.phase /\ RecordSignal(s, g).chunks = s.chunks
    BY <1>1 DEF State
  <1> QED
    BY <1>2 DEF Same, Earned

LEMMA ScopeIsTyped ==
  ASSUME TypeOK, NEW s, Fits(s)
  PROVE  Scope(s.startRevision) \in 0 .. MaxChunks
  <1>1. head \in Nat /\ head <= MaxCommits /\ MaxCommits \in Nat
    BY TwoPhaseAssumption DEF TypeOK
  <1>2. CASE s.startRevision = NoRevision
    BY <1>1, <1>2 DEF Scope, MaxChunks
  <1>3. CASE s.startRevision # NoRevision
    BY <1>1, <1>3 DEF Fits, State, Scope, MaxChunks
  <1> QED
    BY <1>2, <1>3

(***************************************************************************)
(* Every action preserves the invariant.                                   *)
(***************************************************************************)
LEMMA FaultIsCounted == TypeOK /\ (Fault \/ NoFault) => faults' \in 0 .. MaxFaults
  BY TwoPhaseAssumption DEF TypeOK, Fault, NoFault

LEMMA EditIsCounted == TypeOK /\ edits < MaxEdits /\ edits' = edits + 1 => edits' \in 0 .. MaxEdits
  BY TwoPhaseAssumption DEF TypeOK

LEMMA IdleIsTyped == Idle \in Handlers /\ Idle.at = "idle"
  BY DEF Idle, Handlers

(* A state stays sound when the workspace moves on, evidence is added and  *)
(* tasks are mixed.                                                        *)
Grows ==
  /\ head \in Nat /\ head' \in Nat /\ head <= head'
  /\ \A t \in Tasks : evidence[t] \subseteq evidence'[t]
  /\ mixed \subseteq mixed'

LEMMA SoundStays ==
  ASSUME Grows
  PROVE  \A s : Sound(s) => Fits(s)' /\ (s.task \notin mixed' => Earned(s)')
  <1> SUFFICES ASSUME NEW s, Sound(s) PROVE Fits(s)' /\ (s.task \notin mixed' => Earned(s)')
    OBVIOUS
  <1>1. s \in State /\ s.task \in Tasks /\ (s.startRevision # NoRevision => s.startRevision \in Nat)
    BY TwoPhaseAssumption DEF Sound, Fits, State
  <1>2. evidence[s.task] \subseteq evidence'[s.task]
    BY <1>1 DEF Grows
  <1>3. s.startRevision # NoRevision => s.startRevision <= head'
    BY <1>1 DEF Sound, Fits, Grows
  <1>4. ASSUME s.task \notin mixed' PROVE Earned(s)'
    BY <1>1, <1>2, <1>4 DEF Sound, Earned, Grows
  <1> QED
    BY <1>1, <1>3, <1>4 DEF Fits

LEMMA FilesStaySound == ASSUME IInv, Grows, disk' = disk PROVE FilesAreSound'
  BY SoundStays DEF IInv, FilesAreSound, Sound, Fits, Earned

LEMMA MemoryStaysSound == ASSUME IInv, Grows, state' = state PROVE Sound(state)'
  BY SoundStays DEF IInv, Sound, Fits, Earned

LEMMA HandlersStaySound == ASSUME IInv, Grows, handler' = handler PROVE HandlersAreSound'
  <1>1. ASSUME NEW h \in Slots, handler[h].at # "idle" PROVE Backed(handler[h].read, handler[h].of)'
    <2>1. handler[h].of \in Tasks
      BY <1>1, IdleIsTyped DEF IInv, TypeOK, Handlers, Idle
    <2> QED
      BY <1>1, <2>1 DEF IInv, HandlersAreSound, Backed, Grows
  <1>2. ASSUME NEW h \in Slots, handler[h].at = "sync" PROVE Sound(handler[h].snapshot)'
    BY <1>2, SoundStays DEF IInv, HandlersAreSound, Sound, Fits, Earned
  <1> QED
    BY <1>1, <1>2 DEF HandlersAreSound

(* What is written, or not, leaves memory and the files sound.             *)
Written(next) ==
  /\ Fault \/ NoFault
  /\ \/ state' = next /\ disk' = [disk EXCEPT ![next.task] = next]
     \/ UNCHANGED <<state, disk>>

LEMMA PersistWrites == ASSUME NEW next, Persist(next) PROVE Written(next)
  BY DEF Persist, Written

LEMMA PersistIsSound ==
  ASSUME IInv, NEW next, Fits(next), next.task \notin mixed' => Earned(next), Written(next),
         head' = head, evidence' = evidence, mixed \subseteq mixed'
  PROVE  /\ state' \in State /\ disk' \in [Tasks -> State \cup {NoFile}]
         /\ Sound(state)' /\ FilesAreSound' /\ MemoryIsWritten'
         /\ faults' \in 0 .. MaxFaults
  <1>1. next \in State /\ next.task \in Tasks
    BY DEF Fits, State
  <1>2. faults' \in 0 .. MaxFaults
    BY FaultIsCounted DEF IInv, Written
  <1>3. CASE state' = next /\ disk' = [disk EXCEPT ![next.task] = next]
    <2>1. disk' \in [Tasks -> State \cup {NoFile}] /\ disk'[next.task] = next
          /\ \A t \in Tasks : t # next.task => disk'[t] = disk[t]
      BY <1>1, <1>3 DEF IInv, TypeOK
    <2>2. Sound(state)'
      BY <1>3 DEF Sound, Fits, Earned
    <2>3. FilesAreSound'
      <3> SUFFICES ASSUME NEW t \in Tasks, disk'[t] # NoFile
                   PROVE  Sound(disk[t])' /\ disk'[t].task = t
        BY DEF FilesAreSound
      <3>1. CASE t = next.task
        BY <3>1, <2>1 DEF Sound, Fits, Earned
      <3>2. CASE t # next.task
        BY <3>2, <2>1 DEF IInv, FilesAreSound, Sound, Fits, Earned
      <3> QED
        BY <3>1, <3>2
    <2>4. next # NoFile
      BY <1>1 DEF State, NoFile
    <2>5. MemoryIsWritten'
      BY <1>1, <1>3, <2>1, <2>4 DEF MemoryIsWritten
    <2> QED
      BY <1>1, <1>2, <1>3, <2>1, <2>2, <2>3, <2>5
  <1>4. CASE UNCHANGED <<state, disk>>
    BY <1>2, <1>4 DEF IInv, TypeOK, Sound, Fits, Earned, FilesAreSound, MemoryIsWritten
  <1> QED
    BY <1>3, <1>4 DEF Written

(* A step of the handler h that ends it, or leaves it with what it has.    *)
LEMMA HandlersStay ==
  ASSUME IInv, NEW h \in Slots, NEW x \in Handlers,
         handler' = [handler EXCEPT ![h] = x],
         x.at # "idle" => Backed(x.read, x.of),
         x.at = "sync" => Sound(x.snapshot),
         head' = head, evidence' = evidence, mixed \subseteq mixed'
  PROVE  handler' \in [Slots -> Handlers] /\ HandlersAreSound'
  <1>1. handler' \in [Slots -> Handlers] /\ handler'[h] = x /\ \A i \in Slots : i # h => handler'[i] = handler[i]
    BY DEF IInv, TypeOK
  <1>2. ASSUME NEW i \in Slots
        PROVE  /\ handler'[i].at # "idle" => Backed(handler[i].read, handler[i].of)'
               /\ handler'[i].at = "sync" => Sound(handler[i].snapshot)'
    <2>1. CASE i = h
      BY <2>1, <1>1 DEF Backed, Sound, Fits, Earned
    <2>2. CASE i # h
      BY <2>2, <1>1 DEF IInv, HandlersAreSound, Backed, Sound, Fits, Earned
    <2> QED
      BY <2>1, <2>2
  <1> QED
    BY <1>1, <1>2 DEF HandlersAreSound

LEMMA InitEstablishes == Init => IInv
  <1> SUFFICES ASSUME Init PROVE IInv
    OBVIOUS
  <1>1. PICK r \in {NoRevision, 0} :
          state = [task |-> session, phase |-> "implementation", startRevision |-> r, chunks |-> 0, done |-> {},
                   signals |-> {}]
    BY DEF Init, CreateState, WithRevision
  <1>2. state \in State
    BY <1>1, TwoPhaseAssumption DEF Init, State, Phases, MaxChunks
  <1>3. EmptyList \in TodoList
    BY DEF EmptyList, TodoList
  <1>4. TypeOK
    <2>1. handler \in [Slots -> Handlers]
      BY IdleIsTyped DEF Init
    <2>2. disk \in [Tasks -> State \cup {NoFile}]
      BY <1>2 DEF Init
    <2>3. todos \in [Tasks -> [list : TodoList, passed : BOOLEAN]]
      BY <1>3 DEF Init
    <2>4. evidence \in [Tasks -> SUBSET (0 .. MaxChunks)]
      BY DEF Init
    <2>5. head \in 0 .. MaxCommits /\ edits \in 0 .. MaxEdits /\ faults \in 0 .. MaxFaults
      <3>1. head = 0 /\ edits = 0 /\ faults = 0
        BY DEF Init
      <3> QED
        BY <3>1, TwoPhaseAssumption
    <2> QED
      BY <1>2, <2>1, <2>2, <2>3, <2>4, <2>5 DEF Init, TypeOK
  <1>5. Sound(state)
    <2>1. state.startRevision # NoRevision => state.startRevision <= head
      BY <1>1 DEF Init
    <2> QED
      BY <1>1, <1>2, <2>1 DEF Sound, Fits, Earned, Init
  <1>6. FilesAreSound
    <2>1. \A t \in Tasks : disk[t] # NoFile => t = session /\ disk[t] = state
      BY DEF Init
    <2> QED
      BY <1>1, <1>5, <2>1 DEF FilesAreSound
  <1>7. ListsAreBacked
    BY DEF ListsAreBacked, Backed, Init, EmptyList
  <1>8. HandlersAreSound
    BY IdleIsTyped DEF HandlersAreSound, Init, Idle
  <1>9. state # NoFile
    BY <1>2 DEF State, NoFile
  <1>10. MemoryIsWritten
    BY <1>1, <1>9 DEF MemoryIsWritten, Init
  <1> QED
    BY <1>4, <1>5, <1>6, <1>7, <1>8, <1>10 DEF IInv

(* The environment: evidence is added, the workspace moves on.             *)
LEMMA EnvironmentStep ==
  ASSUME IInv, Edit, Grows, dirty' \in BOOLEAN, head' \in 0 .. MaxCommits,
         todos' \in [Tasks -> [list : TodoList, passed : BOOLEAN]],
         evidence' \in [Tasks -> SUBSET (0 .. MaxChunks)],
         ListsAreBacked'
  PROVE  IInv'
  <1>1. UNCHANGED <<state, disk, session, handler, mixed, faults>> /\ edits' \in 0 .. MaxEdits
    BY EditIsCounted DEF Edit, IInv
  <1>2. TypeOK'
    BY <1>1 DEF IInv, TypeOK
  <1>3. Sound(state)' /\ FilesAreSound' /\ HandlersAreSound'
    BY <1>1, MemoryStaysSound, FilesStaySound, HandlersStaySound
  <1>4. MemoryIsWritten'
    BY <1>1 DEF IInv, MemoryIsWritten
  <1> QED
    BY <1>2, <1>3, <1>4 DEF IInv

LEMMA WorkStep == IInv /\ Work => IInv'
  <1> SUFFICES ASSUME IInv, Work PROVE IInv'
    OBVIOUS
  <1>1. Edit /\ head' = head /\ dirty' = dirty /\ mixed' = mixed
    BY DEF Work, Edit, workspace
  <1>2. PICK todo \in Lists :
          /\ todos' = [todos EXCEPT ![session] = todo]
          /\ evidence' = [evidence EXCEPT ![session] =
                            @ \cup todo.list.reviewed \cup (IF todo.list.impl = "done" THEN {0} ELSE {})]
    BY DEF Work
  <1>3. session \in Tasks /\ todo \in [list : TodoList, passed : BOOLEAN]
        /\ todo.list.reviewed \in SUBSET (0 .. MaxChunks) /\ 0 \in 0 .. MaxChunks
    BY TwoPhaseAssumption DEF IInv, TypeOK, TodoList, MaxChunks
  <1>4. todos' \in [Tasks -> [list : TodoList, passed : BOOLEAN]]
    BY <1>2, <1>3 DEF IInv, TypeOK
  <1>5. evidence'[session] = evidence[session] \cup todo.list.reviewed \cup (IF todo.list.impl = "done" THEN {0} ELSE {})
        /\ \A t \in Tasks : t # session => evidence'[t] = evidence[t]
    BY <1>2, <1>3 DEF IInv, TypeOK
  <1>6. evidence' \in [Tasks -> SUBSET (0 .. MaxChunks)]
    BY <1>2, <1>3 DEF IInv, TypeOK
  <1>7. ListsAreBacked'
    <2> SUFFICES ASSUME NEW t \in Tasks
                 PROVE  /\ todos'[t].list.reviewed \subseteq evidence'[t]
                        /\ todos'[t].list.impl = "done" => 0 \in evidence'[t]
      BY DEF ListsAreBacked, Backed
    <2>1. CASE t = session
      BY <2>1, <1>2, <1>3, <1>5 DEF IInv, TypeOK
    <2>2. CASE t # session
      BY <2>2, <1>2, <1>5 DEF IInv, TypeOK, ListsAreBacked, Backed
    <2> QED
      BY <2>1, <2>2
  <1>8. head \in Nat /\ head' \in 0 .. MaxCommits /\ dirty' \in BOOLEAN /\ head <= head'
    BY <1>1, TwoPhaseAssumption DEF IInv, TypeOK
  <1>9. Grows
    BY <1>1, <1>5, <1>8 DEF Grows
  <1> QED
    BY <1>1, <1>4, <1>6, <1>7, <1>8, <1>9, EnvironmentStep

LEMMA ChangeStep == IInv /\ Change => IInv'
  <1> SUFFICES ASSUME IInv, Change PROVE IInv'
    OBVIOUS
  <1>1. head \in Nat /\ head' \in 0 .. MaxCommits /\ head' \in Nat /\ dirty' \in BOOLEAN /\ head <= head'
    <2>1. head \in Nat /\ head <= MaxCommits /\ dirty \in BOOLEAN /\ MaxCommits \in Nat
      BY TwoPhaseAssumption DEF IInv, TypeOK
    <2>2. CASE dirty' = TRUE /\ head' = head
      BY <2>1, <2>2
    <2>3. CASE head < MaxCommits /\ head' = head + 1 /\ dirty' = dirty
      BY <2>1, <2>3
    <2> QED
      BY <2>2, <2>3 DEF Change
  <1>2. UNCHANGED <<todos, evidence, mixed>> /\ Edit
    BY DEF Change, Edit
  <1>3. ListsAreBacked'
    BY <1>2 DEF IInv, ListsAreBacked, Backed
  <1>4. Grows
    BY <1>1, <1>2 DEF Grows
  <1> QED
    BY <1>1, <1>2, <1>3, <1>4, EnvironmentStep DEF IInv, TypeOK

(* What session_start makes of the task: its file or a fresh state, with   *)
(* its start revision or still without.                                    *)
LEMMA StartedIsSound ==
  ASSUME IInv, NEW t \in Tasks, NEW s, s \in {LoadState(t), WithRevision(LoadState(t))}
  PROVE  /\ Sound(s) /\ s.task = t
         /\ disk[t] = NoFile => s.phase = "implementation" /\ s.chunks = 0 /\ s.signals = {}
         /\ disk[t] # NoFile => \/ s = disk[t]
                                \/ disk[t].startRevision = NoRevision
                                   /\ s = [disk[t] EXCEPT !.startRevision = s.startRevision]
  <1> DEFINE l == LoadState(t)
             r == WithRevision(l)
  <1>1. head \in 0 .. MaxCommits
    BY DEF IInv, TypeOK
  <1>2. l \in State /\ Sound(l) /\ l.task = t
    <2>1. CASE disk[t] = NoFile
      <3>1. l = [task |-> t, phase |-> "implementation", startRevision |-> NoRevision, chunks |-> 0,
                 done |-> {}, signals |-> {}]
        BY <2>1 DEF LoadState, CreateState
      <3> HIDE DEF l
      <3>2. l \in State
        BY <3>1, TwoPhaseAssumption DEF State, Phases, MaxChunks
      <3> QED
        BY <3>1, <3>2 DEF Sound, Fits, Earned
    <2>2. CASE disk[t] # NoFile
      BY <2>2 DEF LoadState, IInv, FilesAreSound, Sound, Fits
    <2> QED
      BY <2>1, <2>2
  <1>3. disk[t] = NoFile => l.phase = "implementation" /\ l.chunks = 0 /\ l.signals = {}
    BY DEF LoadState, CreateState
  <1>4. disk[t] # NoFile => l = disk[t]
    BY DEF LoadState
  <1> HIDE DEF l
  <1>5. CASE l.startRevision = NoRevision
    <2>1. r = [l EXCEPT !.startRevision = head]
      BY <1>5 DEF WithRevision
    <2>2. r \in State /\ r.task = l.task /\ r.phase = l.phase /\ r.chunks = l.chunks /\ r.done = l.done
          /\ r.signals = l.signals /\ r.startRevision = head
      BY <1>1, <1>2, <2>1 DEF State
    <2>3. Sound(r)
      BY <1>1, <1>2, <2>2, TwoPhaseAssumption DEF Sound, Fits, Earned
    <2>4. disk[t] # NoFile => disk[t].startRevision = NoRevision /\ r = [disk[t] EXCEPT !.startRevision = r.startRevision]
      BY <1>4, <1>5, <2>1, <2>2
    <2> HIDE DEF r
    <2>5. s = l \/ s = r
      BY DEF l, r
    <2> QED
      BY <1>2, <1>3, <1>4, <2>2, <2>3, <2>4, <2>5
  <1>6. CASE l.startRevision # NoRevision
    <2>1. s = l
      BY <1>6 DEF WithRevision, l
    <2> QED
      BY <1>2, <1>3, <1>4, <2>1
  <1> QED
    BY <1>5, <1>6

(* Whatever is in memory, the task of the session is read back or created, *)
(* while handlers that are not ended go on.                                *)
LEMMA SessionStartStep ==
  ASSUME IInv, NEW t \in Tasks, SessionStart(t), handler' \in [Slots -> Handlers], HandlersAreSound'
  PROVE  IInv'
  <1>1. session' = t /\ UNCHANGED <<todos, head, dirty, evidence, mixed>>
    BY DEF SessionStart, workspace
  <1>2. faults' \in 0 .. MaxFaults /\ edits' \in 0 .. MaxEdits
    BY FaultIsCounted, EditIsCounted DEF SessionStart, IInv
  <1>3. PICK s \in {LoadState(t), WithRevision(LoadState(t))} :
          state' = s /\ (disk' = [disk EXCEPT ![t] = s] \/ disk' = disk)
    BY DEF SessionStart
  <1>4. /\ Sound(s) /\ s.task = t
        /\ disk[t] = NoFile => s.phase = "implementation" /\ s.chunks = 0 /\ s.signals = {}
        /\ disk[t] # NoFile => \/ s = disk[t]
                               \/ disk[t].startRevision = NoRevision
                                  /\ s = [disk[t] EXCEPT !.startRevision = s.startRevision]
    BY StartedIsSound
  <1>5. s \in State /\ s # NoFile
    BY <1>4 DEF Sound, Fits, State, NoFile
  <1>6. disk' \in [Tasks -> State \cup {NoFile}] /\ disk'[t] \in {s, disk[t]}
        /\ \A u \in Tasks : u # t => disk'[u] = disk[u]
    BY <1>3, <1>5 DEF IInv, TypeOK
  <1>7. TypeOK'
    BY <1>1, <1>2, <1>3, <1>5, <1>6 DEF IInv, TypeOK
  <1>8. Sound(state)'
    BY <1>1, <1>3, <1>4 DEF Sound, Fits, Earned
  <1>9. FilesAreSound'
    <2> SUFFICES ASSUME NEW u \in Tasks, disk'[u] # NoFile
                 PROVE  Sound(disk[u])' /\ disk'[u].task = u
      BY DEF FilesAreSound
    <2>1. CASE disk'[u] = disk[u]
      BY <2>1, <1>1 DEF IInv, FilesAreSound, Sound, Fits, Earned
    <2>2. CASE u = t /\ disk'[u] = s
      BY <2>2, <1>1, <1>4 DEF Sound, Fits, Earned
    <2> QED
      BY <2>1, <2>2, <1>6
  <1>10. ListsAreBacked'
    BY <1>1 DEF IInv, ListsAreBacked, Backed
  <1>11. MemoryIsWritten'
    <2>1. state'.task = t
      BY <1>3, <1>4
    <2>2. CASE disk'[t] = s
      BY <1>3, <1>5, <2>1, <2>2 DEF MemoryIsWritten
    <2>3. CASE disk'[t] = disk[t]
      BY <1>3, <1>4, <2>1, <2>3 DEF MemoryIsWritten
    <2> QED
      BY <1>6, <2>2, <2>3
  <1> QED
    BY <1>7, <1>8, <1>9, <1>10, <1>11 DEF IInv

(* A switch leaves the handlers in flight, a restart ends them.            *)
LEMMA StartStep ==
  ASSUME IInv, NEW t \in Tasks, Switch(t) \/ Restart(t)
  PROVE  IInv'
  <1>1. SessionStart(t) /\ head' = head /\ evidence' = evidence /\ mixed' = mixed
    BY DEF Switch, Restart, SessionStart, workspace
  <1>2. CASE handler' = handler
    <2>1. head \in Nat /\ Grows
      BY <1>1, TwoPhaseAssumption DEF Grows, IInv, TypeOK
    <2>2. handler' \in [Slots -> Handlers] /\ HandlersAreSound'
      BY <1>2, <2>1, HandlersStaySound DEF IInv, TypeOK
    <2> QED
      BY <1>1, <2>2, SessionStartStep
  <1>3. CASE handler' = [h \in Slots |-> Idle]
    <2>1. handler' \in [Slots -> Handlers] /\ \A h \in Slots : handler'[h].at = "idle"
      BY <1>3, IdleIsTyped
    <2>2. HandlersAreSound'
      BY <2>1 DEF HandlersAreSound
    <2> QED
      BY <1>1, <2>1, <2>2, SessionStartStep
  <1> QED
    BY <1>2, <1>3 DEF Switch, Restart

LEMMA ReadStep ==
  ASSUME IInv, NEW h \in Slots, NEW at \in {"turn_end", "before_agent_start", "tool_call"}, Read(h, at)
  PROVE  IInv'
  <1>1. PICK list \in {todos[session].list, EmptyList} :
          handler' = [handler EXCEPT ![h] = [at |-> at, of |-> session, read |-> list]]
    BY DEF Read
  <1>2. faults' \in 0 .. MaxFaults
    BY FaultIsCounted DEF Read, IInv
  <1>3. UNCHANGED <<state, disk, session, todos, head, dirty, evidence, mixed, edits>>
    BY DEF Read, workspace
  <1>4. session \in Tasks /\ list \in TodoList /\ Backed(list, session)
    <2>1. session \in Tasks /\ todos[session] \in [list : TodoList, passed : BOOLEAN]
      BY DEF IInv, TypeOK
    <2>2. CASE list = todos[session].list
      BY <2>1, <2>2 DEF IInv, ListsAreBacked
    <2>3. CASE list = EmptyList
      BY <2>1, <2>3 DEF Backed, EmptyList, TodoList
    <2> QED
      BY <2>1, <2>2, <2>3
  <1>5. handler' \in [Slots -> Handlers] /\ HandlersAreSound'
    <2> DEFINE x == [at |-> at, of |-> session, read |-> list]
    <2>1. x \in Handlers
      BY <1>4 DEF Handlers
    <2>2. x.read = list /\ x.of = session /\ x.at # "sync" /\ handler' = [handler EXCEPT ![h] = x]
      BY <1>1
    <2> HIDE DEF x
    <2> QED
      BY <2>1, <2>2, <1>3, <1>4, HandlersStay
  <1> QED
    BY <1>2, <1>3, <1>5
       DEF IInv, TypeOK, Sound, Fits, Earned, FilesAreSound, ListsAreBacked, Backed, MemoryIsWritten

(* A handler that ends with a state it wrote or not, its list applied.     *)
LEMMA EndingStep ==
  ASSUME IInv, NEW h \in Slots, NEW next, Fits(next), next.task \notin mixed' => Earned(next),
         Written(next), Finish(h), Outside, mixed \subseteq mixed', mixed' \subseteq Tasks
  PROVE  IInv'
  <1>1. UNCHANGED <<session, todos, head, dirty, evidence, edits>>
    BY DEF Outside, workspace
  <1>2. /\ state' \in State /\ disk' \in [Tasks -> State \cup {NoFile}]
        /\ Sound(state)' /\ FilesAreSound' /\ MemoryIsWritten'
        /\ faults' \in 0 .. MaxFaults
    BY <1>1, PersistIsSound
  <1>3. handler' \in [Slots -> Handlers] /\ HandlersAreSound'
    BY <1>1, HandlersStay, IdleIsTyped DEF Finish
  <1> QED
    BY <1>1, <1>2, <1>3 DEF IInv, TypeOK, ListsAreBacked, Backed

LEMMA QuietStep ==
  ASSUME IInv, NEW h \in Slots, Finish(h), Outside, Fault \/ NoFault, UNCHANGED <<state, disk>>,
         mixed \subseteq mixed', mixed' \subseteq Tasks
  PROVE  IInv'
  <1>1. Fits(state) /\ (state.task \notin mixed' => Earned(state))
    BY DEF IInv, Sound
  <1>2. Written(state)
    BY DEF Written
  <1> QED
    BY <1>1, <1>2, EndingStep

LEMMA ApplyMixes ==
  ASSUME IInv, NEW h \in Slots, NEW s \in State, Apply(h, s)
  PROVE  /\ mixed \subseteq mixed' /\ mixed' \subseteq Tasks
         /\ s.task \notin mixed' => handler[h].of = s.task
  BY DEF Apply, State, IInv, TypeOK

LEMMA QueueStep == ASSUME IInv, NEW h \in Slots, Queue(h) PROVE IInv'
  <1>1. Finish(h) /\ Outside /\ mixed' = mixed /\ mixed \subseteq Tasks
    BY DEF Queue, IInv, TypeOK
  <1>2. CASE handler[h].read.impl = "open"
    <2>1. PICK g \in Signals : Persist(RecordSignal(state, g))
      BY <1>2 DEF Queue
    <2> DEFINE next == RecordSignal(state, g)
    <2>2. Same(state, next) /\ (Earned(state) => Earned(next))
      BY SignalIsEarned DEF IInv, TypeOK
    <2>3. Written(next)
      BY <2>1, PersistWrites
    <2> HIDE DEF next
    <2>4. Fits(next) /\ (next.task \notin mixed' => Earned(next))
      BY <1>1, <2>2 DEF IInv, Sound, Same, Fits
    <2> QED
      BY <1>1, <2>3, <2>4, EndingStep
  <1>3. CASE handler[h].read.impl # "open"
    BY <1>1, <1>3, QuietStep DEF Queue
  <1> QED
    BY <1>2, <1>3

(* What a measurement may write: the task it finds, completed or reviewed. *)
LEMMA MeasureWrites ==
  ASSUME IInv, NEW h \in Slots, Measure(h), handler[h].read.impl = "done"
  PROVE  \/ Written(CompleteWithoutReview(state))
         \/ Written(StartReview(state, Scope(state.startRevision)))
  <1>1. CompleteWithoutReview(state).task = state.task
    BY CompleteIsEarned DEF Measure, IInv, TypeOK, Same
  <1>2. CASE Persist(CompleteWithoutReview(state))
    BY <1>2, PersistWrites
  <1>3. CASE Persist(StartReview(state, Scope(state.startRevision)))
    BY <1>3, PersistWrites
  <1>4. CASE /\ Fault
             /\ state' = CompleteWithoutReview(state)
             /\ disk' = [disk EXCEPT ![state.task] = CompleteWithoutReview(state)]
    BY <1>1, <1>4 DEF Written
  <1> QED
    BY <1>2, <1>3, <1>4 DEF Measure

LEMMA MeasureStep == ASSUME IInv, NEW h \in Slots, Measure(h) PROVE IInv'
  <1>1. Finish(h) /\ Outside /\ state.phase = "implementation" /\ handler[h].at = "turn_end" /\ state \in State
    BY DEF Measure, IInv, TypeOK
  <1>2. /\ mixed \subseteq mixed' /\ mixed' \subseteq Tasks
        /\ state.task \notin mixed' => handler[h].of = state.task
    BY <1>1, ApplyMixes DEF Measure
  <1>3. CASE handler[h].read.impl # "done"
    BY <1>1, <1>2, <1>3, QuietStep DEF Measure
  <1>4. CASE handler[h].read.impl = "done"
    <2>1. state.task \notin mixed' => Earned(state) /\ 0 \in evidence[state.task]
      BY <1>1, <1>2, <1>4 DEF IInv, HandlersAreSound, Backed, Sound
    <2>2. Scope(state.startRevision) \in 0 .. MaxChunks
      BY ScopeIsTyped DEF IInv, Sound
    <2> DEFINE completed == CompleteWithoutReview(state)
               started == StartReview(state, Scope(state.startRevision))
    <2>3. Same(state, completed) /\ (state.task \notin mixed' => Earned(completed))
      BY <1>1, <2>1, CompleteIsEarned
    <2>4. Same(state, started) /\ (state.task \notin mixed' => Earned(started))
      BY <1>1, <2>1, <2>2, StartIsEarned
    <2>5. Written(completed) \/ Written(started)
      BY <1>4, MeasureWrites
    <2> HIDE DEF completed, started
    <2>6. Fits(completed) /\ completed.task = state.task /\ Fits(started) /\ started.task = state.task
      BY <2>3, <2>4 DEF IInv, Sound, Same, Fits
    <2>7. CASE Written(completed)
      BY <1>1, <1>2, <2>3, <2>6, <2>7, EndingStep
    <2>8. CASE Written(started)
      BY <1>1, <1>2, <2>4, <2>6, <2>8, EndingStep
    <2> QED
      BY <2>5, <2>7, <2>8
  <1> QED
    BY <1>3, <1>4

LEMMA TakeStep == ASSUME IInv, NEW h \in Slots, Take(h) PROVE IInv'
  <1>1. PICK passed \in BOOLEAN :
          /\ NoFault \/ Fault
          /\ handler' = [handler EXCEPT ![h] =
               [at |-> "sync", of |-> handler[h].of, read |-> handler[h].read, snapshot |-> state,
                passed |-> passed]]
    BY DEF Take
  <1> DEFINE x == [at |-> "sync", of |-> handler[h].of, read |-> handler[h].read, snapshot |-> state,
                   passed |-> passed]
  <1>2. handler[h].at \in {"turn_end", "before_agent_start"}
        /\ UNCHANGED <<state, disk, session, todos, head, dirty, evidence, mixed, edits>>
    BY DEF Take, Outside, workspace
  <1>3. handler[h].of \in Tasks /\ handler[h].read \in TodoList /\ Backed(handler[h].read, handler[h].of)
    BY <1>2 DEF IInv, TypeOK, HandlersAreSound, Handlers, Idle
  <1>4. state \in State /\ faults' \in 0 .. MaxFaults
    BY <1>1, FaultIsCounted DEF IInv, TypeOK
  <1>5. x \in Handlers
    BY <1>3, <1>4 DEF Handlers
  <1>6. x.of = handler[h].of /\ x.read = handler[h].read /\ x.snapshot = state /\ handler' = [handler EXCEPT ![h] = x]
    BY <1>1
  <1> HIDE DEF x
  <1>7. handler' \in [Slots -> Handlers] /\ HandlersAreSound'
    BY <1>2, <1>3, <1>5, <1>6, HandlersStay DEF IInv
  <1> QED
    BY <1>2, <1>4, <1>7
       DEF IInv, TypeOK, Sound, Fits, Earned, FilesAreSound, ListsAreBacked, Backed, MemoryIsWritten

LEMMA SyncStep == ASSUME IInv, NEW h \in Slots, Sync(h) PROVE IInv'
  <1> DEFINE s == handler[h].snapshot
             next == Progress(s, handler[h].read, handler[h].passed)
  <1>1. handler[h].at = "sync" /\ Finish(h) /\ Outside
    BY DEF Sync
  <1>2. handler[h].read \in TodoList /\ handler[h].passed \in BOOLEAN /\ s \in State
    BY <1>1 DEF IInv, TypeOK, Handlers, Idle
  <1>3. Sound(s) /\ Backed(handler[h].read, handler[h].of)
    BY <1>1 DEF IInv, HandlersAreSound
  <1>4. /\ mixed \subseteq mixed' /\ mixed' \subseteq Tasks
        /\ s.task \notin mixed' => handler[h].of = s.task
    BY <1>2, ApplyMixes DEF Sync
  <1>5. Same(s, next) /\ (Earned(s) /\ handler[h].read.reviewed \subseteq evidence[s.task] => Earned(next))
    BY <1>2, ProgressIsEarned
  <1>6. (NoFault /\ UNCHANGED <<state, disk>>) \/ Written(next)
    BY PersistWrites DEF Sync
  <1> HIDE DEF s, next
  <1>7. Fits(next) /\ (next.task \notin mixed' => Earned(next))
    BY <1>3, <1>4, <1>5 DEF Sound, Same, Fits, Backed
  <1> QED
    BY <1>1, <1>4, <1>6, <1>7, QuietStep, EndingStep

LEMMA Inductive == IInv /\ [Next]_vars => IInv'
  <1> SUFFICES ASSUME IInv, [Next]_vars PROVE IInv'
    OBVIOUS
  <1>1. CASE Work
    BY <1>1, WorkStep
  <1>2. CASE Change
    BY <1>2, ChangeStep
  <1>3. ASSUME NEW t \in Tasks, Switch(t) \/ Restart(t) PROVE IInv'
    BY <1>3, StartStep
  <1>4. ASSUME NEW h \in Slots, TurnEnd(h) \/ BeforeAgentStart(h) \/ ToolCall(h) PROVE IInv'
    BY <1>4, ReadStep DEF TurnEnd, BeforeAgentStart, ToolCall
  <1>5. ASSUME NEW h \in Slots, Handle(h) PROVE IInv'
    BY <1>5, QueueStep, MeasureStep, TakeStep, SyncStep DEF Handle
  <1>6. CASE UNCHANGED vars
    <2>1. UNCHANGED <<state, disk, session, handler, todos, head, dirty, evidence, mixed, edits, faults>>
      BY <1>6 DEF vars
    <2> QED
      BY <2>1 DEF IInv, TypeOK, Sound, Fits, Earned, FilesAreSound, ListsAreBacked, HandlersAreSound, Backed,
                  MemoryIsWritten
  <1> QED
    BY <1>1, <1>2, <1>3, <1>4, <1>5, <1>6 DEF Next

(* The inductive invariant: what memory, the files and the handlers in     *)
(* flight hold is backed by finished work of the task it is kept for.      *)
THEOREM Invariance == Spec => []IInv
  <1>1. Init => IInv
    BY InitEstablishes
  <1>2. IInv /\ [Next]_vars => IInv'
    BY Inductive
  <1> QED
    BY <1>1, <1>2, PTL DEF Spec

(* Every variable keeps its type. *)
THEOREM TypeCorrect == Spec => []TypeOK
  <1>1. IInv => TypeOK
    BY DEF IInv
  <1> QED
    BY <1>1, Invariance, PTL

(* No phase and no finished chunk is without its evidence, over stale      *)
(* writes, failed writes, restarts, switches and empty todo lists, unless  *)
(* a handler that a switch overtook worked on the task.                    *)
THEOREM EveryPhaseIsEarned == Spec => []PhaseIsEarned
  <1>1. IInv => PhaseIsEarned
    BY DEF IInv, PhaseIsEarned, FilesAreSound, Sound
  <1> QED
    BY <1>1, Invariance, PTL

(* The runtime works on what its file says. *)
THEOREM MemoryAgreesWithFile == Spec => []MemoryIsWritten
  <1>1. IInv => MemoryIsWritten
    BY DEF IInv
  <1> QED
    BY <1>1, Invariance, PTL

(* Memory leaves the task of the running session only by the write of a    *)
(* handler that took its state before the switch.                          *)
THEOREM OnlyOvertakenHandlersStray == Spec => OnlyTheOvertakenStray
  <1> DEFINE Overtaken == \E h \in Slots : /\ handler[h].at = "sync" /\ handler[h].snapshot.task # session
                                           /\ handler'[h] = Idle
  <1>1. ASSUME IInv, [Next]_vars, state.task = session, state'.task # session' PROVE Overtaken
    <2>1. CASE state' = state /\ session' = session
      BY <1>1, <2>1
    <2>2. ASSUME NEW t \in Tasks, SessionStart(t) PROVE Overtaken
      <3>1. PICK s \in {LoadState(t), WithRevision(LoadState(t))} : state' = s /\ session' = t
        BY <2>2 DEF SessionStart
      <3>2. s.task = t
        BY <1>1, StartedIsSound
      <3> QED
        BY <1>1, <3>1, <3>2
    <2>3. ASSUME NEW next, Same(state, next), Written(next), session' = session PROVE Overtaken
      BY <1>1, <2>3 DEF Same, Written
    <2>4. ASSUME NEW h \in Slots, Queue(h) PROVE Overtaken
      <3>1. session' = session /\ state \in State
        BY <1>1, <2>4 DEF Queue, Outside, IInv, TypeOK
      <3>2. ASSUME NEW g \in Signals, Persist(RecordSignal(state, g)) PROVE Overtaken
        BY <2>3, <3>1, <3>2, SignalIsEarned, PersistWrites
      <3> QED
        BY <2>1, <2>4, <3>1, <3>2 DEF Queue
    <2>5. ASSUME NEW h \in Slots, Measure(h) PROVE Overtaken
      <3>1. session' = session /\ state \in State /\ state.phase = "implementation"
        BY <1>1, <2>5 DEF Measure, Outside, IInv, TypeOK
      <3>2. CASE handler[h].read.impl # "done"
        BY <2>1, <2>5, <3>1, <3>2 DEF Measure
      <3>3. CASE handler[h].read.impl = "done"
        <4>1. Scope(state.startRevision) \in 0 .. MaxChunks
          BY <1>1, ScopeIsTyped DEF IInv, Sound
        <4> QED
          BY <1>1, <2>3, <2>5, <3>1, <3>3, <4>1, MeasureWrites, CompleteIsEarned, StartIsEarned
      <3> QED
        BY <3>2, <3>3
    <2>6. ASSUME NEW h \in Slots, Sync(h) PROVE Overtaken
      <3> DEFINE next == Progress(handler[h].snapshot, handler[h].read, handler[h].passed)
      <3>1. handler[h].at = "sync" /\ handler'[h] = Idle /\ session' = session
        BY <1>1, <2>6 DEF Sync, Finish, Outside, IInv, TypeOK
      <3>2. handler[h].read \in TodoList /\ handler[h].passed \in BOOLEAN /\ handler[h].snapshot \in State
        BY <1>1, <3>1 DEF IInv, TypeOK, Handlers, Idle
      <3>3. next.task = handler[h].snapshot.task
        BY <3>2, ProgressIsEarned DEF Same
      <3>4. state' = state \/ state' = next
        BY <2>6 DEF Sync, Persist
      <3> HIDE DEF next
      <3> QED
        BY <1>1, <2>1, <3>1, <3>3, <3>4
    <2>7. CASE Work \/ Change
      BY <2>1, <2>7 DEF Work, Change, Edit
    <2>8. ASSUME NEW h \in Slots, TurnEnd(h) \/ BeforeAgentStart(h) \/ ToolCall(h) \/ Take(h) PROVE Overtaken
      BY <2>1, <2>8 DEF TurnEnd, BeforeAgentStart, ToolCall, Read, Take, Outside
    <2>9. CASE UNCHANGED vars
      BY <2>1, <2>9 DEF vars
    <2> QED
      BY <1>1, <2>2, <2>4, <2>5, <2>6, <2>7, <2>8, <2>9 DEF Next, Handle, Switch, Restart
  <1>2. IInv /\ [Next]_vars => [(state.task = session /\ state'.task # session') => Overtaken]_vars
    BY <1>1
  <1> QED
    BY <1>2, Invariance, PTL DEF Spec, OnlyTheOvertakenStray

(***************************************************************************)
(* What takes progress back.                                               *)
(***************************************************************************)
Above(s, n) ==
  /\ PhaseOrder[s.phase] <= PhaseOrder[n.phase]
  /\ s.done \subseteq n.done
  /\ s.signals \subseteq n.signals

LEMMA OrderIsTyped == \A p \in Phases : PhaseOrder[p] \in 0 .. 5
  BY DEF Phases, PhaseOrder

LEMMA AboveItself == ASSUME NEW s \in State PROVE Above(s, s)
  BY OrderIsTyped DEF Above, State

LEMMA MoveIsAbove ==
  ASSUME NEW s \in State, NEW p \in Phases
  PROVE  Above(s, MoveToPhase(s, p))
  <1>1. s.phase \in Phases
    BY DEF State
  <1>2. CASE PhaseOrder[p] > PhaseOrder[s.phase]
    <2>1. MoveToPhase(s, p).phase = p
      BY <1>2 DEF MoveToPhase, State
    <2> QED
      BY <1>1, <1>2, <2>1, OrderIsTyped, MoveIsTyped DEF Above
  <1>3. CASE ~(PhaseOrder[p] > PhaseOrder[s.phase])
    BY <1>3, AboveItself DEF MoveToPhase
  <1> QED
    BY <1>2, <1>3

LEMMA ProgressIsAbove ==
  ASSUME NEW s \in State, NEW list \in TodoList, NEW passed \in BOOLEAN
  PROVE  Above(s, Progress(s, list, passed))
  <1> DEFINE n == SyncChunkStatus(s, list)
  <1>1. n = [s EXCEPT !.done = s.done \cup (list.reviewed \cap (1 .. s.chunks))]
    BY DEF SyncChunkStatus
  <1>2. s.done \cup (list.reviewed \cap (1 .. s.chunks)) \in SUBSET (1 .. MaxChunks)
    BY DEF State, TodoList
  <1>3. n \in State /\ n.phase = s.phase /\ n.signals = s.signals /\ s.done \subseteq n.done
    BY <1>1, <1>2 DEF State
  <1> HIDE DEF n
  <1>4. \A p \in Phases : Above(n, MoveToPhase(n, p))
    BY <1>3, MoveIsAbove
  <1>5. {"review_fixes", "test_pending", "complete"} \subseteq Phases
    BY DEF Phases
  <1>6. Above(n, MarkComplete(n)) /\ Above(n, TransitionToTestPending(n)) /\ Above(n, TransitionToReviewFixes(n))
    BY <1>3, <1>4, <1>5, AboveItself DEF MarkComplete, TransitionToTestPending, TransitionToReviewFixes
  <1>7. Progress(s, list, passed) \in {n, MarkComplete(n), TransitionToTestPending(n), TransitionToReviewFixes(n)}
    BY ProgressMoves DEF n
  <1>8. Above(n, Progress(s, list, passed))
    BY <1>3, <1>6, <1>7, AboveItself
  <1> QED
    BY <1>3, <1>8 DEF Above

LEMMA StartIsAbove ==
  ASSUME NEW s \in State, NEW n \in 0 .. MaxChunks
  PROVE  Above(s, StartReview(s, n))
  <1> DEFINE pending == MoveToPhase(s, "review_pending")
             moved == MoveToPhase(pending, "review")
  <1>1. {"review_pending", "review"} \subseteq Phases
    BY DEF Phases
  <1>2. pending \in State /\ Above(s, pending)
    BY <1>1, MoveIsTyped, MoveIsAbove
  <1> HIDE DEF pending
  <1>3. moved \in State /\ Above(pending, moved)
    BY <1>1, <1>2, MoveIsTyped, MoveIsAbove
  <1> HIDE DEF moved
  <1>4. StartReview(s, n) = [moved EXCEPT !.chunks = n]
    BY DEF StartReview, pending, moved
  <1>5. StartReview(s, n).phase = moved.phase /\ StartReview(s, n).done = moved.done
        /\ StartReview(s, n).signals = moved.signals
    BY <1>3, <1>4 DEF State
  <1>6. PhaseOrder[s.phase] \in Nat /\ PhaseOrder[pending.phase] \in Nat /\ PhaseOrder[moved.phase] \in Nat
    BY <1>2, <1>3, OrderIsTyped DEF State
  <1> QED
    BY <1>2, <1>3, <1>5, <1>6 DEF Above

(* What memory holds is in its file, so a write above memory is above it. *)
LEMMA WriteAboveMemory ==
  ASSUME IInv, NEW next \in State, Above(state, next), next.task = state.task, Written(next), NEW t \in Tasks
  PROVE  ~TakenBack(t)
  <1>1. state.task \in Tasks /\ \A u \in Tasks : disk[u] # NoFile => disk[u] \in State
    BY DEF IInv, Sound, Fits, State, FilesAreSound
  <1>2. \A u \in Tasks : disk[u] # NoFile => PhaseOrder[disk[u].phase] \in Nat
    BY <1>1, OrderIsTyped DEF State
  <1>3. CASE disk' = [disk EXCEPT ![next.task] = next]
    <2>1. CASE t = state.task
      <3> SUFFICES ASSUME disk[t] # NoFile PROVE ~TakenBack(t)
        BY DEF TakenBack
      <3>1. disk[t].phase = state.phase /\ disk[t].done = state.done /\ disk[t].signals = state.signals
            /\ disk'[t] = next
        BY <1>1, <1>3, <2>1 DEF IInv, MemoryIsWritten, TypeOK, State
      <3>2. ~(PhaseOrder[next.phase] < PhaseOrder[state.phase])
        <4>1. PhaseOrder[next.phase] \in Nat /\ PhaseOrder[state.phase] \in Nat
          BY OrderIsTyped DEF State, IInv, TypeOK
        <4> QED
          BY <4>1 DEF Above
      <3> QED
        BY <3>1, <3>2 DEF TakenBack, Above
    <2>2. CASE t # state.task
      <3>1. disk'[t] = disk[t]
        BY <1>3, <2>2 DEF IInv, TypeOK
      <3> QED
        BY <1>1, <1>2, <3>1 DEF TakenBack
    <2> QED
      BY <2>1, <2>2
  <1>4. CASE disk' = disk
    BY <1>1, <1>2, <1>4 DEF TakenBack
  <1> QED
    BY <1>3, <1>4 DEF Written

LEMMA UntouchedIsNotTakenBack == ASSUME IInv, disk' = disk, NEW t \in Tasks PROVE ~TakenBack(t)
  <1>1. disk[t] # NoFile => PhaseOrder[disk[t].phase] \in Nat
    BY OrderIsTyped DEF IInv, FilesAreSound, Sound, Fits, State
  <1> QED
    BY <1>1 DEF TakenBack

LEMMA StartTakesNothingBack == ASSUME IInv, NEW u \in Tasks, SessionStart(u), NEW t \in Tasks PROVE ~TakenBack(t)
  <1>1. CASE disk' = disk
    BY <1>1, UntouchedIsNotTakenBack
  <1>2. ASSUME NEW s \in {LoadState(u), WithRevision(LoadState(u))}, disk' = [disk EXCEPT ![u] = s] PROVE ~TakenBack(t)
    <2>1. disk[t] # NoFile => /\ disk'[t].phase = disk[t].phase /\ disk'[t].done = disk[t].done
                              /\ disk'[t].signals = disk[t].signals
      <3>1. CASE t # u
        BY <1>2, <3>1 DEF IInv, TypeOK
      <3>2. CASE t = u
        BY <1>2, <3>2, StartedIsSound DEF IInv, TypeOK, FilesAreSound, Sound, Fits, State
      <3> QED
        BY <3>1, <3>2
    <2>2. disk[t] # NoFile => PhaseOrder[disk[t].phase] \in Nat
      BY OrderIsTyped DEF IInv, FilesAreSound, Sound, Fits, State
    <2> QED
      BY <2>1, <2>2 DEF TakenBack
  <1> QED
    BY <1>1, <1>2 DEF SessionStart

LEMMA QueueTakesNothingBack == ASSUME IInv, NEW h \in Slots, Queue(h), NEW t \in Tasks PROVE ~TakenBack(t)
  <1>1. CASE disk' = disk
    BY <1>1, UntouchedIsNotTakenBack
  <1>2. ASSUME NEW g \in Signals, Persist(RecordSignal(state, g)) PROVE ~TakenBack(t)
    <2> DEFINE next == RecordSignal(state, g)
    <2>1. state \in State /\ next = [state EXCEPT !.signals = state.signals \cup {g}]
      BY DEF RecordSignal, IInv, TypeOK
    <2>2. next \in State /\ next.task = state.task /\ next.phase = state.phase /\ next.done = state.done
          /\ state.signals \subseteq next.signals
      BY <2>1 DEF State
    <2>3. Above(state, next)
      BY <2>1, <2>2, OrderIsTyped DEF Above, State
    <2>4. Written(next)
      BY <1>2, PersistWrites
    <2> HIDE DEF next
    <2> QED
      BY <2>2, <2>3, <2>4, WriteAboveMemory
  <1> QED
    BY <1>1, <1>2 DEF Queue

LEMMA MeasureTakesNothingBack == ASSUME IInv, NEW h \in Slots, Measure(h), NEW t \in Tasks PROVE ~TakenBack(t)
  <1> DEFINE started == StartReview(state, Scope(state.startRevision))
             completed == CompleteWithoutReview(state)
  <1>1. CASE disk' = disk
    BY <1>1, UntouchedIsNotTakenBack
  <1>2. state \in State
    BY DEF IInv, TypeOK
  <1>3. state.phase = "implementation" /\ "complete" \in Phases
    BY DEF Measure, Phases
  <1>4. Above(state, completed) /\ completed \in State /\ completed.task = state.task
    BY <1>2, <1>3, MoveIsAbove, MoveIsTyped DEF CompleteWithoutReview
  <1>5. CASE Written(completed)
    BY <1>4, <1>5, WriteAboveMemory
  <1>6. CASE Written(started)
    <2>1. Scope(state.startRevision) \in 0 .. MaxChunks
      BY ScopeIsTyped DEF IInv, Sound
    <2>2. started \in State /\ started.task = state.task
      BY <1>2, <1>3, <2>1, StartIsEarned DEF Same
    <2>3. Above(state, started)
      BY <1>2, <2>1, StartIsAbove
    <2> QED
      BY <1>6, <2>2, <2>3, WriteAboveMemory
  <1>7. disk' = disk \/ Written(completed) \/ Written(started)
    BY MeasureWrites DEF Measure
  <1> QED
    BY <1>1, <1>5, <1>6, <1>7

LEMMA FreshSyncTakesNothingBack ==
  ASSUME IInv, NEW h \in Slots, Sync(h), handler[h].snapshot = state, NEW t \in Tasks
  PROVE  ~TakenBack(t)
  <1> DEFINE next == Progress(handler[h].snapshot, handler[h].read, handler[h].passed)
  <1>1. handler[h].at = "sync"
    BY DEF Sync
  <1>2. handler[h].read \in TodoList /\ handler[h].passed \in BOOLEAN
    BY <1>1 DEF IInv, TypeOK, Handlers, Idle
  <1>3. state \in State
    BY DEF IInv, TypeOK
  <1>4. next \in State /\ next.task = state.task
    BY <1>2, <1>3, ProgressIsEarned DEF Same
  <1>5. Above(state, next)
    BY <1>2, <1>3, ProgressIsAbove
  <1>6. disk' = disk \/ Written(next)
    BY PersistWrites DEF Sync
  <1> HIDE DEF next
  <1> QED
    BY <1>4, <1>5, <1>6, WriteAboveMemory, UntouchedIsNotTakenBack

(* Only a handler that wrote a state it took before another one wrote      *)
(* takes back a phase, a finished chunk or a queued signal.                *)
THEOREM OnlyStaleWritesTakeBack == Spec => OnlyAStaleWriteTakesBack
  <1> DEFINE Stale(t) == \E h \in Slots : handler[h].at = "sync" /\ handler[h].snapshot # state /\ handler'[h] = Idle
  <1>1. ASSUME IInv, [Next]_vars, NEW t \in Tasks, TakenBack(t) PROVE Stale(t)
    <2>1. CASE disk' = disk
      BY <1>1, <2>1, UntouchedIsNotTakenBack
    <2>2. ASSUME NEW u \in Tasks, Switch(u) \/ Restart(u) PROVE Stale(t)
      BY <1>1, <2>2, StartTakesNothingBack DEF Switch, Restart
    <2>3. ASSUME NEW h \in Slots, Queue(h) \/ Measure(h) PROVE Stale(t)
      BY <1>1, <2>3, QueueTakesNothingBack, MeasureTakesNothingBack
    <2>4. ASSUME NEW h \in Slots, Sync(h) PROVE Stale(t)
      <3>1. handler[h].at = "sync" /\ handler'[h] = Idle
        BY <1>1, <2>4 DEF Sync, Finish, IInv, TypeOK
      <3>2. handler[h].snapshot # state
        BY <1>1, <2>4, FreshSyncTakesNothingBack
      <3> QED
        BY <3>1, <3>2
    <2>5. CASE Work \/ Change
      BY <2>1, <2>5 DEF Work, Change, Edit
    <2>6. ASSUME NEW h \in Slots, TurnEnd(h) \/ BeforeAgentStart(h) \/ ToolCall(h) \/ Take(h) PROVE Stale(t)
      BY <2>1, <2>6 DEF TurnEnd, BeforeAgentStart, ToolCall, Read, Take
    <2>7. CASE UNCHANGED vars
      BY <2>1, <2>7 DEF vars
    <2> QED
      BY <1>1, <2>2, <2>3, <2>4, <2>5, <2>6, <2>7 DEF Next, Handle
  <1>2. IInv /\ [Next]_vars => [\A t \in Tasks : TakenBack(t) => Stale(t)]_vars
    BY <1>1
  <1> QED
    BY <1>2, Invariance, PTL DEF Spec, OnlyAStaleWriteTakesBack

=============================================================================
