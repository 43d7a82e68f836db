-------------------------- MODULE TwoPhaseReview --------------------------
(***************************************************************************)
(* The two-phase review of a session (packages/two-phase-review): the      *)
(* phase of a task, kept in memory and in a file per task, follows the     *)
(* todo list of the agent, the diff of the workspace and the validation    *)
(* ledger.  The handlers wait for the todo list and for the ledger, so     *)
(* what they act on is what they read before, and another handler may have *)
(* written in between.  A session may be switched or restarted at any      *)
(* time; the state is read back from its file.  A switch ends no handler:  *)
(* one that waits goes on with the list of its own session and with        *)
(* whatever state memory holds by then.                                    *)
(*                                                                         *)
(* The agent, its todo list, the workspace and the ledger are the          *)
(* environment.  A revision is the number of commits; every commit, and    *)
(* the working tree when it is dirty, changes one module, and a chunk of   *)
(* the review is one changed module.                                       *)
(***************************************************************************)
EXTENDS Naturals, FiniteSets

CONSTANTS
  Tasks,           \* session ids, each of which is a task of its own
  Signals,         \* reviews that a tool call may ask for
  Slots,           \* handlers that may be in flight at a time
  Lists,           \* the todo lists the agent may have, with what the ledger says
  MaxCommits,      \* bound on the commits
  MaxEdits,        \* bound on the changes of the environment
  MaxFaults,       \* bound on failed writes, git calls and ledger reads, empty lists
  NoRevision       \* the start revision of a task whose git call failed

VARIABLES
  state,     \* the state the runtime works on
  disk,      \* the file of every task, or NoFile
  session,   \* the task of the running session
  handler,   \* the handlers in flight
  todos,     \* the todo list of every session, with the result of its ledger
  head,      \* the number of commits of the workspace
  dirty,     \* does the working tree have changes?
  evidence,  \* history: the work of a task that was really finished (0: its
             \* implementation, n: the review of its chunk n)
  mixed,     \* history: the tasks to which a handler of another session
             \* applied its todo list
  edits, faults

workspace == <<head, dirty>>
vars == <<state, disk, session, handler, todos, head, dirty, evidence, mixed, edits, faults>>

Phases == {"implementation", "review_pending", "review", "review_fixes", "test_pending", "complete"}

PhaseOrder ==
  [implementation |-> 0, review_pending |-> 1, review |-> 2, review_fixes |-> 3, test_pending |-> 4, complete |-> 5]

MaxChunks == MaxCommits + 1

State == [task : Tasks, phase : Phases, startRevision : (0 .. MaxCommits) \cup {NoRevision},
          chunks : 0 .. MaxChunks, done : SUBSET (1 .. MaxChunks), signals : SUBSET Signals]

NoFile == [none |-> TRUE]

(* What is known of a todo list: its implementation items (none, one open,  *)
(* all closed with one completed), the chunks with a completed item, an     *)
(* open fix, its test items (none, one open, all closed).                   *)
TodoList == [impl : {"none", "open", "done"}, reviewed : SUBSET (1 .. MaxChunks),
             fixes : BOOLEAN, tests : {"none", "open", "closed"}]

ASSUME TwoPhaseAssumption ==
  /\ MaxCommits \in Nat /\ MaxEdits \in Nat /\ MaxFaults \in Nat
  /\ NoRevision \notin Nat
  /\ Lists \subseteq [list : TodoList, passed : BOOLEAN]

EmptyList == [impl |-> "none", reviewed |-> {}, fixes |-> FALSE, tests |-> "none"]

Idle == [at |-> "idle"]
Handlers ==
  {Idle} \cup [at : {"turn_end", "before_agent_start", "tool_call"}, of : Tasks, read : TodoList]
         \cup [at : {"sync"}, of : Tasks, read : TodoList, snapshot : State, passed : BOOLEAN]

(***************************************************************************)
(* The operations on a state (state.ts, rules.ts).                         *)
(***************************************************************************)
CreateState(t) ==
  [task |-> t, phase |-> "implementation", startRevision |-> NoRevision, chunks |-> 0, done |-> {}, signals |-> {}]

MoveToPhase(s, p) == IF PhaseOrder[p] > PhaseOrder[s.phase] THEN [s EXCEPT !.phase = p] ELSE s

SomeChunkDone(s) == s.chunks > 0 /\ s.done # {}

AllChunksDone(s) == s.chunks > 0 /\ 1 .. s.chunks \subseteq s.done

StartReview(s, n) == [MoveToPhase(MoveToPhase(s, "review_pending"), "review") EXCEPT !.chunks = n]

TransitionToReviewFixes(s) ==
  IF s.phase = "review" /\ AllChunksDone(s) THEN MoveToPhase(s, "review_fixes") ELSE s

TransitionToTestPending(s) ==
  IF s.phase \in {"review", "review_fixes"} /\ AllChunksDone(s) THEN MoveToPhase(s, "test_pending") ELSE s

MarkComplete(s) ==
  IF s.phase \notin {"implementation", "review_pending"} /\ AllChunksDone(s) THEN MoveToPhase(s, "complete") ELSE s

CompleteWithoutReview(s) == IF s.phase = "implementation" THEN MoveToPhase(s, "complete") ELSE s

RecordSignal(s, g) == [s EXCEPT !.signals = @ \cup {g}]

SyncForgetting(s, list) == [s EXCEPT !.done = list.reviewed \cap (1 .. s.chunks)]

SyncChunkStatus(s, list) == [s EXCEPT !.done = @ \cup (list.reviewed \cap (1 .. s.chunks))]

ProgressWithoutTests(s, list, passed) ==
  LET synced   == SyncChunkStatus(s, list)
      finished == IF list.tests # "open" /\ passed
                  THEN MarkComplete(synced) ELSE TransitionToTestPending(synced)
  IN  IF synced.phase = "review" /\ AllChunksDone(synced)
      THEN IF list.fixes THEN TransitionToReviewFixes(synced) ELSE finished
      ELSE IF synced.phase = "review_fixes" /\ ~list.fixes THEN finished ELSE synced

(* What syncProgress makes of the state it took before it waited, and of   *)
(* the validation gate as it was read.                                     *)
Progress(s, list, passed) ==
  LET synced   == SyncChunkStatus(s, list)
      workDone == list.tests # "open" /\ passed
      finished == IF workDone THEN MarkComplete(synced) ELSE TransitionToTestPending(synced)
  IN  CASE synced.phase = "review" /\ AllChunksDone(synced) ->
             IF list.fixes THEN TransitionToReviewFixes(synced) ELSE finished
        [] synced.phase = "review_fixes" /\ ~list.fixes -> finished
        [] synced.phase = "test_pending" /\ workDone -> MarkComplete(synced)
        [] OTHER -> synced

(* The chunks of the diff since the revision, or since HEAD. *)
Scope(revision) ==
  (IF revision = NoRevision THEN 0 ELSE head - revision) + (IF dirty THEN 1 ELSE 0)

(***************************************************************************)
(* The environment: a fault is counted, and the agent, the workspace and   *)
(* the ledger change between any two steps.                                *)
(***************************************************************************)
Fault == faults < MaxFaults /\ faults' = faults + 1
NoFault == faults' = faults

Edit == edits < MaxEdits /\ edits' = edits + 1 /\ UNCHANGED <<state, disk, session, handler, mixed, faults>>

Work ==
  /\ Edit
  /\ \E todo \in Lists :
       /\ todos' = [todos EXCEPT ![session] = todo]
       /\ evidence' = [evidence EXCEPT ![session] =
                         @ \cup todo.list.reviewed \cup (IF todo.list.impl = "done" THEN {0} ELSE {})]
  /\ UNCHANGED workspace

Change ==
  /\ Edit
  /\ \/ ~dirty /\ dirty' = TRUE /\ head' = head
     \/ head < MaxCommits /\ head' = head + 1 /\ dirty' = dirty
  /\ UNCHANGED <<todos, evidence>>

(***************************************************************************)
(* persist(): memory is replaced only by what was written.                 *)
(***************************************************************************)
PersistAnyway(next) ==
  \/ NoFault /\ state' = next /\ disk' = [disk EXCEPT ![next.task] = next]
  \/ Fault /\ state' = next /\ UNCHANGED disk

Persist(next) ==
  \/ NoFault /\ state' = next /\ disk' = [disk EXCEPT ![next.task] = next]
  \/ Fault /\ UNCHANGED <<state, disk>>

Finish(h) == handler' = [handler EXCEPT ![h] = Idle]

(***************************************************************************)
(* session_start: the state of the task is read, or created, a missing     *)
(* start revision is filled in unless git fails, and the result is         *)
(* written.  Memory holds it whether or not the write succeeds.  A restart *)
(* ends the handlers in flight, a switch does not.                         *)
(***************************************************************************)
LoadState(t) == IF disk[t] = NoFile THEN CreateState(t) ELSE disk[t]

WithRevision(s) == IF s.startRevision = NoRevision THEN [s EXCEPT !.startRevision = head] ELSE s

SessionStart(t) ==
  /\ session' = t
  /\ \/ NoFault /\ state' = WithRevision(LoadState(t)) /\ disk' = [disk EXCEPT ![t] = state']
     \/ /\ Fault
        /\ \/ state' = WithRevision(LoadState(t)) /\ UNCHANGED disk
           \/ state' = LoadState(t) /\ disk' = [disk EXCEPT ![t] = state']
  /\ UNCHANGED <<todos, workspace, evidence, mixed>>
  /\ edits < MaxEdits /\ edits' = edits + 1

Switch(t) == t # session /\ SessionStart(t) /\ UNCHANGED handler

Restart(t) == SessionStart(t) /\ handler' = [h \in Slots |-> Idle]

(***************************************************************************)
(* The handlers read the todo list of their session first.  An unreadable  *)
(* list ends them; a list that is briefly empty does not.                  *)
(***************************************************************************)
Read(h, at) ==
  /\ handler[h] = Idle
  /\ \/ NoFault /\ handler' = [handler EXCEPT ![h] = [at |-> at, of |-> session, read |-> todos[session].list]]
     \/ Fault /\ handler' = [handler EXCEPT ![h] = [at |-> at, of |-> session, read |-> EmptyList]]
  /\ UNCHANGED <<state, disk, session, todos, workspace, evidence, mixed, edits>>

TurnEnd(h) == Read(h, "turn_end")
BeforeAgentStart(h) == Read(h, "before_agent_start")
ToolCall(h) == state.phase = "implementation" /\ Read(h, "tool_call")

Outside == UNCHANGED <<session, todos, workspace, evidence, edits>>

(* The list of the handler's session is applied to the task of the state.  *)
Apply(h, s) == mixed' = mixed \cup ({s.task} \ {handler[h].of})

(* tool_call: a review that is asked for too early is queued. *)
Queue(h) ==
  /\ handler[h].at = "tool_call"
  /\ IF handler[h].read.impl = "open"
     THEN \E g \in Signals : Persist(RecordSignal(state, g))
     ELSE NoFault /\ UNCHANGED <<state, disk>>
  /\ Finish(h) /\ Outside /\ UNCHANGED mixed

(* turn_end in the implementation phase: the scope is measured.  A git     *)
(* call that fails gives an empty scope.                                   *)
Measure(h) ==
  /\ handler[h].at = "turn_end" /\ state.phase = "implementation"
  /\ IF handler[h].read.impl # "done"
     THEN NoFault /\ UNCHANGED <<state, disk>>
     ELSE \/ Scope(state.startRevision) = 0 /\ Persist(CompleteWithoutReview(state))
          \/ Scope(state.startRevision) > 0 /\ Persist(StartReview(state, Scope(state.startRevision)))
          \/ /\ Fault
             /\ state' = CompleteWithoutReview(state)
             /\ disk' = [disk EXCEPT ![state.task] = CompleteWithoutReview(state)]
  /\ Apply(h, state) /\ Finish(h) /\ Outside

(* The validation gate, read from the ledger: only test items count.       *)
GateSatisfied(h) == handler[h].read.tests = "none" \/ todos[handler[h].of].passed

(* syncProgress, in turn_end of a later phase and before the agent starts: *)
(* the state is taken here, and written after the ledger was read.  A      *)
(* ledger that cannot be read satisfies nothing, not even a task without   *)
(* test items.                                                             *)
Take(h) ==
  /\ \/ handler[h].at = "turn_end" /\ state.phase # "implementation"
     \/ handler[h].at = "before_agent_start"
  /\ \E passed \in BOOLEAN :
       /\ IF passed = GateSatisfied(h) THEN NoFault ELSE Fault /\ ~passed
       /\ handler' = [handler EXCEPT ![h] =
            [at |-> "sync", of |-> handler[h].of, read |-> handler[h].read, snapshot |-> state,
             passed |-> passed]]
  /\ UNCHANGED <<state, disk, mixed>> /\ Outside

Sync(h) ==
  /\ handler[h].at = "sync"
  /\ LET next == Progress(handler[h].snapshot, handler[h].read, handler[h].passed)
     IN  IF next = state THEN NoFault /\ UNCHANGED <<state, disk>> ELSE Persist(next)
  /\ Apply(h, handler[h].snapshot) /\ Finish(h) /\ Outside

Handle(h) == Queue(h) \/ Measure(h) \/ Take(h) \/ Sync(h)

Init ==
  /\ head = 0 /\ dirty \in BOOLEAN /\ edits = 0 /\ faults = 0
  /\ session \in Tasks
  /\ state \in {CreateState(session), WithRevision(CreateState(session))}
  /\ disk = [t \in Tasks |-> IF t = session THEN state ELSE NoFile]
  /\ handler = [h \in Slots |-> Idle]
  /\ todos = [t \in Tasks |-> [list |-> EmptyList, passed |-> FALSE]]
  /\ evidence = [t \in Tasks |-> {}]
  /\ mixed = {}

Next ==
  \/ Work \/ Change
  \/ \E t \in Tasks : Switch(t) \/ Restart(t)
  \/ \E h \in Slots : TurnEnd(h) \/ BeforeAgentStart(h) \/ ToolCall(h) \/ Handle(h)

Spec == Init /\ [][Next]_vars

(* Handlers end, and turns keep ending while the agent works on the task. *)
FairSpec ==
  /\ Spec
  /\ \A h \in Slots : WF_vars(Handle(h))
  /\ WF_vars(\E h \in Slots : TurnEnd(h))

(***************************************************************************)
(* The type of every variable.                                             *)
(***************************************************************************)
TypeOK ==
  /\ state \in State /\ disk \in [Tasks -> State \cup {NoFile}]
  /\ session \in Tasks /\ handler \in [Slots -> Handlers]
  /\ todos \in [Tasks -> [list : TodoList, passed : BOOLEAN]]
  /\ head \in 0 .. MaxCommits /\ dirty \in BOOLEAN
  /\ evidence \in [Tasks -> SUBSET (0 .. MaxChunks)] /\ mixed \subseteq Tasks
  /\ edits \in 0 .. MaxEdits /\ faults \in 0 .. MaxFaults

(* A state that is past the implementation is the state of a task whose    *)
(* implementation was finished, and has no chunks before; one that is past *)
(* the review of its chunks had every chunk reviewed, and a chunk is done  *)
(* only when a todo item of that very task said so.                        *)
Earned(s) ==
  /\ IF s.phase = "implementation" THEN s.chunks = 0 ELSE 0 \in evidence[s.task]
  /\ s.phase \in {"review_fixes", "test_pending"} => s.chunks > 0
  /\ s.phase \in {"review_fixes", "test_pending", "complete"} => 1 .. s.chunks \subseteq s.done
  /\ s.done \subseteq evidence[s.task]

(* Whatever was interrupted, overwritten, read stale or not written, no    *)
(* phase and no finished chunk is without its evidence, neither in memory  *)
(* nor in a file (state.ts:262-295), except of a task to which a handler   *)
(* that a switch overtook applied the list of its own session.             *)
PhaseIsEarned ==
  /\ state.task \notin mixed => Earned(state)
  /\ \A t \in Tasks \ mixed : disk[t] # NoFile => Earned(disk[t])

(* "a failed write must not change what the runtime believes"              *)
(* (runtime.ts:186): after any handlers, faults, switches and restarts the *)
(* runtime works on what its file says, or on a fresh task without a file. *)
(* Only a start revision that was filled in late may be in memory alone.   *)
MemoryIsWritten ==
  LET file == disk[state.task]
  IN  IF file = NoFile
      THEN state.phase = "implementation" /\ state.chunks = 0 /\ state.signals = {}
      ELSE \/ state = file
           \/ file.startRevision = NoRevision
              /\ state = [file EXCEPT !.startRevision = state.startRevision]

(* Memory leaves the task of the running session only by a handler that a  *)
(* switch overtook between its read of the state and its write.            *)
OnlyTheOvertakenStray ==
  [][(state.task = session /\ state'.task # session') =>
       \E h \in Slots : /\ handler[h].at = "sync" /\ handler[h].snapshot.task # session
                        /\ handler'[h] = Idle]_vars

(* Every phase has its evidence: false, a handler that waits for its todo  *)
(* list while the session is switched applies it to the task it finds.     *)
EarnedInEverySession == Earned(state)

(* What a file says is taken back: the phase, a finished chunk or a queued *)
(* signal.                                                                 *)
TakenBack(t) ==
  /\ disk[t] # NoFile
  /\ \/ PhaseOrder[disk'[t].phase] < PhaseOrder[disk[t].phase]
     \/ ~(disk[t].done \subseteq disk'[t].done)
     \/ ~(disk[t].signals \subseteq disk'[t].signals)

(* "Move to a phase, never backwards" (state.ts:211).                      *)
NeverBackwards == [][\A t \in Tasks : ~TakenBack(t)]_vars

(* Progress is taken back by nothing but a handler that writes the state   *)
(* it took before it waited, while another handler wrote: no restart, no   *)
(* switch, no failed write, no empty todo list.                            *)
OnlyAStaleWriteTakesBack ==
  [][\A t \in Tasks : TakenBack(t) =>
       \E h \in Slots : handler[h].at = "sync" /\ handler[h].snapshot # state /\ handler'[h] = Idle]_vars

(* "The task changed no file, so there is nothing to review"               *)
(* (runtime.ts:431): a task that completes without a review changed        *)
(* nothing since it started.                                               *)
UnreviewedIsUnchanged ==
  [][(state.task = state'.task /\ state.phase # "complete" /\ state'.phase = "complete" /\ state'.chunks = 0)
       => Scope(state.startRevision) = 0]_vars

(* "The task is complete: implementation, review and the required fixes    *)
(* are done" (rules.ts:344).                                               *)
CompletedMeansFixed ==
  [][(state.task = state'.task /\ state.phase # "complete" /\ state'.phase = "complete" /\ state'.chunks > 0)
       => ~todos[session].list.fixes]_vars

(* Once the work of the session is done and stays done, no two handlers    *)
(* overlap and memory holds the task of the session, the task completes:   *)
(* whatever was lost, interrupted or taken back before is made up for.     *)
Settled ==
  /\ todos[session].list = [impl |-> "done", reviewed |-> 1 .. MaxChunks, fixes |-> FALSE, tests |-> "closed"]
  /\ todos[session].passed
  /\ Cardinality({h \in Slots : handler[h] # Idle}) <= 1
  /\ state.task = session

SettledCompletes == <>[]Settled => <>[](state.phase = "complete")
=============================================================================
