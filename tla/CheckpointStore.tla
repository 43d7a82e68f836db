-------------------------- MODULE CheckpointStore --------------------------
(***************************************************************************)
(* The loop checkpointer: FileCheckpointSaver of                           *)
(* harness/langchain/checkpointer.ts, as a daemon uses it that may die     *)
(* between any two file operations.  A checkpoint is a file of its own,    *)
(* written beside its place and renamed into it; the thread's index file   *)
(* then gets one line more, and its last line names the checkpoint that a  *)
(* run of the thread starts from.                                          *)
(***************************************************************************)
EXTENDS Naturals, Sequences

CONSTANTS Task,
          NoTask,
          Thread,       (* thread ids: one per run of a task, never reused  *)
          MaxPuts,      (* bound: the checkpoints of one behaviour          *)
          MaxRestarts,  (* bound: the restarts of one behaviour             *)
          PartialWrite  (* whether the disk may take a part of a line only  *)

ASSUME StoreAssumption ==
  /\ NoTask \notin Task
  /\ MaxPuts \in Nat
  /\ MaxRestarts \in Nat
  /\ PartialWrite \in BOOLEAN

VARIABLES
  files,    (* the checkpoints each thread has a complete file of           *)
  index,    (* the lines of each thread's index.jsonl                       *)
  step,     (* how many steps of the graph each run has done                *)
  at,       (* the step that each checkpoint holds                          *)
  running,  (* the threads the live daemon runs                             *)
  task,     (* the task each thread was started for                         *)
  broken,   (* the threads whose run a crash ended                          *)
  putting,  (* the put the daemon is in the middle of                       *)
  saved,    (* the last checkpoint of each thread whose put was complete    *)
  puts,     (* the checkpoints so far, the last one's id                    *)
  restarts  (* how often a daemon has died and another was started         *)

storeVars == <<files, index, step, at, running, task, broken, putting, saved,
          puts, restarts>>

None == 0
Id == 1..MaxPuts
Line == [id: Id, whole: BOOLEAN]

NoPut == [stage |-> "none"]
Put == {NoPut} \cup [stage: {"rename", "append"}, thread: Thread, id: Id]

StoreTypeOK ==
  /\ files \in [Thread -> SUBSET Id]
  /\ index \in [Thread -> Seq(Line)]
  /\ step \in [Thread -> Nat]
  /\ at \in [Id -> Nat]
  /\ running \subseteq Thread
  /\ task \in [Thread -> Task \cup {NoTask}]
  /\ broken \subseteq Thread
  /\ putting \in Put
  /\ saved \in [Thread -> {None} \cup Id]
  /\ puts \in 0..MaxPuts
  /\ restarts \in 0..MaxRestarts

StoreInit ==
  /\ files = [t \in Thread |-> {}]
  /\ index = [t \in Thread |-> <<>>]
  /\ step = [t \in Thread |-> 0]
  /\ at = [c \in Id |-> 0]
  /\ running = {}
  /\ task = [t \in Thread |-> NoTask]
  /\ broken = {}
  /\ putting = NoPut
  /\ saved = [t \in Thread |-> None]
  /\ puts = 0
  /\ restarts = 0

(* readIndex: one line that does not parse makes the whole index empty.    *)
Readable(t) == \A n \in DOMAIN index[t] : index[t][n].whole

LastId(t) == index[t][Len(index[t])].id

(* Mutant of Latest: the first line of the index names the checkpoint.     *)
LatestFirst(t) ==
  IF index[t] # <<>> /\ Readable(t) /\ index[t][1].id \in files[t]
  THEN index[t][1].id
  ELSE None

(* getTuple of a thread, without a checkpoint id.                          *)
Latest(t) ==
  IF index[t] # <<>> /\ Readable(t) /\ LastId(t) \in files[t]
  THEN LastId(t)
  ELSE None

(* The step a run of t starts from.                                        *)
Recovered(t) == IF Latest(t) = None THEN 0 ELSE at[Latest(t)]

----------------------------------------------------------------------------
(* The daemon runs a task, which it is not running yet, under a fresh      *)
(* thread id, and the graph asks the saver for that thread's state.        *)
StartRun(t, k) ==
  /\ putting = NoPut
  /\ task[t] = NoTask
  /\ \A u \in running : task[u] # k
  /\ task' = [task EXCEPT ![t] = k]
  /\ running' = running \cup {t}
  /\ step' = [step EXCEPT ![t] = Recovered(t)]
  /\ UNCHANGED <<files, index, at, broken, putting, saved, puts, restarts>>

(* A step of the graph, and its put as far as the temporary file, which no *)
(* reader ever looks at.                                                   *)
SaveStep(t) ==
  /\ putting = NoPut
  /\ t \in running
  /\ puts < MaxPuts
  /\ puts' = puts + 1
  /\ step' = [step EXCEPT ![t] = @ + 1]
  /\ at' = [at EXCEPT ![puts + 1] = step[t] + 1]
  /\ putting' = [stage |-> "rename", thread |-> t, id |-> puts + 1]
  /\ UNCHANGED <<files, index, running, task, broken, saved, restarts>>

(* atomicWrite's rename.                                                   *)
Rename ==
  /\ putting.stage = "rename"
  /\ files' = [files EXCEPT ![putting.thread] = @ \cup {putting.id}]
  /\ putting' = [putting EXCEPT !.stage = "append"]
  /\ UNCHANGED <<index, step, at, running, task, broken, saved, puts, restarts>>

AddLine(whole) ==
  index' = [index EXCEPT ![putting.thread] = Append(@, [id |-> putting.id, whole |-> whole])]

(* appendIndex, and put returns.                                           *)
AppendIndex ==
  /\ putting.stage = "append"
  /\ AddLine(TRUE)
  /\ saved' = [saved EXCEPT ![putting.thread] = putting.id]
  /\ putting' = NoPut
  /\ UNCHANGED <<files, step, at, running, task, broken, puts, restarts>>

(* appendIndex when the disk takes a part of the line: writeSync returns   *)
(* how much was written, and nobody looks.  (The next line then continues  *)
(* this one; to a reader that gives up at the first line that does not     *)
(* parse it makes no difference that they are two here.)                   *)
AppendPart ==
  /\ PartialWrite
  /\ putting.stage = "append"
  /\ AddLine(FALSE)
  /\ putting' = NoPut
  /\ UNCHANGED <<files, step, at, running, task, broken, saved, puts, restarts>>

(* A file operation throws, and nothing in put catches it: the run whose   *)
(* step it was fails, and what the put has done so far stays.              *)
PutFails ==
  /\ putting # NoPut
  /\ putting' = NoPut
  /\ running' = running \ {putting.thread}
  /\ UNCHANGED <<files, index, step, at, task, broken, saved, puts, restarts>>

FinishRun(t) ==
  /\ putting = NoPut
  /\ t \in running
  /\ running' = running \ {t}
  /\ UNCHANGED <<files, index, step, at, task, broken, putting, saved, puts, restarts>>

(* Mutant of CrashAndRestart: the new daemon clears the broken runs away.  *)
RestartClearing ==
  /\ restarts < MaxRestarts
  /\ restarts' = restarts + 1
  /\ running' = {}
  /\ putting' = NoPut
  /\ broken' = broken \cup running
  /\ files' = [t \in Thread |-> IF t \in running THEN {} ELSE files[t]]
  /\ UNCHANGED <<index, step, at, task, saved, puts>>

(* The daemon dies, wherever it is, and a new one is started.              *)
CrashAndRestart ==
  /\ restarts < MaxRestarts
  /\ restarts' = restarts + 1
  /\ running' = {}
  /\ putting' = NoPut
  /\ broken' = broken \cup running
  /\ UNCHANGED <<files, index, step, at, task, saved, puts>>

StoreNext ==
  \/ \E t \in Thread, k \in Task : StartRun(t, k)
  \/ \E t \in Thread : SaveStep(t) \/ FinishRun(t)
  \/ Rename
  \/ AppendIndex
  \/ AppendPart
  \/ PutFails
  \/ CrashAndRestart

StoreSpec == StoreInit /\ [][StoreNext]_storeVars

----------------------------------------------------------------------------
(* Whatever the daemon was doing when it died, each thread whose index is  *)
(* not torn is found at the last checkpoint whose put was complete: the    *)
(* line comes after the file (checkpointer.ts:237-254).                    *)
LatestIsSaved == \A t \in Thread : Readable(t) => Latest(t) = saved[t]

(* Where a run starts never falls back, whoever dies and wherever, as long *)
(* as the index is not torn.                                               *)
NeverLosesGround ==
  [][\A t \in Thread : Readable(t)' /\ Latest(t) # None => Latest(t)' >= Latest(t)]_storeVars

(* "resumes from the last checkpoint instead of restarting from scratch"   *)
(* (checkpointer.ts:5): false, a torn line takes the lines before it away. *)
TornLineKeepsOthers ==
  [][\A t \in Thread : Latest(t) # None => Latest(t)' # None]_storeVars

(* A run of a task whose last run a crash ended starts no earlier than     *)
(* what that run had saved: README.md:260, "loop state survives daemon     *)
(* restarts": false, the new run has a thread id of its own.               *)
ResumesFromSaved ==
  [][\A k \in Task, t \in Thread, u \in broken :
       StartRun(t, k) /\ task[u] = k /\ saved[u] # None
         => step'[t] >= at[saved[u]]]_storeVars
=============================================================================
