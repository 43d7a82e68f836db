# A TLA+ model of the pi harness runtime

This directory specifies, model-checks and proves properties of the concurrent
core of the harness: the daemon that hands tasks to a write-review loop, the
leases and locks it relies on, the loop itself with its retries and its
checkpoints, the older loop of two terminals over one file, the controller that
steers an agent from one todo item to the next, the two-phase review of an
agent's work, the relay that streams the answers of a human, and the wait for
such an answer. Every definition is translated from the TypeScript source;
`PROJECT.json` (`map`) names the lines of each one. Paths below are relative to
the repository root.

Contents: 1 the system, 2 the plan, 3 the modules, 4 the runs, 5 fairness,
6 the proofs, 7 counterexamples, 8 what is not modelled.

## 1. The system

The repository is a harness around coding agents. An extension process
(`index.ts`) lives inside the agent's terminal; a daemon
(`harness/langchain/daemon.ts`) runs tasks unattended. Several processes of
either kind run on one machine and communicate through files: inbox files, ack
files, leases, locks, a status blackboard, an event log, checkpoints. A relay
server passes the buttons a human presses in a chat to the extension over a
socket. Every process is a single-threaded event loop; synchronous sections are
interleaved with other processes at each file operation, asynchronous ones with
everything at each `await`.

### Components, their state, operations and hazards

| component | source | state | operations | what is hard | what makes it correct |
|---|---|---|---|---|---|
| Lease manager | `packages/autonomous-runtime/src/lease.ts` | one JSON file per claimed task, with a TTL of 30 s | `claim` (exclusive create, then write), `release` (read, compare worker id, unlink), `reap`, `reapAndRelease`, `recoverOnStartup` | other processes between create and write, between check and unlink | a lease has one owner; only the owner, or a reaper of an expired file, removes it |
| Loop daemon | `harness/langchain/daemon.ts` | `running` map, the watchers' seen sets, `stopped` | start (reap, seed), poll, trigger, claim, gate, run, release, stop | crashes, TTL overruns, double releases, `stop()` during runs, several daemons with one default id | a task is executed by one daemon at a time; gated tasks wait for a human; leases come back |
| Write-review graph | `harness/langchain/graph.ts` | the channels iteration, code, prevCode, review; thread id | nodes plan, write, review, finish; routing; `onStep` | an interrupted pass is invoked again on the same thread with the channels kept | no draft is accepted unreviewed; the loop ends |
| Surge and quota retry | `harness/langchain/surge.ts`, `daemon.ts` | attempts of the scheduler | delay with exponent, cap, jitter, floor; wait for quota; exhausted wait | repeated refusals, boundaries of the delay, a timeout racing the wait | pauses within policy; the task ends |
| Review blackboard | `packages/write-review/src/blackboard.ts` | `status.json` | phase and verdict transitions | several processes write the whole file | the phase is that of the last verdict |
| Loop checkpointer | `harness/langchain/checkpointer.ts` | a checkpoint file and an index line per put | `put` (temporary file, rename, append), `getTuple` | crash between two file operations, torn lines | what a complete put saved is found again |
| Continuation controller | `packages/jev-judge/src/continuation-controller.ts`, handlers of `index.ts` | in-flight owner, guard, timer, pauses, budgets, circuit breaker | `decide`, `guardedDispatch` with watchdog and `finally`, `clearQueue`, `explicitPause`, `resume`, `dispose` | overlapping handlers, late answers, lost events, withdrawals across an await | one dispatch owns the guard; it is always released; budgets hold; a withdrawn message is not sent |
| Durable-review worker | `packages/durable-review/src/worker.ts` | `.worker.lock`, the open database | start (look, judge, take over or create), open, ready check, stop | check-then-act by several processes, dead owners, reused pids | one worker runs on the workspace; a dead one's lock is replaced |
| Relay | `packages/relay/src/`, `scripts/unified-webhook-server.ts` | the client's connection state and two timers; the server's sessions and event buffer; a file of queued callbacks | connect, time out, reconnect, authenticate, disconnect; broadcast, flush, restart | timers and socket events that arm and disarm one another, callbacks while a session comes or breaks | the client never rests unless told to; a callback that was broadcast to a ready session arrives once, in the order broadcast |
| Two-phase review | `packages/two-phase-review/src/` | the phase, chunks and signals of a session's task, in memory and in a file | handlers of turn end, agent start and tool call; switch, restart | the ledger and the todo list are awaited between reading the state and writing it whole; writes and git may fail | no phase without its evidence while a task is left to its own session; memory agrees with the file; settled work completes |
| Pending questions | `packages/notification/src/pending-question.ts`, `harness/pending-wait.ts`, `harness/pending-countdown.ts`, `index.ts` | the questions, the current one, the shared wait, the countdown, the flag that keeps decisions apart | ask, press a button, type, expire, decide by the judge, recheck, switch | the question and its wait may change while the todo list and the judge are awaited | a question has one answer, a reserved one never the judge's, and each is served in the end |
| Harness blackboard loop | `harness/blackboard.ts`, `loop-controller.ts`, `loop-code-agent.ts`, `loop-review-agent.ts` | one record in a file, a copy of it in each of three processes | load, save, lock, register, hand over, report | every save writes the whole copy, and not atomically; agents die holding a lock | the agents take turns; the verdict given is the one reported; the loop ends |
| Herdr event bus | `packages/event-bus/src/` | an append-only event file, subscribers' offsets | publish, poll | the offset moves to a field nothing sets; a cap per poll | each event is delivered once and in order |
| Task inbox | `packages/autonomous-runtime/src/inbox.ts` | a file of task records | append, rewrite | read-modify-write by several workers | no task is lost |
| Job state machine | `harness/job-state-machine.ts` | the job's status and checkpoint | transition, save, resume | an await between check and set | the status follows the transition table |
| Task graph, repair engine | `harness/task-graph.ts`, `harness/repair-engine.ts` | task states, dependencies, attempts | ready set, complete, fail, retry | cycles, retries of dependents | a task runs after its dependencies |

The other components (quota and routing tables, schedulers, logging, context
compilation, analysers, plugins, memory clients, user interface, start-up,
scripts) are listed in `PROJECT.json` with the reason they are left out.

### Interactions

```
 inbox / bd / event bus --trigger--> LoopDaemon --claim, release--> lease files
                                         |  ack file of a human (gate)
                                         v
                     surge / quota retry around the write-review graph
                         |                  |                  |
                    model calls      checkpointer files   blackboard, event bus

 agent_settled, message_start, session_shutdown --> continuation controller
                                         |                     ^
                                      the agent                | may continue?
                                         ^                     |
   button --> webhook --> relay --> pending questions <--> judge (countdown)

 turn_end, before_agent_start, tool_call --> two-phase review --> state file

 worker processes --look, create, rename, unlink--> .worker.lock --> database

 loop controller, code agent, review agent --load, save--> status.json
```

The daemon calls the lease manager synchronously and the graph asynchronously;
the graph calls the models, the checkpointer and `onStep` (which publishes to
the event bus and updates the blackboard). The handlers of `index.ts` call the
controller, whose `send` callback starts a turn of the agent, whose end is the
next `agent_settled`. A settled agent's handler first looks at the pending
question and its wait; only without one does the controller continue the todo
list. The relay's client calls the handler of a button like a local channel.

`PROJECT.json` (`hazards`) lists what is hard to test in these parts, each at
its line, with the properties that are about it.

## 2. The plan

Order: what decides whether a task is executed, and by whom, comes first; then
what happens inside an execution; then what survives it; then the human.

| # | modules | abstract specification | status |
|---|---|---|---|
| 1 | `Lease`, `LoopDaemon` | `TaskOwnership` | done, proved |
| 2 | `SurgeBackoff`, `WriteReviewLoop` | `ReviewProtocol` | done, proved |
| 3 | `ContinuationController` | - | done, proved |
| 4 | `WorkerLock` | `TaskOwnership` (until a crash) | done, safety proved |
| 5 | `CheckpointStore` | - | done, proved |
| 6 | `RelayClient`, `RelayStream` | - | done, safety proved |
| 7 | `TwoPhaseReview` | - | done, safety proved |
| 8 | `QuestionWait` | - | done, safety proved |
| 9 | `BlackboardLoop` | - | done, safety proved |
| 10 | `HerdrEventBus` | a log with one cursor per subscriber | left: the offset never moves, so every property of a cursor fails at once |
| 11 | `TaskInbox` | a set of tasks with atomic updates | left: no process of the wired program calls it |
| 12 | `JobStateMachine` | the transition table, atomically | dropped: nothing in the wired program registers a job, so none leaves its first status |
| 13 | `TaskGraph` | a topological order | left: sequential |

Composition: `LoopDaemon` extends `Lease` (the file operations are actions on
`lease` that the daemon's steps conjoin); `WriteReviewLoop` extends
`SurgeBackoff` (the delays a pause may have); `RelayStream` extends
`RelayClient` (the client's methods as operators on its record, composed with
sockets, server and webhook).

## 3. The modules

**`Lease`** - the lease directory as other processes see it. A file is absent,
created but not written (`empty`: the interval between `openSync(path, "wx")`
and `writeSync`), `fresh` or `expired`. `by` is the process that created the
file; the code can only see the worker id in it, `AgentId[by]`. Operators are
single file operations: `OpenExclusive`, `WriteLease` (through the descriptor,
so a file that was unlinked meanwhile is written in vain), `Unlink`, `Expire`.

**`LoopDaemon`** - several daemon processes. `pc[d]` is the position in a
synchronous section (`reap`, `claim`, `unlink`, `stopUnlink`, ...), `job[d][t]`
the position of the asynchronous `_runTask` (`gate`, `loop`, a verdict,
`releaseTwice`, `release`). A failed run releases in its `finally` and again in
its caller's `catch`, as in the code (`releaseTwice`). `seen` is the watchers'
memory: seeded with the inbox by `start()` and extended by every trigger.
History variable `forfeited` holds the claims that no longer entitle a daemon:
those that outlived the TTL, were handed back by `stop()`, or were created
while another process was between its check and its unlink.

**`TaskOwnership`** - the abstract specification: a task has no owner or one;
it is taken when free and given up before it is taken again. `Owner` in
`LoopDaemon` is the refinement mapping of the daemon, `OpenedBy` in
`CrashSafety_proofs` that of the worker lock.

**`SurgeBackoff`, `WriteReviewLoop`** - one task's loop. `node` is the graph
node that runs, or `paused`, `done`, `failed`. The channels are kept over a
`Resume` on the same thread when a saver is present (`Checkpointing`), and
`planNode` resets only `iteration`. `SurgeBackoff` gives the set of delays an
attempt may draw: exponent (`Factor`, a recursive function), cap, jitter, floor,
in the code's order; a unit is 30 s. `judged` is a history variable: the review is of the current draft.
`board` and `published` are what `onStep` writes: the state before the node's
update.

**`ReviewProtocol`** - the abstract specification: a draft is unjudged or has a
verdict; the outcome of a loop that is done is the verdict on its last draft.

**`ContinuationController`** - a step runs from one `await` to the next. `call`
holds the activations of the `agent_settled` handler, each suspended in
`decide`, in the snapshot read of its dispatch, or in its send. `owner`,
`lastSeq`, `pending`, `cancel`, `stalled` are the fields of the same meaning
(`_inFlightSeq`, `_dispatchSeq`, `_pendingGuardRelease`, `_cancelRequested`,
`_stalledItemId`); `timer` is the guard timer and the delay it is armed with.
Every action is the whole code between two awaits, the `finally` block
included; the success of a send is counted in a later step (`Count`), as in
`steerToContinue`. A message of a user pauses the dispatch (`UserMessage`) or,
without a task intake controller, does not, and neither does one of the harness
(`UnpausedMessage`). `withdrawn`, `overdue`, `stray`, `landed` of a call, and
`late` and `refused`, are history.

**`WorkerLock`** - `startWorker`, `stopWorker`, `checkWorkerReady` of several
processes, one action per file operation. `leaked` are the processes in which a
database stays open that no worker runs on: the harness failed after the
storage was opened, or its close failed and the lock was released all the same.
A lock names a pid and, for the model, the incarnation that wrote it; `PidReuse` says whether a restarted
process gets its old pid back.

**`CheckpointStore`** - `put` as its three file operations (temporary file,
rename, index line), `getTuple` as `Latest`, and `CrashAndRestart` between any
two. Thread ids are fresh per run, as the daemon makes them. A file
operation may also throw, which ends the run (`PutFails`), and `PartialWrite`
lets an index line be torn.

**`RelayClient`** - the class of the same name: one record for its fields
(`state`, the active socket `ws`, the attempt whose promise is `pending`,
`deadline` and `timer` for its two timers, `shuttingDown`, `synchronized`), and
each private method an operator from a record to a record, composed in the
order of the calls.

**`RelayStream`** - that client with its sockets, one per attempt, the server's
sessions and event buffer, the messages on the wire, and the webhook that
broadcasts a callback, and writes it to a file when there is no session. Every
request is broadcast under a new number; `origin` is the press it stands for,
which may be that of an earlier request (redelivered after a 500) or one that
was pressed before it (requests wait for their bodies). A socket is opened,
accepted and authenticated in separate steps; it breaks, and the server
restarts, at any point. `due` is history: what was broadcast while the client's
session was ready.

**`TwoPhaseReview`** - the phase machine of `state.ts` and `rules.ts` as
operators on a state record, and the handlers of `runtime.ts` as slots: a
handler that waits for the todo list or the ledger is suspended with what it
read (`of`, `read`, `snapshot`) and acts on that when it goes on. A switch ends
no handler, so one that waits goes on with the list of its own session (`of`)
and whatever memory holds by then; `mixed` is history, the tasks to which this
happened. `disk` has a file per task, `Persist` writes it or fails. A start
revision is missing (`NoRevision`) when git failed at the session start, and
filled in at a later one. The validation gate counts test items only, but a
ledger that cannot be read satisfies nothing. `evidence` is history: what
really was implemented and reviewed. `Sync` compares the new state with memory
by value, the code by identity: where they differ the code writes an equal
state, which changes nothing in memory. A chunk is one changed module of the diff between the
start revision and the workspace.

**`QuestionWait`** - questions, the current one, the shared wait (its age in
minutes, not told apart beyond `MaxWait`), the countdown bound to a question,
and the autonomous decision, suspended while it waits for the todo list
(`snapshot`) and for the judge (`judging`) with the question and the age it
captured. `mail` are messages to the agent not yet delivered; when one is, it
begins a turn like a user's. The note of the last notified question is set and
cleared with the wait. `told` is history.

**`BlackboardLoop`** - `board` is the file, `mem[p]` the copy of each process,
`Save` the write of a whole copy. An agent's place (`pc`) goes from save to
save: claim the lock, mark itself working, work, hand over, and the trailing
saves (unlock, report, rest); the code agent hands over before these, the
review agent after. A save truncates the file and then writes it (cli.ts:75),
so a process that dies in one may leave the file `torn`: every load then finds
nothing (cli.ts:60-66) until a process that has loaded it before saves. The record is reduced to what the three programs read of
it: the next action, the writes done, the reviews decided in the order of their
`updatedAt`, the report, the locks, the registrations. `lost` is history: some
save wrote over what its process had not seen.

The `MC` modules give the constants their values; the `_proofs` modules hold
the theorems. Operators marked "Mutant" are plausible bugs of the code; each
property of a passing run is violated when such an operator replaces the
definition it mutates.

## 4. The runs

| run | bounds | what it shows |
|---|---|---|
| `daemon` | 2 daemons with own ids, 1 gated task of the bd watcher, 1 crash | `TypeOK`, `Exclusive`, `UnlinkIsSafe`, `GateHolds`, refinement of `TaskOwnership`, and `LeaseReturned` (for runs that end) under fairness |
| `daemon_overrun` | the same without a crash | violation, see section 7 |
| `loop` | 2 drafts, 3 iterations, 2 surge attempts, stated waits 2, 3, 20 min, a task timeout | pauses keep the policy; a draft is reviewed before the loop moves on; refinement of `ReviewProtocol`; it ends unless refused for ever, and with a timeout always |
| `continuation` | 2 handlers, 2 items, 2 dispatches, limits 1 per item and 1 in total, breaker at 2 | one owner, nothing left behind, withdrawn is not sent, sends to an idle agent, budgets; both guards are released although provider, send and agent may hang |
| `worker` | 3 processes, 1 crash, 1 database left open | until a crash only the worker the lock names runs, only owners release, the written lock of a dead worker is recovered |
| `worker_takeover` | as `worker` | violation, see section 7 |
| `checkpoint` | 2 tasks, 3 threads, 4 puts, 2 restarts, torn lines | the last complete put is found, and never an earlier one than before |
| `relay` | 2 connect attempts, 2 broadcasts, 2 presses | the client is never stranded; callbacks arrive in the order broadcast and once, none before the end of the snapshot; none that was broadcast to a ready session is lost while its connection lasts, and it is delivered |
| `phases` | 2 tasks, 3 todo lists, 2 handlers, a clean or dirty start, 1 commit, 2 edits (a switch or restart counts as one), 1 fault | phases are earned but for tasks mixed up by a switch, memory is written, only a stale write takes progress back, settled work completes |
| `question` | 3 questions, 1 of them reserved, waits of 2 and 3 min, 1 failed decision | a wait has its question, one answer, reserved is reserved, closed stays closed, and a question that waits is served or its wait ends |
| `question_stuck` | as `question` | violation, see section 7 |
| `blackboard` | 4 writes, 2 reviews, 2 deaths or restarts | the agents take turns, the verdict reported is the last one given, only late saves and deaths inside a save take progress back, and the loop ends unless a save was lost, its next task is stranded or the file is torn |

Why the bounds are enough. A conflict over a lease needs two processes, and the
interesting third party (an expired or half-written file) is left by one of the
two. A task does not influence another one: claims, leases and jobs are per
task; only `cur`, `toRead`, `toFree` and `seen` are shared, and the proofs cover
any number. One crash gives an orphan, its reaping, and the race with a new
claim. In the worker three processes are needed: one that died, two that take
over; one database left open already meets the next worker (`MaxLeaks`). In the
controller two overlapping activations and two dispatches allow for one that
the watchdog released with the second in flight, and for a budget that is used
up; `MaxDispatch` is the only bound that is not in the code. For the loop
three iterations distinguish the first, a middle and the last, and two drafts
distinguish equal from different. In the relay the second attempt is the one
that meets what the first left behind. Two tasks and two handlers give a
handler that outlives the other's write or the switch of its session; two
edits reach a review because the workspace may be dirty from the start. In the wait the second question replaces the one the judge was asked
about, and the third comes when the wait of the second has ended. In the
blackboard loop four writes and two reviews are the smallest numbers where a
review stands for more than one write, and two deaths let both agents, or one
twice, come back with a stale copy.

The safety properties of all parts are proved for all values of the constants
as well, type correctness included (`TypeCorrect`; only the daemon's run checks
its type invariant again), so the bounds matter for the liveness properties and
the counterexamples. Deadlock is
checked in the daemon and the worker. The others may stop: the loop when it is
done, the controller after `dispose` and its last dispatch, the store after its
last run, relay and phases at their bounds, the wait after the shutdown of the
session, the blackboard loop when its processes have ended or nobody starts
them. Symmetry is used for thread ids only, in a run without liveness.

## 5. Fairness

* `LoopDaemon`: weak fairness of each synchronous section (a live process
  executes it to its end); strong fairness of the pending continuations of a
  job, which are disabled again and again while other callbacks of the same
  event loop run, but not postponed for ever; daemons are started again (weak)
  and keep polling (strong). Nothing makes a task appear, a human approve, a
  lease expire, or a daemon stop or crash. That a run of the write-review loop
  ends is not assumed either: `taskTimeoutMs` has no default, and an invocation
  whose provider refuses for ever does not end (`MCWriteReviewLoop_forever`).
  `LeaseReturned` has it as a hypothesis: if no job stays in its run for ever,
  every lease worked under is given back. The positions before and after a run
  have deadlines (the gate's, the ack's) or no wait.
* `WriteReviewLoop`: weak fairness of the loop's own steps: a model call
  returns or fails, a pause is a timer that fires. The task timeout is not
  assumed to fire; `TimeoutEnds` states what follows if it does.
* `ContinuationController`: the guard timer and each dispatch's watchdog fire.
  Nothing is assumed of the provider, the send, the agent or the events. A
  send that has returned is counted.
* `WorkerLock`: a process goes on with a start it has begun, asks again after
  a refusal, and finishes a release. It need neither stop nor restart.
* `RelayStream`: the connect deadline and the buffer's timer fire, and what an
  open socket holds, a message or its end, reaches the client. Nobody has to
  connect, press a button or accept a socket.
* `TwoPhaseReview`: a handler that runs ends (its awaits are reads of files
  with a timeout), and turns of the agent keep ending. `SettledCompletes` is
  conditional on work that stays done and handlers that do not overlap.
* `QuestionWait`: minutes pass, the countdown's deadline and the poll fire, and
  a decision's awaits return, in time or by their timeout. Nothing is assumed
  of the human or the agent.
* `BlackboardLoop`: each process that runs goes on: polls are timers, and a
  review ends by its deadline of five minutes. Nobody has to start an agent;
  `LoopEnds` is about loops whose agents both came to stay and whose file does
  not stay torn.
* `CheckpointStore` has safety properties only.

## 6. The proofs

All theorems are checked by the TLA+ proof system, for every value of the
constants that satisfies the modules' named assumptions.

**`LoopDaemon_proofs`** - `TypeCorrect`, `Invariance`, `ExclusiveOwnership`,
`UnlinksAreSafe`, `GateCorrect`, `Refinement`, `LeasesAreHandedBack`,
`NoOrphanBeforeACrash`. `Invariance`, `ExclusiveOwnership`, `UnlinksAreSafe` and
`Refinement` assume `DistinctIds`: no two processes sign with the same worker id, which is
the deployment the code needs (section 7 says what happens with the default
id). `Exclusive` is not inductive: it says nothing of the files. `IInv` adds
that the lease file of an entitled daemon is the one it created
(`LeaseBacksOwner`), that no other process is between check and unlink of such
a file (`UnlinkIsSafe`), that an expired file's claim is forfeited, and which
positions of the synchronous code go with which jobs (`SectionsConsistent`).
A claim needs an absent file, so nobody else is entitled when it succeeds; a
claim made under a pending unlink is forfeited at birth. The refinement
follows: every step leaves `Owner`, gives it from nobody to one daemon, or
returns some tasks of one daemon to nobody. `LeasesAreHandedBack` and
`NoOrphanBeforeACrash` hold whoever shares an id: a daemon past its claim has
written its file (`FileIsWritten`), so `release()` can read it and removes it,
on every path; what is left to `LeaseReturned` is that the path is followed.

**`WriteReviewLoop_proofs`** - `TypeCorrect`. `JudgedCorrect`: between a draft
and its review nothing else runs. `PausesWithinPolicy`: assuming
`MaxAttempts >= 1` and a floor not above the base wait, each pause lies between
floor and ceiling; the lemma on `SurgeBackoff` carries the arithmetic.
`PausesNeverShrink`: without jitter the pauses escalate. Both need that
`Factor` is the power it is meant to be (`FactorIsPower`): a table of the first
n factors exists for every n and no two tables differ, each shown by a least
counterexample, so the function the definition asks for exists.
`LoopRefinement`: with `JudgedBeforeMovingOn` as the invariant each action is a
step of `ReviewProtocol` or a stutter. `StepsCount`: every step that is not a
refusal lowers `Rank`, which is at most `2 * Drafts + 5`; this is why the loop
ends unless it is refused.

**`ContinuationController_proofs`** - `TypeCorrect`, `NothingIsLeftBehind`,
`OwnershipCorrect`, `BudgetCorrect`, `WithdrawalsAreHonoured`, `AgentIsIdle`.
The strengthening says that sequence numbers of running dispatches are distinct
and at most `lastSeq`, that a withdrawn dispatch which still owns the guard has
its cancel intent set, and that an agent became busy during a snapshot read
only through a message that withdraws the read or is marked on it (`stray`): of a
released dispatch, of the harness, or of a user without a task intake
controller. `AgentIsIdle` says no more than this; section 7 has the rest.

**`CrashSafety_proofs`** - the two small parts whose state is files that a dead
process leaves. Of `WorkerLock`: `ExclusionUntilCrash`, `ReleasesAreTheOwners`:
as long as nobody has died, whoever is past the create is named by the lock,
`judge` never finds a dead owner, and only the owner stands before the unlink.
"Until a crash" is part of the statement because the takeover breaks it
(section 7). They are about the worker that runs, whichever opens and closes
fail; a database left open by a failure is in `leaked` and excluded from none
(`OneDatabase`, section 7). `LockRefinement`: without crashes (`MaxCrashes = 0`)
the lock implements `TaskOwnership`, with the running worker as the owner. Of
`CheckpointStore` (its names begin with `Store`, so that one module can extend
both): `LatestCorrect`, `GroundIsKept`: the last line of an index that is not
torn names the last complete put, whose file exists; ids grow.

**`RelayStream_proofs`** - `ClientIsNeverStranded` and `TimerIsIdle` from
`ClientInv`: each method of the client, taken alone, keeps `Sound`, which says
what a client that was not told to stop has left (a connection, an attempt with
its deadline, or the reconnect timer). `DeliveredInOrder` from `OrderInv`: what
is delivered, then on the wire of a session, then in the buffer is a strictly
increasing sequence of callbacks, because a session that becomes ready starts
behind everything delivered. A callback is a broadcast: that a press is not
broadcast twice, or out of order, is up to the webhook and is not so. `NoneIsIgnored` from `MarkInv`: on each wire the
marker that ends the snapshot stands before every callback. `NothingIsLost`
from `LossInv`: a due callback is in the buffer, on the wire of the active
socket, or delivered, and the session of that socket is ready.

**`TwoPhaseReview_proofs`** - `TypeCorrect`, `EveryPhaseIsEarned`,
`MemoryAgreesWithFile`, `OnlyOvertakenHandlersStray`, `OnlyStaleWritesTakeBack`,
with sessions that are switched at any time. The strengthening (`Sound`) carries
`Earned` over to what a suspended handler has read: a snapshot is earned by the
evidence at the time, which only grows, and a list is backed by the evidence of
the session it was read for. Where a handler applies it to another task, that
task is `mixed` from then on, and nothing is said of its phase any more
(`EarnedInEverySession`, section 7); type, file and order of the writes are
proved for these tasks too. A write that is based on the current state is above
it in every part (phase, chunks, signals), so only one based on an older
snapshot takes back. Memory leaves the task of the running session only by a
handler that took its state before the switch.

**`QuestionWait_proofs`** - `TypeCorrect`, `WaitTogether`, `OneAnswer`,
`ReservedIsReserved`, `FirstAnswerWins`, `WaitGoesOn`. `WaitHasItsQuestion` needs
`FiredIsAsked`: a countdown that has fired belongs to the question the decision
in flight has captured, so whichever way that decision ends stops the countdown
or arms it again. The other three rest on one lemma: every step answers one
pending question, closes pending ones, or leaves them. `WaitGoesOn` is the
safety core of `WaitIsServed`: while a question waits, minutes pass, the next
deadline or poll starts a decision, or one is in flight, unless a refusal kept
the flag (section 7).

**`BlackboardLoop_proofs`** - `TypeCorrect`, `AgentsTakeTurns`,
`VerdictStands`, `LateSavesTakeBack`, from `IInv`. Any process may write an old
copy of the record back at any time, so none of them is inductive. The next
action in a copy works as a token (`OneTurn`): an agent whose copy may still be
saved and names a task of its own has the turn, and neither the file nor
another such copy gives it to the other agent. So the copy that has the turn is
the newest (`TurnIsNewest`), no copy is past a review in hand
(`NothingPastReview`), the last verdict of a copy that goes on is that of the
last review (`VerdictIsKept`), and after the report there are no more
(`ReportIsTheEnd`).

The second half is the safety core of `LoopEnds`, for behaviours in which no
save was lost: the file is then the one record, and each save changes it as it
is. `NeverStandsStill`: before a loop that both agents found has an outcome,
some process can move, unless the next task is stranded with a dead agent or
the file is torn.
`StepsCount`: each step of a process lowers `Rank`, the tasks left to take and
the places of the processes, or loses a save. `CanMove` and `ControllerCanMove`
write out when the actions are enabled; TLC has compared them with `ENABLED` in
every reachable state of small instances. Only the fairness that makes the
process that can move do so stays with TLC.

Only model-checked: liveness (`LeaseReturned`, `EndsUnlessRefused`,
`TimeoutEnds`, `GuardsAreReleased`, `StaleLockIsRecovered`, `DueIsDelivered`,
`SettledCompletes`, `WaitIsServed`, `LoopEnds`), because fairness and `ENABLED`
are outside the proof system's reach, and every counterexample. The library's
induction theorems take an operator as a parameter, which the provers here
cannot instantiate; where a proof needs induction (`Factor`, the last of a set
of numbers) it takes a least counterexample from the well-foundedness of the
naturals. No module declares a recursive operator.

## 7. Counterexamples

Where the documentation, a comment or a test states more than the code does,
the statement is a definition of the module and a configuration shows the
counterexample. The three listed as runs:

| configuration | statement, and where it is made | what happens |
|---|---|---|
| `MCLoopDaemon_overrun` | `ExactlyOneDaemon`, README.md:257 | a reaping daemon unlinks a lease not yet written, or an expired one of a live run, and executes the task too |
| `MCWorkerLock_takeover` | `OneWorker`, worker.ts:59 | two processes both rename over the lock of a dead worker |
| `MCQuestionWait_stuck` | `DecisionFollows`, index.ts:1103 | when the judge rejects a question the flag that keeps decisions apart is not given back (index.ts:1899): no later decision starts, and later countdowns are armed again for ever |

Configurations kept on the side, to be run by hand (`tlc -config X.cfg` with the
module of the same prefix); TLC finds each violated:

| configuration | statement, and where it is made | what happens |
|---|---|---|
| `MCLoopDaemon_retry` | `RetriedAfterFailure`, harness/langchain/daemon.ts:1108 | a failed task stays in the seen sets |
| `MCLoopDaemon_twice` | `FinishedOnce`, daemon.test.ts:286 | a daemon that polls after the lease is back runs the inbox file again |
| `MCLoopDaemon_orphan` | `OrphanReleased`, lease.ts:17 | leases are reaped by the constructor only; a restart within the TTL leaves the file |
| `MCLoopDaemon_pending` | `PickedUpOnStart`, daemon.test.ts:397 | `start()` seeds the seen set with unprocessed files |
| `MCWriteReviewLoop_stuck` | `GivesUpFairly`, harness/langchain/graph.ts:194 | after a surge the first draft is compared with that of the failed invocation |
| `MCWriteReviewLoop_forever` | `LoopAlwaysTerminates`, README.md:259 | quota waits and exhausted surges repeat without limit |
| `MCWriteReviewLoop_backoff` | `ExhaustedEscalates`, daemon.ts:1250 | its factor is the scheduler's count, which no longer grows: every wait is as long as the first |
| `MCContinuationController_cap` | `TotalWithinCap`, continuation-controller.ts:76 | a late success of a released dispatch is counted past the cap |
| `MCContinuationController_retries` | `RetriesAreMarked`, continuation-controller.ts:785 | the mark depends on the guard flag, which a pause clears, and on one slot |
| `MCContinuationController_drop` | `DropsOwnRelease`, continuation-controller.ts:917 | the release deferred for a dispatch the watchdog ended is applied to the next |
| `MCContinuationController_refusal` | `RefusalPauses`, index.ts:1886 | the controller the pause is sent to is never assigned |
| `MCWorkerLock_torn` | `TornLockIsRecovered`, acceptance.test.ts:149 | a lock that was created and not written cannot be parsed and is never replaced |
| `MCCheckpointStore_resume` | `ResumesFromSaved`, README.md:260 | the thread id is random, so saved state is not found after a crash |
| `MCCheckpointStore_torn` | `TornLineKeepsOthers`, checkpointer.ts:4 | one line that does not parse empties the index |
| `MCRelayStream_lost` | `CountedIsKept`, packages/relay/src/server.ts:490 | a session that has not authenticated counts as a receiver, so the callback is not kept in the file, and receives nothing |
| `MCTwoPhaseReview_unreviewed` | `UnreviewedIsUnchanged`, packages/two-phase-review/src/runtime.ts:431 | a git call that fails gives an empty scope, and the task completes without a review |

Statements that a change of one constant, or of the property of a passing
configuration, refutes in the same way:

* `Exclusive` with one `AgentId` for all daemons, the default (daemon.ts:908):
  a release removes another daemon's lease.
* `PauseWithinPolicy` with `MaxAttempts` 0 (surge.ts:199): the exhausted wait is
  zero times its step, and the loop is invoked again at once, for ever.
* `PublishedIsVerdict` (README.md:258) and `ScoreboardApproved`
  (scoreboard.test.ts:264): `onStep` gets the state before the review.
* `StaleLockIsRecovered` with `PidReuse` (acceptance.test.ts:149): the dead
  owner's pid belongs to a living process.
* `OneDatabase`, that until a crash only one process has the database open: a
  start whose `Harness.open` fails (worker.ts:253-276) and a stop whose close
  fails (worker.ts:289-298) release the lock with the database open.
* `SendsToIdleAgent` without its exception for a `stray` turn: a message of the
  harness (index.ts:2043), or one of a user while there is no task intake
  controller (index.ts:2015-2034, 2047), starts a turn and pauses nothing.
* `RetriesRejectedAuth` (packages/relay/src/client.ts:451): the retry of a rejected
  auth is suppressed by the `disconnect()` before it. `QueuedIsNotStreamed`: a
  client that authenticates before the flush gets a callback that is in the
  file too. `PressedInOrderOnce`: the webhook acknowledges a press after it was
  broadcast; when that fails it answers 500
  (scripts/unified-webhook-server.ts:412-434, 503-506), the press is delivered
  again and broadcast again, and requests may overtake one another.
* `NeverBackwards` (state.ts:211): a handler writes the state it took before it
  waited. `CompletedMeansFixed` (rules.ts:344): an open fix does not keep a task
  whose tests are closed from completing. `EarnedInEverySession`: nothing in
  runtime.ts:309-320 keeps a session from being switched while a handler waits
  for its todo list; the handler then applies the list to the task it finds, and
  a fresh task leaves its implementation on the items of another.
* `OnlyTheUserCancels` (index.ts:1584): the extension's own message cancels a
  question like a user's. `PendingIsWaitedFor` (index.ts:1868): a decision
  whose question is gone ends the wait of the next one. `MinimumWait`
  (index.ts:949): a decision that began for an older question reads the current
  one only after its first await, and has the judge decide on a new one.
* `LoopEnds` without `[]<>~torn`, and `OnlyLateSavesTakeBack` without its case
  of a death: a process killed in the middle of a save (cli.ts:70-76) leaves a
  torn `status.json`. `readJson` makes nothing of it (cli.ts:60-66), every poll
  of controller and agents just goes on, and what was done is gone.
* `BlackboardLoop`: `<>(outcome # None)` with both agents started and none
  dying (`MaxCrashes = 0`): the code agent's save on its early exit
  (loop-code-agent.ts:56) writes back a copy from before the review agent
  completed the report, and the controller waits for ever. A blocking verdict
  is not always reported (`outcome = said`): the report is completed a poll
  later, and loop-controller.ts:59 looks at it first. With no reviews, which
  loop-controller.ts:131 allows, the controller fails at the report
  (`outcome = "crashed"`). With 4 writes and 2 reviews the fourth write is
  never made, and review 1 comes after write 1, although its dependency is
  write 2 (loop-types.ts:71): the review agent takes the number of a review for
  that of a write (loop-review-agent.ts:277).

## 8. What is not modelled

* Model answers, prompts, file contents, wording, formatting and logging:
  nondeterministic or left out.
* LangGraph itself: the compiled graph is taken from how `graph.ts` uses it
  (nodes run one at a time, channels are kept per thread by the saver). Its
  recursion limit (50) is above what two nodes per iteration can reach with the
  default cap. A node that still runs after the task's timeout is not followed.
* The daemon's bus watcher reads a field its publisher never writes, so it
  triggers nothing. Heartbeats and `listActive` have no caller in the daemon.
* `onStep` wrapped repeatedly by one daemon over several tasks; the loop's model
  has one task.
* The guard net timer is longer than the watchdog; the model lets the timers
  fire in any order and so includes more behaviours.
* `continueItem`, `markComplete`, `_reset` of the controller; `deleteThread`,
  `clearAll`, `list`, `listThreads` of the checkpointer: only tests call them.
* Of the relay: heartbeats and pings, subscriptions, status and error messages,
  and the content of a snapshot; several clients (each has its own session, and
  a broadcast is sent to each alike).
* Of the two-phase review: an explicit review request of a human, a workspace
  without git, an unreadable state file, the text of findings and the files of
  a chunk. How handlers overlap at their awaits is the agent host's doing and
  is left open.
* Of the questions: the agent, the human, the judge and the todo list are
  external; the status row and the dashboard; a countdown before the first
  session start and a timer that cannot be created. Mail to the agent is
  unordered and dropped when the session is switched; an instance is not used
  again after its shutdown. The dispatch of a continuation is one step here,
  its interleavings are those of `ContinuationController`.
* Of the blackboard loop: a second loop whose controller replaces the
  configuration, a controller that dies, the event log, and the operations of
  the blackboard nobody calls.
* Notification channels (network adapters) and the other components of section
  1 without a module: see the plan and `PROJECT.json`.
