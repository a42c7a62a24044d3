# Formal models of the agent session stack

This directory specifies, in TLA+, the part of the repository that runs an
agent and keeps its history: the loop that turns queued messages into turns,
steps and model requests, the scheduler that runs the tool calls of one model
message, the append-only session log they write, the code that repairs and
stores that log across crashes, and three services that act on agents from
outside: background jobs, scheduled reminders and goals. TLC checks the modules on small
instances; TLAPS proves, for every value of the constants, the safety properties of the
loop, the inbox, the tool scheduler, the repair of logs, the persistence handle, the jobs,
the reminders and the goal rounds.

Paths below are relative to `src/packages/`.

## 1. The system

| Part | Code | State | Operations | Hard behaviour |
|---|---|---|---|---|
| Agent loop driver | `core/agent-loop/src/agent.ts`, `dispose` in `index.ts` | phase (idle, maintenance, running) with abort signal and latched wake; open turn and step; `activityDone` | send / followup / steer / inject, cancel, runMaintenance, whenIdle, wakeDriver, kick, turn, preStep, step, dispose | listeners call back synchronously in the middle of an operation; every await may be overtaken by cancel, send, dispose; wakes must be neither lost nor replayed twice |
| Agent inbox | `core/agent-loop/src/inbox.ts` | two lists of pending messages; the splice events of the log | splice, append, prepend, replace, remove, claim, clear | the log must replay to the lists in memory |
| Tool scheduler | `core/agent-loop/src/tool-calls.ts` | slots, pool of running bodies, started and committed counts | executeToolCalls, runGroup, fillPool, startCall, commitReady | bodies settle in any order, results commit in model order; abort and failure at any await |
| Log repair and fork | `core/session/src/repair.ts`, `fork.ts` | pending calls, open turn and step of a scanned prefix | openTurnClosers, ToolCallRecovery, buildForkSeed | any prefix may be what a crash left; the repair itself may crash |
| Checkpoint policy | `session/session-checkpoint-policy/src/index.ts` | none | barriers before pre-step, before the stream, before a tool body | a body must not run before its call is durable |
| Persistence handle | `session/session-persistence-jsonl/src/storage.ts`, `lease.ts` | live buffer, timer, single drain, mutation chain, torn tail, lease | enqueueLive, drainLive, append, flush, close | failed writes retried without duplicates; flush joining a drain; close racing publishers |
| Background jobs | `jobs/jobs-local/src/index.ts`, `jobs/tool-jobs/src/index.ts` | records with status, cause, waiters; cleanups attached to owners; kills the model asked for | start, kill, wait, remove, settle, disposeOwned, disposeAll | settlement against timeout, kill against teardown, start against an unloading owner |
| Schedule runtime | `schedule/schedule/src/runtime.ts`, `index.ts` | stored tasks, one FIFO chain, one timer, one running loop | create, update, delete, stop, requestDrive, drive, dispose | at-least-once delivery: queue, flush, then commit; failure, crash or a clock set back in between |
| Goal service and fold | `goal/goal/src/index.ts`, `fold.ts` | phase, revision, rounds and limit of a goal, folded from the log; authority to continue | create, edit, pause, resume, complete, block, clear, disarm | a strict fold that refuses what the service did not mean to log |
| Goal round driver | `goal/goal-round-driver/src/index.ts` | reservation of the next round, checkpoint and competition flags, loops of `requestDrive()` | drive, requestDrive, listeners of status, inbox, goal, log and pre-step, disposal | reservations made stale by prompts, edits, aborts while a checkpoint or a step is awaited |
| User approval | `interaction/user-approval/src/index.ts` | pending questions | request, decide | abort racing the answer |

Everything else (front ends, API gateway, tool implementations, language-model
adapters, sandboxing, knowledge base, DingTalk connector, format migrations) is
listed in `PROJECT.json` with the reason it is not modelled.

How they interact: `send()` splices a message into the inbox (which appends an
`agent/inbox/splice` event to the session and notifies listeners) and wakes the
driver. The driver opens a turn, claims a batch, asks the `agent/pre-step`
listeners, opens a step, logs the messages, streams a model request, and hands
tool calls to the scheduler, which logs a call and a result for each. All of it
is appended to one session log; persistence listens to the log, and the
checkpoint policy makes certain steps wait until the log is durable. After a
crash the stored prefix is closed by `openTurnClosers` before the session is
published again.

What makes each part correct:

- *Driver*: boundaries are balanced whatever happens in between; a message is
  in one place and is logged once; none is lost but by a caller, a rejection or an
  abort or failure before its batch is logged; a turn closes when the model is owed
  nothing; a wake is neither lost nor
  replayed behind a live driver; disposal ends.
- *Inbox*: the logged splices replay to the lists in memory.
- *Scheduler*: one result per call, in model order, true to what ran; exclusive
  calls alone; pool bound; no body outlives the step.
- *Repair*: every prefix closes to well-formed history, twice is once, and
  nothing that ran is called not started.
- *Handle*: readers see a prefix of the log; acknowledged events survive; no
  event is written twice, skipped or forgotten; close drains and ends.
- *Jobs*: limits hold, no job outlives its owner, the first settlement stands, the
  model is told of each end once, teardown ends.
- *Schedule*: a delivery is recorded when it is durable, repeated only by a mishap,
  made only for what is due and stored, and made at last.
- *Goal rounds*: no round of a gone revision enters the log; prompts of a human go
  first; a reservation stands behind a checkpoint; an unloaded driver starts nothing;
  a goal that may continue is carried on.
- *Approval* (planned): one decision per question.

Jobs and schedule address agents by `followup()` and `inject()`, that is through the
inbox, and wait for sessions by `flush()`; agents' scopes dispose of their jobs.
The goal driver listens to nearly everything the loop does, and its place in
`agent/pre-step` decides whether a step is opened.

## 2. Modules

| Module | Models | Extends / uses |
|---|---|---|
| `Inbox` | the splice algebra of `inbox.ts`: normalisation, application, replay checks, claim batches | |
| `InboxLog` | the inbox over its durable log, every mutator | `Inbox` |
| `AgentLoop` | `ReactLoopAgent` with its callers | `Inbox`; `TurnLog` by `INSTANCE` |
| `TurnLog` | abstract: what any reader may assume of the turn and step boundaries of a log | |
| `ToolScheduler` | `executeToolCalls()` and the step's recovery of missing results | |
| `SessionRepair` | the log across crashes, resumes and forks; `openTurnClosers`, `buildForkSeed`, checkpoint policy | |
| `SessionHandle` | `JsonlSessionHandle`, its live buffer and its artifact | |
| `Jobs` | the job registry with its owners' and its own disposal, and the notices of `tool-jobs` | |
| `Schedule` | the reminder service: chain, timer, drive, crashes, the Session's inbox as what was queued and what of it is durable | |
| `Goal` | operators: what the goal service admits and commits, what the fold accepts | |
| `GoalRounds` | the goal round driver composed with goal, inbox and the agent's turn | `Inbox`, `Goal` |
| `AgentLoopProofs` | theorems: types, boundaries, refinement of `TurnLog`; latches, `whenIdle()`, debts, admission, messages | `AgentLoop`, `TLAPS` |
| `InboxLogProofs`, `ToolSchedulerProofs`, `SessionRepairProofs`, `SessionHandleProofs`, `JobsProofs`, `ScheduleProofs`, `GoalRoundsProofs` | theorems about the module each is named after | that module, `TLAPS` |
| `MC*` | TLC instances, one `.cfg` per run | |

### How a model's steps correspond to the code

JavaScript runs one synchronous stretch at a time. An action is such a stretch:
from the settlement of one `await` to the next `await`, with every call it makes.
Where a listener can call back in the middle of a stretch, the action ends there.

**AgentLoop.** `stack` is the call stack. `send()` inserts its message and pushes
a `wake` frame: the listeners of the splice run before `Wake` pops it and calls
`wakeDriver()`, and any call may be pushed on top, up to `MaxDepth`. `cancel()`
pushes a `cancel` frame per list it clears. The driver (`pc`) is on the stack
while it runs synchronously with listeners around, and off it while it awaits.
Listeners of `session/event` run inside an append, which refuses another append,
so at those positions only calls that log nothing are possible (`MayLog`).
`phase` is the private `phase` object with its abort controller and latch;
`activity`, `settled` and `waiting` are the promise in `activityDone`, those
resolved, and the promise each `whenIdle()` caller awaits. `RequestSettles`,
`StreamSettles`, `RequestErrorSettles`, `ToolsSettle` have every outcome the awaited
code can produce. `log` is not the session log but what the boundaries depend
on: open turn and step, unanswered calls, whether the model is owed a response.
Between `prepareRequest()` and the stream the step does not look at its signal: it logs
its system messages, the batch one message at a time and the header, and the observers of
each append may cancel (`BeginAdmission`, `AdmitMessage`, `OpenStream`). An append of a
message the step has accepted does not fail.
`disposal` is the agent-side part of `dispose()`. `Dispose` runs in whoever calls it, a
listener perhaps: its cancel (`cancelling`), its wait (`waiting`), its end (`done`), which
stands for `scope.dispose()`, `handle.close()` and the registries together. Inside an append with
work pending `inbox.clear()` throws, so `DisposeRejected` neither aborts nor waits: the
handle is closed and the agent leaves the registries all the same (`closing`, `Detach`). The
model follows an agent until it has left them.

**ToolScheduler.** `pc` is the position in `runGroup()`; `Fill`, the one
synchronous position, admits no settlement and no abort. `body` is each call's
promise, `inFlight` the pool map, `class` the mode read when the call was
started. Programmatic nested calls do not pass through this scheduler.

**SessionRepair.** `log` is the list of events reduced to what repair looks at;
`durable` the stored prefix. The writer is `AgentLoop` and `ToolScheduler` in one,
reduced to the order they append in; the three checkpoint barriers are guards on
`durable`. `Crash` keeps the durable prefix, `Resume` closes it as one batch, and
`CrashWhileResuming` keeps part of that batch. `Scanned` is the fold the code
computes event by event; the loop's next turn and step numbers are read from the log
(`LastTurn`, `LastStep`), where the projection `turnBoundary` and the phase of a running
agent keep them. `WellFormed` looks at positions only, so the scan is not judged by itself.

**SessionHandle.** `disk`, `tail`, `torn`, `exists` are the artifact: committed
events, complete events readable in a torn last frame (zstd only), torn bytes,
published. `chain` is the handle's promise chain with the running operation
first, `step` the await inside `persistContiguous()`/`persistBatch()` it is at, `batch`
what it writes. `draining` is the shared drain promise from `drainLive()` until
`finally` clears it: *queued*, *written* (about to look at the buffer again),
*ended*/*failed* (settled, still joined by new callers for one microtask).
Timers and I/O callbacks are macrotasks, so they wait until no continuation of a
settled await is left (`Macrotask`); everything else a caller can do may come
between any two continuations. A failing write is rolled back by truncation; the first write publishes the
artifact by `link()`, which may succeed and its directory sync fail. A crash keeps
any part of the running write. `Reopen` is the next process.

**Jobs.** `job` holds every record ever started, `store` the ids the registry lists.
`done` is the producer's promise and whether its continuation has run. `told` is a
history of how the end of a job reached the model: as the result of a wait, of its own
`job_kill`, or as a notice. A scope that unloads refuses new effects one microtask
before its disposers run, so `Unload` and `DisposeOwned` are two steps and `Start` may
come between them. In teardown any set of cancels may throw.

**Schedule.** `chain` is the FIFO promise chain, `drive` the await the drive at its head
is in, with its locals; `running` is the promise of the loop in `requestDrive()`:
*queued* in the chain, *returned*, *retiring* (the microtask before `finally`). A
message is the set of task occurrences it reminds of; `flushed` says how many are
durable. The timer is clocked apart from `Date.now()`, so it may fire early; a task
has one fixed interval. `Crash` keeps what is stored and any prefix of what was not
flushed.

**Goal and GoalRounds.** The pair of goal id and revision is one number that moves on
with every change, and a queued message names the number it was made for. The driver,
the goal and the agent call each other synchronously and deeply, so a handler is an
operator from a record of the whole state (`World`) to the next, and an action
(`Becomes`) composes those of one stretch. Only the insertion of a round is split
(`Reserve`, `WakeUp`): its listeners may call anything, and `driver.waker` remembers the
loop on the stack; `driver.run` is still unset then, as in the code, so that a goal edited
there starts a second loop, hence a set of `loops`. Of the turn the model keeps the awaits the fences
look across: *assembling*, *hooks* (listeners downstream), *preparing* (the request),
*streaming*. Turns, aborts, latches and maintenance follow `AgentLoop`, whose
module has their detail. `past` is history: what of the log a checkpoint covers, and
the known ways round a fence (see section 4); so is `attempt.sent`, how many messages had
been sent when the reservation was claimed.

## 3. Runs

| Run | Instance | Shows |
|---|---|---|
| `agentloop_core` | 2 messages, 2 tool steps, 1 job, calls nested 2 deep, resumed at turn 1, one `whenIdle()` caller | types; boundaries agree with the log; a message in one place at most, logged once, prompts in order, and none lost but as the code means to; a completed turn owes nothing; latches stand behind a barrier and disposal parks queued work; `whenIdle()` releases only an idle agent; refinement of `TurnLog` |
| `agentloop_live` | 2 messages, 1 job, fair | a latched wake is answered; `dispose()` completes, from wherever it is called |
| `inbox_log` | 3 identities, coordinates -2..2, 5 splices | the log replays to the lists; claim takes the boundary's batch |
| `tool_scheduler` | 4 calls, 2 at once, fair | order, honesty, pool bound and exclusivity, no late starts, no survivors, termination |
| `session_repair` | 2 identities, 2 calls a message, 11 events, 2 turns | completeness, convergence and honesty of repair |
| `session_handle` | raw log, 3 events, 2 checkpoint callers, 2 faults, 1 crash | readers' prefix, cursor, buffer and log agree, acknowledged events survive, close keeps what was published |
| `session_handle_zstd` | zstd, 2 events, 1 caller, 1 fault, 2 crashes, fair | repair of a torn tail agrees with cursor, buffer and log; events get written, checkpoints return, close completes |
| `jobs` | 2 jobs, 1 agent and the shared bucket, limit 1, 2 waits, fair | limits, no job behind its owner, each end told once, first settlement stands, teardown ends |
| `schedule` | 1 one-shot and 1 recurring task, interval 2, time to 3, 1 call, 2 mishaps, fair | records durable, repetition only by mishaps, honest reminders, due tasks served |
| `goal_rounds` | limits up to 2, 1 message, 2 goal operations, 2 mishaps, fair | stale rounds kept out, prompts first, checkpoint first, unloading final, goals carried on |
| `lost_wake` | 2 messages | violation, see below |
| `goal_stale_round` | limit 1, 2 goal operations, no mishap | violation, see below |

Five more configurations print counterexamples of section 4 and belong to no run:
`MCSessionHandleLateFlush.cfg`, `MCSessionHandleCloseFault.cfg` (both with
`MCSessionHandle`), `MCJobsTeardown.cfg` (with `MCJobs`), `MCAgentLoopDispose.cfg` (with
`MCAgentLoop`) and `MCGoalRoundsOrphan.cfg` (with `MCGoalRounds`).

Every property of a passing run has a mutant of the code's model that violates it
(`PROJECT.json`); the mutated forms stand beside the definitions they replace.

### Bounds and why they are enough

- Two messages suffice for a wake to be latched while another is being served, and
  for two prompts to be queued at once. Nested calls two deep
  cover a listener that cancels inside a `send()` and one that sends inside a
  `cancel()`; deeper ones repeat the same frames. Two tool steps allow a truncated
  step, a steered one and one that calls tools. A request may be retried without
  bound, since a retry returns to a state already seen.
  `agentloop_core` runs under the view `WithoutLeft`: states that differ only in the
  history variable `left`, which no action and none of its properties reads, count as one.
- Four calls with two at once let a pool fill, overtake, stall behind its first
  call, be cut by an exclusive call, and be followed by another group.
- Eleven events are a turn with a step of two calls, closed, and a second turn
  that reuses an identity; a repair in the middle of either fits.
- Three events are one stored before publication, one in flight and one buffered;
  two faults are a failure and the failure of its retry; two crashes are a crash
  in the repair of the tail that the first one left. The zstd run has two events,
  one in the torn frame and one behind it, since it checks liveness too.
- Two jobs with a limit of one per bucket put a job at its limit beside another bucket,
  or a second job of the same agent behind a settled one. Two waits tell one
  released waiter from several. One agent is enough: owners share nothing but `store`.
- One task of each kind gives a group and a single; with an interval of two and three
  instants an occurrence is missed, delivered late and followed by the next. Two
  mishaps are a failure and a failure, crash or rollback in what it left behind.
- Two goal operations are a creation and one change; the sharpest cases (a change in an
  await, an edit in an insertion) need no more, as the driver only compares the
  current number with its own. Two mishaps pair an abort with a maintenance job or an unloading. A
  limit of two has a first round, a next one and an exhausted budget. The same run
  with one more message, operation or mishap is beyond five minutes.

`CHECK_DEADLOCK FALSE` stands in every configuration because each system may
really stop: a disposed agent, a finished scheduler, a closed handle, an inbox
whose bounded log is full, a repaired log at its bound.

### Fairness

- `AgentLoop`: frames return, awaits of the driver, of a job and of `whenIdle()`
  settle (weak fairness: a single-threaded run loop executes what stays ready).
  The stream has strong fairness for an outcome other than a retry, because the
  retry policy gives up after a bounded number of attempts; a disposal whose cancel was
  rejected goes on. Callers have none. `DisposeCompletes` relies on their falling silent, which the
  bounds on messages and jobs stand for: `whenIdle()` follows replacement work, so one who
  submits work for ever could keep `dispose()` waiting.
- `ToolScheduler`: the scheduler and every started body continue (tools settle or are
  aborted); the signal need never come.
- `Jobs`: continuations run, and a producer whose job was cancelled settles, as the
  registry's contract asks of it. Waits need not time out and nobody need call.
- `Schedule`: awaits settle (a session is resolved or not, a flush answers), microtasks
  run, and the timer fires once its time has come. Clock, callers and mishaps have none.
- `GoalRounds`: the loops of `requestDrive()`, the awaits of a step, the end of a
  maintenance job and of the unloading. Callers, goal operations and failures have none.
- `SessionHandle`: continuations of settled awaits are weakly fair. Timers, I/O
  settlements and the steps of `close()` are strongly fair: calls by others disable them for
  a moment (microtasks run first), but Node reaches a ready callback however
  often that happens. `CloseCompletes` (in `HandleProgresses`) relies on publishers falling silent, which
  `MaxEvents` stands for: close drains until it finds the buffer empty, so one
  who publishes for ever could keep it open.

## 4. Where the code and its statements differ

The first two are runs whose counterexample TLC prints; the next five have the
configurations named in section 3.

1. **A wake can be left to a driver that no longer looks** (`lost_wake`). `turn()`
   reads `inbox.hasPending` and `kick()` goes idle one microtask later. A waking
   `send()` in between finds a running driver, latches nothing, and waits in the
   inbox for the next wake.
2. **A goal changed while a request is prepared breaks its own log**
   (`goal_stale_round`). The reservation is checked for the last time in `agent/pre-step`
   (`goal-round-driver/src/index.ts:416`); the step then awaits `agent/request` and
   `prepareCall()` before it logs the round. An edit, completion or clearing by a host in these
   awaits leaves a round of a gone revision in the log. The strict fold refuses it
   (`goal/src/fold.ts:325`), and every access to the goal throws from then on
   (`goal/src/index.ts:479`). `RoundsInv` shows that the fences keep out every other
   stale round (but for one that outlived the driver).
3. **A late flush is acknowledged early** (`MCSessionHandleLateFlush.cfg`). `drainLive()` hands
   out the same promise until one microtask after the drain looked at the buffer for the
   last time. An event published and flushed in that gap joins it; `flush()`
   then finds the artifact materialized and returns, while the event is only
   buffered. `AckedSurvive` holds for every other checkpoint.
4. **Close may not notice a failed drain** (`MCSessionHandleCloseFault.cfg`). When another
   caller's drain has taken the events, `close()` finds the buffer empty and awaits
   the chain, which swallows failures. The drain fails, puts its batch back, and
   `close()` resolves. Without faults nothing is lost (`CloseKeepsPublished`).
5. **A kill in a teardown makes it a kill** (`MCJobsTeardown.cfg`). `killJob()`
   replaces the recorded cause (`jobs-local/src/index.ts:465`) while `disposeOwned()` awaits
   the job, so the settlement announces `kill`, and the listener of `tool-jobs` queues a
   notice for an agent being disposed. `jobs/jobs/src/index.ts:54-58` says that such
   settlements announce `teardown`.
6. **A disposal inside an append leaves a live driver** (`MCAgentLoopDispose.cfg`). An observer
   of `session/event` that disposes of the agent while work is pending makes
   `inbox.clear()` throw, since appends do not nest; `dispose()` collects the failure
   (`agent-loop/src/index.ts:548`) before it has aborted or awaited anything, closes the handle and
   leaves the registries, and the caller is told at the end. The driver is still running, or is
   started by the `send()` whose splice was being published. The package's README (line 110) says
   "Teardown stops and drains the driver". `DisposalStopsDriver` is the statement.
7. **An orphaned round starts behind the unloading** (`MCGoalRoundsOrphan.cfg`). The goal
   driver's disposal cancels and awaits a reservation only if the agent is running
   (`goal-round-driver/src/index.ts:445-452`). One still queued in an idle agent or behind a maintenance job stays
   there and enters a step once nobody listens any more, although the package's README
   says that unloading "ensures no later round starts" (line 57; line 127: "No later round
   starts"). `past.orphan` marks the case; `UnloadFinal` holds without it, `NoLaterRound` is the
   statement.

The following came up while the models were written and are seen in their state
spaces, but no run is devoted to them:

- *A torn zstd tail* (`storage.ts:328`). Records recovered from it count as stored,
  so a flush acknowledges them; the repair truncates the frame before it writes
  them again, and a crash in between loses them. `AckedSurvive` is therefore a
  property of the raw run only, and fails with `RecoversTail = TRUE`.
- *Max-tokens* (`agent.ts:341`). A turn whose first step was truncated keeps that ending;
  if a steered second step calls tools, the turn stops with results no request
  followed. `CompletedOwesNothing` is stated for the ending `completed`.
- *Admission under an aborted signal* (`agent.ts:416-423`). An observer that cancels at the first
  append of a batch does not keep the others out of the log: they enter a step that
  then fails. `MessagesAccounted` says so: a batch is logged whole or not at all.
- *Latches.* The first abort cause wins, so disposal behind a user's cancel does
  replay a latched wake (`agent.ts:221`); a `cancel()` whose clearing listeners send drops the
  latch of what they sent (`agent.ts:178`); a cancel between the settlement of pre-step and its
  reading leaves the turn ended as blocked or completed (`agent.ts:317`).
  `DisposalParksWake` (in `LatchSound`) and `WakeReplayed` carry the corresponding exceptions.
- *The lease* (`storage.ts:251`). Neither the timer nor new drains are stopped before the lock
  is released, so a write may come after it. An event published between
  close's last look and the end of the handle is in nobody's hands either;
  `CloseLosesNothing` speaks of events published before that look.
- *First publication* (`session-persistence-jsonl/src/index.ts:1226`). If `link()`
  succeeds and the directory sync fails, every retry is refused by the handle's own
  artifact (`Refuses` in `WriteFails`).
- *Setup* (`agent-loop/src/index.ts:703`). An event appended while the suffix is stored
  would be published unstored and every later batch refused as a gap. The model
  assumes nobody appends then.
- *Removal twice* (`jobs-local/src/index.ts:629`, `652`). When an agent and the registry are
  disposed of at once, both await and drop the same jobs, and `removed` is announced twice.
- *Rounds in a maintenance job*. The agent's status is idle then, so `drive()` takes its own
  queued reservation for a finished one (`:156-161`) and queues a copy, and `sameQueued()`, which does not
  compare ids, takes either for the other. A prompt may wait behind such a copy, and
  when a copy is claimed the reservation counts as claimed, still queued as it may be: a
  prompt that comes then no longer makes it stale. `PromptsFirst` therefore speaks of the
  reservation itself and of the prompts sent up to that claim (`attempt.sent`). And no status event tells of the
  job's end: a prompt discarded in it leaves `competingQueued` set and the goal still
  (`past.dropped` in `GoalCarried`).
- *A goal changed in the insertion of a round* (`:212-231`) finds no `run` and starts a second
  loop, whose checkpoint the first one does not await (`CheckpointFirst`).
- *A rejected round* ends its turn as blocked, and `turn()` returns without a look at the
  inbox (`agent.ts:317`). A prompt queued behind it waits for the next wake unless the
  goal goes on.
- *An edit may lower the limit* of a goal below the rounds it has started
  (`goal/src/index.ts:340`), which the fold accepts and the schema of its projection
  refuses (`:98`).

## 5. Proofs

`AgentLoopProofs` proves for every number of messages, jobs, tool steps, nesting
depth and waiters, from `AgentLoopConstants` alone:

- `TypeCorrect`: `Spec => []TypeOK`. `TypeOK` is inductive as it stands: each action
  has a lemma, and they rest on lemmas about sequences of frames, the phase
  record and the inbox operators. The form of the call stack is part of it, since the
  frame on top is what `Wake`, the steps of `cancel()` and the driver read.
- `BoundariesCorrect`: `Spec => []BoundariesAgree`. `BoundariesAgree` relates the
  driver's position, its counters and the open boundaries of the log and is
  inductive relative to `TypeOK`. The actions fall into those that touch none of
  its variables (calls, listeners, waiters), those that replace the phase and keep
  its numbers (`PhaseUpdates`), and the driver's own steps, one lemma for each
  group of positions.
- `ImplementsTurnLog`: `Spec => TurnLogSpec`. Each driver step that changes `log` is
  one `TurnLog` action, everything else stutters. The invariant supplies that
  the boundary appended is the one the log allows.

`ToolSchedulerProofs` proves every safety property of `ToolScheduler` for any number of
calls and any pool size, from `ToolSchedulerConstants`:

- `TypeCorrect`. `TypeOK` needs one companion: a call is being prepared at position
  *prepare* (`TypeInv`).
- `ControlInvariant` is what the rest stands on: the counters are ordered and meet
  between groups; what runs is in the pool and belongs to the present group; every
  started call but the one being prepared has a body; at *fill* nothing is left to
  commit, no failure is pending and an abort has been noticed. From it follow
  `NothingOutlivesCorrect` and `NothingStartsLateCorrect`.
- `AnswersCorrect` and `HonestResultsCorrect` add that until the end the results are
  those of the committed calls, in order (`ResultsFollow`). That an abort can answer
  the calls behind `started` rests on `committed = started` once the pool is empty, which
  is the point of `ControlInvariant`'s conjuncts about *fill*.
- `PoolDisciplineCorrect` joins two results: `PoolBoundCorrect` adds that the pool has room at
  *prepare*, `ExclusiveAloneCorrect` that a group of more than one call is parallel
  (`ModesKept`).

From the type and boundary invariants, `AgentLoopProofs` goes on to what the driver promises
its callers:

- `LatchCorrect` (`LatchInv`). What makes `LatchSound` inductive is the call stack: a wake
  that found an aborted activity waits in its frame while the insertion's observers run,
  and latches when the frame returns. `LatchInv` says that no driver frame stands above
  such a frame, hence that the activity it found is still the aborted one.
- `WhenIdleCorrect` (`ActivityInv`): the promise of the present activity is unresolved while
  the agent is busy, and one that a *retire* frame on the stack will resolve is an older one.
- `CompletedCorrect` (`OwesInv`) follows the debt to the three places at which a turn can
  close as completed.
- `MessagesCorrect` (`MessageInv`). Messages are numbered as sent, so a pending list is
  increasing; `Fate` keeps a message in one place and a claimed or logged prompt below
  those pending, `Turns` the turns of logged prompts below the one in which the next is logged.
  This is *at most* one place; messages do leave the agent.
- `AdmissionCorrect` (`MessagesAccounted`) says by which steps. `BatchInv` places the batch: held
  from its claim to the end of its step, still to be logged at *admitting* only, and counted
  whole only until an attempt begins to log. `ClaimTakes` shows that what a claim takes
  from the lists is the batch; then each step either keeps what is held (`HeldItems`,
  `AdmissionStep`) or is one of those the property names.

`InboxLogProofs`: `InboxCorrect` and `ClaimCorrect`. `InboxInv` asks what a fold over the
log computes, which calls for induction over the log. The proof does without: `LogInv`
says that *there is* a function that follows the log from the empty lists to the live
ones, event by event (`Follows`), and every action that logs extends this function by one
point. `NormalisedSplice` and `FrontNormalised` show that the projection accepts what the
live inbox normalised.

`SessionRepairProofs`: `RepairCorrect`, `HonestCorrect`, `StartedCorrect`, for messages with any
number of distinct calls. All three speak of folds over logs of any length.

- `Told(log)`, the invariant, says that *there is* an account of the log (`Traces`): a
  function from positions to what a reader knows who is aware of the order in which the
  loop writes (turn and step, the numbers last used, the last boundary, the calls of
  the open step, where their results lie, which have begun). Each event must be `Legal` after
  the account so far. Told logs are closed under taking prefixes and under appending a legal
  event, which is all that crashes and the live process do.
- `FirstCloser`: the first event that `openTurnClosers()` would write is legal, and
  with it written the closers are the others. By induction every part of a
  repair is told and leaves the rest to write (`Closing`), which is convergence, and
  covers a failed step, a crash during the repair and the seed of a fork.
- `Story`, proved by induction over the log with a case for each kind of event, says what
  an account means for the events before it: boundaries follow one another, the calls of
  every closed step are answered in order, a recovery result agrees with the log. `ScanTold`
  shows that the code's scan is a function of the account; `ClosedIsWellFormed` takes
  well-formedness from it.
- `RanRecorded` (every body that ran has its call in the durable prefix) is the
  checkpoint's part in `StartedCorrect`.

`JobsProofs`: `RegistryCorrect`, `CompletionToldCorrect`, `FirstSettlementCorrect`. The
strengthening is that a disposal awaits all its agent owns, and that until it begins
the owner's cleanup is attached as soon as it owns anything (`Snapshots`), with
`Listed`: only what has ended leaves the registry.

`ScheduleProofs`: `ScheduleCorrect`, `RemindersCorrect`, `OncePerMishapCorrect`.
`DriveInv` says that what a drive has read of its tasks is still so behind its awaits, as
the chain runs nothing else meanwhile; `FlightInv` that the last message names the
occurrences in flight, and is durable at *committing*. `Counted` is an account: whoever
may be reminded of the same occurrence once more, because its row or the clock is not past it,
has seen a mishap for each earlier time. The smallest suitable occurrence is taken
with the well-foundedness of the natural numbers, a library theorem. `ClosedInv` is needed where the next process starts.

`SessionHandleProofs`: `BooksCorrect` for raw and zstd artifacts; `AckedCorrect` and
`CloseCorrect` for raw ones (`ASSUME ~RecoversTail`), like the runs, since with a recovered tail
the first is false (section 4) and `close()` may leave such a tail
unwritten. Every sequence the handle works with is a piece of the log. `Lies(s, k, log)` says
where, and the invariant only keeps these places: the artifact at the front, the recovered
tail behind it, the batch in flight behind the cursor, the buffer behind the batch
(`DiskInv`, `CursorInv`, `BatchInv`, `BufferInv`). That the contiguity check never fails, that nothing is
written twice by a retry and that a crash leaves a prefix are consequences. `ChainInv` says that each operation in the chain is the
only one of its caller and that its caller waits for it; `FlushInv` that a checkpoint whose drain found the buffer
empty has its goal stored, but for late ones; `CloseInv` accounts for what `close()` saw
while nothing has failed: it is stored, or in a drain that `close()` still awaits.

`GoalRoundsProofs`: `RoundsCorrect`, `UnloadFinalCorrect`, `CheckpointCorrect`,
`PromptsCorrect`. Handlers are
operators on worlds, and so are the proofs: a world is *good* when it is well typed, the
fences hold (`Fenced`) and the checkpoints add up (`Flushes`), and each operator has a lemma that
it takes good worlds to good ones, down to `DriveOn`, `Change` or `Claims`. An action's
proof composes the lemmas in the order of its handler.

- `RoundsInv` follows from `Fences` (what is at *preparing* is what the fold expects, unless the
  goal has changed since) and `Limits`: a round of the live revision is within the limit
  of its goal, which the last fence does not look at and the fold does. That the service commits
  only what its own fold accepts is `ChangedGoal`.
- `UnloadFinal` follows from `Unloading`: while the driver stops, a step with a round is
  under way only if the disposal awaits the agent.
- `CheckpointFirst` follows from `Flushes`: whoever may queue a round without another
  checkpoint has everything logged flushed, or in the flush another loop awaits; a loop that
  is alone has no such other.
- `PromptsFirst` needs a second invariant, `Ordered`, about the queue of turns and the
  step. `Apart`: a round is in one place once, so a copy is never the reservation. `Phases`:
  the reservation is where its phase says. `Waits`: while it is queued and not stale no prompt
  is behind it; once it is claimed, in its step or still queued behind a copy, a prompt
  behind it is younger than the claim. Handlers that only remove messages,
  move the step on or make the reservation stale keep it by one lemma (`LessensOrdered`);
  the claim (`HeadTaken`), the reservation and the prompt have lemmas of their own.
- What `Kept` (a recursive function) returns is proved, as the folds of `SessionRepairProofs`
  are, by induction over a set of numbers (`SetInduction`), which the well-foundedness of the natural numbers gives without an
  operator parameter.

Each invariant was model-checked before it was proved (`Ordered` with a second message, 4
million states: with one, nothing can come between a copy's claim and the reservation's); of `Told`, which quantifies over
functions, the parts of `Story` were, with the account computed. All proofs rest on the named
assumptions of the modules alone.

Only model-checked: what needs fairness (`WakeReplayed`, `DisposeCompletes`, `DueServed`,
`HandleProgresses`, `TeardownCompletes`, `GoalCarried` and the other liveness properties), which is
out of the provers' reach. Every safety property of the passing runs has a theorem.

## 6. Not modelled

The schedule, repair and goal modules take the answer of a flush to mean that what
its caller had logged is durable. Of the handle that is true but for the late checkpoint
of section 4, item 3; `ScheduleInv`, `StartedNeverDenied` and `CheckpointFirst` are relative to it.
`CompletionTold` judges by what is queued: a notice queued to an agent in its own
teardown counts as told. Of the goal driver, a `followup()` that throws (the branch
`queue-failed`) and a `withoutInitiator()` that refuses are left out.

The text of prompts, requests and results; surfaces and projections as data; session
format migrations; creation, resume and fork plumbing of the loop beyond
`dispose()`, log repair and setup storage. Of the handle: `read()`, `stat`, listing,
migration on open, two processes competing for one lease, `flushAll` (the same
drain and flush for each handle), a rollback that fails itself, a failing lease
release. Of the jobs: output rings and pumps, the model's read cursor, controller
layers, the budget of wakes. Of the schedule: calendar rules, delivery history
retention, several sessions, refusals of subagents. Of the goals: ids, texts,
timestamps.

The repository has over half a million lines, most of them a browser client, tool
implementations, adapters to external programs and services, generators, catalogues and
schemas. The models stand for the few thousand lines in which several activities share state
and the order of their steps matters; for the rest a model would restate the code
without an interleaving, a failure or an order to check. Components outside
these are listed in `PROJECT.json` with their reasons.

## 7. Plan

In this order:

1. An abstract log store (events acknowledged, events stored, crash) as the specification
   that `SessionHandle` implements, the artifact as its refinement mapping; the lemmas on
   places in the log (`Lies`) carry over.
2. `UserApproval`, then session projection caches, the knowledge base's proposal inbox and
   the DingTalk connector's queue and file lock.
