# A TLA+ verification project for Step-Code

Step-Code is a coding agent: a language model is asked in a loop, its tool calls
are executed, and their results go back to it, while a user, extensions, timers
and child agents act at every await of that loop. The program is single-threaded
TypeScript, so its concurrency is that of awaits and callbacks (in the durable
stores, of several processes on one file). This project models the parts that
decide *what may happen in which order*: the agent's loop and queues; one
assistant turn, with the inside of the model's response, the executors of its
tool calls and the progress of a call; the run loop of a session with its retries
and recoveries; the background lanes of subagents; the admission of model work;
the goal of a session; and the two stores that must survive crashes, the durable
cron jobs and the tree of session entries.

Contents: [1 The system](#1-the-system) · [2 Modules](#2-modules) ·
[3 Properties and runs](#3-properties-and-runs) · [4 Fairness](#4-fairness) ·
[5 Proofs](#5-proofs) · [6 Findings](#6-findings) ·
[7 What is left out](#7-what-is-left-out) · [8 Where to go on](#8-where-to-go-on)

Commands, in this directory:

    tlc -workers 2 -config Agent.cfg MCAgent.tla      # likewise for each run of section 3
    tlapm AgentProofs.tla                             # likewise the other *Proofs modules

`PROJECT.json` lists for every run its module, configuration and properties, for
every definition the source lines it translates (`map`), for every property a
seeded fault that breaks it (`mutants`; the faulty definitions stand in the
modules, before the definition they replace, with a comment that says mutant),
and the hazards the properties are for.

Paths below are relative to `src/packages/`.

## 1 The system

### 1.1 Components

| Component | Source | State it keeps | Operations |
|---|---|---|---|
| Agent | `agent-core/src/agent.ts` | transcript, steering and follow-up queue, delivery filter, active run with its abort controller, subscribers | `prompt`, `continue`, `steer`, `followUp`, the clears, `abort`, `reset`, `waitForIdle` |
| Agent loop | `agent-core/src/agent-loop.ts` | locals of one run: context, pending messages, batch, barrier flags | `runLoop`, `streamAssistantResponse`, the two tool executors, `executePreparedToolCall` |
| Agent session | `coding-agent/src/core/agent-session.ts` | run flag and run controller, retry counters, overflow flag, incomplete-turn streak, run failure, queued custom messages, idle waiters | `prompt`, `sendCustomMessage`, `_runAgentPrompt`, `_handlePostAgentRun`, `abort`, `abortRetry`, `waitForIdle`, compaction |
| Turn classification | `core/incomplete-turn-recovery.ts`, `run-failure.ts`, `rate-limit.ts` | none | is a turn empty, retryable, rate limited, an overflow |
| Subagent lanes | `features/subagent/lane-lifecycle.ts` | lane records, generation and epoch, notices in preparation, answer writes | launch, reply, stop, stop all, shutdown, final notice, eviction |
| Subagent processes | `features/step-subagent.ts`, `subagent/execute.ts`, `rpc-adapter.ts` | child processes, kept sessions | spawn, prompt, interrupt, keep alive, stop |
| Goal runtime | `features/step-schedule.ts` | goal status, attempt, accounting | set, pause, resume, clear, continue at the settled boundary |
| Durable cron | `features/step-cron.ts` | JSONL file shared by processes, lock file, cached view | add, delete, tick, fire |
| Workflows | `features/workflow/` | admission window (process-wide), budget, journal | run, agent calls, park, resume, dispose |
| Process registry | `core/process-registry.ts` | records of owned process trees | register, release, graceful release, kill |
| Session storage | `core/session-manager.ts` | append-only tree of entries in a file, leaf | append, label, branch, fork, open, build context |
| Compaction | `core/compaction/` | none of its own | cut point, summary |
| Credentials | `core/auth-storage.ts` | file under a lock | read, refresh, replace |
| Agent harness | `agent-core/src/harness/` | a second host of the loop | its own operation state machine |
| Tasks, plan mode, questionnaire | `features/step-tasks.ts` and others | small stores | dialogs |
| Extensions, settings, models, index, modes, server, providers, tui, cli | the rest | configuration, rendering, wire formats | |

### 1.2 How they interact

- The **session** owns one agent and calls `agent.prompt` and `agent.continue`,
  never two at a time by intention; the agent refuses a second run. The session
  listens to the agent's events; its `message_end` handler classifies the turn,
  writes the entry and adjusts the counters *before* the loop goes on, because
  the loop awaits its subscribers.
- The **loop** calls back into the agent for queued messages at several places of a turn,
  and into hooks before and after requests and tools. All of these are awaits.
- A **tool batch** runs inside the loop; a tool may ask the run to stop
  (`stopTurn`, a control tool such as plan approval) or the batch to be the last
  (`terminate`).
- A **lane** runs child agents in the background and reports through custom
  messages, which land in the agent's queues or trigger a session run.
- A pending **user decision** makes the agent's delivery filter hold back
  messages no person wrote.
- **Workflow runs** and parallel subagent batches take slots of one admission
  window per process; the calls report their 429s and successes to it.
- The **goal** and the **cron jobs** start runs of the session by handing it
  messages: the goal when a run has settled, cron when a job is due.
- The session writes every message to its **entry tree**; a restart, a fork and a
  compaction read the conversation from there.

### 1.3 What is hard here

Messages are *taken* from a queue and *injected* later with awaits between; a
queue is polled at four places of a turn and in two modes; an abort can land in
any await; responses can end in five ways of which a provider stream chooses
none reliably; parallel tool calls finish in any order while one awaits all;
progress is coalesced while a slow listener is awaited; retries, rate-limit
retries, compaction and recovery prompts each have a counter reset by others'
events; two session runs may overlap in a preflight; a lane can be restarted,
stopped or shut down while its last notice is still being written; an
admission window shrinks, parks, changes hands and must still wake its waiters; a
goal's message cannot be unsent when the user pauses; processes share a file
whose lock outlives its owner; a write may fail, or a process die, with half a
line in the file. `PROJECT.json` lists these as hazards at their lines, with the
property that covers each, or the reason why none does.

### 1.4 What makes each component correct

- *Agent, loop*: a message handed in is delivered exactly once, in order, at most
  one steering message per turn in one-at-a-time mode; no request carries an
  unanswered tool call; a barrier ends the run; every run ends.
- *Response*: one final message per response, whatever the provider does.
- *Batch*: results in call order, nothing left running, the barrier respected.
- *Progress*: the newest frame before the result, silence after it.
- *Session*: a run settles, stays cancelled when cancelled, reports the failures
  that stand and no others, and sends one recovery prompt for empty turns until
  something is shown.
- *Lanes*: the running limit, one truthful notice per turn, bounded retention.
- *Admission*: a waiter is admitted whenever there is room and no cooldown, no
  path leaks a slot or returns it twice, nobody is admitted above the smallest
  ceiling attached, every call ends.
- *Goal*: what is stored is what is shown, tokens are counted once, an active
  goal does not come to rest by itself.
- *Cron*: what was delivered and recorded is not delivered again, sessions do not
  undo each other's changes, the lock file is not left behind.
- *Session tree*: memory and file agree, and an entry that can be read is read
  with everything that was said before it.

## 2 Modules

| Module | Models | Lines of code mapped |
|---|---|---|
| `Agent` | class `Agent`, `PendingMessageQueue`, `runLoop` | `agent.ts`, `agent-loop.ts` |
| `AssistantStream` | `normalizeProviderStream`, `streamAssistantResponse` | `agent-loop.ts` |
| `ToolBatch` | `executeToolCalls*`, `failToolCallsFromTruncatedMessage`, preparation and finalization | `agent-loop.ts` |
| `ToolBatchContract` | what `runLoop` relies on of a batch (abstract specification) | `agent-loop.ts` |
| `ToolProgress` | `executePreparedToolCall` | `agent-loop.ts` |
| `AgentSession` | `prompt`, `sendCustomMessage`, `_runAgentPrompt`, `_handlePostAgentRun`, `_checkCompaction`, abort, idle waiting | `agent-session.ts` |
| `Turn` | one assistant turn: the three above composed | `agent-loop.ts` |
| `SubagentLanes` | the lane lifecycle | `lane-lifecycle.ts` |
| `WorkflowAdmission` | the semaphore, the pool and their users | `budget.ts`, `admission.ts`, `runtime.ts`, `execute.ts` |
| `GoalRuntime` | the session goal over the host's runs | `step-schedule.ts` |
| `CronStore` | durable jobs of several sessions | `step-cron.ts` |
| `SessionTree` | a session's entries and their file | `session-manager.ts` |
| `MCAgent`, `MCSubagentLanes`, `MCWorkflowAdmission`, `MCSessionTree` | values for the constants | |
| `AgentProofs`, `TurnProofs`, `AgentSessionProofs`, `SubagentLanesProofs`, `WorkflowAdmissionProofs`, `GoalProofs`, `CronProofs`, `SessionTreeProofs` | theorems (`TurnProofs` also those about `ToolBatch`, `ToolProgress` and `AssistantStream`) | |

They fit together in layers. `AgentSession` reduces the agent to a lock, a
queue and the kinds of its turns. `Agent` models the loop and sees one response
as its final message (what `AssistantStream` establishes: `OneTerminal`) and one
batch as the results it emits and the flags it returns. The latter is a
refinement: `ToolBatchContract` says what `Agent`'s `EmitToolResult` and
`FinishBatch` assume, and `ToolBatch` is checked, and proved for any number of
calls, to implement it under a refinement mapping. `ToolProgress` is the inside of
the state `"executing"` of a call in `ToolBatch`. `Turn` puts the three together
and carries the refinement over to the whole turn. `GoalRuntime` sees the host
as `AgentSession` shows it, reduced to the stages of a run; `WorkflowAdmission`,
`CronStore` and `SessionTree` stand for themselves.

Everywhere **an action is the code between two awaits**: the code is
single-threaded, so nothing else happens inside it, and between two actions
every other actor may act. Locals that survive an await are variables.

### 2.1 Agent

`steeringQueue` and `followUpQueue` are the sets of messages in the two
`PendingMessageQueue` arrays; `arrival` numbers every enqueue, and since nothing
is put back in front, the array order is the order of `arrival`. `Drain` is
`drain()` with the delivery filter and the queue mode. `hold` is the filter's
decision to let through `UserMessages` only. `messages` is the transcript, of
which an entry keeps its role, stop reason, number of calls or call number.
`pc` names the await: `prompt`, `poll`, `prepare`, `inject`, `hook`,
`lateInject`, `stream`, `tools`, `turnEnd`, `followUp`, `agentEnd` for the
loop, `ended`, `failed` and `finish` for `runWithLifecycle`.

| Code | Action |
|---|---|
| `steer`, `followUp`, `clearAllQueues`, `abort`, `reset` | `Steer`, `FollowUp`, `ClearAllQueues`, `Abort`, `Reset` |
| the predicate of `setQueueDeliveryFilter` changes | `ToggleHold` |
| `prompt`, `continue` | `Prompt`, `ContinueWithSteering`, `ContinueWithFollowUp`, `ContinueFromTranscript` |
| `runLoop`'s polls | `InitialPoll`, `PrepareNextTurn`, `BeforeModelRequest`, `PollAfterTurn`, `PollFollowUps` |
| injection of pending messages, one per awaited event | `InjectPrompt`, `InjectPending`, `InjectLate` |
| the response, the batch | `StreamAssistantResponse`, `EmitToolResult`, `FinishBatch` |
| barrier or `shouldStopAfterTurn`, `agent_end` | `StopAfterTurn`, `EmitAgentEnd` |
| a rejecting subscriber or hook, `handleRunFailure`, `finishRun` | `Reject`, `HandleRunFailure`, `FinishRun` |

### 2.2 AssistantStream, ToolBatch, ToolProgress, Turn

`AssistantStream` has the generator's side (`Create`, `Start`, `Update`,
`ProviderEnds`, `Interrupted`) and the consumer's (`Handled`, `Return`, `Reject`);
`context` holds the entries the response has in the loop's context.

`ToolBatch` steps through a batch in one of three modes. `state[c]` is how far
call `c` is; `flags[c]` what its final result asks for. The sequential and the
truncated executor are one loop that differs in `Skipped` and `BreaksOnAbort`; the
parallel one prepares in a loop, launches what is prepared, waits for all and
emits results in call order. After a rejected event the batch has failed while
launched calls go on, as nothing cancels them (`EndLaunchedCall`, `LoseCall`).

`ToolProgress` has `forward()` (`Forward`), the delivery loop (`ListenerDone`,
`ListenerRejects`), the settling of the tool, and the two awaits behind it
(`StopAccepting`, `ReturnResult`). Frames are numbered; nothing else of them matters.

`Turn` extends `ToolBatch` and instantiates the other two. The batch starts when
the response has returned a complete message (`InBatch`); one call of the batch
is `watched`, and its tool's progress runs beside the batch. The batch takes the
watched call's outcome only when its progress call is `"finished"`, and a batch
that fails leaves the progress running. The composition is what makes the
sharp statements possible: no tool runs for a response that failed, no progress
is delivered behind the outcome *in the batch*, and a turn with slow or
rejecting listeners ends.

### 2.3 AgentSession

A run is one call of `_runAgentPrompt`; `pc[r]` names where it is. An assistant
turn has a kind, the verdict of the pure classifiers:

| Kind | Meaning |
|---|---|
| `ok`, `bigStop`, `tools` | completed: with text, with text over the context limit, with tool calls |
| `length`, `aborted` | cut off; aborted |
| `transient`, `rateLimit`, `overflow`, `fatal` | errors: retryable, rate limited, context overflow, final |
| `empty`, `emptyOverflow` | incomplete: nothing visible; the same with no room left |

The transcript is reduced to the number of assistant messages at its end, because
`continue` asks only for the role of the last message: `liveTail` in the agent's
state, `savedTail` in the session's branch. The two differ when a retry removes a
failed turn from the agent's state only. A failed turn of a kind in `PartialText`
may have shown text before it failed, or not (`Showing`).

What `_handlePostAgentRun` finds out in front of an await and uses behind it is a
variable: `held`, that a decision was pending when the run looked at its last turn (it
stops then after the compaction, whatever has become of the decision); `fits`, that the
turn was found not to overflow or a compaction has made room; and `backoff`, the run whose
sleep the session's only `_retryAbortController` can end.

| Code | Action |
|---|---|
| `prompt` up to its last preflight await, its outcome | `Prompt`, `PreflightFails`, `PreflightPasses` |
| `sendCustomMessage` with `triggerTurn`; queued input | `TriggerTurn`, `QueueUser`, `QueueCustom` |
| the head of `_runAgentPrompt`, `agent.prompt` | `StartRun`, `PromptAgent` |
| an attempt: polls, turns with their `message_end` handling, end, `finishRun` | `Inject`, `Turn`, `LoopEnds`, `FinishRun` |
| `_prepareRetry` and its backoff | `PrepareRetry`, `NoRetry`, `BackoffEnds`; `EndBackoff`, part of the aborts |
| `_checkCompaction` and the compaction it runs | `Judge`, `CompactionFails`, `CompactionCommits` |
| the rest of `_handlePostAgentRun`, `agent.continue`, recovery prompt | `Decide`, `ContinueAgent`, `RecoverIncomplete` |
| the `finally` block, `agent_settled` and its listeners | `Settle`, `Settled` |
| `abort`, `abortRetry`, `waitForIdle`, decisions | `Abort`, `AbortRetry`, `WaitForIdle`, `RaiseDecision`, `AnswerDecision` |

`unresolved`, `recoveries` and `reported` are history variables for the properties.

### 2.4 SubagentLanes

One record per lane with its status, its `runGeneration` and the generation its
current turn started with (`started`). Promises under way are sets: `runs` (a
turn's promise), `windDowns` (the callback a stop chained on the interrupted run),
`deliveries` (calls of `deliverFinal`, at one of its two awaits) and, per lane,
`writes` (the chained answer writes). A callback carries the generation it was made
for, and the epoch of its lane is compared with the live one, as in `isCurrent`.
`finishedBefore` relates two finished lanes when `updatedAt` of the first is the
smaller one, which is all the eviction asks of it.

| Code | Action |
|---|---|
| `launchLane`, `stopLane`, `shutdown` | `LaunchLane`, `StopLane`, `Shutdown` |
| `replyToLane`: queued, interrupting, of a finished lane | `QueuePrompt`, `InterruptLane`, `ReplyToFinished` |
| `onCompletedResponse` and its write | `CompleteResponse`, `WriteAnswer` |
| the run's promise settles, current or not | `RunResolves`, `RunRejects`, `StaleRunSettles` |
| the wind-down of a stop | `WindDown` |
| `deliverFinal` with its `finally` and the eviction | `AwaitWrites`, `SendNotice`, `EndDelivery` |

### 2.5 WorkflowAdmission

A semaphore is a record: `limit`, `ceiling`, counted `active` slots, the queue of
`waiters`, the set `admitted` of calls that hold a slot, whether it is `cooling`
and whether its timer (`wakeup`) is set. Its methods are functions from record to
record, and the same functions serve the run's own window and the shared one.
`current` is the set of calls whose sampled generation is still the semaphore's.
A promise that has been resolved is resumed by an action of its own, so an abort
may fall between the admission of a call and its next step. `Drain`
admits whoever fits and is part of every method that makes room; `Leave` is
what the abort listeners of waiting calls do to a queue.

| Code | Action |
|---|---|
| a run or batch attaches, fails or is aborted, ends | `StartRun`, `AbortRun`, `EndRun` |
| `agent()` takes its two slots and starts the runner | `StartCall`, `AcquireShared`, `StartRunner` |
| `onModelRequest`: started, succeeded, 429 | `RequestStarted`, `RequestSucceeded`, `RequestRateLimited` |
| the ways out of a call | `EndCall`, `EndAborted`, `Hang`, `RunnerSettles` |
| cooldown and timer | `SharedClock`, `OwnClock` |

### 2.6 GoalRuntime

`g` is the runtime object as one record: the goal, the stored goal, the run's share
(`NoRun` when there is none), `pending`, `queued` and `outstanding` continuations.
Every method is synchronous and is a function of that record and of which of its
writes succeed; the actions apply one method and do what the host does with its
answer. The host is the run it is in (`starting`, `attempt`, `between`, `idle`),
its queued goal messages and the settled events on their way.

| Code | Action |
|---|---|
| the host's runs | `Prompt`, `AttemptStarts`, `NextAttempt`, `Drain`, `MessageEnds`, `RunEnds`, `Interrupt` |
| `onAgentEnd`, `onAgentSettled` | `AttemptEnds`, `Settled` |
| `onSessionReady` after a restart | `Restart` |
| the model's tools and the user's commands | `SetGoal`, `UpdateGoal`, `Pause`, `Resume`, `Edit`, `ChangeBudget`, `ClearGoal` |

### 2.7 CronStore

`file` and `lock` are the two files; a session has its copy `jobs`, the missed
jobs it still has to announce, and `pc`, its place in `update()`: `stale` and
`reopen` in `acquireLock`, `locked`, `replace` and `unlock` behind it. Each system
call is an action, and a session may die between two. A lock left by a dead
process is an `orphan` and after a minute `stale`.

| Code | Action |
|---|---|
| `acquireLock` | `Request` (part of each starting action), `UnlinkStale`, `Reopen` |
| `update()`: read and change, replace, unlink the lock | `Mutate`, `Replace`, `ReplaceFails`, `Unlock` |
| `start`, `loadDurable`, the refresh, `tick` | `Start`, `RetryRecovery`, `Refresh`, `Tick` |
| `create`, `delete`, `stop` | `Create`, `Delete`, `Stop` |
| the world | `Crash`, `LockAges`, `TimePasses` |

### 2.8 SessionTree

`disk` holds for each file the lines of it that parse (a header and entries;
readers skip all others) and its `end`: what stands behind the last newline is
nothing, a `piece` of a line, or a whole `line` that lacks only its newline. The
manager's `memory`, `leaf` and `flushed` are the class's fields. The branch of an
entry, a loop over parents in the code, is its `Lineage`: what every set has to
contain that contains the entry and the parents of its elements. An append
has three outcomes: it succeeds, fails and is taken back, or the process dies in
it, the latter two with any part of the line written. `said` is a history
variable: the entries that had been said before each one when it was created.

| Code | Action |
|---|---|
| `appendMessage` and its like, `appendLabelChange`, `branchWithSummary` | `AppendMessage`, `AppendLabelChange`, `BranchWithSummary` over `AppendEntry` |
| `branch`, `resetLeaf` | `MoveLeaf` |
| `persistNewSessionHeader`, `newSession`, `_setSessionFile` | `PersistNewSessionHeader`, `NewSession`, `Open` |
| `createBranchedSession`, on a second manager of the file | `Fork` |
| the process ends | `Quit`, and `AppendDies` inside an append |

## 3 Properties and runs

Every property is stated in words above its definition. Each run below finishes
with no error, the two marked "violation" excepted, which show findings
(section 6).

| Run | Specification | Properties |
|---|---|---|
| `agent` | `MCAgent`, `Agent.cfg` | `DeliveredOnce`, `NothingLost`, `CallsAnswered`, `BarrierEndsRun`, `RunEnds` |
| `agent_queues` | `MCAgent`, `Agent_queues.cfg` | `OldestFirst`, `OneSteeringPerTurn` |
| `turn` | `Turn` | `OneTerminal`, `NewestBeforeResult`, `SilentAfterResult`, `BarrierHolds`, `NothingLeftRunning`, `ImplementsContract`, `TurnEnds` |
| `lanes` | `MCSubagentLanes` | `RunningLimit`, `OneNoticePerTurn`, `RetentionBounded`, `FinishAnnounced`, `NoStaleNotice`, `AnswersBeforeNotice` |
| `session` | `AgentSession.cfg` | `RunSettles`, `NoFalseFailure`, `NoSilentFailure`, `RecoveriesBounded` |
| `session_two` | `AgentSession_two.cfg` | `OneAttempt`, `WaitersHaveARun`, `CancellationSticks` |
| `session_continue` | violation | `ContinueAccepted` |
| `tree` | `MCSessionTree` | `MemoryIsFile`, `ConversationKept` |
| `admission` | `MCWorkflowAdmission` | `NoLostWakeup`, `SlotsAccounted`, `HostCeiling`, `CallsEnd` |
| `cron` | `CronStore.cfg` | `FiredOnce`, `NoLostUpdate`, `LockReleased` |
| `cron_lock` | violation | `ExclusiveLock` |
| `goal` | `GoalRuntime` | `StoredMatches`, `TokensCounted`, `GoalGoesOn` |

Bounds, and why they suffice:

- **`agent`**: one user and one automatic message, so that a hold separates them;
  up to two calls in a batch and one turn with calls, so that a batch has a first,
  a last and an unanswered call; one rejection, and a second could only hit the
  report of the first; every intervention. The transcript spans several runs,
  since messages may also be left in the queues and taken by a `continue`.
- **`agent_queues`**: order needs two messages of one kind and a third that
  competes, one-at-a-time delivery and a hold, and nothing that removes messages;
  about 3.2 million states.
- **`turn`**: one update, since the code treats all alike; two calls, one in
  front of the barrier or at it and one behind; three frames: one in flight, one
  replaced, one that waits; one rejecting subscriber, at the batch or the
  progress. The theorems cover any number of calls, frames and rejections.
- **`lanes`**: two lanes compete for one running slot and one retained place; a
  lane with three generations can be started, stopped and restarted while the
  first delivery is in flight; one queued prompt, one write in flight, one
  shutdown; 3.3 million states.
- **`session`**: one run after another with all eleven kinds of turns, each kind of
  failed turn with and without visible text, one retry of each kind, one queued
  message, one decision, raised and answered at any moment. Nobody waits for the
  session to be idle (`IdleWaits`); `session_two` is about the waiters. A budget of one is where an
  off-by-one shows; the recovery budget is the code's own constant. Runs that end
  may start again, so counters that survive a run are exercised.
- **`session_two`**: two runs, each able to start in the other's preflight,
  backoff or settled window; four kinds of turns that reach every branch in which
  the two can meet (end, retry, recovery, cancellation).
- **`tree`**: four entries: an answer, a label with an entry on it, and one more;
  two files, so that a fork has a source and a target; two setbacks, each a failed
  write or the end of a process, the second of which hits what the first left; 1.4
  million states up to the exchange of the two paths.
- **`admission`**: a workflow run with two calls and a ceiling of two, and a batch
  with one call and a ceiling of one: attaching the batch lowers the shared limit
  below what is in use. One success raises a limit (four in the code): the
  count to four has no other effect. Runs, calls and pools come and go without
  bound.
- **`cron`**: two sessions; a job that repeats and expires and one that does
  not; time up to the expiry; one stop or crash and one failed write.
- **`goal`**: one run of the user besides those of the goal, a budget of one token
  or none, two tokens, so that a budget can be exceeded; one settled event on
  its way and one queued continuation; one restart.

No run checks deadlock: each of these systems may rest (an idle agent
with its bounded messages spent, a turn that ended, lanes at their last
generation, a clock at its bound). That runs do not get stuck is stated by the
liveness properties.

`ContinueAccepted` and `ExclusiveLock` get a run of their own because they are
violated. The passing runs do not exclude the behaviours that violate them, but
the cron properties are stated for histories in which nobody has unlinked the
lock of a live process (`broken`), as two sessions inside `update()` may do
anything to each other's rows. Other conditions, each named in the comment of its
property:

- `NothingLost`: no subscriber or hook has rejected. The loop holds drained
  messages in a local variable, and a rejection loses them. The code makes no
  promise there; `DeliveredOnce` holds with rejections too.
- `OneSteeringPerTurn`: at most one rejection (`faults <= 1`). The report of a
  rejected run is an answer of the model too; if that report is rejected in turn,
  nothing separates the steering messages of two runs.
- `RunSettles`: not when failed turns that show some text give the budget of the empty
  turns back again and again (`Refills`; section 6, number 3). Every other mixture
  settles, such turns included.
- `RecoveriesBounded`: one recovery prompt *until a turn shows something*, be it
  the text of a turn that failed. That such a turn should not count is what the
  comments in the code say, and what the code does not do (number 3).
- `NoSilentFailure`: not for a run that found a decision pending after its last turn
  (`held`), also when the decision is answered while the compaction runs (section
  6, number 9).
- `RecoveriesBounded`, `NoFalseFailure`, `NoSilentFailure`: no turn is triggered
  while a prompt is in its preflight (`ConcurrentPreflight` false in `session`).
  Two runs that overlap that way share one streak and one recorded failure, and TLC
  finds each of the three violated by such a pair (section 6, number 4).
- `GoalGoesOn`: since the last attempt began, no write of the goal has failed, the
  host has not put other input first, and nothing the goal asked for was taken back by
  the user or stopped before an attempt (`hindered`; section 6, numbers 7 and 10).
- `MemoryIsFile`, `ConversationKept`: not for a file with an entry that was
  appended to the rest of an append that failed (`spoiled`; section 6).

## 4 Fairness

- `Agent`: weak fairness of the loop's own steps,
  as one action. The code provides it if every promise it awaits settles:
  provider stream, tools, hooks, subscribers. Tools and requests get an abort
  signal but the loop waits for them regardless. Callers (prompts, aborts,
  holds) have no fairness, and the liveness properties hold without their help.
- `Turn`: weak fairness of the response's steps, the batch's and the progress
  (the tool's settling included), each by itself: a tool that reports without end
  (`ToolForwards`, unfair) must not starve the drain of its own frames.
  Rejections and aborts are not fair.
- `AgentSession`: weak fairness of each run's steps; what is awaited is the
  agent, a timer, a compaction and listeners. Nothing is assumed of the user, so a
  decision may stay open for ever and a run must settle all the same.
  Because `MaxToolTurns` bounds tool turns, `RunSettles` says that *recoveries*
  do not go on for ever; a model that keeps calling tools legitimately can.
- `WorkflowAdmission`: weak fairness of each call's resumption and end, of a hung
  runner's settling, and of the timers. Nothing is assumed of 429s, successes,
  aborts or of runs starting and ending: a waiter is served in spite of them. Weak
  fairness per call suffices because a resumption stays enabled until it is taken.
- `SubagentLanes`, `GoalRuntime`, `CronStore`, `SessionTree`: none; all their
  properties are safety properties. A child process may hang, a user may never
  come back, and a process may be dead. `GoalGoesOn` is the safety half of
  "an active goal goes on": unless something hindered it, a session that has come to
  rest has no active goal, or its message waits in the host's queue. It does not
  say that another run comes: a queued message starts none, the user's next one takes
  it along.

## 5 Proofs

The proof modules state for every value of the constants what TLC checks on the
instances above. Assumptions are the ranges of the constants, named in the
modules that declare them: `AgentAssumption`, `BatchAssumption`, `TurnAssumption`,
`SessionAssumption`, `LanesAssumption`, `AdmissionAssumption`, `GoalAssumption`,
`CronAssumption`, `TreeAssumption`. `AgentAssumption` and `SessionAssumption` are
hypotheses of their theorems, the others are assumptions of the modules. Every safety
and every action property of the passing runs is stated by a theorem.

| Theorem | States | By |
|---|---|---|
| `TypeCorrect` (Agent) | `Spec => []TypeOK` | induction, one lemma per group of actions |
| `DeliveredAtMostOnce` (Agent) | `Spec => []DeliveredOnce`, with any number of rejections, clears, resets and runs | the invariant `Placement` |
| `NothingLostHolds` (Agent) | `NothingLost` for any number of messages and interventions | `Placement` and `Kept` |
| `OldestFirstHolds` (Agent) | `OldestFirst` for queues of any length in both modes | `OrderInv` |
| `OneSteeringHolds` (Agent) | `OneSteeringPerTurn` over any number of runs | `SteeringInv` |
| `CallsAnsweredHolds` (Agent) | `CallsAnswered` for batches of any size | `CallsInv` |
| `BarrierEndsRunHolds` (Agent) | `BarrierEndsRun` | `MessagesKept` |
| `TypeCorrect`, `BarrierAlwaysHolds`, `NothingIsLeftRunning`, `ResultsStayInOrder` (ToolBatch) | `TypeOK`, `BarrierHolds`, `NothingLeftRunning`, `ResultsInOrder` for any number of calls and rejections | the invariant `BatchInv` |
| `BatchKeepsContract` (ToolBatch) | `Spec => ImplementsContract`: each step is a step of the contract or a stutter | `BatchInv` |
| `NewestFrameFirst`, `NoFrameAfterResult` (ToolProgress) | `NewestBeforeResult`, `SilentAfterResult` for any number of frames | the invariant `Newness` |
| `TurnKeepsBarrier`, `TurnLeavesNothingRunning`, `TurnKeepsContract` (Turn) | the batch's properties for a whole turn | every step of a turn is a step of the batch or a stutter |
| `TurnNewestFirst`, `TurnSilentAfter` (Turn) | the progress properties at the outcome the batch takes, for any number of calls and frames | the progress's theorems, and `WatchInv` |
| `TurnOneTerminal` (Turn) | `OneTerminal` of the response within a turn, for any number of updates | the invariant `ResponseInv` |
| `AgentNeverShared` (AgentSession) | `OneAttempt` for any number of overlapping runs | `LockInv` |
| `CancelledStaysCancelled` (AgentSession) | `CancellationSticks` | case analysis of the three ways into an attempt |
| `WaitersNeverStranded` (AgentSession) | `WaitersHaveARun` | the invariant `WakeInv` |
| `RecoveryOnce` (AgentSession) | `RecoveriesBounded` for every budget and every set of failed turns that may show text, without overlapping preflights | the invariant `DiagnosisInv` |
| `FailuresReportedStand`, `NoFailureIsSilent` (AgentSession) | `NoFalseFailure`, `NoSilentFailure`, without overlapping preflights | `DiagnosisInv` |
| `LanesInvariance`, `RunningLimitHolds`, `OneNoticeHolds`, `FinishAnnouncedHolds`, `NoStaleNoticeHolds` (SubagentLanes) | `RunningLimit`, `OneNoticePerTurn`, `FinishAnnounced`, `NoStaleNotice` for any number of lanes, generations, writes and shutdowns | the invariant `LanesInv` |
| `AnswersBeforeNoticeHolds` (SubagentLanes) | `AnswersBeforeNotice` for answer chains of any length | `LanesInv` and `AnswersInv` |
| `RetentionBoundedHolds` (SubagentLanes) | `RetentionBounded` for any number of lanes and any number retained | `LanesInv` and `RetentionInv` |
| `SlotsAccountedHolds`, `NoLostWakeupHolds`, `HostCeilingHolds` (WorkflowAdmission) | `SlotsAccounted`, `NoLostWakeup`, `HostCeiling` for any number of runs and calls, every ceiling and every number of successes before a raise | the invariant `AdmissionInv` |
| `GoalInvariance`, `StoredMatchesHolds`, `TokensCountedHolds` (GoalRuntime) | `StoredMatches`, `TokensCounted` for every budget and any number of runs, commands, failed writes and restarts | the invariant `GoalInv` |
| `GoalGoesOnHolds` (GoalRuntime) | `GoalGoesOn` for every order of commands, failures and late settled events | `GoalInv` and `GoesOnInv` |
| `LockReleasedHolds`, `FiredOnceHolds`, `NoLostUpdateHolds` (CronStore) | the three properties for any number of sessions, jobs, crashes and failed writes | the invariant `CronInv` |
| `Invariance`, `MemoryIsFileHolds`, `ConversationKeptHolds` (SessionTree) | `MemoryIsFile`, `ConversationKept` for any number of files, entries, failed writes, deaths and forks | the invariant `TreeInv` |

Why the invariants are needed:

- `DeliveredOnce` is not inductive. That a message in the transcript is in no
  queue is preserved by an injection only if what is *pending* is in no queue, and by an
  enqueue only if what was injected has been handed in before. `Placement` adds
  both: each queue holds only what was handed to that queue (so the two are
  disjoint), and pending and injected messages were handed in and are in no
  queue. A message is handed in once, hence it is never enqueued again.
- `NothingLost` needs to know where a message is at any time. `Kept`: as long as
  nothing was rejected, a message that was handed in is in a queue, pending, in the
  transcript or dropped by the user; what was dropped is nowhere else; and outside the
  places around an injection nothing is pending, so a run that ends there takes
  nothing with it.
- `OldestFirst` is inductive with one fact about numbers (`ArrivalBound`): a new
  arrival is later than all before it.
- `OneSteeringPerTurn` is about two places in the transcript, and what keeps a second
  message away is where the loop is. `SteeringInv`: with an unanswered steering
  message, a run is past the only poll of the turn that may deliver another one
  (`GivenSteering`), and the loop holds a steering message only if the last
  one has been answered (`HeldSteering`).
- `CallsAnswered` speaks of the moment of a request. `CallsInv` carries it through the
  batch: while it runs, its message is followed by the results so far (`BatchOpen`),
  and every earlier message of the run has all of its results.
- `BatchInv` says where each mode of a batch is. `OneAtATime`: outside the
  parallel mode the calls with a result have ended and only the call of the
  iteration has begun, so the next result is the call's own. `BarrierUp`: the
  barrier is up as soon as a result asked for it and a prepared call has seen it
  down, so every call that ran has no such call before it. `Prefix`: the calls of a
  parallel batch that have begun are a prefix, and an abort is the only way to
  cut it short. `ResultsLast`: no result before all of that prefix has ended. The
  last two give the order of the results and that a batch that returns has
  answered a call; without `Prefix` the lowest ended call need not be the next one.
- `NewestBeforeResult` speaks of the end only. `Newness` says where the newest
  accepted frame is at any time: waiting, else in flight, else delivered.
- `ResponseInv` ties what the response has left in the context to whether its stream
  has ended: nothing, then one partial message, then one final message in its place,
  and a consumer that waits for the terminal event waits only once it is there.
- `OneAttempt` is inductive with the domain of `pc`. That no domain of the
  transcript or the counters is needed is what makes it hold for every budget.
- `WaitersHaveARun` needs that the flag a waiter looks at (`isAgentRunActive`)
  implies a run on its way through the `finally` block, even though a refused
  run's `finally` clears the flag of the run that goes on.
- The diagnosis of incomplete turns is made from three counters at four places.
  `DiagnosisInv` says what they mean meanwhile. `Alone`: the session works for one run,
  whose controller it has. `Diagnosed`: a recorded failure stands, and a run that ended
  with an empty turn has it recorded, or was cancelled, or waits for a decision, or found
  one pending after the turn.
  `Paid`: each recovery was paid for with an empty turn, so while a run looks at an
  empty turn there are fewer recoveries than empty turns, and beyond the budget the
  failure is recorded instead. A turn that shows something resets both counts at once,
  which is why the property needs no condition on such turns. That ending a backoff
  moves only a run that sleeps (`Asleep`: the session's one controller belongs to
  a sleeping run, or to none) is an invariant of its own.
- The progress properties hold at the outcome the *batch* takes by `WatchInv`:
  once launched, the watched call is executing, or the progress call is
  finished and the call has an outcome.
- A lane's turn has several callbacks that could announce it, each checked
  against the generation. `Past`: nothing under way is of a generation yet to
  come, so a bump outdates it all. `OneVoice`: of the current generation there is
  one thing at most, the run, its delivery or a wind-down; while it is there no notice
  is out, and the status of a live lane says which of them it is. `Heard` is its
  complement: as long as the end is not announced, one of them is there.
- `AnswersBeforeNotice` needs to know why a chain without older writes has
  nothing left of *this* turn: a live run's generation is the one its turn
  started with, so its answer was chained under that number (`Chained`) until it was
  written or lost; and a delivery that has passed the chain is never joined by
  a run that could answer once more (`OneVoice`).
- `RetentionBounded` counts the lanes that are announced. That eviction brings the number
  down needs the order of `finishedBefore` to be total (`Ordered`), for then no
  more than `MaxRetained` lanes have fewer than that many newer ones (`NewestAreFew`,
  by a least counterexample), and every announced lane to be evictable (`Unmarked`).
- `NoLostWakeup` and `SlotsAccounted` are about semaphores whose every method may admit
  several waiters. `SemOK` is what each method keeps: the queue is without
  repetition and apart from the holders, the count is the number of holders, and
  whoever fits has been admitted (`Served`); `Admitted` bounds what a method may
  have done to the other calls. `AdmissionInv` adds who these calls are: who waits
  for a slot or holds one is in a phase that gives it back, so no abort
  or late runner can strand a slot, and the pool has the smallest ceiling
  of its members, a hung call among them.
- `TokensCounted` speaks of goals outside a run, and `GoalInv` carries it through
  one. `Joined`: an active goal takes part in every run there is. `Counted`: what
  it has used, with what the run has added since it joined (`Progress`), bounds
  from above the tokens of active messages, and from below all tokens. `Sound` adds
  `StoredMatches`, since rolling back is right only if memory and store agreed
  before.
- `GoalGoesOn` asks for an active goal at rest. Each method, taken alone and with its
  writes done and the host's consent, leaves a goal resting (active, in no run) or a
  message asked for only if it handed the message to the host, or the goal was so before
  (`Onward`); and none ends an attempt or asks for anything during one (`Steady`).
  `GoesOnInv` turns that into a message in the host's queue or a run started by one,
  and adds that a goal still in a run of an idle host has its settled event to come.
  What was asked for must be tied to the host's queue, as a goal that believes its message
  queued asks for no other.
- `FiredOnce` needs an invariant about the file and one about the session that is
  inside `update()`. `FileInv`: a settled occurrence lies behind the row of its
  job, so no row of the file is due for it again; and a job that was created and
  not deleted is there unless it expired or was delivered. `Staged`: how the rows
  a session is about to write differ from the file, namely that every row is gone,
  moved past what it is sending, or the one it was asked to set. That these rows were
  read from the file *as it still is* follows from exclusion, hence `~broken`.
- `ConversationKept` needs to hold for every file and for the manager's memory alike,
  as each is made of the other. `Sound`: ids rise, and each entry is read, along
  its branch, with just what had been said before it. An append keeps that as the
  branch of an entry depends only on the entries in front of it (`LineageSame`) and is
  the entry with the branch of its parent (`LineageStep`); losing a suffix keeps it
  for the same reason. A fork is a branch written out as a chain, the
  labels taken out and those still set put behind it (`ForkSound`). `Filed` says that
  the end of the file is known: a piece of a line is there exactly when an append of
  this manager failed (`piece`), and that is what an entry must not be written onto
  (`spoiled`).

The facts about queues without some of their elements (`WithoutKeeps`), about entries
taken out in order (`Ranked`) and about branches (`Ancestors`) are inductions over
data. They are proved by the least counterexample (`LeastOf`, from the
well-foundedness of the naturals), which is why the modules define these operators by
sets and ranks and not by recursion.

Only model-checked: the liveness properties `RunEnds`, `TurnEnds`, `RunSettles` and
`CallsEnd`, since fairness and `ENABLED` are out of the prover's reach; and that the
properties of the two runs of section 6 are violated, for which a counterexample is
the proof.

## 6 Findings

Two of them are runs that end in a counterexample:

1. **`session_continue`**: after a retried error and then an overflow, the
   committed compaction rebuilds the context from the branch, which still holds
   the failed turn the retry had removed from the agent's state. The code
   removes *one* assistant message and continues; the one before it makes
   `Agent.continue` throw (`core/agent-session.ts:3762`; the comment at :3767
   says the removal is there to prevent exactly this).
2. **`cron_lock`**: two sessions find the lock of a dead process stale. Each
   unlinks whatever lock file is there and creates its own, so the second unlinks
   the lock the first has just created, and both are inside `update()`
   (`features/step-cron.ts:369` against "an exclusive lock" at :264).

The models contain, or name as a condition, these too:

3. `turnMadeProgress` looks at the content only, so a provider error (or a truncated
   or aborted turn) after some visible text resets the incomplete-turn streak, and the
   next empty turn is recovered again: "empty, error, empty, error" goes on for ever
   (`core/agent-session.ts:240` against the comments at :231-238 and :1537-1540,
   which say that it must not). Each empty turn also resets the retry counters
   (:1492). Run `session` contains this; it is the exception `RunSettles` makes, and
   without that disjunct TLC shows the loop, with three kinds of turns
   (`ok`, `transient` with text, `empty`) and one retry.
4. `prompt()` tests `isStreaming` before its preflight and not after it. A
   turn triggered in between makes the prompt's own run be refused, and the refused
   run's `finally` block clears the run flag and the other run's controller and
   emits `agent_settled` while that run goes on (`core/agent-session.ts:2107`
   against `docs/extensions.md:569`). `OneAttempt` and `WaitersHaveARun` hold; the diagnosis
   properties do not (section 3).
5. `pendingFinal` marks a lane and not a turn: the `finally` block of an older
   delivery removes the mark a newer turn relies on, and eviction may forget the
   lane before its notice is out (`features/subagent/lane-lifecycle.ts:303` against
   the comment at :260). The notice itself is still sent (`FinishAnnounced`).
6. A goal's continuation queued behind a run of the user makes `onAgentStart`
   take the user's next attempt for the goal's own; a pause then stops it
   (`features/step-schedule.ts:695` against the comment at :396).
7. A run that stops before its first `agent_start` settles without having joined
   the goal, which stays active with nothing coming (`features/step-schedule.ts:771`);
   so does a goal whose message the user takes back with the other queued input.
8. An append that fails half way is not ended, so the next entry is written onto
   its rest and both are lost at the next start (`core/session-manager.ts:1063`); a
   first write that fails half way makes every later one fail, as the file now
   exists (:1039). Opening a session repairs only what a *crash* leaves.
9. With a decision pending, the run looks at an empty turn that overflowed and only
   compacts (`core/agent-session.ts:2250-2258`). If the decision is answered while
   the compaction runs, the run stops all the same: no failure is reported, no
   recovery follows, and no decision is left to be answered. `NoSilentFailure`
   excuses it (`held`).
10. When the write of a run's progress fails at the settled boundary, `onAgentSettled`
   returns and keeps the run's record (`features/step-schedule.ts:769`). The next
   settled event would repeat it, but none comes of itself: an active goal waits
   for the user's next run, and so does a goal set meanwhile, since `onSessionReady`
   takes the record for a run (:816).

## 7 What is left out

In the modelled components:

- *Agent*: the setters of model, tools and system prompt; the contents of
  messages and events (an event is the await point at its emission); images and
  attachments. One reset or clear is one action; `clearSteeringQueue` and
  `clearFollowUpQueue` alone are halves of it.
- *AssistantStream*: what builds the request (context transformation, API key).
- *ToolBatch*: validation and hook contents are a choice of outcomes; which
  executor is used is a choice of `mode`.
- *AgentSession*: settings for the recovery of incomplete turns (taken as on);
  the compaction check that precedes a prompt; messages kept for the next turn;
  the pause at a context threshold; model and tool selection; tree navigation;
  bash; export; extension binding. The agent's two queues are one here, split by
  author, since the session's decisions look at authors only.
- *SubagentLanes*: child processes and their idle expiry, widgets and progress
  notices, a reply a live child takes itself (it changes no lane state).
- *WorkflowAdmission*: the token budget, the journal, the retries of a call and
  the scripts; time other than cooldown, timer and retention.
- *GoalRuntime*: elapsed time, texts, the usage view; a method whose first write
  fails, since it changes nothing; a host that throws.
- *CronStore*: `update` and `runNow`, session jobs, jitter, statuses, rows of other
  schema versions; the gates that ask whether the host is idle are a free choice
  of which due jobs are delivered. A live holder is assumed to need less than the
  minute after which its lock looks stale.
- *SessionTree*: contents, migration, `forkFrom`, sessions without a file, usage
  lineage, listing, two processes on one file, and the agent harness's storage.

Components not modelled, each with its reason, are in `PROJECT.json`. Of these,
data transformations (classifiers, summaries, wire formats, rendering, merging
of settings) have no behaviour over time; the session index is derived and
rebuildable; the front ends only frame what the session does. The subagent
processes and the process registry are decided by the operating system (exits,
signals, reuse of pids) more than by their code; credentials rely on a library's
lock. They do have behaviour over time and are where the project would go next.

## 8 Where to go on

1. **Subagent processes and the process registry**: graceful release racing
   exit and re-registration; a run cancelled while its child starts; keep-alive
   and idle expiry, composed with `SubagentLanes`.
2. **`SessionTree` under `AgentSession`**: the session's two tails as an
   abstraction of the tree, so that finding 1 is seen on real branches; the
   compaction that is committed on another branch.
3. **The session's settled window** composed with `GoalRuntime`, whose host is an
   abstraction of it.
4. **Theorems**: the safety properties of the passing runs are proved. Left are
   results across modules: that the tails of `AgentSession` are what `SessionTree`
   gives, and that what `GoalRuntime` assumes of its host is what `AgentSession` does.

The number of runs is kept small; properties that share an instance share a run.
