# Formal models of Teskra

Teskra (`src/apps/desktop`) is an Electron workbench that runs coding Agents (Claude, Codex, Kimi)
as child processes in Git worktrees, queues them under concurrency limits, drives them through
workflows and survives its own restarts. All the logic modelled here lives in the Electron *main*
process: one JavaScript event loop, a SQLite database, and child processes that come and go on
their own. What makes it hard is not parallelism but *awaits*: every handler reads rows and maps,
leaves the event loop, and goes on with what it read.

## 1. Inventory

Paths are relative to `src/apps/desktop/src/main`.

| Component | State it keeps | Operations | Talks to | What is hard | What makes it correct |
|---|---|---|---|---|---|
| **Agent manager** `agents/agent-manager.ts` | `agent_runs` rows; maps `activeAdapters`, `pendingRuns`, `cancelRequested`, `failStopIntents`, `adapterlessCancels`, `inFlightLaunches`, `failStopInFlights`; flags of the queue pass | start, resume, cancel, failAndStop, continueWithProfile, queue pass, exit handler, transient retry, dispose | adapters, process manager, host processes, event bus | launch split by two awaits; exits falling into them; two requests for one run; lost wake-ups; shutdown | one writer per directory; limits; no leaked process; settled once; the queue drains |
| **CLI adapter** `agents/adapters` | process of each run | start, cancel | process manager, detector | detection may leave the loop | a started process is always known |
| **Process manager** `process/process-manager.ts` | map of live processes | start, stop (interrupt, terminate, kill), disposeAll, exit | PTY library | stop races with exit; a process that ignores every signal | stop answers once, after the exit handlers |
| **Host processes, survivor probe** `process/host-processes.ts`, `survivor.ts` | none | identity, probe, terminate | `ps`, PowerShell | pid reuse | never kills a stranger; never calls a live Agent dead |
| **Reconciliation** `recovery/reconciliation-service.ts` | rows | one pass at startup | repositories, survivor probe | crash at any point before | nothing active without a process |
| **Workflow engine, run store** `workflows/workflow-engine.ts`, `workflow-run-store.ts` | passes, suspended steps; `workflow_runs`, `workflow_steps` | start, begin, resolveStep, cancel, complete | agent manager, executors, decisions | step completions against cancel; restart in a pass | a step runs iff its edges are active; every pass ends |
| **Iteration controller, full workflow** | active loops; counters in the run row | iterate, dispose | engine, criteria, tasks | caps across resumes and criteria versions | never more rounds than the caps |
| **Step executors** shell, criteria gate, review panel, dispatch | running children | execute, cancel | command runner, decisions | confirmation against cancel | a step settles once |
| **Decisions, shell confirmation** | `pending_decisions`; parked promises | open, resolve, expire, cancelBySource, reconcile | watchdog tick, renderer | three ways to close one row; restart | closed once; the step hears exactly one answer |
| **Run watchdog** | conflict counts, stall episodes | 15 s tick | agent manager, decisions | tick works on an old list | a stuck run is stopped or reported |
| **Run log store** | open handles, next sequence numbers | append, flush, dispose, initialize | files | crash between file and database, torn line | sequence without gaps; file never behind the database on a final status |
| **Progress follower, output batcher** | offset into a file | poll, flush | files, event bus | partial lines, truncation | each line once |
| **Reviewers, review panel** | snapshots, members | review, aggregate | agent manager, Git | member fails or hangs | a verdict only from complete reviews |
| **Account profiles, login** `agents/accounts` | profile rows and homes; login sessions with leases and timers | start and cancel a login, detect, remove, enable, outcome of a run | adapters, process manager, agent manager | starts that meet across an await, leases a reload strands, probes and deletes that take their time | one login per profile, bounded; an enabled profile has its home, a ready one its sign-in |
| **Worktrees, merge, auto commit** `git/` | worktree rows, Git state | create, discard, merge, preflight | command runner | failure between Git and row | row and Git agree or the row says so |
| **Retention** | none | sweep | all repositories | a candidate becomes busy | nothing in use is removed |
| Permissions, config, prompts, memory, artifacts, tasks, criteria, credentials, workspaces, terminal, doctor, events, IPC, composition | rows and files | synchronous edits and reads | | little concurrency of their own | |

`PROJECT.json` lists all of them with the reason for what is not modelled.

## 2. Modules

| Module | Role |
|---|---|
| `AgentRuns` | the Agent run lifecycle: agent manager, CLI adapter and live processes |
| `RunSlots` | abstract specification: what the manager promises about slots |
| `MCAgentRuns` | columns of the small instances |
| `AgentRunsProofs` | type correctness; agreement of rows, bindings, processes, requests; admission, the safety theorems, and the refinement of `RunSlots` |
| `WorkflowEngine` | one workflow run: its rows, a pass over its graph, the executors of its steps, cancel and complete |
| `IterationLoop` | the rounds on top of it: both caps, criteria versions, resuming, shutdown; all the workflow properties |
| `RoundBudget` | abstract specification: what iterating promises about rounds |
| `MCWorkflow` | two graphs: agents, reviews, a condition, a shell step and a checkpoint; and the default full workflow's |
| `IterationLoopProofs` | type correctness, step rows, one pass at a time, closed runs |
| `RoundBudgetProofs` | the refinement of `RoundBudget` |
| `RunRecovery` | what a dead instance leaves of processes and rows, the pass at startup, and the requests on such runs |
| `RunLog` | the durable log of a run: file, caches, table and fsync, over kills, power failures and retention |
| `Worktrees` | worktree rows, directories and branches: creation, validation, merge, discard, clean-up, the commit after a run |
| `AccountLogins` | one account profile: its row and home, logins into it, probes, runs, removal and re-activation |
| `MCRecovery` | small instances of these four, side by side |
| `RunRecoveryProofs`, `RunLogProofs`, `WorktreesProofs`, `AccountLoginsProofs` | all their properties |
| `DecisionInbox` | pending decisions, the shell steps parked on them, and the watchdog's tick |
| `OneShotDecisions` | abstract specification: what the inbox promises |
| `MCDecisionInbox` | three constellations of its sources |
| `DecisionInboxProofs` | all its safety properties and the refinement of `OneShotDecisions` |

The two halves meet in `agents.start()`: `WorkflowEngine` sees a run of `AgentRuns` as an executor that
is launched, may fail to launch, ends, and stops when asked. That a cancelled run stops and that a
queued one is launched in the end is what `AgentRuns` shows; the workflow modules assume it as fairness.
`AgentRuns` ends where an instance ends; `RunRecovery` begins there, and hands over the rows `AgentRuns`
starts from (`LeftActive`). `RunLog` follows one run through the ends both have, and `DecisionInbox` has
of runs and workflow runs what the sources of decisions see. `Worktrees` models the probe whose result
`RunRecovery` takes as a choice, and asks of a run only whether one is active. `AccountLogins` asks that, too,
and takes from the end of a run what it says of the account.

### 2.1 `AgentRuns`

**State.** `status`, `createdAt`, `processId` and `registered` are columns of `agent_runs`
(`registered`: the failure classification `failAndStop` writes). `activeAdapters`, `pendingRuns`,
`cancelRequested` and `failStopIntents` are the maps of the same names; `adapterlessCancels` and
`failStopInFlights` are visible in `callPc` (a request in "settling", or in "stopping", "stopped" or
"probing"); `inFlightLaunches` is `phase`. `alive` is the process manager's map. `wake` is
`advancingQueue` with `advanceAgain`: a pass is due or running; `queueLaunch` is the run whose launch
the pass awaits. `callPc`/`callRun` say where each concurrent request waits. `quit`,
`disposeStops` are the progress of `dispose()`.

**Atomicity.** JavaScript runs to the next await that leaves the event loop, so that is one step.
The awaits that leave it: `adapter.start` when the detector's cache has expired (`phase` "starting"),
`hostProcesses.identity` (`"identifying"`), `processes.stop`, the identity read and terminate of a
leftover process, and the detection in `resume()`. `accountProfiles.get` only yields to microtasks, so
a turn of the queue pass is one step and no exit, timer or request gets between its turns
(`eventArrives`). `start()` writes nothing before its last detection await and re-reads the rows
after it, so it is one step. That step does not look at `quit`: `start()` has no check of its own after
the await, so a call that waited when `dispose()` began still writes its row and launches, as a waiting
`resume()` does. From `disposeDetaches` on no exit reaches the manager, which has unsubscribed
(`processExited` then only ends the process).

**Actions.**

| Code | Actions |
|---|---|
| `start()` | `startQueued`, `startDirect` |
| `launchInner()` | `beginLaunch` (part of its callers), `finishFailed`, `launchSpawned`, `launchIdentified` |
| `advanceQueue()` | `advanceQueue`, `advanceQueueEnds` |
| `resume()` | `resume`, then `resumeQueued`, `resumeDirect` or `resumeRefused` |
| `process.exited` handler | `processExited` |
| `cancel()` | `cancelQueued`, `cancel` with `cancelTimedOut` / `cancelReturns`, `cancelAdapterless` with `settleAdapterlessCancel` |
| `failAndStop()` | `failAndStopQueued`, `failAndStop` with `failAndStopAborts` / `failAndStopReturns` |
| `dispose()` | `dispose`, `disposeStopTimedOut`, `disposeDetaches` |

**Initial states** are those a startup can hand over: rows left `interrupted`, and rows left `running`
because their surviving process could not be killed (`LeftActive`).

### 2.2 `RunSlots`

Runs ask for slots. The holders always form an admissible set, a newcomer is granted a slot only when
nobody waits, and who is over stays over. `AgentRuns` implements it with `slotOf` as the refinement
mapping and "no two conflict and no limit is exceeded" as admissibility (`ImplementsSlots`).

### 2.3 `WorkflowEngine` and `IterationLoop`

`IterationLoop` extends `WorkflowEngine`; together they are the specification of one run.

**State.** `run` is the columns of `workflow_runs` the control depends on (`iteration`,
`criteriaIteration`, and `anchor`, the criteria version the counter belongs to), `step` the
`workflow_steps` rows of the current iteration (nothing reads the outcomes of earlier ones). `open` is
`passes.has(runId)`; `cancelling`, `done`, `activates`, `outcome`, `parked` are its `PassState` and
`NodeState`s. `exec` says where the executor of a step waits, `asked` which shell confirmations are
open, `stopAsked` who was told to stop. `awaited` and `settled` are the promise `start()` gave the
loop. `call` holds the `cancel()` calls in progress: the nodes they have left and the one whose executor
they wait for. `loop` is where `iterateLoop` is.

**Atomicity.** `schedule()` is synchronous and promises that are settled continue before anything from
outside: those steps are `Turn`, and the rest (`Outside`) waits until the engine is `Quiet` and the loop
is not between two passes. Within a turn TLC explores every order, which is more than the code does; a
cancel, too, visits the nodes in any order instead of that of the definition.

| Code | Actions |
|---|---|
| `beginPass()` | `beginPass`, part of `Begin` (`startRun`) and `RoundBegins` (`engine.start`) |
| `schedule()`, `startNode()` | `StartNode`, `StartNodeWithoutExecutor`, `SkipNode`, `FinishPass` |
| `settleNode()` | `settleNode`, part of each way an executor settles |
| agent executor | `AgentLaunched`, `LaunchFailed`, `AgentMissed`, `ProcessEnds`, `CancelAgentStep` |
| shell, panel, gate, condition executors | `ConfirmShellStep`, `ProcessEnds`, `GateEvaluated`, `ConditionEvaluated` |
| `resolveStep()`, `complete()` | `ResolveStep`, `Complete` |
| `cancel()` | `CancelRow` (no pass here), `CancelPass`, then `CancelAgentStep` / `CancelAgentStepReturns`, `CancelStep`, `CancelEnd` |
| `iterate()`, `iterateLoop()` | `Iterate`; `RoundRefused`, `CapBeforeRound`, `RoundNotPrepared`, `RoundBegins`, `PassRefused`; `RoundCancelled`, `RoundApproved`, `CapAfterRound`, `RoundRejected` |
| `dispose()` | `Dispose`, a cancel by the caller `Quit` |

**Switches.** `Dedicated`: the pass is in the full workflow's own engine, so the interface's `cancel()`
finds no pass. `LateSubscriber`: an agent run may be over before `agents.start()` returns. `OneDriver`:
nobody calls `startRun` and `iterate` on the same run. The first two are what the two violations below
are about; the passing runs say which they set.

### 2.4 `RoundBudget`

Rounds begin within a total and within a budget per criteria version; a run is parked only at a cap,
completed only after a round, and begins no round once it is closed. `IterationLoop` implements it:
a round has begun when its iteration has rows.

### 2.5 `RunRecovery`

**State.** `status`, `pid`, `token` (`process_identity_token`) and `exitKnown` are columns of `agent_runs`,
`task` the status of the task of these runs. `host` says which process is behind each pid and when it
started: pids are reused, start times are not. `own` is the process manager's registry, `launching`
a launch between spawn and identity. `probe` and `seen` are the survivor routine at work: what it read,
before what it kills. `todo`, `interrupted`, `reachable` are the startup pass.

**Atomicity.** A read of a start time and the kill that follows are two steps, because both may await a
command. The routine is one; its four callers (pass, cancel, failAndStop, continueWithProfile)
differ in what they make of its answer.

| Code | Actions |
|---|---|
| `terminateSurvivorProcess()` | `nothingToProbe`, `readAlive`, `readNone`, `readKills`, then `killSucceeds` or `killFails` |
| startup pass | `Boot`, `InterruptUnprobed`, `InterruptDead`, `KeepUnread`, `FindSurvivor`, `TerminateSurvivor`, `PassEnds` |
| `settleAdapterlessCancel()` | `CancelSettles`, `CancelFindsSurvivor`, `CancelTerminates` |
| `failAndStop()` without a handle | `StopFindsNone`, `StopFindsSurvivor`, `StopTerminates` |
| `continueWithProfile()` | `Continue`, `ContinueFindsSurvivor`, `ContinueTerminates` |
| `start()`, `resume()`, launch, exit | `Start`, `Resume`, `Spawn`, `RecordProcess`, `Exit` |
| the host | `StrangerStarts`, `Exit` of a process nobody reads, `Crash` |

`Faults` names what may go wrong: a failed read, a failed kill, an unreachable workspace, a lost worktree,
and a crash between the spawn and the write of its pid.

### 2.6 `RunLog`

**State.** `lines`, `tornLine`, `synced`, `exists` are `events.jsonl`; `handle`, `dirty`, `nextSeq`,
`validated` the maps of the store; `table` is `agent_events`. `turn` is the next call of a turn whose
calls must come in order. Every call is synchronous, and yet a step of its own: an instance may die
between two of them.

| Code | Actions |
|---|---|
| `appendEvent()` | `appendWritten`, `appendRolledBack`, `appendRefused`, as part of every action that records an event |
| `process.exited` and the like | `LogEvent`; `SettleEvent`, `SettleRow`, `SettleClose` |
| reconciliation | `StartInstance`, `InitializeLog`, `InterruptEvent`, `InterruptRow`, `FlushLog` |
| `resume()`, retention | `ResumeRun`, `CollectLog` |
| the end of an instance | `QuitInstance`, `KillInstance` (the page cache survives), `PowerFails` (what was not synced may go, the last line may tear) |

SQLite is taken to keep its commits, the worse case for a file that must not lag behind.

### 2.7 `Worktrees`

**State.** `row` is `worktrees.state`; `tree`, `edits`, `theirs` (MERGE_HEAD) the directory; `branch` and
`base` are sets of commits, so "is an ancestor of" is inclusion and a merge is a union. `raw` holds the
branches with conflict markers in their tip. `request` is, for each concurrent request, the row as it
read it and the git command it waits for; `commit` the auto-commit of the recorded run; `blocked` the
open merge decision.

**Atomicity.** Every git command is awaited. A step takes its effect and what the handler does up to the
next; the row is written in a step of its own (`WriteRow`), since the answer and the write are two turns.

| Code | Actions |
|---|---|
| `create()` | `Create`, `WorktreeAdded`, `Excluded`; `CreateFails`, `CreateUndone` |
| `validate()` | `Validate`, `Inspected`, `StatusRead` |
| merge, preflight, `resolve` of merge_blocked | `Merge`, `AnswerBlocked`; `CheckClean`, `CheckRefs`, `CheckScene`; `BaseMerged` or `BaseConflicts`; `BaseAdvanced` |
| `discard()`, retention, `cleanup()` | `Discard`, `Collect`, `Cleanup`; `CheckBranch`, `RemoveTree`, `DeleteBranch`, `EraseRow` |
| `commitCompletedRun()` | `RunCompletes`, `CommitStatus`, `CommitChanges`, `CommitFails` |
| any command that fails | `GitFails` |
| Agents and the user | `StartRun`, `WriteFiles`, `RunStops`, `CommitByHand`, `UserCommits`, `TreeBreaks` |
| the end of an instance, reconciliation | `Restart` |

### 2.8 `DecisionInbox` and `OneShotDecisions`

**State.** `rows` is `pending_decisions`, `ticket` the requests for a confirmation with the answer each
got, `pending` the map of `shell-confirmation.ts`. `run` and `workflow` reduce runs to what the sources
see. `tick` is the tick in flight: the rows it listed and has still to check, and the run whose stop it
awaits; `notified`, `conflicts`, `escalated` are the watchdog's maps. Time is one threshold or deadline
at a time (`late`, `silent`, `deadline`).

**Atomicity.** The service is synchronous and calls the handler of the source: one step. The tick awaits
`failAndStop()` only; while it does not, nothing else of the instance runs (`quiet`).

| Code | Actions |
|---|---|
| `request()`, `resolve()` | `Request`, `ResolveShell`, `ResolveStalled` |
| cancel and end of a workflow run | `CancelWorkflow`, `CancelStep` per step, `CloseWorkflow` |
| tick | `TickStarts`, `CheckPreparing`, `CheckIdle`, `TickEnds` with `expire()` |
| `noteActivity()`, failAndStop | `Output`, `StopEnds` |
| runs | `LaunchRun`, `Launched`, `RunEnds`, `GrowsLate`, `FallsSilent` |
| shutdown, kill, startup | `Dispose`, `Crash`, `Boot` with `reconcileOnStartup()` |

`OneShotDecisions` has sources that wait for at most one decision each, decisions that are closed once and
whose action is handed over by the step that decides them. The mapping: a source waits on its open row,
and closed is every row that no longer is.

### 2.9 `AccountLogins`

**State.** `enabled` and `profileStatus` are columns of the profile, `home` is its `configHome`: absent,
empty, or with the auth file. `mount` is what each login view is bound to; `registered` the three maps of
the login service, which change together; `leases`, `timed`, `settled` the fields `attachments`, `timer`
and `settled` of a session. `live` are the login processes, `stops` who waits for the end of each,
`detecting` the probes under way. `removal` and `enabling` say how far `remove()` and `enable()` are.
History says why an exception may be claimed: `dropped` (a stop gave the process up), `overtaken` (a
delete of the home met an enable), `halfDone` (an enable failed after it had made the home), `outdated`
(a run or a probe called the row ready after the sign-in had gone).

**Atomicity.** A WSL runtime: every look at the file system and every change of it is a command and is
awaited, so it is a step, and what the handler does until the next is another. `start()` of a login has
one such wait that matters, between its two looks for a session. The status of a row is read and
written in one turn. Profiles share no session, so one is followed; the id of a login is used again
once nothing refers to it.

| Code | Actions |
|---|---|
| `start()` of a login | `StartLogin`, `BeginLogin`, `StartFails` |
| `cancel()` of a view, a reload of the window, the timer | `Release`, `Reload`, `TimerFires` with `stopsSession` |
| `process.exited`, a stop that gives up | `LoginExits`, `StopFails` |
| `detectProfileStatus()` | `Detect` or the end of a login, `ProbeRuns`, `VerdictWritten` |
| runs | `ResolveProfile`, `RunCreated`, `RunEndsWith` (`projectRunOutcome()`), `LimitExpires` |
| `remove()` | `Remove`, `HomeDeleted`, `DeleteFails` |
| `enable()` | `Enable`, `HomeChecked`, `HomeRebuilt`, `Enabled`, `EnableFails` |
| shutdown | `DisposeLogins`, `DisposeProcesses`, `Quits` |
| the CLI | `SignsIn` |

## 3. Runs

| Run | Instance | Checks | Shows |
|---|---|---|---|
| `agent_runs` | 3 runs (two share a worktree, one in the workspace), 2 concurrent requests, one row left interrupted, one launch that may fail, one process that may outlive `stop()`, shutdown | `OneWriter NoOrphanProcess RunningIsLive StopFindsSettledRow SettledOnce FailStopWins LaunchedOnce ImplementsSlots` | safety of every interleaving of two requests with exits, failures and shutdown |
| `agent_queue` | 4 runs (one read-only, two agents, one account profile with a limit), a survivor that holds a slot, 1 request, fairness | `Reserved NoMissedWakeup QueueDrains` | the four limits bind at different moments, nobody is forgotten, the queue drains |
| `queue_wakeup_lost` | as `agent_runs`, a direct launch may fail | `NoMissedWakeup` | **violated**: see section 6 |
| `settled_twice` | a row left active, 2 requests | `SettledOnce` | **violated** |
| `launch_while_quitting` | shutdown with one run alive and one queued behind it | `NoLaunchWhileQuitting` | **violated** |
| `workflow_run` | generic engine; 7 nodes: agents, reviews, a condition, a shell step without executor, a checkpoint; by hand or by a loop; caps 1 per version and 2 in total, 1 criteria edit; a user's cancel and shutdown; late subscriber | `StepsFollowGraph ClosedRunIsAtRest ParkedRunHasNoPass StepsStayOver ClosedRunStaysClosed KeepsBudget` | safety of passes and rounds under every interleaving of completions, answers, cancels, resumes and edits |
| `full_workflow` | the default graph: 8 nodes, one confirmed shell step; caps 2 and 3; shutdown's cancel only; fairness | `ApprovedRoundIsWhole CancelReturns IterateReturns` | only a whole, approved round completes the run; both caps bind inside one loop; what is called comes back |
| `cancel_misses_pass` | as `full_workflow`, with the interface's cancel | `ClosedRunStaysClosed` | **violated** |
| `pass_never_ends` | as `full_workflow`, with the late subscriber | `IterateReturns` | **violated** |
| `recovery` | four parts side by side. Processes: 3 runs on 2 worktrees, 2 pids, 2 processes, 2 crashes, every fault. Log: 5 events, 2 ends of an instance. Worktrees: one, under 2 requests, its Agent, the user and any number of restarts. Account profile: 2 views and 2 logins with the shutdown, or 1 view and 1 login with runs, removal and enable | `DoubleWriteHasCause TaskFollowsRuns StrangerSpared`; `LinesAreNumbered RowsFollowLines TerminalIsDurable RefusedOnlyAfterLoss`; `CommitsSurvive WorkIsDiscardedByTheUser MergedIsInBase`; `OneLogin LeasedLoginLives LoginIsBounded EnabledHomeIsUsable` | what survives a crash, a power failure, the wrong order of git commands, and requests that meet on one profile; 3.1 million states |
| `unresolved_merge` | `Worktrees` as in `recovery` | `BaseIsResolved` | **violated** |
| `decisions` | two steps of one workflow run; a step beside a run the watchdog stops; a run it asks about beside one it stops. 3 rows, 2 requests, 1 crash, every kind timed; fairness | `ApprovalRunsOnce ParkedHasOpenRow StalledRowHasRun DecidedOnce FirstStopIsDeserved ParkedStepIsAnswered` | each decision once, no command without its approval, no parked step forgotten |

**Bounds of the agent runs.** Nothing is unbounded but the number of rows and requests: `createdAt` ranks at most
`Cardinality(Runs)`. Two runs suffice for a conflict and a third to wait behind them; two requests are
what the code has to keep apart (each claim, flag and intent is about one other request); each request
slot is reused without limit. In `agent_queue` the limits (3 global, 2 per workspace, 2 per agent, 1
for the profile) are each the binding one in some state. Deadlock checking is off: the system may rest
with every run over.

**Bounds of the workflow runs.** `MaxVersions` bounds the criteria edits; the rounds are bounded by the
caps, which the two runs choose so that the cap per version binds first, is lifted by an edit, and the
total binds then (1 and 2), and so that several rounds run inside one call (2 and 3). Two cancel calls
are enough for one to wait while another finishes; each is reused. An iteration has at most eight
steps, as the shipped workflow has. Deadlock checking is off: a closed run rests.

**Bounds of `recovery`.** Two processes are what a double write needs, on two pids so that one is reused
while the other lives; the third run, in a second worktree, keeps the task apart from the first two. Two
crashes allow a pass that is cut and one that comes after it. Five events are enough for one synced, one
not, one torn or rolled back, one on resume, and one more after that; two ends, for a torn line that a
second instance meets. One worktree has all the interleavings, for rows share only the base branch; two
requests are what `create`, `merge` and `discard` can be to each other; one commit of the Agent's and one
of the user's on the base make branch and base diverge. Of the profile, two views and two processes are what
a mutex can fail for, and a second process can only live beside a first that was given up; two leases per
view let a reload strand one. Runs, removal and re-activation concern the row and the home, which one
login can change, so they are followed with one. The four parts share no state, so one run
checks all: the initial state says which it follows. The names of pids and requests are symmetric.
Deadlock checking is off: instances may stay down and bounds are reached.

**Bounds of `decisions`.** Sources meet in the tick and in the end of an instance only; so the pairs that
can disturb one another are checked and not all five at once. Three rows: one that is closed, one that is
open, and one that is opened anew. Two requests: the second of one step takes over the first's row. One
crash separates two instances, and one silence opens one episode per run.

**Fairness of `decisions`.** The timer of the tick fires (`TickStep`, weakly), `failAndStop()` returns by
its own timeouts (`StopEnds`), and deadlines pass. `CancelStep` is strongly fair: it needs a turn
between two ticks and the event loop has one. Users, runs and crashes owe nothing.

**Fairness of the workflow runs.** `Fairness`: the event loop takes every step that is ready
(`Turn`), `agents.start()` answers, and an executor that was told to stop settles; the manager's stop
ladder and timeouts justify the last two. `IterateReturns` has the hypothesis `Attended`: every process
ends in the end and every question is answered. It is in the property because the code cannot promise it.

**Fairness of the agent runs.** `LoopFairness`: the event loop runs every continuation that is ready, and `stop()` and the
probes are bounded by their own timeouts, so each waiting launch, queue pass and request goes on
(weak fairness). `AgentsExit` is an assumption on the environment: no Agent runs for ever. `QueueDrains`
makes an exception for a slot held by a survivor of the previous instance, which only a user's cancel
can release; no fairness is assumed of users.

## 4. Properties

- `OneWriter`: directories. Checked where admission happens, but meant for the whole
  life of a run, across queueing, launching and resuming.
- `Reserved`: conflicts and four limits, at three admission points.
- `NoOrphanProcess`, `RunningIsLive`: rows and processes agree although the launch is split by awaits.
- `StopFindsSettledRow`: the defensive settle after `stop()`, which would forget to wake the queue,
  is never reached.
- `SettledOnce`, `FailStopWins`, `LaunchedOnce`: what a step may never do.
- `NoMissedWakeup`, `QueueDrains`: the queue.
- `StepsFollowGraph`: what ran and what was skipped, against the edges read off the rows, in both phases
  of `runOn`.
- `StepsStayOver`, `ClosedRunStaysClosed`: late answers, second cancels and resumed loops meet a store
  whose `setRunStatus` refuses nothing.
- `ClosedRunIsAtRest`, `ParkedRunHasNoPass`: a run that is closed or parked has nothing at work.
- `ApprovedRoundIsWhole`: the verdict read from rows after the pass is that of the whole round.
- `KeepsBudget`: both caps, counted in three places from two origins.
- `CancelReturns`, `IterateReturns`: nobody waits for a promise that is never settled.
- `DoubleWriteHasCause`: two live Agents on one worktree. The code does not exclude it, so the property
  lists the causes: one was told to stop, its identity was never recorded, the pass skipped its probe, or a
  cancel settled its row although it could not be stopped. Nothing else may lead there.
- `StrangerSpared`: pid reuse against the recorded start time.
- `TaskFollowsRuns`: a pass cut between the row of a run and that of its task leaves the task (`torn`).
- `LinesAreNumbered`, `RowsFollowLines`, `TerminalIsDurable`, `RefusedOnlyAfterLoss`: file, caches, table
  and disk agree although every pair of them may be a step apart when the instance ends.
- `CommitsSurvive`, `WorkIsDiscardedByTheUser`, `MergedIsInBase`: no request loses work, by whatever
  another request, the Agent or the user did between its checks and its commands.
- `ApprovalRunsOnce`, `ParkedHasOpenRow`, `ParkedStepIsAnswered`: a confirmation is used for the step it was
  asked for, once, and a step that waits can still get one, and gets it.
- `StalledRowHasRun`, `FirstStopIsDeserved`: what the tick does on the word of rows it read before.
- `DecidedOnce`: the refinement of `OneShotDecisions`.
- `OneLogin`: the mutex of logins, across the await in `start()`. It counts processes, not sessions; one that
  a stop gave up is excepted, for the service has forgotten it.
- `LeasedLoginLives`, `LoginIsBounded`: no view closes the login of another, and none lives without a timer or a
  stop, whatever reloads and late cancels do to the leases.
- `EnabledHomeIsUsable`: the row against the home, with the ways the code lets them part as exceptions.

## 5. Proofs

For every set of runs and requests and all limits (`RunsAssumption`, `LimitsAssumption`), and leftover
rows that obeyed the rules they ran under (`LeftoverAssumption`), TLAPS proves every safety property the
passing runs `agent_runs` and `agent_queue` check, and that `AgentRuns` implements `RunSlots`. Two of them
need a hypothesis, because the code breaks them without it, and for each a theorem says how far the break goes:

- `SettledOnce` is proved for an empty `LeftActive`. `OnlySurvivorsSettleTwice` has no hypothesis: a run leaves
  a terminal status by a resume, or by the cancel of a row a previous instance left, and in no other way.
- `NoMissedWakeup` is proved for an empty `SpawnFailures`. `OnlyFailedLaunchForgets` has no hypothesis: only
  `finishFailed` takes the queue from a state where nobody is forgotten to one where somebody is. The
  proof needs that whatever gives a slot back, or puts a run in the queue, leaves a wake-up (`NothingFreed`
  is what the other steps have in common), that more held slots never make a run eligible
  (`EligibleBefore`), and that a pass which awaits a launch still has its wake-up to serve (`PassAwaits`).

`QueueIsServed` is the safety half of `QueueDrains`: with limits of at least one (`AtLeastOne`; the schemas
demand `min(1)`, `contracts/src/config.ts:42`), while runs are queued and nobody is forgotten, the pass is due,
or awaits a launch that is under way, or there are runs in the way, each of which is in its launch, or
has a live process whose exit will be heard, or is a leftover row. What is left to fairness is that those end.

The argument rests on one inductive invariant, `TypeOK /\ Consistent`. The properties alone are not
inductive: that the exit of a process settles its row needs to know that a live process has a binding;
that the late write of "running" is safe needs to know in which states a launch can wait
(`LaunchInv`); that a request which comes back may settle a row needs to know that the process it
waited for is gone for good (`CallInv`, `gone`); that an intent decides the outcome needs to know which
runs can have one (`IntentInv`). `Consistent` is the conjunction of those (`Agreement`) with the
admission rules (`Reserved`). `AgentRunsProofs` proves `TypeOK`
and then `Agreement` action by action, and `Reserved` from how a step moves
statuses: at most one run enters `Launched`, through `noConflict` and `hasCapacity` or in a launch
that reserved its slot earlier; sets that shrink keep limits and exclusion (`Shrink`); the admission
lemmas cover the one that grows. The same classification of status changes yields the refinement.

For every graph (`GraphAssumption`: an edge waits for one of the outcomes there are, as
`workflow.ts` validates), every set of cancel calls and all caps (`PolicyAssumption`), TLAPS proves type correctness of
the workflow modules and `StepsStayOver`. Under `Scope` (`OneDriver`, and with `Dedicated` no canceller but
shutdown's) it proves every other safety property that `workflow_run` and `full_workflow` check. `Scope` is
a hypothesis of these theorems and not an axiom of the modules: without its second half
`ClosedRunStaysClosed` is false (`cancel_misses_pass`), and TLC finds that without the first half so is
`ParkedRunHasNoPass`. None of the properties is inductive. There are four invariants, each resting on those before it:

- `PassInv`: an open pass has the row to itself, the loop waits exactly while its pass is open or just
  settled, and every cancel in progress either holds the pass or finds the run cancelled. That is why
  nothing a step writes to `run.status` after a wait can reopen the run.
- `BudgetInv`: rows of a round exist only while the loop is in its pass, so that counting "iteration" from 0
  and rounds from 1 comes to the same at the top of the loop and after the pass. It gives `KeepsBudget`, the
  refinement of `RoundBudget`, for graphs with a node in them.
- `GraphInv`: the memory of the pass (`done`, `activates`, `outcome`) against the rows (`PassShape`), executors,
  parked steps and cancel calls against the rows that run (`WorkShape`), and each row against those of its
  upstreams (`FollowsGraph`). It gives `StepsFollowGraph` and `ClosedRunIsAtRest`. The property about rows is
  not inductive because the engine never reads the rows of upstreams: it decides by its memory, which a
  second pass of the same iteration rebuilds from rows, which a cancel leaves behind with some nodes marked and some
  executors still at work, and which no longer matters once the pass is dropped. So `Remembered` is
  claimed for open passes with something left to do only, an executor may outlive its row only if it is
  not an agent's, and only a cancel call still in its loop may find the pass gone. Rows that are over stay over
  (`OverStays`), hence what they say about an edge stays (`EdgeStays`, `FollowsStays`).
- `WorkInv`: a running step is parked or its executor is at work, a shell step that waits has its question
  before the user, a cancel call that waits has told what it waits for to stop, and a pass that is being
  cancelled has a call that will end it. It gives `NoPassIsStuck`.

`ApprovedIsWhole` (`ApprovedRoundIsWhole`) asks two things more of the graph, which the default full workflow
has: at most one review and one gate in each phase, and none that a failure leads to (`VerdictsAlone`,
`VerdictsAfterSuccess`). For other graphs nothing is claimed: `approved` looks for one approving review and
one passing gate, not for all of them.

`NoPassIsStuck` is the safety half of `IterateReturns` and `CancelReturns`. In an acyclic graph (`Acyclic`;
`MCWorkflow` assumes it of both its graphs, so every run evaluates it) an open pass can end, can start or skip a node, or
waits for a launch, a process or an answer that is there; a pass being cancelled has a call that goes on
or waits for an agent told to stop; and the loop is never between states. The one exception is named in the
theorem: an agent whose end nobody heard, which `pass_never_ends` shows. What is left to fairness is
that what is waited for comes.

TLC agreed with each of these invariants on the instances of `workflow_run` and `full_workflow` before it was
proved.

Everything `recovery` checks is proved, and everything `decisions` checks but its liveness: for any number
of runs, pids, worktrees, requests, steps, rows, events, crashes and restarts, under the assumptions
that type the constants (`RecoveryAssumption`, `RunLogAssumption`, `WorktreesAssumption`,
`AccountAssumption`, `InboxAssumption`). Each rests on one inductive invariant, and each needs more than its properties:

- `RecoveryInv`. An Agent that was not let go still has its row (`AgentsHeld`), because a worktree has one
  active run (`OneActive`), because the routine works on the pid its row still has (`ProbeShape`), and
  because no token is a stranger's start time (`AgentToken`), nor was the process it goes on to kill a
  stranger when it was read (`SeenAgent`).
- `LogInv`. Where the caches stand against the file (`StoreShape`), what each step of a turn has left
  (`TurnShape`), and where the event of the last terminal status is (`FinishShape`).
- `WtInv`. What each phase of a request knows of the row and the directory (`RequestShape`, `CreateShape`),
  that the tip a merge remembers is in the base once it writes (`MergeShape`), and that work no merge's
  check has seen is recorded as such (`WorkIsSeen`).
- `AccountInv`. One session at a time, and it stands for every process not given up (`OneSession`); the views
  bound to a session are counted by its leases (`Leased`), so the last lease is given back by the last view;
  what `enable()` and `remove()` know of each other and of the home (`HomesAgree`). The views must be
  finitely many for leases to count them, and that is all that is assumed.
- `InboxInv`. One open row per source (`OneOpen`), the parked request waits for that row (`TicketShape`),
  what is parked dies with its instance (`DownShape`), and until a tick awaits its first stop what it has
  listed is what is (`TickShape`). With `OneOpen` the mapping to `OneShotDecisions` is well defined
  (`WaitingShape`); every step then opens one decision, closes a set of them, or is a stutter.

Only model-checked: the liveness properties `QueueDrains`, `CancelReturns`, `IterateReturns` and
`ParkedStepIsAnswered`. That something happens at last needs `ENABLED` and fairness, which are beyond the
prover; of the first three the theorems above give the part that is safety, of the last one
`ParkedStepsCanBeAnswered` does (`ParkedHasOpenRow`: the decision a parked step waits for is open, unless its
workflow run is being cancelled or had its row closed under it). The properties of the violation runs
are false and have no theorem, except as said above.

## 6. Disagreements between code and documentation

- **Lost wake-up** (`queue_wakeup_lost`). `finishFailed()` reports `ok: true`, so `start()`'s
  `if (!launched.ok) scheduleQueueAdvance()` never fires and `resume()` has no such branch. A run queued
  behind a launch that fails waits until something else happens.
- **Settled twice** (`settled_twice`). `settleAdapterlessCancel()` does not re-read the row after its
  awaits, as `failAndStop()` does for the stated reason.
- **Launch while quitting** (`launch_while_quitting`). `dispose()` stops the live runs before it
  forgets the queue, and each exit advances the queue. (A `start()` that was waiting for its detection can
  likewise put its run into the queue after `dispose()` has begun.)
- **Cancel misses the pass** (`cancel_misses_pass`). The interface's `cancelRun` asks the generic engine,
  which does not have the pass of a full workflow. The row becomes cancelled, the agents go on, and the
  end of the pass writes "waiting" over it: the run is live again and may take another round.
- **A pass that never ends** (`pass_never_ends`). The agent step subscribes to the end of its run after
  `agents.start()` has returned. A launch that fails returns `ok` with the run failed already; nobody
  hears of it, and neither pass nor loop ends.
- **Unresolved merge** (`unresolved_merge`). The commit after a completed run does not look at the state of
  the worktree. In one left in a conflict it concludes the merge, markers and all; the preflight then
  finds nothing to object to, and a second merge advances the base to it.

Weaknesses the models show without a run of their own, because no document promises otherwise or a
property names them as an exception:

- *Log.* A line torn by a power failure blocks its log for good. After retention has deleted a log, a resume
  does not initialise it and its events are refused; a handle that stayed open writes to an unlinked
  file. Power that fails between a terminal status and its fsync takes the event and not the status.
- *Recovery.* A run whose workspace or worktree is missing is interrupted without a probe
  (`reconciliation-service.ts:224`); a survivor that cannot be killed is settled by a cancel and a fresh
  start may then double-write (`agent-manager.ts:1608-1611`). A resume may go on while a continuation still
  probes.
- *Decisions.* The tick's list force-stops a run that was launched, or whose question was answered, while an
  earlier stop was awaited, and asks about a run that has ended. Reconciliation and `finishFailed()`
  leave the questions about their runs open; a terminal workflow row closes its decisions
  without settling parked steps; the cancel of a step closes the decisions of the whole workflow run.
- *Worktrees.* `validate()` writes over a conflict, merged or discarded that was written during its awaits,
  although `worktree-manager.ts:70` lets those states stick. `git branch -d` compares with the HEAD of the
  main checkout and may refuse after the directory is gone. A clean-up during `create` deletes its row, and the
  run loses its worktree. The preflight does not ask for active runs, nor `start()` for the state of the
  worktree. Force, after a decision, overrides blockers the user has not seen. After a conflict whose
  diff fails, the scene stays and the row does not tell.
- *Accounts.* `remove(deleteHome)` disables the profile first, but `enable()` may find the home before it is
  deleted and enable the profile before or after: neither looks at the other, and the profile ends
  enabled and without a home, against `account-profile-manager.ts:1112-1115`; `EnabledHomeIsUsable` has it as
  the exception `overtaken`. An `enable()` that fails between the home and the row leaves an empty home under the old status;
  the next one finds the home and keeps "ready" (`account-profile-manager.ts:1182`). The verdict of a
  probe and the outcome of a run are written over a row whose home has gone since. A view may attach to
  a session that is being stopped. A login `start()` in flight during shutdown spawns its process after
  the services have stopped theirs.

## 7. Left out, and the plan

Left out of `AgentRuns`: events, logs, manifests, handoffs, permissions, `queued_reason`, the task row
(none of them feeds back into the lifecycle), failing SQLite writes, `continueWithProfile` and the
transient retry (planned). The interface can ask nothing once `dispose()` has begun, but the application
itself can: a watchdog tick that waits for one `failAndStop()` goes on to the next row, and a review
panel of which one launch failed cancels the others. Cancels and fail-and-stops that begin then are left out; those that
began before are followed to their end.

Left out of the workflow modules: prompts, results and artifacts, events, the store's lists, the worktree
and configuration prepared before the run exists, and a policy that differs from the run's
`totalIterations` (one request creates both). Assumed and not checked: `OneDriver`. With
`startRun` and `iterate` on one run the loop's `engine.start` is refused and the loop marks the run
failed under the other's pass; the interface offers them on different runs.

Left out of `RunRecovery`: logs and events of the interruption (`RunLog` has them), queued rows (they are
`AgentRuns`' and are kept), and SQLite failures, each of which ends the pass. A run that a later run replaces
is not resumed. Two requests at work on one run are `AgentRuns`' subject.

Left out of `RunLog`: `terminal.log` (the same calls, not numbered), the manifest, errors of fsync and
truncate, redaction.

Left out of `Worktrees`: archive (a display mark), the error mark a conflict sets on run and task, merge commits as
such, and what the checks of the main checkout and of the criteria look at, which is a choice. Only the
run recorded in the row is committed, as in the code.

Left out of `AccountLogins`: create and its roll-back, update, external profiles, the default of an Agent,
write and resize, audit events, and the host-native runtime, whose file operations do not wait and
have fewer interleavings. One `remove()` and one `enable()` are followed at a time. Runs are
started only: that a resume and a continuation resolve the profile again is left out.

Left out of `DecisionInbox`: the other kinds of decision, whose handlers only start a request; the
merge_blocked kind is in `Worktrees`.

Not modelled at all, with the reason in `PROJECT.json`: what only reads (observation, recovery centre,
doctor), what is synchronous edits of rows and files (tasks, prompts, memory, permissions, configuration),
parsers and classifiers, the renderer and the contracts. They are most of the lines and little of the
concurrency.

Order of the work to come:

1. **More about the workflow.** Dispatch (`workflows/dispatch-service.ts`) as a third driver of a one-node
   run: it writes "completed" after its own wait. The rows after a restart, which forgets the passes:
   running rows refuse every later start.
2. **Stop ladder.** `ProcessStop`: interrupt, terminate, kill, exit, several stops and disposeAll.
3. **Transient retry and continuation**, where the link to the retried run is written after the launch.
4. **Retention's run directories and artifacts, the review panel, the default profile of an Agent.**

Each with a passing run, and a violation only where code and documentation disagree.
