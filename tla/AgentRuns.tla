------------------------------ MODULE AgentRuns ------------------------------
(***************************************************************************)
(* The Agent run lifecycle of apps/desktop/src/main/agents/agent-manager.ts *)
(* together with the registry of live processes it drives through a CLI     *)
(* adapter (agents/adapters/cli-agent-adapter.ts, process/process-manager). *)
(*                                                                          *)
(* The main process is one JavaScript event loop, so the code between two   *)
(* awaits that really leave the loop is one step here.  Those awaits are    *)
(*   - adapter.start: the detector's probe, when its five-minute cache has  *)
(*     expired ("starting");                                                *)
(*   - hostProcesses.identity: ps or PowerShell ("identifying");            *)
(*   - processes.stop: the interrupt, terminate, kill ladder;               *)
(*   - the identity read and the terminate of a process that a previous     *)
(*     instance left behind ("settling", "probing");                        *)
(*   - adapter.detect at the top of resume() ("resuming").                  *)
(* accountProfiles.get returns Promise.resolve of a synchronous read: it    *)
(* yields to microtasks only, so one turn of the queue pass and the tail of *)
(* resume() are each one step, and the pass runs on before any event from   *)
(* outside is taken (eventArrives).  start() writes nothing until after its *)
(* detection await and re-reads the rows then: it is one step.              *)
(*                                                                          *)
(* Left out: logs, events, manifests, handoffs, permissions, queued_reason, *)
(* the task row, SQLite write failures, and the transient retry.            *)
(***************************************************************************)
EXTENDS Integers, FiniteSets

CONSTANTS
    Runs,                \* ids of the rows of agent_runs
    Callers,             \* concurrent resume / cancel / failAndStop requests
    NoRun,
    workspaceOf, agentOf, profileOf,   \* columns of a run's row
    worktreeOf, NoWorktree,
    readOnly,            \* runs whose approvalMode is 'read-only'
    maxGlobalRuns, maxRunsPerWorkspace, maxRunsPerAgent,
    maxConcurrentRuns,   \* limit of each account profile that has one
    LeftInterrupted,     \* rows startup reconciliation left 'interrupted'
    LeftActive,          \* rows it left 'running': a survivor it could not kill
    SpawnFailures,       \* runs whose adapter.start may fail
    Stubborn,            \* runs whose process may outlive the kill ladder
    MayQuit              \* whether the application may shut down

Leftover == LeftInterrupted \cup LeftActive

conflicting(r, s) ==
    \/ worktreeOf[r] # NoWorktree /\ worktreeOf[r] = worktreeOf[s]
    \/ /\ worktreeOf[r] = NoWorktree /\ worktreeOf[s] = NoWorktree
       /\ workspaceOf[r] = workspaceOf[s]
       /\ r \notin readOnly /\ s \notin readOnly

sameWorkspace(r) == {s \in Runs : workspaceOf[s] = workspaceOf[r]}
sameAgent(r)     == {s \in Runs : agentOf[s] = agentOf[r]}
sameProfile(r)   == {s \in Runs : profileOf[s] = profileOf[r]}

\* Runs that hold a slot: a set of them respects every concurrency limit.
limitsRespected(held) ==
    /\ Cardinality(held) <= maxGlobalRuns
    /\ \A r \in Runs :
         /\ Cardinality(held \cap sameWorkspace(r)) <= maxRunsPerWorkspace
         /\ Cardinality(held \cap sameAgent(r)) <= maxRunsPerAgent
         /\ profileOf[r] \in DOMAIN maxConcurrentRuns =>
              Cardinality(held \cap sameProfile(r)) <= maxConcurrentRuns[profileOf[r]]

exclusive(held) == \A r, s \in held : r # s => ~conflicting(r, s)

ASSUME RunsAssumption ==
    /\ IsFiniteSet(Runs)
    /\ NoRun \notin Runs
    /\ readOnly \subseteq Runs /\ SpawnFailures \subseteq Runs /\ Stubborn \subseteq Runs
    /\ MayQuit \in BOOLEAN

ASSUME LimitsAssumption ==
    /\ maxGlobalRuns \in Nat /\ maxRunsPerWorkspace \in Nat /\ maxRunsPerAgent \in Nat
    /\ \A p \in DOMAIN maxConcurrentRuns : maxConcurrentRuns[p] \in Nat

\* What the previous instance left behind obeyed the rules it ran under.
ASSUME LeftoverAssumption ==
    /\ Leftover \subseteq Runs /\ LeftInterrupted \cap LeftActive = {}
    /\ exclusive(LeftActive) /\ limitsRespected(LeftActive)

VARIABLES
    status,          \* agent_runs.status; "none" before the row exists
    createdAt,       \* agent_runs.created_at as a rank; 0 before the row exists
    processId,       \* runs whose row records a process id and pid
    registered,      \* failed runs carrying the classification of failAndStop
    alive,           \* ProcessManager's active map: live processes of this instance
    activeAdapters,  \* runs with an adapter binding
    pendingRuns,     \* queued runs with their launch request in memory
    cancelRequested, \* runs a cancel() is stopping
    failStopIntents, \* runs a failAndStop() is stopping
    phase,           \* where launchInner() of a run waits
    wake,            \* scheduleQueueAdvance() called and not yet served
    queueLaunch,     \* the run whose launch the queue pass awaits
    callPc, callRun, \* where each request waits, and its run
    quit,            \* progress of dispose()
    disposeStops     \* runs whose stop dispose() awaits

rowVars   == <<status, createdAt, processId, registered>>
queueVars == <<pendingRuns, wake, queueLaunch>>
callVars  == <<callPc, callRun>>
quitVars  == <<quit, disposeStops>>
vars == <<rowVars, alive, activeAdapters, queueVars, cancelRequested,
          failStopIntents, phase, callVars, quitVars>>

TerminalStatus == {"completed", "failed", "cancelled", "interrupted"}
Status == {"none", "queued", "preparing", "running"} \cup TerminalStatus

isTerminal(r) == status[r] \in TerminalStatus

\* runningForLimits(listActive()): the rows that hold a slot.
Launched == {r \in Runs : status[r] \in {"preparing", "running"}}
Queued   == {r \in Runs : status[r] = "queued"}

TypeOK ==
    /\ status \in [Runs -> Status]
    /\ createdAt \in [Runs -> Nat]
    /\ processId \subseteq Runs /\ registered \subseteq Runs
    /\ alive \subseteq Runs /\ activeAdapters \subseteq Runs /\ pendingRuns \subseteq Runs
    /\ cancelRequested \subseteq Runs /\ failStopIntents \subseteq Runs
    /\ disposeStops \subseteq Runs
    /\ phase \in [Runs -> {"idle", "starting", "identifying"}]
    /\ wake \in BOOLEAN
    /\ queueLaunch \in Runs \cup {NoRun}
    /\ callPc \in [Callers -> {"idle", "resuming", "cancelling", "cancelled",
                               "settling", "stopping", "stopped", "probing"}]
    /\ callRun \in [Callers -> Runs \cup {NoRun}]
    /\ \A c \in Callers : callPc[c] # "idle" => callRun[c] \in Runs
    /\ quit \in {"up", "stopping", "detached"}

Init ==
    /\ status = [r \in Runs |-> IF r \in LeftInterrupted THEN "interrupted"
                                ELSE IF r \in LeftActive THEN "running" ELSE "none"]
    /\ createdAt \in {f \in [Runs -> 0 .. Cardinality(Leftover)] :
                        /\ \A r \in Runs : f[r] = 0 <=> r \notin Leftover
                        /\ \A r, s \in Leftover : f[r] = f[s] => r = s}
    /\ processId = Leftover
    /\ registered = {} /\ alive = {} /\ activeAdapters = {}
    /\ pendingRuns = {} /\ wake = FALSE /\ queueLaunch = NoRun
    /\ cancelRequested = {} /\ failStopIntents = {}
    /\ phase = [r \in Runs |-> "idle"]
    /\ callPc = [c \in Callers |-> "idle"] /\ callRun = [c \in Callers |-> NoRun]
    /\ quit = "up" /\ disposeStops = {}

-----------------------------------------------------------------------------
(* Admission *)

unisolatedWriteConflict(r) ==
    /\ worktreeOf[r] = NoWorktree /\ r \notin readOnly
    /\ \E s \in Launched : /\ workspaceOf[s] = workspaceOf[r]
                           /\ worktreeOf[s] = NoWorktree /\ s \notin readOnly

worktreeRunConflict(r) ==
    /\ worktreeOf[r] # NoWorktree
    /\ \E s \in Launched \ {r} : worktreeOf[s] = worktreeOf[r]

\* Mutant: the account profile's limit is forgotten.
hasCapacityWithoutProfile(r) ==
    /\ Cardinality(Launched) < maxGlobalRuns
    /\ Cardinality(Launched \cap sameWorkspace(r)) < maxRunsPerWorkspace
    /\ Cardinality(Launched \cap sameAgent(r)) < maxRunsPerAgent

hasCapacity(r) ==
    /\ Cardinality(Launched) < maxGlobalRuns
    /\ Cardinality(Launched \cap sameWorkspace(r)) < maxRunsPerWorkspace
    /\ Cardinality(Launched \cap sameAgent(r)) < maxRunsPerAgent
    /\ profileOf[r] \in DOMAIN maxConcurrentRuns =>
         Cardinality(Launched \cap sameProfile(r)) < maxConcurrentRuns[profileOf[r]]

\* Mutant: a newcomer does not look at the queue.
mustQueueForCapacity(r) == ~hasCapacity(r)

\* queueEntryReason() is defined: behind a queue, or out of capacity.
mustQueue(r) == Queued # {} \/ ~hasCapacity(r)

\* Mutant: two runs in one worktree are not seen to conflict.
noUnisolatedConflict(r) == ~unisolatedWriteConflict(r)

noConflict(r) == ~unisolatedWriteConflict(r) /\ ~worktreeRunConflict(r)

-----------------------------------------------------------------------------
(* Launch and queue *)

scheduleQueueAdvance == wake' = TRUE

\* Exits, timers and requests are macrotasks: a queue pass that awaits no launch
\* goes on before the next of them.
eventArrives == ~(wake /\ queueLaunch = NoRun)

\* Mutant: the binding is set only after the process has started, and lost.
beginLaunchUnbound(r) ==
    /\ status' = [status EXCEPT ![r] = "preparing"]
    /\ phase' = [phase EXCEPT ![r] = "starting"]
    /\ UNCHANGED activeAdapters

\* launchInner() up to its first await.
beginLaunch(r) ==
    /\ status' = [status EXCEPT ![r] = "preparing"]
    /\ activeAdapters' = activeAdapters \cup {r}
    /\ phase' = [phase EXCEPT ![r] = "starting"]

\* The row enters the queue with its launch request, and the queue is woken.
enqueue(r) ==
    /\ status' = [status EXCEPT ![r] = "queued"]
    /\ pendingRuns' = pendingRuns \cup {r}
    /\ scheduleQueueAdvance
    /\ UNCHANGED <<activeAdapters, phase, queueLaunch>>

\* Mutant: the queue pass never learns that its launch has ended.
launchReturnsUnseen(r) ==
    /\ phase' = [phase EXCEPT ![r] = "idle"]
    /\ UNCHANGED queueLaunch

\* launch() returns: to the queue pass, if it is the one that awaits.
launchReturns(r) ==
    /\ phase' = [phase EXCEPT ![r] = "idle"]
    /\ queueLaunch' = IF queueLaunch = r THEN NoRun ELSE queueLaunch

\* adapter.start failed: finishFailed() settles the row and answers ok, so the
\* failure branch of start() that would advance the queue is not taken.
finishFailed(r) ==
    /\ phase[r] = "starting" /\ r \in SpawnFailures \cup alive
    /\ status' = [status EXCEPT ![r] = "failed"]
    /\ activeAdapters' = activeAdapters \ {r}
    /\ launchReturns(r)
    /\ UNCHANGED <<createdAt, processId, registered, alive, pendingRuns, wake,
                   cancelRequested, failStopIntents, callVars, quitVars>>

\* adapter.start returned a handle; the row is re-read before identity().
launchSpawned(r) ==
    /\ phase[r] = "starting" /\ r \notin alive
    /\ alive' = alive \cup {r}
    /\ IF isTerminal(r)
         THEN activeAdapters' = activeAdapters \ {r} /\ launchReturns(r)
         ELSE /\ phase' = [phase EXCEPT ![r] = "identifying"]
              /\ UNCHANGED <<activeAdapters, queueLaunch>>
    /\ UNCHANGED <<rowVars, pendingRuns, wake, cancelRequested,
                   failStopIntents, callVars, quitVars>>

\* Mutant: 'running' is written without a second look at the row.
launchIdentifiedBlindly(r) ==
    /\ phase[r] = "identifying"
    /\ launchReturns(r)
    /\ status' = [status EXCEPT ![r] = "running"]
    /\ processId' = processId \cup {r}
    /\ UNCHANGED <<createdAt, registered, alive, activeAdapters, pendingRuns, wake,
                   cancelRequested, failStopIntents, callVars, quitVars>>

\* identity() answered; the row is re-read before 'running' is written.
launchIdentified(r) ==
    /\ phase[r] = "identifying"
    /\ launchReturns(r)
    /\ IF isTerminal(r)
         THEN activeAdapters' = activeAdapters \ {r} /\ UNCHANGED <<status, processId>>
         ELSE /\ status' = [status EXCEPT ![r] = "running"]
              /\ processId' = processId \cup {r}
              /\ UNCHANGED activeAdapters
    /\ UNCHANGED <<createdAt, registered, alive, pendingRuns, wake,
                   cancelRequested, failStopIntents, callVars, quitVars>>

eligible(r) == r \in Queued \cap pendingRuns /\ noConflict(r) /\ hasCapacity(r)

\* One turn of the pass: the oldest eligible run leaves the queue.
advanceQueue(r) ==
    /\ wake /\ queueLaunch = NoRun
    /\ eligible(r)
    /\ \A s \in Runs : eligible(s) => createdAt[r] <= createdAt[s]
    /\ pendingRuns' = pendingRuns \ {r}
    /\ queueLaunch' = r
    /\ beginLaunch(r)
    /\ UNCHANGED <<createdAt, processId, registered, alive, wake, cancelRequested,
                   failStopIntents, callVars, quitVars>>

\* The pass finds nobody to launch and ends.
advanceQueueEnds ==
    /\ wake /\ queueLaunch = NoRun
    /\ \A r \in Runs : ~eligible(r)
    /\ wake' = FALSE
    /\ UNCHANGED <<rowVars, alive, activeAdapters, pendingRuns, queueLaunch,
                   cancelRequested, failStopIntents, phase, callVars, quitVars>>

-----------------------------------------------------------------------------
(* start() and resume() *)

\* start() does not look whether dispose() has begun: a call that was waiting for
\* its detection goes on after it.
startAdmitted(r) == status[r] = "none" /\ noConflict(r)

createRow(r) ==
    /\ createdAt' = [createdAt EXCEPT ![r] =
                       1 + Cardinality({s \in Runs : status[s] # "none"})]
    /\ UNCHANGED <<processId, registered, alive, cancelRequested, failStopIntents,
                   callVars, quitVars>>

startQueued(r) ==
    /\ startAdmitted(r) /\ mustQueue(r)
    /\ createRow(r) /\ enqueue(r)

startDirect(r) ==
    /\ startAdmitted(r) /\ ~mustQueue(r)
    /\ createRow(r) /\ beginLaunch(r)
    /\ UNCHANGED queueVars

\* resume() checks the row and awaits a refreshed detection.
resume(c, r) ==
    /\ eventArrives /\ quit = "up" /\ callPc[c] = "idle" /\ status[r] = "interrupted"
    /\ callPc' = [callPc EXCEPT ![c] = "resuming"]
    /\ callRun' = [callRun EXCEPT ![c] = r]
    /\ UNCHANGED <<rowVars, alive, activeAdapters, queueVars, cancelRequested,
                   failStopIntents, phase, quitVars>>

returns(c) ==
    /\ callPc' = [callPc EXCEPT ![c] = "idle"]
    /\ callRun' = [callRun EXCEPT ![c] = NoRun]

\* Mutant: the row is not re-read after detection.
resumableAsFound(r) == noConflict(r)

\* The re-check after detection, and the conflict checks that may refuse.
resumable(r) == status[r] = "interrupted" /\ noConflict(r)

\* The relaunched row starts a fresh attempt.
clearAttempt(r) ==
    /\ processId' = processId \ {r}
    /\ registered' = registered \ {r}
    /\ UNCHANGED <<createdAt, alive, cancelRequested, failStopIntents, quitVars>>

resumeQueued(c, r) ==
    /\ callPc[c] = "resuming" /\ callRun[c] = r
    /\ resumable(r) /\ mustQueue(r)
    /\ returns(c) /\ clearAttempt(r) /\ enqueue(r)

resumeDirect(c, r) ==
    /\ callPc[c] = "resuming" /\ callRun[c] = r
    /\ resumable(r) /\ ~mustQueue(r)
    /\ returns(c) /\ clearAttempt(r) /\ beginLaunch(r)
    /\ UNCHANGED queueVars

resumeRefused(c) ==
    /\ callPc[c] = "resuming" /\ ~resumable(callRun[c])
    /\ returns(c)
    /\ UNCHANGED <<rowVars, alive, activeAdapters, queueVars, cancelRequested,
                   failStopIntents, phase, quitVars>>

-----------------------------------------------------------------------------
(* The process.exited handler; dispose() unsubscribes it when it detaches *)

\* Every stop() of the run's process resolves with the exit.
stopsResolve(r) ==
    /\ callPc' = [c \in Callers |->
                    IF callRun[c] = r /\ callPc[c] = "cancelling" THEN "cancelled"
                    ELSE IF callRun[c] = r /\ callPc[c] = "stopping" THEN "stopped"
                    ELSE callPc[c]]
    /\ disposeStops' = disposeStops \ {r}
    /\ UNCHANGED <<callRun, quit>>

\* Mutant: a cancel outranks fail-and-stop.
exitStatusCancelFirst(r, exitCode) ==
    IF r \in cancelRequested THEN "cancelled"
    ELSE IF r \in failStopIntents THEN "failed"
    ELSE IF exitCode = 0 THEN "completed" ELSE "failed"

\* The terminal status an exit is given: fail-and-stop, then cancel, then code.
exitStatus(r, exitCode) ==
    IF r \in failStopIntents THEN "failed"
    ELSE IF r \in cancelRequested THEN "cancelled"
    ELSE IF exitCode = 0 THEN "completed" ELSE "failed"

processExited(r, exitCode) ==
    /\ eventArrives /\ r \in alive
    /\ alive' = alive \ {r}
    /\ stopsResolve(r)
    /\ IF r \in activeAdapters /\ quit # "detached"
         THEN /\ status' = [status EXCEPT ![r] = exitStatus(r, exitCode)]
              /\ registered' = IF r \in failStopIntents THEN registered \cup {r}
                                                        ELSE registered
              /\ failStopIntents' = failStopIntents \ {r}
              /\ cancelRequested' = cancelRequested \ {r}
              /\ activeAdapters' = activeAdapters \ {r}
              /\ scheduleQueueAdvance
         ELSE UNCHANGED <<status, registered, failStopIntents, cancelRequested,
                          activeAdapters, wake>>
    /\ UNCHANGED <<createdAt, processId, pendingRuns, queueLaunch, phase>>

-----------------------------------------------------------------------------
(* cancel() *)

cancelQueued(r) ==
    /\ eventArrives /\ quit = "up" /\ status[r] = "queued"
    /\ pendingRuns' = pendingRuns \ {r}
    /\ status' = [status EXCEPT ![r] = "cancelled"]
    /\ scheduleQueueAdvance
    /\ UNCHANGED <<createdAt, processId, registered, alive, activeAdapters, queueLaunch,
                   cancelRequested, failStopIntents, phase, callVars, quitVars>>

\* The binding's process is stopped.  A binding whose process has not started
\* answers PROCESS_NOT_FOUND and leaves nothing changed.
cancel(c, r) ==
    /\ eventArrives /\ quit = "up" /\ callPc[c] = "idle"
    /\ r \in Launched \cap activeAdapters \cap alive
    /\ cancelRequested' = cancelRequested \cup {r}
    /\ callPc' = [callPc EXCEPT ![c] = "cancelling"]
    /\ callRun' = [callRun EXCEPT ![c] = r]
    /\ UNCHANGED <<rowVars, alive, activeAdapters, queueVars, failStopIntents,
                   phase, quitVars>>

cancelTimedOut(c) ==
    /\ eventArrives /\ callPc[c] = "cancelling" /\ callRun[c] \in Stubborn
    /\ cancelRequested' = cancelRequested \ {callRun[c]}
    /\ returns(c)
    /\ UNCHANGED <<rowVars, alive, activeAdapters, queueVars, failStopIntents,
                   phase, quitVars>>

\* stop() resolved.  The row is settled here only if the exit did not settle it.
cancelReturns(c) ==
    /\ callPc[c] = "cancelled"
    /\ returns(c)
    /\ IF isTerminal(callRun[c])
         THEN UNCHANGED <<status, cancelRequested, activeAdapters>>
         ELSE /\ status' = [status EXCEPT ![callRun[c]] = "cancelled"]
              /\ cancelRequested' = cancelRequested \ {callRun[c]}
              /\ activeAdapters' = activeAdapters \ {callRun[c]}
    /\ UNCHANGED <<createdAt, processId, registered, alive, queueVars,
                   failStopIntents, phase, quitVars>>

waitingOn(r, pcs) == \E c \in Callers : callRun[c] = r /\ callPc[c] \in pcs

\* A row of a previous instance: one settle at a time, claimed before its await.
cancelAdapterless(c, r) ==
    /\ eventArrives /\ quit = "up" /\ callPc[c] = "idle"
    /\ r \in Launched \ activeAdapters /\ ~waitingOn(r, {"settling"})
    /\ callPc' = [callPc EXCEPT ![c] = "settling"]
    /\ callRun' = [callRun EXCEPT ![c] = r]
    /\ UNCHANGED <<rowVars, alive, activeAdapters, queueVars, cancelRequested,
                   failStopIntents, phase, quitVars>>

\* Mutant: the slot is given back, but the queue is not told.
settleAdapterlessCancelSilently(c) ==
    /\ callPc[c] = "settling"
    /\ status' = [status EXCEPT ![callRun[c]] = "cancelled"]
    /\ returns(c)
    /\ UNCHANGED <<createdAt, processId, registered, alive, activeAdapters, queueVars,
                   cancelRequested, failStopIntents, phase, quitVars>>

\* Whatever the identity read and the terminate answered, the row is settled.
settleAdapterlessCancel(c) ==
    /\ callPc[c] = "settling"
    /\ status' = [status EXCEPT ![callRun[c]] = "cancelled"]
    /\ returns(c) /\ scheduleQueueAdvance
    /\ UNCHANGED <<createdAt, processId, registered, alive, activeAdapters, pendingRuns,
                   queueLaunch, cancelRequested, failStopIntents, phase, quitVars>>

-----------------------------------------------------------------------------
(* failAndStop() *)

settleFailedStop(r) ==
    /\ status' = [status EXCEPT ![r] = "failed"]
    /\ registered' = registered \cup {r}
    /\ activeAdapters' = activeAdapters \ {r}
    /\ cancelRequested' = cancelRequested \ {r}
    /\ failStopIntents' = failStopIntents \ {r}
    /\ scheduleQueueAdvance
    /\ UNCHANGED <<createdAt, processId, alive, queueLaunch, phase, quitVars>>

failAndStopQueued(r) ==
    /\ eventArrives /\ quit = "up" /\ status[r] = "queued"
    /\ pendingRuns' = pendingRuns \ {r}
    /\ settleFailedStop(r)
    /\ UNCHANGED callVars

\* Mutant: failAndStop() does not know of launches in flight.
neverInFlight(r) == FALSE

\* launchInner() has not returned, and the row has no process yet.
launchInFlight(r) == r \notin processId /\ phase[r] # "idle"

\* One execution per run.  A terminal row, and a row whose launch is in flight,
\* are answered without a change.
failAndStop(c, r) ==
    /\ eventArrives /\ quit = "up" /\ callPc[c] = "idle"
    /\ r \in Launched /\ ~waitingOn(r, {"stopping", "stopped", "probing"})
    /\ ~launchInFlight(r)
    /\ failStopIntents' = failStopIntents \cup {r}
    /\ callPc' = [callPc EXCEPT ![c] = IF r \in processId \cap alive THEN "stopping"
                                                                     ELSE "probing"]
    /\ callRun' = [callRun EXCEPT ![c] = r]
    /\ UNCHANGED <<rowVars, alive, activeAdapters, queueVars, cancelRequested, phase,
                   quitVars>>

\* stop() timed out, or the survivor could not be killed: abort.
failAndStopAborts(c) ==
    /\ eventArrives
    /\ \/ callPc[c] = "stopping" /\ callRun[c] \in Stubborn
       \/ callPc[c] = "probing"
    /\ failStopIntents' = failStopIntents \ {callRun[c]}
    /\ returns(c)
    /\ UNCHANGED <<rowVars, alive, activeAdapters, queueVars, cancelRequested, phase,
                   quitVars>>

\* stop() resolved, or no survivor is left: the row is re-read and settled
\* unless it is terminal.
failAndStopReturns(c) ==
    /\ callPc[c] \in {"stopped", "probing"}
    /\ returns(c)
    /\ IF isTerminal(callRun[c])
         THEN /\ failStopIntents' = IF callPc[c] = "probing"
                                      THEN failStopIntents \ {callRun[c]}
                                      ELSE failStopIntents
              /\ UNCHANGED <<rowVars, alive, activeAdapters, queueVars, cancelRequested,
                             phase, quitVars>>
         ELSE settleFailedStop(callRun[c]) /\ UNCHANGED pendingRuns

-----------------------------------------------------------------------------
(* dispose(): the IPC router is closed first, so the interface makes no more   *)
(* requests; a start() or resume() that is waiting goes on.  Left out are the   *)
(* cancels and fail-and-stops of the application itself that begin later        *)

dispose ==
    /\ eventArrives /\ MayQuit /\ quit = "up"
    /\ quit' = "stopping"
    /\ disposeStops' = activeAdapters \cap alive
    /\ cancelRequested' = cancelRequested \cup (activeAdapters \cap alive)
    /\ UNCHANGED <<rowVars, alive, activeAdapters, queueVars, failStopIntents, phase,
                   callVars>>

disposeStopTimedOut(r) ==
    /\ eventArrives /\ r \in disposeStops \cap Stubborn
    /\ disposeStops' = disposeStops \ {r}
    /\ cancelRequested' = cancelRequested \ {r}
    /\ UNCHANGED <<rowVars, alive, activeAdapters, queueVars, failStopIntents, phase,
                   callVars, quit>>

\* Every stop, adapterless cancel and fail-and-stop has ended.
disposeDetaches ==
    /\ quit = "stopping" /\ disposeStops = {}
    /\ \A c \in Callers : callPc[c] \notin {"settling", "stopping", "stopped", "probing"}
    /\ quit' = "detached"
    /\ activeAdapters' = {} /\ pendingRuns' = {}
    /\ cancelRequested' = {} /\ failStopIntents' = {}
    /\ UNCHANGED <<rowVars, alive, wake, queueLaunch, phase, callVars, disposeStops>>

-----------------------------------------------------------------------------
RunStep(r) ==
    \/ startQueued(r) \/ startDirect(r)
    \/ finishFailed(r) \/ launchSpawned(r) \/ launchIdentified(r)
    \/ advanceQueue(r)
    \/ \E exitCode \in {0, 1} : processExited(r, exitCode)
    \/ cancelQueued(r) \/ failAndStopQueued(r)
    \/ disposeStopTimedOut(r)

Request(c, r) ==
    \/ resume(c, r) \/ cancel(c, r) \/ cancelAdapterless(c, r) \/ failAndStop(c, r)

CallStep(c) ==
    \/ \E r \in Runs : resumeQueued(c, r) \/ resumeDirect(c, r)
    \/ resumeRefused(c)
    \/ cancelTimedOut(c) \/ cancelReturns(c) \/ settleAdapterlessCancel(c)
    \/ failAndStopAborts(c) \/ failAndStopReturns(c)

Next ==
    \/ \E r \in Runs : RunStep(r)
    \/ \E c \in Callers, r \in Runs : Request(c, r)
    \/ \E c \in Callers : CallStep(c)
    \/ advanceQueueEnds \/ dispose \/ disposeDetaches

Spec == Init /\ [][Next]_vars

\* The event loop runs what is ready; stop() is bounded by its timeouts, and the
\* probes by theirs.  AgentsExit is about the environment: no Agent runs for ever.
LoopFairness ==
    /\ \A r \in Runs :
         /\ WF_vars(finishFailed(r) \/ launchSpawned(r))
         /\ WF_vars(launchIdentified(r))
    /\ WF_vars(advanceQueueEnds \/ \E r \in Runs : advanceQueue(r))
    /\ \A c \in Callers : WF_vars(CallStep(c))

AgentsExit == \A r \in Runs : WF_vars(\E exitCode \in {0, 1} : processExited(r, exitCode))

FairSpec == Spec /\ LoopFairness /\ AgentsExit

-----------------------------------------------------------------------------
(* Properties *)

\* Two live Agent processes never write the same worktree, nor the same
\* unisolated workspace: worktreeRunConflict() and unisolatedWriteConflict() of
\* start(), resume() and the queue pass together achieve it, across all awaits.
OneWriter == exclusive(alive)

\* The same for the rows that hold a slot: a launch reserves its directory
\* before the process exists.
OneReservation == exclusive(Launched)

\* The rows that hold a slot never exceed maxGlobalRuns, maxRunsPerWorkspace,
\* maxRunsPerAgent or an account profile's maxConcurrentRuns, whichever of
\* start(), resume() and the queue pass admits them.
WithinLimits == limitsRespected(Launched)

\* What admission promises, kept after it: neither a launch out of the queue, nor a
\* resume, nor a row of a previous instance breaks the rules of start()
\* (agent-manager.ts:361-409).
Reserved == OneReservation /\ WithinLimits

\* A live process always has a non-terminal row that recovery, cancel() and the
\* conflict checks can see (the leak P0-3 is about), and until dispose() detaches
\* it has the binding without which its exit would be ignored.
NoOrphanProcess ==
    /\ alive \subseteq Launched
    /\ quit # "detached" => alive \subseteq activeAdapters

\* A row says 'running' only while its process lives: the exit that falls into
\* the identity await of a launch is not overwritten.
RunningIsLive ==
    quit # "detached" =>
      \A r \in Runs \ LeftActive : status[r] = "running" => r \in alive

\* When stop() returns to cancel() or failAndStop(), the exit handler has already
\* settled the row: the defensive settle after it, which would not advance the
\* queue, is never needed.
StopFindsSettledRow ==
    quit # "detached" =>
      \A c \in Callers : callPc[c] \in {"cancelled", "stopped"} => isTerminal(callRun[c])

\* Nobody is forgotten in the queue: when no pass is due or awaiting a launch, no
\* queued run could be launched.
NoMissedWakeup ==
    quit = "up" /\ ~wake /\ queueLaunch = NoRun => \A r \in Runs : ~eligible(r)

\* A run is settled once: the only way out of a terminal status is resume() of an
\* interrupted row.
SettledOnce ==
    [][\A r \in Runs : isTerminal(r) /\ status'[r] # status[r] =>
         status[r] = "interrupted" /\ status'[r] \in {"queued", "preparing"}]_vars

\* A registered fail-and-stop intent decides how the run ends: it is never
\* settled as a plain cancel, nor by its exit code.  (A row of a previous instance
\* is left out: see the violation of SettledOnce.)
FailStopWins ==
    [][\A r \in failStopIntents \ LeftActive : ~isTerminal(r) /\ isTerminal(r)' =>
         status'[r] = "failed" /\ r \in registered']_vars

\* A launch begins only when the run has neither a live process nor a binding:
\* of two concurrent resume() calls one relaunches the run.
LaunchedOnce ==
    [][\A r \in Runs : phase[r] # "starting" /\ phase'[r] = "starting" =>
         phase[r] = "idle" /\ r \notin alive /\ r \notin activeAdapters]_vars

\* The queue is only for launches to come: while dispose() stops the live runs,
\* no queued run is launched.
NoLaunchWhileQuitting ==
    [][quit # "up" => \A r \in Queued : status'[r] # "preparing"]_vars

\* A queued run leaves the queue, unless the slots it needs are held by a row of
\* a previous instance, which only a user's cancel can release.
QueueDrains ==
    \A r \in Runs :
      status[r] = "queued" ~> status[r] # "queued" \/ LeftActive \cap Launched # {}

\* What the manager promises its callers is RunSlots: directories and capacity
\* are handed out as slots, newcomers do not overtake the queue, and a run that is
\* over stays over.
slotOf == [r \in Runs |->
             CASE status[r] \in {"none", "interrupted"} -> "fresh"
               [] status[r] = "queued" -> "waiting"
               [] status[r] \in {"preparing", "running"} -> "holding"
               [] OTHER -> "over"]

Slots == INSTANCE RunSlots WITH
           slot <- slotOf,
           Admissible <- {held \in SUBSET Runs : exclusive(held) /\ limitsRespected(held)}

ImplementsSlots == Slots!Spec

-----------------------------------------------------------------------------
(* The inductive invariant behind the safety properties *)

\* Where launchInner() waits agrees with the row and with the process.
LaunchInv ==
    \A r \in Runs :
      /\ phase[r] = "starting" =>
           /\ status[r] = "preparing" /\ r \notin alive /\ r \notin processId
           /\ quit # "detached" => r \in activeAdapters
      /\ phase[r] = "identifying" =>
           status[r] \in {"preparing", "completed", "failed", "cancelled"}
      /\ status[r] = "preparing" => phase[r] # "idle"
      /\ status[r] = "preparing" /\ phase[r] = "identifying" /\ quit # "detached" =>
           r \in alive
      /\ status[r] \in {"none", "queued"} => r \notin processId
      /\ status[r] = "running" => r \in processId

\* A run whose process has gone, and which no step can launch again.
gone(r) ==
    /\ r \notin alive /\ phase[r] # "starting"
    /\ status[r] \notin {"none", "queued", "interrupted"}

\* Requests that wait after a process: it has exited, or never was this instance's.
CallInv ==
    \A c \in Callers :
      /\ callPc[c] \in {"cancelled", "stopped", "settling", "probing"} => gone(callRun[c])
      /\ callPc[c] = "settling" => callRun[c] \in LeftActive \ activeAdapters

\* Only a launched run is being fail-stopped, and none after detaching.
IntentInv ==
    /\ \A r \in failStopIntents :
         status[r] \notin {"none", "queued", "interrupted"} /\ phase[r] # "starting"
    /\ quit = "detached" => failStopIntents = {}

\* Rows, bindings, processes and requests agree: what every step relies on.
Agreement ==
    /\ NoOrphanProcess /\ RunningIsLive /\ StopFindsSettledRow
    /\ activeAdapters \subseteq Launched
    /\ LaunchInv /\ CallInv /\ IntentInv

\* The inductive invariant, together with TypeOK.
Consistent == Reserved /\ Agreement
=============================================================================
