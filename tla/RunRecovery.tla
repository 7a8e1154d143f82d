----------------------------- MODULE RunRecovery -----------------------------
(***************************************************************************)
(* Crash recovery of Agent runs: what an instance of the application that   *)
(* dies leaves on the host and in agent_runs, what the start-up pass of     *)
(* recovery/reconciliation-service.ts makes of it, and what the requests    *)
(* that follow may do (start, resume, cancel, failAndStop and               *)
(* continueWithProfile of agents/agent-manager.ts), all through the one     *)
(* survivor routine of process/survivor.ts and process/host-processes.ts.   *)
(*                                                                          *)
(* A process is known to the host by its pid and its start time.  Both      *)
(* reads of the survivor routine may await a command (ps, PowerShell,       *)
(* tasklist, taskkill), so the read and the kill are two steps; on Linux    *)
(* they follow each other at once, which is one of the interleavings.       *)
(*                                                                          *)
(* The launch, queue and stop of runs this instance owns are AgentRuns; of  *)
(* those only what recovery sees is here.  Left out: logs, manifests and    *)
(* events of the interruption, SQLite failures (each aborts the pass), and  *)
(* crashes inside one synchronous turn.  A terminate only tells a process to *)
(* stop: it leaves the host by Exit, at once or (POSIX: SIGTERM) later.      *)
(* Two requests at work on one run are AgentRuns' subject, not this one's.   *)
(***************************************************************************)
EXTENDS Integers, FiniteSets

CONSTANTS
    Runs, Pids, NoPid,
    Stranger,       \* the owner of a process that is not an Agent
    worktreeOf,     \* the worktree (or checkout) a run writes to
    MaxStarts,      \* bound: processes started on the host
    MaxCrashes,     \* bound: deaths of an instance
    Faults          \* which of FaultKinds may happen

FaultKinds ==
    {"readFails",   \* a start-time read or probe fails (policy, timeout)
     "killFails",   \* the terminate command fails
     "unreachable", \* the workspace does not answer at start-up (WSL, a mount)
     "worktreeLost",
     "spawnGap"}    \* a crash between the spawn and the write of its pid

ASSUME RecoveryAssumption ==
    /\ NoPid \notin Pids /\ Stranger \notin Runs
    /\ MaxStarts \in Nat /\ MaxCrashes \in Nat
    /\ Faults \subseteq FaultKinds

VARIABLES
    stage,       \* of the instance: "down", "pass" (start-up pass), "up"
    status, pid, token, exitKnown,   \* columns of agent_runs
    task,        \* status of the task the runs belong to
    host,        \* the process behind each pid of the host
    starts,      \* processes started so far: the clock start times come from
    own,         \* runs with a process in ProcessManager's registry: its start
    launching,   \* runs whose launch awaits the identity of its process
    probe, seen, \* the survivor routine at work on a run; the pid it asks, as read
    todo,        \* rows of listActive() the pass has still to look at
    interrupted, \* runs this pass has interrupted
    reachable,   \* the pass found the workspace
    broken,      \* worktrees whose row says missing or orphaned
    signalled,   \* start times of the processes a terminate has reached
    crashes,
    recorded,    \* history: processes whose identity a row was given
    unprobed,    \* history: those whose run a pass interrupted without a probe
    abandoned,   \* history: those whose run a cancel settled
    torn         \* history: a crash cut a pass off between its two halves

rowVars  == <<status, pid, token, exitKnown>>
passVars == <<todo, interrupted, reachable>>
history  == <<crashes, recorded, unprobed, abandoned, torn>>
vars == <<stage, rowVars, task, host, starts, own, launching, probe, seen,
          passVars, broken, signalled, history>>

Gone == [run |-> Stranger, start |-> 0]      \* nothing behind the pid
Unread == [pid |-> NoPid, start |-> 0]
Process == [run : Runs \cup {Stranger}, start : 1 .. MaxStarts]

ActiveStatus == {"preparing", "running"}     \* listActive(); "queued" is AgentRuns'
Status == ActiveStatus \cup {"none", "exited", "failed", "cancelled", "interrupted"}
Terminal == {"exited", "failed", "cancelled", "interrupted"}

active(r) == status[r] \in ActiveStatus
noActiveRun(st) == \A r \in Runs : st[r] \notin ActiveStatus
processesOf(r) == {p \in Pids : host[p].run = r /\ host[p].start # 0}

Purposes == {"pass", "cancel", "stop", "continue"}

TypeOK ==
    /\ stage \in {"down", "pass", "up"}
    /\ status \in [Runs -> Status]
    /\ pid \in [Runs -> Pids \cup {NoPid}]
    /\ token \in [Runs -> 0 .. MaxStarts]
    /\ exitKnown \subseteq Runs
    /\ task \in {"draft", "running", "blocked", "settled"}
    /\ host \in [Pids -> Process \cup {Gone}]
    /\ starts \in 0 .. MaxStarts
    /\ own \in [Runs -> 0 .. MaxStarts]
    /\ launching \subseteq Runs
    /\ probe \in [Runs -> Purposes \cup {"none"}]
    /\ seen \in [Runs -> [pid : Pids \cup {NoPid}, start : 0 .. MaxStarts]]
    /\ todo \subseteq Runs /\ interrupted \subseteq Runs
    /\ reachable \in BOOLEAN
    /\ signalled \subseteq 1 .. MaxStarts
    /\ crashes \in Nat /\ torn \in BOOLEAN
    /\ recorded \subseteq 0 .. MaxStarts
    /\ unprobed \subseteq 0 .. MaxStarts /\ abandoned \subseteq 0 .. MaxStarts

Init ==
    /\ stage = "up"
    /\ status = [r \in Runs |-> "none"] /\ pid = [r \in Runs |-> NoPid]
    /\ token = [r \in Runs |-> 0] /\ exitKnown = {} /\ task = "draft"
    /\ host = [p \in Pids |-> Gone] /\ starts = 0
    /\ own = [r \in Runs |-> 0] /\ launching = {}
    /\ probe = [r \in Runs |-> "none"] /\ seen = [r \in Runs |-> Unread]
    /\ todo = {} /\ interrupted = {} /\ reachable = TRUE
    /\ broken = {} /\ signalled = {}
    /\ crashes = 0 /\ torn = FALSE
    /\ recorded = {} /\ unprobed = {} /\ abandoned = {}

-----------------------------------------------------------------------------
(* Launching a run: the row, the process, and then its pid and identity.    *)

worktreeFree(r) ==
    \A q \in Runs \ {r} : worktreeOf[q] = worktreeOf[r] => ~active(q)

\* The row of a fresh attempt, and the task that follows it.
prepare(r) ==
    /\ status' = [status EXCEPT ![r] = "preparing"]
    /\ pid' = [pid EXCEPT ![r] = NoPid] /\ token' = [token EXCEPT ![r] = 0]
    /\ exitKnown' = exitKnown \ {r}
    /\ task' = "running"

\* start(): any other terminal run of the worktree is no obstacle.
Start(r) ==
    /\ stage = "up" /\ status[r] = "none" /\ worktreeFree(r)
    /\ prepare(r)
    /\ UNCHANGED <<stage, host, starts, own, launching, probe, seen, passVars,
                   broken, signalled, history>>

\* resume-service.ts and then resume(); the registry knows processes of this
\* instance only.
Resume(r) ==
    /\ stage = "up" /\ status[r] = "interrupted" /\ own[r] = 0
    /\ worktreeOf[r] \notin broken /\ worktreeFree(r)
    /\ prepare(r)
    /\ UNCHANGED <<stage, host, starts, own, launching, probe, seen, passVars,
                   broken, signalled, history>>

newProcess(p, owner) ==
    /\ starts < MaxStarts /\ host[p] = Gone
    /\ starts' = starts + 1
    /\ host' = [host EXCEPT ![p] = [run |-> owner, start |-> starts + 1]]

\* adapter.start returns; the row does not know the process yet.
Spawn(r, p) ==
    /\ stage = "up" /\ status[r] = "preparing" /\ own[r] = 0 /\ r \notin launching
    /\ newProcess(p, r)
    /\ own' = [own EXCEPT ![r] = starts + 1]
    /\ launching' = launching \cup {r}
    /\ UNCHANGED <<stage, rowVars, task, probe, seen, passVars, broken,
                   signalled, history>>

\* The identity is read: its token, or none when the read fails.
RecordProcess(r) ==
    /\ stage = "up" /\ r \in launching
    /\ launching' = launching \ {r}
    /\ IF active(r)
         THEN /\ status' = [status EXCEPT ![r] = "running"]
              /\ \E p \in processesOf(r) :
                   /\ host[p].start = own[r]
                   /\ pid' = [pid EXCEPT ![r] = p]
              /\ \/ token' = [token EXCEPT ![r] = own[r]]
                 \/ "readFails" \in Faults /\ UNCHANGED token
              /\ recorded' = recorded \cup {token'[r]}
         ELSE UNCHANGED <<status, pid, token, recorded>>
    /\ UNCHANGED <<stage, exitKnown, task, host, starts, own, probe, seen,
                   passVars, broken, signalled, crashes, unprobed, abandoned, torn>>

\* A process ends.  If this instance owns it, the exit event settles its row.
Exit(p) ==
    /\ host[p] # Gone
    /\ host' = [host EXCEPT ![p] = Gone]
    /\ LET r == host[p].run
       IN IF r \in Runs /\ stage = "up" /\ own[r] = host[p].start
            THEN /\ own' = [own EXCEPT ![r] = 0]
                 /\ status' = [status EXCEPT ![r] = "exited"]
                 /\ exitKnown' = exitKnown \cup {r}
                 /\ task' = IF noActiveRun(status') THEN "settled" ELSE "running"
            ELSE UNCHANGED <<own, status, exitKnown, task>>
    /\ UNCHANGED <<stage, pid, token, starts, launching, probe, seen, passVars,
                   broken, signalled, history>>

\* The host gives a free pid to a process that has nothing to do with Teskra.
StrangerStarts(p) ==
    /\ newProcess(p, Stranger)
    /\ UNCHANGED <<stage, rowVars, task, own, launching, probe, seen, passVars,
                   broken, signalled, history>>

\* The instance dies; the database and the processes stay.
Crash ==
    /\ stage # "down" /\ crashes < MaxCrashes
    /\ launching # {} => "spawnGap" \in Faults
    /\ stage' = "down" /\ crashes' = crashes + 1
    /\ torn' = (torn \/ interrupted # {})
    /\ own' = [r \in Runs |-> 0] /\ launching' = {}
    /\ probe' = [r \in Runs |-> "none"] /\ seen' = [r \in Runs |-> Unread]
    /\ todo' = {} /\ interrupted' = {} /\ reachable' = TRUE
    /\ UNCHANGED <<rowVars, task, host, starts, broken, signalled,
                   recorded, unprobed, abandoned>>

-----------------------------------------------------------------------------
(* The survivor routine: a read of the pid, then a kill, then the outcome.  *)

\* The routine has nothing to ask: no pid, or a terminal row without a token.
nothingToProbe(r) ==
    \/ pid[r] = NoPid
    \/ token[r] = 0 /\ (r \in exitKnown \/ status[r] \in Terminal)

\* What identity() answers; 0 stands for a pid that is gone.
identityOf(r) == IF pid[r] \in Pids THEN host[pid[r]].start ELSE 0

\* Mutants: a failed identity read taken for a process that is gone, and a kill
\* on the pid alone.
readNoneUnread(r) ==
    \/ nothingToProbe(r)
    \/ token[r] # 0 /\ (identityOf(r) # token[r] \/ "readFails" \in Faults)
    \/ token[r] = 0 /\ (identityOf(r) = 0 \/ "readFails" \in Faults)
readKillsByPid(r) == ~nothingToProbe(r) /\ identityOf(r) # 0

\* terminateSurvivorProcess() after its read: 'alive' when the identity read
\* failed, 'none' when the pid is gone, another's, or the legacy probe failed;
\* otherwise it goes on to the kill.
readAlive(r) == "readFails" \in Faults /\ token[r] # 0
readNone(r) ==
    \/ nothingToProbe(r)
    \/ token[r] # 0 /\ identityOf(r) # token[r]
    \/ token[r] = 0 /\ (identityOf(r) = 0 \/ "readFails" \in Faults)
readKills(r) ==
    /\ ~nothingToProbe(r)
    /\ IF token[r] # 0 THEN identityOf(r) = token[r] ELSE identityOf(r) # 0

\* The read is over and the routine awaits its kill.
awaitKill(r, purpose) ==
    /\ probe' = [probe EXCEPT ![r] = purpose]
    /\ seen' = [seen EXCEPT ![r] = [pid |-> pid[r], start |-> identityOf(r)]]
probeOver(r) ==
    /\ probe' = [probe EXCEPT ![r] = "none"]
    /\ seen' = [seen EXCEPT ![r] = Unread]

\* The terminate reaches whatever has the pid by now; of a pid that is gone
\* POSIX reports success and taskkill a failure.
killSucceeds(r) ==
    signalled' = signalled \cup ({host[seen[r].pid].start} \ {0})
killFails(r) ==
    /\ "killFails" \in Faults \/ host[seen[r].pid] = Gone
    /\ UNCHANGED signalled

-----------------------------------------------------------------------------
(* The start-up pass.                                                       *)

\* Workspaces and worktrees are checked first, then listActive() is read.
Boot ==
    /\ stage = "down"
    /\ stage' = "pass"
    /\ reachable' \in (IF "unreachable" \in Faults THEN BOOLEAN ELSE {TRUE})
    /\ broken' \in {broken} \cup
         (IF "worktreeLost" \in Faults /\ reachable'
            THEN {broken \cup {worktreeOf[r]} : r \in Runs} ELSE {})
    /\ todo' = {r \in Runs : active(r)}
    /\ UNCHANGED <<rowVars, task, host, starts, own, launching, probe, seen,
                   interrupted, signalled, history>>

passIdle == stage = "pass" /\ \A r \in Runs : probe[r] # "pass"

interrupt(r) ==
    /\ status' = [status EXCEPT ![r] = "interrupted"]
    /\ interrupted' = interrupted \cup {r}
    /\ todo' = todo \ {r}
    /\ UNCHANGED <<pid, token, exitKnown, reachable>>

\* The workspace or the worktree is not there: no probe for a survivor.
InterruptUnprobed(r) ==
    /\ passIdle /\ r \in todo
    /\ ~reachable \/ worktreeOf[r] \in broken
    /\ interrupt(r)
    /\ unprobed' = unprobed \cup {token[r]}
    /\ UNCHANGED <<stage, task, host, starts, own, launching, probe, seen, broken,
                   signalled, crashes, recorded, abandoned, torn>>

probedByPass(r) == passIdle /\ r \in todo /\ reachable /\ worktreeOf[r] \notin broken

\* No survivor: the row becomes interrupted, which makes it resumable.
InterruptDead(r) ==
    /\ probedByPass(r) /\ readNone(r)
    /\ interrupt(r)
    /\ UNCHANGED <<stage, task, host, starts, own, launching, probe, seen, broken,
                   signalled, history>>

\* The identity could not be read: the row stays active.
KeepUnread(r) ==
    /\ probedByPass(r) /\ ~nothingToProbe(r) /\ readAlive(r)
    /\ todo' = todo \ {r}
    /\ UNCHANGED <<stage, rowVars, task, host, starts, own, launching, probe, seen,
                   interrupted, reachable, broken, signalled, history>>

FindSurvivor(r) ==
    /\ probedByPass(r) /\ readKills(r)
    /\ awaitKill(r, "pass")
    /\ UNCHANGED <<stage, rowVars, task, host, starts, own, launching, passVars,
                   broken, signalled, history>>

TerminateSurvivor(r) ==
    /\ probe[r] = "pass" /\ probeOver(r)
    /\ \/ killSucceeds(r) /\ interrupt(r)
       \/ /\ killFails(r)
          /\ todo' = todo \ {r}
          /\ UNCHANGED <<rowVars, interrupted, reachable>>
    /\ UNCHANGED <<stage, task, host, starts, own, launching, broken, history>>

\* Mutant: the tasks are left as they are.
PassEndsTasksKept ==
    /\ passIdle /\ todo = {}
    /\ stage' = "up"
    /\ interrupted' = {} /\ reachable' = TRUE
    /\ UNCHANGED <<rowVars, task, host, starts, own, launching, probe, seen, todo, broken,
                   signalled, history>>

\* The tasks of the interrupted runs, and the application is ready.
PassEnds ==
    /\ passIdle /\ todo = {}
    /\ stage' = "up"
    /\ task' = IF interrupted # {} /\ noActiveRun(status) /\ task = "running"
                 THEN "blocked" ELSE task
    /\ interrupted' = {} /\ reachable' = TRUE
    /\ UNCHANGED <<rowVars, host, starts, own, launching, probe, seen, todo, broken,
                   signalled, history>>

-----------------------------------------------------------------------------
(* Requests about a run this instance does not own.                         *)

\* No adapter binding: a row left active by the pass.
adapterless(r) ==
    stage = "up" /\ active(r) /\ own[r] = 0 /\ r \notin launching /\ pid[r] # NoPid

settle(r, st) ==
    /\ status' = [status EXCEPT ![r] = st]
    /\ task' = IF ~noActiveRun(status') THEN "running" ELSE "settled"
    /\ UNCHANGED <<pid, token, exitKnown>>

cancelMatches(r) == token[r] # 0 /\ identityOf(r) = token[r]

\* settleAdapterlessCancel(): the kill is best effort, the settle is not.
CancelSettles(r) ==
    /\ adapterless(r) /\ probe[r] = "none"
    /\ ~cancelMatches(r) \/ "readFails" \in Faults
    /\ settle(r, "cancelled") /\ abandoned' = abandoned \cup {token[r]}
    /\ UNCHANGED <<stage, host, starts, own, launching, probe, seen, passVars,
                   broken, signalled, crashes, recorded, unprobed, torn>>

CancelFindsSurvivor(r) ==
    /\ adapterless(r) /\ probe[r] = "none" /\ cancelMatches(r)
    /\ awaitKill(r, "cancel")
    /\ UNCHANGED <<stage, rowVars, task, host, starts, own, launching, passVars,
                   broken, signalled, history>>

CancelTerminates(r) ==
    /\ probe[r] = "cancel" /\ probeOver(r)
    /\ killSucceeds(r) \/ killFails(r)
    /\ settle(r, "cancelled") /\ abandoned' = abandoned \cup {token[r]}
    /\ UNCHANGED <<stage, host, starts, own, launching, passVars, broken,
                   crashes, recorded, unprobed, torn>>

\* doFailAndStop() after stop() answered PROCESS_NOT_FOUND.
StopFindsNone(r) ==
    /\ adapterless(r) /\ probe[r] = "none" /\ readNone(r)
    /\ settle(r, "failed")
    /\ UNCHANGED <<stage, host, starts, own, launching, probe, seen, passVars,
                   broken, signalled, history>>

StopFindsSurvivor(r) ==
    /\ adapterless(r) /\ probe[r] = "none" /\ readKills(r)
    /\ awaitKill(r, "stop")
    /\ UNCHANGED <<stage, rowVars, task, host, starts, own, launching, passVars,
                   broken, signalled, history>>

\* The row is read again after the kill; a kill that failed aborts.
StopTerminates(r) ==
    /\ probe[r] = "stop" /\ probeOver(r)
    /\ \/ killSucceeds(r) /\ settle(r, "failed")
       \/ killFails(r) /\ UNCHANGED <<rowVars, task>>
    /\ UNCHANGED <<stage, host, starts, own, launching, passVars, broken, history>>

\* continueWithProfile() of a terminal source n takes over its worktree: the
\* source is probed when its row can be verified and no exit was recorded.
needsProbe(r) == pid[r] # NoPid /\ r \notin exitKnown /\ token[r] # 0
continues(r, n) ==
    /\ stage = "up" /\ status[r] \in Terminal /\ probe[r] = "none"
    /\ status[n] = "none" /\ worktreeOf[n] = worktreeOf[r] /\ worktreeFree(n)

Continue(r, n) ==
    /\ continues(r, n) /\ (needsProbe(r) => readNone(r))
    /\ prepare(n)
    /\ UNCHANGED <<stage, host, starts, own, launching, probe, seen, passVars,
                   broken, signalled, history>>

ContinueFindsSurvivor(r) ==
    /\ \E n \in Runs : continues(r, n)
    /\ needsProbe(r) /\ readKills(r)
    /\ awaitKill(r, "continue")
    /\ UNCHANGED <<stage, rowVars, task, host, starts, own, launching, passVars,
                   broken, signalled, history>>

ContinueTerminates(r) ==
    /\ probe[r] = "continue" /\ probeOver(r)
    /\ \/ /\ killSucceeds(r)
          /\ \E n \in Runs : /\ status[n] = "none" /\ worktreeOf[n] = worktreeOf[r]
                             /\ IF worktreeFree(n) THEN prepare(n)
                                ELSE UNCHANGED <<rowVars, task>>
       \/ killFails(r) /\ UNCHANGED <<rowVars, task>>
    /\ UNCHANGED <<stage, host, starts, own, launching, passVars, broken, history>>
-----------------------------------------------------------------------------
Next ==
    \/ \E r \in Runs :
         \/ Start(r) \/ Resume(r) \/ RecordProcess(r)
         \/ InterruptUnprobed(r) \/ InterruptDead(r) \/ KeepUnread(r)
         \/ FindSurvivor(r) \/ TerminateSurvivor(r)
         \/ CancelSettles(r) \/ CancelFindsSurvivor(r) \/ CancelTerminates(r)
         \/ StopFindsNone(r) \/ StopFindsSurvivor(r) \/ StopTerminates(r)
         \/ ContinueFindsSurvivor(r) \/ ContinueTerminates(r)
    \/ \E r, n \in Runs : Continue(r, n)
    \/ \E r \in Runs, p \in Pids : Spawn(r, p)
    \/ \E p \in Pids : Exit(p) \/ StrangerStarts(p)
    \/ Boot \/ PassEnds \/ Crash

Spec == Init /\ [][Next]_vars

(***************************************************************************)
(* Properties                                                               *)
(***************************************************************************)
isAgent(p) == host[p].run \in Runs
sameWorktree(p, q) == worktreeOf[host[p].run] = worktreeOf[host[q].run]

\* Why a live Agent may have lost the row that kept others off its worktree.
letGo(s) ==
    \/ s \in signalled            \* it was told to stop and has not yet
    \/ s \notin recorded          \* no row ever held its identity
    \/ s \in unprobed \/ s \in abandoned

\* Two live Agents never write one worktree, across any number of crashes,
\* restarts, resumes, continuations and fresh runs, unless one of them was
\* let go for one of four reasons: a terminate reached it, its identity was
\* never recorded (crash after the spawn, failed identity read), the start-up
\* pass skipped its probe, or a cancel settled its row
\* (reconciliation-service.ts:51-54, "would invite a double-write on resume").
DoubleWriteHasCause ==
    \A p, q \in Pids :
      p # q /\ isAgent(p) /\ isAgent(q) /\ sameWorktree(p, q) =>
        letGo(host[p].start) \/ letGo(host[q].start)

\* A terminate never reaches a process that is no Agent on the strength of a
\* recorded identity: only a row without a token, or a pid that changed hands
\* between the read and the kill, can hit it (survivor.ts:11-22).
StrangerSpared ==
    [][\A r \in Runs : \A p \in Pids :
         /\ probe[r] # "none" /\ probe'[r] = "none" /\ stage' # "down"
         /\ seen[r].pid = p /\ host[p].start \in signalled' \ signalled
         /\ host[p].run = Stranger
         => token[r] = 0 \/ seen[r].start # host[p].start]_vars

\* When the application is up, a task is 'running' only while it has a run
\* that is: unless a crash cut the pass between interrupting the run and
\* blocking its task, which no later pass makes good
\* (reconciliation-service.ts:305-320).
TaskFollowsRuns ==
    stage = "up" /\ task = "running" => ~noActiveRun(status) \/ torn
=============================================================================
