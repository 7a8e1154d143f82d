---------------------------- MODULE DecisionInbox ----------------------------
(***************************************************************************)
(* The Decision Inbox (decisions/decision-service.ts over decision-         *)
(* repository.ts) and its two sources that wait for it:                     *)
(*   - shell steps parked on a confirmation (workflows/shell-confirmation.ts,*)
(*     shell-step-executor.ts), whose promise lives in memory only;         *)
(*   - runs that the watchdog finds silent (agents/run-watchdog-service.ts), *)
(*     whose tick also expires decisions and force-stops runs.              *)
(* A call of the service is synchronous, its handlers included: one step.   *)
(* The tick awaits failAndStop() only, and works through a list of rows it  *)
(* has read before those awaits.                                            *)
(*                                                                          *)
(* Time is the passing of one deadline or threshold at a time.  Agent runs  *)
(* and workflow runs are reduced to what the sources see of them (AgentRuns *)
(* and WorkflowEngine have the rest).  Left out: the other kinds of         *)
(* decision, whose handlers only start a request, titles, events, and       *)
(* SQLite failures.                                                         *)
(***************************************************************************)
EXTENDS Integers, FiniteSets

CONSTANTS
    Steps, Workflows, workflowOf,    \* shell steps that require confirmation
    Runs, AskRuns,                   \* agent runs; those with idleAction 'ask'
    NoKey,
    MaxRows, MaxTickets,             \* bounds: decisions, confirmation requests
    MaxCrashes, MaxSilences,         \* bounds: crashes, silences of a run
    Timed                            \* kinds of decision that have a timeout

ASSUME InboxAssumption ==
    /\ workflowOf \in [Steps -> Workflows]
    /\ AskRuns \subseteq Runs /\ Steps \cap Runs = {}
    /\ NoKey \notin Steps \cup Runs
    /\ MaxRows \in Nat /\ MaxTickets \in Nat /\ MaxCrashes \in Nat /\ MaxSilences \in Nat
    /\ Timed \subseteq {"shell_confirmation", "stalled_run"}

WATCHDOG_MAX_PREPARING_CONFLICTS == 3

VARIABLES
    up,         \* the instance runs
    rows,       \* pending_decisions
    ticket,     \* requests for a confirmation: step, decision, answer
    pending,    \* the ticket parked for each step (the service's map)
    stuck,      \* steps whose row a crash left 'running': never executed again
    workflow,   \* of each workflow run: "open", "cancelling", "ended", "rowClosed"
    run,        \* status of each agent run
    launching,  \* runs with a launch in flight
    late,       \* preparing runs past preparingTimeoutMs
    silent,     \* runs silent for longer than idleTimeoutMs
    silences,   \* how often each run has fallen silent
    stopping,   \* runs that failAndStop() is stopping
    notified, conflicts, escalated,   \* the watchdog's bookkeeping
    tick,       \* the tick in flight: rows still to check, run it awaits
    crashes,
    acted,      \* history: decisions handed to a handler
    staleRows   \* history: decisions the end of their run did not close

runVars   == <<run, launching, late, silent, silences, stopping>>
shellVars == <<ticket, pending, stuck, workflow>>
bookVars  == <<notified, conflicts, escalated, tick>>
vars == <<up, rows, shellVars, runVars, bookVars, crashes, acted, staleRows>>

Ids == 1 .. MaxRows
Tickets == 1 .. MaxTickets
NoRow == [kind |-> "none", key |-> NoKey, status |-> "none", option |-> "none",
          deadline |-> "never"]
Row == [kind : {"none", "shell_confirmation", "stalled_run"},
        key : Steps \cup Runs \cup {NoKey},
        status : {"none", "open", "resolved", "expired", "cancelled"},
        option : {"none", "approve", "reject", "stop", "keep_waiting"},
        deadline : {"never", "ahead", "passed"}]
NoTicket == [step |-> NoKey, row |-> 0, answer |-> "none"]
Ticket == [step : Steps \cup {NoKey}, row : 0 .. MaxRows,
           answer : {"none", "parked", "yes", "no", "lost"}]
Listed == [run : Runs, status : {"preparing", "running"}, late : BOOLEAN, silent : BOOLEAN]
NoTick == [on |-> FALSE, left |-> {}, seen |-> {}, awaits |-> {}, awaited |-> FALSE]

isActive(r) == run[r] \in {"preparing", "running"}
open(d) == rows[d].status = "open"

TypeOK ==
    /\ up \in BOOLEAN
    /\ rows \in [Ids -> Row]
    /\ ticket \in [Tickets -> Ticket]
    /\ pending \in [Steps -> 0 .. MaxTickets]
    /\ stuck \subseteq Steps
    /\ workflow \in [Workflows -> {"open", "cancelling", "ended", "rowClosed"}]
    /\ run \in [Runs -> {"none", "preparing", "running", "over", "interrupted"}]
    /\ launching \subseteq Runs /\ late \subseteq Runs /\ silent \subseteq Runs
    /\ silences \in [Runs -> 0 .. MaxSilences]
    /\ stopping \subseteq Runs /\ notified \subseteq Runs /\ escalated \subseteq Runs
    /\ conflicts \in [Runs -> 0 .. WATCHDOG_MAX_PREPARING_CONFLICTS]
    /\ tick \in [on : BOOLEAN, left : SUBSET Listed, seen : SUBSET Runs,
                 awaits : SUBSET Runs, awaited : BOOLEAN]
    /\ crashes \in Nat /\ acted \subseteq Ids /\ staleRows \subseteq Ids

Init ==
    /\ up = TRUE
    /\ rows = [d \in Ids |-> NoRow]
    /\ ticket = [t \in Tickets |-> NoTicket]
    /\ pending = [s \in Steps |-> 0] /\ stuck = {}
    /\ workflow \in [Workflows -> {"open", "ended"}]
    /\ run \in [Runs -> {"none", "over"}] /\ launching = {} /\ late = {} /\ silent = {}
    /\ silences = [r \in Runs |-> 0] /\ stopping = {}
    /\ notified = {} /\ conflicts = [r \in Runs |-> 0] /\ escalated = {}
    /\ tick = NoTick
    /\ crashes = 0 /\ acted = {} /\ staleRows = {}

-----------------------------------------------------------------------------
\* Between the start of a tick, or the end of a stop it awaits, and its next
\* await nothing else of the instance runs.
tickFree == up /\ tick.on /\ tick.awaits \cap stopping = {}
quiet == up /\ (tick.on => tick.awaits \cap stopping # {})

-----------------------------------------------------------------------------
(* The decision service.                                                    *)

openOf(key) == {d \in Ids : open(d) /\ rows[d].key = key}
nextFree(d) == rows[d] = NoRow /\ \A e \in Ids : e < d => rows[e] # NoRow
deadlineOf(kind) == IF kind \in Timed THEN "ahead" ELSE "never"

\* Mutants: the open decision of the key is not looked for, and a closed one is
\* taken for it.
opensAnew(kind, key, d) ==
    /\ nextFree(d)
    /\ rows' = [rows EXCEPT ![d] = [kind |-> kind, key |-> key, status |-> "open",
                                    option |-> "none", deadline |-> deadlineOf(kind)]]
opensOrReuses(kind, key, d) ==
    \/ rows[d].key = key /\ rows' = rows
    \/ /\ \A e \in Ids : rows[e].key # key
       /\ opensAnew(kind, key, d)

\* open() answers decision d: the open one of the key, or a new row.
opens(kind, key, d) ==
    \/ d \in openOf(key) /\ rows' = rows
    \/ /\ openOf(key) = {} /\ nextFree(d)
       /\ rows' = [rows EXCEPT ![d] = [kind |-> kind, key |-> key, status |-> "open",
                                       option |-> "none", deadline |-> deadlineOf(kind)]]

\* closeOpen(): the compare-and-set open -> closed, of a set of decisions.
closedAs(D, st, option) ==
    [d \in Ids |-> IF d \in D /\ open(d)
                     THEN [rows[d] EXCEPT !.status = st, !.option = option[d]]
                     ELSE rows[d]]

\* DECISION_TIMEOUT_DEFAULT_OPTIONS
timeoutDefault == [d \in Ids |-> IF rows[d].kind = "shell_confirmation" THEN "reject"
                                 ELSE "keep_waiting"]
noOption == [d \in Ids |-> "none"]

ofRun(r) == {d \in Ids : open(d) /\ rows[d].key = r}
ofWorkflow(w) == {d \in Ids : open(d) /\ rows[d].key \in {s \in Steps : workflowOf[s] = w}}

\* The shell handler: the ticket parked for each decision's step is answered.
stepsOf(D) == {s \in Steps : pending[s] # 0 /\ \E d \in D : rows[d].key = s}
\* Mutant: every request of the step is answered.
answeredAll(S, answer) ==
    [t \in Tickets |-> IF ticket[t].step \in S
                         THEN [ticket[t] EXCEPT !.answer = answer] ELSE ticket[t]]
answered(S, answer) ==
    [t \in Tickets |-> IF \E s \in S : pending[s] = t
                         THEN [ticket[t] EXCEPT !.answer = answer] ELSE ticket[t]]
unparked(S) == [s \in Steps |-> IF s \in S THEN 0 ELSE pending[s]]
settle(S, answer) ==
    /\ ticket' = answered(S, answer)
    /\ pending' = unparked(S)

-----------------------------------------------------------------------------
(* Shell confirmations.                                                     *)

\* request(): opens the decision, then parks; an earlier request for the step
\* is answered 'no' and its decision carries on for this one.
Request(s, t, d) ==
    /\ quiet /\ workflow[workflowOf[s]] \in {"open", "rowClosed"} /\ s \notin stuck
    /\ ticket[t] = NoTicket /\ \A e \in Tickets : e < t => ticket[e] # NoTicket
    /\ opens("shell_confirmation", s, d)
    /\ ticket' = [answered({s}, "no") EXCEPT
                    ![t] = [step |-> s, row |-> d, answer |-> "parked"]]
    /\ pending' = [pending EXCEPT ![s] = t]
    /\ UNCHANGED <<up, stuck, workflow, runVars, bookVars, crashes, acted, staleRows>>

\* resolve(): by the user, from the Inbox or through confirmShellStep.
ResolveShell(d, option) ==
    /\ quiet /\ open(d) /\ rows[d].kind = "shell_confirmation"
    /\ option \in {"approve", "reject"}
    /\ rows' = closedAs({d}, "resolved", [e \in Ids |-> option])
    /\ settle(stepsOf({d}), IF option = "approve" THEN "yes" ELSE "no")
    /\ acted' = acted \cup {d}
    /\ UNCHANGED <<up, stuck, workflow, runVars, bookVars, crashes, staleRows>>

\* The engine's cancel of a workflow run reaches its steps one by one; the
\* cancel of one closes the decisions of them all.
CancelWorkflow(w) ==
    /\ quiet /\ workflow[w] = "open"
    /\ workflow' = [workflow EXCEPT ![w] = "cancelling"]
    /\ UNCHANGED <<up, rows, ticket, pending, stuck, runVars, bookVars, crashes,
                   acted, staleRows>>

CancelStep(s) ==
    /\ quiet /\ workflow[workflowOf[s]] = "cancelling" /\ pending[s] # 0
    /\ settle({s}, "no")
    /\ rows' = closedAs(ofWorkflow(workflowOf[s]), "cancelled", noOption)
    /\ UNCHANGED <<up, stuck, workflow, runVars, bookVars, crashes, acted, staleRows>>

parkedIn(w) == {s \in Steps : workflowOf[s] = w /\ pending[s] # 0}

\* setRunStatus: a terminal workflow run closes what is open.  The cancel of a
\* run whose pass another engine drives comes here without cancelling steps.
CloseWorkflow(w) ==
    /\ quiet
    /\ \/ /\ workflow[w] = "cancelling" /\ parkedIn(w) = {}
          /\ workflow' = [workflow EXCEPT ![w] = "ended"]
       \/ /\ workflow[w] = "open"
          /\ workflow' = [workflow EXCEPT ![w] = "rowClosed"]
    /\ rows' = closedAs(ofWorkflow(w), "cancelled", noOption)
    /\ UNCHANGED <<up, ticket, pending, stuck, runVars, bookVars, crashes, acted, staleRows>>

-----------------------------------------------------------------------------
(* Agent runs, as the watchdog and its decisions see them.                  *)

LaunchRun(r) ==
    /\ quiet /\ run[r] \in {"none", "interrupted"}
    /\ run' = [run EXCEPT ![r] = "preparing"]
    /\ launching' = launching \cup {r} /\ silent' = silent \ {r}
    /\ UNCHANGED <<up, rows, shellVars, late, silences, stopping, bookVars,
                   crashes, acted, staleRows>>

Launched(r) ==
    /\ quiet /\ r \in launching
    /\ run' = [run EXCEPT ![r] = "running"]
    /\ launching' = launching \ {r} /\ late' = late \ {r}
    /\ UNCHANGED <<up, rows, shellVars, silent, silences, stopping, bookVars, crashes,
                   acted, staleRows>>

\* Mutant: the decisions of the run are left open.
runEndsUndecided(r) ==
    /\ run' = [run EXCEPT ![r] = "over"]
    /\ launching' = launching \ {r} /\ late' = late \ {r} /\ stopping' = stopping \ {r}
    /\ rows' = rows

\* The run is over, by itself or because it was stopped: cancelRunDecisions().
runEnds(r) ==
    /\ run' = [run EXCEPT ![r] = "over"]
    /\ launching' = launching \ {r} /\ late' = late \ {r} /\ stopping' = stopping \ {r}
    /\ rows' = closedAs(ofRun(r), "cancelled", noOption)

RunEnds(r) ==
    /\ quiet /\ run[r] = "running"
    /\ runEnds(r)
    /\ UNCHANGED <<up, shellVars, silent, silences, bookVars, crashes, acted, staleRows>>

\* The kill ladder ends the run, or times out.
StopEnds(r) ==
    /\ quiet /\ r \in stopping
    /\ \/ runEnds(r) /\ UNCHANGED <<silent, silences>>
       \/ /\ stopping' = stopping \ {r}
          /\ UNCHANGED <<rows, run, launching, late, silent, silences>>
    /\ UNCHANGED <<up, shellVars, bookVars, crashes, acted, staleRows>>

GrowsLate(r) ==
    /\ quiet /\ run[r] = "preparing" /\ r \notin late
    /\ late' = late \cup {r}
    /\ UNCHANGED <<up, rows, shellVars, run, launching, silent, silences, stopping,
                   bookVars, crashes, acted, staleRows>>

FallsSilent(r) ==
    /\ quiet /\ run[r] = "running" /\ r \notin silent /\ silences[r] < MaxSilences
    /\ silent' = silent \cup {r} /\ silences' = [silences EXCEPT ![r] = @ + 1]
    /\ UNCHANGED <<up, rows, shellVars, run, launching, late, stopping, bookVars,
                   crashes, acted, staleRows>>

\* noteActivity(): output ends the episode.
Output(r) ==
    /\ quiet /\ run[r] = "running" /\ r \in silent
    /\ silent' = silent \ {r} /\ notified' = notified \ {r}
    /\ tick' = [tick EXCEPT !.left = {IF x.run = r THEN [x EXCEPT !.silent = FALSE]
                                     ELSE x : x \in @}]
    /\ UNCHANGED <<up, rows, shellVars, run, launching, late, silences, stopping,
                   conflicts, escalated, crashes, acted, staleRows>>
-----------------------------------------------------------------------------
(* The watchdog.                                                            *)

\* failAndStop() is called and has a process to stop: the call is awaited.
stopAwaited(r) ==
    /\ stopping' = stopping \cup {r}
    /\ UNCHANGED <<run, launching, late, silent, silences>>

\* acknowledgeIdle() of a set of runs.
acknowledgeIdle(R) == silent' = silent \ R /\ notified' = notified \ R

\* A tick lists the active rows; one still in flight skips this one.
TickStarts ==
    /\ up /\ ~tick.on
    /\ LET listed == {r \in Runs : isActive(r)}
       IN tick' = [NoTick EXCEPT
                     !.on = TRUE, !.seen = listed,
                     !.left = {[run |-> r, status |-> run[r], late |-> r \in late,
                                silent |-> r \in silent] : r \in listed}]
    /\ UNCHANGED <<up, rows, shellVars, runVars, notified, conflicts, escalated,
                   crashes, acted, staleRows>>

checked(x, awaits) ==
    tick' = [tick EXCEPT !.left = @ \ {x}, !.awaits = awaits,
                         !.awaited = @ \/ awaits # {}]

\* checkPreparing() of a row listed as preparing; failAndStop() reads it anew.
\* (checkIdle() then forgets an episode of the run.)
CheckPreparing(x) ==
    /\ tickFree /\ x \in tick.left /\ x.status = "preparing"
    /\ notified' = notified \ {x.run}
    /\ LET r == x.run
           timedOut == x.late /\ r \notin escalated
       IN \/ /\ ~timedOut
             /\ checked(x, {})
             /\ UNCHANGED <<runVars, conflicts, escalated>>
          \/ /\ timedOut /\ r \in launching        \* CONFLICT
             /\ checked(x, {})
             /\ IF conflicts[r] + 1 >= WATCHDOG_MAX_PREPARING_CONFLICTS
                  THEN /\ conflicts' = [conflicts EXCEPT ![r] = 0]
                       /\ escalated' = escalated \cup {r}
                  ELSE /\ conflicts' = [conflicts EXCEPT ![r] = @ + 1]
                       /\ UNCHANGED escalated
             /\ UNCHANGED runVars
          \/ /\ timedOut /\ run[r] = "running"      \* launched since it was listed
             /\ checked(x, {r}) /\ stopAwaited(r)
             /\ conflicts' = [conflicts EXCEPT ![r] = 0]
             /\ UNCHANGED escalated
          \/ /\ timedOut /\ ~isActive(r)
             /\ checked(x, {})
             /\ conflicts' = [conflicts EXCEPT ![r] = 0]
             /\ UNCHANGED <<runVars, escalated>>
    /\ UNCHANGED <<up, rows, shellVars, crashes, acted, staleRows>>

\* Mutant: the threshold 0, "disabled", is reached at once.
pastThresholdAlways(x) == x.run \in Runs

pastThreshold(x) == x.silent

\* checkIdle() of a row listed as running: an acknowledgement or the end of the
\* run since then is not seen, output is.
CheckIdle(x) ==
    /\ tickFree /\ x \in tick.left /\ x.status = "running"
    /\ LET r == x.run
           idle == pastThreshold(x)
           first == r \notin notified
       IN /\ notified' = IF idle THEN notified \cup {r} ELSE notified \ {r}
          /\ \/ /\ ~idle \/ (r \in AskRuns /\ ~first)
                /\ checked(x, {})
                /\ UNCHANGED <<rows, runVars, staleRows>>
             \/ /\ idle /\ r \in AskRuns /\ first
                /\ checked(x, {})
                /\ \/ \E d \in Ids :
                        /\ opens("stalled_run", r, d)
                        /\ staleRows' = IF isActive(r) THEN staleRows
                                        ELSE staleRows \cup {d}
                   \/ /\ \A d \in Ids : rows[d] # NoRow    \* bound: the insert fails
                      /\ UNCHANGED <<rows, staleRows>>
                /\ UNCHANGED runVars
             \/ /\ idle /\ r \notin AskRuns /\ isActive(r)
                /\ checked(x, {r}) /\ stopAwaited(r)
                /\ UNCHANGED <<rows, staleRows>>
             \/ /\ idle /\ r \notin AskRuns /\ ~isActive(r)
                /\ checked(x, {})
                /\ UNCHANGED <<rows, runVars, staleRows>>
    /\ UNCHANGED <<up, shellVars, conflicts, escalated, crashes, acted>>

\* Mutant: only the decisions of the watchdog itself expire.
dueStalled == {d \in Ids : open(d) /\ rows[d].deadline = "passed" /\ rows[d].kind = "stalled_run"}

due == {d \in Ids : open(d) /\ rows[d].deadline = "passed"}

\* The end of a tick: bookkeeping of runs that were not listed is dropped, and
\* expire() closes what is due with the default option of its kind.
TickEnds ==
    /\ tickFree /\ tick.left = {}
    /\ tick' = NoTick
    /\ conflicts' = [r \in Runs |-> IF r \in tick.seen THEN conflicts[r] ELSE 0]
    /\ escalated' = escalated \cap tick.seen
    /\ LET waitOn == {r \in Runs : \E d \in due : rows[d].key = r}
       IN /\ silent' = silent \ waitOn
          /\ notified' = (notified \cap tick.seen) \ waitOn
    /\ rows' = closedAs(due, "expired", timeoutDefault)
    /\ settle(stepsOf(due), "no")
    /\ acted' = acted \cup due
    /\ UNCHANGED <<up, stuck, workflow, run, launching, late, silences, stopping,
                   crashes, staleRows>>

\* resolve() of a stalled run's decision, and what the watchdog does about it.
ResolveStalled(d, option) ==
    /\ quiet /\ open(d) /\ rows[d].kind = "stalled_run"
    /\ rows' = closedAs({d}, "resolved", [e \in Ids |-> option])
    /\ acted' = acted \cup {d}
    /\ LET r == rows[d].key
       IN \/ /\ option = "keep_waiting" /\ acknowledgeIdle({r})
             /\ UNCHANGED <<run, launching, late, silences, stopping>>
          \/ /\ option = "stop" /\ UNCHANGED notified
             /\ IF run[r] = "running" THEN stopAwaited(r) ELSE UNCHANGED runVars
    /\ UNCHANGED <<up, shellVars, conflicts, escalated, tick, crashes, staleRows>>

DeadlinePasses(d) ==
    /\ open(d) /\ rows[d].deadline = "ahead"
    /\ rows' = [rows EXCEPT ![d].deadline = "passed"]
    /\ UNCHANGED <<up, shellVars, runVars, bookVars, crashes, acted, staleRows>>

-----------------------------------------------------------------------------
(* The instance ends and another one starts.                                *)

forgets ==
    /\ up' = FALSE /\ crashes' = crashes + 1
    /\ pending' = [s \in Steps |-> 0]
    /\ launching' = {} /\ stopping' = {} /\ late' = {}
    /\ notified' = {} /\ conflicts' = [r \in Runs |-> 0] /\ escalated' = {}
    /\ tick' = NoTick

Crash ==
    /\ up /\ crashes < MaxCrashes
    /\ forgets
    /\ ticket' = answered(Steps, "lost")
    /\ stuck' = stuck \cup {s \in Steps : pending[s] # 0}
    /\ workflow' = [w \in Workflows |-> IF workflow[w] = "cancelling" THEN "open"
                                        ELSE workflow[w]]
    /\ UNCHANGED <<rows, run, silent, silences, acted, staleRows>>

\* dispose(): the engines cancel their passes, what is still parked is refused,
\* then the agent runs are stopped.
Dispose ==
    /\ quiet /\ crashes < MaxCrashes
    /\ forgets
    /\ ticket' = answered(Steps, "no")
    /\ rows' = closedAs({d \in Ids : \/ rows[d].key \in Steps
                                     \/ rows[d].key \in Runs /\ isActive(rows[d].key)},
                        "cancelled", noOption)
    /\ run' = [r \in Runs |-> IF isActive(r) THEN "over" ELSE run[r]]
    /\ workflow' = [w \in Workflows |-> IF parkedIn(w) # {} THEN "ended" ELSE workflow[w]]
    /\ UNCHANGED <<stuck, silent, silences, acted, staleRows>>

\* Reconciliation interrupts the runs without their decisions and
\* reconcileOnStartup() expires the open shell confirmations.
Boot ==
    /\ ~up /\ up' = TRUE
    /\ run' = [r \in Runs |-> IF isActive(r) THEN "interrupted" ELSE run[r]]
    /\ staleRows' = staleRows \cup UNION {ofRun(r) : r \in {q \in Runs : isActive(q)}}
    /\ rows' = closedAs({d \in Ids : rows[d].kind = "shell_confirmation"}, "expired",
                        timeoutDefault)
    /\ UNCHANGED <<shellVars, launching, late, silent, silences, stopping, bookVars,
                   crashes, acted>>

-----------------------------------------------------------------------------
InboxNext ==
    \/ \E s \in Steps, t \in Tickets, d \in Ids : Request(s, t, d)
    \/ \E d \in Ids : \/ ResolveShell(d, "approve") \/ ResolveShell(d, "reject")
                      \/ ResolveStalled(d, "keep_waiting") \/ ResolveStalled(d, "stop")
                      \/ DeadlinePasses(d)
    \/ \E w \in Workflows : CancelWorkflow(w) \/ CloseWorkflow(w)
    \/ \E s \in Steps : CancelStep(s)
    \/ \E r \in Runs : \/ LaunchRun(r) \/ Launched(r) \/ RunEnds(r) \/ StopEnds(r)
                       \/ GrowsLate(r) \/ FallsSilent(r) \/ Output(r)
    \/ TickStarts \/ TickEnds
    \/ \E x \in tick.left : CheckPreparing(x) \/ CheckIdle(x)
    \/ Crash \/ Dispose \/ Boot

Spec == Init /\ [][InboxNext]_vars

\* The timer keeps firing, failAndStop() returns, deadlines pass, and a cancel
\* walks on through its steps, in the turns between two ticks.  Users, runs and
\* crashes owe nothing.
TickStep == TickStarts \/ TickEnds \/ \E x \in tick.left : CheckPreparing(x) \/ CheckIdle(x)
Fairness ==
    /\ WF_vars(TickStep)
    /\ \A r \in Runs : WF_vars(StopEnds(r))
    /\ \A d \in Ids : WF_vars(DeadlinePasses(d))
    /\ \A s \in Steps : SF_vars(CancelStep(s))

FairSpec == Spec /\ Fairness

(***************************************************************************)
(* Properties                                                               *)
(***************************************************************************)
Keys == Steps \cup Runs
closedRows == {d \in Ids : rows[d].status \in {"resolved", "expired", "cancelled"}}
waitingOn == [k \in Keys |-> IF openOf(k) = {} THEN 0 ELSE CHOOSE d \in openOf(k) : TRUE]

\* The rows and the calls of the handlers implement one-shot decisions: one
\* open decision per source whatever the interleaving of requests, ticks,
\* cancels and restarts; one close each; one action, and none for a decision
\* that is withdrawn (decision-service.ts:287-381).
OneShot == INSTANCE OneShotDecisions
    WITH Sources <- Keys, Decisions <- Ids, None <- 0,
         waiting <- waitingOn, closed <- closedRows, acted <- acted
DecidedOnce == OneShot!Spec

\* One approval runs one command: a step proceeds only on an approval of the
\* very decision it was parked on, and no two requests on the same one, over
\* duplicate requests, cancels and restarts (shell-confirmation.ts:124-129).
ApprovalRunsOnce ==
    /\ \A t \in Tickets : ticket[t].answer = "yes" =>
         \E d \in Ids : /\ d = ticket[t].row /\ rows[d].key = ticket[t].step
                        /\ rows[d].status = "resolved" /\ rows[d].option = "approve"
    /\ \A t, u \in Tickets :
         ticket[t].answer = "yes" /\ ticket[u].answer = "yes" /\ t # u =>
           ticket[t].row # ticket[u].row

\* A step that waits for a confirmation can still get one: its decision is
\* open, or its workflow run is being cancelled, or the row of its workflow run
\* was closed under a pass that another engine drives.
ParkedHasOpenRow ==
    \A s \in Steps : pending[s] # 0 =>
      \/ openOf(s) # {}
      \/ workflow[workflowOf[s]] \in {"cancelling", "rowClosed"}

\* A question about a silent run is about a run that is active: unless the tick
\* opened it from a row it had read before the run ended, or a restart
\* interrupted the run (run-watchdog-service.ts:291, agent-manager.ts:742).
StalledRowHasRun ==
    \A d \in Ids : open(d) /\ rows[d].kind = "stalled_run" =>
      isActive(rows[d].key) \/ d \in staleRows

\* The watchdog force-stops a healthy run only on the word of a row it had
\* listed before it awaited the stop of another run (run-watchdog-service.ts:
\* 276-301): the first stop of a tick always hits a late or silent run.
FirstStopIsDeserved ==
    [][\A r \in Runs :
         r \in stopping' \ stopping /\ tick' # tick /\ ~tick.awaited =>
           r \in late \cup silent]_vars

\* With a timeout configured, a parked step is answered while the instance
\* runs, however slow the stops of a tick are (shell-confirmation.ts:27-33).
ParkedStepIsAnswered ==
    \A t \in Tickets :
      ticket[t].answer = "parked" ~>
        \/ ticket[t].answer # "parked"
        \/ \E s \in Steps : ticket[t].step = s /\ workflow[workflowOf[s]] = "rowClosed"
        \/ ~up
=============================================================================
