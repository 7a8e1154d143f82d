--------------------------- MODULE WorkflowEngine ---------------------------
(***************************************************************************)
(* One workflow run: its rows (workflows/workflow-run-store.ts), the engine *)
(* that executes one pass of its acyclic graph (workflow-engine.ts) and the *)
(* executors of its steps (the agent executor of that file, shell-step-,    *)
(* review-panel- and criteria-gate-step-executor.ts, shell-confirmation.ts).*)
(*                                                                          *)
(* The synchronous loop of schedule() is one small action per node it       *)
(* starts or skips; a promise that is already settled continues before the  *)
(* event loop takes anything from outside.  Actions for things from outside *)
(* therefore wait until the engine is Quiet.                                *)
(*                                                                          *)
(* The rows of the current iteration only: nothing reads the outcome of an  *)
(* earlier one.  Left out: prompts, results other than the outcome,         *)
(* artifacts, events to the renderer, and SQLite failures.                  *)
(***************************************************************************)
EXTENDS Naturals, FiniteSets

CONSTANTS
    Nodes,          \* node ids of the definition snapshot
    Kind,           \* a node's type
    RunOn,          \* a node's runOn
    Needs,          \* a node's dependsOn as <<upstream, on>>, on = "any" when plain
    Expr,           \* a condition node's <<node, expected outcome>>
    Executors,      \* node types the engine has an executor for
    Confirmed,      \* shell nodes with requireConfirmation
    Cancellers,     \* cancel() calls, one of them dispose()'s
    Quit,           \* the call dispose() makes
    Dedicated,      \* the run's passes are the full-workflow engine's
    LateSubscriber  \* an agent run may be over before agents.start() returns

VARIABLES
    run,         \* workflow_runs row: status, iteration, criteriaIteration, anchor
    step,        \* workflow_steps rows of the iteration: status and outcome
    open,        \* passes.has(runId)
    cancelling,  \* PassState.cancelling
    done,        \* nodes whose NodeState is terminal
    activates,   \* nodes whose unconditional out-edges activate
    outcome,     \* NodeState.outcome, "none" when undefined
    parked,      \* PassState.suspended
    exec,        \* where the executor of a node's step waits
    asked,       \* shell confirmations with an open pending decision
    stopAsked,   \* steps whose executor was told to cancel
    awaited,     \* the pass was started by start(), which waits for its end
    settled,     \* how the pass start() waits for has ended
    call         \* cancel() calls: pc, nodes left in its loop, node awaited

rowVars  == <<run, step>>
passVars == <<open, cancelling, done, activates, outcome, parked>>
execVars == <<exec, asked, stopAsked>>
callVars == <<awaited, settled, call>>
engineVars == <<rowVars, passVars, execVars, callVars>>

Kinds == {"agent", "shell", "checkpoint", "condition", "criteria-gate", "review-panel"}
SuspendedKinds == {"checkpoint", "criteria-gate", "review-panel"}

\* WORKFLOW_CONDITION_OUTCOMES and POSITIVE_OUTCOMES.
Allowed(kind) ==
    CASE kind \in {"agent", "shell"} -> {"success", "failure"}
      [] kind = "condition" -> {"true", "false"}
      [] kind = "criteria-gate" -> {"pass", "fail"}
      [] kind = "review-panel" -> {"approve", "changes_requested"}
      [] OTHER -> {}
Positive(kind) ==
    CASE kind = "condition" -> "true"
      [] kind = "criteria-gate" -> "pass"
      [] kind = "review-panel" -> "approve"
      [] OTHER -> "success"
Outcomes == {"none"} \cup UNION {Allowed(k) : k \in Kinds}

StepOver  == {"completed", "failed", "skipped", "cancelled"}
StepStatus == {"none", "pending", "running"} \cup StepOver
RunOver   == {"completed", "failed", "cancelled"}
RunStatus == {"created", "running", "waiting", "needs_user_review"} \cup RunOver

ASSUME GraphAssumption ==
    /\ IsFiniteSet(Nodes)
    /\ Kind \in [Nodes -> Kinds]
    /\ RunOn \in [Nodes -> {"first", "subsequent", "always"}]
    /\ \A n \in Nodes : Needs[n] \subseteq Nodes \X ((Outcomes \ {"none"}) \cup {"any"})
    /\ Confirmed \subseteq Nodes
    /\ Quit \in Cancellers
    /\ Dedicated \in BOOLEAN /\ LateSubscriber \in BOOLEAN

\* The definition has no dependency cycle: every set of nodes has one that
\* depends on none of the set.
Acyclic == \A S \in SUBSET Nodes : S # {} => \E n \in S : \A d \in Needs[n] : d[1] \notin S

terminalRun == run.status \in RunOver
NoRow == [status |-> "none", outcome |-> "none"]
NoCall == [pc |-> "idle", left |-> {}, node |-> {}]

EngineInit ==
    /\ run = [status |-> "created", iteration |-> 0, criteriaIteration |-> 0, anchor |-> 0]
    /\ step = [n \in Nodes |-> NoRow]
    /\ open = FALSE /\ cancelling = FALSE
    /\ done = {} /\ activates = {} /\ parked = {}
    /\ outcome = [n \in Nodes |-> "none"]
    /\ exec = [n \in Nodes |-> "none"]
    /\ asked = {} /\ stopAsked = {}
    /\ awaited = FALSE /\ settled = "none"
    /\ call = [c \in Cancellers |-> NoCall]

(***************************************************************************)
(* The store.                                                               *)
(***************************************************************************)

\* setRunStatus: no transition is refused; a terminal status closes the
\* decisions the run has open.
setRunStatus(row, s) ==
    /\ run' = [row EXCEPT !.status = s]
    /\ asked' = IF s \in RunOver THEN {} ELSE asked

STEP_TRANSITIONS == [from \in StepStatus |->
    CASE from = "pending" -> {"running", "skipped", "cancelled"}
      [] from = "running" -> {"completed", "failed", "cancelled"}
      [] OTHER -> {}]

\* transitionStep: a transition the table does not have leaves the row alone.
transitioned(rows, n, to, o) ==
    IF to \in STEP_TRANSITIONS[rows[n].status]
    THEN [rows EXCEPT ![n] = [status |-> to, outcome |-> o]]
    ELSE rows

(***************************************************************************)
(* beginPass.                                                               *)
(***************************************************************************)

\* activeNodeIdsForIteration, and the nodes whose phase is over.
active(n) == RunOn[n] \in {"always", IF run.iteration = 0 THEN "first" ELSE "subsequent"}
past(n)   == RunOn[n] = "first" /\ run.iteration > 0

\* Mutant: a run that is closed is not refused.
canBeginAnyway == ~open /\ \A n \in Nodes : step[n].status # "running"

canBegin == ~terminalRun /\ ~open /\ \A n \in Nodes : step[n].status # "running"

\* Mutant: only completed steps are taken over, the others run again.
existingCompleted == {n \in Nodes : step[n].status = "completed"}

\* Steps the iteration has already been through are taken over as they are.
existing == {n \in Nodes : step[n].status \in StepOver}

\* row is the run's row as the caller leaves it, waits whether start() awaits.
beginPass(row, waits) ==
    LET filtered == {n \in Nodes \ existing : ~active(n)}
    IN  /\ step' = [n \in Nodes |->
                      IF n \in existing THEN step[n]
                      ELSE [status |-> IF n \in filtered THEN "skipped" ELSE "pending",
                            outcome |-> "none"]]
        /\ done' = existing \cup filtered
        /\ activates' = {n \in existing : step[n].status = "completed"}
                          \cup {n \in filtered : past(n)}
        /\ outcome' = [n \in Nodes |->
                         IF n \in filtered /\ past(n) THEN Positive(Kind[n]) ELSE "none"]
        /\ parked' = {} /\ open' = TRUE /\ cancelling' = FALSE
        /\ awaited' = waits
        /\ setRunStatus(row, "running")
        /\ UNCHANGED <<exec, stopAsked, settled, call>>

(***************************************************************************)
(* schedule, startNode, settleNode, finishPass.                             *)
(***************************************************************************)

\* Mutant: a plain edge activates when its upstream is over, failed or not.
edgeActivatedWhenOver(d) == IF d[2] = "any" THEN d[1] \in done ELSE outcome[d[1]] = d[2]

edgeActivated(d) == IF d[2] = "any" THEN d[1] \in activates ELSE outcome[d[1]] = d[2]

schedulable(n) ==
    /\ n \notin done /\ step[n].status = "pending"
    /\ \A d \in Needs[n] : d[1] \in done

edgesActivated(n) == \A d \in Needs[n] : edgeActivated(d)

\* The NodeState of n becomes terminal with outcome o, unless it already is.
settleNode(n, o) ==
    IF open /\ n \notin done
    THEN /\ done' = done \cup {n}
         /\ outcome' = [outcome EXCEPT ![n] = o]
         /\ activates' = IF o = "failure" THEN activates ELSE activates \cup {n}
         /\ step' = transitioned(step, n, IF o = "failure" THEN "failed" ELSE "completed", o)
    ELSE UNCHANGED <<done, outcome, activates, step>>

\* Where the executor of a node that just started waits.
started(n) ==
    CASE Kind[n] = "agent" -> "launching"
      [] Kind[n] = "shell" /\ n \in Confirmed -> "confirming"
      [] Kind[n] \in {"condition", "criteria-gate"} -> "ready"
      [] OTHER -> "live"

Scheduling == open /\ ~cancelling /\ ((\E n \in Nodes : schedulable(n)) \/ done = Nodes)

StartNode(n) ==
    /\ open /\ ~cancelling /\ schedulable(n) /\ edgesActivated(n)
    /\ Kind[n] \in Executors \cup SuspendedKinds
    /\ step' = transitioned(step, n, "running", "none")
    /\ IF Kind[n] \in Executors
       THEN /\ exec' = [exec EXCEPT ![n] = started(n)]
            /\ asked' = IF started(n) = "confirming" THEN asked \cup {n} ELSE asked
            /\ UNCHANGED parked
       ELSE /\ parked' = parked \cup {n}
            /\ UNCHANGED <<exec, asked>>
    /\ UNCHANGED <<run, open, cancelling, done, activates, outcome, stopAsked, callVars>>

\* startNode without an executor: the step runs and fails in the same turn.
StartNodeWithoutExecutor(n) ==
    /\ open /\ ~cancelling /\ schedulable(n) /\ edgesActivated(n)
    /\ Kind[n] \notin Executors \cup SuspendedKinds
    /\ done' = done \cup {n}
    /\ outcome' = [outcome EXCEPT ![n] = "failure"]
    /\ step' = transitioned(transitioned(step, n, "running", "none"), n, "failed", "failure")
    /\ UNCHANGED <<run, open, cancelling, activates, parked, execVars, callVars>>

SkipNode(n) ==
    /\ open /\ ~cancelling /\ schedulable(n) /\ ~edgesActivated(n)
    /\ done' = done \cup {n}
    /\ step' = transitioned(step, n, "skipped", "none")
    /\ UNCHANGED <<run, open, cancelling, activates, outcome, parked, execVars, callVars>>

\* The pass leaves the map: its NodeStates are garbage from here on.
dropPass ==
    /\ open' = FALSE /\ cancelling' = FALSE
    /\ done' = {} /\ activates' = {} /\ parked' = {}
    /\ outcome' = [n \in Nodes |-> "none"]

FinishPass ==
    /\ open /\ ~cancelling /\ done = Nodes
    /\ dropPass
    /\ setRunStatus(run, "waiting")
    /\ settled' = IF awaited THEN "waiting" ELSE "none"
    /\ awaited' = FALSE
    /\ UNCHANGED <<step, exec, stopAsked, call>>

(***************************************************************************)
(* The executors.                                                           *)
(***************************************************************************)

\* The promise of n's executor resolves with outcome o.
executorSettles(n, o) ==
    /\ exec' = [exec EXCEPT ![n] = "none"]
    /\ stopAsked' = stopAsked \ {n}
    /\ settleNode(n, o)
    /\ UNCHANGED <<run, open, cancelling, parked, callVars>>

\* agents.start() returned a run; its terminal events are subscribed to now
\* and a cancel that came meanwhile is passed on.
AgentLaunched(n) ==
    /\ Kind[n] = "agent" /\ exec[n] = "launching"
    /\ exec' = [exec EXCEPT ![n] = "live"]
    /\ UNCHANGED <<rowVars, passVars, asked, stopAsked, callVars>>

\* Mutant: a launch that fails leaves the step's promise pending.
LaunchFailedSilently(n) ==
    /\ Kind[n] = "agent" /\ exec[n] = "launching"
    /\ exec' = [exec EXCEPT ![n] = "lost"]
    /\ UNCHANGED <<rowVars, passVars, asked, stopAsked, callVars>>

LaunchFailed(n) ==
    /\ Kind[n] = "agent" /\ exec[n] = "launching"
    /\ executorSettles(n, "failure") /\ UNCHANGED asked

\* agents.start() returned a run that was over before anyone subscribed.
AgentMissed(n) ==
    /\ LateSubscriber
    /\ Kind[n] = "agent" /\ exec[n] = "launching"
    /\ exec' = [exec EXCEPT ![n] = "lost"]
    /\ UNCHANGED <<rowVars, passVars, asked, stopAsked, callVars>>

\* The agent's or the shell's process exits, or the review panel converges.
ProcessEnds(n, o) ==
    /\ exec[n] = "live" /\ o \in Allowed(Kind[n]) \cup {"failure"}
    /\ executorSettles(n, o) /\ UNCHANGED asked

\* The user answers a shell confirmation, or it expires and counts as a no.
ConfirmShellStep(n, approved) ==
    /\ exec[n] = "confirming" /\ n \in asked
    /\ asked' = asked \ {n}
    /\ IF approved
       THEN /\ exec' = [exec EXCEPT ![n] = "live"]
            /\ UNCHANGED <<rowVars, passVars, stopAsked, callVars>>
       ELSE executorSettles(n, "failure")

conditionOutcome(n) ==
    IF /\ \E d \in Needs[n] : d[1] = Expr[n][1]
       /\ outcome[Expr[n][1]] = Expr[n][2]
    THEN "true" ELSE "false"

ConditionEvaluated(n) ==
    /\ Kind[n] = "condition" /\ exec[n] = "ready"
    /\ executorSettles(n, conditionOutcome(n)) /\ UNCHANGED asked

GateEvaluated(n, o) ==
    /\ Kind[n] = "criteria-gate" /\ exec[n] = "ready"
    /\ o \in {"pass", "fail", "failure"}
    /\ executorSettles(n, o) /\ UNCHANGED asked

\* resolveStep: a parked step of a pass still in the map; a checkpoint takes no
\* outcome and counts as 'success'.
ResolveStep(n, o) ==
    /\ open /\ n \in parked
    /\ o \in (IF Kind[n] = "checkpoint" THEN {"success"} ELSE Allowed(Kind[n]))
    /\ parked' = parked \ {n}
    /\ settleNode(n, o)
    /\ UNCHANGED <<run, open, cancelling, execVars, callVars>>

(***************************************************************************)
(* cancel: one call per member of Cancellers, over the nodes in some order. *)
(***************************************************************************)

mayProceed(c) ==
    \/ call[c].pc = "looping"
    \/ call[c].pc = "awaiting" /\ \A n \in call[c].node : exec[n] = "none"

\* No pass in this engine's map: only the row is cancelled.
CancelRow(c) ==
    /\ c # Quit /\ call[c].pc = "idle" /\ ~terminalRun
    /\ Dedicated \/ ~open
    /\ setRunStatus(run, "cancelled")
    /\ UNCHANGED <<step, passVars, exec, stopAsked, callVars>>

CancelPass(c) ==
    /\ call[c].pc = "idle" /\ ~terminalRun /\ open
    /\ Dedicated => c = Quit
    /\ cancelling' = TRUE
    /\ call' = [call EXCEPT ![c] = [pc |-> "looping", left |-> Nodes, node |-> {}]]
    /\ UNCHANGED <<rowVars, open, done, activates, outcome, parked, execVars, awaited, settled>>

hasCancel(n) ==
    /\ step[n].status = "running" /\ n \notin parked
    /\ Kind[n] \in Executors \cap {"agent", "shell", "review-panel"}

\* The node's state becomes terminal as cancelled, unless it already is.
markCancelled(n) ==
    IF n \in done THEN UNCHANGED <<done, step>>
    ELSE /\ done' = done \cup {n}
         /\ step' = transitioned(step, n, "cancelled", "none")

\* Mutant: the agent is told to stop and not waited for.
CancelAgentStepAtOnce(c, n) ==
    /\ call[c].pc = "looping" /\ n \in call[c].left \ done
    /\ hasCancel(n) /\ Kind[n] = "agent"
    /\ stopAsked' = stopAsked \cup {n}
    /\ call' = [call EXCEPT ![c].left = @ \ {n}]
    /\ markCancelled(n)
    /\ UNCHANGED <<run, open, cancelling, activates, outcome, parked, exec, asked,
                   awaited, settled>>

\* An agent's cancel waits for the launch and the run to be over.
CancelAgentStep(c, n) ==
    /\ call[c].pc = "looping" /\ n \in call[c].left \ done
    /\ hasCancel(n) /\ Kind[n] = "agent"
    /\ stopAsked' = stopAsked \cup {n}
    /\ call' = [call EXCEPT ![c].pc = "awaiting", ![c].node = {n}]
    /\ UNCHANGED <<rowVars, passVars, exec, asked, awaited, settled>>

CancelAgentStepReturns(c, n) ==
    /\ call[c].pc = "awaiting" /\ mayProceed(c) /\ n \in call[c].node
    /\ call' = [call EXCEPT ![c] = [pc |-> "looping", left |-> @.left \ {n}, node |-> {}]]
    /\ markCancelled(n)
    /\ UNCHANGED <<run, open, cancelling, activates, outcome, parked, execVars, awaited, settled>>

\* Any other node: a shell's question is withdrawn or its command told to
\* stop, a panel told to stop, and nothing is waited for.
CancelStep(c, n) ==
    /\ call[c].pc = "looping" /\ n \in call[c].left
    /\ ~(n \notin done /\ hasCancel(n) /\ Kind[n] = "agent")
    /\ call' = [call EXCEPT ![c].left = @ \ {n}]
    /\ markCancelled(n)
    /\ IF n \notin done /\ hasCancel(n)
       THEN /\ exec' = [exec EXCEPT ![n] = IF @ = "confirming" THEN "none" ELSE @]
            /\ asked' = IF exec[n] = "confirming" THEN {} ELSE asked
            /\ stopAsked' = IF exec[n] = "live" THEN stopAsked \cup {n} ELSE stopAsked
       ELSE UNCHANGED execVars
    /\ UNCHANGED <<run, open, cancelling, activates, outcome, parked, awaited, settled>>

\* Mutant: the promise of the cancelled pass is not settled.
CancelEndUnsettled(c) ==
    /\ call[c].pc = "looping" /\ call[c].left = {}
    /\ dropPass
    /\ setRunStatus(run, "cancelled")
    /\ call' = [call EXCEPT ![c] = NoCall]
    /\ UNCHANGED <<step, exec, stopAsked, awaited, settled>>

CancelEnd(c) ==
    /\ call[c].pc = "looping" /\ call[c].left = {}
    /\ dropPass
    /\ setRunStatus(run, "cancelled")
    /\ settled' = IF awaited THEN "cancelled" ELSE settled
    /\ awaited' = FALSE
    /\ call' = [call EXCEPT ![c] = NoCall]
    /\ UNCHANGED <<step, exec, stopAsked>>

\* complete(): the user accepts a run the caps parked.
Complete ==
    /\ run.status = "needs_user_review"
    /\ dropPass
    /\ setRunStatus(run, "completed")
    /\ UNCHANGED <<step, exec, stopAsked, callVars>>

(***************************************************************************)
(* Steps the event loop takes by itself, and steps from outside it.         *)
(***************************************************************************)

EngineTurn ==
    \/ \E n \in Nodes : StartNode(n) \/ StartNodeWithoutExecutor(n) \/ SkipNode(n)
    \/ \E n \in Nodes : ConditionEvaluated(n)
    \/ \E n \in Nodes, o \in Outcomes : GateEvaluated(n, o)
    \/ FinishPass
    \/ \E c \in Cancellers, n \in Nodes :
         CancelAgentStep(c, n) \/ CancelAgentStepReturns(c, n) \/ CancelStep(c, n)
    \/ \E c \in Cancellers : CancelEnd(c)

Quiet ==
    /\ ~Scheduling /\ settled = "none"
    /\ \A n \in Nodes : exec[n] # "ready"
    /\ \A c \in Cancellers : ~mayProceed(c)

Answers ==
    \/ \E n \in Nodes : AgentLaunched(n) \/ LaunchFailed(n) \/ AgentMissed(n)
    \/ \E n \in Nodes, o \in Outcomes : ProcessEnds(n, o)
    \/ \E n \in Nodes, approved \in BOOLEAN : ConfirmShellStep(n, approved)
    \/ \E n \in Nodes, o \in Outcomes : ResolveStep(n, o)

EngineOutside ==
    \/ Answers
    \/ \E c \in Cancellers : CancelRow(c)
    \/ \E c \in Cancellers \ {Quit} : CancelPass(c)
    \/ Complete
=============================================================================
