------------------------ MODULE IterationLoopProofs ------------------------
(***************************************************************************)
(* Theorems about IterationLoop for every graph, every set of cancel calls  *)
(* and every value of the caps.                                             *)
(***************************************************************************)
EXTENDS IterationLoop, TLAPS

Row  == [status : RunStatus, iteration : Nat, criteriaIteration : Nat, anchor : Nat]
Rows == [Nodes -> [status : StepStatus, outcome : Outcomes]]
Calls == [Cancellers -> [pc : {"idle", "looping", "awaiting"},
                         left : SUBSET Nodes, node : SUBSET Nodes]]

LEMMA OutcomeValues ==
    /\ {"none", "success", "failure", "true", "false", "pass", "fail", "approve",
        "changes_requested"} \subseteq Outcomes
    /\ \A k \in Kinds : Positive(k) \in Outcomes
<1>1. {"success", "failure"} \subseteq Outcomes
  <2>1. "agent" \in Kinds /\ Allowed("agent") = {"success", "failure"}
    BY DEF Kinds, Allowed
  <2> QED BY <2>1 DEF Outcomes
<1>2. {"true", "false"} \subseteq Outcomes
  <2>1. "condition" \in Kinds /\ Allowed("condition") = {"true", "false"}
    BY DEF Kinds, Allowed
  <2> QED BY <2>1 DEF Outcomes
<1>3. {"pass", "fail"} \subseteq Outcomes
  <2>1. "criteria-gate" \in Kinds /\ Allowed("criteria-gate") = {"pass", "fail"}
    BY DEF Kinds, Allowed
  <2> QED BY <2>1 DEF Outcomes
<1>4. {"approve", "changes_requested"} \subseteq Outcomes
  <2>1. "review-panel" \in Kinds
        /\ Allowed("review-panel") = {"approve", "changes_requested"}
    BY DEF Kinds, Allowed
  <2> QED BY <2>1 DEF Outcomes
<1>5. "none" \in Outcomes
  BY DEF Outcomes
<1>6. \A k \in Kinds : Positive(k) \in {"true", "pass", "approve", "success"}
  BY DEF Positive
<1> QED BY <1>1, <1>2, <1>3, <1>4, <1>5, <1>6

(***************************************************************************)
(* What the operators of the model do to the types.                         *)
(***************************************************************************)

LEMMA SetRunStatusType ==
    ASSUME NEW row \in Row, NEW s \in RunStatus, asked \subseteq Nodes, setRunStatus(row, s)
    PROVE  /\ run' \in Row /\ run'.status = s
           /\ run'.iteration = row.iteration
           /\ asked' \subseteq Nodes
BY DEF setRunStatus, Row

LEMMA TransitionedType ==
    ASSUME NEW rows \in Rows, NEW n \in Nodes, NEW to \in StepStatus, NEW o \in Outcomes
    PROVE  transitioned(rows, n, to, o) \in Rows
BY DEF transitioned, Rows

LEMMA SettleNodeType ==
    ASSUME TypeOK, NEW n \in Nodes, NEW o \in Outcomes, settleNode(n, o)
    PROVE  /\ step' \in Rows /\ outcome' \in [Nodes -> Outcomes]
           /\ done' \subseteq Nodes /\ activates' \subseteq Nodes
<1>1. step \in Rows
  BY DEF TypeOK, Rows
<1>2. {"failed", "completed"} \subseteq StepStatus
  BY DEF StepStatus, StepOver
<1>3. transitioned(step, n, IF o = "failure" THEN "failed" ELSE "completed", o) \in Rows
  BY <1>1, <1>2, TransitionedType
<1> QED BY <1>1, <1>3 DEF settleNode, TypeOK

LEMMA MarkCancelledType ==
    ASSUME TypeOK, NEW n \in Nodes, markCancelled(n)
    PROVE  step' \in Rows /\ done' \subseteq Nodes
<1>1. step \in Rows
  BY DEF TypeOK, Rows
<1>2. "cancelled" \in StepStatus /\ "none" \in Outcomes
  BY OutcomeValues DEF StepStatus, StepOver
<1>3. transitioned(step, n, "cancelled", "none") \in Rows
  BY <1>1, <1>2, TransitionedType
<1> QED BY <1>1, <1>3 DEF markCancelled, TypeOK

LEMMA DropPassType ==
    ASSUME dropPass
    PROVE  /\ open' \in BOOLEAN /\ cancelling' \in BOOLEAN
           /\ done' \subseteq Nodes /\ activates' \subseteq Nodes /\ parked' \subseteq Nodes
           /\ outcome' \in [Nodes -> Outcomes]
BY OutcomeValues DEF dropPass

LEMMA ExecutorSettlesType ==
    ASSUME TypeOK, NEW n \in Nodes, NEW o \in Outcomes, executorSettles(n, o),
           asked' \subseteq Nodes, UNCHANGED loopVars
    PROVE  TypeOK'
<1>1. /\ step' \in Rows /\ outcome' \in [Nodes -> Outcomes]
      /\ done' \subseteq Nodes /\ activates' \subseteq Nodes
  BY SettleNodeType DEF executorSettles
<1>2. exec' \in [Nodes -> {"none", "launching", "live", "lost", "confirming", "ready"}]
      /\ stopAsked' \subseteq Nodes
  BY DEF executorSettles, TypeOK
<1>3. UNCHANGED <<run, open, cancelling, parked, awaited, settled, call,
                  loop, driver, criteria, disposing>>
  BY DEF executorSettles, callVars, loopVars
<1> QED BY <1>1, <1>2, <1>3 DEF TypeOK, Rows

LEMMA BeginPassType ==
    ASSUME TypeOK, NEW row \in Row, NEW waits \in BOOLEAN, beginPass(row, waits)
    PROVE  /\ run' \in Row /\ run'.status = "running" /\ step' \in Rows
           /\ open' /\ awaited' = waits
           /\ open' \in BOOLEAN /\ cancelling' \in BOOLEAN /\ awaited' \in BOOLEAN
           /\ done' \subseteq Nodes /\ activates' \subseteq Nodes /\ parked' \subseteq Nodes
           /\ outcome' \in [Nodes -> Outcomes] /\ asked' \subseteq Nodes
           /\ UNCHANGED <<exec, stopAsked, settled, call>>
<1>1. "running" \in RunStatus /\ setRunStatus(row, "running") /\ asked \subseteq Nodes
  BY DEF beginPass, RunStatus, TypeOK
<1>2. run' \in Row /\ run'.status = "running" /\ asked' \subseteq Nodes
  BY <1>1, SetRunStatusType
<1>3. {"skipped", "pending"} \subseteq StepStatus /\ "none" \in Outcomes
  BY OutcomeValues DEF StepStatus, StepOver
<1>4. step' \in Rows
  BY <1>3 DEF beginPass, Rows, TypeOK
<1>5. outcome' \in [Nodes -> Outcomes]
  <2>1. \A n \in Nodes : Positive(Kind[n]) \in Outcomes
    BY OutcomeValues, GraphAssumption
  <2> QED BY <1>3, <2>1 DEF beginPass
<1>6. /\ done' \subseteq Nodes /\ activates' \subseteq Nodes /\ parked' \subseteq Nodes
      /\ open' /\ cancelling' = FALSE /\ awaited' = waits /\ open' = TRUE
      /\ UNCHANGED <<exec, stopAsked, settled, call>>
  BY DEF beginPass, existing
<1> QED BY <1>2, <1>4, <1>5, <1>6

(***************************************************************************)
(* Type correctness: one step per action.                                   *)
(***************************************************************************)

LEMMA EngineTurnType ==
    ASSUME TypeOK, EngineTurn, UNCHANGED loopVars
    PROVE  TypeOK'
<1>1. ASSUME NEW n \in Nodes, StartNode(n)
      PROVE  TypeOK'
  <2>1. step \in Rows /\ "running" \in StepStatus /\ "none" \in Outcomes
    BY OutcomeValues DEF TypeOK, Rows, StepStatus
  <2>2. step' \in Rows
    BY <1>1, <2>1, TransitionedType DEF StartNode
  <2>3. started(n) \in {"launching", "confirming", "ready", "live"}
    BY DEF started
  <2>4. /\ exec' \in [Nodes -> {"none", "launching", "live", "lost", "confirming", "ready"}]
        /\ asked' \subseteq Nodes /\ parked' \subseteq Nodes
    BY <1>1, <2>3 DEF StartNode, TypeOK
  <2> QED BY <1>1, <2>2, <2>4 DEF StartNode, TypeOK, Rows, callVars, loopVars
<1>2. ASSUME NEW n \in Nodes, StartNodeWithoutExecutor(n)
      PROVE  TypeOK'
  <2>1. step \in Rows /\ {"running", "failed"} \subseteq StepStatus
        /\ {"none", "failure"} \subseteq Outcomes
    BY OutcomeValues DEF TypeOK, Rows, StepStatus, StepOver
  <2>2. transitioned(step, n, "running", "none") \in Rows
    BY <2>1, TransitionedType
  <2>3. step' \in Rows
    BY <1>2, <2>1, <2>2, TransitionedType DEF StartNodeWithoutExecutor
  <2>4. outcome' \in [Nodes -> Outcomes] /\ done' \subseteq Nodes
    BY <1>2, <2>1 DEF StartNodeWithoutExecutor, TypeOK
  <2> QED BY <1>2, <2>3, <2>4
          DEF StartNodeWithoutExecutor, TypeOK, Rows, execVars, callVars, loopVars
<1>3. ASSUME NEW n \in Nodes, SkipNode(n)
      PROVE  TypeOK'
  <2>1. step \in Rows /\ "skipped" \in StepStatus /\ "none" \in Outcomes
    BY OutcomeValues DEF TypeOK, Rows, StepStatus, StepOver
  <2>2. step' \in Rows
    BY <1>3, <2>1, TransitionedType DEF SkipNode
  <2> QED BY <1>3, <2>2 DEF SkipNode, TypeOK, Rows, execVars, callVars, loopVars
<1>4. ASSUME NEW n \in Nodes, ConditionEvaluated(n)
      PROVE  TypeOK'
  <2>1. conditionOutcome(n) \in Outcomes
    BY OutcomeValues DEF conditionOutcome
  <2> QED BY <1>4, <2>1, ExecutorSettlesType DEF ConditionEvaluated, TypeOK
<1>5. ASSUME NEW n \in Nodes, NEW o \in Outcomes, GateEvaluated(n, o)
      PROVE  TypeOK'
  BY <1>5, ExecutorSettlesType DEF GateEvaluated, TypeOK
<1>6. CASE FinishPass
  <2>1. "waiting" \in RunStatus /\ run \in Row /\ asked \subseteq Nodes
    BY DEF RunStatus, TypeOK, Row
  <2>2. run' \in Row /\ asked' \subseteq Nodes
    BY <1>6, <2>1, SetRunStatusType DEF FinishPass
  <2>3. settled' \in {"none", "waiting", "cancelled"} /\ awaited' \in BOOLEAN
    BY <1>6 DEF FinishPass
  <2> QED BY <1>6, <2>2, <2>3, DropPassType DEF FinishPass, TypeOK, Row, loopVars
<1>7. ASSUME NEW c \in Cancellers, NEW n \in Nodes, CancelAgentStep(c, n)
      PROVE  TypeOK'
  BY <1>7 DEF CancelAgentStep, TypeOK, rowVars, passVars, loopVars
<1>8. ASSUME NEW c \in Cancellers, NEW n \in Nodes, CancelAgentStepReturns(c, n)
      PROVE  TypeOK'
  <2>1. step' \in Rows /\ done' \subseteq Nodes
    BY <1>8, MarkCancelledType DEF CancelAgentStepReturns
  <2>2. call' \in Calls
    BY <1>8 DEF CancelAgentStepReturns, TypeOK, Calls
  <2> QED BY <1>8, <2>1, <2>2
          DEF CancelAgentStepReturns, TypeOK, Rows, Calls, execVars, loopVars
<1>9. ASSUME NEW c \in Cancellers, NEW n \in Nodes, CancelStep(c, n)
      PROVE  TypeOK'
  <2>1. step' \in Rows /\ done' \subseteq Nodes
    BY <1>9, MarkCancelledType DEF CancelStep
  <2>2. call' \in Calls
    BY <1>9 DEF CancelStep, TypeOK, Calls
  <2>3. /\ exec' \in [Nodes -> {"none", "launching", "live", "lost", "confirming", "ready"}]
        /\ asked' \subseteq Nodes /\ stopAsked' \subseteq Nodes
    BY <1>9 DEF CancelStep, TypeOK, execVars
  <2> QED BY <1>9, <2>1, <2>2, <2>3 DEF CancelStep, TypeOK, Rows, Calls, loopVars
<1>10. ASSUME NEW c \in Cancellers, CancelEnd(c)
       PROVE  TypeOK'
  <2>1. "cancelled" \in RunStatus /\ run \in Row /\ asked \subseteq Nodes
    BY DEF RunStatus, RunOver, TypeOK, Row
  <2>2. run' \in Row /\ asked' \subseteq Nodes
    BY <1>10, <2>1, SetRunStatusType DEF CancelEnd
  <2>3. /\ settled' \in {"none", "waiting", "cancelled"} /\ awaited' \in BOOLEAN
        /\ call' \in Calls
    BY <1>10 DEF CancelEnd, TypeOK, NoCall, Calls
  <2> QED BY <1>10, <2>2, <2>3, DropPassType DEF CancelEnd, TypeOK, Row, Calls, loopVars
<1> QED BY <1>1, <1>2, <1>3, <1>4, <1>5, <1>6, <1>7, <1>8, <1>9, <1>10 DEF EngineTurn

LEMMA CancelPassType ==
    ASSUME TypeOK, NEW c \in Cancellers, CancelPass(c)
    PROVE  call' \in Calls /\ cancelling' \in BOOLEAN
BY DEF CancelPass, TypeOK, Calls

LEMMA EngineOutsideType ==
    ASSUME TypeOK, EngineOutside, UNCHANGED loopVars
    PROVE  TypeOK'
<1>1. ASSUME NEW n \in Nodes, AgentLaunched(n) \/ AgentMissed(n)
      PROVE  TypeOK'
  BY <1>1 DEF AgentLaunched, AgentMissed, TypeOK, rowVars, passVars, callVars, loopVars
<1>2. ASSUME NEW n \in Nodes, LaunchFailed(n)
      PROVE  TypeOK'
  BY <1>2, OutcomeValues, ExecutorSettlesType DEF LaunchFailed, TypeOK
<1>3. ASSUME NEW n \in Nodes, NEW o \in Outcomes, ProcessEnds(n, o)
      PROVE  TypeOK'
  BY <1>3, ExecutorSettlesType DEF ProcessEnds, TypeOK
<1>4. ASSUME NEW n \in Nodes, NEW approval \in BOOLEAN, ConfirmShellStep(n, approval)
      PROVE  TypeOK'
  <2>1. asked' \subseteq Nodes /\ "failure" \in Outcomes
    BY <1>4, OutcomeValues DEF ConfirmShellStep, TypeOK
  <2>2. CASE approval
    BY <1>4, <2>1, <2>2
       DEF ConfirmShellStep, TypeOK, rowVars, passVars, callVars, loopVars
  <2>3. CASE ~approval
    BY <1>4, <2>1, <2>3, ExecutorSettlesType DEF ConfirmShellStep
  <2> QED BY <2>2, <2>3
<1>5. ASSUME NEW n \in Nodes, NEW o \in Outcomes, ResolveStep(n, o)
      PROVE  TypeOK'
  <2>1. /\ step' \in Rows /\ outcome' \in [Nodes -> Outcomes]
        /\ done' \subseteq Nodes /\ activates' \subseteq Nodes
    BY <1>5, SettleNodeType DEF ResolveStep
  <2> QED BY <1>5, <2>1 DEF ResolveStep, TypeOK, Rows, execVars, callVars, loopVars
<1>6. ASSUME NEW c \in Cancellers, CancelRow(c)
      PROVE  TypeOK'
  <2>1. "cancelled" \in RunStatus /\ run \in Row /\ asked \subseteq Nodes
    BY DEF RunStatus, RunOver, TypeOK, Row
  <2>2. run' \in Row /\ asked' \subseteq Nodes
    BY <1>6, <2>1, SetRunStatusType DEF CancelRow
  <2> QED BY <1>6, <2>2 DEF CancelRow, TypeOK, Row, passVars, callVars, loopVars
<1>7. ASSUME NEW c \in Cancellers, CancelPass(c)
      PROVE  TypeOK'
  BY <1>7, CancelPassType DEF CancelPass, TypeOK, Calls, rowVars, execVars, loopVars
<1>8. CASE Complete
  <2>1. "completed" \in RunStatus /\ run \in Row /\ asked \subseteq Nodes
    BY DEF RunStatus, RunOver, TypeOK, Row
  <2>2. run' \in Row /\ asked' \subseteq Nodes
    BY <1>8, <2>1, SetRunStatusType DEF Complete
  <2> QED BY <1>8, <2>2, DropPassType DEF Complete, TypeOK, Row, callVars, loopVars
<1> QED BY <1>1, <1>2, <1>3, <1>4, <1>5, <1>6, <1>7, <1>8 DEF EngineOutside, Answers

LEMMA AnchoredType ==
    ASSUME TypeOK
    PROVE  anchored \in Row /\ anchored.status = run.status
BY DEF anchored, TypeOK, Row

LEMMA AdvancedType ==
    ASSUME TypeOK
    PROVE  /\ advanced \in Row /\ advanced.status = run.status
           /\ [n \in Nodes |-> NoRow] \in Rows
<1>1. advanced \in Row /\ advanced.status = run.status
  <2>1. run \in Row /\ run.iteration + 1 \in Nat /\ run.criteriaIteration + 1 \in Nat
    BY DEF TypeOK, Row
  <2> QED BY <2>1 DEF advanced, Row
<1>2. NoRow \in [status : StepStatus, outcome : Outcomes]
  BY OutcomeValues DEF NoRow, StepStatus
<1> QED BY <1>1, <1>2 DEF Rows

LEMMA LoopTurnType ==
    ASSUME TypeOK, LoopTurn
    PROVE  TypeOK'
<1> DEFINE Untouched == UNCHANGED <<passVars, exec, stopAsked, awaited, call,
                                    driver, criteria, disposing>>
<1>1. /\ {"failed", "completed", "needs_user_review", "running"} \subseteq RunStatus
      /\ run \in Row /\ run.status \in RunStatus /\ asked \subseteq Nodes
  BY DEF RunStatus, RunOver, TypeOK, Row
<1>2. ASSUME run' \in Row, step' \in Rows, asked' \subseteq Nodes,
             loop' \in {"idle", "body"}, settled' = "none" \/ settled' = settled, Untouched
      PROVE  TypeOK'
  BY <1>2 DEF TypeOK, Row, Rows, passVars
<1>3. step \in Rows
  BY DEF TypeOK, Rows
<1>4. CASE RoundRefused
  BY <1>4 DEF RoundRefused, TypeOK, engineVars, rowVars, passVars, execVars, callVars
<1>5. CASE CapBeforeRound
  <2>1. run' \in Row /\ asked' \subseteq Nodes
    BY <1>1, <1>5, AnchoredType, SetRunStatusType DEF CapBeforeRound
  <2> QED BY <1>2, <1>3, <1>5, <2>1 DEF CapBeforeRound, callVars
<1>6. CASE RoundNotPrepared
  <2>1. run' \in Row /\ asked' \subseteq Nodes
    BY <1>1, <1>6, AnchoredType, SetRunStatusType DEF RoundNotPrepared
  <2> QED BY <1>2, <1>3, <1>6, <2>1 DEF RoundNotPrepared, callVars
<1>7. CASE RoundBegins
  BY <1>7, AnchoredType, BeginPassType DEF RoundBegins, TypeOK, Row, Rows
<1>8. CASE PassRefused
  <2>1. run' \in Row /\ asked' \subseteq Nodes
    BY <1>1, <1>8, AnchoredType, SetRunStatusType DEF PassRefused
  <2> QED BY <1>2, <1>3, <1>8, <2>1 DEF PassRefused, callVars
<1>9. CASE RoundCancelled
  BY <1>1, <1>2, <1>3, <1>9 DEF RoundCancelled, passSettled, loopUnchanged, rowVars
<1>10. CASE RoundApproved
  <2>1. run' \in Row /\ asked' \subseteq Nodes
    BY <1>1, <1>10, SetRunStatusType DEF RoundApproved
  <2> QED BY <1>2, <1>3, <1>10, <2>1 DEF RoundApproved, passSettled, loopUnchanged
<1>11. CASE CapAfterRound
  <2>1. run' \in Row /\ asked' \subseteq Nodes
    <3>1. (IF canAdvance THEN advanced ELSE run) \in Row
      BY <1>1, AdvancedType
    <3> QED BY <1>1, <1>11, <3>1, SetRunStatusType DEF CapAfterRound
  <2>2. step' \in Rows
    BY <1>3, <1>11, AdvancedType DEF CapAfterRound
  <2> QED BY <1>2, <1>11, <2>1, <2>2 DEF CapAfterRound, passSettled, loopUnchanged
<1>12. CASE RoundRejected
  <2>1. run' \in Row /\ asked' \subseteq Nodes
    BY <1>1, <1>12, AdvancedType, SetRunStatusType DEF RoundRejected
  <2>2. step' \in Rows /\ loop' \in {"idle", "body"}
    BY <1>3, <1>12, AdvancedType DEF RoundRejected
  <2> QED BY <1>2, <1>12, <2>1, <2>2 DEF RoundRejected, passSettled, loopUnchanged
<1> QED BY <1>4, <1>5, <1>6, <1>7, <1>8, <1>9, <1>10, <1>11, <1>12 DEF LoopTurn

LEMMA RestType ==
    ASSUME TypeOK, Iterate \/ Begin \/ ConfirmCriteria \/ Dispose
    PROVE  TypeOK'
<1>1. CASE Iterate
  BY <1>1 DEF Iterate, TypeOK, engineVars, rowVars, passVars, execVars, callVars
<1>2. CASE Begin
  <2>1. run \in Row
    BY DEF TypeOK, Row
  <2> QED BY <1>2, <2>1, BeginPassType DEF Begin, TypeOK, Row, Rows
<1>3. CASE ConfirmCriteria
  BY <1>3 DEF ConfirmCriteria, TypeOK, engineVars, rowVars, passVars, execVars, callVars
<1>4. CASE Dispose
  <2>1. CASE open /\ ~terminalRun
    <3>1. CancelPass(Quit) /\ Quit \in Cancellers
      BY <1>4, <2>1, GraphAssumption DEF Dispose
    <3>2. call' \in Calls /\ cancelling' \in BOOLEAN
      BY <3>1, CancelPassType
    <3> QED BY <1>4, <3>1, <3>2 DEF Dispose, CancelPass, TypeOK, Calls, rowVars, execVars
  <2>2. CASE ~(open /\ ~terminalRun)
    BY <1>4, <2>2 DEF Dispose, TypeOK, engineVars, rowVars, passVars, execVars, callVars
  <2> QED BY <2>1, <2>2
<1> QED BY <1>1, <1>2, <1>3, <1>4

\* The rows, the pass, the executors, the cancel calls and the loop have their
\* types in every state, for every graph and every number of callers.
THEOREM TypeCorrect == Spec => []TypeOK
<1>1. Init => TypeOK
  <2> SUFFICES ASSUME Init PROVE TypeOK
    OBVIOUS
  <2>1. NoRow \in [status : StepStatus, outcome : Outcomes] /\ "none" \in Outcomes
    BY OutcomeValues DEF NoRow, StepStatus
  <2>2. call \in Calls
    BY DEF Init, EngineInit, NoCall, Calls
  <2>3. "created" \in RunStatus
    BY DEF RunStatus
  <2> QED BY <2>1, <2>2, <2>3 DEF Init, EngineInit, LoopInit, TypeOK, Calls
<1>2. TypeOK /\ [Next]_vars => TypeOK'
  <2> SUFFICES ASSUME TypeOK, [Next]_vars PROVE TypeOK'
    OBVIOUS
  <2>1. CASE UNCHANGED vars
    BY <2>1 DEF vars, TypeOK, engineVars, rowVars, passVars, execVars, callVars, loopVars
  <2>2. CASE Next
    BY <2>2, EngineTurnType, LoopTurnType, EngineOutsideType, RestType
       DEF Next, Turn, Outside
  <2> QED BY <2>1, <2>2
<1> QED BY <1>1, <1>2, PTL DEF Spec

(***************************************************************************)
(* What a step may do to the step rows.  A row that is over has no          *)
(* transition; beginPass takes it over and only a new iteration drops it.   *)
(***************************************************************************)

OverStays == \A n \in Nodes : step[n].status \in StepOver /\ run'.iteration = run.iteration
                                => step'[n] = step[n]
NoneStarts == \A n \in Nodes : step'[n].status = "running" => step[n].status = "running"

LEMMA TransitionedRows ==
    ASSUME NEW rows \in Rows, NEW n \in Nodes, NEW to \in StepStatus, NEW o \in Outcomes,
           NEW m \in Nodes
    PROVE  /\ rows[m].status \in StepOver => transitioned(rows, n, to, o)[m] = rows[m]
           /\ to # "running" /\ transitioned(rows, n, to, o)[m].status = "running"
                => rows[m].status = "running"
<1>1. \A s \in StepOver : s \in StepStatus /\ STEP_TRANSITIONS[s] = {}
  BY DEF STEP_TRANSITIONS, StepStatus, StepOver
<1> QED BY <1>1 DEF transitioned, Rows

LEMMA SettleNodeRows ==
    ASSUME TypeOK, NEW n \in Nodes, NEW o \in Outcomes, settleNode(n, o)
    PROVE  OverStays /\ NoneStarts
<1>1. step \in Rows
  BY DEF TypeOK, Rows
<1>2. (IF o = "failure" THEN "failed" ELSE "completed") \in StepStatus \ {"running"}
  BY DEF StepStatus, StepOver
<1> QED BY <1>1, <1>2, TransitionedRows DEF settleNode, OverStays, NoneStarts

LEMMA MarkCancelledRows ==
    ASSUME TypeOK, NEW n \in Nodes, markCancelled(n)
    PROVE  OverStays /\ NoneStarts
<1>1. step \in Rows /\ "cancelled" \in StepStatus /\ "none" \in Outcomes
  BY OutcomeValues DEF TypeOK, Rows, StepStatus, StepOver
<1> QED BY <1>1, TransitionedRows DEF markCancelled, OverStays, NoneStarts

LEMMA UnchangedRows ==
    ASSUME UNCHANGED step
    PROVE  OverStays /\ NoneStarts
BY DEF OverStays, NoneStarts

LEMMA BeginPassRows ==
    ASSUME NEW row, NEW waits, beginPass(row, waits)
    PROVE  OverStays /\ NoneStarts
BY DEF beginPass, existing, StepOver, OverStays, NoneStarts

LEMMA EngineTurnRows ==
    ASSUME TypeOK, EngineTurn
    PROVE  OverStays /\ (NoneStarts \/ open)
<1>1. step \in Rows /\ {"running", "failed", "skipped"} \subseteq StepStatus
      /\ {"none", "failure"} \subseteq Outcomes
  BY OutcomeValues DEF TypeOK, Rows, StepStatus, StepOver
<1>2. ASSUME NEW n \in Nodes, StartNode(n) \/ SkipNode(n)
      PROVE  OverStays /\ open
  BY <1>1, <1>2, TransitionedRows DEF StartNode, SkipNode, OverStays
<1>3. ASSUME NEW n \in Nodes, StartNodeWithoutExecutor(n)
      PROVE  OverStays /\ open
  <2>1. transitioned(step, n, "running", "none") \in Rows
    BY <1>1, TransitionedType
  <2> QED BY <1>1, <1>3, <2>1, TransitionedRows DEF StartNodeWithoutExecutor, OverStays
<1>4. ASSUME NEW n \in Nodes, ConditionEvaluated(n)
      PROVE  OverStays /\ NoneStarts
  <2>1. conditionOutcome(n) \in Outcomes
    BY OutcomeValues DEF conditionOutcome
  <2> QED BY <1>4, <2>1, SettleNodeRows DEF ConditionEvaluated, executorSettles
<1>5. ASSUME NEW n \in Nodes, NEW o \in Outcomes, GateEvaluated(n, o)
      PROVE  OverStays /\ NoneStarts
  BY <1>5, SettleNodeRows DEF GateEvaluated, executorSettles
<1>6. ASSUME NEW c \in Cancellers, NEW n \in Nodes, CancelAgentStep(c, n)
      PROVE  OverStays /\ NoneStarts
  BY <1>6, UnchangedRows DEF CancelAgentStep, rowVars
<1>7. ASSUME NEW c \in Cancellers, NEW n \in Nodes,
             CancelAgentStepReturns(c, n) \/ CancelStep(c, n)
      PROVE  OverStays /\ NoneStarts
  BY <1>7, MarkCancelledRows DEF CancelAgentStepReturns, CancelStep
<1>8. ASSUME FinishPass \/ (\E c \in Cancellers : CancelEnd(c))
      PROVE  OverStays /\ NoneStarts
  BY <1>8, UnchangedRows DEF FinishPass, CancelEnd
<1> QED BY <1>2, <1>3, <1>4, <1>5, <1>6, <1>7, <1>8 DEF EngineTurn

LEMMA OutsideRows ==
    ASSUME TypeOK, EngineOutside \/ Iterate \/ Begin \/ ConfirmCriteria \/ Dispose
    PROVE  OverStays /\ NoneStarts
<1>1. "failure" \in Outcomes
  BY OutcomeValues
<1>2. ASSUME NEW n \in Nodes, AgentLaunched(n) \/ AgentMissed(n)
      PROVE  OverStays /\ NoneStarts
  BY <1>2, UnchangedRows DEF AgentLaunched, AgentMissed, rowVars
<1>3. ASSUME NEW n \in Nodes, LaunchFailed(n)
      PROVE  OverStays /\ NoneStarts
  BY <1>1, <1>3, SettleNodeRows DEF LaunchFailed, executorSettles
<1>4. ASSUME NEW n \in Nodes, NEW o \in Outcomes, ProcessEnds(n, o) \/ ResolveStep(n, o)
      PROVE  OverStays /\ NoneStarts
  BY <1>4, SettleNodeRows DEF ProcessEnds, ResolveStep, executorSettles
<1>5. ASSUME NEW n \in Nodes, NEW approval \in BOOLEAN, ConfirmShellStep(n, approval)
      PROVE  OverStays /\ NoneStarts
  BY <1>1, <1>5, UnchangedRows, SettleNodeRows
     DEF ConfirmShellStep, executorSettles, rowVars
<1>6. ASSUME NEW c \in Cancellers, CancelRow(c) \/ CancelPass(c)
      PROVE  OverStays /\ NoneStarts
  BY <1>6, UnchangedRows DEF CancelRow, CancelPass, rowVars
<1>7. CASE Complete
  BY <1>7, UnchangedRows DEF Complete
<1>8. CASE Begin
  BY <1>8, BeginPassRows DEF Begin
<1>9. CASE Iterate \/ ConfirmCriteria \/ Dispose
  BY <1>9, UnchangedRows DEF Iterate, ConfirmCriteria, Dispose, CancelPass, engineVars, rowVars
<1> QED BY <1>2, <1>3, <1>4, <1>5, <1>6, <1>7, <1>8, <1>9 DEF EngineOutside, Answers

LEMMA LoopTurnRows ==
    ASSUME TypeOK, LoopTurn
    PROVE  OverStays /\ NoneStarts
<1>1. CASE RoundBegins
  BY <1>1, BeginPassRows DEF RoundBegins
<1>2. CASE \/ RoundRefused \/ CapBeforeRound \/ RoundNotPrepared \/ PassRefused
           \/ RoundCancelled \/ RoundApproved
  BY <1>2, UnchangedRows DEF RoundRefused, CapBeforeRound, RoundNotPrepared, PassRefused,
     RoundCancelled, RoundApproved, engineVars, rowVars
<1>3. CASE CapAfterRound \/ RoundRejected
  <2>1. CASE UNCHANGED step
    BY <2>1, UnchangedRows
  <2>2. CASE ~UNCHANGED step
    <3>1. /\ step' = [n \in Nodes |-> NoRow]
          /\ run'.iteration = advanced.iteration
      BY <1>3, <2>2 DEF CapAfterRound, RoundRejected, setRunStatus, TypeOK, advanced
    <3>2. advanced.iteration = run.iteration + 1 /\ run.iteration \in Nat
      BY DEF advanced, TypeOK
    <3> QED BY <3>1, <3>2 DEF OverStays, NoneStarts, NoRow
  <2> QED BY <2>1, <2>2
<1> QED BY <1>1, <1>2, <1>3 DEF LoopTurn

LEMMA NextRows ==
    ASSUME TypeOK, [Next]_vars
    PROVE  OverStays /\ (NoneStarts \/ open)
<1>1. CASE UNCHANGED vars
  BY <1>1, UnchangedRows DEF vars, engineVars, rowVars
<1>2. CASE Next
  BY <1>2, EngineTurnRows, LoopTurnRows, OutsideRows DEF Next, Turn, Outside
<1> QED BY <1>1, <1>2

\* A step row that is over stays as it is for the rest of its iteration, in
\* every graph and whatever arrives late.
THEOREM OverRowsStay == Spec => StepsStayOver
<1>1. TypeOK /\ [Next]_vars =>
        [\A n \in Nodes : step[n].status \in StepOver /\ run'.iteration = run.iteration
                            => step'[n] = step[n]]_vars
  BY NextRows DEF OverStays
<1> QED BY <1>1, TypeCorrect, PTL DEF Spec, StepsStayOver

(***************************************************************************)
(* One pass at a time.  Scope is what keeps a second writer off the rows of *)
(* an open pass: the requests do not mix startRun and iterate on one run,   *)
(* and where the pass is not in the engine's map that cancel() looks into   *)
(* (the dedicated engine of a full workflow), only dispose() cancels.       *)
(***************************************************************************)
Scope == OneDriver /\ (Dedicated => Cancellers = {Quit})

\* An open pass has the run's row to itself, and start() waits for it exactly
\* when the loop opened it.
OpenPass == open => /\ run.status = "running" /\ driver # "none"
                    /\ awaited <=> driver = "loop"

\* The loop is in start() exactly as long as its pass is open or just settled.
LoopWaits ==
    /\ ~open => ~awaited
    /\ loop # "idle" => driver = "loop"
    /\ loop = "body" => ~open
    /\ loop = "inPass" <=> (awaited \/ settled # "none")

\* A cancel call in progress holds the pass, or another one has closed the run.
CallsCancel ==
    \A c \in Cancellers :
      call[c].pc # "idle" => run.status = "cancelled" \/ (open /\ cancelling)

\* A pass the loop has yet to hear of left the row the way it ended.
SettledRow == settled # "none" => ~open /\ run.status = settled

PassInv == OpenPass /\ LoopWaits /\ CallsCancel /\ SettledRow

\* What a step may do to the status of a run that is closed.
StatusStays == terminalRun => run'.status = run.status

LEMMA SameCore ==
    ASSUME PassInv,
           UNCHANGED <<run, open, cancelling, awaited, settled, call, loop, driver>>
    PROVE  PassInv' /\ StatusStays
BY DEF PassInv, OpenPass, LoopWaits, CallsCancel, SettledRow, StatusStays

LEMMA EngineTurnPass ==
    ASSUME TypeOK, PassInv, EngineTurn, UNCHANGED loopVars
    PROVE  PassInv' /\ StatusStays
<1>1. ASSUME NEW n \in Nodes,
             \/ StartNode(n) \/ StartNodeWithoutExecutor(n) \/ SkipNode(n)
             \/ ConditionEvaluated(n) \/ (\E o \in Outcomes : GateEvaluated(n, o))
      PROVE  PassInv' /\ StatusStays
  BY <1>1, SameCore DEF StartNode, StartNodeWithoutExecutor, SkipNode, ConditionEvaluated,
     GateEvaluated, executorSettles, callVars, loopVars
<1>2. CASE FinishPass
  <2>1. /\ open /\ ~cancelling /\ run.status = "running" /\ run'.status = "waiting"
        /\ open' = FALSE /\ awaited' = FALSE /\ settled' = IF awaited THEN "waiting" ELSE "none"
        /\ UNCHANGED <<call, loop, driver>>
    BY <1>2 DEF FinishPass, dropPass, setRunStatus, PassInv, OpenPass, TypeOK, loopVars
  <2>2. \A c \in Cancellers : call[c].pc = "idle"
    BY <2>1 DEF PassInv, CallsCancel
  <2> QED BY <2>1, <2>2 DEF PassInv, OpenPass, LoopWaits, CallsCancel, SettledRow,
          StatusStays, terminalRun, RunOver
<1>3. ASSUME NEW c \in Cancellers, NEW n \in Nodes,
             CancelAgentStep(c, n) \/ CancelAgentStepReturns(c, n) \/ CancelStep(c, n)
      PROVE  PassInv' /\ StatusStays
  <2>1. /\ call[c].pc # "idle"
        /\ \A d \in Cancellers \ {c} : call'[d] = call[d]
        /\ UNCHANGED <<run, open, cancelling, awaited, settled, loop, driver>>
    BY <1>3 DEF CancelAgentStep, CancelAgentStepReturns, CancelStep, TypeOK,
       rowVars, passVars, loopVars
  <2> QED BY <2>1 DEF PassInv, OpenPass, LoopWaits, CallsCancel, SettledRow, StatusStays
<1>4. ASSUME NEW c \in Cancellers, CancelEnd(c)
      PROVE  PassInv' /\ StatusStays
  <2>1. /\ call[c].pc # "idle" /\ run'.status = "cancelled" /\ open' = FALSE
        /\ awaited' = FALSE /\ settled' = IF awaited THEN "cancelled" ELSE settled
        /\ UNCHANGED <<loop, driver>>
    BY <1>4 DEF CancelEnd, dropPass, setRunStatus, TypeOK, loopVars
  <2>2. run.status = "cancelled" \/ open
    BY <2>1 DEF PassInv, CallsCancel
  <2> QED BY <2>1, <2>2 DEF PassInv, OpenPass, LoopWaits, CallsCancel, SettledRow,
          StatusStays, terminalRun, RunOver
<1> QED BY <1>1, <1>2, <1>3, <1>4 DEF EngineTurn

LEMMA CancelPassPass ==
    ASSUME TypeOK, PassInv, NEW c \in Cancellers, CancelPass(c), UNCHANGED <<loop, driver>>
    PROVE  PassInv' /\ StatusStays
<1>1. /\ open /\ cancelling'
      /\ UNCHANGED <<run, open, awaited, settled, loop, driver>>
  BY DEF CancelPass, rowVars
<1> QED BY <1>1 DEF PassInv, OpenPass, LoopWaits, CallsCancel, SettledRow, StatusStays

\* A run nobody is closing, and whose pass, if any, is settled.
LEMMA AtEase ==
    ASSUME PassInv, ~open, run.status # "cancelled"
    PROVE  \A c \in Cancellers : call[c].pc = "idle"
BY DEF PassInv, CallsCancel

LEMMA OutsidePass ==
    ASSUME Scope, TypeOK, PassInv, Quiet, loop # "body",
           \/ EngineOutside /\ UNCHANGED loopVars
           \/ Iterate \/ Begin \/ ConfirmCriteria \/ Dispose
    PROVE  PassInv' /\ StatusStays
<1>1. settled = "none"
  BY DEF Quiet
<1>2. CASE Answers /\ UNCHANGED loopVars
  BY <1>2, SameCore DEF Answers, AgentLaunched, LaunchFailed, AgentMissed, ProcessEnds,
     ConfirmShellStep, ResolveStep, executorSettles, rowVars, passVars, callVars, loopVars
<1>3. ASSUME NEW c \in Cancellers, CancelRow(c), UNCHANGED loopVars
      PROVE  PassInv' /\ StatusStays
  <2>1. ~open /\ ~terminalRun /\ run'.status = "cancelled"
    BY <1>3 DEF CancelRow, Scope, setRunStatus, TypeOK
  <2>2. UNCHANGED <<open, cancelling, awaited, settled, call, loop, driver>>
    BY <1>3 DEF CancelRow, passVars, callVars, loopVars
  <2> QED BY <1>1, <2>1, <2>2
          DEF PassInv, OpenPass, LoopWaits, CallsCancel, SettledRow, StatusStays
<1>4. ASSUME NEW c \in Cancellers, CancelPass(c), UNCHANGED loopVars
      PROVE  PassInv' /\ StatusStays
  BY <1>4, CancelPassPass DEF loopVars
<1>5. CASE Complete /\ UNCHANGED loopVars
  <2>1. /\ run.status = "needs_user_review" /\ run'.status = "completed" /\ open' = FALSE
        /\ UNCHANGED <<awaited, settled, call, loop, driver>>
    BY <1>5 DEF Complete, dropPass, setRunStatus, TypeOK, callVars, loopVars
  <2>2. ~open
    BY <2>1 DEF PassInv, OpenPass
  <2>3. \A c \in Cancellers : call[c].pc = "idle"
    BY <2>1, <2>2, AtEase
  <2> QED BY <1>1, <2>1, <2>2, <2>3 DEF PassInv, OpenPass, LoopWaits, CallsCancel,
          SettledRow, StatusStays, terminalRun, RunOver
<1>6. CASE Iterate
  <2>1. /\ loop = "idle" /\ loop' = "body" /\ driver # "hand" /\ driver' = "loop"
        /\ UNCHANGED <<run, open, cancelling, awaited, settled, call>>
    BY <1>6 DEF Iterate, Scope, TypeOK, engineVars, rowVars, passVars, callVars
  <2> QED BY <1>1, <2>1 DEF PassInv, OpenPass, LoopWaits, CallsCancel, SettledRow,
          StatusStays, TypeOK
<1>7. CASE Begin
  <2>1. /\ ~open /\ ~terminalRun /\ run'.status = "running" /\ open' = TRUE
        /\ awaited' = FALSE /\ driver # "loop" /\ driver' = "hand"
        /\ UNCHANGED <<settled, call, loop>>
    BY <1>7 DEF Begin, canBegin, beginPass, setRunStatus, Scope, TypeOK
  <2>2. \A c \in Cancellers : call[c].pc = "idle"
    BY <2>1, AtEase DEF terminalRun, RunOver
  <2> QED BY <1>1, <2>1, <2>2
          DEF PassInv, OpenPass, LoopWaits, CallsCancel, SettledRow, StatusStays
<1>8. CASE ConfirmCriteria
  BY <1>8, SameCore DEF ConfirmCriteria, engineVars, rowVars, passVars, callVars
<1>9. CASE Dispose
  <2>1. CASE open /\ ~terminalRun
    BY <1>9, <2>1, GraphAssumption, CancelPassPass DEF Dispose
  <2>2. CASE ~(open /\ ~terminalRun)
    BY <1>9, <2>2, SameCore DEF Dispose, engineVars, rowVars, passVars, callVars
  <2> QED BY <2>1, <2>2
<1> QED BY <1>2, <1>3, <1>4, <1>5, <1>6, <1>7, <1>8, <1>9 DEF EngineOutside

LEMMA LoopTurnPass ==
    ASSUME TypeOK, PassInv, LoopTurn
    PROVE  PassInv' /\ StatusStays
<1>1. ASSUME NEW s, run'.status = s, s # "cancelled" \/ run.status = "cancelled",
             ~terminalRun \/ s = run.status, ~open, ~awaited, settled' = "none",
             UNCHANGED <<open, cancelling, awaited, call, driver>>,
             loop' \in {"idle", "body"}, driver = "loop"
      PROVE  PassInv' /\ StatusStays
  <2>1. \A c \in Cancellers : call[c].pc # "idle" => run.status = "cancelled"
    BY <1>1 DEF PassInv, CallsCancel
  <2>2. run.status = "cancelled" => s = "cancelled"
    BY <1>1 DEF terminalRun, RunOver
  <2> QED BY <1>1, <2>1, <2>2
          DEF PassInv, OpenPass, LoopWaits, CallsCancel, SettledRow, StatusStays
<1>2. ASSUME loop = "body"
      PROVE  ~open /\ ~awaited /\ settled = "none" /\ driver = "loop"
  BY <1>2 DEF PassInv, LoopWaits
<1>3. ASSUME NEW s, settled = s, s # "none"
      PROVE  ~open /\ ~awaited /\ driver = "loop" /\ run.status = s
  BY <1>3 DEF PassInv, LoopWaits, SettledRow
<1>4. CASE RoundRefused
  BY <1>1, <1>2, <1>4
     DEF RoundRefused, engineVars, rowVars, passVars, execVars, callVars
<1>5. CASE CapBeforeRound
  <2>1. run'.status = "needs_user_review"
    BY <1>5, AnchoredType DEF CapBeforeRound, setRunStatus, Row
  <2> QED BY <1>1, <1>2, <1>5, <2>1 DEF CapBeforeRound, passVars, callVars
<1>6. CASE RoundNotPrepared
  <2>1. run'.status = (IF Dedicated THEN "failed" ELSE run.status)
    BY <1>6, AnchoredType DEF RoundNotPrepared, setRunStatus, Row
  <2>2. run.status # "cancelled"
    BY <1>6 DEF RoundNotPrepared, terminalRun, RunOver
  <2> QED BY <1>1, <1>2, <1>6, <2>1, <2>2 DEF RoundNotPrepared, passVars, callVars
<1>7. CASE RoundBegins
  <2>1. /\ loop = "body" /\ loop' = "inPass" /\ ~terminalRun /\ run'.status = "running"
        /\ open' = TRUE /\ awaited' = TRUE /\ UNCHANGED <<settled, call, driver>>
    BY <1>7, AnchoredType DEF RoundBegins, beginPass, setRunStatus, Row
  <2>2. ~open /\ settled = "none" /\ driver = "loop"
    BY <1>2, <2>1
  <2>3. \A c \in Cancellers : call[c].pc = "idle"
    BY <2>1, <2>2, AtEase DEF terminalRun, RunOver
  <2> QED BY <2>1, <2>2, <2>3
          DEF PassInv, OpenPass, LoopWaits, CallsCancel, SettledRow, StatusStays
<1>8. CASE PassRefused
  <2>1. run'.status = "failed"
    BY <1>8, AnchoredType DEF PassRefused, setRunStatus, Row
  <2> QED BY <1>1, <1>2, <1>8, <2>1 DEF PassRefused, passVars, callVars
<1>9. CASE RoundCancelled
  BY <1>1, <1>3, <1>9 DEF RoundCancelled, passSettled, loopUnchanged, rowVars, passVars
<1>10. CASE RoundApproved
  <2>1. run'.status = "completed" /\ run.status = "waiting"
    BY <1>3, <1>10 DEF RoundApproved, passSettled, setRunStatus, TypeOK
  <2> QED BY <1>1, <1>3, <1>10, <2>1
          DEF RoundApproved, passSettled, loopUnchanged, passVars, terminalRun, RunOver
<1>11. CASE CapAfterRound
  <2>1. run'.status = "needs_user_review" /\ run.status = "waiting"
    BY <1>3, <1>11, AdvancedType DEF CapAfterRound, passSettled, setRunStatus, TypeOK, Row
  <2> QED BY <1>1, <1>3, <1>11, <2>1
          DEF CapAfterRound, passSettled, loopUnchanged, passVars, terminalRun, RunOver
<1>12. CASE RoundRejected
  <2>1. run.status = "waiting" /\ run'.status \in {"waiting", "failed"}
    BY <1>3, <1>12, AdvancedType DEF RoundRejected, passSettled, setRunStatus, TypeOK, Row
  <2>2. loop' \in {"idle", "body"}
    BY <1>12 DEF RoundRejected
  <2> QED BY <1>1, <1>3, <1>12, <2>1, <2>2
          DEF RoundRejected, passSettled, loopUnchanged, passVars, terminalRun, RunOver
<1> QED BY <1>4, <1>5, <1>6, <1>7, <1>8, <1>9, <1>10, <1>11, <1>12 DEF LoopTurn

LEMMA NextPass ==
    ASSUME Scope, TypeOK, PassInv, [Next]_vars
    PROVE  PassInv' /\ StatusStays
<1>1. CASE UNCHANGED vars
  BY <1>1, SameCore DEF vars, engineVars, rowVars, passVars, callVars, loopVars
<1>2. CASE Next
  BY <1>2, EngineTurnPass, LoopTurnPass, OutsidePass DEF Next, Turn, Outside
<1> QED BY <1>1, <1>2

THEOREM PassInvariant == ASSUME Scope PROVE Spec => []PassInv
<1>1. Init => PassInv
  BY DEF Init, EngineInit, LoopInit, NoCall,
     PassInv, OpenPass, LoopWaits, CallsCancel, SettledRow
<1>2. TypeOK /\ PassInv /\ [Next]_vars => PassInv'
  BY NextPass
<1> QED BY <1>1, <1>2, TypeCorrect, PTL DEF Spec

\* While Scope holds, a run that is closed keeps its status and starts no step.
THEOREM ClosedStays == ASSUME Scope PROVE Spec => ClosedRunStaysClosed
<1>1. TypeOK /\ PassInv /\ [Next]_vars =>
        [terminalRun => /\ run'.status = run.status
                        /\ \A n \in Nodes : step'[n].status = "running"
                                              => step[n].status = "running"]_vars
  <2> SUFFICES ASSUME TypeOK, PassInv, [Next]_vars, terminalRun
               PROVE  StatusStays /\ NoneStarts
    BY DEF StatusStays, NoneStarts
  <2>1. ~open
    BY DEF PassInv, OpenPass, terminalRun, RunOver
  <2> QED BY <2>1, NextPass, NextRows
<1> QED BY <1>1, TypeCorrect, PassInvariant, PTL DEF Spec, ClosedRunStaysClosed

\* While Scope holds, a run parked for the user's review has no pass in the
\* engine, so complete() drops nothing that is at work.
THEOREM ParkedHasNoPass == ASSUME Scope PROVE Spec => []ParkedRunHasNoPass
<1>1. PassInv => ParkedRunHasNoPass
  BY DEF PassInv, OpenPass, ParkedRunHasNoPass
<1> QED BY <1>1, PassInvariant, PTL

(***************************************************************************)
(* The rows of an iteration follow the graph.  The inductive invariant ties *)
(* the pass's memory (done, activates, outcome) to the rows, the executors  *)
(* and the parked steps to the rows that are running, and each cancel call  *)
(* to the rows it has left behind.                                          *)
(***************************************************************************)
Over(n) == step[n].status \in StepOver

\* A node the pass has done has a row that is over; the others are under way.
\* Once the pass is gone only a cancel still in its loop touches the states.
NodeShape ==
    /\ \A n \in done : Over(n)
    /\ open \/ run.status = "cancelled" \/ done = {}
    /\ open => \A n \in Nodes \ done : step[n].status \in {"pending", "running"}

\* Between passes the iteration has not begun or all its rows are over.
RowsRest == ~open => \/ \A n \in Nodes : step[n].status = "none"
                     \/ \A n \in Nodes : Over(n)

\* What the pass remembers of a node is what its row says.
remembered(n) ==
    IF n \notin done THEN "none"
    ELSE IF past(n) THEN Positive(Kind[n])
    ELSE IF step[n].status \in {"completed", "failed"} THEN step[n].outcome ELSE "none"
Remembers(n) ==
    /\ outcome[n] = remembered(n)
    /\ n \in activates <=> n \in done /\ (past(n) \/ step[n].status = "completed")
Remembered == open /\ done # Nodes => \A n \in Nodes : Remembers(n)

\* An executor works for a step that is running; only one whose step a cancel
\* has marked outlives its row, and it is never an agent's.
ExecShape ==
    \A n \in Nodes : exec[n] # "none" =>
      \/ open /\ n \notin done /\ step[n].status = "running" /\ Kind[n] \in Executors
      \/ Kind[n] # "agent" /\ IF open THEN n \in done /\ cancelling
                                      ELSE run.status = "cancelled"

\* A parked step has no executor, and is running until it is settled.
ParkedShape ==
    \A n \in parked : /\ open /\ Kind[n] \notin Executors
                      /\ n \notin done => step[n].status = "running"

\* A cancel call leaves no row open behind it, and only ever waits for agents.
CallShape ==
    \A c \in Cancellers : call[c].pc # "idle" =>
      /\ \A n \in Nodes : step[n].status # "none" /\ (n \notin call[c].left => Over(n))
      /\ call[c].pc = "awaiting" => \A n \in call[c].node : Kind[n] = "agent"

\* The row of n is what its phase and the rows of its upstreams allow.
Follows(n) ==
    /\ step[n].status \in {"pending", "running", "completed", "failed"} => active(n)
    /\ step[n].status \in {"running", "completed", "failed"} =>
         \A d \in Needs[n] : Over(d[1]) /\ rowActivates(d)
    /\ step[n].status = "skipped" /\ active(n) =>
         \E d \in Needs[n] : Over(d[1]) /\ ~rowActivates(d)
    /\ step[n].status = "failed" => step[n].outcome = "failure"
FollowsGraph == \A n \in Nodes : Follows(n)

PassShape == NodeShape /\ RowsRest /\ Remembered
WorkShape == ExecShape /\ ParkedShape /\ CallShape
GraphInv == PassShape /\ WorkShape /\ FollowsGraph

\* The transition table, row by row.
LEMMA Transitions ==
    /\ STEP_TRANSITIONS["pending"] = {"running", "skipped", "cancelled"}
    /\ STEP_TRANSITIONS["running"] = {"completed", "failed", "cancelled"}
    /\ STEP_TRANSITIONS["none"] = {}
    /\ \A s \in StepOver : STEP_TRANSITIONS[s] = {}
BY DEF STEP_TRANSITIONS, StepStatus, StepOver

\* An upstream of a node is a node, and no edge waits for the outcome "none".
LEMMA UpstreamIsNode ==
    ASSUME NEW n \in Nodes, NEW d \in Needs[n]
    PROVE  d[1] \in Nodes /\ d[2] # "none"
<1>1. d \in Nodes \X ((Outcomes \ {"none"}) \cup {"any"})
  BY GraphAssumption
<1> QED BY <1>1

\* What the phases and the edges say does not change while the iteration and
\* the upstream rows stay.
LEMMA PhaseStays ==
    ASSUME run'.iteration = run.iteration
    PROVE  \A n \in Nodes : active(n)' = active(n) /\ past(n)' = past(n)
BY DEF active, past

LEMMA EdgeStays ==
    ASSUME run'.iteration = run.iteration, OverStays, NEW n \in Nodes, NEW d \in Needs[n],
           Over(d[1])
    PROVE  Over(d[1])' /\ rowActivates(d)' = rowActivates(d)
<1>1. step'[d[1]] = step[d[1]] /\ d[1] \in Nodes
  BY UpstreamIsNode DEF OverStays, Over
<1>2. past(d[1])' = past(d[1])
  BY <1>1, PhaseStays
<1> QED BY <1>1, <1>2 DEF rowActivates, Over

\* The rows keep following the graph when a row only ever ends.
LEMMA FollowsStays ==
    ASSUME FollowsGraph, run'.iteration = run.iteration, OverStays,
           \A n \in Nodes :
             \/ step'[n] = step[n]
             \/ step'[n].status = "cancelled"
             \/ /\ step[n].status = "running" /\ step'[n].status \in {"completed", "failed"}
                /\ step'[n].status = "failed" => step'[n].outcome = "failure"
    PROVE  FollowsGraph'
<1> SUFFICES ASSUME NEW n \in Nodes PROVE Follows(n)'
  BY DEF FollowsGraph
<1>1. Follows(n) /\ active(n)' = active(n)
  BY PhaseStays DEF FollowsGraph
<1>2. \A d \in Needs[n] : Over(d[1]) => Over(d[1])' /\ rowActivates(d)' = rowActivates(d)
  BY EdgeStays
<1>3. CASE step'[n] = step[n]
  BY <1>1, <1>2, <1>3 DEF Follows
<1>4. CASE step'[n].status = "cancelled"
  BY <1>4 DEF Follows
<1>5. CASE /\ step[n].status = "running" /\ step'[n].status \in {"completed", "failed"}
           /\ step'[n].status = "failed" => step'[n].outcome = "failure"
  BY <1>1, <1>2, <1>5 DEF Follows
<1> QED BY <1>3, <1>4, <1>5

LEMMA FollowsUnchanged ==
    ASSUME FollowsGraph, run'.iteration = run.iteration, UNCHANGED step
    PROVE  FollowsGraph'
BY FollowsStays, UnchangedRows

\* A node the pass has not done is of this phase.
LEMMA UndoneIsActive ==
    ASSUME GraphInv, open, NEW n \in Nodes \ done
    PROVE  active(n) /\ ~past(n)
<1>1. active(n)
  BY DEF GraphInv, PassShape, NodeShape, FollowsGraph, Follows
<1>2. past(n) => ~active(n)
  BY DEF past, active
<1> QED BY <1>1, <1>2

\* The pass's memory of the edges agrees with the rows.
LEMMA EdgesAgree ==
    ASSUME GraphInv, open, NEW n \in Nodes, NEW d \in Needs[n], d[1] \in done, done # Nodes
    PROVE  Over(d[1]) /\ (edgeActivated(d) <=> rowActivates(d))
<1>1. d[1] \in Nodes /\ d[2] # "none"
  BY UpstreamIsNode
<1>2. Over(d[1]) /\ Remembers(d[1])
  BY <1>1 DEF GraphInv, PassShape, NodeShape, Remembered
<1> QED BY <1>1, <1>2 DEF Remembers, remembered, edgeActivated, rowActivates

(***************************************************************************)
(* What settling a node, marking it and dropping the pass do to the parts   *)
(* of the invariant.                                                        *)
(***************************************************************************)

LEMMA CallsKept ==
    ASSUME CallShape, UNCHANGED call,
           \A m \in Nodes : /\ step[m].status # "none" => step'[m].status # "none"
                            /\ Over(m) => Over(m)'
    PROVE  CallShape'
BY DEF CallShape

LEMMA SettleNodeEffect ==
    ASSUME TypeOK, NEW n \in Nodes, NEW o \in Outcomes, settleNode(n, o),
           open /\ n \notin done => step[n].status = "running"
    PROVE  \/ UNCHANGED <<done, outcome, activates, step>>
           \/ /\ open /\ n \notin done /\ step[n].status = "running"
              /\ done' = done \cup {n}
              /\ outcome' = [outcome EXCEPT ![n] = o]
              /\ activates' = IF o = "failure" THEN activates ELSE activates \cup {n}
              /\ step' = [step EXCEPT ![n] =
                            [status |-> IF o = "failure" THEN "failed" ELSE "completed",
                             outcome |-> o]]
BY Transitions DEF settleNode, transitioned

LEMMA SettleNodeShape ==
    ASSUME TypeOK, GraphInv, NEW n \in Nodes, NEW o \in Outcomes, settleNode(n, o),
           open /\ n \notin done => step[n].status = "running",
           UNCHANGED <<run, open>>
    PROVE  /\ PassShape' /\ FollowsGraph'
           /\ \A m \in Nodes : /\ step[m].status # "none" => step'[m].status # "none"
                               /\ Over(m) => Over(m)'
           /\ \A m \in Nodes \ {n} : step'[m] = step[m] /\ (m \in done' <=> m \in done)
           /\ n \in done => n \in done'
           /\ n \in done' => n \in done \/ open
<1>1. CASE UNCHANGED <<done, outcome, activates, step>>
  <2>1. PassShape'
    BY <1>1 DEF GraphInv, PassShape, NodeShape, RowsRest, Remembered, Remembers, remembered,
       Over, past
  <2>2. FollowsGraph'
    BY <1>1, FollowsUnchanged DEF GraphInv
  <2> QED BY <1>1, <2>1, <2>2 DEF Over
<1>2. CASE /\ open /\ n \notin done /\ step[n].status = "running"
           /\ done' = done \cup {n}
           /\ outcome' = [outcome EXCEPT ![n] = o]
           /\ activates' = IF o = "failure" THEN activates ELSE activates \cup {n}
           /\ step' = [step EXCEPT ![n] =
                         [status |-> IF o = "failure" THEN "failed" ELSE "completed",
                          outcome |-> o]]
  <2>1. /\ step'[n].status = IF o = "failure" THEN "failed" ELSE "completed"
        /\ step'[n].outcome = o /\ Over(n)'
        /\ \A m \in Nodes \ {n} : step'[m] = step[m]
    BY <1>2 DEF TypeOK, Over, StepOver
  <2>2. OverStays
    BY SettleNodeRows
  <2>3. FollowsGraph'
    BY <1>2, <2>1, <2>2, FollowsStays DEF GraphInv
  <2>4. NodeShape' /\ RowsRest'
    BY <1>2, <2>1 DEF GraphInv, PassShape, NodeShape, RowsRest, Over
  <2>5. Remembered'
    <3> SUFFICES ASSUME NEW m \in Nodes PROVE Remembers(m)'
      BY DEF Remembered
    <3>1. past(m)' = past(m) /\ ~past(n) /\ done # Nodes
      BY <1>2, PhaseStays, UndoneIsActive
    <3>2. Remembers(m) /\ Remembers(n)
      BY <1>2, <3>1 DEF GraphInv, PassShape, Remembered
    <3>3. CASE m # n
      BY <1>2, <2>1, <3>1, <3>2, <3>3 DEF Remembers, remembered, TypeOK
    <3>4. CASE m = n
      BY <1>2, <2>1, <3>1, <3>2, <3>4 DEF Remembers, remembered, TypeOK
    <3> QED BY <3>3, <3>4
  <2> QED BY <1>2, <2>1, <2>3, <2>4, <2>5 DEF PassShape, Over, StepOver
<1> QED BY <1>1, <1>2, SettleNodeEffect

LEMMA ExecutorSettlesShape ==
    ASSUME TypeOK, GraphInv, NEW n \in Nodes, NEW o \in Outcomes, exec[n] # "none",
           executorSettles(n, o)
    PROVE  GraphInv'
<1>1. /\ exec' = [exec EXCEPT ![n] = "none"] /\ settleNode(n, o)
      /\ UNCHANGED <<run, open, cancelling, parked, call>>
  BY DEF executorSettles, callVars
<1>2. open /\ n \notin done => step[n].status = "running" /\ Kind[n] \in Executors
  BY DEF GraphInv, WorkShape, ExecShape
<1>3. /\ PassShape' /\ FollowsGraph'
      /\ \A m \in Nodes : /\ step[m].status # "none" => step'[m].status # "none"
                          /\ Over(m) => Over(m)'
      /\ \A m \in Nodes \ {n} : step'[m] = step[m] /\ (m \in done' <=> m \in done)
      /\ n \in done => n \in done'
      /\ n \in done' => n \in done \/ open
  BY <1>1, <1>2, SettleNodeShape
<1>4. ExecShape'
  BY <1>1, <1>3 DEF GraphInv, WorkShape, ExecShape, TypeOK
<1>5. ParkedShape'
  <2> SUFFICES ASSUME NEW m \in parked
               PROVE  /\ open' /\ Kind[m] \notin Executors
                      /\ m \notin done' => step'[m].status = "running"
    BY <1>1 DEF ParkedShape
  <2>1. /\ m \in Nodes /\ open /\ Kind[m] \notin Executors
        /\ m \notin done => step[m].status = "running"
    BY DEF GraphInv, WorkShape, ParkedShape, TypeOK
  <2>2. CASE m # n
    BY <1>1, <1>3, <2>1, <2>2
  <2>3. CASE m = n
    BY <1>1, <1>2, <1>3, <2>1, <2>3 DEF settleNode
  <2> QED BY <2>2, <2>3
<1>6. CallShape'
  BY <1>1, <1>3, CallsKept DEF GraphInv, WorkShape
<1> QED BY <1>3, <1>4, <1>5, <1>6 DEF GraphInv, WorkShape

\* A node the pass starts, fails at once or skips has all its upstreams done.
LEMMA SchedulableNode ==
    ASSUME GraphInv, open, NEW n \in Nodes, schedulable(n)
    PROVE  /\ active(n) /\ ~past(n) /\ done # Nodes
           /\ \A d \in Needs[n] : Over(d[1]) /\ (edgeActivated(d) <=> rowActivates(d))
<1>1. n \notin done /\ done # Nodes /\ \A d \in Needs[n] : d[1] \in done
  BY DEF schedulable
<1> QED BY <1>1, UndoneIsActive, EdgesAgree

\* One row of an open pass moves from pending, the others stay.
LEMMA FollowsStarted ==
    ASSUME TypeOK, GraphInv, open, NEW n \in Nodes, schedulable(n), run' = run,
           NEW row, step' = [step EXCEPT ![n] = row],
           \/ row.status = "running" /\ edgesActivated(n)
           \/ row.status = "failed" /\ row.outcome = "failure" /\ edgesActivated(n)
           \/ row.status = "skipped" /\ ~edgesActivated(n)
    PROVE  /\ FollowsGraph' /\ step'[n] = row
           /\ \A m \in Nodes : Over(m) => step'[m] = step[m] /\ Over(m)'
           /\ \A m \in Nodes \ {n} : step'[m] = step[m]
           /\ \A m \in Nodes : step[m].status # "none" => step'[m].status # "none"
<1>1. /\ step'[n] = row /\ \A m \in Nodes \ {n} : step'[m] = step[m]
      /\ step[n].status = "pending" /\ ~Over(n)
  BY DEF TypeOK, schedulable, Over, StepOver
<1>2. OverStays /\ run'.iteration = run.iteration
  BY <1>1 DEF OverStays, Over
<1>3. FollowsGraph'
  <2> SUFFICES ASSUME NEW m \in Nodes PROVE Follows(m)'
    BY DEF FollowsGraph
  <2>1. Follows(m) /\ active(m)' = active(m)
    BY <1>2, PhaseStays DEF GraphInv, FollowsGraph
  <2>2. \A d \in Needs[m] : Over(d[1]) => Over(d[1])' /\ rowActivates(d)' = rowActivates(d)
    BY <1>2, EdgeStays
  <2>3. CASE m # n
    BY <1>1, <2>1, <2>2, <2>3 DEF Follows
  <2>4. CASE m = n
    <3>1. active(m) /\ \A d \in Needs[m] : Over(d[1]) /\ (edgeActivated(d) <=> rowActivates(d))
      BY <2>4, SchedulableNode
    <3>2. step'[m] = row
      BY <1>1, <2>4
    <3> QED BY <2>1, <2>2, <2>4, <3>1, <3>2 DEF Follows, edgesActivated
  <2> QED BY <2>3, <2>4
<1>4. \A m \in Nodes : Over(m) => step'[m] = step[m] /\ Over(m)'
  BY <1>1 DEF Over
<1> QED BY <1>1, <1>3, <1>4

LEMMA StartNodeShape ==
    ASSUME TypeOK, GraphInv, NEW n \in Nodes, StartNode(n)
    PROVE  GraphInv'
<1> DEFINE row == [status |-> "running", outcome |-> "none"]
<1>1. /\ open /\ ~cancelling /\ schedulable(n) /\ n \notin done /\ edgesActivated(n)
      /\ step[n].status = "pending"
      /\ UNCHANGED <<run, open, cancelling, done, activates, outcome, call>>
  BY DEF StartNode, schedulable, callVars
<1>2. step' = [step EXCEPT ![n] = row] /\ row.status = "running"
  BY <1>1, Transitions DEF StartNode, transitioned
<1> HIDE DEF row
<1>3. /\ FollowsGraph' /\ step'[n].status = "running"
      /\ \A m \in Nodes : Over(m) => step'[m] = step[m] /\ Over(m)'
      /\ \A m \in Nodes \ {n} : step'[m] = step[m]
      /\ \A m \in Nodes : step[m].status # "none" => step'[m].status # "none"
  BY <1>1, <1>2, FollowsStarted
<1>4. PassShape'
  <2>1. NodeShape' /\ RowsRest'
    BY <1>1, <1>3 DEF GraphInv, PassShape, NodeShape, RowsRest, TypeOK
  <2>2. \A m \in Nodes : Remembers(m) /\ past(m)' = past(m)
    BY <1>1, PhaseStays DEF GraphInv, PassShape, Remembered
  <2>3. \A m \in Nodes : Remembers(m)'
    BY <1>1, <1>3, <2>2, UndoneIsActive DEF Remembers, remembered
  <2> QED BY <2>1, <2>3 DEF PassShape, Remembered
<1>5. ExecShape'
  <2> SUFFICES ASSUME NEW m \in Nodes, exec'[m] # "none"
               PROVE  open /\ m \notin done /\ step'[m].status = "running" /\ Kind[m] \in Executors
    BY <1>1 DEF ExecShape
  <2>1. CASE m = n /\ Kind[n] \in Executors
    BY <1>1, <1>3, <2>1
  <2>2. CASE m # n \/ Kind[n] \notin Executors
    <3>1. exec[m] # "none"
      BY <2>2 DEF StartNode, TypeOK
    <3>2. m \notin done /\ step[m].status = "running" /\ Kind[m] \in Executors
      BY <1>1, <3>1 DEF GraphInv, WorkShape, ExecShape
    <3> QED BY <1>1, <1>3, <3>2
  <2> QED BY <2>1, <2>2
<1>6. ParkedShape'
  BY <1>1, <1>3 DEF StartNode, GraphInv, WorkShape, ParkedShape, TypeOK
<1>7. CallShape'
  BY <1>1, <1>3, CallsKept DEF GraphInv, WorkShape
<1> QED BY <1>3, <1>4, <1>5, <1>6, <1>7 DEF GraphInv, PassShape, WorkShape

\* A node whose row goes from pending to over in one turn.
LEMMA EndsAtOnceShape ==
    ASSUME TypeOK, GraphInv, NEW n \in Nodes, open, schedulable(n), NEW row,
           step' = [step EXCEPT ![n] = row],
           \/ row.status = "failed" /\ row.outcome = "failure" /\ edgesActivated(n)
                /\ outcome' = [outcome EXCEPT ![n] = "failure"]
           \/ row.status = "skipped" /\ ~edgesActivated(n) /\ outcome' = outcome,
           done' = done \cup {n},
           UNCHANGED <<run, open, cancelling, activates, parked, exec, call>>
    PROVE  GraphInv'
<1>1. /\ FollowsGraph' /\ step'[n] = row
      /\ \A m \in Nodes : Over(m) => step'[m] = step[m] /\ Over(m)'
      /\ \A m \in Nodes \ {n} : step'[m] = step[m]
      /\ \A m \in Nodes : step[m].status # "none" => step'[m].status # "none"
  BY FollowsStarted
<1>2. n \notin done /\ step[n].status = "pending" /\ Over(n)' /\ ~past(n) /\ done # Nodes
  BY <1>1, SchedulableNode DEF schedulable, Over, StepOver
<1>3. PassShape'
  <2>1. NodeShape' /\ RowsRest'
    BY <1>1, <1>2 DEF GraphInv, PassShape, NodeShape, RowsRest, TypeOK
  <2>2. \A m \in Nodes : Remembers(m) /\ past(m)' = past(m)
    BY <1>2, PhaseStays DEF GraphInv, PassShape, Remembered
  <2>3. ASSUME NEW m \in Nodes PROVE Remembers(m)'
    <3>1. CASE m # n
      BY <1>1, <2>2, <3>1 DEF Remembers, remembered, TypeOK
    <3>2. CASE m = n
      BY <1>1, <1>2, <2>2, <3>2 DEF Remembers, remembered, TypeOK
    <3> QED BY <3>1, <3>2
  <2> QED BY <2>1, <2>3 DEF PassShape, Remembered
<1>4. exec[n] = "none" /\ n \notin parked
  BY <1>2 DEF GraphInv, WorkShape, ExecShape, ParkedShape
<1>5. ExecShape' /\ ParkedShape'
  BY <1>1, <1>4 DEF GraphInv, WorkShape, ExecShape, ParkedShape, TypeOK
<1>6. CallShape'
  BY <1>1, CallsKept DEF GraphInv, WorkShape
<1> QED BY <1>1, <1>3, <1>5, <1>6 DEF GraphInv, WorkShape

LEMMA StartNodeWithoutExecutorShape ==
    ASSUME TypeOK, GraphInv, NEW n \in Nodes, StartNodeWithoutExecutor(n)
    PROVE  GraphInv'
<1> DEFINE row == [status |-> "failed", outcome |-> "failure"]
<1>1. step[n].status = "pending" /\ open /\ schedulable(n) /\ edgesActivated(n)
  BY DEF StartNodeWithoutExecutor, schedulable
<1>2. transitioned(step, n, "running", "none")
        = [step EXCEPT ![n] = [status |-> "running", outcome |-> "none"]]
  BY <1>1, Transitions DEF transitioned
<1>3. step' = [step EXCEPT ![n] = row]
  <2>1. transitioned(step, n, "running", "none")[n].status = "running"
    BY <1>2 DEF TypeOK
  <2>2. step' = [transitioned(step, n, "running", "none") EXCEPT ![n] = row]
    BY <2>1, Transitions DEF StartNodeWithoutExecutor, transitioned
  <2> QED BY <1>2, <2>2 DEF TypeOK
<1>4. row.status = "failed" /\ row.outcome = "failure"
  OBVIOUS
<1> HIDE DEF row
<1> QED BY <1>1, <1>3, <1>4, EndsAtOnceShape DEF StartNodeWithoutExecutor, execVars, callVars

LEMMA SkipNodeShape ==
    ASSUME TypeOK, GraphInv, NEW n \in Nodes, SkipNode(n)
    PROVE  GraphInv'
<1> DEFINE row == [status |-> "skipped", outcome |-> "none"]
<1>1. step[n].status = "pending" /\ open /\ schedulable(n) /\ ~edgesActivated(n)
  BY DEF SkipNode, schedulable
<1>2. step' = [step EXCEPT ![n] = row] /\ row.status = "skipped"
  BY <1>1, Transitions DEF SkipNode, transitioned
<1> HIDE DEF row
<1> QED BY <1>1, <1>2, EndsAtOnceShape DEF SkipNode, execVars, callVars

\* The pass leaves the map with every row over and no agent at work.
LEMMA DropPassShape ==
    ASSUME TypeOK, GraphInv, dropPass, UNCHANGED <<step, exec>>,
           run'.iteration = run.iteration,
           open => \A n \in Nodes : Over(n),
           run'.status = "cancelled" \/ \A n \in Nodes : exec[n] = "none",
           CallShape'
    PROVE  GraphInv'
<1>1. /\ open' = FALSE /\ done' = {} /\ parked' = {}
  BY DEF dropPass
<1>2. RowsRest'
  BY <1>1 DEF GraphInv, PassShape, RowsRest, Over
<1>3. NodeShape' /\ Remembered' /\ ParkedShape'
  BY <1>1 DEF NodeShape, Remembered, ParkedShape
<1>4. ExecShape'
  BY <1>1 DEF GraphInv, WorkShape, ExecShape, Over, StepOver
<1>5. FollowsGraph'
  BY FollowsUnchanged DEF GraphInv
<1> QED BY <1>2, <1>3, <1>4, <1>5 DEF GraphInv, PassShape, WorkShape

LEMMA FinishPassShape ==
    ASSUME TypeOK, GraphInv, FinishPass
    PROVE  GraphInv'
<1>1. /\ open /\ ~cancelling /\ done = Nodes /\ dropPass /\ UNCHANGED <<step, exec, call>>
      /\ run'.iteration = run.iteration
  BY DEF FinishPass, setRunStatus, TypeOK
<1>2. \A n \in Nodes : Over(n)
  BY <1>1 DEF GraphInv, PassShape, NodeShape
<1>3. \A n \in Nodes : exec[n] = "none"
  BY <1>1 DEF GraphInv, WorkShape, ExecShape
<1>4. CallShape'
  BY <1>1, CallsKept DEF GraphInv, WorkShape, Over
<1> QED BY <1>1, <1>2, <1>3, <1>4, DropPassShape

LEMMA CancelEndShape ==
    ASSUME TypeOK, GraphInv, NEW c \in Cancellers, CancelEnd(c)
    PROVE  GraphInv'
<1>1. /\ call[c].pc = "looping" /\ call[c].left = {} /\ dropPass /\ UNCHANGED <<step, exec>>
      /\ run'.iteration = run.iteration /\ run'.status = "cancelled"
      /\ call' = [call EXCEPT ![c] = NoCall]
  BY DEF CancelEnd, setRunStatus, TypeOK
<1>2. \A n \in Nodes : Over(n)
  BY <1>1 DEF GraphInv, WorkShape, CallShape
<1>3. CallShape'
  BY <1>1 DEF GraphInv, WorkShape, CallShape, NoCall, TypeOK, Over
<1> QED BY <1>1, <1>2, <1>3, DropPassShape

\* Marking a node in cancel(): its row is over afterwards and no other changes.
LEMMA MarkCancelledShape ==
    ASSUME TypeOK, GraphInv, NEW n \in Nodes, markCancelled(n),
           \A m \in Nodes : step[m].status # "none",
           open \/ run.status = "cancelled",
           UNCHANGED <<run, open, activates, outcome>>
    PROVE  /\ PassShape' /\ FollowsGraph' /\ Over(n)'
           /\ done' = done \cup {n}
           /\ \A m \in Nodes \ {n} : step'[m] = step[m]
           /\ \A m \in Nodes : /\ step'[m].status # "none"
                               /\ Over(m) => Over(m)'
<1>1. done' = done \cup {n}
  BY DEF markCancelled
<1>2. CASE Over(n)
  <2>1. step' = step
    BY <1>2, Transitions DEF markCancelled, transitioned, Over
  <2>2. FollowsGraph'
    BY <2>1, FollowsUnchanged DEF GraphInv
  <2>3. NodeShape' /\ RowsRest'
    BY <1>1, <1>2, <2>1 DEF GraphInv, PassShape, NodeShape, RowsRest, Over
  <2>4. Remembered'
    <3> SUFFICES ASSUME open, done' # Nodes, NEW m \in Nodes PROVE Remembers(m)'
      BY DEF Remembered
    <3>1. n \in done
      BY <1>2 DEF GraphInv, PassShape, NodeShape, Over, StepOver
    <3>2. Remembers(m) /\ past(m)' = past(m) /\ done' = done
      BY <1>1, <3>1, PhaseStays DEF GraphInv, PassShape, Remembered
    <3> QED BY <2>1, <3>2 DEF Remembers, remembered
  <2> QED BY <1>1, <1>2, <2>1, <2>2, <2>3, <2>4 DEF PassShape, Over
<1>3. CASE ~Over(n)
  <2>1. open /\ n \notin done /\ step[n].status \in {"pending", "running"}
    BY <1>3 DEF GraphInv, PassShape, NodeShape, RowsRest
  <2>2. step' = [step EXCEPT ![n] = [status |-> "cancelled", outcome |-> "none"]]
    BY <2>1, Transitions DEF markCancelled, transitioned
  <2>3. /\ step'[n].status = "cancelled" /\ \A m \in Nodes \ {n} : step'[m] = step[m]
    BY <2>2 DEF TypeOK
  <2>4. FollowsGraph'
    BY <2>3, MarkCancelledRows, FollowsStays DEF GraphInv
  <2>5. NodeShape' /\ RowsRest'
    <3>1. Over(n)' /\ \A m \in Nodes \ {n} : Over(m) => Over(m)'
      BY <2>3 DEF Over, StepOver
    <3>2. RowsRest'
      BY <2>1 DEF RowsRest
    <3>3. NodeShape /\ done \subseteq Nodes
      BY DEF GraphInv, PassShape, TypeOK
    <3>4. NodeShape'
      BY <1>1, <2>1, <2>3, <3>1, <3>3 DEF NodeShape
    <3> QED BY <3>2, <3>4
  <2>6. Remembered'
    <3> SUFFICES ASSUME NEW m \in Nodes PROVE Remembers(m)'
      BY DEF Remembered
    <3>1. past(m)' = past(m) /\ ~past(n) /\ done # Nodes
      BY <2>1, PhaseStays, UndoneIsActive
    <3>2. Remembers(m) /\ Remembers(n)
      BY <2>1, <3>1 DEF GraphInv, PassShape, Remembered
    <3>3. CASE m # n
      BY <1>1, <2>3, <3>1, <3>2, <3>3 DEF Remembers, remembered
    <3>4. CASE m = n
      BY <1>1, <2>1, <2>3, <3>1, <3>2, <3>4 DEF Remembers, remembered
    <3> QED BY <3>3, <3>4
  <2> QED BY <1>1, <2>3, <2>4, <2>5, <2>6 DEF PassShape, Over, StepOver
<1> QED BY <1>2, <1>3

\* One node's turn in the loop of cancel().
LEMMA CancelTurnShape ==
    ASSUME TypeOK, GraphInv, NEW c \in Cancellers, NEW n \in Nodes, markCancelled(n),
           call[c].pc # "idle", open => cancelling, ~open => run.status = "cancelled",
           UNCHANGED <<run, open, cancelling, activates, outcome, parked>>,
           call' = [call EXCEPT ![c] = call'[c]],
           call'[c].left = call[c].left \ {n}, call'[c].pc = "looping",
           \A m \in Nodes : exec'[m] # "none" => exec[m] # "none",
           n \notin done /\ exec[n] # "none" => Kind[n] # "agent"
    PROVE  GraphInv'
<1>1. \A m \in Nodes : step[m].status # "none"
  BY DEF GraphInv, WorkShape, CallShape
<1>2. /\ PassShape' /\ FollowsGraph' /\ Over(n)'
      /\ done' = done \cup {n}
      /\ \A m \in Nodes \ {n} : step'[m] = step[m]
      /\ \A m \in Nodes : /\ step'[m].status # "none"
                          /\ Over(m) => Over(m)'
  BY <1>1, MarkCancelledShape
<1>3. ExecShape'
  <2> SUFFICES ASSUME NEW m \in Nodes, exec'[m] # "none"
               PROVE  \/ /\ open /\ m \notin done' /\ step'[m].status = "running"
                         /\ Kind[m] \in Executors
                      \/ Kind[m] # "agent" /\ IF open THEN m \in done' /\ cancelling
                                                      ELSE run.status = "cancelled"
    BY DEF ExecShape
  <2>1. \/ open /\ m \notin done /\ step[m].status = "running" /\ Kind[m] \in Executors
        \/ Kind[m] # "agent" /\ IF open THEN m \in done /\ cancelling
                                        ELSE run.status = "cancelled"
    BY DEF GraphInv, WorkShape, ExecShape
  <2>2. CASE m # n
    BY <1>2, <2>1, <2>2
  <2>3. CASE m = n
    BY <1>2, <2>1, <2>3
  <2> QED BY <2>2, <2>3
<1>4. ParkedShape'
  BY <1>2 DEF GraphInv, WorkShape, ParkedShape, TypeOK
<1>5. CallShape'
  <2> SUFFICES ASSUME NEW e \in Cancellers, call'[e].pc # "idle"
               PROVE  /\ \A m \in Nodes : /\ step'[m].status # "none"
                                          /\ m \notin call'[e].left => Over(m)'
                      /\ call'[e].pc = "awaiting" => \A m \in call'[e].node : Kind[m] = "agent"
    BY DEF CallShape
  <2>1. CASE e # c
    <3>1. call'[e] = call[e]
      BY <2>1 DEF TypeOK
    <3> QED BY <1>2, <3>1 DEF GraphInv, WorkShape, CallShape
  <2>2. CASE e = c
    BY <1>2, <2>2 DEF GraphInv, WorkShape, CallShape
  <2> QED BY <2>1, <2>2
<1> QED BY <1>2, <1>3, <1>4, <1>5 DEF GraphInv, WorkShape

\* While a call is in progress the pass is being cancelled or is gone.
LEMMA CallHoldsPass ==
    ASSUME PassInv, NEW c \in Cancellers, call[c].pc # "idle"
    PROVE  (open => cancelling) /\ (~open => run.status = "cancelled")
BY DEF PassInv, OpenPass, CallsCancel

LEMMA CancelAgentStepShape ==
    ASSUME TypeOK, GraphInv, NEW c \in Cancellers, NEW n \in Nodes, CancelAgentStep(c, n)
    PROVE  GraphInv'
<1>1. UNCHANGED <<run, step, open, cancelling, done, activates, outcome, parked, exec>>
  BY DEF CancelAgentStep, rowVars, passVars
<1>2. /\ call[c].pc = "looping" /\ Kind[n] = "agent"
      /\ call'[c].left = call[c].left /\ call'[c].node = {n}
      /\ \A e \in Cancellers \ {c} : call'[e] = call[e]
  BY DEF CancelAgentStep, TypeOK
<1>3. CallShape'
  <2>1. CallShape /\ \A m \in Nodes : Over(m)' <=> Over(m)
    BY <1>1 DEF GraphInv, WorkShape, Over
  <2> SUFFICES ASSUME NEW e \in Cancellers, call'[e].pc # "idle"
               PROVE  /\ \A m \in Nodes : /\ step'[m].status # "none"
                                          /\ m \notin call'[e].left => Over(m)'
                      /\ call'[e].pc = "awaiting" => \A m \in call'[e].node : Kind[m] = "agent"
    BY DEF CallShape
  <2>2. call[e].pc # "idle" /\ call'[e].left = call[e].left
    BY <1>2
  <2>3. \A m \in call'[e].node : call'[e].pc = "awaiting" => Kind[m] = "agent"
    BY <1>2, <2>1 DEF CallShape
  <2> QED BY <1>1, <2>1, <2>2, <2>3 DEF CallShape
<1>4. PassShape' /\ ExecShape' /\ ParkedShape'
  BY <1>1 DEF GraphInv, PassShape, WorkShape, NodeShape, RowsRest, Remembered, Remembers,
     remembered, ExecShape, ParkedShape, Over, past
<1>5. FollowsGraph'
  BY <1>1, FollowsUnchanged DEF GraphInv
<1> QED BY <1>3, <1>4, <1>5 DEF GraphInv, WorkShape

LEMMA CancelAgentStepReturnsShape ==
    ASSUME TypeOK, PassInv, GraphInv, NEW c \in Cancellers, NEW n \in Nodes,
           CancelAgentStepReturns(c, n)
    PROVE  GraphInv'
<1>1. /\ call[c].pc = "awaiting" /\ exec[n] = "none" /\ markCancelled(n)
      /\ call' = [call EXCEPT ![c] = call'[c]]
      /\ call'[c].left = call[c].left \ {n} /\ call'[c].pc = "looping"
      /\ UNCHANGED <<run, open, cancelling, activates, outcome, parked, exec>>
  BY DEF CancelAgentStepReturns, mayProceed, TypeOK, execVars
<1> QED BY <1>1, CallHoldsPass, CancelTurnShape

LEMMA CancelStepShape ==
    ASSUME TypeOK, PassInv, GraphInv, NEW c \in Cancellers, NEW n \in Nodes,
           CancelStep(c, n)
    PROVE  GraphInv'
<1>1. /\ call[c].pc = "looping" /\ markCancelled(n)
      /\ ~(n \notin done /\ hasCancel(n) /\ Kind[n] = "agent")
      /\ call' = [call EXCEPT ![c] = call'[c]]
      /\ call'[c].left = call[c].left \ {n} /\ call'[c].pc = "looping"
      /\ UNCHANGED <<run, open, cancelling, activates, outcome, parked>>
  BY DEF CancelStep, TypeOK
<1>2. \A m \in Nodes : exec'[m] # "none" => exec[m] # "none"
  BY DEF CancelStep, TypeOK, execVars
<1>3. n \notin done /\ exec[n] # "none" => Kind[n] # "agent"
  BY <1>1 DEF GraphInv, WorkShape, ExecShape, ParkedShape, hasCancel
<1> QED BY <1>1, <1>2, <1>3, CallHoldsPass, CancelTurnShape

\* Nothing of the pass and of the rows moves; at most an executor comes to rest.
LEMMA SameGraph ==
    ASSUME GraphInv, UNCHANGED <<step, open, cancelling, done, activates, outcome, parked, call>>,
           run'.iteration = run.iteration,
           open => run' = run,
           run.status = "cancelled" => run'.status = "cancelled",
           \A n \in Nodes : exec'[n] # "none" => exec[n] # "none"
    PROVE  GraphInv'
<1>1. \A n \in Nodes : past(n)' = past(n) /\ Over(n)' = Over(n)
  BY PhaseStays DEF Over
<1>2. NodeShape' /\ RowsRest'
  BY DEF GraphInv, PassShape, NodeShape, RowsRest, Over
<1>3. Remembered'
  BY <1>1 DEF GraphInv, PassShape, Remembered, Remembers, remembered
<1>4. ExecShape' /\ ParkedShape'
  BY DEF GraphInv, WorkShape, ExecShape, ParkedShape
<1>5. CallShape'
  BY <1>1, CallsKept DEF GraphInv, WorkShape
<1>6. FollowsGraph'
  BY FollowsUnchanged DEF GraphInv
<1> QED BY <1>2, <1>3, <1>4, <1>5, <1>6 DEF GraphInv, PassShape, WorkShape

\* A closed pass of a run nobody cancelled has left nothing behind.
LEMMA NothingLeft ==
    ASSUME PassInv, GraphInv, ~open, run.status # "cancelled"
    PROVE  /\ done = {} /\ parked = {}
           /\ \A n \in Nodes : exec[n] = "none"
           /\ \A c \in Cancellers : call[c].pc = "idle"
BY AtEase DEF GraphInv, PassShape, WorkShape, NodeShape, ExecShape, ParkedShape

\* A pass begins: it takes over the rows of an iteration that is through, or
\* sorts the nodes of a new one by their phase.
LEMMA BeginPassShape ==
    ASSUME TypeOK, PassInv, GraphInv, NEW row \in Row, NEW waits, beginPass(row, waits),
           row.iteration = run.iteration, ~open, ~terminalRun
    PROVE  GraphInv'
<1>1. /\ \A n \in Nodes : exec'[n] = "none"
      /\ \A c \in Cancellers : call'[c].pc = "idle"
      /\ open' = TRUE /\ parked' = {} /\ run'.iteration = run.iteration
  BY NothingLeft DEF beginPass, setRunStatus, terminalRun, RunOver, Row
<1>2. WorkShape'
  BY <1>1 DEF WorkShape, ExecShape, ParkedShape, CallShape
<1>3. CASE \A n \in Nodes : Over(n)
  <2>1. step' = step /\ done' = Nodes
    BY <1>3 DEF beginPass, existing, Over, TypeOK
  <2>2. NodeShape'
    BY <1>1, <1>3, <2>1 DEF NodeShape, Over
  <2>3. RowsRest' /\ Remembered'
    BY <1>1, <2>1 DEF RowsRest, Remembered
  <2>4. FollowsGraph'
    BY <1>1, <2>1, FollowsUnchanged DEF GraphInv
  <2> QED BY <1>2, <2>2, <2>3, <2>4 DEF GraphInv, PassShape
<1>4. CASE \A n \in Nodes : step[n].status = "none"
  <2>1. existing = {}
    BY <1>4 DEF existing, StepOver
  <2>2. \A n \in Nodes :
          /\ step'[n].status = IF active(n) THEN "pending" ELSE "skipped"
          /\ n \in done' <=> ~active(n)
          /\ n \in activates' <=> ~active(n) /\ past(n)
          /\ outcome'[n] = IF ~active(n) /\ past(n) THEN Positive(Kind[n]) ELSE "none"
    BY <2>1 DEF beginPass
  <2>3. done' \subseteq Nodes
    BY <2>1 DEF beginPass
  <2>4. NodeShape' /\ RowsRest'
    <3>1. \A n \in Nodes : /\ n \in done' => Over(n)'
                           /\ n \notin done' => step'[n].status = "pending"
      BY <2>2 DEF Over, StepOver
    <3> QED BY <1>1, <2>3, <3>1 DEF NodeShape, RowsRest, Over
  <2>5. Remembered'
    <3> SUFFICES ASSUME NEW n \in Nodes PROVE Remembers(n)'
      BY DEF Remembered
    <3>1. past(n)' = past(n)
      BY <1>1, PhaseStays
    <3> QED BY <2>2, <3>1 DEF Remembers, remembered
  <2>6. FollowsGraph'
    <3> SUFFICES ASSUME NEW n \in Nodes PROVE Follows(n)'
      BY DEF FollowsGraph
    <3>1. active(n)' = active(n)
      BY <1>1, PhaseStays
    <3> QED BY <2>2, <3>1 DEF Follows
  <2> QED BY <1>2, <2>4, <2>5, <2>6 DEF GraphInv, PassShape
<1> QED BY <1>3, <1>4 DEF GraphInv, PassShape, RowsRest

\* The iteration's rows are dropped while no pass is in the map.
LEMMA NewRowsShape ==
    ASSUME PassInv, GraphInv, ~open, run.status # "cancelled",
           step' = [n \in Nodes |-> NoRow],
           UNCHANGED <<open, cancelling, done, activates, outcome, parked, exec, call>>
    PROVE  GraphInv'
<1>1. /\ done' = {} /\ parked' = {} /\ ~open'
      /\ \A n \in Nodes : exec'[n] = "none"
      /\ \A c \in Cancellers : call'[c].pc = "idle"
  BY NothingLeft
<1>2. \A n \in Nodes : step'[n].status = "none"
  BY DEF NoRow
<1>3. PassShape'
  BY <1>1, <1>2 DEF PassShape, NodeShape, RowsRest, Remembered
<1>4. WorkShape'
  BY <1>1 DEF WorkShape, ExecShape, ParkedShape, CallShape
<1>5. FollowsGraph'
  BY <1>2 DEF FollowsGraph, Follows
<1> QED BY <1>3, <1>4, <1>5 DEF GraphInv

LEMMA CancelPassShape ==
    ASSUME TypeOK, GraphInv, NEW c \in Cancellers, CancelPass(c)
    PROVE  GraphInv'
<1>1. /\ open /\ cancelling'
      /\ call' = [call EXCEPT ![c] = [pc |-> "looping", left |-> Nodes, node |-> {}]]
      /\ UNCHANGED <<run, step, open, done, activates, outcome, parked, exec>>
  BY DEF CancelPass, rowVars, execVars
<1>2. PassShape'
  BY <1>1 DEF GraphInv, PassShape, NodeShape, RowsRest, Remembered, Remembers, remembered,
     Over, past
<1>3. ExecShape' /\ ParkedShape'
  BY <1>1 DEF GraphInv, WorkShape, ExecShape, ParkedShape
<1>4. \A n \in Nodes : step[n].status # "none"
  BY <1>1 DEF GraphInv, PassShape, NodeShape, Over, StepOver
<1>5. CallShape'
  BY <1>1, <1>4 DEF GraphInv, WorkShape, CallShape, TypeOK, Over
<1>6. FollowsGraph'
  BY <1>1, FollowsUnchanged DEF GraphInv
<1> QED BY <1>2, <1>3, <1>5, <1>6 DEF GraphInv, WorkShape

(***************************************************************************)
(* Every step preserves the invariant.                                      *)
(***************************************************************************)

LEMMA EngineTurnGraph ==
    ASSUME TypeOK, PassInv, GraphInv, EngineTurn
    PROVE  GraphInv'
<1>1. ASSUME NEW n \in Nodes, ConditionEvaluated(n)
      PROVE  GraphInv'
  <2>1. conditionOutcome(n) \in Outcomes /\ exec[n] # "none"
    BY <1>1, OutcomeValues DEF conditionOutcome, ConditionEvaluated
  <2> QED BY <1>1, <2>1, ExecutorSettlesShape DEF ConditionEvaluated
<1>2. ASSUME NEW n \in Nodes, NEW o \in Outcomes, GateEvaluated(n, o)
      PROVE  GraphInv'
  <2>1. exec[n] # "none"
    BY <1>2 DEF GateEvaluated
  <2> QED BY <1>2, <2>1, ExecutorSettlesShape DEF GateEvaluated
<1> QED BY <1>1, <1>2, StartNodeShape, StartNodeWithoutExecutorShape, SkipNodeShape,
        FinishPassShape, CancelAgentStepShape, CancelAgentStepReturnsShape,
        CancelStepShape, CancelEndShape DEF EngineTurn

LEMMA AnswersGraph ==
    ASSUME TypeOK, GraphInv, Answers
    PROVE  GraphInv'
<1>1. ASSUME NEW n \in Nodes, AgentLaunched(n) \/ AgentMissed(n)
      PROVE  GraphInv'
  <2>1. \A m \in Nodes : exec'[m] # "none" => exec[m] # "none"
    BY <1>1 DEF AgentLaunched, AgentMissed, TypeOK
  <2> QED BY <1>1, <2>1, SameGraph DEF AgentLaunched, AgentMissed, rowVars, passVars, callVars
<1>2. ASSUME NEW n \in Nodes, LaunchFailed(n)
      PROVE  GraphInv'
  <2>1. exec[n] # "none" /\ "failure" \in Outcomes
    BY <1>2, OutcomeValues DEF LaunchFailed
  <2> QED BY <1>2, <2>1, ExecutorSettlesShape DEF LaunchFailed
<1>3. ASSUME NEW n \in Nodes, NEW o \in Outcomes, ProcessEnds(n, o)
      PROVE  GraphInv'
  <2>1. exec[n] # "none"
    BY <1>3 DEF ProcessEnds
  <2> QED BY <1>3, <2>1, ExecutorSettlesShape DEF ProcessEnds
<1>4. ASSUME NEW n \in Nodes, NEW approval \in BOOLEAN, ConfirmShellStep(n, approval)
      PROVE  GraphInv'
  <2>1. exec[n] # "none" /\ "failure" \in Outcomes
    BY <1>4, OutcomeValues DEF ConfirmShellStep
  <2>2. CASE approval
    <3>1. \A m \in Nodes : exec'[m] # "none" => exec[m] # "none"
      BY <1>4, <2>1, <2>2 DEF ConfirmShellStep, TypeOK
    <3> QED BY <1>4, <2>2, <3>1, SameGraph DEF ConfirmShellStep, rowVars, passVars, callVars
  <2>3. CASE ~approval
    BY <1>4, <2>1, <2>3, ExecutorSettlesShape DEF ConfirmShellStep
  <2> QED BY <2>2, <2>3
<1>5. ASSUME NEW n \in Nodes, NEW o \in Outcomes, ResolveStep(n, o)
      PROVE  GraphInv'
  <2>1. /\ n \in parked /\ parked' = parked \ {n} /\ settleNode(n, o)
        /\ UNCHANGED <<run, open, cancelling, exec, call>>
    BY <1>5 DEF ResolveStep, execVars, callVars
  <2>2. (n \notin done => step[n].status = "running") /\ Kind[n] \notin Executors
    BY <2>1 DEF GraphInv, WorkShape, ParkedShape
  <2>3. /\ PassShape' /\ FollowsGraph'
        /\ \A m \in Nodes : /\ step[m].status # "none" => step'[m].status # "none"
                            /\ Over(m) => Over(m)'
        /\ \A m \in Nodes \ {n} : step'[m] = step[m] /\ (m \in done' <=> m \in done)
        /\ n \in done => n \in done'
    BY <2>1, <2>2, SettleNodeShape
  <2>4. ExecShape' /\ ParkedShape'
    BY <2>1, <2>2, <2>3 DEF GraphInv, WorkShape, ExecShape, ParkedShape, TypeOK
  <2>5. CallShape'
    BY <2>1, <2>3, CallsKept DEF GraphInv, WorkShape
  <2> QED BY <2>3, <2>4, <2>5 DEF GraphInv, WorkShape
<1> QED BY <1>1, <1>2, <1>3, <1>4, <1>5 DEF Answers

LEMMA OutsideGraph ==
    ASSUME Scope, TypeOK, PassInv, GraphInv,
           EngineOutside \/ Iterate \/ Begin \/ ConfirmCriteria \/ Dispose
    PROVE  GraphInv'
<1>1. ASSUME NEW c \in Cancellers, CancelRow(c)
      PROVE  GraphInv'
  <2>1. /\ ~open /\ run'.status = "cancelled" /\ run'.iteration = run.iteration
        /\ UNCHANGED <<step, open, cancelling, done, activates, outcome, parked, exec, call>>
    BY <1>1 DEF CancelRow, Scope, setRunStatus, TypeOK, passVars, callVars
  <2> QED BY <2>1, SameGraph
<1>2. CASE Complete
  <2>1. /\ run.status = "needs_user_review" /\ dropPass /\ UNCHANGED <<step, exec, call>>
        /\ run'.iteration = run.iteration
    BY <1>2 DEF Complete, setRunStatus, TypeOK, callVars
  <2>2. ~open /\ \A n \in Nodes : exec[n] = "none"
    BY <2>1, NothingLeft DEF PassInv, OpenPass
  <2>3. CallShape'
    BY <2>1, CallsKept DEF GraphInv, WorkShape, Over
  <2> QED BY <2>1, <2>2, <2>3, DropPassShape
<1>3. CASE Begin
  <2>1. run \in Row
    BY DEF TypeOK, Row
  <2> QED BY <1>3, <2>1, BeginPassShape DEF Begin, canBegin
<1>4. CASE Iterate \/ ConfirmCriteria \/ (Dispose /\ UNCHANGED engineVars)
  BY <1>4, SameGraph DEF Iterate, ConfirmCriteria, engineVars, rowVars, passVars, execVars,
     callVars
<1>5. CASE Dispose /\ ~UNCHANGED engineVars
  BY <1>5, GraphAssumption, CancelPassShape DEF Dispose
<1> QED BY <1>1, <1>2, <1>3, <1>4, <1>5, AnswersGraph, CancelPassShape DEF EngineOutside

LEMMA LoopTurnGraph ==
    ASSUME TypeOK, PassInv, GraphInv, LoopTurn
    PROVE  GraphInv'
<1>1. anchored \in Row /\ anchored.iteration = run.iteration /\ run \in Row
  BY AnchoredType DEF anchored, TypeOK, Row
<1>2. CASE RoundRefused
  BY <1>2, SameGraph
     DEF RoundRefused, engineVars, rowVars, passVars, execVars, callVars
<1>3. CASE CapBeforeRound \/ RoundNotPrepared \/ PassRefused
  <2>1. ~open /\ run.status # "cancelled"
    BY <1>3 DEF CapBeforeRound, RoundNotPrepared, PassRefused, terminalRun, RunOver,
       PassInv, LoopWaits
  <2>2. /\ run'.iteration = run.iteration
        /\ UNCHANGED <<step, open, cancelling, done, activates, outcome, parked, exec, call>>
    BY <1>1, <1>3 DEF CapBeforeRound, RoundNotPrepared, PassRefused, setRunStatus, Row,
       passVars, callVars
  <2> QED BY <2>1, <2>2, SameGraph
<1>4. CASE RoundBegins
  BY <1>1, <1>4, BeginPassShape DEF RoundBegins, canBegin
<1>5. CASE RoundCancelled
  BY <1>5, SameGraph DEF RoundCancelled, loopUnchanged, rowVars, passVars
<1>6. CASE RoundApproved \/ CapAfterRound \/ RoundRejected
  <2>1. /\ ~open /\ run.status = "waiting"
        /\ UNCHANGED <<open, cancelling, done, activates, outcome, parked, exec, call>>
    BY <1>6 DEF RoundApproved, CapAfterRound, RoundRejected, passSettled, loopUnchanged,
       passVars, PassInv, SettledRow
  <2>2. CASE step' = [n \in Nodes |-> NoRow]
    BY <2>1, <2>2, NewRowsShape
  <2>3. CASE step' # [n \in Nodes |-> NoRow]
    <3>1. step' = step /\ run'.iteration = run.iteration
      BY <1>1, <1>6, <2>3
         DEF RoundApproved, CapAfterRound, RoundRejected, setRunStatus, Row
    <3> QED BY <2>1, <3>1, SameGraph
  <2> QED BY <2>2, <2>3
<1> QED BY <1>2, <1>3, <1>4, <1>5, <1>6 DEF LoopTurn

LEMMA NextGraph ==
    ASSUME Scope, TypeOK, PassInv, GraphInv, [Next]_vars
    PROVE  GraphInv'
<1>1. CASE UNCHANGED vars
  BY <1>1, SameGraph DEF vars, engineVars, rowVars, passVars, execVars, callVars
<1>2. CASE Next
  BY <1>2, EngineTurnGraph, LoopTurnGraph, OutsideGraph DEF Next, Turn, Outside
<1> QED BY <1>1, <1>2

THEOREM GraphInvariant == ASSUME Scope PROVE Spec => []GraphInv
<1>1. Init => GraphInv
  <2> SUFFICES ASSUME Init PROVE GraphInv
    OBVIOUS
  <2>1. \A n \in Nodes : step[n].status = "none" /\ exec[n] = "none"
    BY DEF Init, EngineInit, NoRow
  <2>2. /\ ~open /\ done = {} /\ parked = {} /\ \A c \in Cancellers : call[c].pc = "idle"
    BY DEF Init, EngineInit, NoCall
  <2> QED BY <2>1, <2>2 DEF GraphInv, PassShape, WorkShape, NodeShape, RowsRest, Remembered,
          ExecShape, ParkedShape, CallShape, FollowsGraph, Follows
<1>2. TypeOK /\ PassInv /\ GraphInv /\ [Next]_vars => GraphInv'
  BY NextGraph
<1> QED BY <1>1, <1>2, TypeCorrect, PassInvariant, PTL DEF Spec

\* While Scope holds, a step runs only in its phase and behind the edges that
\* let it, and one of this phase is skipped only behind one that does not: for
\* every graph, every kind of node and whatever is cancelled or comes late.
THEOREM StepsFollow == ASSUME Scope PROVE Spec => []StepsFollowGraph
<1>1. GraphInv => StepsFollowGraph
  BY DEF GraphInv, FollowsGraph, Follows, StepsFollowGraph, Over
<1> QED BY <1>1, GraphInvariant, PTL

\* While Scope holds, a run that is closed has no step pending or running and
\* none of its agents at work.
THEOREM ClosedAtRest == ASSUME Scope PROVE Spec => []ClosedRunIsAtRest
<1>1. PassInv /\ GraphInv => ClosedRunIsAtRest
  <2> SUFFICES ASSUME PassInv, GraphInv, terminalRun, NEW n \in Nodes
               PROVE  /\ step[n].status \notin {"pending", "running"}
                      /\ Kind[n] = "agent" => exec[n] = "none"
    BY DEF ClosedRunIsAtRest
  <2>1. ~open
    BY DEF PassInv, OpenPass, terminalRun, RunOver
  <2> QED BY <2>1 DEF GraphInv, PassShape, WorkShape, RowsRest, ExecShape, Over, StepOver
<1> QED BY <1>1, PassInvariant, GraphInvariant, PTL

(***************************************************************************)
(* The round the loop closes a run with.  The theorem is about graphs like  *)
(* the full workflow's: in each phase the verdict of a kind is one node's,  *)
(* and no verdict node is what a failure leads to.                          *)
(***************************************************************************)
Verdicts == {n \in Nodes : Kind[n] \in {"review-panel", "criteria-gate"}}
SamePhase(m, n) == RunOn[m] = RunOn[n] \/ "always" \in {RunOn[m], RunOn[n]}
VerdictsAlone ==
    \A m, n \in Verdicts : Kind[m] = Kind[n] /\ SamePhase(m, n) => m = n
VerdictsAfterSuccess == \A n \in Verdicts : \A d \in Needs[n] : d[2] # "failure"

\* Of all steps only an approved round's end closes a run as completed that was
\* not in the user's hands.
LEMMA CompletedByApproval ==
    ASSUME TypeOK, [Next]_vars, run'.status = "completed",
           run.status \notin {"completed", "needs_user_review"}
    PROVE  RoundApproved
<1>1. ASSUME run' = run PROVE FALSE
  BY <1>1
<1>2. ASSUME NEW row \in Row, NEW s, setRunStatus(row, s) PROVE s = "completed"
  BY <1>2 DEF setRunStatus, Row
<1>3. run \in Row /\ anchored \in Row /\ advanced \in Row
      /\ anchored.status = run.status /\ advanced.status = run.status
  BY AnchoredType, AdvancedType DEF TypeOK, Row
<1>4. CASE UNCHANGED vars
  BY <1>1, <1>4 DEF vars, engineVars, rowVars
<1>5. CASE EngineTurn
  <2>1. ~FinishPass /\ \A c \in Cancellers : ~CancelEnd(c)
    BY <1>2, <1>3 DEF FinishPass, CancelEnd
  <2> QED BY <1>1, <1>5, <2>1
          DEF EngineTurn, StartNode, StartNodeWithoutExecutor, SkipNode, ConditionEvaluated,
          GateEvaluated, CancelAgentStep, CancelAgentStepReturns, CancelStep, executorSettles,
          rowVars
<1>6. CASE Answers
  BY <1>1, <1>6 DEF Answers, AgentLaunched, LaunchFailed, AgentMissed, ProcessEnds,
     ConfirmShellStep, ResolveStep, executorSettles, rowVars
<1>7. ASSUME NEW c \in Cancellers, CancelRow(c) \/ CancelPass(c) PROVE FALSE
  BY <1>1, <1>2, <1>3, <1>7 DEF CancelRow, CancelPass, rowVars
<1>8. CASE Iterate \/ Begin \/ ConfirmCriteria \/ Dispose
  <2>1. ~Begin
    BY <1>2, <1>3 DEF Begin, beginPass
  <2> QED BY <1>1, <1>7, <1>8, <2>1, GraphAssumption
          DEF Iterate, ConfirmCriteria, Dispose, engineVars, rowVars
<1>9. CASE LoopTurn
  <2>1. ~RoundBegins /\ ~CapBeforeRound /\ ~PassRefused
    BY <1>2, <1>3 DEF RoundBegins, beginPass, CapBeforeRound, PassRefused
  <2>2. ~RoundNotPrepared
    BY <1>2, <1>3 DEF RoundNotPrepared
  <2>3. ~CapAfterRound
    BY <1>2, <1>3 DEF CapAfterRound
  <2>4. ~RoundRejected
    BY <1>1, <1>2, <1>3 DEF RoundRejected
  <2>5. ~RoundRefused /\ ~RoundCancelled
    BY <1>1 DEF RoundRefused, RoundCancelled, engineVars, rowVars
  <2> QED BY <1>9, <2>1, <2>2, <2>3, <2>4, <2>5 DEF LoopTurn
<1> QED BY <1>4, <1>5, <1>6, <1>7, <1>8, <1>9
        DEF Next, Turn, Outside, EngineOutside, Complete

\* A verdict node that completed in this iteration is the one of its kind that
\* is active.
LEMMA VerdictIsActive ==
    ASSUME VerdictsAlone, FollowsGraph, NEW m \in Verdicts, step[m].status = "completed",
           NEW n \in Verdicts, Kind[n] = Kind[m], active(n)
    PROVE  n = m
<1>1. m \in Nodes /\ n \in Nodes /\ active(m)
  BY DEF FollowsGraph, Follows, Verdicts
<1>2. SamePhase(m, n)
  <2>1. RunOn[m] \in {"first", "subsequent", "always"}
        /\ RunOn[n] \in {"first", "subsequent", "always"}
    BY <1>1, GraphAssumption
  <2> QED BY <1>1, <2>1 DEF active, SamePhase
<1> QED BY <1>2 DEF VerdictsAlone

\* While Scope holds, in such a graph: the loop closes a run as completed only
\* when every verdict of this round is in and positive, and every step one of
\* them depends on completed or belongs to a phase that is over.
THEOREM ApprovedIsWhole ==
    ASSUME Scope, VerdictsAlone, VerdictsAfterSuccess
    PROVE  Spec => ApprovedRoundIsWhole
<1> DEFINE Whole(n) ==
      /\ step[n] = [status |-> "completed", outcome |-> Positive(Kind[n])]
      /\ \A d \in Needs[n] : step[d[1]].status = "completed" \/ past(d[1])
<1>1. ASSUME TypeOK, GraphInv, approved, NEW n \in Nodes, active(n),
             Kind[n] \in {"review-panel", "criteria-gate"}
      PROVE  Whole(n)
  <2>1. FollowsGraph /\ n \in Verdicts
    BY <1>1 DEF GraphInv, Verdicts
  <2>2. step[n] = [status |-> "completed", outcome |-> Positive(Kind[n])]
    <3>1. CASE Kind[n] = "review-panel"
      <4>1. PICK m \in ReviewNodes :
              step[m] = [status |-> "completed", outcome |-> "approve"]
        BY <1>1 DEF approved
      <4>2. m \in Verdicts /\ Kind[m] = Kind[n] /\ step[m].status = "completed"
        BY <3>1, <4>1, PolicyAssumption DEF Verdicts
      <4>3. n = m
        BY <1>1, <2>1, <4>2, VerdictIsActive
      <4> QED BY <3>1, <4>1, <4>3 DEF Positive
    <3>2. CASE Kind[n] = "criteria-gate"
      <4>1. PICK m \in Nodes : /\ Kind[m] = "criteria-gate"
                               /\ step[m] = [status |-> "completed", outcome |-> "pass"]
        BY <1>1, <3>2 DEF approved
      <4>2. m \in Verdicts /\ Kind[m] = Kind[n] /\ step[m].status = "completed"
        BY <3>2, <4>1 DEF Verdicts
      <4>3. n = m
        BY <1>1, <2>1, <4>2, VerdictIsActive
      <4> QED BY <3>2, <4>1, <4>3 DEF Positive
    <3> QED BY <1>1, <3>1, <3>2
  <2>3. ASSUME NEW d \in Needs[n]
        PROVE  step[d[1]].status = "completed" \/ past(d[1])
    <3>1. rowActivates(d) /\ d[1] \in Nodes /\ d[2] # "failure"
      BY <1>1, <2>1, <2>2, UpstreamIsNode DEF FollowsGraph, Follows, VerdictsAfterSuccess
    <3>2. step[d[1]].status = "failed" => step[d[1]].outcome = "failure"
      BY <2>1, <3>1 DEF FollowsGraph, Follows
    <3> QED BY <3>1, <3>2 DEF rowActivates
  <2> QED BY <2>2, <2>3
<1>2. TypeOK /\ GraphInv /\ [Next]_vars =>
        [run'.status = "completed" /\ run.status \notin {"completed", "needs_user_review"} =>
           \A n \in Nodes :
             active(n) /\ Kind[n] \in {"review-panel", "criteria-gate"} => Whole(n)]_vars
  BY <1>1, CompletedByApproval DEF RoundApproved
<1> QED BY <1>2, TypeCorrect, GraphInvariant, PTL DEF Spec, ApprovedRoundIsWhole

(***************************************************************************)
(* No pass is stuck: the safety half of IterateReturns and CancelReturns.   *)
(* Whatever the pass is waiting for is there to wait for, unless it is an   *)
(* agent whose end nobody heard: the one way the run pass_never_ends shows  *)
(* is the only way.  It takes an acyclic graph, which is the only kind the  *)
(* definition's check lets through.                                         *)
(***************************************************************************)
\* A running step is parked or its executor is at work.
Worked == open => \A n \in Nodes \ done :
                    step[n].status = "running" => n \in parked \/ exec[n] # "none"

\* A shell step that waits for an answer has its question before the user.
Questioned == open /\ ~cancelling => \A n \in Nodes : exec[n] = "confirming" => n \in asked

\* Only an agent step is ever lost, and an agent step waits for nothing but
\* its launch and its run.
ExecKinds == \A n \in Nodes :
    /\ exec[n] = "lost" => Kind[n] = "agent"
    /\ Kind[n] = "agent" => exec[n] \in {"none", "launching", "live", "lost"}

\* A cancel call that waits has told whatever it waits for to stop.
Awaits(c) == call[c].pc = "awaiting" =>
               /\ call[c].node # {}
               /\ \A n \in call[c].node : exec[n] = "none" \/ n \in stopAsked
Awaited == \A c \in Cancellers : Awaits(c)

\* A pass that is being cancelled has a cancel call that will end it.
Called == open /\ cancelling => \E c \in Cancellers : call[c].pc # "idle"

WorkInv == Worked /\ Questioned /\ ExecKinds /\ Awaited /\ Called

LEMMA SameWork ==
    ASSUME WorkInv, UNCHANGED <<step, open, cancelling, done, parked, exec, asked, stopAsked, call>>
    PROVE  WorkInv'
BY DEF WorkInv, Worked, Questioned, ExecKinds, Awaited, Awaits, Called

\* Without a pass only the executors and the calls that wait matter.
LEMMA ClosedWork ==
    ASSUME WorkInv, ~open', UNCHANGED <<exec, stopAsked>>,
           \A c \in Cancellers : call'[c] = call[c] \/ call'[c].pc = "idle"
    PROVE  WorkInv'
BY DEF WorkInv, Worked, Questioned, ExecKinds, Awaited, Awaits, Called

LEMMA BeginPassWork ==
    ASSUME TypeOK, GraphInv, WorkInv, canBegin, NEW row \in Row, NEW waits \in BOOLEAN,
           beginPass(row, waits)
    PROVE  WorkInv'
<1>1. /\ ~open /\ run.status # "cancelled" /\ ~cancelling'
      /\ UNCHANGED <<exec, stopAsked, call>>
      /\ \A n \in Nodes : step[n].status # "running"
  BY DEF canBegin, beginPass, terminalRun, RunOver
<1>2. \A n \in Nodes : exec[n] = "none"
  BY <1>1 DEF GraphInv, WorkShape, ExecShape
<1>3. \A n \in Nodes : step'[n].status # "running"
  BY <1>1 DEF beginPass
<1> QED BY <1>1, <1>2, <1>3 DEF WorkInv, Worked, Questioned, ExecKinds, Awaited, Awaits, Called

\* Any step that settles n and stops its executor leaves nothing unattended.
LEMMA SettleNodeWork ==
    ASSUME TypeOK, WorkInv, NEW n \in Nodes, NEW o, settleNode(n, o),
           \/ UNCHANGED <<exec, stopAsked, asked>>
           \/ /\ exec' = [exec EXCEPT ![n] = "none"] /\ stopAsked' = stopAsked \ {n}
              /\ asked' \in {asked, asked \ {n}},
           parked' \in {parked, parked \ {n}},
           UNCHANGED <<open, cancelling, call>>
    PROVE  WorkInv'
<1>1. open => n \in done' /\ \A m \in Nodes \ done' : m \notin done /\ step'[m] = step[m]
  BY DEF settleNode, transitioned, TypeOK
<1>2. \A m \in Nodes \ {n} : exec'[m] = exec[m]
  BY DEF TypeOK
<1>3. UNCHANGED <<exec, stopAsked, asked>> \/ exec'[n] = "none"
  BY DEF TypeOK
<1>4. Worked'
  BY <1>1, <1>2 DEF WorkInv, Worked
<1>5. Questioned'
  BY <1>2, <1>3 DEF WorkInv, Questioned
<1>6. ExecKinds'
  BY <1>2, <1>3 DEF WorkInv, ExecKinds
<1>7. ASSUME NEW c \in Cancellers PROVE Awaits(c)'
  <2>1. call[c].node \subseteq Nodes
    BY DEF TypeOK
  <2>2. \A m \in Nodes : exec[m] = "none" \/ m \in stopAsked
                         => exec'[m] = "none" \/ m \in stopAsked'
    BY <1>2, <1>3
  <2> QED BY <2>1, <2>2 DEF WorkInv, Awaited, Awaits
<1>8. Called'
  BY DEF WorkInv, Called
<1> QED BY <1>4, <1>5, <1>6, <1>7, <1>8 DEF WorkInv, Awaited

\* An executor that goes from one wait to the next.
LEMMA ExecutorGoesOnWork ==
    ASSUME TypeOK, WorkInv, NEW n \in Nodes, exec[n] # "none",
           NEW e \in {"live", "lost"}, exec' = [exec EXCEPT ![n] = e],
           e = "lost" => Kind[n] = "agent",
           asked' \in {asked, asked \ {n}},
           UNCHANGED <<step, open, cancelling, done, parked, stopAsked, call>>
    PROVE  WorkInv'
<1>1. exec'[n] \in {"live", "lost"} /\ (exec'[n] = "lost" => Kind[n] = "agent")
      /\ \A m \in Nodes \ {n} : exec'[m] = exec[m]
  BY DEF TypeOK
<1>2. Worked' /\ Called'
  BY <1>1 DEF WorkInv, Worked, Called
<1>3. Questioned' /\ ExecKinds'
  BY <1>1 DEF WorkInv, Questioned, ExecKinds
<1>4. ASSUME NEW c \in Cancellers PROVE Awaits(c)'
  <2>1. call[c].node \subseteq Nodes
    BY DEF TypeOK
  <2>2. \A m \in Nodes : exec'[m] = "none" <=> exec[m] = "none"
    BY <1>1
  <2> QED BY <2>1, <2>2 DEF WorkInv, Awaited, Awaits
<1> QED BY <1>2, <1>3, <1>4 DEF WorkInv, Awaited

LEMMA StartNodeWork ==
    ASSUME TypeOK, PassInv, WorkInv, NEW n \in Nodes, StartNode(n)
    PROVE  WorkInv'
<1>1. /\ open /\ ~cancelling /\ UNCHANGED <<open, cancelling, done, stopAsked, call>>
      /\ \A m \in Nodes \ {n} : step'[m] = step[m] /\ exec'[m] = exec[m]
      /\ asked \subseteq asked' /\ parked \subseteq parked'
  BY DEF StartNode, transitioned, callVars, TypeOK
<1>2. \/ exec'[n] = started(n) /\ (started(n) = "confirming" => n \in asked')
      \/ exec'[n] = exec[n] /\ n \in parked' /\ UNCHANGED asked
  BY DEF StartNode, TypeOK
<1>3. /\ started(n) \in {"launching", "live", "confirming", "ready"}
      /\ Kind[n] = "agent" => started(n) = "launching"
  BY DEF started
<1>4. Worked' /\ Questioned'
  BY <1>1, <1>2, <1>3 DEF WorkInv, Worked, Questioned
<1>5. ExecKinds'
  BY <1>1, <1>2, <1>3 DEF WorkInv, ExecKinds
<1>6. \A c \in Cancellers : call[c].pc = "idle"
  BY <1>1, CallHoldsPass
<1>7. Awaited' /\ Called'
  BY <1>1, <1>6 DEF Awaited, Awaits, Called
<1> QED BY <1>4, <1>5, <1>7 DEF WorkInv

\* A step that only makes n done: startNode without an executor, and a skip.
LEMMA EndsAtOnceWork ==
    ASSUME TypeOK, WorkInv, NEW n \in Nodes, StartNodeWithoutExecutor(n) \/ SkipNode(n)
    PROVE  WorkInv'
<1> DEFINE begun == transitioned(step, n, "running", "none")
<1>1. step \in Rows /\ begun \in Rows
  BY TransitionedType, OutcomeValues DEF TypeOK, Rows, StepStatus
<1>2. \A rows \in Rows, to \in StepStatus, o \in Outcomes, m \in Nodes \ {n} :
         transitioned(rows, n, to, o)[m] = rows[m]
  BY DEF transitioned, Rows
<1>3. /\ {"running", "failed", "skipped"} \subseteq StepStatus
      /\ {"none", "failure"} \subseteq Outcomes
  BY OutcomeValues DEF StepStatus, StepOver, Outcomes, Allowed, Kinds
<1>4. \A m \in Nodes \ {n} : begun[m] = step[m]
  BY <1>1, <1>2, <1>3
<1>5. step' \in {transitioned(begun, n, "failed", "failure"),
                transitioned(step, n, "skipped", "none")}
  BY DEF StartNodeWithoutExecutor, SkipNode
<1> HIDE DEF begun
<1>6. \A m \in Nodes \ {n} : step'[m] = step[m]
  BY <1>1, <1>2, <1>3, <1>4, <1>5
<1>7. /\ done' = done \cup {n}
      /\ UNCHANGED <<open, cancelling, parked, exec, asked, stopAsked, call>>
  BY DEF StartNodeWithoutExecutor, SkipNode, execVars, callVars
<1>8. Worked'
  BY <1>6, <1>7 DEF WorkInv, Worked
<1> QED BY <1>7, <1>8 DEF WorkInv, Questioned, ExecKinds, Awaited, Awaits, Called

\* A turn of the cancel call c over n: at most n's question is withdrawn, and
\* what is told to stop stays told.
LEMMA CancelTurnWork ==
    ASSUME TypeOK, PassInv, WorkInv, NEW c \in Cancellers, NEW n \in Nodes,
           CancelAgentStep(c, n) \/ CancelAgentStepReturns(c, n) \/ CancelStep(c, n)
    PROVE  WorkInv'
<1>1. /\ call[c].pc # "idle" /\ UNCHANGED <<open, cancelling, parked>>
      /\ stopAsked \subseteq stopAsked'
      /\ \A m \in Nodes \ {n} : step'[m] = step[m] /\ exec'[m] = exec[m]
      /\ \A d \in Cancellers \ {c} : call'[d] = call[d]
  BY DEF CancelAgentStep, CancelAgentStepReturns, CancelStep, markCancelled, transitioned,
     rowVars, passVars, execVars, TypeOK
<1>2. /\ exec'[n] \in {exec[n], "none"}
      /\ \/ n \in done' /\ done \subseteq done'
         \/ UNCHANGED <<done, step, exec>>
  BY DEF CancelAgentStep, CancelAgentStepReturns, CancelStep, markCancelled,
     rowVars, passVars, execVars, TypeOK
<1>3. /\ call'[c].pc # "idle"
      /\ call'[c].pc = "awaiting" => call'[c].node = {n} /\ n \in stopAsked'
  BY DEF CancelAgentStep, CancelAgentStepReturns, CancelStep, TypeOK
<1>4. Worked'
  BY <1>1, <1>2 DEF WorkInv, Worked
<1>5. Questioned' /\ Called'
  BY <1>1, <1>3, CallHoldsPass DEF Questioned, Called
<1>6. ExecKinds'
  BY <1>1, <1>2 DEF WorkInv, ExecKinds
<1>7. ASSUME NEW d \in Cancellers PROVE Awaits(d)'
  <2>1. call[d].node \subseteq Nodes
    BY DEF TypeOK
  <2>2. \A m \in Nodes : exec[m] = "none" \/ m \in stopAsked
                         => exec'[m] = "none" \/ m \in stopAsked'
    BY <1>1, <1>2
  <2>3. CASE d = c
    BY <1>3, <2>3 DEF Awaits
  <2>4. CASE d # c
    BY <1>1, <2>1, <2>2, <2>4 DEF WorkInv, Awaited, Awaits
  <2> QED BY <2>3, <2>4
<1> QED BY <1>4, <1>5, <1>6, <1>7 DEF WorkInv, Awaited

LEMMA EngineTurnWork ==
    ASSUME TypeOK, PassInv, WorkInv, EngineTurn
    PROVE  WorkInv'
<1>1. ASSUME NEW n \in Nodes,
             ConditionEvaluated(n) \/ \E o \in Outcomes : GateEvaluated(n, o)
      PROVE  WorkInv'
  <2>1. PICK o : executorSettles(n, o) /\ UNCHANGED asked
    BY <1>1 DEF ConditionEvaluated, GateEvaluated
  <2> QED BY <2>1, SettleNodeWork DEF executorSettles, callVars
<1>2. CASE FinishPass
  BY <1>2, ClosedWork DEF FinishPass, dropPass
<1>3. ASSUME NEW c \in Cancellers, CancelEnd(c)
      PROVE  WorkInv'
  <2>1. \A d \in Cancellers : call'[d] = call[d] \/ call'[d].pc = "idle"
    BY <1>3 DEF CancelEnd, NoCall, TypeOK
  <2> QED BY <1>3, <2>1, ClosedWork DEF CancelEnd, dropPass
<1> QED BY <1>1, <1>2, <1>3, StartNodeWork, EndsAtOnceWork, CancelTurnWork DEF EngineTurn

LEMMA AnswersWork ==
    ASSUME TypeOK, WorkInv, Answers
    PROVE  WorkInv'
<1>1. ASSUME NEW n \in Nodes, AgentLaunched(n) \/ AgentMissed(n)
      PROVE  WorkInv'
  BY <1>1, ExecutorGoesOnWork DEF AgentLaunched, AgentMissed, rowVars, passVars, callVars
<1>2. ASSUME NEW n \in Nodes, LaunchFailed(n) \/ \E o \in Outcomes : ProcessEnds(n, o)
      PROVE  WorkInv'
  <2>1. PICK o : executorSettles(n, o) /\ UNCHANGED asked
    BY <1>2 DEF LaunchFailed, ProcessEnds
  <2> QED BY <2>1, SettleNodeWork DEF executorSettles, callVars
<1>3. ASSUME NEW n \in Nodes, NEW approval \in BOOLEAN, ConfirmShellStep(n, approval)
      PROVE  WorkInv'
  <2>1. exec[n] # "none" /\ asked' = asked \ {n}
    BY <1>3 DEF ConfirmShellStep
  <2>2. CASE approval
    BY <1>3, <2>1, <2>2, ExecutorGoesOnWork
       DEF ConfirmShellStep, rowVars, passVars, callVars
  <2>3. CASE ~approval
    BY <1>3, <2>1, <2>3, SettleNodeWork DEF ConfirmShellStep, executorSettles, callVars
  <2> QED BY <2>2, <2>3
<1>4. ASSUME NEW n \in Nodes, NEW o \in Outcomes, ResolveStep(n, o)
      PROVE  WorkInv'
  BY <1>4, SettleNodeWork DEF ResolveStep, execVars, callVars
<1> QED BY <1>1, <1>2, <1>3, <1>4 DEF Answers

LEMMA CancelPassWork ==
    ASSUME TypeOK, PassInv, WorkInv, NEW c \in Cancellers, CancelPass(c)
    PROVE  WorkInv'
<1>1. /\ cancelling' /\ UNCHANGED <<step, open, done, parked, exec, asked, stopAsked>>
      /\ call'[c].pc = "looping" /\ \A d \in Cancellers \ {c} : call'[d] = call[d]
  BY DEF CancelPass, rowVars, execVars, TypeOK
<1>2. Worked' /\ Questioned' /\ ExecKinds' /\ Called'
  BY <1>1 DEF WorkInv, Worked, Questioned, ExecKinds, Called
<1>3. Awaited'
  BY <1>1 DEF WorkInv, Awaited, Awaits
<1> QED BY <1>2, <1>3 DEF WorkInv

LEMMA OutsideWork ==
    ASSUME Scope, TypeOK, PassInv, GraphInv, WorkInv,
           EngineOutside \/ Iterate \/ Begin \/ ConfirmCriteria \/ Dispose
    PROVE  WorkInv'
<1>1. ASSUME NEW c \in Cancellers, CancelRow(c)
      PROVE  WorkInv'
  BY <1>1, ClosedWork DEF CancelRow, Scope, passVars, callVars
<1>2. CASE Complete
  BY <1>2, ClosedWork DEF Complete, dropPass, callVars
<1>3. CASE Begin
  BY <1>3, BeginPassWork DEF Begin, TypeOK, Row
<1>4. CASE Iterate \/ ConfirmCriteria \/ (Dispose /\ UNCHANGED engineVars)
  BY <1>4, SameWork DEF Iterate, ConfirmCriteria, engineVars, rowVars, passVars, execVars,
     callVars
<1>5. CASE Dispose /\ ~UNCHANGED engineVars
  BY <1>5, GraphAssumption, CancelPassWork DEF Dispose
<1> QED BY <1>1, <1>2, <1>3, <1>4, <1>5, AnswersWork, CancelPassWork DEF EngineOutside

\* Outside its pass the loop finds the map without one.
LEMMA LoopTurnWork ==
    ASSUME TypeOK, PassInv, GraphInv, WorkInv, LoopTurn
    PROVE  WorkInv'
<1>1. CASE RoundBegins
  BY <1>1, AnchoredType, BeginPassWork DEF RoundBegins
<1>2. CASE ~RoundBegins
  <2>1. ~open
    BY <1>2 DEF LoopTurn, RoundRefused, CapBeforeRound, RoundNotPrepared, PassRefused,
       RoundCancelled, RoundApproved, CapAfterRound, RoundRejected, passSettled, PassInv,
       LoopWaits, SettledRow
  <2>2. UNCHANGED <<open, exec, stopAsked, call>>
    BY <1>2 DEF LoopTurn, RoundRefused, CapBeforeRound, RoundNotPrepared, PassRefused,
       RoundCancelled, RoundApproved, CapAfterRound, RoundRejected, loopUnchanged,
       engineVars, passVars, execVars, callVars
  <2> QED BY <2>1, <2>2, ClosedWork
<1> QED BY <1>1, <1>2

LEMMA NextWork ==
    ASSUME Scope, TypeOK, PassInv, GraphInv, WorkInv, [Next]_vars
    PROVE  WorkInv'
<1>1. CASE UNCHANGED vars
  BY <1>1, SameWork DEF vars, engineVars, rowVars, passVars, execVars, callVars
<1>2. CASE Next
  BY <1>2, EngineTurnWork, LoopTurnWork, OutsideWork DEF Next, Turn, Outside
<1> QED BY <1>1, <1>2

\* What an undone node's step waits for from outside the engine: an answer to
\* a parked step or to a question, a launch or a process; "ready" is the
\* engine's own next turn.
WaitsFor(n) == n \notin done /\ \/ n \in parked
                                \/ exec[n] \in {"launching", "live", "ready"}
                                \/ exec[n] = "confirming" /\ n \in asked

\* A cancel call goes on, or waits for an agent that has been told to stop.
GoesOn(c) == \/ mayProceed(c)
             \/ /\ call[c].pc = "awaiting"
                /\ \E n \in call[c].node : n \in stopAsked /\ exec[n] \in {"launching", "live"}

\* A pass in the map is being ended by a cancel, can end, can start or skip a
\* node, or waits for something that is there; and a loop that is not at rest
\* is in its body, has a pass to wait for or one to hear of.
PassMoves == open => IF cancelling THEN \E c \in Cancellers : GoesOn(c)
                     ELSE done = Nodes \/ \E n \in Nodes : schedulable(n) \/ WaitsFor(n)
LoopMoves == loop # "idle" => loop = "body" \/ open \/ settled # "none"

\* No agent of a step was over before the step listened.
Heard == \A n \in Nodes : exec[n] # "lost"

LEMMA OpenPassMoves ==
    ASSUME Acyclic, TypeOK, GraphInv, WorkInv, Heard, open, ~cancelling, done # Nodes
    PROVE  \E n \in Nodes : schedulable(n) \/ WaitsFor(n)
<1>1. PICK n \in Nodes \ done : \A d \in Needs[n] : d[1] \in done
  <2>1. Nodes \ done \in SUBSET Nodes /\ Nodes \ done # {}
    BY DEF TypeOK
  <2>2. PICK n \in Nodes \ done : \A d \in Needs[n] : d[1] \notin Nodes \ done
    BY <2>1 DEF Acyclic
  <2> QED BY <2>2, UpstreamIsNode
<1>2. CASE step[n].status = "pending"
  BY <1>1, <1>2 DEF schedulable
<1>3. CASE step[n].status = "running"
  <2>1. n \in parked \/ exec[n] # "none"
    BY <1>1, <1>3 DEF WorkInv, Worked
  <2>2. exec[n] # "lost" /\ (exec[n] = "confirming" => n \in asked)
    BY DEF Heard, WorkInv, Questioned
  <2>3. exec[n] \in {"none", "launching", "live", "lost", "confirming", "ready"}
    BY DEF TypeOK
  <2> QED BY <1>1, <2>1, <2>2, <2>3 DEF WaitsFor
<1> QED BY <1>1, <1>2, <1>3 DEF GraphInv, PassShape, NodeShape

LEMMA CancelledPassMoves ==
    ASSUME TypeOK, GraphInv, WorkInv, Heard, open, cancelling
    PROVE  \E c \in Cancellers : GoesOn(c)
<1>1. PICK c \in Cancellers : call[c].pc # "idle"
  BY DEF WorkInv, Called
<1>2. call[c].pc \in {"idle", "looping", "awaiting"} /\ call[c].node \subseteq Nodes
  BY DEF TypeOK
<1>3. CASE call[c].pc = "looping"
  BY <1>3 DEF GoesOn, mayProceed
<1>4. CASE call[c].pc = "awaiting" /\ \A n \in call[c].node : exec[n] = "none"
  BY <1>4 DEF GoesOn, mayProceed
<1>5. ASSUME call[c].pc = "awaiting", NEW n \in call[c].node, exec[n] # "none"
      PROVE  GoesOn(c)
  <2>1. n \in stopAsked
    BY <1>5 DEF WorkInv, Awaited, Awaits
  <2>2. n \in Nodes /\ Kind[n] = "agent"
    BY <1>1, <1>2, <1>5 DEF GraphInv, WorkShape, CallShape
  <2>3. exec[n] \in {"launching", "live"}
    BY <1>5, <2>2 DEF Heard, WorkInv, ExecKinds
  <2> QED BY <1>5, <2>1, <2>3 DEF GoesOn
<1> QED BY <1>1, <1>2, <1>3, <1>4, <1>5

\* "Every pass terminates" (workflow-engine.ts), as far as safety goes: in an
\* acyclic graph a pass or a loop without something to do, or something that
\* is there to wait for, has lost an agent: whatever ends, is answered or is
\* cancelled when.
THEOREM NoPassIsStuck ==
    ASSUME Scope, Acyclic
    PROVE  Spec => [](LoopMoves /\ (Heard => PassMoves))
<1>1. Init => WorkInv
  <2> SUFFICES ASSUME Init PROVE WorkInv
    OBVIOUS
  <2>1. /\ ~open /\ \A n \in Nodes : exec[n] = "none"
        /\ \A c \in Cancellers : call[c].pc = "idle"
    BY DEF Init, EngineInit, NoCall
  <2> QED BY <2>1 DEF WorkInv, Worked, Questioned, ExecKinds, Awaited, Awaits, Called
<1>2. TypeOK /\ PassInv /\ GraphInv /\ WorkInv /\ [Next]_vars => WorkInv'
  BY NextWork
<1>3. TypeOK /\ PassInv /\ GraphInv /\ WorkInv => LoopMoves /\ (Heard => PassMoves)
  <2>1. TypeOK /\ GraphInv /\ WorkInv => (Heard => PassMoves)
    BY OpenPassMoves, CancelledPassMoves DEF PassMoves
  <2>2. TypeOK /\ PassInv => LoopMoves
    BY DEF LoopMoves, PassInv, LoopWaits, TypeOK
  <2> QED BY <2>1, <2>2
<1> QED BY <1>1, <1>2, <1>3, TypeCorrect, PassInvariant, GraphInvariant, PTL DEF Spec
=============================================================================
