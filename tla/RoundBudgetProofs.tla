------------------------- MODULE RoundBudgetProofs -------------------------
(***************************************************************************)
(* The iteration loop implements RoundBudget, for every graph with a node   *)
(* in it, every pair of caps and any number of criteria versions.           *)
(***************************************************************************)
EXTENDS IterationLoopProofs

(***************************************************************************)
(* The engine and what reaches it from outside begin no round: the counters *)
(* stay, and the iteration has rows exactly if it had some.                 *)
(***************************************************************************)
SameRounds == /\ run'.iteration = run.iteration
              /\ run'.criteriaIteration = run.criteriaIteration
              /\ hasSteps' <=> hasSteps

\* What a step of the engine may make of the row's status.
EngineStatus ==
    \/ run'.status = run.status
    \/ open /\ ~cancelling /\ run'.status = "waiting"
    \/ run'.status = "cancelled" /\ ~terminalRun
    \/ run.status = "needs_user_review" /\ run'.status = "completed"

LEMMA TransitionedKeepsNone ==
    ASSUME NEW rows \in Rows, NEW n \in Nodes, NEW to \in StepStatus \ {"none"},
           NEW o \in Outcomes, NEW m \in Nodes
    PROVE  transitioned(rows, n, to, o)[m].status = "none" <=> rows[m].status = "none"
<1>1. "none" \in StepStatus /\ STEP_TRANSITIONS["none"] = {}
  BY DEF STEP_TRANSITIONS, StepStatus
<1> QED BY <1>1 DEF transitioned, Rows

LEMMA SameSteps ==
    ASSUME \A m \in Nodes : step'[m].status = "none" <=> step[m].status = "none"
    PROVE  hasSteps' <=> hasSteps
BY DEF hasSteps

LEMMA SettleNodeSteps ==
    ASSUME TypeOK, NEW n \in Nodes, NEW o \in Outcomes, settleNode(n, o)
    PROVE  hasSteps' <=> hasSteps
<1>1. step \in Rows
  BY DEF TypeOK, Rows
<1>2. (IF o = "failure" THEN "failed" ELSE "completed") \in StepStatus \ {"none"}
  BY DEF StepStatus, StepOver
<1>3. \A m \in Nodes : step'[m].status = "none" <=> step[m].status = "none"
  BY <1>1, <1>2, TransitionedKeepsNone DEF settleNode
<1> QED BY <1>3, SameSteps

LEMMA MarkCancelledSteps ==
    ASSUME TypeOK, NEW n \in Nodes, markCancelled(n)
    PROVE  hasSteps' <=> hasSteps
<1>1. step \in Rows /\ "cancelled" \in StepStatus \ {"none"} /\ "none" \in Outcomes
  BY OutcomeValues DEF TypeOK, Rows, StepStatus, StepOver
<1>2. \A m \in Nodes : step'[m].status = "none" <=> step[m].status = "none"
  BY <1>1, TransitionedKeepsNone DEF markCancelled
<1> QED BY <1>2, SameSteps

LEMMA UnchangedSteps ==
    ASSUME UNCHANGED step
    PROVE  hasSteps' <=> hasSteps
BY DEF hasSteps

LEMMA StatusOnly ==
    ASSUME TypeOK, NEW s \in RunStatus, setRunStatus(run, s)
    PROVE  /\ run'.iteration = run.iteration
           /\ run'.criteriaIteration = run.criteriaIteration
           /\ run'.status = s
BY DEF setRunStatus, TypeOK

LEMMA EngineTurnRounds ==
    ASSUME TypeOK, PassInv, EngineTurn
    PROVE  SameRounds /\ EngineStatus
<1>1. step \in Rows /\ {"running", "failed", "skipped"} \subseteq StepStatus \ {"none"}
      /\ {"none", "failure"} \subseteq Outcomes /\ {"waiting", "cancelled"} \subseteq RunStatus
  BY OutcomeValues DEF TypeOK, Rows, StepStatus, StepOver, RunStatus, RunOver
<1>2. ASSUME NEW n \in Nodes, StartNode(n) \/ SkipNode(n)
      PROVE  SameRounds /\ EngineStatus
  <2>1. \A m \in Nodes : step'[m].status = "none" <=> step[m].status = "none"
    BY <1>1, <1>2, TransitionedKeepsNone DEF StartNode, SkipNode
  <2> QED BY <1>2, <2>1, SameSteps DEF StartNode, SkipNode, SameRounds, EngineStatus
<1>3. ASSUME NEW n \in Nodes, StartNodeWithoutExecutor(n)
      PROVE  SameRounds /\ EngineStatus
  <2>1. transitioned(step, n, "running", "none") \in Rows
    BY <1>1, TransitionedType
  <2>2. \A m \in Nodes : step'[m].status = "none" <=> step[m].status = "none"
    BY <1>1, <1>3, <2>1, TransitionedKeepsNone DEF StartNodeWithoutExecutor
  <2> QED BY <1>3, <2>2, SameSteps DEF StartNodeWithoutExecutor, SameRounds, EngineStatus
<1>4. ASSUME NEW n \in Nodes, ConditionEvaluated(n)
      PROVE  SameRounds /\ EngineStatus
  <2>1. conditionOutcome(n) \in Outcomes
    BY OutcomeValues DEF conditionOutcome
  <2> QED BY <1>4, <2>1, SettleNodeSteps
          DEF ConditionEvaluated, executorSettles, SameRounds, EngineStatus
<1>5. ASSUME NEW n \in Nodes, NEW o \in Outcomes, GateEvaluated(n, o)
      PROVE  SameRounds /\ EngineStatus
  BY <1>5, SettleNodeSteps DEF GateEvaluated, executorSettles, SameRounds, EngineStatus
<1>6. CASE FinishPass
  BY <1>1, <1>6, StatusOnly, UnchangedSteps DEF FinishPass, SameRounds, EngineStatus
<1>7. ASSUME NEW c \in Cancellers, NEW n \in Nodes, CancelAgentStep(c, n)
      PROVE  SameRounds /\ EngineStatus
  BY <1>7, UnchangedSteps DEF CancelAgentStep, rowVars, SameRounds, EngineStatus
<1>8. ASSUME NEW c \in Cancellers, NEW n \in Nodes,
             CancelAgentStepReturns(c, n) \/ CancelStep(c, n)
      PROVE  SameRounds /\ EngineStatus
  BY <1>8, MarkCancelledSteps
     DEF CancelAgentStepReturns, CancelStep, SameRounds, EngineStatus
<1>9. ASSUME NEW c \in Cancellers, CancelEnd(c)
      PROVE  SameRounds /\ EngineStatus
  <2>1. run'.status = "cancelled" /\ SameRounds
    BY <1>1, <1>9, StatusOnly, UnchangedSteps DEF CancelEnd, SameRounds
  <2>2. run.status \in {"cancelled", "running"}
    BY <1>9 DEF CancelEnd, PassInv, CallsCancel, OpenPass
  <2> QED BY <2>1, <2>2 DEF EngineStatus, terminalRun, RunOver
<1> QED BY <1>2, <1>3, <1>4, <1>5, <1>6, <1>7, <1>8, <1>9 DEF EngineTurn

LEMMA EngineOutsideRounds ==
    ASSUME TypeOK, EngineOutside
    PROVE  SameRounds /\ EngineStatus
<1>1. "failure" \in Outcomes /\ {"completed", "cancelled"} \subseteq RunStatus
  BY OutcomeValues DEF RunStatus, RunOver
<1>2. ASSUME NEW n \in Nodes, AgentLaunched(n) \/ AgentMissed(n)
      PROVE  SameRounds /\ EngineStatus
  BY <1>2, UnchangedSteps DEF AgentLaunched, AgentMissed, rowVars, SameRounds, EngineStatus
<1>3. ASSUME NEW n \in Nodes, LaunchFailed(n)
      PROVE  SameRounds /\ EngineStatus
  BY <1>1, <1>3, SettleNodeSteps DEF LaunchFailed, executorSettles, SameRounds, EngineStatus
<1>4. ASSUME NEW n \in Nodes, NEW o \in Outcomes, ProcessEnds(n, o) \/ ResolveStep(n, o)
      PROVE  SameRounds /\ EngineStatus
  BY <1>4, SettleNodeSteps
     DEF ProcessEnds, ResolveStep, executorSettles, SameRounds, EngineStatus
<1>5. ASSUME NEW n \in Nodes, NEW approval \in BOOLEAN, ConfirmShellStep(n, approval)
      PROVE  SameRounds /\ EngineStatus
  BY <1>1, <1>5, SettleNodeSteps, UnchangedSteps
     DEF ConfirmShellStep, executorSettles, rowVars, SameRounds, EngineStatus
<1>6. ASSUME NEW c \in Cancellers, CancelRow(c)
      PROVE  SameRounds /\ EngineStatus
  BY <1>1, <1>6, StatusOnly, UnchangedSteps DEF CancelRow, SameRounds, EngineStatus
<1>7. ASSUME NEW c \in Cancellers, CancelPass(c)
      PROVE  SameRounds /\ EngineStatus
  BY <1>7, UnchangedSteps DEF CancelPass, rowVars, SameRounds, EngineStatus
<1>8. CASE Complete
  BY <1>1, <1>8, StatusOnly, UnchangedSteps DEF Complete, SameRounds, EngineStatus
<1> QED BY <1>2, <1>3, <1>4, <1>5, <1>6, <1>7, <1>8 DEF EngineOutside, Answers

(***************************************************************************)
(* The loop.  A round's rows exist exactly while the loop is in its pass:   *)
(* at the top of the loop every round is counted.  A run started by hand    *)
(* has its one round and never reaches the caps.                            *)
(***************************************************************************)
BudgetInv ==
    /\ run.iteration + roundBegun <= MaxTotal
    /\ run.criteriaIteration + roundBegun <= MaxPerVersion
    /\ run.criteriaIteration <= run.iteration
    /\ driver # "loop" => run.iteration = 0 /\ run.status # "needs_user_review"
    /\ driver = "none" => ~hasSteps
    /\ loop = "inPass" => hasSteps
    /\ driver = "loop" /\ ~terminalRun /\ hasSteps => loop = "inPass"
    /\ run.status = "needs_user_review" => run.iteration > 0

\* The round opened by startRun or by the loop is the iteration's first row.
LEMMA BeginPassRounds ==
    ASSUME TypeOK, Nodes # {}, NEW row \in Row, NEW waits, beginPass(row, waits)
    PROVE  /\ run'.iteration = row.iteration
           /\ run'.criteriaIteration = row.criteriaIteration
           /\ run'.status = "running" /\ hasSteps'
<1>1. PICK n \in Nodes : TRUE
  OBVIOUS
<1>2. step'[n].status # "none"
  BY <1>1 DEF beginPass, existing, StepOver
<1>3. run'.iteration = row.iteration /\ run'.criteriaIteration = row.criteriaIteration
      /\ run'.status = "running"
  BY DEF beginPass, setRunStatus, Row
<1> QED BY <1>1, <1>2, <1>3 DEF hasSteps

\* The counters and the status of the run, and nothing else of it, decide what
\* stage, rounds and underVersion are.
Counts == /\ run.iteration \in Nat /\ run.criteriaIteration \in Nat
          /\ run'.iteration \in Nat /\ run'.criteriaIteration \in Nat
          /\ hasSteps \in BOOLEAN /\ hasSteps' \in BOOLEAN
          /\ MaxTotal \in Nat \ {0} /\ MaxPerVersion \in Nat \ {0}

BudgetStep == [Budget!Next]_<<stage, run.iteration + roundBegun,
                              run.criteriaIteration + roundBegun>>

LEMMA CountsAlways ==
    ASSUME TypeOK, TypeOK'
    PROVE  Counts
BY PolicyAssumption DEF Counts, TypeOK, hasSteps

LEMMA AnchoredCounts ==
    ASSUME TypeOK
    PROVE  /\ anchored.iteration = run.iteration
           /\ anchored.criteriaIteration \in {0, run.criteriaIteration}
           /\ anchored.criteriaIteration \in Nat
BY DEF anchored, TypeOK

\* Steps that begin no round: the stage stays or the run is closed.
LEMMA SameRoundsStep ==
    ASSUME Counts, PassInv, BudgetInv, SameRounds, EngineStatus,
           driver' = driver \/ (driver = "none" /\ driver' = "loop"),
           loop' = loop \/ (loop = "idle" /\ loop' = "body" /\ driver' = "loop")
    PROVE  BudgetInv' /\ BudgetStep
<1>1. terminalRun => run'.status = run.status
  BY DEF EngineStatus, PassInv, OpenPass, terminalRun, RunOver
<1>2. roundBegun' = roundBegun
  BY DEF SameRounds, roundBegun
<1>3. run'.status = "needs_user_review" => run.status = "needs_user_review"
  BY DEF EngineStatus
<1>4. BudgetInv'
  <2>1. ~terminalRun' => ~terminalRun
    BY <1>1 DEF terminalRun
  <2> QED BY <1>2, <1>3, <2>1 DEF BudgetInv, SameRounds
<1>5. BudgetStep
  <2>1. CASE stage' = stage
    BY <1>2, <2>1 DEF BudgetStep, SameRounds
  <2>2. CASE stage' # stage
    <3>1. run'.status \in Budget!Closed /\ stage' = run'.status /\ ~terminalRun
      BY <1>1, <2>2 DEF EngineStatus, stage, terminalRun, RunOver, PassInv, OpenPass,
         Budget!Closed
    <3>2. stage \notin Budget!Closed
      BY <3>1 DEF stage, Budget!Closed, terminalRun
    <3>3. run'.status = "completed" => run.iteration + roundBegun > 0
      BY <3>1 DEF EngineStatus, BudgetInv, Counts, roundBegun, terminalRun, RunOver
    <3>4. Budget!Close(run'.status)
      BY <1>2, <3>1, <3>2, <3>3 DEF Budget!Close, SameRounds
    <3> QED BY <3>1, <3>4 DEF BudgetStep, Budget!Next
  <2> QED BY <2>1, <2>2
<1> QED BY <1>4, <1>5

LEMMA OutsideStep ==
    ASSUME Scope, Nodes # {}, TypeOK, TypeOK', PassInv, BudgetInv,
           Iterate \/ Begin \/ ConfirmCriteria \/ Dispose
    PROVE  BudgetInv' /\ BudgetStep
<1>1. Counts
  BY CountsAlways
<1>2. CASE Iterate
  <2>1. SameRounds /\ EngineStatus
    BY <1>2, UnchangedSteps DEF Iterate, engineVars, rowVars, SameRounds, EngineStatus
  <2>2. loop = "idle" /\ loop' = "body" /\ driver' = "loop" /\ driver \in {"none", "loop"}
    BY <1>2 DEF Iterate, Scope, TypeOK
  <2> QED BY <1>1, <2>1, <2>2, SameRoundsStep
<1>3. CASE ConfirmCriteria \/ Dispose
  <2>1. UNCHANGED <<rowVars, loop, driver>>
    BY <1>3 DEF ConfirmCriteria, Dispose, CancelPass, engineVars
  <2>2. SameRounds /\ EngineStatus
    BY <2>1, UnchangedSteps DEF rowVars, SameRounds, EngineStatus
  <2> QED BY <1>1, <2>1, <2>2, SameRoundsStep
<1>4. CASE Begin
  <2>1. run \in Row
    BY DEF TypeOK, Row
  <2>2. /\ run'.iteration = run.iteration
        /\ run'.criteriaIteration = run.criteriaIteration
        /\ run'.status = "running" /\ hasSteps'
    BY <1>4, <2>1, BeginPassRounds DEF Begin
  <2>3. /\ ~terminalRun /\ driver # "loop" /\ driver' = "hand" /\ UNCHANGED loop
    BY <1>4 DEF Begin, canBegin, Scope, TypeOK
  <2>4. /\ run.iteration = 0 /\ run.criteriaIteration = 0
        /\ run.status # "needs_user_review"
    BY <1>1, <2>3 DEF BudgetInv, Counts
  <2>5. /\ roundBegun' = 1 /\ run'.iteration = 0 /\ run'.criteriaIteration = 0
        /\ 0 < MaxTotal /\ 0 < MaxPerVersion
    BY <1>1, <2>2, <2>4 DEF roundBegun, Counts
  <2>6. stage = "open" /\ stage' = "open"
    BY <2>2, <2>3, <2>4 DEF stage, terminalRun, RunOver
  <2>7. BudgetInv'
    <3>1. MaxTotal \in Nat /\ MaxPerVersion \in Nat
      BY <1>1 DEF Counts
    <3>2. loop' # "inPass" /\ driver' = "hand" /\ run'.status = "running"
      BY <2>2, <2>3 DEF PassInv, LoopWaits
    <3> QED BY <2>2, <2>5, <3>1, <3>2 DEF BudgetInv
  <2>8. CASE hasSteps
    BY <2>2, <2>5, <2>6, <2>7, <2>8 DEF BudgetStep, roundBegun
  <2>9. CASE ~hasSteps
    <3>1. roundBegun = 0
      BY <2>9 DEF roundBegun
    <3>2. Budget!BeginRound
      BY <2>4, <2>5, <2>6, <3>1 DEF Budget!BeginRound, Budget!Closed
    <3> QED BY <2>7, <3>2 DEF BudgetStep, Budget!Next
  <2> QED BY <2>7, <2>8, <2>9
<1> QED BY <1>2, <1>3, <1>4

\* At the top of the loop every round is counted.
LEMMA BodyCounted ==
    ASSUME Counts, PassInv, BudgetInv, loop = "body", ~terminalRun
    PROVE  /\ ~hasSteps /\ roundBegun = 0 /\ settledRounds = run.iteration
           /\ stage \in {"open", "review"} /\ driver = "loop"
           /\ run.status = "needs_user_review" <=> stage = "review"
<1>1. driver = "loop" /\ ~hasSteps
  BY DEF PassInv, LoopWaits, BudgetInv
<1> QED BY <1>1 DEF roundBegun, settledRounds, stage

\* After its pass the loop counts the round it was in.
LEMMA PassCounted ==
    ASSUME Counts, PassInv, BudgetInv, passSettled("waiting")
    PROVE  /\ hasSteps /\ roundBegun = 1 /\ run.status = "waiting" /\ stage = "open"
           /\ ~terminalRun /\ driver = "loop" /\ canAdvance
<1>1. hasSteps /\ run.status = "waiting" /\ driver = "loop"
  BY DEF passSettled, PassInv, SettledRow, LoopWaits, BudgetInv
<1>2. roundBegun = 1 /\ ~terminalRun /\ stage = "open"
  BY <1>1 DEF roundBegun, terminalRun, RunOver, stage
<1>3. canAdvance
  BY <1>2 DEF canAdvance, BudgetInv, Counts
<1> QED BY <1>1, <1>2, <1>3

\* The loop body up to engine.start.
LEMMA BodyStep ==
    ASSUME Nodes # {}, TypeOK, TypeOK', PassInv, BudgetInv,
           \/ RoundRefused \/ CapBeforeRound \/ RoundNotPrepared \/ RoundBegins \/ PassRefused
    PROVE  BudgetInv' /\ BudgetStep
<1>1. Counts
  BY CountsAlways
<1>2. anchored \in Row /\ anchored.status = run.status
  BY AnchoredType
<1>3. /\ anchored.iteration = run.iteration
      /\ anchored.criteriaIteration \in {0, run.criteriaIteration}
      /\ anchored.criteriaIteration \in Nat
  BY AnchoredCounts
<1>4. CASE RoundRefused
  <2>1. /\ UNCHANGED <<run, step, driver>> /\ loop' = "idle" /\ terminalRun
        /\ driver = "loop"
    BY <1>4 DEF RoundRefused, engineVars, rowVars, PassInv, LoopWaits
  <2>2. UNCHANGED <<stage, roundBegun>> /\ (hasSteps' <=> hasSteps) /\ terminalRun'
    BY <2>1 DEF stage, roundBegun, hasSteps, terminalRun
  <2>3. BudgetInv'
    BY <2>1, <2>2 DEF BudgetInv
  <2> QED BY <2>1, <2>2, <2>3 DEF BudgetStep
<1>5. CASE CapBeforeRound \/ RoundNotPrepared \/ PassRefused
  <2>1. /\ loop = "body" /\ ~terminalRun /\ loop' = "idle" /\ UNCHANGED <<step, driver>>
        /\ run'.iteration = run.iteration
        /\ run'.criteriaIteration = anchored.criteriaIteration
    BY <1>2, <1>3, <1>5
       DEF CapBeforeRound, RoundNotPrepared, PassRefused, setRunStatus, Row
  <2>2. /\ ~hasSteps /\ roundBegun = 0 /\ settledRounds = run.iteration
        /\ stage \in {"open", "review"} /\ driver = "loop"
        /\ run.status = "needs_user_review" <=> stage = "review"
    BY <1>1, <2>1, BodyCounted
  <2>3. ~hasSteps' /\ roundBegun' = 0
    BY <2>1, <2>2 DEF hasSteps, roundBegun
  <2>4. run'.status = "needs_user_review" => run.iteration > 0
    BY <1>1, <1>2, <1>5, <2>2 DEF CapBeforeRound, RoundNotPrepared, PassRefused,
       cappedBefore, setRunStatus, Row, BudgetInv, Counts
  <2>5. BudgetInv'
    BY <1>1, <1>3, <2>1, <2>2, <2>3, <2>4 DEF BudgetInv, Counts
  <2>6. CASE CapBeforeRound
    <3>1. run'.status = "needs_user_review" /\ capped(run.iteration, anchored.criteriaIteration)
      BY <1>2, <2>2, <2>6 DEF CapBeforeRound, cappedBefore, setRunStatus, Row
    <3>2. stage' = "review"
      BY <3>1 DEF stage, terminalRun, RunOver
    <3>3. CASE anchored.criteriaIteration = run.criteriaIteration
      <4>1. run.iteration = MaxTotal \/ run.criteriaIteration = MaxPerVersion
        BY <1>1, <2>2, <3>1, <3>3 DEF capped, BudgetInv, Counts
      <4>2. stage = "review" \/ Budget!ParkForReview
        BY <1>1, <2>1, <2>2, <2>3, <3>2, <3>3, <4>1 DEF Budget!ParkForReview, Counts
      <4> QED BY <2>1, <2>2, <2>3, <2>5, <3>2, <3>3, <4>2 DEF BudgetStep, Budget!Next
    <3>4. CASE anchored.criteriaIteration # run.criteriaIteration
      <4>1. run.iteration = MaxTotal
        BY <1>1, <1>3, <2>2, <3>1, <3>4 DEF capped, BudgetInv, Counts
      <4>2. Budget!ParkUnderNewVersion
        BY <1>1, <1>3, <2>1, <2>2, <2>3, <3>2, <3>4, <4>1
           DEF Budget!ParkUnderNewVersion, Budget!Closed, Counts
      <4> QED BY <2>5, <4>2 DEF BudgetStep, Budget!Next
    <3> QED BY <3>3, <3>4
  <2>7. CASE run'.status = "failed"
    <3>1. stage' = "failed"
      BY <2>7 DEF stage, terminalRun, RunOver
    <3>2. Budget!Close("failed") /\ "failed" \in Budget!Closed
      BY <1>1, <1>3, <2>1, <2>2, <2>3, <3>1 DEF Budget!Close, Budget!Closed, Counts
    <3> QED BY <2>5, <3>2 DEF BudgetStep, Budget!Next
  <2>8. CASE run'.status = run.status
    <3>1. stage' = stage
      BY <2>8 DEF stage, terminalRun
    <3>2. CASE anchored.criteriaIteration = run.criteriaIteration
      BY <2>1, <2>2, <2>3, <2>5, <3>1, <3>2 DEF BudgetStep
    <3>3. CASE anchored.criteriaIteration = 0
      <4>1. Budget!NewVersion
        BY <1>1, <2>1, <2>2, <2>3, <3>1, <3>3 DEF Budget!NewVersion, Budget!Closed, Counts
      <4> QED BY <2>5, <4>1 DEF BudgetStep, Budget!Next
    <3> QED BY <1>3, <3>2, <3>3
  <2>9. CapBeforeRound \/ run'.status \in {"failed", run.status}
    BY <1>2, <1>5 DEF RoundNotPrepared, PassRefused, setRunStatus, Row
  <2> QED BY <2>6, <2>7, <2>8, <2>9
<1>6. CASE RoundBegins
  <2>1. /\ loop = "body" /\ ~terminalRun /\ ~cappedBefore /\ loop' = "inPass"
        /\ UNCHANGED driver /\ beginPass(anchored, TRUE)
    BY <1>6 DEF RoundBegins
  <2>2. /\ run'.iteration = run.iteration
        /\ run'.criteriaIteration = anchored.criteriaIteration
        /\ run'.status = "running" /\ hasSteps'
    BY <1>2, <1>3, <2>1, BeginPassRounds
  <2>3. /\ ~hasSteps /\ roundBegun = 0 /\ settledRounds = run.iteration
        /\ stage \in {"open", "review"} /\ driver = "loop"
    BY <1>1, <2>1, BodyCounted
  <2>4. roundBegun' = 1 /\ stage' = "open"
    BY <2>2 DEF roundBegun, stage, terminalRun, RunOver
  <2>5. run.iteration < MaxTotal /\ anchored.criteriaIteration < MaxPerVersion
    BY <1>1, <1>3, <2>1, <2>3 DEF cappedBefore, capped, BudgetInv, Counts
  <2>6. BudgetInv'
    BY <1>1, <1>3, <2>1, <2>2, <2>3, <2>4, <2>5 DEF BudgetInv, Counts
  <2>7. CASE anchored.criteriaIteration = run.criteriaIteration
    <3>1. Budget!BeginRound
      BY <1>1, <2>2, <2>3, <2>4, <2>5, <2>7 DEF Budget!BeginRound, Budget!Closed, Counts
    <3> QED BY <2>6, <3>1 DEF BudgetStep, Budget!Next
  <2>8. CASE anchored.criteriaIteration = 0
    <3>1. Budget!BeginRoundUnderNewVersion
      BY <1>1, <2>2, <2>3, <2>4, <2>5, <2>8
         DEF Budget!BeginRoundUnderNewVersion, Budget!Closed, Counts
    <3> QED BY <2>6, <3>1 DEF BudgetStep, Budget!Next
  <2> QED BY <1>3, <2>7, <2>8
<1> QED BY <1>4, <1>5, <1>6

\* The loop body after engine.start.
LEMMA AfterPassStep ==
    ASSUME TypeOK, TypeOK', PassInv, BudgetInv,
           RoundCancelled \/ RoundApproved \/ CapAfterRound \/ RoundRejected
    PROVE  BudgetInv' /\ BudgetStep
<1>1. Counts
  BY CountsAlways
<1>2. CASE RoundCancelled
  <2>1. UNCHANGED <<run, step, driver>> /\ loop' = "idle" /\ run.status = "cancelled"
    BY <1>2 DEF RoundCancelled, loopUnchanged, rowVars, passSettled, PassInv, SettledRow
  <2>2. UNCHANGED <<stage, roundBegun>> /\ (hasSteps' <=> hasSteps) /\ terminalRun'
    BY <2>1 DEF stage, roundBegun, hasSteps, terminalRun, RunOver
  <2>3. BudgetInv'
    BY <2>1, <2>2 DEF BudgetInv
  <2> QED BY <2>1, <2>2, <2>3 DEF BudgetStep
<1>3. CASE RoundApproved
  <2>1. /\ hasSteps /\ roundBegun = 1 /\ stage = "open" /\ driver = "loop"
    BY <1>1, <1>3, PassCounted DEF RoundApproved
  <2>2. "completed" \in RunStatus
    BY DEF RunStatus, RunOver
  <2>3. /\ run'.iteration = run.iteration
        /\ run'.criteriaIteration = run.criteriaIteration
        /\ run'.status = "completed" /\ UNCHANGED <<step, driver>> /\ loop' = "idle"
    BY <1>3, <2>2, StatusOnly DEF RoundApproved, loopUnchanged
  <2>4. hasSteps' /\ roundBegun' = 1 /\ terminalRun' /\ stage' = "completed"
    BY <2>1, <2>3 DEF hasSteps, roundBegun, terminalRun, RunOver, stage
  <2>5. BudgetInv'
    BY <2>1, <2>3, <2>4 DEF BudgetInv
  <2>6. Budget!Close("completed") /\ "completed" \in Budget!Closed
    BY <1>1, <2>1, <2>3, <2>4 DEF Budget!Close, Budget!Closed, Counts
  <2> QED BY <2>5, <2>6 DEF BudgetStep, Budget!Next
<1>4. ASSUME CapAfterRound \/ RoundRejected
      PROVE  /\ run'.iteration = run.iteration + 1
             /\ run'.criteriaIteration = run.criteriaIteration + 1
             /\ ~hasSteps' /\ roundBegun' = 0 /\ hasSteps /\ roundBegun = 1
             /\ driver = "loop" /\ driver' = "loop" /\ loop' \in {"idle", "body"}
             /\ stage = "open" /\ run.status = "waiting" /\ advanced \in Row
             /\ advanced.status = "waiting"
  <2>1. /\ hasSteps /\ roundBegun = 1 /\ run.status = "waiting" /\ stage = "open"
        /\ driver = "loop" /\ canAdvance
    BY <1>1, <1>4, PassCounted DEF CapAfterRound, RoundRejected
  <2>2. /\ advanced \in Row /\ advanced.status = run.status
        /\ advanced.iteration = run.iteration + 1
        /\ advanced.criteriaIteration = run.criteriaIteration + 1
    BY AdvancedType DEF advanced, TypeOK
  <2>3. /\ run'.iteration = advanced.iteration
        /\ run'.criteriaIteration = advanced.criteriaIteration
        /\ step' = [n \in Nodes |-> NoRow] /\ UNCHANGED driver /\ loop' \in {"idle", "body"}
    BY <1>4, <2>1, <2>2 DEF CapAfterRound, RoundRejected, setRunStatus, loopUnchanged, Row
  <2>4. ~hasSteps' /\ roundBegun' = 0
    BY <2>3 DEF hasSteps, roundBegun, NoRow
  <2> QED BY <2>1, <2>2, <2>3, <2>4
<1>5. ASSUME CapAfterRound \/ RoundRejected
      PROVE  BudgetInv'
  BY <1>1, <1>4, <1>5 DEF BudgetInv, Counts
<1>6. CASE CapAfterRound
  <2>1. canAdvance /\ cappedAfter /\ run'.status = "needs_user_review"
    BY <1>1, <1>4, <1>6, PassCounted DEF CapAfterRound, setRunStatus, Row
  <2>2. stage' = "review"
    BY <2>1 DEF stage, terminalRun, RunOver
  <2>3. \/ run.iteration + 1 = MaxTotal
        \/ run.criteriaIteration + 1 = MaxPerVersion
    BY <1>1, <1>4, <1>6, <2>1 DEF cappedAfter, capped, BudgetInv, Counts
  <2>4. Budget!ParkForReview
    BY <1>1, <1>4, <1>6, <2>2, <2>3 DEF Budget!ParkForReview, Counts
  <2> QED BY <1>5, <1>6, <2>4 DEF BudgetStep, Budget!Next
<1>7. CASE RoundRejected
  <2>1. run' = advanced
    BY <1>1, <1>7, PassCounted DEF RoundRejected
  <2>2. stage' = "open"
    BY <1>4, <1>7, <2>1 DEF stage, terminalRun, RunOver
  <2> QED BY <1>1, <1>4, <1>5, <1>7, <2>2 DEF BudgetStep, Counts
<1> QED BY <1>2, <1>3, <1>6, <1>7

LEMMA NextStep ==
    ASSUME Scope, Nodes # {}, TypeOK, TypeOK', PassInv, BudgetInv, [Next]_vars
    PROVE  BudgetInv' /\ BudgetStep
<1>1. CASE UNCHANGED vars
  <2>1. SameRounds /\ EngineStatus /\ UNCHANGED <<loop, driver>>
    BY <1>1, UnchangedSteps
       DEF vars, engineVars, rowVars, loopVars, SameRounds, EngineStatus
  <2> QED BY <2>1, CountsAlways, SameRoundsStep
<1>2. CASE (EngineTurn \/ EngineOutside) /\ UNCHANGED loopVars
  <2>1. SameRounds /\ EngineStatus /\ UNCHANGED <<loop, driver>>
    BY <1>2, EngineTurnRounds, EngineOutsideRounds DEF loopVars
  <2> QED BY <2>1, CountsAlways, SameRoundsStep
<1>3. CASE LoopTurn
  BY <1>3, BodyStep, AfterPassStep DEF LoopTurn
<1>4. CASE Iterate \/ Begin \/ ConfirmCriteria \/ Dispose
  BY <1>4, OutsideStep
<1> QED BY <1>1, <1>2, <1>3, <1>4 DEF Next, Turn, Outside

\* While Scope holds, the loop keeps what RoundBudget promises: no cap is ever
\* exceeded, a run is parked only at a cap, and a closed run begins no round.
THEOREM LoopKeepsBudget ==
    ASSUME Scope, Nodes # {}
    PROVE  Spec => KeepsBudget
<1>1. Init => BudgetInv /\ Budget!Init
  BY PolicyAssumption DEF Init, EngineInit, LoopInit, NoRow, BudgetInv, Budget!Init,
     hasSteps, roundBegun, stage, terminalRun, RunOver
<1>2. TypeOK /\ TypeOK' /\ PassInv /\ BudgetInv /\ [Next]_vars => BudgetInv' /\ BudgetStep
  BY NextStep
<1>3. TypeOK /\ TypeOK' /\ PassInv /\ BudgetInv /\ [Next]_vars
        => [Budget!Next]_<<stage, run.iteration + roundBegun,
                           run.criteriaIteration + roundBegun>>
  BY <1>2 DEF BudgetStep
<1> QED BY <1>1, <1>2, <1>3, TypeCorrect, PassInvariant, PTL DEF Spec, KeepsBudget, Budget!Spec
=============================================================================
