---------------------------- MODULE IterationLoop ----------------------------
(***************************************************************************)
(* The rounds of a workflow run: iteration-controller.ts driving the engine *)
(* pass by pass, and the requests that reach the run from outside           *)
(* (runtime/compose.ts).  With Dedicated the run is a full workflow's       *)
(* (full-workflow-service.ts): it is iterated once, on an engine of its     *)
(* own, and a loop that ends with an error fails the run.                   *)
(*                                                                          *)
(* From the top of a round to engine.start nothing is awaited, and the loop *)
(* continues as soon as the promise of start() is settled: both go before   *)
(* anything from outside.  The policy and the run's totalIterations agree,  *)
(* as they do in a run that one request created.                            *)
(***************************************************************************)
EXTENDS WorkflowEngine

CONSTANTS
    MaxPerVersion,   \* policy.maxRoundsPerCriteriaVersion
    MaxTotal,        \* policy.maxTotalRounds, also the run's totalIterations
    MaxVersions,     \* bound on the criteria versions the user confirms
    ReviewNodes,     \* the nodes of REVIEW_NODE_IDS
    OneDriver        \* nobody mixes startRun and iterate on one run

VARIABLES
    loop,        \* "idle", "body": top of the loop, "inPass": in engine.start
    driver,      \* who started the run's first pass: "none", "hand" or "loop"
    criteria,    \* version of the task's confirmed criteria set, 0 for none
    disposing    \* the controller refuses further iterate() calls

loopVars == <<loop, driver, criteria, disposing>>
vars == <<engineVars, loopVars>>

ASSUME PolicyAssumption ==
    /\ MaxPerVersion \in Nat \ {0} /\ MaxTotal \in Nat \ {0} /\ MaxVersions \in Nat
    /\ ReviewNodes \subseteq {n \in Nodes : Kind[n] = "review-panel"}
    /\ OneDriver \in BOOLEAN

hasSteps == \E n \in Nodes : step[n].status # "none"
settledRounds == IF hasSteps THEN run.iteration + 1 ELSE run.iteration

\* The run re-anchored to the confirmed criteria.
anchored == IF run.anchor = criteria THEN run
            ELSE [run EXCEPT !.anchor = criteria, !.criteriaIteration = 0]

LoopInit == loop = "idle" /\ driver = "none" /\ criteria = 0 /\ disposing = FALSE
Init == EngineInit /\ LoopInit

\* advanceIteration: both counters move and the iteration's rows are new ones.
canAdvance == ~terminalRun /\ run.iteration + 1 <= MaxTotal
advanced == [run EXCEPT !.iteration = @ + 1, !.criteriaIteration = @ + 1]

\* Mutant: the gates have no say.
approvedByReview ==
    \E n \in ReviewNodes : step[n] = [status |-> "completed", outcome |-> "approve"]

\* The review approved and, where the graph has gates, one of them passed.
approved ==
    /\ \E n \in ReviewNodes : step[n] = [status |-> "completed", outcome |-> "approve"]
    /\ (\E n \in Nodes : Kind[n] = "criteria-gate") =>
         \E n \in Nodes : /\ Kind[n] = "criteria-gate"
                          /\ step[n] = [status |-> "completed", outcome |-> "pass"]

capped(rounds, versionRounds) == versionRounds >= MaxPerVersion \/ rounds >= MaxTotal

\* Mutant: the controller does not look whether a loop is active.
IterateAnyway ==
    /\ ~disposing
    /\ OneDriver => driver # "hand"
    /\ Dedicated => driver = "none"
    /\ loop' = "body"
    /\ driver' = IF driver = "none" THEN "loop" ELSE driver
    /\ UNCHANGED <<engineVars, criteria, disposing>>

\* iterate(): a loop for the run, unless one is active.
Iterate ==
    /\ loop = "idle" /\ ~disposing
    /\ OneDriver => driver # "hand"
    /\ Dedicated => driver = "none"
    /\ loop' = "body"
    /\ driver' = IF driver = "none" THEN "loop" ELSE driver
    /\ UNCHANGED <<engineVars, criteria, disposing>>

\* startRun: one pass nobody loops over.
Begin ==
    /\ ~Dedicated
    /\ OneDriver => driver # "loop"
    /\ canBegin /\ beginPass(run, FALSE)
    /\ driver' = IF driver = "none" THEN "hand" ELSE driver
    /\ UNCHANGED <<loop, criteria, disposing>>

(***************************************************************************)
(* The loop body up to engine.start.                                        *)
(***************************************************************************)
\* Mutant: a resumed loop forgets the cap per criteria version.
cappedBeforeInTotal == settledRounds > 0 /\ settledRounds >= MaxTotal

\* The pre-round check of a resumed run, under the re-anchored counter.
cappedBefore == settledRounds > 0
                /\ capped(settledRounds, anchored.criteriaIteration)

RoundRefused ==
    /\ loop = "body" /\ terminalRun
    /\ loop' = "idle"
    /\ UNCHANGED <<engineVars, driver, criteria, disposing>>

\* triggerCap before a round: it is not counted.
CapBeforeRound ==
    /\ loop = "body" /\ ~terminalRun /\ cappedBefore
    /\ setRunStatus(anchored, "needs_user_review")
    /\ loop' = "idle"
    /\ UNCHANGED <<step, passVars, exec, stopAsked, callVars, driver, criteria, disposing>>

\* The round's preparation fails: the error is returned, and only the full
\* workflow's service marks the run.
RoundNotPrepared ==
    /\ loop = "body" /\ ~terminalRun /\ ~cappedBefore
    /\ setRunStatus(anchored, IF Dedicated THEN "failed" ELSE run.status)
    /\ loop' = "idle"
    /\ UNCHANGED <<step, passVars, exec, stopAsked, callVars, driver, criteria, disposing>>

RoundBegins ==
    /\ loop = "body" /\ ~terminalRun /\ ~cappedBefore
    /\ canBegin /\ beginPass(anchored, TRUE)
    /\ loop' = "inPass"
    /\ UNCHANGED <<driver, criteria, disposing>>

\* The engine refuses the pass: it has one, a step is still running, or an
\* agent node's profile alias is unbound.
PassRefused ==
    /\ loop = "body" /\ ~terminalRun /\ ~cappedBefore
    /\ setRunStatus(anchored, "failed")
    /\ loop' = "idle"
    /\ UNCHANGED <<step, passVars, exec, stopAsked, callVars, driver, criteria, disposing>>

(***************************************************************************)
(* The loop body after engine.start.                                        *)
(***************************************************************************)
passSettled(s) == loop = "inPass" /\ settled = s /\ settled' = "none"

loopUnchanged == UNCHANGED <<passVars, exec, stopAsked, awaited, call,
                             driver, criteria, disposing>>

RoundCancelled ==
    /\ passSettled("cancelled")
    /\ loop' = "idle"
    /\ UNCHANGED <<rowVars, asked>> /\ loopUnchanged

RoundApproved ==
    /\ passSettled("waiting") /\ approved
    /\ setRunStatus(run, "completed")
    /\ loop' = "idle"
    /\ UNCHANGED step /\ loopUnchanged

cappedAfter == capped(run.iteration + 1, run.criteriaIteration + 1)

\* triggerCap after a round: the round is counted first, where it can be.
CapAfterRound ==
    /\ passSettled("waiting") /\ ~approved /\ cappedAfter
    /\ setRunStatus(IF canAdvance THEN advanced ELSE run, "needs_user_review")
    /\ step' = IF canAdvance THEN [n \in Nodes |-> NoRow] ELSE step
    /\ loop' = "idle"
    /\ loopUnchanged

RoundRejected ==
    /\ passSettled("waiting") /\ ~approved /\ ~cappedAfter
    /\ IF canAdvance
       THEN /\ run' = advanced /\ step' = [n \in Nodes |-> NoRow]
            /\ loop' = "body" /\ UNCHANGED asked
       ELSE /\ IF Dedicated THEN setRunStatus(run, "failed") ELSE UNCHANGED <<run, asked>>
            /\ loop' = "idle" /\ UNCHANGED step
    /\ loopUnchanged

(***************************************************************************)
(* The rest of the world.                                                   *)
(***************************************************************************)

\* The user edits the criteria and confirms the new version.
ConfirmCriteria ==
    /\ criteria < MaxVersions
    /\ criteria' = criteria + 1
    /\ UNCHANGED <<engineVars, loop, driver, disposing>>

\* dispose() of the service, the controller and the engine.
Dispose ==
    /\ ~disposing /\ disposing' = TRUE
    /\ IF open /\ ~terminalRun THEN CancelPass(Quit) ELSE UNCHANGED engineVars
    /\ UNCHANGED <<loop, driver, criteria>>

LoopTurn ==
    \/ RoundRefused \/ CapBeforeRound \/ RoundNotPrepared \/ RoundBegins \/ PassRefused
    \/ RoundCancelled \/ RoundApproved \/ CapAfterRound \/ RoundRejected

Turn == (EngineTurn /\ UNCHANGED loopVars) \/ LoopTurn

Outside ==
    /\ Quiet /\ loop # "body"
    /\ \/ EngineOutside /\ UNCHANGED loopVars
       \/ Iterate \/ Begin \/ ConfirmCriteria \/ Dispose

Next == Turn \/ Outside

\* agents.start() always returns, an agent that is told to stop stops, and a
\* call in progress goes on.
Fairness ==
    /\ WF_vars(Turn)
    /\ \A n \in Nodes :
         /\ WF_vars(Outside /\ (AgentLaunched(n) \/ LaunchFailed(n) \/ AgentMissed(n)))
         /\ WF_vars(Outside /\ stopAsked' = stopAsked \ {n} /\ n \in stopAsked)

\* An assumption about the world, not about the code: every process ends at
\* last and every question is answered.
Attended ==
    \A n \in Nodes :
      /\ WF_vars(Outside /\ \E o \in Outcomes : ProcessEnds(n, o))
      /\ WF_vars(Outside /\ \E yes \in BOOLEAN : ConfirmShellStep(n, yes))
      /\ WF_vars(Outside /\ \E o \in Outcomes : ResolveStep(n, o))

Spec == Init /\ [][Next]_vars /\ Fairness

(***************************************************************************)
(* Properties.                                                              *)
(***************************************************************************)
TypeOK ==
    /\ run \in [status : RunStatus, iteration : Nat, criteriaIteration : Nat, anchor : Nat]
    /\ step \in [Nodes -> [status : StepStatus, outcome : Outcomes]]
    /\ open \in BOOLEAN /\ cancelling \in BOOLEAN
    /\ done \subseteq Nodes /\ activates \subseteq Nodes /\ parked \subseteq Nodes
    /\ outcome \in [Nodes -> Outcomes]
    /\ exec \in [Nodes -> {"none", "launching", "live", "lost", "confirming", "ready"}]
    /\ asked \subseteq Nodes /\ stopAsked \subseteq Nodes
    /\ awaited \in BOOLEAN /\ settled \in {"none", "waiting", "cancelled"}
    /\ call \in [Cancellers -> [pc : {"idle", "looping", "awaiting"},
                                left : SUBSET Nodes, node : SUBSET Nodes]]
    /\ loop \in {"idle", "body", "inPass"} /\ driver \in {"none", "hand", "loop"}
    /\ criteria \in Nat /\ disposing \in BOOLEAN

\* What the header of workflow-engine.ts says an edge needs, read off the rows:
\* a plain edge a completed upstream or one whose phase is over, a conditional
\* edge that outcome of an upstream that ran (the positive one when it is over).
rowActivates(d) ==
    IF past(d[1]) THEN d[2] \in {"any", Positive(Kind[d[1]])}
    ELSE IF d[2] = "any" THEN step[d[1]].status = "completed"
    ELSE step[d[1]].status \in {"completed", "failed"} /\ step[d[1]].outcome = d[2]

\* A step runs only in its phase and once every edge it needs is activated, and
\* a step of this phase is skipped only when an edge can no longer be.
StepsFollowGraph ==
    \A n \in Nodes :
      /\ step[n].status \in {"running", "completed", "failed"} =>
           active(n) /\ \A d \in Needs[n] : rowActivates(d)
      /\ step[n].status = "skipped" /\ active(n) =>
           \E d \in Needs[n] : step[d[1]].status \in StepOver /\ ~rowActivates(d)

\* A step row that is over is never written again in its iteration, whatever
\* answers come late from the executor, the user or a second cancel.
StepsStayOver ==
    [][\A n \in Nodes : step[n].status \in StepOver /\ run'.iteration = run.iteration
                          => step'[n] = step[n]]_vars

\* "Terminal runs have no exits": a run that is closed keeps its status, and
\* none of its steps starts.
ClosedRunStaysClosed ==
    [][terminalRun => /\ run'.status = run.status
                      /\ \A n \in Nodes : step'[n].status = "running"
                                            => step[n].status = "running"]_vars

\* When a run is closed no step of it is left pending or running, and none of
\* the agents it started is still at work.
ClosedRunIsAtRest ==
    terminalRun =>
      \A n \in Nodes : /\ step[n].status \notin {"pending", "running"}
                       /\ Kind[n] = "agent" => exec[n] = "none"

\* A run handed to the user for review has no pass in the engine: complete()
\* relies on it when it drops the entry.
ParkedRunHasNoPass == run.status = "needs_user_review" => ~open

\* The loop closes a run as completed only if this round's review approved it,
\* its gate passed, and every step these depend on in this round completed.
ApprovedRoundIsWhole ==
    [][run'.status = "completed" /\ run.status \notin {"completed", "needs_user_review"} =>
         \A n \in Nodes :
           active(n) /\ Kind[n] \in {"review-panel", "criteria-gate"} =>
             /\ step[n] = [status |-> "completed", outcome |-> Positive(Kind[n])]
             /\ \A d \in Needs[n] : step[d[1]].status = "completed" \/ past(d[1])]_vars

\* The rounds respect the caps of the promise, across resumed loops, criteria
\* edits, cancels and reviews.
stage == IF terminalRun THEN run.status
         ELSE IF run.status = "needs_user_review" THEN "review" ELSE "open"
roundBegun == IF hasSteps THEN 1 ELSE 0
Budget == INSTANCE RoundBudget WITH
            stage <- stage,
            rounds <- run.iteration + roundBegun,
            underVersion <- run.criteriaIteration + roundBegun
KeepsBudget == Budget!Spec

\* A call of cancel() comes back, whatever it has to wait for.
CancelReturns == \A c \in Cancellers : call[c].pc # "idle" ~> call[c].pc = "idle"

\* "Every pass terminates", so iterate() does: once the processes have ended
\* and the questions have been answered.
IterateReturns == Attended => (loop # "idle" ~> loop = "idle")
=============================================================================
