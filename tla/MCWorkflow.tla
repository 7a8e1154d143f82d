------------------------------ MODULE MCWorkflow ------------------------------
(* Small instances of IterationLoop for TLC. *)
EXTENDS IterationLoop

CONSTANTS c1, implement, fix, reviewImplement, reviewFix,  \* both graphs
          probe, lint, signOff,                         \* the repository's own graph
          testImplement, testFix, gateImplement, gateFix

(* A graph the generic engine runs: a condition on the first round's agent, a
   shell step (for which that engine has no executor) behind it in later
   rounds, a checkpoint in every round, and the iterate definition. *)
MCNodes == {implement, fix, reviewImplement, reviewFix, probe, lint, signOff}
MCKind == [n \in MCNodes |->
    CASE n \in {implement, fix} -> "agent"
      [] n \in {reviewImplement, reviewFix} -> "review-panel"
      [] n = probe -> "condition"
      [] n = lint -> "shell"
      [] n = signOff -> "checkpoint"]
MCRunOn == [n \in MCNodes |->
    CASE n \in {implement, reviewImplement, probe} -> "first"
      [] n \in {fix, reviewFix, lint} -> "subsequent"
      [] OTHER -> "always"]
MCNeeds == [n \in MCNodes |->
    CASE n \in {reviewImplement, signOff} -> {<<implement, "any">>}
      [] n = probe -> {<<implement, "failure">>}
      [] n = reviewFix -> {<<fix, "any">>}
      [] n = lint -> {<<probe, "true">>, <<fix, "success">>}
      [] OTHER -> {}]
MCExpr == [n \in {probe} |-> <<implement, "failure">>]

(* The eight nodes of the default full workflow. *)
FullNodes == {implement, fix, testImplement, testFix, reviewImplement, reviewFix,
              gateImplement, gateFix}
FullFirst == {implement, testImplement, reviewImplement, gateImplement}
FullKind == [n \in FullNodes |->
    CASE n \in {implement, fix} -> "agent"
      [] n \in {testImplement, testFix} -> "shell"
      [] n \in {reviewImplement, reviewFix} -> "review-panel"
      [] OTHER -> "criteria-gate"]
FullRunOn == [n \in FullNodes |-> IF n \in FullFirst THEN "first" ELSE "subsequent"]
FullNeeds == [n \in FullNodes |->
    CASE n = testImplement -> {<<implement, "any">>}
      [] n = testFix -> {<<fix, "any">>}
      [] n = reviewImplement -> {<<testImplement, "any">>}
      [] n = reviewFix -> {<<testFix, "any">>}
      [] n = gateImplement -> {<<reviewImplement, "approve">>}
      [] n = gateFix -> {<<reviewFix, "approve">>}
      [] OTHER -> {}]
FullExpr == [n \in {} |-> <<>>]

\* What NoPassIsStuck assumes of a graph, both graphs are.
ASSUME GraphIsAcyclic == Acyclic
=============================================================================
