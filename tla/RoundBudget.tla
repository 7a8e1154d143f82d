----------------------------- MODULE RoundBudget -----------------------------
(***************************************************************************)
(* What iterating promises its user, without graphs, steps or processes: a  *)
(* workflow run executes at most MaxTotal rounds, and at most MaxPerVersion *)
(* under one confirmed version of the criteria; it may be parked for a      *)
(* review, from which the user accepts it, cancels it or iterates again;    *)
(* and a run that is closed stays as it was closed.                         *)
(***************************************************************************)
EXTENDS Naturals

CONSTANTS MaxTotal, MaxPerVersion

VARIABLES
    stage,        \* "open", "review", or how the run was closed
    rounds,       \* rounds begun
    underVersion  \* of which under the criteria version it is anchored to

Closed == {"completed", "failed", "cancelled"}

Init == stage = "open" /\ rounds = 0 /\ underVersion = 0

BeginRound ==
    /\ stage \notin Closed
    /\ rounds < MaxTotal /\ underVersion < MaxPerVersion
    /\ stage' = "open"
    /\ rounds' = rounds + 1 /\ underVersion' = underVersion + 1

\* The round that opens under a newer version is the first one under it.
BeginRoundUnderNewVersion ==
    /\ stage \notin Closed
    /\ rounds < MaxTotal
    /\ stage' = "open"
    /\ rounds' = rounds + 1 /\ underVersion' = 1

NewVersion ==
    /\ stage \notin Closed
    /\ underVersion' = 0 /\ UNCHANGED <<stage, rounds>>

ParkForReview ==
    /\ stage = "open" /\ (rounds = MaxTotal \/ underVersion = MaxPerVersion)
    /\ stage' = "review" /\ UNCHANGED <<rounds, underVersion>>

\* A total that is used up keeps the run parked whatever its criteria are.
ParkUnderNewVersion ==
    /\ stage \notin Closed /\ rounds = MaxTotal
    /\ stage' = "review" /\ underVersion' = 0 /\ UNCHANGED rounds

Close(how) ==
    /\ stage \notin Closed
    /\ how = "completed" => rounds > 0
    /\ stage' = how /\ UNCHANGED rounds
    /\ underVersion' \in {0, underVersion}

Next ==
    \/ BeginRound \/ BeginRoundUnderNewVersion \/ NewVersion
    \/ ParkForReview \/ ParkUnderNewVersion
    \/ \E how \in Closed : Close(how)

Spec == Init /\ [][Next]_<<stage, rounds, underVersion>>
=============================================================================
