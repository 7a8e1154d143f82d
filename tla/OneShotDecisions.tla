-------------------------- MODULE OneShotDecisions --------------------------
(***************************************************************************)
(* What the Decision Inbox promises (docs/decisions/0014, points 2, 3, 5):  *)
(* a source has at most one open decision, a decision is closed once, and   *)
(* its action is handed to its source once, by the step that decides it; a  *)
(* decision that is withdrawn has no action.                                *)
(***************************************************************************)
CONSTANTS Sources, Decisions, None

VARIABLES
    waiting,   \* the open decision of each source
    closed,    \* decisions that are closed
    acted      \* decisions whose action was handed to the source

Init ==
    /\ waiting = [s \in Sources |-> None]
    /\ closed = {} /\ acted = {}

Open(s, d) ==
    /\ waiting[s] = None
    /\ d \notin closed /\ \A q \in Sources : waiting[q] # d
    /\ waiting' = [waiting EXCEPT ![s] = d]
    /\ UNCHANGED <<closed, acted>>

\* The open decisions of the sources in S are closed; those of the sources in
\* D by a decision, which is acted upon.
Close(S, D) ==
    /\ \A s \in S : waiting[s] # None
    /\ waiting' = [s \in Sources |-> IF s \in S THEN None ELSE waiting[s]]
    /\ closed' = closed \cup {waiting[s] : s \in S}
    /\ acted' = acted \cup {waiting[s] : s \in D}

Next ==
    \/ \E s \in Sources, d \in Decisions : Open(s, d)
    \/ \E S \in SUBSET Sources : \E D \in SUBSET S : Close(S, D)

Spec == Init /\ [][Next]_<<waiting, closed, acted>>
=============================================================================
