--------------------------- MODULE MCDecisionInbox ---------------------------
(* Small instances of DecisionInbox for TLC.  The sources meet in the tick and
   in the end of an instance only, so three constellations are checked side by
   side: two steps of one workflow run, a step beside a run that the watchdog
   stops, and a run it asks about beside one it stops. *)
EXTENDS DecisionInbox

CONSTANTS s1, s2, s3, w1, w2, r1, r2

MCworkflowOf == [s \in Steps |-> IF s = s3 THEN w2 ELSE w1]

constellation(W, R) ==
    /\ workflow = [w \in Workflows |-> IF w \in W THEN "open" ELSE "ended"]
    /\ run = [r \in Runs |-> IF r \in R THEN "none" ELSE "over"]

MCInit == /\ Init
          /\ \/ constellation({w1}, {})
             \/ constellation({w2}, {r2})
             \/ constellation({}, {r1, r2})

MCSpec == MCInit /\ [][InboxNext]_vars /\ Fairness
=============================================================================
