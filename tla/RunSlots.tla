------------------------------ MODULE RunSlots -------------------------------
(***************************************************************************)
(* What the Agent manager promises about concurrency, without processes,    *)
(* awaits or requests.  A run asks for a slot and may have to wait for it.  *)
(* The runs that hold slots together always form an admissible set; a run   *)
(* is handed a slot on arrival only when nobody waits; and a run that is    *)
(* over never holds a slot again.                                           *)
(***************************************************************************)

CONSTANTS
    Runs,
    Admissible    \* the sets of runs that may hold slots together

VARIABLE slot    \* for each run: "fresh", "waiting", "holding" or "over"

Holding == {r \in Runs : slot[r] = "holding"}
Waiting == {r \in Runs : slot[r] = "waiting"}

Init ==
    /\ slot \in [Runs -> {"fresh", "holding"}]
    /\ Holding \in Admissible

Wait(r) ==
    /\ slot[r] = "fresh"
    /\ slot' = [slot EXCEPT ![r] = "waiting"]

Grant(r) ==
    /\ \/ slot[r] = "waiting"
       \/ slot[r] = "fresh" /\ Waiting = {}
    /\ Holding \cup {r} \in Admissible
    /\ slot' = [slot EXCEPT ![r] = "holding"]

\* A holder gives its slot back; a waiting run leaves the queue.
Finish(r) ==
    /\ slot[r] \in {"waiting", "holding"}
    /\ slot' = [slot EXCEPT ![r] = "over"]

Next == \E r \in Runs : Wait(r) \/ Grant(r) \/ Finish(r)

Spec == Init /\ [][Next]_slot
=============================================================================
