----------------------------- MODULE MCRecovery -----------------------------
(* Small instances for TLC of four parts that share no state: what a dead
   instance leaves of processes and rows, what it leaves of a run's log, the
   worktrees, and an account profile.  One run checks all, and the initial state
   says which it follows.  Of the profile, "logins" takes two views and two login
   processes through the shutdown, without runs and removals; "profile" takes one
   login along with them. *)
EXTENDS RunRecovery, RunLog, Worktrees, AccountLogins, TLC

CONSTANTS a, b, c, wt, wt2, p1, p2, m1, m2, l1, l2

VARIABLE subject

MCworktreeOf == [r \in Runs |-> IF r = c THEN wt2 ELSE wt]
\* The requests of Worktrees bear the names of the pids: one symmetry serves both.
Symmetric == Permutations(Pids)

MCInit ==
    /\ Init /\ LogInit /\ WtInit /\ AccountInit
    /\ subject \in {"processes", "log", "worktrees", "logins", "profile"}

onLogins == /\ profileStatus' \in {"login-required", "ready"}
            /\ UNCHANGED managerVars
onProfile == /\ mount'[m2] = "closed" /\ l2 \notin live'
             /\ quit' = "up" /\ UNCHANGED stops

MCNext ==
    /\ UNCHANGED subject
    /\ \/ subject = "processes" /\ Next /\ UNCHANGED <<logVars, wtVars, accountVars>>
       \/ subject = "log" /\ LogNext /\ UNCHANGED <<vars, wtVars, accountVars>>
       \/ subject = "worktrees" /\ WtNext /\ UNCHANGED <<vars, logVars, accountVars>>
       \/ subject = "logins" /\ AccountNext /\ onLogins /\ UNCHANGED <<vars, logVars, wtVars>>
       \/ subject = "profile" /\ AccountNext /\ onProfile /\ UNCHANGED <<vars, logVars, wtVars>>
MCSpec == MCInit /\ [][MCNext]_<<vars, logVars, wtVars, accountVars, subject>>
=============================================================================
