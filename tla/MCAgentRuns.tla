----------------------------- MODULE MCAgentRuns -----------------------------
(* Small instances of AgentRuns for TLC. *)
EXTENDS AgentRuns

CONSTANTS a, b, w, x, c1, c2, wt, ws, codex, claude, acct, none

\* a and b share a worktree; w and x run in the workspace itself.  a and w are
\* runs of one agent, b and x of another; b and x share an account profile.
MCworktreeOf  == [r \in Runs |-> IF r \in {a, b} THEN wt ELSE NoWorktree]
MCworkspaceOf == [r \in Runs |-> ws]
MCagentOf     == [r \in Runs |-> IF r \in {a, w} THEN codex ELSE claude]
MCprofileOf   == [r \in Runs |-> IF r \in {b, x} THEN acct ELSE none]
MCmaxConcurrentRuns == [p \in {acct} |-> 1]
=============================================================================
