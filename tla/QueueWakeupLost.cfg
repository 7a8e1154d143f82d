SPECIFICATION Spec
CONSTANTS
    a = a  b = b  w = w  x = x  c1 = c1  c2 = c2
    wt = wt  ws = ws  codex = codex  claude = claude  acct = acct  none = none
    Runs = {a, b, w}
    Callers = {c1}
    NoRun = NoRun
    NoWorktree = NoWorktree
    worktreeOf <- MCworktreeOf
    workspaceOf <- MCworkspaceOf
    agentOf <- MCagentOf
    profileOf <- MCprofileOf
    readOnly = {}
    maxGlobalRuns = 2
    maxRunsPerWorkspace = 2
    maxRunsPerAgent = 1
    maxConcurrentRuns <- MCmaxConcurrentRuns
    LeftInterrupted = {}
    LeftActive = {}
    SpawnFailures = {w}
    Stubborn = {}
    MayQuit = FALSE
INVARIANT NoMissedWakeup
CHECK_DEADLOCK FALSE
