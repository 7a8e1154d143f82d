SPECIFICATION FairSpec
CONSTANTS
    a = a  b = b  w = w  x = x  c1 = c1  c2 = c2
    wt = wt  ws = ws  codex = codex  claude = claude  acct = acct  none = none
    Runs = {a, b, w, x}
    Callers = {c1}
    NoRun = NoRun
    NoWorktree = NoWorktree
    worktreeOf <- MCworktreeOf
    workspaceOf <- MCworkspaceOf
    agentOf <- MCagentOf
    profileOf <- MCprofileOf
    readOnly = {x}
    maxGlobalRuns = 3
    maxRunsPerWorkspace = 2
    maxRunsPerAgent = 2
    maxConcurrentRuns <- MCmaxConcurrentRuns
    LeftInterrupted = {}
    LeftActive = {w}
    SpawnFailures = {}
    Stubborn = {}
    MayQuit = FALSE
INVARIANTS
    Reserved
    NoMissedWakeup
PROPERTIES
    QueueDrains
CHECK_DEADLOCK FALSE
