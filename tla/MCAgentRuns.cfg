SPECIFICATION Spec
CONSTANTS
    a = a  b = b  w = w  x = x  c1 = c1  c2 = c2
    wt = wt  ws = ws  codex = codex  claude = claude  acct = acct  none = none
    Runs = {a, b, w}
    Callers = {c1, c2}
    NoRun = NoRun
    NoWorktree = NoWorktree
    worktreeOf <- MCworktreeOf
    workspaceOf <- MCworkspaceOf
    agentOf <- MCagentOf
    profileOf <- MCprofileOf
    readOnly = {}
    maxGlobalRuns = 2
    maxRunsPerWorkspace = 2
    maxRunsPerAgent = 1
    maxConcurrentRuns <- MCmaxConcurrentRuns
    LeftInterrupted = {a}
    LeftActive = {}
    SpawnFailures = {b}
    Stubborn = {a}
    MayQuit = TRUE
INVARIANTS
    OneWriter
    NoOrphanProcess
    RunningIsLive
    StopFindsSettledRow
PROPERTIES
    SettledOnce
    FailStopWins
    LaunchedOnce
    ImplementsSlots
CHECK_DEADLOCK FALSE
