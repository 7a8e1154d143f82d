SPECIFICATION MCSpec
CONSTANTS
    a = a  b = b  c = c  wt = wt  wt2 = wt2  p1 = p1  p2 = p2
    Runs = {a, b, c}
    Pids = {p1, p2}
    NoPid = NoPid
    Stranger = Stranger
    worktreeOf <- MCworktreeOf
    MaxStarts = 2
    MaxCrashes = 2
    Faults = {"readFails", "killFails", "unreachable", "worktreeLost", "spawnGap"}
    MaxEvents = 5
    MaxEnds = 2
    Worktrees = {wt}
    Main = Main
    Requests = {p1, p2}
    MaxCommits = 1
    MaxBase = 1
    m1 = m1  m2 = m2  l1 = l1  l2 = l2
    Mounts = {m1, m2}
    Logins = {l1, l2}
    Account = Account
    Users = {u1}
SYMMETRY Symmetric
INVARIANTS
    DoubleWriteHasCause
    TaskFollowsRuns
    LinesAreNumbered
    RowsFollowLines
    TerminalIsDurable
    CommitsSurvive
    OneLogin
    LoginIsBounded
    EnabledHomeIsUsable
PROPERTIES
    StrangerSpared
    RefusedOnlyAfterLoss
    WorkIsDiscardedByTheUser
    MergedIsInBase
    LeasedLoginLives
CHECK_DEADLOCK FALSE
