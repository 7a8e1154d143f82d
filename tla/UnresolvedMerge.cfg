SPECIFICATION WtSpec
CONSTANTS
    Worktrees = {w}
    Main = Main
    Requests = {q}
    MaxCommits = 1
    MaxBase = 1
INVARIANTS
    BaseIsResolved
CHECK_DEADLOCK FALSE
