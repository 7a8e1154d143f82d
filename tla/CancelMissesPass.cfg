SPECIFICATION Spec
CONSTANTS
    implement = implement
    fix = fix
    reviewImplement = reviewImplement
    reviewFix = reviewFix
    probe = probe
    lint = lint
    signOff = signOff
    testImplement = testImplement
    testFix = testFix
    gateImplement = gateImplement
    gateFix = gateFix
    Quit = Quit
    Nodes <- FullNodes
    Kind <- FullKind
    RunOn <- FullRunOn
    Needs <- FullNeeds
    Expr <- FullExpr
    Executors = {"agent", "review-panel", "condition", "shell", "criteria-gate"}
    Confirmed = {testFix}
    Dedicated = TRUE
    ReviewNodes = {reviewImplement, reviewFix}
    c1 = c1
    Cancellers = {c1, Quit}
    LateSubscriber = FALSE
    OneDriver = TRUE
    MaxPerVersion = 2
    MaxTotal = 3
    MaxVersions = 1
CHECK_DEADLOCK FALSE
PROPERTIES
    ClosedRunStaysClosed
