SPECIFICATION Spec
CONSTANTS
    implement = implement
    fix = fix
    reviewImplement = reviewImplement
    reviewFix = reviewFix
    probe = probe
    lint = lint
    signOff = signOff
    testImplement = testImplement
    testFix = testFix
    gateImplement = gateImplement
    gateFix = gateFix
    Quit = Quit
    Nodes <- MCNodes
    Kind <- MCKind
    RunOn <- MCRunOn
    Needs <- MCNeeds
    Expr <- MCExpr
    Executors = {"agent", "review-panel", "condition"}
    Confirmed = {}
    Dedicated = FALSE
    ReviewNodes = {reviewImplement, reviewFix}
    c1 = c1
    Cancellers = {c1, Quit}
    LateSubscriber = TRUE
    OneDriver = TRUE
    MaxPerVersion = 1
    MaxTotal = 2
    MaxVersions = 1
CHECK_DEADLOCK FALSE
INVARIANTS
    StepsFollowGraph
    ClosedRunIsAtRest
    ParkedRunHasNoPass
PROPERTIES
    StepsStayOver
    ClosedRunStaysClosed
    KeepsBudget
