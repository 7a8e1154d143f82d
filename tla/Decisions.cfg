SPECIFICATION MCSpec
CONSTANTS
    s1 = s1  s2 = s2  s3 = s3  w1 = w1  w2 = w2  r1 = r1  r2 = r2
    Steps = {s1, s2, s3}
    Workflows = {w1, w2}
    workflowOf <- MCworkflowOf
    Runs = {r1, r2}
    AskRuns = {r1}
    NoKey = NoKey
    MaxRows = 3
    MaxTickets = 2
    MaxCrashes = 1
    MaxSilences = 1
    Timed = {"shell_confirmation", "stalled_run"}
INVARIANTS
    ApprovalRunsOnce
    ParkedHasOpenRow
    StalledRowHasRun
PROPERTIES
    DecidedOnce
    FirstStopIsDeserved
    ParkedStepIsAnswered
CHECK_DEADLOCK FALSE
