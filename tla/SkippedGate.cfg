SPECIFICATION Spec
CONSTANTS
    Tasks = {t1}
    Requests = {r1, r2}
    Pipelines <- LateReviewOnly
    InboxCap = 1
    MaxTime = 1
    MaxCrashes = 0
    MaxVersion = 1
    ToolsFail = FALSE
    JournalFails = FALSE
    NoState = NoState
INVARIANT ApprovedBeforeActing
CHECK_DEADLOCK FALSE
