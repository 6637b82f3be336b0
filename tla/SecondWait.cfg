SPECIFICATION Spec
CONSTANTS
    Tasks = {t1}
    Requests = {r1}
    Pipelines <- TwoWaitsOnly
    InboxCap = 1
    MaxTime = 1
    MaxCrashes = 0
    MaxVersion = 1
    ToolsFail = FALSE
    JournalFails = FALSE
    NoState = NoState
INVARIANT OneResumePerCallback
CHECK_DEADLOCK FALSE
