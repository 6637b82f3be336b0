SPECIFICATION Spec
CONSTANTS
    Pipelines <- BesideOnly
    Requests = {r1}
    InboxCap = 1
    MaxCrashes = 0
    ToolsFail = FALSE
    JournalFails = FALSE
    NoState = NoState
    Nobody = Nobody
INVARIANT ProgressRestored
CHECK_DEADLOCK FALSE
