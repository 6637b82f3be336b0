SPECIFICATION Spec
CONSTANTS
    Tasks = {t1}
    Requests = {r1}
    Pipelines <- CallbackPipelines
    InboxCap = 1
    MaxTime = 2
    MaxCrashes = 0
    MaxVersion = 1
    ToolsFail = FALSE
    JournalFails = FALSE
    NoState = NoState
PROPERTY AcceptedIsKept
CHECK_DEADLOCK FALSE
