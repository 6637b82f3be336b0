SPECIFICATION FairSpec
CONSTANTS
    Tasks = {t1}
    Requests = {r1, r2}
    Pipelines <- LinearPipelines
    InboxCap = 1
    MaxTime = 1
    MaxCrashes = 1
    MaxVersion = 2
    ToolsFail = TRUE
    JournalFails = TRUE
    NoState = NoState
INVARIANTS
    TypeOK ApprovedBeforeActing OneApprovalPerGate NoStepSkipped
    JournalBeforeTool PinnedVersion RepeatsArePaidFor
PROPERTIES SettledIsFinal CallbackReplayed WaitEnds
CHECK_DEADLOCK FALSE
