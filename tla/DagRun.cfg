SPECIFICATION FairSpec
CONSTANTS
    Pipelines <- DagPipelines
    Requests = {r1, r2}
    InboxCap = 1
    MaxCrashes = 1
    ToolsFail = TRUE
    JournalFails = TRUE
    NoState = NoState
    Nobody = Nobody
INVARIANTS
    TypeOK ApprovedBeforeDangerous OneApprovalPerGate DependenciesFirst ChannelsCloseOnce
    CompletedMeansDone
PROPERTIES PauseIsKept RunEnds
CHECK_DEADLOCK FALSE
