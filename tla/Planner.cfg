SPECIFICATION FairSpec
CONSTANTS
    Tasks = {t1}
    Replies = {r1, r2}
    Users = {"alice", "root"}
    Domains <- UserDomains
    Intents <- IntentNames
    Configs <- AllConfigs
    MaxLost = 1
    MaxDropped = 1
    MaxCrashes = 1
    NoState = NoState
INVARIANTS
    TypeOK GovernedOnlyWithAllow OnlyValidRuns DirectRunIsAuthorized DispatchedOnce RefusalIsFinal
PROPERTY AskIsAnswered
CHECK_DEADLOCK FALSE
