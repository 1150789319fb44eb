CONSTANTS
    Peers <- MCPeers
    OldPeers <- MCOldPeers
    Threshold = 1
    Enforced = TRUE
    MaxItems = 2
    MaxResets = 1
    BudgetItems = {"a"}
    OwnItems = {"a"}
    BudgetVotes <- MCBudgetVotes
    UpdateMin = 1
    NoVote = NoVote
    MaxStarts = 1
    Nodes = {"s", "a", "b"}
    Signer = "s"
    Links <- MCLinks
    MaxSigned = 2
    MaxCrashes = 2
    Announcers = {"p", "q"}
    Silent = {"p"}
    Announceable = {"i", "j"}
    Retry = 2
    MaxAsked = 2
SPECIFICATION MCSpec
INVARIANTS
    SyncedNeedsItems
PROPERTIES
    RoundsEnd
    BudgetVotesCount
    SporksSettle
    AnnouncedArrives
CHECK_DEADLOCK FALSE
