CONSTANTS
    Checks = {1, 2, 3}
    Workers = {"w", "v"}
    Master = "m"
    BatchSize = 2
    Tasks = {"a", "b"}
    Repeating = {"b"}
    Period = 1
    Servers = {"s", "t"}
    MaxTime = 1
    Requests = {"x", "y"}
    HttpThreads = {"h", "g"}
    MaxDepth = 1
    Inbound = {"i"}
    Outbound = {"o"}
    Openers = {"p", "r"}
    Testers = {"q"}
    MaxOutbound = 2
    Passphrases = {"p", "q"}
    MaxWalletKeys = 3
    MaxMasters = 2
    MaxStarts = 2
SPECIFICATION MCSpec
PROPERTY
    ClosedIsDeleted
CHECK_DEADLOCK FALSE
