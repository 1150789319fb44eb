CONSTANTS
    tx1 = tx1
    tx2 = tx2
    in1 = in1
    in2 = in2
    mn1 = mn1
    mn2 = mn2
    NoTx = NoTx
    NoLock = NoLock
    Txs = {tx1, tx2}
    OwnTxs = {tx2}
    Inputs = {in1, in2}
    InputsOf <- MCInputsOf
    Masternodes = {mn1, mn2}
    Heights = {1, 2}
    LockHeight <- MCLockHeight
    Top <- MCTop
    Self = mn1
    Required = 2
    Voters = {"m", "n"}
    OwnVoter = "m"
    Payees = {"p", "q"}
    Window = 0
    Limit = 1
    Ahead = 0
    OwnAhead = 1
    FirstTip = 1
    MaxTip = 3
    MaxReorg = 1
    MaxVotes = 3
    MaxRestarts = 1
    MinPing = 1
    PingGap = 0
    MinBroadcast = 1
    Expiration = 1
    Removal = 2
    MaxTime = 2
    MaxAnnounced = 2
    MaxPings = 2
    MaxStops = 2
    Finalized <- MCFinalized
    PaymentsOf <- MCPaymentsOf
    EnabledCount = 20
    EnforceBudget = TRUE
    EnforcePayee = TRUE
    Tallies <- MCTallies
    MaxHeight = 3
SPECIFICATION MCSpec
INVARIANTS
    RecheckAgrees
CHECK_DEADLOCK FALSE
