CONSTANTS
    t1 = t1
    t2 = t2
    c1 = c1
    c2 = c2
    b1 = b1
    b2 = b2
    b3 = b3
    Pruned = Pruned
    Missing = Missing
    NullHash = NullHash
    Txids <- MCTxids
    Coins <- MCCoins
    Blocks <- MCBlocks
    UtxoAfter <- MCUtxoAfter
    Txs <- MCPoolTxs
    HashOrder <- MCHashOrder
    InputsOf <- MCInputsOf
    OutputsOf <- MCOutputsOf
    Coinbases = {"x", "y"}
    Genesis = "g"
    Unacceptable = {"N"}
    Maturity = 2
    MaxOrphans = 2
    Senders = {"p"}
    MaxBlocks = 2
    MaxBlockTxs = 2
    Addresses = {"a", "b", "c", "d"}
    Sources = {"s", "t"}
    NewBuckets = {1, 2}
    NewBucketOf <- MCNewBucketOf
    PositionOf <- MCPositionOf
    Positions = {1, 2}
    TriedSlots = {1, 2}
    TriedSlotOf <- MCTriedSlotOf
    MaxRefs = 2
    Holders = {"h", "g"}
    Target = 1
    MaxKeys = 6
    MaxCrashes = 1
    Mine <- MCMine
    MaxRestarts = 1
    CENT = 2
    Denominations = {3}
    WalletCoins <- MCWalletCoins
    MaxWalletCoins = 4
    MaxTarget = 9
    MaxHeight = 32
    MaxTxs = 6
    MaxDigits = 2
    MaxReorg = 2
    StartDepth = 1
    RpcDepth = 2
    NoTx = NoTx
    Window = 1
    Confirmations = 0
    ModifierInterval = 2
    Rounds = 3
    Ratio = 3
    StakeMinAge = 16
    MaxGap = 2
    MaxCommon = 9
    Width = 16
    TargetLimit = 1023
    TargetSpacing = 6
    Limit = 1
    MaxKnown = 3
    FirstTip = 4
    MaxTip = 6
    Recent = 4
    FilterSize = 6
    MinSamples = 5
    MaxOffset = 9
    MaxSamples = 6
    Ends = {"a", "b"}
    Requests <- MCRequests
    HeaderSize = 2
    DataSize <- MCDataSize
    Capacity = 3
    SendLimit = 4
    RecvLimit = 3
    Pools <- MCPools
    StartSize = 1
    Scale = 2
    MaxCost = 12
    MinSize = 6
    PrioritySize = 3
    StartSigOps = 1
    MaxSigOps = 7
    MinRate = 1
    FreePriority = 1
    FileBlocks = {1, 2, 3, 4, 5}
    FileParent <- MCFileParent
    FirstBlock = 0
    PayRequests <- MCPayRequests
    KB = 4
    TxBytes = 1
    InBytes = 2
    OutBytes = 1
    RelayRate = 1
    TxRate = 2
    MaxTxFee = 5
    Dust = 2
SPECIFICATION BlocksSpec
INVARIANTS
    SpendsAreMature
