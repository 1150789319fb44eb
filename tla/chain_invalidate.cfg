CONSTANTS
    g = g
    a1 = a1
    a2 = a2
    c1 = c1
    c2 = c2
    c3 = c3
    Genesis = g
    Parent <- MCParent
    Work <- MCWork
    Addr <- MCAddr
    Blocks <- RaceBlocks
    Invalid = {c2}
    Corrupted = {}
    Misplaced = {}
    Contested = {}
    Checkpointed = {}
    StakeBlocks = {c2}
    ReplayDepth = 0
    Commands = {"invalidate", "replay", "crash"}
    MaxCommands = 1
SPECIFICATION Spec
INVARIANTS
    IndexIsSound
PROPERTIES
    BestChainIsKept
CHECK_DEADLOCK FALSE
