CONSTANTS
    g = g
    a1 = a1
    a2 = a2
    c1 = c1
    c2 = c2
    c3 = c3
    Genesis = g
    Parent <- MCParent
    Work <- MCWork
    Addr <- MCAddr
    Blocks <- SmallBlocks
    Invalid = {}
    Corrupted = {}
    Misplaced = {}
    Contested = {}
    Checkpointed = {}
    StakeBlocks = {}
    ReplayDepth = 0
    Commands = {"kill"}
    MaxCommands = 1
SPECIFICATION Spec
INVARIANTS
    StartsUp
CHECK_DEADLOCK FALSE
