CONSTANTS
    g = g
    a1 = a1
    a2 = a2
    c1 = c1
    c2 = c2
    c3 = c3
    Genesis = g
    Parent <- MCParent
    Work <- MCWork
    Addr <- MCAddr
    Blocks <- RaceBlocks
    Invalid = {}
    Corrupted = {}
    Misplaced = {}
    Contested = {}
    Checkpointed = {}
    StakeBlocks = {c3}
    ReplayDepth = 0
    Commands = {}
    MaxCommands = 0
SPECIFICATION FairSpec
PROPERTIES
    AcceptEnds
CHECK_DEADLOCK FALSE
