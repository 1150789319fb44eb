CONSTANTS
    g = g
    a1 = a1
    a2 = a2
    c1 = c1
    c2 = c2
    c3 = c3
    Genesis = g
    Parent <- MCParent
    Work <- MCWork
    Addr <- MCAddr
    Blocks <- SmallBlocks
    Invalid = {c1}
    Corrupted = {}
    Misplaced = {c2}
    Contested = {a2}
    Checkpointed = {a1}
    StakeBlocks = {c2}
    ReplayDepth = 0
    Commands = {"invalidate", "reconsider", "replay", "crash", "kill"}
    MaxCommands = 1
SPECIFICATION FairSpec
INVARIANTS
    IndexIsUsable
PROPERTIES
    ActivationEnds
CHECK_DEADLOCK FALSE
