---------------------------- MODULE MCChainState -----------------------------
(* Block trees for ChainState.                                               *)
(*                                                                           *)
(*   race     G - a1 - a2           c1, c2 and c3 are worth as much as       *)
(*             `- c1 - c2 - c3      a1, a2 and one more                      *)
(*   small    G - a1 - a2                                                    *)
(*             `- c1 - c2                                                    *)
EXTENDS ChainState

CONSTANTS g, a1, a2, c1, c2, c3

RaceBlocks == {a1, a2, c1, c2, c3}
SmallBlocks == {a1, a2, c1, c2}

MCParent ==
    [b \in Blocks |->
        CASE b = a1 -> g
          [] b = a2 -> a1
          [] b = c1 -> g
          [] b = c2 -> c1
          [] b = c3 -> c2]

(* Every block is worth as much as any other. *)
MCWork[b \in Blocks \cup {g}] == IF b = g THEN 1 ELSE MCWork[MCParent[b]] + 1

(* a2 and c2 have equal work: after a restart the addresses decide. *)
MCAddr ==
    [b \in Blocks \cup {g} |->
        CASE b = g -> 0 [] b = a1 -> 1 [] b = a2 -> 5
          [] b = c1 -> 4 [] b = c2 -> 2 [] b = c3 -> 3]
==============================================================================
