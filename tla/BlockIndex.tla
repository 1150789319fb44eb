------------------------------ MODULE BlockIndex -----------------------------
(* Moving along chains of the block index: the skip pointers of CBlockIndex, *)
(* the vector of CChain, block locators and how a peer finds the fork.       *)
(*                                                                           *)
(* A block is known by its height and the height up to which it shares its   *)
(* chain with one other chain, the active one of the peer.  A pointer to an  *)
(* ancestor is the ancestor's height.                                        *)
EXTENDS Integers, FiniteSetsExt, SequencesExt

(* n & (n - 1) *)
InvertLowestOne(n) == IF n = 0 THEN 0 ELSE n - Max({p \in {2^k : k \in 0 .. 20} : n % p = 0})

GetSkipHeight(h) ==
    IF h < 2 THEN 0
    ELSE IF h % 2 = 1 THEN InvertLowestOne(InvertLowestOne(h - 1)) + 1
    ELSE InvertLowestOne(h)

(* Whether the way from height walk down to h goes by pskip. *)
FollowsSkip(walk, h) ==
    LET skip == GetSkipHeight(walk)
        prev == GetSkipHeight(walk - 1)
    IN  skip = h \/ (skip > h /\ ~(prev < skip - 2 /\ prev >= h))

(* CBlockIndex::GetAncestor from the block at height top: where pindexWalk   *)
(* is when heightWalk has come down to h.  pskip is the table of pointers.   *)
GetAncestor(pskip, top, h) ==
    LET Step(s) ==
            IF s.walk <= h THEN s
            ELSE IF FollowsSkip(s.walk, h) THEN [pindex |-> pskip[s.pindex], walk |-> GetSkipHeight(s.walk)]
            ELSE [pindex |-> s.pindex - 1, walk |-> s.walk - 1]
    IN  FoldLeft(LAMBDA s, i : Step(s), [pindex |-> top, walk |-> top], [i \in 1 .. top |-> i]).pindex

(* BuildSkip of the blocks at heights 1..n, one after the other. *)
BuildSkip(n) ==
    FoldLeft(LAMBDA pskip, h : Append(pskip, GetAncestor(pskip, h - 1, GetSkipHeight(h))), <<>>, [h \in 1 .. n |-> h])

-----------------------------------------------------------------------------
(* CChain::SetTip: vChain, from height 0 on, after the tip has moved to a    *)
(* block at height h that shares its chain up to fork.  The walk back stops  *)
(* at the first block that is in its place.                                  *)
Block(h, fork) == [height |-> h, side |-> h > fork]
ChainTo(h, fork) == [i \in 1 .. h + 1 |-> Block(i - 1, fork)]
Unset == [height |-> -1, side |-> FALSE]

SetTip(vChain, h, fork) ==
    LET resized == [i \in 1 .. h + 1 |-> IF i <= Len(vChain) THEN vChain[i] ELSE Unset]
        matches == {i \in 1 .. h + 1 : resized[i] = Block(i - 1, fork)}
        stop    == IF matches = {} THEN 0 ELSE Max(matches)
    IN  [i \in 1 .. h + 1 |-> IF i > stop THEN Block(i - 1, fork) ELSE resized[i]]

(* Mutant: the genesis block is not named. *)
GetLocatorOpen(top) == [i \in 1 .. Min({top + 1, 10}) |-> top + 1 - i]

(* CChain::GetLocator: the heights of the blocks named, from the tip back. *)
GetLocator(top) ==
    LET Step(s) ==
            IF Last(s.vHave) = 0 THEN s
            ELSE [vHave |-> Append(s.vHave, Max({Last(s.vHave) - s.step, 0})),
                  step |-> IF Len(s.vHave) > 10 THEN 2 * s.step ELSE s.step]
    IN  FoldLeft(LAMBDA s, i : Step(s), [vHave |-> <<top>>, step |-> 1], [i \in 1 .. top |-> i]).vHave

(* FindForkInGlobalIndex of a peer that has the chain up to height fork and  *)
(* may have more of its own up to height own: the first block named that is  *)
(* in its chain, or its tip if it knows the block (known) and that builds on *)
(* the tip.                                                                  *)
FindForkInGlobalIndex(vHave, fork, own, known) ==
    LET Found(h) == h <= fork \/ (known /\ own = fork /\ h >= own)
        first == SelectInSeq(vHave, Found)
    IN  IF first = 0 THEN 0 ELSE Min({vHave[first], fork})

-----------------------------------------------------------------------------
(* GetAncestor reaches the block it is asked for, and BuildSkip points where *)
(* GetSkipHeight says: the two heights of the walk never part.               *)
AncestorIsRight(top, h) ==
    LET pskip == BuildSkip(top)
    IN  /\ \A i \in 1 .. top : pskip[i] = GetSkipHeight(i)
        /\ GetAncestor(pskip, top, h) = h

(* After SetTip the vector is the chain of the new tip, from whatever other  *)
(* tip it comes.                                                             *)
ChainIsSet(top, fork, from) == SetTip(ChainTo(from, from), top, fork) = ChainTo(top, fork)

(* The peer finds a block of the common chain, the fork itself if it is not  *)
(* more than ten blocks back, and otherwise goes back less than twice as far *)
(* as the fork is: every reorganisation can be synchronised.                 *)
LocatorFindsFork(top, fork, own, known) ==
    LET found == FindForkInGlobalIndex(GetLocator(top), fork, own, known)
    IN  /\ found <= fork
        /\ top - fork <= 10 => found = fork
        /\ top - found <= 2 * (top - fork)
==============================================================================
