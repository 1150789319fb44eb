------------------------------ MODULE ChainState -----------------------------
(***************************************************************************)
(* The block tree of main.cpp and the choice of the active chain:          *)
(* AcceptBlockHeader, AcceptBlock, ReceivedBlockTransactions,              *)
(* FindMostWorkChain, ActivateBestChain, InvalidateBlock, ReconsiderBlock, *)
(* ReprocessBlocks, FlushStateToDisk and LoadBlockIndexDB.                 *)
(*                                                                         *)
(* Each action is one critical section of cs_main.  ActivateBestChain      *)
(* releases the lock after every step, so what peers, the RPC commands and *)
(* the masternode code do falls between its steps.                         *)
(*                                                                         *)
(* What is inside a block is left out: Invalid, Misplaced and Contested    *)
(* name the blocks that the checks turn down.  pindexBestInvalid and       *)
(* pindexBestHeader feed warnings and downloads only and are left out.     *)
(***************************************************************************)
EXTENDS Integers, FiniteSets, Sequences, SequencesExt, FiniteSetsExt

CONSTANTS
    Blocks,         \* block hashes, the genesis block excluded
    Genesis,        \* the genesis block
    Parent,         \* hashPrevBlock: Blocks -> Blocks or Genesis
    Work,           \* nChainWork: AddToBlockIndex adds GetBlockProof, which is positive, to the parent's
    Addr,           \* the address of the CBlockIndex object, a tie breaker
    Invalid,        \* blocks that ConnectBlock turns down
    Corrupted,      \* blocks whose data no longer match their header on disk
    Misplaced,      \* blocks that ContextualCheckBlock turns down
    Contested,      \* blocks that CheckBlock turns down or not, as payment votes and transaction locks change
    StakeBlocks,    \* blocks with a proof of stake
    Checkpointed,   \* blocks that match a checkpoint
    ReplayDepth,    \* the argument of ReprocessBlocks
    Commands,       \* which of "invalidate", "reconsider", "replay", "crash", "kill" happen
    MaxCommands     \* and how many of them

All == Blocks \cup {Genesis}

(* Blocks form a tree: a hash commits to the parent's, so there is no cycle. *)
ASSUME TreeAssumption ==
    /\ Genesis \notin Blocks
    /\ IsFiniteSet(Blocks)
    /\ Parent \in [Blocks -> All]
    /\ \A B \in SUBSET Blocks : B # {} => \E b \in B : Parent[b] \notin B
    /\ Work \in [All -> Nat] /\ \A b \in Blocks : Work[Parent[b]] < Work[b]
    /\ Addr \in [All -> Nat] /\ \A a, b \in All : Addr[a] = Addr[b] => a = b

ASSUME BlockKindsAssumption ==
    /\ {Invalid, Misplaced, Contested, Checkpointed, Corrupted, StakeBlocks} \subseteq SUBSET Blocks
    /\ {ReplayDepth, MaxCommands} \subseteq Nat

VARIABLES
    index,      \* mapBlockIndex
    data,       \* entries with BLOCK_HAVE_DATA
    linked,     \* entries with nChainTx # 0
    failedValid,\* entries with BLOCK_FAILED_VALID
    failedChild,\* entries with BLOCK_FAILED_CHILD
    seq,        \* nSequenceId
    nextSeq,    \* nBlockSequenceId
    cand,       \* setBlockIndexCandidates
    unlinked,   \* mapBlocksUnlinked, as pairs
    tip,        \* chainActive.Tip()
    dirty,      \* setDirtyBlockIndex
    disk,       \* the block index database and the best block of the coins database
    refused,    \* the contested blocks that CheckBlock turns down now
    rejected,   \* mapRejectedBlocks
    activating, \* some thread is inside ActivateBestChain
    walk,       \* the fork that AcceptBlock is walking down, at most one [block, last]
    up,         \* FALSE once an assertion has ended the process at start-up
    left        \* commands that may still happen

treeVars == <<index, data, linked, failedValid, failedChild, seq, nextSeq, unlinked>>
vars == <<treeVars, cand, tip, dirty, disk, refused, rejected, activating, walk, up, left>>

-----------------------------------------------------------------------------
(* The tree *)

(* Sets of blocks that hold the parents of their blocks. *)
Lines == {B \in SUBSET All : \A b \in B \ {Genesis} : Parent[b] \in B}

(* b and its ancestors: what is reached over pprev. *)
Line == [b \in All |-> {a \in All : \A B \in Lines : b \in B => a \in B}]

(* nHeight, one more than the parent's. *)
Height == [b \in All |-> Cardinality(Line[b]) - 1]

Failed == failedValid \cup failedChild

(* Mutant: among blocks of equal work the one received last is better. *)
WorseLatest(sq, a, b) ==
    \/ Work[a] < Work[b]
    \/ Work[a] = Work[b] /\ sq[a] < sq[b]
    \/ Work[a] = Work[b] /\ sq[a] = sq[b] /\ Addr[a] > Addr[b]

(* CBlockIndexWorkComparator: more work, then received earlier, then the     *)
(* address (blocks loaded from disk all have nSequenceId 0).                 *)
Worse(sq, a, b) ==
    \/ Work[a] < Work[b]
    \/ Work[a] = Work[b] /\ sq[a] > sq[b]
    \/ Work[a] = Work[b] /\ sq[a] = sq[b] /\ Addr[a] > Addr[b]

(* chainActive.FindFork *)
Fork(a, b) == CHOOSE f \in Line[a] \cap Line[b] : \A x \in Line[a] \cap Line[b] : Height[x] <= Height[f]

AncestorAt(b, h) == CHOOSE a \in Line[b] : Height[a] = h

-----------------------------------------------------------------------------
(* The disk: FlushStateToDisk writes the dirty index entries, then the coins. *)

WriteIndex(d, dirtyNow, fv, fc) ==
    LET put(old, now) == (old \ dirtyNow) \cup (now \cap dirtyNow)
    IN  [d EXCEPT !.index = put(@, index), !.data = put(@, data),
                  !.failedValid = put(@, fv), !.failedChild = put(@, fc)]

WriteAll(d, dirtyNow, fv, fc, best) == [WriteIndex(d, dirtyNow, fv, fc) EXCEPT !.tip = best]

(* Mutant: a flush that is cut short has written the coins only. *)
WriteFirstCoins(d, dirtyNow, fv, fc, best) == [d EXCEPT !.tip = best]

(* A flush that is cut short after the block index was synced. *)
WriteFirst(d, dirtyNow, fv, fc, best) == WriteIndex(d, dirtyNow, fv, fc)

-----------------------------------------------------------------------------
LockFree == up /\ walk = {}

Init ==
    /\ index = {Genesis} /\ data = {Genesis} /\ linked = {Genesis}
    /\ failedValid = {} /\ failedChild = {}
    /\ seq = [b \in All |-> 0]
    /\ nextSeq = 1
    /\ cand = {Genesis}
    /\ unlinked = {}
    /\ tip = Genesis
    /\ dirty = {}
    /\ disk = [index |-> {Genesis}, data |-> {Genesis}, failedValid |-> {}, failedChild |-> {}, tip |-> Genesis]
    /\ refused = {} /\ rejected = {}
    /\ activating = FALSE
    /\ walk = {}
    /\ up = TRUE
    /\ left = MaxCommands

(* AcceptBlockHeader of a new header on a parent that is not marked: from a  *)
(* headers message, or from a block that AcceptBlock then turns down because *)
(* of its stake.  AddToBlockIndex makes the entry.                           *)
AcceptBlockHeader(b) ==
    /\ LockFree
    /\ b \notin index
    /\ Parent[b] \in index \ Failed
    /\ index' = index \cup {b}
    /\ dirty' = dirty \cup {b}
    /\ UNCHANGED <<data, linked, failedValid, failedChild, seq, nextSeq, cand, unlinked, tip, disk,
                   refused, rejected, activating, walk, up, left>>

(* AcceptBlock of a block that ContextualCheckBlock turns down. *)
AcceptMisplacedBlock(b) ==
    /\ LockFree
    /\ b \in Misplaced \ (data \cup Failed)
    /\ Parent[b] \in index \ Failed
    /\ index' = index \cup {b}
    /\ failedValid' = failedValid \cup {b}
    /\ dirty' = dirty \cup {b}
    /\ UNCHANGED <<data, linked, failedChild, seq, nextSeq, cand, unlinked, tip, disk,
                   refused, rejected, activating, walk, up, left>>

(* The queue of ReceivedBlockTransactions: b and the descendants that were   *)
(* only waiting for it.                                                      *)
NowLinked(b) == {x \in index : b \in Line[x] /\ \A y \in Line[x] \ Line[b] : <<Parent[y], y>> \in unlinked}

(* AcceptBlock takes a block that ProcessNewBlock has checked. *)
Acceptable(b) ==
    /\ b \notin data \cup Failed \cup Misplaced \cup refused
    /\ Parent[b] \in index \ Failed

(* AcceptBlock, "if this is on a fork" *)
StakesOnFork(b) == b \in StakeBlocks /\ Parent[b] \notin Line[tip]

(* AcceptBlock of a stake on a fork, under cs_main: the header is accepted,  *)
(* then the fork is walked down, "start at the block we're adding on to".    *)
BeginWalk(b) ==
    /\ LockFree
    /\ Acceptable(b) /\ StakesOnFork(b)
    /\ index' = index \cup {b}
    /\ dirty' = dirty \cup {b}
    /\ walk' = {[block |-> b, last |-> Parent[b]]}
    /\ UNCHANGED <<data, linked, failedValid, failedChild, seq, nextSeq, cand, unlinked, tip, disk,
                   refused, rejected, activating, up, left>>

(* One round of the loop, "go to the parent block": last becomes the parent  *)
(* of the block we are adding on to, not of last.                            *)
WalkOn ==
    /\ up
    /\ \E w \in walk :
        /\ w.last \notin Line[tip]
        /\ walk' = {[w EXCEPT !.last = Parent[Parent[w.block]]]}
    /\ UNCHANGED <<treeVars, cand, tip, dirty, disk, refused, rejected, activating, up, left>>

(* AcceptBlock of a block with its data: AcceptBlockHeader, the block file   *)
(* and ReceivedBlockTransactions; ProcessNewBlock goes on to                 *)
(* ActivateBestChain.  Sequence numbers follow the queue, siblings in any    *)
(* order.                                                                    *)
AcceptBlock(b) ==
    /\ up
    /\ \/ walk = {} /\ Acceptable(b) /\ ~StakesOnFork(b)
       \/ \E w \in walk : w.block = b /\ w.last \in Line[tip]
    /\ walk' = {}
    /\ index' = index \cup {b}
    /\ data' = data \cup {b}
    /\ dirty' = dirty \cup {b}
    /\ IF Parent[b] \in linked
       THEN LET now == NowLinked(b) \cup {b}
            IN  /\ linked' = linked \cup now
                /\ \E order \in SetToSeqs(now) :
                    /\ \A i, j \in DOMAIN order : Height[order[i]] < Height[order[j]] => i < j
                    /\ seq' = [x \in All |-> IF x \in now THEN nextSeq - 1 + CHOOSE i \in DOMAIN order : order[i] = x
                                             ELSE seq[x]]
                /\ nextSeq' = nextSeq + Cardinality(now)
                /\ cand' = cand \cup {x \in now : ~Worse(seq', x, tip)}
                /\ unlinked' = {p \in unlinked : p[1] \notin now}
       ELSE /\ unlinked' = unlinked \cup {<<Parent[b], b>>}
            /\ UNCHANGED <<linked, seq, nextSeq, cand>>
    /\ activating' = TRUE
    /\ UNCHANGED <<failedValid, failedChild, tip, disk, refused, rejected, up, left>>

(* ReconsiderBlock: b and its descendants are cleared and become candidates  *)
(* if they are better than the tip; its ancestors are only cleared.          *)
Reconsider(b) ==
    LET cleared == {x \in index \cap Failed : b \in Line[x]}
        gone    == cleared \cup (Line[b] \cap Failed)
    IN  /\ failedValid' = failedValid \ gone
        /\ failedChild' = failedChild \ gone
        /\ cand' = cand \cup {x \in cleared \cap linked : Worse(seq, tip, x)}
        /\ dirty' = dirty \cup gone

(* AcceptBlock on a parent that is marked invalid and matches a checkpoint:  *)
(* the parent is reconsidered, the block itself is dropped.                  *)
AcceptOnCheckpoint(b) ==
    /\ LockFree
    /\ Parent[b] \in Failed \cap Checkpointed
    /\ Reconsider(Parent[b])
    /\ activating' = TRUE
    /\ UNCHANGED <<index, data, linked, seq, nextSeq, unlinked, tip, disk, refused, rejected, walk, up, left>>

-----------------------------------------------------------------------------
(* ActivateBestChain *)

(* The part of b's line that FindMostWorkChain looks at. *)
Path(b) == Line[b] \ Line[tip]

Unusable(c) == Path(c) \cap Failed # {}

(* The blocks of c's path above its highest marked block; at or above it.    *)
AboveMark(c) == {x \in Path(c) : \A y \in Path(c) \cap Failed : Height[x] > Height[y]}
FromMark(c) == {x \in Path(c) : \A y \in Path(c) \cap Failed : Height[x] >= Height[y]}

(* FindMostWorkChain: take the best candidate; while its path is marked,     *)
(* mark and drop it and take the next.  Marks set here are not put into      *)
(* setDirtyBlockIndex.                                                       *)
FindMostWorkChain(usable) ==
    LET best == {c \in usable : \A d \in usable : ~Worse(seq, c, d)}
        met  == {c \in cand \ usable : \A d \in best : Worse(seq, d, c)}
    IN  [best        |-> best,
         cand        |-> cand \ UNION {FromMark(c) : c \in met},
         failedChild |-> failedChild \cup UNION {AboveMark(c) : c \in met}]

(* ConnectTip: whether b is turned down.  CheckBlock is skipped for the      *)
(* block that was just received (fresh).                                     *)
TurnedDown(b, fresh) == b \in Invalid \cup Corrupted \/ (b \in refused /\ b # fresh)

(* Mutant: no block is marked. *)
InvalidBlockFoundNone(turned) == {}

(* InvalidBlockFound: a block that was turned down is marked and is no       *)
(* candidate any more, unless its data may just be damaged.                  *)
InvalidBlockFound(turned) == turned \ Corrupted

(* Mutant: candidates worse than the tip stay. *)
PruneNothing(c, t) == c

(* PruneBlockIndexCandidates *)
PruneBlockIndexCandidates(c, t) == {x \in c : ~Worse(seq, x, t)}

(* Mutant: the lock is released after every connected block. *)
InBetterPositionAlways(t) == TRUE

(* "We're in a better position than we were." *)
InBetterPosition(t) == Work[t] > Work[tip]

(* One round of ActivateBestChain: FindMostWorkChain and                     *)
(* ActivateBestChainStep towards most.  Blocks down to the fork are          *)
(* disconnected, each with a full flush; then blocks are connected until one *)
(* is turned down, until the tip has more work than before, or until most.   *)
(* A flush may follow any connected block (IF_NEEDED).                       *)
ActivateStep(most, found, fresh) ==
    LET fork    == Fork(tip, most)
        todo    == Line[most] \ Line[fork]
        stops(x) == TurnedDown(x, fresh) \/ \E y \in Line[x] \cap todo : y # x /\ (TurnedDown(y, fresh) \/ InBetterPosition(y))
        done    == {x \in todo : ~stops(x)}
        newTip  == CHOOSE x \in done \cup {fork} : \A y \in done : Height[y] <= Height[x]
        next    == {x \in todo : Parent[x] = newTip}
        turned  == IF done # {} /\ InBetterPosition(newTip) THEN {} ELSE next
        bad     == InvalidBlockFound(turned)
        pruned  == IF done = {} THEN found.cand ELSE PruneBlockIndexCandidates(found.cand, newTip)
        flushed == (IF fork # tip THEN {fork} ELSE {}) \cup done
    IN  /\ tip' = newTip
        /\ cand' = pruned \ bad
        /\ failedValid' = failedValid \cup bad
        /\ failedChild' = found.failedChild
        /\ rejected' = rejected \cup (turned \cap refused)
        /\ \/ /\ fork = tip
              /\ UNCHANGED disk
              /\ dirty' = dirty \cup bad
           \/ \E f \in flushed :
                /\ disk' = WriteAll(disk, dirty, failedValid, found.failedChild, f)
                /\ dirty' = bad
        /\ activating' = (newTip # most)

ActivateBestChain ==
    /\ LockFree
    /\ activating
    /\ LET found == FindMostWorkChain({c \in cand : ~Unusable(c)})
       IN  \/ /\ found.best \subseteq {tip}
              /\ cand' = found.cand
              /\ failedChild' = found.failedChild
              /\ activating' = FALSE
              /\ UNCHANGED <<tip, failedValid, dirty, disk, rejected>>
           \/ \E most \in found.best \ {tip}, fresh \in refused \cup {Genesis} :
                fresh \in {most, Genesis} /\ ActivateStep(most, found, fresh)
    /\ UNCHANGED <<index, data, linked, seq, nextSeq, unlinked, refused, walk, up, left>>

-----------------------------------------------------------------------------
(* Commands, changing opinions, flushes and restarts *)

Command(c) == up /\ (walk = {} \/ c = "crash") /\ c \in Commands /\ left > 0 /\ left' = left - 1

(* InvalidateBlock, "may not be in setBlockIndexCandidates anymore". *)
AddedAgain(fv, fc, t) == {x \in linked \ (fv \cup fc) : ~Worse(seq, x, t)}

(* The blocks that InvalidateBlock disconnects. *)
DisconnectedBy(b) == IF b \in Line[tip] THEN Line[tip] \ Line[Parent[b]] ELSE {}

(* invalidateblock: mark b, disconnect from the tip down to it, each block   *)
(* marked and followed by a full flush, and add candidates again.            *)
InvalidateBlock(b) ==
    /\ Command("invalidate")
    /\ b \in index
    /\ LET gone == DisconnectedBy(b)
           t    == AncestorAt(tip, Height[tip] - Cardinality(gone))
           fv   == failedValid \cup {b}
           fc   == failedChild \cup gone
       IN  /\ failedValid' = fv
           /\ failedChild' = fc
           /\ tip' = t
           /\ cand' = (cand \ (gone \cup {b})) \cup AddedAgain(fv, fc, t)
           /\ IF gone = {}
              THEN dirty' = dirty \cup {b} /\ UNCHANGED disk
              ELSE dirty' = {} /\ disk' = WriteAll(disk, dirty \cup gone, fv, fc, t)
    /\ activating' = TRUE
    /\ UNCHANGED <<index, data, linked, seq, nextSeq, unlinked, refused, rejected, walk, up>>

(* reconsiderblock, and ReprocessBlocks for a block in mapRejectedBlocks. *)
ReconsiderBlock(b) ==
    /\ \/ Command("reconsider")
       \/ b \in rejected /\ Command("replay")
    /\ b \in index
    /\ Reconsider(b)
    /\ activating' = TRUE
    /\ UNCHANGED <<index, data, linked, seq, nextSeq, unlinked, tip, disk, refused, rejected, walk, up>>

(* DisconnectBlocksAndReprocess(blocks): the loop runs blocks + 1 times and  *)
(* ends early at the genesis block, which cannot be disconnected.            *)
DisconnectBlocks ==
    /\ Command("replay")
    /\ tip # Genesis
    /\ tip' = AncestorAt(tip, IF Height[tip] > ReplayDepth THEN Height[tip] - (ReplayDepth + 1) ELSE 0)
    /\ disk' = WriteAll(disk, dirty, failedValid, failedChild, tip')
    /\ dirty' = {}
    /\ activating' = TRUE
    /\ UNCHANGED <<treeVars, cand, refused, rejected, walk, up>>

(* Payment votes arrive, transaction locks complete or expire. *)
OpinionChanges ==
    /\ up
    /\ \E r \in SUBSET Contested : r # refused /\ refused' = r
    /\ UNCHANGED <<treeVars, cand, tip, dirty, disk, rejected, activating, walk, up, left>>

(* FlushStateToDisk, PERIODIC. *)
FlushState ==
    /\ LockFree
    /\ disk' = WriteAll(disk, dirty, failedValid, failedChild, tip)
    /\ dirty' = {}
    /\ UNCHANGED <<treeVars, cand, tip, refused, rejected, activating, walk, up, left>>

(* LoadBlockIndexDB from d, then ActivateBestChain.  The assertion at the    *)
(* end of PruneBlockIndexCandidates ends the process.                        *)
Load(d) ==
    LET link == {b \in d.index : Line[b] \subseteq d.data}
        marked == d.failedValid \cup d.failedChild
        zero == [b \in All |-> 0]
        best == {b \in link \ marked : Work[b] > Work[d.tip] \/ (Work[b] = Work[d.tip] /\ Addr[b] <= Addr[d.tip])}
    IN  /\ disk' = d
        /\ index' = d.index /\ data' = d.data /\ linked' = link
        /\ failedValid' = d.failedValid /\ failedChild' = d.failedChild
        /\ seq' = zero /\ nextSeq' = 1
        /\ unlinked' = {<<Parent[b], b>> : b \in d.data \ (link \cup {Genesis})}
        /\ tip' = d.tip
        /\ cand' = best
        /\ up' = (best # {})
        /\ activating' = (best # {})
        /\ dirty' = {} /\ rejected' = {} /\ walk' = {}
        /\ UNCHANGED refused

(* The process dies between two critical sections, or in the middle of a     *)
(* flush.                                                                    *)
Crash ==
    /\ Command("crash")
    /\ \/ Load(disk)
       \/ Load(WriteFirst(disk, dirty, failedValid, failedChild, tip))

(* The process dies inside InvalidateBlock of an active block, after some    *)
(* blocks were disconnected (gone) and the index entries marked so far were  *)
(* written; the coins may be one block behind.                               *)
CrashInInvalidateBlock(b) ==
    /\ Command("kill")
    /\ b \in Line[tip]
    /\ \E t \in {x \in Line[tip] : x # tip /\ Parent[b] \in Line[x]} :
        LET gone == Line[tip] \ Line[t]
            fv   == failedValid \cup {b}
            fc   == failedChild \cup gone
        IN  \E coins \in {t} \cup {x \in Line[tip] : x # Genesis /\ Parent[x] = t} :
                Load(WriteAll(disk, dirty \cup gone \cup {b}, fv, fc, coins))

Next ==
    \/ \E b \in Blocks :
        \/ AcceptBlockHeader(b)
        \/ AcceptMisplacedBlock(b)
        \/ AcceptBlock(b)
        \/ BeginWalk(b)
        \/ AcceptOnCheckpoint(b)
        \/ InvalidateBlock(b)
        \/ ReconsiderBlock(b)
        \/ CrashInInvalidateBlock(b)
    \/ WalkOn
    \/ ActivateBestChain
    \/ DisconnectBlocks
    \/ OpinionChanges
    \/ FlushState
    \/ Crash

Spec == Init /\ [][Next]_vars

(* The thread that holds cs_main for the walk goes on, and a thread inside   *)
(* ActivateBestChain does as soon as it gets cs_main.                        *)
FairSpec ==
    /\ Spec
    /\ WF_vars(WalkOn \/ \E b \in Blocks : walk # {} /\ AcceptBlock(b))
    /\ WF_vars(ActivateBestChain)

-----------------------------------------------------------------------------
(* Properties *)

TypeOK ==
    /\ {Genesis, tip} \subseteq index /\ index \subseteq All
    /\ {data, linked, failedValid, failedChild, cand} \subseteq SUBSET index
    /\ seq \in [All -> 0..Cardinality(Blocks)] /\ nextSeq \in 1..Cardinality(Blocks) + 1
    /\ unlinked \subseteq All \X Blocks
    /\ dirty \subseteq Blocks /\ {refused, rejected} \subseteq SUBSET Contested
    /\ {activating, up} \subseteq BOOLEAN
    /\ walk \subseteq [block : StakeBlocks, last : All] /\ Cardinality(walk) <= 1
    /\ left \in 0..MaxCommands

(* CheckBlockIndex: "All parents having data is equivalent to ... nChainTx   *)
(* being set", "nSequenceId can't be set for blocks that aren't linked", and *)
(* a block that waits for a parent's data is in mapBlocksUnlinked, no other. *)
LinksAreSound ==
    /\ linked = {b \in index : Line[b] \subseteq data}
    /\ \A b \in All \ linked : seq[b] = 0
    /\ unlinked = {<<Parent[b], b>> : b \in data \ (linked \cup {Genesis})}

(* The assertions of CheckBlockIndex on setBlockIndexCandidates: what is as  *)
(* good as the tip and not invalid is in it, what is worse is not.           *)
CandidatesAreExact ==
    \A b \in index :
        IF b \in linked /\ ~Worse(seq, b, tip)
        THEN Line[b] \cap failedValid = {} => b \in cand
        ELSE b \notin cand

(* The same whenever no thread is inside ActivateBestChain. *)
CandidatesExactAtRest == up /\ ~activating => CandidatesAreExact

(* Candidates are linked, and none is worse than the tip.  This half is      *)
(* never broken, whatever command runs.                                      *)
CandidatesAreSound == \A c \in cand : c \in linked /\ ~Worse(seq, c, tip)

(* ActivateBestChain: "The result is either failure or an activated best     *)
(* chain": once it has returned, no block that has all its data and no mark  *)
(* on its line is better than the tip.                                       *)
TipIsBest ==
    up /\ ~activating => \A b \in linked : Line[b] \cap Failed = {} => ~Worse(seq, tip, b)

(* CheckBlockIndex: "The failed mask cannot be set for blocks without        *)
(* invalid parents."                                                         *)
MarksHaveACause == \A b \in Failed : Line[b] \cap failedValid # {}

(* No block of the active chain is marked invalid, here or on disk.          *)
(* FindMostWorkChain relies on it: "we know all blocks in it are valid".     *)
ActiveChainIsUnmarked ==
    /\ Line[tip] \cap Failed = {} /\ Line[tip] \subseteq linked
    /\ Line[disk.tip] \cap (disk.failedValid \cup disk.failedChild) = {}

(* The coins on disk "may refer to block index entries": those are on disk.  *)
DiskTipIsIndexed == Line[disk.tip] \subseteq disk.index \cap disk.data

(* PruneBlockIndexCandidates at start-up: "Either the current tip or a       *)
(* successor of it we're working towards is left in setBlockIndexCandidates" *)
(* is an assertion, so the node must never write a state that breaks it.     *)
StartsUp == up

(* A round of ActivateBestChain ends with less work than it began with only  *)
(* if it met a block that it turned down.                                    *)
NoWorkIsLost ==
    [][ActivateBestChain => failedValid' # failedValid \/ Work[tip'] >= Work[tip]]_vars

(* CheckBlockIndex holds, the node never runs on a marked chain, and never   *)
(* writes a state that it cannot start from.                                 *)
IndexIsSound ==
    /\ TypeOK
    /\ LinksAreSound
    /\ CandidatesExactAtRest
    /\ MarksHaveACause
    /\ ActiveChainIsUnmarked
    /\ StartsUp

(* Whatever command runs and wherever the node crashes, the candidates are   *)
(* linked and no worse than the tip, and the coins on disk name a block that *)
(* is on disk with all that comes before it.                                 *)
IndexIsUsable == CandidatesAreSound /\ DiskTipIsIndexed

(* Once ActivateBestChain has returned the node is on the best chain it may  *)
(* use, and on the way it does not give up work unless a block was turned    *)
(* down.                                                                     *)
BestChainIsKept == []TipIsBest /\ NoWorkIsLost

(* ActivateBestChain returns. *)
ActivationEnds == activating ~> ~activating

(* AcceptBlock, "while that block is not on the main chain ... go to the     *)
(* parent block": the walk down a fork reaches the active chain.             *)
AcceptEnds == walk # {} ~> walk = {}
==============================================================================
