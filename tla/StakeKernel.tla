----------------------------- MODULE StakeKernel -----------------------------
(* Stake modifiers and the check of a proof of stake (kernel.cpp), and the   *)
(* target that the next block has to meet (pow.cpp) with the compact form in *)
(* which a block names it (uint256.cpp), for numbers of Width bits.          *)
(*                                                                           *)
(* A chain is the sequence of its block times, the genesis block at index 0. *)
(* The kernel of a stake is hashed with the modifier of a block that comes a *)
(* selection interval after the block the stake is from.  That block is      *)
(* looked for in the active chain, also when the stake is in a block of      *)
(* another branch; the verdict on a stake is the block whose modifier it is  *)
(* hashed with, since all else comes from the stake itself.                  *)
EXTENDS Integers, FiniteSetsExt, SequencesExt

CONSTANTS
    ModifierInterval,   \* MODIFIER_INTERVAL
    Rounds,             \* 64 rounds of selection
    Ratio,              \* MODIFIER_INTERVAL_RATIO
    StakeMinAge,        \* nStakeMinAge
    Width,              \* bits of a number
    TargetLimit,        \* bnTargetLimit and ProofOfWorkLimit
    TargetSpacing       \* nTargetSpacing

StakeKernelAssumption ==
    /\ ModifierInterval \in Nat \ {0} /\ Rounds \in Nat \ {0, 1} /\ Ratio \in Nat \ {0}
    /\ StakeMinAge \in Nat
    /\ Width \in Nat /\ TargetSpacing \in Nat \ {0}
    /\ TargetLimit \in 1 .. 2^Width - 1

Top(times) == Max(DOMAIN times)

(* GetStakeModifierSelectionIntervalSection and the sum of all of them. *)
Section(n) == (ModifierInterval * (Rounds - 1)) \div ((Rounds - 1) + ((Rounds - 1) - n) * (Ratio - 1))
SelectionInterval == FoldLeft(LAMBDA sum, n : sum + Section(n - 1), 0, [n \in 1 .. Rounds |-> n])

(* ComputeNextStakeModifier makes a new modifier for a block when the time   *)
(* of the block before it is in a later interval than the last modifier, of  *)
(* block last (GetLastStakeModifier).                                        *)
MakesModifier(times, last, h) == h <= 1 \/ times[last] \div ModifierInterval < times[h - 1] \div ModifierInterval

GeneratedStakeModifier(times) ==
    LET Step(made, h) == IF MakesModifier(times, Max(made), h) THEN made \cup {h} ELSE made
    IN  FoldLeft(Step, {0}, [h \in 1 .. Top(times) |-> h])

-----------------------------------------------------------------------------
(* The blocks that a modifier takes its bits from.  A block has a time, a    *)
(* hash and whether it is a proof of stake; vSorted is in order of time and  *)
(* chosen the set of indices that were selected before.                      *)

(* The hash of block hash and previous modifier: any order will do. *)
Hash(block, v2) == IF block.stake /\ ~v2 THEN 0 ELSE block.hash
Unfavoured == 100   \* larger than any hash

(* hashSelection: the hash of a proof of stake is shifted to the right. *)
HashSelection(block, v2) == Hash(block, v2) + (IF block.stake THEN 0 ELSE Unfavoured)

(* SelectBlockFromCandidates: the loop ends at the first block after stop,   *)
(* once one is selected.                                                     *)
SelectBlockFromCandidates(vSorted, chosen, stop, v2) ==
    LET Step(s, i) ==
            LET best == HashSelection(vSorted[i], v2)
            IN  IF s.done \/ (s.selected # 0 /\ vSorted[i].time > stop) THEN [s EXCEPT !.done = TRUE]
                ELSE IF i \in chosen THEN s
                ELSE IF s.selected = 0 \/ best < s.best THEN [s EXCEPT !.selected = i, !.best = best]
                ELSE s
    IN  FoldLeft(Step, [selected |-> 0, best |-> 0, done |-> FALSE], [i \in DOMAIN vSorted |-> i]).selected

(* ComputeNextStakeModifier: the indices selected, round by round. *)
SelectedBlocks(vSorted, start, v2) ==
    LET Stop(n) == start + FoldLeft(LAMBDA sum, i : sum + Section(i - 1), 0, [i \in 1 .. n |-> i])
        Step(list, n) == Append(list, SelectBlockFromCandidates(vSorted, ToSet(list), Stop(n), v2))
    IN  FoldLeft(Step, <<>>, [n \in 1 .. Min({Rounds, Len(vSorted)}) |-> n])

-----------------------------------------------------------------------------
(* The check. *)
None == -1

(* GetKernelStakeModifier: the first block of the active chain, from the one *)
(* after block from on, that made a modifier a selection interval later.     *)
(* Without a next block the loop gives up ("Should never happen"), and the   *)
(* line after it reads the height of a next block that may not be there.     *)
GetKernelStakeModifier(active, from) ==
    LET later == {h \in GeneratedStakeModifier(active) : h > from /\ active[h] >= active[from] + SelectionInterval}
    IN  IF later = {} \/ Min(later) = Top(active) THEN None ELSE Min(later)

(* Mutant: a stake may be of any age. *)
CheckAnyAge(active, from, time) ==
    IF time < active[from] THEN None ELSE GetKernelStakeModifier(active, from)

(* CheckStakeKernelHash of a stake from block from at a time. *)
CheckStakeKernelHash(active, from, time) ==
    IF time < active[from] \/ active[from] + StakeMinAge > time THEN None
    ELSE GetKernelStakeModifier(active, from)

-----------------------------------------------------------------------------
(* The times of the blocks that a common chain is continued with. *)
Continued(common, tail) ==
    [h \in 0 .. Top(common) + Len(tail) |->
        IF h <= Top(common) THEN common[h]
        ELSE common[Top(common)] + FoldLeft(+, 0, SubSeq(tail, 1, h - Top(common)))]

(* How long ago two branches may have parted when blocks come at most gap    *)
(* apart: what the age of a stake leaves after the time in which a modifier  *)
(* is certainly found.                                                       *)
Slack(gap) == StakeMinAge - SelectionInterval - ModifierInterval - 3 * gap

(* A stake from a common block is judged by the same modifier on both        *)
(* branches, as long as they parted less than Slack ago; and there is a      *)
(* modifier, so that what "should never happen" does not.                    *)
StakeVerdictIsShared(common, tail, other, gap) ==
    LET active == Continued(common, tail)
        branch == Continued(common, other)
        time == branch[Top(branch)] + gap
    IN  (time - common[Top(common)] < Slack(gap) /\ tail # <<>> /\ other # <<>>) =>
            \A from \in DOMAIN common \ {0} :
                /\ CheckStakeKernelHash(active, from, time) = CheckStakeKernelHash(branch, from, time)
                /\ time - common[from] >= StakeMinAge => CheckStakeKernelHash(active, from, time) # None

(* Every round takes the best block, by its selection hash, of those that    *)
(* are left up to the end of its section, or the next one if none is left: a *)
(* proof of stake if there is one ("always favored over proof-of-work        *)
(* block"), and no block twice.                                              *)
SelectionIsBest(vSorted, start, v2) ==
    LET selected == SelectedBlocks(vSorted, start, v2)
        Stop(n) == start + FoldLeft(LAMBDA sum, i : sum + Section(i - 1), 0, [i \in 1 .. n |-> i])
        Left(n) == DOMAIN vSorted \ {selected[i] : i \in 1 .. n - 1}
        Open(n) == {i \in Left(n) : vSorted[i].time <= Stop(n)}
    IN  /\ IsInjective(selected)
        /\ \A n \in DOMAIN selected :
              IF Open(n) = {} THEN selected[n] = Min(Left(n))
              ELSE /\ selected[n] \in Open(n)
                   /\ \A i \in Open(n) :
                         \/ HashSelection(vSorted[selected[n]], v2) < HashSelection(vSorted[i], v2)
                         \/ HashSelection(vSorted[selected[n]], v2) = HashSelection(vSorted[i], v2) /\ selected[n] <= i
                   /\ (\E i \in Open(n) : vSorted[i].stake) => vSorted[selected[n]].stake

-----------------------------------------------------------------------------
(* The branch of GetNextWorkRequired for stakes; nInterval is 1.  A target   *)
(* that comes out as 0 is replaced by the limit, the easiest one.            *)
RetargetStake(target, spacing) ==
    LET actual == IF spacing < 0 THEN 1 ELSE spacing
        new == ((target * (2 * actual)) % 2^Width) \div (2 * TargetSpacing)
    IN  IF new = 0 \/ new > TargetLimit THEN TargetLimit ELSE new

(* DarkGravity, over the last blocks from the newest to the oldest: their    *)
(* targets and how long after the one before each came.                      *)
RetargetWork(targets, spacings) ==
    LET count == Len(targets)
        Average(avg, i) == IF i = 1 THEN targets[1] ELSE ((avg * i + targets[i]) % 2^Width) \div (i + 1)
        average == FoldLeft(Average, 0, [i \in 1 .. count |-> i])
        timespan == FoldLeft(+, 0, SubSeq(spacings, 1, count - 1))
        expected == count * TargetSpacing
        actual == Max({expected \div 3, Min({timespan, expected * 3})})
        new == ((average * actual) % 2^Width) \div expected
    IN  IF new > TargetLimit THEN TargetLimit ELSE new

-----------------------------------------------------------------------------
(* The compact form: size in bytes and 23 bits of the number. *)
SizeInBytes(n) == Min({s \in 0 .. 4 : s = 4 \/ n < 256^s})

GetCompact(n) ==
    LET size == SizeInBytes(n)
        word == IF size <= 3 THEN n * 256^(3 - size) ELSE n \div 256^(size - 3)
    IN  IF word >= 2^23 THEN [size |-> size + 1, word |-> word \div 256] ELSE [size |-> size, word |-> word]

(* SetCompact drops the bit of the sign. *)
SetCompact(c) ==
    LET word == c.word % 2^23
    IN  IF c.size <= 3 THEN word \div 256^(3 - c.size) ELSE word * 256^(c.size - 3)

-----------------------------------------------------------------------------
(* The target follows the spacing: a block that comes sooner never makes the *)
(* next one easier, and one in time leaves the target as it is ("retarget    *)
(* with exponential moving toward target spacing").  Real exceptions are the *)
(* spacing 0, for which the target is the easiest of all, a target so small  *)
(* that it comes out as 0, and spacings for which the number is too wide.    *)
StakeTargetFollows(target, spacing, later) ==
    LET Regular(s) == target * 2 * s \in 2 * TargetSpacing .. 2^Width - 1
    IN  /\ RetargetStake(target, TargetSpacing) = target
        /\ spacing <= later /\ Regular(Max({spacing, 1})) /\ Regular(later) /\ spacing # 0 =>
              RetargetStake(target, spacing) <= RetargetStake(target, later)

(* The work required changes at most threefold against the targets of the    *)
(* last blocks, whatever their times say.                                    *)
WorkTargetIsBounded(targets, spacings) ==
    LET new == RetargetWork(targets, spacings)
    IN  /\ new <= Min({TargetLimit, 3 * Max(ToSet(targets))})
        /\ new >= Min({TargetLimit, (Min(ToSet(targets)) - 1) \div 3})

(* A target is read back smaller by less than the bits that do not fit, the  *)
(* compact form of what is read back is the same, and order is kept.         *)
CompactIsReadBack(n, m) ==
    LET back == SetCompact(GetCompact(n))
    IN  /\ back <= n /\ (n < 2^23 => back = n) /\ (n - back) * 2^15 < Max({n, 1})
        /\ GetCompact(back) = GetCompact(n)
        /\ n <= m => back <= SetCompact(GetCompact(m))
==============================================================================
