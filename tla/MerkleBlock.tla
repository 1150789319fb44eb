----------------------------- MODULE MerkleBlock -----------------------------
(* Partial merkle trees (merkleblock.cpp): a block's transactions and which  *)
(* of them match are folded into bits and hashes, and unfolded again by the  *)
(* receiver, who compares the root with the one of the header.  A hash is    *)
(* the pair of what was hashed, the hash of a transaction a sequence of one. *)
EXTENDS Integers, FiniteSetsExt, SequencesExt

NoHash == <<>>
Hash(l, r) == <<l, r>>

(* Mutant: only the transactions themselves are compared. *)
EndsInPairOfTxs(hashes) ==
    /\ Len(hashes) > 1 /\ Len(hashes) % 2 = 0
    /\ Len(Last(hashes)) = 1 /\ hashes[Len(hashes) - 1] = Last(hashes)

(* Two identical hashes at the end of a level. *)
EndsInPair(hashes) == Len(hashes) > 1 /\ Len(hashes) % 2 = 0 /\ hashes[Len(hashes) - 1] = Last(hashes)

(* CBlock::BuildMerkleTree: the root and whether the list is mutated. *)
Level(hashes) == [i \in 1 .. (Len(hashes) + 1) \div 2 |-> Hash(hashes[2 * i - 1], hashes[Min({2 * i, Len(hashes)})])]

CalcTreeWidth(n, height) == (n + 2^height - 1) \div 2^height
TreeHeight(n) == Min({h \in 0 .. n : CalcTreeWidth(n, h) <= 1})

BuildMerkleTree(hashes) ==
    LET top == TreeHeight(Len(hashes))
        level[h \in 0 .. top] == IF h = 0 THEN hashes ELSE Level(level[h - 1])
    IN  [root |-> level[top][1], mutated |-> \E h \in 0 .. top : EndsInPair(level[h])]

CalcHash(height, pos, vTxid) ==
    LET calc[h, p \in Nat] ==
            IF h = 0 THEN vTxid[p + 1]
            ELSE LET left == calc[h - 1, p * 2]
                 IN  Hash(left, IF p * 2 + 1 < CalcTreeWidth(Len(vTxid), h - 1) THEN calc[h - 1, p * 2 + 1] ELSE left)
    IN  calc[height, pos]

(* TraverseAndBuild: vBits and vHash of the subtree. *)
TraverseAndBuild(height, pos, vTxid, vMatch) ==
    LET build[h, p \in Nat] ==
            LET fParentOfMatch == \E i \in 1 .. Len(vTxid) : i > p * 2^h /\ i <= (p + 1) * 2^h /\ vMatch[i]
                left  == build[h - 1, p * 2]
                right == IF p * 2 + 1 < CalcTreeWidth(Len(vTxid), h - 1)
                         THEN build[h - 1, p * 2 + 1] ELSE [vBits |-> <<>>, vHash |-> <<>>]
            IN  IF h = 0 \/ ~fParentOfMatch
                THEN [vBits |-> <<fParentOfMatch>>, vHash |-> <<CalcHash(h, p, vTxid)>>]
                ELSE [vBits |-> <<TRUE>> \o left.vBits \o right.vBits, vHash |-> left.vHash \o right.vHash]
    IN  build[height, pos]

(* right = left, where there is no right subtree *)
RightOf(left) == left

(* TraverseAndExtract of a subtree, when so many bits and hashes were used:  *)
(* the numbers after it, its matches, its hash and fBad.                     *)
TraverseAndExtract(tree, height) ==
    LET extract[h, p, nBits, nHash \in Nat] ==
            LET fParentOfMatch == tree.vBits[nBits + 1]
                hash  == tree.vHash[nHash + 1]
                left  == extract[h - 1, p * 2, nBits + 1, nHash]
                right == IF p * 2 + 1 < CalcTreeWidth(tree.nTransactions, h - 1)
                         THEN extract[h - 1, p * 2 + 1, left.nBitsUsed, left.nHashUsed]
                         ELSE [left EXCEPT !.hash = RightOf(@), !.vMatch = <<>>]
                bad   == [nBitsUsed |-> nBits, nHashUsed |-> nHash, vMatch |-> <<>>, hash |-> NoHash, fBad |-> TRUE]
            IN  IF nBits >= Len(tree.vBits) THEN bad
                ELSE IF h = 0 \/ ~fParentOfMatch
                THEN IF nHash >= Len(tree.vHash) THEN [bad EXCEPT !.nBitsUsed = @ + 1]
                     ELSE [nBitsUsed |-> nBits + 1, nHashUsed |-> nHash + 1, hash |-> hash, fBad |-> FALSE,
                           vMatch |-> IF h = 0 /\ fParentOfMatch THEN <<hash>> ELSE <<>>]
                ELSE [right EXCEPT !.hash = Hash(left.hash, @), !.vMatch = left.vMatch \o @, !.fBad = @ \/ left.fBad]
    IN  extract[height, 0, 0, 0]

(* The constructor: the tree a node sends. *)
PartialMerkleTree(vTxid, vMatch) ==
    TraverseAndBuild(TreeHeight(Len(vTxid)), 0, vTxid, vMatch) @@ [nTransactions |-> Len(vTxid)]

(* ExtractMatches: the root, NoHash if something is wrong, and the matches.  *)
(* The trees are far below the limit of transactions a block can hold        *)
(* (MAX_BLOCK_SIZE_CURRENT / 60), so that check is left out.                 *)
ExtractMatches(tree) ==
    LET s == TraverseAndExtract(tree, TreeHeight(tree.nTransactions))
        ok == /\ ~s.fBad
              /\ (s.nBitsUsed + 7) \div 8 = (Len(tree.vBits) + 7) \div 8
              /\ s.nHashUsed = Len(tree.vHash)
    IN  IF tree.nTransactions = 0 \/ Len(tree.vHash) > tree.nTransactions \/ Len(tree.vBits) < Len(tree.vHash)
        THEN [root |-> NoHash, vMatch |-> <<>>]
        ELSE [root |-> IF ok THEN s.hash ELSE NoHash, vMatch |-> s.vMatch]

-----------------------------------------------------------------------------
Hashes(txs) == [i \in 1 .. Len(txs) |-> <<txs[i]>>]

(* What a node sends of a block with n transactions is unfolded to the root  *)
(* that the block's header has and to exactly the matching transactions in   *)
(* their order, for widths that are and are not powers of two.               *)
ProofIsReadBack(n, matching) ==
    LET vTxid == Hashes([i \in 1 .. n |-> i])
        got == ExtractMatches(PartialMerkleTree(vTxid, [i \in 1 .. n |-> i \in matching]))
    IN  got = [root |-> BuildMerkleTree(vTxid).root, vMatch |-> Hashes(SetToSortSeq(matching, <))]

(* A list of n transactions that is continued with some of them and has the  *)
(* root of the shorter list all the same is found out as mutated, and no     *)
(* list of different transactions is ("this will detect all known ways of    *)
(* changing the transactions without affecting the merkle root").            *)
SameRootIsMutated(n, tail) ==
    LET vtx  == [i \in 1 .. n |-> i]
        tree == BuildMerkleTree(Hashes(vtx \o tail))
    IN  /\ tail # <<>> /\ tree.root = BuildMerkleTree(Hashes(vtx)).root => tree.mutated
        /\ tail = <<>> => ~tree.mutated
==============================================================================
