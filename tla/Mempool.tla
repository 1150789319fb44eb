------------------------------- MODULE Mempool -------------------------------
(***************************************************************************)
(* The memory pool of txmempool.cpp with the parts of main.cpp that fill   *)
(* and empty it: transaction messages and orphan transactions, blocks that *)
(* are connected and disconnected.  Everything runs under cs_main, so each *)
(* action is one message, command or block.                                *)
(*                                                                         *)
(* Fees, standardness and size are one constant: which transactions only   *)
(* come in with a block.  Zerocoin spends, which have no inputs to track,  *)
(* locks of SwiftTX, prioritisation and penalties are left out.            *)
(***************************************************************************)
EXTENDS Naturals, FiniteSets, Sequences, SequencesExt

CONSTANTS
    Txs,            \* the ordinary transactions
    HashOrder,      \* all of them, in the order of their hashes
    InputsOf,       \* transaction -> set of outpoints <<transaction, n>>
    OutputsOf,      \* transaction or coinbase -> number of outputs
    Coinbases,
    Genesis,        \* where the first coins are
    Unacceptable,   \* transactions that AcceptToMemoryPool turns down for policy
    Maturity,       \* COINBASE_MATURITY
    MaxOrphans,     \* -maxorphantx
    Senders,        \* peers that send transactions
    MaxBlocks, MaxBlockTxs

(* An ordinary transaction spends something and is no coinbase. *)
ASSUME MempoolAssumption ==
    /\ HashOrder \in Seq(Txs) /\ Txs = ToSet(HashOrder)
    /\ Txs \cap Coinbases = {} /\ Genesis \notin Txs \cup Coinbases
    /\ OutputsOf \in [Txs \cup Coinbases \cup {Genesis} -> Nat]
    /\ InputsOf \in [Txs -> SUBSET ((DOMAIN OutputsOf) \X Nat)]
    /\ \A t \in Txs : InputsOf[t] # {} /\ \A o \in InputsOf[t] : o[2] < OutputsOf[o[1]]
    /\ Unacceptable \subseteq Txs
    /\ {Maturity, MaxOrphans, MaxBlocks, MaxBlockTxs} \subseteq Nat

VARIABLES
    mempool,    \* mapTx and mapNextTx
    blocks,     \* the active chain: coinbase and transactions of each block
    orphanTxs,  \* mapOrphanTransactions; the map by parents is derived
    cause       \* what changed the pool last: "peer", "local" or "chain"

poolVars == <<mempool, blocks, orphanTxs, cause>>

-----------------------------------------------------------------------------
(* pcoinsTip for a chain: a coin for each output that was made and not spent. *)
Made(t) == {t} \X (0..OutputsOf[t] - 1)

TxsIn(c) == UNION {ToSet(c[h].txs) : h \in DOMAIN c}

UnspentCoins(c) ==
    (Made(Genesis) \cup (UNION {Made(c[h].coinbase) : h \in DOMAIN c}) \cup (UNION {Made(t) : t \in TxsIn(c)}))
        \ UNION {InputsOf[t] : t \in TxsIn(c)}

(* Whether o may be spent in the next block of chain c. *)
Mature(o, c) == \A h \in DOMAIN c : c[h].coinbase = o[1] => Len(c) + 1 - h >= Maturity

Parents(t) == {o[1] : o \in InputsOf[t]}

(* AcceptToMemoryPool: a conflict, a transaction that is there already,      *)
(* parents that are unknown, inputs that are spent, policy, maturity.        *)
Judge(p, t, c) ==
    LET coins     == UnspentCoins(c)
        HaveCoins(x) == x \in p.tx \/ \E o \in coins : o[1] = x
    IN  IF InputsOf[t] \cap DOMAIN p.next # {} \/ HaveCoins(t) THEN "no"
        ELSE IF \E x \in Parents(t) : ~HaveCoins(x) THEN "missing"
        ELSE IF \/ \E o \in InputsOf[t] : o \notin coins /\ o[1] \notin p.tx
                \/ t \in Unacceptable
                \/ \E o \in InputsOf[t] : ~Mature(o, c)
             THEN "no" ELSE "ok"

(* addUnchecked *)
addUnchecked(p, t) ==
    [tx |-> p.tx \cup {t}, next |-> [o \in DOMAIN p.next \cup InputsOf[t] |-> IF o \in InputsOf[t] THEN t ELSE p.next[o]]]

Without(p, gone) ==
    [tx |-> p.tx \ gone, next |-> [o \in DOMAIN p.next \ UNION {InputsOf[t] : t \in gone \cap p.tx} |-> p.next[o]]]

(* What remove(fRecursive) takes out: t and what spends it, as mapNextTx has *)
(* it, also if t itself is not in the pool.                                  *)
Descendants(p, t) ==
    LET Children(s) == {p.next[o] : o \in {x \in DOMAIN p.next : x[1] \in s}}
        reached[n \in 0..Len(HashOrder)] ==
            IF n = 0 THEN {t} ELSE reached[n - 1] \cup Children(reached[n - 1])
    IN  reached[Len(HashOrder)]

removeRecursive(p, t) == Without(p, Descendants(p, t))

(* Mutant: what spends the same inputs stays. *)
removeForBlockOnly(p, txs) == FoldLeft(LAMBDA q, t : Without(q, {t}), p, txs)

(* removeForBlock: each transaction of the block, and what conflicts with it *)
(* together with its descendants.                                            *)
removeConflicts(p, t) ==
    LET rivals == {p.next[o] : o \in InputsOf[t] \cap DOMAIN p.next} \ {t}
    IN  Without(p, UNION {Descendants(p, r) : r \in rivals})

removeForBlock(p, txs) == FoldLeft(LAMBDA q, t : removeConflicts(Without(q, {t}), t), p, txs)

(* removeCoinbaseSpends *)
removeCoinbaseSpends(p, c) ==
    LET Spoilt(t) == \E o \in InputsOf[t] : o[1] \notin p.tx /\ ((\A x \in UnspentCoins(c) : x[1] # o[1]) \/ ~Mature(o, c))
    IN  Without(p, UNION {Descendants(p, t) : t \in {x \in p.tx : Spoilt(x)}})

-----------------------------------------------------------------------------
(* Orphans that spend the transactions just accepted, breadth first: s has   *)
(* the pool, the queue and what leaves mapOrphanTransactions at the end.     *)
(* setMisbehaving stays empty: no refusal of Judge has a penalty (nDoS), so  *)
(* no orphan is passed over for another one of its peer.                     *)
Waiting == {o.tx : o \in orphanTxs}

TryOrphan(s, parent, t) ==
    IF t \notin Waiting \/ parent \notin Parents(t) THEN s
    ELSE CASE Judge(s.pool, t, blocks) = "ok" ->
                [pool |-> addUnchecked(s.pool, t), queue |-> Append(s.queue, t), done |-> s.done \cup {t}]
           [] Judge(s.pool, t, blocks) = "no" -> [s EXCEPT !.done = @ \cup {t}]
           [] OTHER -> s

Resolve(s) ==
    LET after[n \in 0..Len(HashOrder)] ==
            IF n = 0 THEN s
            ELSE LET r == after[n - 1]
                 IN  IF n > Len(r.queue) THEN r ELSE FoldLeft(LAMBDA q, t : TryOrphan(q, r.queue[n], t), r, HashOrder)
    IN  after[Len(HashOrder)]

PoolInit ==
    /\ mempool = [tx |-> {}, next |-> [o \in {} |-> Genesis]]
    /\ blocks = <<>>
    /\ orphanTxs = {}
    /\ cause = "peer"

(* LimitOrphanTxSize: if there are too many, a random one goes. *)
LimitOrphanTxSize(all) == IF Cardinality(all) <= MaxOrphans THEN {all} ELSE {all \ {o} : o \in all}

(* The tx message.  An orphan that is too large (kept is FALSE) is ignored.  *)
ReceiveTx(t, n, kept) ==
    /\ cause' = "peer"
    /\ \/ /\ Judge(mempool, t, blocks) = "ok"
          /\ LET s == Resolve([pool |-> addUnchecked(mempool, t), queue |-> <<t>>, done |-> {}])
             IN  /\ mempool' = s.pool
                 /\ orphanTxs' = {o \in orphanTxs : o.tx \notin s.done}
       \/ /\ Judge(mempool, t, blocks) = "missing"
          /\ kept /\ t \notin Waiting
          /\ orphanTxs' \in LimitOrphanTxSize(orphanTxs \cup {[tx |-> t, from |-> n]})
          /\ UNCHANGED mempool
    /\ UNCHANGED blocks

(* sendrawtransaction, the wallet: orphans are not looked at. *)
SubmitTx(t) ==
    /\ Judge(mempool, t, blocks) = "ok"
    /\ mempool' = addUnchecked(mempool, t)
    /\ cause' = "local"
    /\ UNCHANGED <<blocks, orphanTxs>>

(* FinalizeNode, EraseOrphansFor *)
PeerLeaves(n) ==
    /\ \E o \in orphanTxs : o.from = n
    /\ orphanTxs' = {o \in orphanTxs : o.from # n}
    /\ UNCHANGED <<mempool, blocks, cause>>

(* External: a sequence of transactions that is valid in the next block. *)
ValidIn(c, cb, txs) ==
    \A i \in DOMAIN txs :
        LET before == Append(c, [coinbase |-> cb, txs |-> SubSeq(txs, 1, i - 1)])
        IN  /\ txs[i] \notin TxsIn(before)
            /\ \A o \in InputsOf[txs[i]] : o[1] # cb /\ o \in UnspentCoins(before) /\ Mature(o, c)

(* ConnectTip *)
ConnectTip(cb, txs) ==
    /\ Len(blocks) < MaxBlocks
    /\ cb \notin {blocks[h].coinbase : h \in DOMAIN blocks}
    /\ ValidIn(blocks, cb, txs)
    /\ blocks' = Append(blocks, [coinbase |-> cb, txs |-> txs])
    /\ mempool' = removeForBlock(mempool, txs)
    /\ cause' = "chain"
    /\ UNCHANGED orphanTxs

(* Mutant: the last transactions of the block come first. *)
DisconnectTipBackwards ==
    /\ blocks # <<>>
    /\ LET c    == Front(blocks)
           tip  == Last(blocks)
           Back(p, t) == IF Judge(p, t, c) = "ok" THEN addUnchecked(p, t) ELSE removeRecursive(p, t)
       IN  /\ blocks' = c
           /\ mempool' = removeCoinbaseSpends(FoldLeft(Back, removeRecursive(mempool, tip.coinbase), Reverse(tip.txs)), c)
    /\ cause' = "chain"
    /\ UNCHANGED orphanTxs

(* DisconnectTip: the transactions of the block, in its order, go back to    *)
(* the pool, or what depends on them leaves it.                              *)
DisconnectTip ==
    /\ blocks # <<>>
    /\ LET c    == Front(blocks)
           tip  == Last(blocks)
           Back(p, t) == IF Judge(p, t, c) = "ok" THEN addUnchecked(p, t) ELSE removeRecursive(p, t)
       IN  /\ blocks' = c
           /\ mempool' = removeCoinbaseSpends(FoldLeft(Back, removeRecursive(mempool, tip.coinbase), tip.txs), c)
    /\ cause' = "chain"
    /\ UNCHANGED orphanTxs

(* Up to n different transactions, in any order. *)
TxLists(n) == UNION {{s \in [1..k -> Txs] : \A i, j \in 1..k : s[i] = s[j] => i = j} : k \in 0..n}

PoolNext ==
    \/ \E t \in Txs : (\E n \in Senders, kept \in BOOLEAN : ReceiveTx(t, n, kept)) \/ SubmitTx(t)
    \/ \E n \in Senders : PeerLeaves(n)
    \/ \E cb \in Coinbases, txs \in TxLists(MaxBlockTxs) : ConnectTip(cb, txs)
    \/ DisconnectTip

PoolSpec == PoolInit /\ [][PoolNext]_poolVars

-----------------------------------------------------------------------------
(* Properties *)

PoolTypeOK ==
    /\ mempool.tx \subseteq Txs
    /\ \A o \in DOMAIN mempool.next : mempool.next[o] \in Txs
    /\ Waiting \subseteq Txs /\ Cardinality(orphanTxs) <= MaxOrphans
    /\ Len(blocks) <= MaxBlocks

(* CTxMemPool::check: mapNextTx has exactly the inputs of the transactions   *)
(* in the pool, and each of them is a coin or an output of another           *)
(* transaction in the pool, through blocks and reorganisations.              *)
PoolIsConsistent ==
    /\ DOMAIN mempool.next = UNION {InputsOf[t] : t \in mempool.tx}
    /\ \A t \in mempool.tx : \A o \in InputsOf[t] :
          /\ mempool.next[o] = t
          /\ o[1] \in mempool.tx \/ o \in UnspentCoins(blocks)

(* Everything in the pool may go into the next block: no coinbase that is    *)
(* too young after blocks were disconnected, and nothing that is in the      *)
(* chain already.                                                            *)
PoolIsMinable ==
    \A t \in mempool.tx : t \notin TxsIn(blocks) /\ \A o \in InputsOf[t] : Mature(o, blocks)

(* A reorganisation loses no transaction: those of a disconnected block are  *)
(* back in the pool, unless policy turns them or what they spend down.       *)
TxsReturn ==
    [][Len(blocks') < Len(blocks) =>
          \A t \in ToSet(Last(blocks).txs) :
              \/ t \in mempool'.tx
              \/ t \in Unacceptable
              \/ \E x \in Parents(t) \cap ToSet(Last(blocks).txs) : x \notin mempool'.tx]_poolVars

(* An orphan whose parents are all there is not left waiting by the message  *)
(* that brings the last of them, also if that one is an orphan itself.       *)
OrphansFollow ==
    [][cause' = "peer" =>
          \A o \in orphanTxs' :
              Parents(o.tx) \cap (mempool'.tx \ mempool.tx) # {} => Judge(mempool', o.tx, blocks) # "ok"]_poolVars

(* CTxMemPool::check, through blocks and reorganisations: mapNextTx has      *)
(* exactly the inputs of the transactions in the pool, each a coin or an     *)
(* output of another one in the pool; and everything in the pool may go into *)
(* the next block.                                                           *)
PoolIsSound == PoolTypeOK /\ PoolIsConsistent /\ PoolIsMinable

(* No transaction is dropped on the way: those of a disconnected block are   *)
(* back in the pool, unless policy turns them or what they spend down, and   *)
(* an orphan whose parents are all there is not left waiting by the message  *)
(* that brings the last of them.                                             *)
NothingIsDropped == TxsReturn /\ OrphansFollow
==============================================================================
