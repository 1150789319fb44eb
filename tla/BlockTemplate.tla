---------------------------- MODULE BlockTemplate ----------------------------
(* The transactions of a new block (CreateNewBlock in miner.cpp): those of   *)
(* the memory pool by priority and then by fee, each after what it spends,   *)
(* within the limits of a block.  cs_main and the lock of the pool are held  *)
(* all the while.                                                            *)
(*                                                                           *)
(* A transaction has what it spends in the pool (deps), size, fee rate and   *)
(* priority with the deltas of prioritisetransaction, signature operations   *)
(* and the serials of its zerocoin spends.  It may be of no use for a block  *)
(* from the first (coinbase, coinstake, not final, zerocoins in maintenance),*)
(* have a witness where none may be, or be turned down by CheckInputs.       *)
EXTENDS Integers, FiniteSetsExt, SequencesExt

CONSTANTS
    Pools,          \* the pools: sequences of transactions, as mapTx has them
    StartSize,      \* left for header and coinbase, 1000 bytes
    Scale,          \* WITNESS_SCALE_FACTOR
    MaxCost,        \* nBlockMaxCost
    MinSize,        \* nBlockMinSize, which is compared with a cost
    PrioritySize,   \* nBlockPrioritySize
    StartSigOps,    \* left for the coinbase, 400
    MaxSigOps,      \* MAX_BLOCK_SIGOPS_COST
    MinRate,        \* minRelayTxFee
    FreePriority    \* AllowFreeThreshold()

BlockTemplateAssumption ==
    /\ \A pool \in Pools : \A t \in DOMAIN pool :
          /\ pool[t].deps \subseteq DOMAIN pool \ {t}
          /\ pool[t].serials # <<>> => pool[t].deps = {}
          /\ pool[t].use \in {"yes", "never", "witness", "invalid"}
    /\ {StartSize, Scale, MaxCost, MinSize, PrioritySize, StartSigOps, MaxSigOps, MinRate, FreePriority} \subseteq Nat

VARIABLE
    template    \* <<>>, or what CreateNewBlock works with

Init == template = <<>>

SumOf(pool, txs, field) == FoldLeft(LAMBDA n, t : n + pool[t][field], 0, txs)
BlockSize(pool, block) == StartSize + SumOf(pool, block, "size")
Cost(size) == size * Scale

-----------------------------------------------------------------------------
(* The first pass, in the order of mapTx: what may come into the block with  *)
(* its signature operations, counted whether it comes there or not.          *)
Collect(pool) ==
    FoldLeft(LAMBDA c, t :
                 IF pool[t].use = "never" \/ c.sigops + pool[t].sigops >= MaxSigOps THEN c
                 ELSE [sigops |-> c.sigops + pool[t].sigops, txs |-> c.txs \cup {t}],
             [sigops |-> StartSigOps, txs |-> {}], [t \in DOMAIN pool |-> t]).txs

(* vOrphan: what spends something of the pool has to wait. *)
CreateNewBlock ==
    /\ template = <<>>
    /\ \E pool \in Pools :
          LET txs == Collect(pool)
          IN  template' = [pool |-> pool, block |-> <<>>, byFee |-> PrioritySize = 0, serials |-> {},
                           heap |-> {t \in txs : pool[t].deps = {}},
                           dependsOn |-> [t \in txs |-> pool[t].deps]]

(* TxPriorityCompare *)
Before(pool, byFee, t, u) ==
    LET fee(s) == pool[s].rate
        priority(s) == pool[s].priority
    IN  IF byFee THEN fee(t) > fee(u) \/ (fee(t) = fee(u) /\ priority(t) >= priority(u))
        ELSE priority(t) > priority(u) \/ (priority(t) = priority(u) /\ fee(t) >= fee(u))

(* Whether what comes after t is taken by its fee. *)
ByFeeAfter(T, t) ==
    \/ T.byFee
    \/ BlockSize(T.pool, T.block) + T.pool[t].size >= PrioritySize
    \/ T.pool[t].priority <= FreePriority

(* A witness, no room, or a free transaction that is not needed to fill the  *)
(* block.  No transaction is given priority by prioritisetransaction, and a  *)
(* zerocoin spend is not in the chain already and has a valid serial, which  *)
(* the pool has checked.                                                     *)
Skipped(T, t) ==
    LET cost == Cost(BlockSize(T.pool, T.block)) + Cost(T.pool[t].size)
    IN  \/ T.pool[t].use = "witness"
        \/ cost >= MaxCost
        \/ T.pool[t].serials = <<>> /\ T.byFee /\ T.pool[t].rate < MinRate /\ cost >= MinSize

HaveInputs(T, t) == T.pool[t].deps \subseteq Range(T.block)

(* vTxSerials after the serials of t up to one that was seen: it is never    *)
(* emptied, so what it has of transactions that did not come in counts too.  *)
CheckSerials(T, t) ==
    FoldLeft(LAMBDA c, s : IF s \in c.seen THEN [c EXCEPT !.fDoubleSerial = TRUE]
                           ELSE IF c.fDoubleSerial THEN c ELSE [c EXCEPT !.seen = @ \cup {s}],
             [seen |-> T.serials, fDoubleSerial |-> FALSE], T.pool[t].serials)

(* Mutant: what came before is not taken off. *)
ReleaseOnly(T, t) == {u \in DOMAIN T.dependsOn : T.pool[u].deps = {t}}

(* mapDependers: what waited only for t. *)
Release(T, t) == {u \in DOMAIN T.dependsOn : T.dependsOn[u] = {t}}

(* The transaction t comes into the block, if its serials are new and its    *)
(* inputs good.                                                              *)
Added(T, t) ==
    LET left == [T EXCEPT !.heap = @ \ {t}, !.byFee = ByFeeAfter(T, t), !.serials = CheckSerials(T, t).seen]
    IN  IF CheckSerials(T, t).fDoubleSerial \/ T.pool[t].use = "invalid" THEN left
        ELSE [left EXCEPT !.block = Append(@, t), !.heap = @ \cup Release(T, t),
                          !.dependsOn = [u \in DOMAIN @ |-> @[u] \ {t}]]

(* The best transaction of the heap. *)
TakeTransaction ==
    /\ template # <<>>
    /\ \E t \in template.heap :
          /\ \A u \in template.heap : Before(template.pool, template.byFee, t, u)
          /\ template' = IF Skipped(template, t) THEN [template EXCEPT !.heap = @ \ {t}]
                         ELSE IF ~HaveInputs(template, t)
                         THEN [template EXCEPT !.heap = @ \ {t}, !.byFee = ByFeeAfter(template, t)]
                         ELSE Added(template, t)

Next == CreateNewBlock \/ TakeTransaction

Spec == Init /\ [][Next]_template

-----------------------------------------------------------------------------
Finished == template # <<>> /\ template.heap = {}

SerialsOf(pool, block) == FlattenSeq([i \in DOMAIN block |-> pool[block[i]].serials])

(* The block can be connected: each transaction comes once and after what it *)
(* spends, no serial comes twice, and the limits hold.                       *)
TemplateIsSound ==
    template # <<>> =>
        LET pool == template.pool
            block == template.block
        IN  /\ IsInjective(block) /\ IsInjective(SerialsOf(pool, block))
            /\ \A i \in DOMAIN block : pool[block[i]].deps \subseteq {block[j] : j \in 1 .. i - 1}
            /\ block # <<>> => Cost(BlockSize(pool, block)) < MaxCost
            /\ StartSigOps + SumOf(pool, block, "sigops") < MaxSigOps

(* Nothing of the pool is left out without a cause that still stands at the  *)
(* end: what it spends is left out, it does not fit in, it pays too little   *)
(* to go beyond the minimum, it shares a serial, or the operations of what   *)
(* comes before it in mapTx leave no room.                                   *)
LeftOutForACause ==
    Finished =>
        LET pool == template.pool
            block == template.block
        IN  \A t \in DOMAIN pool \ Range(block) :
                LET cost == Cost(BlockSize(pool, block)) + Cost(pool[t].size)
                    serials == pool[t].serials
                IN  \/ pool[t].use # "yes"
                    \/ ~(pool[t].deps \subseteq Range(block))
                    \/ cost >= MaxCost
                    \/ pool[t].rate < MinRate /\ serials = <<>> /\ cost >= MinSize
                    \/ ~IsInjective(serials)
                    \/ \E u \in DOMAIN pool \ {t} : Range(serials) \cap Range(pool[u].serials) # {}
                    \/ StartSigOps + SumOf(pool, [u \in 1 .. t |-> u], "sigops") >= MaxSigOps

(* When the part for high priorities is full, nothing that did not have to   *)
(* wait comes after something that pays less.                                *)
FeesDecideInTheEnd ==
    template # <<>> =>
        LET pool == template.pool
            block == template.block
        IN  \A i, j \in DOMAIN block :
                /\ i < j /\ pool[block[j]].deps = {}
                /\ BlockSize(pool, SubSeq(block, 1, i - 1)) >= PrioritySize
                => pool[block[i]].rate >= pool[block[j]].rate
==============================================================================
