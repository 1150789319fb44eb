------------------------------ MODULE BlockApply -----------------------------
(***************************************************************************)
(* Applying a block to the chain state and taking it back: ConnectBlock,   *)
(* UpdateCoins, CheckInputs, DisconnectBlock and VerifyDB of main.cpp,     *)
(* CCoins::Spend, and the undo records of undo.h.                          *)
(*                                                                         *)
(* A block touches four stores.  The coins (and the chain they belong to)  *)
(* are changed through a view that is kept or dropped as a whole and reach *)
(* the disk only when FlushStateToDisk writes.  mapStakeSpent lives in     *)
(* memory only.  The zerocoin database is written at once, synchronously,  *)
(* by ConnectBlock and DisconnectBlock themselves.  A crash, a block that  *)
(* cannot be taken back, or a VerifyDB that is stopped half way leaves them *)
(* at different points of history; the properties say what must survive.   *)
(*                                                                         *)
(* A transaction is [id, kind, ins, outs, serials, mints].  Scripts,       *)
(* amounts and fees are left out: blocks are assumed to pass those checks. *)
(***************************************************************************)
EXTENDS Naturals, Sequences, FiniteSets, SequencesExt

CONSTANTS
    Blocks,         \* block hashes
    Parent,         \* Blocks -> Blocks or Genesis
    Genesis,        \* the block that is always connected
    BlockTxs,       \* Blocks -> sequence of transactions
    Maturity,       \* Params().COINBASE_MATURITY()
    MaxReorg,       \* Params().MaxReorganizationDepth()
    StartDepth,     \* -checkblocks, 100 at start-up
    RpcDepth,       \* the largest numblocks of verifychain, 288 by default
    NoTx            \* no record in the zerocoin database

BlockApplyAssumption ==
    /\ Genesis \notin Blocks
    /\ Parent \in [Blocks -> Blocks \cup {Genesis}]
    /\ {Maturity, MaxReorg, StartDepth, RpcDepth} \subseteq Nat

AllTxs == UNION {ToSet(BlockTxs[b]) : b \in Blocks}
TxIds == {tx.id : tx \in AllTxs}
Serials == UNION {tx.serials : tx \in AllTxs}
Mints == UNION {tx.mints : tx \in AllTxs}
Outpoints == UNION {ToSet(tx.ins) : tx \in AllTxs}

VARIABLES
    up,         \* the node is running (not stopped at start-up)
    chain,      \* the active chain above the genesis block
    coins,      \* pcoinsTip: TxIds -> CCoins
    undo,       \* the rev files: Blocks -> CBlockUndo, or <<>> if none
    stakeSpent, \* mapStakeSpent: set of [out, height]
    spendDB,    \* zerocoinDB 's': serial -> txid or NoTx
    mintDB,     \* zerocoinDB 'm': public coins recorded
    saved       \* chain and coins as last written to disk

vars == <<up, chain, coins, undo, stakeSpent, spendDB, mintDB, saved>>

-----------------------------------------------------------------------------
(* CCoins *)

Cleared == [outs |-> {}, coinBase |-> FALSE, coinStake |-> FALSE, height |-> 0]

IsPruned(c) == c.outs = {}

(* CCoins::FromTx *)
FromTx(tx, h) ==
    [outs |-> tx.outs, coinBase |-> (tx.kind = "base"), coinStake |-> (tx.kind = "stake"), height |-> h]

(* operator== : "Empty CCoins objects are always equal". *)
SameCoins(a, b) == (IsPruned(a) /\ IsPruned(b)) \/ a = b

(* What is left of a CCoins with nothing unspent is never looked at again. *)
Tidy(c) == IF IsPruned(c) THEN Cleared ELSE c

HaveInputs(cs, tx) == \A o \in ToSet(tx.ins) : o.n \in cs[o.tx].outs

(* CheckInputs: coinbase and coinstake outputs have to mature. *)
Matured(cs, tx, h) ==
    \A o \in ToSet(tx.ins) :
        cs[o.tx].coinBase \/ cs[o.tx].coinStake => h - cs[o.tx].height >= Maturity

(* CCoins::Spend of one input: the coins and the undo record.  Only the      *)
(* record of the last unspent output carries the height and the flags.       *)
SpendInput(st, o) ==
    LET c    == st.coins[o.tx]
        rest == c.outs \ {o.n}
        u    == IF rest = {}
                THEN [last |-> TRUE, coinBase |-> c.coinBase, coinStake |-> c.coinStake, height |-> c.height]
                ELSE [last |-> FALSE, coinBase |-> FALSE, coinStake |-> FALSE, height |-> 0]
    IN  [coins |-> [st.coins EXCEPT ![o.tx] = Tidy([c EXCEPT !.outs = rest])],
         undo  |-> Append(st.undo, u)]

SpendsInputs(tx) == tx.kind \notin {"base", "zspend"}

(* UpdateCoins: the coins after tx, and its CTxUndo. *)
UpdateCoins(cs, tx, h) ==
    LET spent == FoldLeft(SpendInput, [coins |-> cs, undo |-> <<>>],
                          IF SpendsInputs(tx) THEN tx.ins ELSE <<>>)
    IN  [spent EXCEPT !.coins = [@ EXCEPT ![tx.id] = Tidy(FromTx(tx, h))]]

-----------------------------------------------------------------------------
(* The four stores as one value, so that VerifyDB can run blocks over them. *)

World == [coins |-> coins, stakes |-> stakeSpent, spends |-> spendDB, mints |-> mintDB]

(* IsTransactionInChain: the heights at which txid is in the chain. *)
HeightsOf(ch, txid) == {i \in 1..Len(ch) : \E tx \in ToSet(BlockTxs[ch[i]]) : tx.id = txid}

InChain(ch, txid) == HeightsOf(ch, txid) # {}

(* IsSerialInBlockchain, for each serial of tx. *)
SerialsUnspent(w, ch, tx) ==
    \A q \in tx.serials : w.spends[q] = NoTx \/ ~InChain(ch, w.spends[q])

(* ContextualCheckZerocoinMint: whether the public coin is recorded, not     *)
(* whether its transaction is in the chain.                                  *)
MintsUnknown(w, tx) == tx.mints \cap w.mints = {}

(* One transaction of ConnectBlock. *)
ConnectTx(w, ch, tx, h) ==
    IF tx.kind = "zspend"
    THEN /\ \A i \in HeightsOf(ch, tx.id) : i >= h
         /\ SerialsUnspent(w, ch, tx)
         /\ MintsUnknown(w, tx)
    ELSE tx.kind = "base" \/ (HaveInputs(w.coins, tx) /\ MintsUnknown(w, tx) /\ Matured(w.coins, tx, h))

(* The loop of ConnectBlock over the transactions: coins, undo and whether   *)
(* all of them passed.  The zerocoin database is only read here.             *)
ConnectTxs(w, ch, b, h) ==
    LET step(st, tx) ==
            LET now == [w EXCEPT !.coins = st.coins]
                upd == UpdateCoins(st.coins, tx, h)
            IN  IF st.ok /\ ConnectTx(now, ch, tx, h)
                THEN [ok |-> TRUE, coins |-> upd.coins, undo |-> Append(st.undo, upd.undo)]
                ELSE [st EXCEPT !.ok = FALSE]
        bip30 == \A tx \in ToSet(BlockTxs[b]) : IsPruned(w.coins[tx.id])
    IN  FoldLeft(step, [ok |-> bip30, coins |-> w.coins, undo |-> <<>>], BlockTxs[b])

StakesOf(b, h) ==
    {[out |-> o, height |-> h] :
        o \in UNION {ToSet(tx.ins) : tx \in {t \in ToSet(BlockTxs[b]) : SpendsInputs(t)}}}

(* mapStakeSpent.insert keeps an entry that is there.  The loop that deletes *)
(* old entries erases the element its iterator is on before advancing it,    *)
(* which is undefined: any of the old entries may be left behind (keep).     *)
AddStakes(stakes, b, h, keep) ==
    LET known == {s.out : s \in stakes}
        all   == stakes \cup {s \in StakesOf(b, h) : s.out \notin known}
    IN  {s \in all : s.height + MaxReorg >= h \/ s.out \in keep}

(* ConnectBlock on world w over chain ch: the new world, if all is well. *)
Connected(w, ch, b, h, keep) ==
    LET r == ConnectTxs(w, ch, b, h)
        spender(q) == {tx \in ToSet(BlockTxs[b]) : q \in tx.serials}
    IN  [ok     |-> r.ok,
         undo   |-> r.undo,
         world  |-> [coins  |-> r.coins,
                     stakes |-> AddStakes(w.stakes, b, h, keep),
                     spends |-> [q \in Serials |->
                                    IF spender(q) = {} THEN w.spends[q] ELSE (CHOOSE tx \in spender(q) : TRUE).id],
                     mints  |-> w.mints \cup UNION {tx.mints : tx \in ToSet(BlockTxs[b])}]]

(* Mutant: the record of the last output does not restore the height. *)
RestoreInputNoHeight(st, o, u) ==
    LET c    == st.coins[o.tx]
        base == IF u.last THEN [Cleared EXCEPT !.coinBase = u.coinBase] ELSE c
    IN  [clean |-> /\ st.clean
                   /\ u.last = IsPruned(c)
                   /\ o.n \notin base.outs,
         coins |-> [st.coins EXCEPT ![o.tx] = [base EXCEPT !.outs = @ \cup {o.n}]]]

(* DisconnectBlock, "restore inputs", for one input: a record with a height  *)
(* (last) restores the coinbase flag and the height, and not the coinstake   *)
(* flag, which Clear() has reset.                                            *)
RestoreInput(st, o, u) ==
    LET c    == st.coins[o.tx]
        base == IF u.last THEN [Cleared EXCEPT !.coinBase = u.coinBase, !.height = u.height] ELSE c
    IN  [clean |-> /\ st.clean
                   /\ u.last = IsPruned(c)
                   /\ o.n \notin base.outs,
         coins |-> [st.coins EXCEPT ![o.tx] = [base EXCEPT !.outs = @ \cup {o.n}]]]

(* DisconnectBlock, "remove outputs": they have to be those of the block,    *)
(* all unspent.                                                              *)
RemoveOutputs(st, tx, h) ==
    [clean |-> st.clean /\ SameCoins(st.coins[tx.id], FromTx(tx, h)),
     coins |-> [st.coins EXCEPT ![tx.id] = Cleared]]

StakesWithout(stakes, b, h) == {s \in stakes : s.out \notin {t.out : t \in StakesOf(b, h)}}

(* DisconnectBlock of b at height h with undo data bu: transactions in       *)
(* reverse order, then inputs in reverse order.  Everything but the coins is *)
(* changed in place even if the result is not clean.                         *)
Disconnected(w, b, h, bu) ==
    LET txs == BlockTxs[b]
        back(i, st) ==
            IF SpendsInputs(txs[i])
            THEN FoldRightDomain(LAMBDA j, s : RestoreInput(s, txs[i].ins[j], bu[i][j]),
                                 txs[i].ins, RemoveOutputs(st, txs[i], h))
            ELSE RemoveOutputs(st, txs[i], h)
        r == FoldRightDomain(back, txs, [clean |-> TRUE, coins |-> w.coins])
    IN  [clean |-> r.clean,
         world |-> [coins  |-> r.coins,
                    stakes |-> StakesWithout(w.stakes, b, h),
                    spends |-> [q \in Serials |->
                                  IF \E tx \in ToSet(txs) : q \in tx.serials THEN NoTx ELSE w.spends[q]],
                    mints  |-> w.mints \ UNION {tx.mints : tx \in ToSet(txs)}]]

-----------------------------------------------------------------------------
NoCoins == [x \in TxIds |-> Cleared]

Init ==
    /\ up = TRUE
    /\ chain = <<>>
    /\ coins = NoCoins
    /\ undo = [b \in Blocks |-> <<>>]
    /\ stakeSpent = {}
    /\ spendDB = [q \in Serials |-> NoTx]
    /\ mintDB = {}
    /\ saved = [chain |-> <<>>, coins |-> NoCoins]

(* What is changed in place: all but the coins, which go with the chain. *)
RestBecomes(w) ==
    /\ stakeSpent' = w.stakes
    /\ spendDB' = w.spends
    /\ mintDB' = w.mints

Tip == IF chain = <<>> THEN Genesis ELSE Last(chain)

(* ConnectTip: the view is flushed into pcoinsTip; the disk follows later.   *)
(* A block that fails changes nothing here (its view is dropped).            *)
ConnectBlock(b) ==
    /\ up
    /\ Parent[b] = Tip
    /\ \E keep \in SUBSET {s.out : s \in stakeSpent} :
        LET r == Connected(World, chain, b, Len(chain) + 1, keep)
        IN  /\ r.ok
            /\ coins' = r.world.coins
            /\ RestBecomes(r.world)
            /\ undo' = IF undo[b] = <<>> THEN [undo EXCEPT ![b] = r.undo] ELSE undo
    /\ chain' = Append(chain, b)
    /\ UNCHANGED <<up, saved>>

(* DisconnectTip: if clean, the view is flushed and so is the disk; if not,  *)
(* the view is dropped and the rest stays changed.                           *)
DisconnectTip ==
    /\ up
    /\ chain # <<>>
    /\ LET b == Last(chain)
           r == Disconnected(World, b, Len(chain), undo[b])
       IN  /\ RestBecomes(r.world)
           /\ IF r.clean
              THEN /\ coins' = r.world.coins
                   /\ chain' = Front(chain)
                   /\ saved' = [chain |-> Front(chain), coins |-> r.world.coins]
              ELSE UNCHANGED <<coins, chain, saved>>
    /\ UNCHANGED <<up, undo>>

(* FlushStateToDisk, PERIODIC or because the cache is large. *)
FlushState ==
    /\ up
    /\ saved' = [chain |-> chain, coins |-> coins]
    /\ UNCHANGED <<up, chain, coins, undo, stakeSpent, spendDB, mintDB>>

Shorter(n, k) == IF n < k THEN n ELSE k

(* The first half of VerifyDB: take back the blocks of ch from height low on, *)
(* over a throw-away view of the coins, going on when one is not clean.      *)
TakenBack(w, ch, low) ==
    FoldRightDomain(
        LAMBDA i, st :
            IF i < low THEN st
            ELSE LET r == Disconnected(st.world, ch[i], i, undo[ch[i]])
                 IN  [clean |-> st.clean /\ r.clean, world |-> r.world],
        ch, [clean |-> TRUE, world |-> w])

(* VerifyDB at level 4, the only one in use: take back depth + 1 blocks, all *)
(* of them for depth 0, and when they were clean, connect them again.        *)
Verified(w, ch, depth, keep) ==
    LET low == IF depth = 0 THEN 0 ELSE Len(ch) - Shorter(depth, Len(ch))
    IN  FoldLeftDomain(
            LAMBDA st, i :
                IF i < low \/ ~st.clean THEN st
                ELSE LET r == Connected(st.world, ch, ch[i], i, keep)
                     IN  IF r.ok THEN [st EXCEPT !.world = r.world] ELSE [st EXCEPT !.clean = FALSE],
            TakenBack(w, ch, low), ch)

(* The verifychain RPC. *)
VerifyChain(depth) ==
    /\ up
    /\ chain # <<>>
    /\ \E keep \in SUBSET {s.out : s \in stakeSpent} : RestBecomes(Verified(World, chain, depth, keep).world)
    /\ UNCHANGED <<up, chain, coins, undo, saved>>

(* VerifyDB sees ShutdownRequested() after it has taken back the blocks from *)
(* height low on and returns; Shutdown then flushes the state.               *)
StopInVerifyChain(low) ==
    /\ up
    /\ low \in 1..Len(chain)
    /\ RestBecomes(TakenBack(World, chain, low).world)
    /\ saved' = [chain |-> chain, coins |-> coins]
    /\ up' = FALSE
    /\ UNCHANGED <<chain, coins, undo>>

(* The process ends at any point.  On the next start the chain and the coins *)
(* are those on disk, mapStakeSpent is empty, and VerifyDB runs; when it     *)
(* finds an inconsistency the node refuses to start.                         *)
Restart ==
    /\ chain' = saved.chain
    /\ coins' = saved.coins
    /\ LET w == [World EXCEPT !.coins = saved.coins, !.stakes = {}]
           v == Verified(w, saved.chain, StartDepth, {})
       IN  /\ up' = v.clean
           /\ RestBecomes(v.world)
    /\ UNCHANGED <<undo, saved>>

Next ==
    \/ \E b \in Blocks : ConnectBlock(b)
    \/ DisconnectTip
    \/ FlushState
    \/ \E depth \in 0..RpcDepth : VerifyChain(depth)
    \/ \E low \in 1..Len(chain) : StopInVerifyChain(low)
    \/ Restart

Spec == Init /\ [][Next]_vars

-----------------------------------------------------------------------------
(* Properties *)

TypeOK ==
    /\ up \in BOOLEAN
    /\ chain \in Seq(Blocks) /\ saved.chain \in Seq(Blocks)
    /\ \A x \in TxIds : IF IsPruned(coins[x]) THEN coins[x] = Cleared
                         ELSE coins[x].height \in 0..Cardinality(Blocks)
    /\ \A s \in stakeSpent : s.out \in Outpoints /\ s.height \in 1..Cardinality(Blocks)
    /\ spendDB \in [Serials -> TxIds \cup {NoTx}]
    /\ mintDB \subseteq Mints

(* The inputs spent by the blocks of ch. *)
SpentBy(ch) == {s.out : s \in UNION {StakesOf(ch[i], i) : i \in 1..Len(ch)}}

(* What the chain itself says of a transaction's coins: all it created and   *)
(* no block of the chain spent.                                              *)
CoinsOfChain(ch, x) ==
    LET created == {p \in (1..Len(ch)) \X AllTxs : p[2].id = x /\ p[2] \in ToSet(BlockTxs[ch[p[1]]])}
    IN  IF created = {} THEN Cleared
        ELSE LET p == CHOOSE p \in created : TRUE
                 c == FromTx(p[2], p[1])
             IN  Tidy([c EXCEPT !.outs = {n \in @ : [tx |-> x, n |-> n] \notin SpentBy(ch)}])

(* Over any sequence of connected and disconnected blocks, restarts and      *)
(* checks, the unspent outputs in memory and on disk, with their heights and *)
(* coinbase flags, are those of the chain they belong to.                    *)
CoinsMatchChain ==
    \A st \in {[chain |-> chain, coins |-> coins], saved} : \A x \in TxIds :
        LET want == CoinsOfChain(st.chain, x)
        IN  /\ st.coins[x].outs = want.outs
            /\ st.coins[x].height = want.height
            /\ st.coins[x].coinBase = want.coinBase

(* CheckInputs, "If prev is coinbase, check that it's matured": no block of  *)
(* the active chain spends a coinbase or coinstake output before its time.   *)
SpendsAreMature ==
    \A i \in 1..Len(chain) : \A s \in StakesOf(chain[i], i) : \A j \in 1..i :
        \A tx \in ToSet(BlockTxs[chain[j]]) :
            tx.id = s.out.tx /\ tx.kind \in {"base", "stake"} => i - j >= Maturity

(* An entry of mapStakeSpent, for which AcceptBlock turns a fork's stake     *)
(* down, is an input that the active chain really spends at that height.     *)
StakeSpentSound ==
    \A s \in stakeSpent : s.height <= Len(chain) /\ s \in StakesOf(chain[s.height], s.height)

(* A block without mints that was connected once can be connected again on   *)
(* its parent: the records of serials, which are ahead of the coins after a  *)
(* crash, must not turn it down.  (Records of mints do: they are not checked *)
(* against the chain.)                                                       *)
BlocksStayValid ==
    up => \A b \in Blocks :
            undo[b] # <<>> /\ Parent[b] = Tip /\ (\A tx \in ToSet(BlockTxs[b]) : tx.mints = {})
            => Connected(World, chain, b, Len(chain) + 1, {}).ok
==============================================================================
