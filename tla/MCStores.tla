------------------------------- MODULE MCStores ------------------------------
(* What a node keeps several times over and must keep in step: the coins     *)
(* caches and their database, the stores that a block is applied to, the     *)
(* memory pool with its index of spent outputs, the wallet's transactions    *)
(* beside a pool and a chain, the address manager with its tables, the key   *)
(* pool and the zerocoin mints with their records in the wallet file, and    *)
(* the blocks of a node beside those of the peer it gets them from, the      *)
(* bytes of a connection, the transactions of a new block and a payment.     *)
(* They share nothing, so a behaviour runs one of them (part) and leaves the *)
(* others in their initial states.  The pure algorithms are a further part:  *)
(* a behaviour takes one input of one of them, for which the result is       *)
(* compared with what it should be.                                          *)
(*                                                                           *)
(* Coins: two transactions and three blocks.  Block b1 creates both outputs, *)
(* b2 spends the first and changes the second, b3 (a sibling of b2) spends   *)
(* both: connecting, disconnecting and reorganising between them goes        *)
(* through every pair of old and new value of an entry.                      *)
(*                                                                           *)
(* Applied blocks, with a maturity of 2:                                     *)
(*            g - b1 - b2 - b3 - b4 - b5       b3 stakes, b5 spends the      *)
(*                 |     |    `- b4x           stake whole, b4x too early;   *)
(*                 |     `- b3p - b4p          coinbases and ordinary        *)
(*                 |     `- b3r                spends, partial and whole;    *)
(*                 |     `- bm                 b3r spends too early, bm      *)
(*                 `- bz                       mints, bz spends a serial     *)
(*                                                                           *)
(* Pool: B spends A, C spends the same coin as A, D needs a coinbase and     *)
(* outputs of N and B, N only comes with a block.  The wallet has the coins  *)
(* that A, C, B and D spend; there D needs nothing of N, and C only comes    *)
(* with a block.                                                             *)
(*                                                                           *)
(* Addresses: a and b meet in the new and in the tried table, c has one slot *)
(* whoever tells of it, d is on its own.                                     *)
(*                                                                           *)
(* Zerocoins: two mints without a restart, so that change is minted (mints;  *)
(* the wallet is encrypted, which without a restart only adds to what it     *)
(* does), and one mint with a restart and time for two spends (spends).      *)
(*                                                                           *)
(* Peers: one, whose chain is four blocks long at first and comes to six,    *)
(* with answers of one block, so that a first sync takes several.            *)
(*                                                                           *)
(* Bytes: headers of two bytes, replies with two more, sockets that hold     *)
(* three.  New blocks: three transactions, of which all do not fit in.       *)
(* Payments: up to four coins and two payees.                                *)
EXTENDS CoinsCache, Mempool, AddrMan, KeyPool, SequencesExt

CONSTANTS t1, t2, c1, c2, b1, b2, b3

MCTxids == {t1, t2}
MCCoins == {c1, c2}
MCBlocks == {b1, b2, b3}

MCUtxoAfter ==
    [b \in MCBlocks \cup {NullHash} |->
        [x \in MCTxids |->
            CASE b = b1 -> c1
              [] b = b2 -> IF x = t1 THEN Pruned ELSE c2
              [] b = b3 -> Pruned
              [] OTHER -> Pruned]]

CONSTANTS Mine, MaxRestarts,
          CENT, Denominations, WalletCoins, MaxWalletCoins, MaxTarget,
          MaxHeight, MaxTxs, MaxDigits,
          MaxReorg, StartDepth, RpcDepth, NoTx,
          Window, Confirmations,
          ModifierInterval, Rounds, Ratio, StakeMinAge, MaxGap, MaxCommon,
          Width, TargetLimit, TargetSpacing,
          Limit, MaxKnown, FirstTip, MaxTip, Recent,
          FilterSize, MinSamples, MaxOffset, MaxSamples,
          Ends, Requests, HeaderSize, DataSize, Capacity, SendLimit, RecvLimit,
          Pools, StartSize, Scale, MaxCost, MinSize, PrioritySize, StartSigOps, MaxSigOps, MinRate, FreePriority,
          FileBlocks, FileParent, FirstBlock,
          PayRequests, KB, TxBytes, InBytes, OutBytes, RelayRate, TxRate, MaxTxFee, Dust

MCApplyBlocks == {"b1", "b2", "b3", "b4", "b5", "b4x", "b3p", "b4p", "b3r", "bz", "bm"}

MCApplyParent ==
    [b \in MCApplyBlocks |->
        CASE b = "b1" -> "g"
          [] b \in {"b2", "bz"} -> "b1"
          [] b \in {"b3", "b3p", "b3r", "bm"} -> "b2"
          [] b \in {"b4", "b4x"} -> "b3"
          [] b = "b5" -> "b4"
          [] b = "b4p" -> "b3p"]

ApplyTx(id, kind, ins, outs) ==
    [id |-> id, kind |-> kind, ins |-> ins, outs |-> outs, serials |-> {}, mints |-> {}]

Output(x, n) == [tx |-> x, n |-> n]

MCApplyTxs ==
    [b1  |-> <<ApplyTx("t1", "base", <<>>, {0})>>,
     b2  |-> <<ApplyTx("t2", "base", <<>>, {0})>>,
     b3  |-> <<ApplyTx("c3", "base", <<>>, {}), ApplyTx("s", "stake", <<Output("t1", 0)>>, {0, 1})>>,
     b4  |-> <<ApplyTx("c4", "base", <<>>, {})>>,
     b5  |-> <<ApplyTx("c5", "base", <<>>, {}), ApplyTx("p", "plain", <<Output("s", 0), Output("s", 1)>>, {0})>>,
     b4x |-> <<ApplyTx("c4x", "base", <<>>, {}), ApplyTx("px", "plain", <<Output("s", 0)>>, {0})>>,
     b3p |-> <<ApplyTx("c3p", "base", <<>>, {0}), ApplyTx("p1", "plain", <<Output("t1", 0)>>, {0, 1})>>,
     b4p |-> <<ApplyTx("c4p", "base", <<>>, {}),
               ApplyTx("p2", "plain", <<Output("p1", 0)>>, {0}),
               ApplyTx("p3", "plain", <<Output("p1", 1), Output("p2", 0), Output("t2", 0)>>, {0})>>,
     b3r |-> <<ApplyTx("c3r", "base", <<>>, {}), ApplyTx("p5", "plain", <<Output("t2", 0)>>, {0})>>,
     bz  |-> <<ApplyTx("cz", "base", <<>>, {}), [ApplyTx("z", "zspend", <<>>, {0}) EXCEPT !.serials = {"q"}]>>,
     bm  |-> <<ApplyTx("cm", "base", <<>>, {}), [ApplyTx("pm", "plain", <<Output("t1", 0)>>, {0}) EXCEPT !.mints = {"m"}]>>]

MCHashOrder == <<"B", "A", "C", "N", "D", "E">>
MCPoolTxs == ToSet(MCHashOrder)
MCInputsOf ==
    [A |-> {<<"g", 0>>}, B |-> {<<"A", 0>>}, C |-> {<<"g", 0>>}, N |-> {<<"g", 1>>},
     D |-> {<<"N", 0>>, <<"x", 0>>, <<"B", 0>>}, E |-> {<<"N", 1>>}]
MCOutputsOf == [A |-> 1, B |-> 1, C |-> 1, N |-> 2, D |-> 1, E |-> 1, g |-> 2, x |-> 1, y |-> 1]

MCWalletOrder == <<"B", "A", "C", "D">>
MCWalletInputsOf ==
    [t \in {"A", "B", "C", "D"} |-> MCInputsOf[t] \ {<<"N", 0>>}]
MCWalletOutputsOf == [t \in {"A", "B", "C", "D", "g", "x", "y"} |-> MCOutputsOf[t]]
MCMine == {<<"g", 0>>, <<"A", 0>>, <<"B", 0>>}

MCNewBucketOf == [a |-> [s |-> 1, t |-> 2], b |-> [s |-> 1, t |-> 2], c |-> [s |-> 1, t |-> 1], d |-> [s |-> 2, t |-> 2]]
MCPositionOf == [a |-> <<1, 1>>, b |-> <<1, 1>>, c |-> <<1, 2>>, d |-> <<2, 1>>]
MCWalletCoins ==
    {[value |-> v, depth |-> 6, fromMe |-> FALSE] : v \in {1, 2, 3, 5, 8}}
        \cup {[value |-> 4, depth |-> 1, fromMe |-> FALSE], [value |-> 2, depth |-> 0, fromMe |-> TRUE],
              [value |-> 3, depth |-> 0, fromMe |-> FALSE]}

MCTriedSlotOf == [a |-> 1, b |-> 1, c |-> 1, d |-> 2]

MCRequests == [a |-> 2, b |-> 1]
MCDataSize == [request |-> 0, reply |-> 2]

PoolTx(deps, size, rate, priority, serials, use) ==
    [deps |-> deps, size |-> size, rate |-> rate, priority |-> priority, sigops |-> size, serials |-> serials, use |-> use]
MCPools ==
    {[t \in 1 .. 3 |-> PoolTx(deps[t], size[t], rate[t], priority[t], <<>>, use[t])] :
        deps \in {<<{}, {}, {}>>, <<{}, {1}, {}>>, <<{}, {1}, {2}>>, <<{2}, {3}, {}>>, <<{}, {}, {1, 2}>>, <<{}, {1}, {1}>>},
        size \in [1 .. 3 -> {1, 2}], rate, priority \in [1 .. 3 -> {0, 2}],
        use \in {<<"yes", "yes", "yes">>, <<"never", "yes", "yes">>, <<"yes", "witness", "yes">>, <<"yes", "yes", "invalid">>}}
    \cup
    {[t \in 1 .. 3 |-> PoolTx({}, 1, rate[t], priority[t], serials[t], use[t])] :
        rate, priority \in [1 .. 3 -> {0, 2}],
        serials \in {<< <<1>>, <<>>, <<1>> >>, << <<1, 1>>, <<1>>, <<>> >>, << <<1, 2>>, <<2>>, <<>> >>},
        use \in {<<"yes", "yes", "yes">>, <<"invalid", "yes", "yes">>}}

MCPayRequests ==
    {r \in [send : {<<1>>, <<4>>, <<2, 5>>}, coins : {<<9>>, <<3, 5>>, <<2, 4, 9>>, <<3, 3, 3, 3>>},
            feePay : {0, 3}, payTxFee : {0, 3}, estimate : {0, 5}, atLeast : BOOLEAN, sendFree : BOOLEAN,
            denominated : BOOLEAN, control : {"none", "plain", "split"}, nSplit : {1, 3},
            change : {"new", "payee", "other"}] :
        /\ r.control # "split" => r.nSplit = 1
        /\ r.control = "none" => r.change = "new"
        /\ r.payTxFee = 0 => r.atLeast}

MCFileParent == <<0, 1, 1, 2, 4>>

VARIABLES walletPool, walletBlocks, walletOrphans, walletCause, mapWallet, disk, bestBlock, untold, course, startups,
          up, chain, coins, undo, stakeSpent, spendDB, mintDB, saved,
          zank, znode, zhist,
          have, peerTip, conn, toPeer, toNode, synced,
          out, wire, recv, fd, pushed, handled,
          template,
          payment,
          input,
          part

applyVars == <<up, chain, coins, undo, stakeSpent, spendDB, mintDB, saved>>
txVars == <<walletPool, walletBlocks, walletOrphans, walletCause, mapWallet, disk, bestBlock, untold, course, startups>>
zankVars == <<zank, znode, zhist>>
syncVars == <<have, peerTip, conn, toPeer, toNode, synced>>
streamVars == <<out, wire, recv, fd, pushed, handled>>

Apply == INSTANCE BlockApply WITH Blocks <- MCApplyBlocks, Parent <- MCApplyParent, BlockTxs <- MCApplyTxs
Wallet == INSTANCE WalletTxs WITH
    Txs <- ToSet(MCWalletOrder), HashOrder <- MCWalletOrder, InputsOf <- MCWalletInputsOf, OutputsOf <- MCWalletOutputsOf,
    Unacceptable <- {"C"}, Rewards <- <<"x", "y">>, MaxBlockTxs <- 1,
    mempool <- walletPool, blocks <- walletBlocks, orphanTxs <- walletOrphans, cause <- walletCause
Mints == INSTANCE ZerocoinMints WITH MaxCount <- 2, MaxSent <- 2, MaxBlocks <- 2, MaxRestarts <- 0
Spends == INSTANCE ZerocoinMints WITH MaxCount <- 1, MaxSent <- 3, MaxBlocks <- 2, MaxRestarts <- 1
Sync == INSTANCE BlockSync WITH Peers <- Senders, tip <- peerTip
Stream == INSTANCE Transport
Template == INSTANCE BlockTemplate
Pay == INSTANCE Payment
Index == INSTANCE BlockIndex
Merkle == INSTANCE MerkleBlock
Code == INSTANCE Compressor
Select == INSTANCE CoinSelection
Stake == INSTANCE StakeKernel
Time == INSTANCE TimeOffset
Sign == INSTANCE Signatures
Import == INSTANCE BlockImport

ASSUME StoresAssumption ==
    /\ Apply!BlockApplyAssumption /\ Wallet!WalletTxsAssumption
    /\ Mints!ZerocoinMintsAssumption /\ Spends!ZerocoinMintsAssumption
    /\ Stake!StakeKernelAssumption /\ Sync!BlockSyncAssumption /\ Time!TimeOffsetAssumption
    /\ Stream!TransportAssumption /\ Template!BlockTemplateAssumption /\ Import!BlockImportAssumption
    /\ Pay!PaymentAssumption

MCVars == <<vars, applyVars, poolVars, txVars, am, keyVars, zankVars, syncVars, streamVars, template, payment, input, part>>

MCInit ==
    /\ Init
    /\ Apply!Init
    /\ PoolInit
    /\ Wallet!WInit
    /\ AddrInit
    /\ KeyInit
    /\ Mints!Init
    /\ Sync!Init
    /\ Stream!Init
    /\ Template!Init
    /\ Pay!Init
    /\ input = <<>>
    /\ part \in {"coins", "blocks", "pool", "wallet", "addresses", "keys", "mints", "spends", "peers", "stream", "template", "payment", "input"}
    /\ part = "mints" => zank.crypted
    /\ part \notin {"mints", "spends"} => ~zank.crypted
    /\ part # "peers" => have = 0

(* Which part runs, and that the others do not. *)
CoinsOnly == part = "coins" /\ UNCHANGED <<applyVars, poolVars, txVars, am, keyVars, zankVars, syncVars, streamVars, template, payment, input, part>>
BlocksOnly == part = "blocks" /\ UNCHANGED <<vars, poolVars, txVars, am, keyVars, zankVars, syncVars, streamVars, template, payment, input, part>>
PoolOnly == part = "pool" /\ UNCHANGED <<vars, applyVars, txVars, am, keyVars, zankVars, syncVars, streamVars, template, payment, input, part>>
WalletOnly == part = "wallet" /\ UNCHANGED <<vars, applyVars, poolVars, am, keyVars, zankVars, syncVars, streamVars, template, payment, input, part>>
AddressesOnly == part = "addresses" /\ UNCHANGED <<vars, applyVars, poolVars, txVars, keyVars, zankVars, syncVars, streamVars, template, payment, input, part>>
KeysOnly == part = "keys" /\ UNCHANGED <<vars, applyVars, poolVars, txVars, am, zankVars, syncVars, streamVars, template, payment, input, part>>
ZerocoinsOnly(p) == part = p /\ UNCHANGED <<vars, applyVars, poolVars, txVars, am, keyVars, syncVars, streamVars, template, payment, input, part>>
PeersOnly == part = "peers" /\ UNCHANGED <<vars, applyVars, poolVars, txVars, am, keyVars, zankVars, streamVars, template, payment, input, part>>
StreamOnly == part = "stream" /\ UNCHANGED <<vars, applyVars, poolVars, txVars, am, keyVars, zankVars, syncVars, template, payment, input, part>>
TemplateOnly == part = "template" /\ UNCHANGED <<vars, applyVars, poolVars, txVars, am, keyVars, zankVars, syncVars, streamVars, payment, input, part>>
PaymentOnly == part = "payment" /\ UNCHANGED <<vars, applyVars, poolVars, txVars, am, keyVars, zankVars, syncVars, streamVars, template, input, part>>
InputOnly == part = "input" /\ input = <<>> /\ UNCHANGED <<vars, applyVars, poolVars, txVars, am, keyVars, zankVars, syncVars, streamVars, template, payment, part>>

(* The inputs: two heights of a chain; a chain, the fork and another chain;  *)
(* a chain, the fork, the height of the peer and whether the peer knows the  *)
(* blocks; a block and what matches; a block and what it is continued with;  *)
(* amounts with up to MaxDigits digits and zeros, and codes; integers and    *)
(* encodings; the coins of the wallet and a target; the times of a chain and *)
(* of two branches of it; blocks with times and hashes; a target and         *)
(* spacings, the targets and spacings of the last blocks, and numbers next   *)
(* to powers of two; how far the clocks of peers are ahead, the second       *)
(* perhaps one that is heard again; a transaction, an input of it and a hash *)
(* type; signatures and keys; the order of the blocks in files and which of  *)
(* them are bad.                                                             *)
TakeHeights == \E top \in 0 .. MaxHeight : \E h \in 0 .. top : input' = <<"ancestor", top, h>>
TakeChains ==
    \E top \in 0 .. 5, from \in 0 .. 5 : \E fork \in 0 .. Min({top, from}) : input' = <<"chain", top, fork, from>>
TakeLocator ==
    \E top \in 0 .. MaxHeight, known \in BOOLEAN : \E fork \in 0 .. top : \E own \in {fork, fork + 1} :
        input' = <<"locator", top, fork, own, known>>
TakeMatches == \E n \in 1 .. MaxTxs : \E matching \in SUBSET (1 .. n) : input' = <<"proof", n, matching>>
TakeList == \E n \in 1 .. MaxTxs : \E tail \in BoundedSeq(1 .. n, 3) : input' = <<"list", n, tail>>
TakeAmount == \E m \in 0 .. 10^MaxDigits, e \in 0 .. 6 : input' = <<"amount", m * 10^e>>
TakeCode == \E x \in 0 .. 10^MaxDigits : (x > 29 => (x - 1) % 10 < 6) /\ input' = <<"code", x>>
TakeBytes ==
    \E start \in BoundedSeq({128, 129, 254, 255}, 3), last \in {0, 1, 126, 127} :
        input' = <<"bytes", Append(start, last)>>
TakeCoins ==
    \E vCoins \in BoundedSeq(WalletCoins, MaxWalletCoins), target \in 1 .. MaxTarget, zeroConf \in BOOLEAN :
        /\ \A i, j \in DOMAIN vCoins :
              i < j /\ vCoins[i].value \in Denominations => vCoins[j].value \in Denominations
        /\ input' = <<"coins", vCoins, target, zeroConf>>

TakeStake ==
    \E n \in 1 .. MaxCommon : \E common \in [1 .. n -> 1 .. MaxGap], step \in 1 .. MaxGap :
        \E other \in {<<1>>, <<2>>, <<1, 1>>} : input' = <<"stake", common, <<step>>, other>>
TakeCandidates ==
    \E n \in 1 .. 3, v2 \in BOOLEAN :
        \E vSorted \in [1 .. n -> [time : {0, 1, 3}, hash : {1, 2}, stake : BOOLEAN]] :
            /\ \A i \in 1 .. n - 1 : vSorted[i].time <= vSorted[i + 1].time
            /\ input' = <<"candidates", vSorted, v2>>
TakeSpacings ==
    \E target \in {1, 7, TargetLimit \div 3, TargetLimit}, spacing, later \in -2 .. 4 * TargetSpacing :
        input' = <<"spacings", target, spacing, later>>
TakePast ==
    \E n \in 1 .. 3 : \E targets \in [1 .. n -> {1, 9, TargetLimit}], spacings \in [1 .. n -> {-2, 0, 3, 40}] :
        input' = <<"past", targets, spacings>>
TakeNumbers ==
    \E k, l \in 8 .. 30, d, e \in -1 .. 1 : input' = <<"numbers", 2^k + d, 2^l + e>>
TakeSamples ==
    \E n \in 0 .. MaxSamples : \E ahead \in [1 .. n -> {-1, 1, MaxOffset - 1, MaxOffset}], again \in BOOLEAN :
        input' = <<"samples", [i \in 1 .. n |-> <<IF again /\ i = 2 THEN 1 ELSE i, ahead[i]>>]>>
SignedTxs ==
    [vin : {<<a>> : a \in [prevout : {1}, sequence : {0, 1}]}
              \cup {<<a, b>> : a \in [prevout : {1}, sequence : {0, 1}], b \in [prevout : {2, 3}, sequence : {0, 1}]},
     vout : BoundedSeq({1, 2}, 2), rest : {0, 1}]
TakeSigned ==
    \E tx \in SignedTxs, type \in Sign!HashTypes : \E nIn \in DOMAIN tx.vin : input' = <<"signed", tx, nIn, type>>
TakeSignatures ==
    \E pubkeys \in BoundedSeq(1 .. 3, 4), sigs \in BoundedSeq(0 .. 3, 3) :
        Len(sigs) <= Len(pubkeys) /\ input' = <<"signatures", sigs, pubkeys>>
TakeFiles ==
    \E order \in SetToSeqs(FileBlocks), bad \in SUBSET FileBlocks : input' = <<"files", order, bad>>

TakeInput ==
    \/ TakeHeights
    \/ TakeChains
    \/ TakeLocator
    \/ TakeMatches
    \/ TakeList
    \/ TakeAmount
    \/ TakeCode
    \/ TakeBytes
    \/ TakeCoins
    \/ TakeStake
    \/ TakeCandidates
    \/ TakeSpacings
    \/ TakePast
    \/ TakeNumbers
    \/ TakeSamples
    \/ TakeSigned
    \/ TakeSignatures
    \/ TakeFiles

MCNext ==
    \/ CoinsOnly /\ Next
    \/ BlocksOnly /\ Apply!Next
    \/ PoolOnly /\ PoolNext
    \/ WalletOnly /\ Wallet!WNext
    \/ AddressesOnly /\ AddrNext
    \/ KeysOnly /\ KeyNext
    \/ ZerocoinsOnly("mints") /\ Mints!Next
    \/ ZerocoinsOnly("spends") /\ Spends!Next
    \/ PeersOnly /\ Sync!Next
    \/ StreamOnly /\ Stream!Next
    \/ TemplateOnly /\ Template!Next
    \/ PaymentOnly /\ Pay!Next
    \/ InputOnly /\ TakeInput

MCSpec == MCInit /\ [][MCNext]_MCVars

(* Applied blocks alone. *)
BlocksSpec == MCInit /\ part = "blocks" /\ [][BlocksOnly /\ Apply!Next]_MCVars

-----------------------------------------------------------------------------
(* The properties of the instances; those of CoinsCache are its own. *)

(* Over any sequence of blocks connected and taken back, checks, shutdowns   *)
(* and restarts, the unspent outputs are those of the chain they belong to,  *)
(* mapStakeSpent holds only inputs that the active chain spends, and a block *)
(* without mints that was connected once can be connected again.             *)
StoresMatchChain ==
    part = "blocks" => Apply!TypeOK /\ Apply!CoinsMatchChain /\ Apply!StakeSpentSound /\ Apply!BlocksStayValid

(* CheckInputs, "If prev is coinbase, check that it's matured": no block of  *)
(* the active chain spends a coinbase or coinstake output before its time.   *)
SpendsAreMature == Apply!SpendsAreMature

(* The wallet has the transactions of the chain that concern it, in the      *)
(* blocks they are in, also after a start-up from whatever was on disk; and  *)
(* no cached credit of it is out of date, unless a transaction left the pool *)
(* with a disconnected block.                                                *)
WalletIsCurrent == part = "wallet" => Wallet!WalletFollowsChain /\ Wallet!CreditIsCurrent

(* No count of the seed serves for two zerocoin mints; a mint that is on the *)
(* chain can be found again and is listed with its height and whether it is  *)
(* spent; and it is not spent twice, unless the first spend was forgotten.   *)
MintsAreSafe ==
    /\ part = "mints" => Mints!TypeOK /\ Mints!CountsUsedOnce /\ Mints!NothingIsLost
    /\ part = "spends" => Spends!TypeOK /\ Spends!NotSpentTwice /\ Spends!NothingIsLost

(* The node does not fall behind its peer without a cause: when nothing more *)
(* is on its way, the first block that it misses is one that it dropped      *)
(* because it came too early, never one that the limit of an answer left     *)
(* out; a first sync without new blocks comes within two blocks of the tip;  *)
(* a node that has all blocks follows new ones.                              *)
BlocksFollowPeers ==
    part = "peers" => Sync!TypeOK /\ Sync!GapsWereDropped /\ Sync!FirstSyncIsNear /\ Sync!SyncedStaysSynced

(* The messages between two nodes arrive as they were sent, however the      *)
(* stream is cut, what is queued is counted as the asserts of SocketSendData *)
(* say, and an exchange stops early only if both nodes wait for the other to *)
(* read.                                                                     *)
StreamsAreWhole ==
    part = "stream" => Stream!TypeOK /\ Stream!StreamIsWhole /\ Stream!SendQueueIsCounted /\ Stream!StallIsMutual

(* A new block of CreateNewBlock has nothing twice, nothing before what it   *)
(* spends and nothing beyond the limits; nothing of the pool is left out     *)
(* without a cause; beyond the part for high priorities fees decide.         *)
NewBlockIsSound ==
    part = "template" => Template!TemplateIsSound /\ Template!LeftOutForACause /\ Template!FeesDecideInTheEnd

Is(kind) == input # <<>> /\ input[1] = kind

(* A payment of the wallet takes coins that are enough, and some if there    *)
(* are some, with no change below a cent and no more than the next larger    *)
(* coin is worth (SelectCoins); nothing gets lost in it however often it was *)
(* tried, its fee is relayed and no more than the user allows, and a key is  *)
(* taken exactly for change (CreateTransaction).                             *)
PaymentsAreSound ==
    /\ Is("coins") => Select!SelectionPays(input[2], input[3], input[4])
    /\ part = "payment" => Pay!PaymentBalances /\ Pay!FeeIsEnoughAndBounded /\ Pay!KeyIsForChange

(* Walks along chains end where they should: by skip pointers at the block   *)
(* asked for, by the vector of the active chain from whatever tip it comes,  *)
(* by a locator at the fork or a block not far below it.                     *)
WalksFindTheirBlock ==
    /\ Is("ancestor") => Index!AncestorIsRight(input[2], input[3])
    /\ Is("chain") => Index!ChainIsSet(input[2], input[3], input[4])
    /\ Is("locator") => Index!LocatorFindsFork(input[2], input[3], input[4], input[5])

(* What is encoded is read back, and nothing else is read: a partial merkle  *)
(* tree gives the root and what matched, a list of transactions with the     *)
(* root of a shorter one is found out, amounts and integers of the coins     *)
(* database have one encoding each, and a compact target is as near as it    *)
(* can be.                                                                   *)
EncodingsAreReadBack ==
    /\ Is("proof") => Merkle!ProofIsReadBack(input[2], input[3])
    /\ Is("list") => Merkle!SameRootIsMutated(input[2], input[3])
    /\ Is("amount") => Code!AmountIsReadBack(input[2]) /\ Code!VarIntIsReadBack(input[2])
    /\ Is("code") => Code!CodeIsUnique(input[2])
    /\ Is("bytes") => Code!VarIntIsUnique(input[2])
    /\ Is("numbers") => Stake!CompactIsReadBack(input[2], input[3])

(* Nodes agree on stakes: one is judged by the same modifier on two branches *)
(* that parted not too long ago, the blocks that give a modifier its bits    *)
(* are the best of their sections, stakes before works, and the next target  *)
(* follows the times of the last blocks within its bounds.                   *)
StakesAreJudgedAlike ==
    /\ Is("stake") =>
          Stake!StakeVerdictIsShared(Stake!Continued([h \in {0} |-> 0], input[2]), input[3], input[4], MaxGap)
    /\ Is("candidates") => Stake!SelectionIsBest(input[2], 0, input[3])
    /\ Is("spacings") => Stake!StakeTargetFollows(input[2], input[3], input[4])
    /\ Is("past") => Stake!WorkTargetIsBounded(input[2], input[3])

(* A few wrong clocks do not move the time, in whatever order they are heard *)
(* of, and no number of them moves it far.                                   *)
MinorityDoesNotMoveTime == Is("samples") => Time!MinorityDoesNotMoveTime(input[2], 1)

(* A signature is good for exactly the transactions that agree in what its   *)
(* hash type covers, and signatures of some of the keys of a multisignature  *)
(* output, in their order, are enough.                                       *)
SignaturesCoverTheirPart ==
    /\ Is("signed") => \A other \in SignedTxs : Sign!SignatureFixesPart(input[2], other, input[3], input[4])
    /\ Is("signatures") => Sign!MultisigTakesSubsequences(input[2], input[3])

(* A reindex finds every good block, in whatever order the files have them.  *)
ReindexFindsAll == Is("files") => Import!ReindexFindsAll(input[2], input[3])
==============================================================================
