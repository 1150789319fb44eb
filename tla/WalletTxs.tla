------------------------------ MODULE WalletTxs ------------------------------
(***************************************************************************)
(* The transactions of the wallet (CWallet in wallet.cpp) beside the       *)
(* memory pool and the chain that it follows: what SyncTransaction tells   *)
(* it of, the credit that each transaction caches, which block it was      *)
(* found in, and what a restart makes of it when the chain state on disk   *)
(* is behind or the wallet was not told any more.                          *)
(*                                                                         *)
(* The pool and the chain are those of Mempool; a message that accepts     *)
(* several transactions is several Accept steps here.  A block hash is the *)
(* chain that the block ends.  Everything runs under cs_main and cs_wallet.*)
(* Rewards of the wallet's own, SwiftTX confirmations, locked and          *)
(* watch-only coins and accounts are left out.                             *)
(***************************************************************************)
EXTENDS Mempool

CONSTANTS
    Mine,           \* the outputs that pay the wallet
    Rewards,        \* the coinbase of a block, by its height
    MaxRestarts

WalletTxsAssumption ==
    /\ InputsOf \in [Txs -> SUBSET ((DOMAIN OutputsOf) \X Nat)]
    /\ Mine \subseteq UNION {Made(t) : t \in Txs \cup {Genesis}}
    /\ Rewards \in Seq(Coinbases) /\ Len(Rewards) >= MaxBlocks
    /\ MaxRestarts \in Nat

VARIABLES
    mapWallet,      \* transaction -> hashBlock and the cached available credit
    disk,           \* the chain that the coins database on disk stands for
    bestBlock,      \* the locator in the wallet file
    untold,         \* transactions that left the pool and the wallet was not told
    course,         \* history: the wallet has followed the chain of the locator to
                    \* its end ("kept"), has left it since ("left"), or a start-up
                    \* took the locator of a chain it had left for its own ("lost")
    startups

txVars == <<mempool, blocks, orphanTxs, cause, mapWallet, disk, bestBlock, untold, course, startups>>

NoBlock == <<>>
Own(t) == Made(t) \cap Mine
Fresh(hash) == [hashBlock |-> hash, cached |-> FALSE, credit |-> {}]
Dirty(entry) == [entry EXCEPT !.cached = FALSE, !.credit = {}]

(* What spends the wallet's coins: an entry of mapTxSpends for every         *)
(* transaction of mapWallet.                                                 *)
Spends(t) == IF t = Genesis THEN {} ELSE InputsOf[t]

(* GetDepthInMainChain for pool p and chain c. *)
Depth(w, t, p, c) ==
    IF t = Genesis THEN Len(c) + 1
    ELSE IF w[t].hashBlock # NoBlock /\ IsPrefix(w[t].hashBlock, c) THEN Len(c) - Len(w[t].hashBlock) + 1
    ELSE IF t \in p.tx THEN 0 ELSE -1

(* IsSpent *)
IsSpent(w, o, p, c) == \E t \in DOMAIN w : o \in Spends(t) /\ Depth(w, t, p, c) >= 0

Unspent(w, t, p, c) == {o \in Own(t) : ~IsSpent(w, o, p, c)}

IsFromMe(w, t) == \E o \in Spends(t) \cap Mine : o[1] \in DOMAIN w

(* IsTrusted *)
IsTrusted(w, t, p, c) ==
    \/ Depth(w, t, p, c) >= 1
    \/ /\ Depth(w, t, p, c) = 0
       /\ IsFromMe(w, t)
       /\ \A o \in Spends(t) : o[1] \in DOMAIN w /\ o \in Mine

-----------------------------------------------------------------------------
(* Mutant: a block that is known already is not replaced. *)
AddToWalletKeeps(w, t, hash) ==
    [x \in DOMAIN w \cup {t} |->
        IF x # t THEN w[x]
        ELSE IF t \in DOMAIN w THEN Dirty([w[t] EXCEPT !.hashBlock = IF @ = NoBlock THEN hash ELSE @])
        ELSE Fresh(hash)]

(* AddToWallet: a new entry, or the block merged into the one that is there. *)
AddToWallet(w, t, hash) ==
    [x \in DOMAIN w \cup {t} |->
        IF x # t THEN w[x]
        ELSE IF t \in DOMAIN w THEN Dirty([w[t] EXCEPT !.hashBlock = IF hash # NoBlock THEN hash ELSE @])
        ELSE Fresh(hash)]

AddToWalletIfInvolvingMe(w, t, hash) ==
    IF t \in DOMAIN w \/ Own(t) # {} \/ IsFromMe(w, t) THEN AddToWallet(w, t, hash) ELSE w

SyncTransaction(w, t, hash) ==
    LET added == AddToWalletIfInvolvingMe(w, t, hash)
    IN  IF t \notin DOMAIN added THEN added
        ELSE [x \in DOMAIN added |-> IF \E o \in Spends(t) : o[1] = x THEN Dirty(added[x]) ELSE added[x]]

SyncAll(w, txs, hash) == FoldLeft(LAMBDA v, t : SyncTransaction(v, t, hash), w, txs)

(* The transactions of a set, in the order of their hashes. *)
SyncSet(w, s) == FoldLeft(LAMBDA v, t : IF t \in s THEN SyncTransaction(v, t, NoBlock) ELSE v, w, HashOrder)

-----------------------------------------------------------------------------
WInit ==
    /\ PoolInit
    /\ mapWallet = [t \in {Genesis} |-> Fresh(NoBlock)]
    /\ disk = <<>> /\ bestBlock = <<>> /\ untold = {} /\ course = "kept" /\ startups = 0

(* GetBalance: the credit of what is trusted is computed once and cached. *)
GetBalance ==
    /\ mapWallet' = [t \in DOMAIN mapWallet |->
                        IF IsTrusted(mapWallet, t, mempool, blocks) /\ ~mapWallet[t].cached
                        THEN [mapWallet[t] EXCEPT !.cached = TRUE, !.credit = Unspent(mapWallet, t, mempool, blocks)]
                        ELSE mapWallet[t]]
    /\ UNCHANGED <<mempool, blocks, orphanTxs, cause, disk, bestBlock, untold, course, startups>>

(* AcceptToMemoryPool, with SyncWithWallets at its end. *)
Accept(t) ==
    /\ SubmitTx(t)
    /\ mapWallet' = SyncTransaction(mapWallet, t, NoBlock)
    /\ untold' = untold \ {t}
    /\ UNCHANGED <<disk, bestBlock, course, startups>>

(* CommitTransaction of one that spends available coins of the wallet; it    *)
(* is recorded also if the pool turns it down.                               *)
CommitTransaction(t) ==
    /\ \A o \in InputsOf[t] :
          /\ o \in Mine /\ o[1] \in DOMAIN mapWallet
          /\ IsTrusted(mapWallet, o[1], mempool, blocks) /\ ~IsSpent(mapWallet, o, mempool, blocks)
    /\ LET recorded == SyncTransaction(mapWallet, t, NoBlock)
           ok == Judge(mempool, t, blocks) = "ok"
       IN  /\ mempool' = IF ok THEN addUnchecked(mempool, t) ELSE mempool
           /\ mapWallet' = IF ok THEN SyncTransaction(recorded, t, NoBlock) ELSE recorded
    /\ cause' = "local"
    /\ untold' = untold \ {t}
    /\ UNCHANGED <<blocks, orphanTxs, disk, bestBlock, course, startups>>

(* txConflicted: what removeForBlock takes out beside the block itself. *)
ToldOnConnect(txs) == mempool.tx \ (removeForBlock(mempool, txs).tx \cup ToSet(txs))

(* The history when chain c comes next and the locator is that of b. *)
Course(c, b) ==
    IF course = "lost" THEN "lost" ELSE IF IsPrefix(b, c) THEN "kept" ELSE IF IsPrefix(c, b) THEN course ELSE "left"

(* ConnectTip; the coins may be written, with the locator of the chain       *)
(* before (the block begins a file) or without (the cache is too large).     *)
WConnectTip(txs, flush) ==
    /\ Len(blocks) < MaxBlocks
    /\ ConnectTip(Rewards[Len(blocks) + 1], txs)
    /\ mapWallet' = SyncAll(SyncSet(mapWallet, ToldOnConnect(txs)), txs, blocks')
    /\ disk' = IF flush = "none" THEN disk ELSE blocks'
    /\ bestBlock' = IF flush = "always" THEN blocks ELSE bestBlock
    /\ untold' = untold \ (ToldOnConnect(txs) \cup ToSet(txs))
    /\ course' = Course(blocks', bestBlock')
    /\ UNCHANGED startups

(* DisconnectTip: the wallet is told of the block's transactions only, not   *)
(* of those that leave the pool with them.                                   *)
WDisconnectTip ==
    /\ DisconnectTip
    /\ LET told == Last(blocks).txs
       IN  /\ mapWallet' = SyncAll(mapWallet, told, NoBlock)
           /\ untold' = (untold \cup (mempool.tx \ mempool'.tx)) \ (ToSet(told) \cup mempool'.tx)
    /\ disk' = blocks' /\ bestBlock' = blocks
    /\ course' = IF course = "lost" THEN course ELSE "kept"
    /\ UNCHANGED startups

(* FlushStateToDisk(FLUSH_STATE_PERIODIC) with SetBestChain *)
FlushPeriodic ==
    /\ disk' = blocks /\ bestBlock' = blocks
    /\ course' = Course(blocks, blocks)
    /\ UNCHANGED <<mempool, blocks, orphanTxs, cause, mapWallet, untold, startups>>

-----------------------------------------------------------------------------
(* FindForkInGlobalIndex: the last common block of the locator and chain c. *)
Fork(c, locator) == Len(LongestCommonPrefix({c, locator}))

(* ScanForWalletTransactions from the fork on. *)
Rescan(w, c, locator) ==
    LET fork == Fork(c, locator)
    IN  FoldLeft(LAMBDA v, h : FoldLeft(LAMBDA u, t : AddToWalletIfInvolvingMe(u, t, SubSeq(c, 1, h)), v, c[h].txs),
                 w, [i \in 1 .. Len(c) - fork |-> fork + i])

(* ReacceptWalletTransactions: one pass in the order of the hashes. *)
Reaccept(w, c) ==
    FoldLeft(LAMBDA s, t :
                IF t \in DOMAIN s.w /\ Depth(s.w, t, s.p, c) < 0 /\ Judge(s.p, t, c) = "ok"
                THEN [p |-> addUnchecked(s.p, t), w |-> SyncTransaction(s.w, t, NoBlock)] ELSE s,
             [p |-> [tx |-> {}, next |-> [o \in {} |-> Genesis]], w |-> w], HashOrder)

(* The node starts with chain c on disk and what the wallet file has; next   *)
(* is the history if nothing is scanned.                                     *)
StartUp(c, locator, next) ==
    /\ startups < MaxRestarts
    /\ startups' = startups + 1
    /\ LET loaded  == [t \in DOMAIN mapWallet |-> Dirty(mapWallet[t])]
           scanned == Rescan(loaded, c, locator)
           s == Reaccept(scanned, c)
       IN  mapWallet' = s.w /\ mempool' = s.p
    /\ blocks' = c /\ disk' = c
    /\ bestBlock' = IF Fork(c, locator) = Len(c) THEN locator ELSE c
    /\ course' = IF course = "lost" THEN course ELSE IF Fork(c, locator) = Len(c) THEN next ELSE "kept"
    /\ orphanTxs' = {} /\ untold' = {} /\ cause' = "local"

(* The process dies: between two operations, in ConnectTip after the coins   *)
(* were written, or in DisconnectTip after that; the wallet is not told.     *)
Crash == StartUp(disk, bestBlock, course)

CrashInConnectTip(txs) ==
    /\ Len(blocks) < MaxBlocks
    /\ LET cb == Rewards[Len(blocks) + 1]
           c  == Append(blocks, [coinbase |-> cb, txs |-> txs])
       IN  /\ ValidIn(blocks, cb, txs)
           /\ StartUp(c, blocks, "kept") \/ StartUp(c, bestBlock, IF course = "left" THEN "lost" ELSE course)

CrashInDisconnectTip ==
    /\ blocks # <<>>
    /\ StartUp(Front(blocks), blocks, "kept")

WNext ==
    \/ GetBalance
    \/ \E t \in Txs : Accept(t) \/ CommitTransaction(t)
    \/ \E txs \in TxLists(MaxBlockTxs), flush \in {"none", "needed", "always"} : WConnectTip(txs, flush)
    \/ \E txs \in TxLists(MaxBlockTxs) : CrashInConnectTip(txs)
    \/ WDisconnectTip
    \/ FlushPeriodic
    \/ Crash
    \/ CrashInDisconnectTip

WSpec == WInit /\ [][WNext]_txVars

-----------------------------------------------------------------------------
(* Properties *)

(* The wallet follows the chain: at any time, and after a start-up from      *)
(* whatever was on disk, it has every transaction of the chain that pays it  *)
(* or spends its coins, and takes exactly those for confirmed, in the block  *)
(* they are in now.  The exception takes two crashes: a start-up that finds  *)
(* the chain at the fork keeps the locator of a branch that the wallet has   *)
(* left, and the second crash is in ConnectTip of a block of that branch,    *)
(* which the next start-up does not scan.                                    *)
WalletFollowsChain ==
    /\ course # "lost" => \A t \in TxsIn(blocks) : (Own(t) \cup (InputsOf[t] \cap Mine)) # {} => t \in DOMAIN mapWallet
    /\ \A t \in DOMAIN mapWallet \ {Genesis} :
          LET depth == Depth(mapWallet, t, mempool, blocks)
          IN  IF t \in TxsIn(blocks)
              THEN course # "lost" => depth > 0 /\ t \in ToSet(blocks[Len(blocks) - depth + 1].txs)
              ELSE depth <= 0

(* "If a transaction changes 'conflicted' state, that changes the balance    *)
(* available of the outputs it spends": no cached credit counts a coin that  *)
(* is spent, and none leaves one out that is not, unless a transaction that  *)
(* spent it left the pool with a disconnected block.                         *)
CreditIsCurrent ==
    \A t \in DOMAIN mapWallet :
        mapWallet[t].cached =>
            LET unspent == Unspent(mapWallet, t, mempool, blocks)
            IN  /\ mapWallet[t].credit \subseteq unspent
                /\ unspent \ mapWallet[t].credit \subseteq UNION {Spends(x) : x \in untold}
==============================================================================
