---------------------------- MODULE ZerocoinMints ----------------------------
(* The zerocoin mints of a wallet (zankwallet.cpp, zanktracker.cpp,          *)
(* wallet.cpp) beside the chain and the memory pool they end up in.          *)
(*                                                                           *)
(* A mint is made from the seed and a count, so it is named by its count,    *)
(* and so is its serial.  The wallet knows a mint three times: the tracker   *)
(* in memory, the "dzank" records of the wallet file, and the archive of     *)
(* mints whose transactions were not found.  Counts that may turn up on the  *)
(* chain without being tracked are in the mint pool.  Which of the tracked   *)
(* mints are used is worked out again at every listing, from the pending     *)
(* spends in memory, the pool and the zerocoin database.                     *)
(*                                                                           *)
(* All mints have one denomination and a transaction carries one mint and    *)
(* one spend at most.  There is an index of transactions (the default), and  *)
(* commands run under the locks that the RPC calls take.                     *)
EXTENDS SequencesExt, FiniteSetsExt, Integers, TLC

CONSTANTS
    Window,             \* counts generated ahead of the last one (20)
    Confirmations,      \* Zerocoin_MintRequiredConfirmations
    MaxCount,           \* bound: counts used
    MaxSent,            \* bound: transactions made
    MaxBlocks,          \* bound: height of the chain
    MaxRestarts         \* bound: starts of the program

ZerocoinMintsAssumption ==
    /\ Window \in Nat \ {0} /\ Confirmations \in Nat
    /\ MaxCount \in Nat /\ MaxSent \in Nat /\ MaxBlocks \in Nat /\ MaxRestarts \in Nat

VARIABLES
    zank,       \* CzANKWallet, CzANKTracker and what they keep in the wallet file
    znode,      \* the chain, the pool, the index of transactions and the zerocoin database
    zhist       \* the transactions made, spends nobody remembers, starts

zankVars == <<zank, znode, zhist>>

None == 0
Tx == [id : 1 .. MaxSent, mint : 0 .. MaxCount, spend : 0 .. MaxCount]

Init ==
    /\ \E crypted \in BOOLEAN :
          zank = [count |-> 0, seed |-> TRUE, mintPool |-> 1 .. Window, tracker |-> <<>>, pending |-> <<>>,
                  crypted |-> crypted, fileCount |-> 0, filePool |-> 1 .. Window,
                  mints |-> <<>>, archive |-> <<>>, spends |-> <<>>]
    /\ znode = [chain |-> <<>>, pool |-> {}, indexed |-> {}, spent |-> {}]
    /\ zhist = [sent |-> {}, forgotten |-> {}, starts |-> 0]

-----------------------------------------------------------------------------
(* The chain, as the wallet asks for it. *)

Put(f, k, v) == (k :> v) @@ f
Without(f, S) == [k \in DOMAIN f \ S |-> f[k]]

Height(n) == Len(n.chain)
TxsOnChain(n) == UNION {n.chain[h] : h \in 1 .. Height(n)}
Carried(c, S) == \E t \in S : t.mint = c
Serials(S) == {t.spend : t \in S} \ {None}

(* ReadCoinMint with GetTransaction: the mint is on the chain, and where. *)
IsMintInChain(n, c) == Carried(c, TxsOnChain(n))
MintHeight(n, c) == CHOOSE h \in 1 .. Height(n) : Carried(c, n.chain[h])

-----------------------------------------------------------------------------
(* The tracker and its records, each operation from wallet to wallet. *)

Record(meta) == [height |-> meta.height, used |-> meta.used]
Meta(record, archived) == [height |-> record.height, used |-> record.used, archived |-> archived]

(* Add of a new mint: the tracker and the file. *)
Add(w, c, record) ==
    [w EXCEPT !.tracker = Put(@, c, Meta(record, FALSE)), !.mints = Put(@, c, record)]

(* A record that is not there is taken out of the archive, if the tracker    *)
(* has it as archived; the tracker goes on saying so.                        *)
UpdateState(w, c, meta) ==
    IF c \in DOMAIN w.mints \/ (meta.archived /\ c \in DOMAIN w.archive)
    THEN [w EXCEPT !.mints = Put(@, c, Record(meta)),
                   !.archive = IF c \in DOMAIN w.mints THEN @ ELSE Without(@, {c}),
                   !.tracker = Put(@, c, meta)]
    ELSE w

Archive(w, c) ==
    [w EXCEPT !.tracker = [@ EXCEPT ![c].archived = TRUE],
              !.archive = IF c \in DOMAIN w.mints THEN Put(@, c, w.mints[c]) ELSE @,
              !.mints = Without(@, {c})]

(* A spend of this mint that the wallet remembers and that is still in the   *)
(* pool; and whether the mint counts as used.                                *)
IsPending(w, n, c) == c \in DOMAIN w.pending /\ w.pending[c] \in n.pool /\ c \notin n.spent
IsUsed(w, n, c) == IsPending(w, n, c) \/ c \in n.spent

(* UpdateStatusInternal looks at the transaction of the mint only if         *)
(* something does not fit, and leaves it alone while it is in the pool.      *)
(* During the first download (ibd) it is not looked up.                      *)
LooksAt(w, n, c) ==
    /\ w.tracker[c].height = 0 \/ ~IsMintInChain(n, c) \/ w.tracker[c].used # IsUsed(w, n, c)
    /\ ~Carried(c, n.pool)
IsLost(w, n, c, ibd) == LooksAt(w, n, c) /\ ~ibd /\ ~Carried(c, n.indexed)
IsOrphaned(w, n, c, ibd) == LooksAt(w, n, c) /\ ~ibd /\ Carried(c, n.indexed) /\ ~IsMintInChain(n, c)
Updated(w, n, c, ibd) ==
    LET meta == w.tracker[c]
    IN  IF IsOrphaned(w, n, c, ibd) THEN [meta EXCEPT !.used = FALSE, !.height = 0]
        ELSE IF LooksAt(w, n, c) THEN [meta EXCEPT !.used = IsUsed(w, n, c)] ELSE meta

Unarchived(w) == {c \in DOMAIN w.tracker : ~w.tracker[c].archived}

(* ListMints with fUpdateStatus: the records into the tracker, pending       *)
(* spends that are not in the pool or are confirmed forgotten, the mints     *)
(* without a transaction archived, the others written if they changed.       *)
ListMints(w, n, ibd) ==
    LET loaded == [w EXCEPT !.tracker = [c \in DOMAIN w.mints |-> Meta(w.mints[c], FALSE)] @@ @]
        listed == Unarchived(loaded)
        pended == [loaded EXCEPT !.pending = Without(@, {c \in listed : ~IsPending(loaded, n, c)})]
        lost == {c \in listed : IsLost(pended, n, c, ibd)}
        kept == FoldSet(LAMBDA c, v : Archive(v, c), pended, lost)
    IN  FoldSet(LAMBDA c, v : UpdateState(v, c, Updated(pended, n, c, ibd)), kept, listed \ lost)

(* SetMintSeen: a count of the mint pool is on the chain.  Without the seed  *)
(* the mint cannot be made again and nothing happens.                        *)
SetMintSeen(w, n, c, h) ==
    IF ~w.seed THEN w
    ELSE LET counted == IF w.count < c THEN [w EXCEPT !.count = c, !.fileCount = c] ELSE w
         IN  [Add(counted, c, [height |-> h, used |-> c \in n.spent]) EXCEPT !.mintPool = @ \ {c}]

(* UpdateMint, for a mint that IsMyMint: tracked, or of the mint pool. *)
UpdateMint(w, n, c, h) ==
    IF c \in DOMAIN w.tracker THEN UpdateState(w, c, [w.tracker[c] EXCEPT !.height = h])
    ELSE IF c \in w.mintPool THEN SetMintSeen(w, n, c, h) ELSE w

GenerateMintPool(w) ==
    LET next == w.count + 1 .. w.count + Window
    IN  IF w.seed THEN [w EXCEPT !.mintPool = @ \cup next, !.filePool = @ \cup next] ELSE w

(* One round of SyncWithChain, and its rounds: they end when nothing is      *)
(* found, and every round finds a count that was not tracked.                *)
SyncRound(w, n, generate) ==
    LET g == IF generate THEN GenerateMintPool(w) ELSE w
        untracked == [g EXCEPT !.mintPool = @ \ DOMAIN g.tracker]
    IN  FoldSet(LAMBDA c, v : SetMintSeen(v, n, c, MintHeight(n, c)), untracked,
                {c \in untracked.mintPool : IsMintInChain(n, c)})

SyncWithChain(w, n, generate) == FoldSet(LAMBDA i, v : SyncRound(v, n, generate), w, 1 .. MaxCount + 1)

-----------------------------------------------------------------------------
(* The commands, from wallet to wallet. *)

(* searchdzank: the counts into the mint pool and the file, then the chain.  *)
(* Between the counts of two threads one is left out.                        *)
Searched(first, range, threads) ==
    LET each == range \div threads
    IN  UNION {first + i * (each + 1) .. first + i * (each + 1) + each - 1 : i \in 0 .. threads - 1}
Search(w, n, counts) ==
    SyncWithChain([w EXCEPT !.mintPool = @ \cup counts, !.filePool = @ \cup counts], n, FALSE)

(* ReconsiderZerocoins: archived mints that are on the chain after all. *)
Reconsider(w, n) ==
    FoldSet(LAMBDA c, v : Add([v EXCEPT !.archive = Without(@, {c})], c,
                              [height |-> MintHeight(n, c), used |-> c \in n.spent]),
            w, {c \in DOMAIN w.archive : IsMintInChain(n, c)})

(* FindMints: what the chain says of the mints it has. *)
FindMints(w, n) ==
    [c \in {d \in Unarchived(w) : IsMintInChain(n, d)} |->
        [height |-> MintHeight(n, c), used |-> c \in n.spent, archived |-> FALSE]]

(* resetmintzerocoin: list, then find; what is not on the chain is archived, *)
(* of the others height and use are set.                                     *)
ResetMint(w, n) ==
    LET listed == ListMints(w, n, FALSE)
        found == FindMints(listed, n)
        updated == FoldSet(LAMBDA c, v : UpdateState(v, c, found[c]), listed, DOMAIN found)
    IN  FoldSet(LAMBDA c, v : Archive(v, c), updated, Unarchived(listed) \ DOMAIN found)

SetPubcoinNotUsed(w, c) ==
    UpdateState([w EXCEPT !.pending = Without(@, {c})], c, [w.tracker[c] EXCEPT !.used = FALSE])

(* Mutant: the spend is not noted as pending. *)
SetUsedNotPending(w, c, t) == UpdateState(w, c, [w.tracker[c] EXCEPT !.used = TRUE])

(* A pending spend of the same serial stays. *)
SetPubcoinUsed(w, c, t) ==
    UpdateState([w EXCEPT !.pending = IF c \in DOMAIN @ THEN @ ELSE Put(@, c, t)],
                c, [w.tracker[c] EXCEPT !.used = TRUE])

(* CreateZANKOutput: the next count is taken and written, whatever becomes   *)
(* of the output.                                                            *)
CreateZANKOutput(w) == [w EXCEPT !.count = @ + 1, !.fileCount = w.count + 1]

-----------------------------------------------------------------------------
(* Actions. *)

NewTx(mint, spend) == [id |-> Cardinality(zhist.sent) + 1, mint |-> mint, spend |-> spend]
Sends(t) == zhist' = [zhist EXCEPT !.sent = @ \cup {t}]

(* MintZerocoin: the output, then the inputs, which may not be there; then   *)
(* the transaction is recorded and offered to the pool.  Only if the pool    *)
(* takes it is the mint tracked.                                             *)
MintZerocoin(outcome) ==
    /\ zank.seed
    /\ zank.count < MaxCount /\ Cardinality(zhist.sent) < MaxSent
    /\ LET w == CreateZANKOutput(zank)
           t == NewTx(w.count, None)
       IN  /\ zank' = IF outcome = "accepted" THEN Add(w, w.count, [height |-> 0, used |-> FALSE]) ELSE w
           /\ znode' = IF outcome = "accepted" THEN [znode EXCEPT !.pool = @ \cup {t}] ELSE znode
           /\ IF outcome = "no inputs" THEN UNCHANGED zhist ELSE Sends(t)

(* GetZerocoinBalance(true), and what ListMints(true, true, true) offers. *)
Balance(w) == {c \in Unarchived(w) : ~w.tracker[c].used /\ w.tracker[c].height \in 1 .. Height(znode) - Confirmations - 1}
Mature(w) == {c \in Unarchived(w) : ~w.tracker[c].used /\ w.tracker[c].height \in 1 .. Height(znode) - Confirmations}

(* CreateZerocoinSpendTransaction up to the inputs: the mints are listed,    *)
(* and the change is minted if asked for.                                    *)
CreateSpend(w, n, change) ==
    LET listed == ListMints(w, n, FALSE) IN IF change THEN CreateZANKOutput(listed) ELSE listed

(* The input can be made: there is a witness for a mint on the chain, and    *)
(* its serial is not known.                                                  *)
MintToTxIn(n, c) == IsMintInChain(n, c) /\ c \notin n.spent

(* SpendZerocoin: one of the listed mints is taken.  If its input cannot be  *)
(* made, the call ends with the count of the change taken.  The spend is     *)
(* written to the file and the transaction offered to the pool: taken, the   *)
(* mint is used and the change tracked; turned down, both are undone, and    *)
(* the transaction stays in the wallet.                                      *)
SpendZerocoin(c, change, accepted) ==
    /\ zank.seed
    /\ Balance(zank) # {}
    /\ Cardinality(zhist.sent) < MaxSent /\ (change => zank.count < MaxCount)
    /\ LET w == CreateSpend(zank, znode, change)
           t == NewTx(IF change THEN w.count ELSE None, c)
           written == [w EXCEPT !.spends = Put(@, c, t)]
           spent == SetPubcoinUsed(written, c, t)
       IN  /\ c \in Mature(w)
           /\ IF ~MintToTxIn(znode, c)
              THEN zank' = w /\ UNCHANGED <<znode, zhist>>
              ELSE IF accepted
              THEN /\ zank' = IF change THEN Add(spent, w.count, [height |-> 0, used |-> FALSE]) ELSE spent
                   /\ znode' = [znode EXCEPT !.pool = @ \cup {t}]
                   /\ Sends(t)
              ELSE /\ zank' = SetPubcoinNotUsed([w EXCEPT !.spends = Without(@, {c})], c)
                   /\ znode' = [znode EXCEPT !.spent = @ \ {c}]
                   /\ zhist' = [zhist EXCEPT !.sent = @ \cup {t}, !.forgotten = @ \cup {c}]

(* Any of the calls that list the mints (the balances, the spend dialog). *)
UpdateListing == zank' = ListMints(zank, znode, FALSE) /\ UNCHANGED <<znode, zhist>>

SearchDzank(range, threads) ==
    /\ zank.seed
    /\ zank' = Search(zank, znode, Searched(1, range, threads))
    /\ UNCHANGED <<znode, zhist>>

ReconsiderZerocoins == zank.seed /\ zank' = Reconsider(zank, znode) /\ UNCHANGED <<znode, zhist>>

ResetMintZerocoin == zank' = ResetMint(zank, znode) /\ UNCHANGED <<znode, zhist>>

(* resetspentzerocoin: spends in the file whose transaction was never in a   *)
(* block; the mint is not used any more, and its serial leaves the zerocoin  *)
(* database.                                                                 *)
ResetSpentZerocoin ==
    LET unconfirmed == {c \in DOMAIN zank.spends : zank.spends[c] \in znode.pool \/ zank.spends[c] \notin znode.indexed}
        reset == unconfirmed \cap Unarchived(zank)
    IN  /\ zank' = [FoldSet(LAMBDA c, v : SetPubcoinNotUsed(v, c), zank, reset) EXCEPT !.spends = Without(@, reset)]
        /\ znode' = [znode EXCEPT !.spent = @ \ reset]
        /\ zhist' = [zhist EXCEPT !.forgotten = @ \cup reset]

Lock == zank.crypted /\ zank.seed /\ zank' = [zank EXCEPT !.seed = FALSE] /\ UNCHANGED <<znode, zhist>>

(* The count is read again, the mint pool emptied. *)
SetMasterSeed(w) == [w EXCEPT !.seed = TRUE, !.count = w.fileCount, !.mintPool = {}]

Unlock == ~zank.seed /\ zank' = SetMasterSeed(zank) /\ UNCHANGED <<znode, zhist>>

(* The constructor: an encrypted wallet starts locked and at count 0. *)
CzANKWallet(w) ==
    LET empty == [w EXCEPT !.tracker = <<>>, !.pending = <<>>, !.seed = FALSE, !.count = 0, !.mintPool = {}]
    IN  IF w.crypted THEN empty ELSE SetMasterSeed(empty)

(* The records are kept by seed: without it none are found. *)
LoadMintPoolFromDB(w) == IF w.seed THEN [w EXCEPT !.mintPool = @ \cup w.filePool] ELSE w

(* The program ends and starts: the first listing, with an empty pool, then  *)
(* the mint pool and the chain.  At last the transactions of the wallet are  *)
(* offered to the pool again.                                                *)
Restart(ibd, reaccepted) ==
    /\ zhist.starts < MaxRestarts
    /\ LET n == [znode EXCEPT !.pool = {}]
           loaded == LoadMintPoolFromDB(ListMints(CzANKWallet(zank), n, ibd))
           open == zhist.sent \ TxsOnChain(n)
       IN  /\ zank' = SyncWithChain(loaded, n, TRUE)
           /\ znode' = [n EXCEPT !.pool = IF reaccepted THEN {t \in open : t.spend \notin n.spent} ELSE {}]
           /\ zhist' = [zhist EXCEPT !.starts = @ + 1, !.forgotten = @ \cup Serials(open)]

(* A transaction of the wallet may go into the next block, from this pool or *)
(* from another one it was relayed to.                                       *)
MayBeMined(t) ==
    /\ t \notin TxsOnChain(znode)
    /\ t.spend # None => t.spend \notin znode.spent /\ IsMintInChain(znode, t.spend)

Noted(t) == IF t.mint = None THEN zank ELSE UpdateMint(zank, znode, t.mint, Height(znode) + 1)

(* ConnectBlock: UpdateZANKSupply tells the wallet of its mints, then the    *)
(* spends are recorded.                                                      *)
ConnectTip(txs) ==
    /\ Height(znode) < MaxBlocks
    /\ \A t \in txs : MayBeMined(t)
    /\ zank' = IF txs = {} THEN zank ELSE Noted(CHOOSE t \in txs : TRUE)
    /\ znode' = [chain |-> Append(znode.chain, txs), pool |-> znode.pool \ txs,
                 indexed |-> znode.indexed \cup txs, spent |-> znode.spent \cup Serials(txs)]
    /\ UNCHANGED zhist

(* TestBlockValidity of a template runs ConnectBlock with fJustCheck: the    *)
(* wallet is told of the mints all the same.                                 *)
TestBlockValidity(t) ==
    /\ Height(znode) < MaxBlocks
    /\ t \in znode.pool
    /\ MayBeMined(t)
    /\ zank' = Noted(t)
    /\ UNCHANGED <<znode, zhist>>

(* DisconnectBlock erases mints and serials of the block from the zerocoin   *)
(* database; the transactions go back to the pool, which may refuse them.    *)
(* The wallet is not told.                                                   *)
DisconnectTip(returned) ==
    /\ Height(znode) > 0
    /\ LET txs == znode.chain[Height(znode)]
       IN  /\ znode' = [znode EXCEPT !.chain = Front(@), !.pool = IF returned THEN @ \cup txs ELSE @,
                                     !.spent = @ \ Serials(txs)]
           /\ zhist' = [zhist EXCEPT !.forgotten = @ \cup Serials(txs)]
    /\ UNCHANGED zank

Next ==
    \/ \E outcome \in {"accepted", "rejected", "no inputs"} : MintZerocoin(outcome)
    \/ \E c \in DOMAIN zank.tracker, change, accepted \in BOOLEAN : SpendZerocoin(c, change, accepted)
    \/ UpdateListing \/ ReconsiderZerocoins \/ ResetMintZerocoin \/ ResetSpentZerocoin
    \/ \E threads \in {1, 2} : SearchDzank(MaxCount, threads)
    \/ Lock \/ Unlock
    \/ \E ibd, reaccepted \in BOOLEAN : Restart(ibd, reaccepted)
    \/ ConnectTip({})
    \/ \E t \in zhist.sent : ConnectTip({t}) \/ TestBlockValidity(t)
    \/ \E returned \in BOOLEAN : DisconnectTip(returned)

Spec == Init /\ [][Next]_zankVars

-----------------------------------------------------------------------------
(* Wallet, node and history keep their types. *)
TypeOK ==
    /\ zank.count \in 0 .. MaxCount /\ zank.fileCount \in 0 .. MaxCount
    /\ zank.mintPool \cup zank.filePool \subseteq 1 .. MaxCount + Window
    /\ \A f \in {zank.mints, zank.archive} :
          DOMAIN f \subseteq 1 .. MaxCount /\ \A c \in DOMAIN f : f[c] \in [height : 0 .. MaxBlocks, used : BOOLEAN]
    /\ \A c \in DOMAIN zank.tracker :
          zank.tracker[c] \in [height : 0 .. MaxBlocks, used : BOOLEAN, archived : BOOLEAN]
    /\ \A f \in {zank.pending, zank.spends} : \A c \in DOMAIN f : f[c] \in Tx
    /\ znode.pool \cup znode.indexed \cup TxsOnChain(znode) \subseteq zhist.sent
    /\ zhist.sent \subseteq Tx /\ zhist.starts \in 0 .. MaxRestarts

(* No count serves for two transactions, over locks, starts and mints that   *)
(* came to nothing: two mints of one count would share a serial, and only    *)
(* one of them could be spent.                                               *)
CountsUsedOnce ==
    \A s, t \in zhist.sent : s # t /\ s.mint # None => s.mint # t.mint

(* A mint that is on the chain is never out of the wallet's reach, whatever  *)
(* became of its record: searching the counts, reconsidering the archive and *)
(* resetting the mints, it is tracked, with the height and the use it has on *)
(* the chain.                                                                *)
NothingIsLost ==
    zank.seed =>
        LET found == ResetMint(Reconsider(Search(zank, znode, Searched(1, MaxCount, 1)), znode), znode)
        IN  \A c \in 1 .. MaxCount :
                IsMintInChain(znode, c) =>
                    /\ c \in DOMAIN found.tracker
                    /\ found.tracker[c] = [height |-> MintHeight(znode, c), used |-> c \in znode.spent, archived |-> FALSE]
                    /\ c \in DOMAIN found.mints /\ found.mints[c] = Record(found.tracker[c])

(* The wallet does not spend a mint again while a spend of it is in the pool *)
(* or on the chain, unless that was forgotten: by a start, by a block that   *)
(* was disconnected, by a rejection or by resetspentzerocoin.                *)
NotSpentTwice ==
    \A s, t \in znode.pool \cup TxsOnChain(znode) :
        s # t /\ s.spend = t.spend /\ s.spend # None => s.spend \in zhist.forgotten
==============================================================================
