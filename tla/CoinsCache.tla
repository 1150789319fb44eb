------------------------------ MODULE CoinsCache -----------------------------
(***************************************************************************)
(* The layered caches of the set of unspent transaction outputs (coins.h,  *)
(* coins.cpp, txdb.cpp).  A CCoinsViewCache answers from its own map and   *)
(* pulls what it misses from its base.  Three layers are stacked:          *)
(*                                                                         *)
(*   view  a local CCoinsViewCache of ConnectTip, DisconnectTip, a block   *)
(*         template or a mempool check; lives for one block                *)
(*   tip   pcoinsTip, a CCoinsViewCache                                    *)
(*   db    CCoinsViewDB, the chainstate leveldb                            *)
(*                                                                         *)
(* An entry of a cache has two flags, and everything rests on what they    *)
(* mean: DIRTY (potentially different from the base) and FRESH (the base   *)
(* has no unspent output for it).  Flush drops clean entries, and deletes  *)
(* instead of writing when an entry is fresh and spent: one wrong flag     *)
(* silently resurrects or loses coins.                                     *)
(*                                                                         *)
(* All of this runs under cs_main, so an operation is one step; what       *)
(* interleaves is the operations, the write of the tip to disk, its        *)
(* failure, and a crash.                                                   *)
(***************************************************************************)
CONSTANTS
    Txids,          \* transaction ids
    Coins,          \* values of a CCoins with something unspent
    Pruned,         \* a CCoins with nothing unspent (CCoins::IsPruned)
    Missing,        \* no entry / GetCoins returned false
    Blocks,         \* block hashes
    NullHash,       \* uint256(0)
    UtxoAfter       \* the unspent outputs a block is the result of

AllBlocks == Blocks \cup {NullHash}

Values == Coins \cup {Pruned}

(* CCoinsCacheEntry *)
Entry == [coins : Values, dirty : BOOLEAN, fresh : BOOLEAN]

ASSUME CacheAssumption ==
    /\ Pruned \notin Coins
    /\ Missing \notin Values \cup [Txids -> Values]
    /\ Missing \notin Entry
    /\ NullHash \notin Blocks
    /\ UtxoAfter \in [AllBlocks -> [Txids -> Values]]
    /\ \A x \in Txids : UtxoAfter[NullHash][x] = Pruned

VARIABLES
    db,         \* Txids -> coins or Missing (a pruned CCoins is never stored)
    dbBest,     \* the 'B' record
    tip,        \* Txids -> cache entry or Missing: pcoinsTip->cacheCoins
    tipBest,    \* pcoinsTip->hashBlock
    view,       \* the same for the local view
    viewOpen,   \* a local view exists
    refused     \* history: leveldb has refused a batch

vars == <<db, dbBest, tip, tipBest, view, viewOpen, refused>>

Cache == [Txids -> Entry \cup {Missing}]

Empty == [x \in Txids |-> Missing]

TypeOK ==
    /\ db \in [Txids -> Coins \cup {Missing}]
    /\ dbBest \in AllBlocks
    /\ tip \in Cache
    /\ tipBest \in AllBlocks
    /\ view \in Cache
    /\ viewOpen \in BOOLEAN
    /\ refused \in BOOLEAN

Init ==
    /\ db = Empty
    /\ dbBest = NullHash
    /\ tip = Empty
    /\ tipBest = NullHash
    /\ view = Empty
    /\ viewOpen = FALSE
    /\ refused = FALSE

-----------------------------------------------------------------------------
(* Operations of a cache over what its base answers. *)

(* CCoinsViewCache::GetCoins, once FetchCoins has run. *)
GetCoins(cache, x) == IF cache[x] = Missing THEN Missing ELSE cache[x].coins

(* CCoinsViewCache::FetchCoins; got is the base's answer for x. *)
FetchCoins(cache, got, x) ==
    IF cache[x] # Missing \/ got = Missing
    THEN cache
    ELSE [cache EXCEPT ![x] = [coins |-> got, dirty |-> FALSE, fresh |-> (got = Pruned)]]

(* CCoinsViewCache::GetBestBlock over the base's best block. *)
BestOver(best, baseBest) == IF best = NullHash THEN baseBest ELSE best

(* The tip after it was asked for x. *)
TipAsked(x) == FetchCoins(tip, db[x], x)

(* ModifyCoins up to the end of the CCoinsModifier's life, during which the  *)
(* coins became c: the entry is created from the base if there is none, is   *)
(* dirty from then on, and is dropped when it is fresh and spent.            *)
ModifiedEntry(x, c) ==
    LET got     == GetCoins(TipAsked(x), x)
        isFresh == IF view[x] = Missing THEN got \in {Missing, Pruned} ELSE view[x].fresh
    IN  IF isFresh /\ c = Pruned
        THEN Missing
        ELSE [coins |-> c, dirty |-> TRUE, fresh |-> isFresh]

(* Mutant: an entry the parent already had is not marked dirty. *)
BatchWriteLeavesClean(e, p) ==
    IF e = Missing \/ ~e.dirty THEN p
    ELSE IF p = Missing
         THEN IF e.coins = Pruned THEN Missing
              ELSE [coins |-> e.coins, dirty |-> TRUE, fresh |-> TRUE]
         ELSE IF p.fresh /\ e.coins = Pruned THEN Missing
              ELSE [p EXCEPT !.coins = e.coins]

(* Mutant: a spent entry is deleted from the parent whether fresh or not. *)
BatchWriteForgetsSpent(e, p) ==
    IF e = Missing \/ ~e.dirty THEN p
    ELSE IF e.coins = Pruned THEN Missing
         ELSE [coins |-> e.coins, dirty |-> TRUE, fresh |-> IF p = Missing THEN TRUE ELSE p.fresh]

(* CCoinsViewCache::BatchWrite for one entry e of the child, onto the        *)
(* parent's p.                                                               *)
BatchWriteEntry(e, p) ==
    IF e = Missing \/ ~e.dirty THEN p
    ELSE IF p = Missing
         THEN IF e.coins = Pruned THEN Missing
              ELSE [coins |-> e.coins, dirty |-> TRUE, fresh |-> TRUE]
         ELSE IF p.fresh /\ e.coins = Pruned THEN Missing
              ELSE [coins |-> e.coins, dirty |-> TRUE, fresh |-> p.fresh]

(* CCoinsViewDB::BatchWrite for one entry e of the tip, onto the record r.   *)
DbWriteEntry(e, r) ==
    IF e = Missing \/ ~e.dirty THEN r
    ELSE IF e.coins = Pruned THEN Missing ELSE e.coins

-----------------------------------------------------------------------------
(* What each layer answers: its own entry, else its base's. *)
DbCoins == [x \in Txids |-> IF db[x] = Missing THEN Pruned ELSE db[x]]

TipCoins == [x \in Txids |-> IF tip[x] = Missing THEN DbCoins[x] ELSE tip[x].coins]

ViewCoins == [x \in Txids |-> IF view[x] = Missing THEN TipCoins[x] ELSE view[x].coins]

TipBest == BestOver(tipBest, dbBest)

-----------------------------------------------------------------------------
(* CCoinsViewCache view(pcoinsTip). *)
OpenView ==
    /\ ~viewOpen
    /\ viewOpen' = TRUE
    /\ view' = Empty
    /\ UNCHANGED <<db, dbBest, tip, tipBest, refused>>

(* GetCoins, AccessCoins, HaveCoins or HaveInputs on pcoinsTip itself. *)
ReadTip(x) ==
    /\ tip' = TipAsked(x)
    /\ UNCHANGED <<db, dbBest, tipBest, view, viewOpen, refused>>

(* The same on the local view, which asks the tip only for what it misses. *)
ReadView(x) ==
    /\ viewOpen
    /\ view[x] = Missing
    /\ tip' = TipAsked(x)
    /\ view' = FetchCoins(view, GetCoins(TipAsked(x), x), x)
    /\ UNCHANGED <<db, dbBest, tipBest, viewOpen, refused>>

(* UpdateCoins and DisconnectBlock change one CCoins of the view to c. *)
ModifyCoins(x, c) ==
    /\ viewOpen
    /\ tip' = IF view[x] = Missing THEN TipAsked(x) ELSE tip
    /\ view' = [view EXCEPT ![x] = ModifiedEntry(x, c)]
    /\ UNCHANGED <<db, dbBest, tipBest, viewOpen, refused>>

(* GetBestBlock on the tip, or on a view over it, remembers the database's   *)
(* answer.  (What a view remembers is overwritten by SetBestBlock.)          *)
GetBestBlock ==
    /\ tipBest' = TipBest
    /\ UNCHANGED <<db, dbBest, tip, view, viewOpen, refused>>

(* The last thing ConnectBlock and DisconnectBlock do is SetBestBlock(b), and *)
(* ConnectTip and DisconnectTip follow with assert(view.Flush()), after which *)
(* the view is gone.  That the changes made to the view are indeed those of b *)
(* is the contract of ConnectBlock and DisconnectBlock (module BlockApply).   *)
FlushView(b) ==
    /\ viewOpen
    /\ ViewCoins = UtxoAfter[b]
    /\ tip' = [x \in Txids |-> BatchWriteEntry(view[x], tip[x])]
    /\ tipBest' = b
    /\ view' = Empty
    /\ viewOpen' = FALSE
    /\ UNCHANGED <<db, dbBest, refused>>

(* The view goes out of scope unflushed: an invalid block, a template, a     *)
(* mempool check.                                                            *)
DropView ==
    /\ viewOpen
    /\ view' = Empty
    /\ viewOpen' = FALSE
    /\ UNCHANGED <<db, dbBest, tip, tipBest, refused>>

(* Mutant: the best block is left for a later batch. *)
FlushTipWithoutBest ==
    /\ ~viewOpen
    /\ db' = [x \in Txids |-> DbWriteEntry(tip[x], db[x])]
    /\ tip' = Empty
    /\ UNCHANGED <<dbBest, tipBest, view, viewOpen, refused>>

(* FlushStateToDisk reaches pcoinsTip->Flush(): never while a view is open,  *)
(* since it is called with the local view already flushed or dropped.  The   *)
(* coins and the best block go in one leveldb batch.                         *)
FlushTip ==
    /\ ~viewOpen
    /\ db' = [x \in Txids |-> DbWriteEntry(tip[x], db[x])]
    /\ dbBest' = BestOver(tipBest, dbBest)
    /\ tip' = Empty
    /\ UNCHANGED <<tipBest, view, viewOpen, refused>>

(* leveldb refuses the batch and HandleError throws: BatchWrite has already  *)
(* emptied the cache it was given, and FlushStateToDisk catches the          *)
(* runtime_error and returns, with the node still running.                   *)
FlushTipFails ==
    /\ ~viewOpen
    /\ tip' = Empty
    /\ refused' = TRUE
    /\ UNCHANGED <<db, dbBest, tipBest, view, viewOpen>>

(* The process ends, at any point, and starts again. *)
Crash ==
    /\ tip' = Empty
    /\ tipBest' = NullHash
    /\ view' = Empty
    /\ viewOpen' = FALSE
    /\ UNCHANGED <<db, dbBest, refused>>

Next ==
    \/ OpenView
    \/ \E x \in Txids : ReadTip(x)
    \/ \E x \in Txids : ReadView(x)
    \/ \E x \in Txids, c \in Values : ModifyCoins(x, c)
    \/ GetBestBlock
    \/ \E b \in Blocks : FlushView(b)
    \/ DropView
    \/ FlushTip
    \/ FlushTipFails
    \/ Crash

Spec == Init /\ [][Next]_vars

-----------------------------------------------------------------------------
(* Properties *)

(* A clean entry says what its base says: FetchCoins copied it, and nothing  *)
(* changed the base since.  Flush relies on this when it drops clean entries *)
(* (coins.cpp, "Ignore non-dirty entries").                                  *)
CleanEntriesAgree ==
    /\ \A x \in Txids : tip[x] # Missing /\ ~tip[x].dirty => tip[x].coins = DbCoins[x]
    /\ \A x \in Txids : view[x] # Missing /\ ~view[x].dirty => view[x].coins = TipCoins[x]

(* FRESH means what coins.h says: "The parent view does not have this entry  *)
(* (or it is pruned)".  BatchWrite deletes on the strength of it.            *)
FreshMeansAbsentBelow ==
    /\ \A x \in Txids : tip[x] # Missing /\ tip[x].fresh => DbCoins[x] = Pruned
    /\ \A x \in Txids : view[x] # Missing /\ view[x].fresh => TipCoins[x] = Pruned

(* assert(it->second.flags & FRESH) of CCoinsViewCache::BatchWrite can never *)
(* fire, whenever the view is flushed: an entry that is not fresh still has  *)
(* its counterpart in the tip.  A flush of the tip under an open view would  *)
(* break this.                                                               *)
FlushAssertHolds ==
    \A x \in Txids : view[x] # Missing /\ ~view[x].fresh => tip[x] # Missing

(* The whole inductive invariant of the flags. *)
CacheInv ==
    /\ TypeOK
    /\ CleanEntriesAgree
    /\ FreshMeansAbsentBelow
    /\ FlushAssertHolds
    /\ ~viewOpen => view = Empty

(* coins.h on GetBestBlock: "the block hash whose state this CCoinsView      *)
(* currently represents".  For the node's own tip cache, until a write is    *)
(* refused: the flush has then dropped changes that tipBest still names.     *)
TipRepresentsBest == ~refused => TipCoins = UtxoAfter[TipBest]

(* The same for the database, which is what a restart trusts.                *)
DiskRepresentsBest == ~refused => DbCoins = UtxoAfter[dbBest]

(* Nobody is misled by a cache: the flags of both layers mean what coins.h   *)
(* says, and the assert of BatchWrite holds.                                 *)
FlagsAreSound == TypeOK /\ CleanEntriesAgree /\ FreshMeansAbsentBelow /\ FlushAssertHolds

(* Tip and database both represent the block they name, so that a restart    *)
(* goes on from a state that some block left.                                *)
BestIsRepresented == TipRepresentsBest /\ DiskRepresentsBest

(* The caches implement the store of whole blocks. *)
Store == INSTANCE UtxoStore WITH
    NoWork <- Missing,
    disk   <- [coins |-> DbCoins, best |-> dbBest],
    active <- [coins |-> TipCoins, best |-> TipBest],
    work   <- IF viewOpen THEN ViewCoins ELSE Missing,
    lost   <- refused

(* Every step of the caches, seen through what the layers answer, is a step  *)
(* of UtxoStore: reads and cache fills are invisible, a block's changes show *)
(* at the tip all at once, a write to disk changes no answer, and a crash    *)
(* goes back to exactly the state of the last write; until leveldb refuses a *)
(* batch.                                                                    *)
ImplementsStore == Store!Spec
==============================================================================
