------------------------------ MODULE StoresProofs ----------------------------
(***************************************************************************)
(* Proofs about the stores of MCStores, for every value of the constants.  *)
(*                                                                         *)
(* Coins caches: CacheInv, the meaning of the flags, is inductive and      *)
(* holds whether or not writes fail.  On top of it, until a write is       *)
(* refused, the tip and the database represent the block they name, and    *)
(* every step implements a step of UtxoStore.                              *)
(*                                                                         *)
(* Key pool: KeyInv relates the set of indexes in memory, the records of   *)
(* the wallet file and the reservations.                                   *)
(*                                                                         *)
(* Memory pool: MempoolInv relates mapTx, mapNextTx and the chain.  What a *)
(* loop of the code does to the pool is stated of the pools r[0], r[1], .. *)
(* it goes through: a fold is such a run (FoldExists), and what holds of   *)
(* the first and is kept by a step holds of the last (StepsReach).         *)
(***************************************************************************)
EXTENDS CoinsCache, KeyPool, Mempool, FoldTheorems, FiniteSetTheorems, TLAPS

(***************************************************************************)
(* What the operators on entries return.                                   *)
(***************************************************************************)

(* A record of an entry's shape is an entry, and an entry is never absent. *)
LEMMA EntryFacts ==
    /\ \A v \in Values, d, f \in BOOLEAN :
         /\ [coins |-> v, dirty |-> d, fresh |-> f] \in Entry
         /\ [coins |-> v, dirty |-> d, fresh |-> f] # Missing
    /\ \A e \in Entry :
         e # Missing /\ e.coins \in Values /\ e.dirty \in BOOLEAN /\ e.fresh \in BOOLEAN
  <1>1. ASSUME NEW v \in Values, NEW d \in BOOLEAN, NEW f \in BOOLEAN
        PROVE  /\ [coins |-> v, dirty |-> d, fresh |-> f] \in Entry
               /\ [coins |-> v, dirty |-> d, fresh |-> f] # Missing
    <2>1. [coins |-> v, dirty |-> d, fresh |-> f] \in Entry
      BY DEF Entry
    <2> QED
      BY <2>1, CacheAssumption
  <1>2. ASSUME NEW e \in Entry
        PROVE  e # Missing /\ e.coins \in Values /\ e.dirty \in BOOLEAN /\ e.fresh \in BOOLEAN
    <2>1. e # Missing
      BY CacheAssumption
    <2>2. e.coins \in Values /\ e.dirty \in BOOLEAN /\ e.fresh \in BOOLEAN
      BY DEF Entry
    <2> QED
      BY <2>1, <2>2
  <1> QED
    BY <1>1, <1>2

(* What BatchWrite leaves in the parent for one entry of the child.        *)
LEMMA BatchWriteEntryFacts ==
    ASSUME NEW e \in Entry \cup {Missing}, NEW p \in Entry \cup {Missing}
    PROVE  /\ BatchWriteEntry(e, p) \in Entry \cup {Missing}
           /\ e = Missing \/ ~e.dirty => BatchWriteEntry(e, p) = p
           /\ e # Missing /\ e.dirty /\ BatchWriteEntry(e, p) # Missing =>
                /\ BatchWriteEntry(e, p).coins = e.coins
                /\ BatchWriteEntry(e, p).dirty
                /\ BatchWriteEntry(e, p).fresh => p = Missing \/ p.fresh
           /\ e # Missing /\ e.dirty /\ BatchWriteEntry(e, p) = Missing =>
                /\ e.coins = Pruned
                /\ p = Missing \/ p.fresh
  <1>1. CASE e = Missing \/ ~e.dirty
    BY <1>1 DEF BatchWriteEntry
  <1>2. CASE e # Missing /\ e.dirty /\ p = Missing
    <2> DEFINE r == [coins |-> e.coins, dirty |-> TRUE, fresh |-> TRUE]
    <2>1. r \in Entry /\ r # Missing /\ r.coins = e.coins /\ r.dirty
      BY <1>2, EntryFacts
    <2>2. BatchWriteEntry(e, p) = IF e.coins = Pruned THEN Missing ELSE r
      BY <1>2 DEF BatchWriteEntry
    <2> HIDE DEF r
    <2> QED
      BY <1>2, <2>1, <2>2
  <1>3. CASE e # Missing /\ e.dirty /\ p # Missing
    <2> DEFINE r == [coins |-> e.coins, dirty |-> TRUE, fresh |-> p.fresh]
    <2>1. p.fresh \in BOOLEAN
      BY <1>3, EntryFacts
    <2>2. r \in Entry /\ r # Missing /\ r.coins = e.coins /\ r.dirty /\ (r.fresh => p.fresh)
      BY <1>3, <2>1, EntryFacts
    <2>3. BatchWriteEntry(e, p) = IF p.fresh /\ e.coins = Pruned THEN Missing ELSE r
      BY <1>3 DEF BatchWriteEntry
    <2> HIDE DEF r
    <2> QED
      BY <1>3, <2>1, <2>2, <2>3
  <1> QED
    BY <1>1, <1>2, <1>3

(* Asking the tip fills at most the one entry, with a clean copy of what   *)
(* the database has; the database never has a pruned record.               *)
LEMMA TipAskedFacts ==
    ASSUME CacheInv, NEW x \in Txids
    PROVE  /\ TipAsked(x) \in Cache
           /\ \A y \in Txids : tip[y] # Missing => TipAsked(x)[y] = tip[y]
           /\ \A y \in Txids : tip[y] = Missing /\ TipAsked(x)[y] # Missing =>
                /\ TipAsked(x)[y].coins = DbCoins[y]
                /\ DbCoins[y] # Pruned
                /\ TipAsked(x)[y].fresh = FALSE
           /\ TipAsked(x)[x] = Missing => tip[x] = Missing /\ DbCoins[x] = Pruned
  <1>0. db[x] \in Coins \cup {Missing} /\ tip \in Cache
    BY DEF CacheInv, TypeOK
  <1>1. CASE tip[x] # Missing \/ db[x] = Missing
    BY <1>0, <1>1 DEF TipAsked, FetchCoins, DbCoins
  <1>2. CASE tip[x] = Missing /\ db[x] # Missing
    <2> DEFINE e == [coins |-> db[x], dirty |-> FALSE, fresh |-> (db[x] = Pruned)]
    <2>1. db[x] \in Values /\ db[x] # Pruned
      BY <1>0, <1>2, CacheAssumption DEF Values
    <2>2. e \in Entry /\ e # Missing /\ e.coins = db[x] /\ e.fresh = FALSE
      BY <2>1, EntryFacts
    <2>3. TipAsked(x) = [tip EXCEPT ![x] = e]
      BY <1>2 DEF TipAsked, FetchCoins
    <2>4. DbCoins[x] = db[x]
      BY <1>2 DEF DbCoins
    <2> HIDE DEF e
    <2> QED
      BY <1>0, <1>2, <2>1, <2>2, <2>3, <2>4 DEF Cache
  <1> QED
    BY <1>1, <1>2

(* Filling the tip's cache changes no answer of the tip.                   *)
LEMMA TipAskedInvisible ==
    ASSUME CacheInv, NEW x \in Txids, tip' = TipAsked(x), db' = db
    PROVE  /\ TipCoins' = TipCoins
           /\ DbCoins' = DbCoins
  <1>1. DbCoins' = DbCoins
    BY DEF DbCoins
  <1>2. \A y \in Txids :
          (IF tip'[y] = Missing THEN DbCoins'[y] ELSE tip'[y].coins)
            = (IF tip[y] = Missing THEN DbCoins[y] ELSE tip[y].coins)
    BY <1>1, TipAskedFacts
  <1> QED
    BY <1>1, <1>2 DEF TipCoins

(* A new entry of the view is fresh only if the tip has nothing unspent.   *)
LEMMA FreshIsAbsent ==
    ASSUME CacheInv, NEW x \in Txids
    PROVE  LET got     == GetCoins(TipAsked(x), x)
               isFresh == IF view[x] = Missing THEN got \in {Missing, Pruned} ELSE view[x].fresh
           IN  isFresh \in BOOLEAN /\ (isFresh => TipCoins[x] = Pruned)
  <1> DEFINE got == GetCoins(TipAsked(x), x)
             isFresh == IF view[x] = Missing THEN got \in {Missing, Pruned} ELSE view[x].fresh
  <1>1. isFresh \in BOOLEAN
    <2>1. CASE view[x] = Missing
      BY <2>1
    <2>2. CASE view[x] # Missing
      <3>1. view[x] \in Entry
        BY <2>2 DEF CacheInv, TypeOK, Cache
      <3> QED
        BY <2>2, <3>1, EntryFacts
    <2> QED
      BY <2>1, <2>2
  <1>2. isFresh => TipCoins[x] = Pruned
    <2>1. CASE view[x] = Missing
      <3>1. TipCoins[x] = IF tip[x] = Missing THEN DbCoins[x] ELSE tip[x].coins
        BY DEF TipCoins
      <3>2. CASE TipAsked(x)[x] = Missing
        BY <3>1, <3>2, TipAskedFacts
      <3>3. CASE TipAsked(x)[x] # Missing
        <4>1. got = TipAsked(x)[x].coins /\ got # Missing
          <5>1. TipAsked(x)[x] \in Entry
            BY <3>3, TipAskedFacts DEF Cache
          <5>2. TipAsked(x)[x].coins # Missing
            BY <5>1, EntryFacts, CacheAssumption
          <5> QED
            BY <3>3, <5>2 DEF GetCoins
        <4> QED
          BY <2>1, <3>1, <3>3, <4>1, TipAskedFacts
      <3> QED
        BY <3>2, <3>3
    <2>2. CASE view[x] # Missing
      BY <2>2 DEF CacheInv, FreshMeansAbsentBelow
    <2> QED
      BY <2>1, <2>2
  <1> QED
    BY <1>1, <1>2

(* The initial state satisfies the invariant.                              *)
LEMMA InitCacheInv == Init => CacheInv
  BY CacheAssumption
     DEF Init, CacheInv, TypeOK, CleanEntriesAgree, FreshMeansAbsentBelow,
         FlushAssertHolds, Empty, Cache, Entry, AllBlocks, DbCoins, TipCoins

(* Every step keeps the invariant.  A fill of the tip is invisible; a      *)
(* change of the view touches one entry; a flush is looked at entry by     *)
(* entry.                                                                  *)
LEMMA NextCacheInv == CacheInv /\ [Next]_vars => CacheInv'
  <1> SUFFICES ASSUME CacheInv, [Next]_vars PROVE CacheInv'
    OBVIOUS
  <1>t. TypeOK /\ CleanEntriesAgree /\ FreshMeansAbsentBelow /\ FlushAssertHolds
    BY DEF CacheInv
  <1>w. ~viewOpen => view = Empty
    BY DEF CacheInv
  <1>0. Empty \in Cache /\ \A x \in Txids : Empty[x] = Missing
    BY DEF Empty, Cache
  <1>1. CASE OpenView
    BY <1>0, <1>1, <1>t, <1>w DEF CacheInv, OpenView, TypeOK, CleanEntriesAgree, FreshMeansAbsentBelow,
         FlushAssertHolds, DbCoins, TipCoins
  <1>2. ASSUME NEW x \in Txids, ReadTip(x) PROVE CacheInv'
    <2>1. TipCoins' = TipCoins /\ DbCoins' = DbCoins
      BY <1>2, TipAskedInvisible DEF ReadTip
    <2>2. /\ tip' \in Cache
          /\ \A y \in Txids : tip[y] # Missing => tip'[y] = tip[y]
          /\ \A y \in Txids : tip[y] = Missing /\ tip'[y] # Missing =>
                /\ tip'[y].coins = DbCoins[y]
                /\ tip'[y].fresh = FALSE
      BY <1>2, TipAskedFacts DEF ReadTip
    <2> QED
      BY <1>2, <1>t, <1>w, <2>1, <2>2 DEF CacheInv, ReadTip, TypeOK, CleanEntriesAgree, FreshMeansAbsentBelow, FlushAssertHolds
  <1>3. CASE UNCHANGED vars
    BY <1>3, <1>t, <1>w DEF CacheInv, vars, TypeOK, CleanEntriesAgree, FreshMeansAbsentBelow, FlushAssertHolds,
         DbCoins, TipCoins
  <1>4. CASE DropView
    BY <1>0, <1>4, <1>t, <1>w DEF CacheInv, DropView, TypeOK, CleanEntriesAgree, FreshMeansAbsentBelow,
         FlushAssertHolds, DbCoins, TipCoins
  <1>5. CASE Crash
    BY <1>0, <1>5, <1>t, <1>w DEF CacheInv, Crash, TypeOK, AllBlocks, CleanEntriesAgree, FreshMeansAbsentBelow,
         FlushAssertHolds, DbCoins, TipCoins
  <1>6. CASE GetBestBlock
    BY <1>6, <1>t, <1>w DEF CacheInv, GetBestBlock, TipBest, BestOver, TypeOK, CleanEntriesAgree, FreshMeansAbsentBelow,
         FlushAssertHolds, DbCoins, TipCoins
  <1>7. CASE FlushTipFails
    BY <1>0, <1>7, <1>t, <1>w DEF CacheInv, FlushTipFails, TypeOK, CleanEntriesAgree, FreshMeansAbsentBelow,
         FlushAssertHolds, DbCoins, TipCoins
  <1>8. ASSUME NEW x \in Txids, ReadView(x) PROVE CacheInv'
    <2>1. TipCoins' = TipCoins /\ DbCoins' = DbCoins
      BY <1>8, TipAskedInvisible DEF ReadView
    <2>2. /\ tip' \in Cache
          /\ \A y \in Txids : tip[y] # Missing => tip'[y] = tip[y]
          /\ \A y \in Txids : tip[y] = Missing /\ tip'[y] # Missing =>
                /\ tip'[y].coins = DbCoins[y]
                /\ tip'[y].fresh = FALSE
      BY <1>8, TipAskedFacts DEF ReadView
    <2>3. /\ view' \in Cache
          /\ \A y \in Txids : y # x => view'[y] = view[y]
          /\ view'[x] # Missing =>
                /\ tip'[x] # Missing
                /\ view'[x].coins = tip'[x].coins
                /\ view'[x].fresh => tip'[x].coins = Pruned
      <3> DEFINE got == tip'[x].coins
                 e == [coins |-> got, dirty |-> FALSE, fresh |-> (got = Pruned)]
      <3>1. view' = IF tip'[x] = Missing \/ got = Missing THEN view ELSE [view EXCEPT ![x] = e]
        BY <1>8 DEF ReadView, FetchCoins, GetCoins
      <3>2. tip'[x] # Missing => got \in Values
        BY <2>2, EntryFacts DEF Cache
      <3>3. tip'[x] # Missing => e \in Entry /\ e.coins = got /\ e.fresh = (got = Pruned)
        BY <3>2, EntryFacts
      <3>4. view \in Cache /\ view[x] = Missing
        BY <1>8, <1>t DEF ReadView, TypeOK
      <3> HIDE DEF e
      <3> QED
        BY <3>1, <3>3, <3>4 DEF Cache
    <2>4. tip'[x] # Missing => TipCoins'[x] = tip'[x].coins
      BY DEF TipCoins
    <2> QED
      BY <1>8, <1>t, <1>w, <2>1, <2>2, <2>3, <2>4
         DEF CacheInv, ReadView, TypeOK, CleanEntriesAgree, FreshMeansAbsentBelow, FlushAssertHolds
  <1>9. ASSUME NEW x \in Txids, NEW c \in Values, ModifyCoins(x, c) PROVE CacheInv'
    <2>1. TipCoins' = TipCoins /\ DbCoins' = DbCoins
      BY <1>9, TipAskedInvisible DEF ModifyCoins, TipCoins, DbCoins
    <2>2. /\ tip' \in Cache
          /\ \A y \in Txids : tip[y] # Missing => tip'[y] = tip[y]
          /\ \A y \in Txids : tip[y] = Missing /\ tip'[y] # Missing =>
                /\ tip'[y].coins = DbCoins[y]
                /\ tip'[y].fresh = FALSE
      <3>1. CASE view[x] = Missing
        BY <1>9, <3>1, TipAskedFacts DEF ModifyCoins
      <3>2. CASE view[x] # Missing
        BY <1>9, <1>t, <3>2 DEF ModifyCoins, TypeOK
      <3> QED
        BY <3>1, <3>2
    <2> DEFINE got == GetCoins(TipAsked(x), x)
               isFresh == IF view[x] = Missing THEN got \in {Missing, Pruned} ELSE view[x].fresh
    <2>3. isFresh \in BOOLEAN
      BY FreshIsAbsent
    <2>4. isFresh => TipCoins[x] = Pruned
      BY FreshIsAbsent
    <2>5. ~isFresh => tip'[x] # Missing
      BY <1>9, <1>t, <2>2 DEF ModifyCoins, GetCoins, FlushAssertHolds
    <2>6. ModifiedEntry(x, c) = IF isFresh /\ c = Pruned THEN Missing
                                ELSE [coins |-> c, dirty |-> TRUE, fresh |-> isFresh]
      BY DEF ModifiedEntry
    <2>7. ModifiedEntry(x, c) # Missing =>
            /\ ModifiedEntry(x, c) \in Entry
            /\ ModifiedEntry(x, c).dirty
            /\ ModifiedEntry(x, c).fresh = isFresh
      <3> HIDE DEF isFresh
      <3>1. [coins |-> c, dirty |-> TRUE, fresh |-> isFresh] \in Entry
        BY <2>3, EntryFacts
      <3> QED
        BY <2>6, <3>1
    <2>8. /\ view' \in Cache
          /\ view'[x] = ModifiedEntry(x, c)
          /\ \A y \in Txids : y # x => view'[y] = view[y]
      BY <1>9, <1>t, <2>7 DEF ModifyCoins, TypeOK, Cache
    <2> HIDE DEF isFresh
    <2> QED
      BY <1>9, <1>t, <1>w, <2>1, <2>2, <2>4, <2>5, <2>7, <2>8
         DEF CacheInv, ModifyCoins, TypeOK, CleanEntriesAgree, FreshMeansAbsentBelow, FlushAssertHolds
  <1>10. ASSUME NEW b \in Blocks, FlushView(b) PROVE CacheInv'
    <2>1. DbCoins' = DbCoins
      BY <1>10 DEF FlushView, DbCoins
    <2>2. ASSUME NEW x \in Txids
          PROVE  /\ tip'[x] \in Entry \cup {Missing}
                 /\ tip'[x] # Missing /\ ~tip'[x].dirty => tip'[x].coins = DbCoins[x]
                 /\ tip'[x] # Missing /\ tip'[x].fresh => DbCoins[x] = Pruned
      <3>1. tip'[x] = BatchWriteEntry(view[x], tip[x])
        BY <1>10 DEF FlushView
      <3>2. view[x] \in Entry \cup {Missing} /\ tip[x] \in Entry \cup {Missing}
        BY <1>t DEF TypeOK, Cache
      <3>3. CASE view[x] = Missing \/ ~view[x].dirty
        BY <1>t, <3>1, <3>2, <3>3, BatchWriteEntryFacts DEF CleanEntriesAgree, FreshMeansAbsentBelow
      <3>4. CASE view[x] # Missing /\ view[x].dirty /\ tip[x] = Missing
        BY <1>t, <3>1, <3>2, <3>4, BatchWriteEntryFacts
           DEF FreshMeansAbsentBelow, FlushAssertHolds, TipCoins
      <3>5. CASE view[x] # Missing /\ view[x].dirty /\ tip[x] # Missing
        BY <1>t, <3>1, <3>2, <3>5, BatchWriteEntryFacts DEF FreshMeansAbsentBelow
      <3> QED
        BY <3>3, <3>4, <3>5
    <2>3. tip' \in Cache
      BY <1>10, <2>2 DEF FlushView, Cache
    <2> QED
      BY <1>0, <1>t, <1>10, <2>1, <2>2, <2>3
         DEF CacheInv, FlushView, AllBlocks, TypeOK, CleanEntriesAgree, FreshMeansAbsentBelow, FlushAssertHolds
  <1>11. CASE FlushTip
    <2>1. db' \in [Txids -> Coins \cup {Missing}]
      <3>1. ASSUME NEW x \in Txids PROVE DbWriteEntry(tip[x], db[x]) \in Coins \cup {Missing}
        BY <1>t, EntryFacts DEF DbWriteEntry, TypeOK, Cache, Values
      <3> QED
        BY <1>11, <3>1 DEF FlushTip
    <2> QED
      BY <1>0, <1>t, <1>w, <1>11, <2>1
         DEF CacheInv, FlushTip, BestOver, TypeOK, CleanEntriesAgree, FreshMeansAbsentBelow, FlushAssertHolds
  <1> QED
    BY <1>1, <1>2, <1>3, <1>4, <1>5, <1>6, <1>7, <1>8, <1>9, <1>10, <1>11 DEF Next

(* CacheInv is an invariant, whether or not writes fail.                   *)
LEMMA CacheInvHolds == Spec => []CacheInv
  <1> QED
    BY InitCacheInv, NextCacheInv, PTL DEF Spec

(* The caches, the database and the best blocks keep their types: above    *)
(* all, no spent CCoins is ever stored in the database.                    *)
THEOREM TypeCorrect == Spec => []TypeOK
  <1>1. CacheInv => TypeOK
    BY DEF CacheInv
  <1> QED
    BY <1>1, CacheInvHolds, PTL

(* The flags of both caches mean what coins.h says in every reachable      *)
(* state, and the assertion in CCoinsViewCache::BatchWrite never fires,    *)
(* even when the database refuses writes and the node crashes.             *)
THEOREM FlagsCorrect ==
    Spec => []FlagsAreSound
  <1>1. CacheInv => FlagsAreSound
    BY DEF CacheInv, FlagsAreSound
  <1> QED
    BY <1>1, CacheInvHolds, PTL

(***************************************************************************)
(* What each step does to the answers of the layers.                       *)
(***************************************************************************)

(* Reading the view changes no answer.                                     *)
LEMMA ReadViewAnswers ==
    ASSUME CacheInv, CacheInv', NEW x \in Txids, ReadView(x)
    PROVE  DbCoins' = DbCoins /\ TipCoins' = TipCoins /\ ViewCoins' = ViewCoins
  <1>1. DbCoins' = DbCoins /\ TipCoins' = TipCoins
    BY TipAskedInvisible DEF ReadView
  <1>2. \A y \in Txids : view'[y] = view[y] \/ (view[y] = Missing /\ view'[y] # Missing /\ ~view'[y].dirty)
    <2> DEFINE got == GetCoins(TipAsked(x), x)
               e == [coins |-> got, dirty |-> FALSE, fresh |-> (got = Pruned)]
    <2>1. ~e.dirty
      OBVIOUS
    <2>2. view' = IF got = Missing THEN view ELSE [view EXCEPT ![x] = e]
      BY DEF ReadView, FetchCoins
    <2>3. got # Missing => e \in Entry /\ e # Missing
      <3>1. TipAsked(x)[x] \in Entry \cup {Missing}
        BY TipAskedFacts DEF Cache
      <3>2. got # Missing => got \in Values
        BY <3>1, EntryFacts DEF GetCoins
      <3> QED
        BY <3>2, EntryFacts
    <2>4. view \in Cache /\ view[x] = Missing
      BY DEF ReadView, CacheInv, TypeOK
    <2> HIDE DEF e, got
    <2> QED
      BY <2>1, <2>2, <2>3, <2>4 DEF Cache
  <1>3. \A y \in Txids : view'[y] # Missing /\ ~view'[y].dirty => view'[y].coins = TipCoins'[y]
    BY DEF CacheInv, CleanEntriesAgree
  <1> QED
    BY <1>1, <1>2, <1>3 DEF ViewCoins

(* Modifying the view changes that one answer of the view, and no other.   *)
LEMMA ModifyCoinsAnswers ==
    ASSUME CacheInv, CacheInv', NEW x \in Txids, NEW c \in Values, ModifyCoins(x, c)
    PROVE  DbCoins' = DbCoins /\ TipCoins' = TipCoins /\ ViewCoins' = [ViewCoins EXCEPT ![x] = c]
  <1>1. DbCoins' = DbCoins /\ TipCoins' = TipCoins
    BY TipAskedInvisible DEF ModifyCoins, TipCoins, DbCoins
  <1>2. /\ \A y \in Txids : y # x => view'[y] = view[y]
        /\ view'[x] = ModifiedEntry(x, c)
    BY DEF ModifyCoins, CacheInv, TypeOK, Cache
  <1>3. ModifiedEntry(x, c) # Missing => ModifiedEntry(x, c).coins = c
    BY DEF ModifiedEntry
  <1>4. ModifiedEntry(x, c) = Missing => c = Pruned /\ TipCoins[x] = Pruned
    <2> DEFINE got == GetCoins(TipAsked(x), x)
               isFresh == IF view[x] = Missing THEN got \in {Missing, Pruned} ELSE view[x].fresh
               e == [coins |-> c, dirty |-> TRUE, fresh |-> isFresh]
    <2>1. isFresh => TipCoins[x] = Pruned
      BY FreshIsAbsent
    <2>2. isFresh \in BOOLEAN
      BY FreshIsAbsent
    <2>3. e # Missing
      <3> HIDE DEF isFresh
      <3> QED
        BY <2>2, EntryFacts
    <2>4. ModifiedEntry(x, c) = IF isFresh /\ c = Pruned THEN Missing ELSE e
      BY DEF ModifiedEntry
    <2> HIDE DEF e, isFresh
    <2> QED
      BY <2>1, <2>3, <2>4
  <1>5. \A y \in Txids : ViewCoins'[y] = IF y = x THEN c ELSE ViewCoins[y]
    BY <1>1, <1>2, <1>3, <1>4 DEF ViewCoins
  <1>6. ViewCoins' = [ViewCoins EXCEPT ![x] = c]
    BY <1>5 DEF ViewCoins
  <1> QED
    BY <1>1, <1>6

(* Flushing the view makes its answers the tip's.                          *)
LEMMA FlushViewAnswers ==
    ASSUME CacheInv, NEW b \in Blocks, FlushView(b)
    PROVE  DbCoins' = DbCoins /\ TipCoins' = ViewCoins
  <1>1. DbCoins' = DbCoins
    BY DEF FlushView, DbCoins
  <1>2. ASSUME NEW x \in Txids PROVE TipCoins'[x] = ViewCoins[x]
    <2>1. tip'[x] = BatchWriteEntry(view[x], tip[x])
      BY DEF FlushView
    <2>2. view[x] \in Entry \cup {Missing} /\ tip[x] \in Entry \cup {Missing}
      BY DEF CacheInv, TypeOK, Cache
    <2>3. TipCoins'[x] = IF tip'[x] = Missing THEN DbCoins[x] ELSE tip'[x].coins
      BY <1>1 DEF TipCoins
    <2>4. TipCoins[x] = IF tip[x] = Missing THEN DbCoins[x] ELSE tip[x].coins
      BY DEF TipCoins
    <2>5. ViewCoins[x] = IF view[x] = Missing THEN TipCoins[x] ELSE view[x].coins
      BY DEF ViewCoins
    <2>6. CASE view[x] = Missing \/ ~view[x].dirty
      BY <2>1, <2>2, <2>3, <2>4, <2>5, <2>6, BatchWriteEntryFacts DEF CacheInv, CleanEntriesAgree
    <2>7. CASE view[x] # Missing /\ view[x].dirty /\ tip'[x] # Missing
      BY <2>1, <2>2, <2>3, <2>5, <2>7, BatchWriteEntryFacts
    <2>8. CASE view[x] # Missing /\ view[x].dirty /\ tip'[x] = Missing
      <3>1. view[x].coins = Pruned /\ (tip[x] = Missing \/ tip[x].fresh)
        BY <2>1, <2>2, <2>8, BatchWriteEntryFacts
      <3>2. DbCoins[x] = Pruned
        BY <2>4, <2>8, <3>1 DEF CacheInv, FreshMeansAbsentBelow, FlushAssertHolds
      <3> QED
        BY <2>3, <2>5, <2>8, <3>1, <3>2
    <2> QED
      BY <2>6, <2>7, <2>8
  <1> QED
    BY <1>1, <1>2 DEF TipCoins, ViewCoins

(* Flushing the tip makes its answers the database's, and keeps them.      *)
LEMMA FlushTipAnswers ==
    ASSUME CacheInv, FlushTip
    PROVE  DbCoins' = TipCoins /\ TipCoins' = TipCoins
  <1>1. ASSUME NEW x \in Txids PROVE DbCoins'[x] = TipCoins[x]
    <2>1. db'[x] = DbWriteEntry(tip[x], db[x])
      BY DEF FlushTip
    <2>2. tip[x] \in Entry \cup {Missing}
      BY DEF CacheInv, TypeOK, Cache
    <2>3. DbCoins'[x] = IF db'[x] = Missing THEN Pruned ELSE db'[x]
      BY DEF DbCoins
    <2>4. DbCoins[x] = IF db[x] = Missing THEN Pruned ELSE db[x]
      BY DEF DbCoins
    <2>5. TipCoins[x] = IF tip[x] = Missing THEN DbCoins[x] ELSE tip[x].coins
      BY DEF TipCoins
    <2>6. CASE tip[x] = Missing \/ ~tip[x].dirty
      BY <2>1, <2>3, <2>4, <2>5, <2>6 DEF DbWriteEntry, CacheInv, CleanEntriesAgree
    <2>7. CASE tip[x] # Missing /\ tip[x].dirty
      <3>1. tip[x].coins # Missing
        BY <2>2, <2>7, EntryFacts, CacheAssumption
      <3> QED
        BY <2>1, <2>3, <2>5, <2>7, <3>1 DEF DbWriteEntry
    <2> QED
      BY <2>6, <2>7
  <1>2. DbCoins' = TipCoins
    BY <1>1 DEF DbCoins, TipCoins
  <1>3. TipCoins' = [x \in Txids |-> DbCoins'[x]]
    BY DEF TipCoins, FlushTip, Empty
  <1> QED
    BY <1>2, <1>3 DEF TipCoins

(***************************************************************************)
(* The tip and the database represent the block they name, until a write   *)
(* is refused: GetBestBlock is "the block hash whose state this            *)
(* CCoinsView currently represents".  Crashes are allowed anywhere.        *)
(***************************************************************************)
THEOREM BestBlockNamesState ==
    Spec => []BestIsRepresented
  <1> DEFINE Rep == TipRepresentsBest /\ DiskRepresentsBest
  <1>1. Init => Rep
    <2> SUFFICES ASSUME Init PROVE Rep
      OBVIOUS
    <2>1. DbCoins = [x \in Txids |-> Pruned] /\ TipCoins = [x \in Txids |-> Pruned]
      BY DEF Init, DbCoins, TipCoins, Empty
    <2>2. UtxoAfter[NullHash] = [x \in Txids |-> Pruned]
      BY CacheAssumption DEF AllBlocks
    <2> QED
      BY <2>1, <2>2 DEF Init, TipRepresentsBest, DiskRepresentsBest, TipBest, BestOver
  <1>2. Rep /\ CacheInv /\ CacheInv' /\ [Next]_vars => Rep'
    <2> SUFFICES ASSUME Rep, CacheInv, CacheInv', [Next]_vars PROVE Rep'
      OBVIOUS
    <2> USE DEF TipRepresentsBest, DiskRepresentsBest
    <2>1. ASSUME DbCoins' = DbCoins, TipCoins' = TipCoins, dbBest' = dbBest, TipBest' = TipBest,
                 refused' = refused
          PROVE  Rep'
      BY <2>1
    <2>2. CASE OpenView \/ DropView \/ UNCHANGED vars
      BY <2>1, <2>2 DEF OpenView, DropView, vars, DbCoins, TipCoins, TipBest
    <2>3. ASSUME NEW x \in Txids, ReadTip(x) PROVE Rep'
      BY <2>1, <2>3, TipAskedInvisible DEF ReadTip, TipBest
    <2>4. ASSUME NEW x \in Txids, ReadView(x) PROVE Rep'
      BY <2>1, <2>4, ReadViewAnswers DEF ReadView, TipBest
    <2>5. ASSUME NEW x \in Txids, NEW c \in Values, ModifyCoins(x, c) PROVE Rep'
      BY <2>1, <2>5, ModifyCoinsAnswers DEF ModifyCoins, TipBest
    <2>6. CASE GetBestBlock
      BY <2>1, <2>6 DEF GetBestBlock, DbCoins, TipCoins, TipBest, BestOver
    <2>7. ASSUME NEW b \in Blocks, FlushView(b) PROVE Rep'
      <3>1. TipBest' = b /\ dbBest' = dbBest /\ refused' = refused
        BY <2>7, CacheAssumption DEF FlushView, TipBest, BestOver
      <3>2. DbCoins' = DbCoins /\ TipCoins' = ViewCoins /\ ViewCoins = UtxoAfter[b]
        BY <2>7, FlushViewAnswers DEF FlushView
      <3> QED
        BY <3>1, <3>2
    <2>8. CASE FlushTip
      BY <2>8, FlushTipAnswers DEF FlushTip, TipBest, BestOver
    <2>9. CASE FlushTipFails
      BY <2>9 DEF FlushTipFails
    <2>10. CASE Crash
      <3>1. DbCoins' = DbCoins /\ TipCoins' = DbCoins
        BY <2>10 DEF Crash, DbCoins, TipCoins, Empty
      <3> QED
        BY <2>10, <3>1 DEF Crash, TipBest, BestOver
    <2> QED
      BY <2>2, <2>3, <2>4, <2>5, <2>6, <2>7, <2>8, <2>9, <2>10 DEF Next
  <1> QED
    BY <1>1, <1>2, CacheInvHolds, PTL DEF Spec, BestIsRepresented

(***************************************************************************)
(* Until a write is refused, the layered caches implement the store of     *)
(* whole blocks: every step, seen through what the layers answer, is a     *)
(* step of UtxoStore or changes nothing.                                   *)
(***************************************************************************)
THEOREM CachesImplementStore ==
    Spec => ImplementsStore
  <1>1. Init => Store!Init
    <2> SUFFICES ASSUME Init PROVE Store!Init
      OBVIOUS
    <2>1. DbCoins = [x \in Txids |-> Pruned] /\ TipCoins = [x \in Txids |-> Pruned]
      BY DEF Init, DbCoins, TipCoins, Empty
    <2> QED
      BY <2>1 DEF Init, Store!Init, TipBest, BestOver
  <1>2. CacheInv /\ CacheInv' /\ [Next]_vars => [Store!Next]_(Store!vars)
    <2> SUFFICES ASSUME CacheInv, CacheInv', [Next]_vars PROVE [Store!Next]_(Store!vars)
      OBVIOUS
    <2>0. ViewCoins \in [Txids -> Values] /\ ViewCoins # Missing
      <3>1. \A x \in Txids : ViewCoins[x] \in Values
        BY EntryFacts DEF CacheInv, TypeOK, Cache, ViewCoins, TipCoins, DbCoins, Values
      <3>2. ViewCoins \in [Txids -> Values]
        BY <3>1 DEF ViewCoins
      <3> QED
        BY <3>2, CacheAssumption
    <2>1. ASSUME DbCoins' = DbCoins, TipCoins' = TipCoins, dbBest' = dbBest, TipBest' = TipBest,
                 viewOpen' = viewOpen, viewOpen => ViewCoins' = ViewCoins, refused' = refused
          PROVE  UNCHANGED Store!vars
      BY <2>1 DEF Store!vars
    <2>2. CASE OpenView
      <3>1. DbCoins' = DbCoins /\ TipCoins' = TipCoins /\ TipBest' = TipBest
        BY <2>2 DEF OpenView, DbCoins, TipCoins, TipBest
      <3>2. ViewCoins' = TipCoins
        BY <2>2, <3>1 DEF OpenView, ViewCoins, Empty, TipCoins
      <3> QED
        BY <2>2, <3>1, <3>2 DEF OpenView, Store!Begin, Store!Next
    <2>3. ASSUME NEW x \in Txids, ReadTip(x) PROVE UNCHANGED Store!vars
      <3>1. DbCoins' = DbCoins /\ TipCoins' = TipCoins
        BY <2>3, TipAskedInvisible DEF ReadTip
      <3> QED
        BY <2>1, <2>3, <3>1 DEF ReadTip, TipBest, ViewCoins
    <2>4. ASSUME NEW x \in Txids, ReadView(x) PROVE UNCHANGED Store!vars
      BY <2>1, <2>4, ReadViewAnswers DEF ReadView, TipBest
    <2>5. ASSUME NEW x \in Txids, NEW c \in Values, ModifyCoins(x, c) PROVE Store!Write(x, c)
      <3>1. DbCoins' = DbCoins /\ TipCoins' = TipCoins /\ ViewCoins' = [ViewCoins EXCEPT ![x] = c]
        BY <2>5, ModifyCoinsAnswers
      <3> QED
        BY <2>0, <2>5, <3>1 DEF ModifyCoins, Store!Write, TipBest
    <2>6. CASE GetBestBlock
      BY <2>1, <2>6 DEF GetBestBlock, DbCoins, TipCoins, ViewCoins, TipBest, BestOver
    <2>7. ASSUME NEW b \in Blocks, FlushView(b) PROVE Store!Commit(b)
      <3>1. TipBest' = b
        BY <2>7, CacheAssumption DEF FlushView, TipBest, BestOver
      <3>2. DbCoins' = DbCoins /\ TipCoins' = ViewCoins
        BY <2>7, FlushViewAnswers
      <3> QED
        BY <2>0, <2>7, <3>1, <3>2 DEF FlushView, Store!Commit
    <2>8. CASE FlushTip
      <3>1. DbCoins' = TipCoins /\ TipCoins' = TipCoins
        BY <2>8, FlushTipAnswers
      <3>2. dbBest' = TipBest /\ TipBest' = TipBest
        BY <2>8 DEF FlushTip, TipBest, BestOver
      <3> QED
        BY <2>8, <3>1, <3>2 DEF FlushTip, Store!Sync, Store!Next
    <2>9. CASE FlushTipFails
      BY <2>9 DEF FlushTipFails, Store!Lose, Store!Next
    <2>10. CASE Crash
      <3>1. DbCoins' = DbCoins /\ TipCoins' = DbCoins
        BY <2>10 DEF Crash, DbCoins, TipCoins, Empty
      <3> QED
        BY <2>10, <3>1 DEF Crash, TipBest, BestOver, Store!Crash, Store!Next
    <2>11. CASE DropView
      <3>1. DbCoins' = DbCoins /\ TipCoins' = TipCoins /\ TipBest' = TipBest
        BY <2>11 DEF DropView, DbCoins, TipCoins, TipBest
      <3> QED
        BY <2>0, <2>11, <3>1 DEF DropView, Store!Abort, Store!Next
    <2>12. CASE UNCHANGED vars
      BY <2>1, <2>12 DEF vars, DbCoins, TipCoins, ViewCoins, TipBest
    <2> QED
      BY <2>2, <2>3, <2>4, <2>5, <2>6, <2>7, <2>8, <2>9, <2>10, <2>11, <2>12
         DEF Next, Store!Next, Values
  <1> QED
    BY <1>1, <1>2, CacheInvHolds, PTL DEF Spec, ImplementsStore, Store!Spec
-----------------------------------------------------------------------------
(* The key pool. *)

(* The last element of a set of numbers, and the first. *)
LEMMA MinIs == ASSUME NEW t, t \subseteq Nat, t # {} PROVE Min(t) \in t /\ \A x \in t : Min(t) <= x
<1>1. \E x \in t : \A y \in t : x <= y
  BY LeastNat
<1>2. Min(t) \in t /\ \A y \in t : Min(t) <= y
  BY <1>1 DEF Min
<1> QED BY <1>2

(* What the set, the records and the reservations have to do with each       *)
(* other.  No index and no key is beyond the number of keys generated.  As   *)
(* long as no index was filled anew under a holder, every record is of an    *)
(* index in the set or of a reserved one, no two have the same key, none has *)
(* a key that was used, and a reservation is of the record it was made from. *)
KeyTyped ==
    /\ setKeyPool \subseteq 1 .. keys
    /\ DOMAIN file \subseteq 1 .. keys /\ \A i \in DOMAIN file : file[i] \in 1 .. keys
    /\ file = [i \in DOMAIN file |-> file[i]]
    /\ held \in [Holders -> {NotHeld} \cup [index : 1 .. keys, key : 1 .. keys]]
    /\ used \subseteq 1 .. keys
    /\ crypt \in {"plain", "locked", "unlocked"}
    /\ keys \in 0 .. MaxKeys
    /\ reused \in BOOLEAN /\ restarts \in 0 .. MaxCrashes

RecordsAreHeld ==
    /\ DOMAIN file = setKeyPool \cup {held[h].index : h \in {g \in Holders : held[g] # NotHeld}}
    /\ \A i, j \in DOMAIN file : file[i] = file[j] => i = j
    /\ \A i \in DOMAIN file : file[i] \notin used
    /\ \A h \in Holders : held[h] # NotHeld =>
          held[h].index \notin setKeyPool /\ held[h].key = file[held[h].index]
    /\ \A g, h \in Holders : held[g] # NotHeld /\ held[h] # NotHeld /\ g # h => held[g].index # held[h].index

(* In an unencrypted wallet the set never runs out, and what was reserved is *)
(* behind its last index.                                                    *)
HeldIsBehind ==
    crypt = "plain" /\ Target > 0 => \A h \in Holders : held[h] # NotHeld => \E i \in setKeyPool : i > held[h].index

KeyInv == KeyTyped /\ (~reused => RecordsAreHeld /\ HeldIsBehind)

LEMMA KeyConstants == Target \in Nat /\ MaxKeys \in Nat /\ MaxCrashes \in Nat
  BY KeyPoolAssumption

LEMMA KeyInitOK == KeyInit => KeyInv
<1> SUFFICES ASSUME KeyInit PROVE KeyInv
  OBVIOUS
<1> USE KeyConstants DEF KeyInit
<1>1. DOMAIN file = {} /\ file = [i \in DOMAIN file |-> file[i]]
  OBVIOUS
<1>2. KeyTyped
  <2>1. held \in [Holders -> {NotHeld} \cup [index : 1 .. keys, key : 1 .. keys]]
    OBVIOUS
  <2>2. keys = 0 /\ restarts = 0 /\ 0 \in 0 .. MaxKeys /\ 0 \in 0 .. MaxCrashes
    OBVIOUS
  <2> QED BY <1>1, <2>1, <2>2, Zenon DEF KeyTyped
<1>3. RecordsAreHeld
  BY <1>1 DEF RecordsAreHeld
<1>4. HeldIsBehind
  BY DEF HeldIsBehind
<1> QED BY <1>2, <1>3, <1>4 DEF KeyInv

LEMMA KeyInvImplies == KeyInv => KeyTypeOK /\ KeyServesOnce /\ PoolIsReadable
<1> SUFFICES ASSUME KeyInv PROVE KeyTypeOK /\ KeyServesOnce /\ PoolIsReadable
  OBVIOUS
<1> USE KeyConstants
<1>1. KeyTypeOK
  BY DEF KeyInv, KeyTyped, KeyTypeOK, Reservations, NotHeld
<1>2. PoolIsReadable
  BY DEF KeyInv, RecordsAreHeld, PoolIsReadable
<1>3. KeyServesOnce
  <2> SUFFICES ASSUME ~reused
               PROVE  /\ \A i \in DOMAIN file : file[i] \notin used
                      /\ \A h \in Holders : held[h].key \notin used
                      /\ \A g, h \in Holders : g # h /\ held[g] # NotHeld => held[g].key # held[h].key
    BY DEF KeyServesOnce
  <2> USE DEF KeyInv
  <2>1. \A i \in DOMAIN file : file[i] \notin used
    BY DEF RecordsAreHeld
  <2>2. ASSUME NEW h \in Holders, held[h] = NotHeld PROVE held[h].key = 0 /\ held[h].key \notin used
    BY <2>2 DEF KeyTyped, NotHeld
  <2>3. ASSUME NEW h \in Holders, held[h] # NotHeld
        PROVE  held[h].index \in DOMAIN file /\ held[h].key = file[held[h].index] /\ held[h].key \in 1 .. keys
    BY <2>3 DEF RecordsAreHeld, KeyTyped
  <2>4. \A h \in Holders : held[h].key \notin used
    BY <2>1, <2>2, <2>3
  <2>5. ASSUME NEW g \in Holders, NEW h \in Holders, g # h, held[g] # NotHeld PROVE held[g].key # held[h].key
    <3>1. CASE held[h] = NotHeld
      BY <2>2, <2>3, <2>5, <3>1
    <3>2. CASE held[h] # NotHeld
      <4>1. held[g].index # held[h].index
        BY <2>5, <3>2 DEF RecordsAreHeld
      <4>2. file[held[g].index] # file[held[h].index]
        BY <4>1, <2>3, <2>5, <3>2 DEF RecordsAreHeld
      <4> QED BY <4>2, <2>3, <2>5, <3>2
    <3> QED BY <3>1, <3>2
  <2> QED BY <2>1, <2>4, <2>5
<1> QED BY <1>1, <1>2, <1>3

LEMMA PoolIsFinite == KeyInv => IsFiniteSet(setKeyPool) /\ Cardinality(setKeyPool) \in Nat
<1> SUFFICES ASSUME KeyInv PROVE IsFiniteSet(setKeyPool) /\ Cardinality(setKeyPool) \in Nat
  OBVIOUS
<1>1. keys \in Int /\ 1 \in Int /\ setKeyPool \subseteq 1 .. keys
  BY KeyConstants DEF KeyInv, KeyTyped
<1>2. IsFiniteSet(1 .. keys)
  BY <1>1, FS_Interval
<1> QED BY <1>1, <1>2, FS_Subset, FS_CardinalityType

LEMMA TopsWhere ==
    ASSUME KeyInv, KeysMissing > 0
    PROVE  /\ KeysMissing \in Nat /\ NextIndex \in 1 .. keys + 1
           /\ \A i \in setKeyPool : i < NextIndex
           /\ NewIndexes = NextIndex .. NextIndex + KeysMissing - 1
           /\ NextIndex \in NewIndexes /\ Min(NewIndexes) = NextIndex
           /\ NewIndexes \subseteq 1 .. keys + KeysMissing
           /\ \E i, j \in setKeyPool \cup NewIndexes : Target > 0 => i # j
<1> USE KeyConstants
<1>1. keys \in Nat /\ setKeyPool \in SUBSET (1 .. keys)
  BY DEF KeyInv, KeyTyped
<1>2. IsFiniteSet(setKeyPool) /\ Cardinality(setKeyPool) \in Nat
  BY PoolIsFinite
<1>3. KeysMissing \in Nat /\ KeysMissing > 0 /\ Cardinality(setKeyPool) + KeysMissing = Target + 1
  BY <1>2 DEF KeysMissing
<1>4. NextIndex \in 1 .. keys + 1 /\ \A i \in setKeyPool : i < NextIndex
  <2>1. CASE setKeyPool = {}
    BY <1>1, <2>1 DEF NextIndex
  <2>2. CASE setKeyPool # {}
    <3>1. Max(setKeyPool) \in setKeyPool /\ \A x \in setKeyPool : x <= Max(setKeyPool)
      BY <1>1, <2>2, MaxIs
    <3>2. NextIndex = Max(setKeyPool) + 1
      BY <2>2 DEF NextIndex
    <3>3. PICK z : z = Max(setKeyPool)
      OBVIOUS
    <3>0. \A x \in setKeyPool : x \in Nat /\ x \in 1 .. keys
      BY <1>1
    <3>4. z \in 1 .. keys /\ \A x \in setKeyPool : x \in Nat /\ x <= z
      BY <3>0, <3>1, <3>3
    <3>5. z + 1 \in 1 .. keys + 1 /\ \A x \in setKeyPool : x < z + 1
      BY <1>1, <3>4
    <3> QED BY <3>2, <3>3, <3>5
  <2> QED BY <2>1, <2>2
<1> DEFINE n == NextIndex
           k == KeysMissing
<1> HIDE DEF n, k
<1>5. n \in Nat /\ n <= keys + 1 /\ n >= 1 /\ k \in Nat /\ k > 0
  BY <1>1, <1>3, <1>4 DEF n, k
<1>6. NewIndexes = n .. n + k - 1
  BY DEF NewIndexes, n, k
<1>7. n \in NewIndexes /\ NewIndexes \subseteq 1 .. keys + k
  BY <1>1, <1>5, <1>6
<1>8. Min(NewIndexes) = n
  <2>1. NewIndexes \subseteq Nat /\ NewIndexes # {}
    BY <1>1, <1>5, <1>7
  <2>2. Min(NewIndexes) \in NewIndexes /\ \A x \in NewIndexes : Min(NewIndexes) <= x
    BY <2>1, MinIs
  <2> QED BY <2>1, <2>2, <1>5, <1>6, <1>7
<1>9. \E i, j \in setKeyPool \cup NewIndexes : Target > 0 => i # j
  <2>1. CASE setKeyPool = {}
    <3>1. k = Target + 1
      BY <1>3, <2>1, FS_EmptySet DEF k
    <3>2. Target > 0 => n + 1 \in NewIndexes /\ n # n + 1
      BY <1>5, <1>6, <3>1
    <3> QED BY <1>7, <3>2
  <2>2. CASE setKeyPool # {}
    <3>1. PICK i \in setKeyPool : TRUE
      BY <2>2
    <3>2. i < n
      BY <1>4 DEF n
    <3> QED BY <1>1, <1>5, <1>7, <3>1, <3>2
  <2> QED BY <2>1, <2>2
<1> QED BY <1>3, <1>4, <1>6, <1>7, <1>8, <1>9 DEF n, k

(* What the pool is like after it was topped up: the facts of RecordsAreHeld *)
(* for the new set and the new records.                                      *)
Topped(s, f, k) ==
    /\ s \in SUBSET (1 .. k) /\ DOMAIN f \subseteq 1 .. k /\ \A i \in DOMAIN f : f[i] \in 1 .. k
    /\ f = [i \in DOMAIN f |-> f[i]]
    /\ k \in Nat /\ keys <= k

ToppedWell(s, f) ==
    /\ DOMAIN f = s \cup {held[h].index : h \in {g \in Holders : held[g] # NotHeld}}
    /\ \A i, j \in DOMAIN f : f[i] = f[j] => i = j
    /\ \A i \in DOMAIN f : f[i] \notin used
    /\ \A h \in Holders : held[h] # NotHeld => held[h].index \notin s /\ held[h].key = f[held[h].index]

LEMMA TopsOK ==
    ASSUME KeyInv, KeysMissing > 0
    PROVE  /\ Topped(setKeyPool \cup NewIndexes, WithNewKeys(file, NewIndexes), keys + KeysMissing)
           /\ ~reused /\ NewIndexes \cap HeldIndexes = {} =>
                 ToppedWell(setKeyPool \cup NewIndexes, WithNewKeys(file, NewIndexes))
           /\ ~reused /\ crypt = "plain" /\ Target > 0 => NewIndexes \cap HeldIndexes = {}
<1> DEFINE N == NewIndexes
           n == NextIndex
           m == KeysMissing
           W == WithNewKeys(file, N)
<1> USE KeyConstants
<1>1. /\ m \in Nat /\ m > 0 /\ n \in 1 .. keys + 1 /\ \A i \in setKeyPool : i < n
      /\ N = n .. n + m - 1 /\ Min(N) = n /\ N \subseteq 1 .. keys + m
  BY TopsWhere
<1>2. keys \in Nat /\ setKeyPool \subseteq 1 .. keys /\ DOMAIN file \subseteq 1 .. keys /\ \A i \in DOMAIN file : file[i] \in 1 .. keys
  BY DEF KeyInv, KeyTyped
<1>3. /\ DOMAIN W = DOMAIN file \cup N /\ W = [i \in DOMAIN W |-> W[i]]
      /\ \A i \in N : W[i] = keys + 1 + i - n
      /\ \A i \in DOMAIN file \ N : W[i] = file[i]
  BY <1>1 DEF WithNewKeys
<1> HIDE DEF N, n, m, W
<1>4. \A i \in N : W[i] \in keys + 1 .. keys + m
  BY <1>1, <1>2, <1>3
<1>5. Topped(setKeyPool \cup N, W, keys + m)
  <2>1. \A i \in DOMAIN W : W[i] \in 1 .. keys + m
    BY <1>1, <1>2, <1>3, <1>4
  <2>2. setKeyPool \cup N \in SUBSET (1 .. keys + m) /\ DOMAIN W \subseteq 1 .. keys + m
    BY <1>1, <1>2, <1>3
  <2> QED BY <1>1, <1>2, <1>3, <2>1, <2>2 DEF Topped
<1>6. ASSUME ~reused, N \cap HeldIndexes = {} PROVE ToppedWell(setKeyPool \cup N, W)
  <2>0. RecordsAreHeld
    BY <1>6 DEF KeyInv
  <2>1. \A h \in Holders : held[h].index \notin N
    BY <1>6 DEF HeldIndexes
  <2>2. N \cap DOMAIN file = {}
    <3>1. \A i \in setKeyPool : i \notin N
      BY <1>1, <1>2
    <3> QED BY <2>0, <2>1, <3>1 DEF RecordsAreHeld
  <2>3. \A i \in DOMAIN file : W[i] = file[i] /\ W[i] \in 1 .. keys
    BY <1>2, <1>3, <2>2
  <2>4. DOMAIN W = (setKeyPool \cup N) \cup {held[h].index : h \in {g \in Holders : held[g] # NotHeld}}
    BY <1>3, <2>0 DEF RecordsAreHeld
  <2>5. \A i, j \in DOMAIN W : W[i] = W[j] => i = j
    <3>1. ASSUME NEW i \in N, NEW j \in N, W[i] = W[j] PROVE i = j
      BY <1>1, <1>2, <1>3, <3>1
    <3>2. ASSUME NEW i \in N, NEW j \in DOMAIN file PROVE W[i] # W[j]
      BY <1>1, <1>2, <1>4, <2>3
    <3>3. ASSUME NEW i \in DOMAIN file, NEW j \in DOMAIN file, W[i] = W[j] PROVE i = j
      BY <3>3, <2>3, <2>0 DEF RecordsAreHeld
    <3> QED BY <3>1, <3>2, <3>3, <1>3
  <2>6. \A i \in DOMAIN W : W[i] \notin used
    <3>1. used \subseteq 1 .. keys
      BY DEF KeyInv, KeyTyped
    <3>2. \A i \in N : W[i] \notin used
      BY <3>1, <1>1, <1>2, <1>4
    <3>3. \A i \in DOMAIN file : W[i] \notin used
      BY <2>0, <2>3 DEF RecordsAreHeld
    <3> QED BY <3>2, <3>3, <1>3
  <2>7. ASSUME NEW h \in Holders, held[h] # NotHeld
        PROVE  held[h].index \notin setKeyPool \cup N /\ held[h].key = W[held[h].index]
    <3>1. held[h].index \in DOMAIN file
      BY <2>7, <2>0 DEF RecordsAreHeld
    <3> QED BY <3>1, <2>7, <2>0, <2>1, <2>3 DEF RecordsAreHeld
  <2> QED BY <2>4, <2>5, <2>6, <2>7 DEF ToppedWell
<1>7. ASSUME ~reused, crypt = "plain", Target > 0 PROVE N \cap HeldIndexes = {}
  <2>1. ASSUME NEW h \in Holders PROVE held[h].index \notin N
    <3>1. CASE held[h] = NotHeld
      BY <1>1, <1>2, <3>1 DEF NotHeld
    <3>2. CASE held[h] # NotHeld
      <4>1. PICK i \in setKeyPool : i > held[h].index
        BY <1>7, <3>2 DEF KeyInv, HeldIsBehind
      <4>2. held[h].index \in 1 .. keys
        BY <3>2 DEF KeyInv, KeyTyped
      <4> QED BY <1>1, <1>2, <4>1, <4>2
    <3> QED BY <3>1, <3>2
  <2> QED BY <2>1 DEF HeldIndexes
<1> QED BY <1>5, <1>6, <1>7 DEF N, m, W

(* The same of TopUpKeyPool, whether it does something or not. *)
LEMMA TopUpOK ==
    ASSUME KeyInv, TopUp
    PROVE  /\ Topped(SetTopped, FileTopped, keys') /\ keys' <= MaxKeys /\ reused' \in BOOLEAN
           /\ reused => reused'
           /\ ~reused' => ToppedWell(SetTopped, FileTopped)
           /\ setKeyPool \subseteq SetTopped
           /\ crypt = "plain" /\ Target > 0 /\ ~reused => ~reused'
           /\ crypt = "plain" /\ Target > 0 => \E i, j \in SetTopped : i # j
<1> USE KeyConstants
<1>1. keys \in 0 .. MaxKeys /\ reused \in BOOLEAN /\ setKeyPool \in SUBSET (1 .. keys)
  BY DEF KeyInv, KeyTyped
<1>2. IsFiniteSet(setKeyPool) /\ Cardinality(setKeyPool) \in Nat
  BY PoolIsFinite
<1>3. CASE Tops
  <2>1. KeysMissing > 0 /\ crypt # "locked"
    BY <1>3 DEF Tops, IsLocked
  <2>2. /\ SetTopped = setKeyPool \cup NewIndexes /\ FileTopped = WithNewKeys(file, NewIndexes)
        /\ keys' = keys + KeysMissing /\ keys' <= MaxKeys
        /\ reused' = (reused \/ NewIndexes \cap HeldIndexes # {})
    BY <1>3 DEF TopUp, SetTopped, FileTopped
  <2>3. \E i, j \in SetTopped : Target > 0 => i # j
    BY <2>1, <2>2, TopsWhere
  <2> QED BY <1>1, <2>1, <2>2, <2>3, TopsOK
<1>4. CASE ~Tops
  <2>1. SetTopped = setKeyPool /\ FileTopped = file /\ keys' = keys /\ reused' = reused
    BY <1>1, <1>4 DEF TopUp, SetTopped, FileTopped
  <2>2. Topped(setKeyPool, file, keys)
    BY DEF KeyInv, KeyTyped, Topped
  <2>3. ~reused => ToppedWell(setKeyPool, file)
    BY DEF KeyInv, RecordsAreHeld, ToppedWell
  <2>4. ASSUME crypt = "plain", Target > 0 PROVE \E i, j \in setKeyPool : i # j
    <3>1. Cardinality(setKeyPool) >= Target + 1
      BY <1>2, <1>4, <2>4 DEF Tops, IsLocked, KeysMissing
    <3>2. PICK i \in setKeyPool : TRUE
      BY <3>1, <2>4, FS_EmptySet
    <3>3. setKeyPool # {i}
      <4>1. Cardinality({i}) = 1
        BY FS_Singleton
      <4> QED BY <4>1, <3>1, <2>4
    <3> QED BY <3>2, <3>3
  <2> QED BY <1>1, <2>1, <2>2, <2>3, <2>4
<1> QED BY <1>3, <1>4

(* The set, the records and the count after a step that leaves the           *)
(* reservations alone and tops the pool up.                                  *)
LEMMA ToppedInv ==
    ASSUME KeyInv, Topped(setKeyPool', file', keys'), keys' <= MaxKeys, reused' \in BOOLEAN, reused => reused',
           ~reused' => ToppedWell(setKeyPool', file'),
           crypt' \in {"plain", "locked", "unlocked"}, crypt' = "plain" => crypt = "plain" /\ setKeyPool \subseteq setKeyPool',
           UNCHANGED <<held, used, restarts>>
    PROVE  KeyInv'
<1> USE KeyConstants
<1>1. KeyTyped'
  <2>1. keys \in Nat /\ keys' \in Nat /\ keys <= keys'
    BY DEF KeyInv, KeyTyped, Topped
  <2>2. 1 .. keys \subseteq 1 .. keys'
    BY <2>1
  <2>3. held' \in [Holders -> {NotHeld} \cup [index : 1 .. keys', key : 1 .. keys']]
    BY <2>2 DEF KeyInv, KeyTyped
  <2>4. used' \subseteq 1 .. keys'
    BY <2>2 DEF KeyInv, KeyTyped
  <2>5. keys' \in 0 .. MaxKeys /\ restarts' \in 0 .. MaxCrashes
    BY <2>1 DEF KeyInv, KeyTyped
  <2> QED BY <2>3, <2>4, <2>5 DEF KeyTyped, Topped
<1>2. ASSUME ~reused' PROVE RecordsAreHeld' /\ HeldIsBehind'
  <2>1. ~reused /\ RecordsAreHeld /\ HeldIsBehind
    BY <1>2 DEF KeyInv
  <2>2. RecordsAreHeld'
    BY <1>2, <2>1 DEF ToppedWell, RecordsAreHeld
  <2>3. HeldIsBehind'
    BY <2>1 DEF HeldIsBehind
  <2> QED BY <2>2, <2>3
<1> QED BY <1>1, <1>2 DEF KeyInv

LEMMA KeyTopUpStep == ASSUME KeyInv, TopUpKeyPool PROVE KeyInv'
<1>1. TopUp /\ setKeyPool' = SetTopped /\ file' = FileTopped /\ UNCHANGED <<held, used, crypt, restarts>>
  BY DEF TopUpKeyPool
<1>2. crypt \in {"plain", "locked", "unlocked"}
  BY DEF KeyInv, KeyTyped
<1> QED BY <1>1, <1>2, TopUpOK, ToppedInv

LEMMA KeyUnlockStep == ASSUME KeyInv, Unlock PROVE KeyInv'
<1> USE KeyConstants DEF Unlock
<1>1. CASE KeysMissing > 0
  <2>1. /\ setKeyPool' = setKeyPool \cup NewIndexes /\ file' = WithNewKeys(file, NewIndexes)
        /\ keys' = keys + KeysMissing /\ keys' <= MaxKeys
        /\ reused' = (reused \/ NewIndexes \cap HeldIndexes # {})
    BY <1>1
  <2>2. reused \in BOOLEAN
    BY DEF KeyInv, KeyTyped
  <2> QED BY <1>1, <2>1, <2>2, TopsOK, ToppedInv
<1>2. CASE ~(KeysMissing > 0)
  <2>1. KeysMissing = 0
    BY <1>2, PoolIsFinite DEF KeysMissing
  <2>2. keys' = keys /\ setKeyPool' = setKeyPool /\ file' = file /\ reused' = reused /\ keys \in 0 .. MaxKeys
    BY <2>1 DEF KeyInv, KeyTyped
  <2>3. Topped(setKeyPool', file', keys')
    BY <2>2 DEF KeyInv, KeyTyped, Topped
  <2>4. ~reused' => ToppedWell(setKeyPool', file')
    BY <2>2 DEF KeyInv, RecordsAreHeld, ToppedWell
  <2>5. reused' \in BOOLEAN
    BY <2>2 DEF KeyInv, KeyTyped
  <2> QED BY <2>2, <2>3, <2>4, <2>5, ToppedInv
<1> QED BY <1>1, <1>2

LEMMA KeyLockStep == ASSUME KeyInv, LockWallet PROVE KeyInv'
<1>1. KeyTyped'
  BY DEF KeyInv, KeyTyped, LockWallet
<1>2. ~reused' => RecordsAreHeld' /\ HeldIsBehind'
  BY DEF KeyInv, RecordsAreHeld, HeldIsBehind, LockWallet
<1> QED BY <1>1, <1>2 DEF KeyInv

(* The oldest index leaves the set.  Behind the others something is left.    *)
LEMMA MinLeaves ==
    ASSUME KeyInv, TopUp, SetTopped # {}
    PROVE  /\ Min(SetTopped) \in SetTopped
           /\ crypt = "plain" /\ Target > 0 =>
                 \E i \in SetTopped \ {Min(SetTopped)} : i > Min(SetTopped)
<1> DEFINE S == SetTopped
<1>1. S \subseteq Nat
  BY TopUpOK DEF Topped
<1>2. Min(S) \in S /\ \A x \in S : Min(S) <= x
  <2> HIDE DEF S
  <2>1. S # {}
    BY DEF S
  <2> QED BY <1>1, <2>1, MinIs
<1>3. crypt = "plain" /\ Target > 0 => \E i, j \in S : i # j
  BY TopUpOK
<1> HIDE DEF S
<1>4. ASSUME NEW i \in S, NEW j \in S, i # j PROVE \E x \in S \ {Min(S)} : x > Min(S)
  <2>1. PICK z : z = Min(S)
    OBVIOUS
  <2>2. z \in Nat /\ i \in Nat /\ j \in Nat /\ z <= i /\ z <= j
    BY <1>1, <1>2, <2>1
  <2>3. i > z \/ j > z
    BY <2>2, <1>4
  <2> QED BY <2>1, <2>2, <2>3
<1> QED BY <1>2, <1>3, <1>4 DEF S

LEMMA KeyReserveStep == ASSUME KeyInv, NEW h \in Holders, Reserve(h) PROVE KeyInv'
<1> DEFINE S == SetTopped
           F == FileTopped
           i == Min(SetTopped)
<1> USE KeyConstants
<1>1. /\ held[h] = NotHeld /\ TopUp /\ file' = F /\ S # {}
      /\ setKeyPool' = S \ {i}
      /\ held' = [held EXCEPT ![h] = IF i \in DOMAIN F THEN [index |-> i, key |-> F[i]] ELSE held[h]]
      /\ UNCHANGED <<used, crypt, restarts>>
  BY DEF Reserve
<1>2. /\ Topped(S, F, keys') /\ keys' <= MaxKeys /\ reused' \in BOOLEAN /\ (reused => reused')
      /\ ~reused' => ToppedWell(S, F)
      /\ setKeyPool \subseteq S
  BY <1>1, TopUpOK
<1>3. i \in S /\ (crypt = "plain" /\ Target > 0 => \E x \in S \ {i} : x > i)
  BY <1>1, MinLeaves
<1>0. held \in [Holders -> {NotHeld} \cup [index : 1 .. keys, key : 1 .. keys]] /\ used \subseteq 1 .. keys /\ keys \in Nat
  BY DEF KeyInv, KeyTyped
<1> HIDE DEF S, F, i
<1>4. keys' \in Nat /\ 1 .. keys \subseteq 1 .. keys' /\ S \subseteq 1 .. keys' /\ \A x \in DOMAIN F : x \in 1 .. keys' /\ F[x] \in 1 .. keys'
  BY <1>0, <1>2 DEF Topped
<1>5. KeyTyped'
  <2>1. (IF i \in DOMAIN F THEN [index |-> i, key |-> F[i]] ELSE held[h]) \in {NotHeld} \cup [index : 1 .. keys', key : 1 .. keys']
    BY <1>1, <1>4
  <2>2. \A g \in Holders : held[g] \in {NotHeld} \cup [index : 1 .. keys', key : 1 .. keys']
    BY <1>0, <1>4
  <2>3. held' \in [Holders -> {NotHeld} \cup [index : 1 .. keys', key : 1 .. keys']]
    BY <1>0, <1>1, <2>1, <2>2
  <2>4. used' \subseteq 1 .. keys' /\ setKeyPool' \subseteq 1 .. keys'
    BY <1>0, <1>1, <1>4
  <2>5. crypt' \in {"plain", "locked", "unlocked"} /\ keys' \in 0 .. MaxKeys /\ restarts' \in 0 .. MaxCrashes
    BY <1>1, <1>2, <1>4 DEF KeyInv, KeyTyped
  <2> QED BY <1>1, <1>2, <2>3, <2>4, <2>5 DEF KeyTyped, Topped
<1>6. ASSUME ~reused' PROVE RecordsAreHeld' /\ HeldIsBehind'
  <2>0. ~reused /\ RecordsAreHeld /\ HeldIsBehind /\ ToppedWell(S, F)
    BY <1>2, <1>6 DEF KeyInv
  <2>1. i \in DOMAIN F /\ held' = [held EXCEPT ![h] = [index |-> i, key |-> F[i]]]
    BY <1>1, <1>3, <2>0 DEF ToppedWell
  <2>2. /\ held'[h] = [index |-> i, key |-> F[i]] /\ held'[h] # NotHeld
        /\ \A g \in Holders : g # h => held'[g] = held[g]
        /\ DOMAIN held' = Holders
    <3>1. i # -1
      BY <1>3, <1>4
    <3> QED BY <1>0, <2>1, <3>1 DEF NotHeld
  <2>3. RecordsAreHeld'
    <3>1. {held'[g].index : g \in {f \in Holders : held'[f] # NotHeld}}
             = {held[g].index : g \in {f \in Holders : held[f] # NotHeld}} \cup {i}
      BY <1>1, <2>2
    <3>2. DOMAIN file' = setKeyPool' \cup {held'[g].index : g \in {f \in Holders : held'[f] # NotHeld}}
      BY <1>1, <1>3, <2>0, <3>1 DEF ToppedWell
    <3>3. ASSUME NEW g \in Holders, held'[g] # NotHeld
          PROVE  held'[g].index \notin setKeyPool' /\ held'[g].key = file'[held'[g].index]
      BY <1>1, <2>0, <2>2, <3>3 DEF ToppedWell
    <3>4. ASSUME NEW f \in Holders, NEW g \in Holders, held'[f] # NotHeld, held'[g] # NotHeld, f # g
          PROVE  held'[f].index # held'[g].index
      BY <1>1, <1>3, <2>0, <2>2, <3>4 DEF ToppedWell, RecordsAreHeld
    <3> QED BY <1>1, <2>0, <3>2, <3>3, <3>4 DEF ToppedWell, RecordsAreHeld
  <2>4. HeldIsBehind'
    <3> SUFFICES ASSUME crypt = "plain", Target > 0, NEW g \in Holders, held'[g] # NotHeld
                 PROVE  \E x \in setKeyPool' : x > held'[g].index
      BY <1>1 DEF HeldIsBehind
    <3>1. PICK x \in S \ {i} : x > i
      BY <1>3
    <3>2. CASE g = h
      BY <1>1, <2>2, <3>1, <3>2
    <3>3. CASE g # h
      <4>1. PICK y \in setKeyPool : y > held[g].index
        BY <2>0, <2>2, <3>3 DEF HeldIsBehind
      <4>2. y \in S /\ y \in Nat /\ x \in Nat /\ i \in Nat /\ held[g].index \in Nat
        BY <1>0, <1>2, <1>3, <1>4, <2>2, <3>1, <3>3, <4>1
      <4> QED BY <1>1, <2>2, <3>1, <3>3, <4>1, <4>2
    <3> QED BY <3>2, <3>3
  <2> QED BY <2>3, <2>4
<1> QED BY <1>5, <1>6 DEF KeyInv

LEMMA KeyKeepStep == ASSUME KeyInv, NEW h \in Holders, KeepKey(h) PROVE KeyInv'
<1> USE KeyConstants
<1> DEFINE n == held[h].index
<1>1. /\ held[h] # NotHeld
      /\ file' = [x \in DOMAIN file \ {n} |-> file[x]] /\ used' = used \cup {held[h].key}
      /\ held' = [held EXCEPT ![h] = NotHeld] /\ UNCHANGED <<setKeyPool, crypt, keys, reused, restarts>>
  BY DEF KeepKey
<1>2. DOMAIN file' = DOMAIN file \ {n} /\ \A x \in DOMAIN file' : file'[x] = file[x]
  BY <1>1
<1>3. held \in [Holders -> {NotHeld} \cup [index : 1 .. keys, key : 1 .. keys]] /\ held[h].key \in 1 .. keys
  BY <1>1 DEF KeyInv, KeyTyped
<1>4. held'[h] = NotHeld /\ \A g \in Holders : g # h => held'[g] = held[g]
  BY <1>1, <1>3
<1>5. KeyTyped'
  <2>1. held' \in [Holders -> {NotHeld} \cup [index : 1 .. keys, key : 1 .. keys]]
    BY <1>1, <1>3
  <2> QED BY <1>1, <1>2, <1>3, <2>1 DEF KeyInv, KeyTyped
<1> HIDE DEF n
<1>6. ASSUME ~reused PROVE RecordsAreHeld' /\ HeldIsBehind'
  <2>0. RecordsAreHeld /\ HeldIsBehind
    BY <1>6 DEF KeyInv
  <2>1. n \in DOMAIN file /\ held[h].key = file[n] /\ n \notin setKeyPool
    BY <1>1, <2>0 DEF RecordsAreHeld, n
  <2>2. \A g \in Holders : g # h /\ held[g] # NotHeld => held[g].index # n
    BY <1>1, <2>0 DEF RecordsAreHeld, n
  <2>3. {held'[g].index : g \in {f \in Holders : held'[f] # NotHeld}}
             = {held[g].index : g \in {f \in Holders : held[f] # NotHeld}} \ {n}
    BY <1>4, <2>2 DEF n
  <2>4. DOMAIN file' = setKeyPool' \cup {held'[g].index : g \in {f \in Holders : held'[f] # NotHeld}}
    BY <1>1, <1>2, <2>0, <2>1, <2>3 DEF RecordsAreHeld
  <2>5. \A x \in DOMAIN file' : file'[x] \notin used'
    BY <1>1, <1>2, <2>0, <2>1 DEF RecordsAreHeld
  <2>6. \A x, y \in DOMAIN file' : file'[x] = file'[y] => x = y
    BY <1>2, <2>0 DEF RecordsAreHeld
  <2>7. ASSUME NEW g \in Holders, held'[g] # NotHeld
        PROVE  held'[g].index \notin setKeyPool' /\ held'[g].key = file'[held'[g].index]
    <3>1. g # h /\ held'[g] = held[g] /\ held[g].index # n
      BY <1>4, <2>2, <2>7
    <3>2. held[g].index \in DOMAIN file'
      BY <1>2, <2>0, <2>7, <3>1 DEF RecordsAreHeld
    <3> QED BY <1>1, <1>2, <2>0, <2>7, <3>1, <3>2 DEF RecordsAreHeld
  <2>8. ASSUME NEW f \in Holders, NEW g \in Holders, held'[f] # NotHeld, held'[g] # NotHeld, f # g
        PROVE  held'[f].index # held'[g].index
    BY <1>4, <2>0, <2>8 DEF RecordsAreHeld
  <2>9. RecordsAreHeld'
    BY <2>4, <2>5, <2>6, <2>7, <2>8 DEF RecordsAreHeld
  <2>10. HeldIsBehind'
    BY <1>1, <1>4, <2>0 DEF HeldIsBehind
  <2> QED BY <2>9, <2>10
<1> QED BY <1>1, <1>5, <1>6 DEF KeyInv

LEMMA KeyReturnStep == ASSUME KeyInv, NEW h \in Holders, ReturnKey(h) PROVE KeyInv'
<1> USE KeyConstants
<1> DEFINE n == held[h].index
<1>1. /\ held[h] # NotHeld
      /\ setKeyPool' = setKeyPool \cup {n}
      /\ held' = [held EXCEPT ![h] = NotHeld] /\ UNCHANGED <<file, used, crypt, keys, reused, restarts>>
  BY DEF ReturnKey
<1>3. held \in [Holders -> {NotHeld} \cup [index : 1 .. keys, key : 1 .. keys]] /\ n \in 1 .. keys
  BY <1>1 DEF KeyInv, KeyTyped
<1>4. held'[h] = NotHeld /\ \A g \in Holders : g # h => held'[g] = held[g]
  BY <1>1, <1>3
<1>5. KeyTyped'
  <2>1. held' \in [Holders -> {NotHeld} \cup [index : 1 .. keys, key : 1 .. keys]]
    BY <1>1, <1>3
  <2> QED BY <1>1, <1>3, <2>1 DEF KeyInv, KeyTyped
<1> HIDE DEF n
<1>6. ASSUME ~reused PROVE RecordsAreHeld' /\ HeldIsBehind'
  <2>0. RecordsAreHeld /\ HeldIsBehind
    BY <1>6 DEF KeyInv
  <2>2. \A g \in Holders : g # h /\ held[g] # NotHeld => held[g].index # n
    BY <1>1, <2>0 DEF RecordsAreHeld, n
  <2>3. {held'[g].index : g \in {f \in Holders : held'[f] # NotHeld}} \cup {n}
             = {held[g].index : g \in {f \in Holders : held[f] # NotHeld}}
    BY <1>1, <1>4 DEF n
  <2>4. DOMAIN file' = setKeyPool' \cup {held'[g].index : g \in {f \in Holders : held'[f] # NotHeld}}
    BY <1>1, <2>0, <2>3 DEF RecordsAreHeld
  <2>7. ASSUME NEW g \in Holders, held'[g] # NotHeld
        PROVE  held'[g].index \notin setKeyPool' /\ held'[g].key = file'[held'[g].index]
    BY <1>1, <1>4, <2>0, <2>2, <2>7 DEF RecordsAreHeld
  <2>8. ASSUME NEW f \in Holders, NEW g \in Holders, held'[f] # NotHeld, held'[g] # NotHeld, f # g
        PROVE  held'[f].index # held'[g].index
    BY <1>4, <2>0, <2>8 DEF RecordsAreHeld
  <2>9. RecordsAreHeld'
    BY <1>1, <2>0, <2>4, <2>7, <2>8 DEF RecordsAreHeld
  <2>10. HeldIsBehind'
    BY <1>1, <1>4, <2>0 DEF HeldIsBehind
  <2> QED BY <2>9, <2>10
<1> QED BY <1>1, <1>5, <1>6 DEF KeyInv

LEMMA KeyGetStep == ASSUME KeyInv, GetKeyFromPool PROVE KeyInv'
<1> DEFINE S == SetTopped
           F == FileTopped
           i == Min(SetTopped)
<1> USE KeyConstants
<1>1. /\ TopUp /\ S # {}
      /\ setKeyPool' = S \ {i} /\ file' = [x \in DOMAIN F \ {i} |-> F[x]]
      /\ used' = IF i \in DOMAIN F THEN used \cup {F[i]} ELSE used
      /\ UNCHANGED <<held, crypt, restarts>>
  BY DEF GetKeyFromPool
<1>2. /\ Topped(S, F, keys') /\ keys' <= MaxKeys /\ reused' \in BOOLEAN /\ (reused => reused')
      /\ ~reused' => ToppedWell(S, F)
      /\ setKeyPool \subseteq S
  BY <1>1, TopUpOK
<1>3. i \in S /\ (crypt = "plain" /\ Target > 0 => \E x \in S \ {i} : x > i)
  BY <1>1, MinLeaves
<1>0. held \in [Holders -> {NotHeld} \cup [index : 1 .. keys, key : 1 .. keys]] /\ used \subseteq 1 .. keys /\ keys \in Nat
  BY DEF KeyInv, KeyTyped
<1> HIDE DEF S, F, i
<1>4. keys' \in Nat /\ 1 .. keys \subseteq 1 .. keys' /\ S \subseteq 1 .. keys' /\ \A x \in DOMAIN F : x \in 1 .. keys' /\ F[x] \in 1 .. keys'
  BY <1>0, <1>2 DEF Topped
<1>5. KeyTyped'
  <2>2. \A g \in Holders : held[g] \in {NotHeld} \cup [index : 1 .. keys', key : 1 .. keys']
    BY <1>0, <1>4
  <2>3. held' \in [Holders -> {NotHeld} \cup [index : 1 .. keys', key : 1 .. keys']]
    BY <1>0, <1>1, <2>2
  <2>4. used' \subseteq 1 .. keys' /\ setKeyPool' \subseteq 1 .. keys'
    BY <1>0, <1>1, <1>4
  <2>5. crypt' \in {"plain", "locked", "unlocked"} /\ keys' \in 0 .. MaxKeys /\ restarts' \in 0 .. MaxCrashes
    BY <1>1, <1>2, <1>4 DEF KeyInv, KeyTyped
  <2>6. DOMAIN file' \subseteq 1 .. keys' /\ (\A x \in DOMAIN file' : file'[x] \in 1 .. keys') /\ file' = [x \in DOMAIN file' |-> file'[x]]
    BY <1>1, <1>4
  <2> QED BY <1>2, <2>3, <2>4, <2>5, <2>6 DEF KeyTyped
<1>6. ASSUME ~reused' PROVE RecordsAreHeld' /\ HeldIsBehind'
  <2>0. ~reused /\ RecordsAreHeld /\ HeldIsBehind /\ ToppedWell(S, F)
    BY <1>2, <1>6 DEF KeyInv
  <2>1. i \in DOMAIN F /\ used' = used \cup {F[i]} /\ DOMAIN file' = DOMAIN F \ {i} /\ \A x \in DOMAIN file' : file'[x] = F[x]
    BY <1>1, <1>3, <2>0 DEF ToppedWell
  <2>2. \A g \in Holders : held[g] # NotHeld => held[g].index # i /\ held[g].index \in DOMAIN file'
    BY <1>3, <2>0, <2>1 DEF ToppedWell
  <2>3. RecordsAreHeld'
    <3>1. DOMAIN file' = setKeyPool' \cup {held[g].index : g \in {f \in Holders : held[f] # NotHeld}}
      BY <1>1, <1>3, <2>0, <2>1, <2>2 DEF ToppedWell
    <3>2. \A x \in DOMAIN file' : file'[x] \notin used'
      BY <2>0, <2>1 DEF ToppedWell
    <3>3. \A x, y \in DOMAIN file' : file'[x] = file'[y] => x = y
      BY <2>0, <2>1 DEF ToppedWell
    <3>4. \A g \in Holders : held[g] # NotHeld => held[g].index \notin setKeyPool' /\ held[g].key = file'[held[g].index]
      BY <1>1, <2>0, <2>1, <2>2 DEF ToppedWell
    <3>5. \A f, g \in Holders : held[f] # NotHeld /\ held[g] # NotHeld /\ f # g => held[f].index # held[g].index
      BY <2>0 DEF RecordsAreHeld
    <3>6. held' = held
      BY <1>1
    <3> QED BY <3>1, <3>2, <3>3, <3>4, <3>5, <3>6 DEF RecordsAreHeld
  <2>4. HeldIsBehind'
    <3> SUFFICES ASSUME crypt = "plain", Target > 0, NEW g \in Holders, held[g] # NotHeld
                 PROVE  \E x \in setKeyPool' : x > held[g].index
      BY <1>1 DEF HeldIsBehind
    <3>1. PICK x \in S \ {i} : x > i
      BY <1>3
    <3>2. PICK y \in setKeyPool : y > held[g].index
      BY <2>0 DEF HeldIsBehind
    <3>3. y \in S /\ y \in Nat /\ x \in Nat /\ i \in Nat /\ held[g].index \in Nat
      BY <1>0, <1>2, <1>3, <1>4, <3>1, <3>2
    <3> QED BY <1>1, <3>1, <3>2, <3>3
  <2> QED BY <2>3, <2>4
<1> QED BY <1>5, <1>6 DEF KeyInv

(* The pool of an encrypted wallet begins anew. *)
LEMMA KeyNewPoolStep == ASSUME KeyInv, NewKeyPool PROVE KeyInv'
<1> USE KeyConstants
<1>1. /\ keys + Target <= MaxKeys /\ setKeyPool' = 1 .. Target
      /\ file' = [x \in (DOMAIN file \ setKeyPool) \cup 1 .. Target |-> IF x <= Target THEN keys + x ELSE file[x]]
      /\ keys' = keys + Target /\ reused' = (reused \/ 1 .. Target \cap HeldIndexes # {})
      /\ crypt' = "locked" /\ UNCHANGED <<held, used, restarts>>
  BY DEF NewKeyPool
<1>2. /\ keys \in Nat /\ DOMAIN file \subseteq 1 .. keys /\ \A x \in DOMAIN file : file[x] \in 1 .. keys
      /\ used \subseteq 1 .. keys /\ reused \in BOOLEAN
  BY DEF KeyInv, KeyTyped
<1>3. /\ DOMAIN file' = (DOMAIN file \ setKeyPool) \cup 1 .. Target
      /\ \A x \in DOMAIN file' : file'[x] = IF x <= Target THEN keys + x ELSE file[x]
      /\ file' = [x \in DOMAIN file' |-> file'[x]]
  BY <1>1
<1>4. \A x \in DOMAIN file' : x \in 1 .. keys' /\ (x <= Target => x \in 1 .. Target)
  BY <1>1, <1>2, <1>3
<1>5. \A x \in DOMAIN file' : file'[x] \in 1 .. keys'
  <2>1. ASSUME NEW x \in DOMAIN file', x <= Target PROVE file'[x] \in 1 .. keys'
    BY <1>1, <1>2, <1>3, <1>4, <2>1
  <2>2. ASSUME NEW x \in DOMAIN file', ~(x <= Target) PROVE file'[x] \in 1 .. keys'
    BY <1>1, <1>2, <1>3, <2>2
  <2> QED BY <2>1, <2>2
<1>6. Topped(setKeyPool', file', keys')
  <2>1. 1 .. Target \subseteq 1 .. keys' /\ keys' \in Nat /\ keys <= keys'
    BY <1>1, <1>2
  <2> QED BY <1>1, <1>3, <1>4, <1>5, <2>1 DEF Topped
<1>7. ASSUME ~reused' PROVE ToppedWell(setKeyPool', file')
  <2>0. RecordsAreHeld
    BY <1>1, <1>7 DEF KeyInv
  <2>1. \A g \in Holders : held[g].index \notin 1 .. Target
    BY <1>1, <1>7 DEF HeldIndexes
  <2>2. DOMAIN file \ setKeyPool = {held[g].index : g \in {f \in Holders : held[f] # NotHeld}}
    BY <2>0 DEF RecordsAreHeld
  <2>3. \A x \in DOMAIN file \ setKeyPool : x \in DOMAIN file' /\ file'[x] = file[x] /\ x \notin 1 .. Target
    <3>1. ASSUME NEW x \in DOMAIN file \ setKeyPool PROVE x \in DOMAIN file' /\ file'[x] = file[x] /\ x \notin 1 .. Target
      <4>1. x \notin 1 .. Target /\ x \in 1 .. keys
        BY <1>2, <2>1, <2>2
      <4> QED BY <1>3, <4>1
    <3> QED BY <3>1
  <2>4. \A x \in 1 .. Target : file'[x] = keys + x
    BY <1>3
  <2>5. \A x, y \in DOMAIN file' : file'[x] = file'[y] => x = y
    <3>1. ASSUME NEW x \in 1 .. Target, NEW y \in 1 .. Target, file'[x] = file'[y] PROVE x = y
      BY <1>2, <2>4, <3>1
    <3>2. ASSUME NEW x \in 1 .. Target, NEW y \in DOMAIN file \ setKeyPool PROVE file'[x] # file'[y]
      <4>1. file'[x] = keys + x /\ file'[y] \in 1 .. keys
        BY <1>2, <2>3, <2>4
      <4> QED BY <1>2, <4>1
    <3>3. ASSUME NEW x \in DOMAIN file \ setKeyPool, NEW y \in DOMAIN file \ setKeyPool, file'[x] = file'[y] PROVE x = y
      BY <2>0, <2>3, <3>3 DEF RecordsAreHeld
    <3> QED BY <1>3, <3>1, <3>2, <3>3
  <2>6. \A x \in DOMAIN file' : file'[x] \notin used
    <3>1. \A x \in 1 .. Target : file'[x] \notin used
      BY <1>2, <2>4
    <3> QED BY <1>3, <2>0, <2>3, <3>1 DEF RecordsAreHeld
  <2>7. ASSUME NEW g \in Holders, held[g] # NotHeld
        PROVE  held[g].index \notin setKeyPool' /\ held[g].key = file'[held[g].index]
    <3>1. held[g].index \in DOMAIN file \ setKeyPool
      BY <2>2, <2>7
    <3> QED BY <1>1, <2>0, <2>3, <2>7, <3>1 DEF RecordsAreHeld
  <2> QED BY <1>1, <1>3, <2>2, <2>5, <2>6, <2>7 DEF ToppedWell
<1> QED BY <1>1, <1>2, <1>6, <1>7, ToppedInv

LEMMA KeyRestartStep == ASSUME KeyInv, Restart PROVE KeyInv'
<1> USE KeyConstants
<1>1. /\ restarts < MaxCrashes /\ restarts' = restarts + 1 /\ setKeyPool' = DOMAIN file
      /\ held' = [h \in Holders |-> NotHeld] /\ crypt' = (IF crypt = "plain" THEN "plain" ELSE "locked")
      /\ UNCHANGED <<file, used, keys, reused>>
  BY DEF Restart
<1>2. KeyTyped'
  <2>1. held' \in [Holders -> {NotHeld} \cup [index : 1 .. keys', key : 1 .. keys']]
    BY <1>1
  <2>2. restarts' \in 0 .. MaxCrashes /\ crypt' \in {"plain", "locked", "unlocked"}
    BY <1>1 DEF KeyInv, KeyTyped
  <2> QED BY <1>1, <2>1, <2>2 DEF KeyInv, KeyTyped
<1>3. ~reused' => RecordsAreHeld' /\ HeldIsBehind'
  <2>1. {held'[g].index : g \in {f \in Holders : held'[f] # NotHeld}} = {}
    BY <1>1
  <2> QED BY <1>1, <2>1 DEF KeyInv, RecordsAreHeld, HeldIsBehind
<1> QED BY <1>2, <1>3 DEF KeyInv

LEMMA KeyStep == KeyInv /\ [KeyNext]_keyVars => KeyInv'
<1> SUFFICES ASSUME KeyInv, [KeyNext]_keyVars PROVE KeyInv'
  OBVIOUS
<1>1. CASE KeyNext
  BY <1>1, KeyTopUpStep, KeyGetStep, KeyNewPoolStep, KeyLockStep, KeyUnlockStep, KeyRestartStep, KeyReserveStep, KeyKeepStep,
     KeyReturnStep DEF KeyNext
<1>2. CASE UNCHANGED keyVars
  BY <1>2 DEF keyVars, KeyInv, KeyTyped, RecordsAreHeld, HeldIsBehind
<1> QED BY <1>1, <1>2

(* In an unencrypted wallet with more than one key ahead nothing is filled   *)
(* anew under a holder.                                                      *)
LEMMA KeyReuseStep ==
    ASSUME KeyInv, KeyNext, crypt = "plain", Target > 0, crypt' = "plain", ~reused
    PROVE  ~reused'
<1>1. CASE TopUp
  BY <1>1, TopUpOK
<1>2. CASE UNCHANGED reused
  BY <1>2
<1>3. TopUp \/ UNCHANGED reused
  BY DEF KeyNext, TopUpKeyPool, GetKeyFromPool, NewKeyPool, LockWallet, Unlock, Restart, Reserve,
     KeepKey, ReturnKey
<1> QED BY <1>1, <1>2, <1>3

(* The key pool behaves, for any holders, number of keys ahead and crashes:  *)
(* no key serves twice and every index has its record, as long as no index   *)
(* was filled anew under a holder (ReserveKeyFromKeyPool, KeepKey,           *)
(* ReturnKey); and that needs a locked wallet.                               *)
THEOREM KeysCorrect == KeySpec => KeysServeOnce
<1>1. KeyInit => KeyInv
  BY KeyInitOK
<1>2. KeyInv /\ [KeyNext]_keyVars => KeyInv'
  BY KeyStep DEF keyVars, keyVars
<1>3. KeySpec => []KeyInv
  BY <1>1, <1>2, PTL DEF KeySpec
<1>4. KeyInv /\ [KeyNext]_keyVars => [crypt = "plain" /\ Target > 0 /\ crypt' = "plain" /\ ~reused => ~reused']_(keyVars)
  BY KeyReuseStep
<1>5. KeySpec => ReuseNeedsALock
  BY <1>3, <1>4, PTL DEF KeySpec, ReuseNeedsALock
<1>6. KeyInv => KeyTypeOK /\ KeyServesOnce /\ PoolIsReadable
  BY KeyInvImplies
<1> QED BY <1>3, <1>5, <1>6, PTL DEF KeysServeOnce
(***************************************************************************)
(* The memory pool: what its operations return.                            *)
(***************************************************************************)

Outpoints == (DOMAIN OutputsOf) \X Nat
PoolSet == [tx : SUBSET Txs, next : UNION {[D -> Txs] : D \in SUBSET Outpoints}]

(* mapNextTx has exactly the inputs of the transactions. *)
Indexed(p) ==
    /\ DOMAIN p.next = UNION {InputsOf[t] : t \in p.tx}
    /\ \A t \in p.tx : \A o \in InputsOf[t] : p.next[o] = t

IsPool(p) == p \in PoolSet /\ Indexed(p)

LEMMA PoolConstants ==
    /\ HashOrder \in Seq(Txs) /\ Txs = {HashOrder[i] : i \in DOMAIN HashOrder}
    /\ Txs \cap Coinbases = {} /\ Genesis \notin Txs /\ Genesis \notin Coinbases
    /\ DOMAIN OutputsOf = Txs \cup Coinbases \cup {Genesis} /\ \A x \in DOMAIN OutputsOf : OutputsOf[x] \in Nat
    /\ DOMAIN InputsOf = Txs
    /\ \A t \in Txs : InputsOf[t] # {} /\ InputsOf[t] \subseteq Outpoints /\ \A o \in InputsOf[t] : o[2] < OutputsOf[o[1]]
    /\ Maturity \in Nat /\ MaxOrphans \in Nat /\ MaxBlocks \in Nat /\ MaxBlockTxs \in Nat
<1>1. OutputsOf \in [Txs \cup Coinbases \cup {Genesis} -> Nat] /\ InputsOf \in [Txs -> SUBSET Outpoints]
  BY MempoolAssumption DEF Outpoints
<1>2. \A t \in Txs : InputsOf[t] # {} /\ InputsOf[t] \subseteq Outpoints /\ \A o \in InputsOf[t] : o[2] < OutputsOf[o[1]]
  BY <1>1, MempoolAssumption
<1>3. DOMAIN OutputsOf = Txs \cup Coinbases \cup {Genesis} /\ \A x \in DOMAIN OutputsOf : OutputsOf[x] \in Nat
  BY <1>1
<1>4. HashOrder \in Seq(Txs) /\ Txs = {HashOrder[i] : i \in DOMAIN HashOrder}
  BY MempoolAssumption DEF ToSet
<1>5. Maturity \in Nat /\ MaxOrphans \in Nat /\ MaxBlocks \in Nat /\ MaxBlockTxs \in Nat
  BY MempoolAssumption
<1>6. Txs \cap Coinbases = {} /\ Genesis \notin Txs /\ Genesis \notin Coinbases
  BY MempoolAssumption
<1>7. DOMAIN InputsOf = Txs
  BY <1>1
<1> QED BY <1>2, <1>3, <1>4, <1>5, <1>6, <1>7

LEMMA PoolFields ==
    ASSUME NEW p, IsPool(p)
    PROVE  /\ p.tx \subseteq Txs /\ p = [tx |-> p.tx, next |-> p.next]
           /\ DOMAIN p.next \subseteq Outpoints /\ p.next \in [DOMAIN p.next -> Txs]
           /\ \A t \in p.tx : \A o \in InputsOf[t] : o \in DOMAIN p.next /\ p.next[o] = t
           /\ \A o \in DOMAIN p.next : p.next[o] \in p.tx /\ o \in InputsOf[p.next[o]]
<1>1. p \in PoolSet /\ Indexed(p)
  BY DEF IsPool
<1>2. p.tx \subseteq Txs /\ p = [tx |-> p.tx, next |-> p.next] /\ p.next \in UNION {[D -> Txs] : D \in SUBSET Outpoints}
  BY <1>1 DEF PoolSet
<1>3. PICK D \in SUBSET Outpoints : p.next \in [D -> Txs]
  BY <1>2
<1>4. D = DOMAIN p.next
  BY <1>3
<1>5. DOMAIN p.next = UNION {InputsOf[t] : t \in p.tx} /\ \A t \in p.tx : \A o \in InputsOf[t] : p.next[o] = t
  BY <1>1 DEF Indexed
<1>6. \A o \in DOMAIN p.next : \E t \in p.tx : o \in InputsOf[t]
  BY <1>5
<1>7. \A t \in p.tx : \A o \in InputsOf[t] : o \in DOMAIN p.next
  BY <1>5
<1> QED BY <1>2, <1>3, <1>4, <1>5, <1>6, <1>7

LEMMA IsPoolFrom ==
    ASSUME NEW tx \in SUBSET Txs, NEW D \in SUBSET Outpoints, NEW f \in [D -> Txs], NEW p, p = [tx |-> tx, next |-> f],
           D = UNION {InputsOf[t] : t \in tx}, \A t \in tx : \A o \in InputsOf[t] : f[o] = t
    PROVE  IsPool(p)
<1>1. f \in UNION {[E -> Txs] : E \in SUBSET Outpoints} /\ DOMAIN f = D
  OBVIOUS
<1> QED BY <1>1 DEF IsPool, PoolSet, Indexed

(* Transactions leave, with their inputs. *)
LEMMA WithoutIs ==
    ASSUME NEW p, IsPool(p), NEW gone
    PROVE  IsPool(Without(p, gone)) /\ Without(p, gone).tx = p.tx \ gone
<1> DEFINE D == DOMAIN p.next \ UNION {InputsOf[t] : t \in gone \cap p.tx}
           f == [o \in D |-> p.next[o]]
<1>1. Without(p, gone) = [tx |-> p.tx \ gone, next |-> f]
  BY DEF Without
<1>2. /\ p.tx \subseteq Txs /\ DOMAIN p.next \subseteq Outpoints /\ p.next \in [DOMAIN p.next -> Txs]
      /\ \A t \in p.tx : \A o \in InputsOf[t] : o \in DOMAIN p.next /\ p.next[o] = t
      /\ \A o \in DOMAIN p.next : p.next[o] \in p.tx /\ o \in InputsOf[p.next[o]]
  BY PoolFields
<1>3. D \subseteq Outpoints /\ f \in [D -> Txs]
  BY <1>2
<1>4. ASSUME NEW o PROVE o \in D <=> \E t \in p.tx \ gone : o \in InputsOf[t]
  <2>1. ASSUME o \in D PROVE \E t \in p.tx \ gone : o \in InputsOf[t]
    BY <1>2, <2>1
  <2>2. ASSUME NEW t \in p.tx \ gone, o \in InputsOf[t] PROVE o \in D
    <3>1. o \in DOMAIN p.next /\ p.next[o] = t
      BY <1>2, <2>2
    <3>2. \A u \in gone \cap p.tx : o \notin InputsOf[u]
      BY <1>2, <2>2, <3>1
    <3> QED BY <3>1, <3>2
  <2> QED BY <2>1, <2>2
<1>5. D = UNION {InputsOf[t] : t \in p.tx \ gone}
  BY <1>4
<1>6. \A t \in p.tx \ gone : \A o \in InputsOf[t] : f[o] = t
  BY <1>2, <1>4
<1> HIDE DEF D, f
<1>7. p.tx \ gone \in SUBSET Txs
  BY <1>2
<1>8. IsPool(Without(p, gone))
  BY <1>1, <1>3, <1>5, <1>6, <1>7, IsPoolFrom
<1> QED BY <1>1, <1>8

(* A transaction that conflicts with none is added. *)
LEMMA AddedIs ==
    ASSUME NEW p, IsPool(p), NEW t \in Txs, InputsOf[t] \cap DOMAIN p.next = {}
    PROVE  /\ IsPool(addUnchecked(p, t)) /\ addUnchecked(p, t).tx = p.tx \cup {t}
           /\ DOMAIN addUnchecked(p, t).next = DOMAIN p.next \cup InputsOf[t]
<1> DEFINE D == DOMAIN p.next \cup InputsOf[t]
           f == [o \in D |-> IF o \in InputsOf[t] THEN t ELSE p.next[o]]
<1>1. addUnchecked(p, t) = [tx |-> p.tx \cup {t}, next |-> f]
  BY DEF addUnchecked
<1>2. /\ p.tx \subseteq Txs /\ DOMAIN p.next \subseteq Outpoints /\ p.next \in [DOMAIN p.next -> Txs]
      /\ \A u \in p.tx : \A o \in InputsOf[u] : o \in DOMAIN p.next /\ p.next[o] = u
      /\ \A o \in DOMAIN p.next : p.next[o] \in p.tx /\ o \in InputsOf[p.next[o]]
  BY PoolFields
<1>3. D \subseteq Outpoints /\ f \in [D -> Txs]
  BY <1>2, PoolConstants
<1>4. D = UNION {InputsOf[u] : u \in p.tx \cup {t}}
  BY <1>2
<1>5. \A u \in p.tx \cup {t} : \A o \in InputsOf[u] : f[o] = u
  BY <1>2
<1>6. p.tx \cup {t} \in SUBSET Txs
  BY <1>2
<1>7. DOMAIN f = D
  OBVIOUS
<1> HIDE DEF f
<1>9. IsPool(addUnchecked(p, t))
  <2> HIDE DEF D
  <2> QED BY <1>1, <1>3, <1>4, <1>5, <1>6, IsPoolFrom
<1> QED BY <1>1, <1>7, <1>9

(* When AcceptToMemoryPool takes a transaction. *)
LEMMA JudgeOk ==
    ASSUME NEW p, NEW t, NEW c
    PROVE  Judge(p, t, c) = "ok" <=>
               /\ InputsOf[t] \cap DOMAIN p.next = {} /\ t \notin p.tx /\ \A o \in UnspentCoins(c) : o[1] # t
               /\ \A x \in Parents(t) : x \in p.tx \/ \E o \in UnspentCoins(c) : o[1] = x
               /\ \A o \in InputsOf[t] : (o \in UnspentCoins(c) \/ o[1] \in p.tx) /\ Mature(o, c)
               /\ t \notin Unacceptable
  BY DEF Judge

LEMMA JudgeValues == \A p, t, c : Judge(p, t, c) \in {"ok", "no", "missing"}
  BY DEF Judge
LEMMA TxsAreFew == IsFiniteSet(Txs) /\ Cardinality(Txs) <= Len(HashOrder) /\ Len(HashOrder) \in Nat
<1>1. HashOrder \in Seq(Txs) /\ Txs = {HashOrder[i] : i \in DOMAIN HashOrder}
  BY PoolConstants
<1>2. Len(HashOrder) \in Nat /\ DOMAIN HashOrder = 1 .. Len(HashOrder) /\ HashOrder \in [1 .. Len(HashOrder) -> Txs]
  BY <1>1
<1>3. HashOrder \in Surjection(1 .. Len(HashOrder), Txs)
  BY <1>1, <1>2 DEF Surjection
<1>4. IsFiniteSet(1 .. Len(HashOrder)) /\ Cardinality(1 .. Len(HashOrder)) = Len(HashOrder)
  <2>1. 1 \in Int /\ Len(HashOrder) \in Int
    BY <1>2
  <2>2. /\ IsFiniteSet(1 .. Len(HashOrder))
        /\ Cardinality(1 .. Len(HashOrder)) = IF 1 > Len(HashOrder) THEN 0 ELSE Len(HashOrder) - 1 + 1
    BY <2>1, FS_Interval
  <2> QED BY <1>2, <2>2
<1> QED BY <1>2, <1>3, <1>4, FS_Surjection

(* What spends an output of s. *)
Spenders(p, s) == {u \in p.tx : Parents(u) \cap s # {}}

LEMMA SpendersAre ==
    ASSUME NEW p, IsPool(p), NEW s
    PROVE  {p.next[o] : o \in {x \in DOMAIN p.next : x[1] \in s}} = Spenders(p, s)
<1> DEFINE C == {p.next[o] : o \in {x \in DOMAIN p.next : x[1] \in s}}
<1>1. /\ \A t \in p.tx : \A o \in InputsOf[t] : o \in DOMAIN p.next /\ p.next[o] = t
      /\ \A o \in DOMAIN p.next : p.next[o] \in p.tx /\ o \in InputsOf[p.next[o]]
  BY PoolFields
<1>2. ASSUME NEW u \in C PROVE u \in Spenders(p, s)
  <2>1. PICK o \in DOMAIN p.next : o[1] \in s /\ u = p.next[o]
    BY <1>2
  <2>2. u \in p.tx /\ o \in InputsOf[u] /\ o[1] \in Parents(u)
    BY <1>1, <2>1 DEF Parents
  <2> QED BY <2>1, <2>2 DEF Spenders
<1>3. ASSUME NEW u \in Spenders(p, s) PROVE u \in C
  <2>1. PICK o \in InputsOf[u] : u \in p.tx /\ o[1] \in s
    BY DEF Spenders, Parents
  <2>2. o \in DOMAIN p.next /\ p.next[o] = u
    BY <1>1, <2>1
  <2> QED BY <2>1, <2>2
<1> QED BY <1>2, <1>3

(* What leaves with a transaction: the least set that has it and, of the     *)
(* pool, what spends something in the set.  The rounds of Descendants are    *)
(* enough for it.                                                            *)
LEMMA DescendantsAre ==
    ASSUME NEW p, IsPool(p), NEW t
    PROVE  /\ t \in Descendants(p, t) /\ Descendants(p, t) \subseteq p.tx \cup {t}
           /\ Spenders(p, Descendants(p, t)) \subseteq Descendants(p, t)
           /\ \A S : t \in S /\ Spenders(p, S) \subseteq S => Descendants(p, t) \subseteq S
<1> DEFINE L == Len(HashOrder)
           Eq(f) == f = [n \in 0 .. L |-> IF n = 0 THEN {t}
                                          ELSE f[n - 1] \cup {p.next[o] : o \in {x \in DOMAIN p.next : x[1] \in f[n - 1]}}]
           c == CHOOSE f : Eq(f)
           V == SUBSET (p.tx \cup {t})
           G == [k \in 1 .. L |-> [s \in V |-> s \cup Spenders(p, s)]]
<1>0. L \in Nat /\ IsFiniteSet(Txs) /\ Cardinality(Txs) <= L /\ Cardinality(Txs) \in Nat
  BY TxsAreFew, FS_CardinalityType
<1>1. Descendants(p, t) = c[L]
  BY DEF Descendants
<1>2. \E f : Eq(f)
  <2>1. {t} \in V
    OBVIOUS
  <2>2. \A s \in V : s \cup Spenders(p, s) \in V
    BY DEF Spenders
  <2>3. G \in [1 .. L -> [V -> V]]
    BY <2>2
  <2>0. PICK f : IsRun(f, L, V, {t}, G)
    <3> HIDE DEF V, G, L
    <3> QED BY <1>0, <2>1, <2>3, RunExists
  <2>4. f \in [0 .. L -> V] /\ f[0] = {t} /\ \A k \in 1 .. L : f[k] = G[k][f[k - 1]]
    BY <2>0 DEF IsRun
  <2>5. ASSUME NEW k \in 0 .. L, k # 0 PROVE f[k] = f[k - 1] \cup {p.next[o] : o \in {x \in DOMAIN p.next : x[1] \in f[k - 1]}}
    <3>1. k \in 1 .. L /\ k - 1 \in 0 .. L
      BY <1>0, <2>5
    <3>2. f[k] = f[k - 1] \cup Spenders(p, f[k - 1])
      BY <2>4, <3>1
    <3> QED BY <3>2, SpendersAre
  <2>6. Eq(f)
    BY <2>4, <2>5
  <2> QED BY <2>6
<1>3. Eq(c)
  <2> HIDE DEF Eq
  <2> QED BY <1>2
<1> HIDE DEF c, L
<1>4. c[0] = {t} /\ \A k \in 1 .. L : c[k] = c[k - 1] \cup Spenders(p, c[k - 1])
  <2>1. c[0] = {t}
    BY <1>0, <1>3
  <2>2. ASSUME NEW k \in 1 .. L PROVE c[k] = c[k - 1] \cup Spenders(p, c[k - 1])
    <3>1. k \in 0 .. L /\ k # 0
      BY <1>0
    <3>2. c[k] = c[k - 1] \cup {p.next[o] : o \in {x \in DOMAIN p.next : x[1] \in c[k - 1]}}
      BY <1>3, <3>1
    <3> QED BY <3>2, SpendersAre
  <2> QED BY <2>1, <2>2
<1> HIDE DEF V, G, Eq
<1>5. ASSUME NEW k \in 0 .. L PROVE t \in c[k] /\ c[k] \subseteq p.tx \cup {t}
  <2> DEFINE P == {i \in 0 .. L : t \in c[i] /\ c[i] \subseteq p.tx \cup {t}}
  <2>1. 0 \in P
    BY <1>0, <1>4
  <2>2. ASSUME NEW i \in 1 .. L, i - 1 \in P PROVE i \in P
    <3>1. i \in 0 .. L
      BY <1>0
    <3> QED BY <1>4, <2>2, <3>1 DEF Spenders
  <2>3. k \in P
    <3> HIDE DEF P
    <3> QED BY <1>0, <2>1, <2>2, StepsReach
  <2> QED BY <2>3
<1>6. ASSUME NEW S, t \in S, Spenders(p, S) \subseteq S PROVE c[L] \subseteq S
  <2> DEFINE P == {i \in 0 .. L : c[i] \subseteq S}
  <2>1. 0 \in P
    BY <1>0, <1>4, <1>6
  <2>2. ASSUME NEW i \in 1 .. L, i - 1 \in P PROVE i \in P
    <3>1. i \in 0 .. L
      BY <1>0
    <3> QED BY <1>4, <1>6, <2>2, <3>1 DEF Spenders
  <2>3. L \in P
    <3> HIDE DEF P
    <3>1. L \in 0 .. L
      BY <1>0
    <3> QED BY <1>0, <2>1, <2>2, <3>1, StepsReach
  <2> QED BY <2>3
<1>7. p.tx \subseteq Txs
  BY PoolFields
<1>8. IsFiniteSet(Txs \cup {t}) /\ Cardinality(Txs \cup {t}) <= L + 1 /\ Cardinality(Txs \cup {t}) \in Nat
  BY <1>0, FS_AddElement
<1>9. \A k \in 0 .. L : IsFiniteSet(c[k]) /\ Cardinality(c[k]) \in Nat
  <2>1. \A k \in 0 .. L : c[k] \in SUBSET (Txs \cup {t})
    BY <1>5, <1>7
  <2> QED BY <1>8, <2>1, FS_Subset, FS_CardinalityType
<1>10. Cardinality(c[L]) >= L + 1 \/ Spenders(p, c[L]) \subseteq c[L]
  <2> DEFINE P == {i \in 0 .. L : Cardinality(c[i]) >= i + 1 \/ Spenders(p, c[i]) \subseteq c[i]}
  <2>1. 0 \in P
    <3>1. Cardinality({t}) = 1
      BY FS_Singleton
    <3> QED BY <1>0, <1>4, <3>1
  <2>2. ASSUME NEW i \in 1 .. L, i - 1 \in P PROVE i \in P
    <3>1. i \in 0 .. L /\ i - 1 \in 0 .. L /\ i - 1 + 1 = i
      BY <1>0
    <3>2. c[i] = c[i - 1] \cup Spenders(p, c[i - 1])
      BY <1>4
    <3>3. CASE Spenders(p, c[i - 1]) \subseteq c[i - 1]
      <4>1. c[i] = c[i - 1]
        BY <3>2, <3>3
      <4> QED BY <3>1, <3>3, <4>1
    <3>4. CASE ~(Spenders(p, c[i - 1]) \subseteq c[i - 1])
      <4>1. Cardinality(c[i - 1]) >= i
        BY <2>2, <3>1, <3>4
      <4>2. c[i - 1] \in SUBSET c[i] /\ c[i - 1] # c[i]
        BY <3>2, <3>4
      <4>3. Cardinality(c[i - 1]) <= Cardinality(c[i]) /\ Cardinality(c[i - 1]) # Cardinality(c[i])
        BY <1>9, <3>1, <4>2, FS_Subset
      <4>4. Cardinality(c[i]) >= i + 1
        <5>1. Cardinality(c[i]) \in Nat /\ Cardinality(c[i - 1]) \in Nat
          BY <1>9, <3>1
        <5> QED BY <4>1, <4>3, <5>1
      <4> QED BY <3>1, <4>4
    <3> QED BY <3>3, <3>4
  <2>3. L \in P
    <3> HIDE DEF P
    <3>1. L \in 0 .. L
      BY <1>0
    <3> QED BY <1>0, <2>1, <2>2, <3>1, StepsReach
  <2> QED BY <2>3
<1>11. Spenders(p, c[L]) \subseteq c[L]
  <2>1. CASE Cardinality(c[L]) >= L + 1
    <3>1. L \in 0 .. L
      BY <1>0
    <3>2. c[L] \in SUBSET (Txs \cup {t}) /\ Cardinality(c[L]) \in Nat
      BY <1>5, <1>7, <1>9, <3>1
    <3>3. Cardinality(c[L]) <= Cardinality(Txs \cup {t})
      BY <1>8, <3>2, FS_Subset
    <3>4. Cardinality(c[L]) = Cardinality(Txs \cup {t})
      BY <1>0, <1>8, <2>1, <3>2, <3>3
    <3>5. c[L] = Txs \cup {t}
      BY <1>8, <3>2, <3>4, FS_Subset
    <3> QED BY <1>7, <3>5 DEF Spenders
  <2> QED BY <1>10, <2>1
<1>12. L \in 0 .. L
  BY <1>0
<1> QED BY <1>1, <1>5, <1>6, <1>11, <1>12
(***************************************************************************)
(* The chain beside the pool: what its blocks make and spend.              *)
(***************************************************************************)

ChainBlock == [coinbase : Coinbases, txs : Seq(Txs)]
CoinbasesIn(c) == {c[h].coinbase : h \in DOMAIN c}
Known(c) == {Genesis} \cup CoinbasesIn(c) \cup TxsIn(c)

LEMMA ChainTxs ==
    ASSUME NEW c \in Seq(ChainBlock)
    PROVE  TxsIn(c) \subseteq Txs /\ CoinbasesIn(c) \subseteq Coinbases /\ Known(c) \subseteq DOMAIN OutputsOf
<1>0. \A h \in DOMAIN c : c[h] \in ChainBlock
  OBVIOUS
<1>1. \A h \in DOMAIN c : c[h].coinbase \in Coinbases /\ c[h].txs \in Seq(Txs)
  BY <1>0 DEF ChainBlock
<1>2. \A h \in DOMAIN c : ToSet(c[h].txs) \subseteq Txs
  BY <1>1 DEF ToSet
<1>3. TxsIn(c) \subseteq Txs /\ CoinbasesIn(c) \subseteq Coinbases
  BY <1>1, <1>2 DEF TxsIn, CoinbasesIn
<1> QED BY <1>3, PoolConstants DEF Known

LEMMA ChainGrows ==
    ASSUME NEW c \in Seq(ChainBlock), NEW b \in ChainBlock
    PROVE  /\ Append(c, b) \in Seq(ChainBlock) /\ Len(Append(c, b)) = Len(c) + 1 /\ Len(c) \in Nat
           /\ TxsIn(Append(c, b)) = TxsIn(c) \cup ToSet(b.txs)
           /\ CoinbasesIn(Append(c, b)) = CoinbasesIn(c) \cup {b.coinbase}
           /\ Known(Append(c, b)) = Known(c) \cup {b.coinbase} \cup ToSet(b.txs)
<1> DEFINE d == Append(c, b)
<1>1. d \in Seq(ChainBlock) /\ Len(d) = Len(c) + 1 /\ Len(c) \in Nat
  OBVIOUS
<1>2. DOMAIN d = 1 .. Len(c) + 1 /\ DOMAIN c = 1 .. Len(c) /\ d[Len(c) + 1] = b /\ \A h \in 1 .. Len(c) : d[h] = c[h]
  OBVIOUS
<1> HIDE DEF d
<1>3. \A h : h \in DOMAIN d <=> h \in DOMAIN c \/ h = Len(c) + 1
  BY <1>1, <1>2
<1>4. TxsIn(d) = TxsIn(c) \cup ToSet(b.txs)
  <2>1. ASSUME NEW x PROVE x \in TxsIn(d) <=> x \in TxsIn(c) \/ x \in ToSet(b.txs)
    <3>1. x \in TxsIn(d) <=> \E h \in DOMAIN d : x \in ToSet(d[h].txs)
      BY DEF TxsIn
    <3>2. x \in TxsIn(c) <=> \E h \in DOMAIN c : x \in ToSet(c[h].txs)
      BY DEF TxsIn
    <3> QED BY <1>2, <1>3, <3>1, <3>2
  <2> QED BY <2>1
<1>5. CoinbasesIn(d) = CoinbasesIn(c) \cup {b.coinbase}
  BY <1>2, <1>3 DEF CoinbasesIn
<1> QED BY <1>1, <1>4, <1>5 DEF Known, d

LEMMA UnspentSplit ==
    ASSUME NEW c, NEW o
    PROVE  o \in UnspentCoins(c) <=> /\ \/ o \in Made(Genesis) \/ \E h \in DOMAIN c : o \in Made(c[h].coinbase)
                                        \/ \E x \in TxsIn(c) : o \in Made(x)
                                     /\ ~\E u \in TxsIn(c) : o \in InputsOf[u]
<1> DEFINE A == UNION {Made(c[h].coinbase) : h \in DOMAIN c}
           B == UNION {Made(t) : t \in TxsIn(c)}
           C == UNION {InputsOf[t] : t \in TxsIn(c)}
<1>1. o \in A <=> \E h \in DOMAIN c : o \in Made(c[h].coinbase)
  OBVIOUS
<1>2. o \in B <=> \E x \in TxsIn(c) : o \in Made(x)
  OBVIOUS
<1>3. o \in C <=> \E u \in TxsIn(c) : o \in InputsOf[u]
  OBVIOUS
<1>4. UnspentCoins(c) = (Made(Genesis) \cup A \cup B) \ C
  BY DEF UnspentCoins
<1> HIDE DEF A, B, C
<1> QED BY <1>1, <1>2, <1>3, <1>4

(* An output that some transaction spends is a coin of the chain if the      *)
(* chain has the transaction it is of and none that spends it.               *)
LEMMA UnspentIs ==
    ASSUME NEW c \in Seq(ChainBlock), NEW t \in Txs, NEW o \in InputsOf[t]
    PROVE  o \in UnspentCoins(c) <=> o[1] \in Known(c) /\ \A u \in TxsIn(c) : o \notin InputsOf[u]
<1>1. o \in Outpoints /\ o[2] < OutputsOf[o[1]]
  BY PoolConstants
<1>2. o = <<o[1], o[2]>> /\ o[2] \in Nat /\ o[1] \in DOMAIN OutputsOf
  BY <1>1 DEF Outpoints
<1>3. OutputsOf[o[1]] \in Nat
  BY <1>2, PoolConstants
<1>4. \A x : o \in Made(x) <=> o[1] = x
  <2>1. o \in Made(o[1])
    <3>1. o[2] \in 0 .. OutputsOf[o[1]] - 1
      BY <1>1, <1>2, <1>3
    <3> QED BY <1>2, <3>1 DEF Made
  <2>2. ASSUME NEW x, o \in Made(x) PROVE o[1] = x
    BY <2>2 DEF Made
  <2> QED BY <2>1, <2>2
<1>5. o \in UnspentCoins(c) <=> /\ \/ o \in Made(Genesis) \/ \E h \in DOMAIN c : o \in Made(c[h].coinbase)
                                   \/ \E x \in TxsIn(c) : o \in Made(x)
                                /\ ~\E u \in TxsIn(c) : o \in InputsOf[u]
  BY UnspentSplit
<1>6. o[1] \in Known(c) <=> o[1] = Genesis \/ (\E h \in DOMAIN c : o[1] = c[h].coinbase) \/ o[1] \in TxsIn(c)
  BY DEF Known, CoinbasesIn
<1> QED BY <1>4, <1>5, <1>6

LEMMA CoinsAreKnown == ASSUME NEW c, NEW x \in UnspentCoins(c) PROVE x[1] \in Known(c)
<1>1. \E y \in Known(c) : x \in Made(y)
  BY UnspentSplit DEF Known, CoinbasesIn
<1> QED BY <1>1 DEF Made

(* What a block is when it is connected to a chain. *)
BlockOk(c, cb, txs) ==
    /\ cb \in Coinbases /\ cb \notin CoinbasesIn(c) /\ txs \in Seq(Txs)
    /\ \A i \in 1 .. Len(txs) :
          /\ txs[i] \notin TxsIn(c) /\ \A j \in 1 .. i - 1 : txs[j] # txs[i]
          /\ \A o \in InputsOf[txs[i]] :
                /\ o[1] # cb /\ Mature(o, c)
                /\ \A u \in TxsIn(c) : o \notin InputsOf[u]
                /\ \A j \in 1 .. i - 1 : o \notin InputsOf[txs[j]]
                /\ o[1] \in Known(c) \/ \E j \in 1 .. i - 1 : o[1] = txs[j]

LEMMA ValidIsOk ==
    ASSUME NEW c \in Seq(ChainBlock), NEW cb \in Coinbases, cb \notin CoinbasesIn(c), NEW txs \in Seq(Txs), ValidIn(c, cb, txs)
    PROVE  BlockOk(c, cb, txs)
<1> SUFFICES ASSUME NEW i \in 1 .. Len(txs)
             PROVE  /\ txs[i] \notin TxsIn(c) /\ \A j \in 1 .. i - 1 : txs[j] # txs[i]
                    /\ \A o \in InputsOf[txs[i]] :
                          /\ o[1] # cb /\ Mature(o, c)
                          /\ \A u \in TxsIn(c) : o \notin InputsOf[u]
                          /\ \A j \in 1 .. i - 1 : o \notin InputsOf[txs[j]]
                          /\ o[1] \in Known(c) \/ \E j \in 1 .. i - 1 : o[1] = txs[j]
  BY DEF BlockOk
<1> DEFINE s == SubSeq(txs, 1, i - 1)
           b == [coinbase |-> cb, txs |-> s]
<1>1. s \in Seq(Txs) /\ DOMAIN s = 1 .. i - 1 /\ \A j \in 1 .. i - 1 : s[j] = txs[j]
  OBVIOUS
<1>2. ToSet(s) = {txs[j] : j \in 1 .. i - 1}
  BY <1>1 DEF ToSet
<1>3. b \in ChainBlock /\ b.coinbase = cb /\ b.txs = s
  BY <1>1 DEF ChainBlock
<1>4. /\ txs[i] \notin TxsIn(Append(c, b))
      /\ \A o \in InputsOf[txs[i]] : o[1] # cb /\ o \in UnspentCoins(Append(c, b)) /\ Mature(o, c)
  <2>1. i \in DOMAIN txs
    OBVIOUS
  <2> QED BY <2>1 DEF ValidIn
<1> HIDE DEF b, s
<1>5. /\ Append(c, b) \in Seq(ChainBlock) /\ TxsIn(Append(c, b)) = TxsIn(c) \cup {txs[j] : j \in 1 .. i - 1}
      /\ Known(Append(c, b)) = Known(c) \cup {cb} \cup {txs[j] : j \in 1 .. i - 1}
  BY <1>2, <1>3, ChainGrows
<1>6. txs[i] \in Txs
  OBVIOUS
<1>7. ASSUME NEW o \in InputsOf[txs[i]]
      PROVE  o[1] \in Known(Append(c, b)) /\ \A u \in TxsIn(Append(c, b)) : o \notin InputsOf[u]
  BY <1>4, <1>5, <1>6, UnspentIs
<1> QED BY <1>4, <1>5, <1>7

LEMMA StartOfSeq ==
    ASSUME NEW S, NEW s \in Seq(S), NEW n \in 0 .. Len(s)
    PROVE  SubSeq(s, 1, n) \in Seq(S) /\ Len(SubSeq(s, 1, n)) = n /\ \A i \in 1 .. n : SubSeq(s, 1, n)[i] = s[i]
<1>1. \A i \in 1 .. n : i \in DOMAIN s /\ s[i] \in S
  OBVIOUS
<1> QED BY <1>1

ChainOk(c) ==
    /\ c \in Seq(ChainBlock)
    /\ \A h \in 1 .. Len(c) : BlockOk(SubSeq(c, 1, h - 1), c[h].coinbase, c[h].txs)

LEMMA ConnectOk ==
    ASSUME NEW c, ChainOk(c), NEW cb, NEW txs, BlockOk(c, cb, txs)
    PROVE  ChainOk(Append(c, [coinbase |-> cb, txs |-> txs])) /\ [coinbase |-> cb, txs |-> txs] \in ChainBlock
<1> DEFINE b == [coinbase |-> cb, txs |-> txs]
           d == Append(c, b)
<1>1. c \in Seq(ChainBlock) /\ b \in ChainBlock /\ b.coinbase = cb /\ b.txs = txs
  BY DEF ChainOk, BlockOk, ChainBlock
<1> HIDE DEF b
<1>2. d \in Seq(ChainBlock) /\ Len(d) = Len(c) + 1 /\ Len(c) \in Nat
  BY <1>1, ChainGrows
<1>3. ASSUME NEW h \in 1 .. Len(d) PROVE BlockOk(SubSeq(d, 1, h - 1), d[h].coinbase, d[h].txs)
  <2>1. CASE h = Len(c) + 1
    <3>1. SubSeq(d, 1, Len(c)) = c /\ d[Len(c) + 1] = b
      BY <1>1, <1>2
    <3>2. h - 1 = Len(c)
      BY <2>1, <1>2
    <3> QED BY <1>1, <2>1, <3>1, <3>2
  <2>2. CASE h \in 1 .. Len(c)
    <3>1. SubSeq(d, 1, h - 1) = SubSeq(c, 1, h - 1) /\ d[h] = c[h]
      BY <1>1, <1>2, <2>2
    <3> QED BY <2>2, <3>1 DEF ChainOk
  <2> QED BY <1>2, <2>1, <2>2
<1> QED BY <1>1, <1>2, <1>3 DEF ChainOk, b

LEMMA FrontOk ==
    ASSUME NEW c, ChainOk(c), c # <<>>
    PROVE  /\ ChainOk(Front(c)) /\ Last(c) \in ChainBlock /\ BlockOk(Front(c), Last(c).coinbase, Last(c).txs)
           /\ c = Append(Front(c), Last(c)) /\ Len(Front(c)) = Len(c) - 1 /\ Len(c) \in Nat
<1>1. c \in Seq(ChainBlock) /\ Len(c) \in Nat /\ Len(c) > 0
  BY DEF ChainOk
<1> DEFINE f == SubSeq(c, 1, Len(c) - 1)
<1>2. f \in Seq(ChainBlock) /\ Len(f) = Len(c) - 1 /\ \A h \in 1 .. Len(c) - 1 : f[h] = c[h]
  <2>1. Len(c) - 1 \in 0 .. Len(c)
    BY <1>1
  <2> QED BY <1>1, <2>1, StartOfSeq
<1>3. c[Len(c)] \in ChainBlock /\ BlockOk(f, c[Len(c)].coinbase, c[Len(c)].txs)
  BY <1>1 DEF ChainOk
<1>4. c = Append(f, c[Len(c)])
  BY <1>1, <1>2
<1>5. ASSUME NEW h \in 1 .. Len(f) PROVE BlockOk(SubSeq(f, 1, h - 1), f[h].coinbase, f[h].txs)
  <2>1. h \in 1 .. Len(c) /\ f[h] = c[h]
    BY <1>1, <1>2
  <2>2. SubSeq(f, 1, h - 1) = SubSeq(c, 1, h - 1)
    BY <1>1, <1>2
  <2> QED BY <2>1, <2>2 DEF ChainOk
<1>6. ChainOk(f)
  BY <1>2, <1>5 DEF ChainOk
<1> QED BY <1>1, <1>2, <1>3, <1>4, <1>6 DEF Front, Last

(* What a transaction of the chain spends is of the chain. *)
LEMMA ParentsAreKnown ==
    ASSUME NEW c, ChainOk(c), NEW t \in TxsIn(c), NEW o \in InputsOf[t]
    PROVE  o[1] \in Known(c)
<1>0. c \in Seq(ChainBlock) /\ Len(c) \in Nat /\ DOMAIN c = 1 .. Len(c)
  BY DEF ChainOk
<1>1. PICK h \in 1 .. Len(c) : t \in ToSet(c[h].txs)
  BY <1>0 DEF TxsIn
<1> DEFINE d == SubSeq(c, 1, h - 1)
<1>2. BlockOk(d, c[h].coinbase, c[h].txs) /\ c[h].txs \in Seq(Txs)
  BY DEF ChainOk, BlockOk
<1>3. PICK i \in 1 .. Len(c[h].txs) : t = c[h].txs[i]
  BY <1>1, <1>2 DEF ToSet
<1>4. o[1] \in Known(d) \/ \E j \in 1 .. i - 1 : o[1] = c[h].txs[j]
  BY <1>2, <1>3 DEF BlockOk
<1>5. DOMAIN d = 1 .. h - 1 /\ \A g \in 1 .. h - 1 : g \in DOMAIN c /\ d[g] = c[g]
  BY <1>0
<1>6. Known(d) \subseteq Known(c)
  <2>1. TxsIn(d) \subseteq TxsIn(c)
    BY <1>5 DEF TxsIn
  <2>2. CoinbasesIn(d) \subseteq CoinbasesIn(c)
    BY <1>5 DEF CoinbasesIn
  <2> QED BY <2>1, <2>2 DEF Known
<1>7. \A j \in 1 .. i - 1 : c[h].txs[j] \in TxsIn(c)
  <2>1. \A j \in 1 .. i - 1 : c[h].txs[j] \in ToSet(c[h].txs)
    BY <1>2 DEF ToSet
  <2> QED BY <1>0, <2>1 DEF TxsIn
<1> QED BY <1>4, <1>6, <1>7 DEF Known

(***************************************************************************)
(* Taking transactions in and out, one after the other.                    *)
(***************************************************************************)

(* Everything in pool p may go into the next block of chain c. *)
PoolInv(p, c) ==
    /\ IsPool(p)
    /\ \A t \in p.tx : t \notin TxsIn(c) /\ \A o \in InputsOf[t] : (o[1] \in p.tx \/ o \in UnspentCoins(c)) /\ Mature(o, c)

Pools == {p \in PoolSet : Indexed(p)}

(* A transaction that AcceptToMemoryPool takes is not in the chain. *)
LEMMA AcceptedIs ==
    ASSUME NEW c, ChainOk(c), NEW p, PoolInv(p, c), NEW t \in Txs, Judge(p, t, c) = "ok"
    PROVE  PoolInv(addUnchecked(p, t), c) /\ addUnchecked(p, t).tx = p.tx \cup {t}
<1>1. /\ InputsOf[t] \cap DOMAIN p.next = {} /\ t \notin p.tx
      /\ \A o \in InputsOf[t] : (o \in UnspentCoins(c) \/ o[1] \in p.tx) /\ Mature(o, c)
  BY JudgeOk
<1>2. IsPool(p) /\ IsPool(addUnchecked(p, t)) /\ addUnchecked(p, t).tx = p.tx \cup {t}
  BY <1>1, AddedIs DEF PoolInv
<1>3. c \in Seq(ChainBlock)
  BY DEF ChainOk
<1>4. t \notin TxsIn(c)
  <2> SUFFICES ASSUME t \in TxsIn(c) PROVE FALSE
    OBVIOUS
  <2>1. PICK o \in InputsOf[t] : TRUE
    BY PoolConstants
  <2>2. o \notin UnspentCoins(c)
    BY <1>3, UnspentIs
  <2>3. o[1] \in p.tx /\ o[1] \in Known(c)
    BY <1>1, <2>2, ParentsAreKnown
  <2>4. o[1] \in Txs /\ o[1] \notin TxsIn(c)
    BY <1>2, <2>3, PoolFields DEF PoolInv
  <2>5. CoinbasesIn(c) \subseteq Coinbases
    BY <1>3, ChainTxs
  <2> QED BY <2>3, <2>4, <2>5, PoolConstants DEF Known
<1>5. \A u \in p.tx : u \notin TxsIn(c) /\ \A o \in InputsOf[u] : (o[1] \in p.tx \/ o \in UnspentCoins(c)) /\ Mature(o, c)
  BY DEF PoolInv
<1> DEFINE q == addUnchecked(p, t)
<1>6. \A u \in q.tx : u \notin TxsIn(c) /\ \A o \in InputsOf[u] : (o[1] \in q.tx \/ o \in UnspentCoins(c)) /\ Mature(o, c)
  <2> HIDE DEF q
  <2>1. q.tx = p.tx \cup {t}
    BY <1>2 DEF q
  <2> QED BY <1>1, <1>4, <1>5, <2>1
<1> HIDE DEF q
<1>7. PoolInv(q, c)
  BY <1>2, <1>6 DEF PoolInv, q
<1> QED BY <1>2, <1>7 DEF q

(* What conflicts with a transaction that is not in the pool leaves it, with *)
(* its descendants: none that is left spends what t spends or what left.     *)
LEMMA ConflictsAre ==
    ASSUME NEW p, IsPool(p), NEW t \in Txs
    PROVE  LET q == removeConflicts(Without(p, {t}), t)
           IN  /\ IsPool(q) /\ q.tx \subseteq p.tx /\ t \notin q.tx
               /\ \A u \in q.tx : InputsOf[u] \cap InputsOf[t] = {}
               /\ \A u \in q.tx : \A x \in Parents(u) : x \in p.tx => x \in q.tx \/ x = t
<1> DEFINE w == Without(p, {t})
           rivals == {w.next[o] : o \in InputsOf[t] \cap DOMAIN w.next} \ {t}
           gone == UNION {Descendants(w, r) : r \in rivals}
           q == removeConflicts(w, t)
<1>1. IsPool(w) /\ w.tx = p.tx \ {t}
  BY WithoutIs
<1> HIDE DEF w
<1>2. q = Without(w, gone)
  BY DEF removeConflicts
<1>3. \A r : Spenders(w, Descendants(w, r)) \subseteq Descendants(w, r) /\ r \in Descendants(w, r)
  BY <1>1, DescendantsAre
<1> HIDE DEF gone
<1>4. IsPool(q) /\ q.tx = w.tx \ gone
  BY <1>1, <1>2, WithoutIs
<1> HIDE DEF q
<1>5. \A o \in InputsOf[t] \cap DOMAIN w.next : w.next[o] \in w.tx /\ w.next[o] # t
  BY <1>1, PoolFields
<1>6. ASSUME NEW u \in q.tx, NEW o \in InputsOf[u], o \in InputsOf[t] PROVE FALSE
  <2>1. u \in w.tx /\ u \notin gone
    BY <1>4
  <2>2. o \in DOMAIN w.next /\ w.next[o] = u
    BY <1>1, <2>1, PoolFields
  <2>3. u \in rivals
    BY <1>5, <1>6, <2>2
  <2>4. u \in gone
    BY <1>3, <2>3 DEF gone
  <2> QED BY <2>1, <2>4
<1>7. ASSUME NEW u \in q.tx, NEW x \in Parents(u), x \in p.tx, x \notin q.tx, x # t PROVE FALSE
  <2>1. u \in w.tx /\ u \notin gone /\ x \in gone
    BY <1>1, <1>4, <1>7
  <2>2. PICK r \in rivals : x \in Descendants(w, r)
    BY <2>1 DEF gone
  <2>3. u \in Spenders(w, Descendants(w, r))
    BY <2>1, <2>2, <1>7 DEF Spenders
  <2>4. u \in Descendants(w, r)
    BY <1>3, <2>3
  <2> QED BY <2>1, <2>2, <2>4 DEF gone
<1>8. q.tx \subseteq p.tx /\ t \notin q.tx
  BY <1>1, <1>4
<1>9. /\ IsPool(q) /\ q.tx \subseteq p.tx /\ t \notin q.tx
      /\ \A u \in q.tx : InputsOf[u] \cap InputsOf[t] = {}
      /\ \A u \in q.tx : \A x \in Parents(u) : x \in p.tx => x \in q.tx \/ x = t
  BY <1>4, <1>6, <1>7, <1>8
<1> QED BY <1>9 DEF q, w

(* removeForBlock, step by step. *)
IsBlockRun(r, p, txs) ==
    /\ r[0] = p /\ removeForBlock(p, txs) = r[Len(txs)]
    /\ \A k \in 1 .. Len(txs) : r[k] = removeConflicts(Without(r[k - 1], {txs[k]}), txs[k])

LEMMA BlockRun == ASSUME NEW p, IsPool(p), NEW txs \in Seq(Txs) PROVE \E r : IsBlockRun(r, p, txs)
<1> DEFINE n == Len(txs)
           Op(q, t) == removeConflicts(Without(q, {t}), t)
           Eq(f) == f = [s \in SUBSET (1 .. n) |-> IF s = {} THEN p ELSE Op(f[s \ {Max(s)}], txs[Max(s)])]
           c == CHOOSE f : Eq(f)
           G == [k \in 1 .. n |-> [q \in Pools |-> Op(q, txs[k])]]
<1>0. n \in Nat /\ DOMAIN txs = 1 .. n /\ \A k \in 1 .. n : txs[k] \in Txs
  OBVIOUS
<1>1. removeForBlock(p, txs) = c[1 .. n]
  BY <1>0 DEF removeForBlock, FoldLeft, MapThenFoldSet
<1>2. \E f : Eq(f)
  <2>1. p \in Pools
    BY DEF Pools, IsPool
  <2>2. \A q \in Pools, k \in 1 .. n : Op(q, txs[k]) \in Pools
    BY <1>0, ConflictsAre DEF Pools, IsPool
  <2> HIDE DEF Op
  <2>3. G \in [1 .. n -> [Pools -> Pools]]
    BY <2>2
  <2>0. PICK f : IsFold(f, n, Pools, p, G)
    <3> HIDE DEF G, n
    <3> QED BY <1>0, <2>1, <2>3, FoldExists
  <2>4. /\ f \in [SUBSET (1 .. n) -> Pools]
        /\ \A s \in SUBSET (1 .. n) : f[s] = IF s = {} THEN p ELSE G[Max(s)][f[s \ {Max(s)}]]
    BY <2>0 DEF IsFold
  <2>5. ASSUME NEW s \in SUBSET (1 .. n), s # {} PROVE f[s] = Op(f[s \ {Max(s)}], txs[Max(s)])
    <3>1. Max(s) \in 1 .. n /\ f[s \ {Max(s)}] \in Pools
      <4>1. Max(s) \in s
        BY <1>0, <2>5, MaxIs
      <4> QED BY <2>4, <4>1
    <3> QED BY <2>4, <2>5, <3>1
  <2>6. Eq(f)
    BY <2>4, <2>5
  <2> QED BY <2>6
<1>3. Eq(c)
  <2> HIDE DEF Eq
  <2> QED BY <1>2
<1> HIDE DEF c, n, Op
<1> DEFINE r == [k \in 0 .. n |-> c[1 .. k]]
<1>4. r[0] = p
  <2>1. 1 .. 0 = {} /\ 0 \in 0 .. n
    BY <1>0
  <2> QED BY <1>3, <2>1
<1>5. ASSUME NEW k \in 1 .. n PROVE r[k] = Op(r[k - 1], txs[k])
  <2>1. Max(1 .. k) = k /\ (1 .. k) \ {k} = 1 .. k - 1 /\ 1 .. k # {}
    <3>1. k \in Nat /\ k > 0
      OBVIOUS
    <3> QED BY <3>1, Segment
  <2>2. 1 .. k \in SUBSET (1 .. n) /\ k \in 0 .. n /\ k - 1 \in 0 .. n
    BY <1>0
  <2>3. c[1 .. k] = Op(c[1 .. k - 1], txs[k])
    BY <1>3, <2>1, <2>2
  <2> QED BY <2>2, <2>3
<1>6. r[n] = c[1 .. n]
  BY <1>0
<1> HIDE DEF r
<1>7. IsBlockRun(r, p, txs)
  BY <1>1, <1>4, <1>5, <1>6 DEF n, Op, IsBlockRun
<1> QED BY <1>7

(* A transaction is known to a chain only as one of its transactions. *)
LEMMA KnownTxs == ASSUME NEW c \in Seq(ChainBlock), NEW t \in Txs PROVE t \in Known(c) <=> t \in TxsIn(c)
<1>1. CoinbasesIn(c) \subseteq Coinbases
  BY ChainTxs
<1> QED BY <1>1, PoolConstants DEF Known

LEMMA KnownCoinbases ==
    ASSUME NEW c \in Seq(ChainBlock), NEW cb \in Coinbases
    PROVE  cb \in Known(c) <=> cb \in CoinbasesIn(c)
<1>1. TxsIn(c) \subseteq Txs
  BY ChainTxs
<1> QED BY <1>1, PoolConstants DEF Known

(* A block is connected: what is left in the pool may go into the next one. *)
LEMMA ConnectedIs ==
    ASSUME NEW c, ChainOk(c), NEW p, PoolInv(p, c), NEW cb, NEW txs, BlockOk(c, cb, txs)
    PROVE  PoolInv(removeForBlock(p, txs), Append(c, [coinbase |-> cb, txs |-> txs]))
<1> DEFINE n == Len(txs)
           b == [coinbase |-> cb, txs |-> txs]
           d == Append(c, b)
<1>0. txs \in Seq(Txs) /\ n \in Nat /\ DOMAIN txs = 1 .. n /\ \A k \in 1 .. n : txs[k] \in Txs
  BY DEF BlockOk
<1>a. PICK r : IsBlockRun(r, p, txs)
  BY <1>0, BlockRun DEF PoolInv
<1>1. /\ r[0] = p /\ removeForBlock(p, txs) = r[n]
      /\ \A k \in 1 .. n : r[k] = removeConflicts(Without(r[k - 1], {txs[k]}), txs[k])
  BY <1>a DEF IsBlockRun
<1> HIDE DEF n
<1> DEFINE J(k) ==
        /\ IsPool(r[k]) /\ r[k].tx \subseteq p.tx
        /\ \A u \in r[k].tx : \A j \in 1 .. k : u # txs[j] /\ InputsOf[u] \cap InputsOf[txs[j]] = {}
        /\ \A u \in r[k].tx : \A x \in Parents(u) : x \in p.tx => x \in r[k].tx \/ \E j \in 1 .. k : x = txs[j]
<1>2. J(0)
  BY <1>1 DEF PoolInv
<1>3. ASSUME NEW k \in 1 .. n, J(k - 1) PROVE J(k)
  <2>1. /\ IsPool(r[k]) /\ r[k].tx \subseteq r[k - 1].tx /\ txs[k] \notin r[k].tx
        /\ \A u \in r[k].tx : InputsOf[u] \cap InputsOf[txs[k]] = {}
        /\ \A u \in r[k].tx : \A x \in Parents(u) : x \in r[k - 1].tx => x \in r[k].tx \/ x = txs[k]
    <3>1. IsPool(r[k - 1]) /\ txs[k] \in Txs /\ r[k] = removeConflicts(Without(r[k - 1], {txs[k]}), txs[k])
      BY <1>0, <1>1, <1>3
    <3> HIDE DEF J
    <3> DEFINE z == r[k - 1]
               t == txs[k]
    <3>2. IsPool(z) /\ t \in Txs
      BY <3>1
    <3> HIDE DEF z, t
    <3>3. LET q == removeConflicts(Without(z, {t}), t)
          IN  /\ IsPool(q) /\ q.tx \subseteq z.tx /\ t \notin q.tx
              /\ \A u \in q.tx : InputsOf[u] \cap InputsOf[t] = {}
              /\ \A u \in q.tx : \A x \in Parents(u) : x \in z.tx => x \in q.tx \/ x = t
      BY <3>2, ConflictsAre
    <3>4. r[k] = removeConflicts(Without(z, {t}), t)
      BY <3>1 DEF z, t
    <3> QED BY <3>3, <3>4 DEF z, t
  <2>2. \A j \in 1 .. k : j = k \/ j \in 1 .. k - 1
    OBVIOUS
  <2>3. k \in 1 .. k /\ \A j \in 1 .. k - 1 : j \in 1 .. k
    OBVIOUS
  <2>4. ASSUME NEW u \in r[k].tx, NEW j \in 1 .. k PROVE u # txs[j] /\ InputsOf[u] \cap InputsOf[txs[j]] = {}
    BY <1>3, <2>1, <2>2
  <2>5. ASSUME NEW u \in r[k].tx, NEW x \in Parents(u), x \in p.tx PROVE x \in r[k].tx \/ \E j \in 1 .. k : x = txs[j]
    BY <1>3, <2>1, <2>3, <2>5
  <2> QED BY <1>3, <2>1, <2>4, <2>5
<1>4. J(n)
  <2> DEFINE P == {k \in 0 .. n : J(k)}
  <2> HIDE DEF J
  <2>1. 0 \in P
    BY <1>0, <1>2
  <2>2. ASSUME NEW k \in 1 .. n, k - 1 \in P PROVE k \in P
    BY <1>0, <1>3, <2>2
  <2>3. n \in P
    <3> HIDE DEF P
    <3>1. n \in 0 .. n
      BY <1>0
    <3> QED BY <1>0, <2>1, <2>2, <3>1, StepsReach
  <2> QED BY <2>3
<1> DEFINE q == r[n]
<1>5. c \in Seq(ChainBlock) /\ b \in ChainBlock /\ b.txs = txs /\ b.coinbase = cb /\ cb \in Coinbases /\ cb \notin CoinbasesIn(c)
  BY <1>0 DEF ChainOk, BlockOk, ChainBlock
<1>6. /\ d \in Seq(ChainBlock) /\ Len(d) = Len(c) + 1 /\ Len(c) \in Nat
      /\ TxsIn(d) = TxsIn(c) \cup ToSet(txs) /\ Known(d) = Known(c) \cup {cb} \cup ToSet(txs)
  <2> HIDE DEF b
  <2> QED BY <1>5, ChainGrows
<1>7. \A x : x \in ToSet(txs) <=> \E j \in 1 .. n : x = txs[j]
  BY <1>0 DEF ToSet
<1>8. DOMAIN d = 1 .. Len(c) + 1 /\ d[Len(c) + 1] = b /\ DOMAIN c = 1 .. Len(c) /\ \A h \in 1 .. Len(c) : d[h] = c[h]
  <2> HIDE DEF b
  <2> QED BY <1>5
<1> HIDE DEF b, d
<1>9. ASSUME NEW u \in q.tx
      PROVE  u \notin TxsIn(d) /\ \A o \in InputsOf[u] : (o[1] \in q.tx \/ o \in UnspentCoins(d)) /\ Mature(o, d)
  <2>1. u \in p.tx /\ u \in Txs
    BY <1>4, PoolFields DEF PoolInv
  <2>2. u \notin TxsIn(c) /\ \A o \in InputsOf[u] : (o[1] \in p.tx \/ o \in UnspentCoins(c)) /\ Mature(o, c)
    BY <2>1 DEF PoolInv
  <2>3. u \notin TxsIn(d)
    BY <1>4, <1>6, <1>7, <2>2
  <2>4. ASSUME NEW o \in InputsOf[u] PROVE (o[1] \in q.tx \/ o \in UnspentCoins(d)) /\ Mature(o, d)
    <3>1. o[1] \in Parents(u)
      BY DEF Parents
    <3>2. o[1] \in q.tx \/ (\E j \in 1 .. n : o[1] = txs[j]) \/ o \in UnspentCoins(c)
      BY <1>4, <2>2, <3>1
    <3>3. ASSUME o \in UnspentCoins(c) PROVE o \in UnspentCoins(d)
      <4>1. o[1] \in Known(c) /\ \A x \in TxsIn(c) : o \notin InputsOf[x]
        BY <1>5, <2>1, <3>3, UnspentIs
      <4>2. \A x \in TxsIn(d) : o \notin InputsOf[x]
        BY <1>4, <1>6, <1>7, <4>1
      <4> QED BY <1>6, <2>1, <4>1, <4>2, UnspentIs
    <3>4. ASSUME NEW j \in 1 .. n, o[1] = txs[j] PROVE o \in UnspentCoins(d)
      <4>1. txs[j] \notin Known(c)
        BY <1>0, <1>5, KnownTxs DEF BlockOk, n
      <4>2. \A x \in TxsIn(c) : o \notin InputsOf[x]
        BY <3>4, <4>1, ParentsAreKnown
      <4>3. \A x \in TxsIn(d) : o \notin InputsOf[x]
        BY <1>4, <1>6, <1>7, <4>2
      <4>4. o[1] \in Known(d)
        BY <1>6, <1>7, <3>4
      <4> QED BY <1>6, <2>1, <4>3, <4>4, UnspentIs
    <3>5. o[1] # cb
      <4>1. CASE o[1] \in p.tx
        BY <1>5, <4>1, PoolConstants, PoolFields DEF PoolInv
      <4>2. CASE o \in UnspentCoins(c)
        <5>1. o[1] \in Known(c)
          BY <4>2, CoinsAreKnown
        <5> QED BY <1>5, <5>1, KnownCoinbases
      <4> QED BY <2>2, <4>1, <4>2
    <3>6. Mature(o, d)
      <4> SUFFICES ASSUME NEW h \in DOMAIN d, d[h].coinbase = o[1] PROVE Len(d) + 1 - h >= Maturity
        BY DEF Mature
      <4>1. h # Len(c) + 1
        BY <1>5, <1>8, <3>5
      <4>2. h \in DOMAIN c /\ c[h].coinbase = o[1] /\ h \in 1 .. Len(c)
        BY <1>6, <1>8, <4>1
      <4>3. Len(c) + 1 - h >= Maturity
        BY <2>2, <4>2 DEF Mature
      <4> QED BY <1>6, <4>2, <4>3, PoolConstants
    <3> QED BY <3>2, <3>3, <3>4, <3>6
  <2> QED BY <2>3, <2>4
<1>10. PoolInv(q, d)
  BY <1>4, <1>9 DEF PoolInv
<1> QED BY <1>1, <1>10 DEF d, b

(* DisconnectTip gives the transactions of the block back, one by one. *)
Back(p, t, c) == IF Judge(p, t, c) = "ok" THEN addUnchecked(p, t) ELSE removeRecursive(p, t)
TxsBack(p, txs, c) == FoldLeft(LAMBDA q, t : Back(q, t, c), p, txs)

IsBackRun(r, p, txs, c) ==
    r[0] = p /\ TxsBack(p, txs, c) = r[Len(txs)] /\ \A k \in 1 .. Len(txs) : r[k] = Back(r[k - 1], txs[k], c)

LEMMA DisconnectIs ==
    ASSUME DisconnectTip
    PROVE  /\ blocks # <<>> /\ blocks' = Front(blocks) /\ UNCHANGED orphanTxs /\ cause' = "chain"
           /\ mempool' = removeCoinbaseSpends(TxsBack(removeRecursive(mempool, Last(blocks).coinbase), Last(blocks).txs, Front(blocks)), Front(blocks))
  BY DEF DisconnectTip, TxsBack, Back, FoldLeft, MapThenFoldSet

(* What remove(fRecursive) leaves spends nothing that left. *)
LEMMA RemovedIs ==
    ASSUME NEW p, IsPool(p), NEW t
    PROVE  LET q == removeRecursive(p, t)
           IN  /\ IsPool(q) /\ q.tx = p.tx \ Descendants(p, t) /\ t \notin q.tx
               /\ \A u \in q.tx : \A x \in Parents(u) : x # t /\ (x \in p.tx => x \in q.tx)
<1> DEFINE q == removeRecursive(p, t)
           D == Descendants(p, t)
<1>1. q = Without(p, D)
  BY DEF removeRecursive
<1>2. t \in D /\ Spenders(p, D) \subseteq D
  BY DescendantsAre
<1> HIDE DEF D
<1>3. IsPool(q) /\ q.tx = p.tx \ D
  BY <1>1, WithoutIs
<1> HIDE DEF q
<1>4. \A u \in q.tx : \A x \in Parents(u) : x # t /\ (x \in p.tx => x \in q.tx)
  BY <1>2, <1>3 DEF Spenders
<1> QED BY <1>2, <1>3, <1>4 DEF q, D

LEMMA BackIs ==
    ASSUME NEW p, IsPool(p), NEW t \in Txs, NEW c
    PROVE  LET q == Back(p, t, c)
           IN  \/ /\ Judge(p, t, c) = "ok" /\ IsPool(q) /\ q.tx = p.tx \cup {t}
               \/ /\ Judge(p, t, c) # "ok" /\ IsPool(q) /\ q.tx = p.tx \ Descendants(p, t) /\ t \notin q.tx
                  /\ \A u \in q.tx : \A x \in Parents(u) : x # t /\ (x \in p.tx => x \in q.tx)
<1>1. CASE Judge(p, t, c) = "ok"
  <2>1. InputsOf[t] \cap DOMAIN p.next = {}
    BY <1>1, JudgeOk
  <2>2. IsPool(addUnchecked(p, t)) /\ addUnchecked(p, t).tx = p.tx \cup {t}
    BY <2>1, AddedIs
  <2> QED BY <1>1, <2>2 DEF Back
<1>2. CASE Judge(p, t, c) # "ok"
  <2> DEFINE q == removeRecursive(p, t)
  <2>1. /\ IsPool(q) /\ q.tx = p.tx \ Descendants(p, t) /\ t \notin q.tx
        /\ \A u \in q.tx : \A x \in Parents(u) : x # t /\ (x \in p.tx => x \in q.tx)
    BY RemovedIs
  <2>2. Back(p, t, c) = q
    BY <1>2 DEF Back
  <2> HIDE DEF q
  <2> QED BY <1>2, <2>1, <2>2
<1> QED BY <1>1, <1>2

LEMMA BackRun == ASSUME NEW p, IsPool(p), NEW txs \in Seq(Txs), NEW d PROVE \E r : IsBackRun(r, p, txs, d)
<1> DEFINE n == Len(txs)
           Eq(f) == f = [s \in SUBSET (1 .. n) |-> IF s = {} THEN p ELSE Back(f[s \ {Max(s)}], txs[Max(s)], d)]
           c == CHOOSE f : Eq(f)
           G == [k \in 1 .. n |-> [q \in Pools |-> Back(q, txs[k], d)]]
<1>0. n \in Nat /\ DOMAIN txs = 1 .. n /\ \A k \in 1 .. n : txs[k] \in Txs
  OBVIOUS
<1>1. TxsBack(p, txs, d) = c[1 .. n]
  BY <1>0 DEF TxsBack, FoldLeft, MapThenFoldSet
<1>2. \E f : Eq(f)
  <2>1. p \in Pools
    BY DEF Pools, IsPool
  <2>2. \A q \in Pools, k \in 1 .. n : Back(q, txs[k], d) \in Pools
    BY <1>0, BackIs DEF Pools, IsPool
  <2>3. G \in [1 .. n -> [Pools -> Pools]]
    BY <2>2
  <2>0. PICK f : IsFold(f, n, Pools, p, G)
    <3> HIDE DEF G, n
    <3> QED BY <1>0, <2>1, <2>3, FoldExists
  <2>4. /\ f \in [SUBSET (1 .. n) -> Pools]
        /\ \A s \in SUBSET (1 .. n) : f[s] = IF s = {} THEN p ELSE G[Max(s)][f[s \ {Max(s)}]]
    BY <2>0 DEF IsFold
  <2>5. ASSUME NEW s \in SUBSET (1 .. n), s # {} PROVE f[s] = Back(f[s \ {Max(s)}], txs[Max(s)], d)
    <3>1. Max(s) \in 1 .. n /\ f[s \ {Max(s)}] \in Pools
      <4>1. Max(s) \in s
        BY <1>0, <2>5, MaxIs
      <4> QED BY <2>4, <4>1
    <3> QED BY <2>4, <2>5, <3>1
  <2>6. Eq(f)
    BY <2>4, <2>5
  <2> QED BY <2>6
<1>3. Eq(c)
  <2> HIDE DEF Eq
  <2> QED BY <1>2
<1> HIDE DEF c, n
<1> DEFINE r == [k \in 0 .. n |-> c[1 .. k]]
<1>4. r[0] = p
  <2>1. 1 .. 0 = {} /\ 0 \in 0 .. n
    BY <1>0
  <2> QED BY <1>3, <2>1
<1>5. ASSUME NEW k \in 1 .. n PROVE r[k] = Back(r[k - 1], txs[k], d)
  <2>1. Max(1 .. k) = k /\ (1 .. k) \ {k} = 1 .. k - 1 /\ 1 .. k # {}
    <3>1. k \in Nat /\ k > 0
      OBVIOUS
    <3> QED BY <3>1, Segment
  <2>2. 1 .. k \in SUBSET (1 .. n) /\ k \in 0 .. n /\ k - 1 \in 0 .. n
    BY <1>0
  <2>3. c[1 .. k] = Back(c[1 .. k - 1], txs[k], d)
    BY <1>3, <2>1, <2>2
  <2> QED BY <2>2, <2>3
<1>6. r[n] = c[1 .. n]
  BY <1>0
<1> HIDE DEF r
<1>7. IsBackRun(r, p, txs, d)
  BY <1>1, <1>4, <1>5, <1>6 DEF n, IsBackRun
<1> QED BY <1>7

(* What removeCoinbaseSpends leaves.  It is applied where each input is an   *)
(* output of the pool or a coin.                                             *)
Spoilt(p, t, c) == \E o \in InputsOf[t] : o[1] \notin p.tx /\ ((\A x \in UnspentCoins(c) : x[1] # o[1]) \/ ~Mature(o, c))

LEMMA SpoiltLeave ==
    ASSUME NEW c, NEW p, IsPool(p)
    PROVE  LET q == removeCoinbaseSpends(p, c)
           IN  /\ IsPool(q) /\ q.tx \subseteq p.tx
               /\ \A u \in q.tx : ~Spoilt(p, u, c) /\ \A x \in Parents(u) : x \in p.tx => x \in q.tx
               /\ \A u \in p.tx : u \in q.tx \/ \E t \in p.tx : Spoilt(p, t, c) /\ u \in Descendants(p, t)
<1> DEFINE bad == {t \in p.tx : Spoilt(p, t, c)}
           gone == UNION {Descendants(p, t) : t \in bad}
           q == removeCoinbaseSpends(p, c)
<1>1. q = Without(p, gone)
  BY DEF removeCoinbaseSpends, Spoilt
<1>2. \A t : t \in Descendants(p, t) /\ Spenders(p, Descendants(p, t)) \subseteq Descendants(p, t)
  BY DescendantsAre
<1> HIDE DEF gone
<1>3. IsPool(q) /\ q.tx = p.tx \ gone
  BY <1>1, WithoutIs
<1> HIDE DEF q
<1>4. ASSUME NEW u \in q.tx PROVE ~Spoilt(p, u, c) /\ \A x \in Parents(u) : x \in p.tx => x \in q.tx
  <2>1. ~Spoilt(p, u, c)
    BY <1>2, <1>3 DEF gone
  <2>2. ASSUME NEW x \in Parents(u), x \in p.tx, x \notin q.tx PROVE FALSE
    <3>1. PICK t \in bad : x \in Descendants(p, t)
      BY <1>3, <2>2 DEF gone
    <3>2. u \in Spenders(p, Descendants(p, t))
      BY <1>3, <2>2, <3>1 DEF Spenders
    <3>3. u \in Descendants(p, t)
      BY <1>2, <3>2
    <3> QED BY <1>3, <3>1, <3>3 DEF gone
  <2> QED BY <2>1, <2>2
<1>5. \A u \in p.tx : u \in q.tx \/ \E t \in p.tx : Spoilt(p, t, c) /\ u \in Descendants(p, t)
  BY <1>3 DEF gone
<1> QED BY <1>3, <1>4, <1>5 DEF q

(* No transaction of a block descends, in the pool, from what comes after it *)
(* or from what is not in the chain.                                         *)
LEMMA TipStays ==
    ASSUME NEW c \in Seq(ChainBlock), NEW cb, NEW txs, BlockOk(c, cb, txs), NEW m \in 0 .. Len(txs),
           NEW p, IsPool(p), p.tx \cap TxsIn(c) = {}, NEW x \in Txs, x \notin TxsIn(c), \A j \in 1 .. m : x # txs[j]
    PROVE  \A j \in 1 .. m : txs[j] \notin Descendants(p, x)
<1> DEFINE S == {u \in p.tx \cup {x} : \A j \in 1 .. m : u # txs[j]}
<1>0. txs \in Seq(Txs) /\ Len(txs) \in Nat
  BY DEF BlockOk
<1>1. x \in S
  OBVIOUS
<1>2. p.tx \subseteq Txs
  BY PoolFields
<1>3. \A u \in S : u \notin Known(c)
  BY <1>2, KnownTxs
<1>4. ASSUME NEW u \in Spenders(p, S) PROVE u \in S
  <2>1. u \in p.tx /\ \E y \in Parents(u) : y \in S
    BY DEF Spenders
  <2>2. PICK o \in InputsOf[u] : o[1] \in S
    BY <2>1 DEF Parents
  <2>3. ASSUME NEW j \in 1 .. m, u = txs[j] PROVE FALSE
    <3>1. j \in 1 .. Len(txs)
      BY <1>0
    <3>2. o[1] \in Known(c) \/ \E i \in 1 .. j - 1 : o[1] = txs[i]
      BY <2>2, <2>3, <3>1 DEF BlockOk
    <3>3. \A i \in 1 .. j - 1 : i \in 1 .. m
      BY <1>0
    <3> QED BY <1>3, <2>2, <3>2, <3>3
  <2> QED BY <2>1, <2>3
<1>5. Descendants(p, x) \subseteq S
  <2> HIDE DEF S
  <2> QED BY <1>1, <1>4, DescendantsAre
<1> QED BY <1>5

(* A coin of a chain with one more block is a coin of the chain, or made by  *)
(* the block.                                                                *)
LEMMA CoinBefore ==
    ASSUME NEW c \in Seq(ChainBlock), NEW b \in ChainBlock, NEW u \in Txs, NEW o \in InputsOf[u], o \in UnspentCoins(Append(c, b))
    PROVE  o \in UnspentCoins(c) \/ o[1] = b.coinbase \/ o[1] \in ToSet(b.txs)
<1>1. /\ Append(c, b) \in Seq(ChainBlock) /\ TxsIn(c) \subseteq TxsIn(Append(c, b))
      /\ Known(Append(c, b)) = Known(c) \cup {b.coinbase} \cup ToSet(b.txs)
  BY ChainGrows
<1>2. o[1] \in Known(Append(c, b)) /\ \A x \in TxsIn(Append(c, b)) : o \notin InputsOf[x]
  BY <1>1, UnspentIs
<1>3. o[1] \in Known(c) => o \in UnspentCoins(c)
  BY <1>1, <1>2, UnspentIs
<1> QED BY <1>1, <1>2, <1>3

(* What a transaction of the chain spends, nothing in the pool spends. *)
LEMMA ChainComesFirst ==
    ASSUME NEW c, ChainOk(c), NEW p, PoolInv(p, c), NEW t \in TxsIn(c), NEW u \in p.tx
    PROVE  InputsOf[u] \cap InputsOf[t] = {}
<1>0. c \in Seq(ChainBlock) /\ u \in Txs /\ p.tx \subseteq Txs
  BY PoolFields DEF PoolInv, ChainOk
<1> SUFFICES ASSUME NEW o \in InputsOf[u], o \in InputsOf[t] PROVE FALSE
  OBVIOUS
<1>1. o \notin UnspentCoins(c)
  BY <1>0, UnspentIs
<1>2. o[1] \in p.tx
  BY <1>1 DEF PoolInv
<1>3. o[1] \notin TxsIn(c)
  BY <1>2 DEF PoolInv
<1>4. o[1] \in Known(c)
  BY ParentsAreKnown
<1> QED BY <1>0, <1>2, <1>3, <1>4, KnownTxs

(* The pool while the transactions of the tip come back. *)
Returning(r, p, txs, c, k) ==
    /\ IsPool(r[k])
    /\ \A u \in r[k].tx : u \in p.tx \/ \E j \in 1 .. k : u = txs[j]
    /\ \A u \in r[k].tx : \A o \in InputsOf[u] :
          o[1] \in r[k].tx \/ o \in UnspentCoins(c) \/ \E j \in k + 1 .. Len(txs) : o[1] = txs[j]

LEMMA ReturnStarts ==
    ASSUME NEW c, NEW b, ChainOk(c), ChainOk(Append(c, b)), b \in ChainBlock, BlockOk(c, b.coinbase, b.txs),
           NEW p, PoolInv(p, Append(c, b)), NEW r, r[0] = removeRecursive(p, b.coinbase)
    PROVE  Returning(r, p, b.txs, c, 0)
<1> DEFINE cb == b.coinbase
           txs == b.txs
           q == removeRecursive(p, cb)
<1>0. c \in Seq(ChainBlock) /\ txs \in Seq(Txs) /\ Len(txs) \in Nat
  BY DEF ChainOk, BlockOk
<1>1. /\ IsPool(q) /\ q.tx \subseteq p.tx
      /\ \A u \in q.tx : \A x \in Parents(u) : x # cb /\ (x \in p.tx => x \in q.tx)
  BY RemovedIs DEF PoolInv
<1> HIDE DEF q
<1>2. ASSUME NEW u \in q.tx, NEW o \in InputsOf[u]
      PROVE  o[1] \in q.tx \/ o \in UnspentCoins(c) \/ \E j \in 1 .. Len(txs) : o[1] = txs[j]
  <2>1. u \in p.tx /\ u \in Txs /\ o[1] \in Parents(u)
    BY <1>1, PoolFields DEF PoolInv, Parents
  <2>2. o[1] \in p.tx \/ o \in UnspentCoins(Append(c, b))
    BY <2>1 DEF PoolInv
  <2>3. ASSUME o \in UnspentCoins(Append(c, b)) PROVE o \in UnspentCoins(c) \/ o[1] \in ToSet(txs)
    BY <1>0, <1>1, <2>1, <2>3, CoinBefore
  <2>4. o[1] \in ToSet(txs) <=> \E j \in 1 .. Len(txs) : o[1] = txs[j]
    BY <1>0 DEF ToSet
  <2> QED BY <1>1, <2>1, <2>2, <2>3, <2>4
<1>3. r[0] = q /\ 0 + 1 = 1
  BY DEF q
<1> QED BY <1>1, <1>2, <1>3 DEF Returning

LEMMA ReturnStep ==
    ASSUME NEW c, NEW p, NEW txs \in Seq(Txs), NEW r, NEW k \in 1 .. Len(txs),
           Returning(r, p, txs, c, k - 1), r[k] = Back(r[k - 1], txs[k], c)
    PROVE  Returning(r, p, txs, c, k)
<1> DEFINE v == r[k - 1]
           q == r[k]
           t == txs[k]
<1>0. /\ IsPool(v) /\ t \in Txs
      /\ \A u \in v.tx : u \in p.tx \/ \E j \in 1 .. k - 1 : u = txs[j]
      /\ \A u \in v.tx : \A o \in InputsOf[u] :
            o[1] \in v.tx \/ o \in UnspentCoins(c) \/ \E j \in k .. Len(txs) : o[1] = txs[j]
  <2>1. k - 1 + 1 = k /\ t \in Txs
    OBVIOUS
  <2> QED BY <2>1 DEF Returning
<1>1. q = Back(v, t, c)
  OBVIOUS
<1>2. (\A j \in 1 .. k - 1 : j \in 1 .. k) /\ k \in 1 .. k /\ \A j \in k .. Len(txs) : j = k \/ j \in k + 1 .. Len(txs)
  OBVIOUS
<1> HIDE DEF v, q
<1>3. CASE Judge(v, t, c) = "ok"
  <2>1. IsPool(q) /\ q.tx = v.tx \cup {t}
    BY <1>0, <1>1, <1>3, BackIs
  <2>2. \A o \in InputsOf[t] : o \in UnspentCoins(c) \/ o[1] \in v.tx
    BY <1>3, JudgeOk
  <2>3. \A u \in q.tx : u \in p.tx \/ \E j \in 1 .. k : u = txs[j]
    BY <1>0, <1>2, <2>1
  <2>4. ASSUME NEW u \in q.tx, NEW o \in InputsOf[u]
        PROVE  o[1] \in q.tx \/ o \in UnspentCoins(c) \/ \E j \in k + 1 .. Len(txs) : o[1] = txs[j]
    <3>1. CASE u = t
      BY <2>1, <2>2, <3>1
    <3>2. CASE u \in v.tx
      BY <1>0, <1>2, <2>1, <3>2
    <3> QED BY <2>1, <3>1, <3>2
  <2> QED BY <2>1, <2>3, <2>4 DEF Returning, q
<1>4. CASE Judge(v, t, c) # "ok"
  <2>1. IsPool(q) /\ q.tx \subseteq v.tx /\ \A u \in q.tx : \A x \in Parents(u) : x # t /\ (x \in v.tx => x \in q.tx)
    <3> HIDE DEF t
    <3>1. /\ IsPool(q) /\ q.tx = v.tx \ Descendants(v, t)
          /\ \A u \in q.tx : \A x \in Parents(u) : x # t /\ (x \in v.tx => x \in q.tx)
      BY <1>0, <1>1, <1>4, BackIs
    <3> QED BY <3>1
  <2>3. \A u \in q.tx : u \in p.tx \/ \E j \in 1 .. k : u = txs[j]
    BY <1>0, <1>2, <2>1
  <2>4. ASSUME NEW u \in q.tx, NEW o \in InputsOf[u]
        PROVE  o[1] \in q.tx \/ o \in UnspentCoins(c) \/ \E j \in k + 1 .. Len(txs) : o[1] = txs[j]
    <3>1. o[1] \in Parents(u) /\ u \in v.tx
      BY <2>1 DEF Parents
    <3>2. o[1] \in v.tx \/ o \in UnspentCoins(c) \/ \E j \in k .. Len(txs) : o[1] = txs[j]
      BY <1>0, <3>1
    <3>3. o[1] # t /\ (o[1] \in v.tx => o[1] \in q.tx)
      BY <2>1, <3>1
    <3> QED BY <1>2, <3>2, <3>3
  <2> QED BY <2>1, <2>3, <2>4 DEF Returning, q
<1> QED BY <1>3, <1>4

LEMMA AllReturning ==
    ASSUME NEW c, NEW b, ChainOk(c), ChainOk(Append(c, b)), b \in ChainBlock, BlockOk(c, b.coinbase, b.txs),
           NEW p, PoolInv(p, Append(c, b)), NEW r, IsBackRun(r, removeRecursive(p, b.coinbase), b.txs, c)
    PROVE  \A k \in 0 .. Len(b.txs) : Returning(r, p, b.txs, c, k)
<1> DEFINE txs == b.txs
           n == Len(txs)
           P == {k \in 0 .. n : Returning(r, p, txs, c, k)}
<1>0. txs \in Seq(Txs) /\ n \in Nat
  BY DEF BlockOk
<1>1. r[0] = removeRecursive(p, b.coinbase) /\ \A k \in 1 .. n : r[k] = Back(r[k - 1], txs[k], c)
  BY DEF IsBackRun
<1>2. 0 \in P
  BY <1>0, <1>1, ReturnStarts
<1>3. ASSUME NEW k \in 1 .. n, k - 1 \in P PROVE k \in P
  BY <1>0, <1>1, <1>3, ReturnStep
<1>4. \A k \in 0 .. n : k \in P
  <2> HIDE DEF P, n
  <2> QED BY <1>0, <1>2, <1>3, StepsReach
<1> QED BY <1>4

(* None of them is in the chain that is left. *)
LEMMA NoneInChain ==
    ASSUME NEW c \in Seq(ChainBlock), NEW b \in ChainBlock, BlockOk(c, b.coinbase, b.txs),
           NEW p, PoolInv(p, Append(c, b)), NEW r, NEW k \in 0 .. Len(b.txs), Returning(r, p, b.txs, c, k)
    PROVE  r[k].tx \cap TxsIn(c) = {}
<1>0. b.txs \in Seq(Txs) /\ Len(b.txs) \in Nat
  BY DEF BlockOk
<1>1. TxsIn(c) \subseteq TxsIn(Append(c, b))
  BY ChainGrows
<1>2. \A u \in p.tx : u \notin TxsIn(c)
  BY <1>1 DEF PoolInv
<1>3. \A j \in 1 .. k : b.txs[j] \notin TxsIn(c)
  BY <1>0 DEF BlockOk
<1> QED BY <1>2, <1>3 DEF Returning

(* The tip is disconnected: what is in the pool may go into the next block.  *)
LEMMA DisconnectedIs ==
    ASSUME NEW c, NEW b, ChainOk(c), ChainOk(Append(c, b)), b \in ChainBlock, BlockOk(c, b.coinbase, b.txs),
           NEW p, PoolInv(p, Append(c, b))
    PROVE  PoolInv(removeCoinbaseSpends(TxsBack(removeRecursive(p, b.coinbase), b.txs, c), c), c)
<1> DEFINE txs == b.txs
           n == Len(txs)
           s == removeRecursive(p, b.coinbase)
<1>0. txs \in Seq(Txs) /\ n \in Nat /\ c \in Seq(ChainBlock) /\ n \in 0 .. n
  BY DEF BlockOk, ChainOk
<1>1. IsPool(s)
  BY RemovedIs DEF PoolInv
<1> HIDE DEF s
<1>2. PICK r : IsBackRun(r, s, txs, c)
  BY <1>0, <1>1, BackRun
<1>3. TxsBack(s, txs, c) = r[n]
  BY <1>2 DEF IsBackRun
<1>4. Returning(r, p, txs, c, n)
  BY <1>0, <1>2, AllReturning DEF s
<1>5. r[n].tx \cap TxsIn(c) = {}
  BY <1>0, <1>4, NoneInChain
<1> DEFINE v == r[n]
           q == removeCoinbaseSpends(v, c)
<1>6. IsPool(v) /\ v.tx \subseteq Txs /\ \A u \in v.tx : \A o \in InputsOf[u] : o[1] \in v.tx \/ o \in UnspentCoins(c)
  <2>1. \A j \in n + 1 .. n : FALSE
    BY <1>0
  <2> QED BY <1>4, <2>1, PoolFields DEF Returning
<1> HIDE DEF v
<1>7. /\ IsPool(q) /\ q.tx \subseteq v.tx
      /\ \A u \in q.tx : ~Spoilt(v, u, c) /\ \A x \in Parents(u) : x \in v.tx => x \in q.tx
  BY <1>6, SpoiltLeave
<1> HIDE DEF q
<1>8. ASSUME NEW u \in q.tx, NEW o \in InputsOf[u] PROVE (o[1] \in q.tx \/ o \in UnspentCoins(c)) /\ Mature(o, c)
  <2>1. o[1] \in Parents(u) /\ u \in v.tx
    BY <1>7 DEF Parents
  <2>2. o[1] \in q.tx \/ o \in UnspentCoins(c)
    BY <1>6, <1>7, <2>1
  <2>3. Mature(o, c)
    <3>1. CASE o[1] \in v.tx
      <4>1. \A h \in DOMAIN c : c[h].coinbase \in Coinbases
        <5>1. CoinbasesIn(c) \subseteq Coinbases
          BY <1>0, ChainTxs
        <5> QED BY <5>1 DEF CoinbasesIn
      <4>2. o[1] \notin Coinbases
        BY <1>6, <3>1, PoolConstants
      <4> QED BY <4>1, <4>2 DEF Mature
    <3>2. CASE o[1] \notin v.tx
      BY <1>7, <3>2 DEF Spoilt
    <3> QED BY <3>1, <3>2
  <2> QED BY <2>2, <2>3
<1>9. \A u \in q.tx : u \notin TxsIn(c)
  BY <1>5, <1>7 DEF v
<1>10. PoolInv(q, c)
  BY <1>7, <1>8, <1>9 DEF PoolInv
<1> QED BY <1>3, <1>10 DEF q, v, s

(* A transaction of the tip that is back stays; one that is not back when    *)
(* its turn is over does not come back.                                      *)
LEMMA BackForGood ==
    ASSUME NEW c, NEW b, ChainOk(c), ChainOk(Append(c, b)), b \in ChainBlock, BlockOk(c, b.coinbase, b.txs),
           NEW p, PoolInv(p, Append(c, b)), NEW r, IsBackRun(r, removeRecursive(p, b.coinbase), b.txs, c),
           NEW j \in 1 .. Len(b.txs), NEW k \in j .. Len(b.txs)
    PROVE  b.txs[j] \in r[k].tx <=> b.txs[j] \in r[j].tx
<1> DEFINE txs == b.txs
           n == Len(txs)
           t == txs[j]
           P == {i \in 0 .. n - j : t \in r[j + i].tx <=> t \in r[j].tx}
<1>0. txs \in Seq(Txs) /\ n \in Nat /\ c \in Seq(ChainBlock) /\ j \in Nat
  BY DEF BlockOk, ChainOk
<1>1. \A i \in 1 .. n : r[i] = Back(r[i - 1], txs[i], c)
  BY DEF IsBackRun
<1>2. 0 \in P
  BY <1>0
<1>3. ASSUME NEW i \in 1 .. n - j, i - 1 \in P PROVE i \in P
  <2> DEFINE m == j + i - 1
             x == txs[m + 1]
             v == r[m]
  <2>1. m \in 0 .. n /\ m + 1 \in 1 .. n /\ m + 1 = j + i /\ j + (i - 1) = m /\ m + 1 - 1 = m /\ j \in 1 .. m
    BY <1>0
  <2>2. Returning(r, p, txs, c, m)
    BY <2>1, AllReturning
  <2>3. IsPool(v) /\ v.tx \cap TxsIn(c) = {}
    <3>1. IsPool(v)
      BY <2>2 DEF Returning
    <3>2. v.tx \cap TxsIn(c) = {}
      BY <1>0, <2>1, <2>2, NoneInChain
    <3> QED BY <3>1, <3>2
  <2>4. x \in Txs /\ x \notin TxsIn(c) /\ \A l \in 1 .. m : x # txs[l]
    <3>1. \A l \in 1 .. m : l \in 1 .. m + 1 - 1
      BY <1>0, <2>1
    <3> QED BY <1>0, <2>1, <3>1 DEF BlockOk
  <2>5. r[m + 1] = Back(v, x, c)
    BY <1>1, <2>1
  <2> HIDE DEF m
  <2>6. \A l \in 1 .. m : txs[l] \notin Descendants(v, x)
    <3> HIDE DEF v, x, n
    <3> QED BY <1>0, <2>1, <2>3, <2>4, TipStays DEF n
  <2>7. t \in r[m + 1].tx <=> t \in v.tx
    <3>1. t # x /\ t \notin Descendants(v, x)
      BY <2>1, <2>4, <2>6
    <3>2. r[m + 1].tx = v.tx \cup {x} \/ r[m + 1].tx = v.tx \ Descendants(v, x)
      <4> HIDE DEF v, x
      <4> QED BY <2>3, <2>4, <2>5, BackIs
    <3> QED BY <3>1, <3>2
  <2>8. i \in 0 .. n - j
    BY <1>0
  <2> QED BY <1>3, <2>1, <2>7, <2>8
<1>4. k - j \in P
  <2>1. k - j \in 0 .. n - j /\ n - j \in Nat
    BY <1>0
  <2> HIDE DEF P
  <2> QED BY <1>2, <1>3, <2>1, StepsReach
<1>5. j + (k - j) = k
  BY <1>0
<1> QED BY <1>4, <1>5

(* A transaction of the tip comes back, unless policy turns it or something  *)
(* of the block that it spends down.                                         *)
LEMMA TipReturns ==
    ASSUME NEW c, NEW b, ChainOk(c), ChainOk(Append(c, b)), b \in ChainBlock, BlockOk(c, b.coinbase, b.txs),
           NEW p, PoolInv(p, Append(c, b)), NEW q,
           q = removeCoinbaseSpends(TxsBack(removeRecursive(p, b.coinbase), b.txs, c), c),
           NEW t \in ToSet(b.txs), t \notin Unacceptable, \A x \in Parents(t) \cap ToSet(b.txs) : x \in q.tx
    PROVE  t \in q.tx
<1> DEFINE txs == b.txs
           n == Len(txs)
           s == removeRecursive(p, b.coinbase)
<1>0. txs \in Seq(Txs) /\ n \in Nat /\ c \in Seq(ChainBlock) /\ n \in 0 .. n
  BY DEF BlockOk, ChainOk
<1>1. PICK k \in 1 .. n : t = txs[k]
  BY <1>0 DEF ToSet
<1>2. IsPool(s)
  BY RemovedIs DEF PoolInv
<1> HIDE DEF s
<1>3. PICK r : IsBackRun(r, s, txs, c)
  BY <1>0, <1>2, BackRun
<1>4. TxsBack(s, txs, c) = r[n] /\ r[k] = Back(r[k - 1], txs[k], c)
  BY <1>3 DEF IsBackRun
<1>5. \A i \in 0 .. n : Returning(r, p, txs, c, i)
  BY <1>3, AllReturning DEF s
<1>6. \A j \in 1 .. n : \A i \in j .. n : txs[j] \in r[i].tx <=> txs[j] \in r[j].tx
  BY <1>3, BackForGood DEF s
<1> DEFINE v == r[k - 1]
           w == r[n]
<1>7. k - 1 \in 0 .. n /\ t \in Txs /\ k \in k .. n /\ n \in k .. n
  BY <1>0, <1>1
<1>8. /\ IsPool(v) /\ v.tx \cap TxsIn(c) = {} /\ IsPool(w) /\ w.tx \cap TxsIn(c) = {}
      /\ \A u \in v.tx : u \in p.tx \/ \E j \in 1 .. k - 1 : u = txs[j]
      /\ \A u \in w.tx : \A o \in InputsOf[u] : o[1] \in w.tx \/ o \in UnspentCoins(c)
  <2>1. Returning(r, p, txs, c, k - 1) /\ Returning(r, p, txs, c, n)
    BY <1>0, <1>5, <1>7
  <2>2. v.tx \cap TxsIn(c) = {} /\ w.tx \cap TxsIn(c) = {}
    BY <1>0, <1>7, <2>1, NoneInChain
  <2>3. IsPool(v) /\ \A u \in v.tx : u \in p.tx \/ \E j \in 1 .. k - 1 : u = txs[j]
    BY <2>1 DEF Returning
  <2>4. \A j \in n + 1 .. n : FALSE
    BY <1>0
  <2>5. IsPool(w) /\ \A u \in w.tx : \A o \in InputsOf[u] : o[1] \in w.tx \/ o \in UnspentCoins(c)
    BY <2>1, <2>4 DEF Returning
  <2> QED BY <2>2, <2>3, <2>5
<1>9. q = removeCoinbaseSpends(w, c)
  BY <1>4 DEF s
<1> HIDE DEF v, w
<1>10. /\ q.tx \subseteq w.tx
       /\ \A u \in w.tx : u \in q.tx \/ \E x \in w.tx : Spoilt(w, x, c) /\ u \in Descendants(w, x)
  BY <1>8, <1>9, SpoiltLeave
<1>11. /\ t \notin TxsIn(c) /\ \A j \in 1 .. k - 1 : txs[j] # t
       /\ \A o \in InputsOf[t] : /\ Mature(o, c) /\ \A u \in TxsIn(c) : o \notin InputsOf[u]
                                 /\ \A j \in 1 .. k - 1 : o \notin InputsOf[txs[j]]
                                 /\ o[1] \in Known(c) \/ \E j \in 1 .. k - 1 : o[1] = txs[j]
  <2>1. /\ txs[k] \notin TxsIn(c) /\ \A j \in 1 .. k - 1 : txs[j] # txs[k]
        /\ \A o \in InputsOf[txs[k]] :
              /\ o[1] # b.coinbase /\ Mature(o, c)
              /\ \A u \in TxsIn(c) : o \notin InputsOf[u]
              /\ \A j \in 1 .. k - 1 : o \notin InputsOf[txs[j]]
              /\ o[1] \in Known(c) \/ \E j \in 1 .. k - 1 : o[1] = txs[j]
    BY DEF BlockOk
  <2> QED BY <1>1, <2>1
<1>12. t \in TxsIn(Append(c, b))
  BY <1>0, ChainGrows
<1>13. Judge(v, t, c) = "ok"
  <2>1. ASSUME NEW o \in InputsOf[t], o \in DOMAIN v.next PROVE FALSE
    <3>1. v.next[o] \in v.tx /\ o \in InputsOf[v.next[o]]
      BY <1>8, <2>1, PoolFields
    <3>2. v.next[o] \in p.tx
      BY <1>8, <1>11, <3>1
    <3> QED BY <1>12, <3>1, <3>2, ChainComesFirst
  <2>2. t \notin v.tx
    <3>1. t \notin p.tx
      BY <1>12 DEF PoolInv
    <3> QED BY <1>8, <1>11, <3>1
  <2>3. \A o \in UnspentCoins(c) : o[1] # t
    <3>1. t \notin Known(c)
      BY <1>0, <1>7, <1>11, KnownTxs
    <3> QED BY <3>1, CoinsAreKnown
  <2>4. ASSUME NEW o \in InputsOf[t] PROVE (o \in UnspentCoins(c) \/ o[1] \in v.tx) /\ Mature(o, c)
    <3>1. CASE o[1] \in Known(c)
      BY <1>0, <1>7, <1>11, <3>1, UnspentIs
    <3>2. CASE \E j \in 1 .. k - 1 : o[1] = txs[j]
      <4>1. PICK j \in 1 .. k - 1 : o[1] = txs[j]
        BY <3>2
      <4>2. j \in 1 .. n /\ n \in j .. n /\ k - 1 \in j .. n
        BY <1>0
      <4>3. o[1] \in Parents(t) \cap ToSet(txs)
        BY <1>0, <4>1, <4>2 DEF Parents, ToSet
      <4>4. txs[j] \in w.tx
        BY <1>10, <4>1, <4>3
      <4>5. txs[j] \in v.tx
        BY <1>6, <4>2, <4>4 DEF v, w
      <4> QED BY <1>11, <4>1, <4>5
    <3> QED BY <1>11, <3>1, <3>2
  <2>5. \A x \in Parents(t) : x \in v.tx \/ \E o \in UnspentCoins(c) : o[1] = x
    BY <2>4 DEF Parents
  <2> QED BY <2>1, <2>2, <2>3, <2>4, <2>5, JudgeOk
<1>14. t \in w.tx
  <2>1. t \in r[k].tx
    BY <1>1, <1>4, <1>7, <1>8, <1>13, BackIs DEF v
  <2> QED BY <1>1, <1>6, <1>7, <2>1 DEF w
<1>15. ASSUME NEW x \in w.tx, Spoilt(w, x, c) PROVE t \notin Descendants(w, x)
  <2>1. x \in Txs /\ x \notin TxsIn(c)
    BY <1>8, PoolFields
  <2>2. PICK o \in InputsOf[x] : o[1] \notin w.tx /\ ((\A y \in UnspentCoins(c) : y[1] # o[1]) \/ ~Mature(o, c))
    BY <1>15 DEF Spoilt
  <2>3. o \in UnspentCoins(c) /\ ~Mature(o, c)
    BY <1>8, <2>2
  <2>4. \A j \in 1 .. n : x # txs[j]
    BY <2>2, <2>3 DEF BlockOk
  <2>5. \A j \in 1 .. n : txs[j] \notin Descendants(w, x)
    BY <1>0, <1>8, <2>1, <2>4, TipStays
  <2> QED BY <1>1, <2>5
<1> QED BY <1>10, <1>14, <1>15

(***************************************************************************)
(* Orphan transactions.                                                    *)
(***************************************************************************)

(* While orphans are looked at: what was accepted is in the queue, once. *)
Resolving(s) ==
    /\ s = [pool |-> s.pool, queue |-> s.queue, done |-> s.done]
    /\ PoolInv(s.pool, blocks) /\ s.queue \in Seq(Txs) /\ s.done \subseteq Txs
    /\ s.pool.tx = mempool.tx \cup ToSet(s.queue)
    /\ \A i, j \in 1 .. Len(s.queue) : s.queue[i] = s.queue[j] => i = j
ResolveStates == {s \in [pool : PoolSet, queue : Seq(Txs), done : SUBSET Txs] : Resolving(s)}

(* The queue only grows at its end, and what is done stays so. *)
Follows(s, r) ==
    /\ Len(r.queue) <= Len(s.queue) /\ \A i \in 1 .. Len(r.queue) : s.queue[i] = r.queue[i]
    /\ r.done \subseteq s.done

(* Something t spends is neither in the pool nor in the chain. *)
Lacks(t, s) == \E x \in Parents(t) : x \notin s.pool.tx /\ \A o \in UnspentCoins(blocks) : o[1] # x

LEMMA ResolvingIs == \A s : s \in ResolveStates <=> Resolving(s)
<1> SUFFICES ASSUME NEW s, Resolving(s) PROVE s \in ResolveStates
  BY DEF ResolveStates
<1>1. s.pool \in PoolSet /\ s.queue \in Seq(Txs) /\ s.done \in SUBSET Txs
  BY DEF Resolving, PoolInv, IsPool
<1>2. s = [pool |-> s.pool, queue |-> s.queue, done |-> s.done]
  BY DEF Resolving
<1>3. s \in [pool : PoolSet, queue : Seq(Txs), done : SUBSET Txs]
  BY <1>1, <1>2
<1> QED BY <1>3 DEF ResolveStates

LEMMA FollowsTrans ==
    ASSUME NEW r, NEW s, NEW u, Resolving(r), Resolving(s), Resolving(u), Follows(s, r), Follows(u, s)
    PROVE  Follows(u, r)
<1>1. Len(r.queue) \in Nat /\ Len(s.queue) \in Nat /\ Len(u.queue) \in Nat
  BY DEF Resolving
<1> QED BY <1>1 DEF Follows

LEMMA FollowsGrows ==
    ASSUME NEW r, NEW s, Resolving(r), Resolving(s), Follows(s, r)
    PROVE  r.pool.tx \subseteq s.pool.tx /\ \A t : Lacks(t, s) => Lacks(t, r)
<1>1. Len(r.queue) \in Nat /\ Len(s.queue) \in Nat /\ DOMAIN r.queue = 1 .. Len(r.queue) /\ DOMAIN s.queue = 1 .. Len(s.queue)
  BY DEF Resolving
<1>2. ToSet(r.queue) \subseteq ToSet(s.queue)
  <2>1. \A i \in 1 .. Len(r.queue) : i \in 1 .. Len(s.queue) /\ s.queue[i] = r.queue[i]
    BY <1>1 DEF Follows
  <2> QED BY <1>1, <2>1 DEF ToSet
<1>3. r.pool.tx \subseteq s.pool.tx
  BY <1>2 DEF Resolving
<1> QED BY <1>3 DEF Lacks

(* One orphan is tried after one of its parents came. *)
LEMMA TryIs ==
    ASSUME ChainOk(blocks), NEW s, Resolving(s), NEW par, NEW t \in Txs
    PROVE  LET q == TryOrphan(s, par, t)
           IN  /\ Resolving(q) /\ Follows(q, s)
               /\ t \in Waiting /\ par \in Parents(t) => t \in q.done \/ Lacks(t, s)
<1> DEFINE q == TryOrphan(s, par, t)
<1>0. /\ s = [pool |-> s.pool, queue |-> s.queue, done |-> s.done]
      /\ PoolInv(s.pool, blocks) /\ s.queue \in Seq(Txs) /\ s.done \subseteq Txs
      /\ s.pool.tx = mempool.tx \cup ToSet(s.queue)
      /\ \A i, j \in 1 .. Len(s.queue) : s.queue[i] = s.queue[j] => i = j
      /\ Len(s.queue) \in Nat /\ DOMAIN s.queue = 1 .. Len(s.queue)
  BY DEF Resolving
<1>1. Follows(s, s)
  BY <1>0 DEF Follows
<1>2. CASE t \notin Waiting \/ par \notin Parents(t)
  <2>1. q = s
    BY <1>2 DEF TryOrphan
  <2> HIDE DEF q
  <2> QED BY <1>1, <1>2, <2>1 DEF q
<1>3. CASE t \in Waiting /\ par \in Parents(t) /\ Judge(s.pool, t, blocks) = "ok"
  <2> DEFINE p == addUnchecked(s.pool, t)
             a == Append(s.queue, t)
  <2>1. q = [pool |-> p, queue |-> a, done |-> s.done \cup {t}]
    BY <1>3 DEF TryOrphan
  <2>2. PoolInv(p, blocks) /\ p.tx = s.pool.tx \cup {t} /\ t \notin s.pool.tx
    BY <1>0, <1>3, AcceptedIs, JudgeOk
  <2>3. /\ a \in Seq(Txs) /\ Len(a) = Len(s.queue) + 1 /\ a[Len(s.queue) + 1] = t
        /\ \A i \in 1 .. Len(s.queue) : a[i] = s.queue[i]
    BY <1>0
  <2> HIDE DEF p, a
  <2>4. \A i \in 1 .. Len(a) : i \in 1 .. Len(s.queue) \/ i = Len(s.queue) + 1
    BY <1>0, <2>3
  <2>5. DOMAIN a = 1 .. Len(a)
    BY <2>3
  <2>6. ToSet(a) = ToSet(s.queue) \cup {t}
    <3>1. \A x \in ToSet(a) : x \in ToSet(s.queue) \cup {t}
      BY <1>0, <2>3, <2>4, <2>5 DEF ToSet
    <3>2. (\A i \in 1 .. Len(s.queue) : i \in 1 .. Len(a)) /\ Len(s.queue) + 1 \in 1 .. Len(a)
      BY <1>0, <2>3
    <3>3. \A x \in ToSet(s.queue) \cup {t} : x \in ToSet(a)
      BY <1>0, <2>3, <2>5, <3>2 DEF ToSet
    <3> QED BY <3>1, <3>3
  <2>7. \A i \in 1 .. Len(s.queue) : s.queue[i] # t
    <3>1. \A i \in 1 .. Len(s.queue) : s.queue[i] \in s.pool.tx
      BY <1>0 DEF ToSet
    <3> QED BY <2>2, <3>1
  <2>8. ASSUME NEW i \in 1 .. Len(a), NEW j \in 1 .. Len(a), a[i] = a[j] PROVE i = j
    BY <1>0, <2>3, <2>4, <2>7, <2>8
  <2>9. q.pool = p /\ q.queue = a /\ q.done = s.done \cup {t} /\ q = [pool |-> q.pool, queue |-> q.queue, done |-> q.done]
    BY <2>1
  <2> HIDE DEF q
  <2>10. Resolving(q)
    BY <1>0, <2>2, <2>3, <2>6, <2>8, <2>9 DEF Resolving
  <2>11. Follows(q, s)
    BY <1>0, <2>3, <2>9 DEF Follows
  <2> QED BY <2>9, <2>10, <2>11 DEF q
<1>4. CASE t \in Waiting /\ par \in Parents(t) /\ Judge(s.pool, t, blocks) = "no"
  <2>1. q = [s EXCEPT !.done = @ \cup {t}]
    BY <1>4 DEF TryOrphan
  <2>2. q.pool = s.pool /\ q.queue = s.queue /\ q.done = s.done \cup {t} /\ q = [pool |-> q.pool, queue |-> q.queue, done |-> q.done]
    BY <1>0, <2>1
  <2> HIDE DEF q
  <2>3. Resolving(q)
    BY <1>0, <2>2 DEF Resolving
  <2>4. Follows(q, s)
    BY <1>0, <2>2 DEF Follows
  <2> QED BY <2>2, <2>3, <2>4 DEF q
<1>5. CASE t \in Waiting /\ par \in Parents(t) /\ Judge(s.pool, t, blocks) = "missing"
  <2>1. q = s
    BY <1>5 DEF TryOrphan
  <2>2. Lacks(t, s)
    BY <1>5 DEF Judge, Lacks
  <2> HIDE DEF q
  <2> QED BY <1>1, <2>1, <2>2 DEF q
<1> QED BY <1>2, <1>3, <1>4, <1>5, JudgeValues

(* All orphans that spend one transaction of the queue. *)
TryAll(s, par) == FoldLeft(LAMBDA q, t : TryOrphan(q, par, t), s, HashOrder)

LEMMA TryAllIs ==
    ASSUME ChainOk(blocks), NEW s, Resolving(s), NEW par
    PROVE  LET q == TryAll(s, par)
           IN  /\ Resolving(q) /\ Follows(q, s)
               /\ \A t \in Txs : t \in Waiting /\ par \in Parents(t) => t \in q.done \/ Lacks(t, s)
<1> DEFINE n == Len(HashOrder)
           Op(q, t) == TryOrphan(q, par, t)
           Eq(f) == f = [u \in SUBSET (1 .. n) |-> IF u = {} THEN s ELSE Op(f[u \ {Max(u)}], HashOrder[Max(u)])]
           c == CHOOSE f : Eq(f)
           G == [k \in 1 .. n |-> [q \in ResolveStates |-> Op(q, HashOrder[k])]]
<1>0. n \in Nat /\ DOMAIN HashOrder = 1 .. n /\ (\A k \in 1 .. n : HashOrder[k] \in Txs) /\ \A t \in Txs : \E k \in 1 .. n : t = HashOrder[k]
  BY PoolConstants
<1>1. TryAll(s, par) = c[1 .. n]
  BY <1>0 DEF TryAll, FoldLeft, MapThenFoldSet
<1>a. \A q : Resolving(q) => \A k \in 1 .. n :
          /\ Resolving(Op(q, HashOrder[k])) /\ Follows(Op(q, HashOrder[k]), q)
          /\ HashOrder[k] \in Waiting /\ par \in Parents(HashOrder[k]) => HashOrder[k] \in Op(q, HashOrder[k]).done \/ Lacks(HashOrder[k], q)
  <2> SUFFICES ASSUME NEW q, Resolving(q), NEW k \in 1 .. n
               PROVE  /\ Resolving(Op(q, HashOrder[k])) /\ Follows(Op(q, HashOrder[k]), q)
                      /\ HashOrder[k] \in Waiting /\ par \in Parents(HashOrder[k]) => HashOrder[k] \in Op(q, HashOrder[k]).done \/ Lacks(HashOrder[k], q)
    OBVIOUS
  <2>1. HashOrder[k] \in Txs
    BY <1>0
  <2> QED BY <2>1, TryIs
<1> HIDE DEF Op
<1>2. \E f : Eq(f)
  <2>1. s \in ResolveStates
    BY ResolvingIs
  <2>2. \A q \in ResolveStates, k \in 1 .. n : Op(q, HashOrder[k]) \in ResolveStates
    BY <1>a, ResolvingIs
  <2>3. G \in [1 .. n -> [ResolveStates -> ResolveStates]]
    BY <2>2
  <2>0. PICK f : IsFold(f, n, ResolveStates, s, G)
    <3> HIDE DEF G, n
    <3> QED BY <1>0, <2>1, <2>3, FoldExists
  <2>4. /\ f \in [SUBSET (1 .. n) -> ResolveStates]
        /\ \A u \in SUBSET (1 .. n) : f[u] = IF u = {} THEN s ELSE G[Max(u)][f[u \ {Max(u)}]]
    BY <2>0 DEF IsFold
  <2>5. ASSUME NEW u \in SUBSET (1 .. n), u # {} PROVE f[u] = Op(f[u \ {Max(u)}], HashOrder[Max(u)])
    <3>1. Max(u) \in 1 .. n /\ f[u \ {Max(u)}] \in ResolveStates
      <4>1. Max(u) \in u
        BY <1>0, <2>5, MaxIs
      <4> QED BY <2>4, <4>1
    <3> QED BY <2>4, <2>5, <3>1
  <2>6. Eq(f)
    BY <2>4, <2>5
  <2> QED BY <2>6
<1>3. Eq(c)
  <2> HIDE DEF Eq
  <2> QED BY <1>2
<1> HIDE DEF c, n
<1> DEFINE r == [k \in 0 .. n |-> c[1 .. k]]
<1>4. r[0] = s
  <2>1. 1 .. 0 = {} /\ 0 \in 0 .. n
    BY <1>0
  <2> QED BY <1>3, <2>1
<1>5. ASSUME NEW k \in 1 .. n PROVE r[k] = Op(r[k - 1], HashOrder[k])
  <2>1. Max(1 .. k) = k /\ (1 .. k) \ {k} = 1 .. k - 1 /\ 1 .. k # {}
    <3>1. k \in Nat /\ k > 0
      OBVIOUS
    <3> QED BY <3>1, Segment
  <2>2. 1 .. k \in SUBSET (1 .. n) /\ k \in 0 .. n /\ k - 1 \in 0 .. n
    BY <1>0
  <2>3. c[1 .. k] = Op(c[1 .. k - 1], HashOrder[k])
    BY <1>3, <2>1, <2>2
  <2> QED BY <2>2, <2>3
<1>6. r[n] = c[1 .. n]
  BY <1>0
<1> HIDE DEF r, Eq
<1> DEFINE J(k) ==
        /\ Resolving(r[k]) /\ Follows(r[k], s)
        /\ \A j \in 1 .. k : HashOrder[j] \in Waiting /\ par \in Parents(HashOrder[j]) => HashOrder[j] \in r[k].done \/ Lacks(HashOrder[j], s)
           P == {k \in 0 .. n : J(k)}
<1>7. 0 \in P
  <2>1. Follows(s, s)
    <3>1. Len(s.queue) \in Nat
      BY DEF Resolving
    <3> QED BY <3>1 DEF Follows
  <2> QED BY <1>0, <1>4, <2>1
<1>8. ASSUME NEW k \in 1 .. n, k - 1 \in P PROVE k \in P
  <2> DEFINE v == r[k - 1]
             q == r[k]
             t == HashOrder[k]
  <2>1. Resolving(v) /\ Follows(v, s) /\ q = Op(v, t)
    BY <1>5, <1>8
  <2>2. Resolving(q) /\ Follows(q, v) /\ (t \in Waiting /\ par \in Parents(t) => t \in q.done \/ Lacks(t, v))
    BY <1>a, <2>1
  <2>3. Follows(q, s)
    <3> HIDE DEF q, v
    <3> QED BY <2>1, <2>2, FollowsTrans
  <2>4. Lacks(t, v) => Lacks(t, s)
    <3> HIDE DEF v, t
    <3> QED BY <2>1, FollowsGrows
  <2>5. v.done \subseteq q.done
    <3> HIDE DEF v, q
    <3> QED BY <2>2 DEF Follows
  <2>6. ASSUME NEW j \in 1 .. k, HashOrder[j] \in Waiting, par \in Parents(HashOrder[j])
        PROVE  HashOrder[j] \in q.done \/ Lacks(HashOrder[j], s)
    <3>1. CASE j = k
      BY <2>2, <2>4, <2>6, <3>1
    <3>2. CASE j \in 1 .. k - 1
      BY <1>8, <2>5, <2>6, <3>2
    <3> QED BY <3>1, <3>2
  <2>7. k \in 0 .. n
    BY <1>0
  <2> QED BY <2>2, <2>3, <2>6, <2>7
<1>9. J(n)
  <2>1. n \in P
    <3> HIDE DEF P
    <3>1. n \in 0 .. n
      BY <1>0
    <3> QED BY <1>0, <1>7, <1>8, <3>1, StepsReach
  <2> QED BY <2>1
<1>10. TryAll(s, par) = r[n]
  BY <1>1, <1>6
<1> HIDE DEF P
<1>11. \A t \in Txs : t \in Waiting /\ par \in Parents(t) => t \in r[n].done \/ Lacks(t, s)
  BY <1>0, <1>9
<1> QED BY <1>9, <1>10, <1>11

(* One transaction of the queue, if there is one more. *)
Round(s, k) == IF k > Len(s.queue) THEN s ELSE TryAll(s, s.queue[k])

(* Something t spends is in neither the old pool, the first k of the queue   *)
(* nor the chain.                                                            *)
LacksFirst(t, s, k) ==
    \E x \in Parents(t) : /\ x \notin mempool.tx /\ \A i \in 1 .. k : s.queue[i] # x
                          /\ \A o \in UnspentCoins(blocks) : o[1] # x

(* After k rounds. *)
RoundsDone(s, b, k) ==
    /\ Resolving(s) /\ Follows(s, b)
    /\ \A m \in 1 .. k, t \in Txs :
          m <= Len(s.queue) /\ t \in Waiting /\ s.queue[m] \in Parents(t) => t \in s.done \/ LacksFirst(t, s, m)

LEMMA RoundIs ==
    ASSUME ChainOk(blocks), NEW b, Resolving(b), NEW k \in Nat, k > 0, NEW s, RoundsDone(s, b, k - 1)
    PROVE  RoundsDone(Round(s, k), b, k)
<1>0. Resolving(s) /\ Follows(s, b) /\ Len(s.queue) \in Nat /\ DOMAIN s.queue = 1 .. Len(s.queue)
  BY DEF RoundsDone, Resolving
<1>1. CASE k > Len(s.queue)
  <2>1. Round(s, k) = s
    BY <1>1 DEF Round
  <2>2. ASSUME NEW m \in 1 .. k, NEW t \in Txs, m <= Len(s.queue), t \in Waiting, s.queue[m] \in Parents(t)
        PROVE  t \in s.done \/ LacksFirst(t, s, m)
    <3>1. m \in 1 .. k - 1
      BY <1>0, <1>1, <2>2
    <3> QED BY <2>2, <3>1 DEF RoundsDone
  <2> QED BY <1>0, <2>1, <2>2 DEF RoundsDone
<1>2. CASE k <= Len(s.queue)
  <2> DEFINE q == TryAll(s, s.queue[k])
  <2>1. Round(s, k) = q
    BY <1>0, <1>2 DEF Round
  <2>2. /\ Resolving(q) /\ Follows(q, s)
        /\ \A t \in Txs : t \in Waiting /\ s.queue[k] \in Parents(t) => t \in q.done \/ Lacks(t, s)
    BY <1>0, TryAllIs
  <2> HIDE DEF q
  <2>3. Follows(q, b)
    BY <1>0, <2>2, FollowsTrans
  <2>4. s.done \subseteq q.done /\ \A i \in 1 .. Len(s.queue) : q.queue[i] = s.queue[i]
    BY <2>2 DEF Follows
  <2>5. ASSUME NEW m \in 1 .. k, NEW t \in Txs, m <= Len(q.queue), t \in Waiting, q.queue[m] \in Parents(t)
        PROVE  t \in q.done \/ LacksFirst(t, q, m)
    <3>1. m \in 1 .. Len(s.queue) /\ (\A i \in 1 .. m : i \in 1 .. Len(s.queue)) /\ m <= Len(s.queue)
      BY <1>0, <1>2
    <3>2. s.queue[m] \in Parents(t)
      BY <2>4, <2>5, <3>1
    <3>3. CASE m = k
      <4>1. t \in q.done \/ Lacks(t, s)
        BY <2>2, <2>5, <3>2, <3>3
      <4>2. ASSUME Lacks(t, s) PROVE LacksFirst(t, q, m)
        <5>1. PICK x \in Parents(t) : x \notin s.pool.tx /\ \A o \in UnspentCoins(blocks) : o[1] # x
          BY <4>2 DEF Lacks
        <5>2. x \notin mempool.tx /\ x \notin ToSet(s.queue)
          BY <1>0, <5>1 DEF Resolving
        <5>3. \A i \in 1 .. m : q.queue[i] # x
          BY <1>0, <2>4, <3>1, <5>2 DEF ToSet
        <5> QED BY <5>1, <5>2, <5>3 DEF LacksFirst
      <4> QED BY <4>1, <4>2
    <3>4. CASE m # k
      <4>1. m \in 1 .. k - 1
        BY <3>4
      <4>2. t \in s.done \/ LacksFirst(t, s, m)
        BY <2>5, <3>1, <3>2, <4>1 DEF RoundsDone
      <4>3. LacksFirst(t, s, m) => LacksFirst(t, q, m)
        BY <2>4, <3>1 DEF LacksFirst
      <4> QED BY <2>4, <4>2, <4>3
    <3> QED BY <3>3, <3>4
  <2> QED BY <2>1, <2>2, <2>3, <2>5 DEF RoundsDone
<1> QED BY <1>0, <1>1, <1>2

LEMMA ResolveIs ==
    ASSUME ChainOk(blocks), NEW b, Resolving(b)
    PROVE  RoundsDone(Resolve(b), b, Len(HashOrder))
<1> DEFINE L == Len(HashOrder)
           Eq(f) == f = [n \in 0 .. L |-> IF n = 0 THEN b ELSE Round(f[n - 1], n)]
           c == CHOOSE f : Eq(f)
           G == [k \in 1 .. L |-> [s \in ResolveStates |-> Round(s, k)]]
<1>0. L \in Nat
  BY TxsAreFew
<1>1. Resolve(b) = c[L]
  BY DEF Resolve, Round, TryAll, FoldLeft, MapThenFoldSet
<1>2. \E f : Eq(f)
  <2>1. b \in ResolveStates
    BY ResolvingIs
  <2>2. \A s \in ResolveStates, k \in 1 .. L : Round(s, k) \in ResolveStates
    BY ResolvingIs, TryAllIs DEF Round
  <2>3. G \in [1 .. L -> [ResolveStates -> ResolveStates]]
    BY <2>2
  <2>0. PICK f : IsRun(f, L, ResolveStates, b, G)
    <3> HIDE DEF G, L
    <3> QED BY <1>0, <2>1, <2>3, RunExists
  <2>4. f \in [0 .. L -> ResolveStates] /\ f[0] = b /\ \A k \in 1 .. L : f[k] = G[k][f[k - 1]]
    BY <2>0 DEF IsRun
  <2>5. ASSUME NEW k \in 0 .. L, k # 0 PROVE f[k] = Round(f[k - 1], k)
    <3>1. k \in 1 .. L /\ k - 1 \in 0 .. L
      BY <1>0, <2>5
    <3> QED BY <2>4, <3>1
  <2>6. Eq(f)
    BY <2>4, <2>5
  <2> QED BY <2>6
<1>3. Eq(c)
  <2> HIDE DEF Eq
  <2> QED BY <1>2
<1> HIDE DEF c, L, G
<1> DEFINE P == {k \in 0 .. L : RoundsDone(c[k], b, k)}
<1>4. 0 \in P
  <2>1. c[0] = b
    BY <1>0, <1>3
  <2>2. Follows(b, b)
    <3>1. Len(b.queue) \in Nat
      BY DEF Resolving
    <3> QED BY <3>1 DEF Follows
  <2> QED BY <1>0, <2>1, <2>2 DEF RoundsDone
<1>5. ASSUME NEW k \in 1 .. L, k - 1 \in P PROVE k \in P
  <2>1. k \in 0 .. L /\ k # 0 /\ k \in Nat /\ k > 0
    BY <1>0
  <2>2. c[k] = Round(c[k - 1], k)
    BY <1>3, <2>1
  <2>3. RoundsDone(c[k - 1], b, k - 1)
    BY <1>5
  <2>4. RoundsDone(c[k], b, k)
    <3> HIDE DEF Eq, P
    <3> QED BY <2>1, <2>2, <2>3, RoundIs
  <2> QED BY <2>1, <2>4
<1>6. L \in P
  <2> HIDE DEF P
  <2>1. L \in 0 .. L
    BY <1>0
  <2> QED BY <1>0, <1>4, <1>5, <2>1, StepsReach
<1> QED BY <1>1, <1>6 DEF L

(* The queue is never longer than there are rounds. *)
LEMMA QueueIsShort == ASSUME NEW s, Resolving(s) PROVE Len(s.queue) \in 0 .. Len(HashOrder)
<1> DEFINE n == Len(s.queue)
<1>1. n \in Nat /\ s.queue \in [1 .. n -> Txs] /\ \A i, j \in 1 .. n : s.queue[i] = s.queue[j] => i = j
  BY DEF Resolving
<1>2. s.queue \in Injection(1 .. n, Txs)
  BY <1>1 DEF Injection, IsInjective
<1>3. IsFiniteSet(1 .. n) /\ Cardinality(1 .. n) = n
  <2>1. 1 \in Int /\ n \in Int
    BY <1>1
  <2>2. IsFiniteSet(1 .. n) /\ Cardinality(1 .. n) = IF 1 > n THEN 0 ELSE n - 1 + 1
    BY <2>1, FS_Interval
  <2> QED BY <1>1, <2>2
<1>4. IsFiniteSet(Txs) /\ Cardinality(Txs) <= Len(HashOrder) /\ Len(HashOrder) \in Nat /\ Cardinality(Txs) \in Nat
  BY TxsAreFew, FS_CardinalityType
<1>5. Cardinality(1 .. n) <= Cardinality(Txs)
  BY <1>2, <1>4, FS_Injection
<1> QED BY <1>1, <1>3, <1>4, <1>5

(* No orphan that waits for what came with the message could be accepted. *)
LEMMA NoneLeftWaiting ==
    ASSUME ChainOk(blocks), NEW b, Resolving(b), NEW t \in Txs, t \in Waiting, t \notin Resolve(b).done,
           Parents(t) \cap (Resolve(b).pool.tx \ mempool.tx) # {}
    PROVE  Judge(Resolve(b).pool, t, blocks) # "ok"
<1> DEFINE s == Resolve(b)
           n == Len(s.queue)
           D == {d \in 0 .. n - 1 : s.queue[n - d] \in Parents(t)}
<1>0. RoundsDone(s, b, Len(HashOrder)) /\ t \notin s.done /\ Parents(t) \cap (s.pool.tx \ mempool.tx) # {}
  BY ResolveIs
<1> HIDE DEF s
<1>1. Resolving(s) /\ n \in Nat /\ DOMAIN s.queue = 1 .. n /\ s.pool.tx = mempool.tx \cup ToSet(s.queue)
  BY <1>0 DEF RoundsDone, Resolving
<1>2. n \in 0 .. Len(HashOrder) /\ Len(HashOrder) \in Nat
  BY <1>1, QueueIsShort, TxsAreFew
<1>3. D # {}
  <2>1. PICK x \in Parents(t) : x \in ToSet(s.queue)
    BY <1>0, <1>1
  <2>2. PICK i \in 1 .. n : x = s.queue[i]
    BY <1>1, <2>1 DEF ToSet
  <2>3. n - i \in 0 .. n - 1 /\ n - (n - i) = i
    BY <1>1
  <2> QED BY <2>1, <2>2, <2>3
<1>4. PICK d \in D : \A e \in D : d <= e
  <2>1. D \subseteq Nat
    OBVIOUS
  <2> QED BY <1>3, <2>1, LeastNat
<1> DEFINE m == n - d
<1>5. m \in 1 .. n /\ m \in 1 .. Len(HashOrder) /\ m <= n /\ s.queue[m] \in Parents(t)
  BY <1>1, <1>2, <1>4
<1>6. \A i \in m + 1 .. n : s.queue[i] \notin Parents(t)
  <2> SUFFICES ASSUME NEW i \in m + 1 .. n, s.queue[i] \in Parents(t) PROVE FALSE
    OBVIOUS
  <2>1. n - i \in 0 .. n - 1 /\ n - (n - i) = i /\ ~(d <= n - i)
    BY <1>1, <1>4
  <2>2. n - i \in D
    BY <2>1
  <2> QED BY <1>4, <2>1, <2>2
<1> HIDE DEF m, D, n
<1>7. LacksFirst(t, s, m)
  BY <1>0, <1>5 DEF RoundsDone, n
<1>8. PICK x \in Parents(t) : /\ x \notin mempool.tx /\ \A i \in 1 .. m : s.queue[i] # x
                              /\ \A o \in UnspentCoins(blocks) : o[1] # x
  BY <1>7 DEF LacksFirst
<1>9. x \notin ToSet(s.queue)
  <2> SUFFICES ASSUME NEW i \in 1 .. n, x = s.queue[i] PROVE FALSE
    BY <1>1 DEF ToSet
  <2>1. i \in 1 .. m \/ i \in m + 1 .. n
    BY <1>1, <1>5
  <2> QED BY <1>6, <1>8, <2>1
<1>10. x \notin s.pool.tx
  BY <1>1, <1>8, <1>9
<1> QED BY <1>8, <1>10, JudgeOk DEF s

(***************************************************************************)
(* The invariant of the pool beside the chain, and its theorems.           *)
(***************************************************************************)

(* What LimitOrphanTxSize and EraseOrphansFor keep. *)
OrphansAreFew ==
    /\ orphanTxs \subseteq [tx : Txs, from : Senders]
    /\ IsFiniteSet(orphanTxs) /\ Cardinality(orphanTxs) <= MaxOrphans

MempoolInv == ChainOk(blocks) /\ Len(blocks) <= MaxBlocks /\ PoolInv(mempool, blocks) /\ OrphansAreFew

LEMMA FewerOrphans == ASSUME OrphansAreFew, NEW S \in SUBSET orphanTxs PROVE IsFiniteSet(S) /\ Cardinality(S) <= MaxOrphans
<1>1. IsFiniteSet(S) /\ Cardinality(S) <= Cardinality(orphanTxs)
  BY FS_Subset DEF OrphansAreFew
<1>2. Cardinality(S) \in Nat /\ Cardinality(orphanTxs) \in Nat
  BY <1>1, FS_CardinalityType DEF OrphansAreFew
<1> QED BY <1>1, <1>2, PoolConstants DEF OrphansAreFew

(* The message brings a transaction that is accepted. *)
LEMMA StartsResolving ==
    ASSUME MempoolInv, NEW t \in Txs, Judge(mempool, t, blocks) = "ok"
    PROVE  Resolving([pool |-> addUnchecked(mempool, t), queue |-> <<t>>, done |-> {}])
<1> DEFINE p == addUnchecked(mempool, t)
           s == [pool |-> p, queue |-> <<t>>, done |-> {}]
<1>1. PoolInv(p, blocks) /\ p.tx = mempool.tx \cup {t}
  BY AcceptedIs DEF MempoolInv
<1> HIDE DEF p
<1>2. s.pool = p /\ s.queue = <<t>> /\ s.done = {}
  OBVIOUS
<1>3. <<t>> \in Seq(Txs) /\ Len(<<t>>) = 1 /\ ToSet(<<t>>) = {t} /\ \A i \in 1 .. 1 : i = 1
  BY DEF ToSet
<1>4. s = [pool |-> s.pool, queue |-> s.queue, done |-> s.done]
  BY <1>2
<1> HIDE DEF s
<1>5. Resolving(s)
  BY <1>1, <1>2, <1>3, <1>4 DEF Resolving
<1> QED BY <1>5 DEF s, p

LEMMA ResolvedIs ==
    ASSUME MempoolInv, NEW t \in Txs, Judge(mempool, t, blocks) = "ok"
    PROVE  LET s == Resolve([pool |-> addUnchecked(mempool, t), queue |-> <<t>>, done |-> {}])
           IN  PoolInv(s.pool, blocks)
<1> DEFINE b == [pool |-> addUnchecked(mempool, t), queue |-> <<t>>, done |-> {}]
<1>1. Resolving(b)
  BY StartsResolving
<1> HIDE DEF b
<1>2. RoundsDone(Resolve(b), b, Len(HashOrder))
  BY <1>1, ResolveIs DEF MempoolInv
<1>3. PoolInv(Resolve(b).pool, blocks)
  BY <1>2 DEF RoundsDone, Resolving
<1> QED BY <1>3 DEF b

LEMMA ReceiveKeeps == ASSUME MempoolInv, NEW t \in Txs, NEW n \in Senders, NEW kept, ReceiveTx(t, n, kept) PROVE MempoolInv'
<1>0. blocks' = blocks
  BY DEF ReceiveTx
<1>1. CASE /\ Judge(mempool, t, blocks) = "ok"
           /\ LET s == Resolve([pool |-> addUnchecked(mempool, t), queue |-> <<t>>, done |-> {}])
              IN  mempool' = s.pool /\ orphanTxs' = {o \in orphanTxs : o.tx \notin s.done}
  <2>1. PoolInv(mempool', blocks)
    BY <1>1, ResolvedIs
  <2>2. orphanTxs' \in SUBSET orphanTxs
    BY <1>1
  <2>3. OrphansAreFew'
    BY <2>2, FewerOrphans DEF MempoolInv, OrphansAreFew
  <2> QED BY <1>0, <2>1, <2>3 DEF MempoolInv
<1>2. CASE orphanTxs' \in LimitOrphanTxSize(orphanTxs \cup {[tx |-> t, from |-> n]}) /\ UNCHANGED mempool
  <2> DEFINE all == orphanTxs \cup {[tx |-> t, from |-> n]}
  <2>1. all \subseteq [tx : Txs, from : Senders] /\ IsFiniteSet(orphanTxs) /\ Cardinality(orphanTxs) <= MaxOrphans
    BY DEF MempoolInv, OrphansAreFew
  <2>2. IsFiniteSet(all) /\ Cardinality(all) <= MaxOrphans + 1 /\ Cardinality(all) \in Nat
    <3>1. Cardinality(orphanTxs) \in Nat
      BY <2>1, FS_CardinalityType
    <3>2. IsFiniteSet(all) /\ Cardinality(all) <= Cardinality(orphanTxs) + 1
      <4> DEFINE x == [tx |-> t, from |-> n]
      <4> HIDE DEF x
      <4>1. all = orphanTxs \cup {x}
        BY DEF x
      <4>2. /\ IsFiniteSet(orphanTxs \cup {x})
            /\ Cardinality(orphanTxs \cup {x}) = IF x \in orphanTxs THEN Cardinality(orphanTxs) ELSE Cardinality(orphanTxs) + 1
        BY <2>1, FS_AddElement
      <4> QED BY <3>1, <4>1, <4>2
    <3>3. Cardinality(all) \in Nat
      BY <3>2, FS_CardinalityType
    <3> QED BY <2>1, <3>1, <3>2, <3>3, PoolConstants
  <2> HIDE DEF all
  <2>3. CASE Cardinality(all) <= MaxOrphans /\ orphanTxs' = all
    BY <1>0, <1>2, <2>1, <2>2, <2>3 DEF MempoolInv, OrphansAreFew
  <2>4. ASSUME NEW o \in all, orphanTxs' = all \ {o} PROVE MempoolInv'
    <3>1. IsFiniteSet(all \ {o}) /\ Cardinality(all \ {o}) = Cardinality(all) - 1
      BY <2>2, FS_RemoveElement
    <3>2. Cardinality(all \ {o}) <= MaxOrphans
      BY <2>2, <3>1, PoolConstants
    <3> QED BY <1>0, <1>2, <2>1, <2>4, <3>1, <3>2 DEF MempoolInv, OrphansAreFew
  <2>5. orphanTxs' \in LimitOrphanTxSize(all)
    BY <1>2 DEF all
  <2> QED BY <2>3, <2>4, <2>5 DEF LimitOrphanTxSize
<1> QED BY <1>1, <1>2 DEF ReceiveTx

LEMMA BlockTxs == ASSUME NEW txs \in TxLists(MaxBlockTxs) PROVE txs \in Seq(Txs)
<1>1. PICK k \in 0 .. MaxBlockTxs : txs \in [1 .. k -> Txs]
  BY DEF TxLists
<1> QED BY <1>1, PoolConstants

LEMMA ConnectKeeps ==
    ASSUME MempoolInv, NEW cb \in Coinbases, NEW txs \in TxLists(MaxBlockTxs), ConnectTip(cb, txs)
    PROVE  MempoolInv' /\ Len(blocks') = Len(blocks) + 1 /\ Len(blocks) \in Nat
<1>0. /\ Len(blocks) < MaxBlocks /\ cb \notin CoinbasesIn(blocks) /\ ValidIn(blocks, cb, txs)
      /\ blocks' = Append(blocks, [coinbase |-> cb, txs |-> txs]) /\ mempool' = removeForBlock(mempool, txs)
      /\ orphanTxs' = orphanTxs
  BY DEF ConnectTip, CoinbasesIn
<1>1. ChainOk(blocks) /\ blocks \in Seq(ChainBlock) /\ PoolInv(mempool, blocks)
  BY DEF MempoolInv, ChainOk
<1>2. BlockOk(blocks, cb, txs)
  BY <1>0, <1>1, BlockTxs, ValidIsOk
<1>3. ChainOk(blocks') /\ [coinbase |-> cb, txs |-> txs] \in ChainBlock
  BY <1>0, <1>1, <1>2, ConnectOk
<1>4. PoolInv(mempool', blocks')
  BY <1>0, <1>1, <1>2, ConnectedIs
<1>5. Len(blocks') = Len(blocks) + 1 /\ Len(blocks) \in Nat
  BY <1>0, <1>1, <1>3, ChainGrows
<1>6. Len(blocks') <= MaxBlocks
  BY <1>0, <1>5, PoolConstants
<1> QED BY <1>0, <1>3, <1>4, <1>5, <1>6 DEF MempoolInv, OrphansAreFew

LEMMA DisconnectKeeps == ASSUME MempoolInv, DisconnectTip PROVE MempoolInv'
<1> DEFINE c == Front(blocks)
           b == Last(blocks)
<1>0. /\ blocks # <<>> /\ blocks' = c /\ UNCHANGED orphanTxs
      /\ mempool' = removeCoinbaseSpends(TxsBack(removeRecursive(mempool, b.coinbase), b.txs, c), c)
  BY DisconnectIs
<1>1. /\ ChainOk(c) /\ b \in ChainBlock /\ BlockOk(c, b.coinbase, b.txs)
      /\ blocks = Append(c, b) /\ Len(c) = Len(blocks) - 1 /\ Len(blocks) \in Nat
  BY <1>0, FrontOk DEF MempoolInv
<1> HIDE DEF c, b
<1>2. ChainOk(Append(c, b)) /\ PoolInv(mempool, Append(c, b))
  BY <1>1 DEF MempoolInv
<1>3. PoolInv(mempool', c)
  BY <1>0, <1>1, <1>2, DisconnectedIs
<1>4. Len(c) <= MaxBlocks
  BY <1>1, PoolConstants DEF MempoolInv
<1> QED BY <1>0, <1>1, <1>3, <1>4 DEF MempoolInv, OrphansAreFew

LEMMA PoolStarts == PoolInit => MempoolInv
<1> SUFFICES ASSUME PoolInit PROVE MempoolInv
  OBVIOUS
<1>1. mempool = [tx |-> {}, next |-> [o \in {} |-> Genesis]] /\ blocks = <<>> /\ orphanTxs = {}
  BY DEF PoolInit
<1>2. ChainOk(blocks) /\ Len(blocks) = 0
  <2>1. blocks \in Seq(ChainBlock) /\ Len(blocks) = 0
    BY <1>1
  <2>2. \A h \in 1 .. Len(blocks) : FALSE
    BY <2>1
  <2> QED BY <2>1, <2>2 DEF ChainOk
<1>3. PoolInv(mempool, blocks)
  <2> DEFINE f == [o \in {} |-> Genesis]
  <2>1. f \in [{} -> Txs] /\ {} \in SUBSET Outpoints /\ {} \in SUBSET Txs /\ {} = UNION {InputsOf[t] : t \in {}}
    OBVIOUS
  <2> HIDE DEF f
  <2>2. IsPool([tx |-> {}, next |-> f])
    <3> DEFINE E == {}
               p == [tx |-> E, next |-> f]
    <3>1. E \in SUBSET Txs /\ E \in SUBSET Outpoints /\ f \in [E -> Txs] /\ E = UNION {InputsOf[t] : t \in E} /\ \A t \in E : FALSE
      BY <2>1
    <3>2. p = [tx |-> E, next |-> f]
      OBVIOUS
    <3> HIDE DEF E, p
    <3>3. IsPool(p)
      BY <3>1, <3>2, IsPoolFrom
    <3> QED BY <3>3 DEF p, E
  <2>3. mempool = [tx |-> {}, next |-> f] /\ mempool.tx = {}
    BY <1>1 DEF f
  <2> QED BY <2>2, <2>3 DEF PoolInv
<1>4. OrphansAreFew
  BY <1>1, FS_EmptySet, PoolConstants DEF OrphansAreFew
<1> QED BY <1>2, <1>3, <1>4, PoolConstants DEF MempoolInv

LEMMA PoolStep == MempoolInv /\ [PoolNext]_poolVars => MempoolInv'
<1> SUFFICES ASSUME MempoolInv, [PoolNext]_poolVars PROVE MempoolInv'
  OBVIOUS
<1>1. ASSUME NEW t \in Txs, NEW n \in Senders, NEW kept \in BOOLEAN, ReceiveTx(t, n, kept) PROVE MempoolInv'
  BY <1>1, ReceiveKeeps
<1>2. ASSUME NEW t \in Txs, SubmitTx(t) PROVE MempoolInv'
  <2>1. Judge(mempool, t, blocks) = "ok" /\ mempool' = addUnchecked(mempool, t) /\ UNCHANGED <<blocks, orphanTxs>>
    BY <1>2 DEF SubmitTx
  <2>2. PoolInv(mempool', blocks)
    BY <2>1, AcceptedIs DEF MempoolInv
  <2> QED BY <2>1, <2>2 DEF MempoolInv, OrphansAreFew
<1>3. ASSUME NEW n \in Senders, PeerLeaves(n) PROVE MempoolInv'
  <2>1. orphanTxs' \in SUBSET orphanTxs /\ UNCHANGED <<mempool, blocks>>
    BY <1>3 DEF PeerLeaves
  <2>2. OrphansAreFew'
    BY <2>1, FewerOrphans DEF MempoolInv, OrphansAreFew
  <2> QED BY <2>1, <2>2 DEF MempoolInv
<1>4. ASSUME NEW cb \in Coinbases, NEW txs \in TxLists(MaxBlockTxs), ConnectTip(cb, txs) PROVE MempoolInv'
  BY <1>4, ConnectKeeps
<1>5. CASE DisconnectTip
  BY <1>5, DisconnectKeeps
<1>6. CASE UNCHANGED poolVars
  BY <1>6 DEF poolVars, MempoolInv, OrphansAreFew
<1> QED BY <1>1, <1>2, <1>3, <1>4, <1>5, <1>6 DEF PoolNext

LEMMA PoolInvHolds == PoolSpec => []MempoolInv
<1>1. PoolInit => MempoolInv
  BY PoolStarts
<1>2. MempoolInv /\ [PoolNext]_poolVars => MempoolInv'
  BY PoolStep
<1> QED BY <1>1, <1>2, PTL DEF PoolSpec

(* The memory pool is what CTxMemPool::check wants, and everything in it may *)
(* go into the next block, whatever messages, commands, blocks and           *)
(* reorganisations there were, for all transactions and chains.              *)
THEOREM PoolCorrect == PoolSpec => []PoolIsSound
<1>1. MempoolInv => PoolIsSound
  <2> SUFFICES ASSUME MempoolInv PROVE PoolIsSound
    OBVIOUS
  <2>0. IsPool(mempool)
    BY DEF MempoolInv, PoolInv
  <2>1. /\ mempool.tx \subseteq Txs /\ mempool.next \in [DOMAIN mempool.next -> Txs]
    BY <2>0, PoolFields
  <2>2. Waiting \subseteq Txs /\ Cardinality(orphanTxs) <= MaxOrphans
    <3>1. \A o \in orphanTxs : o.tx \in Txs
      BY DEF MempoolInv, OrphansAreFew
    <3> QED BY <3>1 DEF Waiting, MempoolInv, OrphansAreFew
  <2>3. PoolTypeOK
    BY <2>1, <2>2 DEF PoolTypeOK, MempoolInv
  <2>4. PoolIsConsistent
    BY <2>0 DEF PoolIsConsistent, MempoolInv, PoolInv, IsPool, Indexed
  <2>5. PoolIsMinable
    BY DEF PoolIsMinable, MempoolInv, PoolInv
  <2> QED BY <2>3, <2>4, <2>5 DEF PoolIsSound
<1> QED BY <1>1, PoolInvHolds, PTL

(* A reorganisation returns the transactions of the blocks it disconnects,   *)
(* and a message leaves no orphan waiting that could be accepted with what   *)
(* came: no transaction is dropped on the way, for all chains and orders.    *)
THEOREM NothingDropped == PoolSpec => NothingIsDropped
<1> DEFINE Returns == Len(blocks') < Len(blocks) =>
               \A t \in ToSet(Last(blocks).txs) :
                   \/ t \in mempool'.tx
                   \/ t \in Unacceptable
                   \/ \E x \in Parents(t) \cap ToSet(Last(blocks).txs) : x \notin mempool'.tx
           Follow == cause' = "peer" =>
               \A o \in orphanTxs' :
                   Parents(o.tx) \cap (mempool'.tx \ mempool.tx) # {} => Judge(mempool', o.tx, blocks) # "ok"
<1>1. ASSUME MempoolInv, DisconnectTip PROVE Returns
  <2> DEFINE c == Front(blocks)
             b == Last(blocks)
  <2>0. /\ blocks # <<>>
        /\ mempool' = removeCoinbaseSpends(TxsBack(removeRecursive(mempool, b.coinbase), b.txs, c), c)
    BY <1>1, DisconnectIs
  <2>1. ChainOk(c) /\ b \in ChainBlock /\ BlockOk(c, b.coinbase, b.txs) /\ blocks = Append(c, b)
    BY <1>1, <2>0, FrontOk DEF MempoolInv
  <2> HIDE DEF c
  <2>2. ChainOk(Append(c, b)) /\ PoolInv(mempool, Append(c, b))
    BY <1>1, <2>1 DEF MempoolInv
  <2>3. ASSUME NEW t \in ToSet(b.txs), t \notin Unacceptable, \A x \in Parents(t) \cap ToSet(b.txs) : x \in mempool'.tx
        PROVE  t \in mempool'.tx
    <3> HIDE DEF b
    <3> QED BY <2>0, <2>1, <2>2, <2>3, TipReturns
  <2> QED BY <2>3
<1>2. ASSUME MempoolInv, NEW t \in Txs, NEW n \in Senders, NEW kept \in BOOLEAN, ReceiveTx(t, n, kept) PROVE Follow
  <2> SUFFICES ASSUME NEW o \in orphanTxs', Parents(o.tx) \cap (mempool'.tx \ mempool.tx) # {}
               PROVE  Judge(mempool', o.tx, blocks) # "ok"
    OBVIOUS
  <2> DEFINE b == [pool |-> addUnchecked(mempool, t), queue |-> <<t>>, done |-> {}]
  <2>1. /\ Judge(mempool, t, blocks) = "ok" /\ mempool' = Resolve(b).pool
        /\ orphanTxs' = {x \in orphanTxs : x.tx \notin Resolve(b).done}
    BY <1>2 DEF ReceiveTx
  <2>2. Resolving(b)
    BY <1>2, <2>1, StartsResolving
  <2> HIDE DEF b
  <2>3. o \in orphanTxs /\ o.tx \notin Resolve(b).done /\ o.tx \in Txs /\ o.tx \in Waiting
    BY <1>2, <2>1 DEF MempoolInv, OrphansAreFew, Waiting
  <2> QED BY <1>2, <2>1, <2>2, <2>3, NoneLeftWaiting DEF MempoolInv
<1>3. ASSUME MempoolInv, [PoolNext]_poolVars PROVE [Returns]_poolVars /\ [Follow]_poolVars
  <2>1. ASSUME NEW t \in Txs, NEW n \in Senders, NEW kept \in BOOLEAN, ReceiveTx(t, n, kept) PROVE Returns /\ Follow
    <3>1. Follow
      BY <1>2, <1>3, <2>1
    <3>2. blocks' = blocks /\ Len(blocks) \in Nat
      BY <1>3, <2>1 DEF ReceiveTx, MempoolInv, ChainOk
    <3> QED BY <3>1, <3>2
  <2>2. ASSUME NEW t \in Txs, SubmitTx(t) PROVE Returns /\ Follow
    <3>1. blocks' = blocks /\ Len(blocks) \in Nat /\ cause' = "local"
      BY <1>3, <2>2 DEF SubmitTx, MempoolInv, ChainOk
    <3> QED BY <3>1
  <2>3. ASSUME NEW n \in Senders, PeerLeaves(n) PROVE Returns /\ Follow
    <3>1. blocks' = blocks /\ Len(blocks) \in Nat /\ mempool' = mempool
      BY <1>3, <2>3 DEF PeerLeaves, MempoolInv, ChainOk
    <3> QED BY <3>1
  <2>4. ASSUME NEW cb \in Coinbases, NEW txs \in TxLists(MaxBlockTxs), ConnectTip(cb, txs) PROVE Returns /\ Follow
    <3>1. Len(blocks') = Len(blocks) + 1 /\ Len(blocks) \in Nat
      BY <1>3, <2>4, ConnectKeeps
    <3>2. cause' = "chain"
      BY <2>4 DEF ConnectTip
    <3> QED BY <3>1, <3>2
  <2>5. ASSUME DisconnectTip PROVE Returns /\ Follow
    <3>1. cause' = "chain"
      BY <2>5, DisconnectIs
    <3> QED BY <1>1, <1>3, <2>5, <3>1
  <2> HIDE DEF Returns, Follow
  <2> QED BY <1>3, <2>1, <2>2, <2>3, <2>4, <2>5 DEF PoolNext
<1>4. MempoolInv /\ [PoolNext]_poolVars => [Returns]_poolVars /\ [Follow]_poolVars
  BY <1>3
<1>5. PoolSpec => [][Returns]_poolVars /\ [][Follow]_poolVars
  <2> HIDE DEF Returns, Follow
  <2> QED BY <1>4, PoolInvHolds, PTL DEF PoolSpec
<1> QED BY <1>5, PTL DEF NothingIsDropped, TxsReturn, OrphansFollow
=============================================================================
