-------------------------- MODULE MasternodesProofs --------------------------
(***************************************************************************)
(* Proofs about what masternodes sign and vote for: the safety of the four *)
(* parts of MCMasternodes, each for its own specification and any          *)
(* constants.                                                              *)
(*                                                                         *)
(* Locks: the signatures of a lock are those of different masternodes.     *)
(* This is not inductive: a vote is turned away because mapTxLockVote      *)
(* holds its key, so the invariant has to say that every signature of a    *)
(* lock is remembered there, and that cleaning forgets only the votes of   *)
(* locks that it removes.                                                  *)
(*                                                                         *)
(* Payees: CountsAreVotes speaks of heights in reach of the tip.  It is    *)
(* not inductive: the tip moves back in a reorganisation and heights come  *)
(* into reach again.  What holds on is the same for all heights in reach   *)
(* of the lowest tip that a reorganisation leads to (Floor); cleaning      *)
(* stays below it because Limit is the larger bound, and the dump, whose   *)
(* tip was never higher, was right for more heights than are needed later. *)
(*                                                                         *)
(* List: what keeps an entry from being enabled does not go away while the *)
(* entry is not enabled (Settled), and what is seen, newest and newer than *)
(* the entry was passed over (SeenListed).  Both are true of the dump on   *)
(* disk as well and stay true however old it gets (HeldStays), which is    *)
(* why they hold again when it is read after a crash.                      *)
(*                                                                         *)
(* Budgets: the loop over the finalized budgets loses nothing of the       *)
(* history (Answers), and the history has what the budgets granted in the  *)
(* chain (SuperInv).                                                       *)
(***************************************************************************)
EXTENDS MCMasternodes, FoldTheorems, FiniteSetTheorems, TLAPS

(* Locks *)


(* A lock of x whose signatures are all in vs, one per masternode. *)
Remembered(lk, x, vs) ==
    /\ lk \in Lock
    /\ \A i \in DOMAIN lk.sigs : <<lk.sigs[i].mn, x>> \in vs
    /\ \A i, j \in DOMAIN lk.sigs : lk.sigs[i].mn = lk.sigs[j].mn => i = j

Sound(lk, x, vs) == lk = NoLock \/ Remembered(lk, x, vs)

MapsOK ==
    /\ req \in [Txs -> {"none", "tx", "empty"}]
    /\ rej \subseteq Txs
    /\ votes \subseteq Masternodes \X Txs
    /\ lockedBy \in [Inputs -> Txs \cup {NoTx}]
    /\ known \subseteq Masternodes
    /\ pool \subseteq Txs
    /\ mined \subseteq Txs

LocksOK ==
    /\ DOMAIN locks = Txs
    /\ \A x \in Txs : Sound(locks[x], x, votes)

(* The inductive invariant. *)
VotesInv == MapsOK /\ LocksOK

-----------------------------------------------------------------------------
(* What the operations do to one lock *)

(* A lock that votes or a request have just made is sound. *)
LEMMA NewLockSound ==
    ASSUME NEW h \in Heights \cup {0}, NEW x, NEW vs
    PROVE  Remembered(NewLock(h), x, vs)
  BY DEF NewLock, Remembered, Lock, Vote

(* Expiry and cancelling touch no signature. *)
LEMMA OverSound ==
    ASSUME NEW lk, NEW x, NEW vs, Sound(lk, x, vs), lk # NoLock
    PROVE  Sound([lk EXCEPT !.over = TRUE], x, vs)
  BY DEF Sound, Remembered, Lock

(* Nor does the height that a request sets. *)
LEMMA HeightSound ==
    ASSUME NEW lk, NEW x, NEW vs, NEW h \in Heights, Sound(lk, x, vs), lk # NoLock
    PROVE  Sound([lk EXCEPT !.height = h], x, vs)
  BY DEF Sound, Remembered, Lock

(* More votes may be remembered than counted. *)
LEMMA MoreVotesSound ==
    ASSUME NEW lk, NEW x, NEW vs, NEW ws, Sound(lk, x, vs), vs \subseteq ws
    PROVE  Sound(lk, x, ws)
  BY DEF Sound, Remembered

(* A lock with other signatures is a lock with those. *)
LEMMA SignaturesReplaced ==
    ASSUME NEW lk \in Lock, NEW q \in Seq(Vote)
    PROVE  [lk EXCEPT !.sigs = q] \in Lock /\ [lk EXCEPT !.sigs = q].sigs = q
  BY DEF Lock

(* AddSignature of a masternode whose vote is not remembered yet. *)
LEMMA AppendSound ==
    ASSUME NEW lk, NEW x \in Txs, NEW vs, NEW m \in Masternodes, NEW h \in Heights,
           Remembered(lk, x, vs), <<m, x>> \notin vs
    PROVE  Remembered([lk EXCEPT !.sigs = Append(@, [mn |-> m, height |-> h])], x, vs \cup {<<m, x>>})
<1> DEFINE v == [mn |-> m, height |-> h]
           new == [lk EXCEPT !.sigs = Append(@, v)]
<1>1. v \in Vote /\ v.mn = m
  BY DEF Vote
<1>2. lk \in Lock /\ lk.sigs \in Seq(Vote)
  BY DEF Remembered, Lock
<1>3. new.sigs = Append(lk.sigs, v) /\ new \in Lock
  <2>1. Append(lk.sigs, v) \in Seq(Vote)
    BY <1>1, <1>2
  <2> QED
    BY <1>2, <2>1, SignaturesReplaced
<1>4. /\ DOMAIN new.sigs = DOMAIN lk.sigs \cup {Len(lk.sigs) + 1}
      /\ \A i \in DOMAIN lk.sigs : new.sigs[i] = lk.sigs[i]
      /\ new.sigs[Len(lk.sigs) + 1] = v
      /\ Len(lk.sigs) + 1 \notin DOMAIN lk.sigs
  BY <1>1, <1>2, <1>3
<1>5. /\ \A i \in DOMAIN lk.sigs : <<lk.sigs[i].mn, x>> \in vs
      /\ \A i, j \in DOMAIN lk.sigs : lk.sigs[i].mn = lk.sigs[j].mn => i = j
  BY DEF Remembered
<1>6. \A i \in DOMAIN lk.sigs : lk.sigs[i].mn # m
  BY <1>5
<1>7. \A i \in DOMAIN new.sigs : <<new.sigs[i].mn, x>> \in vs \cup {<<m, x>>}
  BY <1>1, <1>4, <1>5
<1>8. \A i, j \in DOMAIN new.sigs : new.sigs[i].mn = new.sigs[j].mn => i = j
  BY <1>1, <1>4, <1>5, <1>6
<1> QED
  BY <1>3, <1>7, <1>8 DEF Remembered

(* CreateNewLock keeps every lock sound. *)
LEMMA CreateNewLockSound ==
    ASSUME LocksOK, NEW t \in Txs, NEW aged \in BOOLEAN
    PROVE  /\ DOMAIN CreateNewLock(t, aged) = Txs
           /\ \A x \in Txs : Sound(CreateNewLock(t, aged)[x], x, votes)
<1>1. LockHeight[t] \in Heights
  BY SwiftAssumption
<1>2. Sound(NewLock(LockHeight[t]), t, votes)
  BY <1>1, NewLockSound DEF Sound
<1>3. locks[t] # NoLock => Sound([locks[t] EXCEPT !.height = LockHeight[t]], t, votes)
  BY <1>1, HeightSound DEF LocksOK
<1> QED
  BY <1>2, <1>3 DEF CreateNewLock, LocksOK

(* Giving up two locks keeps every lock sound. *)
LEMMA CancelledSound ==
    ASSUME NEW lk, NEW vs, NEW t, NEW rival, \A x \in Txs : Sound(lk[x], x, vs)
    PROVE  /\ DOMAIN Cancelled(lk, t, rival) = Txs
           /\ \A x \in Txs : Sound(Cancelled(lk, t, rival)[x], x, vs)
<1>1. \A x \in Txs : lk[x] # NoLock => Sound([lk[x] EXCEPT !.over = TRUE], x, vs)
  BY OverSound
<1> QED
  BY <1>1 DEF Cancelled

(* Reserving keeps the type of mapLockedInputs. *)
LEMMA ReserveType ==
    ASSUME MapsOK, NEW t \in Txs
    PROVE  Reserve(t) \in [Inputs -> Txs \cup {NoTx}]
  BY DEF MapsOK, Reserve

-----------------------------------------------------------------------------
(* The maps are empty at first. *)
LEMMA InitVotes == Init => VotesInv
  BY DEF Init, VotesInv, MapsOK, LocksOK, Sound

(* Every message and every cleaning keeps the votes remembered. *)
LEMMA NextVotes == VotesInv /\ [Next]_vars => VotesInv'
<1> SUFFICES ASSUME MapsOK, LocksOK, [Next]_vars
             PROVE  MapsOK' /\ LocksOK'
  BY DEF VotesInv
<1>1. CASE UNCHANGED vars
  BY <1>1 DEF vars, swiftVars, MapsOK, LocksOK
<1>2. ASSUME NEW t \in Txs, NEW aged \in BOOLEAN, RequestAccepted(t, aged)
      PROVE  MapsOK' /\ LocksOK'
  <2>1. votes \subseteq votes' /\ votes' \subseteq Masternodes \X Txs
    BY <1>2, SwiftAssumption DEF RequestAccepted, MapsOK
  <2>2. MapsOK'
    BY <1>2, <2>1 DEF RequestAccepted, MapsOK
  <2>3. LocksOK'
    BY <1>2, <2>1, CreateNewLockSound, MoreVotesSound DEF RequestAccepted, LocksOK
  <2> QED
    BY <2>2, <2>3
<1>3. ASSUME NEW t \in Txs, NEW aged \in BOOLEAN, RequestRejected(t, aged)
      PROVE  MapsOK' /\ LocksOK'
  <2>1. votes' = votes /\ known' = known /\ pool' = pool /\ rej' \subseteq Txs
    BY <1>3 DEF RequestRejected, MapsOK
  <2>2. req' \in [Txs -> {"none", "tx", "empty"}] /\ mined' \subseteq Txs
    BY <1>3 DEF RequestRejected, MapsOK, ReprocessBlocks
  <2>3. MapsOK'
    BY <1>3, <2>1, <2>2, ReserveType DEF RequestRejected, MapsOK
  <2>4. \/ locks' = CreateNewLock(t, aged)
        \/ \E rival \in Rivals(t) : locks' = Cancelled(CreateNewLock(t, aged), t, rival)
    BY <1>3 DEF RequestRejected
  <2> DEFINE lk == CreateNewLock(t, aged)
  <2>5. DOMAIN lk = Txs /\ \A x \in Txs : Sound(lk[x], x, votes)
    BY CreateNewLockSound
  <2> HIDE DEF lk
  <2>6. \A rival : /\ DOMAIN Cancelled(lk, t, rival) = Txs
                   /\ \A x \in Txs : Sound(Cancelled(lk, t, rival)[x], x, votes)
    BY <2>5, CancelledSound
  <2>7. LocksOK'
    BY <2>1, <2>4, <2>5, <2>6 DEF LocksOK, lk
  <2> QED
    BY <2>3, <2>7
<1>4. ASSUME NEW t \in Txs, NEW aged \in BOOLEAN, LocalRequest(t, aged)
      PROVE  MapsOK' /\ LocksOK'
  <2>1. MapsOK'
    BY <1>4 DEF LocalRequest, MapsOK
  <2>2. LocksOK'
    BY <1>4, CreateNewLockSound DEF LocalRequest, LocksOK
  <2> QED
    BY <2>1, <2>2
<1>5. ASSUME NEW m \in Masternodes, NEW t \in Txs, NEW h \in Heights, ReceiveVote(m, t, h)
      PROVE  MapsOK' /\ LocksOK'
  <2> DEFINE old == IF locks[t] = NoLock THEN NewLock(0) ELSE locks[t]
             new == [old EXCEPT !.sigs = Append(@, [mn |-> m, height |-> h])]
             lk  == [locks EXCEPT ![t] = new]
  <2>1. votes' = votes \cup {<<m, t>>} /\ <<m, t>> \notin votes
    BY <1>5 DEF ReceiveVote, NewVote
  <2>2. MapsOK'
    <3>1. /\ req' \in [Txs -> {"none", "tx", "empty"}]
          /\ lockedBy' \in [Inputs -> Txs \cup {NoTx}]
          /\ mined' \subseteq Txs
      BY <1>5, ReserveType DEF ReceiveVote, MapsOK, ReprocessBlocks
    <3>2. rej' = rej /\ known' = known /\ pool' = pool
      BY <1>5 DEF ReceiveVote
    <3> QED
      BY <2>1, <3>1, <3>2 DEF MapsOK
  <2>3. \/ locks' = locks
        \/ locks' = lk
        \/ \E rival \in Rivals(t) : locks' = Cancelled(lk, t, rival)
    BY <1>5 DEF ReceiveVote
  <2>4. Remembered(old, t, votes)
    BY NewLockSound DEF LocksOK, Sound
  <2>5. Sound(new, t, votes')
    BY <2>1, <2>4, AppendSound DEF Sound
  <2>6. \A x \in Txs : Sound(locks[x], x, votes')
    BY <2>1, MoreVotesSound DEF LocksOK
  <2>7. DOMAIN lk = Txs /\ \A x \in Txs : Sound(lk[x], x, votes')
    BY <2>5, <2>6 DEF LocksOK
  <2>8. LocksOK'
    BY <2>3, <2>6, <2>7, CancelledSound DEF LocksOK
  <2> QED
    BY <2>2, <2>8
<1>6. ASSUME NEW done \in SUBSET Txs, CleanTransactionLocksList(done)
      PROVE  MapsOK' /\ LocksOK'
  <2> DEFINE seen == {t \in done : req[t] # "none"}
  <2>1. MapsOK'
    BY <1>6 DEF CleanTransactionLocksList, MapsOK
  <2>2. \A x \in Txs \ done, m \in Masternodes : <<m, x>> \in votes => <<m, x>> \in votes'
    BY <1>6 DEF CleanTransactionLocksList
  <2>3. \A x \in Txs : locks'[x] = IF x \in done THEN NoLock ELSE locks[x]
    BY <1>6 DEF CleanTransactionLocksList
  <2>4. \A x \in Txs \ done : Sound(locks[x], x, votes')
    <3> SUFFICES ASSUME NEW x \in Txs \ done, locks[x] # NoLock
                 PROVE  Remembered(locks[x], x, votes')
      BY DEF Sound
    <3>1. Remembered(locks[x], x, votes)
      BY DEF LocksOK, Sound
    <3>2. \A i \in DOMAIN locks[x].sigs : locks[x].sigs[i].mn \in Masternodes
      BY <3>1 DEF Remembered, MapsOK
    <3> QED
      BY <2>2, <3>1, <3>2 DEF Remembered
  <2>5. LocksOK'
    BY <1>6, <2>3, <2>4 DEF LocksOK, Sound, CleanTransactionLocksList
  <2> QED
    BY <2>1, <2>5
<1>7. ASSUME NEW t \in Txs, Expire(t)
      PROVE  MapsOK' /\ LocksOK'
  <2>1. Sound([locks[t] EXCEPT !.over = TRUE], t, votes)
    BY <1>7, OverSound DEF Expire, LocksOK
  <2> QED
    BY <1>7, <2>1 DEF Expire, MapsOK, LocksOK
<1>8. ASSUME NEW t \in Txs, ReceiveTx(t) \/ Mine(t)
      PROVE  MapsOK' /\ LocksOK'
  BY <1>8 DEF ReceiveTx, Mine, swiftVars, MapsOK, LocksOK
<1>9. ASSUME NEW m \in Masternodes, Learn(m)
      PROVE  MapsOK' /\ LocksOK'
  BY <1>9 DEF Learn, swiftVars, MapsOK, LocksOK
<1> QED
  BY <1>1, <1>2, <1>3, <1>4, <1>5, <1>6, <1>7, <1>8, <1>9 DEF Next, Clean

(* So they always are. *)
LEMMA VotesInvariant == Spec => []VotesInv
<1>1. VotesInv /\ [Next]_vars => VotesInv'
  BY NextVotes
<1> QED
  BY InitVotes, <1>1, PTL DEF Spec

(* The maps of swifttx.cpp keep their types, for any transactions, inputs,   *)
(* masternodes and ranks.                                                    *)
THEOREM TypeCorrect == Spec => []TypeOK
<1>1. VotesInv => TypeOK
  BY DEF VotesInv, MapsOK, LocksOK, Sound, Remembered, TypeOK
<1> QED
  BY VotesInvariant, <1>1, PTL

(* No masternode is counted twice in a lock, so SWIFTTX_SIGNATURES_REQUIRED  *)
(* signatures are that many voters: for any number of transactions and       *)
(* masternodes, any ranks, and any order of requests, votes, expiry and      *)
(* cleaning.                                                                 *)
THEOREM VotersAreDistinct == Spec => []QuorumIsDistinct
<1>1. VotesInv => QuorumIsDistinct
  BY DEF VotesInv, LocksOK, Sound, Remembered, QuorumIsDistinct
<1> QED
  BY VotesInvariant, <1>1, PTL
-----------------------------------------------------------------------------
(* Blocks that conflict with a complete lock *)

(* CreateNewLock touches no lock but that of its transaction. *)
LEMMA CreateNewLockOthers ==
    ASSUME LocksOK, NEW t \in Txs, NEW aged, NEW x \in Txs, x # t
    PROVE  CreateNewLock(t, aged)[x] = locks[x]
  BY DEF CreateNewLock, LocksOK

(* Of the locks that are given up none is left that could exclude a block. *)
LEMMA CancelledOthers ==
    ASSUME NEW lk, NEW t \in Txs, NEW rival, NEW x \in Txs, lk[x] = NoLock \/ lk[x] \in Lock,
           Cancelled(lk, t, rival)[x] # NoLock, ~Cancelled(lk, t, rival)[x].over
    PROVE  x # t /\ Cancelled(lk, t, rival)[x] = lk[x]
<1>1. lk[x] # NoLock => [lk[x] EXCEPT !.over = TRUE].over = TRUE
  BY DEF Lock
<1>2. Cancelled(lk, t, rival)[x] =
        IF x \in {t, rival} /\ lk[x] # NoLock THEN [lk[x] EXCEPT !.over = TRUE] ELSE lk[x]
  BY DEF Cancelled
<1> QED
  BY <1>1, <1>2

(* Reserving takes no input from another transaction. *)
LEMMA ReserveOthers ==
    ASSUME NEW t \in Txs, NEW x \in Txs, NEW o \in Inputs, x # t, Reserve(t)[o] = x
    PROVE  lockedBy[o] = x
  BY DEF Reserve

(* After the blocks are replayed, none of them spends an input that is       *)
(* reserved for another transaction.                                         *)
LEMMA ReprocessedBlocks ==
    ASSUME NEW owner, NEW o \in Inputs, NEW x \in Txs, owner[o] = x, NEW u \in ReprocessBlocks(owner), u # x
    PROVE  u \in mined /\ o \notin InputsOf[u]
  BY SwiftAssumption DEF ReprocessBlocks

(* No step leaves a block beside a complete lock that excludes it: a vote or *)
(* a request that completes the lock replays the blocks, and CheckBlock      *)
(* keeps new ones out.                                                       *)
LEMMA NextUndone == VotesInv /\ ConflictsAreUndone /\ [Next]_vars => ConflictsAreUndone'
<1> SUFFICES ASSUME MapsOK, LocksOK, ConflictsAreUndone, [Next]_vars,
                    NEW x \in rej' \ OwnTxs, NEW o \in Inputs,
                    lockedBy'[o] = x, Complete(locks'[x]), ~locks'[x].over,
                    NEW v \in mined', v # x
             PROVE  o \notin InputsOf[v]
  BY DEF VotesInv, ConflictsAreUndone
<1> USE SwiftAssumption
<1>a. locks'[x] # NoLock
  BY DEF Complete
<1>b. ASSUME x \in rej, lockedBy[o] = x, locks'[x] = locks[x], v \in mined
      PROVE  o \notin InputsOf[v]
  BY <1>b DEF ConflictsAreUndone
<1>1. CASE UNCHANGED vars
  BY <1>1, <1>b DEF vars, swiftVars
<1>2. ASSUME NEW t \in Txs, NEW aged \in BOOLEAN, RequestAccepted(t, aged)
      PROVE  o \notin InputsOf[v]
  BY <1>2, <1>b, CreateNewLockOthers DEF RequestAccepted, MapsOK
<1>3. ASSUME NEW t \in Txs, NEW aged \in BOOLEAN, RequestRejected(t, aged)
      PROVE  o \notin InputsOf[v]
  <2>1. x \in Txs /\ (x # t => x \in rej)
    BY <1>3 DEF RequestRejected, MapsOK
  <2>2. lockedBy' = Reserve(t)
    BY <1>3 DEF RequestRejected
  <2>3. v \in mined
    BY <1>3 DEF RequestRejected, ReprocessBlocks
  <2> DEFINE lk == CreateNewLock(t, aged)
  <2>4. \A y \in Txs : Sound(lk[y], y, votes)
    BY CreateNewLockSound
  <2>5. \A y \in Txs : y # t => lk[y] = locks[y]
    BY CreateNewLockOthers
  <2>6. \/ locks' = lk /\ ~Complete(lk[t])
        \/ locks' = lk /\ mined' = ReprocessBlocks(lockedBy')
        \/ \E rival \in Rivals(t) : locks' = Cancelled(lk, t, rival)
    BY <1>3 DEF RequestRejected
  <2> HIDE DEF lk
  <2>7. \A rival : locks' = Cancelled(lk, t, rival) => x # t /\ locks'[x] = lk[x]
    <3> SUFFICES ASSUME NEW rival, locks' = Cancelled(lk, t, rival)
                 PROVE  x # t /\ Cancelled(lk, t, rival)[x] = lk[x]
      OBVIOUS
    <3>1. Cancelled(lk, t, rival)[x] # NoLock /\ ~Cancelled(lk, t, rival)[x].over
      BY <1>a
    <3>2. lk[x] = NoLock \/ lk[x] \in Lock
      BY <2>1, <2>4 DEF Sound, Remembered
    <3> QED
      BY <2>1, <3>1, <3>2, CancelledOthers
  <2>8. CASE x = t
    <3>1. mined' = ReprocessBlocks(lockedBy')
      BY <2>6, <2>7, <2>8
    <3> QED
      BY <2>1, <3>1, ReprocessedBlocks
  <2>9. CASE x # t
    <3>1. locks'[x] = locks[x]
      BY <2>1, <2>5, <2>6, <2>7, <2>9
    <3>2. lockedBy[o] = x
      BY <2>1, <2>2, <2>9, ReserveOthers
    <3> QED
      BY <1>b, <2>1, <2>3, <2>9, <3>1, <3>2
  <2> QED
    BY <2>8, <2>9
<1>4. ASSUME NEW t \in Txs, NEW aged \in BOOLEAN, LocalRequest(t, aged)
      PROVE  o \notin InputsOf[v]
  BY <1>4, <1>b, CreateNewLockOthers DEF LocalRequest, MapsOK
<1>5. ASSUME NEW m \in Masternodes, NEW t \in Txs, NEW h \in Heights, ReceiveVote(m, t, h)
      PROVE  o \notin InputsOf[v]
  <2> DEFINE old == IF locks[t] = NoLock THEN NewLock(0) ELSE locks[t]
             new == [old EXCEPT !.sigs = Append(@, [mn |-> m, height |-> h])]
             lk  == [locks EXCEPT ![t] = new]
  <2>1. x \in rej /\ x \in Txs
    BY <1>5 DEF ReceiveVote, MapsOK
  <2>2. v \in mined
    BY <1>5 DEF ReceiveVote, ReprocessBlocks
  <2>3. x # t => lockedBy[o] = x
    BY <1>5, <2>1, ReserveOthers DEF ReceiveVote
  <2>4. lk[t] = new /\ \A y \in Txs : y # t => lk[y] = locks[y]
    BY DEF LocksOK
  <2>5. \A y \in Txs : Sound(lk[y], y, votes \cup {<<m, t>>})
    <3>1. Remembered(old, t, votes)
      BY NewLockSound DEF LocksOK, Sound
    <3>2. <<m, t>> \notin votes
      BY <1>5 DEF ReceiveVote, NewVote
    <3>3. Sound(new, t, votes \cup {<<m, t>>})
      BY <3>1, <3>2, AppendSound DEF Sound
    <3>4. \A y \in Txs : Sound(locks[y], y, votes \cup {<<m, t>>})
      BY MoreVotesSound DEF LocksOK
    <3> QED
      BY <2>4, <3>3, <3>4
  <2>6. \/ locks' = locks /\ lockedBy' = lockedBy
        \/ locks' = lk /\ ~Complete(lk[t])
        \/ \E rival \in Rivals(t) : locks' = Cancelled(lk, t, rival)
        \/ locks' = lk /\ (t \in rej => mined' = ReprocessBlocks(lockedBy'))
    BY <1>5 DEF ReceiveVote
  <2> HIDE DEF lk
  <2>7. \A rival : locks' = Cancelled(lk, t, rival) => x # t /\ locks'[x] = lk[x]
    <3> SUFFICES ASSUME NEW rival, locks' = Cancelled(lk, t, rival)
                 PROVE  x # t /\ Cancelled(lk, t, rival)[x] = lk[x]
      OBVIOUS
    <3>1. Cancelled(lk, t, rival)[x] # NoLock /\ ~Cancelled(lk, t, rival)[x].over
      BY <1>a
    <3>2. lk[x] = NoLock \/ lk[x] \in Lock
      BY <2>1, <2>5 DEF Sound, Remembered
    <3> QED
      BY <2>1, <3>1, <3>2, CancelledOthers
  <2>8. CASE x = t
    <3>1. CASE locks' = locks /\ lockedBy' = lockedBy
      BY <1>b, <2>1, <2>2, <3>1
    <3>2. CASE mined' = ReprocessBlocks(lockedBy')
      BY <2>1, <3>2, ReprocessedBlocks
    <3> QED
      BY <2>1, <2>6, <2>7, <2>8, <3>1, <3>2
  <2>9. CASE x # t
    <3>1. locks'[x] = locks[x]
      BY <2>1, <2>4, <2>6, <2>7, <2>9
    <3> QED
      BY <1>b, <2>1, <2>2, <2>3, <2>9, <3>1
  <2> QED
    BY <2>8, <2>9
<1>6. ASSUME NEW done \in SUBSET Txs, CleanTransactionLocksList(done)
      PROVE  o \notin InputsOf[v]
  <2>1. x \in rej /\ x \in Txs /\ v \in mined
    BY <1>6 DEF CleanTransactionLocksList, MapsOK
  <2>2. lockedBy[o] = x
    BY <1>6, <2>1 DEF CleanTransactionLocksList
  <2>3. locks'[x] = locks[x]
    BY <1>6, <1>a, <2>1 DEF CleanTransactionLocksList
  <2> QED
    BY <1>b, <2>1, <2>2, <2>3
<1>7. ASSUME NEW t \in Txs, Expire(t)
      PROVE  o \notin InputsOf[v]
  <2>1. x # t
    BY <1>7 DEF Expire, LocksOK, Sound, Remembered, Lock
  <2> QED
    BY <1>7, <1>b, <2>1 DEF Expire, LocksOK, MapsOK
<1>8. ASSUME NEW t \in Txs, ReceiveTx(t)
      PROVE  o \notin InputsOf[v]
  BY <1>8, <1>b DEF ReceiveTx, swiftVars
<1>9. ASSUME NEW t \in Txs, Mine(t)
      PROVE  o \notin InputsOf[v]
  <2>1. x \in Txs /\ x # NoTx
    BY <1>9 DEF Mine, swiftVars, MapsOK
  <2>2. CASE v = t
    BY <1>9, <2>1, <2>2 DEF Mine, swiftVars, Rivals
  <2>3. CASE v # t
    BY <1>9, <1>b, <2>3 DEF Mine, swiftVars
  <2> QED
    BY <2>2, <2>3
<1>10. ASSUME NEW m \in Masternodes, Learn(m)
       PROVE  o \notin InputsOf[v]
  BY <1>10, <1>b DEF Learn, swiftVars
<1> QED
  BY <1>1, <1>2, <1>3, <1>4, <1>5, <1>6, <1>7, <1>8, <1>9, <1>10 DEF Next, Clean
-----------------------------------------------------------------------------
(* Locks that are complete *)

(* A lock has the height of its request, or none: a second request cannot    *)
(* give it another one, under which its votes would no longer count.         *)
Dated(lk, x) == lk = NoLock \/ (lk \in Lock /\ lk.height \in {0, LockHeight[x]})

HeightsOK == DOMAIN locks = Txs /\ \A x \in Txs : Dated(locks[x], x)

(* What becomes of the lock of x in one step: it goes, it is made, it gets   *)
(* its height, it is given up, or it gets a vote; a vote may also complete   *)
(* it and a rival then take it away at once.                                 *)
Follows(old, new, x) ==
    \/ new \in {NoLock, old}
    \/ /\ new \in Lock
       /\ old = NoLock \/ old.height \in {0, new.height}
       /\ old # NoLock => Len(old.sigs) <= Len(new.sigs) /\ \A i \in DOMAIN old.sigs : new.sigs[i] = old.sigs[i]
       /\ new.height \in {0, LockHeight[x]}

(* A step that Follows describes takes no vote from a complete lock. *)
LEMMA FollowsComplete ==
    ASSUME NEW old, NEW new, NEW x \in Txs, Dated(old, x), Follows(old, new, x), Complete(old), new # NoLock
    PROVE  Complete(new)
<1>1. CASE new = old
  BY <1>1
<1>2. CASE new # old
  <2>1. /\ old \in Lock /\ new \in Lock /\ old.height # 0 /\ new.height = old.height
        /\ Len(old.sigs) <= Len(new.sigs) /\ \A i \in DOMAIN old.sigs : new.sigs[i] = old.sigs[i]
    BY <1>2 DEF Follows, Dated, Complete
  <2>2. old.sigs \in Seq(Vote) /\ new.sigs \in Seq(Vote)
    BY <2>1 DEF Lock
  <2>3. Counted(old) \subseteq Counted(new)
    BY <2>1, <2>2 DEF Counted
  <2>4. IsFiniteSet(Counted(new))
    <3>1. IsFiniteSet(1 .. Len(new.sigs))
      BY <2>2, FS_Interval
    <3>2. Counted(new) \subseteq 1 .. Len(new.sigs)
      BY <2>2 DEF Counted
    <3> QED
      BY <3>1, <3>2, FS_Subset
  <2>5. IsFiniteSet(Counted(old)) /\ Cardinality(Counted(old)) <= Cardinality(Counted(new))
    BY <2>3, <2>4, FS_Subset
  <2>6. Cardinality(Counted(old)) \in Nat /\ Cardinality(Counted(new)) \in Nat
    BY <2>4, <2>5, FS_CardinalityType
  <2>7. Cardinality(Counted(new)) >= Required
    BY <2>5, <2>6, SwiftAssumption DEF Complete
  <2> QED
    BY <2>1, <2>7 DEF Complete
<1> QED
  BY <1>1, <1>2
(* Nor does it leave a lock with the height of another request. *)
LEMMA FollowsDated ==
    ASSUME NEW old, NEW new, NEW x \in Txs, Dated(old, x), Follows(old, new, x)
    PROVE  Dated(new, x)
  BY DEF Dated, Follows

(* A lock that gets its height. *)
LEMMA HeightFollows ==
    ASSUME NEW lk, NEW x \in Txs, Dated(lk, x), lk # NoLock
    PROVE  Follows(lk, [lk EXCEPT !.height = LockHeight[x]], x)
<1>1. LockHeight[x] \in Heights
  BY SwiftAssumption
<1> DEFINE new == [lk EXCEPT !.height = LockHeight[x]]
<1>2. lk \in Lock /\ lk.sigs \in Seq(Vote) /\ lk.height \in {0, LockHeight[x]}
  BY DEF Dated, Lock
<1>3. new \in Lock /\ new.height = LockHeight[x] /\ new.sigs = lk.sigs
  BY <1>1, <1>2 DEF Lock
<1> HIDE DEF new
<1>4. Len(lk.sigs) <= Len(new.sigs)
  BY <1>2, <1>3
<1>5. Follows(lk, new, x)
  BY <1>2, <1>3, <1>4 DEF Follows
<1> QED
  BY <1>5 DEF new

(* A lock that is given up after the step. *)
LEMMA OverFollows ==
    ASSUME NEW old, NEW lk, NEW x \in Txs, Dated(old, x), Follows(old, lk, x), lk # NoLock
    PROVE  Follows(old, [lk EXCEPT !.over = TRUE], x)
<1> DEFINE new == [lk EXCEPT !.over = TRUE]
<1>1. lk \in Lock /\ lk.sigs \in Seq(Vote) /\ lk.height \in {0, LockHeight[x]}
  BY DEF Dated, Follows, Lock
<1>2. new \in Lock /\ new.height = lk.height /\ new.sigs = lk.sigs
  BY <1>1 DEF Lock
<1>3. /\ old = NoLock \/ old.height \in {0, lk.height}
      /\ old # NoLock => Len(old.sigs) <= Len(lk.sigs) /\ \A i \in DOMAIN old.sigs : lk.sigs[i] = old.sigs[i]
  BY <1>1 DEF Follows
<1> HIDE DEF new
<1>4. Follows(old, new, x)
  BY <1>1, <1>2, <1>3 DEF Follows
<1> QED
  BY <1>4 DEF new

(* A lock that gets a vote, the first one included. *)
LEMMA AppendFollows ==
    ASSUME NEW lk, NEW x \in Txs, Dated(lk, x), NEW v \in Vote
    PROVE  LET old == IF lk = NoLock THEN NewLock(0) ELSE lk
           IN  Follows(lk, [old EXCEPT !.sigs = Append(@, v)], x)
<1> DEFINE old == IF lk = NoLock THEN NewLock(0) ELSE lk
           new == [old EXCEPT !.sigs = Append(@, v)]
<1>1. old \in Lock /\ old.sigs \in Seq(Vote) /\ old.height \in {0, LockHeight[x]}
  BY DEF Dated, Lock, NewLock
<1>2. Append(old.sigs, v) \in Seq(Vote)
  BY <1>1
<1>3. new \in Lock /\ new.sigs = Append(old.sigs, v) /\ new.height = old.height
  BY <1>1, <1>2, SignaturesReplaced DEF Lock
<1>4. Len(old.sigs) <= Len(new.sigs) /\ \A i \in DOMAIN old.sigs : new.sigs[i] = old.sigs[i]
  BY <1>1, <1>3
<1>5. lk # NoLock => old = lk
  OBVIOUS
<1> HIDE DEF new, old
<1>6. Follows(lk, new, x)
  BY <1>1, <1>3, <1>4, <1>5 DEF Follows
<1> QED
  BY <1>6 DEF new, old

(* CreateNewLock follows, for every lock. *)
LEMMA CreateNewLockFollows ==
    ASSUME HeightsOK, NEW t \in Txs, NEW aged \in BOOLEAN, NEW x \in Txs
    PROVE  Follows(locks[x], CreateNewLock(t, aged)[x], x)
<1>1. Dated(locks[x], x) /\ DOMAIN locks = Txs /\ LockHeight[t] \in Heights
  BY SwiftAssumption DEF HeightsOK
<1>2. CASE x # t \/ ~aged
  BY <1>1, <1>2 DEF CreateNewLock, Follows
<1>3. CASE x = t /\ aged /\ locks[t] = NoLock
  <2>1. CreateNewLock(t, aged)[x] = NewLock(LockHeight[t])
    BY <1>1, <1>3 DEF CreateNewLock
  <2>2. NewLock(LockHeight[t]) \in Lock /\ NewLock(LockHeight[t]).height = LockHeight[t]
    BY <1>1 DEF NewLock, Lock
  <2> QED
    BY <1>3, <2>1, <2>2 DEF Follows
<1>4. CASE x = t /\ aged /\ locks[t] # NoLock
  <2>1. CreateNewLock(t, aged)[x] = [locks[x] EXCEPT !.height = LockHeight[x]]
    BY <1>1, <1>4 DEF CreateNewLock
  <2>2. Follows(locks[x], [locks[x] EXCEPT !.height = LockHeight[x]], x)
    BY <1>1, <1>4, HeightFollows
  <2> QED
    BY <2>1, <2>2
<1> QED
  BY <1>2, <1>3, <1>4

(* Giving up two locks follows. *)
LEMMA CancelledFollows ==
    ASSUME HeightsOK, NEW lk, NEW t, NEW rival, NEW x \in Txs, Follows(locks[x], lk[x], x)
    PROVE  Follows(locks[x], Cancelled(lk, t, rival)[x], x)
<1>1. Dated(locks[x], x)
  BY DEF HeightsOK
<1>2. Cancelled(lk, t, rival)[x] =
        IF x \in {t, rival} /\ lk[x] # NoLock THEN [lk[x] EXCEPT !.over = TRUE] ELSE lk[x]
  BY DEF Cancelled
<1>3. lk[x] # NoLock => Follows(locks[x], [lk[x] EXCEPT !.over = TRUE], x)
  BY <1>1, OverFollows
<1> QED
  BY <1>2, <1>3

(* Every step of the node follows, for every lock. *)
LEMMA NextFollows == HeightsOK /\ [Next]_vars => \A x \in Txs : Follows(locks[x], locks'[x], x)
<1> SUFFICES ASSUME HeightsOK, [Next]_vars, NEW x \in Txs
             PROVE  Follows(locks[x], locks'[x], x)
  OBVIOUS
<1>a. Dated(locks[x], x) /\ DOMAIN locks = Txs
  BY DEF HeightsOK
<1>b. locks' = locks => Follows(locks[x], locks'[x], x)
  BY DEF Follows
<1>1. CASE UNCHANGED vars
  BY <1>1, <1>b DEF vars, swiftVars
<1>2. ASSUME NEW t \in Txs, NEW aged \in BOOLEAN, RequestAccepted(t, aged) \/ LocalRequest(t, aged)
      PROVE  Follows(locks[x], locks'[x], x)
  BY <1>2, CreateNewLockFollows DEF RequestAccepted, LocalRequest
<1>3. ASSUME NEW t \in Txs, NEW aged \in BOOLEAN, RequestRejected(t, aged)
      PROVE  Follows(locks[x], locks'[x], x)
  <2> DEFINE lk == CreateNewLock(t, aged)
  <2>1. locks' = lk \/ \E rival \in Rivals(t) : locks' = Cancelled(lk, t, rival)
    BY <1>3 DEF RequestRejected
  <2>2. Follows(locks[x], lk[x], x)
    BY CreateNewLockFollows
  <2> HIDE DEF lk
  <2> QED
    BY <2>1, <2>2, CancelledFollows
<1>4. ASSUME NEW m \in Masternodes, NEW t \in Txs, NEW h \in Heights, ReceiveVote(m, t, h)
      PROVE  Follows(locks[x], locks'[x], x)
  <2> DEFINE old == IF locks[t] = NoLock THEN NewLock(0) ELSE locks[t]
             new == [old EXCEPT !.sigs = Append(@, [mn |-> m, height |-> h])]
             lk  == [locks EXCEPT ![t] = new]
  <2>1. \/ locks' = locks
        \/ locks' = lk
        \/ \E rival \in Rivals(t) : locks' = Cancelled(lk, t, rival)
    BY <1>4 DEF ReceiveVote
  <2>2. Follows(locks[x], lk[x], x)
    <3>1. CASE x = t
      <4>1. [mn |-> m, height |-> h] \in Vote
        BY DEF Vote
      <4>2. Follows(locks[t], new, t)
        BY <1>a, <3>1, <4>1, AppendFollows
      <4> QED
        BY <1>a, <3>1, <4>2
    <3>2. CASE x # t
      BY <1>a, <3>2 DEF Follows
    <3> QED
      BY <3>1, <3>2
  <2> HIDE DEF lk
  <2> QED
    BY <1>b, <2>1, <2>2, CancelledFollows
<1>5. ASSUME NEW done \in SUBSET Txs, CleanTransactionLocksList(done)
      PROVE  Follows(locks[x], locks'[x], x)
  BY <1>5 DEF CleanTransactionLocksList, Follows
<1>6. ASSUME NEW t \in Txs, Expire(t)
      PROVE  Follows(locks[x], locks'[x], x)
  <2>1. Follows(locks[x], locks[x], x)
    BY DEF Follows
  <2>2. locks[x] # NoLock => Follows(locks[x], [locks[x] EXCEPT !.over = TRUE], x)
    BY <1>a, <2>1, OverFollows
  <2>3. locks'[x] = IF x = t THEN [locks[x] EXCEPT !.over = TRUE] ELSE locks[x]
    BY <1>a, <1>6 DEF Expire
  <2> QED
    BY <1>6, <2>1, <2>2, <2>3 DEF Expire
<1>7. ASSUME NEW t \in Txs, ReceiveTx(t) \/ Mine(t)
      PROVE  Follows(locks[x], locks'[x], x)
  BY <1>7, <1>b DEF ReceiveTx, Mine, swiftVars
<1>8. ASSUME NEW m \in Masternodes, Learn(m)
      PROVE  Follows(locks[x], locks'[x], x)
  BY <1>8, <1>b DEF Learn, swiftVars
<1> QED
  BY <1>1, <1>2, <1>3, <1>4, <1>5, <1>6, <1>7, <1>8 DEF Next, Clean

-----------------------------------------------------------------------------
(* The inductive invariant of both. *)
SwiftInv == VotesInv /\ ConflictsAreUndone /\ HeightsOK

(* It holds in every state. *)
LEMMA SwiftInvariant == Spec => []SwiftInv
<1>1. Init => SwiftInv
  <2> SUFFICES ASSUME Init PROVE SwiftInv
    OBVIOUS
  <2>1. ConflictsAreUndone /\ HeightsOK
    BY DEF Init, ConflictsAreUndone, HeightsOK, Dated
  <2> QED
    BY <2>1, InitVotes DEF SwiftInv
<1>2. SwiftInv /\ [Next]_vars => SwiftInv'
  <2> SUFFICES ASSUME SwiftInv, [Next]_vars PROVE SwiftInv'
    OBVIOUS
  <2>1. VotesInv' /\ ConflictsAreUndone'
    BY NextVotes, NextUndone DEF SwiftInv
  <2>2. DOMAIN locks' = Txs
    BY <2>1 DEF VotesInv, LocksOK
  <2>3. \A x \in Txs : Dated(locks'[x], x)
    BY NextFollows, FollowsDated DEF SwiftInv, HeightsOK
  <2> QED
    BY <2>1, <2>2, <2>3 DEF SwiftInv, HeightsOK
<1> QED
  BY <1>1, <1>2, PTL DEF Spec

(* Blocks that conflict with a complete lock are undone: the chain spends no *)
(* input reserved for a transaction whose request was turned down and whose  *)
(* lock is complete, whichever of the request, the last vote and the block   *)
(* came last.                                                                *)
THEOREM BlocksAreUndone == Spec => []ConflictsAreUndone
<1>1. SwiftInv => ConflictsAreUndone
  BY DEF SwiftInv
<1> QED
  BY SwiftInvariant, <1>1, PTL

(* A complete lock loses no vote to a late or a second request, to other     *)
(* votes or to a conflict: it stays complete until the cleaning removes it.  *)
THEOREM CompleteLocksStay == Spec => CompleteStaysComplete
<1>1. SwiftInv /\ [Next]_vars
      => [\A t \in Txs : Complete(locks[t]) /\ locks'[t] # NoLock => Complete(locks'[t])]_vars
  BY NextFollows, FollowsComplete DEF SwiftInv, HeightsOK
<1> QED
  BY SwiftInvariant, <1>1, PTL DEF Spec, CompleteStaysComplete

(* All that a lock stands for, for any transactions, masternodes and ranks   *)
(* and any order of requests, votes, blocks, expiry and cleaning.            *)
THEOREM LocksCorrect == Spec => LocksAreSound
  BY TypeCorrect, VotersAreDistinct, BlocksAreUndone, CompleteLocksStay, PTL DEF LocksAreSound


(* The votes of s for payee p at height h, and how many blocks counts. *)
For(s, h, p) == {w \in s : w.height = h /\ w.payee = p}

Count(blocks, h, p) == IF h \in DOMAIN blocks THEN blocks[h][p] ELSE 0

(* Below this height no vote can come any more. *)
Floor == highest - MaxReorg - Window

(* Counts per height and payee. *)
BlocksOK(blocks) == DOMAIN blocks \subseteq Pay!PayHeights /\ \A h \in DOMAIN blocks : blocks[h] \in [Payees -> Nat]

(* No payee can come to have more votes than there are masternodes. *)
Bounded(un, blocks) ==
    \A h \in Pay!PayHeights, p \in Payees : Count(blocks, h, p) + Cardinality(For(un, h, p)) <= Cardinality(Voters)

(* From a height on, the counts are the votes vs without those, un, that are *)
(* not counted yet.                                                          *)
Balanced(vs, un, blocks, from) ==
    \A h \in Pay!PayHeights, p \in Payees :
        h >= from => /\ For(un, h, p) \subseteq vs
                     /\ Count(blocks, h, p) + Cardinality(For(un, h, p)) = Cardinality(For(vs, h, p))

Books(vs, un, blocks, from) ==
    /\ vs \in SUBSET Pay!Winner /\ un \in SUBSET Pay!Winner
    /\ BlocksOK(blocks)
    /\ Bounded(un, blocks)
    /\ Balanced(vs, un, blocks, from)

Tips ==
    /\ tipHeight \in FirstTip..MaxTip /\ highest \in FirstTip..MaxTip
    /\ tipHeight >= highest - MaxReorg /\ tipHeight <= highest

Casts ==
    /\ lastVote \in [Voters -> Pay!PayHeights \cup {-1}]
    /\ lastOwn \in Pay!PayHeights \cup {0}
    /\ votesLeft \in 0..MaxVotes
    /\ restartsLeft \in 0..MaxRestarts

(* The inductive invariant. *)
PayInv ==
    /\ Tips
    /\ Casts
    /\ Books(payeeVotes, uncounted, blockPayees, Floor)
    /\ payFile = [votes |-> payFile.votes, blocks |-> payFile.blocks]
    /\ Books(payFile.votes, {}, payFile.blocks, Floor)

-----------------------------------------------------------------------------
(* Votes and counts *)

(* Finite sets are the same in the instance as here. *)
LEMMA PayFinite == \A S : (Pay!IsFiniteSet(S) <=> IsFiniteSet(S)) /\ Pay!Cardinality(S) = Cardinality(S)
<1>1. ASSUME NEW S PROVE Pay!IsFiniteSet(S) <=> IsFiniteSet(S)
  BY DEF Pay!IsFiniteSet, IsFiniteSet
<1>2. ASSUME NEW S PROVE Pay!Cardinality(S) = Cardinality(S)
  BY DEF Pay!Cardinality, Cardinality
<1> QED BY <1>1, <1>2

(* The bounds are numbers, and the heights lie among the integers. *)
LEMMA PayNumbers ==
    ASSUME Pay!PaymentsAssumption
    PROVE  /\ Required \in Nat /\ Window \in Nat /\ Limit \in Nat /\ Ahead \in Nat /\ OwnAhead \in Nat
           /\ FirstTip \in Nat /\ MaxTip \in Nat /\ MaxReorg \in Nat /\ MaxVotes \in Nat /\ MaxRestarts \in Nat
           /\ FirstTip <= MaxTip /\ Window + MaxReorg <= Limit
           /\ Pay!PayHeights \subseteq Int
           /\ IsFiniteSet(Voters) /\ Cardinality(Voters) \in Nat
  BY FS_CardinalityType, PayFinite DEF Pay!PaymentsAssumption, Pay!PayHeights

(* Votes for one payee at one height differ in their masternode, so they are *)
(* as many as their voters, and no more than there are masternodes.          *)
LEMMA ForVoters ==
    ASSUME Pay!PaymentsAssumption, NEW s \in SUBSET Pay!Winner, NEW h, NEW p
    PROVE  /\ IsFiniteSet(For(s, h, p))
           /\ Cardinality(For(s, h, p)) \in Nat
           /\ Cardinality(For(s, h, p)) <= Cardinality(Voters)
           /\ Cardinality({w.voter : w \in For(s, h, p)}) = Cardinality(For(s, h, p))
<1> DEFINE S == For(s, h, p)
           T == {w.voter : w \in S}
           f == [w \in S |-> w.voter]
<1>1. \A w \in S : w \in Pay!Winner /\ w.height = h /\ w.payee = p
  BY DEF For
<1>2. \A v, w \in S : v.voter = w.voter => v = w
  BY <1>1 DEF Pay!Winner
<1>3. T \in SUBSET Voters
  BY <1>1 DEF Pay!Winner
<1>4. IsFiniteSet(T) /\ Cardinality(T) <= Cardinality(Voters)
  BY <1>3, PayNumbers, FS_Subset
<1>5. f \in [S -> T] /\ \A v, w \in S : f[v] = f[w] => v = w
  BY <1>2
<1>6. \A t \in T : \E w \in S : f[w] = t
  OBVIOUS
<1> HIDE DEF S, T, f
<1>7. f \in Injection(S, T) /\ f \in Surjection(S, T)
  BY <1>5, <1>6 DEF Injection, IsInjective, Surjection
<1>8. IsFiniteSet(S) /\ Cardinality(S) = Cardinality(T)
  BY <1>4, <1>7, FS_Injection
<1>9. Cardinality(S) \in Nat
  BY <1>8, FS_CardinalityType
<1> QED
  BY <1>4, <1>8, <1>9 DEF S, T

(* One more vote adds one for its payee at its height and none elsewhere. *)
LEMMA ForAdded ==
    ASSUME Pay!PaymentsAssumption, NEW s \in SUBSET Pay!Winner, NEW w \in Pay!Winner, w \notin s, NEW h, NEW p
    PROVE  Cardinality(For(s \cup {w}, h, p)) =
             Cardinality(For(s, h, p)) + (IF h = w.height /\ p = w.payee THEN 1 ELSE 0)
<1>1. IsFiniteSet(For(s, h, p)) /\ Cardinality(For(s, h, p)) \in Nat
  BY ForVoters
<1>2. CASE h = w.height /\ p = w.payee
  <2>1. For(s \cup {w}, h, p) = For(s, h, p) \cup {w} /\ w \notin For(s, h, p)
    BY <1>2 DEF For
  <2>2. Cardinality(For(s, h, p) \cup {w}) = Cardinality(For(s, h, p)) + 1
    BY <1>1, <2>1, FS_AddElement
  <2> QED
    BY <1>2, <2>1, <2>2
<1>3. CASE ~(h = w.height /\ p = w.payee)
  <2>1. For(s \cup {w}, h, p) = For(s, h, p)
    BY <1>3 DEF For
  <2> QED
    BY <1>1, <1>3, <2>1
<1> QED
  BY <1>2, <1>3

(* One vote less. *)
LEMMA ForRemoved ==
    ASSUME Pay!PaymentsAssumption, NEW s \in SUBSET Pay!Winner, NEW w \in s, NEW h, NEW p
    PROVE  Cardinality(For(s, h, p)) =
             Cardinality(For(s \ {w}, h, p)) + (IF h = w.height /\ p = w.payee THEN 1 ELSE 0)
<1>1. s \ {w} \in SUBSET Pay!Winner /\ w \notin s \ {w} /\ w \in Pay!Winner /\ (s \ {w}) \cup {w} = s
  OBVIOUS
<1> QED
  BY <1>1, ForAdded

(* An entry of mapMasternodeBlocks that is made counts nothing. *)
LEMMA WithBlockCounts ==
    ASSUME NEW blocks, BlocksOK(blocks), NEW g \in Pay!PayHeights
    PROVE  /\ BlocksOK(Pay!WithBlock(blocks, g))
           /\ g \in DOMAIN Pay!WithBlock(blocks, g)
           /\ \A h, p : p \in Payees => Count(Pay!WithBlock(blocks, g), h, p) = Count(blocks, h, p)
<1>1. Pay!Unvoted \in [Payees -> Nat] /\ \A p \in Payees : Pay!Unvoted[p] = 0
  BY DEF Pay!Unvoted
<1> HIDE DEF Pay!Unvoted
<1> QED
  BY <1>1 DEF Pay!WithBlock, BlocksOK, Count

(* A count is a number. *)
LEMMA CountType ==
    ASSUME NEW blocks, BlocksOK(blocks), NEW h, NEW p \in Payees
    PROVE  Count(blocks, h, p) \in Nat
  BY DEF BlocksOK, Count


-----------------------------------------------------------------------------
(* What the operations do to the books *)

(* AddWinningMasternode of a vote that is not recorded yet. *)
LEMMA BooksAdded ==
    ASSUME Pay!PaymentsAssumption, NEW vs, NEW un, NEW blocks, NEW from, Books(vs, un, blocks, from),
           NEW w \in Pay!Winner, w \notin vs, w.height >= from
    PROVE  Books(vs \cup {w}, un \cup {w}, Pay!WithBlock(blocks, w.height), from)
<1> DEFINE new == Pay!WithBlock(blocks, w.height)
<1>1. /\ vs \in SUBSET Pay!Winner /\ un \in SUBSET Pay!Winner /\ BlocksOK(blocks) /\ Bounded(un, blocks)
      /\ Balanced(vs, un, blocks, from)
  BY DEF Books
<1>2. w.height \in Pay!PayHeights /\ w.payee \in Payees
  BY DEF Pay!Winner
<1>3. w \notin un
  BY <1>1, <1>2 DEF Balanced, For
<1>4. BlocksOK(new) /\ \A h, p : p \in Payees => Count(new, h, p) = Count(blocks, h, p)
  BY <1>1, <1>2, WithBlockCounts
<1> HIDE DEF new
<1> SUFFICES ASSUME NEW h \in Pay!PayHeights, NEW p \in Payees
             PROVE  /\ Count(new, h, p) + Cardinality(For(un \cup {w}, h, p)) <= Cardinality(Voters)
                    /\ h >= from =>
                         /\ For(un \cup {w}, h, p) \subseteq vs \cup {w}
                         /\ Count(new, h, p) + Cardinality(For(un \cup {w}, h, p)) = Cardinality(For(vs \cup {w}, h, p))
  <2>1. Bounded(un \cup {w}, new) /\ Balanced(vs \cup {w}, un \cup {w}, new, from)
    BY Zenon DEF Bounded, Balanced
  <2> QED
    BY <1>1, <1>4, <2>1 DEF Books, new
<1> DEFINE d == IF h = w.height /\ p = w.payee THEN 1 ELSE 0
           c == Count(new, h, p)
           u == Cardinality(For(un, h, p))
           v == Cardinality(For(vs, h, p))
<1>5. Cardinality(For(un \cup {w}, h, p)) = u + d /\ Cardinality(For(vs \cup {w}, h, p)) = v + d
  BY <1>1, <1>3, ForAdded
<1>6. c \in Nat /\ u \in Nat /\ v \in Nat /\ Cardinality(Voters) \in Nat
  BY <1>1, <1>4, CountType, ForVoters, PayNumbers
<1>7. v + d <= Cardinality(Voters)
  <2>1. vs \cup {w} \in SUBSET Pay!Winner
    BY <1>1
  <2> QED
    BY <1>5, <2>1, ForVoters
<1>8. c + u <= Cardinality(Voters) /\ (h >= from => c + u = v)
  BY <1>1, <1>4 DEF Bounded, Balanced
<1>9. h >= from => For(un \cup {w}, h, p) \subseteq vs \cup {w}
  BY <1>1 DEF Balanced, For
<1>10. d = 1 => h >= from
  OBVIOUS
<1>11. d \in {0, 1}
  OBVIOUS
<1> HIDE DEF d, c, u, v
<1>12. c + (u + d) <= Cardinality(Voters) /\ (h >= from => c + (u + d) = v + d)
  BY <1>6, <1>7, <1>8, <1>10, <1>11
<1> QED
  BY <1>5, <1>9, <1>12 DEF c

(* AddPayee of a vote that is not counted yet: the entry may be gone. *)
LEMMA BooksCounted ==
    ASSUME Pay!PaymentsAssumption, NEW vs, NEW un, NEW blocks, NEW from, Books(vs, un, blocks, from), NEW w \in un
    PROVE  Books(vs, un \ {w}, [Pay!WithBlock(blocks, w.height) EXCEPT ![w.height][w.payee] = @ + 1], from)
<1> DEFINE mid == Pay!WithBlock(blocks, w.height)
           new == [mid EXCEPT ![w.height][w.payee] = @ + 1]
<1>1. /\ vs \in SUBSET Pay!Winner /\ un \in SUBSET Pay!Winner /\ BlocksOK(blocks) /\ Bounded(un, blocks)
      /\ Balanced(vs, un, blocks, from)
  BY DEF Books
<1>2. w \in Pay!Winner /\ w.height \in Pay!PayHeights /\ w.payee \in Payees
  BY <1>1 DEF Pay!Winner
<1>3. /\ BlocksOK(mid) /\ w.height \in DOMAIN mid
      /\ \A h, p : p \in Payees => Count(mid, h, p) = Count(blocks, h, p)
  BY <1>1, <1>2, WithBlockCounts
<1> HIDE DEF mid
<1>4. BlocksOK(new)
  BY <1>2, <1>3 DEF BlocksOK
<1>5. \A h : \A p \in Payees : Count(new, h, p) = Count(mid, h, p) + (IF h = w.height /\ p = w.payee THEN 1 ELSE 0)
  BY <1>2, <1>3 DEF BlocksOK, Count
<1> HIDE DEF new
<1> SUFFICES ASSUME NEW h \in Pay!PayHeights, NEW p \in Payees
             PROVE  /\ Count(new, h, p) + Cardinality(For(un \ {w}, h, p)) <= Cardinality(Voters)
                    /\ h >= from =>
                         /\ For(un \ {w}, h, p) \subseteq vs
                         /\ Count(new, h, p) + Cardinality(For(un \ {w}, h, p)) = Cardinality(For(vs, h, p))
  <2>1. Bounded(un \ {w}, new) /\ Balanced(vs, un \ {w}, new, from)
    BY Zenon DEF Bounded, Balanced
  <2> QED
    BY <1>1, <1>4, <2>1 DEF Books, new, mid
<1> DEFINE d == IF h = w.height /\ p = w.payee THEN 1 ELSE 0
           c == Count(blocks, h, p)
           u == Cardinality(For(un \ {w}, h, p))
<1>6. Cardinality(For(un, h, p)) = u + d
  BY <1>1, ForRemoved
<1>7. Count(new, h, p) = c + d
  BY <1>3, <1>5
<1>8. c \in Nat /\ u \in Nat
  <2>1. un \ {w} \in SUBSET Pay!Winner
    BY <1>1
  <2> QED
    BY <1>1, <2>1, CountType, ForVoters
<1>9. c + (u + d) <= Cardinality(Voters) /\ (h >= from => c + (u + d) = Cardinality(For(vs, h, p)))
  BY <1>1, <1>6 DEF Bounded, Balanced
<1>10. h >= from => For(un \ {w}, h, p) \subseteq vs
  BY <1>1 DEF Balanced, For
<1>11. d \in {0, 1}
  OBVIOUS
<1> HIDE DEF d, c, u
<1>12. (c + d) + u = c + (u + d)
  BY <1>8, <1>11
<1> QED
  BY <1>7, <1>9, <1>10, <1>12 DEF u

(* CleanPaymentList takes votes and entries below the height. *)
LEMMA BooksCleaned ==
    ASSUME Pay!PaymentsAssumption, NEW vs, NEW un, NEW blocks, NEW from, Books(vs, un, blocks, from),
           NEW old \in SUBSET vs, \A w \in old : ~(w.height >= from)
    PROVE  Books(vs \ old, un, [h \in DOMAIN blocks \ {w.height : w \in old} |-> blocks[h]], from)
<1> DEFINE new == [h \in DOMAIN blocks \ {w.height : w \in old} |-> blocks[h]]
<1>1. /\ vs \in SUBSET Pay!Winner /\ un \in SUBSET Pay!Winner /\ BlocksOK(blocks) /\ Bounded(un, blocks)
      /\ Balanced(vs, un, blocks, from)
  BY DEF Books
<1>2. BlocksOK(new)
  BY <1>1 DEF BlocksOK
<1>3. \A h : \A p \in Payees : Count(new, h, p) \in {0, Count(blocks, h, p)}
  BY DEF Count
<1>4. \A h : \A p \in Payees : h >= from => Count(new, h, p) = Count(blocks, h, p)
  BY DEF Count
<1> HIDE DEF new
<1> SUFFICES ASSUME NEW h \in Pay!PayHeights, NEW p \in Payees
             PROVE  /\ Count(new, h, p) + Cardinality(For(un, h, p)) <= Cardinality(Voters)
                    /\ h >= from =>
                         /\ For(un, h, p) \subseteq vs \ old
                         /\ Count(new, h, p) + Cardinality(For(un, h, p)) = Cardinality(For(vs \ old, h, p))
  <2>1. Bounded(un, new) /\ Balanced(vs \ old, un, new, from)
    BY Zenon DEF Bounded, Balanced
  <2> QED
    BY <1>1, <1>2, <2>1 DEF Books, new
<1>5. Count(new, h, p) + Cardinality(For(un, h, p)) <= Cardinality(Voters)
  <2> DEFINE c == Count(blocks, h, p)
             u == Cardinality(For(un, h, p))
  <2>1. c \in Nat /\ u \in Nat /\ Cardinality(Voters) \in Nat
    BY <1>1, CountType, ForVoters, PayNumbers
  <2>2. c + u <= Cardinality(Voters)
    BY <1>1 DEF Bounded
  <2> HIDE DEF c, u
  <2>3. 0 + u <= Cardinality(Voters)
    BY <2>1, <2>2
  <2> QED
    BY <1>3, <2>2, <2>3 DEF c, u
<1>6. ASSUME h >= from
      PROVE  /\ For(un, h, p) \subseteq vs \ old
             /\ Count(new, h, p) + Cardinality(For(un, h, p)) = Cardinality(For(vs \ old, h, p))
  <2>1. For(vs \ old, h, p) = For(vs, h, p)
    BY <1>6 DEF For
  <2>2. For(un, h, p) \subseteq vs \ old
    BY <1>1, <1>6 DEF Balanced, For
  <2> QED
    BY <1>1, <1>4, <1>6, <2>1, <2>2 DEF Balanced
<1> QED
  BY <1>5, <1>6

(* As the chain grows fewer heights matter. *)
LEMMA BooksLater ==
    ASSUME Pay!PaymentsAssumption, NEW vs, NEW un, NEW blocks, NEW from \in Int, NEW later \in Int, from <= later,
           Books(vs, un, blocks, from)
    PROVE  Books(vs, un, blocks, later)
<1>1. \A h \in Pay!PayHeights : h >= later => h >= from
  BY PayNumbers
<1> QED
  BY <1>1 DEF Books, Balanced


-----------------------------------------------------------------------------
(* The inductive invariant *)

(* A node starts with no votes and no dump. *)
LEMMA PayInvInit ==
    ASSUME Pay!PaymentsAssumption, Pay!Init
    PROVE  PayInv
<1>1. Books({}, {}, Pay!NoBlocks, Floor)
  <2>1. BlocksOK(Pay!NoBlocks) /\ \A h, p : Count(Pay!NoBlocks, h, p) = 0
    BY DEF Pay!NoBlocks, BlocksOK, Count
  <2>2. \A h, p : For({}, h, p) = {}
    BY DEF For
  <2>3. Cardinality({}) = 0 /\ Cardinality(Voters) \in Nat
    BY FS_EmptySet, PayNumbers
  <2> QED
    BY <2>1, <2>2, <2>3 DEF Books, Bounded, Balanced
<1>2. Tips
  BY PayNumbers DEF Pay!Init, Tips
<1>3. Casts
  BY PayNumbers DEF Pay!Init, Casts
<1> QED
  BY <1>1, <1>2, <1>3 DEF Pay!Init, PayInv

(* Steps that leave the highest tip where it is move no height out of reach. *)
LEMMA FloorStays == highest' = highest => Floor' = Floor
  BY DEF Floor

(* A vote comes in, good or bad. *)
LEMMA ReceiveWinnerHolds ==
    ASSUME Pay!PaymentsAssumption, PayInv, NEW w \in Pay!Winner, NEW sound \in BOOLEAN, Pay!ReceiveWinner(w, sound)
    PROVE  PayInv'
<1>1. /\ UNCHANGED <<tipHeight, highest, lastOwn, payFile, restartsLeft>> /\ w \notin payeeVotes
      /\ w.height >= tipHeight - Window
      /\ votesLeft > 0 /\ votesLeft' = votesLeft - 1
      /\ lastVote' = [lastVote EXCEPT ![w.voter] = w.height]
  BY DEF Pay!ReceiveWinner, Pay!InRange
<1>2. Floor' = Floor
  BY <1>1, FloorStays
<1>3. w.height \in Pay!PayHeights /\ w.voter \in Voters
  BY DEF Pay!Winner
<1>4. w.height >= Floor
  BY <1>1, <1>3, PayNumbers DEF PayInv, Tips, Floor
<1>5. Books(payeeVotes', uncounted', blockPayees', Floor)
  <2>1. CASE sound
    <3>1. /\ payeeVotes' = payeeVotes \cup {w} /\ uncounted' = uncounted \cup {w}
          /\ blockPayees' = Pay!WithBlock(blockPayees, w.height)
      BY <2>1 DEF Pay!ReceiveWinner, Pay!AddWinningMasternode
    <3> QED
      BY <1>1, <1>4, <3>1, BooksAdded DEF PayInv
  <2>2. CASE ~sound
    BY <2>2 DEF Pay!ReceiveWinner, PayInv
  <2> QED
    BY <2>1, <2>2
<1>6. Casts'
  BY <1>1, <1>3, PayNumbers DEF PayInv, Casts
<1> QED
  BY <1>1, <1>2, <1>5, <1>6 DEF PayInv, Tips

(* A vote is counted. *)
LEMMA AddPayeeHolds ==
    ASSUME Pay!PaymentsAssumption, PayInv, NEW w \in uncounted, Pay!AddPayee(w)
    PROVE  PayInv'
<1>1. UNCHANGED <<tipHeight, highest, payeeVotes, lastVote, lastOwn, payFile, votesLeft, restartsLeft>>
  BY DEF Pay!AddPayee
<1>2. Books(payeeVotes', uncounted', blockPayees', Floor)
  BY <1>1, BooksCounted DEF Pay!AddPayee, PayInv
<1> QED
  BY <1>1, <1>2, FloorStays DEF PayInv, Tips, Casts

(* The node votes itself. *)
LEMMA ProcessBlockHolds ==
    ASSUME Pay!PaymentsAssumption, PayInv, NEW p \in Payees, Pay!ProcessBlock(p)
    PROVE  PayInv'
<1> DEFINE w == [voter |-> OwnVoter, height |-> tipHeight + OwnAhead, payee |-> p]
<1>1. /\ UNCHANGED <<tipHeight, highest, lastVote, payFile, restartsLeft>> /\ w \notin payeeVotes
      /\ votesLeft > 0 /\ votesLeft' = votesLeft - 1 /\ lastOwn' = w.height
      /\ Pay!AddWinningMasternode(w)
  BY DEF Pay!ProcessBlock
<1>2. tipHeight + OwnAhead \in Pay!PayHeights /\ tipHeight + OwnAhead >= Floor
  BY PayNumbers DEF PayInv, Tips, Floor, Pay!PayHeights
<1>3. w \in Pay!Winner /\ w.height = tipHeight + OwnAhead
  BY <1>2 DEF Pay!Winner, Pay!PaymentsAssumption
<1> HIDE DEF w
<1>4. Books(payeeVotes', uncounted', blockPayees', Floor)
  BY <1>1, <1>2, <1>3, BooksAdded DEF Pay!AddWinningMasternode, PayInv
<1>5. Casts'
  BY <1>1, <1>2, <1>3, PayNumbers DEF PayInv, Casts
<1> QED
  BY <1>1, <1>4, <1>5, FloorStays DEF PayInv, Tips

(* Votes that are cleaned are out of reach of every reorganisation. *)
LEMMA OldIsBelow ==
    ASSUME Pay!PaymentsAssumption, Tips, NEW w \in Pay!Winner, Pay!Old(w)
    PROVE  ~(w.height >= Floor) /\ ~(w.height >= tipHeight - Window)
<1>1. w.height \in Int
  BY PayNumbers DEF Pay!Winner
<1> QED
  BY <1>1, PayNumbers DEF Tips, Pay!Old, Floor

(* Old votes are cleaned, while others are being added. *)
LEMMA CleanHolds ==
    ASSUME Pay!PaymentsAssumption, PayInv, Pay!CleanPaymentList
    PROVE  PayInv'
<1> DEFINE old == {v \in payeeVotes : Pay!Old(v)}
<1>1. /\ UNCHANGED <<tipHeight, highest, lastVote, lastOwn, uncounted, payFile, votesLeft, restartsLeft>>
      /\ payeeVotes' = payeeVotes \ old
      /\ blockPayees' = [h \in DOMAIN blockPayees \ {w.height : w \in old} |-> blockPayees[h]]
  BY DEF Pay!CleanPaymentList
<1>2. old \in SUBSET payeeVotes /\ \A w \in old : ~(w.height >= Floor)
  BY OldIsBelow DEF PayInv, Books
<1> HIDE DEF old
<1>3. Books(payeeVotes', uncounted', blockPayees', Floor)
  BY <1>1, <1>2, BooksCleaned DEF PayInv
<1> QED
  BY <1>1, <1>3, FloorStays DEF PayInv, Tips, Casts

(* A block is connected: fewer heights are in reach. *)
LEMMA ConnectTipHolds ==
    ASSUME Pay!PaymentsAssumption, PayInv, Pay!ConnectTip
    PROVE  PayInv'
<1>1. /\ UNCHANGED <<payeeVotes, blockPayees, lastVote, lastOwn, uncounted, payFile, votesLeft, restartsLeft>>
      /\ tipHeight < MaxTip /\ tipHeight' = tipHeight + 1
      /\ highest' = IF tipHeight' > highest THEN tipHeight' ELSE highest
  BY DEF Pay!ConnectTip
<1>2. Tips' /\ Floor \in Int /\ Floor' \in Int /\ Floor <= Floor'
  BY <1>1, PayNumbers DEF PayInv, Tips, Floor
<1>3. Books(payeeVotes, uncounted, blockPayees, Floor') /\ Books(payFile.votes, {}, payFile.blocks, Floor')
  BY <1>2, BooksLater DEF PayInv
<1> QED
  BY <1>1, <1>2, <1>3 DEF PayInv, Casts

(* A block is disconnected: the bound on reorganisations keeps the floor. *)
LEMMA DisconnectTipHolds ==
    ASSUME Pay!PaymentsAssumption, PayInv, Pay!DisconnectTip
    PROVE  PayInv'
<1>1. /\ UNCHANGED <<highest, payeeVotes, blockPayees, lastVote, lastOwn, uncounted, payFile, votesLeft, restartsLeft>>
      /\ tipHeight > highest - MaxReorg /\ tipHeight > FirstTip /\ tipHeight' = tipHeight - 1
  BY DEF Pay!DisconnectTip
<1>2. Tips'
  BY <1>1, PayNumbers DEF PayInv, Tips
<1> QED
  BY <1>1, <1>2, FloorStays DEF PayInv, Casts

(* The node stops, with or without a dump, and starts from the last one. *)
LEMMA RestartHolds ==
    ASSUME Pay!PaymentsAssumption, PayInv, NEW clean \in BOOLEAN, Pay!Restart(clean)
    PROVE  PayInv'
<1>1. /\ UNCHANGED <<tipHeight, highest, votesLeft>> /\ restartsLeft > 0 /\ restartsLeft' = restartsLeft - 1
      /\ payeeVotes' = payFile'.votes /\ blockPayees' = payFile'.blocks /\ uncounted' = {}
      /\ lastVote' = [m \in Voters |-> -1] /\ lastOwn' = 0
      /\ clean => uncounted = {}
      /\ payFile' = IF clean THEN [votes |-> payeeVotes, blocks |-> blockPayees] ELSE payFile
  BY DEF Pay!Restart
<1>2. Casts' /\ Tips'
  BY <1>1, PayNumbers DEF PayInv, Casts, Tips
<1>3. payFile' = [votes |-> payFile'.votes, blocks |-> payFile'.blocks] /\ Books(payFile'.votes, {}, payFile'.blocks, Floor)
  BY <1>1 DEF PayInv
<1> QED
  BY <1>1, <1>2, <1>3, FloorStays DEF PayInv

(* Every step keeps the inductive invariant. *)
LEMMA PayInvStep ==
    ASSUME Pay!PaymentsAssumption, PayInv, [Pay!Next]_(Pay!payVars)
    PROVE  PayInv'
<1>1. CASE UNCHANGED Pay!payVars
  BY <1>1, FloorStays DEF Pay!payVars, PayInv, Tips, Casts
<1> QED
  BY <1>1, ReceiveWinnerHolds, AddPayeeHolds, ProcessBlockHolds, CleanHolds, ConnectTipHolds, DisconnectTipHolds,
     RestartHolds DEF Pay!Next

(* The types, with counts that are bounded by the number of masternodes. *)
LEMMA PayInvTypes ==
    ASSUME Pay!PaymentsAssumption, PayInv
    PROVE  Pay!TypeOK
<1>1. \A h \in DOMAIN blockPayees : blockPayees[h] \in [Payees -> 0..Cardinality(Voters)]
  <2> SUFFICES ASSUME NEW h \in DOMAIN blockPayees, NEW p \in Payees
               PROVE  blockPayees[h][p] \in 0..Cardinality(Voters)
    BY DEF PayInv, Books, BlocksOK
  <2>1. h \in Pay!PayHeights /\ blockPayees[h][p] \in Nat /\ Count(blockPayees, h, p) = blockPayees[h][p]
    BY DEF PayInv, Books, BlocksOK, Count
  <2>2. Cardinality(For(uncounted, h, p)) \in Nat /\ Cardinality(Voters) \in Nat
    BY ForVoters, PayNumbers DEF PayInv, Books
  <2>3. Count(blockPayees, h, p) + Cardinality(For(uncounted, h, p)) <= Cardinality(Voters)
    BY <2>1 DEF PayInv, Books, Bounded
  <2> QED
    BY <2>1, <2>2, <2>3
<1> QED
  BY <1>1, PayFinite DEF PayInv, Tips, Casts, Books, BlocksOK, Pay!TypeOK

(* Heights in reach of the tip are above the floor, so their counts are      *)
(* right.                                                                    *)
LEMMA PayInvCounts ==
    ASSUME Pay!PaymentsAssumption, PayInv
    PROVE  Pay!CountsAreVotes
<1> SUFFICES ASSUME NEW h \in Pay!PayHeights, NEW p \in Payees, h >= tipHeight - Window
             PROVE  Count(blockPayees, h, p) =
                      Cardinality(For(payeeVotes, h, p)) - Cardinality(For(uncounted, h, p))
  BY PayFinite DEF Pay!CountsAreVotes, Count, Pay!VotesFor, For
<1>1. h >= Floor
  BY PayNumbers DEF PayInv, Tips, Floor
<1>2. Count(blockPayees, h, p) + Cardinality(For(uncounted, h, p)) = Cardinality(For(payeeVotes, h, p))
  BY <1>1 DEF PayInv, Books, Balanced
<1>3. Count(blockPayees, h, p) \in Nat /\ Cardinality(For(uncounted, h, p)) \in Nat
  BY CountType, ForVoters DEF PayInv, Books
<1> QED
  BY <1>2, <1>3

(* A payee that is enforced has at least as many voters as its count. *)
LEMMA PayInvQuorum ==
    ASSUME Pay!PaymentsAssumption, PayInv
    PROVE  Pay!RefusedByQuorum
<1> SUFFICES ASSUME NEW h \in Pay!PayHeights, NEW p \in Payees, h >= tipHeight - Window, NEW q \in Payees, Pay!Enforced(h, q)
             PROVE  Cardinality({w.voter : w \in Pay!VotesFor(h, q)}) >= Required
  BY PayFinite DEF Pay!RefusedByQuorum, Pay!IsTransactionValid
<1>1. h >= Floor
  BY PayNumbers DEF PayInv, Tips, Floor
<1>2. Count(blockPayees, h, q) + Cardinality(For(uncounted, h, q)) = Cardinality(For(payeeVotes, h, q))
  BY <1>1 DEF PayInv, Books, Balanced
<1>3. /\ Count(blockPayees, h, q) \in Nat /\ Cardinality(For(uncounted, h, q)) \in Nat
      /\ Cardinality({w.voter : w \in For(payeeVotes, h, q)}) = Cardinality(For(payeeVotes, h, q))
  BY CountType, ForVoters DEF PayInv, Books
<1>4. Count(blockPayees, h, q) >= Required
  BY DEF Pay!Enforced, Count
<1>5. Pay!VotesFor(h, q) = For(payeeVotes, h, q)
  BY DEF Pay!VotesFor, For
<1> QED
  BY <1>2, <1>3, <1>4, <1>5, PayNumbers


(* A count only grows, until cleaning takes its height, which is then out of *)
(* reach, or a restart.                                                      *)
LEMMA StepEnforces ==
    ASSUME Pay!PaymentsAssumption, PayInv, [Pay!Next]_(Pay!payVars),
           NEW h \in Pay!PayHeights, NEW p \in Payees, Pay!Enforced(h, p), h >= tipHeight - Window,
           restartsLeft' = restartsLeft
    PROVE  Pay!Enforced(h, p)'
<1>1. h \in DOMAIN blockPayees /\ blockPayees[h][p] >= Required /\ blockPayees[h][p] \in Nat
  BY DEF Pay!Enforced, PayInv, Books, BlocksOK
<1>2. CASE UNCHANGED blockPayees
  BY <1>2 DEF Pay!Enforced
<1>3. ASSUME NEW w \in Pay!Winner, Pay!AddWinningMasternode(w)
      PROVE  Pay!Enforced(h, p)'
  BY <1>1, <1>3 DEF Pay!AddWinningMasternode, Pay!WithBlock, Pay!Enforced
<1>4. ASSUME NEW w \in Pay!Winner, NEW sound \in BOOLEAN, Pay!ReceiveWinner(w, sound)
      PROVE  Pay!Enforced(h, p)'
  BY <1>2, <1>3, <1>4 DEF Pay!ReceiveWinner
<1>5. ASSUME NEW w \in uncounted, Pay!AddPayee(w)
      PROVE  Pay!Enforced(h, p)'
  <2> DEFINE mid == Pay!WithBlock(blockPayees, w.height)
  <2>1. h \in DOMAIN mid /\ mid[h] = blockPayees[h] /\ blockPayees[h] \in [Payees -> Nat]
    BY <1>1 DEF Pay!WithBlock, PayInv, Books, BlocksOK
  <2>2. blockPayees' = [mid EXCEPT ![w.height][w.payee] = @ + 1]
    BY <1>5 DEF Pay!AddPayee
  <2> HIDE DEF mid
  <2>3. h \in DOMAIN blockPayees' /\ blockPayees'[h][p] \in {blockPayees[h][p], blockPayees[h][p] + 1}
    BY <2>1, <2>2
  <2>4. blockPayees'[h][p] >= Required
    BY <1>1, <2>3, PayNumbers
  <2> QED
    BY <2>3, <2>4 DEF Pay!Enforced
<1>6. ASSUME NEW q \in Payees, Pay!ProcessBlock(q)
      PROVE  Pay!Enforced(h, p)'
  <2>1. [voter |-> OwnVoter, height |-> tipHeight + OwnAhead, payee |-> q] \in Pay!Winner
    BY PayNumbers DEF Pay!Winner, Pay!PaymentsAssumption, PayInv, Tips, Pay!PayHeights
  <2> QED
    BY <1>3, <1>6, <2>1 DEF Pay!ProcessBlock
<1>7. CASE Pay!CleanPaymentList
  <2>1. \A w \in payeeVotes : Pay!Old(w) => w.height # h
    BY OldIsBelow DEF PayInv, Books
  <2>2. h \in DOMAIN blockPayees' /\ blockPayees'[h] = blockPayees[h]
    BY <1>1, <1>7, <2>1 DEF Pay!CleanPaymentList
  <2> QED
    BY <1>1, <2>2 DEF Pay!Enforced
<1>8. CASE Pay!ConnectTip \/ Pay!DisconnectTip
  BY <1>2, <1>8 DEF Pay!ConnectTip, Pay!DisconnectTip
<1>9. ASSUME NEW clean \in BOOLEAN, Pay!Restart(clean)
      PROVE  FALSE
  BY <1>9, PayNumbers DEF Pay!Restart, PayInv, Casts
<1>10. CASE UNCHANGED Pay!payVars
  BY <1>2, <1>10 DEF Pay!payVars
<1> QED
  BY <1>4, <1>5, <1>6, <1>7, <1>8, <1>9, <1>10 DEF Pay!Next

-----------------------------------------------------------------------------
(* Payees are enforced by votes, for any masternodes, payees, ages and       *)
(* order of votes, blocks, reorganisations, cleaning, dumps and restarts:    *)
(* counts are the votes recorded, six of them are six masternodes, and a     *)
(* payee that has them keeps them while its height is in reach.              *)
THEOREM PayeesCorrect ==
    ASSUME Pay!PaymentsAssumption
    PROVE  Pay!Spec => PayeesAreVoted
<1>1. Pay!Init => PayInv
  BY PayInvInit
<1>2. PayInv /\ [Pay!Next]_(Pay!payVars) => PayInv'
  BY PayInvStep
<1>3. PayInv => Pay!TypeOK /\ Pay!CountsAreVotes /\ Pay!RefusedByQuorum
  BY PayInvTypes, PayInvCounts, PayInvQuorum
<1>4. PayInv /\ [Pay!Next]_(Pay!payVars)
      => [\A h \in Pay!PayHeights, p \in Payees :
            Pay!Enforced(h, p) /\ h >= tipHeight - Window => Pay!Enforced(h, p)' \/ restartsLeft' # restartsLeft]_(Pay!payVars)
  BY StepEnforces
<1> QED
  BY <1>1, <1>2, <1>3, <1>4, PTL DEF Pay!Spec, PayeesAreVoted, Pay!PayeesAreVoted, Pay!EnforcementStays

-----------------------------------------------------------------------------
(* The list of masternodes *)

(* Why an entry is not enabled: none of the reasons goes away by itself. *)
Settled(e, now) ==
    \/ e.state \in {"NONE", "ENABLED", "VIN_SPENT"}
    \/ e.state = "REMOVE" /\ now - e.ping >= Removal
    \/ e.state = "EXPIRED" /\ now - e.ping >= Expiration
    \/ e.state = "PRE_ENABLED" /\ e.ping - e.sig < MinPing

(* An entry comes from an announcement and a ping that were signed. *)
EntryOK(e, sigs, pings) ==
    \/ e = List!NotListed
    \/ e \in List!Entries /\ e.sig \in sigs /\ e.ping \in pings

SeenOK(seen, sigs, pings) == DOMAIN seen \subseteq sigs /\ \A s \in DOMAIN seen : seen[s] \in pings

(* The newest announcement, when it was seen and is newer than the entry,    *)
(* was passed over.  NotListed has the lowest sigTime, so that this covers   *)
(* the masternode that is not listed: CanComeBack is not inductive because   *)
(* what is seen while a masternode is listed stays seen when its entry goes. *)
SeenListed(e, seen) == \A s \in DOMAIN seen : ~spent /\ s > e.sig /\ (\A r \in announced : r <= s) => s \in ignored

(* What holds of the list in memory and of the one in mncache.dat, which may *)
(* be much older: it was right when it was written, and stays so.            *)
HeldOK(e, seen, mnp) ==
    /\ EntryOK(e, announced, pinged)
    /\ Settled(e, time)
    /\ SeenOK(seen, announced, pinged)
    /\ mnp \subseteq pinged
    /\ SeenListed(e, seen)

(* The inductive invariant: the list, and the file. *)
ListInv ==
    /\ time \in List!Times /\ spent \in BOOLEAN
    /\ announced \subseteq List!Times /\ pinged \subseteq List!Times
    /\ ignored \subseteq announced
    /\ HeldOK(entry, seenMnb, seenMnp)

FileInv ==
    /\ HeldOK(saved.entry, saved.seenMnb, saved.seenMnp)
    /\ readable \in BOOLEAN
    /\ stops \in 0..MaxStops

LEMMA ListNumbers ==
    ASSUME List!ListAssumption
    PROVE  /\ MinPing \in Nat /\ PingGap \in Nat /\ MinBroadcast \in Nat /\ Expiration \in Nat /\ Removal \in Nat
           /\ MaxTime \in Nat /\ MaxStops \in Nat
           /\ MinPing <= Expiration /\ Expiration < Removal
           /\ \A x \in List!Times : x \in Int /\ 0 <= x /\ x <= MaxTime
  BY DEF List!ListAssumption, List!Times

(* Check keeps what identifies an entry, gives it a state with its reason,   *)
(* and does not enable one that has a reason not to be.                      *)
LEMMA CheckedSettles ==
    ASSUME List!ListAssumption, time \in List!Times, NEW e \in List!Entries, NEW lock \in BOOLEAN
    PROVE  /\ List!Checked(e, lock) \in List!Entries
           /\ List!Checked(e, lock).sig = e.sig /\ List!Checked(e, lock).ping = e.ping
           /\ Settled(e, time) => Settled(List!Checked(e, lock), time)
           /\ Settled(e, time) /\ ~List!IsEnabled(e) => ~List!IsEnabled(List!Checked(e, lock))
<1> DEFINE st == List!Checked(e, lock).state
<1>1. e.sig \in Int /\ e.ping \in Int /\ time \in Int /\ e.state \in List!States
  BY ListNumbers DEF List!Entries
<1>2. /\ List!Checked(e, lock) = [e EXCEPT !.state = st]
      /\ st = IF e.state = "VIN_SPENT" THEN e.state
              ELSE IF time - e.ping >= Removal THEN "REMOVE"
              ELSE IF time - e.ping >= Expiration THEN "EXPIRED"
              ELSE IF e.ping - e.sig < MinPing THEN "PRE_ENABLED"
              ELSE IF ~lock THEN e.state
              ELSE IF spent THEN "VIN_SPENT" ELSE "ENABLED"
  BY DEF List!Checked, List!Entries
<1> HIDE DEF st
<1>3. st \in List!States
  BY <1>1, <1>2 DEF List!States
<1>4. /\ List!Checked(e, lock) \in List!Entries
      /\ List!Checked(e, lock).sig = e.sig /\ List!Checked(e, lock).ping = e.ping /\ List!Checked(e, lock).state = st
  BY <1>2, <1>3 DEF List!Entries
<1>5. Settled(e, time) => Settled(List!Checked(e, lock), time)
  BY <1>1, <1>2, <1>4, ListNumbers DEF Settled, List!States
<1>6. Settled(e, time) /\ ~List!IsEnabled(e) => ~List!IsEnabled(List!Checked(e, lock))
  BY <1>1, <1>2, <1>4, ListNumbers DEF Settled, List!IsEnabled, List!States
<1> QED BY <1>4, <1>5, <1>6

(* A ping taken into an enabled entry. *)
LEMMA PingedSettles ==
    ASSUME List!ListAssumption, time \in List!Times, NEW e \in List!Entries, List!IsEnabled(e), NEW p \in List!Times,
           NEW lock \in BOOLEAN
    PROVE  /\ List!Pinged(e, p, lock) \in List!Entries
           /\ List!Pinged(e, p, lock).sig = e.sig /\ List!Pinged(e, p, lock).ping = p
           /\ Settled(List!Pinged(e, p, lock), time)
<1> DEFINE f == [e EXCEPT !.ping = p]
<1>1. f \in List!Entries /\ f.sig = e.sig /\ f.ping = p /\ f.state = "ENABLED"
  BY DEF List!Entries, List!IsEnabled
<1>2. List!Pinged(e, p, lock) = List!Checked(f, lock)
  BY DEF List!Pinged
<1> HIDE DEF f
<1>3. Settled(f, time)
  BY <1>1 DEF Settled
<1> QED BY <1>1, <1>2, <1>3, CheckedSettles

(* UpdateFromNewBroadcast of an enabled entry. *)
LEMMA UpdatedSettles ==
    ASSUME List!ListAssumption, time \in List!Times, NEW e \in List!Entries, List!IsEnabled(e),
           NEW s \in List!Times, NEW p \in List!Times, NEW fresh \in BOOLEAN, NEW lock \in BOOLEAN
    PROVE  /\ List!Updated(s, p, e, fresh, lock) \in List!Entries
           /\ List!Updated(s, p, e, fresh, lock).sig = s /\ List!Updated(s, p, e, fresh, lock).ping \in {e.ping, p}
           /\ Settled(List!Updated(s, p, e, fresh, lock), time)
<1> DEFINE f == [e EXCEPT !.sig = s]
<1>1. f \in List!Entries /\ f.sig = s /\ f.ping = e.ping /\ f.state = "ENABLED" /\ List!IsEnabled(f) /\ Settled(f, time)
  BY DEF List!Entries, List!IsEnabled, Settled
<1>2. List!Updated(s, p, e, fresh, lock) = IF List!PingDue(e, p) /\ fresh THEN List!Pinged(f, p, lock) ELSE List!Checked(f, lock)
  BY DEF List!Updated
<1> HIDE DEF f
<1>3. CASE List!PingDue(e, p) /\ fresh
  BY <1>1, <1>2, <1>3, PingedSettles
<1>4. CASE ~(List!PingDue(e, p) /\ fresh)
  BY <1>1, <1>2, <1>4, CheckedSettles
<1> QED BY <1>3, <1>4

LEMMA ListInvInit == ASSUME List!ListAssumption, List!Init PROVE ListInv /\ FileInv
<1>1. time \in List!Times /\ announced \subseteq List!Times /\ pinged \subseteq List!Times /\ stops \in 0..MaxStops
  BY ListNumbers DEF List!Init, List!Times
<1>2. HeldOK(List!NotListed, [s \in {} |-> 0], {})
  BY DEF HeldOK, EntryOK, Settled, SeenOK, SeenListed, List!NotListed
<1>3. /\ entry = List!NotListed /\ seenMnb = [s \in {} |-> 0] /\ seenMnp = {}
      /\ saved.entry = List!NotListed /\ saved.seenMnb = [s \in {} |-> 0] /\ saved.seenMnp = {}
  BY DEF List!Init, List!Cleared
<1> QED BY <1>1, <1>2, <1>3 DEF List!Init, ListInv, FileInv

(* What the action properties ask of a step that keeps the list. *)
ListStepOK ==
    /\ List!Listed /\ List!Listed' => entry'.sig >= entry.sig
    /\ ~List!IsEnabled(entry) /\ List!IsEnabled(entry') => ~spent /\ entry'.sig \notin DOMAIN seenMnb

(* An entry has a sigTime, the lowest if there is none. *)
LEMMA EntrySig ==
    ASSUME List!ListAssumption, ListInv
    PROVE  /\ entry.sig \in Int /\ entry.ping \in Int /\ entry.sig >= -1
           /\ List!Listed => entry \in List!Entries /\ entry.sig \in announced /\ entry.ping \in pinged
           /\ ~List!Listed => entry.sig = -1 /\ entry = List!NotListed
           /\ List!IsEnabled(entry) => List!Listed
           /\ time \in Int /\ 0 <= time /\ time <= MaxTime
<1>1. CASE entry = List!NotListed
  <2>1. entry.sig = -1 /\ entry.ping = -1 /\ entry.state = "NONE"
    BY <1>1 DEF List!NotListed
  <2> QED BY <1>1, <2>1, ListNumbers DEF ListInv, HeldOK, List!IsEnabled, List!Listed
<1>2. CASE entry # List!NotListed
  <2>1. entry \in List!Entries /\ entry.sig \in announced /\ entry.ping \in pinged
    BY <1>2 DEF ListInv, HeldOK, EntryOK
  <2>2. entry.sig \in List!Times /\ entry.ping \in List!Times
    BY <2>1 DEF ListInv, HeldOK
  <2> QED BY <1>2, <2>1, <2>2, ListNumbers DEF ListInv, HeldOK, List!Listed
<1> QED BY <1>1, <1>2

(* What CheckInputsAndAdd makes of an announcement: an enabled entry stays,  *)
(* a new one is made if all is well, and otherwise the announcement is       *)
(* forgotten, unless the collateral is spent or older than it says.          *)
Added(r, s, p, e, seen, flaw) ==
    \/ List!IsEnabled(e) /\ r.entry = e /\ r.seen = seen
    \/ /\ ~List!IsEnabled(e) /\ r.entry = List!NotListed /\ (spent \/ flaw = "sigTime" \/ s \notin DOMAIN r.seen)
       /\ DOMAIN r.seen \subseteq DOMAIN seen /\ \A x \in DOMAIN r.seen : r.seen[x] = seen[x]
    \/ ~List!IsEnabled(e) /\ ~spent /\ r.entry = [sig |-> s, ping |-> p, state |-> "ENABLED"] /\ r.seen = seen

LEMMA AddResult ==
    ASSUME NEW s, NEW p, NEW e, NEW seen, NEW lock \in BOOLEAN, NEW flaw \in List!Flaws, spent \in BOOLEAN, NEW r,
           r = List!CheckInputsAndAdd(s, p, e, seen, lock, flaw)
    PROVE  Added(r, s, p, e, seen, flaw)
<1>1. /\ s \notin DOMAIN List!Without(seen, s) /\ DOMAIN List!Without(seen, s) \subseteq DOMAIN seen
      /\ \A x \in DOMAIN List!Without(seen, s) : List!Without(seen, s)[x] = seen[x]
  BY DEF List!Without
<1> QED BY <1>1 DEF List!CheckInputsAndAdd, Added

LEMMA ReceiveMnbHolds ==
    ASSUME List!ListAssumption, ListInv, NEW s \in List!Times, NEW p \in List!Times, NEW flaw \in List!Flaws,
           NEW fresh \in BOOLEAN, NEW lock \in BOOLEAN, NEW lockAdd \in BOOLEAN,
           List!ReceiveMnb(s, p, flaw, fresh, lock, lockAdd)
    PROVE  ListInv' /\ ListStepOK
<1> DEFINE seen == List!With(seenMnb, s, p)
           refused == flaw = "checks" \/ List!NotNewer(s)
           due == ~refused /\ List!IsEnabled(entry) /\ time - entry.sig >= MinBroadcast
           e == IF due THEN List!Updated(s, p, entry, fresh, lock) ELSE entry
           added == List!CheckInputsAndAdd(s, p, e, seen, lockAdd, flaw)
           r == IF refused \/ flaw = "owner" THEN [entry |-> e, seen |-> seen] ELSE added
           passed == (List!IsEnabled(entry) /\ ~due /\ ~List!NotNewer(s)) \/ flaw \in {"checks", "owner", "sigTime"}
<1>1. /\ s \in announced /\ p \in pinged /\ s \notin DOMAIN seenMnb
      /\ UNCHANGED <<time, spent, announced, pinged>>
  BY DEF List!ReceiveMnb, List!outVars
<1>2. /\ entry' = r.entry /\ seenMnb' = r.seen
      /\ seenMnp' \subseteq seenMnp \cup {p}
      /\ ignored' = IF passed THEN ignored \cup {s} ELSE ignored
  BY DEF List!ReceiveMnb
<1>3. List!NotNewer(s) => r.entry = entry /\ r.seen = seen
  OBVIOUS
<1>4. /\ DOMAIN seen = DOMAIN seenMnb \cup {s} /\ seen[s] = p
      /\ \A x \in DOMAIN seenMnb : x # s => seen[x] = seenMnb[x]
  BY DEF List!With
<1>5. SeenOK(seen, announced, pinged)
  BY <1>1, <1>4 DEF SeenOK, ListInv, HeldOK
<1>6. /\ entry.sig \in Int /\ entry.sig >= -1 /\ s \in Int /\ 0 <= s /\ \A x \in announced : x \in Int
      /\ ~List!Listed => entry.sig = -1
      /\ List!IsEnabled(entry) => entry \in List!Entries /\ entry.sig \in announced /\ entry.ping \in pinged
  BY EntrySig, ListNumbers DEF ListInv, HeldOK
<1>7. ~List!NotNewer(s) => s > entry.sig
  BY <1>6 DEF List!NotNewer
<1>8. /\ EntryOK(e, announced, pinged) /\ Settled(e, time)
      /\ due => e.sig = s
      /\ ~due => e = entry
  <2>1. CASE due
    <3>1. entry \in List!Entries /\ List!IsEnabled(entry) /\ time \in List!Times /\ entry.ping \in pinged
      BY <1>6, <2>1 DEF ListInv, HeldOK
    <3>2. /\ List!Updated(s, p, entry, fresh, lock) \in List!Entries
          /\ List!Updated(s, p, entry, fresh, lock).sig = s /\ List!Updated(s, p, entry, fresh, lock).ping \in {entry.ping, p}
          /\ Settled(List!Updated(s, p, entry, fresh, lock), time)
      BY <3>1, UpdatedSettles
    <3> QED BY <1>1, <2>1, <3>1, <3>2 DEF EntryOK
  <2>2. CASE ~due
    BY <2>2 DEF ListInv, HeldOK
  <2> QED BY <2>1, <2>2
<1>9. spent \in BOOLEAN
  BY DEF ListInv, HeldOK
<1>10. \/ List!NotNewer(s)
       \/ (List!IsEnabled(e) \/ flaw \in {"checks", "owner"}) /\ r.entry = e /\ r.seen = seen
       \/ /\ ~List!IsEnabled(e) /\ r.entry = List!NotListed /\ (spent \/ flaw = "sigTime" \/ s \notin DOMAIN r.seen)
          /\ DOMAIN r.seen \subseteq DOMAIN seen /\ \A x \in DOMAIN r.seen : r.seen[x] = seen[x]
       \/ ~List!IsEnabled(e) /\ ~spent /\ r.entry = [sig |-> s, ping |-> p, state |-> "ENABLED"] /\ r.seen = seen
  <2> HIDE DEF seen, e, added
  <2>1. added = List!CheckInputsAndAdd(s, p, e, seen, lockAdd, flaw)
    BY DEF added
  <2>2. Added(added, s, p, e, seen, flaw)
    BY <1>9, <2>1, AddResult
  <2>3. CASE refused \/ flaw = "owner"
    BY <2>3
  <2>4. CASE ~(refused \/ flaw = "owner")
    BY <2>2, <2>4 DEF Added
  <2> QED BY <2>3, <2>4
<1>11. /\ due => List!IsEnabled(entry)
       /\ flaw \in {"checks", "owner", "sigTime"} => passed
       /\ List!IsEnabled(entry) /\ ~due /\ ~List!NotNewer(s) => passed
  OBVIOUS
<1> HIDE DEF seen, refused, due, e, added, r, passed
<1>12. seenMnp' \subseteq pinged' /\ ignored' \subseteq announced' /\ ignored \subseteq ignored'
  BY <1>1, <1>2 DEF ListInv, HeldOK
<1>13. CASE List!NotNewer(s)
  <2>1. s <= entry.sig /\ List!Listed /\ entry' = entry /\ seenMnb' = seen
    BY <1>2, <1>3, <1>6, <1>13 DEF List!NotNewer
  <2>2. SeenListed(entry, seenMnb)'
    <3> SUFFICES ASSUME NEW x \in DOMAIN seenMnb', ~spent, x > entry.sig, \A y \in announced : y <= x
                 PROVE  x \in ignored'
      BY <1>1, <2>1 DEF SeenListed
    <3>1. x \in DOMAIN seenMnb
      BY <1>4, <1>6, <2>1
    <3>2. SeenListed(entry, seenMnb)
      BY DEF ListInv, HeldOK
    <3> QED BY <1>12, <3>1, <3>2 DEF SeenListed
  <2>3. ListInv'
    BY <1>1, <1>5, <1>12, <2>1, <2>2 DEF ListInv, HeldOK
  <2> QED BY <1>6, <2>1, <2>3 DEF ListStepOK
<1>14. CASE ~List!NotNewer(s)
  <2>1. s > entry.sig /\ entry' = r.entry /\ seenMnb' = r.seen
    BY <1>2, <1>7, <1>14
  <2>3. ASSUME NEW x \in DOMAIN seenMnb, ~spent, \A y \in announced : y <= x, x # s PROVE x \in ignored'
    <3>1. x \in announced /\ s <= x
      BY <1>1, <2>3 DEF ListInv, HeldOK, SeenOK
    <3>2. x > entry.sig
      BY <1>6, <2>1, <3>1
    <3> QED BY <1>12, <2>3, <3>2 DEF ListInv, HeldOK, SeenListed
  <2>4. CASE (List!IsEnabled(e) \/ flaw \in {"checks", "owner"}) /\ r.entry = e /\ r.seen = seen
    <3>1. SeenListed(entry, seenMnb)'
      <4> SUFFICES ASSUME NEW x \in DOMAIN seenMnb', ~spent, x > entry'.sig, \A y \in announced : y <= x
                   PROVE  x \in ignored'
        BY <1>1 DEF SeenListed
      <4>1. CASE x # s
        BY <1>4, <2>1, <2>3, <2>4, <4>1
      <4>2. CASE x = s
        <5>1. ~due
          BY <1>6, <1>8, <2>1, <2>4, <4>2
        <5>2. passed
          BY <1>8, <1>11, <1>14, <2>4, <5>1
        <5> QED BY <1>2, <4>2, <5>2
      <4> QED BY <4>1, <4>2
    <3>2. ListInv'
      BY <1>1, <1>5, <1>8, <1>12, <2>1, <2>4, <3>1 DEF ListInv, HeldOK
    <3>3. entry'.sig >= entry.sig
      BY <1>6, <1>8, <2>1, <2>4
    <3>4. ~List!IsEnabled(entry) => ~List!IsEnabled(entry')
      BY <1>8, <1>11, <2>1, <2>4
    <3> QED BY <3>2, <3>3, <3>4 DEF ListStepOK
  <2>5. CASE /\ ~List!IsEnabled(e) /\ r.entry = List!NotListed /\ (spent \/ flaw = "sigTime" \/ s \notin DOMAIN r.seen)
             /\ DOMAIN r.seen \subseteq DOMAIN seen /\ \A x \in DOMAIN r.seen : r.seen[x] = seen[x]
    <3>1. SeenListed(entry, seenMnb)'
      <4> SUFFICES ASSUME NEW x \in DOMAIN seenMnb', ~spent, \A y \in announced : y <= x
                   PROVE  x \in ignored'
        BY <1>1 DEF SeenListed
      <4>1. CASE x # s
        BY <1>4, <2>1, <2>3, <2>5, <4>1
      <4>2. CASE x = s
        BY <1>2, <1>11, <2>1, <2>5, <4>2
      <4> QED BY <4>1, <4>2
    <3>2. SeenOK(seenMnb', announced, pinged)
      BY <1>5, <2>1, <2>5 DEF SeenOK
    <3>3. EntryOK(entry', announced, pinged) /\ Settled(entry', time) /\ ~List!IsEnabled(entry') /\ ~List!Listed'
      BY <2>1, <2>5 DEF EntryOK, Settled, List!NotListed, List!IsEnabled, List!Listed
    <3>4. ListInv'
      BY <1>1, <1>12, <3>1, <3>2, <3>3 DEF ListInv, HeldOK
    <3> QED BY <3>3, <3>4 DEF ListStepOK
  <2>6. CASE ~List!IsEnabled(e) /\ ~spent /\ r.entry = [sig |-> s, ping |-> p, state |-> "ENABLED"] /\ r.seen = seen
    <3>1. entry'.sig = s /\ entry'.ping = p /\ entry'.state = "ENABLED" /\ entry' \in List!Entries
      BY <2>1, <2>6 DEF List!Entries, List!States
    <3>2. SeenListed(entry, seenMnb)'
      <4> SUFFICES ASSUME NEW x \in DOMAIN seenMnb', ~spent, x > entry'.sig, \A y \in announced : y <= x
                   PROVE  x \in ignored'
        BY <1>1 DEF SeenListed
      <4> QED BY <1>4, <1>6, <2>1, <2>3, <2>6, <3>1
    <3>3. EntryOK(entry', announced, pinged) /\ Settled(entry', time)
      BY <1>1, <3>1 DEF EntryOK, Settled
    <3>4. ListInv'
      BY <1>1, <1>5, <1>12, <2>1, <2>6, <3>2, <3>3 DEF ListInv, HeldOK
    <3> QED BY <1>1, <1>6, <2>1, <2>6, <3>1, <3>4 DEF ListStepOK
  <2> QED BY <1>10, <1>14, <2>4, <2>5, <2>6
<1> QED BY <1>13, <1>14

(* A step that replaces the entry e0 of a list, in memory or in the file, by *)
(* a checked one, and keeps of what was seen some or nothing: nothing when   *)
(* the entry goes.                                                           *)
LEMMA EntryChecked ==
    ASSUME List!ListAssumption, ListInv, NEW e0, NEW seen0, NEW mnp0, HeldOK(e0, seen0, mnp0),
           NEW e, EntryOK(e, announced, pinged), Settled(e, time),
           e.sig = e0.sig, e0 = List!NotListed => e = e0, ~List!IsEnabled(e0) => ~List!IsEnabled(e),
           UNCHANGED <<time, spent, announced, pinged, ignored>>,
           entry' = e \/ (entry' = List!NotListed /\ DOMAIN seenMnb' = {}),
           DOMAIN seenMnb' \subseteq DOMAIN seen0, \A x \in DOMAIN seenMnb' : seenMnb'[x] \in pinged,
           seenMnp' \subseteq pinged
    PROVE  ListInv' /\ (e0 = entry => ListStepOK)
<1>1. EntryOK(List!NotListed, announced, pinged) /\ Settled(List!NotListed, time) /\ ~List!IsEnabled(List!NotListed)
  BY DEF EntryOK, Settled, List!IsEnabled, List!NotListed
<1>2. EntryOK(entry', announced, pinged) /\ Settled(entry', time)
  BY <1>1
<1>3. SeenListed(entry, seenMnb)'
  BY DEF HeldOK, SeenListed
<1>4. ListInv'
  BY <1>2, <1>3 DEF ListInv, HeldOK, SeenOK
<1>5. e0 = entry /\ List!Listed' => entry'.sig >= entry.sig
  BY EntrySig DEF List!Listed
<1>6. e0 = entry /\ ~List!IsEnabled(entry) => ~List!IsEnabled(entry')
  BY <1>1
<1> QED BY <1>4, <1>5, <1>6 DEF ListStepOK

(* An entry of a list after Check, if there is one. *)
LEMMA CheckedEntry ==
    ASSUME List!ListAssumption, time \in List!Times, NEW e0, EntryOK(e0, announced, pinged), Settled(e0, time),
           e0 # List!NotListed, NEW lock \in BOOLEAN, NEW e, e = List!Checked(e0, lock)
    PROVE  /\ EntryOK(e, announced, pinged) /\ Settled(e, time) /\ e.sig = e0.sig
           /\ ~List!IsEnabled(e0) => ~List!IsEnabled(e)
<1>1. e0 \in List!Entries /\ e0.sig \in announced /\ e0.ping \in pinged
  BY DEF EntryOK
<1>2. e \in List!Entries /\ e.sig = e0.sig /\ e.ping = e0.ping /\ Settled(e, time)
      /\ (~List!IsEnabled(e0) => ~List!IsEnabled(e))
  BY <1>1, CheckedSettles
<1> QED BY <1>1, <1>2 DEF EntryOK

LEMMA ReceiveDsegHolds == ASSUME List!ListAssumption, ListInv, List!ReceiveDseg PROVE ListInv' /\ ListStepOK
<1>1. /\ List!IsEnabled(entry)
      /\ seenMnb' = IF entry.sig \in DOMAIN seenMnb THEN seenMnb ELSE List!With(seenMnb, entry.sig, entry.ping)
      /\ UNCHANGED <<time, spent, announced, pinged, entry, seenMnp, ignored>>
  BY DEF List!ReceiveDseg, List!outVars
<1>2. entry.sig \in announced /\ entry.ping \in pinged /\ entry.sig \in Int
  BY <1>1, EntrySig
<1>3. /\ DOMAIN seenMnb' = DOMAIN seenMnb \cup {entry.sig}
      /\ \A x \in DOMAIN seenMnb' : seenMnb'[x] \in {entry.ping, seenMnb[x]}
      /\ \A x \in DOMAIN seenMnb' : x \notin DOMAIN seenMnb => seenMnb'[x] = entry.ping
      /\ \A x \in DOMAIN seenMnb : seenMnb'[x] = seenMnb[x]
  BY <1>1 DEF List!With
<1>4. SeenOK(seenMnb', announced, pinged)
  BY <1>2, <1>3 DEF SeenOK, ListInv, HeldOK
<1>5. SeenListed(entry, seenMnb)'
  BY <1>1, <1>2, <1>3 DEF SeenListed, ListInv, HeldOK
<1>6. ListInv'
  BY <1>1, <1>4, <1>5 DEF ListInv, HeldOK
<1> QED BY <1>1, <1>2, <1>6 DEF ListStepOK

LEMMA ReceiveMnpHolds ==
    ASSUME List!ListAssumption, ListInv, NEW p \in List!Times, NEW fresh \in BOOLEAN, NEW lock \in BOOLEAN,
           List!ReceiveMnp(p, fresh, lock)
    PROVE  ListInv' /\ ListStepOK
<1>1. /\ p \in pinged /\ seenMnp' = seenMnp \cup {p}
      /\ List!PingTaken(p, fresh) => /\ entry' = List!Pinged(entry, p, lock)
                                     /\ seenMnb' = List!SeenPinged(seenMnb, entry, p)
      /\ ~List!PingTaken(p, fresh) => UNCHANGED <<entry, seenMnb>>
      /\ UNCHANGED <<time, spent, announced, pinged, ignored>>
  BY DEF List!ReceiveMnp, List!outVars
<1>2. seenMnp' \subseteq pinged /\ HeldOK(entry, seenMnb, seenMnp)
  BY <1>1 DEF ListInv, HeldOK
<1>3. CASE List!PingTaken(p, fresh)
  <2>1. List!IsEnabled(entry) /\ entry \in List!Entries /\ entry.sig \in announced /\ time \in List!Times
    BY <1>3, EntrySig DEF List!PingTaken, ListInv, HeldOK
  <2>2. entry' \in List!Entries /\ entry'.sig = entry.sig /\ entry'.ping = p /\ Settled(entry', time)
    BY <1>1, <1>3, <2>1, PingedSettles
  <2>3. EntryOK(entry', announced, pinged) /\ (entry = List!NotListed => entry' = entry)
    BY <1>1, <2>1, <2>2, EntrySig DEF EntryOK, List!Listed
  <2>4. DOMAIN seenMnb' \subseteq DOMAIN seenMnb /\ \A x \in DOMAIN seenMnb' : seenMnb'[x] \in pinged
    BY <1>1, <1>3 DEF List!SeenPinged, List!With, ListInv, HeldOK, SeenOK
  <2> QED BY <1>1, <1>2, <2>1, <2>2, <2>3, <2>4, EntryChecked
<1>4. CASE ~List!PingTaken(p, fresh)
  <2>1. EntryOK(entry, announced, pinged) /\ Settled(entry, time) /\ \A x \in DOMAIN seenMnb : seenMnb[x] \in pinged
    BY DEF ListInv, HeldOK, SeenOK
  <2> QED BY <1>1, <1>2, <1>4, <2>1, EntryChecked
<1> QED BY <1>3, <1>4

LEMMA CheckHolds ==
    ASSUME List!ListAssumption, ListInv, NEW lock \in BOOLEAN, List!Check(lock) PROVE ListInv' /\ ListStepOK
<1>1. /\ entry # List!NotListed /\ entry' = List!Checked(entry, lock)
      /\ UNCHANGED <<time, spent, announced, pinged, seenMnb, seenMnp, ignored>>
  BY DEF List!Check, List!Listed, List!outVars
<1>2. /\ EntryOK(entry, announced, pinged) /\ Settled(entry, time) /\ time \in List!Times
      /\ HeldOK(entry, seenMnb, seenMnp)
  BY DEF ListInv, HeldOK
<1>3. /\ EntryOK(entry', announced, pinged) /\ Settled(entry', time) /\ entry'.sig = entry.sig
      /\ ~List!IsEnabled(entry) => ~List!IsEnabled(entry')
  BY <1>1, <1>2, CheckedEntry
<1>4. seenMnp' \subseteq pinged /\ \A x \in DOMAIN seenMnb' : seenMnb'[x] \in pinged
  BY <1>1, <1>2 DEF HeldOK, SeenOK
<1> QED BY <1>1, <1>2, <1>3, <1>4, EntryChecked

(* CheckAndRemove and the start of the node are alike. *)
LEMMA RemovalHolds ==
    ASSUME List!ListAssumption, ListInv, NEW e0, NEW seen0, NEW mnp0, HeldOK(e0, seen0, mnp0),
           NEW e, NEW lock \in BOOLEAN, NEW gone \in BOOLEAN,
           e = e0 \/ (e0 # List!NotListed /\ e = List!Checked(e0, lock)),
           entry' = IF gone THEN List!NotListed ELSE e,
           seenMnb' = [x \in {y \in DOMAIN seen0 : ~gone /\ seen0[y] >= time - 2 * Removal} |-> seen0[x]],
           seenMnp' \subseteq mnp0,
           UNCHANGED <<time, spent, announced, pinged, ignored>>
    PROVE  ListInv' /\ (e0 = entry => ListStepOK)
<1>1. EntryOK(e0, announced, pinged) /\ Settled(e0, time) /\ time \in List!Times
  BY DEF ListInv, HeldOK
<1>2. /\ EntryOK(e, announced, pinged) /\ Settled(e, time) /\ e.sig = e0.sig
      /\ ~List!IsEnabled(e0) => ~List!IsEnabled(e)
      /\ e0 = List!NotListed => e = e0
  BY <1>1, CheckedEntry
<1>3. /\ DOMAIN seenMnb' \subseteq DOMAIN seen0 /\ \A x \in DOMAIN seenMnb' : seenMnb'[x] \in pinged
      /\ gone => DOMAIN seenMnb' = {}
      /\ seenMnp' \subseteq pinged
  BY DEF HeldOK, SeenOK
<1> QED BY <1>2, <1>3, EntryChecked

LEMMA CheckAndRemoveHolds ==
    ASSUME List!ListAssumption, ListInv, NEW recent \in BOOLEAN, NEW lock \in BOOLEAN, List!CheckAndRemove(recent, lock)
    PROVE  ListInv' /\ ListStepOK
<1> DEFINE e == IF ~List!Listed \/ recent THEN entry ELSE List!Checked(entry, lock)
           gone == e.state \in {"REMOVE", "VIN_SPENT"}
<1>1. /\ entry' = IF gone THEN List!NotListed ELSE e
      /\ seenMnb' = [x \in {y \in DOMAIN seenMnb : ~gone /\ seenMnb[y] >= time - 2 * Removal} |-> seenMnb[x]]
      /\ seenMnp' \subseteq seenMnp
      /\ UNCHANGED <<time, spent, announced, pinged, ignored>>
  BY DEF List!CheckAndRemove, List!outVars
<1>2. gone \in BOOLEAN /\ (e = entry \/ (entry # List!NotListed /\ e = List!Checked(entry, lock)))
  BY DEF List!Listed
<1>3. HeldOK(entry, seenMnb, seenMnp)
  BY DEF ListInv
<1> HIDE DEF e, gone
<1> QED BY <1>1, <1>2, <1>3, RemovalHolds

(* What the node reads when it starts: nothing, what it has just written, or *)
(* what it wrote at an earlier stop.                                         *)
LEMMA ReadIsHeld ==
    ASSUME List!ListAssumption, ListInv, FileInv, NEW file, file \in {List!Cleared, List!Manager, saved}
    PROVE  HeldOK(file.entry, file.seenMnb, file.seenMnp)
<1>1. CASE file = List!Cleared
  <2>1. file.entry = List!NotListed /\ file.seenMnb = [s \in {} |-> 0] /\ file.seenMnp = {}
    BY <1>1 DEF List!Cleared
  <2> QED BY <2>1 DEF HeldOK, EntryOK, Settled, SeenOK, SeenListed, List!NotListed
<1>2. CASE file = List!Manager
  <2>1. file.entry = entry /\ file.seenMnb = seenMnb /\ file.seenMnp = seenMnp
    BY <1>2 DEF List!Manager
  <2> QED BY <2>1 DEF ListInv
<1>3. CASE file = saved
  BY <1>3 DEF FileInv
<1> QED BY <1>1, <1>2, <1>3

LEMMA ListRestartHolds ==
    ASSUME List!ListAssumption, ListInv, FileInv, NEW stop, NEW lock \in BOOLEAN, List!Restart(stop, lock)
    PROVE  ListInv' /\ FileInv' /\ (List!ListKept => ListStepOK)
<1> DEFINE file == IF stop = "torn" THEN List!Cleared ELSE IF stop = "clean" /\ readable THEN List!Manager ELSE saved
           e == IF file.entry = List!NotListed THEN List!NotListed ELSE List!Checked(file.entry, lock)
           gone == e.state \in {"REMOVE", "VIN_SPENT", "EXPIRED"}
           seen == file.seenMnb
<1>1. /\ entry' = IF gone THEN List!NotListed ELSE e
      /\ seenMnb' = [x \in {y \in DOMAIN seen : ~gone /\ seen[y] >= time - 2 * Removal} |-> seen[x]]
      /\ seenMnp' \subseteq file.seenMnp
      /\ saved' = file /\ stops < MaxStops /\ stops' = stops + 1 /\ readable' \in BOOLEAN
      /\ UNCHANGED <<time, spent, announced, pinged, ignored>>
  BY DEF List!Restart, List!outVars
<1>2. /\ gone \in BOOLEAN
      /\ e = file.entry \/ (file.entry # List!NotListed /\ e = List!Checked(file.entry, lock))
      /\ file \in {List!Cleared, List!Manager, saved}
  OBVIOUS
<1> HIDE DEF file, e, gone
<1>3. HeldOK(file.entry, file.seenMnb, file.seenMnp)
  BY <1>2, ReadIsHeld
<1>4. ListInv' /\ (file.entry = entry => ListStepOK)
  BY <1>1, <1>2, <1>3, RemovalHolds
<1>5. FileInv'
  <2>1. HeldOK(saved.entry, saved.seenMnb, saved.seenMnp)'
    BY <1>1, <1>3 DEF HeldOK, SeenListed
  <2>2. stops' \in 0..MaxStops
    BY <1>1, ListNumbers DEF FileInv
  <2> QED BY <1>1, <2>1, <2>2 DEF FileInv
<1>6. List!ListKept => file.entry = entry
  <2>1. stops' # stops
    BY <1>1, ListNumbers DEF FileInv
  <2>2. file = List!Manager => file.entry = entry
    BY DEF List!Manager
  <2> QED BY <1>1, <2>1, <2>2 DEF List!ListKept
<1> QED BY <1>4, <1>5, <1>6

(* What the masternode signs, the collateral and the time. *)
Outside ==
    /\ announced' \in {announced, announced \cup {time}} /\ pinged' \in {pinged, pinged \cup {time}}
    /\ time' \in List!Times /\ time' \in {time, time + 1} /\ spent' \in BOOLEAN /\ (spent => spent')
    /\ ignored \subseteq ignored'

(* Nothing of it makes an announcement the newest that was seen, or a reason *)
(* go away: what was held stays right.                                       *)
LEMMA HeldStays ==
    ASSUME List!ListAssumption, ListInv, Outside, NEW e, NEW seen, NEW mnp, HeldOK(e, seen, mnp)
    PROVE  /\ EntryOK(e, announced', pinged') /\ Settled(e, time') /\ SeenOK(seen, announced', pinged')
           /\ mnp \subseteq pinged'
           /\ \A s \in DOMAIN seen : ~spent' /\ s > e.sig /\ (\A r \in announced' : r <= s) => s \in ignored'
<1>1. announced \subseteq announced' /\ pinged \subseteq pinged'
  BY DEF Outside
<1>2. EntryOK(e, announced', pinged') /\ SeenOK(seen, announced', pinged') /\ mnp \subseteq pinged'
  BY <1>1 DEF HeldOK, EntryOK, SeenOK
<1>3. Settled(e, time')
  <2>1. CASE e = List!NotListed
    BY <2>1 DEF Settled, List!NotListed
  <2>2. CASE e # List!NotListed
    <3>1. e.ping \in Int /\ time \in Int /\ Settled(e, time)
      BY <2>2, ListNumbers DEF HeldOK, EntryOK, ListInv
    <3> QED BY <3>1, ListNumbers DEF Settled, Outside
  <2> QED BY <2>1, <2>2
<1>4. \A s \in DOMAIN seen : ~spent' /\ s > e.sig /\ (\A r \in announced' : r <= s) => s \in ignored'
  BY <1>1 DEF HeldOK, SeenListed, Outside
<1> QED BY <1>2, <1>3, <1>4

LEMMA OutsideHolds ==
    ASSUME List!ListAssumption, ListInv, List!Announce \/ List!SendPing \/ List!SpendCollateral \/ List!Tick
    PROVE  ListInv' /\ Outside /\ ListStepOK
<1>1. UNCHANGED <<entry, seenMnb, seenMnp, ignored>> /\ Outside
  <2>1. time \in List!Times /\ spent \in BOOLEAN
    BY DEF ListInv
  <2>2. CASE List!Announce
    BY <2>1, <2>2 DEF List!Announce, List!manVars, Outside
  <2>3. CASE List!SendPing
    BY <2>1, <2>3 DEF List!SendPing, List!manVars, Outside
  <2>4. CASE List!SpendCollateral
    BY <2>1, <2>4 DEF List!SpendCollateral, List!manVars, Outside
  <2>5. CASE List!Tick
    <3>1. time + 1 \in List!Times
      BY <2>5, EntrySig, ListNumbers DEF List!Tick, List!Times
    <3> QED BY <2>1, <2>5, <3>1 DEF List!Tick, List!manVars, Outside
  <2> QED BY <2>2, <2>3, <2>4, <2>5
<1>2. HeldOK(entry, seenMnb, seenMnp)
  BY DEF ListInv
<1>3. HeldOK(entry, seenMnb, seenMnp)'
  BY <1>1, <1>2, HeldStays DEF HeldOK, SeenListed
<1>4. announced' \subseteq List!Times /\ pinged' \subseteq List!Times /\ ignored' \subseteq announced'
  BY <1>1 DEF ListInv, Outside
<1>5. ListInv'
  BY <1>1, <1>3, <1>4 DEF ListInv, Outside
<1> QED BY <1>1, <1>5, EntrySig DEF ListStepOK

(* Only a restart reads or writes mncache.dat. *)
LEMMA FileHolds ==
    ASSUME List!ListAssumption, ListInv, FileInv, Outside, UNCHANGED List!fileVars PROVE FileInv'
<1>1. HeldOK(saved.entry, saved.seenMnb, saved.seenMnp) /\ UNCHANGED <<saved, readable, stops>>
  BY DEF FileInv, List!fileVars
<1>2. HeldOK(saved.entry, saved.seenMnb, saved.seenMnp)'
  BY <1>1, HeldStays DEF HeldOK, SeenListed
<1> QED BY <1>1, <1>2 DEF FileInv

LEMMA ListInvStep ==
    ASSUME List!ListAssumption, ListInv, FileInv, [List!Next]_(List!listVars)
    PROVE  ListInv' /\ FileInv' /\ [List!ListKept => ListStepOK]_(List!listVars)
<1> DEFINE Own == \/ \E s, p \in List!Times, flaw \in List!Flaws, fresh, lock, lockAdd \in BOOLEAN :
                        List!ReceiveMnb(s, p, flaw, fresh, lock, lockAdd)
                  \/ List!ReceiveDseg
                  \/ \E p \in List!Times, fresh, lock \in BOOLEAN : List!ReceiveMnp(p, fresh, lock)
                  \/ \E lock \in BOOLEAN : List!Check(lock)
                  \/ \E recent, lock \in BOOLEAN : List!CheckAndRemove(recent, lock)
           Signed == List!Announce \/ List!SendPing \/ List!SpendCollateral \/ List!Tick
<1>1. CASE Own
  <2>1. ListInv' /\ ListStepOK
    BY <1>1, ReceiveMnbHolds, ReceiveDsegHolds, ReceiveMnpHolds, CheckHolds, CheckAndRemoveHolds
  <2>2. UNCHANGED List!outVars /\ UNCHANGED List!fileVars /\ ignored \subseteq ignored'
    <3>1. ASSUME NEW s \in List!Times, NEW p \in List!Times, NEW flaw \in List!Flaws, NEW fresh \in BOOLEAN,
                 NEW lock \in BOOLEAN, NEW lockAdd \in BOOLEAN, List!ReceiveMnb(s, p, flaw, fresh, lock, lockAdd)
          PROVE  UNCHANGED List!outVars /\ UNCHANGED List!fileVars /\ ignored \subseteq ignored'
      BY <3>1 DEF List!ReceiveMnb
    <3>2. CASE List!ReceiveDseg
      BY <3>2 DEF List!ReceiveDseg
    <3>3. CASE \E p \in List!Times, fresh, lock \in BOOLEAN : List!ReceiveMnp(p, fresh, lock)
      BY <3>3 DEF List!ReceiveMnp
    <3>4. CASE \E lock \in BOOLEAN : List!Check(lock)
      BY <3>4 DEF List!Check
    <3>5. CASE \E recent, lock \in BOOLEAN : List!CheckAndRemove(recent, lock)
      BY <3>5 DEF List!CheckAndRemove
    <3> QED BY <1>1, <3>1, <3>2, <3>3, <3>4, <3>5
  <2>3. Outside
    BY <2>2 DEF Outside, List!outVars, ListInv
  <2> QED BY <2>1, <2>2, <2>3, FileHolds
<1>2. CASE \E stop \in {"clean", "crash", "torn"}, lock \in BOOLEAN : List!Restart(stop, lock)
  BY <1>2, ListRestartHolds
<1>3. CASE Signed
  <2>1. UNCHANGED List!fileVars
    BY <1>3 DEF List!Announce, List!SendPing, List!SpendCollateral, List!Tick
  <2> QED BY <1>3, <2>1, OutsideHolds, FileHolds
<1>4. CASE UNCHANGED List!listVars
  BY <1>4 DEF List!listVars, ListInv, FileInv, HeldOK, SeenListed
<1> QED BY <1>1, <1>2, <1>3, <1>4 DEF List!Next

LEMMA ListInvTypes == ASSUME List!ListAssumption, ListInv, FileInv PROVE List!TypeOK /\ List!CanComeBack
<1>1. List!ManagerOK(List!Manager)
  <2>1. List!Manager.entry = entry /\ List!Manager.seenMnb = seenMnb /\ List!Manager.seenMnp = seenMnp
    BY DEF List!Manager
  <2> QED BY <2>1 DEF List!ManagerOK, ListInv, HeldOK, EntryOK, SeenOK
<1>2. List!ManagerOK(saved)
  BY DEF List!ManagerOK, FileInv, HeldOK, EntryOK, SeenOK
<1>3. List!TypeOK
  BY <1>1, <1>2 DEF ListInv, FileInv, List!TypeOK
<1>4. List!CanComeBack
  <2> SUFFICES ASSUME NEW s \in DOMAIN seenMnb, ~List!Listed, ~spent, \A x \in announced : x <= s PROVE s \in ignored
    BY DEF List!CanComeBack
  <2>1. s > entry.sig
    BY EntrySig, ListNumbers DEF ListInv, HeldOK, SeenOK
  <2> QED BY <2>1 DEF ListInv, HeldOK, SeenListed
<1> QED BY <1>3, <1>4

(* The list follows what masternodes announce, for any ages, and any order,  *)
(* loss, delay and repetition of announcements and pings, flawed             *)
(* announcements, failed locks, clean stops, crashes and torn files, and     *)
(* spent collateral: an announcement is replaced only by a newer one, what   *)
(* is not enabled is enabled only by an announcement that was not seen, of   *)
(* unspent collateral (both unless an older dump is read), and whatever has  *)
(* dropped out can come back.                                                *)
THEOREM ListCorrect ==
    ASSUME List!ListAssumption
    PROVE  List!Spec => ListFollowsNews
<1>1. List!Init => ListInv /\ FileInv
  BY ListInvInit
<1>2. ListInv /\ FileInv /\ [List!Next]_(List!listVars)
      => ListInv' /\ FileInv' /\ [List!ListKept => ListStepOK]_(List!listVars)
  BY ListInvStep
<1>3. ListInv /\ FileInv => List!TypeOK /\ List!CanComeBack
  BY ListInvTypes
<1>4. [List!ListKept => ListStepOK]_(List!listVars) =>
        /\ [List!ListKept /\ List!Listed /\ List!Listed' => entry'.sig >= entry.sig]_(List!listVars)
        /\ [List!ListKept /\ ~List!IsEnabled(entry) /\ List!IsEnabled(entry')
               => ~spent /\ entry'.sig \notin DOMAIN seenMnb]_(List!listVars)
  BY DEF ListStepOK
<1> QED
  BY <1>1, <1>2, <1>3, <1>4, PTL DEF List!Spec, ListFollowsNews, List!AnnouncementsGrow, List!RevivedByAnnouncement

-----------------------------------------------------------------------------
(* Budget payments *)

EndsAgree == \A b, c \in Super!ToSet(Finalized) : Super!GetBlockEnd(b) = Super!GetBlockEnd(c)

(* Histories, and those of which no budget drops an entry. *)
Histories == UNION {[ps -> 1 .. MaxHeight] : ps \in SUBSET Super!Proposals}

Covered(hist) == \A b \in Super!ToSet(Finalized), p \in DOMAIN hist : Super!Covers(b, hist[p])

(* A history after hist in which pay may have been paid: nothing is lost,    *)
(* and what is found valid was not in it before and is now.                  *)
Kept(hist, new, pay, valid) ==
    EndsAgree /\ Covered(hist) =>
        /\ Covered(new)
        /\ DOMAIN hist \subseteq DOMAIN new
        /\ valid => pay \notin DOMAIN hist /\ pay \in DOMAIN new
        /\ ~valid => DOMAIN new = DOMAIN hist

(* Where the loop over the budgets can be. *)
Answers(hist, pay) ==
    {r \in [status : {"Invalid", "DoublePayment", "Valid"}, history : Histories, voted : BOOLEAN] :
        /\ Kept(hist, r.history, pay, r.status = "Valid")
        /\ r.status = "Valid" => pay \in Super!Proposals}

PayBlock == [pay : Super!Pays, by : Super!Vouchers]

(* The inductive invariant: while the history is kept, it has what the       *)
(* budgets granted in the chain, and they granted nothing twice; where a     *)
(* payee was enforced, the block pays it.                                    *)
SuperInv ==
    /\ tally \in Tallies /\ history \in Histories
    /\ payChain \in Seq(PayBlock) /\ Len(payChain) <= MaxHeight
    /\ \A i \in DOMAIN payChain : payChain[i].by = "payee" => payChain[i].pay = "masternode"
    /\ judged \subseteq [height : 1 .. MaxHeight, pay : Super!Pays, tally : Tallies]
    /\ forgotten \in BOOLEAN
    /\ ~forgotten /\ EndsAgree =>
         /\ Covered(history)
         /\ \A i \in DOMAIN payChain : payChain[i].by = "budget" => payChain[i].pay \in DOMAIN history
         /\ \A i, j \in DOMAIN payChain :
              payChain[i].pay = payChain[j].pay /\ payChain[i].by = "budget" /\ payChain[j].by = "budget" => i = j

LEMMA BudgetsAre ==
    ASSUME Super!SuperblocksAssumption
    PROVE  /\ Finalized \in Seq(Super!ToSet(Finalized)) /\ MaxHeight \in Nat
           /\ "masternode" \notin Super!Proposals
           /\ \A b \in Super!ToSet(Finalized) :
                /\ Super!GetBlockEnd(b) \in Nat /\ DOMAIN PaymentsOf[b] = 1 .. Super!GetBlockEnd(b)
                /\ \A h \in 1 .. Super!GetBlockEnd(b) : PaymentsOf[b][h] \in Super!Proposals
  BY DEF Super!SuperblocksAssumption, Super!GetBlockEnd

(* Histories by their parts. *)
LEMMA HistoriesAre ==
    ASSUME NEW ps \in SUBSET Super!Proposals, NEW f \in [ps -> 1 .. MaxHeight]
    PROVE  f \in Histories
  BY DEF Histories

LEMMA HistoryParts ==
    ASSUME NEW f \in Histories
    PROVE  DOMAIN f \in SUBSET Super!Proposals /\ f \in [DOMAIN f -> 1 .. MaxHeight]
  BY DEF Histories

(* The verdict of one budget. *)
LEMMA VerdictKeeps ==
    ASSUME Super!SuperblocksAssumption, NEW b \in Super!ToSet(Finalized), NEW h \in 1 .. MaxHeight, Super!Covers(b, h),
           NEW pay, NEW hist \in Histories, NEW v, v = Super!BudgetVerdict(b, h, pay, hist)
    PROVE  /\ v.status \in {"Invalid", "DoublePayment", "Valid"} /\ v.history \in Histories
           /\ Kept(hist, v.history, pay, v.status = "Valid")
           /\ v.status = "Valid" => pay \in Super!Proposals
<1> DEFINE kept == [p \in Super!InRangeOf(b, hist) |-> hist[p]]
           more == [p \in DOMAIN kept \cup {pay} |-> IF p = pay THEN h ELSE kept[p]]
<1>1. h \in 1 .. Super!GetBlockEnd(b) /\ h \in DOMAIN PaymentsOf[b] /\ PaymentsOf[b][h] \in Super!Proposals
  BY BudgetsAre DEF Super!Covers
<1>2. DOMAIN hist \in SUBSET Super!Proposals /\ hist \in [DOMAIN hist -> 1 .. MaxHeight]
  BY HistoryParts
<1>3. /\ Super!InRangeOf(b, hist) \subseteq DOMAIN hist
      /\ Covered(hist) => Super!InRangeOf(b, hist) = DOMAIN hist
  BY DEF Super!InRangeOf, Covered
<1>4. kept \in Histories /\ DOMAIN kept = Super!InRangeOf(b, hist) /\ \A p \in DOMAIN kept : kept[p] = hist[p]
  <2>1. kept \in [Super!InRangeOf(b, hist) -> 1 .. MaxHeight]
    BY <1>2, <1>3
  <2> QED BY <1>2, <1>3, <2>1, HistoriesAre
<1>5. v = CASE pay # PaymentsOf[b][h] -> [status |-> "Invalid", history |-> hist]
            [] pay = PaymentsOf[b][h] /\ pay \in DOMAIN kept -> [status |-> "DoublePayment", history |-> kept]
            [] OTHER -> [status |-> "Valid", history |-> more]
  BY DEF Super!BudgetVerdict
<1> HIDE DEF kept
<1>6. CASE pay # PaymentsOf[b][h]
  BY <1>5, <1>6 DEF Kept
<1>7. CASE pay = PaymentsOf[b][h] /\ pay \in DOMAIN kept
  <2>1. v.status = "DoublePayment" /\ v.history = kept
    BY <1>5, <1>7
  <2>2. Covered(hist) => Covered(kept) /\ DOMAIN kept = DOMAIN hist
    BY <1>3, <1>4 DEF Covered
  <2> QED BY <1>4, <2>1, <2>2 DEF Kept
<1>8. CASE pay = PaymentsOf[b][h] /\ pay \notin DOMAIN kept
  <2>1. v.status = "Valid" /\ v.history = more
    BY <1>5, <1>8
  <2>2. more \in [DOMAIN kept \cup {pay} -> 1 .. MaxHeight] /\ DOMAIN kept \cup {pay} \in SUBSET Super!Proposals
    BY <1>1, <1>2, <1>3, <1>4, <1>8
  <2>3. more \in Histories
    BY <2>2, HistoriesAre
  <2>4. EndsAgree => \A c \in Super!ToSet(Finalized) : Super!Covers(c, h)
    BY DEF EndsAgree, Super!Covers
  <2>5. EndsAgree /\ Covered(hist) => Covered(more) /\ DOMAIN hist \subseteq DOMAIN more
    BY <1>3, <1>4, <2>4 DEF Covered
  <2>6. Covered(hist) => pay \notin DOMAIN hist
    BY <1>3, <1>4, <1>8
  <2> QED BY <1>1, <1>8, <2>1, <2>3, <2>5, <2>6 DEF Kept
<1> QED BY <1>6, <1>7, <1>8

(* A step of the loop stays among the answers. *)
LEMMA AskStays ==
    ASSUME Super!SuperblocksAssumption, NEW b \in Super!ToSet(Finalized), NEW h \in 1 .. MaxHeight, NEW pay,
           NEW hist, NEW threshold, NEW r \in Answers(hist, pay)
    PROVE  Super!Ask(r, b, h, pay, threshold) \in Answers(hist, pay)
<1> DEFINE v == Super!BudgetVerdict(b, h, pay, r.history)
           n == [status |-> v.status, history |-> v.history, voted |-> TRUE]
<1>1. /\ r \in [status : {"Invalid", "DoublePayment", "Valid"}, history : Histories, voted : BOOLEAN]
      /\ Kept(hist, r.history, pay, r.status = "Valid")
      /\ r.status = "Valid" => pay \in Super!Proposals
  BY DEF Answers
<1>2. [r EXCEPT !.voted = TRUE] \in Answers(hist, pay)
  BY <1>1 DEF Answers
<1>3. ASSUME Super!Covers(b, h), r.status # "Valid" PROVE n \in Answers(hist, pay)
  <2>1. r.history \in Histories
    BY <1>1
  <2>2. /\ v.status \in {"Invalid", "DoublePayment", "Valid"} /\ v.history \in Histories
        /\ Kept(r.history, v.history, pay, v.status = "Valid")
        /\ v.status = "Valid" => pay \in Super!Proposals
    <3> HIDE DEF v
    <3>1. v = Super!BudgetVerdict(b, h, pay, r.history)
      BY DEF v
    <3> QED BY <1>3, <2>1, <3>1, VerdictKeeps
  <2> HIDE DEF v
  <2>3. Kept(hist, v.history, pay, v.status = "Valid")
    BY <1>1, <1>3, <2>2 DEF Kept
  <2> QED BY <2>2, <2>3 DEF Answers
<1>4. Super!Ask(r, b, h, pay, threshold) \in {r, [r EXCEPT !.voted = TRUE]}
      \/ (Super!Covers(b, h) /\ r.status # "Valid" /\ Super!Ask(r, b, h, pay, threshold) = n)
  BY DEF Super!Ask
<1> QED BY <1>2, <1>3, <1>4

LEMMA SuperMax == \A S : Super!Max(S) = Max(S)
  BY DEF Super!Max, Max

(* The loop over the budgets. *)
Unasked(hist) == [status |-> "Invalid", history |-> hist, voted |-> FALSE]

AskAll(h, pay, hist, threshold) ==
    Super!FoldLeft(LAMBDA r, b : Super!Ask(r, b, h, pay, threshold), Unasked(hist), Finalized)

LEMMA AskAllStays ==
    ASSUME Super!SuperblocksAssumption, NEW h \in 1 .. MaxHeight, NEW pay, NEW hist \in Histories, NEW threshold
    PROVE  AskAll(h, pay, hist, threshold) \in Answers(hist, pay)
<1> DEFINE n == Len(Finalized)
           V == Answers(hist, pay)
           Op(r, b) == Super!Ask(r, b, h, pay, threshold)
           Eq(f) == f = [s \in SUBSET (1 .. n) |-> IF s = {} THEN Unasked(hist) ELSE Op(f[s \ {Max(s)}], Finalized[Max(s)])]
           c == CHOOSE f : Eq(f)
           G == [k \in 1 .. n |-> [r \in V |-> Op(r, Finalized[k])]]
<1>0. n \in Nat /\ DOMAIN Finalized = 1 .. n /\ \A k \in 1 .. n : Finalized[k] \in Super!ToSet(Finalized)
  BY BudgetsAre
<1>1. AskAll(h, pay, hist, threshold) = c[1 .. n]
  BY <1>0, SuperMax DEF AskAll, Super!FoldLeft, Super!MapThenFoldSet
<1>2. Unasked(hist) \in V
  BY DEF Unasked, Answers, Kept
<1>3. \A r \in V, k \in 1 .. n : Op(r, Finalized[k]) \in V
  BY <1>0, AskStays
<1> HIDE DEF Op, V
<1>4. G \in [1 .. n -> [V -> V]]
  BY <1>3
<1>5. PICK f : IsFold(f, n, V, Unasked(hist), G)
  <2> HIDE DEF G, n
  <2> QED BY <1>0, <1>2, <1>4, FoldExists
<1>6. /\ f \in [SUBSET (1 .. n) -> V]
      /\ \A s \in SUBSET (1 .. n) : f[s] = IF s = {} THEN Unasked(hist) ELSE G[Max(s)][f[s \ {Max(s)}]]
  BY <1>5 DEF IsFold
<1>7. ASSUME NEW s \in SUBSET (1 .. n), s # {} PROVE f[s] = Op(f[s \ {Max(s)}], Finalized[Max(s)])
  <2>1. Max(s) \in 1 .. n /\ f[s \ {Max(s)}] \in V
    <3>1. Max(s) \in s
      BY <1>0, <1>7, MaxIs
    <3> QED BY <1>6, <3>1
  <2> QED BY <1>6, <1>7, <2>1
<1>8. Eq(f)
  BY <1>6, <1>7
<1>9. Eq(c)
  <2> HIDE DEF Eq
  <2> QED BY <1>8
<1> DEFINE P == {k \in 0 .. n : c[1 .. k] \in V}
<1> HIDE DEF c, n
<1>10. 0 \in P
  <2>1. 1 .. 0 = {} /\ 0 \in 0 .. n
    BY <1>0
  <2> QED BY <1>2, <1>9, <2>1
<1>11. ASSUME NEW k \in 1 .. n, k - 1 \in P PROVE k \in P
  <2>1. Max(1 .. k) = k /\ (1 .. k) \ {k} = 1 .. k - 1 /\ 1 .. k # {}
    <3>1. k \in Nat /\ k > 0
      BY <1>0
    <3> QED BY <3>1, Segment
  <2>2. 1 .. k \in SUBSET (1 .. n) /\ k \in 0 .. n
    BY <1>0
  <2>3. c[1 .. k] = Op(c[1 .. k - 1], Finalized[k])
    BY <1>9, <2>1, <2>2
  <2> QED BY <1>3, <1>11, <2>2, <2>3
<1>12. n \in P
  <2> HIDE DEF P
  <2>1. \A k \in 0 .. n : k \in P
    BY <1>0, <1>10, <1>11, StepsReach
  <2>2. n \in 0 .. n
    BY <1>0
  <2> QED BY <2>1, <2>2
<1> QED BY <1>1, <1>12 DEF V

(* IsBlockPayeeValid: a budget grants a proposal only when the history does  *)
(* not have it, and then the history has it; where a payee is enforced, no   *)
(* other block is valid without a budget.                                    *)
LEMMA PayeeValidKeeps ==
    ASSUME Super!SuperblocksAssumption, NEW h \in 1 .. MaxHeight, NEW pay \in Super!Pays, NEW enforced \in BOOLEAN,
           NEW hist \in Histories, NEW v, v = Super!IsBlockPayeeValid(h, pay, hist, enforced)
    PROVE  /\ v.valid \in BOOLEAN /\ v.by \in Super!Vouchers /\ v.history \in Histories
           /\ v.valid /\ v.by = "payee" => pay = "masternode"
           /\ EndsAgree /\ Covered(hist) =>
                /\ Covered(v.history) /\ DOMAIN hist \subseteq DOMAIN v.history
                /\ v.by = "budget" => pay \notin DOMAIN hist /\ pay \in DOMAIN v.history
<1> DEFINE top == Super!Highest(h, 0)
           asked1 == AskAll(h, pay, hist, top - EnabledCount \div 10)
           r == Super!IsTransactionValid(h, pay, hist)
<1>1. asked1 \in Answers(hist, pay) /\ Unasked(hist) \in Answers(hist, pay)
  <2>1. asked1 \in Answers(hist, pay)
    BY AskAllStays
  <2> QED BY <2>1 DEF Unasked, Answers, Kept
<1>2. r = IF top < EnabledCount \div 20 THEN Unasked(hist)
          ELSE IF asked1.voted THEN asked1 ELSE [asked1 EXCEPT !.status = "VoteThreshold"]
  BY DEF Super!IsTransactionValid, AskAll, Unasked
<1> HIDE DEF top, asked1
<1>3. \A a \in Answers(hist, pay) :
        /\ a \in [status : {"Invalid", "DoublePayment", "Valid"}, history : Histories, voted : BOOLEAN]
        /\ Kept(hist, a.history, pay, a.status = "Valid")
  BY DEF Answers
<1>4. r.history \in Histories /\ \E a \in Answers(hist, pay) : r.history = a.history /\ (r.status = "Valid" => a.status = "Valid")
  <2>1. CASE r \in Answers(hist, pay)
    BY <1>3, <2>1
  <2>2. CASE r = [asked1 EXCEPT !.status = "VoteThreshold"]
    <3>1. r.history = asked1.history /\ r.status = "VoteThreshold"
      BY <1>1, <1>3, <2>2
    <3> QED BY <1>1, <1>3, <3>1
  <2> QED BY <1>1, <1>2, <2>1, <2>2
<1> HIDE DEF r
<1>5. EndsAgree /\ Covered(hist) =>
        /\ Covered(r.history) /\ DOMAIN hist \subseteq DOMAIN r.history
        /\ r.status = "Valid" => pay \notin DOMAIN hist /\ pay \in DOMAIN r.history
  BY <1>3, <1>4 DEF Kept
<1> DEFINE a == Super!Asked(h, pay, hist)
           voted == enforced /\ EnforcePayee
<1>6. /\ a.history \in Histories
      /\ EndsAgree /\ Covered(hist) =>
           /\ Covered(a.history) /\ DOMAIN hist \subseteq DOMAIN a.history
           /\ a.status = "Valid" => pay \notin DOMAIN hist /\ pay \in DOMAIN a.history
  <2>1. CASE Super!IsBudgetPaymentBlock(h)
    <3>1. a = r
      BY <2>1 DEF Super!Asked, r
    <3> QED BY <1>4, <1>5, <3>1
  <2>2. CASE ~Super!IsBudgetPaymentBlock(h)
    <3>1. a.history = hist /\ a.status = "Unasked"
      BY <2>2 DEF Super!Asked
    <3> QED BY <3>1
  <2> QED BY <2>1, <2>2
<1>7. /\ v.valid = (a.status = "Valid" \/ (~(a.status = "Invalid" /\ EnforceBudget) /\ (voted => pay = "masternode")))
      /\ v.by = IF a.status = "Valid" THEN "budget" ELSE IF voted THEN "payee" ELSE "nobody"
      /\ v.history = a.history
  BY DEF Super!IsBlockPayeeValid
<1> HIDE DEF a, voted
<1>8. /\ v.by \in Super!Vouchers /\ v.valid \in BOOLEAN
      /\ v.by = "budget" => a.status = "Valid"
      /\ v.valid /\ v.by = "payee" => pay = "masternode"
  BY <1>7 DEF Super!Vouchers
<1> QED BY <1>6, <1>7, <1>8

LEMMA SuperInvInit == ASSUME Super!SuperblocksAssumption, Super!Init PROVE SuperInv
<1>1. history \in Histories /\ DOMAIN history = {}
  <2>1. history \in [{} -> 1 .. MaxHeight]
    BY DEF Super!Init
  <2> QED BY <2>1, HistoriesAre
<1>2. payChain \in Seq(PayBlock) /\ Len(payChain) = 0 /\ DOMAIN payChain = {}
  BY DEF Super!Init
<1>3. Covered(history)
  BY <1>1 DEF Covered
<1>4. judged = {} /\ forgotten = FALSE /\ tally \in Tallies
  BY DEF Super!Init
<1>5. Len(payChain) <= MaxHeight
  BY <1>2, BudgetsAre
<1> QED BY <1>1, <1>2, <1>3, <1>4, <1>5 DEF SuperInv

(* Judge keeps the history in order, whatever is judged. *)
LEMMA JudgeKeeps ==
    ASSUME Super!SuperblocksAssumption, SuperInv, NEW h \in 1 .. MaxHeight, NEW pay \in Super!Pays,
           NEW enforced \in BOOLEAN, NEW v, v = Super!IsBlockPayeeValid(h, pay, history, enforced), Super!Judge(h, pay, v)
    PROVE  /\ v.valid \in BOOLEAN /\ v.by \in Super!Vouchers /\ history' \in Histories
           /\ judged' \subseteq [height : 1 .. MaxHeight, pay : Super!Pays, tally : Tallies]
           /\ v.valid /\ v.by = "payee" => pay = "masternode"
           /\ EndsAgree /\ Covered(history) =>
                /\ Covered(history') /\ DOMAIN history \subseteq DOMAIN history'
                /\ v.by = "budget" => pay \notin DOMAIN history /\ pay \in DOMAIN history'
<1>1. history' = v.history /\ judged' \subseteq judged \cup {[height |-> h, pay |-> pay, tally |-> tally]}
  BY DEF Super!Judge
<1>2. history \in Histories /\ tally \in Tallies
      /\ judged \subseteq [height : 1 .. MaxHeight, pay : Super!Pays, tally : Tallies]
  BY DEF SuperInv
<1>3. [height |-> h, pay |-> pay, tally |-> tally] \in [height : 1 .. MaxHeight, pay : Super!Pays, tally : Tallies]
  BY <1>2
<1>4. judged' \subseteq [height : 1 .. MaxHeight, pay : Super!Pays, tally : Tallies]
  BY <1>1, <1>2, <1>3
<1>5. /\ v.valid \in BOOLEAN /\ v.by \in Super!Vouchers /\ v.history \in Histories
      /\ v.valid /\ v.by = "payee" => pay = "masternode"
      /\ EndsAgree /\ Covered(history) =>
           /\ Covered(v.history) /\ DOMAIN history \subseteq DOMAIN v.history
           /\ v.by = "budget" => pay \notin DOMAIN history /\ pay \in DOMAIN v.history
  BY <1>2, PayeeValidKeeps
<1> QED BY <1>1, <1>4, <1>5

LEMMA SuperConnectHolds ==
    ASSUME Super!SuperblocksAssumption, SuperInv, NEW pay \in Super!Pays, NEW enforced \in BOOLEAN,
           Super!ConnectBlock(pay, enforced)
    PROVE  SuperInv'
<1> DEFINE h == Len(payChain) + 1
           v == Super!IsBlockPayeeValid(h, pay, history, enforced)
           b == [pay |-> pay, by |-> v.by]
<1>1. /\ h <= MaxHeight /\ Super!Judge(h, pay, v) /\ UNCHANGED <<tally, forgotten>>
      /\ payChain' = IF v.valid THEN Append(payChain, b) ELSE payChain
  BY DEF Super!ConnectBlock
<1>2. payChain \in Seq(PayBlock) /\ Len(payChain) \in Nat /\ h \in 1 .. MaxHeight
  BY <1>1, BudgetsAre DEF SuperInv
<1> HIDE DEF h, v
<1>3. /\ v.valid \in BOOLEAN /\ v.by \in Super!Vouchers /\ history' \in Histories
      /\ judged' \subseteq [height : 1 .. MaxHeight, pay : Super!Pays, tally : Tallies]
      /\ v.valid /\ v.by = "payee" => pay = "masternode"
      /\ EndsAgree /\ Covered(history) =>
           /\ Covered(history') /\ DOMAIN history \subseteq DOMAIN history'
           /\ v.by = "budget" => pay \notin DOMAIN history /\ pay \in DOMAIN history'
  <2>1. v = Super!IsBlockPayeeValid(h, pay, history, enforced)
    BY DEF v
  <2> QED BY <1>1, <1>2, <2>1, JudgeKeeps
<1>4. b \in PayBlock /\ b.pay = pay /\ b.by = v.by
  BY <1>3 DEF PayBlock
<1> HIDE DEF b
<1>5. CASE v.valid
  <2>1. /\ payChain' \in Seq(PayBlock) /\ Len(payChain') <= MaxHeight /\ DOMAIN payChain' = 1 .. h
        /\ payChain'[h] = b /\ DOMAIN payChain = 1 .. h - 1 /\ \A i \in 1 .. h - 1 : payChain'[i] = payChain[i]
    BY <1>1, <1>2, <1>4, <1>5 DEF h
  <2>2. \A i \in 1 .. h : i = h \/ i \in 1 .. h - 1
    BY <1>2
  <2>3. \A i \in DOMAIN payChain' : payChain'[i].by = "payee" => payChain'[i].pay = "masternode"
    BY <1>3, <1>4, <1>5, <2>1, <2>2 DEF SuperInv
  <2>4. ASSUME ~forgotten', EndsAgree
        PROVE  /\ Covered(history')
               /\ \A i \in DOMAIN payChain' : payChain'[i].by = "budget" => payChain'[i].pay \in DOMAIN history'
               /\ \A i, j \in DOMAIN payChain' :
                    payChain'[i].pay = payChain'[j].pay /\ payChain'[i].by = "budget" /\ payChain'[j].by = "budget" => i = j
    <3>1. /\ Covered(history)
          /\ \A i \in DOMAIN payChain : payChain[i].by = "budget" => payChain[i].pay \in DOMAIN history
          /\ \A i, j \in DOMAIN payChain :
               payChain[i].pay = payChain[j].pay /\ payChain[i].by = "budget" /\ payChain[j].by = "budget" => i = j
      BY <1>1, <2>4 DEF SuperInv
    <3>2. Covered(history') /\ DOMAIN history \subseteq DOMAIN history'
          /\ (b.by = "budget" => b.pay \notin DOMAIN history /\ b.pay \in DOMAIN history')
      BY <1>3, <1>4, <2>4, <3>1
    <3> QED BY <2>1, <2>2, <3>1, <3>2
  <2> QED BY <1>1, <1>3, <2>1, <2>3, <2>4 DEF SuperInv, EndsAgree
<1>6. CASE ~v.valid
  BY <1>1, <1>3, <1>6 DEF SuperInv, EndsAgree
<1> QED BY <1>3, <1>5, <1>6

LEMMA SuperCheckHolds ==
    ASSUME Super!SuperblocksAssumption, SuperInv, NEW h \in 1 .. MaxHeight, NEW pay \in Super!Pays,
           NEW enforced \in BOOLEAN, Super!CheckBlock(h, pay, enforced)
    PROVE  SuperInv'
<1> DEFINE v == Super!IsBlockPayeeValid(h, pay, history, enforced)
<1>1. Super!Judge(h, pay, v) /\ UNCHANGED <<tally, payChain, forgotten>>
  BY DEF Super!CheckBlock
<1> HIDE DEF v
<1>2. /\ history' \in Histories /\ judged' \subseteq [height : 1 .. MaxHeight, pay : Super!Pays, tally : Tallies]
      /\ EndsAgree /\ Covered(history) => Covered(history') /\ DOMAIN history \subseteq DOMAIN history'
  <2>1. v = Super!IsBlockPayeeValid(h, pay, history, enforced)
    BY DEF v
  <2> QED BY <1>1, <2>1, JudgeKeeps
<1> QED BY <1>1, <1>2 DEF SuperInv, EndsAgree

LEMMA SuperDisconnectHolds == ASSUME Super!SuperblocksAssumption, SuperInv, Super!DisconnectTip PROVE SuperInv'
<1>1. payChain # <<>> /\ payChain' = Super!Front(payChain) /\ UNCHANGED <<tally, history, judged, forgotten>>
  BY DEF Super!DisconnectTip
<1>2. payChain \in Seq(PayBlock) /\ Len(payChain) \in Nat /\ Len(payChain) > 0 /\ Len(payChain) <= MaxHeight
  BY <1>1 DEF SuperInv
<1>3. /\ payChain' \in Seq(PayBlock) /\ Len(payChain') <= MaxHeight /\ DOMAIN payChain' \subseteq DOMAIN payChain
      /\ \A i \in DOMAIN payChain' : payChain'[i] = payChain[i]
  BY <1>1, <1>2, BudgetsAre DEF Super!Front
<1> QED BY <1>1, <1>3 DEF SuperInv, EndsAgree

LEMMA SuperInvStep ==
    ASSUME Super!SuperblocksAssumption, SuperInv, [Super!Next]_(Super!superVars) PROVE SuperInv'
<1>1. CASE Super!Revote
  BY <1>1 DEF Super!Revote, SuperInv, EndsAgree
<1>2. CASE Super!Restart
  <2>1. history' \in [{} -> 1 .. MaxHeight]
    BY <1>2 DEF Super!Restart
  <2>2. history' \in Histories
    BY <2>1, HistoriesAre
  <2> QED BY <1>2, <2>2 DEF Super!Restart, SuperInv
<1>3. CASE UNCHANGED Super!superVars
  BY <1>3 DEF Super!superVars, SuperInv
<1> QED BY <1>1, <1>2, <1>3, SuperConnectHolds, SuperCheckHolds, SuperDisconnectHolds DEF Super!Next

(* No proposal is in the chain twice within a cycle but through a block that *)
(* nobody has vouched for, neither a budget nor the payee of its height, for *)
(* any budgets, votes, sporks, forks, rechecks and order of them, as long as *)
(* the node keeps its history and the budgets end together.                  *)
THEOREM PaymentsCorrect ==
    ASSUME Super!SuperblocksAssumption
    PROVE  Super!Spec => []NoDoublePayment
<1>1. Super!Init => SuperInv
  BY SuperInvInit
<1>2. SuperInv /\ [Super!Next]_(Super!superVars) => SuperInv'
  BY SuperInvStep
<1>3. SuperInv => NoDoublePayment
  <2> SUFFICES ASSUME SuperInv PROVE NoDoublePayment
    OBVIOUS
  <2>1. DOMAIN history \subseteq Super!Proposals /\ \A p \in DOMAIN history : history[p] \in 1 .. MaxHeight
    <3>1. history \in Histories
      BY DEF SuperInv
    <3> QED BY <3>1, HistoryParts
  <2>2. Super!TypeOK
    BY <2>1 DEF SuperInv, PayBlock, Super!TypeOK
  <2>3. Super!NoDoublePayment
    <3> SUFFICES ASSUME ~forgotten, EndsAgree, NEW i \in DOMAIN payChain, NEW j \in DOMAIN payChain, i # j,
                        payChain[i].pay = payChain[j].pay, payChain[i].pay # "masternode"
                 PROVE  "nobody" \in {payChain[i].by, payChain[j].by}
      BY DEF Super!NoDoublePayment, EndsAgree
    <3>1. payChain[i] \in PayBlock /\ payChain[j] \in PayBlock
      BY DEF SuperInv
    <3>2. payChain[i].by # "payee" /\ payChain[j].by # "payee"
      BY DEF SuperInv
    <3>3. ~(payChain[i].by = "budget" /\ payChain[j].by = "budget")
      BY DEF SuperInv
    <3> QED BY <3>1, <3>2, <3>3 DEF PayBlock, Super!Vouchers
  <2> QED BY <2>2, <2>3 DEF NoDoublePayment
<1> QED BY <1>1, <1>2, <1>3, PTL DEF Super!Spec
==============================================================================
