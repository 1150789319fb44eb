------------------------------- MODULE SwiftTX -------------------------------
(***************************************************************************)
(* Instant transaction locks, swifttx.cpp: lock requests (ix), votes of    *)
(* masternodes (txlvote), locks that complete with Required votes, inputs  *)
(* that are then reserved for one transaction, and locks that expire.      *)
(*                                                                         *)
(* Each action is one message, one call, or one pass of the cleaning       *)
(* thread, over the global maps of swifttx.cpp.  The mempool and the       *)
(* transactions in the last blocks are kept as sets of transactions        *)
(* without conflicts; the masternode list and its ranks are external.      *)
(* mapUnknownVotes only decides whether a vote is relayed, nTimeout what   *)
(* the wallet shows; both are left out.  Both sporks are taken to be on.   *)
(***************************************************************************)
EXTENDS Naturals, FiniteSets, Sequences

CONSTANTS
    Txs,            \* transactions that ask for a lock
    OwnTxs,         \* those that this node itself asks locks for
    Inputs,         \* outpoints
    InputsOf,       \* Txs -> set of outpoints
    Masternodes,
    Heights,        \* block heights that votes name
    LockHeight,     \* Txs -> the height that CreateNewLock computes
    Top,            \* Heights -> the SWIFTTX_SIGNATURES_TOTAL best ranked masternodes
    Self,           \* this node's own masternode, or another value if it has none
    Required,       \* SWIFTTX_SIGNATURES_REQUIRED
    NoTx, NoLock

ASSUME SwiftAssumption ==
    /\ InputsOf \in [Txs -> (SUBSET Inputs) \ {{}}]
    /\ OwnTxs \subseteq Txs
    /\ Heights \subseteq Nat \ {0}
    /\ LockHeight \in [Txs -> Heights]
    /\ Top \in [Heights -> SUBSET Masternodes]
    /\ Required \in Nat \ {0}
    /\ NoTx \notin Txs

VARIABLES
    req,        \* mapTxLockReq: "none", "tx", or "empty" for a default-constructed transaction
    rej,        \* mapTxLockReqRejected
    votes,      \* the keys of mapTxLockVote: masternode and transaction
    locks,      \* mapTxLocks: NoLock or [height, sigs, over]
    lockedBy,   \* mapLockedInputs
    known,      \* the masternodes in our list
    pool,       \* the mempool
    mined       \* transactions in the last blocks of the active chain

swiftVars == <<req, rej, votes, locks, lockedBy>>
vars == <<swiftVars, known, pool, mined>>

Vote == [mn : Masternodes, height : Heights]
Lock == [height : Heights \cup {0}, sigs : Seq(Vote), over : BOOLEAN]

-----------------------------------------------------------------------------
(* CTransactionLock::CountSignatures, -1 for a lock without a height: only   *)
(* whether there are enough is ever asked.                                   *)
Counted(lock) == {i \in DOMAIN lock.sigs : lock.sigs[i].height = lock.height}

Complete(lock) == lock # NoLock /\ lock.height # 0 /\ Cardinality(Counted(lock)) >= Required

NewLock(h) == [height |-> h, sigs |-> <<>>, over |-> FALSE]

(* CreateNewLock: nothing when an input is too young or unknown (aged is     *)
(* FALSE); otherwise a lock that votes have made before gets its height.     *)
CreateNewLock(t, aged) ==
    [locks EXCEPT ![t] =
        IF ~aged THEN @
        ELSE IF @ = NoLock THEN NewLock(LockHeight[t])
        ELSE [@ EXCEPT !.height = LockHeight[t]]]

(* CheckForConflictingLocks: inputs of the transaction that are reserved for *)
(* another one, the first in the order of its inputs ends the search.        *)
Rivals(t) == {lockedBy[o] : o \in InputsOf[t]} \ {t, NoTx}

(* Both locks are given up. *)
Cancelled(lk, t, rival) ==
    [x \in Txs |-> IF x \in {t, rival} /\ lk[x] # NoLock THEN [lk[x] EXCEPT !.over = TRUE] ELSE lk[x]]

(* Inputs that are free are reserved for t. *)
Reserve(t) == [o \in Inputs |-> IF o \in InputsOf[t] /\ lockedBy[o] = NoTx THEN t ELSE lockedBy[o]]

(* ReprocessBlocks(15): the last blocks are disconnected and connected again; *)
(* CheckBlock turns down those with a transaction that a lock excludes.      *)
ReprocessBlocks(owner) == {u \in mined : \A o \in InputsOf[u] : owner[o] \in {u, NoTx}}

Conflict(t, u) == t # u /\ InputsOf[t] \cap InputsOf[u] # {}

(* AcceptToMemoryPool *)
Accepted(t) ==
    /\ t \notin pool \cup mined
    /\ Rivals(t) = {}
    /\ \A u \in pool \cup mined : ~Conflict(t, u)

-----------------------------------------------------------------------------
Init ==
    /\ req = [t \in Txs |-> "none"]
    /\ rej = {}
    /\ votes = {}
    /\ locks = [t \in Txs |-> NoLock]
    /\ lockedBy = [o \in Inputs |-> NoTx]
    /\ known \in SUBSET Masternodes
    /\ pool = {} /\ mined = {}

(* The ix message, accepted by the mempool: the own vote is recorded (and    *)
(* sent) but not added to the lock.  While an input is too new the vote      *)
(* names height 0, for which the ranking is that of the tip: any.            *)
RequestAccepted(t, aged) ==
    /\ req[t] = "none" /\ t \notin rej
    /\ Accepted(t)
    /\ locks' = CreateNewLock(t, aged)
    /\ pool' = pool \cup {t}
    /\ \E ranked \in IF aged THEN {Self \in Top[LockHeight[t]]} ELSE BOOLEAN :
           votes' = IF ranked /\ Self \in known THEN votes \cup {<<Self, t>>} ELSE votes
    /\ req' = [req EXCEPT ![t] = "tx"]
    /\ UNCHANGED <<rej, lockedBy, known, mined>>

(* The ix message, turned down by the mempool: free inputs are reserved, and *)
(* if the lock is complete the blocks are replayed.                          *)
RequestRejected(t, aged) ==
    /\ req[t] = "none" /\ t \notin rej
    /\ ~Accepted(t)
    /\ rej' = rej \cup {t}
    /\ lockedBy' = Reserve(t)
    /\ LET lk == CreateNewLock(t, aged)
       IN  \/ /\ ~Complete(lk[t])
              /\ locks' = lk
              /\ UNCHANGED <<req, mined>>
           \/ /\ Complete(lk[t])
              /\ Rivals(t) = {}
              /\ locks' = lk
              /\ req' = [req EXCEPT ![t] = "tx"]
              /\ mined' = ReprocessBlocks(lockedBy')
           \/ /\ Complete(lk[t])
              /\ \E rival \in Rivals(t) : locks' = Cancelled(lk, t, rival)
              /\ UNCHANGED <<req, mined>>
    /\ UNCHANGED <<votes, known, pool>>

(* The wallet or sendrawtransaction asks for a lock; the transaction enters  *)
(* the mempool if it can.                                                    *)
LocalRequest(t, aged) ==
    /\ t \in OwnTxs \ (pool \cup mined)
    /\ req' = IF req[t] = "none" THEN [req EXCEPT ![t] = "tx"] ELSE req
    /\ locks' = CreateNewLock(t, aged)
    /\ pool' = IF Accepted(t) THEN pool \cup {t} ELSE pool
    /\ UNCHANGED <<rej, votes, lockedBy, known, mined>>

(* Mutant: a vote that is known already is taken once more. *)
NewVoteAny(m, t) == TRUE

(* mapTxLockVote.count: the hash of a vote leaves its height out. *)
NewVote(m, t) == <<m, t>> \notin votes

(* The txlvote message and ProcessConsensusVote.  A vote is remembered even  *)
(* if it is not counted.  When the lock is complete, mapTxLockReq[hash] puts *)
(* an empty transaction where no request is known; one without inputs        *)
(* conflicts with nothing and reserves nothing.                              *)
ReceiveVote(m, t, h) ==
    /\ NewVote(m, t)
    /\ votes' = votes \cup {<<m, t>>}
    /\ IF m \notin Top[h] \cap known
       THEN UNCHANGED <<req, locks, lockedBy, mined>>
       ELSE LET old  == IF locks[t] = NoLock THEN NewLock(0) ELSE locks[t]
                lk   == [locks EXCEPT ![t] = [old EXCEPT !.sigs = Append(@, [mn |-> m, height |-> h])]]
                real == req[t] = "tx"
            IN  \/ /\ ~Complete(lk[t])
                   /\ locks' = lk
                   /\ UNCHANGED <<req, lockedBy, mined>>
                \/ /\ Complete(lk[t])
                   /\ real /\ \E rival \in Rivals(t) : locks' = Cancelled(lk, t, rival)
                   /\ UNCHANGED <<req, lockedBy, mined>>
                \/ /\ Complete(lk[t])
                   /\ ~real \/ Rivals(t) = {}
                   /\ locks' = lk
                   /\ req' = IF real THEN req ELSE [req EXCEPT ![t] = "empty"]
                   /\ lockedBy' = IF real THEN Reserve(t) ELSE lockedBy
                   /\ mined' = IF t \in rej THEN ReprocessBlocks(lockedBy') ELSE mined
    /\ UNCHANGED <<rej, known, pool>>

(* An hour passes: nExpiration of a lock. *)
Expire(t) ==
    /\ locks[t] # NoLock
    /\ ~locks[t].over
    /\ locks' = [locks EXCEPT ![t].over = TRUE]
    /\ UNCHANGED <<req, rej, votes, lockedBy, known, pool, mined>>

(* Mutant: locks that votes alone have made are not looked at. *)
OverRequested == {t \in Txs : locks[t] # NoLock /\ locks[t].over /\ req[t] # "none"}

(* The locks whose hour has passed. *)
Over == {t \in Txs : locks[t] # NoLock /\ locks[t].over}

(* CleanTransactionLocksList: every lock that is over goes; its inputs,      *)
(* requests and counted votes only if mapTxLockReq has an entry for it.      *)
CleanTransactionLocksList(done) ==
    LET seen == {t \in done : req[t] # "none"}
    IN  /\ done = Over
        /\ done # {}
        /\ locks' = [t \in Txs |-> IF t \in done THEN NoLock ELSE locks[t]]
        /\ lockedBy' = [o \in Inputs |-> IF \E t \in seen : req[t] = "tx" /\ o \in InputsOf[t] THEN NoTx ELSE lockedBy[o]]
        /\ req' = [t \in Txs |-> IF t \in seen THEN "none" ELSE req[t]]
        /\ rej' = rej \ seen
        /\ votes' = {v \in votes : ~ \E t \in seen : v[2] = t /\ \E i \in DOMAIN locks[t].sigs : locks[t].sigs[i].mn = v[1]}
        /\ UNCHANGED <<known, pool, mined>>

(* External: the masternode list learns of a masternode; an ordinary         *)
(* transaction message; a block with t that CheckBlock lets pass.            *)
Learn(m) ==
    /\ m \notin known
    /\ known' = known \cup {m}
    /\ UNCHANGED <<swiftVars, pool, mined>>

ReceiveTx(t) ==
    /\ Accepted(t)
    /\ pool' = pool \cup {t}
    /\ UNCHANGED <<swiftVars, known, mined>>

Mine(t) ==
    /\ t \notin mined
    /\ Rivals(t) = {}
    /\ \A u \in mined : ~Conflict(t, u)
    /\ mined' = mined \cup {t}
    /\ pool' = {u \in pool : u # t /\ ~Conflict(t, u)}
    /\ UNCHANGED <<swiftVars, known>>

Clean == \E done \in SUBSET Txs : CleanTransactionLocksList(done)

Next ==
    \/ \E t \in Txs, aged \in BOOLEAN :
        \/ RequestAccepted(t, aged)
        \/ RequestRejected(t, aged)
        \/ LocalRequest(t, aged)
    \/ \E m \in Masternodes, t \in Txs, h \in Heights : ReceiveVote(m, t, h)
    \/ Clean
    \/ \E t \in Txs : Expire(t) \/ ReceiveTx(t) \/ Mine(t)
    \/ \E m \in Masternodes : Learn(m)

Spec == Init /\ [][Next]_vars

(* Time passes, and the masternode thread cleans once a minute. *)
FairSpec == Spec /\ WF_vars(Clean) /\ \A t \in Txs : WF_vars(Expire(t))

-----------------------------------------------------------------------------
(* Properties *)

TypeOK ==
    /\ req \in [Txs -> {"none", "tx", "empty"}]
    /\ rej \subseteq Txs
    /\ votes \subseteq Masternodes \X Txs
    /\ \A t \in Txs : locks[t] = NoLock \/ locks[t] \in Lock
    /\ DOMAIN locks = Txs
    /\ lockedBy \in [Inputs -> Txs \cup {NoTx}]
    /\ known \subseteq Masternodes
    /\ {pool, mined} \subseteq SUBSET Txs

(* swifttx.h, six of ten: the signatures of a lock are those of different    *)
(* masternodes, in whatever order votes, requests, expiry and cleaning come, *)
(* so a complete lock has that many voters.                                  *)
QuorumIsDistinct ==
    \A t \in Txs : locks[t] # NoLock =>
        \A i, j \in DOMAIN locks[t].sigs : locks[t].sigs[i].mn = locks[t].sigs[j].mn => i = j

(* "if this tx lock was rejected, we need to remove the conflicting blocks": *)
(* the chain spends no input that is reserved for a transaction whose        *)
(* request, sent by another node, was turned down and whose lock is complete. *)
ConflictsAreUndone ==
    \A t \in rej \ OwnTxs, o \in Inputs :
        lockedBy[o] = t /\ Complete(locks[t]) /\ ~locks[t].over
        => \A u \in mined : u # t => o \notin InputsOf[u]

(* A complete lock stays complete until the cleaning removes it: a request   *)
(* that comes after the votes, or again, loses none of them.                 *)
CompleteStaysComplete ==
    [][\A t \in Txs : Complete(locks[t]) /\ locks'[t] # NoLock => Complete(locks'[t])]_vars

(* What a lock stands for: its votes are those of different masternodes,     *)
(* none of them is lost once it is complete, and blocks that conflict with   *)
(* it are undone while it lasts.                                             *)
LocksAreSound == [](TypeOK /\ QuorumIsDistinct /\ ConflictsAreUndone) /\ CompleteStaysComplete

(* "locks expire after 60 minutes": every lock is removed, those that votes  *)
(* have made for a transaction nobody asked a lock for as well.              *)
LocksGo == \A t \in Txs : locks[t] # NoLock ~> locks[t] = NoLock

(* CheckBlock: "only reject blocks when it's based on complete consensus":   *)
(* an input that blocks are turned down for is reserved by a complete lock.  *)
ReservedByConsensus ==
    \A o \in Inputs : lockedBy[o] # NoTx => Complete(locks[lockedBy[o]])
==============================================================================
