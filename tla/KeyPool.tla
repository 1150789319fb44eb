------------------------------- MODULE KeyPool -------------------------------
(* The pool of keys a wallet generates ahead (wallet.cpp).  setKeyPool is    *)
(* the set of indexes that may be handed out, in memory; the records behind  *)
(* them are in the wallet file.  Reserving takes the index out of the set    *)
(* only; the record goes when the key is kept; an index given back returns   *)
(* to the set.  A crash forgets who has reserved what, and loading fills the *)
(* set from the records.                                                     *)
(*                                                                           *)
(* Holders are the threads and calls with a CReserveKey (the miner, a        *)
(* transaction being made, getkeypoololdest).  Keys are numbered in the      *)
(* order they are generated.                                                 *)
EXTENDS FiniteSetsExt, Integers

CONSTANTS
    Holders,
    Target,         \* -keypool
    MaxKeys,        \* bound: keys generated
    MaxCrashes      \* bound: restarts

ASSUME KeyPoolAssumption ==
    /\ Target \in Nat
    /\ MaxKeys \in Nat /\ MaxCrashes \in Nat

VARIABLES
    setKeyPool,     \* indexes in memory
    file,           \* [index -> key]: the "pool" records of the wallet file
    held,           \* [Holders -> reservation]: nIndex and vchPubKey of a CReserveKey
    used,           \* keys that were kept: in a transaction, a block or an address
    crypt,          \* "plain", "locked" or "unlocked"
    keys,           \* keys generated so far
    reused,         \* an index was filled anew while somebody held it
    restarts

keyVars == <<setKeyPool, file, held, used, crypt, keys, reused, restarts>>

NotHeld == [index |-> -1, key |-> 0]
Reservations == {NotHeld} \cup [index : Nat \ {0}, key : 1 .. MaxKeys]

KeyInit ==
    /\ setKeyPool = {}
    /\ file = <<>>
    /\ held = [h \in Holders |-> NotHeld]
    /\ used = {}
    /\ crypt = "plain"
    /\ keys = 0
    /\ reused = FALSE
    /\ restarts = 0

HeldIndexes == {held[h].index : h \in Holders}
IsLocked == crypt = "locked"

-----------------------------------------------------------------------------
(* How many keys are missing, and where they go: behind the last index of    *)
(* the set, or from 1 if the set is empty.                                   *)
KeysMissing == LET size == Cardinality(setKeyPool) IN IF size < Target + 1 THEN Target + 1 - size ELSE 0

(* Mutant: the size of the set for its last index. *)
NextIndexBySize == Cardinality(setKeyPool) + 1

NextIndex == IF setKeyPool = {} THEN 1 ELSE Max(setKeyPool) + 1

(* The records after new keys were written at the given indexes. *)
WithNewKeys(f, indexes) ==
    LET first == Min(indexes)
    IN  [i \in DOMAIN f \cup indexes |-> IF i \in indexes THEN keys + 1 + i - first ELSE f[i]]

NewIndexes == NextIndex .. NextIndex + KeysMissing - 1

(* TopUpKeyPool, not called or without effect while the wallet is locked:    *)
(* the set, the records, the count of keys and the flag after it.            *)
Tops == ~IsLocked /\ KeysMissing > 0
SetTopped == IF Tops THEN setKeyPool \cup NewIndexes ELSE setKeyPool
FileTopped == IF Tops THEN WithNewKeys(file, NewIndexes) ELSE file
TopUp ==
    /\ Tops => keys + KeysMissing <= MaxKeys
    /\ keys' = IF Tops THEN keys + KeysMissing ELSE keys
    /\ reused' = (reused \/ (Tops /\ NewIndexes \cap HeldIndexes # {}))

(* keypoolrefill, unlocking, getnewaddress before it takes a key. *)
TopUpKeyPool ==
    /\ Tops
    /\ TopUp
    /\ setKeyPool' = SetTopped
    /\ file' = FileTopped
    /\ UNCHANGED <<held, used, crypt, restarts>>

(* ReserveKeyFromKeyPool: top up, then take the oldest index out of the set. *)
(* A record that is not there throws, after the index has left the set.      *)
Reserve(h) ==
    /\ held[h] = NotHeld
    /\ TopUp
    /\ file' = FileTopped
    /\ SetTopped # {}
    /\ LET index == Min(SetTopped)
       IN  /\ setKeyPool' = SetTopped \ {index}
           /\ held' = [held EXCEPT ![h] = IF index \in DOMAIN FileTopped
                                          THEN [index |-> index, key |-> FileTopped[index]] ELSE @]
    /\ UNCHANGED <<used, crypt, restarts>>

(* The key is used: its record is erased first (CommitTransaction,           *)
(* ProcessBlockFound, GetKeyFromPool call KeepKey before the key leaves).    *)
KeepKey(h) ==
    /\ held[h] # NotHeld
    /\ file' = [i \in DOMAIN file \ {held[h].index} |-> file[i]]
    /\ used' = used \cup {held[h].key}
    /\ held' = [held EXCEPT ![h] = NotHeld]
    /\ UNCHANGED <<setKeyPool, crypt, keys, reused, restarts>>

(* The transaction was not made or the block was stale; the destructor of    *)
(* CReserveKey does it too.                                                  *)
ReturnKey(h) ==
    /\ held[h] # NotHeld
    /\ setKeyPool' = setKeyPool \cup {held[h].index}
    /\ held' = [held EXCEPT ![h] = NotHeld]
    /\ UNCHANGED <<file, used, crypt, keys, reused, restarts>>

(* GetKeyFromPool for getnewaddress: reserve and keep under cs_wallet.  If   *)
(* the set stays empty (a locked wallet) there is no key to be had.          *)
GetKeyFromPool ==
    /\ TopUp
    /\ SetTopped # {}
    /\ LET index == Min(SetTopped)
       IN  /\ setKeyPool' = SetTopped \ {index}
           /\ file' = [i \in DOMAIN FileTopped \ {index} |-> FileTopped[i]]
           /\ used' = IF index \in DOMAIN FileTopped THEN used \cup {FileTopped[index]} ELSE used
    /\ UNCHANGED <<held, crypt, restarts>>

(* EncryptWallet: the records in the set are erased (not the reserved ones)  *)
(* and the pool starts again at 1, with one key less than TopUpKeyPool keeps.*)
NewKeyPool ==
    /\ crypt = "plain"
    /\ keys + Target <= MaxKeys
    /\ setKeyPool' = 1 .. Target
    /\ file' = [i \in (DOMAIN file \ setKeyPool) \cup 1 .. Target |-> IF i <= Target THEN keys + i ELSE file[i]]
    /\ keys' = keys + Target
    /\ reused' = (reused \/ 1 .. Target \cap HeldIndexes # {})
    /\ crypt' = "locked"
    /\ UNCHANGED <<held, used, restarts>>

(* walletlock, or the time given to walletpassphrase is over. *)
LockWallet == crypt = "unlocked" /\ crypt' = "locked" /\ UNCHANGED <<setKeyPool, file, held, used, keys, reused, restarts>>

(* walletpassphrase: unlock and top up. *)
Unlock ==
    /\ crypt = "locked"
    /\ crypt' = "unlocked"
    /\ keys + KeysMissing <= MaxKeys
    /\ keys' = keys + KeysMissing
    /\ reused' = (reused \/ (KeysMissing > 0 /\ NewIndexes \cap HeldIndexes # {}))
    /\ setKeyPool' = IF KeysMissing > 0 THEN setKeyPool \cup NewIndexes ELSE setKeyPool
    /\ file' = IF KeysMissing > 0 THEN WithNewKeys(file, NewIndexes) ELSE file
    /\ UNCHANGED <<held, used, restarts>>

(* The program ends, in any way, and loads the wallet: the set is filled     *)
(* from the records, reserved keys come back.                                *)
Restart ==
    /\ restarts < MaxCrashes
    /\ restarts' = restarts + 1
    /\ setKeyPool' = DOMAIN file
    /\ held' = [h \in Holders |-> NotHeld]
    /\ crypt' = IF crypt = "plain" THEN "plain" ELSE "locked"
    /\ UNCHANGED <<file, used, keys, reused>>

KeyNext ==
    \/ TopUpKeyPool \/ GetKeyFromPool \/ NewKeyPool \/ LockWallet \/ Unlock \/ Restart
    \/ \E h \in Holders : Reserve(h) \/ KeepKey(h) \/ ReturnKey(h)

KeySpec == KeyInit /\ [][KeyNext]_keyVars

-----------------------------------------------------------------------------
(* The pool keeps its types. *)
KeyTypeOK ==
    /\ setKeyPool \subseteq Nat \ {0}
    /\ DOMAIN file \subseteq Nat \ {0} /\ \A i \in DOMAIN file : file[i] \in 1 .. MaxKeys
    /\ held \in [Holders -> Reservations]
    /\ used \subseteq 1 .. MaxKeys
    /\ crypt \in {"plain", "locked", "unlocked"}
    /\ keys \in 0 .. MaxKeys
    /\ reused \in BOOLEAN /\ restarts \in 0 .. MaxCrashes

(* No key serves twice, whatever is reserved, given back, kept or lost in a  *)
(* crash: a key that was used is in no record and held by nobody, and two    *)
(* holders never have the same one.  It holds as long as the pool was never  *)
(* filled again from 1 over an index somebody held.                          *)
KeyServesOnce ==
    ~reused =>
        /\ \A i \in DOMAIN file : file[i] \notin used
        /\ \A h \in Holders : held[h].key \notin used
        /\ \A g, h \in Holders : g # h /\ held[g] # NotHeld => held[g].key # held[h].key

(* Every index of the set has its record, so that ReserveKeyFromKeyPool and  *)
(* GetAllReserveKeys do not throw; under the same condition.                 *)
PoolIsReadable == ~reused => setKeyPool \subseteq DOMAIN file

(* While the wallet is unlocked and more than one key is kept ahead, no      *)
(* index is filled anew under a holder: it takes a locked wallet whose keys  *)
(* run out (or the encryption of the wallet) to get there.                   *)
ReuseNeedsALock == [][crypt = "plain" /\ Target > 0 /\ crypt' = "plain" /\ ~reused => ~reused']_keyVars

(* No key of the key pool serves twice and every index of setKeyPool has its *)
(* record in the wallet file, as long as no index was filled anew under a    *)
(* holder; and that takes a locked wallet.                                   *)
KeysServeOnce == [](KeyTypeOK /\ KeyServesOnce /\ PoolIsReadable) /\ ReuseNeedsALock
==============================================================================
