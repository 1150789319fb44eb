----------------------------- MODULE WalletCrypto ----------------------------
(***************************************************************************)
(* Encryption of the wallet: keys in memory and in the wallet file under a *)
(* random master key, the master key under a passphrase, the zerocoin seed *)
(* beside them; encryptwallet, walletpassphrase, walletlock and            *)
(* walletpassphrasechange, and the timer that locks the wallet again.      *)
(*                                                                         *)
(* Commands hold cs_wallet.  The timer's callback LockWallet does not: it  *)
(* runs in the event thread under cs_nWalletUnlockTime alone, so that a    *)
(* command which it can meet half way has more than one step.  A master    *)
(* key is named by its number, a secret by what it is encrypted with.      *)
(* Writes to the wallet file are taken to succeed.                         *)
(***************************************************************************)
EXTENDS FiniteSets, Integers

CONSTANTS
    Passphrases,
    MaxWalletKeys,  \* bound: keys generated
    MaxMasters,     \* bound: calls of encryptwallet
    MaxStarts       \* bound: starts of the program

WalletCryptoAssumption ==
    /\ Passphrases # {}
    /\ MaxWalletKeys \in Nat \ {0} /\ MaxMasters \in Nat \ {0} /\ MaxStarts \in Nat

VARIABLES
    store,      \* CCryptoKeyStore, mapMasterKeys, the seed of CzANKWallet
    walletDat,  \* the records key, ckey, mkey, seedhash and dzs
    relock,     \* the timer, its callback and the command under way
    owner       \* the passphrase the owner was told of, keys generated, starts, whether the last timer missed

cryptoVars == <<store, walletDat, relock, owner>>

Plain == 0      \* not encrypted
NoKey == 0      \* vMasterKey is empty
Lost == -1      \* no record

(* map[k] = v *)
Put(map, k, v) == [x \in DOMAIN map \cup {k} |-> IF x = k THEN v ELSE map[x]]

(* A new wallet after its first start, or an encrypted one from before there *)
(* were seeds, of which the file has none.                                   *)
Init ==
    \E p \in Passphrases, old \in BOOLEAN :
        /\ store = IF old THEN [crypto |-> TRUE, keys |-> {}, ckeys |-> Put(<<>>, 1, 1), masters |-> Put(<<>>, 1, p),
                                master |-> NoKey, anonymizeOnly |-> FALSE, seed |-> FALSE]
                   ELSE [crypto |-> FALSE, keys |-> {1}, ckeys |-> <<>>, masters |-> <<>>, master |-> NoKey,
                         anonymizeOnly |-> FALSE, seed |-> TRUE]
        /\ walletDat = [key |-> store.keys, ckey |-> store.ckeys, mkey |-> store.masters,
                        seedhash |-> ~old, dzs |-> IF old THEN Lost ELSE Plain]
        /\ relock = [timer |-> FALSE, firing |-> FALSE, call |-> "none", old |-> p, new |-> p, wasLocked |-> FALSE]
        /\ owner = [passphrase |-> p, keys |-> {1}, starts |-> 0, missed |-> FALSE]

-----------------------------------------------------------------------------
(* The key store.  An operation takes the memory w and the file f and gives  *)
(* both back.                                                                *)

IsLocked(w) == w.crypto /\ w.master = NoKey
Locked(w) == [w EXCEPT !.master = NoKey, !.seed = FALSE]

(* AddDeterministicSeed writes the seed under the master key in memory. *)
AddDeterministicSeed(w, f) == [f EXCEPT !.seedhash = TRUE, !.dzs = w.master]

(* CCryptoKeyStore::Unlock: every key must come out right.  Then the seed is *)
(* read, or made if there is none; one that cannot be read makes the call    *)
(* fail with the master key in place.                                        *)
UnlockStore(w, f, m) ==
    LET decrypts == DOMAIN w.ckeys # {} /\ \A k \in DOMAIN w.ckeys : w.ckeys[k] = m
        open == [w EXCEPT !.master = m]
        unreadable == f.seedhash /\ f.dzs = Lost
    IN  IF ~decrypts THEN [ok |-> FALSE, w |-> w, f |-> f]
        ELSE IF unreadable THEN [ok |-> FALSE, w |-> open, f |-> f]
        ELSE [ok |-> TRUE, w |-> [open EXCEPT !.seed = TRUE], f |-> AddDeterministicSeed(open, f)]

(* The master keys that the loop of Unlock gets to: it goes on to the next   *)
(* one when the passphrase does not fit.                                     *)
Tried(w, p) == {id \in DOMAIN w.masters : w.masters[id] = p}

Unlock(w, f, p, anonymizeOnly) ==
    LET opening == {id \in Tried(w, p) : UnlockStore(w, f, id).w.master # NoKey}
        r == UnlockStore(w, f, CHOOSE id \in opening : TRUE)
    IN  IF ~IsLocked(w) THEN [ok |-> TRUE, w |-> [w EXCEPT !.anonymizeOnly = anonymizeOnly], f |-> f]
        ELSE IF opening = {} THEN [ok |-> FALSE, w |-> w, f |-> f]
        ELSE IF r.ok THEN [r EXCEPT !.w = [@ EXCEPT !.anonymizeOnly = anonymizeOnly]] ELSE r

(* AddKeyPubKey: into memory and file, encrypted if the wallet is. *)
AddKeyTo(w, k) ==
    IF w.crypto THEN [w EXCEPT !.ckeys = Put(@, k, w.master)] ELSE [w EXCEPT !.keys = @ \cup {k}]
AddKeyRecord(w, f, k) ==
    IF w.crypto THEN [f EXCEPT !.ckey = Put(@, k, w.master)] ELSE [f EXCEPT !.key = @ \cup {k}]

NextKey == Cardinality(owner.keys) + 1
MayGenerate(n) == n = 0 \/ NextKey <= MaxWalletKeys

(* TopUpKeyPool generates a key or finds the pool full. *)
ToppedStore(w, n) == IF n = 0 THEN w ELSE AddKeyTo(w, NextKey)
ToppedFile(w, f, n) == IF n = 0 THEN f ELSE AddKeyRecord(w, f, NextKey)
ToppedOwner(n) == IF n = 0 THEN owner ELSE [owner EXCEPT !.keys = @ \cup {NextKey}]

GenerateNewKey ==
    /\ relock.call = "none"
    /\ ~IsLocked(store)
    /\ MayGenerate(1)
    /\ store' = AddKeyTo(store, NextKey)
    /\ walletDat' = AddKeyRecord(store, walletDat, NextKey)
    /\ owner' = ToppedOwner(1)
    /\ UNCHANGED relock

-----------------------------------------------------------------------------
(* encryptwallet *)

NewMaster(w) == Cardinality(DOMAIN w.masters) + 1
WithMaster(w, p) == [w EXCEPT !.masters = Put(@, NewMaster(w), p)]

(* EncryptKeys, in memory. *)
EncryptKeys(w, m) == [w EXCEPT !.crypto = TRUE, !.ckeys = [k \in w.keys |-> m], !.keys = {}]

(* Mutant: the plain keys are not erased. *)
CommittedBeside(w, f, m, p) == [f EXCEPT !.mkey = Put(@, m, p), !.ckey = [k \in w.keys |-> m]]

(* What the transaction of pwalletdbEncryption has written when it commits:  *)
(* the master key, every key encrypted, the plain ones erased.               *)
Committed(w, f, m, p) ==
    [f EXCEPT !.mkey = Put(@, m, p), !.ckey = [k \in w.keys |-> m], !.key = @ \ w.keys]

(* If the transaction cannot begin, the master key stays in memory.          *)
(* Afterwards the wallet is locked, unlocked (which encrypts the seed),      *)
(* given a new key pool and locked.                                          *)
EncryptWallet(p, begins) ==
    /\ relock.call = "none"
    /\ ~store.crypto
    /\ NewMaster(store) <= MaxMasters /\ MayGenerate(1)
    /\ LET m == NewMaster(store)
           encrypted == EncryptKeys(WithMaster(store, p), m)
           open == Unlock(Locked(encrypted), Committed(store, walletDat, m, p), p, FALSE)
       IN  IF ~begins
           THEN store' = WithMaster(store, p) /\ UNCHANGED <<walletDat, owner>>
           ELSE /\ store' = Locked(ToppedStore(open.w, 1))
                /\ walletDat' = ToppedFile(open.w, open.f, 1)
                /\ owner' = [ToppedOwner(1) EXCEPT !.passphrase = p]
    /\ UNCHANGED relock

-----------------------------------------------------------------------------
(* walletpassphrase, walletlock and the timer *)

(* The first step of walletpassphrase: a wallet that is open for staking     *)
(* only is not opened for staking only again.  An incorrect passphrase ends  *)
(* the call.                                                                 *)
WalletPassphrase(p, anonymizeOnly, n) ==
    /\ relock.call = "none"
    /\ store.crypto
    /\ ~(~IsLocked(store) /\ store.anonymizeOnly /\ anonymizeOnly)
    /\ LET r == Unlock(store, walletDat, p, anonymizeOnly)
       IN  IF r.ok
           THEN /\ MayGenerate(n)
                /\ store' = ToppedStore(r.w, n)
                /\ walletDat' = ToppedFile(r.w, r.f, n)
                /\ owner' = ToppedOwner(n)
                /\ relock' = [relock EXCEPT !.call = "unlocked"]
           ELSE /\ store' = r.w /\ walletDat' = r.f
                /\ UNCHANGED <<relock, owner>>

(* Then the lock on nWalletUnlockTime.  A timeout of 0 leaves the timer      *)
(* alone; otherwise RPCRunLater erases it, with the lock held, and waits for *)
(* its callback if that is running.                                          *)
SetUnlockTime(timeout) ==
    /\ relock.call = "unlocked"
    /\ relock' = [relock EXCEPT !.call = IF timeout THEN "erasing" ELSE "none"]
    /\ UNCHANGED <<store, walletDat, owner>>

RPCRunLater ==
    /\ relock.call = "erasing"
    /\ ~relock.firing
    /\ relock' = [relock EXCEPT !.timer = TRUE, !.call = "none"]
    /\ owner' = [owner EXCEPT !.missed = FALSE]
    /\ UNCHANGED <<store, walletDat>>

TimerFires ==
    /\ relock.timer
    /\ relock' = [relock EXCEPT !.timer = FALSE, !.firing = TRUE]
    /\ UNCHANGED <<store, walletDat, owner>>

(* LockWallet needs the lock that RPCRunLater is called with.  It may come   *)
(* while walletpassphrasechange has locked the wallet and not yet opened it  *)
(* again.                                                                    *)
LockWallet ==
    /\ relock.firing
    /\ relock.call # "erasing"
    /\ store' = [Locked(store) EXCEPT !.anonymizeOnly = FALSE]
    /\ relock' = [relock EXCEPT !.firing = FALSE]
    /\ owner' = [owner EXCEPT !.missed = @ \/ relock.call = "changing"]
    /\ UNCHANGED walletDat

WalletLock ==
    /\ relock.call = "none"
    /\ store.crypto
    /\ store' = Locked(store)
    /\ UNCHANGED <<walletDat, relock, owner>>

(* The GUI locks and unlocks without a timer. *)
LockDialog ==
    /\ relock.call = "none"
    /\ store.crypto
    /\ store' = [Locked(store) EXCEPT !.anonymizeOnly = FALSE]
    /\ UNCHANGED <<walletDat, relock, owner>>

UnlockDialog(p, anonymizeOnly) ==
    /\ relock.call = "none"
    /\ store.crypto
    /\ LET r == Unlock(store, walletDat, p, anonymizeOnly) IN store' = r.w /\ walletDat' = r.f
    /\ UNCHANGED <<relock, owner>>

-----------------------------------------------------------------------------
(* walletpassphrasechange *)

(* The wallet is locked, whatever comes; the GUI locks it before the call,   *)
(* which leaves it locked then.  Deriving keys from the passphrases takes    *)
(* the time in which the callback may run.                                   *)
BeginChange(old, new, gui) ==
    /\ relock.call = "none"
    /\ store.crypto
    /\ store' = Locked(store)
    /\ relock' = [relock EXCEPT !.call = "changing", !.old = old, !.new = new, !.wasLocked = gui \/ IsLocked(store)]
    /\ UNCHANGED <<walletDat, owner>>

(* The loop ends at the first master key that the old passphrase does not    *)
(* fit.  The one that opens the wallet is written under the new one.         *)
ChangeWalletPassphrase ==
    LET ids == {id \in DOMAIN store.masters : \A j \in DOMAIN store.masters : j <= id => store.masters[j] = relock.old}
        opening == {id \in ids : UnlockStore(store, walletDat, id).ok}
        unreadable == {id \in ids \ opening : UnlockStore(store, walletDat, id).w.master # NoKey}
        id == CHOOSE i \in opening \cup unreadable : TRUE
        r == UnlockStore(store, walletDat, id)
        changed == [r.w EXCEPT !.masters = Put(@, id, relock.new)]
    IN  /\ relock.call = "changing"
        /\ relock' = [relock EXCEPT !.call = "none"]
        /\ CASE opening # {} ->
                    /\ store' = IF relock.wasLocked THEN Locked(changed) ELSE changed
                    /\ walletDat' = [r.f EXCEPT !.mkey = Put(@, id, relock.new)]
                    /\ owner' = [owner EXCEPT !.passphrase = relock.new]
             [] opening = {} /\ unreadable # {} -> store' = r.w /\ UNCHANGED <<walletDat, owner>>
             [] OTHER -> UNCHANGED <<store, walletDat, owner>>

-----------------------------------------------------------------------------
(* The end of the program and its next start. *)

(* LoadWallet and the constructor of CzANKWallet: a plain wallet without a   *)
(* seed makes one.                                                           *)
Loaded(f) ==
    [crypto |-> DOMAIN f.ckey # {}, keys |-> f.key, ckeys |-> f.ckey, masters |-> f.mkey, master |-> NoKey,
     anonymizeOnly |-> FALSE, seed |-> DOMAIN f.ckey = {} /\ (f.dzs = Plain \/ ~f.seedhash)]

StartWith(f) ==
    /\ owner.starts < MaxStarts
    /\ store' = Loaded(f)
    /\ walletDat' = IF Loaded(f).seed THEN AddDeterministicSeed(Loaded(f), f) ELSE f
    /\ relock' = [relock EXCEPT !.timer = FALSE, !.firing = FALSE, !.call = "none"]

Restart == StartWith(walletDat) /\ owner' = [owner EXCEPT !.starts = @ + 1]

(* A crash in EncryptWallet: the transaction is undone, or it has committed  *)
(* and the seed is not encrypted yet.                                        *)
CrashInEncryptWallet(p, committed) ==
    /\ relock.call = "none"
    /\ ~store.crypto
    /\ NewMaster(store) <= MaxMasters
    /\ StartWith(IF committed THEN Committed(store, walletDat, NewMaster(store), p) ELSE walletDat)
    /\ owner' = [owner EXCEPT !.starts = @ + 1, !.passphrase = IF committed THEN p ELSE @]

(* WriteZANKSeed writes the hash of the seed, then the seed.  For a first    *)
(* seed a crash in between leaves the hash alone.                            *)
CrashInWriteSeed ==
    /\ IsLocked(store) /\ ~walletDat.seedhash
    /\ StartWith([walletDat EXCEPT !.seedhash = TRUE])
    /\ owner' = [owner EXCEPT !.starts = @ + 1]

Next ==
    \/ GenerateNewKey
    \/ \E p \in Passphrases, begins \in BOOLEAN : EncryptWallet(p, begins) \/ CrashInEncryptWallet(p, begins)
    \/ \E p \in Passphrases, anonymizeOnly \in BOOLEAN, n \in {0, 1} : WalletPassphrase(p, anonymizeOnly, n)
    \/ \E p \in Passphrases, anonymizeOnly \in BOOLEAN : UnlockDialog(p, anonymizeOnly)
    \/ \E timeout \in BOOLEAN : SetUnlockTime(timeout)
    \/ RPCRunLater \/ TimerFires \/ LockWallet \/ WalletLock \/ LockDialog
    \/ \E old, new \in Passphrases, gui \in BOOLEAN : BeginChange(old, new, gui)
    \/ ChangeWalletPassphrase
    \/ Restart \/ CrashInWriteSeed

(* The event thread runs and a command goes on when it gets its lock. *)
Fairness ==
    /\ WF_cryptoVars(TimerFires)
    /\ WF_cryptoVars(LockWallet)
    /\ WF_cryptoVars(\E timeout \in BOOLEAN : SetUnlockTime(timeout))
    /\ WF_cryptoVars(RPCRunLater)
    /\ WF_cryptoVars(ChangeWalletPassphrase)

Spec == Init /\ [][Next]_cryptoVars /\ Fairness

-----------------------------------------------------------------------------
(* Memory, file and what is under way keep their types. *)
TypeOK ==
    LET masters == 1 .. MaxMasters + 1
        keys == 1 .. MaxWalletKeys
    IN  /\ store.keys \subseteq keys /\ DOMAIN store.ckeys \subseteq keys
        /\ DOMAIN store.masters \subseteq masters /\ store.master \in masters \cup {NoKey}
        /\ walletDat.key \subseteq keys /\ DOMAIN walletDat.ckey \subseteq keys
        /\ walletDat.dzs \in masters \cup {Plain, Lost} /\ walletDat.seedhash \in BOOLEAN
        /\ relock.call \in {"none", "unlocked", "erasing", "changing"}
        /\ owner.keys \subseteq keys /\ owner.starts \in 0..MaxStarts

(* Whenever the process ends, the file can be loaded and gives back every    *)
(* key that was ever generated, in the plain or with the passphrase the      *)
(* owner was told of: LoadWallet takes no file with plain and encrypted      *)
(* keys, and Unlock asserts that not only some keys can be decrypted.        *)
KeysAreRecovered ==
    /\ walletDat.key = {} \/ DOMAIN walletDat.ckey = {}
    /\ owner.keys = walletDat.key \cup DOMAIN walletDat.ckey
    /\ \A k \in DOMAIN walletDat.ckey :
          walletDat.ckey[k] \in DOMAIN walletDat.mkey /\ walletDat.mkey[walletDat.ckey[k]] = owner.passphrase

(* The passphrase opens a locked wallet at any time, also after an           *)
(* encryption that could not begin has left a master key in memory.          *)
PassphraseOpens ==
    IsLocked(store) => Unlock(store, walletDat, owner.passphrase, FALSE).w.master # NoKey

(* Of an encrypted wallet nothing is left in the plain in the file once it   *)
(* has been open: neither keys nor the seed.                                 *)
NothingInThePlain ==
    /\ DOMAIN walletDat.mkey # {} => walletDat.key = {}
    /\ store.master # NoKey => walletDat.dzs # Plain

(* Once it was set, the timer locks the wallet ("Stores the wallet           *)
(* decryption key in memory for 'timeout' seconds").  Two ways out are real: *)
(* its callback ran while walletpassphrasechange had the wallet locked, or   *)
(* callback and RPCRunLater wait for each other.                             *)
WalletIsRelocked ==
    relock.timer ~> (IsLocked(store) \/ owner.missed \/ (relock.firing /\ relock.call = "erasing"))
==============================================================================
