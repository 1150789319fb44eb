------------------------------ MODULE UtxoStore ------------------------------
(***************************************************************************)
(* What the chain state promises its users: a set of unspent transaction   *)
(* outputs, named by the block it is the result of, that changes by whole  *)
(* blocks only.  There are three copies of it:                             *)
(*                                                                         *)
(*   disk    what a restart finds (chainstate/ in leveldb)                 *)
(*   active  what the running node answers from (pcoinsTip)                *)
(*   work    the scratch copy on which one block is being connected or     *)
(*           disconnected (the local CCoinsViewCache of ConnectTip and     *)
(*           DisconnectTip), which is kept whole or thrown away whole      *)
(*                                                                         *)
(* Nothing here knows of caches, flags or batches; CoinsCache is shown to  *)
(* implement this module.                                                  *)
(***************************************************************************)
CONSTANTS
    Txids,      \* the transaction ids whose outputs are tracked
    Coins,      \* the values an unspent CCoins may have
    Pruned,     \* a CCoins with nothing unspent; also: no record at all
    Blocks,     \* block hashes
    NullHash,   \* uint256(0): no block yet
    NoWork      \* no block is being processed

VARIABLES
    disk,       \* [coins |-> map, best |-> block]
    active,     \* [coins |-> map, best |-> block]
    work,       \* a map, or NoWork when no block is being processed
    lost        \* the disk has refused a write: nothing is promised any more

vars == <<disk, active, work, lost>>

UtxoSet == [Txids -> Coins \cup {Pruned}]

State == [coins : UtxoSet, best : Blocks \cup {NullHash}]

TypeOK ==
    /\ disk \in State
    /\ active \in State
    /\ work \in UtxoSet \cup {NoWork}
    /\ lost \in BOOLEAN

Init ==
    /\ disk = [coins |-> [x \in Txids |-> Pruned], best |-> NullHash]
    /\ active = disk
    /\ work = NoWork
    /\ lost = FALSE

(* A block is about to be connected or disconnected. *)
Begin ==
    /\ work = NoWork
    /\ work' = active.coins
    /\ UNCHANGED <<disk, active, lost>>

(* One CCoins of the scratch copy changes; nobody else can tell. *)
Write(x, c) ==
    /\ work # NoWork
    /\ work' = [work EXCEPT ![x] = c]
    /\ UNCHANGED <<disk, active, lost>>

(* The block is done: all of its changes and the new best block at once. *)
Commit(b) ==
    /\ work # NoWork
    /\ active' = [coins |-> work, best |-> b]
    /\ work' = NoWork
    /\ UNCHANGED <<disk, lost>>

(* The block turned out to be invalid, or was only being tried. *)
Abort ==
    /\ work # NoWork
    /\ work' = NoWork
    /\ UNCHANGED <<disk, active, lost>>

(* The active state reaches the disk in one piece. *)
Sync ==
    /\ work = NoWork
    /\ disk' = active
    /\ UNCHANGED <<active, work, lost>>

(* The node stops and starts again from the disk. *)
Crash ==
    /\ active' = disk
    /\ work' = NoWork
    /\ UNCHANGED <<disk, lost>>

(* The disk refuses a write.  From then on any step is allowed. *)
Lose == lost' = TRUE

Next ==
    \/ Begin
    \/ \E x \in Txids, c \in Coins \cup {Pruned} : Write(x, c)
    \/ \E b \in Blocks : Commit(b)
    \/ Abort
    \/ Sync
    \/ Crash
    \/ Lose

Spec == Init /\ [][Next]_vars
==============================================================================
