--------------------------- MODULE MasternodeSync ----------------------------
(***************************************************************************)
(* CMasternodeSync of masternode-sync.cpp: sporks, the masternode list,    *)
(* winners and budgets are asked for from one peer after the other, an     *)
(* asset is left when nothing new has come for a while, and a sync that    *)
(* gets nothing fails and is tried again.                                  *)
(*                                                                         *)
(* Process runs in the masternode thread; items arrive in the message      *)
(* thread, peers come and go in between.  Times are kept as far as the     *)
(* code compares them: how long ago the last item came, whether the asset  *)
(* has been waited for too long, whether a failure is a minute old.  The   *)
(* counts of ssc messages only feed a display and are left out, as is the  *)
(* branch for regtest.                                                     *)
(***************************************************************************)
EXTENDS Naturals, FiniteSets

CONSTANTS
    Peers,
    OldPeers,       \* peers below ActiveProtocol(), which GetMinMasternodePaymentsProto() is too
    Threshold,      \* MASTERNODE_SYNC_THRESHOLD, 2 in the code
    Enforced,       \* SPORK_8_MASTERNODE_PAYMENT_ENFORCEMENT is on; it stays as it is
    MaxItems,       \* bound on the items that arrive
    MaxResets       \* bound on resets from outside

ASSUME SyncAssumption ==
    /\ OldPeers \subseteq Peers
    /\ Threshold \in Nat \ {0}
    /\ Enforced \in BOOLEAN
    /\ {MaxItems, MaxResets} \subseteq Nat

Items == {"list", "mnw", "budget"}
Requests == Items \cup {"sporks"}
Assets == Requests \cup {"initial", "failed", "finished"}

VARIABLES
    sync,       \* the fields of CMasternodeSync and the requests each peer has fulfilled
    nodes,      \* vNodes
    caughtUp,   \* fBlockchainSynced
    enabled,    \* mnodeman.CountEnabled() is not 0
    items,      \* items that may still arrive
    resets      \* resets that may still happen

vars == <<sync, nodes, caughtUp, enabled, items, resets>>

-----------------------------------------------------------------------------
(* Reset; what peers have fulfilled stays. *)
Reset(s) ==
    [s EXCEPT !.asset = "initial", !.attempt = 0, !.late = FALSE, !.retry = FALSE, !.last = [a \in Items |-> "never"]]

Following ==
    [initial |-> "sporks", failed |-> "sporks", sporks |-> "list", list |-> "mnw", mnw |-> "budget",
     budget |-> "finished", finished |-> "finished"]

(* GetNextAsset; ClearFulfilledRequest does nothing if cs_vNodes is taken. *)
GetNextAsset(s, clear) ==
    [s EXCEPT !.asset = Following[@], !.attempt = 0, !.late = FALSE,
              !.asked = IF s.asset \in {"initial", "failed"} /\ clear THEN [p \in Peers |-> {}] ELSE @]

(* An item has come, none in the last ten seconds, and peers were asked. *)
Settled(s) == s.asset \in Items /\ s.last[s.asset] = "quiet" /\ s.attempt >= Threshold

(* None has come after as many requests, or as long. *)
TimedOut(s) == s.asset \in Items /\ s.last[s.asset] = "never" /\ (s.attempt >= Threshold * 3 \/ s.late)

(* Whether the loop over vNodes stops at p.  For budgets the time-out comes  *)
(* before the question whether p was asked; for list and winners after it.   *)
StopsAt(s, p) ==
    \/ s.asset = "sporks" /\ "sporks" \notin s.asked[p]
    \/ /\ s.asset \in Items /\ p \notin OldPeers
       /\ \/ Settled(s)
          \/ s.asset \notin s.asked[p]
          \/ s.asset = "budget" /\ TimedOut(s)

(* Mutant: with no answer the sync goes on instead of failing. *)
GiveUpNext(s) == GetNextAsset(s, FALSE)

(* "Sync has failed, will retry later", if payments are enforced. *)
GiveUp(s) ==
    IF Enforced THEN [s EXCEPT !.asset = "failed", !.attempt = 0, !.retry = FALSE] ELSE GetNextAsset(s, FALSE)

(* Mutant: requests for sporks are not counted. *)
AskPeerSporksUncounted(s, p) ==
    LET marked == [s EXCEPT !.asked[p] = @ \cup {s.asset}]
        again  == [marked EXCEPT !.attempt = @ + 1]
        open   == s.asset \in Items /\ ~Settled(s) /\ ~TimedOut(s)
    IN  CASE s.asset = "sporks" /\ s.attempt >= 2 -> [GetNextAsset(marked, FALSE) EXCEPT !.attempt = 1]
          [] s.asset = "sporks" /\ s.attempt < 2 -> marked
          [] Settled(s) -> GetNextAsset(s, FALSE)
          [] TimedOut(s) /\ s.asset = "budget" -> GetNextAsset(s, FALSE)
          [] TimedOut(s) /\ s.asset # "budget" -> GiveUp(marked)
          [] open /\ s.attempt >= Threshold * 3 -> marked
          [] open /\ s.attempt < Threshold * 3 -> again

(* The body of the loop at the peer where it stops. *)
AskPeer(s, p) ==
    LET marked == [s EXCEPT !.asked[p] = @ \cup {s.asset}]
        again  == [marked EXCEPT !.attempt = @ + 1]
        open   == s.asset \in Items /\ ~Settled(s) /\ ~TimedOut(s)
    IN  CASE s.asset = "sporks" /\ s.attempt >= 2 -> [GetNextAsset(marked, FALSE) EXCEPT !.attempt = 1]
          [] s.asset = "sporks" /\ s.attempt < 2 -> again
          [] Settled(s) -> GetNextAsset(s, FALSE)
          [] TimedOut(s) /\ s.asset = "budget" -> GetNextAsset(s, FALSE)
          [] TimedOut(s) /\ s.asset # "budget" -> GiveUp(marked)
          [] open /\ s.attempt >= Threshold * 3 -> marked
          [] open /\ s.attempt < Threshold * 3 -> again

(* The first half of Process: a synced node without masternodes, and a sync  *)
(* that failed a minute ago, start again.                                    *)
Restarted(s, clear) ==
    LET r == IF (s.asset = "finished" /\ ~enabled) \/ (s.asset = "failed" /\ s.retry) THEN Reset(s) ELSE s
    IN  IF r.asset = "initial" THEN GetNextAsset(r, clear) ELSE r

-----------------------------------------------------------------------------
Init ==
    /\ sync = [asset |-> "initial", attempt |-> 0, last |-> [a \in Items |-> "never"], late |-> FALSE,
               retry |-> FALSE, asked |-> [p \in Peers |-> {}]]
    /\ nodes = {}
    /\ caughtUp = FALSE
    /\ enabled = FALSE
    /\ items = MaxItems
    /\ resets = MaxResets

(* One run of Process; clear and got say whether the two TRY_LOCKs succeed.  *)
(* The order of vNodes is left open.                                         *)
Process(clear, got) ==
    /\ LET s == Restarted(sync, clear)
       IN  IF (~caughtUp /\ s.asset \in Items) \/ ~got \/ ~ \E p \in nodes : StopsAt(s, p)
           THEN sync' = s
           ELSE \E p \in nodes : StopsAt(s, p) /\ sync' = AskPeer(s, p)
    /\ UNCHANGED <<nodes, caughtUp, enabled, items, resets>>

(* AddedMasternodeList, AddedMasternodeWinner, AddedBudgetItem, for an item  *)
(* that was not seen too often.  A masternode broadcast may enable a node.   *)
AddedItem(a) ==
    /\ items > 0
    /\ items' = items - 1
    /\ sync' = [sync EXCEPT !.last[a] = "recent"]
    /\ enabled' \in IF a = "list" THEN {enabled, TRUE} ELSE {enabled}
    /\ UNCHANGED <<nodes, caughtUp, resets>>

(* Time passes: ten seconds after the last item, 25 seconds with one asset,  *)
(* a minute after a failure.                                                 *)
TurnsQuiet(a) ==
    /\ sync.last[a] = "recent"
    /\ sync' = [sync EXCEPT !.last[a] = "quiet"]
    /\ UNCHANGED <<nodes, caughtUp, enabled, items, resets>>

TurnsLate ==
    /\ sync.asset \in Items /\ ~sync.late
    /\ sync' = [sync EXCEPT !.late = TRUE]
    /\ UNCHANGED <<nodes, caughtUp, enabled, items, resets>>

MinutePasses ==
    /\ sync.asset = "failed" /\ ~sync.retry
    /\ sync' = [sync EXCEPT !.retry = TRUE]
    /\ UNCHANGED <<nodes, caughtUp, enabled, items, resets>>

(* IsBlockchainSynced finds a recent tip. *)
CatchUp ==
    /\ ~caughtUp
    /\ caughtUp' = TRUE
    /\ UNCHANGED <<sync, nodes, enabled, items, resets>>

(* "client was in sleep mode": IsBlockchainSynced is called for the first    *)
(* time in an hour.  Or the command mnsync reset.                            *)
ResetSync ==
    /\ resets > 0
    /\ resets' = resets - 1
    /\ sync' = Reset(sync)
    /\ caughtUp' \in {FALSE, caughtUp}
    /\ UNCHANGED <<nodes, enabled, items>>

(* External: peers connect with nothing fulfilled and leave, the last        *)
(* enabled masternode expires.                                               *)
Connect(p) ==
    /\ p \notin nodes
    /\ nodes' = nodes \cup {p}
    /\ UNCHANGED <<sync, caughtUp, enabled, items, resets>>

Disconnect(p) ==
    /\ p \in nodes
    /\ nodes' = nodes \ {p}
    /\ sync' = [sync EXCEPT !.asked[p] = {}]
    /\ UNCHANGED <<caughtUp, enabled, items, resets>>

AllExpire ==
    /\ enabled
    /\ enabled' = FALSE
    /\ UNCHANGED <<sync, nodes, caughtUp, items, resets>>

Next ==
    \/ \E clear, got \in BOOLEAN : Process(clear, got)
    \/ \E a \in Items : AddedItem(a) \/ TurnsQuiet(a)
    \/ TurnsLate
    \/ MinutePasses
    \/ CatchUp
    \/ ResetSync
    \/ \E p \in Peers : Connect(p) \/ Disconnect(p)
    \/ AllExpire

Spec == Init /\ [][Next]_vars

(* The thread calls Process every five seconds and gets the lock now and     *)
(* then, time passes, the chain catches up, and peers come and go: no peer   *)
(* stays, or stays away, for ever.                                           *)
FairSpec ==
    /\ Spec
    /\ SF_vars(Process(TRUE, TRUE))
    /\ WF_vars(TurnsLate) /\ WF_vars(MinutePasses) /\ WF_vars(CatchUp)
    /\ \A a \in Items : WF_vars(TurnsQuiet(a))
    /\ \A p \in Peers : WF_vars(Connect(p)) /\ WF_vars(Disconnect(p))

-----------------------------------------------------------------------------
(* Properties *)

TypeOK ==
    /\ sync \in [asset : Assets, attempt : 0..Threshold * 3, last : [Items -> {"never", "recent", "quiet"}],
                 late : BOOLEAN, retry : BOOLEAN, asked : [Peers -> SUBSET Requests]]
    /\ nodes \subseteq Peers
    /\ {caughtUp, enabled} \subseteq BOOLEAN
    /\ items \in 0..MaxItems /\ resets \in 0..MaxResets

(* When payments are enforced, the node does not call itself synced (and     *)
(* start to reject blocks and votes) before it has received masternodes and  *)
(* winners in this very round, whatever resets and failures came before.     *)
SyncedNeedsItems ==
    Enforced =>
        /\ sync.asset \in {"mnw", "budget", "finished"} => sync.last["list"] # "never"
        /\ sync.asset \in {"budget", "finished"} => sync.last["mnw"] # "never"

(* Every round of the sync ends: it finishes, or it fails and is tried       *)
(* again.                                                                    *)
SyncEnds == sync.asset = "sporks" ~> sync.asset \in {"finished", "failed"}

(* A failed sync is tried again. *)
FailureIsRetried == sync.asset = "failed" ~> sync.asset # "failed"

(* The sync does not come to a standstill: every round finishes or fails,    *)
(* and a failed one is followed by another.                                  *)
RoundsEnd == []TypeOK /\ SyncEnds /\ FailureIsRetried
==============================================================================
