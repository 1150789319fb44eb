------------------------- MODULE MasternodeSyncProofs -------------------------
(***************************************************************************)
(* Proofs about the parts of MCMasternodeSync, each for its own            *)
(* specification.                                                          *)
(*                                                                         *)
(* MasternodeSync: types, with the bound on the attempts, and that an      *)
(* enforcing node is not synced before masternodes and winners have come   *)
(* in this round.  The second is inductive with the first: an asset is     *)
(* left for the next one only when an item has come, by giving up without  *)
(* enforcement, or from an asset that needs no items.                      *)
(*                                                                         *)
(* Sporks: what every node has stored stays active; no node has less       *)
(* active than stored.                                                     *)
(*                                                                         *)
(* Budget: votes move forward and fees are paid once per run.  A step is   *)
(* a chain of operations on the fields of CBudgetManager; each of them     *)
(* leads on from the one before (Leads), and that is transitive because    *)
(* within a step expired items only go and others only come.               *)
(***************************************************************************)
EXTENDS MCMasternodeSync, TLAPS

SyncType ==
    [asset : Assets, attempt : 0..Threshold * 3, last : [Items -> {"never", "recent", "quiet"}],
     late : BOOLEAN, retry : BOOLEAN, asked : [Peers -> SUBSET Requests]]

(* SyncedNeedsItems of one state of CMasternodeSync. *)
HasItems(s) ==
    Enforced =>
        /\ s.asset \in {"mnw", "budget", "finished"} => s.last["list"] # "never"
        /\ s.asset \in {"budget", "finished"} => s.last["mnw"] # "never"

(* The inductive invariant. *)
SyncInv == TypeOK /\ SyncedNeedsItems

-----------------------------------------------------------------------------
(* What the operations do to the state *)

(* A reset starts from nothing. *)
LEMMA ResetHolds ==
    ASSUME NEW s \in SyncType
    PROVE  Reset(s) \in SyncType /\ Reset(s).asset = "initial" /\ HasItems(Reset(s))
<1>1. 0 \in 0..Threshold * 3 /\ "initial" \in Assets
  BY SyncAssumption DEF Assets
<1>2. Reset(s) \in SyncType /\ Reset(s).asset = "initial"
  BY <1>1 DEF Reset, SyncType
<1> QED
  BY <1>2 DEF HasItems

(* GetNextAsset keeps the type, the items and whom was asked or nobody. *)
LEMMA NextAssetType ==
    ASSUME NEW s \in SyncType, NEW clear \in BOOLEAN
    PROVE  /\ GetNextAsset(s, clear) \in SyncType
           /\ GetNextAsset(s, clear).asset = Following[s.asset]
           /\ GetNextAsset(s, clear).last = s.last
           /\ GetNextAsset(s, clear).attempt = 0
<1>1. s.asset \in Assets /\ Following[s.asset] \in Assets
  BY DEF SyncType, Following, Assets, Requests, Items
<1>2. 0 \in 0..Threshold * 3
  BY SyncAssumption
<1> QED
  BY <1>1, <1>2 DEF GetNextAsset, SyncType

(* It is safe to go on from an asset whose item has come, or that needs none. *)
LEMMA NextAssetHolds ==
    ASSUME NEW s \in SyncType, HasItems(s), NEW clear \in BOOLEAN,
           Enforced /\ s.asset \in {"list", "mnw"} => s.last[s.asset] # "never"
    PROVE  HasItems(GetNextAsset(s, clear))
<1>1. s.asset \in Assets
  BY DEF SyncType
<1>2. Following[s.asset] \in {"mnw", "budget", "finished"} => s.asset \in {"list", "mnw", "budget", "finished"}
  BY <1>1 DEF Following, Assets, Requests, Items
<1>3. /\ Following["list"] = "mnw" /\ Following["mnw"] = "budget"
      /\ Following["budget"] = "finished" /\ Following["finished"] = "finished"
  BY DEF Following
<1> QED
  BY <1>2, <1>3, NextAssetType DEF HasItems

(* Giving up a stage moves on with items, or fails. *)
LEMMA GiveUpHolds ==
    ASSUME NEW s \in SyncType, HasItems(s)
    PROVE  GiveUp(s) \in SyncType /\ HasItems(GiveUp(s))
<1>1. CASE Enforced
  <2>1. 0 \in 0..Threshold * 3 /\ "failed" \in Assets
    BY SyncAssumption DEF Assets
  <2>2. GiveUp(s) \in SyncType /\ GiveUp(s).asset = "failed"
    BY <1>1, <2>1 DEF GiveUp, SyncType
  <2> QED
    BY <2>2 DEF HasItems
<1>2. CASE ~Enforced
  BY <1>2, NextAssetType, NextAssetHolds DEF GiveUp
<1> QED
  BY <1>1, <1>2

(* Noting that a peer was asked changes nothing else. *)
LEMMA MarkedHolds ==
    ASSUME NEW s \in SyncType, HasItems(s), NEW p \in Peers, s.asset \in Requests
    PROVE  LET marked == [s EXCEPT !.asked[p] = @ \cup {s.asset}]
           IN  /\ marked \in SyncType /\ HasItems(marked)
               /\ marked.asset = s.asset /\ marked.attempt = s.attempt /\ marked.last = s.last
<1> DEFINE marked == [s EXCEPT !.asked[p] = @ \cup {s.asset}]
<1>1. marked.asset = s.asset /\ marked.attempt = s.attempt /\ marked.last = s.last
  BY DEF SyncType
<1>2. marked \in SyncType
  BY DEF SyncType
<1> QED
  BY <1>1, <1>2 DEF HasItems

(* Nor does one more attempt, or setting the first one, below the bound. *)
LEMMA AttemptHolds ==
    ASSUME NEW s \in SyncType, HasItems(s), NEW n \in 0..Threshold * 3
    PROVE  [s EXCEPT !.attempt = n] \in SyncType /\ HasItems([s EXCEPT !.attempt = n])
<1>1. /\ [s EXCEPT !.attempt = n] \in SyncType
      /\ [s EXCEPT !.attempt = n].asset = s.asset
      /\ [s EXCEPT !.attempt = n].last = s.last
  BY DEF SyncType
<1> QED
  BY <1>1 DEF HasItems

(* The body of the loop at a peer where it stops. *)
LEMMA AskPeerHolds ==
    ASSUME NEW s \in SyncType, HasItems(s), NEW p \in Peers, StopsAt(s, p)
    PROVE  AskPeer(s, p) \in SyncType /\ HasItems(AskPeer(s, p))
<1> DEFINE marked == [s EXCEPT !.asked[p] = @ \cup {s.asset}]
           again  == [marked EXCEPT !.attempt = @ + 1]
<1>1. s.asset \in Requests /\ s.attempt \in 0..Threshold * 3
  BY DEF StopsAt, SyncType, Requests
<1>2. /\ marked \in SyncType /\ HasItems(marked)
      /\ marked.asset = s.asset /\ marked.attempt = s.attempt /\ marked.last = s.last
  BY <1>1, MarkedHolds
<1> HIDE DEF marked
<1>3. s.attempt + 1 \in 0..Threshold * 3 => again \in SyncType /\ HasItems(again)
  BY <1>2, AttemptHolds
<1>4. CASE s.asset = "sporks"
  <2>1. Threshold * 3 >= 3 /\ 1 \in 0..Threshold * 3
    BY SyncAssumption
  <2>2. CASE s.attempt >= 2
    <3>1. GetNextAsset(marked, FALSE) \in SyncType /\ HasItems(GetNextAsset(marked, FALSE))
      BY <1>2, <1>4, NextAssetType, NextAssetHolds
    <3>2. AskPeer(s, p) = [GetNextAsset(marked, FALSE) EXCEPT !.attempt = 1]
      BY <1>1, <1>4, <2>2 DEF AskPeer, marked, Settled, TimedOut, Items
    <3> QED
      BY <2>1, <3>1, <3>2, AttemptHolds
  <2>3. CASE ~(s.attempt >= 2)
    <3>1. AskPeer(s, p) = again
      BY <1>1, <1>4, <2>3 DEF AskPeer, marked, Settled, TimedOut, Items
    <3>2. s.attempt + 1 \in 0..Threshold * 3
      BY <1>1, <2>1, <2>3, SyncAssumption
    <3> QED
      BY <1>3, <3>1, <3>2
  <2> QED
    BY <2>2, <2>3
<1>5. CASE s.asset # "sporks" /\ Settled(s)
  <2>1. AskPeer(s, p) = GetNextAsset(s, FALSE)
    BY <1>1, <1>5 DEF AskPeer, Settled, TimedOut
  <2>2. s.last[s.asset] # "never"
    BY <1>5 DEF Settled
  <2> QED
    BY <2>1, <2>2, NextAssetType, NextAssetHolds
<1>6. CASE s.asset = "budget" /\ ~Settled(s) /\ TimedOut(s)
  <2>1. AskPeer(s, p) = GetNextAsset(s, FALSE)
    BY <1>1, <1>6 DEF AskPeer
  <2> QED
    BY <1>6, <2>1, NextAssetType, NextAssetHolds
<1>7. CASE s.asset \notin {"sporks", "budget"} /\ ~Settled(s) /\ TimedOut(s)
  <2>1. AskPeer(s, p) = GiveUp(marked)
    BY <1>1, <1>7 DEF AskPeer, marked
  <2> QED
    BY <1>2, <2>1, GiveUpHolds
<1>8. CASE s.asset # "sporks" /\ ~Settled(s) /\ ~TimedOut(s)
  <2>1. CASE s.attempt >= Threshold * 3
    BY <1>1, <1>2, <1>8, <2>1, SyncAssumption DEF AskPeer, marked, Requests
  <2>2. CASE ~(s.attempt >= Threshold * 3)
    <3>1. AskPeer(s, p) = again
      BY <1>1, <1>8, <2>2, SyncAssumption DEF AskPeer, marked, Requests
    <3>2. s.attempt + 1 \in 0..Threshold * 3
      BY <1>1, <2>2, SyncAssumption
    <3> QED
      BY <1>3, <3>1, <3>2
  <2> QED
    BY <2>1, <2>2
<1> QED
  BY <1>4, <1>5, <1>6, <1>7, <1>8

(* The first half of Process. *)
LEMMA RestartedHolds ==
    ASSUME NEW s \in SyncType, HasItems(s), NEW clear \in BOOLEAN
    PROVE  Restarted(s, clear) \in SyncType /\ HasItems(Restarted(s, clear))
<1> DEFINE r == IF (s.asset = "finished" /\ ~enabled) \/ (s.asset = "failed" /\ s.retry) THEN Reset(s) ELSE s
<1>1. r \in SyncType /\ HasItems(r)
  BY ResetHolds
<1>2. Restarted(s, clear) = IF r.asset = "initial" THEN GetNextAsset(r, clear) ELSE r
  BY DEF Restarted
<1> HIDE DEF r
<1> QED
  BY <1>1, <1>2, NextAssetType, NextAssetHolds

-----------------------------------------------------------------------------
(* The steps *)

(* Every step keeps the inductive invariant. *)
LEMMA SyncInvStep == SyncInv /\ [Next]_vars => SyncInv'
<1> SUFFICES ASSUME SyncInv, [Next]_vars PROVE SyncInv'
  OBVIOUS
<1>1. sync \in SyncType /\ HasItems(sync)
  BY DEF SyncInv, TypeOK, SyncType, SyncedNeedsItems, HasItems
<1> SUFFICES /\ sync' \in SyncType /\ HasItems(sync')
             /\ nodes' \subseteq Peers /\ caughtUp' \in BOOLEAN /\ enabled' \in BOOLEAN
             /\ items' \in 0..MaxItems /\ resets' \in 0..MaxResets
  BY DEF SyncInv, TypeOK, SyncType, SyncedNeedsItems, HasItems
<1>2. /\ nodes \subseteq Peers /\ caughtUp \in BOOLEAN /\ enabled \in BOOLEAN
      /\ items \in 0..MaxItems /\ resets \in 0..MaxResets /\ MaxItems \in Nat /\ MaxResets \in Nat
  BY SyncAssumption DEF SyncInv, TypeOK
<1>3. ASSUME NEW clear \in BOOLEAN, NEW got \in BOOLEAN, Process(clear, got)
      PROVE  sync' \in SyncType /\ HasItems(sync') /\ UNCHANGED <<nodes, caughtUp, enabled, items, resets>>
  <2> DEFINE s == Restarted(sync, clear)
  <2>1. s \in SyncType /\ HasItems(s)
    BY <1>1, RestartedHolds
  <2>2. sync' = s \/ \E p \in nodes : StopsAt(s, p) /\ sync' = AskPeer(s, p)
    BY <1>3 DEF Process
  <2> HIDE DEF s
  <2>3. UNCHANGED <<nodes, caughtUp, enabled, items, resets>>
    BY <1>3 DEF Process
  <2> QED
    BY <1>2, <2>1, <2>2, <2>3, AskPeerHolds
<1>4. ASSUME NEW a \in Items, AddedItem(a) \/ TurnsQuiet(a)
      PROVE  sync' \in SyncType /\ HasItems(sync')
  <2>1. PICK now \in {"recent", "quiet"} : sync' = [sync EXCEPT !.last[a] = now]
    BY <1>4 DEF AddedItem, TurnsQuiet
  <2>2. /\ sync' \in SyncType /\ sync'.asset = sync.asset
        /\ \A b \in Items : sync'.last[b] = IF b = a THEN now ELSE sync.last[b]
    BY <1>1, <2>1 DEF SyncType
  <2> QED
    BY <1>1, <2>2 DEF HasItems, Items
<1>5. ASSUME TurnsLate \/ MinutePasses
      PROVE  sync' \in SyncType /\ HasItems(sync')
  <2>1. sync' \in SyncType /\ sync'.asset = sync.asset /\ sync'.last = sync.last
    BY <1>1, <1>5 DEF TurnsLate, MinutePasses, SyncType
  <2> QED
    BY <1>1, <2>1 DEF HasItems
<1>6. ASSUME NEW p \in Peers, Disconnect(p)
      PROVE  sync' \in SyncType /\ HasItems(sync')
  <2>1. sync' \in SyncType /\ sync'.asset = sync.asset /\ sync'.last = sync.last
    BY <1>1, <1>6 DEF Disconnect, SyncType
  <2> QED
    BY <1>1, <2>1 DEF HasItems
<1>7. CASE \E clear, got \in BOOLEAN : Process(clear, got)
  BY <1>2, <1>3, <1>7
<1>8. CASE \E a \in Items : AddedItem(a) \/ TurnsQuiet(a)
  <2>1. PICK a \in Items : AddedItem(a) \/ TurnsQuiet(a)
    BY <1>8
  <2>2. nodes' = nodes /\ caughtUp' = caughtUp /\ resets' = resets
    BY <2>1 DEF AddedItem, TurnsQuiet
  <2>4. items' = items \/ (items > 0 /\ items' = items - 1)
    BY <2>1 DEF AddedItem, TurnsQuiet
  <2>5. items' \in 0..MaxItems
    BY <1>2, <2>4
  <2>3. enabled' = enabled \/ enabled' = TRUE
    BY <2>1 DEF AddedItem, TurnsQuiet
  <2> QED
    BY <1>2, <1>4, <2>1, <2>2, <2>3, <2>5
<1>9. CASE TurnsLate \/ MinutePasses
  BY <1>2, <1>5, <1>9 DEF TurnsLate, MinutePasses
<1>10. CASE CatchUp \/ AllExpire
  BY <1>1, <1>2, <1>10 DEF CatchUp, AllExpire
<1>11. CASE ResetSync
  <2>1. sync' \in SyncType /\ HasItems(sync')
    BY <1>1, <1>11, ResetHolds DEF ResetSync
  <2>2. nodes' = nodes /\ enabled' = enabled /\ items' = items /\ resets' \in 0..MaxResets
    BY <1>2, <1>11 DEF ResetSync
  <2>3. caughtUp' = FALSE \/ caughtUp' = caughtUp
    BY <1>11 DEF ResetSync
  <2> QED
    BY <1>2, <2>1, <2>2, <2>3
<1>12. ASSUME NEW p \in Peers, Connect(p) PROVE nodes' \subseteq Peers /\ UNCHANGED <<sync, caughtUp, enabled, items, resets>>
  BY <1>2, <1>12 DEF Connect
<1>13. CASE \E p \in Peers : Connect(p) \/ Disconnect(p)
  <2>1. CASE \E p \in Peers : Connect(p)
    BY <1>1, <1>2, <1>12, <2>1
  <2>2. CASE \E p \in Peers : Disconnect(p)
    BY <1>2, <1>6, <2>2 DEF Disconnect
  <2> QED
    BY <1>13, <2>1, <2>2
<1>14. CASE UNCHANGED vars
  BY <1>1, <1>2, <1>14 DEF vars
<1> QED
  BY <1>7, <1>8, <1>9, <1>10, <1>11, <1>13, <1>14 DEF Next

(* A node that starts has synced nothing. *)
LEMMA SyncInvInit == Init => SyncInv
<1> SUFFICES ASSUME Init PROVE SyncInv
  OBVIOUS
<1>1. TypeOK
  <2>1. 0 \in 0..Threshold * 3 /\ MaxItems \in 0..MaxItems /\ MaxResets \in 0..MaxResets
    BY SyncAssumption
  <2>2. "initial" \in Assets /\ [p \in Peers |-> {}] \in [Peers -> SUBSET Requests]
    BY DEF Assets
  <2>3. [a \in Items |-> "never"] \in [Items -> {"never", "recent", "quiet"}]
    OBVIOUS
  <2> QED
    BY <2>1, <2>2, <2>3 DEF Init, TypeOK
<1>2. SyncedNeedsItems
  BY DEF Init, SyncedNeedsItems
<1> QED
  BY <1>1, <1>2 DEF SyncInv

-----------------------------------------------------------------------------
(* The fields of CMasternodeSync keep their types; a peer is never asked     *)
(* more often than the loop allows: attempts stay within Threshold * 3.      *)
THEOREM SyncTypeCorrect == Spec => []TypeOK
<1>1. SyncInv => TypeOK
  BY DEF SyncInv
<1> QED
  BY SyncInvInit, SyncInvStep, <1>1, PTL DEF Spec

(* An enforcing node never calls itself synced in a round in which it has    *)
(* not received a masternode and a winner: for any set of peers, old ones    *)
(* among them, any threshold, and any order of resets, failures, time-outs   *)
(* and disconnections.                                                       *)
THEOREM SyncedCorrect == Spec => []SyncedNeedsItems
<1>1. SyncInv => SyncedNeedsItems
  BY DEF SyncInv
<1> QED
  BY SyncInvInit, SyncInvStep, <1>1, PTL DEF Spec

-----------------------------------------------------------------------------
(* Sporks *)

(* No node has less active than stored, so that a restart brings back        *)
(* nothing older than what every node has stored.                            *)
SporkInv ==
    /\ signed \in Nat /\ crashes \in Nat
    /\ active \in [Nodes -> 0 .. signed] /\ stored \in [Nodes -> 0 .. signed]
    /\ \A n \in Nodes : stored[n] <= active[n]

(* What is stored only grows. *)
StoredGrows == \A n \in Nodes : stored[n] <= stored'[n]

LEMMA SporkInvInit == ASSUME Spo!Init PROVE SporkInv
  BY DEF Spo!Init, SporkInv

(* A spork is taken over the active one, which is no older than the stored.  *)
LEMMA ProcessSporkHolds ==
    ASSUME SporkInv, NEW n \in Nodes, NEW t \in 1 .. signed, Spo!ProcessSpork(n, t)
    PROVE  SporkInv' /\ StoredGrows
<1>1. /\ active[n] < t /\ signed' = signed /\ crashes' = crashes
      /\ active' = [active EXCEPT ![n] = t] /\ stored' = [stored EXCEPT ![n] = t]
  BY DEF Spo!ProcessSpork
<1>2. signed \in Nat /\ crashes \in Nat /\ active \in [Nodes -> 0 .. signed] /\ stored \in [Nodes -> 0 .. signed]
      /\ \A m \in Nodes : stored[m] <= active[m]
  BY DEF SporkInv
<1>3. t \in 0 .. signed
  BY <1>2
<1>4. active' \in [Nodes -> 0 .. signed] /\ stored' \in [Nodes -> 0 .. signed]
  BY <1>1, <1>2, <1>3
<1>5. \A m \in Nodes : stored'[m] <= active'[m] /\ stored[m] <= stored'[m]
  BY <1>1, <1>2, <1>3
<1> QED BY <1>1, <1>2, <1>4, <1>5 DEF SporkInv, StoredGrows

(* A node that starts again has what it had stored. *)
LEMMA SporkRestartHolds ==
    ASSUME SporkInv, NEW n \in Nodes, crashes' = crashes + 1, active' = [active EXCEPT ![n] = stored[n]],
           UNCHANGED <<signed, stored>>
    PROVE  SporkInv' /\ StoredGrows
<1>1. signed \in Nat /\ crashes \in Nat /\ active \in [Nodes -> 0 .. signed] /\ stored \in [Nodes -> 0 .. signed]
      /\ \A m \in Nodes : stored[m] <= active[m]
  BY DEF SporkInv
<1>2. active' \in [Nodes -> 0 .. signed] /\ \A m \in Nodes : stored[m] <= active'[m] /\ stored[m] <= stored[m]
  BY <1>1
<1> QED BY <1>1, <1>2 DEF SporkInv, StoredGrows

LEMMA SporkInvStep ==
    ASSUME Spo!SporksAssumption, SporkInv, [Spo!Next]_(Spo!sporkVars) PROVE SporkInv' /\ StoredGrows
<1>1. /\ signed \in Nat /\ crashes \in Nat /\ active \in [Nodes -> 0 .. signed] /\ stored \in [Nodes -> 0 .. signed]
      /\ \A m \in Nodes : stored[m] <= active[m]
  BY DEF SporkInv
<1>2. CASE Spo!UpdateSpork
  <2>1. signed' = signed + 1 /\ active' = [active EXCEPT ![Signer] = signed + 1] /\ UNCHANGED <<stored, crashes>>
    BY <1>2 DEF Spo!UpdateSpork
  <2>2. active' \in [Nodes -> 0 .. signed + 1] /\ stored \in [Nodes -> 0 .. signed + 1]
    BY <1>1, <2>1 DEF Spo!SporksAssumption
  <2>3. \A m \in Nodes : stored[m] <= active'[m] /\ stored[m] <= stored[m]
    BY <1>1, <2>1
  <2> QED BY <1>1, <2>1, <2>2, <2>3 DEF SporkInv, StoredGrows
<1>3. ASSUME NEW n \in Nodes, NEW t \in 1 .. MaxSigned, Spo!ReceiveSpork(n, t) PROVE SporkInv' /\ StoredGrows
  BY <1>3, ProcessSporkHolds DEF Spo!ReceiveSpork
<1>4. ASSUME NEW n \in Nodes, NEW t \in 1 .. MaxSigned, Spo!CrashUnstored(n, t) PROVE SporkInv' /\ StoredGrows
  BY <1>4, SporkRestartHolds DEF Spo!CrashUnstored
<1>5. ASSUME NEW n \in Nodes, NEW m \in Nodes, Spo!GetSporks(n, m) PROVE SporkInv' /\ StoredGrows
  <2>1. active[m] \in 1 .. signed
    BY <1>1, <1>5 DEF Spo!GetSporks
  <2> QED BY <1>5, <2>1, ProcessSporkHolds DEF Spo!GetSporks
<1>6. ASSUME NEW n \in Nodes, Spo!Restart(n) PROVE SporkInv' /\ StoredGrows
  BY <1>6, SporkRestartHolds DEF Spo!Restart
<1>7. CASE UNCHANGED Spo!sporkVars
  <2>1. \A m \in Nodes : stored[m] <= stored[m]
    BY <1>1
  <2> QED BY <1>7, <2>1 DEF Spo!sporkVars, SporkInv, StoredGrows
<1> QED BY <1>2, <1>3, <1>4, <1>5, <1>6, <1>7 DEF Spo!Next

(* A spork that every node has stored is never undone, on any network of     *)
(* nodes, over any losses, delays and repetitions of messages and any        *)
(* restarts, also those of the signer, which does not store what it signs.   *)
THEOREM SporksStay ==
    ASSUME Spo!SporksAssumption
    PROVE  Spo!Spec => []Spo!TypeOK /\ Spo!SettledStays
<1>1. Spo!Init => SporkInv
  BY SporkInvInit
<1>2. SporkInv /\ [Spo!Next]_(Spo!sporkVars) => SporkInv' /\ StoredGrows
  BY SporkInvStep
<1>3. SporkInv => Spo!TypeOK
  BY DEF SporkInv, Spo!TypeOK
<1>4. Spo!Spec => []SporkInv /\ []Spo!TypeOK
  BY <1>1, <1>2, <1>3, PTL DEF Spo!Spec
<1>5. ASSUME NEW t \in 1 .. MaxSigned 
      PROVE  Spo!Spec => []((\A n \in Nodes : stored[n] >= t) => [](\A n \in Nodes : active[n] >= t))
  <2>1. SporkInv /\ (\A n \in Nodes : stored[n] >= t) => \A n \in Nodes : active[n] >= t
    BY DEF SporkInv
  <2>2. SporkInv /\ SporkInv' /\ StoredGrows /\ (\A n \in Nodes : stored[n] >= t) => (\A n \in Nodes : stored[n] >= t)'
    BY DEF SporkInv, StoredGrows
  <2> QED BY <1>1, <1>2, <2>1, <2>2, PTL DEF Spo!Spec
<1>6. Spo!Spec => Spo!SettledStays
  BY <1>5 DEF Spo!SettledStays
<1> QED BY <1>4, <1>6

-----------------------------------------------------------------------------
(* The budget *)

BudgetRec ==
    [items : SUBSET BudgetItems, seen : SUBSET BudgetItems, immature : SUBSET BudgetItems, heard : SUBSET BudgetVotes,
     collateral : SUBSET BudgetItems, told : SUBSET (BudgetItems \X Bud!BudgetMasternodes),
     time : [BudgetItems -> [Bud!BudgetMasternodes -> Nat]], orphan : [BudgetItems -> BudgetVotes \cup {NoVote}]]

(* Votes that wait are on their item, and votes that count were sent and are *)
(* on an item that is there.                                                 *)
BudgetOK(b) ==
    /\ b \in BudgetRec
    /\ \A i \in BudgetItems : b.orphan[i] = NoVote \/ b.orphan[i].item = i
    /\ \A i \in BudgetItems, m \in Bud!BudgetMasternodes :
          b.time[i][m] # 0 => i \in b.items /\ [item |-> i, mn |-> m, time |-> b.time[i][m]] \in BudgetVotes

(* From b to c no vote goes back, and items only go, or stay away, when they *)
(* are expired; so that an item that goes does not come back within a step.  *)
Forward(b, c) ==
    \A i \in BudgetItems :
        /\ i \in b.items /\ i \in c.items => \A m \in Bud!BudgetMasternodes : b.time[i][m] <= c.time[i][m]
        /\ i \in b.items /\ i \notin c.items => fee[i] = "expired"
        /\ i \notin b.items /\ i \in c.items => fee[i] # "expired"

(* What every operation does. *)
Leads(b, c) == BudgetOK(c) /\ Forward(b, c) /\ c.collateral = b.collateral

(* The inductive invariant: this run has paid at most one fee for what is    *)
(* in mapCollateralTxids, and every earlier run one.                         *)
BudgetInv ==
    /\ BudgetOK(budget)
    /\ starts \in 0 .. MaxStarts
    /\ paid \in [BudgetItems -> Nat]
    /\ \A i \in BudgetItems : paid[i] <= starts + 1 /\ (i \notin budget.collateral => paid[i] <= starts)

LEMMA LeadsOn ==
    ASSUME NEW b, NEW c, NEW d, BudgetOK(b), Leads(b, c), Leads(c, d)
    PROVE  Leads(b, d)
<1>1. BudgetOK(c) /\ BudgetOK(d) /\ d.collateral = b.collateral
  BY DEF Leads
<1>2. \A i \in BudgetItems, m \in Bud!BudgetMasternodes :
        b.time[i][m] \in Nat /\ c.time[i][m] \in Nat /\ d.time[i][m] \in Nat
  BY <1>1 DEF BudgetOK, BudgetRec
<1>3. Forward(b, c) /\ Forward(c, d)
  BY DEF Leads
<1>4. Forward(b, d)
  <2> SUFFICES ASSUME NEW i \in BudgetItems
               PROVE  /\ i \in b.items /\ i \in d.items => \A m \in Bud!BudgetMasternodes : b.time[i][m] <= d.time[i][m]
                      /\ i \in b.items /\ i \notin d.items => fee[i] = "expired"
                      /\ i \notin b.items /\ i \in d.items => fee[i] # "expired"
    BY DEF Forward
  <2>1. ASSUME i \in b.items, i \in d.items, NEW m \in Bud!BudgetMasternodes PROVE b.time[i][m] <= d.time[i][m]
    <3>1. i \in c.items
      BY <1>3, <2>1 DEF Forward
    <3>2. b.time[i][m] <= c.time[i][m] /\ c.time[i][m] <= d.time[i][m]
      BY <1>3, <2>1, <3>1 DEF Forward
    <3> QED BY <1>2, <3>2
  <2>2. /\ i \in b.items /\ i \notin d.items => fee[i] = "expired"
        /\ i \notin b.items /\ i \in d.items => fee[i] # "expired"
    BY <1>3 DEF Forward
  <2> QED BY <2>1, <2>2
<1> QED BY <1>1, <1>4 DEF Leads

(* Items and votes stay as they are. *)
LEMMA LeadsSame ==
    ASSUME NEW b, BudgetOK(b), NEW c \in BudgetRec, c.items = b.items, c.time = b.time, c.orphan = b.orphan,
           c.collateral = b.collateral
    PROVE  Leads(b, c)
<1>1. \A i \in BudgetItems, m \in Bud!BudgetMasternodes : b.time[i][m] \in Nat
  BY DEF BudgetOK, BudgetRec
<1>2. Forward(b, c)
  BY <1>1 DEF Forward
<1> QED BY <1>2 DEF Leads, BudgetOK

LEMMA VotesAre ==
    ASSUME Bud!BudgetAssumption, NEW v \in BudgetVotes
    PROVE  /\ v.item \in BudgetItems /\ v.mn \in Bud!BudgetMasternodes /\ v.time \in Nat /\ v.time # 0
           /\ v = [item |-> v.item, mn |-> v.mn, time |-> v.time] /\ UpdateMin \in Nat /\ v # NoVote
  BY DEF Bud!BudgetAssumption, Bud!BudgetMasternodes

LEMMA AddOrUpdateVoteLeads ==
    ASSUME Bud!BudgetAssumption, NEW b, BudgetOK(b), NEW v \in BudgetVotes, v.item \in b.items
    PROVE  Leads(b, Bud!AddOrUpdateVote(b, v))
<1>1. CASE ~Bud!Takes(b, v)
  BY <1>1, LeadsSame DEF Bud!AddOrUpdateVote, BudgetOK
<1>2. CASE Bud!Takes(b, v)
  <2> DEFINE c == [b EXCEPT !.time[v.item][v.mn] = v.time, !.told = @ \ {<<v.item, v.mn>>}]
  <2>1. Bud!AddOrUpdateVote(b, v) = c
    BY <1>2 DEF Bud!AddOrUpdateVote
  <2>2. b \in BudgetRec
    BY DEF BudgetOK
  <2>3. /\ v.item \in BudgetItems /\ v.mn \in Bud!BudgetMasternodes /\ v.time \in Nat
        /\ v = [item |-> v.item, mn |-> v.mn, time |-> v.time] /\ UpdateMin \in Nat
    BY VotesAre
  <2>4. b.time \in [BudgetItems -> [Bud!BudgetMasternodes -> Nat]]
    BY <2>2 DEF BudgetRec
  <2>5. c.time = [b.time EXCEPT ![v.item][v.mn] = v.time] /\ c.told \subseteq b.told
    BY <2>2 DEF BudgetRec
  <2>6. c.time \in [BudgetItems -> [Bud!BudgetMasternodes -> Nat]]
    BY <2>3, <2>4, <2>5
  <2>7. \A i \in BudgetItems, m \in Bud!BudgetMasternodes :
          c.time[i][m] = IF i = v.item /\ m = v.mn THEN v.time ELSE b.time[i][m]
    BY <2>3, <2>4, <2>5
  <2>8. c \in BudgetRec /\ c.items = b.items /\ c.orphan = b.orphan /\ c.collateral = b.collateral
    BY <2>2, <2>6 DEF BudgetRec
  <2> HIDE DEF c
  <2>9. BudgetOK(c)
    <3>1. ASSUME NEW i \in BudgetItems, NEW m \in Bud!BudgetMasternodes, c.time[i][m] # 0
          PROVE  i \in c.items /\ [item |-> i, mn |-> m, time |-> c.time[i][m]] \in BudgetVotes
      <4>1. CASE i = v.item /\ m = v.mn
        BY <2>3, <2>7, <2>8, <4>1
      <4>2. CASE ~(i = v.item /\ m = v.mn)
        BY <2>7, <2>8, <3>1, <4>2 DEF BudgetOK
      <4> QED BY <4>1, <4>2
    <3> QED BY <2>8, <3>1 DEF BudgetOK
  <2>10. Forward(b, c)
    <3>1. b.time[v.item][v.mn] = 0 \/ b.time[v.item][v.mn] + UpdateMin <= v.time
      BY <1>2 DEF Bud!Takes
    <3>2. \A i \in BudgetItems, m \in Bud!BudgetMasternodes : b.time[i][m] \in Nat
      BY <2>4
    <3>3. b.time[v.item][v.mn] <= v.time
      BY <2>3, <3>1, <3>2
    <3>4. \A i \in BudgetItems, m \in Bud!BudgetMasternodes : b.time[i][m] <= c.time[i][m]
      BY <2>7, <3>2, <3>3
    <3> QED BY <2>8, <3>4 DEF Forward
  <2> QED BY <2>1, <2>8, <2>9, <2>10 DEF Leads
<1> QED BY <1>1, <1>2

LEMMA UpdateLeads ==
    ASSUME Bud!BudgetAssumption, NEW b, BudgetOK(b), NEW v \in BudgetVotes
    PROVE  Leads(b, Bud!Update(b, v))
<1>1. CASE v.item \in b.items
  BY <1>1, AddOrUpdateVoteLeads DEF Bud!Update
<1>2. CASE v.item \notin b.items /\ synced # "finished"
  BY <1>2, LeadsSame DEF Bud!Update, BudgetOK
<1>3. CASE v.item \notin b.items /\ synced = "finished"
  <2> DEFINE c == [b EXCEPT !.orphan[v.item] = v]
  <2>1. Bud!Update(b, v) = c
    BY <1>3 DEF Bud!Update
  <2>2. b \in BudgetRec /\ v.item \in BudgetItems
    BY VotesAre DEF BudgetOK
  <2>3. c.orphan = [b.orphan EXCEPT ![v.item] = v] /\ b.orphan \in [BudgetItems -> BudgetVotes \cup {NoVote}]
    BY <2>2 DEF BudgetRec
  <2>4. c.orphan \in [BudgetItems -> BudgetVotes \cup {NoVote}] /\ \A i \in BudgetItems : c.orphan[i] = IF i = v.item THEN v ELSE b.orphan[i]
    BY <2>2, <2>3
  <2>5. c \in BudgetRec /\ c.items = b.items /\ c.time = b.time /\ c.collateral = b.collateral
    BY <2>2, <2>4 DEF BudgetRec
  <2> HIDE DEF c
  <2>6. BudgetOK(c)
    BY <2>4, <2>5 DEF BudgetOK
  <2>7. Forward(b, c)
    <3>1. \A i \in BudgetItems, m \in Bud!BudgetMasternodes : b.time[i][m] \in Nat
      BY <2>2 DEF BudgetRec
    <3> QED BY <2>5, <3>1 DEF Forward
  <2> QED BY <2>1, <2>5, <2>6, <2>7 DEF Leads
<1> QED BY <1>1, <1>2, <1>3

LEMMA CheckOrphanVotesLeads ==
    ASSUME Bud!BudgetAssumption, NEW b, BudgetOK(b), NEW clock \in BOOLEAN
    PROVE  Leads(b, Bud!CheckOrphanVotes(b, clock))
<1> DEFINE taken == Bud!Adopted(b, clock)
           c == Bud!CheckOrphanVotes(b, clock)
<1>1. /\ b \in BudgetRec /\ b.time \in [BudgetItems -> [Bud!BudgetMasternodes -> Nat]]
      /\ b.orphan \in [BudgetItems -> BudgetVotes \cup {NoVote}] /\ b.told \subseteq BudgetItems \X Bud!BudgetMasternodes
      /\ b.items \subseteq BudgetItems
  BY DEF BudgetOK, BudgetRec
<1>2. ASSUME NEW i \in taken
      PROVE  /\ i \in b.items /\ i \in BudgetItems /\ b.orphan[i] \in BudgetVotes /\ b.orphan[i].item = i
             /\ b.orphan[i].mn \in Bud!BudgetMasternodes /\ b.orphan[i].time \in Nat
             /\ b.time[i][b.orphan[i].mn] <= b.orphan[i].time
             /\ [item |-> i, mn |-> b.orphan[i].mn, time |-> b.orphan[i].time] \in BudgetVotes
  <2>1. i \in b.items /\ i \in BudgetItems /\ b.orphan[i] # NoVote /\ Bud!Takes(b, b.orphan[i])
    BY <1>1, <1>2 DEF Bud!Adopted
  <2>2. b.orphan[i] \in BudgetVotes /\ b.orphan[i].item = i
    BY <1>1, <2>1 DEF BudgetOK
  <2>3. /\ b.orphan[i].mn \in Bud!BudgetMasternodes /\ b.orphan[i].time \in Nat /\ UpdateMin \in Nat
        /\ b.orphan[i] = [item |-> i, mn |-> b.orphan[i].mn, time |-> b.orphan[i].time]
    BY <2>2, VotesAre
  <2>4. b.time[i][b.orphan[i].mn] = 0 \/ b.time[i][b.orphan[i].mn] + UpdateMin <= b.orphan[i].time
    BY <2>1, <2>2 DEF Bud!Takes
  <2>5. b.time[i][b.orphan[i].mn] \in Nat
    BY <1>1, <2>1, <2>3
  <2>6. b.time[i][b.orphan[i].mn] <= b.orphan[i].time
    BY <2>3, <2>4, <2>5
  <2> QED BY <2>1, <2>2, <2>3, <2>6
<1>3. /\ c.orphan = [i \in BudgetItems |-> IF i \in taken THEN NoVote ELSE b.orphan[i]]
      /\ c.time = [i \in BudgetItems |-> [m \in Bud!BudgetMasternodes |->
                     IF i \in taken /\ b.orphan[i].mn = m THEN b.orphan[i].time ELSE b.time[i][m]]]
      /\ c.told \subseteq b.told /\ c.items = b.items /\ c.collateral = b.collateral
      /\ c.seen = b.seen /\ c.immature = b.immature /\ c.heard = b.heard
      /\ c = [b EXCEPT !.orphan = c.orphan, !.time = c.time, !.told = c.told]
  BY <1>1 DEF Bud!CheckOrphanVotes, BudgetRec
<1> HIDE DEF c, taken
<1>4. c.orphan \in [BudgetItems -> BudgetVotes \cup {NoVote}]
  BY <1>1, <1>3
<1>5. \A i \in BudgetItems, m \in Bud!BudgetMasternodes :
        c.time[i][m] = IF i \in taken /\ b.orphan[i].mn = m THEN b.orphan[i].time ELSE b.time[i][m]
  BY <1>3
<1>6. c.time \in [BudgetItems -> [Bud!BudgetMasternodes -> Nat]]
  <2>1. \A i \in BudgetItems, m \in Bud!BudgetMasternodes :
          (IF i \in taken /\ b.orphan[i].mn = m THEN b.orphan[i].time ELSE b.time[i][m]) \in Nat
    BY <1>1, <1>2
  <2> QED BY <1>3, <2>1
<1>7. c \in BudgetRec
  BY <1>1, <1>3, <1>4, <1>6 DEF BudgetRec
<1>8. BudgetOK(c)
  <2>1. \A i \in BudgetItems : c.orphan[i] = NoVote \/ c.orphan[i].item = i
    BY <1>3 DEF BudgetOK
  <2>2. ASSUME NEW i \in BudgetItems, NEW m \in Bud!BudgetMasternodes, c.time[i][m] # 0
        PROVE  i \in c.items /\ [item |-> i, mn |-> m, time |-> c.time[i][m]] \in BudgetVotes
    <3>1. CASE i \in taken /\ b.orphan[i].mn = m
      BY <1>2, <1>3, <1>5, <3>1
    <3>2. CASE ~(i \in taken /\ b.orphan[i].mn = m)
      BY <1>3, <1>5, <2>2, <3>2 DEF BudgetOK
    <3> QED BY <3>1, <3>2
  <2> QED BY <1>7, <2>1, <2>2 DEF BudgetOK
<1>9. Forward(b, c)
  <2>1. ASSUME NEW i \in BudgetItems, NEW m \in Bud!BudgetMasternodes PROVE b.time[i][m] <= c.time[i][m]
    <3>1. CASE i \in taken /\ b.orphan[i].mn = m
      BY <1>2, <1>5, <3>1
    <3>2. CASE ~(i \in taken /\ b.orphan[i].mn = m)
      <4>1. c.time[i][m] = b.time[i][m]
        BY <1>5, <3>2
      <4>2. b.time[i][m] \in Nat
        BY <1>1
      <4> QED BY <4>1, <4>2
    <3> QED BY <3>1, <3>2
  <2> QED BY <1>3, <2>1 DEF Forward
<1> QED BY <1>3, <1>8, <1>9 DEF Leads, c

(* Items are added unless they are expired, and their votes are those that   *)
(* were there.                                                               *)
LEMMA LeadsMore ==
    ASSUME NEW b, BudgetOK(b), NEW c \in BudgetRec, b.items \subseteq c.items, c.time = b.time, c.orphan = b.orphan,
           c.collateral = b.collateral, \A i \in c.items \ b.items : fee[i] # "expired"
    PROVE  Leads(b, c)
<1>1. \A i \in BudgetItems, m \in Bud!BudgetMasternodes : b.time[i][m] \in Nat
  BY DEF BudgetOK, BudgetRec
<1>2. Forward(b, c)
  BY <1>1 DEF Forward
<1>3. BudgetOK(c)
  BY DEF BudgetOK
<1> QED BY <1>2, <1>3 DEF Leads

LEMMA AddItemLeads ==
    ASSUME NEW b, BudgetOK(b), NEW i \in BudgetItems
    PROVE  Leads(b, Bud!AddItem(b, i))
<1> DEFINE c == Bud!AddItem(b, i)
<1>1. b \in BudgetRec
  BY DEF BudgetOK
<1>2. /\ c \in BudgetRec /\ b.items \subseteq c.items /\ c.time = b.time /\ c.orphan = b.orphan
      /\ c.collateral = b.collateral /\ \A j \in c.items \ b.items : fee[j] # "expired"
  BY <1>1 DEF Bud!AddItem, BudgetRec
<1> HIDE DEF c
<1>3. Leads(b, c)
  BY <1>2, LeadsMore
<1> QED BY <1>3 DEF c

LEMMA MatureLeads == ASSUME NEW b, BudgetOK(b) PROVE Leads(b, Bud!Mature(b))
<1> DEFINE c == Bud!Mature(b)
<1>1. b \in BudgetRec /\ b.immature \subseteq BudgetItems /\ b.items \subseteq BudgetItems
  BY DEF BudgetOK, BudgetRec
<1>2. /\ c \in BudgetRec /\ b.items \subseteq c.items /\ c.time = b.time /\ c.orphan = b.orphan
      /\ c.collateral = b.collateral /\ \A j \in c.items \ b.items : fee[j] # "expired"
  BY <1>1 DEF Bud!Mature, BudgetRec
<1> HIDE DEF c
<1>3. Leads(b, c)
  BY <1>2, LeadsMore
<1> QED BY <1>3 DEF c

(* ClearSeen, ResetSync and MarkSynced change neither items nor votes. *)
LEMMA SeenLeads ==
    ASSUME NEW b, BudgetOK(b)
    PROVE  /\ Leads(b, Bud!ClearSeen(b)) /\ Leads(b, Bud!ResetSync(b)) /\ Leads(b, Bud!MarkSynced(b))
           /\ Leads(b, b)
<1>1. b \in BudgetRec /\ b.items \subseteq BudgetItems /\ b.seen \subseteq BudgetItems
  BY DEF BudgetOK, BudgetRec
<1>2. Bud!VotesOf(b, b.seen \cap b.items) \subseteq BudgetItems \X Bud!BudgetMasternodes
  BY <1>1 DEF Bud!VotesOf
<1> DEFINE c == Bud!ClearSeen(b)
           d == Bud!ResetSync(b)
           e == Bud!MarkSynced(b)
<1>3. c \in BudgetRec /\ c.items = b.items /\ c.time = b.time /\ c.orphan = b.orphan /\ c.collateral = b.collateral
  BY <1>1 DEF Bud!ClearSeen, BudgetRec
<1>4. d \in BudgetRec /\ d.items = b.items /\ d.time = b.time /\ d.orphan = b.orphan /\ d.collateral = b.collateral
  BY <1>1 DEF Bud!ResetSync, BudgetRec
<1>5. e \in BudgetRec /\ e.items = b.items /\ e.time = b.time /\ e.orphan = b.orphan /\ e.collateral = b.collateral
  BY <1>1, <1>2 DEF Bud!MarkSynced, BudgetRec
<1> HIDE DEF c, d, e
<1>6. Leads(b, c) /\ Leads(b, d) /\ Leads(b, e) /\ Leads(b, b)
  BY <1>1, <1>3, <1>4, <1>5, LeadsSame
<1> QED BY <1>6 DEF c, d, e

(* What goes takes its votes with it. *)
LEMMA CheckAndRemoveLeads == ASSUME NEW b, BudgetOK(b) PROVE Leads(b, Bud!CheckAndRemove(b))
<1> DEFINE out == {i \in b.items : fee[i] = "expired"}
           c == Bud!CheckAndRemove(b)
<1>1. /\ b \in BudgetRec /\ b.time \in [BudgetItems -> [Bud!BudgetMasternodes -> Nat]]
      /\ b.told \subseteq BudgetItems \X Bud!BudgetMasternodes /\ b.items \subseteq BudgetItems
  BY DEF BudgetOK, BudgetRec
<1>2. Bud!Empty.time = [i \in BudgetItems |-> [m \in Bud!BudgetMasternodes |-> 0]]
  BY DEF Bud!Empty
<1>3. /\ c.items = b.items \ out /\ c.told \subseteq b.told /\ c.orphan = b.orphan /\ c.collateral = b.collateral
      /\ c.time = [i \in BudgetItems |-> IF i \in out THEN Bud!Empty.time[i] ELSE b.time[i]]
      /\ c = [b EXCEPT !.items = c.items, !.time = c.time, !.told = c.told]
  BY <1>1 DEF Bud!CheckAndRemove, BudgetRec
<1> HIDE DEF c
<1>4. \A i \in BudgetItems, m \in Bud!BudgetMasternodes : c.time[i][m] = IF i \in out THEN 0 ELSE b.time[i][m]
  BY <1>2, <1>3
<1>5. c.time \in [BudgetItems -> [Bud!BudgetMasternodes -> Nat]]
  BY <1>1, <1>2, <1>3
<1>6. c \in BudgetRec
  BY <1>1, <1>3, <1>5 DEF BudgetRec
<1>7. BudgetOK(c)
  BY <1>3, <1>4, <1>6 DEF BudgetOK
<1>8. Forward(b, c)
  BY <1>1, <1>3, <1>4 DEF Forward
<1> QED BY <1>3, <1>7, <1>8 DEF Leads, c

LEMMA TendLeads == ASSUME NEW b, BudgetOK(b), NEW reset \in BOOLEAN PROVE Leads(b, Bud!Tend(b, reset))
<1> DEFINE x == Bud!ClearSeen(b)
           y == IF reset THEN Bud!ResetSync(x) ELSE b
           z == IF synced = "finished" THEN Bud!MarkSynced(y) ELSE b
           w == Bud!CheckAndRemove(z)
<1>1. Leads(b, x) /\ BudgetOK(x)
  BY SeenLeads DEF Leads
<1>2. Leads(b, y) /\ BudgetOK(y)
  <2> HIDE DEF x
  <2>1. Leads(x, Bud!ResetSync(x))
    BY <1>1, SeenLeads
  <2>2. Leads(b, Bud!ResetSync(x))
    BY <1>1, <2>1, LeadsOn
  <2> QED BY <2>2, SeenLeads DEF Leads
<1>3. Leads(b, z) /\ BudgetOK(z)
  <2> HIDE DEF y
  <2>1. Leads(y, Bud!MarkSynced(y))
    BY <1>2, SeenLeads
  <2>2. Leads(b, Bud!MarkSynced(y))
    BY <1>2, <2>1, LeadsOn
  <2> QED BY <2>2, SeenLeads DEF Leads
<1>4. Leads(b, w) /\ BudgetOK(w)
  <2> HIDE DEF z
  <2>1. Leads(z, w)
    BY <1>3, CheckAndRemoveLeads
  <2> QED BY <1>3, <2>1, LeadsOn DEF Leads
<1>5. Leads(b, Bud!Mature(w))
  <2> HIDE DEF w
  <2>1. Leads(w, Bud!Mature(w))
    BY <1>4, MatureLeads
  <2> QED BY <1>4, <2>1, LeadsOn
<1> QED BY <1>5 DEF Bud!Tend

(* SubmitFinalBudget pays only for what is not in mapCollateralTxids, and    *)
(* puts it there.                                                            *)
LEMMA SubmitLeads ==
    ASSUME BudgetOK(budget), NEW i \in BudgetItems, NEW deep \in BOOLEAN
    PROVE  /\ BudgetOK(Bud!SubmitFinalBudget(i, deep)) /\ Forward(budget, Bud!SubmitFinalBudget(i, deep))
           /\ Bud!SubmitFinalBudget(i, deep).collateral =
                IF Bud!Pays(i) THEN budget.collateral \cup {i} ELSE budget.collateral
           /\ Bud!Pays(i) => i \notin budget.collateral
<1>1. budget \in BudgetRec /\ \A j \in BudgetItems, m \in Bud!BudgetMasternodes : budget.time[j][m] \in Nat
  BY DEF BudgetOK, BudgetRec
<1>2. Bud!Pays(i) => i \notin budget.collateral
  BY DEF Bud!Pays
<1>3. CASE Bud!Pays(i)
  <2> DEFINE c == [budget EXCEPT !.collateral = @ \cup {i}]
  <2>1. Bud!SubmitFinalBudget(i, deep) = c
    BY <1>3 DEF Bud!SubmitFinalBudget, Bud!Pays
  <2>2. /\ c \in BudgetRec /\ c.items = budget.items /\ c.time = budget.time /\ c.orphan = budget.orphan
        /\ c.collateral = budget.collateral \cup {i}
    BY <1>1 DEF BudgetRec
  <2> HIDE DEF c
  <2>3. BudgetOK(c)
    BY <2>2 DEF BudgetOK
  <2>4. Forward(budget, c)
    BY <1>1, <2>2 DEF Forward
  <2> QED BY <1>2, <1>3, <2>1, <2>2, <2>3, <2>4
<1>4. CASE /\ ~Bud!Pays(i)
           /\ Bud!SubmitFinalBudget(i, deep) = Bud!AddItem([budget EXCEPT !.seen = @ \cup {i}], i)
  <2> DEFINE c == [budget EXCEPT !.seen = @ \cup {i}]
  <2>1. /\ c \in BudgetRec /\ c.items = budget.items /\ c.time = budget.time /\ c.orphan = budget.orphan
        /\ c.collateral = budget.collateral
    BY <1>1 DEF BudgetRec
  <2> HIDE DEF c
  <2>2. Leads(budget, c) /\ BudgetOK(c)
    BY <2>1, LeadsSame DEF Leads
  <2>3. Leads(c, Bud!AddItem(c, i))
    BY <2>2, AddItemLeads
  <2>4. Leads(budget, Bud!AddItem(c, i))
    BY <2>2, <2>3, LeadsOn
  <2> QED BY <1>2, <1>4, <2>4 DEF Leads, c
<1>5. CASE ~Bud!Pays(i) /\ Bud!SubmitFinalBudget(i, deep) = budget
  BY <1>2, <1>5, SeenLeads DEF Leads
<1>6. ~Bud!Pays(i) => Bud!SubmitFinalBudget(i, deep) \in {budget, Bud!AddItem([budget EXCEPT !.seen = @ \cup {i}], i)}
  BY DEF Bud!SubmitFinalBudget
<1> QED BY <1>3, <1>4, <1>5, <1>6

(* What the action property asks of a step. *)
VotesForward ==
    \A i \in budget.items \cap budget'.items, m \in Bud!BudgetMasternodes :
        starts' = starts => budget.time[i][m] <= budget'.time[i][m]

LEMMA ForwardIs == ASSUME BudgetOK(budget), Forward(budget, budget') PROVE VotesForward
  BY DEF Forward, VotesForward, BudgetOK, BudgetRec

(* A step that only leads on. *)
LEMMA LeadsHolds ==
    ASSUME BudgetInv, Leads(budget, budget'), UNCHANGED <<paid, starts>>
    PROVE  BudgetInv' /\ VotesForward
<1>1. BudgetOK(budget') /\ budget'.collateral = budget.collateral /\ Forward(budget, budget')
  BY DEF Leads
<1>2. BudgetOK(budget)'
  BY <1>1 DEF BudgetOK, BudgetRec, Bud!BudgetMasternodes
<1> QED BY <1>1, <1>2, ForwardIs DEF BudgetInv

LEMMA ReceiveItemHolds ==
    ASSUME Bud!BudgetAssumption, BudgetInv, NEW i \in BudgetItems, NEW clock \in BOOLEAN, Bud!ReceiveItem(i, clock)
    PROVE  BudgetInv' /\ VotesForward
<1>1. BudgetOK(budget) /\ budget \in BudgetRec
  BY DEF BudgetInv, BudgetOK
<1>2. UNCHANGED <<paid, starts>>
  BY DEF Bud!ReceiveItem
<1> DEFINE c == [budget EXCEPT !.seen = @ \cup {i}]
           d == [budget EXCEPT !.immature = @ \cup {i}]
<1>3. c \in BudgetRec /\ c.items = budget.items /\ c.time = budget.time /\ c.orphan = budget.orphan /\ c.collateral = budget.collateral
  BY <1>1 DEF BudgetRec
<1>4. d \in BudgetRec /\ d.items = budget.items /\ d.time = budget.time /\ d.orphan = budget.orphan /\ d.collateral = budget.collateral
  BY <1>1 DEF BudgetRec
<1>5. budget' \in {c, d, Bud!CheckOrphanVotes(Bud!AddItem(c, i), clock)}
  BY DEF Bud!ReceiveItem
<1> HIDE DEF c, d
<1>6. Leads(budget, c) /\ Leads(budget, d) /\ BudgetOK(c)
  BY <1>1, <1>3, <1>4, LeadsSame DEF Leads
<1>7. Leads(c, Bud!AddItem(c, i))
  BY <1>6, AddItemLeads
<1>8. Leads(budget, Bud!AddItem(c, i)) /\ BudgetOK(Bud!AddItem(c, i))
  BY <1>1, <1>6, <1>7, LeadsOn DEF Leads
<1>9. Leads(Bud!AddItem(c, i), Bud!CheckOrphanVotes(Bud!AddItem(c, i), clock))
  BY <1>8, CheckOrphanVotesLeads
<1>10. Leads(budget, Bud!CheckOrphanVotes(Bud!AddItem(c, i), clock))
  BY <1>1, <1>8, <1>9, LeadsOn
<1>11. Leads(budget, budget')
  BY <1>5, <1>6, <1>10
<1> QED BY <1>2, <1>11, LeadsHolds

LEMMA ReceiveVoteHolds ==
    ASSUME Bud!BudgetAssumption, BudgetInv, NEW v \in BudgetVotes, NEW fine \in BOOLEAN, Bud!ReceiveVote(v, fine)
    PROVE  BudgetInv' /\ VotesForward
<1> DEFINE c == [budget EXCEPT !.heard = @ \cup {v}]
<1>1. BudgetOK(budget) /\ budget \in BudgetRec
  BY DEF BudgetInv, BudgetOK
<1>2. UNCHANGED <<paid, starts>> /\ budget' = IF fine THEN Bud!Update(c, v) ELSE c
  BY DEF Bud!ReceiveVote
<1>3. c \in BudgetRec /\ c.items = budget.items /\ c.time = budget.time /\ c.orphan = budget.orphan /\ c.collateral = budget.collateral
  BY <1>1 DEF BudgetRec
<1> HIDE DEF c
<1>4. Leads(budget, c) /\ BudgetOK(c)
  BY <1>1, <1>3, LeadsSame DEF Leads
<1>5. Leads(c, Bud!Update(c, v))
  BY <1>4, UpdateLeads
<1>6. Leads(budget, Bud!Update(c, v))
  BY <1>1, <1>4, <1>5, LeadsOn
<1>7. Leads(budget, budget')
  BY <1>2, <1>4, <1>6
<1> QED BY <1>2, <1>7, LeadsHolds

LEMMA NewBlockHolds ==
    ASSUME Bud!BudgetAssumption, BudgetInv, NEW i \in BudgetItems, NEW deep \in BOOLEAN, NEW full \in BOOLEAN,
           NEW reset \in BOOLEAN, Bud!NewBlock(i, deep, full, reset)
    PROVE  BudgetInv' /\ VotesForward
<1> DEFINE c == Bud!SubmitFinalBudget(i, deep)
<1>1. /\ budget' = IF full THEN Bud!Tend(c, reset) ELSE c
      /\ paid' = IF Bud!Pays(i) THEN [paid EXCEPT ![i] = @ + 1] ELSE paid
      /\ starts' = starts
  BY DEF Bud!NewBlock
<1>2. /\ BudgetOK(c) /\ Forward(budget, c) /\ (Bud!Pays(i) => i \notin budget.collateral)
      /\ c.collateral = IF Bud!Pays(i) THEN budget.collateral \cup {i} ELSE budget.collateral
  BY SubmitLeads DEF BudgetInv
<1> HIDE DEF c
<1>3. Leads(c, budget')
  BY <1>1, <1>2, TendLeads, SeenLeads
<1>4. BudgetOK(budget') /\ budget'.collateral = c.collateral
  BY <1>3 DEF Leads
<1>5. Forward(budget, budget')
  <2> DEFINE e == [budget EXCEPT !.collateral = c.collateral]
  <2>1. budget \in BudgetRec /\ c.collateral \subseteq BudgetItems
    BY <1>2 DEF BudgetInv, BudgetOK, BudgetRec
  <2>2. /\ e.items = budget.items /\ e.time = budget.time /\ e.orphan = budget.orphan /\ e.collateral = c.collateral
        /\ e \in BudgetRec
    BY <2>1 DEF BudgetRec
  <2> HIDE DEF e
  <2>3. BudgetOK(e) /\ Forward(e, c)
    BY <1>2, <2>2 DEF BudgetOK, Forward, BudgetInv
  <2>4. Leads(e, c)
    BY <1>2, <2>2, <2>3 DEF Leads
  <2>5. Leads(e, budget')
    BY <1>3, <2>3, <2>4, LeadsOn
  <2> QED BY <2>2, <2>5 DEF Leads, Forward
<1>6. BudgetOK(budget)'
  BY <1>4 DEF BudgetOK, BudgetRec, Bud!BudgetMasternodes
<1>7. /\ paid' \in [BudgetItems -> Nat]
      /\ \A j \in BudgetItems : paid'[j] <= starts' + 1 /\ (j \notin budget'.collateral => paid'[j] <= starts')
  <2>1. /\ paid \in [BudgetItems -> Nat] /\ starts \in Nat
        /\ \A j \in BudgetItems : paid[j] <= starts + 1 /\ (j \notin budget.collateral => paid[j] <= starts)
    BY DEF BudgetInv
  <2>2. CASE Bud!Pays(i)
    BY <1>1, <1>2, <1>4, <2>1, <2>2
  <2>3. CASE ~Bud!Pays(i)
    BY <1>1, <1>2, <1>4, <2>1, <2>3
  <2> QED BY <2>2, <2>3
<1> QED BY <1>1, <1>5, <1>6, <1>7, ForwardIs DEF BudgetInv

(* A start takes over the items and votes of the dump, or nothing, and with  *)
(* it the right to pay once more.                                            *)
LEMMA BudgetRestartHolds ==
    ASSUME Bud!BudgetAssumption, BudgetInv, NEW dump \in BOOLEAN, Bud!Restart(dump)
    PROVE  BudgetInv' /\ VotesForward
<1> DEFINE kept == [budget EXCEPT !.immature = {}, !.collateral = {}, !.told = {}]
           file == IF dump THEN kept ELSE Bud!Empty
<1>1. /\ starts < MaxStarts /\ starts' = starts + 1 /\ paid' = paid
      /\ budget' = Bud!ClearSeen(Bud!ResetSync(Bud!CheckAndRemove(file)))
  BY DEF Bud!Restart
<1>2. budget \in BudgetRec /\ starts \in 0 .. MaxStarts /\ MaxStarts \in Nat /\ paid \in [BudgetItems -> Nat]
  BY DEF BudgetInv, BudgetOK, Bud!BudgetAssumption
<1>3. BudgetOK(kept)
  <2>1. kept \in BudgetRec /\ kept.items = budget.items /\ kept.time = budget.time /\ kept.orphan = budget.orphan
    BY <1>2 DEF BudgetRec
  <2> HIDE DEF kept
  <2> QED BY <2>1 DEF BudgetInv, BudgetOK
<1>4. BudgetOK(Bud!Empty)
  BY DEF Bud!Empty, BudgetOK, BudgetRec
<1>5. BudgetOK(file)
  BY <1>3, <1>4
<1> HIDE DEF kept, file
<1>6. BudgetOK(Bud!CheckAndRemove(file))
  BY <1>5, CheckAndRemoveLeads DEF Leads
<1>7. BudgetOK(Bud!ResetSync(Bud!CheckAndRemove(file)))
  BY <1>6, SeenLeads DEF Leads
<1>8. BudgetOK(budget')
  BY <1>1, <1>7, SeenLeads DEF Leads
<1>9. BudgetOK(budget)'
  BY <1>8 DEF BudgetOK, BudgetRec, Bud!BudgetMasternodes
<1>10. starts' \in 0 .. MaxStarts /\ \A j \in BudgetItems : paid'[j] <= starts' /\ paid'[j] <= starts' + 1
  BY <1>1, <1>2 DEF BudgetInv
<1>11. VotesForward
  BY <1>1, <1>2 DEF VotesForward
<1> QED BY <1>1, <1>2, <1>9, <1>10, <1>11 DEF BudgetInv

LEMMA BudgetInvInit == ASSUME Bud!BudgetAssumption, Bud!Init PROVE BudgetInv
<1>1. BudgetOK(Bud!Empty)
  BY DEF Bud!Empty, BudgetOK, BudgetRec
<1>2. budget = Bud!Empty /\ starts = 0 /\ paid = [i \in BudgetItems |-> 0]
  BY DEF Bud!Init
<1>3. starts \in 0 .. MaxStarts
  BY <1>2 DEF Bud!BudgetAssumption
<1> QED BY <1>1, <1>2, <1>3 DEF BudgetInv

LEMMA BudgetInvStep ==
    ASSUME Bud!BudgetAssumption, BudgetInv, [Bud!Next]_(Bud!budgetVars)
    PROVE  BudgetInv' /\ [VotesForward]_(Bud!budgetVars)
<1>1. CASE Bud!CheckBudgets
  <2>1. Leads(budget, budget') /\ UNCHANGED <<paid, starts>>
    BY <1>1, CheckAndRemoveLeads DEF Bud!CheckBudgets, BudgetInv
  <2> QED BY <2>1, LeadsHolds
<1>2. CASE UNCHANGED <<budget, paid, starts>>
  <2>1. Leads(budget, budget')
    BY <1>2, SeenLeads DEF BudgetInv
  <2> QED BY <1>2, <2>1, LeadsHolds
<1>3. ASSUME NEW i \in BudgetItems, Bud!Confirm(i) \/ Bud!ExpireItem(i) PROVE UNCHANGED <<budget, paid, starts>>
  BY <1>3 DEF Bud!Confirm, Bud!ExpireItem
<1>4. ASSUME NEW to, Bud!SyncTurns(to) PROVE UNCHANGED <<budget, paid, starts>>
  BY <1>4 DEF Bud!SyncTurns
<1>5. CASE UNCHANGED Bud!budgetVars
  BY <1>2, <1>5 DEF Bud!budgetVars
<1>6. CASE Bud!Next
  BY <1>1, <1>2, <1>3, <1>4, <1>6, ReceiveItemHolds, ReceiveVoteHolds, NewBlockHolds, BudgetRestartHolds
     DEF Bud!Next, Bud!NewBlockStep
<1> QED BY <1>5, <1>6

(* Votes on the budget are those that were sent and only move forward, and   *)
(* the fee of a budget is paid at most once per run of the program, for any  *)
(* items, masternodes, votes and order of messages, blocks, resets, expiry   *)
(* and restarts.                                                             *)
THEOREM BudgetCorrect ==
    ASSUME Bud!BudgetAssumption
    PROVE  Bud!Spec => [](Bud!TypeOK /\ Bud!FeePaidOnce) /\ Bud!VotesMoveForward
<1>1. Bud!Init => BudgetInv
  BY BudgetInvInit
<1>2. BudgetInv /\ [Bud!Next]_(Bud!budgetVars) => BudgetInv' /\ [VotesForward]_(Bud!budgetVars)
  BY BudgetInvStep
<1>3. BudgetInv => Bud!TypeOK /\ Bud!FeePaidOnce
  <2> SUFFICES ASSUME BudgetInv PROVE Bud!TypeOK /\ Bud!FeePaidOnce
    OBVIOUS
  <2>1. BudgetOK(budget) /\ budget \in BudgetRec
    BY DEF BudgetInv, BudgetOK
  <2>2. \A i \in BudgetItems : budget.orphan[i] \in {v \in BudgetVotes : v.item = i} \cup {NoVote}
    BY <2>1 DEF BudgetOK, BudgetRec
  <2>3. /\ budget.items \cup budget.seen \cup budget.immature \cup budget.collateral \subseteq BudgetItems
        /\ budget.heard \subseteq BudgetVotes /\ budget.told \subseteq BudgetItems \X Bud!BudgetMasternodes
    BY <2>1 DEF BudgetRec
  <2> QED BY <2>1, <2>2, <2>3 DEF BudgetInv, BudgetOK, Bud!TypeOK, Bud!FeePaidOnce
<1> QED
  BY <1>1, <1>2, <1>3, PTL DEF Bud!Spec, Bud!VotesMoveForward, VotesForward
==============================================================================
