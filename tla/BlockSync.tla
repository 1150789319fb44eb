------------------------------ MODULE BlockSync ------------------------------
(* How a node gets the blocks of its peers (main.cpp): getblocks, the        *)
(* inventory of a connection, getdata one block at a time, and the inv that  *)
(* makes the node ask for the next batch.                                    *)
(*                                                                           *)
(* A block is its height on the branch of the peers; have is the last block  *)
(* of it that the node has.  A block whose parent is not known is dropped,   *)
(* so the node has all blocks up to have and none above.  A peer goes on by  *)
(* one block, or by several at once when it changes to another branch; it    *)
(* announces the last one.  Each connection is a pair of ordered streams.    *)
(*                                                                           *)
(* The node is not importing or reindexing: fImporting and fReindex are      *)
(* FALSE, or inv and block messages would be ignored.                        *)
EXTENDS Integers, Sequences, FiniteSetsExt, SequencesExt

CONSTANTS
    Peers,      \* the peers of the node
    Limit,      \* the 500 blocks of an answer to getblocks
    MaxKnown,   \* the size of setInventoryKnown
    FirstTip,   \* the tip of the peers when they connect
    MaxTip,     \* bound on the tips
    Recent      \* blocks from here on are less than 6 hours old

BlockSyncAssumption ==
    /\ Limit \in Nat \ {0} /\ MaxKnown \in Nat \ {0} /\ Recent \in Nat
    /\ FirstTip \in Nat /\ MaxTip \in Nat /\ FirstTip <= MaxTip

VARIABLES
    have,       \* the blocks of mapBlockIndex: the heights up to this one
    tip,        \* the height of each peer
    conn,       \* what node and peer keep of their connection
    toPeer,     \* messages on their way to a peer
    toNode,     \* and on their way to the node
    synced      \* the node has been complete since the peers last changed branch

vars == <<have, tip, conn, toPeer, toNode, synced>>

None == 0   \* no hash; the genesis block is never asked for

Heights == 1 .. MaxTip
Messages ==
    [type : {"getblocks"}, from : 0 .. MaxTip, stop : 0 .. MaxTip]
        \cup [type : {"getdata", "inv"}, blocks : Seq(Heights)] \cup [type : {"block"}, block : Heights]

Unconnected ==
    [started |-> FALSE,     \* fSyncStarted, at the node
     requested |-> {},      \* vBlockRequested, at the node
     toSend |-> <<>>,       \* vInventoryToSend, at the peer
     known |-> <<>>,        \* setInventoryKnown, at the peer, oldest first
     continue |-> None,     \* hashContinue, at the peer
     getdata |-> <<>>]      \* vRecvGetData, at the peer

Init ==
    /\ have \in 0 .. FirstTip
    /\ tip = [p \in Peers |-> FirstTip]
    /\ conn = [p \in Peers |-> Unconnected]
    /\ toPeer = [p \in Peers |-> <<>>] /\ toNode = [p \in Peers |-> <<>>]
    /\ synced = FALSE

(* Nothing is left to be sent or read. *)
AtRest ==
    \A p \in Peers :
        /\ toPeer[p] = <<>> /\ toNode[p] = <<>>
        /\ conn[p].toSend = <<>> /\ conn[p].getdata = <<>>

(* The node has what its peers have. *)
Complete == \A p \in Peers : conn[p].started /\ have >= tip[p]

(* Only for the properties: that the node is complete is noted when it is    *)
(* left.                                                                     *)
Noted == synced' = (synced \/ (AtRest /\ Complete))

Send(channel, p, msg) == channel' = [channel EXCEPT ![p] = Append(@, msg)]
GetBlocks(stop) == [type |-> "getblocks", from |-> have, stop |-> stop]

-----------------------------------------------------------------------------
(* The node. *)

(* SendMessages: the first request goes to one peer, and to the others when  *)
(* the best block is recent.                                                 *)
StartSync(p) ==
    /\ ~conn[p].started
    /\ have >= Recent \/ \A q \in Peers : ~conn[q].started
    /\ conn' = [conn EXCEPT ![p].started = TRUE]
    /\ Send(toPeer, p, GetBlocks(None))
    /\ Noted /\ UNCHANGED <<have, tip, toNode>>

(* What the node does not have of an inventory. *)
Fetched(blocks) == SelectSeq(blocks, LAMBDA b : b > have)

(* inv: all blocks that the node does not have are asked for. *)
ReceiveInv(p) ==
    /\ toNode[p] # <<>> /\ Head(toNode[p]).type = "inv"
    /\ LET vToFetch == Fetched(Head(toNode[p]).blocks)
       IN  IF vToFetch = <<>> THEN UNCHANGED toPeer
           ELSE Send(toPeer, p, [type |-> "getdata", blocks |-> vToFetch])
    /\ toNode' = [toNode EXCEPT ![p] = Tail(@)]
    /\ Noted /\ UNCHANGED <<have, tip, conn>>

(* block: without its parent it is dropped, and asked for up to it, or up to *)
(* its parent if it was dropped before.                                      *)
ReceiveBlock(p) ==
    /\ toNode[p] # <<>> /\ Head(toNode[p]).type = "block"
    /\ LET b == Head(toNode[p]).block
           stop == IF b \in conn[p].requested THEN b - 1 ELSE b
       IN  IF b > have + 1
           THEN /\ Send(toPeer, p, GetBlocks(stop))
                /\ conn' = [conn EXCEPT ![p].requested = @ \cup {stop}]
                /\ UNCHANGED have
           ELSE /\ have' = Max({have, b})
                /\ UNCHANGED <<conn, toPeer>>
    /\ toNode' = [toNode EXCEPT ![p] = Tail(@)]
    /\ Noted /\ UNCHANGED tip

-----------------------------------------------------------------------------
(* A peer. *)

(* ActivateBestChain announces the new tip. *)
NewTip(p, n) ==
    /\ tip[p] + n <= MaxTip
    /\ tip' = [tip EXCEPT ![p] = @ + n]
    /\ conn' = [conn EXCEPT ![p].toSend = Append(@, tip'[p])]
    /\ IF n = 1 THEN Noted ELSE synced' = FALSE
    /\ UNCHANGED <<have, toPeer, toNode>>

(* setInventoryKnown.insert: the oldest entry makes room. *)
Insert(known, b) ==
    IF b \in ToSet(known) THEN known
    ELSE Append(IF Len(known) = MaxKnown THEN Tail(known) ELSE known, b)

(* SendMessages: what is announced of an inventory. *)
Announced(known, toSend) ==
    FoldLeft(LAMBDA t, b : [known |-> Insert(t.known, b), inv |-> IF b \in ToSet(t.known) THEN t.inv ELSE Append(t.inv, b)],
             [known |-> known, inv |-> <<>>], toSend)

SendInventory(p) ==
    /\ conn[p].toSend # <<>>
    /\ LET sent == Announced(conn[p].known, conn[p].toSend)
       IN  /\ conn' = [conn EXCEPT ![p].toSend = <<>>, ![p].known = sent.known]
           /\ IF sent.inv = <<>> THEN UNCHANGED toNode ELSE Send(toNode, p, [type |-> "inv", blocks |-> sent.inv])
    /\ Noted /\ UNCHANGED <<have, tip, toPeer>>

(* Transactions and other inventory drive a block out of setInventoryKnown. *)
OtherInventory(p) ==
    /\ conn[p].known # <<>>
    /\ conn' = [conn EXCEPT ![p].known = Tail(@)]
    /\ Noted /\ UNCHANGED <<have, tip, toPeer, toNode>>

(* Mutant: the limit ends the answer, and nothing makes the node go on. *)
AnswerWithoutContinue(p, msg) ==
    LET first == Min({msg.from, tip[p]}) + 1
        last == IF msg.stop >= first THEN Min({msg.stop - 1, tip[p]}) ELSE tip[p]
    IN  [conn[p] EXCEPT !.toSend = @ \o [i \in 1 .. Min({last - first + 1, Limit}) |-> first + i - 1]]

(* getblocks: from the fork on and up to the block before the stop. *)
Answer(p, msg) ==
    LET first == Min({msg.from, tip[p]}) + 1
        last == IF msg.stop >= first THEN Min({msg.stop - 1, tip[p]}) ELSE tip[p]
        count == Min({last - first + 1, Limit})
    IN  [conn[p] EXCEPT !.toSend = @ \o [i \in 1 .. count |-> first + i - 1],
                        !.continue = IF count = Limit THEN first + Limit - 1 ELSE @]

ReceiveGetBlocks(p) ==
    /\ conn[p].getdata = <<>>
    /\ toPeer[p] # <<>> /\ Head(toPeer[p]).type = "getblocks"
    /\ conn' = [conn EXCEPT ![p] = Answer(p, Head(toPeer[p]))]
    /\ toPeer' = [toPeer EXCEPT ![p] = Tail(@)]
    /\ Noted /\ UNCHANGED <<have, tip, toNode>>

(* The answer to one entry of getdata; the inv bypasses the inventory. *)
Served(p, b) ==
    IF b = conn[p].continue THEN <<[type |-> "block", block |-> b], [type |-> "inv", blocks |-> <<tip[p]>>]>>
    ELSE <<[type |-> "block", block |-> b]>>

(* ProcessGetData: it stops after a block. *)
ProcessGetData(p, queue) ==
    /\ toNode' = [toNode EXCEPT ![p] = @ \o Served(p, Head(queue))]
    /\ conn' = [conn EXCEPT ![p].getdata = Tail(queue), ![p].continue = IF @ = Head(queue) THEN None ELSE @]

ReceiveGetData(p) ==
    /\ conn[p].getdata = <<>>
    /\ toPeer[p] # <<>> /\ Head(toPeer[p]).type = "getdata"
    /\ ProcessGetData(p, Head(toPeer[p]).blocks)
    /\ toPeer' = [toPeer EXCEPT ![p] = Tail(@)]
    /\ Noted /\ UNCHANGED <<have, tip>>

(* ProcessMessages takes no message before what was asked for is sent. *)
ServeMore(p) ==
    /\ conn[p].getdata # <<>>
    /\ ProcessGetData(p, conn[p].getdata)
    /\ Noted /\ UNCHANGED <<have, tip, toPeer>>

-----------------------------------------------------------------------------
Next ==
    \E p \in Peers :
        \/ StartSync(p) \/ ReceiveInv(p) \/ ReceiveBlock(p)
        \/ SendInventory(p) \/ ReceiveGetBlocks(p) \/ ReceiveGetData(p) \/ ServeMore(p)
        \/ OtherInventory(p)
        \/ \E n \in 1 .. 2 : NewTip(p, n)

Spec == Init /\ [][Next]_vars

-----------------------------------------------------------------------------
TypeOK ==
    /\ have \in 0 .. MaxTip
    /\ tip \in [Peers -> FirstTip .. MaxTip]
    /\ synced \in BOOLEAN
    /\ \A p \in Peers :
          /\ \A msg \in ToSet(toPeer[p]) \cup ToSet(toNode[p]) : msg \in Messages
          /\ conn[p].started \in BOOLEAN /\ conn[p].requested \subseteq Heights
          /\ conn[p].continue \in Heights \cup {None}
          /\ ToSet(conn[p].toSend) \cup ToSet(conn[p].known) \cup ToSet(conn[p].getdata) \subseteq Heights
          /\ Len(conn[p].known) <= MaxKnown /\ IsInjective(conn[p].known)

(* At rest, the first block that is missing is one that every peer with      *)
(* whom the sync was started has sent too early, or whose successor it sent  *)
(* too early twice; or another peer sent the block with which this one would *)
(* have gone on.  Nothing else is left out: with one peer, the limit of an   *)
(* answer never ends the sync.  (Outside an import: what comes during one is *)
(* ignored and nothing asks for it again.)                                   *)
GapsWereDropped ==
    AtRest => \A p \in Peers :
        conn[p].started /\ have < tip[p] =>
            \/ have + 1 \in conn[p].requested
            \/ conn[p].continue \in 1 .. have /\ Cardinality(Peers) > 1

(* A first sync without new blocks comes within two blocks of the tip. *)
FirstSyncIsNear ==
    AtRest /\ (\A p \in Peers : tip[p] = FirstTip) /\ (\E p \in Peers : conn[p].started) => have >= FirstTip - 2

(* A node that has all blocks follows new ones, as long as the peers go on   *)
(* block by block.                                                           *)
SyncedStaysSynced == AtRest /\ synced => Complete
==============================================================================
