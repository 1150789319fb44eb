-------------------------------- MODULE Peers --------------------------------
(***************************************************************************)
(* The life of a CNode (net.cpp): who makes it, who may use it, and when   *)
(* it is deleted.  The socket thread and the message thread work on copies *)
(* of vNodes and hold a reference to every node in their copy; openers     *)
(* hold one to the node they make; the outbound grant wanders from the     *)
(* opener into the node.  fDisconnect is written by every thread without a *)
(* lock.                                                                   *)
(*                                                                         *)
(* A node object is made once.  Messages only matter for what they do to   *)
(* fDisconnect, the socket and the send queue; -connect, which opens       *)
(* without a grant, is left out.                                           *)
(***************************************************************************)
EXTENDS Integers, FiniteSets

CONSTANTS
    Inbound, Outbound,  \* nodes that are accepted, and that are opened
    Openers,            \* threads in OpenNetworkConnection
    Testers,            \* callers of ConnectNode that release the node at once
    MaxOutbound         \* grants of semOutbound

PeerNodes == Inbound \cup Outbound
Callers == Openers \cup Testers

PeersAssumption == MaxOutbound \in Nat /\ Inbound \cap Outbound = {} /\ Openers \cap Testers = {}

VARIABLES
    node,           \* the node objects
    socket,         \* ThreadSocketHandler: where it is, its vNodesCopy, what is left of it
    message,        \* ThreadMessageHandler, and the node it is at
    opener,         \* the threads that open connections
    freeGrants      \* the value of semOutbound

peerVars == <<node, socket, message, opener, freeGrants>>

Unmade == [where |-> "unmade", refs |-> 0, fDisconnect |-> FALSE, open |-> FALSE, unsent |-> FALSE,
           fNetworkNode |-> FALSE, grant |-> FALSE]

(* new CNode, AddRef, push_back *)
Made == [Unmade EXCEPT !.where = "vNodes", !.refs = 1, !.open = TRUE]

Nobody == "nobody"
NotOpening == [at |-> "idle", peer |-> Nobody]

vNodes == {n \in PeerNodes : node[n].where = "vNodes"}
vNodesDisconnected == {n \in PeerNodes : node[n].where = "disconnected"}

Init ==
    /\ node = [n \in PeerNodes |-> Unmade]
    /\ socket = [at |-> "disconnect", copy |-> {}, todo |-> {}]
    /\ message = [at |-> "copy", copy |-> {}, todo |-> {}, peer |-> Nobody]
    /\ opener = [o \in Callers |-> NotOpening]
    /\ freeGrants = MaxOutbound

(* AddRef and Release for the nodes of a copy, under cs_vNodes. *)
AddRefs(copy) == [n \in PeerNodes |-> IF n \in copy THEN [node[n] EXCEPT !.refs = @ + 1] ELSE node[n]]
Releases(copy) == [n \in PeerNodes |-> IF n \in copy THEN [node[n] EXCEPT !.refs = @ - 1] ELSE node[n]]

(* CloseSocketDisconnect *)
Closed(x) == [x EXCEPT !.fDisconnect = TRUE, !.open = FALSE]

(* SocketSendData on the send queue of x; what could not be sent stays. *)
SendResults(x) ==
    IF x.open THEN {[x EXCEPT !.unsent = FALSE], [x EXCEPT !.unsent = TRUE], Closed([x EXCEPT !.unsent = TRUE])}
    ELSE {Closed([x EXCEPT !.unsent = TRUE])}

-----------------------------------------------------------------------------
(* ThreadSocketHandler *)

Unused(n) == node[n].refs <= 0 /\ ~node[n].unsent

(* A node that leaves vNodes: the grant and the socket go, and the reference *)
(* of the one who made it, if that was an accept or has been completed.      *)
Removed(n) ==
    [Closed(node[n]) EXCEPT !.where = "disconnected", !.grant = FALSE,
                            !.refs = IF node[n].fNetworkNode \/ n \in Inbound THEN @ - 1 ELSE @]

DisconnectNodes ==
    /\ socket.at = "disconnect"
    /\ LET gone == {n \in vNodes : node[n].fDisconnect \/ Unused(n)}
       IN  /\ node' = [n \in PeerNodes |-> IF n \in gone THEN Removed(n) ELSE node[n]]
           /\ freeGrants' = freeGrants + Cardinality({n \in gone : node[n].grant})
    /\ socket' = [socket EXCEPT !.at = "delete"]
    /\ UNCHANGED <<message, opener>>

(* Mutant: nobody waits for the threads that use it. *)
DeletableAtOnce == vNodesDisconnected

(* "wait until threads are done using it" *)
Deletable == {n \in vNodesDisconnected : node[n].refs <= 0}

(* delete pnode: a grant that came after the node was removed goes with it.  *)
(* The look at nRefCount and the deletion are one step: in between only      *)
(* AddRefFound can change the count, and it comes too late there as after    *)
(* the deletion.  AddRef and Release are atomic, though nRefCount is a plain *)
(* int that ConnectNode and CActiveMasternode change without cs_vNodes.      *)
DeleteNodes ==
    /\ socket.at = "delete"
    /\ node' = [n \in PeerNodes |->
                   IF n \in Deletable THEN [node[n] EXCEPT !.where = "deleted", !.grant = FALSE] ELSE node[n]]
    /\ freeGrants' = freeGrants + Cardinality({n \in Deletable : node[n].grant})
    /\ socket' = [socket EXCEPT !.at = "accept"]
    /\ UNCHANGED <<message, opener>>

Accept(n) ==
    /\ socket.at = "accept"
    /\ n \in Inbound /\ node[n] = Unmade
    /\ node' = [node EXCEPT ![n] = Made]
    /\ UNCHANGED <<socket, message, opener, freeGrants>>

CopyForService ==
    /\ socket.at = "accept"
    /\ socket' = [at |-> "service", copy |-> vNodes, todo |-> vNodes]
    /\ node' = AddRefs(vNodes)
    /\ UNCHANGED <<message, opener, freeGrants>>

(* One node of the copy: nothing, the peer has closed the connection or it   *)
(* broke (cs_vRecvMsg is taken while its messages are processed), the queue  *)
(* is sent, the inactivity check marks it.                                   *)
Service(n) ==
    /\ socket.at = "service" /\ n \in socket.todo
    /\ socket' = [socket EXCEPT !.todo = @ \ {n}]
    /\ LET x == node[n]
       IN  \/ UNCHANGED node
           \/ x.open /\ message.peer # n /\ node' = [node EXCEPT ![n] = Closed(x)]
           \/ x.open /\ x.unsent /\ \E y \in SendResults(x) : node' = [node EXCEPT ![n] = y]
           \/ x.open /\ node' = [node EXCEPT ![n].fDisconnect = TRUE]
    /\ UNCHANGED <<message, opener, freeGrants>>

ReleaseServiced ==
    /\ socket.at = "service" /\ socket.todo = {}
    /\ socket' = [at |-> "disconnect", copy |-> {}, todo |-> {}]
    /\ node' = Releases(socket.copy)
    /\ UNCHANGED <<message, opener, freeGrants>>

SocketStep ==
    \/ DisconnectNodes \/ DeleteNodes \/ CopyForService \/ ReleaseServiced
    \/ \E n \in PeerNodes : Service(n)

-----------------------------------------------------------------------------
(* ThreadMessageHandler *)

CopyForMessages ==
    /\ message.at = "copy"
    /\ message' = [at |-> "poll", copy |-> vNodes, todo |-> vNodes, peer |-> Nobody]
    /\ node' = AddRefs(vNodes)
    /\ UNCHANGED <<socket, opener, freeGrants>>

(* The next node, unless it is marked. *)
Poll(n) ==
    /\ message.at = "poll" /\ n \in message.todo
    /\ message' = [message EXCEPT !.todo = @ \ {n},
                                  !.at = IF node[n].fDisconnect THEN "poll" ELSE "process",
                                  !.peer = IF node[n].fDisconnect THEN Nobody ELSE n]
    /\ UNCHANGED <<node, socket, opener, freeGrants>>

DisconnectOldProtocol(x, obsolete) == [x EXCEPT !.fDisconnect = obsolete]

(* ProcessMessages: the end of a message and what it has done.  A block that *)
(* was new, and the version message, end with DisconnectOldProtocol, also if *)
(* the services of the peer did not do; other messages may mark the node; a  *)
(* message out of bounds closes it.                                          *)
ProcessMessages ==
    /\ message.at = "process"
    /\ message' = [message EXCEPT !.at = "send"]
    /\ LET n == message.peer
           x == node[n]
       IN  \E y \in {x, [x EXCEPT !.fDisconnect = TRUE], Closed(x)}
                    \cup {DisconnectOldProtocol(x, obsolete) : obsolete \in BOOLEAN} :
              node' = [node EXCEPT ![n] = y]
    /\ UNCHANGED <<socket, opener, freeGrants>>

(* SendMessages: it may mark the node (a ban, a stalled download) and pushes *)
(* messages, at the latest the ping when PING_INTERVAL is over.  Only the    *)
(* first message in the queue is tried at once.                              *)
SendDone == message' = [message EXCEPT !.at = "poll", !.peer = Nobody]

SendNothing(mark) ==
    /\ message.at = "send"
    /\ SendDone
    /\ node' = [node EXCEPT ![message.peer].fDisconnect = @ \/ mark]
    /\ UNCHANGED <<socket, opener, freeGrants>>

SendPing(n) ==
    /\ message.at = "send" /\ message.peer = n
    /\ SendDone
    /\ \E y \in IF node[n].unsent THEN {node[n]} ELSE SendResults(node[n]) : node' = [node EXCEPT ![n] = y]
    /\ UNCHANGED <<socket, opener, freeGrants>>

ReleasePolled ==
    /\ message.at = "poll" /\ message.todo = {}
    /\ message' = [at |-> "copy", copy |-> {}, todo |-> {}, peer |-> Nobody]
    /\ node' = Releases(message.copy)
    /\ UNCHANGED <<socket, opener, freeGrants>>

MessageStep ==
    \/ CopyForMessages \/ ProcessMessages \/ ReleasePolled
    \/ \E n \in PeerNodes : Poll(n) \/ SendPing(n)
    \/ \E mark \in BOOLEAN : SendNothing(mark)

-----------------------------------------------------------------------------
(* OpenNetworkConnection and the other callers of ConnectNode *)

(* An opener has a grant and finds no node of this address. *)
BeginOpen(o, n) ==
    /\ opener[o] = NotOpening
    /\ n \in Outbound
    /\ IF o \in Openers THEN n \notin vNodes /\ freeGrants > 0 ELSE TRUE
    /\ freeGrants' = IF o \in Openers THEN freeGrants - 1 ELSE freeGrants
    /\ opener' = [opener EXCEPT ![o] = [at |-> "connect", peer |-> n]]
    /\ UNCHANGED <<node, socket, message>>

(* ConnectNode: a node that is there already is looked up, otherwise a new   *)
(* one is made and at once in vNodes, or the connection fails and the grant  *)
(* goes back.                                                                *)
ConnectNode(o) ==
    LET n == opener[o].peer
    IN  /\ opener[o].at = "connect"
        /\ \/ /\ n \in vNodes
              /\ opener' = [opener EXCEPT ![o].at = "found"]
              /\ UNCHANGED <<node, freeGrants>>
           \/ /\ node[n] = Unmade
              /\ node' = [node EXCEPT ![n] = Made]
              /\ opener' = [opener EXCEPT ![o].at = "connected"]
              /\ UNCHANGED freeGrants
           \/ /\ n \notin vNodes
              /\ opener' = [opener EXCEPT ![o] = NotOpening]
              /\ freeGrants' = IF o \in Openers THEN freeGrants + 1 ELSE freeGrants
              /\ UNCHANGED node
        /\ UNCHANGED <<socket, message>>

(* AddRef on the node that FindNode has returned; nothing keeps it there in  *)
(* between, and with a node that is deleted anything may happen.             *)
AddRefFound(o) ==
    LET n == opener[o].peer
    IN  /\ opener[o].at = "found"
        /\ node[n].where # "deleted"
        /\ node' = [node EXCEPT ![n].refs = @ + 1]
        /\ opener' = [opener EXCEPT ![o].at = "connected"]
        /\ UNCHANGED <<socket, message, freeGrants>>

(* MoveTo, which first releases a grant that the node has, and fNetworkNode. *)
CompleteOpen(o) ==
    LET n == opener[o].peer
    IN  /\ o \in Openers /\ opener[o].at = "connected"
        /\ node' = [node EXCEPT ![n].grant = TRUE, ![n].fNetworkNode = TRUE]
        /\ freeGrants' = IF node[n].grant THEN freeGrants + 1 ELSE freeGrants
        /\ opener' = [opener EXCEPT ![o] = NotOpening]
        /\ UNCHANGED <<socket, message>>

(* The test of a masternode's own port gives its reference back. *)
ReleaseTested(o) ==
    /\ o \in Testers /\ opener[o].at = "connected"
    /\ node' = [node EXCEPT ![opener[o].peer].refs = @ - 1]
    /\ opener' = [opener EXCEPT ![o] = NotOpening]
    /\ UNCHANGED <<socket, message, freeGrants>>

(* disconnectnode *)
DisconnectNode(n) ==
    /\ n \in vNodes
    /\ node' = [node EXCEPT ![n] = Closed(@)]
    /\ UNCHANGED <<socket, message, opener, freeGrants>>

(* CNode::Ban *)
Ban(n) ==
    /\ n \in vNodes
    /\ node' = [node EXCEPT ![n].fDisconnect = TRUE]
    /\ UNCHANGED <<socket, message, opener, freeGrants>>

Next ==
    \/ SocketStep
    \/ MessageStep
    \/ \E n \in PeerNodes : Accept(n) \/ DisconnectNode(n) \/ Ban(n)
    \/ \E o \in Callers : ConnectNode(o) \/ AddRefFound(o) \/ CompleteOpen(o) \/ ReleaseTested(o)
    \/ \E o \in Callers, n \in Outbound : BeginOpen(o, n)

(* The two threads run on; a ping is sent to every peer again and again. *)
Fairness ==
    /\ WF_peerVars(SocketStep)
    /\ WF_peerVars(MessageStep)
    /\ \A n \in PeerNodes : SF_peerVars(SendPing(n))

Spec == Init /\ [][Next]_peerVars /\ Fairness

-----------------------------------------------------------------------------
(* Properties *)

(* The nodes and the threads keep their types; no reference count is below   *)
(* zero (the assert of GetRefCount).                                         *)
TypeOK ==
    /\ node \in [PeerNodes -> [where : {"unmade", "vNodes", "disconnected", "deleted"}, refs : Nat,
                               fDisconnect : BOOLEAN, open : BOOLEAN, unsent : BOOLEAN,
                               fNetworkNode : BOOLEAN, grant : BOOLEAN]]
    /\ socket \in [at : {"disconnect", "delete", "accept", "service"}, copy : SUBSET PeerNodes,
                   todo : SUBSET PeerNodes]
    /\ message \in [at : {"copy", "poll", "process", "send"}, copy : SUBSET PeerNodes, todo : SUBSET PeerNodes,
                    peer : PeerNodes \cup {Nobody}]
    /\ opener \in [Callers -> [at : {"idle", "connect", "found", "connected"}, peer : Outbound \cup {Nobody}]]
    /\ freeGrants \in 0 .. MaxOutbound

(* A node that a thread works on is not deleted under it: not one in the     *)
(* copies of the two threads, nor one that an opener has made, or found and  *)
(* taken its reference to in time (AddRefFound).                             *)
UsedIsAlive ==
    /\ \A n \in socket.copy \cup message.copy : node[n].where \in {"vNodes", "disconnected"}
    /\ \A o \in Callers : opener[o].at = "connected" => node[opener[o].peer].where # "deleted"

(* semOutbound: every grant is free, with an opener or with a node, whoever  *)
(* disconnects or opens the same address at the same time.                   *)
GrantsAreExact ==
    freeGrants + Cardinality({o \in Openers : opener[o] # NotOpening})
               + Cardinality({n \in PeerNodes : node[n].grant}) = MaxOutbound

(* A node that was accepted and has left vNodes is deleted: no reference to  *)
(* it is forgotten ("hold in disconnected pool until all refs are released").*)
DisconnectedIsDeleted == \A n \in Inbound : (node[n].where = "disconnected") ~> (node[n].where = "deleted")

(* A node whose socket was closed is deleted: CloseSocketDisconnect relies   *)
(* on it for what is left in the receive buffer.                             *)
ClosedIsDeleted == \A n \in Inbound : (node[n].where = "vNodes" /\ ~node[n].open) ~> (node[n].where = "deleted")
==============================================================================
