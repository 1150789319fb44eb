------------------------------ MODULE Transport ------------------------------
(* The byte streams between two nodes (net.cpp): messages queued and sent in *)
(* pieces, read in other pieces, put together again and processed, by the    *)
(* socket thread and the message thread of each node.                        *)
(*                                                                           *)
(* A node sends requests of its own accord and a reply to each request that  *)
(* it processes.  A byte is a message and its position in it; what a header  *)
(* says is known from its bytes.  Neither node closes the connection, and    *)
(* select() does not fail.                                                   *)
EXTENDS Integers, FiniteSetsExt, SequencesExt

CONSTANTS
    Ends,           \* the two nodes
    Requests,       \* how many requests each of them sends
    HeaderSize,     \* 24 bytes
    DataSize,       \* the bytes after the header of a request and of a reply
    Capacity,       \* what the sockets hold of one direction
    SendLimit,      \* SendBufferSize
    RecvLimit       \* ReceiveFloodSize

TransportAssumption ==
    /\ Cardinality(Ends) = 2 /\ Requests \in [Ends -> Nat]
    /\ HeaderSize \in Nat \ {0} /\ DataSize \in [{"request", "reply"} -> Nat]
    /\ {Capacity, SendLimit, RecvLimit} \subseteq Nat \ {0}

Other(e) == CHOOSE f \in Ends : f # e

Size(msg) == HeaderSize + DataSize[msg.kind]
BytesOf(msg) == [i \in 1 .. Size(msg) |-> <<msg, i>>]

VARIABLES
    out,        \* what a node has to send: messages and how far the first is sent
    wire,       \* bytes on their way from a node
    recv,       \* vRecvMsg: the bytes of each message
    fd,         \* what the socket thread waits for: "select" before it looks
    pushed,     \* history: the messages a node has sent
    handled     \* history: and the messages it has processed

vars == <<out, wire, recv, fd, pushed, handled>>

Init ==
    /\ out = [e \in Ends |-> [vSendMsg |-> <<>>, nSendOffset |-> 0, nSendSize |-> 0]]
    /\ wire = [e \in Ends |-> <<>>]
    /\ recv = [e \in Ends |-> <<>>]
    /\ fd = [e \in Ends |-> "select"]
    /\ pushed = [e \in Ends |-> <<>>]
    /\ handled = [e \in Ends |-> <<>>]

-----------------------------------------------------------------------------
(* Sending. *)

(* What is left to send. *)
Unsent(o) == LET all == FlattenSeq([i \in DOMAIN o.vSendMsg |-> BytesOf(o.vSendMsg[i])])
             IN  SubSeq(all, o.nSendOffset + 1, Len(all))

(* The queue when the first message is sent up to an offset, or to the end   *)
(* and beyond.                                                               *)
SentUpTo(o, offset) ==
    LET Count(t, msg) ==
            IF t.nSendOffset >= Size(msg) /\ t.vSendMsg = <<>>
            THEN [t EXCEPT !.nSendOffset = @ - Size(msg), !.nSendSize = @ - Size(msg)]
            ELSE [t EXCEPT !.vSendMsg = Append(@, msg)]
    IN  FoldLeft(Count, [o EXCEPT !.vSendMsg = <<>>, !.nSendOffset = offset], o.vSendMsg)

(* SocketSendData: the queue after n more bytes. *)
Sent(o, n) == SentUpTo(o, o.nSendOffset + n)

(* The socket takes what fits. *)
SocketSendData(e, o) ==
    LET bytes == SubSeq(Unsent(o), 1, Min({Len(Unsent(o)), Capacity - Len(wire[e])}))
    IN  /\ out' = [out EXCEPT ![e] = Sent(o, Len(bytes))]
        /\ wire' = [wire EXCEPT ![e] = @ \o bytes]

(* EndMessage: a message that is alone in the queue is sent at once. *)
PushMessage(e, msg) ==
    LET o == [out[e] EXCEPT !.vSendMsg = Append(@, msg), !.nSendSize = @ + Size(msg)]
    IN  /\ IF Len(o.vSendMsg) = 1 THEN SocketSendData(e, o)
           ELSE out' = [out EXCEPT ![e] = o] /\ UNCHANGED wire
        /\ pushed' = [pushed EXCEPT ![e] = Append(@, msg)]

Asked(e) == Len(SelectSeq(pushed[e], LAMBDA msg : msg.kind = "request"))

(* SendMessages, and other threads, do not look at how much is queued. *)
SendMessages(e) ==
    /\ Asked(e) < Requests[e]
    /\ PushMessage(e, [kind |-> "request", number |-> Asked(e) + 1])
    /\ UNCHANGED <<recv, fd, handled>>

-----------------------------------------------------------------------------
(* Receiving. *)

(* The message of which these are the first bytes; its header says the size. *)
InData(bytes) == Len(bytes) >= HeaderSize
Complete(bytes) == InData(bytes) /\ Len(bytes) = Size(bytes[1][1])

(* GetTotalRecvSize: a message is allocated whole with its first byte. *)
TotalRecvSize(msgs) ==
    FoldLeft(LAMBDA n, bytes : n + (IF Len(bytes) > HeaderSize THEN Size(bytes[1][1]) ELSE HeaderSize), 0, msgs)

(* ReceiveMsgBytes, byte by byte: after a complete message a new one begins. *)
ReceiveMsgBytes(msgs, bytes) ==
    FoldLeft(LAMBDA m, b : IF m = <<>> \/ Complete(Last(m)) THEN Append(m, <<b>>)
                           ELSE Front(m) \o <<Append(Last(m), b)>>,
             msgs, bytes)

(* Mutant: only with space left in the buffer. *)
ReceivesWithSpace(e) == TotalRecvSize(recv[e]) <= RecvLimit

(* There is no complete message, or space is left. *)
Receives(e) == recv[e] = <<>> \/ ~Complete(Head(recv[e])) \/ TotalRecvSize(recv[e]) <= RecvLimit

(* ThreadSocketHandler before select(): first what is queued is sent.  A     *)
(* lock that another thread has is not waited for.                           *)
Select(e) ==
    /\ fd[e] = "select"
    /\ \E lockSend, lockRecv \in BOOLEAN :
          fd' = [fd EXCEPT ![e] = IF lockSend /\ out[e].vSendMsg # <<>> THEN "send"
                                  ELSE IF lockRecv /\ Receives(e) THEN "recv" ELSE "none"]
    /\ UNCHANGED <<out, wire, recv, pushed, handled>>

(* After select(), when bytes were found in the socket. *)
ServiceRecv(e) ==
    /\ fd[e] = "recv"
    /\ \E n \in 1 .. Len(wire[Other(e)]) :
          /\ recv' = [recv EXCEPT ![e] = ReceiveMsgBytes(@, SubSeq(wire[Other(e)], 1, n))]
          /\ wire' = [wire EXCEPT ![Other(e)] = SubSeq(@, n + 1, Len(@))]
    /\ fd' = [fd EXCEPT ![e] = "select"]
    /\ UNCHANGED <<out, pushed, handled>>

ServiceSend(e) ==
    /\ fd[e] = "send"
    /\ SocketSendData(e, out[e])
    /\ fd' = [fd EXCEPT ![e] = "select"]
    /\ UNCHANGED <<recv, pushed, handled>>

(* Nothing was ready in time, or a lock was missed. *)
ServiceNothing(e) ==
    /\ fd[e] # "select"
    /\ fd' = [fd EXCEPT ![e] = "select"]
    /\ UNCHANGED <<out, wire, recv, pushed, handled>>

(* ProcessMessages: one message, unless too much is queued. *)
ProcessMessages(e) ==
    /\ out[e].nSendSize < SendLimit
    /\ recv[e] # <<>> /\ Complete(Head(recv[e]))
    /\ LET msg == Head(recv[e])[1][1]
       IN  /\ IF msg.kind = "request" THEN PushMessage(e, [msg EXCEPT !.kind = "reply"])
              ELSE UNCHANGED <<out, wire, pushed>>
           /\ handled' = [handled EXCEPT ![e] = Append(@, msg)]
    /\ recv' = [recv EXCEPT ![e] = Tail(@)]
    /\ UNCHANGED fd

Next ==
    \E e \in Ends :
        \/ SendMessages(e) \/ ProcessMessages(e)
        \/ Select(e) \/ ServiceRecv(e) \/ ServiceSend(e) \/ ServiceNothing(e)

Spec == Init /\ [][Next]_vars

-----------------------------------------------------------------------------
TypeOK ==
    \A e \in Ends :
        /\ fd[e] \in {"select", "recv", "send", "none"}
        /\ Len(wire[e]) <= Capacity
        /\ out[e].nSendOffset \in Nat /\ out[e].nSendSize \in Nat

(* Nothing is lost, repeated or out of order between the two threads of two  *)
(* nodes, however the stream is cut: what was processed, received, is on its *)
(* way and still to be sent makes up the messages in the order they were     *)
(* pushed, with the bounds of the messages found again.                      *)
StreamIsWhole ==
    \A e \in Ends :
        LET to == recv[Other(e)]
            bytes == FlattenSeq([i \in DOMAIN handled[Other(e)] |-> BytesOf(handled[Other(e)][i])])
                         \o FlattenSeq(to) \o wire[e] \o Unsent(out[e])
        IN  /\ bytes = FlattenSeq([i \in DOMAIN pushed[e] |-> BytesOf(pushed[e][i])])
            /\ \A i \in DOMAIN to : to[i][1][2] = 1 /\ (i < Len(to) => Complete(to[i]))

(* The asserts of SocketSendData: what is queued is counted, and never sent  *)
(* to the end without being removed.                                         *)
SendQueueIsCounted ==
    \A e \in Ends :
        LET queue == out[e].vSendMsg
        IN  /\ out[e].nSendSize = FoldLeft(LAMBDA n, msg : n + Size(msg), 0, queue)
            /\ IF queue = <<>> THEN out[e].nSendOffset = 0 ELSE out[e].nSendOffset < Size(Head(queue))

(* What "is always possible" (ThreadSocketHandler), as long as no lock is    *)
(* missed.                                                                   *)
CanSend(e) == out[e].vSendMsg # <<>> /\ Len(wire[e]) < Capacity
CanReceive(e) == out[e].vSendMsg = <<>> /\ Receives(e) /\ wire[Other(e)] # <<>>
CanProcess(e) == recv[e] # <<>> /\ Complete(Head(recv[e])) /\ out[e].nSendSize < SendLimit

Stalled == \A e \in Ends : Asked(e) = Requests[e] /\ ~CanSend(e) /\ ~CanReceive(e) /\ ~CanProcess(e)

(* "so we don't deadlock" (ThreadSocketHandler) holds as long as one of the  *)
(* sockets has room: the exchange stops before everything is processed only  *)
(* if both nodes wait for the other to read.                                 *)
StallIsMutual ==
    Stalled =>
        \/ \A e \in Ends : Len(handled[e]) = Len(pushed[Other(e)])
        \/ \A e \in Ends : out[e].vSendMsg # <<>> /\ Len(wire[e]) = Capacity
==============================================================================
