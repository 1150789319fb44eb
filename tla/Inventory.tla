------------------------------ MODULE Inventory ------------------------------
(* Transactions, votes and other announced items that are not blocks: when a *)
(* node asks which of the peers that announced an item for it (AskFor in     *)
(* net.cpp, inv, getdata and SendMessages in main.cpp).                      *)
(*                                                                           *)
(* Times are relative: a time is how many minutes are left until then.  The  *)
(* node is not importing or reindexing, or it would ignore an inv, and       *)
(* mapAskFor is below MAPASKFOR_MAX_SZ.                                      *)
EXTENDS Integers, FiniteSetsExt, Functions

CONSTANTS
    Announcers,     \* peers that announce items
    Silent,         \* those that do not answer getdata
    Announceable,   \* the items
    Retry,          \* "Each retry is 2 minutes after the last"
    MaxAsked        \* the size of mapAlreadyAskedFor

InventoryAssumption ==
    /\ Silent \subseteq Announcers /\ Retry \in Nat \ {0} /\ MaxAsked \in Nat \ {0}

VARIABLES
    has,        \* AlreadyHave
    asked,      \* mapAlreadyAskedFor: a time for some of the items
    askFor,     \* mapAskFor of each peer: times and items
    requested,  \* getdata on its way to a peer, or the answer
    announced,  \* what each peer has announced (setInventoryKnown, there)
    gone        \* peers that are not connected any more

vars == <<has, asked, askFor, requested, announced, gone>>

Init ==
    /\ has = {}
    /\ asked = <<>>
    /\ askFor = [p \in Announcers |-> {}]
    /\ requested = [p \in Announcers |-> {}]
    /\ announced = [p \in Announcers |-> {}]
    /\ gone = {}

(* limitedmap: when a new entry fills the map, the earliest of the others    *)
(* makes room.                                                               *)
Earliest(map) == CHOOSE i \in DOMAIN map : \A j \in DOMAIN map : map[i] <= map[j]
Insert(map, item, time) ==
    LET others == Restrict(map, DOMAIN map \ {item})
        full == item \notin DOMAIN map /\ Cardinality(DOMAIN map) + 1 = MaxAsked /\ DOMAIN map # {}
        kept == IF full THEN Restrict(map, DOMAIN map \ {Earliest(map)}) ELSE others
    IN  [i \in DOMAIN kept \cup {item} |-> IF i = item THEN time ELSE kept[i]]

(* The earliest time at which an item may be asked for. *)
RequestTime(item) == IF item \in DOMAIN asked THEN Max({asked[item] + Retry, 0}) ELSE 0

(* Mutant: an item that was asked for is left to the peer that was asked. *)
AskForOnce(p, item) ==
    /\ asked' = IF item \in DOMAIN asked THEN asked ELSE Insert(asked, item, 0)
    /\ askFor' = IF item \in DOMAIN asked THEN askFor ELSE [askFor EXCEPT ![p] = @ \cup {<<0, item>>}]

AskFor(p, item) ==
    /\ asked' = Insert(asked, item, RequestTime(item))
    /\ askFor' = [askFor EXCEPT ![p] = @ \cup {<<RequestTime(item), item>>}]

(* inv *)
Announce(p, item) ==
    /\ p \notin gone /\ item \notin announced[p]
    /\ announced' = [announced EXCEPT ![p] = @ \cup {item}]
    /\ IF item \in has THEN UNCHANGED <<asked, askFor>> ELSE AskFor(p, item)
    /\ UNCHANGED <<has, requested, gone>>

(* SendMessages: getdata for what is due and not there yet. *)
SendGetData(p) ==
    LET due == {e \in askFor[p] : e[1] <= 0}
    IN  /\ due # {}
        /\ askFor' = [askFor EXCEPT ![p] = @ \ due]
        /\ requested' = [requested EXCEPT ![p] = @ \cup ({e[2] : e \in due} \ has)]
        /\ UNCHANGED <<has, asked, announced, gone>>

(* The item arrives and is accepted, or found to be there already; the time  *)
(* is erased for transactions, and stays for other items.                    *)
Receive(p, item) ==
    /\ item \in requested[p] /\ p \notin Silent
    /\ requested' = [requested EXCEPT ![p] = @ \ {item}]
    /\ has' = has \cup {item}
    /\ asked' \in {asked, Restrict(asked, DOMAIN asked \ {item})}
    /\ UNCHANGED <<askFor, announced, gone>>

(* The peer is deleted with its mapAskFor. *)
Disconnect(p) ==
    /\ p \notin gone
    /\ gone' = gone \cup {p}
    /\ askFor' = [askFor EXCEPT ![p] = {}]
    /\ requested' = [requested EXCEPT ![p] = {}]
    /\ UNCHANGED <<has, asked, announced>>

(* A minute passes; what is long over need not be told apart. *)
Minute ==
    /\ asked' = [i \in DOMAIN asked |-> Max({asked[i] - 1, -Retry})]
    /\ askFor' = [p \in Announcers |-> {<<Max({e[1] - 1, 0}), e[2]>> : e \in askFor[p]}]
    /\ <<asked', askFor'>> # <<asked, askFor>>
    /\ UNCHANGED <<has, requested, announced, gone>>

Next ==
    \/ Minute
    \/ \E p \in Announcers :
        \/ SendGetData(p) \/ Disconnect(p)
        \/ \E item \in Announceable : Announce(p, item) \/ Receive(p, item)

(* Time passes, the message thread comes back to every peer, and a peer that *)
(* is not silent answers.                                                    *)
Spec ==
    /\ Init /\ [][Next]_vars
    /\ WF_vars(Minute)
    /\ \A p \in Announcers : WF_vars(SendGetData(p))
    /\ \A p \in Announcers : \A item \in Announceable : WF_vars(Receive(p, item))

-----------------------------------------------------------------------------
TypeOK ==
    /\ has \subseteq Announceable /\ gone \subseteq Announcers
    /\ DOMAIN asked \subseteq Announceable /\ Cardinality(DOMAIN asked) <= Max({MaxAsked - 1, 1})
    /\ \A i \in DOMAIN asked : asked[i] \in -Retry .. Retry * Cardinality(Announcers)
    /\ \A p \in Announcers :
          /\ requested[p] \cup announced[p] \subseteq Announceable
          /\ askFor[p] \subseteq (0 .. Retry * Cardinality(Announcers)) \X Announceable

(* What a connected peer that answers has announced and the node does not    *)
(* have.                                                                     *)
Owed == (UNION {announced[p] : p \in Announcers \ (Silent \cup gone)}) \ has

(* An item that a peer announced which answers is there at last, however     *)
(* many announced it before and do not answer, and though the time it was    *)
(* asked for is forgotten; unless the peer goes away.  Announced while the   *)
(* node imports blocks, it would not be asked for.                           *)
AnnouncedArrives == Owed # {} ~> Owed = {}
==============================================================================
