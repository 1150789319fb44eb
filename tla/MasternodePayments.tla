-------------------------- MODULE MasternodePayments -------------------------
(***************************************************************************)
(* CMasternodePayments: masternodes vote for the payee of a coming block,  *)
(* a payee with six votes is enforced, old votes are cleaned, and the two  *)
(* maps of votes are dumped at shutdown.                                   *)
(*                                                                         *)
(* Votes come in the message thread, cleaning runs in the masternode       *)
(* thread, blocks move the height.  AddWinningMasternode records the vote  *)
(* under its locks and counts it after it has released them: two steps.    *)
(* The hash of a vote is the vote: payee, height and masternode.           *)
(***************************************************************************)
EXTENDS Integers, FiniteSets

CONSTANTS
    Voters,         \* masternodes that are known and ranked
    OwnVoter,       \* the masternode this node runs
    Payees,
    Required,       \* MNPAYMENTS_SIGNATURES_REQUIRED, 6
    Window,         \* CountEnabled() * 1.25: how old a vote may be when it comes
    Limit,          \* max(size * 1.25, 1000): how old a vote may be when it is cleaned
    Ahead,          \* 20: how far ahead a vote may be
    OwnAhead,       \* 10: how far ahead this node votes
    FirstTip,       \* the height at start
    MaxTip,         \* bound on the height
    MaxReorg,       \* bound on the blocks disconnected
    MaxVotes,       \* bound on the votes that come or are cast
    MaxRestarts     \* bound on the restarts

PaymentsAssumption ==
    /\ IsFiniteSet(Voters) /\ OwnVoter \in Voters
    /\ {Required, Window, Limit, Ahead, OwnAhead, FirstTip, MaxTip, MaxReorg, MaxVotes,
        MaxRestarts} \subseteq Nat
    /\ FirstTip <= MaxTip /\ Window + MaxReorg <= Limit

PayHeights == (FirstTip - Window)..(MaxTip + Ahead + OwnAhead)

(* CMasternodePaymentWinner *)
Winner == [voter : Voters, height : PayHeights, payee : Payees]

VARIABLES
    tipHeight,      \* chainActive.Tip()->nHeight
    highest,        \* the highest it has been
    payeeVotes,     \* mapMasternodePayeeVotes
    blockPayees,    \* mapMasternodeBlocks: height -> payee -> nVotes
    lastVote,       \* mapMasternodesLastVote
    lastOwn,        \* nLastBlockHeight
    uncounted,      \* votes recorded by AddWinningMasternode, before AddPayee
    payFile,        \* mnpayments.dat
    votesLeft,
    restartsLeft

payVars == <<tipHeight, highest, payeeVotes, blockPayees, lastVote, lastOwn, uncounted, payFile, votesLeft,
             restartsLeft>>

Unvoted == [p \in Payees |-> 0]

TypeOK ==
    /\ tipHeight \in FirstTip..MaxTip
    /\ highest \in FirstTip..MaxTip
    /\ payeeVotes \subseteq Winner
    /\ DOMAIN blockPayees \subseteq PayHeights
    /\ \A h \in DOMAIN blockPayees : blockPayees[h] \in [Payees -> 0..Cardinality(Voters)]
    /\ lastVote \in [Voters -> PayHeights \cup {-1}]
    /\ lastOwn \in PayHeights \cup {0}
    /\ uncounted \subseteq Winner
    /\ votesLeft \in 0..MaxVotes
    /\ restartsLeft \in 0..MaxRestarts

NoBlocks == [h \in {} |-> Unvoted]

Init ==
    /\ tipHeight = FirstTip
    /\ highest = FirstTip
    /\ payeeVotes = {}
    /\ blockPayees = NoBlocks
    /\ lastVote = [m \in Voters |-> -1]
    /\ lastOwn = 0
    /\ uncounted = {}
    /\ payFile = [votes |-> {}, blocks |-> NoBlocks]
    /\ votesLeft = MaxVotes
    /\ restartsLeft = MaxRestarts

-----------------------------------------------------------------------------
(* mapMasternodeBlocks[h], made with no votes if there is none. *)
WithBlock(blocks, h) == [g \in DOMAIN blocks \cup {h} |-> IF g \in DOMAIN blocks THEN blocks[g] ELSE Unvoted]

(* The part of AddWinningMasternode under the locks. *)
AddWinningMasternode(w) ==
    /\ payeeVotes' = payeeVotes \cup {w}
    /\ blockPayees' = WithBlock(blockPayees, w.height)
    /\ uncounted' = uncounted \cup {w}

InRange(h) == h >= tipHeight - Window /\ h <= tipHeight + Ahead

(* CanVote: the masternode's last vote was for another height. *)
CanVote(w) == lastVote[w.voter] # w.height

(* The mnw message.  CanVote records the height before the signature is      *)
(* checked; sound says whether the signature and the block 100 below are     *)
(* right.                                                                    *)
ReceiveWinner(w, sound) ==
    /\ votesLeft > 0
    /\ votesLeft' = votesLeft - 1
    /\ w \notin payeeVotes
    /\ InRange(w.height)
    /\ CanVote(w)
    /\ lastVote' = [lastVote EXCEPT ![w.voter] = w.height]
    /\ IF sound THEN AddWinningMasternode(w) ELSE UNCHANGED <<payeeVotes, blockPayees, uncounted>>
    /\ UNCHANGED <<tipHeight, highest, lastOwn, payFile, restartsLeft>>

(* AddPayee, outside the locks: the entry is made again if it is gone. *)
AddPayee(w) ==
    /\ w \in uncounted
    /\ uncounted' = uncounted \ {w}
    /\ blockPayees' = [WithBlock(blockPayees, w.height) EXCEPT ![w.height][w.payee] = @ + 1]
    /\ UNCHANGED <<tipHeight, highest, payeeVotes, lastVote, lastOwn, payFile, votesLeft, restartsLeft>>

(* ProcessBlock of a masternode: its own vote does not go through CanVote.   *)
(* p stands for GetNextMasternodeInQueueForPayment.  Left out is the vote    *)
(* for height 0, without a payee, that the code signs at a budget block or   *)
(* when nobody is due: it concerns no block that is paid, and is removed as  *)
(* old.                                                                      *)
ProcessBlock(p) ==
    LET w == [voter |-> OwnVoter, height |-> tipHeight + OwnAhead, payee |-> p]
    IN  /\ votesLeft > 0
        /\ votesLeft' = votesLeft - 1
        /\ w.height > lastOwn
        /\ w \notin payeeVotes
        /\ AddWinningMasternode(w)
        /\ lastOwn' = w.height
        /\ UNCHANGED <<tipHeight, highest, lastVote, payFile, restartsLeft>>

Old(w) == tipHeight - w.height > Limit

(* Mutant: the height of an old vote is compared one too far. *)
CleanPaymentListTooFar ==
    /\ payeeVotes # {}
    /\ payeeVotes' = {w \in payeeVotes : tipHeight - w.height < Window}
    /\ blockPayees' = [h \in {h \in DOMAIN blockPayees : \A w \in payeeVotes : w.height = h => tipHeight - h < Window}
                         |-> blockPayees[h]]
    /\ UNCHANGED <<tipHeight, highest, lastVote, lastOwn, uncounted, payFile, votesLeft, restartsLeft>>

(* CleanPaymentList; it does nothing when cs_main is taken. *)
CleanPaymentList ==
    /\ \E w \in payeeVotes : Old(w)
    /\ payeeVotes' = {w \in payeeVotes : ~Old(w)}
    /\ blockPayees' = [h \in DOMAIN blockPayees \ {w.height : w \in {v \in payeeVotes : Old(v)}} |-> blockPayees[h]]
    /\ UNCHANGED <<tipHeight, highest, lastVote, lastOwn, uncounted, payFile, votesLeft, restartsLeft>>

ConnectTip ==
    /\ tipHeight < MaxTip
    /\ tipHeight' = tipHeight + 1
    /\ highest' = IF tipHeight' > highest THEN tipHeight' ELSE highest
    /\ UNCHANGED <<payeeVotes, blockPayees, lastVote, lastOwn, uncounted, payFile, votesLeft, restartsLeft>>

DisconnectTip ==
    /\ tipHeight > highest - MaxReorg
    /\ tipHeight > FirstTip
    /\ tipHeight' = tipHeight - 1
    /\ UNCHANGED <<highest, payeeVotes, blockPayees, lastVote, lastOwn, uncounted, payFile, votesLeft, restartsLeft>>

(* The node stops and starts again.  A clean stop comes after the threads    *)
(* have ended and dumps the maps; after a crash the dump is an older one.    *)
(* mapMasternodesLastVote and nLastBlockHeight are not dumped.               *)
Restart(clean) ==
    /\ restartsLeft > 0
    /\ restartsLeft' = restartsLeft - 1
    /\ clean => uncounted = {}
    /\ payFile' = IF clean THEN [votes |-> payeeVotes, blocks |-> blockPayees] ELSE payFile
    /\ payeeVotes' = payFile'.votes
    /\ blockPayees' = payFile'.blocks
    /\ lastVote' = [m \in Voters |-> -1]
    /\ lastOwn' = 0
    /\ uncounted' = {}
    /\ UNCHANGED <<tipHeight, highest, votesLeft>>

Next ==
    \/ \E w \in Winner, sound \in BOOLEAN : ReceiveWinner(w, sound)
    \/ \E w \in uncounted : AddPayee(w)
    \/ \E p \in Payees : ProcessBlock(p)
    \/ CleanPaymentList
    \/ ConnectTip
    \/ DisconnectTip
    \/ \E clean \in BOOLEAN : Restart(clean)

Spec == Init /\ [][Next]_payVars

-----------------------------------------------------------------------------
(* CMasternodePayments::IsTransactionValid of a block that pays p enough. *)
Enforced(h, p) == h \in DOMAIN blockPayees /\ blockPayees[h][p] >= Required

IsTransactionValid(h, p) == (\E q \in Payees : Enforced(h, q)) => Enforced(h, p)

VotesFor(h, p) == {w \in payeeVotes : w.height = h /\ w.payee = p}

(* Properties *)

(* A height that blocks may still reach has the votes recorded for it, none  *)
(* lost and none counted twice, but for those that are being added: cleaning *)
(* between the two steps of AddWinningMasternode only hits older heights.    *)
CountsAreVotes ==
    \A h \in PayHeights, p \in Payees :
        h >= tipHeight - Window =>
            (IF h \in DOMAIN blockPayees THEN blockPayees[h][p] ELSE 0)
                = Cardinality(VotesFor(h, p)) - Cardinality({w \in uncounted : w.height = h /\ w.payee = p})

(* A block is refused for its payee only if Required different masternodes   *)
(* have voted for another one ("require at least 6 signatures"), whatever    *)
(* was repeated, restarted or cleaned.                                       *)
RefusedByQuorum ==
    \A h \in PayHeights, p \in Payees :
        h >= tipHeight - Window /\ ~IsTransactionValid(h, p) =>
            \E q \in Payees : Cardinality({w.voter : w \in VotesFor(h, q)}) >= Required

(* What is enforced for a height stays enforced as long as the node runs and *)
(* the height has not passed out of reach.                                   *)
EnforcementStays ==
    [][ \A h \in PayHeights, p \in Payees :
            Enforced(h, p) /\ h >= tipHeight - Window => Enforced(h, p)' \/ restartsLeft' # restartsLeft ]_payVars
(* Payees are enforced by the votes: those counted for a height in reach are *)
(* those recorded for it, a block is refused for its payee only if enough    *)
(* different masternodes have voted for another one, and what is enforced    *)
(* stays enforced while the node runs and the height is in reach.            *)
PayeesAreVoted == [](TypeOK /\ CountsAreVotes /\ RefusedByQuorum) /\ EnforcementStays
==============================================================================
