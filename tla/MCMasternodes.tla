---------------------------- MODULE MCMasternodes ----------------------------
(* What masternodes sign and vote for: SwiftTX locks, payees of coming       *)
(* blocks, their own announcements and pings, and the budgets that           *)
(* superblocks pay.  The four components keep their state apart, so a        *)
(* behaviour runs one of them (part) and leaves the others in their initial  *)
(* states.                                                                   *)
(*                                                                           *)
(* Locks: two transactions share an input.  Both masternodes have to vote;   *)
(* the second is not among the best ranked at the other height.              *)
(*                                                                           *)
(* List: the unit of time is MASTERNODE_MIN_MNP_SECONDS, of which the gap    *)
(* between pings is less than one.                                           *)
(*                                                                           *)
(* Budgets: two finalized budgets pay the same proposals in another order,   *)
(* and have enough votes both, one or none; whether a payee has six votes    *)
(* may differ from block to block.                                           *)
EXTENDS SwiftTX, TLC

CONSTANTS tx1, tx2, in1, in2, mn1, mn2

MCInputsOf == (tx1 :> {in1, in2}) @@ (tx2 :> {in2})
MCLockHeight == (tx1 :> 1) @@ (tx2 :> 1)
MCTop == (1 :> {mn1, mn2}) @@ (2 :> {mn1})

CONSTANTS Voters, OwnVoter, Payees, Window, Limit, Ahead, OwnAhead, FirstTip, MaxTip, MaxReorg, MaxVotes, MaxRestarts,
          MinPing, PingGap, MinBroadcast, Expiration, Removal, MaxTime, MaxAnnounced, MaxPings, MaxStops,
          Finalized, PaymentsOf, EnabledCount, EnforceBudget, EnforcePayee, Tallies, MaxHeight

MCFinalized == <<"A", "B">>
MCPaymentsOf == [A |-> <<"p", "q">>, B |-> <<"q", "p">>]
MCTallies == {[A |-> 3, B |-> 3], [A |-> 3, B |-> 1], [A |-> 0, B |-> 1]}

VARIABLES tipHeight, highest, payeeVotes, blockPayees, lastVote, lastOwn, uncounted, payFile, votesLeft, restartsLeft,
          time, spent, announced, pinged, entry, seenMnb, seenMnp, ignored, saved, readable, stops,
          tally, history, payChain, judged, forgotten,
          part

payVars == <<tipHeight, highest, payeeVotes, blockPayees, lastVote, lastOwn, uncounted, payFile, votesLeft,
             restartsLeft>>
listVars == <<time, spent, announced, pinged, entry, seenMnb, seenMnp, ignored, saved, readable, stops>>
superVars == <<tally, history, payChain, judged, forgotten>>

Pay == INSTANCE MasternodePayments
List == INSTANCE MasternodeList
Super == INSTANCE Superblocks

ASSUME MasternodesAssumption == Pay!PaymentsAssumption /\ List!ListAssumption /\ Super!SuperblocksAssumption

MCVars == <<vars, payVars, listVars, superVars, part>>

MCInit ==
    /\ Init
    /\ Pay!Init
    /\ List!Init
    /\ Super!Init
    /\ part \in {"locks", "payees", "list", "budgets"}
    /\ part # "budgets" => tally = CHOOSE c \in Tallies : TRUE
    /\ part # "locks" => known = {}

(* Which part runs, and that the others do not. *)
LocksOnly == part = "locks" /\ UNCHANGED <<payVars, listVars, superVars, part>>
PayeesOnly == part = "payees" /\ UNCHANGED <<vars, listVars, superVars, part>>
ListOnly == part = "list" /\ UNCHANGED <<vars, payVars, superVars, part>>
BudgetsOnly == part = "budgets" /\ UNCHANGED <<vars, payVars, listVars, part>>

MCNext ==
    \/ LocksOnly /\ Next
    \/ PayeesOnly /\ Pay!Next
    \/ ListOnly /\ List!Next
    \/ BudgetsOnly /\ Super!Next

(* The fairness of SwiftTX; the other parts promise nothing in the long run. *)
MCFairness ==
    /\ WF_MCVars(LocksOnly /\ Clean)
    /\ \A x \in Txs : WF_MCVars(LocksOnly /\ Expire(x))

MCSpec == MCInit /\ [][MCNext]_MCVars /\ MCFairness

-----------------------------------------------------------------------------
(* The properties of the instances; those of SwiftTX are its own. *)

(* Payees are enforced by the votes: those counted for a height in reach are *)
(* those recorded for it, a block is refused for its payee only if enough    *)
(* different masternodes have voted for another one, and what is enforced    *)
(* stays enforced while the node runs and the height is in reach.            *)
PayeesAreVoted == Pay!PayeesAreVoted

(* The announcement of a listed masternode is only replaced by a newer one,  *)
(* and it takes a new announcement with unspent collateral to revive a       *)
(* masternode that was not enabled, unless the node starts from an older     *)
(* mncache.dat; one that has dropped out of the list can come back, also     *)
(* after such a start.                                                       *)
ListFollowsNews == [](List!TypeOK /\ List!CanComeBack) /\ List!AnnouncementsGrow /\ List!RevivedByAnnouncement

(* No proposal is paid twice on the chain within one cycle, but through a    *)
(* block for which neither a budget nor an enforced payee has vouched.       *)
NoDoublePayment == Super!TypeOK /\ Super!NoDoublePayment

(* A block a budget found valid is found valid by the budgets when it is     *)
(* checked again with the same votes.                                        *)
RecheckAgrees == Super!RecheckAgrees
==============================================================================
