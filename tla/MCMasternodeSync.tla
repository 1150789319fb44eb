-------------------------- MODULE MCMasternodeSync ---------------------------
(* What has to happen at last between peers: the sync of masternode data     *)
(* ends, votes on the budget come through, sporks spread, announced items    *)
(* are fetched.  The four share nothing here (Budget and Sporks have the     *)
(* sync as an environment of their own), so a behaviour runs one of them     *)
(* (part) and leaves the others in their initial states; the states add up.  *)
EXTENDS MasternodeSync

CONSTANTS BudgetItems, OwnItems, BudgetVotes, UpdateMin, NoVote, MaxStarts,
          Nodes, Signer, Links, MaxSigned, MaxCrashes,
          Announcers, Silent, Announceable, Retry, MaxAsked

VARIABLES budget, fee, synced, paid, starts,
          signed, active, stored, crashes,
          has, asked, askFor, requested, announced, gone,
          part

budgetVars == <<budget, fee, synced, paid, starts>>
sporkVars == <<signed, active, stored, crashes>>
itemVars == <<has, asked, askFor, requested, announced, gone>>

Bud == INSTANCE Budget
Spo == INSTANCE Sporks
Inv == INSTANCE Inventory

(* A peer with a current and one with an old version; two votes of one       *)
(* masternode; the signer's peer passes sporks on to a third node.           *)
MCPeers == {"p", "q"}
MCOldPeers == {"q"}
MCBudgetVotes == [item : {"a"}, mn : {"m"}, time : {1, 2}]
MCLinks == {<<"s", "a">>, <<"a", "s">>, <<"a", "b">>, <<"b", "a">>}

ASSUME GossipAssumption ==
    Bud!BudgetAssumption /\ Spo!SporksAssumption /\ Inv!InventoryAssumption

MCVars == <<vars, budgetVars, sporkVars, itemVars, part>>

MCInit ==
    /\ Init
    /\ Bud!Init
    /\ Spo!Init
    /\ Inv!Init
    /\ part \in {"sync", "budget", "sporks", "items"}

(* Which part runs, and that the others do not. *)
SyncOnly == part = "sync" /\ UNCHANGED <<budgetVars, sporkVars, itemVars, part>>
BudgetOnly == part = "budget" /\ UNCHANGED <<vars, sporkVars, itemVars, part>>
SporksOnly == part = "sporks" /\ UNCHANGED <<vars, budgetVars, itemVars, part>>
ItemsOnly == part = "items" /\ UNCHANGED <<vars, budgetVars, sporkVars, part>>

MCNext ==
    \/ SyncOnly /\ Next
    \/ BudgetOnly /\ Bud!Next
    \/ SporksOnly /\ Spo!Next
    \/ ItemsOnly /\ Inv!Next

(* Fairness of each part, as in its module. *)
MCFairness ==
    /\ SF_MCVars(SyncOnly /\ Process(TRUE, TRUE))
    /\ WF_MCVars(SyncOnly /\ TurnsLate) /\ WF_MCVars(SyncOnly /\ MinutePasses) /\ WF_MCVars(SyncOnly /\ CatchUp)
    /\ \A a \in Items : WF_MCVars(SyncOnly /\ TurnsQuiet(a))
    /\ \A p \in Peers : WF_MCVars(SyncOnly /\ Connect(p)) /\ WF_MCVars(SyncOnly /\ Disconnect(p))
    /\ \A i \in BudgetItems :
          /\ WF_MCVars(BudgetOnly /\ Bud!Confirm(i))
          /\ SF_MCVars(BudgetOnly /\ Bud!NewBlock(i, FALSE, TRUE, TRUE))
          /\ SF_MCVars(BudgetOnly /\ Bud!NewBlock(i, FALSE, TRUE, FALSE))
          /\ SF_MCVars(BudgetOnly /\ Bud!ReceiveItem(i, TRUE))
    /\ WF_MCVars(BudgetOnly /\ synced = "failed" /\ Bud!SyncTurns("running"))
    /\ SF_MCVars(BudgetOnly /\ Bud!SyncTurns("finished"))
    /\ \A v \in BudgetVotes : SF_MCVars(BudgetOnly /\ Bud!ReceiveVote(v, TRUE))
    /\ \A l \in Links : WF_MCVars(SporksOnly /\ Spo!GetSporks(l[1], l[2]))
    /\ WF_MCVars(ItemsOnly /\ Inv!Minute)
    /\ \A p \in Announcers : WF_MCVars(ItemsOnly /\ Inv!SendGetData(p))
    /\ \A p \in Announcers : \A i \in Announceable : WF_MCVars(ItemsOnly /\ Inv!Receive(p, i))

MCSpec == MCInit /\ [][MCNext]_MCVars /\ MCFairness

-----------------------------------------------------------------------------
(* The properties of the other parts; those of MasternodeSync are its own.   *)

(* Votes on a valid item of the budget are counted or overtaken at last,     *)
(* although they were dropped while syncing, refused, or driven out of the   *)
(* one orphan place; they are only replaced by later ones and offered to the *)
(* peers, though ClearSeen hides the item from Sync; and SubmitFinalBudget   *)
(* pays the fee of a budget once per run of the program.                     *)
BudgetVotesCount ==
    /\ [](Bud!TypeOK /\ Bud!FeePaidOnce)
    /\ Bud!VotesMoveForward
    /\ Bud!VotesComeThrough
    /\ Bud!VotesAreOffered

(* All nodes come to have the same spork, whatever was lost and restarted,   *)
(* and a spork that every node has stored is never undone.                   *)
SporksSettle == []Spo!TypeOK /\ Spo!SporksConverge /\ Spo!SettledStays

(* What AskFor queued is asked of a peer that answers at last, after those   *)
(* that do not.                                                              *)
AnnouncedArrives == []Inv!TypeOK /\ Inv!AnnouncedArrives
==============================================================================
