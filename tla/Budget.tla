------------------------------- MODULE Budget --------------------------------
(***************************************************************************)
(* CBudgetManager of masternode-budget.cpp: proposals and finalized        *)
(* budgets, whose code is the same but for names, the votes on them, the   *)
(* maps of what was seen, votes that come before their item, items whose   *)
(* fee is not confirmed yet, the incremental sync with peers and the       *)
(* submission of a budget of our own.                                      *)
(*                                                                         *)
(* Messages come in any order and again; a lost one is one that has not    *)
(* come yet.  A vote whose masternode is unknown leads to a question only. *)
(* What a vote says, amounts and the choice of the winning proposals are   *)
(* left out, and so is fValid of a vote, which follows the masternode      *)
(* list.                                                                   *)
(***************************************************************************)
EXTENDS Naturals, FiniteSets

CONSTANTS
    BudgetItems,    \* proposals and finalized budgets, by their hash
    OwnItems,       \* finalized budgets that this node submits ("suggest")
    BudgetVotes,    \* votes that masternodes have sent, [item, mn, time]
    UpdateMin,      \* BUDGET_VOTE_UPDATE_MIN
    NoVote,
    MaxStarts       \* bound on restarts

BudgetMasternodes == {v.mn : v \in BudgetVotes}

(* A wallet refuses to vote again too soon, so its votes are apart. *)
BudgetAssumption ==
    /\ OwnItems \subseteq BudgetItems
    /\ BudgetVotes \subseteq [item : BudgetItems, mn : BudgetMasternodes, time : Nat \ {0}]
    /\ UpdateMin \in Nat \ {0}
    /\ \A v, w \in BudgetVotes : v.item = w.item /\ v.mn = w.mn /\ v.time < w.time => v.time + UpdateMin <= w.time
    /\ NoVote \notin BudgetVotes
    /\ MaxStarts \in Nat

VARIABLES
    budget,     \* the fields of CBudgetManager
    fee,        \* confirmations of an item's fee: "none", "some", "enough"; "expired": no longer IsValid
    synced,     \* masternodeSync: "running", "failed" or "finished"
    paid,       \* fees that this node has paid for an item
    starts      \* restarts so far

budgetVars == <<budget, fee, synced, paid, starts>>

(* items: mapProposals, mapFinalizedBudgets; seen and heard: the maps of     *)
(* seen items and votes; immature: the vectors; time: mapVotes, 0 for no     *)
(* vote; told: fSynced; orphan: one vote per item; collateral:               *)
(* mapCollateralTxids.                                                       *)
Empty ==
    [items |-> {}, seen |-> {}, immature |-> {}, heard |-> {}, collateral |-> {}, told |-> {},
     time |-> [i \in BudgetItems |-> [m \in BudgetMasternodes |-> 0]], orphan |-> [i \in BudgetItems |-> NoVote]]

-----------------------------------------------------------------------------
(* AddOrUpdateVote takes v: it is the first of its masternode, or later than *)
(* the one before by UpdateMin.                                              *)
Takes(b, v) == b.time[v.item][v.mn] = 0 \/ b.time[v.item][v.mn] + UpdateMin <= v.time

AddOrUpdateVote(b, v) ==
    IF Takes(b, v) THEN [b EXCEPT !.time[v.item][v.mn] = v.time, !.told = @ \ {<<v.item, v.mn>>}] ELSE b

(* UpdateProposal, UpdateFinalizedBudget *)
Update(b, v) ==
    CASE v.item \in b.items -> AddOrUpdateVote(b, v)
      [] v.item \notin b.items /\ synced # "finished" -> b
      [] v.item \notin b.items /\ synced = "finished" -> [b EXCEPT !.orphan[v.item] = v]

(* CheckOrphanVotes: a vote that is taken is an orphan no more.  clock says  *)
(* that no vote lies in the future of this node's clock.                     *)
Adopted(b, clock) == {i \in b.items : b.orphan[i] # NoVote /\ clock /\ Takes(b, b.orphan[i])}

CheckOrphanVotes(b, clock) ==
    LET taken == Adopted(b, clock)
    IN  [b EXCEPT !.orphan = [i \in BudgetItems |-> IF i \in taken THEN NoVote ELSE @[i]],
                  !.time = [i \in BudgetItems |-> [m \in BudgetMasternodes |->
                      IF i \in taken /\ b.orphan[i].mn = m THEN b.orphan[i].time ELSE @[i][m]]],
                  !.told = {p \in @ : ~ (p[1] \in taken /\ b.orphan[p[1]].mn = p[2])}]

(* AddProposal, AddFinalizedBudget *)
AddItem(b, i) == IF fee[i] # "expired" THEN [b EXCEPT !.items = @ \cup {i}] ELSE b

(* Mutant: votes stay seen. *)
ClearSeenItems(b) == [b EXCEPT !.seen = {}]

ClearSeen(b) == [b EXCEPT !.seen = {}, !.heard = {}]

(* ResetSync and MarkSynced go over the seen items. *)
VotesOf(b, is) == {p \in is \X BudgetMasternodes : b.time[p[1]][p[2]] # 0}
ResetSync(b) == [b EXCEPT !.told = @ \ VotesOf(b, b.seen \cap b.items)]
MarkSynced(b) == [b EXCEPT !.told = @ \cup VotesOf(b, b.seen \cap b.items)]

(* CheckAndRemove: an item that is not valid goes with its votes. *)
CheckAndRemove(b) ==
    LET gone == {i \in b.items : fee[i] = "expired"}
    IN  [b EXCEPT !.items = @ \ gone,
                  !.time = [i \in BudgetItems |-> IF i \in gone THEN Empty.time[i] ELSE @[i]],
                  !.told = {p \in @ : p[1] \notin gone}]

(* The end of NewBlock: items whose fee has matured are added, but not seen, *)
(* and votes that wait for them go on waiting.                               *)
Mature(b) ==
    LET ripe == {i \in b.immature : fee[i] \in {"enough", "expired"}}
    IN  [b EXCEPT !.immature = @ \ ripe, !.items = @ \cup {i \in ripe : fee[i] = "enough"}]

(* NewBlock after the submission, every 14 blocks; reset: the day's random   *)
(* block.  ClearSeen comes first, so ResetSync and Sync find nothing.        *)
Tend(b, reset) ==
    LET cleared == IF reset THEN ResetSync(ClearSeen(b)) ELSE b
        shared  == IF synced = "finished" THEN MarkSynced(cleared) ELSE b
    IN  Mature(CheckAndRemove(shared))

-----------------------------------------------------------------------------
Init ==
    /\ budget = Empty
    /\ fee = [i \in BudgetItems |-> "none"]
    /\ synced = "running"
    /\ paid = [i \in BudgetItems |-> 0]
    /\ starts = 0

(* The mprop and fbs messages. *)
ReceiveItem(i, clock) ==
    /\ i \notin budget.seen
    /\ \/ fee[i] = "some" /\ budget' = [budget EXCEPT !.immature = @ \cup {i}]
       \/ /\ fee[i] = "enough"
          /\ budget' = CheckOrphanVotes(AddItem([budget EXCEPT !.seen = @ \cup {i}], i), clock)
       \/ fee[i] = "expired" /\ budget' = [budget EXCEPT !.seen = @ \cup {i}]
    /\ UNCHANGED <<fee, synced, paid, starts>>

(* The mvote and fbvote messages; the vote counts as seen whatever comes of  *)
(* it.  fine: the signature fits the key in our list, and the vote is not    *)
(* too far ahead of our clock.                                               *)
ReceiveVote(v, fine) ==
    /\ v \notin budget.heard
    /\ LET b == [budget EXCEPT !.heard = @ \cup {v}]
       IN  budget' = IF fine THEN Update(b, v) ELSE b
    /\ UNCHANGED <<fee, synced, paid, starts>>

(* SubmitFinalBudget: pay the fee once, wait until it has one confirmation   *)
(* more than others ask for (deep), then add the budget.                     *)
Pays(i) == i \in OwnItems /\ i \notin budget.seen /\ i \notin budget.collateral

SubmitFinalBudget(i, deep) ==
    CASE Pays(i) -> [budget EXCEPT !.collateral = @ \cup {i}]
      [] i \in OwnItems /\ i \notin budget.seen /\ i \in budget.collateral /\ deep /\ fee[i] # "expired" ->
            AddItem([budget EXCEPT !.seen = @ \cup {i}], i)
      [] OTHER -> budget

(* CBudgetManager::NewBlock.  The proposals in the lead make up item i; the  *)
(* wallet may be unable to pay.                                              *)
NewBlock(i, deep, full, reset) ==
    /\ synced # "running"
    /\ reset => full /\ synced = "finished"
    /\ deep => fee[i] \in {"enough", "expired"} \* then the fee of our own is as old
    /\ LET b == SubmitFinalBudget(i, deep)
       IN  budget' = IF full THEN Tend(b, reset) ELSE b
    /\ paid' = IF Pays(i) THEN [paid EXCEPT ![i] = @ + 1] ELSE paid
    /\ UNCHANGED <<fee, synced, starts>>

(* The command checkbudgets *)
CheckBudgets ==
    /\ budget' = CheckAndRemove(budget)
    /\ UNCHANGED <<fee, synced, paid, starts>>

(* External: the fee's block gets older, the item expires, and               *)
(* masternodeSync finishes, fails, or starts again.                          *)
Confirm(i) ==
    /\ \/ fee[i] = "none" /\ fee' = [fee EXCEPT ![i] = "some"]
       \/ fee[i] = "some" /\ fee' = [fee EXCEPT ![i] = "enough"]
    /\ UNCHANGED <<budget, synced, paid, starts>>

ExpireItem(i) ==
    /\ fee[i] = "enough"
    /\ fee' = [fee EXCEPT ![i] = "expired"]
    /\ UNCHANGED <<budget, synced, paid, starts>>

SyncTurns(to) ==
    /\ <<synced, to>> \in {<<"running", "failed">>, <<"failed", "running">>, <<"running", "finished">>, <<"finished", "running">>}
    /\ synced' = to
    /\ UNCHANGED <<budget, fee, paid, starts>>

(* The node stops and starts: Read, CheckAndRemove, ResetSync, ClearSeen.    *)
(* budget.dat is only written by DumpBudgets in an orderly stop (dump);      *)
(* after a crash in the first run there is none.                             *)
Restart(dump) ==
    /\ starts < MaxStarts
    /\ starts' = starts + 1
    /\ synced' = "running"
    /\ LET file == IF dump THEN [budget EXCEPT !.immature = {}, !.collateral = {}, !.told = {}] ELSE Empty
       IN  budget' = ClearSeen(ResetSync(CheckAndRemove(file)))
    /\ UNCHANGED <<fee, paid>>

NewBlockStep == \E i \in BudgetItems, deep, full, reset \in BOOLEAN : NewBlock(i, deep, full, reset)

Next ==
    \/ \E i \in BudgetItems, clock \in BOOLEAN : ReceiveItem(i, clock)
    \/ \E v \in BudgetVotes, fine \in BOOLEAN : ReceiveVote(v, fine)
    \/ NewBlockStep
    \/ CheckBudgets
    \/ \E i \in BudgetItems : Confirm(i) \/ ExpireItem(i)
    \/ \E to \in {"running", "failed", "finished"} : SyncTurns(to)
    \/ \E dump \in BOOLEAN : Restart(dump)

Spec == Init /\ [][Next]_budgetVars

(* What the code and its peers do again and again: blocks come, the random   *)
(* block of a reset among them, fees mature, a failed sync is tried again    *)
(* and finishes some time, peers that restart offer items and votes anew.    *)
BudgetFairness(i) ==
    /\ WF_budgetVars(Confirm(i))
    /\ WF_budgetVars(synced = "failed" /\ SyncTurns("running"))
    /\ SF_budgetVars(SyncTurns("finished"))
    /\ SF_budgetVars(NewBlock(i, FALSE, TRUE, TRUE))
    /\ SF_budgetVars(NewBlock(i, FALSE, TRUE, FALSE))
    /\ SF_budgetVars(ReceiveItem(i, TRUE))

VoteFairness(v) == SF_budgetVars(ReceiveVote(v, TRUE))

FairSpec == Spec /\ (\A i \in BudgetItems : BudgetFairness(i)) /\ \A v \in BudgetVotes : VoteFairness(v)

-----------------------------------------------------------------------------
(* Properties *)

TypeOK ==
    /\ budget.items \cup budget.seen \cup budget.immature \cup budget.collateral \subseteq BudgetItems
    /\ budget.heard \subseteq BudgetVotes
    /\ budget.told \subseteq BudgetItems \X BudgetMasternodes
    /\ \A i \in BudgetItems : budget.orphan[i] \in {v \in BudgetVotes : v.item = i} \cup {NoVote}
    /\ \A i \in BudgetItems, m \in BudgetMasternodes :
          budget.time[i][m] # 0 => i \in budget.items /\ [item |-> i, mn |-> m, time |-> budget.time[i][m]] \in BudgetVotes
    /\ starts \in 0..MaxStarts

(* As long as an item stays, the vote of a masternode on it is only replaced *)
(* by a later one, though votes come in any order and wait as orphans.       *)
VotesMoveForward ==
    [][\A i \in budget.items \cap budget'.items, m \in BudgetMasternodes :
          starts' = starts => budget.time[i][m] <= budget'.time[i][m]]_budgetVars

(* SubmitFinalBudget runs block after block until the fee is old enough, and *)
(* what was seen is cleared in between: the fee of a budget is paid once per *)
(* run of the program.                                                       *)
FeePaidOnce == \A i \in BudgetItems : paid[i] <= starts + 1

(* Every vote on an item that stays valid is counted or overtaken by a later *)
(* one, also if it came too early, was dropped while the node was syncing,   *)
(* or was driven out of its item's one place for orphans: what is seen is    *)
(* cleared at some time and peers offer the vote again.                      *)
VotesComeThrough ==
    \A v \in BudgetVotes :
        fee[v.item] = "enough" ~> fee[v.item] = "expired" \/ budget.time[v.item][v.mn] >= v.time

(* Every vote that is counted is offered to the peers (fSynced) at some      *)
(* time, though clearing what is seen hides its item from Sync.              *)
VotesAreOffered ==
    \A i \in BudgetItems, m \in BudgetMasternodes :
        [](budget.time[i][m] # 0 => <>(fee[i] = "expired" \/ <<i, m>> \in budget.told))
==============================================================================
