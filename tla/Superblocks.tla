----------------------------- MODULE Superblocks -----------------------------
(***************************************************************************)
(* Budget payments in blocks: which finalized budget a superblock may pay, *)
(* and the history by which a proposal is kept from being paid twice in    *)
(* one cycle.  CheckBlock asks IsBlockPayeeValid, and the answer has a     *)
(* side effect: a payment that is found valid is written into the history. *)
(*                                                                         *)
(* The budgets of one cycle begin at the same height, the first of the     *)
(* model; every proposal has one payee and one amount.  Votes are counted  *)
(* here; how they come is the subject of Budget.  Votes for the payee of a *)
(* height are the subject of MasternodePayments: whether one has the six   *)
(* votes that enforce it when a block is judged (enforced) is an input     *)
(* here, and a block that pays a masternode pays that one.  Masternodes    *)
(* that know the height as one of a budget do not vote for a payee, so     *)
(* that there is often none.  SPORK_13 is active and the node synced,      *)
(* otherwise nothing is checked.                                           *)
(***************************************************************************)
EXTENDS Integers, Sequences, SequencesExt

CONSTANTS
    Finalized,      \* hashes of finalized budgets, in the order of the map
    PaymentsOf,     \* vecBudgetPayments: budget -> sequence of proposals
    EnabledCount,   \* mnodeman.CountEnabled(ActiveProtocol())
    EnforceBudget,  \* SPORK_9_MASTERNODE_BUDGET_ENFORCEMENT
    EnforcePayee,   \* SPORK_8_MASTERNODE_PAYMENT_ENFORCEMENT
    Tallies,        \* possible numbers of votes for the budgets
    MaxHeight       \* bound on the blocks after the start of the cycle

Proposals == UNION {ToSet(PaymentsOf[b]) : b \in ToSet(Finalized)}
Pays == Proposals \cup {"masternode"}

(* Who has vouched for a block: a budget, the payee that is enforced at its  *)
(* height, or nobody.                                                        *)
Vouchers == {"budget", "payee", "nobody"}

SuperblocksAssumption ==
    /\ Finalized \in Seq(ToSet(Finalized))
    /\ PaymentsOf \in [ToSet(Finalized) -> Seq(Proposals)]
    /\ "masternode" \notin Proposals
    /\ {EnforceBudget, EnforcePayee} \subseteq BOOLEAN
    /\ Tallies \subseteq [ToSet(Finalized) -> Nat]
    /\ {EnabledCount, MaxHeight} \subseteq Nat

VARIABLES
    tally,      \* GetVoteCount of each budget
    history,    \* mapPayment_History: proposal -> height
    payChain,   \* what the blocks from the start of the cycle pay, and why
    judged,     \* blocks a budget found valid, with the votes at that time
    forgotten   \* whether the node was restarted in this cycle

superVars == <<tally, history, payChain, judged, forgotten>>

GetBlockEnd(b) == Len(PaymentsOf[b])

(* GetBlockStart() <= h <= GetBlockEnd() *)
Covers(b, h) == h >= 1 /\ h <= GetBlockEnd(b)

Highest(h, floor) == FoldLeft(LAMBDA n, b : IF tally[b] > n /\ Covers(b, h) THEN tally[b] ELSE n, floor, Finalized)

IsBudgetPaymentBlock(h) == Highest(h, -1) > EnabledCount \div 20

(* The entries of the history that lie in the blocks of budget b. *)
InRangeOf(b, hist) == {p \in DOMAIN hist : Covers(b, hist[p])}

(* Mutant: the history is kept but not consulted. *)
BudgetVerdictUnasked(b, h, pay, hist) ==
    LET kept == [p \in InRangeOf(b, hist) |-> hist[p]]
    IN  CASE pay # PaymentsOf[b][h] -> [status |-> "Invalid", history |-> hist]
          [] OTHER -> [status |-> "Valid", history |-> [p \in DOMAIN kept \cup {pay} |-> h]]

(* CFinalizedBudget::IsTransactionValid and IsPaidAlready for a block at a   *)
(* height of budget b.                                                       *)
BudgetVerdict(b, h, pay, hist) ==
    LET kept == [p \in InRangeOf(b, hist) |-> hist[p]]
    IN  CASE pay # PaymentsOf[b][h] -> [status |-> "Invalid", history |-> hist]
          [] pay = PaymentsOf[b][h] /\ pay \in DOMAIN kept -> [status |-> "DoublePayment", history |-> kept]
          [] OTHER -> [status |-> "Valid",
                       history |-> [p \in DOMAIN kept \cup {pay} |-> IF p = pay THEN h ELSE kept[p]]]

(* One budget is asked, unless one has said Valid or it has too few votes. *)
Ask(r, b, h, pay, threshold) ==
    IF r.status = "Valid" \/ tally[b] <= threshold THEN r
    ELSE IF ~Covers(b, h) THEN [r EXCEPT !.voted = TRUE]
    ELSE LET v == BudgetVerdict(b, h, pay, r.history)
         IN  [status |-> v.status, history |-> v.history, voted |-> TRUE]

(* CBudgetManager::IsTransactionValid: the budgets with almost the highest   *)
(* count are asked in turn until one says Valid; the last answer stays.      *)
IsTransactionValid(h, pay, hist) ==
    LET highest   == Highest(h, 0)
        threshold == highest - EnabledCount \div 10
        unasked   == [status |-> "Invalid", history |-> hist, voted |-> FALSE]
        asked     == FoldLeft(LAMBDA r, b : Ask(r, b, h, pay, threshold), unasked, Finalized)
    IN  IF highest < EnabledCount \div 20 THEN unasked
        ELSE IF asked.voted THEN asked ELSE [asked EXCEPT !.status = "VoteThreshold"]

(* What the budgets say of a block, if there is one for its height. *)
Asked(h, pay, hist) ==
    IF IsBudgetPaymentBlock(h) THEN IsTransactionValid(h, pay, hist)
    ELSE [status |-> "Unasked", history |-> hist, voted |-> FALSE]

(* IsBlockPayeeValid: whether the block is valid, who has vouched for it,    *)
(* and the history after it.  What no budget grants must pay the masternode  *)
(* with six votes, if there is one and SPORK_8 is active.                    *)
IsBlockPayeeValid(h, pay, hist, enforced) ==
    LET r     == Asked(h, pay, hist)
        voted == enforced /\ EnforcePayee
    IN  [valid   |-> \/ r.status = "Valid"
                     \/ ~(r.status = "Invalid" /\ EnforceBudget) /\ (voted => pay = "masternode"),
         by      |-> IF r.status = "Valid" THEN "budget" ELSE IF voted THEN "payee" ELSE "nobody",
         history |-> r.history]

-----------------------------------------------------------------------------
TypeOK ==
    /\ tally \in Tallies
    /\ DOMAIN history \subseteq Proposals
    /\ \A p \in DOMAIN history : history[p] \in 1..MaxHeight
    /\ payChain \in Seq([pay : Pays, by : Vouchers]) /\ Len(payChain) <= MaxHeight
    /\ judged \subseteq [height : 1..MaxHeight, pay : Pays, tally : Tallies]
    /\ forgotten \in BOOLEAN

Init ==
    /\ tally \in Tallies
    /\ history = [p \in {} |-> 0]
    /\ payChain = <<>>
    /\ judged = {}
    /\ forgotten = FALSE

(* CheckBlock of a block at height h, with the verdict v. *)
Judge(h, pay, v) ==
    /\ history' = v.history
    /\ judged' = IF v.by = "budget" THEN judged \cup {[height |-> h, pay |-> pay, tally |-> tally]} ELSE judged

(* A block on the tip arrives, is checked once and connected, or a block     *)
(* that was disconnected is checked by ConnectBlock and connected again.     *)
ConnectBlock(pay, enforced) ==
    LET h == Len(payChain) + 1
        v == IsBlockPayeeValid(h, pay, history, enforced)
    IN  /\ h <= MaxHeight
        /\ Judge(h, pay, v)
        /\ payChain' = IF v.valid THEN Append(payChain, [pay |-> pay, by |-> v.by]) ELSE payChain
        /\ UNCHANGED <<tally, forgotten>>

(* CheckBlock without a connection: a block of a fork arrives, a template is *)
(* tested, verifychain runs.                                                 *)
CheckBlock(h, pay, enforced) ==
    /\ h <= Len(payChain) + 1 /\ h <= MaxHeight
    /\ Judge(h, pay, IsBlockPayeeValid(h, pay, history, enforced))
    /\ UNCHANGED <<tally, payChain, forgotten>>

DisconnectTip ==
    /\ payChain # <<>>
    /\ payChain' = Front(payChain)
    /\ UNCHANGED <<tally, history, judged, forgotten>>

(* Votes come, or budgets are removed. *)
Revote ==
    /\ tally' \in Tallies \ {tally}
    /\ UNCHANGED <<history, payChain, judged, forgotten>>

(* mapPayment_History is not saved. *)
Restart ==
    /\ history' = [p \in {} |-> 0]
    /\ judged' = {}
    /\ forgotten' = TRUE
    /\ UNCHANGED <<tally, payChain>>

Next ==
    \/ \E pay \in Pays, enforced \in BOOLEAN : ConnectBlock(pay, enforced)
    \/ \E h \in 1..MaxHeight, pay \in Pays, enforced \in BOOLEAN : CheckBlock(h, pay, enforced)
    \/ DisconnectTip
    \/ Revote
    \/ Restart

Spec == Init /\ [][Next]_superVars

-----------------------------------------------------------------------------
(* Properties *)

(* A proposal is in the chain twice within one cycle only through a block    *)
(* that nobody has vouched for: no budget grants it again ("Double Budget    *)
(* Payment detected"), although budgets that differ in their order are       *)
(* accepted side by side, and where a masternode has the votes and SPORK_8   *)
(* is active the block is refused ("In all cases a masternode will get the   *)
(* payment for this block").  This holds as long as the node keeps its       *)
(* history and the budgets end at the same block (a shorter one drops the    *)
(* later entries).                                                           *)
NoDoublePayment ==
    ~forgotten /\ (\A b, c \in ToSet(Finalized) : GetBlockEnd(b) = GetBlockEnd(c)) =>
        \A i, j \in DOMAIN payChain :
            i # j /\ payChain[i].pay = payChain[j].pay /\ payChain[i].pay # "masternode" =>
                "nobody" \in {payChain[i].by, payChain[j].by}

(* A block that a budget found valid is found valid by the budgets when it   *)
(* is checked again with the same votes: the history is kept "for checks     *)
(* with later blocks from this cycle".                                       *)
RecheckAgrees ==
    \A b \in judged : b.tally = tally => IsTransactionValid(b.height, b.pay, history).status = "Valid"
==============================================================================
