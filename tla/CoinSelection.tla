---------------------------- MODULE CoinSelection ----------------------------
(* Which coins of the wallet pay for a transaction (SelectCoins,             *)
(* SelectCoinsMinConf and ApproximateBestSubset of wallet.cpp).  vCoins is   *)
(* the sequence of spendable outputs after the shuffle and after the sort    *)
(* that moves denominations to the end: records with their value, depth and  *)
(* whether they come from the wallet itself.  The random draws make what is  *)
(* selected a set of possible results, each a set of positions of vCoins;    *)
(* Nothing stands for the call that returns false.                           *)
EXTENDS Integers, FiniteSetsExt, SequencesExt

CONSTANTS CENT,                 \* the least change worth making
          Denominations         \* the values that IsDenominatedAmount accepts

Nothing == {0}

Value(vCoins, chosen) == MapThenSumSet(LAMBDA i : vCoins[i].value, chosen)

(* One round of the approximation: Pass looks at the positions of vValue in  *)
(* turn and tries the ones that Wants names.                                 *)
Start(vValue, nTotalLower) ==
    [nTotal |-> 0, vfIncluded |-> {}, fReachedTarget |-> FALSE, nBest |-> nTotalLower, vfBest |-> Range(vValue)]

Try(vCoins, nTargetValue, s, i) ==
    LET nTotal == s.nTotal + vCoins[i].value
        with   == s.vfIncluded \cup {i}
        better == nTotal < s.nBest
    IN  IF nTotal < nTargetValue THEN [s EXCEPT !.nTotal = nTotal, !.vfIncluded = with]
        ELSE [s EXCEPT !.fReachedTarget = TRUE,
                       !.nBest = IF better THEN nTotal ELSE @,
                       !.vfBest = IF better THEN with ELSE @]

Round(vCoins, vValue, nTotalLower, nTargetValue, drawn) ==
    LET first  == FoldLeft(LAMBDA s, i : IF i \in drawn THEN Try(vCoins, nTargetValue, s, i) ELSE s,
                           Start(vValue, nTotalLower), vValue)
        second == FoldLeft(LAMBDA s, i : IF i \notin s.vfIncluded THEN Try(vCoins, nTargetValue, s, i) ELSE s,
                           first, vValue)
    IN  (IF first.fReachedTarget THEN first ELSE second).vfBest

(* The best of up to 1000 rounds: whatever some single round can find. *)
ApproximateBestSubset(vCoins, vValue, nTotalLower, nTargetValue) ==
    {Round(vCoins, vValue, nTotalLower, nTargetValue, drawn) : drawn \in SUBSET Range(vValue)}

(* sort(vValue.rbegin(), vValue.rend()): the largest first. *)
LargestFirst(vCoins, lower) ==
    SetToSortSeq(lower, LAMBDA i, j : \/ vCoins[i].value > vCoins[j].value
                                      \/ vCoins[i].value = vCoins[j].value /\ i < j)

(* The two searches: for the target, and if it is missed and there is enough *)
(* for the target and a cent of change.                                      *)
Approximate(vCoins, lower, nTargetValue) ==
    LET vValue == LargestFirst(vCoins, lower)
        nTotalLower == Value(vCoins, lower)
        best == ApproximateBestSubset(vCoins, vValue, nTotalLower, nTargetValue)
        hits == {b \in best : Value(vCoins, b) = nTargetValue}
    IN  IF nTotalLower < nTargetValue + CENT \/ best = hits THEN best
        ELSE hits \cup ApproximateBestSubset(vCoins, vValue, nTotalLower, nTargetValue + CENT)

(* SelectCoinsMinConf.  Looked at are the coins with the confirmations, at   *)
(* first without denominations.                                              *)
SelectCoinsMinConf(vCoins, nTargetValue, nConfMine, nConfTheirs) ==
    LET Deep == {i \in DOMAIN vCoins : vCoins[i].depth >= IF vCoins[i].fromMe THEN nConfMine ELSE nConfTheirs}
        Plain == {i \in Deep : vCoins[i].value \notin Denominations}
        Exact(seen)  == {i \in seen : vCoins[i].value = nTargetValue}
        Lower(seen)  == {i \in seen : vCoins[i].value < nTargetValue + CENT}
        Larger(seen) == {i \in seen : vCoins[i].value >= nTargetValue + CENT}
        Lowest(seen) == {CHOOSE i \in Larger(seen) : \A j \in Larger(seen) :
                            vCoins[i].value < vCoins[j].value \/ (vCoins[i].value = vCoins[j].value /\ i <= j)}
        Total(seen)  == Value(vCoins, Lower(seen))
        Subset(seen, best) ==
            LET nBest == Value(vCoins, best)
            IN  IF /\ Larger(seen) # {}
                   /\ \/ nBest # nTargetValue /\ nBest < nTargetValue + CENT
                      \/ Value(vCoins, Lowest(seen)) <= nBest
                THEN Lowest(seen) ELSE best
        Select(seen, otherwise) ==
            IF Exact(seen) # {} THEN {{Min(Exact(seen))}}
            ELSE IF Total(seen) = nTargetValue THEN {Lower(seen)}
            ELSE IF Total(seen) > nTargetValue
                 THEN {Subset(seen, best) : best \in Approximate(vCoins, Lower(seen), nTargetValue)}
            ELSE IF Larger(seen) # {} THEN {Lowest(seen)}
            ELSE otherwise
    IN  Select(Plain, Select(Deep, {Nothing}))

(* The last statement of SelectCoins: the confirmations asked for are        *)
(* lowered until there is enough.  The branches before it, for coins chosen  *)
(* by hand and for ONLY_DENOMINATED, are left out.                           *)
SelectCoins(vCoins, nTargetValue, bSpendZeroConfChange) ==
    LET Got(nConfMine, nConfTheirs) == SelectCoinsMinConf(vCoins, nTargetValue, nConfMine, nConfTheirs)
        Or(results, otherwise) == IF results = {Nothing} THEN otherwise ELSE results
    IN  Or(Got(1, 6), Or(Got(1, 1), IF bSpendZeroConfChange THEN Got(0, 1) ELSE {Nothing}))

-----------------------------------------------------------------------------
(* The coins pay: what is selected is worth the target, and nothing is       *)
(* selected only when all the coins that may be spent are not worth it.      *)
Pays(vCoins, nTargetValue, zeroConf, chosen) ==
    LET mayBeSpent == {i \in DOMAIN vCoins : vCoins[i].depth >= 1 \/ (zeroConf /\ vCoins[i].fromMe)}
    IN  IF chosen = Nothing THEN Value(vCoins, mayBeSpent) < nTargetValue
        ELSE chosen \subseteq mayBeSpent /\ Value(vCoins, chosen) >= nTargetValue

(* Change of less than a cent is made only where the deep coins that are no  *)
(* denominations leave no choice, and never is more spent than one larger    *)
(* coin among them would have cost.  (That no coin is superfluous is not     *)
(* promised: a single round may keep one.)                                   *)
IsTight(vCoins, nTargetValue, chosen) ==
    LET value == Value(vCoins, chosen)
        plain == {i \in DOMAIN vCoins : vCoins[i].depth >= 6 /\ vCoins[i].value \notin Denominations}
    IN  /\ value \in nTargetValue + 1 .. nTargetValue + CENT - 1 => Value(vCoins, plain) < nTargetValue + CENT
        /\ \A i \in plain : vCoins[i].value >= nTargetValue + CENT => value <= vCoins[i].value

(* SelectCoins: the coins pay and are tight whatever the draws. *)
SelectionPays(vCoins, nTargetValue, zeroConf) ==
    \A chosen \in SelectCoins(vCoins, nTargetValue, zeroConf) :
        /\ Pays(vCoins, nTargetValue, zeroConf, chosen)
        /\ chosen # Nothing => IsTight(vCoins, nTargetValue, chosen)
==============================================================================
