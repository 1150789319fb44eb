------------------------------- MODULE Payment -------------------------------
(* How the wallet makes a payment (CWallet::CreateTransaction): the fee is   *)
(* known only when the coins are chosen, the coins only when the fee is      *)
(* known, so it tries with a larger fee until that is enough.                *)
(*                                                                           *)
(* SelectCoins returns some coins that are worth what is asked for, others   *)
(* each time.  A request is what is paid to whom and the user's settings:    *)
(* coin control (none, plain, or splitting the outputs) and where change     *)
(* goes, a fee at least (feePay), payTxFee and the estimate of the pool.     *)
(* Signing does not fail and the transaction is not too large.               *)
EXTENDS Integers, FiniteSetsExt, SequencesExt

CONSTANTS
    PayRequests,    \* the requests
    KB,             \* 1000: rates are per that many bytes
    TxBytes, InBytes, OutBytes,     \* the size of a transaction, for each input and output
    RelayRate,      \* minRelayTxFee
    TxRate,         \* minTxFee
    MaxTxFee,       \* maxTxFee
    Dust            \* an output below is dust

PaymentAssumption ==
    /\ \A r \in PayRequests :
          /\ r.send \in Seq(Nat \ {0}) /\ r.send # <<>> /\ r.coins \in Seq(Nat \ {0})
          /\ r.nSplit \in Nat \ {0} /\ (r.control # "split" => r.nSplit = 1)
          /\ r.change \in {"new", "payee", "other"} /\ (r.control = "none" => r.change = "new")
    /\ KB \in Nat \ {0} /\ {TxBytes, InBytes, OutBytes, RelayRate, TxRate, MaxTxFee, Dust} \subseteq Nat

VARIABLE
    payment     \* <<>>, or the request and how far it is

Init == payment = <<>>

Total(s) == FoldLeft(LAMBDA n, v : n + v, 0, s)
Paid(vout) == FoldLeft(LAMBDA n, o : n + o.value, 0, vout)
Worth(r, coins) == FoldSet(LAMBDA c, n : n + r.coins[c], 0, coins)

-----------------------------------------------------------------------------
(* CFeeRate::GetFee *)
GetFee(rate, bytes) == IF (rate * bytes) \div KB = 0 THEN rate ELSE (rate * bytes) \div KB

(* GetMinimumFee: what the user says, else the estimate, else minTxFee; not  *)
(* less than is relayed and not more than the maximum.                       *)
GetMinimumFee(r, bytes) ==
    LET own == IF r.atLeast THEN Max({GetFee(r.payTxFee, bytes), r.payTxFee}) ELSE GetFee(r.payTxFee, bytes)
        estimate == GetFee(r.estimate, bytes)
        fee == IF own # 0 THEN own ELSE IF estimate # 0 THEN estimate ELSE GetFee(TxRate, bytes)
    IN  Min({MaxTxFee, Max({fee, GetFee(RelayRate, bytes)})})

(* The outputs to the payees; a split amount leaves the rest to the last. *)
Payees(r) ==
    FlattenSeq([i \in DOMAIN r.send |->
        [k \in 1 .. r.nSplit |->
            [to |-> i,
             value |-> (r.send[i] \div r.nSplit) + (IF k = r.nSplit THEN r.send[i] % r.nSplit ELSE 0)]]])

(* Mutant: change that would be dust is left away. *)
FeeWithoutDust(fee, nChange) == fee

(* "Never create dust outputs; if we would, just add the dust to the fee." *)
FeeWithDust(fee, nChange) == fee + nChange

(* A reserved key, if any, goes back to the key pool. *)
ReturnKey(reserved) == FALSE

(* The outputs with the change, the fee, and whether a key is reserved for   *)
(* the change.  What denominated coins are worth beyond the payment goes to  *)
(* the fee, so does dust; change may go to a payee.                          *)
WithChange(r, fee, nChange, reserved) ==
    LET Result(vout, f, key) == [vout |-> vout, fee |-> f, reserved |-> key]
    IN  CASE r.denominated -> Result(Payees(r), fee + nChange, ReturnKey(reserved))
          [] ~r.denominated /\ nChange = 0 -> Result(Payees(r), fee, ReturnKey(reserved))
          [] ~r.denominated /\ nChange > 0 /\ r.change = "payee" ->
                Result([Payees(r) EXCEPT ![1].value = @ + nChange], fee, ReturnKey(reserved))
          [] ~r.denominated /\ nChange > 0 /\ nChange < Dust /\ r.change # "payee" ->
                Result(Payees(r), FeeWithDust(fee, nChange), ReturnKey(reserved))
          [] OTHER -> Result(Append(Payees(r), [to |-> 0, value |-> nChange]), fee, reserved \/ r.change = "new")

Bytes(coins, vout) == TxBytes + Cardinality(coins) * InBytes + Len(vout) * OutBytes

(* nFeeNeeded *)
FeeNeeded(r, bytes) == Max({r.feePay, GetMinimumFee(r, bytes)})

(* "Include more fee and try again." *)
NextFee(fee, needed) == needed

-----------------------------------------------------------------------------
CreateTransaction ==
    /\ payment = <<>>
    /\ \E r \in PayRequests :
          payment' = [stage |-> "try", r |-> r, fee |-> r.feePay, coins |-> {}, vout |-> <<>>, reserved |-> FALSE]

(* Dust that the user wants to pay, or not enough coins.  Without coin       *)
(* control no one looks at dust.                                             *)
Refused(r, fee) ==
    \/ r.control = "plain" /\ \E i \in DOMAIN r.send : r.send[i] < Dust
    \/ Total(r.coins) < Total(r.send) + fee

Fail ==
    /\ payment # <<>> /\ payment.stage = "try"
    /\ Refused(payment.r, payment.fee)
    /\ payment' = [payment EXCEPT !.stage = "failed"]

(* One round of the loop; free: the priority is high enough and the user     *)
(* sends free transactions.                                                  *)
Try(coins, free) ==
    LET r == payment.r
        t == WithChange(r, payment.fee, Worth(r, coins) - Total(r.send) - payment.fee, payment.reserved)
        bytes == Bytes(coins, t.vout)
        needed == FeeNeeded(r, bytes)
        tried == [payment EXCEPT !.coins = coins, !.vout = t.vout, !.fee = t.fee, !.reserved = t.reserved]
    IN  payment' =
            CASE free -> [tried EXCEPT !.stage = "free"]
              [] ~free /\ needed < GetFee(RelayRate, bytes) -> [tried EXCEPT !.stage = "failed"]
              [] ~free /\ needed >= GetFee(RelayRate, bytes) /\ t.fee >= needed -> [tried EXCEPT !.stage = "done"]
              [] OTHER -> [tried EXCEPT !.fee = NextFee(@, needed)]

TryCoins ==
    /\ payment # <<>> /\ payment.stage = "try"
    /\ ~Refused(payment.r, payment.fee)
    /\ \E coins \in SUBSET DOMAIN payment.r.coins, free \in {FALSE, payment.r.sendFree} :
          Worth(payment.r, coins) >= Total(payment.r.send) + payment.fee /\ Try(coins, free)

Next == CreateTransaction \/ Fail \/ TryCoins

Spec == Init /\ [][Next]_payment

-----------------------------------------------------------------------------
Made == payment # <<>> /\ payment.stage \in {"done", "free"}

(* Nothing gets lost in a payment, however often it was tried: the coins are *)
(* worth the outputs and the fee that the user is told, each payee gets what *)
(* was asked for, with the change if that goes to it, and no change is dust. *)
PaymentBalances ==
    Made =>
        LET r == payment.r
            change == Worth(r, payment.coins) - Total(r.send) - payment.fee
            ToPayee(i) == Paid(SelectSeq(payment.vout, LAMBDA o : o.to = i))
        IN  /\ Worth(r, payment.coins) = Paid(payment.vout) + payment.fee
            /\ \A i \in DOMAIN r.send : ToPayee(i) = r.send[i] + (IF i = 1 /\ r.change = "payee" THEN change ELSE 0)
            /\ \A i \in DOMAIN payment.vout : payment.vout[i].to = 0 => payment.vout[i].value >= Dust

(* A payment that is not sent for free is relayed, and it pays no more than  *)
(* the maximum, or what the user gave, and an amount of dust, unless the     *)
(* coins are denominated.                                                    *)
FeeIsEnoughAndBounded ==
    Made =>
        LET r == payment.r
        IN  /\ payment.stage = "done" => payment.fee >= GetFee(RelayRate, Bytes(payment.coins, payment.vout))
            /\ ~r.denominated => payment.fee <= Max({r.feePay, MaxTxFee}) + Max({Dust - 1, 0})

(* A key is taken from the key pool exactly when a payment has change for a  *)
(* new key, also when an earlier round had change and the last has none.     *)
KeyIsForChange ==
    Made => payment.reserved = (payment.r.change = "new" /\ \E i \in DOMAIN payment.vout : payment.vout[i].to = 0)
==============================================================================
