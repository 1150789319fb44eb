------------------------------ MODULE Signatures -----------------------------
(* What a signature covers and which signatures a multisignature output      *)
(* takes (script/interpreter.cpp).                                           *)
(*                                                                           *)
(* A transaction is its inputs, its outputs and the rest (version and lock   *)
(* time); a hash is what is hashed.  Positions count from 1.                 *)
EXTENDS Integers, SequencesExt

HashTypes == [base : {"ALL", "NONE", "SINGLE"}, anyoneCanPay : BOOLEAN]

Blank == <<>>   \* CScript(), CTxOut() and nSequence 0
One == <<>>     \* the hash when there is nothing to sign

-----------------------------------------------------------------------------
(* SignatureHash *)

(* SerializeInput; script stands for the scriptCode of the output spent. *)
SerializeInput(tx, n, nIn, type) ==
    [prevout |-> tx.vin[n].prevout,
     script |-> IF n = nIn THEN "scriptCode" ELSE Blank,
     sequence |-> IF n # nIn /\ type.base # "ALL" THEN Blank ELSE tx.vin[n].sequence]

(* CTransactionSignatureSerializer: ANYONECANPAY leaves only the input that  *)
(* is signed, NONE no outputs, SINGLE the output at the same position.       *)
Serialize(tx, nIn, type) ==
    LET inputs == IF type.anyoneCanPay THEN <<nIn>> ELSE [n \in DOMAIN tx.vin |-> n]
    IN  [vin |-> [i \in DOMAIN inputs |-> SerializeInput(tx, inputs[i], nIn, type)],
         vout |-> CASE type.base = "NONE" -> <<>>
                    [] type.base = "SINGLE" -> [n \in 1 .. nIn |-> IF n = nIn THEN tx.vout[n] ELSE Blank]
                    [] OTHER -> tx.vout,
         rest |-> tx.rest,
         type |-> type]

(* Mutant: other inputs stay open when one output is signed. *)
WitnessHashOwn(tx, nIn, type, amount) ==
    [prevouts |-> IF type.anyoneCanPay \/ type.base # "ALL" THEN Blank ELSE [n \in DOMAIN tx.vin |-> tx.vin[n].prevout],
     sequences |-> IF type.anyoneCanPay \/ type.base # "ALL" THEN Blank ELSE [n \in DOMAIN tx.vin |-> tx.vin[n].sequence],
     input |-> tx.vin[nIn], amount |-> amount,
     outputs |-> CASE type.base = "ALL" -> tx.vout
                   [] type.base = "SINGLE" /\ nIn <= Len(tx.vout) -> <<tx.vout[nIn]>>
                   [] OTHER -> Blank,
     rest |-> tx.rest, type |-> type]

(* Version 0 of witness programs: hashes of all prevouts, sequences and      *)
(* outputs, or 0 instead, and the amount that is spent.                      *)
WitnessHash(tx, nIn, type, amount) ==
    [prevouts |-> IF type.anyoneCanPay THEN Blank ELSE [n \in DOMAIN tx.vin |-> tx.vin[n].prevout],
     sequences |-> IF type.anyoneCanPay \/ type.base # "ALL" THEN Blank ELSE [n \in DOMAIN tx.vin |-> tx.vin[n].sequence],
     input |-> tx.vin[nIn], amount |-> amount,
     outputs |-> CASE type.base = "ALL" -> tx.vout
                   [] type.base = "SINGLE" /\ nIn <= Len(tx.vout) -> <<tx.vout[nIn]>>
                   [] OTHER -> Blank,
     rest |-> tx.rest, type |-> type]

SignatureHash(tx, nIn, type, amount, witness) ==
    IF witness THEN WitnessHash(tx, nIn, type, amount)
    ELSE IF nIn > Len(tx.vin) \/ (type.base = "SINGLE" /\ nIn > Len(tx.vout)) THEN One
    ELSE <<Serialize(tx, nIn, type)>>

-----------------------------------------------------------------------------
(* OP_CHECKMULTISIG: keys and signatures from the top of the stack down; a   *)
(* signature is the key that it is good for.                                 *)

(* More signatures than keys are left. *)
TooMany(sigs, keys) == sigs > keys

CheckMultisig(sigs, keys) ==
    LET CheckSig(t, key) ==
            IF ~t.fSuccess \/ t.sigs = <<>> THEN t
            ELSE LET left == IF Head(t.sigs) = key THEN Tail(t.sigs) ELSE t.sigs
                 IN  [sigs |-> left, keys |-> t.keys - 1,
                      fSuccess |-> ~TooMany(Len(left), t.keys - 1)]
    IN  FoldLeft(CheckSig, [sigs |-> sigs, keys |-> Len(keys), fSuccess |-> TRUE], keys).fSuccess

-----------------------------------------------------------------------------
(* Properties, for each input *)

(* What the hash type says is signed. *)
SignedPart(tx, nIn, type) ==
    [inputs |-> IF type.anyoneCanPay THEN <<tx.vin[nIn].prevout>> ELSE [n \in DOMAIN tx.vin |-> tx.vin[n].prevout],
     sequences |-> IF type.base = "ALL" /\ ~type.anyoneCanPay THEN [n \in DOMAIN tx.vin |-> tx.vin[n].sequence]
                   ELSE <<tx.vin[nIn].sequence>>,
     outputs |-> CASE type.base = "ALL" -> tx.vout
                   [] type.base = "SINGLE" -> [n \in {nIn} \cap DOMAIN tx.vout |-> tx.vout[n]]
                   [] OTHER -> <<>>,
     rest |-> tx.rest]

(* A signature stays valid for exactly the transactions that agree with the  *)
(* one signed in what the hash type covers, for witness programs also in the *)
(* amount; except that without a witness SINGLE signs nothing at all when    *)
(* there is no output at the position of the input.                          *)
SignatureFixesPart(tx, other, nIn, type) ==
    nIn <= Len(tx.vin) /\ nIn <= Len(other.vin) =>
        LET same == SignedPart(tx, nIn, type) = SignedPart(other, nIn, type)
            nothing == type.base = "SINGLE" /\ nIn > Len(tx.vout) /\ nIn > Len(other.vout)
        IN  /\ \A amount \in {1, 2} :
                  (SignatureHash(tx, nIn, type, 1, TRUE) = SignatureHash(other, nIn, type, amount, TRUE))
                      = (same /\ amount = 1)
            /\ (SignatureHash(tx, nIn, type, 1, FALSE) = SignatureHash(other, nIn, type, 2, FALSE))
                   = (same \/ nothing)

(* Signatures are taken if they are good for some of the keys in the order   *)
(* of the keys, whichever keys have none.                                    *)
MultisigTakesSubsequences(sigs, keys) ==
    CheckMultisig(sigs, keys) =
        \E at \in [DOMAIN sigs -> DOMAIN keys] :
            /\ \A i \in DOMAIN sigs : sigs[i] = keys[at[i]]
            /\ \A i, j \in DOMAIN sigs : i < j => at[i] < at[j]
==============================================================================
