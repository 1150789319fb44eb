------------------------------ MODULE Compressor -----------------------------
(* The encodings that the records of the coins database are made of          *)
(* (compressor.cpp, serialize.h): amounts without their trailing zeros, and  *)
(* integers of variable length.                                              *)
EXTENDS Integers, FiniteSetsExt, SequencesExt

(* The loop of CompressAmount that divides by ten at most nine times. *)
Exponent(n) == Max({e \in 0 .. 9 : n % 10^e = 0})

CompressAmount(n) ==
    LET e == Exponent(n)
        m == n \div 10^e
    IN  IF n = 0 THEN 0
        ELSE IF e < 9 THEN 1 + ((m \div 10) * 9 + (m % 10) - 1) * 10 + e
        ELSE 1 + (m - 1) * 10 + 9

DecompressAmount(x) ==
    LET e == (x - 1) % 10
        y == (x - 1) \div 10
    IN  IF x = 0 THEN 0
        ELSE (IF e < 9 THEN (y \div 9) * 10 + (y % 9) + 1 ELSE y + 1) * 10^e

(* (n >> 7) - 1 *)
Rest(n) == n \div 128 - 1

(* WriteVarInt: the bytes from the last to the first, then turned round. *)
WriteVarInt(n) ==
    LET before[k \in -1 .. n] == IF k = -1 THEN <<>> ELSE <<128 + (k % 128)>> \o before[Rest(k)]
    IN  Reverse(<<n % 128>> \o before[Rest(n)])

(* ReadVarInt *)
ReadVarInt(bytes) == FoldLeft(LAMBDA n, b : n * 128 + (b % 128) + (IF b >= 128 THEN 1 ELSE 0), 0, bytes)

-----------------------------------------------------------------------------
(* An amount is read back as it was written, and every code stands for one   *)
(* amount ("this is decodable").                                             *)
AmountIsReadBack(n) == DecompressAmount(CompressAmount(n)) = n
CodeIsUnique(x) == CompressAmount(DecompressAmount(x)) = x

(* An integer is read back, and the bytes of an encoding are the ones that   *)
(* the integer is written with ("Every integer has exactly one encoding").   *)
VarIntIsReadBack(n) == ReadVarInt(WriteVarInt(n)) = n
VarIntIsUnique(bytes) == WriteVarInt(ReadVarInt(bytes)) = bytes
=============================================================================
