----------------------------- MODULE TimeOffset ------------------------------
(* The time of the network (timedata.cpp): the median of how far the clocks  *)
(* of peers are ahead, taken while samples come in.                          *)
EXTENDS Integers, FiniteSetsExt, SequencesExt

CONSTANTS
    FilterSize,     \* 200 samples in the filter
    MinSamples,     \* 5 samples before the offset changes
    MaxOffset       \* 70 minutes: no more than other nodes may change the time by

TimeOffsetAssumption == FilterSize \in Nat \ {0} /\ MinSamples \in Nat /\ MaxOffset \in Nat

(* CMedianFilter starts with the node's own clock. *)
NoTimeData == [known |-> {}, values |-> <<0>>, offset |-> 0]

Abs(n) == IF n >= 0 THEN n ELSE -n

(* CMedianFilter::input: the oldest value makes room. *)
Input(values, sample) == Append(IF Len(values) = FilterSize THEN Tail(values) ELSE values, sample)

(* Mutant: the middle of the values as they came. *)
MedianUnsorted(values) == values[Len(values) \div 2 + 1]

(* CMedianFilter::median, of an odd number of values. *)
Median(values) == SortSeq(values, <)[Len(values) \div 2 + 1]

(* AddTimeData: one sample of an address; the offset follows the median at   *)
(* odd sizes, so that a full filter of an even size leaves it as it is.      *)
AddTimeData(data, ip, sample) ==
    LET values == Input(data.values, sample)
        median == Median(values)
    IN  IF ip \in data.known THEN data
        ELSE [known |-> data.known \cup {ip},
              values |-> values,
              offset |-> IF Len(values) < MinSamples \/ Len(values) % 2 = 0 THEN data.offset
                         ELSE IF Abs(median) < MaxOffset THEN median ELSE 0]

(* The state after samples, each an address and how far its clock is ahead. *)
TimeDataOf(samples) == FoldLeft(LAMBDA data, s : AddTimeData(data, s[1], s[2]), NoTimeData, samples)

-----------------------------------------------------------------------------
(* Clocks that are right to within precision keep the time right: as long as *)
(* the wrong ones among the samples, each address once, are fewer than half  *)
(* of the smallest number that counts, the offset is within precision,       *)
(* whatever the order; however many they are, it is below MaxOffset.         *)
MinorityDoesNotMoveTime(samples, precision) ==
    LET First(i) == \A j \in 1 .. i - 1 : samples[j][1] # samples[i][1]
        wrong == {i \in DOMAIN samples : First(i) /\ Abs(samples[i][2]) > precision}
        offset == TimeDataOf(samples).offset
    IN  /\ 2 * Cardinality(wrong) < MinSamples => Abs(offset) <= precision
        /\ Abs(offset) < MaxOffset
==============================================================================
