------------------------------- MODULE AddrMan -------------------------------
(* The address manager (addrman.cpp, addrman.h): every known address is in   *)
(* one or more slots of the "new" table or in one slot of the "tried" table, *)
(* and is listed in a vector in random order.  The same facts are kept four  *)
(* times (tables, reference counts, counters, positions in the vector); the  *)
(* asserts of the code, and Check_ in debug builds, say how they agree.      *)
(*                                                                           *)
(* An address stands for its nId, which the code never uses again after it   *)
(* has deleted the entry.  Times, attempts and random draws only decide      *)
(* whether a branch is taken and are free choices.                           *)
EXTENDS SequencesExt

CONSTANTS
    Addresses,
    Sources,            \* who told us about an address
    NewBuckets,
    NewBucketOf,        \* [Addresses -> [Sources -> NewBuckets]]: GetNewBucket
    PositionOf,         \* [Addresses -> [NewBuckets -> Positions]]: GetBucketPosition
    Positions,
    TriedSlots,
    TriedSlotOf,        \* [Addresses -> TriedSlots]: GetTriedBucket and position
    MaxRefs             \* ADDRMAN_NEW_BUCKETS_PER_ADDRESS

Nobody == "-1"      \* an empty slot

ASSUME AddrManAssumption ==
    /\ NewBucketOf \in [Addresses -> [Sources -> NewBuckets]]
    /\ PositionOf \in [Addresses -> [NewBuckets -> Positions]]
    /\ TriedSlotOf \in [Addresses -> TriedSlots]
    /\ MaxRefs \in Nat \ {0}
    /\ Nobody \notin Addresses

VARIABLE am     \* the manager: [info, vRandom, vvNew, vvTried, nNew, nTried]

addrVars == am

NewSlots == NewBuckets \X Positions
Infos == [source : Sources, refs : Nat, inTried : BOOLEAN, pos : Nat]

NewSlot(a, s) == <<NewBucketOf[a][s], PositionOf[a][NewBucketOf[a][s]]>>
Drop(f, a) == [x \in DOMAIN f \ {a} |-> f[x]]

(* CAddrMan::Clear. *)
Cleared == [info |-> <<>>, vRandom |-> <<>>, nNew |-> 0, nTried |-> 0,
            vvNew |-> [s \in NewSlots |-> Nobody], vvTried |-> [s \in TriedSlots |-> Nobody]]

AddrInit == am = Cleared

-----------------------------------------------------------------------------
Create(m, a, s) ==
    [m EXCEPT !.info = [x \in DOMAIN m.info \cup {a} |->
                          IF x = a THEN [source |-> s, refs |-> 0, inTried |-> FALSE, pos |-> Len(m.vRandom) + 1]
                          ELSE m.info[x]],
              !.vRandom = Append(@, a)]

SwapRandom(m, i, j) ==
    LET a == m.vRandom[i]
        b == m.vRandom[j]
    IN  [m EXCEPT !.info[a].pos = j, !.info[b].pos = i, !.vRandom[i] = b, !.vRandom[j] = a]

Delete(m, a) ==
    LET swapped == SwapRandom(m, m.info[a].pos, Len(m.vRandom))
    IN  [swapped EXCEPT !.vRandom = Front(@), !.info = Drop(@, a), !.nNew = @ - 1]

(* Clear a slot of the new table; the only place that deletes entries        *)
(* (ClearNew), besides an addition that finds no slot and loading.           *)
ClearNew(m, slot) ==
    LET a == m.vvNew[slot]
        less == [m EXCEPT !.info[a].refs = @ - 1, !.vvNew[slot] = Nobody]
    IN  IF a = Nobody THEN m
        ELSE IF less.info[a].refs = 0 THEN Delete(less, a) ELSE less

(* The slots a is in: in each bucket only its own position is looked at. *)
NewSlotsOf(m, a) == {<<b, PositionOf[a][b]>> : b \in {c \in NewBuckets : m.vvNew[<<c, PositionOf[a][c]>>] = a}}

(* Move an entry to the tried table; the one it finds there goes back to the *)
(* new table, into the slot of its first source, whatever is there.          *)
MakeTried(m, a) ==
    LET out == [m EXCEPT !.vvNew = [s \in NewSlots |-> IF s \in NewSlotsOf(m, a) THEN Nobody ELSE @[s]],
                         !.info[a].refs = @ - Cardinality(NewSlotsOf(m, a)),
                         !.nNew = @ - 1]
        old == out.vvTried[TriedSlotOf[a]]
        back == NewSlot(old, out.info[old].source)
        room == ClearNew([out EXCEPT !.info[old].inTried = FALSE, !.nTried = @ - 1], back)
        evicted == [room EXCEPT !.info[old].refs = 1, !.vvNew[back] = old, !.nNew = @ + 1]
        free == IF old = Nobody THEN out ELSE evicted
    IN  [free EXCEPT !.vvTried[TriedSlotOf[a]] = a, !.nTried = @ + 1, !.info[a].inTried = TRUE]

(* Put a into the slot of source s: free, or held by an entry that is        *)
(* terrible or has other slots while a has none; a is deleted if it gets no  *)
(* slot and has none (the end of Add_).                                      *)
Place(m, a, s, terrible) ==
    LET slot == NewSlot(a, s)
        other == m.vvNew[slot]
        overwrites == other = Nobody \/ terrible \/ (m.info[other].refs > 1 /\ m.info[a].refs = 0)
    IN  IF other = a THEN m
        ELSE IF overwrites THEN [ClearNew(m, slot) EXCEPT !.info[a].refs = @ + 1, !.vvNew[slot] = a]
        ELSE IF m.info[a].refs = 0 THEN Delete(m, a)
        ELSE m

-----------------------------------------------------------------------------
(* Mutant: a tried address is given a slot of the new table, too. *)
AddTried(a, s, terrible) ==
    am' = IF a \in DOMAIN am.info THEN Place(am, a, s, terrible)
          ELSE Place([Create(am, a, s) EXCEPT !.nNew = @ + 1], a, s, terrible)

(* Somebody tells us about an address.  A known one is given another slot    *)
(* only if the news is newer and the dice agree, never when it is tried.     *)
Add(a, s, terrible) ==
    /\ IF a \in DOMAIN am.info
       THEN /\ ~am.info[a].inTried
            /\ am.info[a].refs # MaxRefs
            /\ am' = Place(am, a, s, terrible)
       ELSE am' = Place([Create(am, a, s) EXCEPT !.nNew = @ + 1], a, s, terrible)

(* A connection to the address worked. *)
Good(a) ==
    /\ a \in DOMAIN am.info
    /\ ~am.info[a].inTried
    /\ NewSlotsOf(am, a) # {}
    /\ am' = MakeTried(am, a)

(* A peer asks for addresses: the vector is shuffled in place (GetAddr_),    *)
(* here to its end (the code stops when it has enough).                      *)
Draws(n) == {d \in [1 .. n -> 1 .. n] : \A k \in 1 .. n : d[k] >= k}
GetAddr(draw) ==
    am' = FoldLeft(LAMBDA m, k : SwapRandom(m, k, draw[k]), am, [k \in DOMAIN am.vRandom |-> k])

(* The manager is written to peers.dat and read again: the entries of the    *)
(* new table first, then the tried ones.  A file of this version has the     *)
(* slots; from one of another version each new entry gets the slot of its    *)
(* first source if it is free when its turn comes, and is pruned otherwise.  *)
NewEntries(m) == {a \in DOMAIN m.info : ~m.info[a].inTried}
TriedEntries(m) == {a \in DOMAIN m.info : m.info[a].inTried}

ReadEntry(m, a) ==
    LET slot == NewSlot(a, m.info[a].source)
    IN  IF m.vvNew[slot] # Nobody THEN m
        ELSE [m EXCEPT !.vvNew[slot] = a, !.info[a].refs = 1]

WithoutLost(m) ==
    LET none == {a \in DOMAIN m.info : ~m.info[a].inTried /\ m.info[a].refs = 0}
    IN  FoldLeft(Delete, m, SetToSeq(none))

Reload(news, trieds, sameVersion) ==
    LET order == news \o trieds
        entry(a) == [am.info[a] EXCEPT !.pos = CHOOSE k \in DOMAIN order : order[k] = a,
                                       !.refs = IF sameVersion THEN @ ELSE 0]
        listed == [am EXCEPT !.vRandom = order, !.info = [a \in DOMAIN @ |-> entry(a)]]
        slotless == [listed EXCEPT !.vvNew = [s \in NewSlots |-> Nobody]]
    IN  am' = IF sameVersion THEN listed ELSE WithoutLost(FoldLeft(ReadEntry, slotless, news))

AddrNext ==
    \/ \E a \in Addresses, s \in Sources, terrible \in BOOLEAN : Add(a, s, terrible)
    \/ \E a \in Addresses : Good(a)
    \/ \E draw \in Draws(Len(am.vRandom)) : GetAddr(draw)
    \/ \E news \in SetToSeqs(NewEntries(am)), trieds \in SetToSeqs(TriedEntries(am)), same \in BOOLEAN :
           Reload(news, trieds, same)

AddrSpec == AddrInit /\ [][AddrNext]_addrVars

-----------------------------------------------------------------------------
(* The manager keeps its types; no count goes below zero. *)
AddrTypeOK ==
    /\ DOMAIN am.info \subseteq Addresses
    /\ \A a \in DOMAIN am.info : am.info[a] \in Infos
    /\ am.vRandom \in Seq(Addresses)
    /\ am.vvNew \in [NewSlots -> Addresses \cup {Nobody}]
    /\ am.vvTried \in [TriedSlots -> Addresses \cup {Nobody}]
    /\ am.nNew \in Nat /\ am.nTried \in Nat

(* What Check_ verifies of the tables: an entry that is tried is in its own  *)
(* tried slot and nowhere else; one that is new is in exactly as many slots  *)
(* as it has references, at least one and at its position in each; no slot   *)
(* names an entry that is gone.                                              *)
TablesAgree ==
    /\ \A s \in NewSlots : am.vvNew[s] # Nobody => am.vvNew[s] \in NewEntries(am) /\ PositionOf[am.vvNew[s]][s[1]] = s[2]
    /\ \A s \in TriedSlots : am.vvTried[s] # Nobody => am.vvTried[s] \in TriedEntries(am)
    /\ \A a \in TriedEntries(am) : am.info[a].refs = 0 /\ am.vvTried[TriedSlotOf[a]] = a
    /\ \A a \in NewEntries(am) :
          am.info[a].refs \in 1 .. MaxRefs /\ am.info[a].refs = Cardinality({s \in NewSlots : am.vvNew[s] = a})

(* What Check_ verifies of the counters and the vector: nNew and nTried      *)
(* count the entries, and each entry knows its place in the vector, which    *)
(* SwapRandom, Delete and GetAddr_ rely on.                                  *)
VectorAgrees ==
    /\ am.nNew = Cardinality(NewEntries(am))
    /\ am.nTried = Cardinality(TriedEntries(am))
    /\ Len(am.vRandom) = am.nNew + am.nTried
    /\ \A a \in DOMAIN am.info : am.info[a].pos \in DOMAIN am.vRandom /\ am.vRandom[am.info[a].pos] = a

(* Being tried protects: no later addition, shuffle or reload deletes the    *)
(* entry, and another one that takes its slot sends it back to the new table.*)
TriedIsNotForgotten ==
    [][\A a \in DOMAIN am.info : am.info[a].inTried => a \in DOMAIN am'.info]_addrVars

(* CAddrMan::Check_: tables, reference counts, counters and the vector agree *)
(* with the entries; and no addition, shuffle or reload deletes an address   *)
(* that was tried.                                                           *)
AddressesAreKept == [](AddrTypeOK /\ TablesAgree /\ VectorAgrees) /\ TriedIsNotForgotten
==============================================================================
