----------------------------- MODULE FoldTheorems ----------------------------
(***************************************************************************)
(* How the proofs go through loops: the first number of a set, functions   *)
(* defined from the number before, folds over a sequence, and what every   *)
(* step of a loop keeps.                                                   *)
(***************************************************************************)
EXTENDS Integers, FiniteSetsExt, WellFoundedInduction, TLAPS

(***************************************************************************)
(* Numbers: a set of them has a first one, and a last one if it is bounded.*)
(***************************************************************************)

LEMMA LeastNat == ASSUME NEW T, T \subseteq Nat, T # {} PROVE \E n \in T : \A m \in T : n <= m
<1> DEFINE R == {ss \in Nat \X Nat : ss[1] < ss[2]}
<1>1. IsWellFoundedOn(R, Nat)
  BY ONLY NatLessThanWellFounded DEF OpToRel
<1>2. \E x \in T : \A y \in T : ~ (<<y, x>> \in R)
  <2> HIDE DEF R
  <2> QED BY <1>1, WFMin, Zenon
<1>3. ASSUME NEW x \in Nat, NEW y \in Nat, <<y, x>> \notin R PROVE x <= y
  BY <1>3
<1> QED BY <1>2, <1>3 DEF R


LEMMA MaxIs == ASSUME NEW n \in Nat, NEW t \in SUBSET (1 .. n), t # {} PROVE Max(t) \in t /\ \A x \in t : x <= Max(t)
<1> DEFINE D == {d \in 0 .. n : n - d \in t}
<1>1. D # {}
  <2>1. PICK x \in t : TRUE
    OBVIOUS
  <2>2. n - x \in D
    <3>1. n - (n - x) = x /\ n - x \in 0 .. n
      OBVIOUS
    <3> QED BY <3>1
  <2> QED BY <2>2
<1>2. PICK d \in D : \A e \in D : d <= e
  <2>1. D \subseteq Nat
    OBVIOUS
  <2> QED BY <1>1, <2>1, LeastNat
<1>4. \A x \in t : n - d >= x
  <2>1. ASSUME NEW x \in t PROVE n - d >= x
    <3>1. n - (n - x) = x /\ n - x \in 0 .. n
      OBVIOUS
    <3>2. n - x \in D
      BY <3>1
    <3> QED BY <3>2, <1>2
  <2> QED BY <2>1
<1>5. \E x \in t : \A y \in t : x >= y
  BY <1>4
<1>6. Max(t) \in t /\ \A y \in t : Max(t) >= y
  BY <1>5 DEF Max
<1> QED BY <1>6

(* What the function of a fold is, where step i is G[i]; and that there is   *)
(* one if the steps stay in V.                                               *)
IsFold(h, n, V, b, G) ==
    /\ h \in [SUBSET (1 .. n) -> V]
    /\ \A t \in SUBSET (1 .. n) : h[t] = IF t = {} THEN b ELSE G[Max(t)][h[t \ {Max(t)}]]

LEMMA FoldExists ==
    ASSUME NEW n \in Nat, NEW V, NEW b \in V, NEW G \in [1 .. n -> [V -> V]]
    PROVE  \E h : IsFold(h, n, V, b, G)
<1> DEFINE Good(m, h) ==
        /\ h \in [SUBSET (1 .. m) -> V]
        /\ \A t \in SUBSET (1 .. m) : h[t] = IF t = {} THEN b ELSE G[Max(t)][h[t \ {Max(t)}]]
           Bad == {m \in 0 .. n : ~\E h : Good(m, h)}
<1>1. \E h : Good(0, h)
  <2>1. SUBSET (1 .. 0) = {{}}
    OBVIOUS
  <2>2. Good(0, [t \in SUBSET (1 .. 0) |-> b])
    BY <2>1
  <2> QED BY <2>2
<1>2. ASSUME NEW m \in 0 .. n - 1, \E h : Good(m, h) PROVE \E h : Good(m + 1, h)
  <2> PICK h : Good(m, h)
    BY <1>2
  <2> DEFINE g == [t \in SUBSET (1 .. m + 1) |-> IF m + 1 \in t THEN G[m + 1][h[t \ {m + 1}]] ELSE h[t]]
  <2>1. ASSUME NEW t \in SUBSET (1 .. m + 1), m + 1 \in t
        PROVE  /\ Max(t) = m + 1 /\ t \ {m + 1} \in SUBSET (1 .. m) /\ t # {}
               /\ g[t] \in V /\ g[t] = G[Max(t)][g[t \ {Max(t)}]]
    <3>1. Max(t) \in t /\ \A x \in t : x <= Max(t)
      <4>1. m + 1 \in Nat
        OBVIOUS
      <4> QED BY <2>1, <4>1, MaxIs
    <3>2. Max(t) = m + 1 /\ t \ {m + 1} \in SUBSET (1 .. m) /\ m + 1 \notin t \ {m + 1} /\ t \ {m + 1} \in SUBSET (1 .. m + 1)
      <4>1. Max(t) \in 1 .. m + 1 /\ m + 1 <= Max(t)
        BY <2>1, <3>1
      <4>2. Max(t) = m + 1
        BY <4>1
      <4>3. \A x \in 1 .. m + 1 : x # m + 1 => x \in 1 .. m
        OBVIOUS
      <4> QED BY <4>2, <4>3
    <3>3. g[t] = G[m + 1][h[t \ {m + 1}]] /\ g[t \ {m + 1}] = h[t \ {m + 1}] /\ h[t \ {m + 1}] \in V
      BY <2>1, <3>2
    <3>4. G[m + 1] \in [V -> V]
      OBVIOUS
    <3>5. g[t] \in V
      BY <3>3, <3>4
    <3> HIDE DEF g
    <3> QED BY <2>1, <3>2, <3>3, <3>5
  <2>2. ASSUME NEW t \in SUBSET (1 .. m + 1), m + 1 \notin t
        PROVE  g[t] \in V /\ g[t] = IF t = {} THEN b ELSE G[Max(t)][g[t \ {Max(t)}]]
    <3>1. t \in SUBSET (1 .. m)
      BY <2>2
    <3>2. g[t] = h[t] /\ h[t] \in V
      BY <2>2, <3>1
    <3>3. h[t] = IF t = {} THEN b ELSE G[Max(t)][h[t \ {Max(t)}]]
      BY <3>1
    <3>4. g[t \ {Max(t)}] = h[t \ {Max(t)}]
      BY <2>2, <3>1
    <3> HIDE DEF g
    <3> QED BY <3>2, <3>3, <3>4
  <2>3. g \in [SUBSET (1 .. m + 1) -> V]
    <3>1. \A t \in SUBSET (1 .. m + 1) : g[t] \in V
      BY <2>1, <2>2
    <3> QED BY <3>1
  <2> HIDE DEF g
  <2>4. Good(m + 1, g)
    BY <2>1, <2>2, <2>3
  <2> QED BY <2>4
<1>3. Bad = {}
  <2> SUFFICES ASSUME Bad # {} PROVE FALSE
    OBVIOUS
  <2>1. PICK m \in Bad : \A k \in Bad : m <= k
    <3>1. Bad \subseteq Nat
      OBVIOUS
    <3> QED BY <3>1, LeastNat
  <2> HIDE DEF Good
  <2>2. m # 0
    BY <1>1
  <2>3. m - 1 \in 0 .. n - 1 /\ m - 1 \notin Bad
    BY <2>1, <2>2
  <2>4. \E h : Good(m - 1, h)
    BY <2>3
  <2>5. \E h : Good(m - 1 + 1, h)
    BY <2>3, <2>4, <1>2
  <2> QED BY <2>5
<1>4. \E h : Good(n, h)
  <2> HIDE DEF Good
  <2> QED BY <1>3
<1> QED BY <1>4 DEF IsFold

(* What holds of the start and is kept by each step holds at the end. *)
LEMMA StepsReach ==
    ASSUME NEW n \in Nat, NEW P, 0 \in P, \A k \in 1 .. n : k - 1 \in P => k \in P
    PROVE  \A k \in 0 .. n : k \in P
<1> DEFINE Bad == {k \in 0 .. n : k \notin P}
<1> SUFFICES ASSUME Bad # {} PROVE FALSE
  OBVIOUS
<1>1. PICK m \in Bad : \A k \in Bad : m <= k
  <2>1. Bad \subseteq Nat
    OBVIOUS
  <2> QED BY <2>1, LeastNat
<1> QED BY <1>1

(* The numbers up to k, of which k is the last. *)
LEMMA Segment == ASSUME NEW k \in Nat, k > 0 PROVE Max(1 .. k) = k /\ (1 .. k) \ {k} = 1 .. k - 1 /\ 1 .. k # {}
<1>1. k \in 1 .. k /\ 1 .. k \in SUBSET (1 .. k)
  OBVIOUS
<1>2. Max(1 .. k) \in 1 .. k /\ \A x \in 1 .. k : x <= Max(1 .. k)
  BY <1>1, MaxIs
<1>3. Max(1 .. k) = k
  BY <1>1, <1>2
<1> QED BY <1>1, <1>3

(* A function that is defined from the number before exists. *)
IsRun(f, n, V, b, G) == f \in [0 .. n -> V] /\ f[0] = b /\ \A k \in 1 .. n : f[k] = G[k][f[k - 1]]

LEMMA RunExists ==
    ASSUME NEW n \in Nat, NEW V, NEW b \in V, NEW G \in [1 .. n -> [V -> V]]
    PROVE  \E f : IsRun(f, n, V, b, G)
<1>0. PICK h : IsFold(h, n, V, b, G)
  BY FoldExists
<1>1. /\ h \in [SUBSET (1 .. n) -> V]
      /\ \A t \in SUBSET (1 .. n) : h[t] = IF t = {} THEN b ELSE G[Max(t)][h[t \ {Max(t)}]]
  BY <1>0 DEF IsFold
<1> DEFINE f == [k \in 0 .. n |-> h[1 .. k]]
<1>2. \A k \in 0 .. n : 1 .. k \in SUBSET (1 .. n)
  OBVIOUS
<1>3. f \in [0 .. n -> V]
  BY <1>1, <1>2
<1>4. f[0] = b
  <2>1. 1 .. 0 = {} /\ 0 \in 0 .. n
    OBVIOUS
  <2> QED BY <1>1, <1>2, <2>1
<1>5. ASSUME NEW k \in 1 .. n PROVE f[k] = G[k][f[k - 1]]
  <2>1. Max(1 .. k) = k /\ (1 .. k) \ {k} = 1 .. k - 1 /\ 1 .. k # {}
    <3>1. k \in Nat /\ k > 0
      OBVIOUS
    <3> QED BY <3>1, Segment
  <2>2. h[1 .. k] = G[k][h[1 .. k - 1]]
    BY <1>1, <1>2, <2>1
  <2>3. k - 1 \in 0 .. n /\ k \in 0 .. n
    OBVIOUS
  <2> QED BY <2>2, <2>3
<1> HIDE DEF f
<1> QED BY <1>3, <1>4, <1>5 DEF IsRun

(* A loop whose k-th step is G[k], where W[t] is the set of values after the *)
(* steps t: a function of the values exists, though a step may lead nowhere  *)
(* from a value that is not reached.                                         *)
Leads(n, U, W, b, G) ==
    /\ W \in [SUBSET (1 .. n) -> SUBSET U]
    /\ b \in W[{}]
    /\ \A k \in 1 .. n : \A s \in SUBSET (1 .. k - 1) : \A r \in W[s] : G[k][r] \in W[s \cup {k}]

LoopValues(h, n, U, W, b, G) ==
    /\ h \in [SUBSET (1 .. n) -> U]
    /\ \A t \in SUBSET (1 .. n) : h[t] \in W[t] /\ h[t] = IF t = {} THEN b ELSE G[Max(t)][h[t \ {Max(t)}]]

LEMMA FoldVaries ==
    ASSUME NEW n \in Nat, NEW U, NEW W, NEW b, NEW G, Leads(n, U, W, b, G)
    PROVE  \E h : LoopValues(h, n, U, W, b, G)
<1> DEFINE H == [k \in 1 .. n |-> [r \in U |-> IF G[k][r] \in U THEN G[k][r] ELSE r]]
<1>0. /\ W \in [SUBSET (1 .. n) -> SUBSET U] /\ b \in W[{}]
      /\ \A k \in 1 .. n : \A s \in SUBSET (1 .. k - 1) : \A r \in W[s] : G[k][r] \in W[s \cup {k}]
  BY DEF Leads
<1>1. b \in U /\ \A t \in SUBSET (1 .. n) : W[t] \subseteq U
  BY <1>0
<1>2. H \in [1 .. n -> [U -> U]]
  OBVIOUS
<1>3. PICK h : IsFold(h, n, U, b, H)
  <2> HIDE DEF H
  <2> QED BY <1>1, <1>2, FoldExists
<1>4. /\ h \in [SUBSET (1 .. n) -> U]
      /\ \A t \in SUBSET (1 .. n) : h[t] = IF t = {} THEN b ELSE H[Max(t)][h[t \ {Max(t)}]]
  BY <1>3 DEF IsFold
<1>5. ASSUME NEW t \in SUBSET (1 .. n), t # {}, h[t \ {Max(t)}] \in W[t \ {Max(t)}]
      PROVE  h[t] \in W[t] /\ h[t] = G[Max(t)][h[t \ {Max(t)}]] /\ Max(t) \in t
  <2>1. PICK k : k = Max(t)
    OBVIOUS
  <2>2. PICK s : s = t \ {Max(t)}
    OBVIOUS
  <2>3. k \in t /\ \A x \in t : x <= k
    BY <1>5, <2>1, MaxIs
  <2>4. k \in 1 .. n /\ s \in SUBSET (1 .. k - 1) /\ t = s \cup {k} /\ s \in SUBSET (1 .. n)
    <3>1. k \in 1 .. n
      BY <2>3
    <3>2. \A x \in s : x \in 1 .. k - 1
      BY <2>1, <2>2, <2>3
    <3>3. t = s \cup {k}
      BY <2>1, <2>2, <2>3
    <3> QED BY <2>2, <3>1, <3>2, <3>3
  <2>5. h[s] \in W[s]
    BY <1>5, <2>2
  <2>6. G[k][h[s]] \in W[t] /\ h[s] \in U /\ G[k][h[s]] \in U
    BY <1>0, <1>1, <2>4, <2>5
  <2>7. h[t] = H[k][h[s]]
    BY <1>4, <1>5, <2>1, <2>2
  <2>8. h[t] = G[k][h[s]]
    BY <2>4, <2>6, <2>7
  <2> QED BY <2>1, <2>2, <2>3, <2>6, <2>8
<1> HIDE DEF H
<1> DEFINE P == {m \in 0 .. n : \A t \in SUBSET (1 .. m) : h[t] \in W[t]}
<1>6. h[{}] \in W[{}] /\ h[{}] = b
  BY <1>0, <1>4
<1>7. 0 \in P
  <2>1. SUBSET (1 .. 0) = {{}} /\ 0 \in 0 .. n
    OBVIOUS
  <2> QED BY <1>6, <2>1
<1>8. ASSUME NEW k \in 1 .. n, k - 1 \in P PROVE k \in P
  <2>0. k \in Nat /\ k \in 0 .. n
    OBVIOUS
  <2> SUFFICES ASSUME NEW t \in SUBSET (1 .. k) PROVE h[t] \in W[t]
    BY <2>0
  <2>1. CASE t = {}
    BY <1>6, <2>1
  <2>2. CASE t # {}
    <3>1. Max(t) \in t /\ \A x \in t : x <= Max(t)
      BY <2>0, <2>2, MaxIs
    <3>2. t \ {Max(t)} \in SUBSET (1 .. k - 1) /\ t \in SUBSET (1 .. n)
      <4>1. \A x \in t : x # Max(t) => x \in 1 .. k - 1
        <5> SUFFICES ASSUME NEW x \in t, x # Max(t) PROVE x \in 1 .. k - 1
          OBVIOUS
        <5>1. x \in 1 .. k /\ Max(t) \in 1 .. k /\ x <= Max(t)
          BY <3>1
        <5> QED BY <2>0, <5>1
      <4>2. 1 .. k \subseteq 1 .. n
        OBVIOUS
      <4> QED BY <4>1, <4>2
    <3>3. h[t \ {Max(t)}] \in W[t \ {Max(t)}]
      BY <1>8, <3>2
    <3> QED BY <1>5, <2>2, <3>2, <3>3
  <2> QED BY <2>1, <2>2
<1>9. \A t \in SUBSET (1 .. n) : h[t] \in W[t]
  <2> HIDE DEF P
  <2>1. \A k \in 0 .. n : k \in P
    BY <1>7, <1>8, StepsReach
  <2>2. n \in P
    BY <2>1
  <2> QED BY <2>2 DEF P
<1>10. \A t \in SUBSET (1 .. n) : h[t] = IF t = {} THEN b ELSE G[Max(t)][h[t \ {Max(t)}]]
  <2> SUFFICES ASSUME NEW t \in SUBSET (1 .. n) PROVE h[t] = IF t = {} THEN b ELSE G[Max(t)][h[t \ {Max(t)}]]
    OBVIOUS
  <2>1. t \ {Max(t)} \in SUBSET (1 .. n)
    OBVIOUS
  <2> QED BY <1>5, <1>6, <1>9, <2>1
<1> QED BY <1>4, <1>9, <1>10 DEF LoopValues

(* And a loop with these steps ends in the last set. *)
LEMMA FoldEnds ==
    ASSUME NEW n \in Nat, NEW U, NEW W, NEW b, NEW G, Leads(n, U, W, b, G), NEW c, c[{}] = b,
           \A k \in 1 .. n : c[1 .. k - 1] \in U => c[1 .. k] = G[k][c[1 .. k - 1]]
    PROVE  c[1 .. n] \in W[1 .. n]
<1> DEFINE P == {k \in 0 .. n : c[1 .. k] \in W[1 .. k]}
<1>0. /\ W \in [SUBSET (1 .. n) -> SUBSET U] /\ b \in W[{}]
      /\ \A k \in 1 .. n : \A s \in SUBSET (1 .. k - 1) : \A r \in W[s] : G[k][r] \in W[s \cup {k}]
  BY DEF Leads
<1>1. 0 \in P
  <2>1. 1 .. 0 = {} /\ 0 \in 0 .. n
    OBVIOUS
  <2> QED BY <1>0, <2>1
<1>2. ASSUME NEW k \in 1 .. n, k - 1 \in P PROVE k \in P
  <2>1. 1 .. k - 1 \in SUBSET (1 .. n) /\ (1 .. k - 1) \cup {k} = 1 .. k /\ k \in 0 .. n
    OBVIOUS
  <2>2. c[1 .. k - 1] \in W[1 .. k - 1] /\ c[1 .. k - 1] \in U
    BY <1>0, <1>2, <2>1
  <2>3. G[k][c[1 .. k - 1]] \in W[1 .. k]
    <3>1. G[k][c[1 .. k - 1]] \in W[(1 .. k - 1) \cup {k}]
      BY <1>0, <2>2
    <3> QED BY <2>1, <3>1
  <2>4. c[1 .. k] = G[k][c[1 .. k - 1]]
    BY <2>2
  <2> QED BY <2>1, <2>3, <2>4
<1> HIDE DEF P
<1>3. \A k \in 0 .. n : k \in P
  BY <1>1, <1>2, StepsReach
<1> QED BY <1>3 DEF P
==============================================================================
