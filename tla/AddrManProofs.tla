---------------------------- MODULE AddrManProofs ----------------------------
(***************************************************************************)
(* Proofs about AddrMan: for any addresses, sources, buckets and slots,    *)
(* tables, reference counts, counters and the vector agree, and an address *)
(* that was tried is never deleted.                                        *)
(*                                                                         *)
(* The operations of the code leave the manager inconsistent for a moment: *)
(* entries that are in no slot yet, or that no counter counts.  What holds *)
(* then is stated with these entries as parameters.                        *)
(***************************************************************************)
EXTENDS AddrMan, FoldTheorems, FiniteSetTheorems, TLAPS

-----------------------------------------------------------------------------
(* The invariant *)

New(f) == {a \in DOMAIN f : ~f[a].inTried}
Tried(f) == {a \in DOMAIN f : f[a].inTried}
SlotsOf(v, a) == {s \in NewSlots : v[s] = a}

IsManager(m) ==
    m = [info |-> m.info, vRandom |-> m.vRandom, nNew |-> m.nNew, nTried |-> m.nTried, vvNew |-> m.vvNew, vvTried |-> m.vvTried]

InfoOk(f) == f \in [DOMAIN f -> Infos] /\ DOMAIN f \subseteq Addresses /\ IsFiniteSet(DOMAIN f)

(* Entries and places in the vector name each other. *)
VectorOk(f, r) ==
    /\ r \in Seq(Addresses)
    /\ \A a \in DOMAIN f : f[a].pos \in 1 .. Len(r) /\ r[f[a].pos] = a
    /\ \A i \in 1 .. Len(r) : r[i] \in DOMAIN f /\ f[r[i]].pos = i

(* A slot of the new table names a new entry at its position. *)
NewOk(f, v) ==
    /\ v \in [NewSlots -> Addresses \cup {Nobody}]
    /\ \A s \in NewSlots : v[s] # Nobody => v[s] \in New(f) /\ PositionOf[v[s]][s[1]] = s[2]

(* References are slots. *)
RefsOk(f, v) ==
    \A a \in DOMAIN f : IsFiniteSet(SlotsOf(v, a)) /\ f[a].refs = Cardinality(SlotsOf(v, a)) /\ f[a].refs <= MaxRefs

(* Entries in X may be without a slot, those in Y are not counted. *)
Core(m, X, Y) ==
    /\ IsManager(m)
    /\ InfoOk(m.info)
    /\ VectorOk(m.info, m.vRandom)
    /\ NewOk(m.info, m.vvNew)
    /\ RefsOk(m.info, m.vvNew)
    /\ m.nNew = Cardinality(New(m.info) \ Y)
    /\ \A a \in New(m.info) \ X : m.info[a].refs >= 1

(* A tried entry and its slot name each other.  That no other slot names it  *)
(* is not in Check_, and is what makes sending one back to the new table     *)
(* safe.                                                                     *)
TriedOk(f, t) ==
    /\ t \in [TriedSlots -> Addresses \cup {Nobody}]
    /\ \A s \in TriedSlots : t[s] # Nobody => t[s] \in Tried(f) /\ TriedSlotOf[t[s]] = s
    /\ \A a \in Tried(f) : t[TriedSlotOf[a]] = a

TriedPart(m) == TriedOk(m.info, m.vvTried) /\ m.nTried = Cardinality(Tried(m.info))

AddrInv == Core(am, {}, {}) /\ TriedPart(am)

-----------------------------------------------------------------------------
(* Places in the vector *)

(* f and g differ in places only. *)
SameButPlace(f, g) ==
    /\ DOMAIN g = DOMAIN f
    /\ \A a \in DOMAIN f : g[a] = [f[a] EXCEPT !.pos = g[a].pos]

(* A manager whose entries were moved in the vector. *)
Moved(m, q) ==
    /\ IsManager(q)
    /\ InfoOk(q.info) /\ SameButPlace(m.info, q.info)
    /\ VectorOk(q.info, q.vRandom)
    /\ q.vvNew = m.vvNew /\ q.vvTried = m.vvTried /\ q.nNew = m.nNew /\ q.nTried = m.nTried

LEMMA SameFields ==
    ASSUME NEW f, InfoOk(f), NEW g, InfoOk(g), SameButPlace(f, g)
    PROVE  /\ \A a \in DOMAIN f : g[a].refs = f[a].refs /\ g[a].inTried = f[a].inTried /\ g[a].source = f[a].source
           /\ New(g) = New(f) /\ Tried(g) = Tried(f)
<1>1. \A a \in DOMAIN f : g[a].refs = f[a].refs /\ g[a].inTried = f[a].inTried /\ g[a].source = f[a].source
  BY DEF InfoOk, Infos, SameButPlace
<1> QED BY <1>1 DEF New, Tried, SameButPlace

LEMMA MovedKeeps ==
    ASSUME NEW m, NEW q, NEW X, NEW Y, Core(m, X, Y), Moved(m, q)
    PROVE  Core(q, X, Y) /\ (TriedPart(m) => TriedPart(q)) /\ New(q.info) = New(m.info) /\ Tried(q.info) = Tried(m.info)
<1>1. InfoOk(m.info) /\ InfoOk(q.info) /\ SameButPlace(m.info, q.info)
  BY DEF Core, Moved
<1>2. /\ \A a \in DOMAIN m.info : q.info[a].refs = m.info[a].refs
      /\ New(q.info) = New(m.info) /\ Tried(q.info) = Tried(m.info) /\ DOMAIN q.info = DOMAIN m.info
  <2>1. DOMAIN q.info = DOMAIN m.info
    BY <1>1 DEF SameButPlace
  <2> QED BY <1>1, <2>1, SameFields
<1>3. NewOk(q.info, q.vvNew)
  BY <1>2 DEF NewOk, Core, Moved
<1>4. RefsOk(q.info, q.vvNew)
  BY <1>2 DEF RefsOk, Core, Moved
<1>5. \A a \in New(q.info) \ X : q.info[a].refs >= 1
  BY <1>2 DEF Core, New
<1>6. Core(q, X, Y)
  BY <1>2, <1>3, <1>4, <1>5 DEF Core, Moved
<1>7. TriedPart(m) => TriedPart(q)
  BY <1>2 DEF TriedPart, TriedOk, Moved
<1> QED BY <1>2, <1>6, <1>7

LEMMA MovedOn == ASSUME NEW m, NEW q, NEW r, InfoOk(m.info), Moved(m, q), Moved(q, r) PROVE Moved(m, r)
<1>1. SameButPlace(m.info, r.info)
  <2>1. DOMAIN r.info = DOMAIN m.info
    BY DEF Moved, SameButPlace
  <2>2. ASSUME NEW a \in DOMAIN m.info PROVE r.info[a] = [m.info[a] EXCEPT !.pos = r.info[a].pos]
    <3>1. r.info[a] = [q.info[a] EXCEPT !.pos = r.info[a].pos] /\ q.info[a] = [m.info[a] EXCEPT !.pos = q.info[a].pos]
      BY DEF Moved, SameButPlace
    <3>2. m.info[a] \in Infos /\ q.info[a] \in Infos /\ r.info[a] \in Infos
      BY <2>1 DEF Moved, InfoOk, SameButPlace
    <3> QED BY <3>1, <3>2 DEF Infos
  <2> QED BY <2>1, <2>2 DEF SameButPlace
<1> QED BY <1>1 DEF Moved

(* The places of SwapRandom. *)
Placed(f, a, p) == [f EXCEPT ![a] = [f[a] EXCEPT !.pos = p]]

LEMMA PlacedIs ==
    ASSUME NEW f, InfoOk(f), NEW a \in DOMAIN f, NEW p \in Nat
    PROVE  /\ InfoOk(Placed(f, a, p)) /\ SameButPlace(f, Placed(f, a, p))
           /\ \A x \in DOMAIN f : Placed(f, a, p)[x].pos = IF x = a THEN p ELSE f[x].pos
<1> DEFINE g == Placed(f, a, p)
<1>1. DOMAIN g = DOMAIN f /\ \A x \in DOMAIN f : g[x] = IF x = a THEN [f[a] EXCEPT !.pos = p] ELSE f[x]
  BY DEF Placed, InfoOk
<1>2. \A x \in DOMAIN f : f[x] \in Infos
  BY DEF InfoOk
<1>3. \A x \in DOMAIN f : /\ g[x] \in Infos /\ g[x].pos = (IF x = a THEN p ELSE f[x].pos)
                          /\ g[x] = [f[x] EXCEPT !.pos = g[x].pos]
  BY <1>1, <1>2 DEF Infos
<1>4. g \in [DOMAIN f -> Infos]
  BY <1>1, <1>3 DEF Placed, InfoOk
<1> HIDE DEF g
<1>5. InfoOk(g)
  BY <1>1, <1>4 DEF InfoOk
<1>6. SameButPlace(f, g)
  BY <1>1, <1>3 DEF SameButPlace
<1> QED BY <1>3, <1>5, <1>6 DEF g

LEMMA SameOn == ASSUME NEW f, NEW g, NEW h, InfoOk(f), InfoOk(g), InfoOk(h), SameButPlace(f, g), SameButPlace(g, h) PROVE SameButPlace(f, h)
<1>1. DOMAIN h = DOMAIN f
  BY DEF SameButPlace
<1>2. ASSUME NEW a \in DOMAIN f PROVE h[a] = [f[a] EXCEPT !.pos = h[a].pos]
  <2>1. h[a] = [g[a] EXCEPT !.pos = h[a].pos] /\ g[a] = [f[a] EXCEPT !.pos = g[a].pos]
    BY DEF SameButPlace
  <2>2. f[a] \in Infos /\ g[a] \in Infos /\ h[a] \in Infos
    BY DEF InfoOk, SameButPlace
  <2> QED BY <2>1, <2>2 DEF Infos
<1> QED BY <1>1, <1>2 DEF SameButPlace

LEMMA SwapIs ==
    ASSUME NEW m, IsManager(m), InfoOk(m.info), VectorOk(m.info, m.vRandom), NEW i \in 1 .. Len(m.vRandom), NEW j \in 1 .. Len(m.vRandom)
    PROVE  /\ Moved(m, SwapRandom(m, i, j))
           /\ Len(SwapRandom(m, i, j).vRandom) = Len(m.vRandom)
           /\ SwapRandom(m, i, j).vRandom[j] = m.vRandom[i]
<1> DEFINE f == m.info
           r == m.vRandom
           a == r[i]
           b == r[j]
           g == Placed(Placed(f, a, j), b, i)
           u == [[r EXCEPT ![i] = b] EXCEPT ![j] = a]
           q == SwapRandom(m, i, j)
<1>0. a \in DOMAIN f /\ b \in DOMAIN f /\ f[a].pos = i /\ f[b].pos = j /\ i \in Nat /\ j \in Nat /\ Len(r) \in Nat
  BY DEF VectorOk
<1>1. IsManager(q) /\ q.info = g /\ q.vRandom = u /\ q.vvNew = m.vvNew /\ q.vvTried = m.vvTried /\ q.nNew = m.nNew /\ q.nTried = m.nTried
  <2> DEFINE m1 == [m EXCEPT !.info[a].pos = j]
             m2 == [m1 EXCEPT !.info[b].pos = i]
             m3 == [m2 EXCEPT !.vRandom[i] = b]
             m4 == [m3 EXCEPT !.vRandom[j] = a]
  <2>0. q = m4
    BY DEF SwapRandom
  <2>a. IsManager(m1) /\ m1.vRandom = r /\ m1.vvNew = m.vvNew /\ m1.vvTried = m.vvTried /\ m1.nNew = m.nNew /\ m1.nTried = m.nTried
    BY DEF IsManager
  <2>b. IsManager(m2) /\ m2.vRandom = r /\ m2.vvNew = m.vvNew /\ m2.vvTried = m.vvTried /\ m2.nNew = m.nNew /\ m2.nTried = m.nTried
    <3> HIDE DEF m1
    <3> QED BY <2>a DEF IsManager
  <2>c. IsManager(m3) /\ m3.vRandom = [r EXCEPT ![i] = b] /\ m3.vvNew = m.vvNew /\ m3.vvTried = m.vvTried /\ m3.nNew = m.nNew /\ m3.nTried = m.nTried
    <3> HIDE DEF m2
    <3> QED BY <2>b DEF IsManager
  <2>1. IsManager(q) /\ q.vRandom = u /\ q.vvNew = m.vvNew /\ q.vvTried = m.vvTried /\ q.nNew = m.nNew /\ q.nTried = m.nTried
    <3> HIDE DEF m3, q
    <3> QED BY <2>0, <2>c DEF IsManager
  <2>2. q.info = [[f EXCEPT ![a].pos = j] EXCEPT ![b].pos = i]
    BY DEF SwapRandom, IsManager
  <2>3. Placed(f, a, j) = [f EXCEPT ![a].pos = j]
    BY DEF Placed
  <2>4. q.info = g
    BY <2>2, <2>3 DEF Placed
  <2> QED BY <2>1, <2>4
<1>2. InfoOk(Placed(f, a, j)) /\ SameButPlace(f, Placed(f, a, j)) /\ b \in DOMAIN Placed(f, a, j)
  <2>1. InfoOk(Placed(f, a, j)) /\ SameButPlace(f, Placed(f, a, j))
    BY <1>0, PlacedIs
  <2> QED BY <1>0, <2>1 DEF SameButPlace
<1>3. InfoOk(g) /\ SameButPlace(Placed(f, a, j), g)
  BY <1>0, <1>2, PlacedIs
<1>4. SameButPlace(f, g)
  BY <1>2, <1>3, SameOn
<1>5. \A x \in DOMAIN f : g[x].pos = IF x = b THEN i ELSE IF x = a THEN j ELSE f[x].pos
  <2>1. \A x \in DOMAIN f : Placed(f, a, j)[x].pos = IF x = a THEN j ELSE f[x].pos
    BY <1>0, PlacedIs
  <2>2. \A x \in DOMAIN Placed(f, a, j) : g[x].pos = IF x = b THEN i ELSE Placed(f, a, j)[x].pos
    BY <1>0, <1>2, PlacedIs
  <2> QED BY <1>2, <2>1, <2>2 DEF SameButPlace
<1>6. u \in Seq(Addresses) /\ Len(u) = Len(r) /\ \A k \in 1 .. Len(r) : u[k] = IF k = j THEN a ELSE IF k = i THEN b ELSE r[k]
  <2>1. r \in Seq(Addresses) /\ a \in Addresses /\ b \in Addresses
    BY <1>0 DEF VectorOk, InfoOk
  <2> QED BY <1>0, <2>1
<1>7. VectorOk(g, u)
  <2>1. \A x \in DOMAIN g : g[x].pos \in 1 .. Len(u) /\ u[g[x].pos] = x
    <3> SUFFICES ASSUME NEW x \in DOMAIN f PROVE g[x].pos \in 1 .. Len(u) /\ u[g[x].pos] = x
      BY <1>4 DEF SameButPlace
    <3>1. f[x].pos \in 1 .. Len(r) /\ r[f[x].pos] = x
      BY DEF VectorOk
    <3> QED BY <1>0, <1>5, <1>6, <3>1
  <2>2. \A k \in 1 .. Len(u) : u[k] \in DOMAIN g /\ g[u[k]].pos = k
    <3> SUFFICES ASSUME NEW k \in 1 .. Len(r) PROVE u[k] \in DOMAIN g /\ g[u[k]].pos = k
      BY <1>6
    <3>1. r[k] \in DOMAIN f /\ f[r[k]].pos = k /\ DOMAIN g = DOMAIN f
      BY <1>4 DEF VectorOk, SameButPlace
    <3> QED BY <1>0, <1>5, <1>6, <3>1
  <2> QED BY <1>6, <2>1, <2>2 DEF VectorOk
<1> HIDE DEF g, u, q
<1>8. Moved(m, q)
  BY <1>1, <1>3, <1>4, <1>7 DEF Moved
<1> QED BY <1>1, <1>6, <1>8 DEF q

-----------------------------------------------------------------------------
(* Entries that go *)

(* Entry x of g is the one of f, but for its place. *)
SameEntry(f, g, x) == x \in DOMAIN f /\ x \in DOMAIN g /\ g[x] = [f[x] EXCEPT !.pos = g[x].pos]

LEMMA EntryFields ==
    ASSUME NEW f, InfoOk(f), NEW g, InfoOk(g), NEW x, SameEntry(f, g, x)
    PROVE  g[x].refs = f[x].refs /\ g[x].inTried = f[x].inTried /\ g[x].source = f[x].source
BY DEF InfoOk, Infos, SameEntry

LEMMA SameEntryOn ==
    ASSUME NEW f, NEW g, NEW h, InfoOk(f), InfoOk(g), InfoOk(h), NEW x, SameEntry(f, g, x), SameEntry(g, h, x) PROVE SameEntry(f, h, x)
<1>1. f[x] \in Infos /\ g[x] \in Infos /\ h[x] \in Infos
  BY DEF InfoOk, SameEntry
<1> QED BY <1>1 DEF SameEntry, Infos

(* q is m without entry a. *)
Without(m, q, a) ==
    /\ DOMAIN q.info = DOMAIN m.info \ {a}
    /\ \A x \in DOMAIN q.info : SameEntry(m.info, q.info, x)
    /\ q.vvNew = m.vvNew /\ q.vvTried = m.vvTried /\ q.nTried = m.nTried

LEMMA NoSlots ==
    ASSUME NEW m, NEW X, NEW Y, Core(m, X, Y), NEW a \in DOMAIN m.info, m.info[a].refs = 0
    PROVE  \A s \in NewSlots : m.vvNew[s] # a
<1>1. IsFiniteSet(SlotsOf(m.vvNew, a)) /\ Cardinality(SlotsOf(m.vvNew, a)) = 0
  BY DEF Core, RefsOk
<1>2. SlotsOf(m.vvNew, a) = {}
  BY <1>1, FS_EmptySet
<1> QED BY <1>2 DEF SlotsOf

LEMMA DeleteIs ==
    ASSUME NEW m, NEW X, NEW Y, Core(m, X, Y), NEW a \in New(m.info), m.info[a].refs = 0, a \notin Y
    PROVE  Core(Delete(m, a), X \ {a}, Y) /\ Without(m, Delete(m, a), a)
<1> DEFINE n == Len(m.vRandom)
           w == SwapRandom(m, m.info[a].pos, n)
           q == Delete(m, a)
<1>0. a \in DOMAIN m.info /\ m.info[a].pos \in 1 .. n /\ m.vRandom[m.info[a].pos] = a /\ n \in Nat /\ n \in 1 .. n
  BY DEF Core, VectorOk, New
<1>1. Moved(m, w) /\ Len(w.vRandom) = n /\ w.vRandom[n] = a
  BY <1>0, SwapIs DEF Core
<1>2. Core(w, X, Y) /\ New(w.info) = New(m.info)
  BY <1>1, MovedKeeps
<1>3. q = [w EXCEPT !.vRandom = Front(@), !.info = Drop(@, a), !.nNew = @ - 1]
  BY DEF Delete
<1> HIDE DEF w, q
<1>4. /\ IsManager(q) /\ q.vRandom = Front(w.vRandom) /\ q.info = Drop(w.info, a) /\ q.nNew = w.nNew - 1
      /\ q.vvNew = w.vvNew /\ q.vvTried = w.vvTried /\ q.nTried = w.nTried
  <2>1. IsManager(w)
    BY <1>2 DEF Core
  <2> QED BY <1>3, <2>1 DEF IsManager
<1> DEFINE f == w.info
           g == q.info
<1>5. InfoOk(f) /\ VectorOk(f, w.vRandom) /\ NewOk(f, w.vvNew) /\ RefsOk(f, w.vvNew) /\ SameButPlace(m.info, f) /\ InfoOk(m.info)
  BY <1>1, <1>2 DEF Core, Moved
<1>6. a \in DOMAIN f /\ f[a].refs = 0 /\ ~f[a].inTried /\ f[a].pos = n
  <2>1. a \in DOMAIN f /\ f[a].refs = m.info[a].refs /\ f[a].inTried = m.info[a].inTried
    <3>1. DOMAIN f = DOMAIN m.info
      BY <1>5 DEF SameButPlace
    <3> QED BY <1>0, <1>5, <3>1, SameFields
  <2>2. f[a].pos = n
    BY <1>0, <1>1, <1>5 DEF VectorOk
  <2> QED BY <2>1, <2>2 DEF New
<1>7. DOMAIN g = DOMAIN f \ {a} /\ \A x \in DOMAIN g : g[x] = f[x]
  BY <1>4 DEF Drop
<1>8. InfoOk(g)
  <2>1. IsFiniteSet(DOMAIN f \ {a})
    BY <1>5, FS_RemoveElement DEF InfoOk
  <2>2. g \in [DOMAIN g -> Infos]
    BY <1>4, <1>5, <1>7 DEF Drop, InfoOk
  <2> QED BY <1>5, <1>7, <2>1, <2>2 DEF InfoOk
<1>9. VectorOk(g, q.vRandom)
  <2>1. w.vRandom \in Seq(Addresses) /\ Len(w.vRandom) = n
    BY <1>1, <1>5 DEF VectorOk
  <2>2. /\ q.vRandom \in Seq(Addresses) /\ Len(q.vRandom) = n - 1
        /\ \A k \in 1 .. n - 1 : q.vRandom[k] = w.vRandom[k]
    BY <1>0, <1>4, <2>1 DEF Front
  <2>3. \A x \in DOMAIN g : g[x].pos \in 1 .. n - 1 /\ q.vRandom[g[x].pos] = x
    <3> SUFFICES ASSUME NEW x \in DOMAIN g PROVE g[x].pos \in 1 .. n - 1 /\ q.vRandom[g[x].pos] = x
      OBVIOUS
    <3>1. x \in DOMAIN f /\ x # a /\ g[x] = f[x] /\ f[x].pos \in 1 .. n /\ w.vRandom[f[x].pos] = x
      BY <1>5, <1>7, <2>1 DEF VectorOk
    <3>2. f[x].pos # n
      BY <1>1, <3>1
    <3>3. f[x].pos \in 1 .. n - 1
      BY <1>0, <3>1, <3>2
    <3> QED BY <2>2, <3>1, <3>3
  <2>4. \A k \in 1 .. n - 1 : q.vRandom[k] \in DOMAIN g /\ g[q.vRandom[k]].pos = k
    <3> SUFFICES ASSUME NEW k \in 1 .. n - 1 PROVE q.vRandom[k] \in DOMAIN g /\ g[q.vRandom[k]].pos = k
      OBVIOUS
    <3>1. k \in 1 .. n /\ k # n
      BY <1>0
    <3>2. w.vRandom[k] \in DOMAIN f /\ f[w.vRandom[k]].pos = k
      BY <1>5, <2>1, <3>1 DEF VectorOk
    <3> QED BY <1>6, <1>7, <2>2, <3>1, <3>2
  <2> QED BY <2>2, <2>3, <2>4 DEF VectorOk
<1>10. \A s \in NewSlots : w.vvNew[s] # a
  BY <1>2, <1>6, NoSlots
<1>11. New(g) = New(f) \ {a}
  BY <1>7 DEF New
<1>12. NewOk(g, q.vvNew)
  BY <1>4, <1>5, <1>10, <1>11 DEF NewOk
<1>13. RefsOk(g, q.vvNew)
  BY <1>4, <1>5, <1>7 DEF RefsOk
<1>14. q.nNew = Cardinality(New(g) \ Y)
  <2>1. IsFiniteSet(New(f) \ Y)
    BY <1>5, FS_Subset DEF InfoOk, New
  <2>2. a \in New(f) \ Y
    BY <1>6 DEF New
  <2>3. New(g) \ Y = (New(f) \ Y) \ {a}
    BY <1>11
  <2>4. w.nNew = Cardinality(New(f) \ Y)
    BY <1>2 DEF Core
  <2> QED BY <1>4, <2>1, <2>2, <2>3, <2>4, FS_RemoveElement
<1>15. \A x \in New(g) \ (X \ {a}) : g[x].refs >= 1
  <2>1. \A x \in New(f) \ X : f[x].refs >= 1
    BY <1>2 DEF Core
  <2> QED BY <1>7, <1>11, <2>1 DEF New
<1>16. Core(q, X \ {a}, Y)
  BY <1>4, <1>8, <1>9, <1>12, <1>13, <1>14, <1>15 DEF Core
<1>17. Without(m, q, a)
  <2>1. DOMAIN g = DOMAIN m.info \ {a}
    BY <1>5, <1>7 DEF SameButPlace
  <2>2. \A x \in DOMAIN g : SameEntry(m.info, g, x)
    BY <1>5, <1>7 DEF SameButPlace, SameEntry
  <2>3. q.vvNew = m.vvNew /\ q.vvTried = m.vvTried /\ q.nTried = m.nTried
    BY <1>1, <1>4 DEF Moved
  <2> QED BY <2>1, <2>2, <2>3 DEF Without
<1> QED BY <1>16, <1>17 DEF q

(* q is m with a slot cleared, and perhaps without the entry that was there. *)
SlotCleared(m, q, slot) ==
    /\ q.vvNew = [m.vvNew EXCEPT ![slot] = Nobody]
    /\ q.vvTried = m.vvTried /\ q.nTried = m.nTried
    /\ DOMAIN q.info \subseteq DOMAIN m.info
    /\ Tried(q.info) = Tried(m.info)
    /\ \A x \in DOMAIN m.info : x # m.vvNew[slot] => SameEntry(m.info, q.info, x)

(* The slots of everybody when one slot changes hands. *)
SlotGiven(v, u, slot, b) ==
    /\ u \in [NewSlots -> Addresses \cup {Nobody}]
    /\ \A s \in NewSlots : u[s] = IF s = slot THEN b ELSE v[s]
    /\ SlotsOf(u, b) = SlotsOf(v, b) \cup {slot}
    /\ b # v[slot] => SlotsOf(u, v[slot]) = SlotsOf(v, v[slot]) \ {slot}
    /\ \A x \in Addresses : x # b /\ x # v[slot] => SlotsOf(u, x) = SlotsOf(v, x)

LEMMA SlotChanges ==
    ASSUME NEW v \in [NewSlots -> Addresses \cup {Nobody}], NEW slot \in NewSlots, NEW b \in Addresses \cup {Nobody},
           NEW u, u = [v EXCEPT ![slot] = b]
    PROVE  SlotGiven(v, u, slot, b)
BY DEF SlotsOf, SlotGiven

(* One entry gets other references. *)
Referred(f, a, k) == [f EXCEPT ![a] = [f[a] EXCEPT !.refs = k]]

SameButRefs(f, g, a, k) ==
    /\ InfoOk(g) /\ DOMAIN g = DOMAIN f
    /\ \A x \in DOMAIN f : /\ g[x].refs = IF x = a THEN k ELSE f[x].refs
                           /\ g[x].inTried = f[x].inTried /\ g[x].source = f[x].source /\ g[x].pos = f[x].pos
                           /\ x # a => g[x] = f[x]
    /\ New(g) = New(f) /\ Tried(g) = Tried(f)
    /\ \A r : VectorOk(f, r) => VectorOk(g, r)

LEMMA ReferredIs ==
    ASSUME NEW f, InfoOk(f), NEW a \in DOMAIN f, NEW k \in Nat
    PROVE  SameButRefs(f, Referred(f, a, k), a, k)
<1> DEFINE g == Referred(f, a, k)
<1>1. DOMAIN g = DOMAIN f /\ \A x \in DOMAIN f : g[x] = IF x = a THEN [f[a] EXCEPT !.refs = k] ELSE f[x]
  BY DEF Referred, InfoOk
<1>2. \A x \in DOMAIN f : f[x] \in Infos
  BY DEF InfoOk
<1>3. \A x \in DOMAIN f : /\ g[x] \in Infos /\ g[x].refs = IF x = a THEN k ELSE f[x].refs
                          /\ g[x].inTried = f[x].inTried /\ g[x].source = f[x].source /\ g[x].pos = f[x].pos
                          /\ x # a => g[x] = f[x]
  BY <1>1, <1>2 DEF Infos
<1>4. g \in [DOMAIN f -> Infos]
  BY <1>1, <1>3 DEF Referred, InfoOk
<1> HIDE DEF g
<1>5. InfoOk(g)
  BY <1>1, <1>4 DEF InfoOk
<1>6. New(g) = New(f) /\ Tried(g) = Tried(f)
  BY <1>1, <1>3 DEF New, Tried
<1>7. \A r : VectorOk(f, r) => VectorOk(g, r)
  BY <1>1, <1>3 DEF VectorOk
<1>8. SameButRefs(f, g, a, k)
  BY <1>1, <1>3, <1>5, <1>6, <1>7 DEF SameButRefs
<1> QED BY <1>8 DEF g

(* The entry of a slot loses it; it may be without a slot then. *)
Less(m, slot) == [m EXCEPT !.info[m.vvNew[slot]].refs = @ - 1, !.vvNew[slot] = Nobody]

(* q is m after its slot was cleared, if all is well with it but for b. *)
SlotLost(m, q, slot, b) ==
    /\ q.vvNew = [m.vvNew EXCEPT ![slot] = Nobody]
    /\ q.vvTried = m.vvTried /\ q.nTried = m.nTried
    /\ DOMAIN q.info = DOMAIN m.info
    /\ New(q.info) = New(m.info) /\ Tried(q.info) = Tried(m.info)
    /\ \A x \in DOMAIN m.info : x # b => SameEntry(m.info, q.info, x)

LEMMA LessIs ==
    ASSUME NEW m, NEW X, NEW Y, Core(m, X, Y), NEW slot \in NewSlots, NEW b, b = m.vvNew[slot], b # Nobody
    PROVE  Core(Less(m, slot), X \cup {b}, Y) /\ SlotLost(m, Less(m, slot), slot, b) /\ b \in New(m.info)
<1> DEFINE f == m.info
           v == m.vvNew
           k == f[b].refs - 1
           g == Referred(f, b, k)
           u == [v EXCEPT ![slot] = Nobody]
           q == Less(m, slot)
<1>0. InfoOk(f) /\ VectorOk(f, m.vRandom) /\ NewOk(f, v) /\ RefsOk(f, v) /\ IsManager(m)
  BY DEF Core
<1>1. b \in New(f) /\ b \in DOMAIN f /\ b \in Addresses /\ v \in [NewSlots -> Addresses \cup {Nobody}]
  BY <1>0 DEF NewOk, New, InfoOk
<1>2. /\ IsManager(q) /\ q.info = g /\ q.vvNew = u
      /\ q.vRandom = m.vRandom /\ q.vvTried = m.vvTried /\ q.nNew = m.nNew /\ q.nTried = m.nTried
  <2> DEFINE m1 == [m EXCEPT !.info[b].refs = @ - 1]
  <2>1. q = [m1 EXCEPT !.vvNew[slot] = Nobody]
    BY DEF Less
  <2>2. m1 = [m EXCEPT !.info = g]
    <3>1. m1 = [m EXCEPT !.info = [f EXCEPT ![b].refs = k]]
      BY <1>0 DEF IsManager
    <3> QED BY <3>1 DEF Referred
  <2> HIDE DEF g, m1, q
  <2>3. IsManager(m1) /\ m1.info = g /\ m1.vvNew = v /\ m1.vRandom = m.vRandom /\ m1.vvTried = m.vvTried /\ m1.nNew = m.nNew /\ m1.nTried = m.nTried
    BY <1>0, <2>2 DEF IsManager
  <2> QED BY <2>1, <2>3 DEF IsManager
<1>3. slot \in SlotsOf(v, b) /\ IsFiniteSet(SlotsOf(v, b)) /\ f[b].refs = Cardinality(SlotsOf(v, b)) /\ f[b].refs <= MaxRefs /\ f[b].refs \in Nat
  BY <1>0, <1>1 DEF SlotsOf, RefsOk, InfoOk, Infos
<1>4. /\ SlotsOf(u, b) = SlotsOf(v, b) \ {slot}
      /\ \A x \in Addresses : x # Nobody /\ x # b => SlotsOf(u, x) = SlotsOf(v, x)
      /\ u \in [NewSlots -> Addresses \cup {Nobody}] /\ \A s \in NewSlots : u[s] = IF s = slot THEN Nobody ELSE v[s]
  <2>1. SlotGiven(v, u, slot, Nobody)
    BY <1>1, SlotChanges
  <2> HIDE DEF u, v
  <2>2. b = v[slot] /\ b # Nobody
    BY DEF v
  <2> QED BY <2>1, <2>2 DEF SlotGiven
<1>5. IsFiniteSet(SlotsOf(u, b)) /\ k = Cardinality(SlotsOf(u, b)) /\ k \in Nat /\ k <= MaxRefs
  <2>1. IsFiniteSet(SlotsOf(u, b)) /\ k = Cardinality(SlotsOf(u, b))
    BY <1>3, <1>4, FS_RemoveElement
  <2> QED BY <1>3, <2>1, FS_CardinalityType, AddrManAssumption
<1>6. /\ InfoOk(g) /\ DOMAIN g = DOMAIN f
      /\ \A x \in DOMAIN f : g[x].refs = (IF x = b THEN k ELSE f[x].refs) /\ (x # b => g[x] = f[x])
      /\ New(g) = New(f) /\ Tried(g) = Tried(f) /\ VectorOk(g, m.vRandom)
  <2> HIDE DEF f, k
  <2>1. SameButRefs(f, g, b, k)
    BY <1>0, <1>1, <1>5, ReferredIs
  <2> HIDE DEF g
  <2> QED BY <1>0, <2>1 DEF SameButRefs
<1> HIDE DEF g, u, k, q
<1>7. NewOk(g, u)
  BY <1>0, <1>4, <1>6 DEF NewOk
<1>8. RefsOk(g, u)
  <2>1. \A x \in DOMAIN f : x # Nobody /\ x \in Addresses
    BY <1>0, AddrManAssumption DEF InfoOk
  <2> QED BY <1>0, <1>4, <1>5, <1>6, <2>1 DEF RefsOk
<1>9. \A x \in New(g) \ (X \cup {b}) : g[x].refs >= 1
  BY <1>6 DEF Core, New
<1>10. Core(q, X \cup {b}, Y)
  BY <1>2, <1>6, <1>7, <1>8, <1>9 DEF Core
<1>11. \A x \in DOMAIN f : x # b => SameEntry(f, g, x)
  BY <1>0, <1>6 DEF SameEntry, InfoOk, Infos
<1>12. SlotLost(m, q, slot, b)
  BY <1>2, <1>6, <1>11 DEF SlotLost, u
<1> QED BY <1>1, <1>10, <1>12 DEF q

(* The end of ClearNew: the entry that lost its slot goes if it has no more. *)
Settled(q, b) == IF q.info[b].refs = 0 THEN Delete(q, b) ELSE q

(* r is q, perhaps without entry b. *)
PerhapsWithout(q, r, b) ==
    /\ DOMAIN r.info \subseteq DOMAIN q.info
    /\ \A x \in DOMAIN q.info : x # b => SameEntry(q.info, r.info, x)
    /\ Tried(r.info) = Tried(q.info)
    /\ r.vvNew = q.vvNew /\ r.vvTried = q.vvTried /\ r.nTried = q.nTried

LEMMA SettledIs ==
    ASSUME NEW q, NEW X, NEW Y, NEW b, Core(q, X \cup {b}, Y), b \in New(q.info), b \notin Y
    PROVE  Core(Settled(q, b), X, Y) /\ PerhapsWithout(q, Settled(q, b), b)
<1>0. InfoOk(q.info) /\ b \in DOMAIN q.info /\ ~q.info[b].inTried /\ q.info[b].refs \in Nat
  BY DEF Core, New, InfoOk, Infos
<1>1. CASE q.info[b].refs = 0
  <2> DEFINE d == Delete(q, b)
  <2>0. Settled(q, b) = d
    BY <1>1 DEF Settled
  <2>1. Core(d, (X \cup {b}) \ {b}, Y) /\ Without(q, d, b)
    BY <1>1, DeleteIs
  <2> HIDE DEF d
  <2>2. DOMAIN d.info = DOMAIN q.info \ {b} /\ \A x \in DOMAIN d.info : SameEntry(q.info, d.info, x)
    BY <2>1 DEF Without
  <2>3. Core(d, X, Y)
    <3>1. \A x \in New(d.info) \ X : x \in New(d.info) \ ((X \cup {b}) \ {b})
      BY <2>2 DEF New
    <3> QED BY <2>1, <3>1 DEF Core
  <2>4. Tried(d.info) = Tried(q.info)
    <3>1. InfoOk(d.info)
      BY <2>1 DEF Core
    <3>2. \A x \in DOMAIN d.info : d.info[x].inTried = q.info[x].inTried
      BY <1>0, <2>2, <3>1, EntryFields
    <3> QED BY <1>0, <2>2, <3>2 DEF Tried
  <2>5. d.vvNew = q.vvNew /\ d.vvTried = q.vvTried /\ d.nTried = q.nTried
    BY <2>1 DEF Without
  <2>6. PerhapsWithout(q, d, b)
    BY <2>2, <2>4, <2>5 DEF PerhapsWithout
  <2> QED BY <2>0, <2>3, <2>6
<1>2. CASE q.info[b].refs # 0
  <2>1. Settled(q, b) = q
    BY <1>2 DEF Settled
  <2>2. \A x \in New(q.info) \ X : q.info[x].refs >= 1
    BY <1>0, <1>2 DEF Core
  <2>3. Core(q, X, Y)
    BY <2>2 DEF Core
  <2>4. \A x \in DOMAIN q.info : SameEntry(q.info, q.info, x)
    BY <1>0 DEF SameEntry, InfoOk, Infos
  <2>5. PerhapsWithout(q, q, b)
    BY <2>4 DEF PerhapsWithout
  <2> QED BY <2>1, <2>3, <2>5
<1> QED BY <1>1, <1>2

LEMMA ClearNewIs ==
    ASSUME NEW m, NEW X, NEW Y, Core(m, X, Y), NEW slot \in NewSlots, m.vvNew[slot] \notin Y
    PROVE  Core(ClearNew(m, slot), X, Y) /\ SlotCleared(m, ClearNew(m, slot), slot)
<1>0. InfoOk(m.info) /\ NewOk(m.info, m.vvNew)
  BY DEF Core
<1>1. PICK b : b = m.vvNew[slot]
  OBVIOUS
<1>2. PICK less : less = Less(m, slot)
  OBVIOUS
<1>3. ClearNew(m, slot) = IF b = Nobody THEN m ELSE Settled(less, b)
  <2>1. ClearNew(m, slot) = IF m.vvNew[slot] = Nobody THEN m ELSE Settled(Less(m, slot), m.vvNew[slot])
    BY DEF ClearNew, Less, Settled
  <2> QED BY <1>1, <1>2, <2>1
<1>4. CASE b = Nobody
  <2>1. ClearNew(m, slot) = m
    BY <1>3, <1>4
  <2>2. [m.vvNew EXCEPT ![slot] = Nobody] = m.vvNew
    BY <1>0, <1>1, <1>4 DEF NewOk
  <2>3. \A x \in DOMAIN m.info : SameEntry(m.info, m.info, x)
    BY <1>0 DEF SameEntry, InfoOk, Infos
  <2> QED BY <2>1, <2>2, <2>3 DEF SlotCleared
<1>5. CASE b # Nobody
  <2>1. PICK q : q = Settled(less, b)
    OBVIOUS
  <2>2. ClearNew(m, slot) = q
    BY <1>3, <1>5, <2>1
  <2>3. Core(less, X \cup {b}, Y) /\ SlotLost(m, less, slot, b) /\ b \in New(m.info)
    BY <1>1, <1>2, <1>5, LessIs
  <2>4. b \in New(less.info) /\ b \notin Y
    BY <1>1, <2>3 DEF SlotLost
  <2>5. Core(q, X, Y) /\ PerhapsWithout(less, q, b)
    BY <2>1, <2>3, <2>4, SettledIs
  <2>6. \A x \in DOMAIN m.info : x # b => SameEntry(m.info, q.info, x)
    <3> SUFFICES ASSUME NEW x \in DOMAIN m.info, x # b PROVE SameEntry(m.info, q.info, x)
      OBVIOUS
    <3>1. SameEntry(m.info, less.info, x) /\ SameEntry(less.info, q.info, x)
      BY <2>3, <2>5 DEF SlotLost, PerhapsWithout
    <3>2. InfoOk(less.info) /\ InfoOk(q.info)
      BY <2>3, <2>5 DEF Core
    <3> QED BY <1>0, <3>1, <3>2, SameEntryOn
  <2>7. SlotCleared(m, q, slot)
    BY <1>1, <2>3, <2>5, <2>6 DEF SlotCleared, SlotLost, PerhapsWithout
  <2> QED BY <2>2, <2>5, <2>7
<1> QED BY <1>4, <1>5

-----------------------------------------------------------------------------
(* Entries that come, and slots they get *)

TriedKept(m, q) == q.vvTried = m.vvTried /\ q.nTried = m.nTried /\ Tried(q.info) = Tried(m.info)

LEMMA TriedStays == ASSUME NEW m, NEW q, TriedPart(m), TriedKept(m, q) PROVE TriedPart(q)
BY DEF TriedPart, TriedKept, TriedOk

LEMMA DeleteKeepsTried ==
    ASSUME NEW m, NEW X, NEW Y, Core(m, X, Y), NEW a \in New(m.info), NEW q, Without(m, q, a), InfoOk(q.info)
    PROVE  TriedKept(m, q)
<1>1. InfoOk(m.info)
  BY DEF Core
<1>2. DOMAIN q.info = DOMAIN m.info \ {a} /\ \A x \in DOMAIN q.info : SameEntry(m.info, q.info, x)
  BY DEF Without
<1>3. \A x \in DOMAIN q.info : q.info[x].inTried = m.info[x].inTried
  BY <1>1, <1>2, EntryFields
<1>4. Tried(q.info) = Tried(m.info)
  BY <1>2, <1>3 DEF Tried, New
<1> QED BY <1>4 DEF TriedKept, Without

LEMMA SlotIs == ASSUME NEW a \in Addresses, NEW s \in Sources PROVE NewSlot(a, s) \in NewSlots /\ PositionOf[a][NewSlot(a, s)[1]] = NewSlot(a, s)[2]
<1>1. NewBucketOf[a][s] \in NewBuckets /\ PositionOf[a][NewBucketOf[a][s]] \in Positions
  <2>1. NewBucketOf[a] \in [Sources -> NewBuckets] /\ PositionOf[a] \in [NewBuckets -> Positions]
    BY AddrManAssumption
  <2> QED BY <2>1
<1> QED BY <1>1 DEF NewSlot, NewSlots

(* A free slot is given to an entry. *)
Given(m, q, a, slot) ==
    /\ IsManager(q)
    /\ q.info = Referred(m.info, a, m.info[a].refs + 1)
    /\ q.vvNew = [m.vvNew EXCEPT ![slot] = a]
    /\ q.vRandom = m.vRandom /\ q.vvTried = m.vvTried /\ q.nTried = m.nTried

LEMMA GivenIs ==
    ASSUME NEW m, NEW X, NEW Y, Core(m, X, Y), NEW a \in New(m.info), m.info[a].refs < MaxRefs,
           NEW slot \in NewSlots, m.vvNew[slot] = Nobody, PositionOf[a][slot[1]] = slot[2],
           NEW q, Given(m, q, a, slot), NEW Z, q.nNew = Cardinality(New(m.info) \ Z)
    PROVE  /\ Core(q, X \ {a}, Z) /\ TriedKept(m, q) /\ New(q.info) = New(m.info)
           /\ SameButRefs(m.info, q.info, a, m.info[a].refs + 1)
<1> DEFINE f == m.info
           g == q.info
           v == m.vvNew
           u == q.vvNew
           k == f[a].refs + 1
<1>0. InfoOk(f) /\ VectorOk(f, m.vRandom) /\ NewOk(f, v) /\ RefsOk(f, v)
  BY DEF Core
<1>1. a \in DOMAIN f /\ a \in Addresses /\ f[a].refs \in Nat /\ k \in Nat /\ k <= MaxRefs /\ k >= 1 /\ a # Nobody
  BY <1>0, AddrManAssumption DEF New, InfoOk, Infos
<1>2. g = Referred(f, a, k) /\ u = [v EXCEPT ![slot] = a] /\ v \in [NewSlots -> Addresses \cup {Nobody}]
  BY <1>0 DEF Given, NewOk
<1> HIDE DEF f, g, v, u, k
<1>3. SameButRefs(f, g, a, k)
  BY <1>0, <1>1, <1>2, ReferredIs
<1>4. SlotGiven(v, u, slot, a)
  BY <1>1, <1>2, SlotChanges
<1>5. v[slot] = Nobody
  BY DEF v
<1>6. NewOk(g, u)
  BY <1>0, <1>1, <1>3, <1>4 DEF NewOk, SlotGiven, SameButRefs, f
<1>7. RefsOk(g, u)
  <2> SUFFICES ASSUME NEW x \in DOMAIN f PROVE IsFiniteSet(SlotsOf(u, x)) /\ g[x].refs = Cardinality(SlotsOf(u, x)) /\ g[x].refs <= MaxRefs
    BY <1>3 DEF RefsOk, SameButRefs
  <2>0. IsFiniteSet(SlotsOf(v, x)) /\ f[x].refs = Cardinality(SlotsOf(v, x)) /\ f[x].refs <= MaxRefs /\ x \in Addresses /\ x # Nobody
    BY <1>0, AddrManAssumption DEF RefsOk, InfoOk
  <2>1. CASE x = a
    <3>1. SlotsOf(u, a) = SlotsOf(v, a) \cup {slot} /\ slot \notin SlotsOf(v, a)
      BY <1>1, <1>4, <1>5 DEF SlotGiven, SlotsOf
    <3>2. IsFiniteSet(SlotsOf(u, a)) /\ Cardinality(SlotsOf(u, a)) = Cardinality(SlotsOf(v, a)) + 1
      BY <2>0, <2>1, <3>1, FS_AddElement
    <3>3. g[a].refs = k
      BY <1>1, <1>3 DEF SameButRefs
    <3> QED BY <1>1, <2>0, <2>1, <3>2, <3>3 DEF k
  <2>2. CASE x # a
    <3>1. SlotsOf(u, x) = SlotsOf(v, x)
      BY <1>4, <1>5, <2>0, <2>2 DEF SlotGiven
    <3>2. g[x].refs = f[x].refs
      BY <1>3, <2>2 DEF SameButRefs
    <3> QED BY <2>0, <3>1, <3>2
  <2> QED BY <2>1, <2>2
<1>8. \A x \in New(g) \ (X \ {a}) : g[x].refs >= 1
  <2>1. \A x \in New(f) \ X : f[x].refs >= 1
    BY DEF Core, f
  <2>2. New(g) = New(f) /\ New(f) \subseteq DOMAIN f /\ \A x \in DOMAIN f : g[x].refs = IF x = a THEN k ELSE f[x].refs
    BY <1>3 DEF SameButRefs, New
  <2> QED BY <1>1, <2>1, <2>2
<1>9. New(g) = New(f) /\ Tried(g) = Tried(f) /\ VectorOk(g, m.vRandom) /\ InfoOk(g)
  BY <1>0, <1>3 DEF SameButRefs
<1>10. Core(q, X \ {a}, Z)
  <2>1. q.vRandom = m.vRandom /\ IsManager(q) /\ q.nNew = Cardinality(New(g) \ Z)
    BY <1>9 DEF Given, f
  <2> QED BY <1>6, <1>7, <1>8, <1>9, <2>1 DEF Core, g, u
<1>11. TriedKept(m, q)
  BY <1>9 DEF TriedKept, Given, f, g
<1> QED BY <1>3, <1>9, <1>10, <1>11 DEF f, g, k

(* A new entry gets the slot of a source, or goes if it has none (Place). *)
LEMMA PlaceIs ==
    ASSUME NEW m, NEW a \in New(m.info), Core(m, {a}, {}), m.info[a].refs < MaxRefs, NEW s \in Sources, NEW terrible
    PROVE  Core(Place(m, a, s, terrible), {}, {}) /\ TriedKept(m, Place(m, a, s, terrible))
<1>0. InfoOk(m.info) /\ NewOk(m.info, m.vvNew) /\ RefsOk(m.info, m.vvNew)
  BY DEF Core
<1>1. a \in DOMAIN m.info /\ a \in Addresses /\ m.info[a].refs \in Nat /\ a # Nobody
  BY <1>0, AddrManAssumption DEF New, InfoOk, Infos
<1>2. PICK slot \in NewSlots : slot = NewSlot(a, s) /\ PositionOf[a][slot[1]] = slot[2]
  BY <1>1, SlotIs
<1>3. PICK other : other = m.vvNew[slot]
  OBVIOUS
<1>4. PICK c : c = ClearNew(m, slot)
  OBVIOUS
<1>5. PICK q : q = [c EXCEPT !.info[a].refs = @ + 1, !.vvNew[slot] = a]
  OBVIOUS
<1>6. PICK p : p = Place(m, a, s, terrible)
  OBVIOUS
<1>7. \/ p = m /\ other = a
      \/ p = q /\ other # a
      \/ p = Delete(m, a) /\ m.info[a].refs = 0
      \/ p = m /\ m.info[a].refs # 0
  <2>1. Place(m, a, s, terrible) = IF other = a THEN m
          ELSE IF other = Nobody \/ terrible \/ (m.info[other].refs > 1 /\ m.info[a].refs = 0) THEN q
          ELSE IF m.info[a].refs = 0 THEN Delete(m, a)
          ELSE m
    BY <1>2, <1>3, <1>4, <1>5, Zenon DEF Place
  <2> QED BY <1>6, <2>1
<1>8. TriedKept(m, m)
  BY DEF TriedKept
<1>9. ASSUME p = m, m.info[a].refs # 0 PROVE Core(p, {}, {}) /\ TriedKept(m, p)
  <2>1. \A x \in New(m.info) \ {} : m.info[x].refs >= 1
    BY <1>1, <1>9 DEF Core
  <2>2. Core(m, {}, {})
    BY <2>1 DEF Core
  <2> QED BY <1>8, <1>9, <2>2
<1>10. ASSUME other = a PROVE m.info[a].refs # 0
  <2>1. m.vvNew[slot] = a
    BY <1>3, <1>10
  <2> QED BY <1>1, <2>1, NoSlots
<1>11. ASSUME p = Delete(m, a), m.info[a].refs = 0 PROVE Core(p, {}, {}) /\ TriedKept(m, p)
  <2>1. Core(p, {a} \ {a}, {}) /\ Without(m, p, a)
    BY <1>11, DeleteIs
  <2>2. Core(p, {}, {})
    <3>1. {a} \ {a} = {}
      OBVIOUS
    <3> QED BY <2>1, <3>1
  <2>3. InfoOk(p.info)
    BY <2>2 DEF Core
  <2> QED BY <2>1, <2>2, <2>3, DeleteKeepsTried
<1>12. ASSUME p = q, other # a PROVE Core(p, {}, {}) /\ TriedKept(m, p)
  <2>1. Core(c, {a}, {}) /\ SlotCleared(m, c, slot)
    <3>1. m.vvNew[slot] \notin {}
      OBVIOUS
    <3> QED BY <1>4, <3>1, ClearNewIs
  <2>2. SameEntry(m.info, c.info, a) /\ InfoOk(c.info) /\ IsManager(c)
    BY <1>1, <1>3, <1>12, <2>1 DEF SlotCleared, Core
  <2>3. c.info[a].refs = m.info[a].refs /\ c.info[a].inTried = m.info[a].inTried
    BY <1>0, <2>2, EntryFields
  <2>4. a \in New(c.info)
    BY <2>2, <2>3 DEF New, SameEntry
  <2>5. c.vvNew[slot] = Nobody
    BY <1>0, <2>1 DEF SlotCleared, NewOk
  <2>6. Given(c, q, a, slot) /\ q.nNew = c.nNew
    <3> DEFINE c1 == [c EXCEPT !.info[a].refs = @ + 1]
               g == Referred(c.info, a, c.info[a].refs + 1)
    <3>1. q = [c1 EXCEPT !.vvNew[slot] = a]
      BY <1>5
    <3>2. c1 = [c EXCEPT !.info = g]
      <4>1. c1 = [c EXCEPT !.info = [c.info EXCEPT ![a].refs = c.info[a].refs + 1]]
        BY <2>2 DEF IsManager
      <4> QED BY <4>1 DEF Referred
    <3> HIDE DEF g, c1
    <3>3. IsManager(c1) /\ c1.info = g /\ c1.vvNew = c.vvNew /\ c1.vRandom = c.vRandom /\ c1.vvTried = c.vvTried /\ c1.nNew = c.nNew /\ c1.nTried = c.nTried
      BY <2>2, <3>2 DEF IsManager
    <3>4. IsManager(q) /\ q.info = g /\ q.vvNew = [c.vvNew EXCEPT ![slot] = a] /\ q.vRandom = c.vRandom /\ q.vvTried = c.vvTried /\ q.nNew = c.nNew /\ q.nTried = c.nTried
      BY <3>1, <3>3 DEF IsManager
    <3> QED BY <3>4 DEF Given, g
  <2>7. q.nNew = Cardinality(New(c.info) \ {})
    BY <2>1, <2>6 DEF Core
  <2>8. Core(q, {a} \ {a}, {}) /\ TriedKept(c, q)
    BY <1>2, <2>1, <2>3, <2>4, <2>5, <2>6, <2>7, GivenIs
  <2>9. Core(q, {}, {})
    <3>1. {a} \ {a} = {}
      OBVIOUS
    <3> QED BY <2>8, <3>1
  <2>10. TriedKept(m, q)
    BY <2>1, <2>8 DEF TriedKept, SlotCleared
  <2> QED BY <1>12, <2>9, <2>10
<1> QED BY <1>6, <1>7, <1>8, <1>9, <1>10, <1>11, <1>12

(* An entry is created and counted (the middle of Add_). *)
Known(m, a, s) == [Create(m, a, s) EXCEPT !.nNew = @ + 1]

LEMMA CreateIs ==
    ASSUME NEW m, Core(m, {}, {}), NEW a \in Addresses, a \notin DOMAIN m.info, NEW s \in Sources
    PROVE  /\ Core(Known(m, a, s), {a}, {}) /\ TriedKept(m, Known(m, a, s))
           /\ a \in New(Known(m, a, s).info) /\ Known(m, a, s).info[a].refs = 0
<1>0. IsManager(m) /\ InfoOk(m.info) /\ VectorOk(m.info, m.vRandom) /\ NewOk(m.info, m.vvNew) /\ RefsOk(m.info, m.vvNew) /\ a # Nobody
  BY AddrManAssumption DEF Core
<1>1. PICK e : e = [source |-> s, refs |-> 0, inTried |-> FALSE, pos |-> Len(m.vRandom) + 1]
  OBVIOUS
<1>2. PICK g : g = [x \in DOMAIN m.info \cup {a} |-> IF x = a THEN e ELSE m.info[x]]
  OBVIOUS
<1>3. PICK q : q = Known(m, a, s)
  OBVIOUS
<1>4. /\ IsManager(q) /\ q.info = g /\ q.vRandom = Append(m.vRandom, a) /\ q.nNew = m.nNew + 1
      /\ q.vvNew = m.vvNew /\ q.vvTried = m.vvTried /\ q.nTried = m.nTried
  <2> DEFINE c == Create(m, a, s)
  <2>1. c = [m EXCEPT !.info = g, !.vRandom = Append(@, a)]
    BY <1>1, <1>2, Zenon DEF Create
  <2>2. IsManager(c) /\ c.info = g /\ c.vRandom = Append(m.vRandom, a) /\ c.nNew = m.nNew /\ c.vvNew = m.vvNew /\ c.vvTried = m.vvTried /\ c.nTried = m.nTried
    <3> HIDE DEF c
    <3> QED BY <1>0, <2>1 DEF IsManager
  <2>3. q = [c EXCEPT !.nNew = @ + 1]
    BY <1>3 DEF Known
  <2> HIDE DEF c
  <2> QED BY <2>2, <2>3 DEF IsManager
<1>5. m.vRandom \in Seq(Addresses) /\ Len(m.vRandom) \in Nat
  BY <1>0 DEF VectorOk
<1>6. e \in Infos /\ e.refs = 0 /\ ~e.inTried /\ e.pos = Len(m.vRandom) + 1
  BY <1>1, <1>5 DEF Infos
<1>7. /\ DOMAIN g = DOMAIN m.info \cup {a} /\ g[a] = e /\ \A x \in DOMAIN m.info : g[x] = m.info[x] /\ x # a
  BY <1>2
<1>8. InfoOk(g)
  <2>1. IsFiniteSet(DOMAIN m.info \cup {a})
    BY <1>0, FS_AddElement DEF InfoOk
  <2>2. g \in [DOMAIN m.info \cup {a} -> Infos]
    BY <1>0, <1>2, <1>6 DEF InfoOk
  <2> QED BY <1>0, <1>7, <2>1, <2>2 DEF InfoOk
<1>9. VectorOk(g, q.vRandom)
  <2> DEFINE n == Len(m.vRandom)
             u == Append(m.vRandom, a)
  <2>1. u \in Seq(Addresses) /\ Len(u) = n + 1 /\ u[n + 1] = a /\ \A k \in 1 .. n : u[k] = m.vRandom[k]
    BY <1>5
  <2> HIDE DEF u
  <2>2. \A x \in DOMAIN g : g[x].pos \in 1 .. n + 1 /\ u[g[x].pos] = x
    <3> SUFFICES ASSUME NEW x \in DOMAIN g PROVE g[x].pos \in 1 .. n + 1 /\ u[g[x].pos] = x
      OBVIOUS
    <3>1. CASE x = a
      BY <1>5, <1>6, <1>7, <2>1, <3>1
    <3>2. CASE x # a
      <4>1. x \in DOMAIN m.info /\ g[x] = m.info[x]
        BY <1>7, <3>2
      <4>2. m.info[x].pos \in 1 .. n /\ m.vRandom[m.info[x].pos] = x
        BY <1>0, <4>1 DEF VectorOk
      <4> QED BY <1>5, <2>1, <4>1, <4>2
    <3> QED BY <3>1, <3>2
  <2>3. \A k \in 1 .. n + 1 : u[k] \in DOMAIN g /\ g[u[k]].pos = k
    <3> SUFFICES ASSUME NEW k \in 1 .. n + 1 PROVE u[k] \in DOMAIN g /\ g[u[k]].pos = k
      OBVIOUS
    <3>1. CASE k = n + 1
      BY <1>6, <1>7, <2>1, <3>1
    <3>2. CASE k # n + 1
      <4>1. k \in 1 .. n
        BY <1>5, <3>2
      <4>2. m.vRandom[k] \in DOMAIN m.info /\ m.info[m.vRandom[k]].pos = k
        BY <1>0, <4>1 DEF VectorOk
      <4> QED BY <1>7, <2>1, <4>1, <4>2
    <3> QED BY <3>1, <3>2
  <2>4. VectorOk(g, u)
    BY <2>1, <2>2, <2>3 DEF VectorOk
  <2> QED BY <1>4, <2>4 DEF u
<1>10. New(g) = New(m.info) \cup {a} /\ a \notin New(m.info) /\ Tried(g) = Tried(m.info)
  BY <1>6, <1>7 DEF New, Tried
<1>11. NewOk(g, m.vvNew)
  BY <1>0, <1>10 DEF NewOk
<1>12. RefsOk(g, m.vvNew)
  <2>1. SlotsOf(m.vvNew, a) = {}
    BY <1>0, <1>10 DEF SlotsOf, NewOk
  <2>2. IsFiniteSet(SlotsOf(m.vvNew, a)) /\ Cardinality(SlotsOf(m.vvNew, a)) = 0
    BY <2>1, FS_EmptySet
  <2> QED BY <1>0, <1>6, <1>7, <2>2, AddrManAssumption DEF RefsOk
<1>13. q.nNew = Cardinality(New(g) \ {})
  <2>1. IsFiniteSet(New(m.info)) /\ m.nNew = Cardinality(New(m.info))
    <3>1. IsFiniteSet(New(m.info))
      BY <1>0, FS_Subset DEF InfoOk, New
    <3>2. New(m.info) \ {} = New(m.info)
      OBVIOUS
    <3> QED BY <3>1, <3>2 DEF Core
  <2>2. Cardinality(New(g)) = m.nNew + 1 /\ New(g) \ {} = New(g)
    BY <1>10, <2>1, FS_AddElement
  <2> QED BY <1>4, <2>2
<1>14. \A x \in New(g) \ {a} : g[x].refs >= 1
  BY <1>7, <1>10 DEF Core, New
<1>15. Core(q, {a}, {})
  BY <1>4, <1>8, <1>9, <1>11, <1>12, <1>13, <1>14 DEF Core
<1>16. TriedKept(m, q) /\ a \in New(q.info) /\ q.info[a].refs = 0
  BY <1>4, <1>6, <1>7, <1>10 DEF TriedKept
<1> QED BY <1>3, <1>15, <1>16

(* What every operation keeps. *)
Kept(m, q) == Core(q, {}, {}) /\ TriedPart(q) /\ Tried(m.info) \subseteq DOMAIN q.info

LEMMA AddKeeps ==
    ASSUME AddrInv, NEW a \in Addresses, NEW s \in Sources, NEW terrible \in BOOLEAN, Add(a, s, terrible)
    PROVE  Kept(am, am')
<1>0. Core(am, {}, {}) /\ TriedPart(am) /\ InfoOk(am.info)
  BY DEF AddrInv, Core
<1>1. ASSUME NEW q, TriedKept(am, q), Core(q, {}, {}) PROVE Kept(am, q)
  <2>1. TriedPart(q)
    BY <1>0, <1>1, TriedStays
  <2>2. Tried(am.info) \subseteq DOMAIN q.info
    BY <1>1 DEF TriedKept, Tried
  <2> QED BY <1>1, <2>1, <2>2 DEF Kept
<1>2. CASE a \in DOMAIN am.info
  <2>1. ~am.info[a].inTried /\ am.info[a].refs # MaxRefs /\ am' = Place(am, a, s, terrible)
    BY <1>2 DEF Add
  <2>2. a \in New(am.info) /\ am.info[a].refs < MaxRefs
    <3>1. am.info[a].refs \in Nat /\ am.info[a].refs <= MaxRefs
      BY <1>0, <1>2 DEF Core, RefsOk, InfoOk, Infos
    <3>2. am.info[a].refs < MaxRefs
      <4>1. PICK r \in Nat : r = am.info[a].refs
        BY <3>1
      <4>2. r # MaxRefs
        BY <2>1, <4>1
      <4>3. r <= MaxRefs /\ MaxRefs \in Nat
        BY <3>1, <4>1, AddrManAssumption
      <4>4. r < MaxRefs
        BY <4>2, <4>3
      <4> QED BY <4>1, <4>4
    <3>3. a \in New(am.info)
      BY <1>2, <2>1 DEF New
    <3> QED BY <3>2, <3>3
  <2>3. Core(am, {a}, {})
    <3>1. \A x \in New(am.info) \ {a} : am.info[x].refs >= 1
      BY <1>0 DEF Core
    <3> QED BY <1>0, <3>1 DEF Core
  <2>4. Core(am', {}, {}) /\ TriedKept(am, am')
    BY <2>1, <2>2, <2>3, PlaceIs
  <2> QED BY <1>1, <2>4
<1>3. CASE a \notin DOMAIN am.info
  <2>1. PICK k : k = Known(am, a, s)
    OBVIOUS
  <2>2. am' = Place(k, a, s, terrible)
    BY <1>3, <2>1 DEF Add, Known
  <2>3. Core(k, {a}, {}) /\ TriedKept(am, k) /\ a \in New(k.info) /\ k.info[a].refs = 0
    BY <1>0, <1>3, <2>1, CreateIs
  <2>4. k.info[a].refs < MaxRefs
    BY <2>3, AddrManAssumption
  <2>5. Core(am', {}, {}) /\ TriedKept(k, am')
    BY <2>2, <2>3, <2>4, PlaceIs
  <2>6. TriedKept(am, am')
    BY <2>3, <2>5 DEF TriedKept
  <2> QED BY <1>1, <2>5, <2>6
<1> QED BY <1>2, <1>3

-----------------------------------------------------------------------------
(* Entries that are tried *)

(* MakeTried, step by step: a leaves the new table; the entry in its tried   *)
(* slot leaves that table, gets a slot of the new one and is counted there;  *)
(* a is tried.                                                               *)
Out(m, a) ==
    [m EXCEPT !.vvNew = [s \in NewSlots |-> IF s \in NewSlotsOf(m, a) THEN Nobody ELSE @[s]],
              !.info[a].refs = @ - Cardinality(NewSlotsOf(m, a)),
              !.nNew = @ - 1]
Mid(m, b) == [m EXCEPT !.info[b].inTried = FALSE, !.nTried = @ - 1]
Back(m, b, slot) == [m EXCEPT !.info[b].refs = 1, !.vvNew[slot] = b, !.nNew = @ + 1]
AsTried(m, a) == [m EXCEPT !.vvTried[TriedSlotOf[a]] = a, !.nTried = @ + 1, !.info[a].inTried = TRUE]

LEMMA MakeTriedIs ==
    ASSUME NEW m, NEW a, NEW out, out = Out(m, a), NEW old, old = out.vvTried[TriedSlotOf[a]],
           NEW back, back = NewSlot(old, out.info[old].source), NEW room, room = ClearNew(Mid(out, old), back)
    PROVE  MakeTried(m, a) = IF old = Nobody THEN AsTried(out, a) ELSE AsTried(Back(room, old, back), a)
<1> DEFINE o == Out(m, a)
           b == o.vvTried[TriedSlotOf[a]]
           s == NewSlot(b, o.info[b].source)
<1>1. MakeTried(m, a) = AsTried(IF b = Nobody THEN o ELSE Back(ClearNew(Mid(o, b), s), b, s), a)
  BY DEF MakeTried, Out, Mid, Back, AsTried
<1>2. o = out /\ b = old /\ s = back /\ ClearNew(Mid(o, b), s) = room
  OBVIOUS
<1> HIDE DEF o, b, s
<1> QED BY <1>1, <1>2

LEMMA OutIs ==
    ASSUME NEW m, Core(m, {}, {}), NEW a \in New(m.info)
    PROVE  /\ Core(Out(m, a), {a}, {a}) /\ TriedKept(m, Out(m, a)) /\ New(Out(m, a).info) = New(m.info)
           /\ Out(m, a).info[a].refs = 0 /\ DOMAIN Out(m, a).info = DOMAIN m.info
<1> DEFINE f == m.info
           v == m.vvNew
           q == Out(m, a)
           S == NewSlotsOf(m, a)
           u == [s \in NewSlots |-> IF s \in S THEN Nobody ELSE v[s]]
           g == Referred(f, a, 0)
<1>0. IsManager(m) /\ InfoOk(f) /\ VectorOk(f, m.vRandom) /\ NewOk(f, v) /\ RefsOk(f, v)
  BY DEF Core
<1>1. a \in DOMAIN f /\ a \in Addresses /\ f[a].refs \in Nat /\ a # Nobody
  BY <1>0, AddrManAssumption DEF New, InfoOk, Infos
<1>2. S = SlotsOf(v, a)
  <2>1. PositionOf[a] \in [NewBuckets -> Positions]
    BY <1>1, AddrManAssumption
  <2>2. \A s \in SlotsOf(v, a) : s = <<s[1], PositionOf[a][s[1]]>> /\ s[1] \in NewBuckets
    BY <1>0, <1>1 DEF SlotsOf, NewOk, NewSlots
  <2>3. SlotsOf(v, a) \subseteq S
    BY <2>2 DEF NewSlotsOf, SlotsOf
  <2>4. S \subseteq SlotsOf(v, a)
    <3> SUFFICES ASSUME NEW s \in S PROVE s \in NewSlots /\ v[s] = a
      BY DEF SlotsOf
    <3>1. PICK b \in NewBuckets : v[<<b, PositionOf[a][b]>>] = a /\ s = <<b, PositionOf[a][b]>>
      BY DEF NewSlotsOf
    <3> QED BY <2>1, <3>1 DEF NewSlots
  <2> QED BY <2>3, <2>4
<1>3. IsFiniteSet(S) /\ f[a].refs - Cardinality(S) = 0
  BY <1>0, <1>1, <1>2 DEF RefsOk
<1>4. /\ IsManager(q) /\ q.info = g /\ q.vvNew = u /\ q.nNew = m.nNew - 1
      /\ q.vRandom = m.vRandom /\ q.vvTried = m.vvTried /\ q.nTried = m.nTried
  <2> DEFINE m1 == [m EXCEPT !.vvNew = u]
             m2 == [m1 EXCEPT !.info[a].refs = @ - Cardinality(S)]
  <2>1. q = [m2 EXCEPT !.nNew = @ - 1]
    <3>1. q = [m EXCEPT !.vvNew = [s \in NewSlots |-> IF s \in S THEN Nobody ELSE @[s]],
                        !.info[a].refs = @ - Cardinality(S), !.nNew = @ - 1]
      BY DEF Out
    <3> QED BY <3>1
  <2>2. IsManager(m1) /\ m1.info = f /\ m1.vvNew = u /\ m1.vRandom = m.vRandom /\ m1.vvTried = m.vvTried /\ m1.nNew = m.nNew /\ m1.nTried = m.nTried
    <3> HIDE DEF u
    <3> QED BY <1>0 DEF IsManager
  <2> HIDE DEF u, S, q, m1
  <2>3. m2 = [m1 EXCEPT !.info = g]
    <3>1. m2 = [m1 EXCEPT !.info = [f EXCEPT ![a].refs = f[a].refs - Cardinality(S)]]
      BY <2>2 DEF IsManager
    <3>2. m2 = [m1 EXCEPT !.info = [f EXCEPT ![a].refs = 0]]
      BY <1>3, <3>1
    <3> QED BY <3>2 DEF Referred
  <2> HIDE DEF m2, g
  <2>4. IsManager(m2) /\ m2.info = g /\ m2.vvNew = u /\ m2.vRandom = m.vRandom /\ m2.vvTried = m.vvTried /\ m2.nNew = m.nNew /\ m2.nTried = m.nTried
    BY <2>2, <2>3 DEF IsManager
  <2> QED BY <2>1, <2>4 DEF IsManager
<1> HIDE DEF f, q, g
<1>5. SameButRefs(f, g, a, 0)
  BY <1>0, <1>1, ReferredIs DEF g
<1>6. u \in [NewSlots -> Addresses \cup {Nobody}] /\ \A s \in NewSlots : u[s] = IF v[s] = a THEN Nobody ELSE v[s]
  <2>1. v \in [NewSlots -> Addresses \cup {Nobody}] /\ \A s \in NewSlots : s \in S <=> v[s] = a
    BY <1>0, <1>2 DEF NewOk, SlotsOf
  <2> HIDE DEF S
  <2> QED BY <2>1
<1> HIDE DEF u
<1>7. NewOk(g, u)
  BY <1>0, <1>5, <1>6 DEF NewOk, SameButRefs
<1>8. RefsOk(g, u)
  <2> SUFFICES ASSUME NEW x \in DOMAIN f PROVE IsFiniteSet(SlotsOf(u, x)) /\ g[x].refs = Cardinality(SlotsOf(u, x)) /\ g[x].refs <= MaxRefs
    BY <1>5 DEF RefsOk, SameButRefs
  <2>0. x # Nobody
    BY <1>0, AddrManAssumption DEF InfoOk
  <2>1. CASE x = a
    <3>1. SlotsOf(u, x) = {}
      BY <1>6, <2>0, <2>1 DEF SlotsOf
    <3>2. g[x].refs = 0
      BY <1>5, <2>1 DEF SameButRefs
    <3> QED BY <3>1, <3>2, FS_EmptySet, AddrManAssumption
  <2>2. CASE x # a
    <3>1. SlotsOf(u, x) = SlotsOf(v, x)
      BY <1>6, <2>0, <2>2 DEF SlotsOf
    <3>2. g[x].refs = f[x].refs
      BY <1>5, <2>2 DEF SameButRefs
    <3> QED BY <1>0, <3>1, <3>2 DEF RefsOk
  <2> QED BY <2>1, <2>2
<1>9. New(g) = New(f) /\ Tried(g) = Tried(f) /\ InfoOk(g) /\ DOMAIN g = DOMAIN f /\ VectorOk(g, m.vRandom) /\ g[a].refs = 0
  BY <1>0, <1>1, <1>5 DEF SameButRefs
<1>10. q.nNew = Cardinality(New(g) \ {a})
  <2>1. IsFiniteSet(New(f))
    BY <1>0, FS_Subset DEF InfoOk, New
  <2>2. New(f) \ {} = New(f) /\ m.nNew = Cardinality(New(f) \ {}) /\ a \in New(f)
    BY DEF Core, f
  <2>3. Cardinality(New(f) \ {a}) = Cardinality(New(f)) - 1
    BY <2>1, <2>2, FS_RemoveElement
  <2>4. m.nNew = Cardinality(New(f)) /\ New(g) = New(f) /\ q.nNew = m.nNew - 1
    BY <1>4, <1>9, <2>2
  <2> QED BY <2>3, <2>4
<1>11. \A x \in New(g) \ {a} : g[x].refs >= 1
  <2>1. \A x \in New(f) : f[x].refs >= 1
    BY DEF Core, f
  <2>2. New(f) \subseteq DOMAIN f /\ \A x \in DOMAIN f : x # a => g[x].refs = f[x].refs
    BY <1>5 DEF SameButRefs, New
  <2> QED BY <1>9, <2>1, <2>2
<1>12. Core(q, {a}, {a})
  BY <1>4, <1>7, <1>8, <1>9, <1>10, <1>11 DEF Core
<1>13. TriedKept(m, q)
  BY <1>4, <1>9 DEF TriedKept, f
<1> QED BY <1>4, <1>9, <1>12, <1>13 DEF f, q

(* The tried table but for one slot, which is about to be given to a. *)
TriedBut(f, t, slot) ==
    /\ t \in [TriedSlots -> Addresses \cup {Nobody}]
    /\ \A s \in TriedSlots : s # slot /\ t[s] # Nobody => t[s] \in Tried(f) /\ TriedSlotOf[t[s]] = s
    /\ \A x \in Tried(f) : t[TriedSlotOf[x]] = x /\ TriedSlotOf[x] # slot

(* One entry gets another inTried. *)
Flagged(f, a, b) == [f EXCEPT ![a] = [f[a] EXCEPT !.inTried = b]]

SameButFlag(f, g, a, b) ==
    /\ InfoOk(g) /\ DOMAIN g = DOMAIN f
    /\ \A x \in DOMAIN f : /\ g[x].refs = f[x].refs /\ g[x].source = f[x].source /\ g[x].pos = f[x].pos
                           /\ x # a => g[x] = f[x]
    /\ g[a].inTried = b
    /\ \A r : VectorOk(f, r) => VectorOk(g, r)

LEMMA FlaggedIs ==
    ASSUME NEW f, InfoOk(f), NEW a \in DOMAIN f, NEW b \in BOOLEAN
    PROVE  SameButFlag(f, Flagged(f, a, b), a, b)
<1> DEFINE g == Flagged(f, a, b)
<1>1. DOMAIN g = DOMAIN f /\ \A x \in DOMAIN f : g[x] = IF x = a THEN [f[a] EXCEPT !.inTried = b] ELSE f[x]
  BY DEF Flagged, InfoOk
<1>2. \A x \in DOMAIN f : f[x] \in Infos
  BY DEF InfoOk
<1>3. \A x \in DOMAIN f : /\ g[x] \in Infos /\ g[x].refs = f[x].refs /\ g[x].source = f[x].source /\ g[x].pos = f[x].pos
                          /\ x # a => g[x] = f[x]
  BY <1>1, <1>2 DEF Infos
<1>4. g[a].inTried = b
  BY <1>1, <1>2 DEF Infos
<1>5. g \in [DOMAIN f -> Infos]
  BY <1>1, <1>3 DEF Flagged, InfoOk
<1> HIDE DEF g
<1>6. InfoOk(g)
  BY <1>1, <1>5 DEF InfoOk
<1>7. \A r : VectorOk(f, r) => VectorOk(g, r)
  BY <1>1, <1>3 DEF VectorOk
<1>8. SameButFlag(f, g, a, b)
  BY <1>1, <1>3, <1>4, <1>6, <1>7 DEF SameButFlag
<1> QED BY <1>8 DEF g

LEMMA FlagSets ==
    ASSUME NEW f, NEW g, NEW a \in DOMAIN f, NEW b \in BOOLEAN, SameButFlag(f, g, a, b)
    PROVE  /\ b => New(g) = New(f) \ {a} /\ Tried(g) = Tried(f) \cup {a}
           /\ ~b => New(g) = New(f) \cup {a} /\ Tried(g) = Tried(f) \ {a}
<1>1. DOMAIN g = DOMAIN f /\ g[a].inTried = b /\ \A x \in DOMAIN f : x # a => g[x].inTried = f[x].inTried
  BY DEF SameButFlag
<1>2. CASE b
  <2>1. g[a].inTried
    BY <1>1, <1>2
  <2> QED BY <1>1, <1>2, <2>1 DEF New, Tried
<1>3. CASE ~b
  <2>1. ~g[a].inTried
    BY <1>1, <1>3
  <2> QED BY <1>1, <1>3, <2>1 DEF New, Tried
<1> QED BY <1>2, <1>3

LEMMA FlagKeepsRefs ==
    ASSUME NEW f, NEW g, NEW a, NEW b, SameButFlag(f, g, a, b), NEW v, RefsOk(f, v)
    PROVE  RefsOk(g, v)
BY DEF SameButFlag, RefsOk

(* a gets its tried slot and is counted. *)
LEMMA AsTriedIs ==
    ASSUME NEW m, NEW a \in New(m.info), Core(m, {a}, {a}), m.info[a].refs = 0,
           TriedBut(m.info, m.vvTried, TriedSlotOf[a]), m.nTried = Cardinality(Tried(m.info))
    PROVE  /\ Core(AsTried(m, a), {}, {}) /\ TriedPart(AsTried(m, a))
           /\ DOMAIN AsTried(m, a).info = DOMAIN m.info
<1> DEFINE f == m.info
           q == AsTried(m, a)
           g == Flagged(f, a, TRUE)
           t == m.vvTried
           slot == TriedSlotOf[a]
           w == [t EXCEPT ![slot] = a]
<1>0. IsManager(m) /\ InfoOk(f) /\ VectorOk(f, m.vRandom) /\ NewOk(f, m.vvNew) /\ RefsOk(f, m.vvNew)
  BY DEF Core
<1>1. a \in DOMAIN f /\ a \in Addresses /\ slot \in TriedSlots /\ a # Nobody
  BY <1>0, AddrManAssumption DEF New, InfoOk
<1>2. /\ IsManager(q) /\ q.info = g /\ q.vvTried = w /\ q.nTried = m.nTried + 1
      /\ q.vRandom = m.vRandom /\ q.vvNew = m.vvNew /\ q.nNew = m.nNew
  <2> DEFINE m1 == [m EXCEPT !.vvTried[slot] = a]
             m2 == [m1 EXCEPT !.nTried = @ + 1]
  <2>1. q = [m2 EXCEPT !.info[a].inTried = TRUE]
    BY DEF AsTried
  <2>2. IsManager(m1) /\ m1.info = f /\ m1.vvTried = w /\ m1.vRandom = m.vRandom /\ m1.vvNew = m.vvNew /\ m1.nNew = m.nNew /\ m1.nTried = m.nTried
    BY <1>0 DEF IsManager
  <2> HIDE DEF m1, w, q
  <2>3. IsManager(m2) /\ m2.info = f /\ m2.vvTried = w /\ m2.vRandom = m.vRandom /\ m2.vvNew = m.vvNew /\ m2.nNew = m.nNew /\ m2.nTried = m.nTried + 1
    BY <2>2 DEF IsManager
  <2> HIDE DEF m2
  <2>4. q = [m2 EXCEPT !.info = g]
    <3>1. q = [m2 EXCEPT !.info = [f EXCEPT ![a].inTried = TRUE]]
      BY <2>1, <2>3 DEF IsManager
    <3> QED BY <3>1 DEF Flagged
  <2> HIDE DEF g
  <2> QED BY <2>3, <2>4 DEF IsManager
<1>3. SameButFlag(f, g, a, TRUE)
  <2> HIDE DEF f
  <2> QED BY <1>0, <1>1, FlaggedIs
<1> HIDE DEF g, q, f, slot
<1>4. New(g) = New(f) \ {a} /\ Tried(g) = Tried(f) \cup {a}
  BY <1>1, <1>3, FlagSets
<1>5. \A s \in NewSlots : m.vvNew[s] # a
  BY <1>1, NoSlots DEF f
<1>6. NewOk(g, m.vvNew)
  BY <1>0, <1>4, <1>5 DEF NewOk
<1>7. RefsOk(g, m.vvNew)
  BY <1>0, <1>3, FlagKeepsRefs
<1>8. InfoOk(g) /\ VectorOk(g, m.vRandom) /\ DOMAIN g = DOMAIN f
  BY <1>0, <1>3 DEF SameButFlag
<1>9. m.nNew = Cardinality(New(g) \ {})
  <2>1. New(f) \ {a} = New(g) \ {}
    BY <1>4
  <2> QED BY <2>1 DEF Core, f
<1>10. \A x \in New(g) \ {} : g[x].refs >= 1
  <2>1. \A x \in New(f) \ {a} : f[x].refs >= 1
    BY DEF Core, f
  <2>2. New(f) \subseteq DOMAIN f /\ \A x \in DOMAIN f : g[x].refs = f[x].refs
    BY <1>3 DEF SameButFlag, New
  <2> QED BY <1>4, <2>1, <2>2
<1>11. Core(q, {}, {})
  BY <1>2, <1>6, <1>7, <1>8, <1>9, <1>10 DEF Core
<1>12. TriedOk(g, w)
  <2>1. TriedBut(f, t, slot) /\ TriedSlotOf[a] = slot
    BY DEF f, slot
  <2>2. w \in [TriedSlots -> Addresses \cup {Nobody}] /\ \A s \in TriedSlots : w[s] = IF s = slot THEN a ELSE t[s]
    BY <1>1, <2>1 DEF TriedBut
  <2>3. \A x \in Tried(f) : TriedSlotOf[x] \in TriedSlots
    BY <1>0, AddrManAssumption DEF Tried, InfoOk
  <2> HIDE DEF w, t
  <2> QED BY <1>1, <1>4, <2>1, <2>2, <2>3 DEF TriedOk, TriedBut
<1>13. m.nTried + 1 = Cardinality(Tried(g))
  <2>1. IsFiniteSet(Tried(f))
    BY <1>0, FS_Subset DEF InfoOk, Tried
  <2>2. a \notin Tried(f)
    BY DEF Tried, New, f
  <2> QED BY <1>4, <2>1, <2>2, FS_AddElement DEF f
<1>14. TriedPart(q)
  BY <1>2, <1>12, <1>13 DEF TriedPart
<1> QED BY <1>2, <1>8, <1>11, <1>14 DEF q, f

(* The entry b that a finds in its tried slot leaves the tried table, and    *)
(* counts as new only when it has its slot there.                            *)
LEMMA MidIs ==
    ASSUME NEW m, NEW a \in New(m.info), Core(m, {a}, {a}), NEW b \in Tried(m.info)
    PROVE  /\ Core(Mid(m, b), {a, b}, {a, b})
           /\ Tried(Mid(m, b).info) = Tried(m.info) \ {b} /\ New(Mid(m, b).info) = New(m.info) \cup {b}
           /\ Mid(m, b).vvTried = m.vvTried /\ Mid(m, b).nTried = m.nTried - 1
           /\ SameButFlag(m.info, Mid(m, b).info, b, FALSE)
           /\ m.info[b].refs = 0
<1> DEFINE f == m.info
           q == Mid(m, b)
           g == Flagged(f, b, FALSE)
<1>0. IsManager(m) /\ InfoOk(f) /\ VectorOk(f, m.vRandom) /\ NewOk(f, m.vvNew) /\ RefsOk(f, m.vvNew)
  BY DEF Core
<1>1. b \in DOMAIN f /\ b \notin New(f) /\ b \in Addresses /\ b # Nobody
  BY <1>0, AddrManAssumption DEF New, Tried, InfoOk
<1>2. /\ IsManager(q) /\ q.info = g /\ q.nTried = m.nTried - 1
      /\ q.vRandom = m.vRandom /\ q.vvNew = m.vvNew /\ q.nNew = m.nNew /\ q.vvTried = m.vvTried
  <2> DEFINE m1 == [m EXCEPT !.info[b].inTried = FALSE]
  <2>1. q = [m1 EXCEPT !.nTried = @ - 1]
    BY DEF Mid
  <2>2. m1 = [m EXCEPT !.info = g]
    BY <1>0 DEF Flagged, IsManager
  <2> HIDE DEF m1, g, q
  <2>3. IsManager(m1) /\ m1.info = g /\ m1.vvTried = m.vvTried /\ m1.vRandom = m.vRandom /\ m1.vvNew = m.vvNew /\ m1.nNew = m.nNew /\ m1.nTried = m.nTried
    BY <1>0, <2>2 DEF IsManager
  <2> QED BY <2>1, <2>3 DEF IsManager
<1>3. SameButFlag(f, g, b, FALSE)
  <2> HIDE DEF f
  <2> QED BY <1>0, <1>1, FlaggedIs
<1> HIDE DEF g, q, f
<1>4. New(g) = New(f) \cup {b} /\ Tried(g) = Tried(f) \ {b}
  BY <1>1, <1>3, FlagSets
<1>5. f[b].refs = 0
  <2>1. SlotsOf(m.vvNew, b) = {}
    BY <1>0, <1>1 DEF SlotsOf, NewOk
  <2> QED BY <1>0, <1>1, <2>1, FS_EmptySet DEF RefsOk
<1>6. NewOk(g, m.vvNew)
  BY <1>0, <1>4 DEF NewOk
<1>7. RefsOk(g, m.vvNew)
  BY <1>0, <1>3, FlagKeepsRefs
<1>8. InfoOk(g) /\ VectorOk(g, m.vRandom) /\ DOMAIN g = DOMAIN f
  BY <1>0, <1>3 DEF SameButFlag
<1>9. m.nNew = Cardinality(New(g) \ {a, b})
  <2>1. New(f) \ {a} = New(g) \ {a, b}
    BY <1>1, <1>4
  <2> QED BY <2>1 DEF Core, f
<1>10. \A x \in New(g) \ {a, b} : g[x].refs >= 1
  <2>1. \A x \in New(f) \ {a} : f[x].refs >= 1
    BY DEF Core, f
  <2>2. New(f) \subseteq DOMAIN f /\ \A x \in DOMAIN f : g[x].refs = f[x].refs
    BY <1>3 DEF SameButFlag, New
  <2> QED BY <1>4, <2>1, <2>2
<1>11. Core(q, {a, b}, {a, b})
  BY <1>2, <1>6, <1>7, <1>8, <1>9, <1>10 DEF Core
<1> QED BY <1>2, <1>3, <1>4, <1>5, <1>11 DEF f, q

LEMMA BackIs ==
    ASSUME NEW m, NEW a \in New(m.info), NEW b \in New(m.info), a # b, Core(m, {a, b}, {a, b}), m.info[b].refs = 0,
           NEW slot \in NewSlots, m.vvNew[slot] = Nobody, PositionOf[b][slot[1]] = slot[2]
    PROVE  /\ Core(Back(m, b, slot), {a}, {a}) /\ TriedKept(m, Back(m, b, slot))
           /\ New(Back(m, b, slot).info) = New(m.info) /\ DOMAIN Back(m, b, slot).info = DOMAIN m.info
           /\ Back(m, b, slot).info[a].refs = m.info[a].refs
<1>0. IsManager(m) /\ InfoOk(m.info) /\ a \in DOMAIN m.info
  BY DEF Core, New
<1>1. PICK q : q = Back(m, b, slot)
  OBVIOUS
<1>2. Given(m, q, b, slot) /\ q.nNew = m.nNew + 1
  <2> DEFINE m1 == [m EXCEPT !.info[b].refs = 1]
             m2 == [m1 EXCEPT !.vvNew[slot] = b]
             g == Referred(m.info, b, m.info[b].refs + 1)
  <2>1. q = [m2 EXCEPT !.nNew = @ + 1]
    BY <1>1 DEF Back
  <2>2. m1 = [m EXCEPT !.info = g]
    <3>1. m.info[b].refs + 1 = 1
      OBVIOUS
    <3>2. g = [m.info EXCEPT ![b].refs = 1]
      BY <3>1 DEF Referred
    <3> QED BY <1>0, <3>2 DEF IsManager
  <2> HIDE DEF g, m1
  <2>3. IsManager(m1) /\ m1.info = g /\ m1.vvNew = m.vvNew /\ m1.vRandom = m.vRandom /\ m1.vvTried = m.vvTried /\ m1.nNew = m.nNew /\ m1.nTried = m.nTried
    BY <1>0, <2>2 DEF IsManager
  <2>4. IsManager(m2) /\ m2.info = g /\ m2.vvNew = [m.vvNew EXCEPT ![slot] = b] /\ m2.vRandom = m.vRandom /\ m2.vvTried = m.vvTried /\ m2.nNew = m.nNew /\ m2.nTried = m.nTried
    BY <2>3 DEF IsManager
  <2> HIDE DEF m2
  <2>5. IsManager(q) /\ q.info = g /\ q.vvNew = [m.vvNew EXCEPT ![slot] = b] /\ q.vRandom = m.vRandom /\ q.vvTried = m.vvTried /\ q.nNew = m.nNew + 1 /\ q.nTried = m.nTried
    BY <2>1, <2>4 DEF IsManager
  <2> QED BY <2>5 DEF Given, g
<1>3. q.nNew = Cardinality(New(m.info) \ {a})
  <2>1. IsFiniteSet(New(m.info) \ {a, b})
    BY <1>0, FS_Subset DEF InfoOk, New
  <2>2. New(m.info) \ {a} = (New(m.info) \ {a, b}) \cup {b} /\ b \notin New(m.info) \ {a, b}
    OBVIOUS
  <2>3. m.nNew = Cardinality(New(m.info) \ {a, b})
    BY DEF Core
  <2>4. Cardinality((New(m.info) \ {a, b}) \cup {b}) = m.nNew + 1
    BY <2>1, <2>2, <2>3, FS_AddElement
  <2> QED BY <1>2, <2>2, <2>4
<1>4. m.info[b].refs < MaxRefs
  BY AddrManAssumption
<1>5. Core(q, {a, b} \ {b}, {a}) /\ TriedKept(m, q) /\ New(q.info) = New(m.info) /\ SameButRefs(m.info, q.info, b, m.info[b].refs + 1)
  BY <1>2, <1>3, <1>4, GivenIs
<1>6. Core(q, {a}, {a})
  <2>1. {a, b} \ {b} = {a}
    OBVIOUS
  <2> QED BY <1>5, <2>1
<1>7. DOMAIN q.info = DOMAIN m.info /\ q.info[a].refs = m.info[a].refs
  BY <1>0, <1>5 DEF SameButRefs
<1> QED BY <1>1, <1>5, <1>6, <1>7

(* A connection worked: the entry is tried, and the one it finds in its slot *)
(* is new again.                                                             *)
LEMMA GoodKeeps ==
    ASSUME AddrInv, NEW a \in Addresses, Good(a)
    PROVE  Kept(am, am')
<1>0. Core(am, {}, {}) /\ TriedPart(am) /\ InfoOk(am.info) /\ a \in New(am.info)
  BY DEF AddrInv, Core, Good, New
<1>1. PICK out : out = Out(am, a)
  OBVIOUS
<1>2. PICK old : old = out.vvTried[TriedSlotOf[a]]
  OBVIOUS
<1>3. PICK back : back = NewSlot(old, out.info[old].source)
  OBVIOUS
<1>4. PICK mid : mid = Mid(out, old)
  OBVIOUS
<1>5. PICK room : room = ClearNew(mid, back)
  OBVIOUS
<1>6. am' = IF old = Nobody THEN AsTried(out, a) ELSE AsTried(Back(room, old, back), a)
  <2>1. am' = MakeTried(am, a)
    BY DEF Good
  <2>2. room = ClearNew(Mid(out, old), back)
    BY <1>4, <1>5
  <2> QED BY <1>1, <1>2, <1>3, <2>1, <2>2, MakeTriedIs
<1>7. /\ Core(out, {a}, {a}) /\ TriedKept(am, out) /\ New(out.info) = New(am.info)
      /\ out.info[a].refs = 0 /\ DOMAIN out.info = DOMAIN am.info
  BY <1>0, <1>1, OutIs
<1>8. TriedPart(out) /\ a \in New(out.info)
  BY <1>0, <1>7, TriedStays
<1>9. /\ TriedOk(out.info, out.vvTried) /\ out.nTried = Cardinality(Tried(out.info)) /\ TriedSlotOf[a] \in TriedSlots
      /\ InfoOk(out.info)
  BY <1>7, <1>8, AddrManAssumption DEF TriedPart, Core
<1>10. \A x \in Tried(out.info) : TriedSlotOf[x] \in TriedSlots /\ x # Nobody
  BY <1>9, AddrManAssumption DEF InfoOk, Tried
<1>11. Tried(am.info) \subseteq DOMAIN out.info
  BY <1>7 DEF TriedKept, Tried
<1>12. CASE old = Nobody
  <2>1. TriedBut(out.info, out.vvTried, TriedSlotOf[a])
    <3>1. \A x \in Tried(out.info) : out.vvTried[TriedSlotOf[x]] = x /\ TriedSlotOf[x] # TriedSlotOf[a]
      <4>1. out.vvTried[TriedSlotOf[a]] = Nobody
        BY <1>2, <1>12
      <4>2. \A x \in Tried(out.info) : out.vvTried[TriedSlotOf[x]] = x
        BY <1>9 DEF TriedOk
      <4> QED BY <1>10, <4>1, <4>2
    <3>2. /\ out.vvTried \in [TriedSlots -> Addresses \cup {Nobody}]
          /\ \A s \in TriedSlots : out.vvTried[s] # Nobody => out.vvTried[s] \in Tried(out.info) /\ TriedSlotOf[out.vvTried[s]] = s
      BY <1>9 DEF TriedOk
    <3> QED BY <3>1, <3>2 DEF TriedBut
  <2>2. PICK q : q = AsTried(out, a)
    OBVIOUS
  <2>3. Core(q, {}, {}) /\ TriedPart(q) /\ DOMAIN q.info = DOMAIN out.info
    BY <1>7, <1>8, <1>9, <2>1, <2>2, AsTriedIs
  <2>4. Kept(am, q)
    BY <1>11, <2>3 DEF Kept
  <2> QED BY <1>6, <1>12, <2>2, <2>4
<1>13. CASE old # Nobody
  <2>1. old \in Tried(out.info) /\ TriedSlotOf[old] = TriedSlotOf[a] /\ old \in DOMAIN out.info /\ old \in Addresses
    BY <1>2, <1>9, <1>13 DEF TriedOk, Tried, InfoOk
  <2>2. a # old
    BY <1>8, <2>1 DEF New, Tried
  <2>3. /\ Core(mid, {a, old}, {a, old})
        /\ Tried(mid.info) = Tried(out.info) \ {old} /\ New(mid.info) = New(out.info) \cup {old}
        /\ mid.vvTried = out.vvTried /\ mid.nTried = out.nTried - 1
        /\ SameButFlag(out.info, mid.info, old, FALSE) /\ out.info[old].refs = 0
    BY <1>4, <1>7, <1>8, <2>1, MidIs
  <2>4. /\ DOMAIN mid.info = DOMAIN out.info /\ mid.info[a].refs = 0 /\ mid.info[old].refs = 0
        /\ a \in DOMAIN mid.info /\ old \in DOMAIN mid.info /\ InfoOk(mid.info)
    BY <1>7, <1>8, <2>1, <2>3 DEF SameButFlag, New
  <2>5. back \in NewSlots /\ PositionOf[old][back[1]] = back[2]
    <3>1. out.info[old].source \in Sources
      BY <1>9, <2>1 DEF InfoOk, Infos
    <3> QED BY <1>3, <2>1, <3>1, SlotIs
  <2>6. mid.vvNew[back] # a /\ mid.vvNew[back] # old
    BY <2>3, <2>4, <2>5, NoSlots
  <2>7. Core(room, {a, old}, {a, old}) /\ SlotCleared(mid, room, back)
    <3>1. mid.vvNew[back] \notin {a, old}
      BY <2>6
    <3> QED BY <1>5, <2>3, <2>5, <3>1, ClearNewIs
  <2>8. ASSUME NEW x \in {a, old} PROVE x \in New(room.info) /\ room.info[x].refs = 0
    <3>1. SameEntry(mid.info, room.info, x) /\ InfoOk(room.info)
      BY <2>4, <2>6, <2>7 DEF SlotCleared, Core
    <3>2. room.info[x].refs = mid.info[x].refs /\ room.info[x].inTried = mid.info[x].inTried
      BY <2>4, <3>1, EntryFields
    <3>3. x \in New(mid.info)
      BY <1>8, <2>3
    <3>4. x \in New(room.info)
      BY <3>1, <3>2, <3>3 DEF New, SameEntry
    <3> QED BY <2>4, <3>2, <3>4
  <2>9. room.vvNew[back] = Nobody
    BY <2>3, <2>5, <2>7 DEF SlotCleared, Core, NewOk
  <2>10. PICK e : e = Back(room, old, back)
    OBVIOUS
  <2>11. /\ Core(e, {a}, {a}) /\ TriedKept(room, e) /\ New(e.info) = New(room.info)
         /\ DOMAIN e.info = DOMAIN room.info /\ e.info[a].refs = room.info[a].refs
    BY <2>2, <2>5, <2>7, <2>8, <2>9, <2>10, BackIs
  <2>12. e.vvTried = out.vvTried /\ e.nTried = out.nTried - 1 /\ Tried(e.info) = Tried(out.info) \ {old}
    BY <2>3, <2>7, <2>11 DEF TriedKept, SlotCleared
  <2>13. TriedBut(e.info, e.vvTried, TriedSlotOf[a])
    <3>1. \A x \in Tried(out.info) \ {old} : out.vvTried[TriedSlotOf[x]] = x /\ TriedSlotOf[x] # TriedSlotOf[a]
      BY <1>2, <1>9 DEF TriedOk
    <3>2. \A s \in TriedSlots : s # TriedSlotOf[a] /\ out.vvTried[s] # Nobody => out.vvTried[s] \in Tried(out.info) \ {old} /\ TriedSlotOf[out.vvTried[s]] = s
      BY <1>9, <2>1 DEF TriedOk
    <3>3. out.vvTried \in [TriedSlots -> Addresses \cup {Nobody}]
      BY <1>9 DEF TriedOk
    <3> QED BY <2>12, <3>1, <3>2, <3>3 DEF TriedBut
  <2>14. e.nTried = Cardinality(Tried(e.info))
    <3>1. IsFiniteSet(Tried(out.info))
      BY <1>9, FS_Subset DEF InfoOk, Tried
    <3> QED BY <1>9, <2>1, <2>12, <3>1, FS_RemoveElement
  <2>15. a \in New(e.info) /\ e.info[a].refs = 0
    BY <2>8, <2>11
  <2>16. PICK q : q = AsTried(e, a)
    OBVIOUS
  <2>17. Core(q, {}, {}) /\ TriedPart(q) /\ DOMAIN q.info = DOMAIN e.info
    BY <2>11, <2>13, <2>14, <2>15, <2>16, AsTriedIs
  <2>18. Tried(am.info) \subseteq DOMAIN q.info
    <3>1. Tried(am.info) = Tried(out.info)
      BY <1>7 DEF TriedKept
    <3>2. Tried(out.info) \ {old} \subseteq DOMAIN e.info
      BY <2>12 DEF Tried
    <3>3. old \in DOMAIN e.info
      BY <2>8, <2>11 DEF New
    <3> QED BY <2>17, <3>1, <3>2, <3>3
  <2>19. Kept(am, q)
    BY <2>17, <2>18 DEF Kept
  <2> QED BY <1>6, <1>13, <2>10, <2>16, <2>19
<1> QED BY <1>12, <1>13

-----------------------------------------------------------------------------
(* The shuffle *)

Managers ==
    [info : UNION {[D -> Infos] : D \in SUBSET Addresses}, vRandom : Seq(Addresses), nNew : Int, nTried : Int,
     vvNew : [NewSlots -> Addresses \cup {Nobody}], vvTried : [TriedSlots -> Addresses \cup {Nobody}]]

LEMMA InManagers ==
    ASSUME NEW m, IsManager(m), InfoOk(m.info), m.vRandom \in Seq(Addresses), m.nNew \in Int, m.nTried \in Int,
           m.vvNew \in [NewSlots -> Addresses \cup {Nobody}], m.vvTried \in [TriedSlots -> Addresses \cup {Nobody}]
    PROVE  m \in Managers
<1>1. m.info \in UNION {[D -> Infos] : D \in SUBSET Addresses}
  BY DEF InfoOk
<1> QED BY <1>1 DEF IsManager, Managers

LEMMA CoreInManagers ==
    ASSUME NEW m, NEW X, NEW Y, Core(m, X, Y), TriedPart(m)
    PROVE  m \in Managers /\ m.nNew \in Nat /\ m.nTried \in Nat
<1>1. IsManager(m) /\ InfoOk(m.info) /\ m.vRandom \in Seq(Addresses) /\ m.vvNew \in [NewSlots -> Addresses \cup {Nobody}]
      /\ m.vvTried \in [TriedSlots -> Addresses \cup {Nobody}]
  BY DEF Core, TriedPart, VectorOk, NewOk, TriedOk
<1>2. IsFiniteSet(New(m.info) \ Y) /\ IsFiniteSet(Tried(m.info))
  <2>1. New(m.info) \ Y \subseteq DOMAIN m.info /\ Tried(m.info) \subseteq DOMAIN m.info
    BY DEF New, Tried
  <2> QED BY <1>1, <2>1, FS_Subset DEF InfoOk
<1>3. m.nNew \in Nat /\ m.nTried \in Nat
  BY <1>2, FS_CardinalityType DEF Core, TriedPart
<1> QED BY <1>1, <1>3, InManagers

LEMMA MovedTo == ASSUME NEW m, NEW q, NEW X, NEW Y, Core(m, X, Y), TriedPart(m), Moved(m, q) PROVE q \in Managers
<1>1. Core(q, X, Y) /\ TriedPart(q)
  BY MovedKeeps
<1> QED BY <1>1, CoreInManagers

Shuffled(draw) == FoldLeft(LAMBDA m, k : SwapRandom(m, k, draw[k]), am, [k \in DOMAIN am.vRandom |-> k])

LEMMA ShuffledIs ==
    ASSUME AddrInv, NEW draw \in Draws(Len(am.vRandom))
    PROVE  Moved(am, Shuffled(draw))
<1> DEFINE n == Len(am.vRandom)
           V == {q \in Managers : Moved(am, q) /\ Len(q.vRandom) = n}
           Op(m, k) == SwapRandom(m, k, draw[k])
           seq == [k \in 1 .. n |-> k]
           Eq(f) == f = [s \in SUBSET (1 .. n) |-> IF s = {} THEN am ELSE Op(f[s \ {Max(s)}], seq[Max(s)])]
           c == CHOOSE f : Eq(f)
           G == [k \in 1 .. n |-> [r \in V |-> Op(r, k)]]
           W == [s \in SUBSET (1 .. n) |-> V]
<1>0. n \in Nat /\ DOMAIN am.vRandom = 1 .. n /\ Core(am, {}, {}) /\ TriedPart(am)
  BY DEF AddrInv, Core, VectorOk
<1>1. Shuffled(draw) = c[1 .. n]
  BY <1>0 DEF Shuffled, FoldLeft, MapThenFoldSet
<1>2. am \in V
  <2>1. SameButPlace(am.info, am.info)
    BY <1>0 DEF Core, SameButPlace, InfoOk, Infos
  <2>2. Moved(am, am)
    BY <1>0, <2>1 DEF Moved, Core
  <2> QED BY <1>0, <2>2, MovedTo
<1>3. \A k \in 1 .. n : \A r \in V : Op(r, k) \in V
  <2> SUFFICES ASSUME NEW k \in 1 .. n, NEW r \in V PROVE Op(r, k) \in V
    OBVIOUS
  <2>1. draw[k] \in 1 .. n
    BY DEF Draws
  <2>2. IsManager(r) /\ InfoOk(r.info) /\ VectorOk(r.info, r.vRandom) /\ k \in 1 .. Len(r.vRandom) /\ draw[k] \in 1 .. Len(r.vRandom)
    BY <2>1 DEF Moved
  <2>3. PICK q : q = Op(r, k)
    OBVIOUS
  <2>4. Moved(r, q) /\ Len(q.vRandom) = Len(r.vRandom)
    BY <2>2, <2>3, SwapIs
  <2>5. Moved(am, q)
    <3>1. InfoOk(am.info) /\ Moved(am, r)
      BY <1>0 DEF Core
    <3> QED BY <2>4, <3>1, MovedOn
  <2>6. q \in Managers
    BY <1>0, <2>5, MovedTo
  <2> HIDE DEF Op
  <2> QED BY <2>3, <2>4, <2>5, <2>6
<1> HIDE DEF Op, V
<1>4. Leads(n, V, W, am, G)
  <2>1. W \in [SUBSET (1 .. n) -> SUBSET V] /\ am \in W[{}]
    BY <1>2
  <2>2. ASSUME NEW k \in 1 .. n, NEW s \in SUBSET (1 .. k - 1), NEW r \in W[s] PROVE G[k][r] \in W[s \cup {k}]
    <3>1. s \in SUBSET (1 .. n) /\ s \cup {k} \in SUBSET (1 .. n)
      <4> HIDE DEF n
      <4>1. \A x \in 1 .. k - 1 : x \in 1 .. n
        BY <1>0
      <4> QED BY <4>1
    <3> QED BY <1>3, <3>1
  <2> HIDE DEF W, G, n
  <2> QED BY <2>1, <2>2 DEF Leads
<1>a. PICK h : LoopValues(h, n, V, W, am, G)
  <2> HIDE DEF W, G, n
  <2> QED BY <1>0, <1>4, FoldVaries
<1>5. /\ h \in [SUBSET (1 .. n) -> V]
      /\ \A t \in SUBSET (1 .. n) : h[t] = IF t = {} THEN am ELSE G[Max(t)][h[t \ {Max(t)}]]
  BY <1>a DEF LoopValues
<1>6. ASSUME NEW s \in SUBSET (1 .. n), s # {} PROVE h[s] = Op(h[s \ {Max(s)}], seq[Max(s)])
  <2>1. Max(s) \in 1 .. n /\ h[s \ {Max(s)}] \in V
    <3>1. Max(s) \in s
      BY <1>0, <1>6, MaxIs
    <3> QED BY <1>5, <3>1
  <2> QED BY <1>5, <1>6, <2>1
<1>7. Eq(h)
  BY <1>5, <1>6
<1>8. Eq(c)
  <2> HIDE DEF Eq
  <2> QED BY <1>7
<1> HIDE DEF c, n
<1>9. c[{}] = am
  BY <1>8
<1>10. ASSUME NEW k \in 1 .. n, c[1 .. k - 1] \in V PROVE c[1 .. k] = G[k][c[1 .. k - 1]]
  <2>1. Max(1 .. k) = k /\ (1 .. k) \ {k} = 1 .. k - 1 /\ 1 .. k # {}
    <3>1. k \in Nat /\ k > 0
      BY <1>0
    <3> QED BY <3>1, Segment
  <2>2. 1 .. k \in SUBSET (1 .. n)
    BY <1>0
  <2>3. c[1 .. k] = Op(c[1 .. k - 1], k)
    BY <1>8, <2>1, <2>2
  <2> QED BY <1>10, <2>3
<1>11. c[1 .. n] \in W[1 .. n]
  <2> HIDE DEF W, G
  <2> QED BY <1>0, <1>4, <1>9, <1>10, FoldEnds
<1>12. c[1 .. n] \in V
  BY <1>11
<1> QED BY <1>1, <1>12 DEF V

LEMMA MoveKeeps == ASSUME AddrInv, NEW q, Moved(am, q) PROVE Kept(am, q)
<1>1. Core(am, {}, {}) /\ TriedPart(am)
  BY DEF AddrInv
<1>2. Core(q, {}, {}) /\ TriedPart(q) /\ Tried(q.info) = Tried(am.info)
  BY <1>1, MovedKeeps
<1> QED BY <1>2 DEF Kept, Tried

LEMMA GetAddrKeeps == ASSUME AddrInv, NEW draw \in Draws(Len(am.vRandom)), GetAddr(draw) PROVE Kept(am, am')
<1>1. am' = Shuffled(draw)
  BY DEF GetAddr, Shuffled
<1> QED BY <1>1, ShuffledIs, MoveKeeps

-----------------------------------------------------------------------------
(* Loading: the order of the file *)

(* q names each element of S once. *)
Lists(q, S) ==
    /\ q \in Seq(S)
    /\ \A x \in S : \E k \in 1 .. Len(q) : q[k] = x
    /\ \A i, j \in 1 .. Len(q) : q[i] = q[j] => i = j

LEMMA InjectionLists ==
    ASSUME NEW S, IsFiniteSet(S), NEW q \in [1 .. Cardinality(S) -> S], \A i, j \in 1 .. Cardinality(S) : q[i] = q[j] => i = j
    PROVE  Lists(q, S)
<1> DEFINE n == Cardinality(S)
<1>1. n \in Nat
  BY FS_CardinalityType
<1>2. Cardinality(1 .. n) = n
  <2>1. Cardinality(1 .. n) = IF 1 > n THEN 0 ELSE n - 1 + 1
    BY <1>1, FS_Interval
  <2> QED BY <1>1, <2>1
<1>3. q \in Injection(1 .. n, S)
  BY DEF Injection, IsInjective
<1>4. q \in Surjection(1 .. n, S)
  BY <1>2, <1>3, FS_Injection
<1> HIDE DEF n
<1>5. \A x \in S : \E k \in 1 .. n : q[k] = x
  BY <1>4 DEF Surjection
<1>6. q \in Seq(S) /\ Len(q) = n
  BY <1>1 DEF n
<1> QED BY <1>5, <1>6 DEF Lists, n

LEMMA SetToSeqsList == ASSUME NEW S, IsFiniteSet(S), NEW q \in SetToSeqs(S) PROVE Lists(q, S)
<1>1. q \in [1 .. Cardinality(S) -> S] /\ \A i, j \in 1 .. Cardinality(S) : i # j => q[i] # q[j]
  BY DEF SetToSeqs
<1> QED BY <1>1, InjectionLists

LEMMA SetToSeqLists == ASSUME NEW S, IsFiniteSet(S) PROVE Lists(SetToSeq(S), S)
<1> DEFINE q == SetToSeq(S)
<1>1. \E f \in [1 .. Cardinality(S) -> S] : IsInjective(f)
  <2>1. PICK f : f \in Bijection(1 .. Cardinality(S), S)
    BY FS_CardinalityType DEF ExistsBijection
  <2> QED BY <2>1 DEF Bijection, Injection
<1>2. q \in [1 .. Cardinality(S) -> S] /\ IsInjective(q)
  BY <1>1 DEF SetToSeq
<1> HIDE DEF q
<1>3. \A i, j \in 1 .. Cardinality(S) : q[i] = q[j] => i = j
  BY <1>2 DEF IsInjective
<1>4. Lists(q, S)
  BY <1>2, <1>3, InjectionLists
<1> QED BY <1>4 DEF q

(* New entries, then tried ones: each entry once. *)
LEMMA OrderIs ==
    ASSUME NEW A, NEW B, A \cap B = {}, NEW p, Lists(p, A), NEW q, Lists(q, B), NEW o, o = p \o q
    PROVE  Lists(o, A \cup B)
<1> DEFINE n == Len(p)
           l == Len(q)
<1>1. p \in Seq(A) /\ q \in Seq(B) /\ n \in Nat /\ l \in Nat /\ p \in Seq(A \cup B) /\ q \in Seq(A \cup B)
  BY DEF Lists
<1>2. o \in Seq(A \cup B) /\ Len(o) = n + l
  BY <1>1
<1>3. \A k \in 1 .. n + l : o[k] = IF k <= n THEN p[k] ELSE q[k - n]
  BY <1>1
<1>4. /\ \A k \in 1 .. n : p[k] \in A /\ o[k] = p[k] /\ k \in 1 .. n + l
      /\ \A k \in 1 .. l : q[k] \in B /\ k + n \in 1 .. n + l /\ o[k + n] = q[k]
  <2>1. \A k \in 1 .. n : p[k] \in A /\ o[k] = p[k] /\ k \in 1 .. n + l
    BY <1>1, <1>3
  <2>2. ASSUME NEW k \in 1 .. l PROVE q[k] \in B /\ k + n \in 1 .. n + l /\ o[k + n] = q[k]
    <3>1. k + n \in 1 .. n + l /\ ~ k + n <= n /\ k + n - n = k
      BY <1>1
    <3> QED BY <1>1, <1>3, <3>1
  <2> QED BY <2>1, <2>2
<1>5. \A x \in A \cup B : \E k \in 1 .. n + l : o[k] = x
  <2> SUFFICES ASSUME NEW x \in A \cup B PROVE \E k \in 1 .. n + l : o[k] = x
    OBVIOUS
  <2>1. CASE x \in A
    <3>1. PICK k \in 1 .. n : p[k] = x
      BY <2>1 DEF Lists
    <3> QED BY <1>4, <3>1
  <2>2. CASE x \in B
    <3>1. PICK k \in 1 .. l : q[k] = x
      BY <2>2 DEF Lists
    <3>2. k + n \in 1 .. n + l /\ o[k + n] = x
      BY <1>4, <3>1
    <3> QED BY <3>2
  <2> QED BY <2>1, <2>2
<1>6. ASSUME NEW i \in 1 .. n + l, NEW j \in 1 .. n + l, o[i] = o[j] PROVE i = j
  <2>1. ASSUME NEW k \in 1 .. n + l
        PROVE  \/ k \in 1 .. n /\ o[k] = p[k] /\ o[k] \in A
               \/ k - n \in 1 .. l /\ o[k] = q[k - n] /\ o[k] \in B
    <3>1. CASE k <= n
      BY <1>1, <1>4, <3>1
    <3>2. CASE ~ k <= n
      <4>1. k - n \in 1 .. l /\ k - n + n = k
        BY <1>1, <3>2
      <4> QED BY <1>4, <4>1
    <3> QED BY <3>1, <3>2
  <2>2. CASE i \in 1 .. n /\ o[i] = p[i] /\ o[i] \in A
    <3>1. j \in 1 .. n /\ o[j] = p[j]
      BY <1>6, <2>1, <2>2
    <3>2. p[i] = p[j] /\ i \in 1 .. Len(p) /\ j \in 1 .. Len(p)
      BY <1>6, <2>2, <3>1
    <3> QED BY <3>2 DEF Lists
  <2>3. CASE i - n \in 1 .. l /\ o[i] = q[i - n] /\ o[i] \in B
    <3>1. j - n \in 1 .. l /\ o[j] = q[j - n]
      BY <1>6, <2>1, <2>3
    <3>2. i - n = j - n
      BY <1>6, <2>3, <3>1 DEF Lists
    <3> QED BY <1>1, <3>2
  <2> QED BY <2>1, <2>2, <2>3
<1> QED BY <1>2, <1>5, <1>6 DEF Lists

(* The manager as the file lists it, its slots kept or not. *)
Listed(m, news, trieds, keep) ==
    LET order == news \o trieds
        entry(a) == [m.info[a] EXCEPT !.pos = CHOOSE k \in DOMAIN order : order[k] = a,
                                      !.refs = IF keep THEN @ ELSE 0]
    IN  [m EXCEPT !.vRandom = order, !.info = [a \in DOMAIN @ |-> entry(a)]]

(* q has the entries of m, their places and perhaps their references new. *)
ListedAs(m, q, keep) ==
    /\ IsManager(q) /\ InfoOk(q.info) /\ VectorOk(q.info, q.vRandom) /\ DOMAIN q.info = DOMAIN m.info
    /\ \A a \in DOMAIN m.info : q.info[a] = [m.info[a] EXCEPT !.pos = q.info[a].pos, !.refs = IF keep THEN m.info[a].refs ELSE 0]
    /\ q.vvNew = m.vvNew /\ q.vvTried = m.vvTried /\ q.nNew = m.nNew /\ q.nTried = m.nTried

LEMMA ListedIs ==
    ASSUME AddrInv, NEW news \in SetToSeqs(New(am.info)), NEW trieds \in SetToSeqs(Tried(am.info)), NEW keep \in BOOLEAN,
           NEW q, q = Listed(am, news, trieds, keep)
    PROVE  ListedAs(am, q, keep)
<1> DEFINE f == am.info
           o == news \o trieds
           place(a) == CHOOSE k \in DOMAIN o : o[k] = a
           g == [a \in DOMAIN f |-> [f[a] EXCEPT !.pos = place(a), !.refs = IF keep THEN @ ELSE 0]]
<1>0. IsManager(am) /\ InfoOk(f)
  BY DEF AddrInv, Core
<1>1. q = [am EXCEPT !.vRandom = o, !.info = g]
  BY DEF Listed
<1>2. /\ IsManager(q) /\ q.info = g /\ q.vRandom = o
      /\ q.vvNew = am.vvNew /\ q.vvTried = am.vvTried /\ q.nNew = am.nNew /\ q.nTried = am.nTried
  <2> HIDE DEF g, o
  <2> QED BY <1>0, <1>1 DEF IsManager
<1>3. New(f) \cap Tried(f) = {} /\ New(f) \cup Tried(f) = DOMAIN f /\ IsFiniteSet(New(f)) /\ IsFiniteSet(Tried(f))
  <2>1. New(f) \cap Tried(f) = {} /\ New(f) \cup Tried(f) = DOMAIN f
    BY DEF New, Tried
  <2>2. New(f) \subseteq DOMAIN f /\ Tried(f) \subseteq DOMAIN f /\ IsFiniteSet(DOMAIN f)
    BY <1>0 DEF New, Tried, InfoOk
  <2> QED BY <2>1, <2>2, FS_Subset
<1>4. Lists(news, New(f)) /\ Lists(trieds, Tried(f))
  BY <1>3, SetToSeqsList
<1> HIDE DEF o, f
<1>5. /\ o \in Seq(DOMAIN f)
      /\ \A x \in DOMAIN f : \E k \in 1 .. Len(o) : o[k] = x
      /\ \A i, j \in 1 .. Len(o) : o[i] = o[j] => i = j
  <2>1. o = news \o trieds
    BY DEF o
  <2>2. PICK A, B : A = New(f) /\ B = Tried(f)
    OBVIOUS
  <2>3. A \cap B = {} /\ Lists(news, A) /\ Lists(trieds, B) /\ A \cup B = DOMAIN f
    BY <1>3, <1>4, <2>2
  <2>4. Lists(o, A \cup B)
    BY <2>1, <2>3, OrderIs
  <2> QED BY <2>3, <2>4 DEF Lists
<1>6. DOMAIN o = 1 .. Len(o) /\ Len(o) \in Nat
  BY <1>5
<1>7. \A x \in DOMAIN f : place(x) \in 1 .. Len(o) /\ o[place(x)] = x
  BY <1>5, <1>6
<1> HIDE DEF place
<1>8. \A x \in DOMAIN f : f[x] \in Infos
  BY <1>0 DEF InfoOk
<1>9. \A x \in DOMAIN f : /\ g[x] \in Infos /\ g[x].pos = place(x)
                          /\ g[x] = [f[x] EXCEPT !.pos = g[x].pos, !.refs = IF keep THEN f[x].refs ELSE 0]
  <2> SUFFICES ASSUME NEW x \in DOMAIN f
               PROVE  /\ g[x] \in Infos /\ g[x].pos = place(x)
                      /\ g[x] = [f[x] EXCEPT !.pos = g[x].pos, !.refs = IF keep THEN f[x].refs ELSE 0]
    OBVIOUS
  <2>1. PICK r : r = IF keep THEN f[x].refs ELSE 0
    OBVIOUS
  <2>2. place(x) \in Nat /\ f[x] \in Infos /\ r \in Nat
    BY <1>6, <1>7, <1>8, <2>1 DEF Infos
  <2>3. g[x] = [f[x] EXCEPT !.pos = place(x), !.refs = r]
    BY <2>1
  <2>4. [f[x] EXCEPT !.pos = place(x), !.refs = r] \in Infos /\ [f[x] EXCEPT !.pos = place(x), !.refs = r].pos = place(x)
    BY <2>2 DEF Infos
  <2>5. g[x] \in Infos /\ g[x].pos = place(x)
    BY <2>3, <2>4
  <2> QED BY <2>1, <2>3, <2>5
<1>10. DOMAIN g = DOMAIN f /\ g \in [DOMAIN f -> Infos]
  BY <1>9
<1> HIDE DEF g
<1>11. InfoOk(g)
  BY <1>0, <1>10 DEF InfoOk
<1>12. VectorOk(g, o)
  <2>1. o \in Seq(Addresses)
    BY <1>0, <1>5 DEF InfoOk
  <2>2. \A a \in DOMAIN g : g[a].pos \in 1 .. Len(o) /\ o[g[a].pos] = a
    BY <1>7, <1>9, <1>10
  <2>3. \A i \in 1 .. Len(o) : o[i] \in DOMAIN g /\ g[o[i]].pos = i
    <3> SUFFICES ASSUME NEW i \in 1 .. Len(o) PROVE o[i] \in DOMAIN g /\ g[o[i]].pos = i
      OBVIOUS
    <3>1. o[i] \in DOMAIN f
      BY <1>5
    <3>2. place(o[i]) \in 1 .. Len(o) /\ o[place(o[i])] = o[i]
      BY <1>7, <3>1
    <3> QED BY <1>5, <1>9, <1>10, <3>1, <3>2
  <2> QED BY <2>1, <2>2, <2>3 DEF VectorOk
<1> QED BY <1>2, <1>9, <1>10, <1>11, <1>12 DEF ListedAs, f

-----------------------------------------------------------------------------
(* Loading a file of another version *)

(* While the entries are read: q has the entries of m, and each slot that    *)
(* was given is the one of its entry's first source.                         *)
Reading(m, q) ==
    /\ Core(q, Addresses, {}) /\ TriedPart(q)
    /\ TriedKept(m, q) /\ New(q.info) = New(m.info)
    /\ \A s \in NewSlots : q.vvNew[s] # Nobody => s = NewSlot(q.vvNew[s], q.info[q.vvNew[s]].source)

Slotless(q) == [q EXCEPT !.vvNew = [s \in NewSlots |-> Nobody]]

LEMMA SlotlessIs ==
    ASSUME AddrInv, NEW news \in SetToSeqs(New(am.info)), NEW trieds \in SetToSeqs(Tried(am.info))
    PROVE  Reading(am, Slotless(Listed(am, news, trieds, FALSE)))
<1>0. Core(am, {}, {}) /\ TriedPart(am) /\ InfoOk(am.info)
  BY DEF AddrInv, Core
<1>1. PICK p : p = Listed(am, news, trieds, FALSE)
  OBVIOUS
<1>2. PICK q : q = Slotless(p)
  OBVIOUS
<1>3. /\ IsManager(p) /\ InfoOk(p.info) /\ VectorOk(p.info, p.vRandom) /\ DOMAIN p.info = DOMAIN am.info
      /\ \A a \in DOMAIN am.info : p.info[a] = [am.info[a] EXCEPT !.pos = p.info[a].pos, !.refs = 0]
      /\ p.vvNew = am.vvNew /\ p.vvTried = am.vvTried /\ p.nNew = am.nNew /\ p.nTried = am.nTried
  <2>1. PICK keep \in BOOLEAN : keep = FALSE
    OBVIOUS
  <2>2. ListedAs(am, p, keep)
    BY <1>1, <2>1, ListedIs
  <2> QED BY <2>1, <2>2 DEF ListedAs
<1>4. \A a \in DOMAIN am.info : p.info[a].refs = 0 /\ p.info[a].inTried = am.info[a].inTried
  BY <1>0, <1>3 DEF InfoOk, Infos
<1>5. New(p.info) = New(am.info) /\ Tried(p.info) = Tried(am.info)
  BY <1>3, <1>4 DEF New, Tried
<1>6. /\ IsManager(q) /\ q.info = p.info /\ q.vRandom = p.vRandom /\ q.vvNew = [s \in NewSlots |-> Nobody]
      /\ q.vvTried = am.vvTried /\ q.nNew = am.nNew /\ q.nTried = am.nTried
  <2>1. PICK u : u = [s \in NewSlots |-> Nobody]
    OBVIOUS
  <2>2. q = [p EXCEPT !.vvNew = u]
    BY <1>2, <2>1 DEF Slotless
  <2>3. /\ IsManager(q) /\ q.info = p.info /\ q.vRandom = p.vRandom /\ q.vvNew = u
        /\ q.vvTried = p.vvTried /\ q.nNew = p.nNew /\ q.nTried = p.nTried
    BY <1>3, <2>2 DEF IsManager
  <2> QED BY <1>3, <2>1, <2>3
<1>7. q.vvNew \in [NewSlots -> Addresses \cup {Nobody}] /\ \A s \in NewSlots : q.vvNew[s] = Nobody
  BY <1>6
<1>8. NewOk(q.info, q.vvNew)
  BY <1>7 DEF NewOk
<1>9. RefsOk(q.info, q.vvNew)
  <2> SUFFICES ASSUME NEW a \in DOMAIN am.info PROVE IsFiniteSet(SlotsOf(q.vvNew, a)) /\ q.info[a].refs = Cardinality(SlotsOf(q.vvNew, a)) /\ q.info[a].refs <= MaxRefs
    BY <1>3, <1>6 DEF RefsOk
  <2>1. a # Nobody
    BY <1>0, AddrManAssumption DEF InfoOk
  <2>2. SlotsOf(q.vvNew, a) = {}
    BY <1>7, <2>1 DEF SlotsOf
  <2>3. q.info[a].refs = 0
    BY <1>4, <1>6
  <2> QED BY <2>2, <2>3, FS_EmptySet, AddrManAssumption
<1>10. \A x \in New(q.info) \ Addresses : q.info[x].refs >= 1
  BY <1>3, <1>6 DEF New, InfoOk
<1>11. Core(q, Addresses, {})
  <2>1. q.nNew = Cardinality(New(q.info) \ {})
    BY <1>0, <1>5, <1>6 DEF Core
  <2> QED BY <1>3, <1>6, <1>8, <1>9, <1>10, <2>1 DEF Core
<1>12. TriedKept(am, q)
  BY <1>5, <1>6 DEF TriedKept
<1>13. TriedPart(q)
  BY <1>0, <1>12, TriedStays
<1>14. Reading(am, q)
  BY <1>5, <1>6, <1>7, <1>11, <1>12, <1>13 DEF Reading
<1> QED BY <1>1, <1>2, <1>14

LEMMA ReadEntryIs ==
    ASSUME NEW m, NEW q, Reading(m, q), NEW a \in New(m.info)
    PROVE  Reading(m, ReadEntry(q, a))
<1>0. /\ Core(q, Addresses, {}) /\ TriedPart(q) /\ TriedKept(m, q) /\ New(q.info) = New(m.info)
      /\ \A s \in NewSlots : q.vvNew[s] # Nobody => s = NewSlot(q.vvNew[s], q.info[q.vvNew[s]].source)
  BY DEF Reading
<1>1. IsManager(q) /\ InfoOk(q.info) /\ NewOk(q.info, q.vvNew) /\ RefsOk(q.info, q.vvNew)
  BY <1>0 DEF Core
<1>2. a \in New(q.info) /\ a \in DOMAIN q.info /\ a \in Addresses /\ a # Nobody /\ q.info[a].source \in Sources
  BY <1>0, <1>1, AddrManAssumption DEF New, InfoOk, Infos
<1>3. PICK slot : slot = NewSlot(a, q.info[a].source) /\ slot \in NewSlots /\ PositionOf[a][slot[1]] = slot[2]
  BY <1>2, SlotIs
<1>4. PICK r : r = ReadEntry(q, a)
  OBVIOUS
<1>5. CASE q.vvNew[slot] # Nobody
  <2>1. r = q
    BY <1>3, <1>4, <1>5 DEF ReadEntry
  <2> QED BY <1>4, <2>1
<1>6. CASE q.vvNew[slot] = Nobody
  <2>1. q.info[a].refs = 0
    <3>1. SlotsOf(q.vvNew, a) = {}
      BY <1>0, <1>2, <1>3, <1>6 DEF SlotsOf
    <3> QED BY <1>1, <1>2, <3>1, FS_EmptySet DEF RefsOk
  <2>2. r = [q EXCEPT !.vvNew[slot] = a, !.info[a].refs = 1]
    <3>1. ReadEntry(q, a) = IF q.vvNew[slot] # Nobody THEN q ELSE [q EXCEPT !.vvNew[slot] = a, !.info[a].refs = 1]
      BY <1>3 DEF ReadEntry
    <3> QED BY <1>4, <1>6, <3>1
  <2>3. Given(q, r, a, slot) /\ r.nNew = q.nNew
    <3> DEFINE q1 == [q EXCEPT !.vvNew[slot] = a]
               g == Referred(q.info, a, q.info[a].refs + 1)
    <3>1. r = [q1 EXCEPT !.info[a].refs = 1]
      BY <2>2
    <3>2. IsManager(q1) /\ q1.info = q.info /\ q1.vvNew = [q.vvNew EXCEPT ![slot] = a] /\ q1.vRandom = q.vRandom /\ q1.vvTried = q.vvTried /\ q1.nNew = q.nNew /\ q1.nTried = q.nTried
      BY <1>1 DEF IsManager
    <3> HIDE DEF q1
    <3>3. r = [q1 EXCEPT !.info = g]
      <4>1. q.info[a].refs + 1 = 1
        BY <2>1
      <4>2. g = [q.info EXCEPT ![a].refs = 1]
        BY <4>1 DEF Referred
      <4> QED BY <3>1, <3>2, <4>2 DEF IsManager
    <3> HIDE DEF g
    <3>4. IsManager(r) /\ r.info = g /\ r.vvNew = [q.vvNew EXCEPT ![slot] = a] /\ r.vRandom = q.vRandom /\ r.vvTried = q.vvTried /\ r.nNew = q.nNew /\ r.nTried = q.nTried
      BY <3>2, <3>3 DEF IsManager
    <3> QED BY <3>4 DEF Given, g
  <2>4. r.nNew = Cardinality(New(q.info) \ {})
    BY <1>0, <2>3 DEF Core
  <2>5. q.info[a].refs < MaxRefs
    BY <2>1, AddrManAssumption
  <2>6. /\ Core(r, Addresses \ {a}, {}) /\ TriedKept(q, r) /\ New(r.info) = New(q.info)
        /\ SameButRefs(q.info, r.info, a, q.info[a].refs + 1)
    BY <1>0, <1>2, <1>3, <1>6, <2>3, <2>4, <2>5, GivenIs
  <2>7. Core(r, Addresses, {})
    <3>1. \A x \in New(r.info) \ Addresses : r.info[x].refs >= 1
      BY <2>6 DEF Core
    <3> QED BY <2>6, <3>1 DEF Core
  <2>8. TriedKept(m, r) /\ New(r.info) = New(m.info)
    BY <1>0, <2>6 DEF TriedKept
  <2>9. TriedPart(r)
    BY <1>0, <2>6, TriedStays
  <2>10. \A s \in NewSlots : r.vvNew[s] # Nobody => s = NewSlot(r.vvNew[s], r.info[r.vvNew[s]].source)
    <3> SUFFICES ASSUME NEW s \in NewSlots, r.vvNew[s] # Nobody PROVE s = NewSlot(r.vvNew[s], r.info[r.vvNew[s]].source)
      OBVIOUS
    <3>1. r.vvNew[s] = IF s = slot THEN a ELSE q.vvNew[s]
      BY <1>1, <1>3, <2>3 DEF Given, NewOk
    <3>2. \A x \in DOMAIN q.info : r.info[x].source = q.info[x].source
      BY <2>6 DEF SameButRefs
    <3>3. CASE s = slot
      BY <1>2, <1>3, <3>1, <3>2, <3>3
    <3>4. CASE s # slot
      <4>1. r.vvNew[s] = q.vvNew[s] /\ q.vvNew[s] \in DOMAIN q.info
        BY <1>1, <3>1, <3>4 DEF NewOk, New
      <4> QED BY <1>0, <3>2, <4>1
    <3> QED BY <3>3, <3>4
  <2>11. Reading(m, r)
    BY <2>7, <2>8, <2>9, <2>10 DEF Reading
  <2> QED BY <1>4, <2>11
<1> QED BY <1>5, <1>6

LEMMA ReadAllIs ==
    ASSUME NEW m, NEW b, Reading(m, b), NEW news, Lists(news, New(m.info))
    PROVE  Reading(m, FoldLeft(ReadEntry, b, news))
<1> DEFINE n == Len(news)
           V == {q \in Managers : Reading(m, q)}
           Op(q, a) == ReadEntry(q, a)
           Eq(f) == f = [s \in SUBSET (1 .. n) |-> IF s = {} THEN b ELSE Op(f[s \ {Max(s)}], news[Max(s)])]
           c == CHOOSE f : Eq(f)
           G == [k \in 1 .. n |-> [r \in V |-> Op(r, news[k])]]
           W == [s \in SUBSET (1 .. n) |-> V]
<1>0. n \in Nat /\ DOMAIN news = 1 .. n /\ \A k \in 1 .. n : news[k] \in New(m.info)
  BY DEF Lists
<1>1. FoldLeft(ReadEntry, b, news) = c[1 .. n]
  BY <1>0 DEF FoldLeft, MapThenFoldSet
<1>2. \A q : Reading(m, q) => q \in V
  <2>1. \A q : Reading(m, q) => q \in Managers
    BY CoreInManagers DEF Reading
  <2> QED BY <2>1
<1>3. \A k \in 1 .. n : \A r \in V : Op(r, news[k]) \in V
  <2> SUFFICES ASSUME NEW k \in 1 .. n, NEW r \in V PROVE Op(r, news[k]) \in V
    OBVIOUS
  <2>1. Reading(m, r)
    OBVIOUS
  <2>2. Reading(m, Op(r, news[k]))
    BY <1>0, <2>1, ReadEntryIs
  <2> HIDE DEF Op, V
  <2> QED BY <1>2, <2>2
<1>4. b \in V
  BY <1>2
<1> HIDE DEF Op, V
<1>5. Leads(n, V, W, b, G)
  <2>1. W \in [SUBSET (1 .. n) -> SUBSET V] /\ b \in W[{}]
    BY <1>4
  <2>2. ASSUME NEW k \in 1 .. n, NEW s \in SUBSET (1 .. k - 1), NEW r \in W[s] PROVE G[k][r] \in W[s \cup {k}]
    <3>1. s \in SUBSET (1 .. n) /\ s \cup {k} \in SUBSET (1 .. n)
      <4> HIDE DEF n
      <4>1. \A x \in 1 .. k - 1 : x \in 1 .. n
        BY <1>0
      <4> QED BY <4>1
    <3> QED BY <1>3, <3>1
  <2> HIDE DEF W, G, n
  <2> QED BY <2>1, <2>2 DEF Leads
<1>a. PICK h : LoopValues(h, n, V, W, b, G)
  <2> HIDE DEF W, G, n
  <2> QED BY <1>0, <1>5, FoldVaries
<1>6. /\ h \in [SUBSET (1 .. n) -> V]
      /\ \A t \in SUBSET (1 .. n) : h[t] = IF t = {} THEN b ELSE G[Max(t)][h[t \ {Max(t)}]]
  BY <1>a DEF LoopValues
<1>7. ASSUME NEW s \in SUBSET (1 .. n), s # {} PROVE h[s] = Op(h[s \ {Max(s)}], news[Max(s)])
  <2>1. Max(s) \in 1 .. n /\ h[s \ {Max(s)}] \in V
    <3>1. Max(s) \in s
      BY <1>0, <1>7, MaxIs
    <3> QED BY <1>6, <3>1
  <2> QED BY <1>6, <1>7, <2>1
<1>8. Eq(h)
  BY <1>6, <1>7
<1>9. Eq(c)
  <2> HIDE DEF Eq
  <2> QED BY <1>8
<1> HIDE DEF c, n
<1>10. c[{}] = b
  BY <1>9
<1>11. ASSUME NEW k \in 1 .. n, c[1 .. k - 1] \in V PROVE c[1 .. k] = G[k][c[1 .. k - 1]]
  <2>1. Max(1 .. k) = k /\ (1 .. k) \ {k} = 1 .. k - 1 /\ 1 .. k # {}
    <3>1. k \in Nat /\ k > 0
      BY <1>0
    <3> QED BY <3>1, Segment
  <2>2. 1 .. k \in SUBSET (1 .. n)
    BY <1>0
  <2>3. c[1 .. k] = Op(c[1 .. k - 1], news[k])
    BY <1>9, <2>1, <2>2
  <2> QED BY <1>11, <2>3
<1>12. c[1 .. n] \in W[1 .. n]
  <2> HIDE DEF W, G
  <2> QED BY <1>0, <1>5, <1>10, <1>11, FoldEnds
<1>13. c[1 .. n] \in V
  BY <1>12
<1> QED BY <1>1, <1>13 DEF V

(* While entries without a slot are deleted: those that are left, L, are     *)
(* without one, and no others.                                               *)
Losing(m, q, L) ==
    /\ Core(q, L, {}) /\ TriedPart(q) /\ TriedKept(m, q)
    /\ \A x \in L : x \in New(q.info) /\ q.info[x].refs = 0

LEMMA LoseOne ==
    ASSUME NEW m, NEW q, NEW L, Losing(m, q, L), NEW a \in L
    PROVE  Losing(m, Delete(q, a), L \ {a})
<1>0. Core(q, L, {}) /\ TriedPart(q) /\ TriedKept(m, q) /\ \A x \in L : x \in New(q.info) /\ q.info[x].refs = 0
  BY DEF Losing
<1>1. PICK d : d = Delete(q, a)
  OBVIOUS
<1>2. Core(d, L \ {a}, {}) /\ Without(q, d, a)
  <2>1. a \notin {}
    OBVIOUS
  <2> QED BY <1>0, <1>1, <2>1, DeleteIs
<1>3. InfoOk(d.info) /\ InfoOk(q.info)
  BY <1>0, <1>2 DEF Core
<1>4. TriedKept(q, d)
  BY <1>0, <1>2, <1>3, DeleteKeepsTried
<1>5. TriedPart(d) /\ TriedKept(m, d)
  <2>1. TriedPart(d)
    BY <1>0, <1>4, TriedStays
  <2> QED BY <1>0, <1>4, <2>1 DEF TriedKept
<1>6. ASSUME NEW x \in L \ {a} PROVE x \in New(d.info) /\ d.info[x].refs = 0
  <2>1. SameEntry(q.info, d.info, x)
    BY <1>0, <1>2 DEF Without, New
  <2>2. d.info[x].refs = q.info[x].refs /\ d.info[x].inTried = q.info[x].inTried
    BY <1>3, <2>1, EntryFields
  <2>3. x \in New(d.info)
    BY <1>0, <2>1, <2>2 DEF New, SameEntry
  <2> QED BY <1>0, <2>2, <2>3
<1>7. Losing(m, d, L \ {a})
  BY <1>2, <1>5, <1>6 DEF Losing
<1> QED BY <1>1, <1>7

LEMMA WithoutLostIs ==
    ASSUME NEW m, Core(m, Addresses, {}), TriedPart(m)
    PROVE  Core(WithoutLost(m), {}, {}) /\ TriedPart(WithoutLost(m)) /\ TriedKept(m, WithoutLost(m))
<1> DEFINE none == {a \in DOMAIN m.info : ~m.info[a].inTried /\ m.info[a].refs = 0}
           seq == SetToSeq(none)
           n == Len(seq)
           Left(s) == none \ {seq[i] : i \in s}
           V == {q \in Managers : \E L \in SUBSET none : Losing(m, q, L)}
           Op(q, a) == Delete(q, a)
           Eq(f) == f = [s \in SUBSET (1 .. n) |-> IF s = {} THEN m ELSE Op(f[s \ {Max(s)}], seq[Max(s)])]
           c == CHOOSE f : Eq(f)
           G == [k \in 1 .. n |-> [r \in V |-> Op(r, seq[k])]]
           W == [s \in SUBSET (1 .. n) |-> {q \in V : Losing(m, q, Left(s))}]
<1>0. InfoOk(m.info) /\ none \subseteq DOMAIN m.info /\ IsFiniteSet(none)
  <2>1. InfoOk(m.info) /\ none \subseteq DOMAIN m.info
    BY DEF Core
  <2> QED BY <2>1, FS_Subset DEF InfoOk
<1>1. Lists(seq, none)
  <2> HIDE DEF none
  <2> QED BY <1>0, SetToSeqLists
<1>2. WithoutLost(m) = FoldLeft(Delete, m, seq)
  BY DEF WithoutLost
<1>3. Losing(m, m, none)
  <2>1. none \subseteq New(m.info) /\ \A x \in none : m.info[x].refs = 0
    BY DEF New
  <2>2. \A x \in New(m.info) \ none : m.info[x].refs >= 1
    <3> SUFFICES ASSUME NEW x \in New(m.info), x \notin none PROVE m.info[x].refs >= 1
      OBVIOUS
    <3>1. x \in DOMAIN m.info /\ m.info[x].refs # 0
      BY DEF New
    <3>2. m.info[x].refs \in Nat
      BY <1>0, <3>1 DEF InfoOk, Infos
    <3> QED BY <3>1, <3>2
  <2>3. TriedKept(m, m)
    BY DEF TriedKept
  <2> HIDE DEF none
  <2>4. Core(m, none, {})
    BY <2>2 DEF Core
  <2> QED BY <2>1, <2>3, <2>4 DEF Losing
<1> HIDE DEF none, seq
<1>4. n \in Nat /\ DOMAIN seq = 1 .. n /\ \A k \in 1 .. n : seq[k] \in none
  BY <1>1 DEF Lists
<1>5. FoldLeft(Delete, m, seq) = c[1 .. n]
  BY <1>4 DEF FoldLeft, MapThenFoldSet
<1>6. \A q : \A L \in SUBSET none : Losing(m, q, L) => q \in V
  <2>1. \A q : \A L : Losing(m, q, L) => q \in Managers
    BY CoreInManagers DEF Losing
  <2> QED BY <2>1
<1>7. ASSUME NEW k \in 1 .. n, NEW s \in SUBSET (1 .. k - 1), NEW r, Losing(m, r, Left(s))
      PROVE  Losing(m, Op(r, seq[k]), Left(s \cup {k})) /\ Op(r, seq[k]) \in V
  <2>1. seq[k] \in Left(s)
    <3>1. ASSUME NEW i \in s PROVE seq[i] # seq[k]
      <4>1. i \in 1 .. n /\ i # k
        <5> HIDE DEF n
        <5>1. i \in 1 .. k - 1
          OBVIOUS
        <5> QED BY <1>4, <5>1
      <4> QED BY <1>1, <4>1 DEF Lists
    <3> QED BY <1>4, <3>1
  <2>2. Left(s \cup {k}) = Left(s) \ {seq[k]} /\ Left(s \cup {k}) \in SUBSET none
    OBVIOUS
  <2> HIDE DEF Left, V
  <2>3. Losing(m, Op(r, seq[k]), Left(s) \ {seq[k]})
    BY <1>7, <2>1, LoseOne
  <2> HIDE DEF Op
  <2> QED BY <1>6, <2>2, <2>3
<1>8. Left({}) = none
  OBVIOUS
<1>9. Left(1 .. n) = {}
  BY <1>1 DEF Lists
<1>10. m \in V
  <2> HIDE DEF V
  <2> QED BY <1>3, <1>6
<1> HIDE DEF Op, V, Left
<1>11. \A k \in 1 .. n : \A s \in SUBSET (1 .. k - 1) : s \in SUBSET (1 .. n) /\ s \cup {k} \in SUBSET (1 .. n)
  <2> HIDE DEF n
  <2> SUFFICES ASSUME NEW k \in 1 .. n, NEW s \in SUBSET (1 .. k - 1) PROVE s \in SUBSET (1 .. n) /\ s \cup {k} \in SUBSET (1 .. n)
    OBVIOUS
  <2>1. \A x \in 1 .. k - 1 : x \in 1 .. n
    BY <1>4
  <2> QED BY <2>1
<1>12. Leads(n, V, W, m, G)
  <2>1. W \in [SUBSET (1 .. n) -> SUBSET V] /\ m \in W[{}]
    BY <1>3, <1>8, <1>10
  <2>2. ASSUME NEW k \in 1 .. n, NEW s \in SUBSET (1 .. k - 1), NEW r \in W[s] PROVE G[k][r] \in W[s \cup {k}]
    <3>1. s \in SUBSET (1 .. n) /\ s \cup {k} \in SUBSET (1 .. n)
      BY <1>11
    <3>2. r \in V /\ Losing(m, r, Left(s))
      BY <3>1
    <3>3. G[k][r] = Op(r, seq[k])
      BY <3>2
    <3>4. Losing(m, Op(r, seq[k]), Left(s \cup {k})) /\ Op(r, seq[k]) \in V
      BY <1>7, <3>2
    <3> HIDE DEF G
    <3> QED BY <3>1, <3>3, <3>4
  <2> HIDE DEF W, G, n
  <2> QED BY <2>1, <2>2 DEF Leads
<1>a. PICK h : LoopValues(h, n, V, W, m, G)
  <2> HIDE DEF W, G, n
  <2> QED BY <1>4, <1>12, FoldVaries
<1>13. /\ h \in [SUBSET (1 .. n) -> V]
       /\ \A t \in SUBSET (1 .. n) : h[t] = IF t = {} THEN m ELSE G[Max(t)][h[t \ {Max(t)}]]
  BY <1>a DEF LoopValues
<1>14. ASSUME NEW s \in SUBSET (1 .. n), s # {} PROVE h[s] = Op(h[s \ {Max(s)}], seq[Max(s)])
  <2>1. Max(s) \in 1 .. n /\ h[s \ {Max(s)}] \in V
    <3>1. Max(s) \in s
      BY <1>4, <1>14, MaxIs
    <3> QED BY <1>13, <3>1
  <2> QED BY <1>13, <1>14, <2>1
<1>15. Eq(h)
  BY <1>13, <1>14
<1>16. Eq(c)
  <2> HIDE DEF Eq
  <2> QED BY <1>15
<1> HIDE DEF c, n
<1>17. c[{}] = m
  BY <1>16
<1>18. ASSUME NEW k \in 1 .. n, c[1 .. k - 1] \in V PROVE c[1 .. k] = G[k][c[1 .. k - 1]]
  <2>1. Max(1 .. k) = k /\ (1 .. k) \ {k} = 1 .. k - 1 /\ 1 .. k # {}
    <3>1. k \in Nat /\ k > 0
      BY <1>4
    <3> QED BY <3>1, Segment
  <2>2. 1 .. k \in SUBSET (1 .. n)
    BY <1>4
  <2>3. c[1 .. k] = Op(c[1 .. k - 1], seq[k])
    BY <1>16, <2>1, <2>2
  <2> QED BY <1>18, <2>3
<1>19. c[1 .. n] \in W[1 .. n]
  <2> HIDE DEF W, G
  <2> QED BY <1>4, <1>12, <1>17, <1>18, FoldEnds
<1>20. Losing(m, c[1 .. n], {})
  BY <1>9, <1>19
<1> QED BY <1>2, <1>5, <1>20 DEF Losing

LEMMA ReloadKeeps ==
    ASSUME AddrInv, NEW news \in SetToSeqs(NewEntries(am)), NEW trieds \in SetToSeqs(TriedEntries(am)), NEW same \in BOOLEAN,
           Reload(news, trieds, same)
    PROVE  Kept(am, am')
<1>0. NewEntries(am) = New(am.info) /\ TriedEntries(am) = Tried(am.info) /\ InfoOk(am.info)
  BY DEF NewEntries, TriedEntries, New, Tried, AddrInv, Core
<1>1. PICK p : p = Listed(am, news, trieds, same)
  OBVIOUS
<1>2. am' = IF same THEN p ELSE WithoutLost(FoldLeft(ReadEntry, Slotless(p), news))
  BY <1>1 DEF Reload, Listed, Slotless
<1>3. ListedAs(am, p, same)
  BY <1>0, <1>1, ListedIs
<1>4. CASE same
  <2>1. SameButPlace(am.info, p.info)
    <3> SUFFICES ASSUME NEW a \in DOMAIN am.info PROVE p.info[a] = [am.info[a] EXCEPT !.pos = p.info[a].pos]
      BY <1>3 DEF SameButPlace, ListedAs
    <3>1. p.info[a] = [am.info[a] EXCEPT !.pos = p.info[a].pos, !.refs = am.info[a].refs]
      BY <1>3, <1>4 DEF ListedAs
    <3>2. am.info[a] \in Infos /\ p.info[a] \in Infos
      BY <1>0, <1>3 DEF InfoOk, ListedAs
    <3> QED BY <3>1, <3>2 DEF Infos
  <2>2. Moved(am, p)
    BY <1>3, <2>1 DEF Moved, ListedAs
  <2>3. Kept(am, p)
    BY <2>2, MoveKeeps
  <2> QED BY <1>2, <1>4, <2>3
<1>5. CASE ~same
  <2>1. PICK b : b = Slotless(p)
    OBVIOUS
  <2>2. Reading(am, b)
    <3>1. p = Listed(am, news, trieds, FALSE)
      BY <1>1, <1>5
    <3> QED BY <1>0, <2>1, <3>1, SlotlessIs
  <2>3. Lists(news, New(am.info))
    <3>1. IsFiniteSet(New(am.info))
      BY <1>0, FS_Subset DEF InfoOk, New
    <3> QED BY <1>0, <3>1, SetToSeqsList
  <2>4. PICK r : r = FoldLeft(ReadEntry, b, news)
    OBVIOUS
  <2>5. Reading(am, r)
    BY <2>2, <2>3, <2>4, ReadAllIs
  <2>6. Core(r, Addresses, {}) /\ TriedPart(r) /\ TriedKept(am, r)
    BY <2>5 DEF Reading
  <2>7. PICK w : w = WithoutLost(r)
    OBVIOUS
  <2>8. Core(w, {}, {}) /\ TriedPart(w) /\ TriedKept(r, w)
    BY <2>6, <2>7, WithoutLostIs
  <2>9. Kept(am, w)
    BY <2>6, <2>8 DEF Kept, TriedKept, Tried
  <2>10. am' = w
    BY <1>2, <1>5, <2>1, <2>4, <2>7
  <2> QED BY <2>9, <2>10
<1> QED BY <1>4, <1>5

-----------------------------------------------------------------------------
(* The theorem *)

LEMMA InitHolds == ASSUME AddrInit PROVE AddrInv
<1>1. /\ IsManager(am) /\ am.info = <<>> /\ am.vRandom = <<>> /\ am.nNew = 0 /\ am.nTried = 0
      /\ am.vvNew = [s \in NewSlots |-> Nobody] /\ am.vvTried = [s \in TriedSlots |-> Nobody]
  BY DEF AddrInit, Cleared, IsManager
<1>2. DOMAIN am.info = {} /\ New(am.info) = {} /\ Tried(am.info) = {}
  <2>1. DOMAIN am.info = {}
    BY <1>1
  <2> QED BY <2>1 DEF New, Tried
<1>3. InfoOk(am.info)
  BY <1>1, <1>2, FS_EmptySet DEF InfoOk
<1>4. VectorOk(am.info, am.vRandom)
  BY <1>1, <1>2 DEF VectorOk
<1>5. NewOk(am.info, am.vvNew) /\ RefsOk(am.info, am.vvNew)
  BY <1>1, <1>2 DEF NewOk, RefsOk
<1>6. TriedOk(am.info, am.vvTried)
  BY <1>1, <1>2 DEF TriedOk
<1>7. Core(am, {}, {})
  <2>1. New(am.info) \ {} = {}
    BY <1>2
  <2> QED BY <1>1, <1>3, <1>4, <1>5, <2>1, FS_EmptySet DEF Core
<1>8. TriedPart(am)
  BY <1>1, <1>2, <1>6, FS_EmptySet DEF TriedPart
<1> QED BY <1>7, <1>8 DEF AddrInv

LEMMA NextKeeps == ASSUME AddrInv, AddrNext PROVE Kept(am, am')
<1>1. ASSUME NEW a \in Addresses, NEW s \in Sources, NEW terrible \in BOOLEAN, Add(a, s, terrible) PROVE Kept(am, am')
  BY <1>1, AddKeeps
<1>2. ASSUME NEW a \in Addresses, Good(a) PROVE Kept(am, am')
  BY <1>2, GoodKeeps
<1>3. ASSUME NEW draw \in Draws(Len(am.vRandom)), GetAddr(draw) PROVE Kept(am, am')
  BY <1>3, GetAddrKeeps
<1>4. ASSUME NEW news \in SetToSeqs(NewEntries(am)), NEW trieds \in SetToSeqs(TriedEntries(am)), NEW same \in BOOLEAN,
             Reload(news, trieds, same)
      PROVE  Kept(am, am')
  BY <1>4, ReloadKeeps
<1> QED BY <1>1, <1>2, <1>3, <1>4 DEF AddrNext

(* The vector is as long as there are entries. *)
LEMMA VectorLength ==
    ASSUME NEW f, InfoOk(f), NEW r, VectorOk(f, r)
    PROVE  Len(r) = Cardinality(New(f)) + Cardinality(Tried(f))
<1> DEFINE n == Len(r)
           p == [a \in DOMAIN f |-> f[a].pos]
<1>0. n \in Nat /\ IsFiniteSet(DOMAIN f)
  BY DEF VectorOk, InfoOk
<1>1. p \in Bijection(DOMAIN f, 1 .. n)
  <2>1. p \in [DOMAIN f -> 1 .. n] /\ DOMAIN p = DOMAIN f
    BY DEF VectorOk
  <2>2. \A a, b \in DOMAIN f : p[a] = p[b] => a = b
    BY DEF VectorOk
  <2>3. \A k \in 1 .. n : \E a \in DOMAIN f : p[a] = k
    BY DEF VectorOk
  <2> HIDE DEF p
  <2>4. p \in Injection(DOMAIN f, 1 .. n)
    BY <2>1, <2>2 DEF Injection, IsInjective
  <2>5. p \in Surjection(DOMAIN f, 1 .. n)
    BY <2>1, <2>3 DEF Surjection
  <2> QED BY <2>4, <2>5 DEF Bijection
<1>2. Cardinality(1 .. n) = Cardinality(DOMAIN f)
  <2>1. ExistsBijection(DOMAIN f, 1 .. n)
    BY <1>1 DEF ExistsBijection
  <2> QED BY <1>0, <2>1, FS_Bijection
<1>3. Cardinality(1 .. n) = n
  <2> HIDE DEF n
  <2>1. Cardinality(1 .. n) = IF 1 > n THEN 0 ELSE n - 1 + 1
    BY <1>0, FS_Interval
  <2> QED BY <1>0, <2>1
<1>4. New(f) \cup Tried(f) = DOMAIN f /\ New(f) \cap Tried(f) = {} /\ New(f) \in SUBSET DOMAIN f /\ Tried(f) \in SUBSET DOMAIN f
  BY DEF New, Tried
<1>5. IsFiniteSet(New(f)) /\ IsFiniteSet(Tried(f))
  BY <1>0, <1>4, FS_Subset
<1>6. Cardinality(New(f)) \in Nat /\ Cardinality(Tried(f)) \in Nat
  BY <1>5, FS_CardinalityType
<1>7. Cardinality(DOMAIN f) = Cardinality(New(f)) + Cardinality(Tried(f)) - Cardinality({})
  <2>1. Cardinality(New(f) \cup Tried(f)) = Cardinality(New(f)) + Cardinality(Tried(f)) - Cardinality(New(f) \cap Tried(f))
    BY <1>5, FS_Union
  <2> QED BY <1>4, <2>1
<1> HIDE DEF n
<1>8. n = Cardinality(New(f)) + Cardinality(Tried(f))
  BY <1>2, <1>3, <1>6, <1>7, FS_EmptySet
<1> QED BY <1>8 DEF n

LEMMA InvGives == ASSUME AddrInv PROVE AddrTypeOK /\ TablesAgree /\ VectorAgrees
<1>0. Core(am, {}, {}) /\ TriedPart(am) /\ NewEntries(am) = New(am.info) /\ TriedEntries(am) = Tried(am.info)
  BY DEF AddrInv, NewEntries, TriedEntries, New, Tried
<1>1. /\ InfoOk(am.info) /\ VectorOk(am.info, am.vRandom) /\ NewOk(am.info, am.vvNew) /\ RefsOk(am.info, am.vvNew)
      /\ TriedOk(am.info, am.vvTried) /\ am.nTried = Cardinality(Tried(am.info))
      /\ \A a \in New(am.info) : am.info[a].refs >= 1
  BY <1>0 DEF Core, TriedPart
<1>2. AddrTypeOK
  <2>1. am.nNew \in Nat /\ am.nTried \in Nat
    BY <1>0, CoreInManagers
  <2> QED BY <1>1, <2>1 DEF AddrTypeOK, InfoOk, VectorOk, NewOk, TriedOk
<1>3. TablesAgree
  <2>1. \A a \in Tried(am.info) : am.info[a].refs = 0
    <3> SUFFICES ASSUME NEW a \in Tried(am.info) PROVE am.info[a].refs = 0
      OBVIOUS
    <3>1. a \in DOMAIN am.info /\ a \notin New(am.info) /\ a # Nobody
      BY <1>1, AddrManAssumption DEF Tried, New, InfoOk
    <3>2. SlotsOf(am.vvNew, a) = {}
      BY <1>1, <3>1 DEF SlotsOf, NewOk
    <3> QED BY <1>1, <3>1, <3>2, FS_EmptySet DEF RefsOk
  <2>2. \A a \in New(am.info) : am.info[a].refs \in 1 .. MaxRefs /\ am.info[a].refs = Cardinality({s \in NewSlots : am.vvNew[s] = a})
    <3> SUFFICES ASSUME NEW a \in New(am.info)
                 PROVE  am.info[a].refs \in 1 .. MaxRefs /\ am.info[a].refs = Cardinality({s \in NewSlots : am.vvNew[s] = a})
      OBVIOUS
    <3>1. a \in DOMAIN am.info
      BY DEF New
    <3>2. am.info[a].refs \in Nat /\ am.info[a].refs <= MaxRefs /\ am.info[a].refs >= 1
      BY <1>1, <3>1 DEF RefsOk, InfoOk, Infos
    <3>3. am.info[a].refs = Cardinality({s \in NewSlots : am.vvNew[s] = a})
      BY <1>1, <3>1 DEF RefsOk, SlotsOf
    <3>4. am.info[a].refs \in 1 .. MaxRefs
      BY <3>2, AddrManAssumption
    <3> QED BY <3>3, <3>4
  <2>3. \A s \in NewSlots : am.vvNew[s] # Nobody => am.vvNew[s] \in New(am.info) /\ PositionOf[am.vvNew[s]][s[1]] = s[2]
    BY <1>1 DEF NewOk
  <2>4. /\ \A s \in TriedSlots : am.vvTried[s] # Nobody => am.vvTried[s] \in Tried(am.info)
        /\ \A a \in Tried(am.info) : am.vvTried[TriedSlotOf[a]] = a
    BY <1>1 DEF TriedOk
  <2> QED BY <1>0, <2>1, <2>2, <2>3, <2>4 DEF TablesAgree
<1>4. VectorAgrees
  <2>1. am.nNew = Cardinality(New(am.info))
    <3>1. New(am.info) \ {} = New(am.info)
      OBVIOUS
    <3> QED BY <1>0, <3>1 DEF Core
  <2>2. Len(am.vRandom) = am.nNew + am.nTried
    BY <1>1, <2>1, VectorLength
  <2>3. \A a \in DOMAIN am.info : am.info[a].pos \in DOMAIN am.vRandom /\ am.vRandom[am.info[a].pos] = a
    BY <1>1 DEF VectorOk
  <2> QED BY <1>0, <1>1, <2>1, <2>2, <2>3 DEF VectorAgrees
<1> QED BY <1>2, <1>3, <1>4

(* CAddrMan::Check_ for any addresses, buckets and slots: tables, reference  *)
(* counts, counters and the vector agree after every operation of the code,  *)
(* and no addition, shuffle or reload deletes an address that was tried.     *)
THEOREM AddressesCorrect == AddrSpec => AddressesAreKept
<1> DEFINE Remembers == \A a \in DOMAIN am.info : am.info[a].inTried => a \in DOMAIN am'.info
<1>1. AddrInit => AddrInv
  BY InitHolds
<1>2. AddrInv /\ [AddrNext]_addrVars => AddrInv'
  <2> SUFFICES ASSUME AddrInv, [AddrNext]_addrVars PROVE AddrInv'
    OBVIOUS
  <2>1. CASE AddrNext
    <3>1. Kept(am, am')
      BY <2>1, NextKeeps
    <3> QED BY <3>1 DEF Kept, AddrInv
  <2>2. CASE UNCHANGED addrVars
    BY <2>2 DEF addrVars, AddrInv
  <2> QED BY <2>1, <2>2
<1>3. AddrInv => AddrTypeOK /\ TablesAgree /\ VectorAgrees
  BY InvGives
<1>4. AddrInv /\ [AddrNext]_addrVars => [Remembers]_addrVars
  <2> SUFFICES ASSUME AddrInv, AddrNext PROVE Remembers
    BY DEF addrVars
  <2>1. Tried(am.info) \subseteq DOMAIN am'.info
    BY NextKeeps DEF Kept
  <2> QED BY <2>1 DEF Tried
<1>5. AddrSpec => [](AddrTypeOK /\ TablesAgree /\ VectorAgrees)
  BY <1>1, <1>2, <1>3, PTL DEF AddrSpec
<1>6. AddrSpec => [][Remembers]_addrVars
  BY <1>1, <1>2, <1>4, PTL DEF AddrSpec
<1>7. AddrSpec => TriedIsNotForgotten
  BY <1>6 DEF TriedIsNotForgotten
<1> QED BY <1>5, <1>7 DEF AddressesAreKept
==============================================================================
