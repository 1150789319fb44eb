--------------------------- MODULE ChainStateProofs ---------------------------
(***************************************************************************)
(* Proofs about ChainState, for every tree of blocks: the links that       *)
(* CheckBlockIndex asserts, the candidates, and what is on disk.           *)
(*                                                                         *)
(* The first part is about trees.  Line[b] is the least set of blocks that *)
(* holds b and the parents of its blocks, so a fact about ancestors is     *)
(* proved by naming such a set; and a tree has no cycle, so a fact about   *)
(* all blocks by looking at a block that breaks it and whose parent does   *)
(* not.                                                                    *)
(***************************************************************************)
EXTENDS ChainState, FiniteSetTheorems, TLAPS

-----------------------------------------------------------------------------
(* Trees *)

(* Blocks and their parents form a tree that begins at the genesis block. *)
LEMMA Tree ==
    /\ Genesis \in All /\ Genesis \notin Blocks
    /\ \A b \in Blocks : b \in All /\ Parent[b] \in All
    /\ \A b \in All : b # Genesis => b \in Blocks
    /\ \A B \in SUBSET Blocks : B # {} => \E b \in B : Parent[b] \notin B
  BY TreeAssumption DEF All

(* A line holds its block and the parents of its blocks, and is the least    *)
(* set that does.                                                            *)
LEMMA LineIsLeast ==
    ASSUME NEW b \in All
    PROVE  /\ Line[b] \subseteq All
           /\ b \in Line[b]
           /\ \A a \in Line[b] : a # Genesis => Parent[a] \in Line[b]
           /\ \A B \in Lines : b \in B => Line[b] \subseteq B
<1>1. Line[b] = {a \in All : \A B \in Lines : b \in B => a \in B}
  BY DEF Line
<1>2. \A a \in Line[b] : a # Genesis => Parent[a] \in Line[b]
  BY <1>1, Tree DEF Lines
<1> QED
  BY <1>1, <1>2

(* How a set is shown to hold a line. *)
LEMMA LineWithin ==
    ASSUME NEW b \in All, NEW B \in SUBSET All, b \in B,
           \A a \in B : a # Genesis => Parent[a] \in B
    PROVE  Line[b] \subseteq B
  BY LineIsLeast DEF Lines

(* The genesis block has no ancestor but itself. *)
LEMMA LineOfGenesis == Line[Genesis] = {Genesis}
<1>1. {Genesis} \in SUBSET All
  BY Tree
<1>2. Line[Genesis] \subseteq {Genesis}
  BY <1>1, Tree, LineWithin
<1> QED
  BY <1>2, Tree, LineIsLeast

(* The line of an ancestor is part of the line. *)
LEMMA LineTransitive ==
    ASSUME NEW b \in All, NEW a \in Line[b]
    PROVE  a \in All /\ Line[a] \subseteq Line[b]
  BY LineIsLeast, LineWithin

(* A line is that of the parent and the block itself. *)
LEMMA LineStep ==
    ASSUME NEW b \in Blocks
    PROVE  Line[b] = Line[Parent[b]] \cup {b}
<1>1. b \in All /\ Parent[b] \in All /\ b # Genesis
  BY Tree
<1>2. Line[Parent[b]] \cup {b} \subseteq Line[b]
  BY <1>1, LineIsLeast, LineTransitive
<1>3. Line[b] \subseteq Line[Parent[b]] \cup {b}
  <2> DEFINE B == Line[Parent[b]] \cup {b}
  <2>1. B \in SUBSET All /\ b \in B
    BY <1>1, LineIsLeast
  <2>2. \A a \in B : a # Genesis => Parent[a] \in B
    BY <1>1, LineIsLeast
  <2> HIDE DEF B
  <2>3. Line[b] \subseteq B
    BY <1>1, <2>1, <2>2, LineWithin
  <2> QED
    BY <2>3 DEF B
<1> QED
  BY <1>2, <1>3

(* Every line begins at the genesis block. *)
LEMMA LineHasGenesis ==
    ASSUME NEW b \in All
    PROVE  Genesis \in Line[b]
<1> SUFFICES ASSUME Genesis \notin Line[b] PROVE FALSE
  OBVIOUS
<1>1. Line[b] \in SUBSET Blocks /\ Line[b] # {}
  BY LineIsLeast, Tree
<1>2. \A a \in Line[b] : Parent[a] \in Line[b]
  BY LineIsLeast
<1> QED
  BY <1>1, <1>2, Tree

(* No block is an ancestor of its parent. *)
LEMMA NotItsOwnAncestor ==
    ASSUME NEW b \in Blocks
    PROVE  b \notin Line[Parent[b]]
<1> SUFFICES ASSUME b \in Line[Parent[b]] PROVE FALSE
  OBVIOUS
<1> DEFINE B == {z \in Blocks : b \in Line[z]}
<1>1. b \in B
  BY Tree, LineIsLeast
<1>2. ASSUME NEW z \in B PROVE Parent[z] \in B
  <2>1. b \in Line[Parent[z]]
    BY LineStep
  <2>2. Parent[z] # Genesis
    BY <2>1, LineOfGenesis, Tree
  <2> QED
    BY <2>1, <2>2, Tree
<1> QED
  BY <1>1, <1>2, Tree

(* Two blocks of a line are one above the other. *)
LEMMA LineIsLinear ==
    ASSUME NEW x \in All, NEW a \in Line[x], NEW c \in Line[x]
    PROVE  a \in Line[c] \/ c \in Line[a]
<1> DEFINE B == {z \in All : z \in Line[a] \/ a \in Line[z]}
<1>1. a \in All
  BY LineTransitive
<1>2. x \in B
  OBVIOUS
<1>3. ASSUME NEW z \in B, z # Genesis PROVE Parent[z] \in B
  <2>1. CASE z \in Line[a]
    BY <1>1, <1>3, <2>1, LineIsLeast
  <2>2. CASE a \in Line[z] /\ a # z
    BY <1>3, <2>2, LineStep, Tree
  <2>3. CASE a = z
    BY <1>1, <1>3, <2>3, LineIsLeast
  <2> QED
    BY <2>1, <2>2, <2>3
<1>4. Line[x] \subseteq B
  BY <1>2, <1>3, LineWithin
<1> QED
  BY <1>4

(* nHeight counts the ancestors. *)
LEMMA Heights ==
    /\ Height[Genesis] = 0
    /\ \A b \in All : IsFiniteSet(Line[b]) /\ Height[b] \in Nat /\ Cardinality(Line[b]) = Height[b] + 1
    /\ \A b \in Blocks : Height[b] = Height[Parent[b]] + 1
<1> DEFINE B == {b \in Blocks : ~IsFiniteSet(Line[b])}
<1>1. IsFiniteSet(Line[Genesis]) /\ Cardinality(Line[Genesis]) = 1
  BY LineOfGenesis, FS_Singleton
<1>2. B = {}
  <2> SUFFICES ASSUME B # {} PROVE FALSE
    OBVIOUS
  <2>1. PICK b \in B : Parent[b] \notin B
    BY Tree
  <2>2. IsFiniteSet(Line[Parent[b]])
    BY <1>1, <2>1, Tree
  <2> QED
    BY <2>2, LineStep, FS_AddElement
<1>3. ASSUME NEW b \in All
      PROVE  IsFiniteSet(Line[b]) /\ Height[b] \in Nat /\ Cardinality(Line[b]) = Height[b] + 1
  <2>1. IsFiniteSet(Line[b])
    BY <1>1, <1>2, Tree
  <2>2. Cardinality(Line[b]) \in Nat /\ Cardinality(Line[b]) # 0
    BY <2>1, FS_CardinalityType, FS_EmptySet, LineIsLeast
  <2>3. Height[b] = Cardinality(Line[b]) - 1
    BY DEF Height
  <2> QED
    BY <2>1, <2>2, <2>3
<1>4. ASSUME NEW b \in Blocks PROVE Height[b] = Height[Parent[b]] + 1
  <2>1. b \in All /\ Parent[b] \in All
    BY Tree
  <2>2. Cardinality(Line[b]) = Cardinality(Line[Parent[b]]) + 1
    BY <1>3, <2>1, LineStep, NotItsOwnAncestor, FS_AddElement
  <2> QED
    BY <1>3, <2>1, <2>2
<1>5. Height[Genesis] = 0
  BY <1>1, Tree DEF Height
<1> QED
  BY <1>3, <1>4, <1>5

(* An ancestor is lower and has less work. *)
LEMMA AncestorsAreLess ==
    ASSUME NEW b \in All, NEW a \in Line[b]
    PROVE  a = b \/ (Height[a] < Height[b] /\ Work[a] < Work[b])
<1> DEFINE B == {z \in All : z = b \/ (Height[z] < Height[b] /\ Work[z] < Work[b])}
<1>1. ASSUME NEW z \in B, z # Genesis PROVE Parent[z] \in B
  <2>1. z \in Blocks /\ z \in All /\ Parent[z] \in All
    BY <1>1, Tree
  <2>2. Height[Parent[z]] < Height[z] /\ Height[z] \in Nat /\ Height[Parent[z]] \in Nat /\ Height[b] \in Nat
    BY <2>1, Heights
  <2>3. Work[Parent[z]] < Work[z] /\ Work[z] \in Nat /\ Work[Parent[z]] \in Nat /\ Work[b] \in Nat
    BY <2>1, TreeAssumption
  <2> QED
    BY <2>1, <2>2, <2>3
<1>2. Line[b] \subseteq B
  BY <1>1, LineWithin
<1> QED
  BY <1>2

(* FindFork: the fork exists, is on both lines, and what they share is below *)
(* it.                                                                       *)
LEMMA ForkIsShared ==
    ASSUME NEW a \in All, NEW b \in All
    PROVE  /\ Fork(a, b) \in Line[a] \cap Line[b]
           /\ \A x \in Line[a] \cap Line[b] : Height[x] <= Height[Fork(a, b)]
<1> SUFFICES \E f \in Line[a] \cap Line[b] : \A x \in Line[a] \cap Line[b] : Height[x] <= Height[f]
  BY DEF Fork
<1> DEFINE B == Line[a] \ Line[b]
<1>0. \A x \in Line[a] : x \in All /\ Height[x] \in Nat
  BY LineIsLeast, Heights
<1>1. CASE B = {}
  <2>1. a \in Line[a] \cap Line[b]
    BY <1>1, LineIsLeast
  <2>2. \A x \in Line[a] : Height[x] <= Height[a]
    BY <1>0, LineIsLeast, AncestorsAreLess
  <2> QED
    BY <2>1, <2>2
<1>2. CASE B # {}
  <2>1. B \in SUBSET Blocks
    BY LineIsLeast, LineHasGenesis, Tree
  <2>2. PICK m \in B : Parent[m] \notin B
    BY <1>2, <2>1, Tree
  <2>3. m \in Blocks /\ m \in All /\ Parent[m] \in Line[a] \cap Line[b]
    BY <2>1, <2>2, LineIsLeast, Tree
  <2>4. ASSUME NEW x \in Line[a] \cap Line[b] PROVE Height[x] <= Height[Parent[m]]
    <3>1. m \notin Line[x]
      BY LineTransitive
    <3>2. x \in Line[m]
      BY <3>1, LineIsLinear
    <3>3. x \in Line[Parent[m]]
      BY <2>3, <3>2, LineStep
    <3> QED
      BY <1>0, <2>3, <3>3, AncestorsAreLess
  <2> QED
    BY <2>3, <2>4
<1> QED
  BY <1>1, <1>2

(* GetAncestor finds one at every height. *)
LEMMA AncestorIsFound ==
    ASSUME NEW b \in All, NEW h \in Nat, h <= Height[b]
    PROVE  AncestorAt(b, h) \in Line[b] /\ Height[AncestorAt(b, h)] = h
<1> SUFFICES \E a \in Line[b] : Height[a] = h
  BY DEF AncestorAt
<1> DEFINE B == {x \in Line[b] : Height[x] > h}
<1>0. \A x \in Line[b] : x \in All /\ Height[x] \in Nat
  BY LineIsLeast, Heights
<1>1. CASE B = {}
  <2>1. Height[b] = h
    BY <1>0, <1>1, LineIsLeast
  <2> QED
    BY <2>1, LineIsLeast
<1>2. CASE B # {}
  <2>1. B \in SUBSET Blocks
    BY <1>0, Heights, Tree
  <2>2. PICK m \in B : Parent[m] \notin B
    BY <1>2, <2>1, Tree
  <2>3. m \in Blocks /\ Parent[m] \in Line[b]
    BY <2>1, <2>2, LineIsLeast, Tree
  <2>4. Height[m] = Height[Parent[m]] + 1
    BY <2>3, Heights
  <2> QED
    BY <1>0, <2>2, <2>3, <2>4
<1> QED
  BY <1>1, <1>2

-----------------------------------------------------------------------------
(* The inductive invariant *)

Types ==
    /\ index \subseteq All /\ data \subseteq index
    /\ failedValid \subseteq index \ {Genesis} /\ failedChild \subseteq index \ {Genesis}
    /\ dirty \subseteq Blocks
    /\ refused \subseteq Contested /\ rejected \subseteq Contested
    /\ activating \in BOOLEAN /\ up \in BOOLEAN
    /\ left \in 0..MaxCommands

(* Every number given out since the start went to a block of its own. *)
Numbered ==
    /\ seq \in [All -> Nat] /\ nextSeq \in Nat \ {0}
    /\ \A b \in All : seq[b] < nextSeq
    /\ nextSeq <= Cardinality(linked \ {Genesis}) + 1

(* The chain that is active has all its data. *)
TipIsLinked == {Genesis, tip} \subseteq linked

(* The block database lags behind mapBlockIndex by the dirty entries only,   *)
(* and the coins name a block it has.                                        *)
DiskIsBehind ==
    /\ disk \in [index : SUBSET All, data : SUBSET All, failedValid : SUBSET Blocks, failedChild : SUBSET Blocks, tip : All]
    /\ index \ dirty \subseteq disk.index /\ disk.index \subseteq index
    /\ data \ dirty \subseteq disk.data /\ disk.data \subseteq data
    /\ disk.data \subseteq disk.index
    /\ disk.failedValid \subseteq disk.index /\ disk.failedChild \subseteq disk.index
    /\ Genesis \in disk.data

(* The block whose fork AcceptBlock walks down has no data yet. *)
WalkIsNew ==
    /\ walk \subseteq [block : StakeBlocks, last : All]
    /\ \A v, w \in walk : v = w
    /\ \A w \in walk : w.block \in index \ data /\ Parent[w.block] # Genesis

ChainInv ==
    /\ Types
    /\ Numbered
    /\ LinksAreSound
    /\ TipIsLinked
    /\ CandidatesAreSound
    /\ DiskIsBehind
    /\ DiskTipIsIndexed
    /\ WalkIsNew

-----------------------------------------------------------------------------
(* What the operations are built from *)

(* All that a linked block builds on is linked. *)
LEMMA LinkedLine ==
    ASSUME Types, LinksAreSound, NEW x \in linked
    PROVE  x \in All /\ x \in data /\ Line[x] \subseteq linked
<1>1. x \in All /\ Line[x] \subseteq data
  BY DEF Types, LinksAreSound
<1>2. ASSUME NEW a \in Line[x] PROVE a \in linked
  BY <1>1, LineTransitive DEF Types, LinksAreSound
<1> QED
  BY <1>1, <1>2, LineIsLeast

(* The comparator is asymmetric. *)
LEMMA WorseIsAsymmetric ==
    ASSUME NEW sq \in [All -> Nat], NEW a \in All, NEW b \in All, Worse(sq, a, b)
    PROVE  ~Worse(sq, b, a)
<1>1. /\ Work[a] \in Nat /\ Work[b] \in Nat /\ sq[a] \in Nat /\ sq[b] \in Nat
      /\ Addr[a] \in Nat /\ Addr[b] \in Nat
  BY TreeAssumption
<1> QED
  BY <1>1 DEF Worse

(* A block that is no worse than the tip is no worse than what it builds on. *)
LEMMA NotWorseBelow ==
    ASSUME NEW sq, NEW c \in All, NEW b \in All, NEW a \in Line[b], ~Worse(sq, c, b)
    PROVE  ~Worse(sq, c, a)
<1>1. a \in All /\ (a = b \/ Work[a] < Work[b])
  BY LineIsLeast, AncestorsAreLess
<1>2. Work[a] \in Nat /\ Work[b] \in Nat /\ Work[c] \in Nat
  BY <1>1, TreeAssumption
<1>3. CASE a = b
  BY <1>3
<1>4. CASE Work[a] < Work[b]
  BY <1>2, <1>4 DEF Worse
<1> QED
  BY <1>1, <1>3, <1>4

(* Candidates stay sound when the chain gets shorter. *)
LEMMA CandidatesBelow ==
    ASSUME Types, LinksAreSound, CandidatesAreSound, TipIsLinked, NEW t \in Line[tip], NEW c \in cand
    PROVE  c \in linked /\ ~Worse(seq, c, t)
<1>1. c \in linked /\ ~Worse(seq, c, tip) /\ tip \in linked
  BY DEF CandidatesAreSound, TipIsLinked
<1>2. c \in All /\ tip \in All
  BY <1>1, LinkedLine
<1> QED
  BY <1>1, <1>2, NotWorseBelow

(* An order of a finite set holds each of its members. *)
LEMMA OrderIsComplete ==
    ASSUME NEW S, IsFiniteSet(S), NEW order \in SetToSeqs(S)
    PROVE  /\ DOMAIN order = 1..Cardinality(S) /\ Cardinality(S) \in Nat
           /\ \A x \in S : \E i \in DOMAIN order : order[i] = x
<1> DEFINE D == 1..Cardinality(S)
<1>1. order \in [D -> S] /\ \A i, j \in D : i # j => order[i] # order[j]
  BY DEF SetToSeqs
<1>2. Cardinality(S) \in Nat
  BY FS_CardinalityType
<1>3. IsFiniteSet(D) /\ Cardinality(D) = Cardinality(S)
  BY <1>2, FS_Interval
<1>4. order \in Injection(D, S)
  BY <1>1 DEF Injection, IsInjective
<1>5. order \in Surjection(D, S)
  BY <1>3, <1>4, FS_Injection
<1> QED
  BY <1>1, <1>2, <1>5 DEF Surjection

DiskType == [index : SUBSET All, data : SUBSET All, failedValid : SUBSET Blocks, failedChild : SUBSET Blocks, tip : All]

(* A database that a node can start from. *)
Startable(d) ==
    /\ d \in DiskType
    /\ d.data \subseteq d.index /\ d.failedValid \subseteq d.index /\ d.failedChild \subseteq d.index
    /\ Genesis \in d.data
    /\ Line[d.tip] \subseteq d.index \cap d.data

(* After a flush the database has all that mapBlockIndex has. *)
LEMMA IndexIsWritten ==
    ASSUME Types, DiskIsBehind, NEW D \in SUBSET Blocks, dirty \subseteq D,
           NEW fv, fv \subseteq index \ {Genesis}, NEW fc, fc \subseteq index \ {Genesis}
    PROVE  /\ WriteIndex(disk, D, fv, fc) \in DiskType
           /\ WriteIndex(disk, D, fv, fc).index = index
           /\ WriteIndex(disk, D, fv, fc).data = data
           /\ WriteIndex(disk, D, fv, fc).failedValid \subseteq index
           /\ WriteIndex(disk, D, fv, fc).failedChild \subseteq index
           /\ WriteIndex(disk, D, fv, fc).tip = disk.tip
           /\ Genesis \in data
<1> DEFINE put(old, now) == (old \ D) \cup (now \cap D)
<1>1. /\ put(disk.index, index) = index /\ put(disk.data, data) = data
      /\ put(disk.failedValid, fv) \subseteq index \cap Blocks
      /\ put(disk.failedChild, fc) \subseteq index \cap Blocks
      /\ index \subseteq All /\ data \subseteq All
  BY Tree DEF Types, DiskIsBehind
<1>2. WriteIndex(disk, D, fv, fc)
        = [disk EXCEPT !.index = put(@, index), !.data = put(@, data),
                       !.failedValid = put(@, fv), !.failedChild = put(@, fc)]
  BY DEF WriteIndex
<1>3. disk \in DiskType /\ Genesis \in data
  BY DEF DiskIsBehind, DiskType
<1> QED
  BY <1>1, <1>2, <1>3 DEF DiskType

(* A complete flush with the coins of a linked block. *)
LEMMA AllIsWritten ==
    ASSUME Types, LinksAreSound, DiskIsBehind, NEW D \in SUBSET Blocks, dirty \subseteq D,
           NEW fv, fv \subseteq index \ {Genesis}, NEW fc, fc \subseteq index \ {Genesis},
           NEW best \in linked
    PROVE  /\ Startable(WriteAll(disk, D, fv, fc, best))
           /\ WriteAll(disk, D, fv, fc, best).index = index
           /\ WriteAll(disk, D, fv, fc, best).data = data
<1> DEFINE d == WriteIndex(disk, D, fv, fc)
<1>1. /\ d \in DiskType /\ d.index = index /\ d.data = data /\ Genesis \in data
      /\ d.failedValid \subseteq index /\ d.failedChild \subseteq index
  BY IndexIsWritten
<1>2. WriteAll(disk, D, fv, fc, best) = [d EXCEPT !.tip = best]
  BY DEF WriteAll
<1>3. best \in All /\ Line[best] \subseteq index \cap data
  BY LinkedLine DEF LinksAreSound, Types
<1> HIDE DEF d
<1>4. /\ [d EXCEPT !.tip = best] \in DiskType
      /\ [d EXCEPT !.tip = best].tip = best
      /\ [d EXCEPT !.tip = best].index = index
      /\ [d EXCEPT !.tip = best].data = data
      /\ [d EXCEPT !.tip = best].failedValid = d.failedValid
      /\ [d EXCEPT !.tip = best].failedChild = d.failedChild
  BY <1>1, <1>3 DEF DiskType
<1> QED
  BY <1>1, <1>2, <1>3, <1>4 DEF Startable, Types

(* The disk after a flush. *)
LEMMA FlushedIsBehind ==
    ASSUME Startable(disk'), disk'.index = index', disk'.data = data'
    PROVE  DiskIsBehind' /\ DiskTipIsIndexed'
  BY DEF Startable, DiskIsBehind, DiskTipIsIndexed, DiskType

(* LoadBlockIndexDB makes a state as sound as any other. *)
LEMMA LoadHolds ==
    ASSUME NEW d, Startable(d), Load(d), refused \subseteq Contested, left' \in 0..MaxCommands
    PROVE  ChainInv'
<1> DEFINE link == {b \in d.index : Line[b] \subseteq d.data}
           best == {b \in link \ (d.failedValid \cup d.failedChild) :
                        Work[b] > Work[d.tip] \/ (Work[b] = Work[d.tip] /\ Addr[b] <= Addr[d.tip])}
<1>1. /\ d.index \subseteq All /\ d.tip \in All /\ d.failedValid \subseteq Blocks /\ d.failedChild \subseteq Blocks
      /\ Genesis \in d.index /\ d.tip \in d.index
  BY LineIsLeast DEF Startable, DiskType
<1>2. /\ disk' = d /\ index' = d.index /\ data' = d.data /\ linked' = link
      /\ failedValid' = d.failedValid /\ failedChild' = d.failedChild
      /\ seq' = [b \in All |-> 0] /\ nextSeq' = 1
      /\ unlinked' = {<<Parent[b], b>> : b \in d.data \ (link \cup {Genesis})}
      /\ tip' = d.tip /\ cand' = best /\ dirty' = {} /\ rejected' = {} /\ walk' = {} /\ refused' = refused
  BY DEF Load
<1>3. up' \in BOOLEAN /\ activating' \in BOOLEAN
  BY DEF Load
<1>4. Types'
  BY <1>1, <1>2, <1>3, Tree DEF Types, Startable
<1>5. LinksAreSound'
  BY <1>2 DEF LinksAreSound
<1>6. {Genesis, d.tip} \subseteq link
  BY <1>1, LineOfGenesis DEF Startable
<1>7. Numbered'
  <2>1. Cardinality(link \ {Genesis}) \in Nat
    BY <1>1, TreeAssumption, Tree, FS_Subset, FS_CardinalityType
  <2> QED
    BY <1>2, <2>1 DEF Numbered
<1>8. CandidatesAreSound'
  <2>1. ASSUME NEW c \in best PROVE c \in link /\ ~Worse(seq', c, d.tip)
    <3>1. c \in All /\ Work[c] \in Nat /\ Work[d.tip] \in Nat /\ Addr[c] \in Nat /\ Addr[d.tip] \in Nat
      BY <1>1, TreeAssumption
    <3> QED
      BY <1>1, <1>2, <3>1 DEF Worse
  <2> QED
    BY <1>2, <2>1 DEF CandidatesAreSound
<1>9. DiskIsBehind' /\ DiskTipIsIndexed'
  BY <1>2, FlushedIsBehind
<1> QED
  BY <1>2, <1>4, <1>5, <1>6, <1>7, <1>8, <1>9 DEF ChainInv, TipIsLinked, WalkIsNew

-----------------------------------------------------------------------------
(* AcceptBlock *)

(* ReceivedBlockTransactions of b on a linked parent: the blocks that it     *)
(* links are those that have become linked, and exactly they wait no more.   *)
LEMMA LinkingIsExact ==
    ASSUME Types, LinksAreSound, NEW b \in Blocks, b \notin data, Parent[b] \in linked
    PROVE  LET now == NowLinked(b) \cup {b}
           IN  /\ now \cap linked = {}
               /\ now \subseteq Blocks
               /\ linked \cup now = {x \in index \cup {b} : Line[x] \subseteq data \cup {b}}
               /\ {p \in unlinked : p[1] \notin now}
                    = {<<Parent[y], y>> : y \in (data \cup {b}) \ (linked \cup now \cup {Genesis})}
<1> DEFINE now == NowLinked(b) \cup {b}
<1>1. /\ b \in All /\ Parent[b] \in All /\ b # Genesis /\ b \in Line[b]
      /\ index \subseteq All /\ data \subseteq index
      /\ linked = {x \in index : Line[x] \subseteq data}
      /\ unlinked = {<<Parent[y], y>> : y \in data \ (linked \cup {Genesis})}
  BY Tree, LineIsLeast DEF Types, LinksAreSound
<1>2. \A x \in linked : b \notin Line[x]
  BY <1>1
<1>3. Line[b] \subseteq data \cup {b}
  BY <1>1, LineStep
<1>4. \A x \in now : x \in All /\ b \in Line[x]
  BY <1>1 DEF NowLinked
<1>5. now \cap linked = {} /\ now \subseteq Blocks
  BY <1>1, <1>2, <1>4, LineOfGenesis, Tree
<1>6. ASSUME NEW x \in now PROVE x \in index \cup {b} /\ Line[x] \subseteq data \cup {b}
  <2>1. CASE x = b
    BY <1>3, <2>1
  <2>2. CASE x # b
    <3>1. x \in index /\ \A y \in Line[x] \ Line[b] : <<Parent[y], y>> \in unlinked
      BY <2>2 DEF NowLinked
    <3>2. \A y \in Line[x] \ Line[b] : y \in data
      BY <1>1, <3>1
    <3> QED
      BY <1>3, <3>1, <3>2
  <2> QED
    BY <2>1, <2>2
<1>7. ASSUME NEW x \in index \cup {b}, Line[x] \subseteq data \cup {b}, x \notin linked PROVE x \in now
  <2>1. CASE x = b
    BY <2>1
  <2>2. CASE x # b
    <3>1. x \in index /\ x \in All /\ b \in Line[x]
      BY <1>1, <1>7, <2>2
    <3>2. ASSUME NEW y \in Line[x] \ Line[b] PROVE <<Parent[y], y>> \in unlinked
      <4>1. y \in data
        BY <1>1, <1>7
      <4>2. b \in Line[y]
        BY <3>1, LineIsLinear
      <4>3. y \notin linked /\ y # Genesis
        BY <1>1, <1>2, <4>2, LineOfGenesis
      <4> QED
        BY <1>1, <4>1, <4>3
    <3> QED
      BY <3>1, <3>2 DEF NowLinked
  <2> QED
    BY <2>1, <2>2
<1>8. linked \cup now = {x \in index \cup {b} : Line[x] \subseteq data \cup {b}}
  BY <1>1, <1>6, <1>7
<1>9. ASSUME NEW y \in data \ (linked \cup {Genesis}) PROVE Parent[y] \in now <=> y \in now
  <2>1. y \in Blocks /\ y \in index /\ y # b /\ Parent[y] \in All /\ Line[y] = Line[Parent[y]] \cup {y}
    BY <1>1, LineStep, Tree
  <2>2. ASSUME Parent[y] \in now PROVE y \in now
    BY <1>6, <1>7, <2>1, <2>2
  <2>3. ASSUME y \in now PROVE Parent[y] \in now
    <3>1. b \in Line[Parent[y]] /\ Line[Parent[y]] \subseteq data \cup {b} /\ Parent[y] \in Line[Parent[y]]
      BY <1>4, <1>6, <2>1, <2>3, LineIsLeast
    <3>2. Parent[y] \in index \cup {b} /\ Parent[y] \notin linked
      BY <1>1, <1>2, <3>1
    <3> QED
      BY <1>7, <3>1, <3>2
  <2> QED
    BY <2>2, <2>3
<1> HIDE DEF now
<1>10. {p \in unlinked : p[1] \notin now}
         = {<<Parent[y], y>> : y \in (data \cup {b}) \ (linked \cup now \cup {Genesis})}
  <2>1. {p \in unlinked : p[1] \notin now} = {<<Parent[y], y>> : y \in {z \in data \ (linked \cup {Genesis}) : Parent[z] \notin now}}
    BY <1>1
  <2>2. {z \in data \ (linked \cup {Genesis}) : Parent[z] \notin now} = (data \cup {b}) \ (linked \cup now \cup {Genesis})
    BY <1>9 DEF now
  <2> QED
    BY <2>1, <2>2
<1> QED
  BY <1>5, <1>8, <1>10 DEF now

(* On a parent that is not linked, b waits and links nothing. *)
LEMMA WaitingIsExact ==
    ASSUME Types, LinksAreSound, NEW b \in Blocks, b \notin data, Parent[b] \notin linked
    PROVE  /\ linked = {x \in index \cup {b} : Line[x] \subseteq data \cup {b}}
           /\ unlinked \cup {<<Parent[b], b>>} = {<<Parent[y], y>> : y \in (data \cup {b}) \ (linked \cup {Genesis})}
<1>1. /\ b \in All /\ Parent[b] \in All /\ b # Genesis /\ b \in Line[b]
      /\ index \subseteq All /\ data \subseteq index
      /\ linked = {x \in index : Line[x] \subseteq data}
      /\ unlinked = {<<Parent[y], y>> : y \in data \ (linked \cup {Genesis})}
  BY Tree, LineIsLeast DEF Types, LinksAreSound
<1>2. ASSUME NEW x \in index \cup {b}, Line[x] \subseteq data \cup {b} PROVE b \notin Line[x]
  <2> SUFFICES ASSUME b \in Line[x] PROVE FALSE
    OBVIOUS
  <2>1. Line[Parent[b]] \subseteq Line[x]
    BY <1>1, LineStep, LineTransitive
  <2>2. Line[Parent[b]] \subseteq data
    BY <1>2, <2>1, NotItsOwnAncestor
  <2>3. Parent[b] \in index
    BY <1>1, <2>2, LineIsLeast
  <2> QED
    BY <1>1, <2>2, <2>3
<1>3. linked = {x \in index \cup {b} : Line[x] \subseteq data \cup {b}}
  BY <1>1, <1>2
<1>4. b \notin linked
  BY <1>1
<1> QED
  BY <1>1, <1>3, <1>4


(* The numbers that ReceivedBlockTransactions gives to the blocks it links   *)
(* are new ones.                                                             *)
LEMMA NumbersAreNew ==
    ASSUME Types, Numbered, LinksAreSound, TipIsLinked,
           NEW now \in SUBSET Blocks, now \cap linked = {},
           NEW order \in SetToSeqs(now),
           linked' = linked \cup now,
           seq' = [x \in All |-> IF x \in now THEN nextSeq - 1 + CHOOSE i \in DOMAIN order : order[i] = x
                                 ELSE seq[x]],
           nextSeq' = nextSeq + Cardinality(now)
    PROVE  Numbered'
<1>1. IsFiniteSet(now)
  BY TreeAssumption, FS_Subset
<1>2. /\ DOMAIN order = 1..Cardinality(now) /\ Cardinality(now) \in Nat
      /\ \A x \in now : \E i \in DOMAIN order : order[i] = x
  BY <1>1, OrderIsComplete
<1>3. /\ seq \in [All -> Nat] /\ nextSeq \in Nat \ {0} /\ \A b \in All : seq[b] < nextSeq
      /\ nextSeq <= Cardinality(linked \ {Genesis}) + 1
  BY DEF Numbered
<1>4. ASSUME NEW x \in now
      PROVE  (CHOOSE i \in DOMAIN order : order[i] = x) \in 1..Cardinality(now)
  BY <1>2
<1>5. ASSUME NEW x \in All PROVE seq'[x] \in Nat /\ seq'[x] < nextSeq'
  <2>1. CASE x \in now
    <3> DEFINE i == CHOOSE j \in DOMAIN order : order[j] = x
    <3>1. i \in 1..Cardinality(now)
      BY <1>4, <2>1
    <3>2. seq'[x] = nextSeq - 1 + i
      BY <2>1
    <3> HIDE DEF i
    <3> QED
      BY <1>2, <1>3, <3>1, <3>2
  <2>2. CASE x \notin now
    <3>1. seq'[x] = seq[x]
      BY <2>2
    <3>2. seq[x] \in Nat /\ seq[x] < nextSeq
      BY <1>3
    <3> QED
      BY <1>2, <1>3, <3>1, <3>2
  <2> QED
    BY <2>1, <2>2
<1>6. seq' \in [All -> Nat]
  <2>1. seq' = [x \in All |-> seq'[x]]
    OBVIOUS
  <2> QED
    BY <1>5, <2>1
<1>7. Cardinality(linked' \ {Genesis}) = Cardinality(linked \ {Genesis}) + Cardinality(now)
  <2>1. linked \subseteq All
    BY LinkedLine
  <2>2. linked \ {Genesis} \subseteq Blocks
    BY <2>1, Tree
  <2>3. IsFiniteSet(linked \ {Genesis})
    BY <2>2, TreeAssumption, FS_Subset
  <2>4. linked' \ {Genesis} = (linked \ {Genesis}) \cup now /\ (linked \ {Genesis}) \cap now = {}
    BY Tree
  <2> DEFINE old == linked \ {Genesis}
  <2> HIDE DEF old
  <2>5. IsFiniteSet(old) /\ Cardinality(old) \in Nat /\ Cardinality(now) \in Nat
    BY <1>1, <2>3, FS_CardinalityType DEF old
  <2>6. Cardinality(old \cup now) = Cardinality(old) + Cardinality(now) - Cardinality(old \cap now)
    BY <1>1, <2>5, FS_Union
  <2>7. Cardinality(old \cap now) = 0
    BY <2>4, FS_EmptySet DEF old
  <2>8. Cardinality(linked' \ {Genesis}) = Cardinality(old \cup now)
    BY <2>4, Zenon DEF old
  <2>9. Cardinality(linked' \ {Genesis}) = Cardinality(old) + Cardinality(now)
    BY <2>5, <2>6, <2>7, <2>8
  <2> QED
    BY <2>9, Zenon DEF old
<1>8. Cardinality(linked \ {Genesis}) \in Nat
  <2>1. linked \ {Genesis} \subseteq Blocks
    BY LinkedLine, Tree
  <2> QED
    BY <2>1, TreeAssumption, FS_Subset, FS_CardinalityType
<1>9. nextSeq' \in Nat \ {0} /\ nextSeq' <= Cardinality(linked' \ {Genesis}) + 1
  BY <1>2, <1>3, <1>7, <1>8
<1> QED
  BY <1>5, <1>6, <1>9 DEF Numbered

(* An entry that has changed is dirty, so the disk is not further behind. *)
LEMMA BehindByOne ==
    ASSUME Types, DiskIsBehind, NEW b \in Blocks,
           disk' = disk, dirty' = dirty \cup {b}, index' = index \cup {b}, data' \in {data, data \cup {b}}
    PROVE  DiskIsBehind'
  BY Tree DEF DiskIsBehind, Types

(* A block arrives with its transactions and waits or is linked. *)
LEMMA AcceptBlockHolds ==
    ASSUME ChainInv, NEW b \in Blocks, AcceptBlock(b)
    PROVE  ChainInv'
<1> USE DEF ChainInv
<1>1. b \notin data /\ Genesis # b /\ b \in All
  BY Tree DEF AcceptBlock, Acceptable, WalkIsNew
<1>2. /\ walk' = {} /\ index' = index \cup {b} /\ data' = data \cup {b} /\ dirty' = dirty \cup {b}
      /\ activating' = TRUE
      /\ UNCHANGED <<failedValid, failedChild, tip, disk, refused, rejected, up, left>>
  BY DEF AcceptBlock
<1>3. Types'
  BY <1>1, <1>2 DEF Types
<1>4. DiskIsBehind' /\ DiskTipIsIndexed'
  <2>1. DiskIsBehind'
    BY <1>2, BehindByOne
  <2> QED
    BY <1>2, <2>1 DEF DiskTipIsIndexed
<1>5. CASE Parent[b] \in linked
  <2> DEFINE now == NowLinked(b) \cup {b}
  <2>1. /\ now \cap linked = {} /\ now \subseteq Blocks
        /\ linked \cup now = {x \in index \cup {b} : Line[x] \subseteq data \cup {b}}
        /\ {p \in unlinked : p[1] \notin now}
             = {<<Parent[y], y>> : y \in (data \cup {b}) \ (linked \cup now \cup {Genesis})}
    BY <1>1, <1>5, LinkingIsExact
  <2>2. /\ linked' = linked \cup now
        /\ nextSeq' = nextSeq + Cardinality(now)
        /\ cand' = cand \cup {x \in now : ~Worse(seq', x, tip)}
        /\ unlinked' = {p \in unlinked : p[1] \notin now}
    BY <1>5 DEF AcceptBlock
  <2>3. PICK order \in SetToSeqs(now) :
          seq' = [x \in All |-> IF x \in now THEN nextSeq - 1 + CHOOSE i \in DOMAIN order : order[i] = x
                                ELSE seq[x]]
    BY <1>5 DEF AcceptBlock
  <2> HIDE DEF now
  <2>4. Numbered'
    BY <2>1, <2>2, <2>3, NumbersAreNew
  <2>5. LinksAreSound'
    <3>1. \A x \in All \ linked' : seq'[x] = 0
      BY <2>2, <2>3 DEF LinksAreSound
    <3> QED
      BY <1>2, <2>1, <2>2, <3>1 DEF LinksAreSound
  <2>6. TipIsLinked'
    BY <1>2, <2>2 DEF TipIsLinked
  <2>7. CandidatesAreSound'
    <3>1. ASSUME NEW c \in linked PROVE c \in All /\ seq'[c] = seq[c]
      BY <2>1, <2>3, LinkedLine
    <3>2. ASSUME NEW c \in cand' PROVE c \in linked' /\ ~Worse(seq', c, tip)
      <4>1. CASE c \in cand
        <5>1. c \in linked /\ tip \in linked /\ ~Worse(seq, c, tip)
          BY <4>1 DEF CandidatesAreSound, TipIsLinked
        <5> QED
          BY <2>2, <3>1, <5>1 DEF Worse
      <4>2. CASE c \notin cand
        BY <2>2, <4>2
      <4> QED
        BY <4>1, <4>2
    <3> QED
      BY <1>2, <3>2 DEF CandidatesAreSound
  <2> QED
    BY <1>2, <1>3, <1>4, <2>4, <2>5, <2>6, <2>7 DEF WalkIsNew
<1>6. CASE Parent[b] \notin linked
  <2>1. unlinked' = unlinked \cup {<<Parent[b], b>>} /\ UNCHANGED <<linked, seq, nextSeq, cand>>
    BY <1>6 DEF AcceptBlock
  <2>2. LinksAreSound'
    <3>1. /\ linked = {x \in index \cup {b} : Line[x] \subseteq data \cup {b}}
          /\ unlinked \cup {<<Parent[b], b>>} = {<<Parent[y], y>> : y \in (data \cup {b}) \ (linked \cup {Genesis})}
      BY <1>1, <1>6, WaitingIsExact
    <3> QED
      BY <1>2, <2>1, <3>1 DEF LinksAreSound
  <2>3. Numbered' /\ TipIsLinked' /\ CandidatesAreSound'
    BY <1>2, <2>1 DEF Numbered, TipIsLinked, CandidatesAreSound
  <2> QED
    BY <1>2, <1>3, <1>4, <2>2, <2>3 DEF WalkIsNew
<1> QED
  BY <1>5, <1>6


-----------------------------------------------------------------------------
(* The other ways of making an entry, and ReconsiderBlock *)

(* A new entry without data changes no link. *)
LEMMA EntryHolds ==
    ASSUME ChainInv, NEW b \in Blocks, b \notin data,
           index' = index \cup {b}, dirty' = dirty \cup {b}, failedValid' \in {failedValid, failedValid \cup {b}},
           walk' = walk \/ (b \in StakeBlocks /\ Parent[b] # Genesis /\ walk' = {[block |-> b, last |-> Parent[b]]}),
           UNCHANGED <<data, linked, failedChild, seq, nextSeq, cand, unlinked, tip, disk,
                       refused, rejected, activating, up, left>>
    PROVE  ChainInv'
<1> USE DEF ChainInv
<1>1. b \in All /\ b # Genesis /\ b \in Line[b]
  BY Tree, LineIsLeast
<1>2. Types'
  BY <1>1 DEF Types
<1>3. LinksAreSound'
  <2>1. linked = {x \in index \cup {b} : Line[x] \subseteq data}
    BY <1>1 DEF LinksAreSound
  <2> QED
    BY <2>1 DEF LinksAreSound
<1>4. Numbered' /\ TipIsLinked' /\ CandidatesAreSound'
  BY DEF Numbered, TipIsLinked, CandidatesAreSound
<1>5. DiskIsBehind'
  BY BehindByOne
<1>6. DiskTipIsIndexed'
  BY DEF DiskTipIsIndexed
<1>7. WalkIsNew'
  <2>1. CASE walk' = walk
    BY <2>1 DEF WalkIsNew
  <2>2. CASE b \in StakeBlocks /\ Parent[b] # Genesis /\ walk' = {[block |-> b, last |-> Parent[b]]}
    <3>1. Parent[b] \in All
      BY Tree
    <3> QED
      BY <2>2, <3>1 DEF WalkIsNew
  <2> QED
    BY <2>1, <2>2
<1> QED
  BY <1>2, <1>3, <1>4, <1>5, <1>6, <1>7

(* A header arrives. *)
LEMMA AcceptBlockHeaderHolds ==
    ASSUME ChainInv, NEW b \in Blocks, AcceptBlockHeader(b)
    PROVE  ChainInv'
<1>1. b \notin data
  BY DEF AcceptBlockHeader, ChainInv, Types
<1> QED
  BY <1>1, EntryHolds DEF AcceptBlockHeader

(* A block that does not belong at its place arrives. *)
LEMMA AcceptMisplacedBlockHolds ==
    ASSUME ChainInv, NEW b \in Blocks, AcceptMisplacedBlock(b)
    PROVE  ChainInv'
  BY EntryHolds DEF AcceptMisplacedBlock

(* A fork leaves the active chain above the genesis block, so the block that *)
(* stakes on it has a grandparent.                                           *)
LEMMA BeginWalkHolds ==
    ASSUME ChainInv, NEW b \in Blocks, BeginWalk(b)
    PROVE  ChainInv'
<1>1. tip \in All
  BY LinkedLine DEF ChainInv, TipIsLinked
<1>2. Parent[b] # Genesis
  BY <1>1, LineHasGenesis DEF BeginWalk, StakesOnFork
<1> QED
  BY <1>2, EntryHolds DEF BeginWalk, Acceptable, StakesOnFork

(* The walk over waiting blocks goes on to the next. *)
LEMMA WalkOnHolds ==
    ASSUME ChainInv, WalkOn
    PROVE  ChainInv'
<1> USE DEF ChainInv
<1>1. PICK w \in walk : walk' = {[w EXCEPT !.last = Parent[Parent[w.block]]]}
  BY DEF WalkOn
<1>2. /\ w \in [block : StakeBlocks, last : All] /\ StakeBlocks \subseteq Blocks
      /\ w.block \in index \ data /\ Parent[w.block] # Genesis
  BY BlockKindsAssumption DEF WalkIsNew
<1>3. Parent[Parent[w.block]] \in All
  BY <1>2, Tree
<1>4. WalkIsNew'
  BY <1>1, <1>2, <1>3 DEF WalkIsNew, WalkOn, treeVars
<1> QED
  BY <1>4 DEF WalkOn, treeVars, Types, Numbered, LinksAreSound, TipIsLinked, CandidatesAreSound,
              DiskIsBehind, DiskTipIsIndexed

(* Marks are cleared, and the candidates that come back are better than the  *)
(* tip.                                                                      *)
LEMMA ReconsiderHolds ==
    ASSUME ChainInv, NEW b \in All, Reconsider(b), activating' = TRUE, left' \in 0..MaxCommands,
           UNCHANGED <<index, data, linked, seq, nextSeq, unlinked, tip, disk, refused, rejected, walk, up>>
    PROVE  ChainInv'
<1> USE DEF ChainInv
<1> DEFINE cleared == {x \in index \cap Failed : b \in Line[x]}
           gone    == cleared \cup (Line[b] \cap Failed)
<1>1. /\ failedValid' = failedValid \ gone /\ failedChild' = failedChild \ gone
      /\ cand' = cand \cup {x \in cleared \cap linked : Worse(seq, tip, x)}
      /\ dirty' = dirty \cup gone
  BY DEF Reconsider
<1>2. gone \subseteq Blocks
  BY Tree DEF Types, Failed
<1>3. Types'
  BY <1>1, <1>2 DEF Types
<1>4. CandidatesAreSound'
  <2>1. ASSUME NEW c \in linked, Worse(seq, tip, c) PROVE ~Worse(seq, c, tip)
    <3>1. tip \in All /\ c \in All /\ seq \in [All -> Nat]
      BY LinkedLine DEF TipIsLinked, Numbered
    <3> QED
      BY <2>1, <3>1, WorseIsAsymmetric
  <2> QED
    BY <1>1, <2>1 DEF CandidatesAreSound
<1>5. DiskIsBehind' /\ DiskTipIsIndexed'
  BY <1>1 DEF DiskIsBehind, DiskTipIsIndexed
<1> QED
  BY <1>3, <1>4, <1>5 DEF Numbered, LinksAreSound, TipIsLinked, WalkIsNew

(* A block arrives on a marked parent that matches a checkpoint. *)
LEMMA AcceptOnCheckpointHolds ==
    ASSUME ChainInv, NEW b \in Blocks, AcceptOnCheckpoint(b)
    PROVE  ChainInv'
<1>1. Parent[b] \in All /\ left' \in 0..MaxCommands
  BY Tree DEF AcceptOnCheckpoint, ChainInv, Types
<1> QED
  BY <1>1, ReconsiderHolds DEF AcceptOnCheckpoint

(* Whoever still issues commands has some left. *)
LEMMA CommandsRunOut ==
    ASSUME Types, NEW c, Command(c)
    PROVE  left' \in 0..MaxCommands
  BY BlockKindsAssumption DEF Types, Command

(* reconsiderblock takes marks away and makes candidates. *)
LEMMA ReconsiderBlockHolds ==
    ASSUME ChainInv, NEW b \in Blocks, ReconsiderBlock(b)
    PROVE  ChainInv'
<1>1. left' \in 0..MaxCommands
  BY CommandsRunOut DEF ReconsiderBlock, ChainInv
<1>2. b \in All
  BY Tree
<1> QED
  BY <1>1, <1>2, ReconsiderHolds DEF ReconsiderBlock


-----------------------------------------------------------------------------
(* ActivateBestChain *)

(* Of some blocks of a line one is the highest. *)
LEMMA HighestExists ==
    ASSUME NEW b \in All, NEW S \in SUBSET Line[b], S # {}
    PROVE  \E x \in S : \A y \in S : Height[y] <= Height[x]
<1> DEFINE B == {x \in Line[b] : \A y \in S : x \notin Line[y]}
<1>0. \A x \in Line[b] : x \in All /\ Height[x] \in Nat /\ x \in Line[x]
  BY LineIsLeast, Heights
<1>1. CASE B = {}
  <2>1. PICK y \in S : b \in Line[y]
    BY <1>1, LineIsLeast
  <2>2. y = b
    BY <1>0, <2>1, AncestorsAreLess, Heights
  <2> QED
    BY <1>0, <2>2, AncestorsAreLess
<1>2. CASE B # {}
  <2>1. B \in SUBSET Blocks
    BY <1>0, LineHasGenesis, Tree
  <2>2. PICK m \in B : Parent[m] \notin B
    BY <1>2, <2>1, Tree
  <2>3. m \in Blocks /\ Parent[m] \in Line[b]
    BY <2>1, <2>2, LineIsLeast, Tree
  <2>4. \A y \in S : y \in Line[Parent[m]]
    BY <1>0, <2>2, <2>3, LineIsLinear, LineStep
  <2>5. PICK y \in S : Parent[m] \in Line[y]
    BY <2>2, <2>3
  <2>6. y = Parent[m]
    BY <1>0, <2>3, <2>4, <2>5, AncestorsAreLess
  <2> QED
    BY <1>0, <2>3, <2>4, <2>6, AncestorsAreLess
<1> QED
  BY <1>1, <1>2

(* What FindMostWorkChain drops and marks is off the active chain. *)
LEMMA FoundIsSound ==
    ASSUME ChainInv, NEW usable \in SUBSET cand
    PROVE  /\ FindMostWorkChain(usable).best \subseteq cand
           /\ FindMostWorkChain(usable).cand \subseteq cand
           /\ FindMostWorkChain(usable).failedChild \subseteq index \ {Genesis}
<1>1. ASSUME NEW c \in cand PROVE AboveMark(c) \subseteq index \ {Genesis}
  <2>1. tip \in All /\ Line[c] \subseteq index
    BY LinkedLine DEF ChainInv, TipIsLinked, CandidatesAreSound, LinksAreSound
  <2> QED
    BY <2>1, LineHasGenesis DEF AboveMark, Path
<1>2. failedChild \subseteq index \ {Genesis}
  BY DEF ChainInv, Types
<1> QED
  BY <1>1, <1>2 DEF FindMostWorkChain

(* What one round of ActivateBestChain towards most does, said without the   *)
(* detail of how far it got: the tip is on most's line and not below the     *)
(* fork; what was connected was not turned down; the round ended at most,    *)
(* with more work than before, or in front of a block that was turned down.  *)
Outcome(most, found, fresh, turned) ==
    LET bad == InvalidBlockFound(turned)
    IN  /\ tip' \in Line[most]
        /\ Fork(tip, most) \in Line[tip']
        /\ \A x \in Line[tip'] \ Line[tip] : ~TurnedDown(x, fresh)
        /\ turned \subseteq {x \in Line[most] \cap Blocks : Parent[x] = tip' /\ TurnedDown(x, fresh)}
        /\ turned = {} => tip' = most \/ InBetterPosition(tip')
        /\ cand' = {c \in found.cand : ~Worse(seq, c, tip')} \ bad
        /\ failedValid' = failedValid \cup bad
        /\ failedChild' = found.failedChild
        /\ rejected' = rejected \cup (turned \cap refused)
        /\ \/ Fork(tip, most) = tip /\ disk' = disk /\ dirty' = dirty \cup bad
           \/ \E f \in Line[tip'] :
                disk' = WriteAll(disk, dirty, failedValid, found.failedChild, f) /\ dirty' = bad
        /\ activating' = (tip' # most)

(* The child of t on a line through t. *)
LEMMA ChildExists ==
    ASSUME NEW b \in All, NEW t \in Line[b], t # b
    PROVE  \E x \in Line[b] \cap Blocks : Parent[x] = t
<1> DEFINE B == Line[b] \ Line[t]
<1>0. \A x \in Line[b] : x \in All /\ Height[x] \in Nat
  BY LineIsLeast, Heights
<1>1. b \notin Line[t]
  BY <1>0, LineIsLeast, AncestorsAreLess
<1>2. B \in SUBSET Blocks /\ B # {}
  BY <1>0, <1>1, LineIsLeast, LineHasGenesis, Tree
<1>3. PICK m \in B : Parent[m] \notin B
  BY <1>2, Tree
<1>4. m \in Blocks /\ Parent[m] \in Line[t] /\ Parent[m] \in Line[b]
  BY <1>2, <1>3, LineIsLeast, Tree
<1>5. t \in Line[m] /\ t # m
  BY <1>0, <1>3, LineIsLinear, LineIsLeast
<1>6. t \in Line[Parent[m]]
  BY <1>4, <1>5, LineStep
<1>7. Parent[m] = t
  BY <1>0, <1>4, <1>6, AncestorsAreLess
<1> QED
  BY <1>4, <1>7

(* What ActivateBestChainStep leaves behind, whichever blocks are turned     *)
(* down.                                                                     *)
LEMMA ActivateStepShape ==
    ASSUME ChainInv, NEW found, found.cand \subseteq cand, NEW most \in cand, NEW fresh,
           ActivateStep(most, found, fresh)
    PROVE  \E turned : Outcome(most, found, fresh, turned)
<1> USE DEF ChainInv
<1> DEFINE fork    == Fork(tip, most)
           todo    == Line[most] \ Line[fork]
           stops(x) == TurnedDown(x, fresh) \/ \E y \in Line[x] \cap todo : y # x /\ (TurnedDown(y, fresh) \/ InBetterPosition(y))
           done    == {x \in todo : ~stops(x)}
           newTip  == CHOOSE x \in done \cup {fork} : \A y \in done : Height[y] <= Height[x]
           next    == {x \in todo : Parent[x] = newTip}
           turned  == IF done # {} /\ InBetterPosition(newTip) THEN {} ELSE next
           bad     == InvalidBlockFound(turned)
           pruned  == IF done = {} THEN found.cand ELSE PruneBlockIndexCandidates(found.cand, newTip)
           flushed == (IF fork # tip THEN {fork} ELSE {}) \cup done
<1>1. /\ tip' = newTip
      /\ cand' = pruned \ bad
      /\ failedValid' = failedValid \cup bad
      /\ failedChild' = found.failedChild
      /\ rejected' = rejected \cup (turned \cap refused)
      /\ \/ fork = tip /\ UNCHANGED disk /\ dirty' = dirty \cup bad
         \/ \E f \in flushed :
              /\ disk' = WriteAll(disk, dirty, failedValid, found.failedChild, f)
              /\ dirty' = bad
      /\ activating' = (newTip # most)
  BY DEF ActivateStep
<1>2. tip \in All /\ most \in All
  BY LinkedLine DEF TipIsLinked, CandidatesAreSound
<1>3. fork \in Line[tip] /\ fork \in Line[most] /\ fork \in All
  BY <1>2, ForkIsShared, LineIsLeast
<1>4. todo \subseteq Blocks /\ done \subseteq todo /\ todo \subseteq Line[most] /\ Line[fork] \subseteq Line[tip]
      /\ todo \cap Line[fork] = {}
  BY <1>2, <1>3, LineIsLeast, LineHasGenesis, LineTransitive, Tree
<1>5. \A x \in todo : x \in done <=> ~stops(x)
  OBVIOUS
<1>0. todo = Line[most] \ Line[fork]
  OBVIOUS
<1> HIDE DEF fork, todo, done
<1>6. newTip \in done \cup {fork} /\ \A y \in done : Height[y] <= Height[newTip]
  <2>1. CASE done = {}
    BY <2>1
  <2>2. CASE done # {}
    BY <1>2, <1>4, <2>2, HighestExists
  <2> QED
    BY <2>1, <2>2
<1> HIDE DEF newTip
<1>7. newTip \in Line[most] /\ newTip \in All /\ newTip \in Line[newTip]
  BY <1>2, <1>3, <1>4, <1>6, LineIsLeast
<1>8. fork \in Line[newTip]
  BY <1>2, <1>3, <1>4, <1>6, <1>7, <1>0, LineIsLinear
<1>9. done \subseteq Line[newTip]
  <2> SUFFICES ASSUME NEW y \in done PROVE y \in Line[newTip]
    OBVIOUS
  <2>1. y \in Line[most] /\ y \in All /\ Height[y] \in Nat /\ Height[newTip] \in Nat /\ Height[y] <= Height[newTip]
    BY <1>2, <1>4, <1>6, <1>7, LineIsLeast, Heights
  <2>2. y \in Line[newTip] \/ newTip \in Line[y]
    BY <1>2, <1>7, <2>1, LineIsLinear
  <2> QED
    BY <1>7, <2>1, <2>2, AncestorsAreLess
<1>10. ASSUME NEW x \in Line[newTip] \ Line[fork] PROVE newTip \in done /\ x \in todo /\ ~TurnedDown(x, fresh)
  <2>1. newTip \in done
    BY <1>6, <1>10
  <2>2. x \in todo
    BY <1>2, <1>7, <1>10, <1>0, LineTransitive
  <2>3. CASE x = newTip
    BY <1>4, <1>5, <2>1, <2>2, <2>3
  <2>4. CASE x # newTip
    BY <1>4, <1>5, <1>10, <2>1, <2>2, <2>4
  <2> QED
    BY <2>1, <2>2, <2>3, <2>4
<1>11. \A x \in Line[newTip] \ Line[tip] : ~TurnedDown(x, fresh)
  BY <1>4, <1>10
<1>12. ASSUME NEW x \in turned PROVE x \in Line[most] \cap Blocks /\ Parent[x] = newTip /\ TurnedDown(x, fresh)
  <2>1. x \in todo /\ Parent[x] = newTip /\ x \in Blocks /\ x \in All /\ (done = {} \/ ~InBetterPosition(newTip))
    BY <1>4, <1>12, Tree
  <2>2. x \notin done
    BY <1>9, <2>1, NotItsOwnAncestor
  <2>3. SUFFICES ASSUME NEW y \in Line[x] \cap todo, y # x, TurnedDown(y, fresh) \/ InBetterPosition(y)
                 PROVE  FALSE
    BY <1>4, <1>5, <2>1, <2>2
  <2>4. y \in Line[newTip] /\ y \notin Line[fork]
    BY <1>4, <2>1, <2>3, LineStep
  <2>5. newTip \in done /\ newTip \in todo /\ ~TurnedDown(y, fresh)
    BY <1>4, <1>10, <2>4
  <2>6. y # newTip
    BY <2>1, <2>3, <2>5
  <2> QED
    BY <1>5, <2>3, <2>4, <2>5, <2>6
<1>13. turned = {} => newTip = most \/ InBetterPosition(newTip)
  <2> SUFFICES ASSUME turned = {}, newTip # most, ~InBetterPosition(newTip) PROVE FALSE
    OBVIOUS
  <2>1. PICK x \in Line[most] \cap Blocks : Parent[x] = newTip
    BY <1>2, <1>7, ChildExists
  <2>2. x \notin Line[fork]
    <3> SUFFICES ASSUME x \in Line[fork] PROVE FALSE
      OBVIOUS
    <3>1. Line[fork] \subseteq Line[newTip]
      BY <1>7, <1>8, LineTransitive
    <3> QED
      BY <2>1, <3>1, NotItsOwnAncestor
  <2> QED
    BY <1>0, <2>1, <2>2
<1>14. pruned = {c \in found.cand : ~Worse(seq, c, newTip)}
  <2>1. CASE done = {}
    BY <1>3, <1>6, <2>1, CandidatesBelow
  <2>2. CASE done # {}
    BY <2>2 DEF PruneBlockIndexCandidates
  <2> QED
    BY <2>1, <2>2
<1>15. flushed \subseteq Line[newTip]
  BY <1>8, <1>9
<1> HIDE DEF turned, pruned, flushed
<1>16. Outcome(most, found, fresh, turned)
  BY <1>1, <1>7, <1>8, <1>11, <1>12, <1>13, <1>14, <1>15 DEF Outcome, fork
<1> QED
  BY <1>16

(* One step of the activation. *)
LEMMA ActivateStepHolds ==
    ASSUME ChainInv,
           NEW found, found.cand \subseteq cand, found.failedChild \subseteq index \ {Genesis},
           NEW most \in cand, NEW fresh, NEW turned, Outcome(most, found, fresh, turned),
           UNCHANGED <<index, data, linked, seq, nextSeq, unlinked, refused, walk, up, left>>
    PROVE  ChainInv'
<1> USE DEF ChainInv
<1> DEFINE bad == InvalidBlockFound(turned)
<1>1. /\ tip' \in Line[most]
      /\ turned \subseteq Line[most] \cap Blocks
      /\ cand' \subseteq {c \in cand : ~Worse(seq, c, tip')}
      /\ failedValid' = failedValid \cup bad
      /\ failedChild' = found.failedChild
      /\ rejected' = rejected \cup (turned \cap refused)
      /\ \/ disk' = disk /\ dirty' = dirty \cup bad
         \/ \E f \in Line[tip'] :
              disk' = WriteAll(disk, dirty, failedValid, found.failedChild, f) /\ dirty' = bad
      /\ activating' \in BOOLEAN
  BY DEF Outcome
<1>2. most \in All /\ Line[most] \subseteq linked /\ linked \subseteq index
  BY LinkedLine DEF CandidatesAreSound, LinksAreSound
<1>3. tip' \in linked /\ Line[tip'] \subseteq linked
  BY <1>1, <1>2, LineTransitive
<1>4. bad \subseteq index \ {Genesis} /\ bad \subseteq Blocks /\ bad \subseteq turned
  BY <1>1, <1>2, Tree DEF InvalidBlockFound
<1> HIDE DEF bad
<1>5. Types'
  BY <1>1, <1>4 DEF Types
<1>6. CandidatesAreSound'
  BY <1>1 DEF CandidatesAreSound
<1>7. DiskIsBehind' /\ DiskTipIsIndexed'
  <2>1. CASE disk' = disk /\ dirty' = dirty \cup bad
    BY <2>1 DEF DiskIsBehind, DiskTipIsIndexed
  <2>2. CASE \E f \in Line[tip'] :
               disk' = WriteAll(disk, dirty, failedValid, found.failedChild, f) /\ dirty' = bad
    <3>1. PICK f \in Line[tip'] : disk' = WriteAll(disk, dirty, failedValid, found.failedChild, f)
      BY <2>2
    <3>2. f \in linked /\ dirty \in SUBSET Blocks /\ failedValid \subseteq index \ {Genesis}
      BY <1>3 DEF Types
    <3>3. Startable(disk') /\ disk'.index = index /\ disk'.data = data
      BY <3>1, <3>2, AllIsWritten
    <3> QED
      BY <3>3, FlushedIsBehind
  <2> QED
    BY <1>1, <2>1, <2>2
<1> QED
  BY <1>3, <1>5, <1>6, <1>7 DEF Numbered, LinksAreSound, TipIsLinked, WalkIsNew

(* ActivateBestChain returns, or makes one step towards its best candidate. *)
LEMMA ActivateCases ==
    ASSUME ChainInv, ActivateBestChain
    PROVE  LET found == FindMostWorkChain({c \in cand : ~Unusable(c)})
           IN  /\ \/ /\ found.best \subseteq {tip} /\ cand' = found.cand /\ failedChild' = found.failedChild
                     /\ activating' = FALSE
                     /\ UNCHANGED <<tip, failedValid, dirty, disk, rejected>>
                  \/ \E most \in found.best \ {tip}, fresh \in refused \cup {Genesis}, turned \in SUBSET Blocks :
                        Outcome(most, found, fresh, turned)
               /\ found.best \subseteq cand /\ found.cand \subseteq cand
               /\ found.failedChild \subseteq index \ {Genesis}
               /\ UNCHANGED <<index, data, linked, seq, nextSeq, unlinked, refused, walk, up, left>>
<1> DEFINE found == FindMostWorkChain({c \in cand : ~Unusable(c)})
<1>1. found.best \subseteq cand /\ found.cand \subseteq cand /\ found.failedChild \subseteq index \ {Genesis}
  BY FoundIsSound
<1>2. UNCHANGED <<index, data, linked, seq, nextSeq, unlinked, refused, walk, up, left>>
  BY DEF ActivateBestChain
<1>3. \/ /\ found.best \subseteq {tip} /\ cand' = found.cand /\ failedChild' = found.failedChild
         /\ activating' = FALSE
         /\ UNCHANGED <<tip, failedValid, dirty, disk, rejected>>
      \/ \E most \in found.best \ {tip}, fresh \in refused \cup {Genesis} : ActivateStep(most, found, fresh)
  BY DEF ActivateBestChain
<1> HIDE DEF found
<1>4. ASSUME NEW most \in found.best \ {tip}, NEW fresh \in refused \cup {Genesis}, ActivateStep(most, found, fresh)
      PROVE  \E turned \in SUBSET Blocks : Outcome(most, found, fresh, turned)
  <2>1. PICK turned : Outcome(most, found, fresh, turned)
    BY <1>1, <1>4, ActivateStepShape
  <2>2. turned \in SUBSET Blocks
    BY <2>1 DEF Outcome
  <2> QED
    BY <2>1, <2>2
<1> QED
  BY <1>1, <1>2, <1>3, <1>4 DEF found

(* The loop of the activation, with the prune of the candidates. *)
LEMMA ActivateBestChainHolds ==
    ASSUME ChainInv, ActivateBestChain
    PROVE  ChainInv'
<1> DEFINE found == FindMostWorkChain({c \in cand : ~Unusable(c)})
<1> HIDE DEF found
<1>1. found.best \subseteq cand /\ found.cand \subseteq cand /\ found.failedChild \subseteq index \ {Genesis}
  BY ActivateCases DEF found
<1>2. UNCHANGED <<index, data, linked, seq, nextSeq, unlinked, refused, walk, up, left>>
  BY ActivateCases
<1>3. CASE /\ cand' = found.cand /\ failedChild' = found.failedChild /\ activating' = FALSE
           /\ UNCHANGED <<tip, failedValid, dirty, disk, rejected>>
  BY <1>1, <1>2, <1>3 DEF ChainInv, Types, Numbered, LinksAreSound, TipIsLinked, CandidatesAreSound,
                          DiskIsBehind, DiskTipIsIndexed, WalkIsNew
<1>4. CASE \E most \in found.best \ {tip}, fresh \in refused \cup {Genesis}, turned \in SUBSET Blocks :
             Outcome(most, found, fresh, turned)
  <2>1. PICK most \in found.best, fresh \in refused \cup {Genesis}, turned \in SUBSET Blocks :
          Outcome(most, found, fresh, turned)
    BY <1>4
  <2> QED
    BY <1>1, <1>2, <2>1, ActivateStepHolds
<1> QED
  BY <1>3, <1>4, ActivateCases DEF found

-----------------------------------------------------------------------------
(* Commands, flushes and restarts *)

(* InvalidateBlock disconnects down to the parent of the block.  Only the    *)
(* height of that is used, so the ancestor it finds is below the tip.        *)
LEMMA InvalidatedTip ==
    ASSUME NEW t \in All, NEW b \in Blocks, b \in Line[t]
    PROVE  Height[t] - Cardinality(Line[t] \ Line[Parent[b]]) = Height[Parent[b]]
<1>1. Parent[b] \in All /\ Line[Parent[b]] \subseteq Line[t]
  BY LineTransitive, LineStep, Tree
<1>2. /\ IsFiniteSet(Line[t]) /\ Cardinality(Line[t]) = Height[t] + 1 /\ Height[t] \in Nat
      /\ IsFiniteSet(Line[Parent[b]]) /\ Cardinality(Line[Parent[b]]) = Height[Parent[b]] + 1
      /\ Height[Parent[b]] \in Nat
  BY <1>1, Heights
<1> DEFINE low == Line[Parent[b]]  high == Line[t] \ low
<1>3. IsFiniteSet(high) /\ low \cup high = Line[t] /\ low \cap high = {}
  BY <1>1, <1>2, FS_Subset
<1> HIDE DEF low, high
<1>4. /\ Cardinality(low \cup high) = Cardinality(low) + Cardinality(high) - Cardinality(low \cap high)
      /\ Cardinality(high) \in Nat
  BY <1>2, <1>3, FS_Union, FS_CardinalityType DEF low
<1>5. Cardinality(low \cap high) = 0
  BY <1>3, FS_EmptySet
<1>6. Cardinality(low) = Height[Parent[b]] + 1 /\ Cardinality(low \cup high) = Height[t] + 1
  BY <1>2, <1>3 DEF low
<1>7. Height[t] - Cardinality(high) = Height[Parent[b]]
  BY <1>2, <1>4, <1>5, <1>6
<1> QED
  BY <1>7, Zenon DEF low, high

(* Where InvalidateBlock leaves the tip. *)
LEMMA InvalidateShape ==
    ASSUME ChainInv, NEW b \in Blocks, InvalidateBlock(b)
    PROVE  /\ b \in Line[tip] => tip' = Parent[b] /\ DisconnectedBy(b) # {}
           /\ b \notin Line[tip] => tip' = tip /\ DisconnectedBy(b) = {}
           /\ tip' \in Line[tip]
           /\ \A x \in DisconnectedBy(b) : b \in Line[x]
           /\ DisconnectedBy(b) \subseteq linked
           /\ DisconnectedBy(b) \subseteq Blocks
           /\ Line[tip'] \cap (DisconnectedBy(b) \cup {b}) = {}
<1> DEFINE gone == DisconnectedBy(b)
<1>1. tip' = AncestorAt(tip, Height[tip] - Cardinality(gone))
  BY DEF InvalidateBlock
<1>2. tip \in All /\ Line[tip] \subseteq linked /\ b \in All /\ Parent[b] \in All /\ b \in Line[b] /\ tip \in Line[tip]
  BY LinkedLine, LineIsLeast, Tree DEF ChainInv, TipIsLinked
<1>3. ASSUME NEW x \in Line[tip], NEW y \in Line[tip], Height[x] = Height[y] PROVE x = y
  <2>1. x \in All /\ y \in All /\ Height[x] \in Nat /\ Height[y] \in Nat
    BY <1>2, LineIsLeast, Heights
  <2>2. x \in Line[y] \/ y \in Line[x]
    BY <1>2, LineIsLinear
  <2> QED
    BY <1>3, <2>1, <2>2, AncestorsAreLess
<1>4. CASE b \in Line[tip]
  <2>1. Parent[b] \in Line[tip] /\ gone = Line[tip] \ Line[Parent[b]] /\ b \in gone
    BY <1>2, <1>4, LineIsLeast, NotItsOwnAncestor, Tree DEF DisconnectedBy
  <2>2. Height[Parent[b]] \in Nat /\ Height[tip] \in Nat /\ Height[Parent[b]] <= Height[tip]
    BY <1>2, <2>1, Heights, AncestorsAreLess
  <2>3. Height[tip] - Cardinality(gone) = Height[Parent[b]]
    BY <1>2, <1>4, InvalidatedTip DEF DisconnectedBy
  <2>4. tip' \in Line[tip] /\ Height[tip'] = Height[Parent[b]]
    BY <1>1, <1>2, <2>2, <2>3, AncestorIsFound
  <2>5. tip' = Parent[b]
    BY <1>3, <2>1, <2>4
  <2>6. \A x \in gone : b \in Line[x]
    BY <1>2, <1>4, <2>1, LineIsLinear, LineStep
  <2>7. gone \subseteq Blocks
    BY <1>2, <2>1, LineIsLeast, LineHasGenesis, Tree
  <2> QED
    BY <1>2, <1>4, <2>1, <2>4, <2>5, <2>6, <2>7
<1>5. CASE b \notin Line[tip]
  <2>1. gone = {}
    BY <1>5 DEF DisconnectedBy
  <2>2. Cardinality(gone) = 0
    BY <2>1, FS_EmptySet, Zenon
  <2>3. Height[tip] \in Nat /\ Height[tip] - Cardinality(gone) = Height[tip]
    BY <1>2, <2>2, Heights
  <2>4. tip' \in Line[tip] /\ Height[tip'] = Height[tip]
    BY <1>1, <1>2, <2>3, AncestorIsFound
  <2>5. tip' = tip
    BY <1>2, <1>3, <2>4
  <2> QED
    BY <1>2, <1>5, <2>1, <2>5
<1> QED
  BY <1>4, <1>5

(* invalidateblock disconnects, marks and prunes. *)
LEMMA InvalidateBlockHolds ==
    ASSUME ChainInv, NEW b \in Blocks, InvalidateBlock(b)
    PROVE  ChainInv'
<1> USE DEF ChainInv
<1> DEFINE gone == DisconnectedBy(b)
           fv   == failedValid \cup {b}
           fc   == failedChild \cup gone
<1>1. /\ failedValid' = fv /\ failedChild' = fc
      /\ cand' = (cand \ (gone \cup {b})) \cup AddedAgain(fv, fc, tip')
      /\ IF gone = {} THEN dirty' = dirty \cup {b} /\ UNCHANGED disk
         ELSE dirty' = {} /\ disk' = WriteAll(disk, dirty \cup gone, fv, fc, tip')
      /\ activating' = TRUE /\ b \in index
      /\ UNCHANGED <<index, data, linked, seq, nextSeq, unlinked, refused, rejected, walk, up>>
  BY DEF InvalidateBlock
<1>2. left' \in 0..MaxCommands
  BY CommandsRunOut DEF InvalidateBlock
<1>3. tip \in linked /\ Line[tip] \subseteq linked /\ linked \subseteq index
  BY LinkedLine DEF TipIsLinked, LinksAreSound
<1>4. tip' \in Line[tip] /\ gone \subseteq linked /\ gone \subseteq Blocks
  BY InvalidateShape
<1> HIDE DEF gone
<1>5. tip' \in linked
  BY <1>3, <1>4
<1>6. fv \subseteq index \ {Genesis} /\ fc \subseteq index \ {Genesis}
  BY <1>1, <1>3, <1>4, Tree DEF Types
<1>7. Types'
  BY <1>1, <1>2, <1>6 DEF Types
<1>8. CandidatesAreSound'
  <2>1. \A c \in cand : c \in linked /\ ~Worse(seq, c, tip')
    BY <1>4, CandidatesBelow
  <2>2. \A c \in AddedAgain(fv, fc, tip') : c \in linked /\ ~Worse(seq, c, tip')
    BY DEF AddedAgain
  <2> QED
    BY <1>1, <2>1, <2>2 DEF CandidatesAreSound
<1>9. DiskIsBehind' /\ DiskTipIsIndexed'
  <2>1. CASE gone = {}
    <3>1. dirty' = dirty \cup {b} /\ UNCHANGED <<disk, index, data>>
      BY <1>1, <2>1
    <3> QED
      BY <3>1 DEF DiskIsBehind, DiskTipIsIndexed
  <2>2. CASE gone # {}
    <3>1. disk' = WriteAll(disk, dirty \cup gone, fv, fc, tip')
      BY <1>1, <2>2
    <3>2. dirty \cup gone \in SUBSET Blocks /\ dirty \subseteq dirty \cup gone
      BY <1>4 DEF Types
    <3> HIDE DEF fv, fc
    <3>3. Startable(disk') /\ disk'.index = index /\ disk'.data = data
      BY <1>5, <1>6, <3>1, <3>2, AllIsWritten
    <3> QED
      BY <1>1, <3>3, FlushedIsBehind
  <2> QED
    BY <2>1, <2>2
<1> QED
  BY <1>1, <1>5, <1>7, <1>8, <1>9 DEF Numbered, LinksAreSound, TipIsLinked, WalkIsNew

(* A complete flush, with the tip at an ancestor or where it was. *)
LEMMA FlushHolds ==
    ASSUME ChainInv, tip' \in Line[tip], disk' = WriteAll(disk, dirty, failedValid, failedChild, tip'),
           dirty' = {}, activating' \in BOOLEAN, left' \in 0..MaxCommands,
           UNCHANGED <<treeVars, cand, refused, rejected, walk, up>>
    PROVE  ChainInv'
<1> USE DEF ChainInv
<1>0. UNCHANGED <<index, data, linked, failedValid, failedChild, seq, nextSeq, unlinked>>
  BY DEF treeVars
<1>1. tip' \in linked
  BY LinkedLine DEF TipIsLinked
<1>2. Startable(disk') /\ disk'.index = index /\ disk'.data = data
  BY <1>1, AllIsWritten DEF Types
<1>3. DiskIsBehind' /\ DiskTipIsIndexed'
  BY <1>0, <1>2, FlushedIsBehind
<1>4. CandidatesAreSound'
  BY <1>0, CandidatesBelow DEF CandidatesAreSound
<1>5. Types'
  BY <1>0 DEF Types
<1> QED
  BY <1>0, <1>1, <1>3, <1>4, <1>5 DEF Numbered, LinksAreSound, TipIsLinked, WalkIsNew

(* A replay disconnects down to an ancestor of the tip. *)
LEMMA DisconnectedTip ==
    ASSUME ChainInv, DisconnectBlocks
    PROVE  tip' \in Line[tip]
<1>1. tip \in All
  BY LinkedLine DEF ChainInv, TipIsLinked
<1>2. Height[tip] \in Nat /\ ReplayDepth \in Nat
  BY <1>1, Heights, BlockKindsAssumption
<1> DEFINE h == IF Height[tip] > ReplayDepth THEN Height[tip] - (ReplayDepth + 1) ELSE 0
<1>3. h \in Nat /\ h <= Height[tip]
  BY <1>2
<1>4. tip' = AncestorAt(tip, h)
  BY DEF DisconnectBlocks
<1> HIDE DEF h
<1> QED
  BY <1>1, <1>3, <1>4, AncestorIsFound

(* A replay of blocks begins. *)
LEMMA DisconnectBlocksHolds ==
    ASSUME ChainInv, DisconnectBlocks
    PROVE  ChainInv'
<1>1. tip' \in Line[tip]
  BY DisconnectedTip
<1>2. left' \in 0..MaxCommands
  BY CommandsRunOut DEF DisconnectBlocks, ChainInv
<1> QED
  BY <1>1, <1>2, FlushHolds DEF DisconnectBlocks

(* Index and coins are written. *)
LEMMA FlushStateHolds ==
    ASSUME ChainInv, FlushState
    PROVE  ChainInv'
<1>1. tip \in Line[tip]
  BY LinkedLine, LineIsLeast DEF ChainInv, TipIsLinked
<1>2. activating' \in BOOLEAN /\ left' \in 0..MaxCommands
  BY DEF FlushState, ChainInv, Types
<1> QED
  BY <1>1, <1>2, FlushHolds DEF FlushState

(* The coins lag behind the index, whichever of the two writes the crash     *)
(* cuts off.                                                                 *)
LEMMA CrashHolds ==
    ASSUME ChainInv, Crash
    PROVE  ChainInv'
<1> USE DEF ChainInv
<1>1. left' \in 0..MaxCommands /\ refused \subseteq Contested
  BY CommandsRunOut DEF Crash, Types
<1>2. CASE Load(disk)
  <2>1. Startable(disk)
    BY DEF Startable, DiskIsBehind, DiskTipIsIndexed, DiskType
  <2> QED
    BY <1>1, <1>2, <2>1, LoadHolds
<1>3. CASE Load(WriteFirst(disk, dirty, failedValid, failedChild, tip))
  <2> DEFINE d == WriteIndex(disk, dirty, failedValid, failedChild)
  <2>1. /\ d \in DiskType /\ d.index = index /\ d.data = data /\ Genesis \in data
        /\ d.failedValid \subseteq index /\ d.failedChild \subseteq index /\ d.tip = disk.tip
    BY IndexIsWritten DEF Types
  <2>2. Load(d)
    BY <1>3 DEF WriteFirst
  <2> HIDE DEF d
  <2>3. Startable(d)
    BY <2>1 DEF Startable, DiskIsBehind, DiskTipIsIndexed, Types
  <2> QED
    BY <1>1, <2>2, <2>3, LoadHolds
<1> QED
  BY <1>2, <1>3 DEF Crash

(* The node dies inside invalidateblock and starts from what was written. *)
LEMMA CrashInInvalidateBlockHolds ==
    ASSUME ChainInv, NEW b \in Blocks, CrashInInvalidateBlock(b)
    PROVE  ChainInv'
<1> USE DEF ChainInv
<1>1. left' \in 0..MaxCommands /\ refused \subseteq Contested
  BY CommandsRunOut DEF CrashInInvalidateBlock, Types
<1>2. tip \in All /\ Line[tip] \subseteq linked /\ linked \subseteq index /\ linked \subseteq All /\ b \in Line[tip]
  BY LinkedLine DEF TipIsLinked, LinksAreSound, CrashInInvalidateBlock
<1>3. PICK t \in Line[tip], coins \in Line[tip] :
         Load(WriteAll(disk, dirty \cup (Line[tip] \ Line[t]) \cup {b}, failedValid \cup {b},
                       failedChild \cup (Line[tip] \ Line[t]), coins))
  BY DEF CrashInInvalidateBlock
<1> DEFINE gone == Line[tip] \ Line[t]
           D    == dirty \cup gone \cup {b}
           fv   == failedValid \cup {b}
           fc   == failedChild \cup gone
<1>4. gone \subseteq index \ {Genesis} /\ gone \subseteq Blocks
  BY <1>2, LineHasGenesis, Tree
<1>5. /\ D \in SUBSET Blocks /\ dirty \subseteq D /\ coins \in linked
      /\ fv \subseteq index \ {Genesis} /\ fc \subseteq index \ {Genesis}
  BY <1>2, <1>4, Tree DEF Types
<1>6. Load(WriteAll(disk, D, fv, fc, coins))
  BY <1>3
<1> HIDE DEF gone, D, fv, fc
<1>7. Startable(WriteAll(disk, D, fv, fc, coins))
  BY <1>5, AllIsWritten
<1> QED
  BY <1>1, <1>6, <1>7, LoadHolds

(* A contested block is seen otherwise. *)
LEMMA OpinionChangesHolds ==
    ASSUME ChainInv, OpinionChanges
    PROVE  ChainInv'
  BY DEF OpinionChanges, treeVars, ChainInv, Types, Numbered, LinksAreSound, TipIsLinked, CandidatesAreSound,
         DiskIsBehind, DiskTipIsIndexed, WalkIsNew

-----------------------------------------------------------------------------
(* The theorems *)

(* A new node knows the genesis block only. *)
LEMMA ChainInvInit == Init => ChainInv
<1> SUFFICES ASSUME Init PROVE ChainInv
  OBVIOUS
<1>1. Types
  <2>1. MaxCommands \in 0..MaxCommands
    BY BlockKindsAssumption
  <2> QED
    BY <2>1, Tree DEF Init, Types
<1>2. LinksAreSound /\ TipIsLinked
  BY LineOfGenesis, Tree DEF Init, LinksAreSound, TipIsLinked
<1>3. Numbered
  <2>1. Cardinality(linked \ {Genesis}) = 0
    <3>1. linked \ {Genesis} = {}
      BY DEF Init
    <3> QED
      BY <3>1, FS_EmptySet
  <2> QED
    BY <2>1 DEF Init, Numbered
<1>4. CandidatesAreSound
  <2>1. Work[Genesis] \in Nat /\ Addr[Genesis] \in Nat /\ seq[Genesis] = 0
    BY TreeAssumption, Tree DEF Init
  <2> QED
    BY <2>1 DEF Init, CandidatesAreSound, Worse
<1>5. DiskIsBehind /\ DiskTipIsIndexed
  BY LineOfGenesis, Tree DEF Init, DiskIsBehind, DiskTipIsIndexed
<1> QED
  BY <1>1, <1>2, <1>3, <1>4, <1>5 DEF ChainInv, WalkIsNew, Init

(* Every step keeps the inductive invariant. *)
LEMMA ChainInvStep == ChainInv /\ [Next]_vars => ChainInv'
<1> SUFFICES ASSUME ChainInv, [Next]_vars PROVE ChainInv'
  OBVIOUS
<1>1. CASE UNCHANGED vars
  BY <1>1 DEF vars, treeVars, ChainInv, Types, Numbered, LinksAreSound, TipIsLinked, CandidatesAreSound,
              DiskIsBehind, DiskTipIsIndexed, WalkIsNew
<1>2. ASSUME NEW b \in Blocks,
             \/ AcceptBlockHeader(b) \/ AcceptMisplacedBlock(b) \/ AcceptBlock(b) \/ BeginWalk(b)
             \/ AcceptOnCheckpoint(b) \/ InvalidateBlock(b) \/ ReconsiderBlock(b) \/ CrashInInvalidateBlock(b)
      PROVE  ChainInv'
  BY <1>2, AcceptBlockHeaderHolds, AcceptMisplacedBlockHolds, AcceptBlockHolds, BeginWalkHolds,
     AcceptOnCheckpointHolds, InvalidateBlockHolds, ReconsiderBlockHolds, CrashInInvalidateBlockHolds
<1>3. CASE WalkOn
  BY <1>3, WalkOnHolds
<1>4. CASE ActivateBestChain
  BY <1>4, ActivateBestChainHolds
<1>5. CASE DisconnectBlocks
  BY <1>5, DisconnectBlocksHolds
<1>6. CASE OpinionChanges
  BY <1>6, OpinionChangesHolds
<1>7. CASE FlushState
  BY <1>7, FlushStateHolds
<1>8. CASE Crash
  BY <1>8, CrashHolds
<1> QED
  BY <1>1, <1>2, <1>3, <1>4, <1>5, <1>6, <1>7, <1>8 DEF Next


(* It includes the types. *)
LEMMA ChainInvImpliesType == ChainInv => TypeOK
<1> SUFFICES ASSUME ChainInv PROVE TypeOK
  OBVIOUS
<1> USE DEF ChainInv
<1>1. /\ {Genesis, tip} \subseteq index /\ index \subseteq All
      /\ {data, linked, failedValid, failedChild, cand} \subseteq SUBSET index
  BY DEF Types, LinksAreSound, TipIsLinked, CandidatesAreSound
<1>2. nextSeq \in Nat \ {0} /\ nextSeq <= Cardinality(Blocks) + 1 /\ Cardinality(Blocks) \in Nat
  <2>1. linked \ {Genesis} \subseteq Blocks
    BY LinkedLine, Tree
  <2> DEFINE some == linked \ {Genesis}
  <2> HIDE DEF some
  <2>2. some \subseteq Blocks
    BY <2>1 DEF some
  <2>3. IsFiniteSet(some) /\ Cardinality(some) <= Cardinality(Blocks)
    BY <2>2, TreeAssumption, FS_Subset
  <2>4. Cardinality(some) \in Nat /\ Cardinality(Blocks) \in Nat
    BY <2>3, TreeAssumption, FS_CardinalityType
  <2>5. nextSeq \in Nat \ {0} /\ nextSeq <= Cardinality(some) + 1
    BY Zenon DEF Numbered, some
  <2> QED
    BY <2>3, <2>4, <2>5
<1>3. seq \in [All -> 0..Cardinality(Blocks)]
  <2>1. \A b \in All : seq[b] \in Nat /\ seq[b] < nextSeq
    BY DEF Numbered
  <2>2. \A b \in All : seq[b] \in 0..Cardinality(Blocks)
    BY <1>2, <2>1
  <2>3. seq = [b \in All |-> seq[b]]
    BY DEF Numbered
  <2> QED
    BY <2>2, <2>3
<1>4. unlinked \subseteq All \X Blocks
  <2>1. \A y \in data \ (linked \cup {Genesis}) : y \in Blocks /\ Parent[y] \in All
    BY Tree DEF Types
  <2> QED
    BY <2>1 DEF LinksAreSound
<1>5. Cardinality(walk) <= 1
  <2>1. CASE walk = {}
    <3>1. Cardinality(walk) = 0
      BY <2>1, FS_EmptySet, Zenon
    <3> QED
      BY <3>1
  <2>2. CASE walk # {}
    <3>1. PICK w \in walk : TRUE
      BY <2>2
    <3>2. walk = {w}
      BY <3>1 DEF WalkIsNew
    <3>3. Cardinality(walk) = 1
      BY <3>2, FS_Singleton, Zenon
    <3> QED
      BY <3>3
  <2> QED
    BY <2>1, <2>2
<1>6. nextSeq \in 1..Cardinality(Blocks) + 1
  BY <1>2
<1> QED
  BY <1>1, <1>3, <1>4, <1>5, <1>6 DEF TypeOK, Types, WalkIsNew

(* The state stays well formed: every tip and candidate has an entry, at     *)
(* most one walk down a fork is under way, and sequence numbers never run    *)
(* past the number of blocks.                                                *)
THEOREM ChainTypeCorrect == Spec => []TypeOK
<1>1. Spec => []ChainInv
  BY ChainInvInit, ChainInvStep, PTL DEF Spec
<1> QED
  BY <1>1, ChainInvImpliesType, PTL

(* CheckBlockIndex's links: nChainTx is set for exactly the blocks whose     *)
(* line has all its data, and mapBlocksUnlinked holds exactly the others     *)
(* that have theirs, in whatever order blocks arrive and wherever the node   *)
(* restarts.                                                                 *)
THEOREM LinksCorrect == Spec => []LinksAreSound
<1>1. Spec => []ChainInv
  BY ChainInvInit, ChainInvStep, PTL DEF Spec
<1>2. ChainInv => LinksAreSound
  BY DEF ChainInv
<1> QED
  BY <1>1, <1>2, PTL

(* Whatever command runs and wherever the node crashes, setBlockIndexCandidates *)
(* has linked blocks no worse than the tip only, and the coins on disk name a   *)
(* block that is on disk with its ancestors.                                    *)
THEOREM IndexCorrect == Spec => []IndexIsUsable
<1>1. Spec => []ChainInv
  BY ChainInvInit, ChainInvStep, PTL DEF Spec
<1>2. ChainInv => IndexIsUsable
  BY DEF ChainInv, IndexIsUsable
<1> QED
  BY <1>1, <1>2, PTL


-----------------------------------------------------------------------------
(* The marks.  Unless the process is killed inside InvalidateBlock, the      *)
(* chain that the coins are on is never marked, in memory or on disk, and so *)
(* the node starts from whatever a crash leaves.                             *)

(* The coins on disk are those of the tip or of a block below it: a reorg    *)
(* flushes when it disconnects.                                              *)
DiskTipIsBelow == disk.tip \in Line[tip]

(* A mark on disk that is no longer in memory will be overwritten. *)
OldMarksAreDirty == disk.failedValid \ dirty \subseteq failedValid /\ disk.failedChild \ dirty \subseteq failedChild

MarkInv ==
    /\ ChainInv
    /\ ActiveChainIsUnmarked
    /\ StartsUp
    /\ DiskTipIsBelow
    /\ OldMarksAreDirty

(* What a flush leaves on disk of the marks. *)
LEMMA MarksAreWritten ==
    ASSUME DiskIsBehind, OldMarksAreDirty, NEW D \in SUBSET Blocks, dirty \subseteq D,
           NEW fv \in SUBSET index, failedValid \subseteq fv, NEW fc \in SUBSET index, failedChild \subseteq fc,
           NEW best \in All
    PROVE  /\ WriteIndex(disk, D, fv, fc).failedValid \subseteq fv
           /\ WriteIndex(disk, D, fv, fc).failedChild \subseteq fc
           /\ WriteAll(disk, D, fv, fc, best).failedValid \subseteq fv
           /\ WriteAll(disk, D, fv, fc, best).failedChild \subseteq fc
<1> DEFINE put(old, now) == (old \ D) \cup (now \cap D)
<1>1. put(disk.failedValid, fv) \subseteq fv /\ put(disk.failedChild, fc) \subseteq fc
  BY DEF OldMarksAreDirty
<1>2. WriteIndex(disk, D, fv, fc)
        = [disk EXCEPT !.index = put(@, index), !.data = put(@, data),
                       !.failedValid = put(@, fv), !.failedChild = put(@, fc)]
  BY DEF WriteIndex
<1>3. disk \in DiskType
  BY DEF DiskIsBehind, DiskType
<1> QED
  BY <1>1, <1>2, <1>3 DEF DiskType, WriteAll

(* A complete flush leaves the tip it was called with. *)
LEMMA CoinsAreWritten ==
    ASSUME DiskIsBehind, NEW D, NEW fv, NEW fc, NEW best \in All
    PROVE  WriteAll(disk, D, fv, fc, best).tip = best
<1>1. disk \in DiskType
  BY DEF DiskIsBehind, DiskType
<1> QED
  BY <1>1 DEF DiskType, WriteAll, WriteIndex

(* What the other actions leave of MarkInv when neither the tip nor the disk *)
(* changes, and no block of the active chain is marked.                      *)
LEMMA MarksAside ==
    ASSUME MarkInv, tip' = tip, disk' = disk, up' = up, linked \subseteq linked', dirty \subseteq dirty',
           Line[tip] \cap (failedValid' \cup failedChild') = {},
           failedValid \ dirty' \subseteq failedValid', failedChild \ dirty' \subseteq failedChild'
    PROVE  ActiveChainIsUnmarked' /\ StartsUp' /\ DiskTipIsBelow' /\ OldMarksAreDirty'
  BY DEF MarkInv, ActiveChainIsUnmarked, StartsUp, DiskTipIsBelow, OldMarksAreDirty, Failed

(* After a flush that leaves the coins at or below an unmarked tip. *)
LEMMA MarksFlushed ==
    ASSUME MarkInv, NEW D \in SUBSET Blocks, dirty \subseteq D,
           NEW fv \in SUBSET index, failedValid \subseteq fv, NEW fc \in SUBSET index, failedChild \subseteq fc,
           tip' \in linked, linked' = linked, NEW best \in Line[tip'],
           disk' = WriteAll(disk, D, fv, fc, best), fv \subseteq failedValid', fc \subseteq failedChild',
           Line[tip'] \cap (failedValid' \cup failedChild') = {}, up' = up
    PROVE  ActiveChainIsUnmarked' /\ StartsUp' /\ DiskTipIsBelow' /\ OldMarksAreDirty'
<1>1. DiskIsBehind /\ OldMarksAreDirty
  BY DEF MarkInv, ChainInv
<1>2. Line[tip'] \subseteq linked /\ Line[best] \subseteq Line[tip'] /\ best \in All
  BY LinkedLine, LineTransitive DEF MarkInv, ChainInv
<1>3. disk'.failedValid \subseteq fv /\ disk'.failedChild \subseteq fc
  BY <1>1, <1>2, MarksAreWritten
<1>4. disk'.tip = best
  BY <1>1, <1>2, CoinsAreWritten
<1> QED
  BY <1>2, <1>3, <1>4 DEF MarkInv, ActiveChainIsUnmarked, StartsUp, DiskTipIsBelow, OldMarksAreDirty, Failed

(* A node that starts from an unmarked chain has a candidate: the tip. *)
LEMMA MarksLoaded ==
    ASSUME NEW d, Startable(d), Load(d), Line[d.tip] \cap (d.failedValid \cup d.failedChild) = {}
    PROVE  ActiveChainIsUnmarked' /\ StartsUp' /\ DiskTipIsBelow' /\ OldMarksAreDirty'
<1> DEFINE link == {b \in d.index : Line[b] \subseteq d.data}
           best == {b \in link \ (d.failedValid \cup d.failedChild) :
                        Work[b] > Work[d.tip] \/ (Work[b] = Work[d.tip] /\ Addr[b] <= Addr[d.tip])}
<1>1. /\ disk' = d /\ linked' = link /\ failedValid' = d.failedValid /\ failedChild' = d.failedChild
      /\ tip' = d.tip /\ up' = (best # {})
  BY DEF Load
<1>2. d.tip \in All /\ d.tip \in Line[d.tip] /\ d.index \subseteq All /\ Line[d.tip] \subseteq d.index \cap d.data
  BY LineIsLeast DEF Startable, DiskType
<1>3. Line[d.tip] \subseteq link
  BY <1>2, LineTransitive
<1>4. d.tip \in best
  <2>1. Work[d.tip] \in Nat /\ Addr[d.tip] \in Nat
    BY <1>2, TreeAssumption
  <2> QED
    BY <1>2, <1>3, <2>1
<1> HIDE DEF link, best
<1> QED
  BY <1>1, <1>2, <1>3, <1>4 DEF ActiveChainIsUnmarked, StartsUp, DiskTipIsBelow, OldMarksAreDirty, Failed

(* Whatever FindMostWorkChain marks, a line without a mark stays without. *)
LEMMA UnmarkedStays ==
    ASSUME ChainInv, NEW b \in All, Line[b] \cap Failed = {}
    PROVE  Line[b] \cap FindMostWorkChain({c \in cand : ~Unusable(c)}).failedChild = {}
<1> DEFINE usable == {c \in cand : ~Unusable(c)}
<1>1. ASSUME NEW c \in cand \ usable, NEW x \in AboveMark(c), x \in Line[b] PROVE FALSE
  <2>1. PICK y \in Path(c) \cap Failed : TRUE
    BY DEF Unusable
  <2>2. c \in All /\ x \in Line[c] /\ y \in Line[c] /\ Height[x] > Height[y]
    BY LinkedLine DEF AboveMark, Path, ChainInv, CandidatesAreSound
  <2>3. x \in All /\ y \in All /\ Height[x] \in Nat /\ Height[y] \in Nat
    BY <2>2, LineIsLeast, Heights
  <2>4. y \in Line[x]
    BY <2>2, <2>3, LineIsLinear, AncestorsAreLess
  <2> QED
    BY <1>1, <2>1, <2>4, LineTransitive
<1>2. Line[b] \cap failedChild = {}
  BY DEF Failed
<1> HIDE DEF usable
<1>3. FindMostWorkChain(usable).failedChild
        \subseteq failedChild \cup UNION {AboveMark(c) : c \in cand \ usable}
  BY DEF FindMostWorkChain
<1>4. Line[b] \cap FindMostWorkChain(usable).failedChild = {}
  BY <1>1, <1>2, <1>3
<1> QED
  BY <1>4 DEF usable


(* invalidateblock marks what it has disconnected, and the tip it leaves is  *)
(* below the marks.                                                          *)
LEMMA InvalidateBlockMarks ==
    ASSUME MarkInv, NEW b \in Blocks, InvalidateBlock(b)
    PROVE  ActiveChainIsUnmarked' /\ StartsUp' /\ DiskTipIsBelow' /\ OldMarksAreDirty'
<1> DEFINE gone == DisconnectedBy(b)
           fv   == failedValid \cup {b}
           fc   == failedChild \cup gone
<1>0. ChainInv
  BY DEF MarkInv
<1>1. /\ failedValid' = fv /\ failedChild' = fc /\ up' = up /\ linked' = linked /\ b \in index
      /\ IF gone = {} THEN dirty' = dirty \cup {b} /\ UNCHANGED disk
         ELSE dirty' = {} /\ disk' = WriteAll(disk, dirty \cup gone, fv, fc, tip')
  BY DEF InvalidateBlock
<1>2. /\ b \notin Line[tip] => tip' = tip /\ gone = {}
      /\ b \in Line[tip] => gone # {}
      /\ tip' \in Line[tip] /\ gone \subseteq linked /\ gone \subseteq Blocks
      /\ Line[tip'] \cap (gone \cup {b}) = {}
  BY <1>0, InvalidateShape
<1>3. tip \in All /\ Line[tip] \cap Failed = {} /\ Line[tip'] \subseteq Line[tip] /\ Line[tip] \subseteq linked /\ linked \subseteq index
  BY <1>0, <1>2, LinkedLine, LineTransitive DEF ChainInv, TipIsLinked, LinksAreSound, MarkInv, ActiveChainIsUnmarked
<1> HIDE DEF gone
<1>4. Line[tip'] \cap (fv \cup fc) = {}
  BY <1>2, <1>3 DEF Failed
<1>5. fv \in SUBSET index /\ fc \in SUBSET index /\ dirty \cup gone \in SUBSET Blocks
  BY <1>0, <1>1, <1>2, <1>3 DEF ChainInv, Types
<1>6. CASE gone = {}
  <2>1. tip' = tip /\ disk' = disk /\ dirty' = dirty \cup {b}
    BY <1>1, <1>2, <1>6
  <2> QED
    BY <1>1, <1>4, <2>1, MarksAside
<1>7. CASE gone # {}
  <2>1. disk' = WriteAll(disk, dirty \cup gone, fv, fc, tip') /\ tip' \in Line[tip'] /\ tip' \in linked
    BY <1>1, <1>2, <1>3, <1>7, LineIsLeast
  <2>2. failedValid \subseteq fv /\ failedChild \subseteq fc /\ dirty \subseteq dirty \cup gone
    OBVIOUS
  <2> HIDE DEF fv, fc
  <2> QED
    BY <1>1, <1>4, <1>5, <2>1, <2>2, MarksFlushed
<1> QED
  BY <1>6, <1>7

(* A round of ActivateBestChain moves along a line without marks and marks   *)
(* what is beside it.                                                        *)
LEMMA ActivateBestChainMarks ==
    ASSUME MarkInv, ActivateBestChain
    PROVE  ActiveChainIsUnmarked' /\ StartsUp' /\ DiskTipIsBelow' /\ OldMarksAreDirty'
<1> DEFINE found == FindMostWorkChain({c \in cand : ~Unusable(c)})
<1>0. ChainInv
  BY DEF MarkInv
<1>1. /\ found.best \subseteq cand /\ found.cand \subseteq cand /\ found.failedChild \subseteq index \ {Genesis}
      /\ failedChild \subseteq found.failedChild
      /\ \A c \in found.best : Path(c) \cap Failed = {}
  BY <1>0, ActivateCases DEF FindMostWorkChain, Unusable
<1>2. UNCHANGED <<index, data, linked, seq, nextSeq, unlinked, refused, walk, up, left>>
  BY <1>0, ActivateCases
<1>3. tip \in All /\ Line[tip] \cap Failed = {} /\ tip \in linked /\ Line[tip] \subseteq linked
  BY <1>0, LinkedLine DEF MarkInv, ChainInv, TipIsLinked, ActiveChainIsUnmarked
<1>4. \A x \in All : Line[x] \cap Failed = {} => Line[x] \cap found.failedChild = {}
  BY <1>0, UnmarkedStays
<1>5. \/ /\ found.best \subseteq {tip} /\ cand' = found.cand /\ failedChild' = found.failedChild
         /\ activating' = FALSE /\ UNCHANGED <<tip, failedValid, dirty, disk, rejected>>
      \/ \E most \in found.best \ {tip}, fresh \in refused \cup {Genesis}, turned \in SUBSET Blocks :
            Outcome(most, found, fresh, turned)
  BY <1>0, ActivateCases
<1> HIDE DEF found
<1>6. CASE failedChild' = found.failedChild /\ UNCHANGED <<tip, failedValid, dirty, disk, rejected>>
  <2>1. Line[tip] \cap (failedValid' \cup failedChild') = {}
    BY <1>3, <1>4, <1>6 DEF Failed
  <2> QED
    BY <1>1, <1>2, <1>6, <2>1, MarksAside
<1>7. ASSUME NEW most \in found.best, NEW fresh, NEW turned \in SUBSET Blocks, Outcome(most, found, fresh, turned)
      PROVE  ActiveChainIsUnmarked' /\ StartsUp' /\ DiskTipIsBelow' /\ OldMarksAreDirty'
  <2> DEFINE bad == InvalidBlockFound(turned)
  <2>1. /\ tip' \in Line[most] /\ Fork(tip, most) \in Line[tip']
        /\ failedValid' = failedValid \cup bad
        /\ failedChild' = found.failedChild
        /\ \A x \in bad : x \in Blocks /\ Parent[x] = tip'
        /\ \/ Fork(tip, most) = tip /\ disk' = disk /\ dirty' = dirty \cup bad
           \/ \E f \in Line[tip'] : disk' = WriteAll(disk, dirty, failedValid, found.failedChild, f)
    BY <1>7 DEF Outcome, InvalidBlockFound
  <2> HIDE DEF bad
  <2>2. most \in All /\ Line[most] \subseteq linked /\ Line[most] \cap Failed = {}
    BY <1>0, <1>1, <1>3, LinkedLine DEF ChainInv, CandidatesAreSound, Path
  <2>3. tip' \in linked /\ tip' \in All /\ Line[tip'] \subseteq linked /\ Line[tip'] \subseteq Line[most]
    BY <1>0, <2>1, <2>2, LinkedLine, LineTransitive DEF ChainInv
  <2>4. Line[tip'] \cap (failedValid' \cup failedChild') = {}
    <3>1. Line[tip'] \cap bad = {}
      BY <2>1, NotItsOwnAncestor
    <3> QED
      BY <1>4, <2>1, <2>2, <2>3, <3>1 DEF Failed
  <2>5. CASE Fork(tip, most) = tip /\ disk' = disk /\ dirty' = dirty \cup bad
    <3>1. disk.tip \in Line[tip'] /\ Line[tip'] \subseteq linked'
      BY <1>2, <2>1, <2>3, <2>5, LineTransitive DEF MarkInv, DiskTipIsBelow
    <3> QED
      BY <1>1, <1>2, <2>1, <2>4, <2>5, <3>1
      DEF MarkInv, ActiveChainIsUnmarked, StartsUp, DiskTipIsBelow, OldMarksAreDirty, Failed
  <2>6. CASE \E f \in Line[tip'] : disk' = WriteAll(disk, dirty, failedValid, found.failedChild, f)
    <3>1. PICK f \in Line[tip'] : disk' = WriteAll(disk, dirty, failedValid, found.failedChild, f)
      BY <2>6
    <3>2. dirty \in SUBSET Blocks /\ failedValid \in SUBSET index /\ found.failedChild \in SUBSET index
      BY <1>0, <1>1 DEF ChainInv, Types
    <3> QED
      BY <1>1, <1>2, <2>1, <2>3, <2>4, <3>1, <3>2, MarksFlushed
  <2> QED
    BY <2>1, <2>5, <2>6
<1> QED
  BY <1>5, <1>6, <1>7


(* The process dies and starts again from an unmarked chain. *)
LEMMA CrashMarks ==
    ASSUME MarkInv, Crash
    PROVE  ActiveChainIsUnmarked' /\ StartsUp' /\ DiskTipIsBelow' /\ OldMarksAreDirty'
<1> USE DEF MarkInv, ChainInv
<1>1. CASE Load(disk)
  <2>1. Startable(disk)
    BY DEF Startable, DiskIsBehind, DiskTipIsIndexed, DiskType
  <2>2. Line[disk.tip] \cap (disk.failedValid \cup disk.failedChild) = {}
    BY DEF ActiveChainIsUnmarked
  <2> QED
    BY <1>1, <2>1, <2>2, MarksLoaded
<1>2. CASE Load(WriteFirst(disk, dirty, failedValid, failedChild, tip))
  <2> DEFINE d == WriteIndex(disk, dirty, failedValid, failedChild)
  <2>1. /\ d \in DiskType /\ d.index = index /\ d.data = data /\ Genesis \in data
        /\ d.failedValid \subseteq index /\ d.failedChild \subseteq index /\ d.tip = disk.tip
    BY IndexIsWritten DEF Types
  <2>2. Load(d)
    BY <1>2 DEF WriteFirst
  <2>3. d.failedValid \subseteq failedValid /\ d.failedChild \subseteq failedChild
    <3>1. dirty \in SUBSET Blocks /\ failedValid \in SUBSET index /\ failedChild \in SUBSET index /\ Genesis \in All
      BY Tree DEF Types
    <3> QED
      BY <3>1, MarksAreWritten
  <2> HIDE DEF d
  <2>4. Startable(d)
    BY <2>1 DEF Startable, DiskIsBehind, DiskTipIsIndexed, Types
  <2>5. Line[disk.tip] \subseteq Line[tip] /\ Line[tip] \cap Failed = {}
    BY LinkedLine, LineTransitive DEF DiskTipIsBelow, ActiveChainIsUnmarked, TipIsLinked
  <2>6. Line[d.tip] \cap (d.failedValid \cup d.failedChild) = {}
    BY <2>1, <2>3, <2>5 DEF Failed
  <2> QED
    BY <2>2, <2>4, <2>6, MarksLoaded
<1> QED
  BY <1>1, <1>2 DEF Crash

(* Flushes of the tip or of a block below it. *)
LEMMA FlushMarks ==
    ASSUME MarkInv, tip' \in Line[tip], disk' = WriteAll(disk, dirty, failedValid, failedChild, tip'),
           UNCHANGED <<linked, failedValid, failedChild, up>>
    PROVE  ActiveChainIsUnmarked' /\ StartsUp' /\ DiskTipIsBelow' /\ OldMarksAreDirty'
<1>1. /\ tip \in All /\ Line[tip] \cap Failed = {} /\ Line[tip] \subseteq linked
      /\ dirty \in SUBSET Blocks /\ failedValid \in SUBSET index /\ failedChild \in SUBSET index
  BY LinkedLine DEF MarkInv, ChainInv, TipIsLinked, ActiveChainIsUnmarked, Types
<1>2. tip' \in linked /\ tip' \in Line[tip'] /\ Line[tip'] \subseteq Line[tip]
  BY <1>1, LineTransitive, LineIsLeast
<1>3. Line[tip'] \cap (failedValid' \cup failedChild') = {}
  BY <1>1, <1>2 DEF Failed
<1> QED
  BY <1>1, <1>2, <1>3, MarksFlushed

(* Without kill every step keeps the marks off the active chain. *)
LEMMA MarkInvStep ==
    ASSUME "kill" \notin Commands
    PROVE  MarkInv /\ [Next]_vars => MarkInv'
<1> SUFFICES ASSUME MarkInv, [Next]_vars
             PROVE  ActiveChainIsUnmarked' /\ StartsUp' /\ DiskTipIsBelow' /\ OldMarksAreDirty'
  BY ChainInvStep DEF MarkInv
<1>0. /\ ChainInv /\ Line[tip] \cap Failed = {} /\ Line[tip] \subseteq linked /\ tip \in Line[tip]
      /\ linked \subseteq data
  BY LinkedLine, LineIsLeast DEF MarkInv, ActiveChainIsUnmarked, ChainInv, TipIsLinked
<1>1. CASE UNCHANGED <<tip, disk, up, linked, dirty, failedValid, failedChild>>
  BY <1>0, <1>1, MarksAside DEF Failed
<1>2. CASE UNCHANGED vars \/ WalkOn \/ OpinionChanges
  BY <1>1, <1>2 DEF vars, treeVars, WalkOn, OpinionChanges
<1>3. ASSUME NEW b \in Blocks, AcceptBlockHeader(b) \/ BeginWalk(b) \/ AcceptBlock(b)
      PROVE  ActiveChainIsUnmarked' /\ StartsUp' /\ DiskTipIsBelow' /\ OldMarksAreDirty'
  <2>1. /\ UNCHANGED <<tip, disk, up, failedValid, failedChild>> /\ dirty' = dirty \cup {b}
        /\ linked \subseteq linked'
    BY <1>3 DEF AcceptBlockHeader, BeginWalk, AcceptBlock
  <2> QED
    BY <1>0, <2>1, MarksAside DEF Failed
<1>4. ASSUME NEW b \in Blocks, AcceptMisplacedBlock(b)
      PROVE  ActiveChainIsUnmarked' /\ StartsUp' /\ DiskTipIsBelow' /\ OldMarksAreDirty'
  <2>1. /\ UNCHANGED <<tip, disk, up, linked, failedChild>> /\ dirty' = dirty \cup {b}
        /\ failedValid' = failedValid \cup {b} /\ b \notin data
    BY <1>4 DEF AcceptMisplacedBlock
  <2> QED
    BY <1>0, <2>1, MarksAside DEF Failed
<1>5. ASSUME NEW b \in All, Reconsider(b), UNCHANGED <<tip, disk, up, linked>>
      PROVE  ActiveChainIsUnmarked' /\ StartsUp' /\ DiskTipIsBelow' /\ OldMarksAreDirty'
  <2> DEFINE gone == {x \in index \cap Failed : b \in Line[x]} \cup (Line[b] \cap Failed)
  <2>1. failedValid' = failedValid \ gone /\ failedChild' = failedChild \ gone /\ dirty' = dirty \cup gone
    BY <1>5 DEF Reconsider
  <2> HIDE DEF gone
  <2> QED
    BY <1>0, <1>5, <2>1, MarksAside DEF Failed
<1>6. ASSUME NEW b \in Blocks, AcceptOnCheckpoint(b) \/ ReconsiderBlock(b)
      PROVE  ActiveChainIsUnmarked' /\ StartsUp' /\ DiskTipIsBelow' /\ OldMarksAreDirty'
  BY <1>5, <1>6, Tree DEF AcceptOnCheckpoint, ReconsiderBlock
<1>7. ASSUME NEW b \in Blocks, CrashInInvalidateBlock(b) PROVE FALSE
  BY <1>7 DEF CrashInInvalidateBlock, Command
<1>8. CASE DisconnectBlocks \/ FlushState
  <2>1. /\ disk' = WriteAll(disk, dirty, failedValid, failedChild, tip')
        /\ UNCHANGED <<linked, failedValid, failedChild, up>>
    BY <1>8 DEF DisconnectBlocks, FlushState, treeVars
  <2>2. tip' \in Line[tip]
    BY <1>0, <1>8, DisconnectedTip DEF FlushState
  <2> QED
    BY <2>1, <2>2, FlushMarks
<1> QED
  BY <1>2, <1>3, <1>4, <1>6, <1>7, <1>8, InvalidateBlockMarks, ActivateBestChainMarks, CrashMarks DEF Next

(* At first nothing is marked. *)
LEMMA MarkInvInit == Init => MarkInv
<1> SUFFICES ASSUME Init PROVE MarkInv
  OBVIOUS
<1>1. ActiveChainIsUnmarked /\ StartsUp /\ DiskTipIsBelow /\ OldMarksAreDirty
  BY LineOfGenesis DEF Init, ActiveChainIsUnmarked, StartsUp, DiskTipIsBelow, OldMarksAreDirty, Failed
<1> QED
  BY <1>1, ChainInvInit DEF MarkInv

(* Without a kill inside InvalidateBlock, no block of the active chain is    *)
(* marked, in memory or on disk, and the assertion of                        *)
(* PruneBlockIndexCandidates never ends the process at start-up, whatever    *)
(* commands run and wherever else it crashes.                                *)
THEOREM ChainIsUnmarked ==
    ASSUME "kill" \notin Commands
    PROVE  Spec => [](ActiveChainIsUnmarked /\ StartsUp)
<1>1. Init => MarkInv
  BY MarkInvInit
<1>2. MarkInv /\ [Next]_vars => MarkInv'
  BY MarkInvStep
<1>3. MarkInv => ActiveChainIsUnmarked /\ StartsUp
  BY DEF MarkInv
<1> QED
  BY <1>1, <1>2, <1>3, PTL DEF Spec

-----------------------------------------------------------------------------
(* The best chain.  CheckBlockIndex and ActivateBestChain are right as long  *)
(* as a block that was found valid stays valid and no mark is taken back.    *)

(* No vote or lock turns a block down, no checkpoint and no command takes a  *)
(* mark back, and no kill comes inside InvalidateBlock.                      *)
Undisputed == Contested = {} /\ Checkpointed = {} /\ Commands \cap {"reconsider", "kill"} = {}

(* What no command but a reconsideration undoes: the blocks that were found  *)
(* invalid are known on disk, or will be.                                    *)
CausesAreKept ==
    /\ MarksHaveACause
    /\ disk.failedValid \subseteq failedValid /\ failedValid \ dirty \subseteq disk.failedValid
    /\ \A b \in disk.failedValid \cup disk.failedChild : Line[b] \cap disk.failedValid # {}

(* A candidate that nothing but InvalidateBlock can turn down. *)
Lasting(c) == c \in cand /\ Line[c] \cap (Failed \cup Invalid) = {}

(* A valid block that is as good as the tip is a candidate, or a better one  *)
(* stays candidate: the tip of before, when a reorg was broken off.          *)
CandidatesSuffice ==
    \A b \in linked :
        ~Worse(seq, b, tip) /\ Line[b] \cap failedValid = {} =>
            b \in cand \/ \E c \in cand : Lasting(c) /\ Worse(seq, b, c)

ChosenWell ==
    /\ Line[tip] \cap Invalid = {}
    /\ CandidatesSuffice
    /\ CandidatesExactAtRest
    /\ TipIsBest

BestInv == MarkInv /\ CausesAreKept /\ ChosenWell


(* CBlockIndexWorkComparator is a strict total order. *)
LEMMA WorseIsTotal ==
    ASSUME NEW sq \in [All -> Nat], NEW a \in All, NEW b \in All, NEW c \in All
    PROVE  /\ a = b \/ Worse(sq, a, b) \/ Worse(sq, b, a)
           /\ Worse(sq, a, b) /\ Worse(sq, b, c) => Worse(sq, a, c)
           /\ ~Worse(sq, a, a)
<1>1. /\ Work[a] \in Nat /\ Work[b] \in Nat /\ Work[c] \in Nat
      /\ sq[a] \in Nat /\ sq[b] \in Nat /\ sq[c] \in Nat
      /\ Addr[a] \in Nat /\ Addr[b] \in Nat /\ Addr[c] \in Nat
      /\ Addr[a] = Addr[b] => a = b
  BY TreeAssumption
<1>2. a = b \/ Worse(sq, a, b) \/ Worse(sq, b, a)
  BY <1>1 DEF Worse
<1>3. Worse(sq, a, b) /\ Worse(sq, b, c) => Worse(sq, a, c)
  BY <1>1 DEF Worse
<1> QED
  BY <1>1, <1>2, <1>3 DEF Worse

(* So the last of finitely many blocks exists. *)
LEMMA BestExists ==
    ASSUME NEW sq \in [All -> Nat], NEW S \in SUBSET All, S # {}
    PROVE  \E m \in S : \A d \in S : ~Worse(sq, m, d)
<1> DEFINE above(c) == {d \in S : Worse(sq, c, d)}
           T == {above(c) : c \in S}
<1>1. IsFiniteSet(S)
  <2>1. IsFiniteSet(Blocks) /\ All = Blocks \cup {Genesis}
    BY TreeAssumption DEF All
  <2>2. IsFiniteSet(All)
    BY <2>1, FS_AddElement
  <2> QED
    BY <2>2, FS_Subset
<1>2. IsWellFoundedOn(StrictSubsetOrdering(S), FiniteSubsetsOf(S))
  BY <1>1, FS_StrictSubsetOrderingWellFounded
<1>3. T \subseteq FiniteSubsetsOf(S) /\ T # {}
  <2>1. \A c \in S : above(c) \subseteq S /\ IsFiniteSet(above(c))
    BY <1>1, FS_Subset
  <2> QED
    BY <2>1 DEF FiniteSubsetsOf
<1>4. PICK x \in T : \A y \in T : ~(<<y, x>> \in StrictSubsetOrdering(S))
  BY <1>2, <1>3, WFMin
<1>5. PICK m \in S : x = above(m)
  OBVIOUS
<1>6. ASSUME NEW d \in S, Worse(sq, m, d) PROVE FALSE
  <2>1. m \in All /\ d \in All
    OBVIOUS
  <2>2. \A e \in S : Worse(sq, d, e) => Worse(sq, m, e)
    BY <1>6, <2>1, WorseIsTotal
  <2>3. above(d) \subseteq above(m) /\ d \in above(m) /\ d \notin above(d)
    BY <1>6, <2>1, <2>2, WorseIsTotal
  <2>4. <<above(d), above(m)>> \in StrictSubsetOrdering(S)
    BY <2>3 DEF StrictSubsetOrdering
  <2> QED
    BY <1>4, <1>5, <2>4
<1> QED
  BY <1>6


(* Under a valid line nothing is marked. *)
LEMMA ValidIsUnmarked ==
    ASSUME Types, MarksHaveACause, NEW b \in All, Line[b] \cap failedValid = {}
    PROVE  Line[b] \cap Failed = {}
  BY LineTransitive DEF MarksHaveACause

(* FindMostWorkChain drops no candidate without a mark on its line. *)
LEMMA UnmarkedStaysCandidate ==
    ASSUME ChainInv, NEW b \in cand, Line[b] \cap Failed = {}
    PROVE  b \in FindMostWorkChain({c \in cand : ~Unusable(c)}).cand
<1> DEFINE usable == {c \in cand : ~Unusable(c)}
<1>1. ASSUME NEW c \in cand \ usable, b \in FromMark(c) PROVE FALSE
  <2>1. PICK y \in Path(c) \cap Failed : TRUE
    BY DEF Unusable
  <2>2. c \in All /\ b \in Line[c] /\ y \in Line[c] /\ Height[b] >= Height[y]
    BY <1>1, LinkedLine DEF FromMark, Path, ChainInv, CandidatesAreSound
  <2>3. b \in All /\ y \in All /\ Height[b] \in Nat /\ Height[y] \in Nat /\ b \in Line[b]
    BY <2>2, LineIsLeast, Heights
  <2>4. y \in Line[b]
    BY <2>2, <2>3, LineIsLinear, AncestorsAreLess
  <2> QED
    BY <2>1, <2>4
<1> HIDE DEF usable
<1>2. b \in FindMostWorkChain(usable).cand
  BY <1>1 DEF FindMostWorkChain
<1> QED
  BY <1>2 DEF usable

(* Every mark that FindMostWorkChain sets is above a mark that was there. *)
LEMMA FoundHasACause ==
    ASSUME ChainInv, MarksHaveACause,
           NEW x \in FindMostWorkChain({c \in cand : ~Unusable(c)}).failedChild
    PROVE  Line[x] \cap failedValid # {}
<1> DEFINE usable == {c \in cand : ~Unusable(c)}
<1>1. ASSUME NEW c \in cand \ usable, x \in AboveMark(c) PROVE Line[x] \cap failedValid # {}
  <2>1. PICK y \in Path(c) \cap Failed : TRUE
    BY DEF Unusable
  <2>2. c \in All /\ x \in Line[c] /\ y \in Line[c] /\ Height[x] > Height[y]
    BY <1>1, LinkedLine DEF AboveMark, Path, ChainInv, CandidatesAreSound
  <2>3. x \in All /\ y \in All /\ Height[x] \in Nat /\ Height[y] \in Nat
    BY <2>2, LineIsLeast, Heights
  <2>4. y \in Line[x]
    BY <2>2, <2>3, LineIsLinear, AncestorsAreLess
  <2> QED
    BY <2>1, <2>3, <2>4, LineTransitive DEF MarksHaveACause
<1> HIDE DEF usable
<1>2. FindMostWorkChain(usable).failedChild
        \subseteq failedChild \cup UNION {AboveMark(c) : c \in cand \ usable}
  BY DEF FindMostWorkChain
<1>3. x \in failedChild \/ \E c \in cand \ usable : x \in AboveMark(c)
  BY <1>2 DEF usable
<1> QED
  BY <1>1, <1>3 DEF MarksHaveACause, Failed

-----------------------------------------------------------------------------
(* CausesAreKept *)

(* A flush writes every block that was found invalid. *)
LEMMA CausesAreWritten ==
    ASSUME DiskIsBehind, CausesAreKept, NEW D \in SUBSET Blocks, dirty \subseteq D,
           NEW fv \in SUBSET index, failedValid \subseteq fv, fv \ failedValid \subseteq D, NEW fc \in SUBSET index,
           NEW best \in All
    PROVE  WriteIndex(disk, D, fv, fc).failedValid = fv /\ WriteAll(disk, D, fv, fc, best).failedValid = fv
<1> DEFINE put(old, now) == (old \ D) \cup (now \cap D)
<1>1. put(disk.failedValid, fv) = fv
  BY DEF CausesAreKept
<1>2. WriteIndex(disk, D, fv, fc)
        = [disk EXCEPT !.index = put(@, index), !.data = put(@, data),
                       !.failedValid = put(@, fv), !.failedChild = put(@, fc)]
  BY DEF WriteIndex
<1>3. disk \in DiskType
  BY DEF DiskIsBehind, DiskType
<1> QED
  BY <1>1, <1>2, <1>3 DEF DiskType, WriteAll

(* Marks that are written with those they come from keep their causes on the *)
(* disk.                                                                     *)
LEMMA CausesFlushed ==
    ASSUME MarkInv, CausesAreKept, NEW D \in SUBSET Blocks, dirty \subseteq D,
           NEW fv \in SUBSET index, failedValid \subseteq fv, fv \ failedValid \subseteq D,
           NEW fc \in SUBSET index, failedChild \subseteq fc, \A x \in fc : Line[x] \cap fv # {},
           NEW best \in All, disk' = WriteAll(disk, D, fv, fc, best),
           fv \subseteq failedValid', failedValid' \subseteq fv \cup dirty', failedValid' \subseteq All, failedChild' = fc
    PROVE  CausesAreKept'
<1>1. DiskIsBehind /\ OldMarksAreDirty /\ index \subseteq All
  BY DEF MarkInv, ChainInv, Types
<1>2. disk'.failedValid = fv
  BY <1>1, CausesAreWritten
<1>3. disk'.failedChild \subseteq fc
  BY <1>1, MarksAreWritten
<1>4. \A x \in All : x \in Line[x]
  BY LineIsLeast
<1>5. MarksHaveACause'
  BY <1>4 DEF MarksHaveACause, Failed
<1>6. \A x \in disk'.failedValid \cup disk'.failedChild : Line[x] \cap disk'.failedValid # {}
  BY <1>1, <1>2, <1>3, <1>4
<1> QED
  BY <1>2, <1>5, <1>6 DEF CausesAreKept

(* Marks that are only made in memory do, too, as long as they are dirty. *)
LEMMA CausesAside ==
    ASSUME CausesAreKept, disk' = disk, dirty \subseteq dirty', failedValid \subseteq failedValid',
           failedValid' \subseteq failedValid \cup dirty', failedValid' \subseteq All,
           \A x \in failedChild' : Line[x] \cap failedValid' # {}
    PROVE  CausesAreKept'
<1>1. \A x \in All : x \in Line[x]
  BY LineIsLeast
<1>2. MarksHaveACause'
  BY <1>1 DEF MarksHaveACause, Failed
<1> QED
  BY <1>2 DEF CausesAreKept

(* A start finds the marks and the causes that the disk has. *)
LEMMA CausesLoaded ==
    ASSUME NEW d, Load(d), \A b \in d.failedValid \cup d.failedChild : Line[b] \cap d.failedValid # {}
    PROVE  CausesAreKept'
<1>1. disk' = d /\ failedValid' = d.failedValid /\ failedChild' = d.failedChild /\ dirty' = {}
  BY DEF Load
<1> QED
  BY <1>1 DEF CausesAreKept, MarksHaveACause, Failed


-----------------------------------------------------------------------------
(* ChosenWell *)

(* What does not touch the tip, the links or the candidates. *)
LEMMA ChosenAside ==
    ASSUME BestInv, UNCHANGED <<tip, linked, seq, cand, activating, up>>, index \subseteq index',
           failedValid \subseteq failedValid', Failed \subseteq Failed', (Failed' \ Failed) \cap linked = {}
    PROVE  ChosenWell'
<1> USE DEF BestInv, MarkInv, ChosenWell
<1>1. \A c \in cand : c \in linked /\ Line[c] \subseteq linked
  BY LinkedLine DEF ChainInv, CandidatesAreSound
<1>2. \A c \in cand : Lasting(c) => Lasting(c)'
  BY <1>1 DEF Lasting
<1>3. CandidatesSuffice'
  BY <1>2 DEF CandidatesSuffice
<1>4. CandidatesExactAtRest'
  <2> SUFFICES ASSUME up', ~activating', NEW b \in index',
                      b \notin cand => b \in linked /\ ~Worse(seq, b, tip) /\ Line[b] \cap failedValid' = {},
                      b \in cand => ~(b \in linked /\ ~Worse(seq, b, tip))
               PROVE  FALSE
    BY DEF CandidatesExactAtRest, CandidatesAreExact
  <2>1. CandidatesAreExact /\ CandidatesAreSound /\ linked \subseteq index
    BY DEF CandidatesExactAtRest, ChainInv, LinksAreSound
  <2> QED
    BY <2>1 DEF CandidatesAreExact, CandidatesAreSound
<1>5. TipIsBest'
  BY DEF TipIsBest
<1> QED
  BY <1>3, <1>4, <1>5

(* ReceivedBlockTransactions makes candidates of what it links. *)
LEMMA AcceptBlockChosen ==
    ASSUME BestInv, NEW b \in Blocks, AcceptBlock(b)
    PROVE  ChosenWell'
<1> USE DEF BestInv, MarkInv, ChosenWell
<1>0. b \notin data
  BY DEF AcceptBlock, Acceptable, ChainInv, WalkIsNew
<1>1. /\ activating' = TRUE /\ UNCHANGED <<failedValid, failedChild, tip, up>> /\ cand \subseteq cand'
      /\ linked \subseteq linked'
  BY DEF AcceptBlock
<1>2. /\ \A x \in linked : seq'[x] = seq[x]
      /\ \A x \in linked' \ linked : ~Worse(seq', x, tip) => x \in cand'
  <2>1. CASE Parent[b] \in linked
    <3> DEFINE now == NowLinked(b) \cup {b}
    <3>1. now \cap linked = {}
      BY <1>0, <2>1, LinkingIsExact DEF ChainInv
    <3>2. /\ linked' = linked \cup now
          /\ cand' = cand \cup {x \in now : ~Worse(seq', x, tip)}
      BY <2>1 DEF AcceptBlock
    <3>3. PICK order \in SetToSeqs(now) :
            seq' = [x \in All |-> IF x \in now THEN nextSeq - 1 + CHOOSE i \in DOMAIN order : order[i] = x
                                  ELSE seq[x]]
      BY <2>1 DEF AcceptBlock
    <3>4. linked \subseteq All
      BY LinkedLine DEF ChainInv
    <3> HIDE DEF now
    <3> QED
      BY <3>1, <3>2, <3>3, <3>4
  <2>2. CASE Parent[b] \notin linked
    BY <2>2 DEF AcceptBlock
  <2> QED
    BY <2>1, <2>2
<1>3. tip \in linked /\ \A c \in cand : c \in linked
  BY DEF ChainInv, TipIsLinked, CandidatesAreSound
<1>4. \A x, y \in linked : Worse(seq', x, y) <=> Worse(seq, x, y)
  BY <1>2 DEF Worse
<1>5. \A c \in cand : Lasting(c) => Lasting(c)'
  BY <1>1 DEF Lasting, Failed
<1>6. CandidatesSuffice'
  <2> SUFFICES ASSUME NEW x \in linked', ~Worse(seq', x, tip), Line[x] \cap failedValid = {}
               PROVE  x \in cand' \/ \E c \in cand' : Lasting(c)' /\ Worse(seq', x, c)
    BY <1>1 DEF CandidatesSuffice
  <2>1. CASE x \in linked
    <3>1. x \in cand \/ \E c \in cand : Lasting(c) /\ Worse(seq, x, c)
      BY <1>3, <1>4, <2>1 DEF CandidatesSuffice
    <3> QED
      BY <1>1, <1>3, <1>4, <1>5, <2>1, <3>1
  <2>2. CASE x \notin linked
    BY <1>2, <2>2
  <2> QED
    BY <2>1, <2>2
<1> QED
  BY <1>1, <1>6 DEF CandidatesExactAtRest, TipIsBest

(* InvalidateBlock makes candidates of all that is as good as the new tip. *)
LEMMA InvalidateBlockChosen ==
    ASSUME BestInv, NEW b \in Blocks, InvalidateBlock(b), Types', MarksHaveACause'
    PROVE  ChosenWell'
<1> USE DEF BestInv, MarkInv, ChosenWell
<1>1. /\ activating' = TRUE /\ UNCHANGED <<linked, seq>>
      /\ AddedAgain(failedValid', failedChild', tip') \subseteq cand'
  BY DEF InvalidateBlock
<1>2. Line[tip'] \subseteq Line[tip] /\ linked \subseteq All
  BY InvalidateShape, LinkedLine, LineTransitive DEF ChainInv, TipIsLinked
<1>3. CandidatesSuffice'
  <2> SUFFICES ASSUME NEW x \in linked, ~Worse(seq, x, tip'), Line[x] \cap failedValid' = {} PROVE x \in cand'
    BY <1>1 DEF CandidatesSuffice
  <2>1. x \notin Failed'
    BY <1>2, LineIsLeast DEF MarksHaveACause
  <2> QED
    BY <1>1, <2>1 DEF AddedAgain, Failed
<1> QED
  BY <1>1, <1>2, <1>3 DEF CandidatesExactAtRest, TipIsBest

(* The tip of before stays a candidate, or something better does. *)
LEMMA TipLasts ==
    ASSUME BestInv
    PROVE  \E c \in cand : Lasting(c) /\ (c = tip \/ Worse(seq, tip, c))
<1> USE DEF BestInv, MarkInv, ChosenWell
<1>1. tip \in linked /\ tip \in All /\ seq \in [All -> Nat] /\ Line[tip] \cap (Failed \cup Invalid) = {}
  BY LinkedLine DEF ChainInv, TipIsLinked, Numbered, ActiveChainIsUnmarked
<1>2. ~Worse(seq, tip, tip)
  BY <1>1, WorseIsTotal
<1>3. tip \in cand \/ \E c \in cand : Lasting(c) /\ Worse(seq, tip, c)
  BY <1>1, <1>2 DEF CandidatesSuffice, Failed
<1> QED
  BY <1>1, <1>3 DEF Lasting

(* Where the tip goes, what is as good as it and valid is a candidate or     *)
(* worse than one that lasts.                                                *)
LEMMA SufficesBelow ==
    ASSUME BestInv, NEW t \in All, NEW b \in linked, ~Worse(seq, b, t), Line[b] \cap failedValid = {}
    PROVE  b \in cand \/ \E c \in cand : Lasting(c) /\ Worse(seq, b, c) /\ ~Worse(seq, c, t)
<1> USE DEF BestInv, MarkInv, ChosenWell
<1>1. tip \in All /\ b \in All /\ seq \in [All -> Nat] /\ cand \subseteq All
  BY LinkedLine DEF ChainInv, TipIsLinked, Numbered, CandidatesAreSound
<1>2. \A c \in cand : Worse(seq, b, c) => ~Worse(seq, c, t)
  BY <1>1, WorseIsTotal
<1>3. CASE ~Worse(seq, b, tip)
  BY <1>2, <1>3 DEF CandidatesSuffice
<1>4. CASE Worse(seq, b, tip)
  BY <1>1, <1>2, <1>4, TipLasts, WorseIsTotal
<1> QED
  BY <1>3, <1>4

(* A replay leaves a tip below the old one and the activation to be run      *)
(* again.                                                                    *)
LEMMA DisconnectBlocksChosen ==
    ASSUME BestInv, DisconnectBlocks
    PROVE  ChosenWell'
<1> USE DEF BestInv, MarkInv, ChosenWell
<1>1. /\ activating' = TRUE /\ UNCHANGED <<linked, seq, cand, failedValid, failedChild>>
  BY DEF DisconnectBlocks, treeVars
<1>2. tip' \in Line[tip] /\ tip' \in All /\ Line[tip'] \subseteq Line[tip]
  BY DisconnectedTip, LinkedLine, LineTransitive DEF ChainInv, TipIsLinked
<1>3. \A c \in cand : Lasting(c) => Lasting(c)'
  BY <1>1 DEF Lasting, Failed
<1>4. CandidatesSuffice'
  BY <1>1, <1>2, <1>3, SufficesBelow DEF CandidatesSuffice
<1> QED
  BY <1>1, <1>2, <1>4 DEF CandidatesExactAtRest, TipIsBest

(* LoadBlockIndexDB makes a candidate of every unmarked block that is as     *)
(* good as the tip.                                                          *)
LEMMA LoadChosen ==
    ASSUME BestInv, NEW d, Startable(d), Load(d), d.tip \in Line[tip], StartsUp',
           \A b \in d.failedValid \cup d.failedChild : Line[b] \cap d.failedValid # {}
    PROVE  ChosenWell'
<1> USE DEF BestInv, MarkInv, ChosenWell
<1> DEFINE link == {b \in d.index : Line[b] \subseteq d.data}
           best == {b \in link \ (d.failedValid \cup d.failedChild) :
                        Work[b] > Work[d.tip] \/ (Work[b] = Work[d.tip] /\ Addr[b] <= Addr[d.tip])}
<1>1. /\ linked' = link /\ failedValid' = d.failedValid /\ failedChild' = d.failedChild
      /\ seq' = [b \in All |-> 0] /\ tip' = d.tip /\ cand' = best
      /\ up' = (best # {}) /\ activating' = (best # {})
  BY DEF Load
<1>2. activating' = TRUE
  BY <1>1 DEF StartsUp
<1>3. d.tip \in All /\ d.index \subseteq All /\ Line[d.tip] \subseteq Line[tip]
  BY LinkedLine, LineTransitive DEF Startable, DiskType, ChainInv, TipIsLinked
<1>4. CandidatesSuffice'
  <2> SUFFICES ASSUME NEW x \in link, ~Worse(seq', x, d.tip), Line[x] \cap d.failedValid = {} PROVE x \in best
    BY <1>1 DEF CandidatesSuffice
  <2>1. x \in All /\ Work[x] \in Nat /\ Work[d.tip] \in Nat /\ Addr[x] \in Nat /\ Addr[d.tip] \in Nat
    BY <1>3, TreeAssumption
  <2>2. Work[x] > Work[d.tip] \/ (Work[x] = Work[d.tip] /\ Addr[x] <= Addr[d.tip])
    BY <1>1, <1>3, <2>1 DEF Worse
  <2> QED
    BY <2>2
<1> HIDE DEF link, best
<1> QED
  BY <1>1, <1>2, <1>3, <1>4 DEF CandidatesExactAtRest, TipIsBest


(* When ActivateBestChain returns, no candidate that it may use is better    *)
(* than the tip, and so the candidates are exact and the tip is the best.    *)
LEMMA ReturnIsBest ==
    ASSUME Numbered', tip' \in All, linked' \subseteq All, linked' \subseteq index', CandidatesAreSound',
           CandidatesSuffice', \A c \in cand' : Line[c] \cap Failed' = {} => ~Worse(seq', tip', c)
    PROVE  CandidatesAreExact' /\ \A b \in linked' : Line[b] \cap Failed' = {} => ~Worse(seq', tip', b)
<1>1. seq' \in [All -> Nat] /\ cand' \subseteq linked'
  BY DEF Numbered, CandidatesAreSound
<1>2. ASSUME NEW b \in linked', ~Worse(seq', b, tip'), Line[b] \cap failedValid' = {} PROVE b \in cand'
  <2>1. SUFFICES ASSUME NEW c \in cand', Lasting(c)', Worse(seq', b, c) PROVE FALSE
    BY <1>2 DEF CandidatesSuffice
  <2>2. ~Worse(seq', tip', c)
    BY <2>1 DEF Lasting
  <2>3. b \in All /\ c \in All
    BY <1>1
  <2> QED
    BY <1>1, <1>2, <2>1, <2>2, <2>3, WorseIsTotal
<1>3. CandidatesAreExact'
  BY <1>2 DEF CandidatesAreExact, CandidatesAreSound
<1>4. ASSUME NEW b \in linked', Line[b] \cap Failed' = {}, Worse(seq', tip', b) PROVE FALSE
  <2>1. ~Worse(seq', b, tip')
    BY <1>1, <1>4, WorseIsAsymmetric
  <2>2. b \in cand'
    BY <1>2, <1>4, <2>1 DEF Failed
  <2> QED
    BY <1>4, <2>2
<1> QED
  BY <1>3, <1>4

(* Where the activation ends, no usable block is better than the tip. *)
LEMMA ActivateBestChainChosen ==
    ASSUME Undisputed, BestInv, ActivateBestChain, ChainInv'
    PROVE  ChosenWell'
<1> USE DEF BestInv, MarkInv
<1> DEFINE usable == {c \in cand : ~Unusable(c)}
           found  == FindMostWorkChain(usable)
<1>0. /\ tip \in All /\ linked \subseteq All /\ linked \subseteq index /\ seq \in [All -> Nat] /\ cand \subseteq linked
      /\ Line[tip] \cap Invalid = {} /\ MarksHaveACause /\ Types /\ refused = {}
  BY LinkedLine DEF ChainInv, TipIsLinked, Numbered, LinksAreSound, CandidatesAreSound, ChosenWell, CausesAreKept,
                    Types, Undisputed
<1>a. tip' \in All
  BY LinkedLine DEF ChainInv, TipIsLinked, Types, LinksAreSound
<1>1. /\ found.best \subseteq cand /\ found.cand \subseteq cand
      /\ UNCHANGED <<index, data, linked, seq, nextSeq, unlinked, refused, walk, up, left>>
  BY ActivateCases
<1>2. \A x \in All : Line[x] \cap Failed = {} => Line[x] \cap found.failedChild = {}
  BY UnmarkedStays
<1>3. \A c \in cand : Line[c] \cap Failed = {} => c \in found.cand
  BY UnmarkedStaysCandidate
<1>4. /\ failedChild \subseteq found.failedChild
      /\ found.best = {c \in usable : \A d \in usable : ~Worse(seq, c, d)}
  BY DEF FindMostWorkChain
<1>5. \A c \in cand : Line[c] \cap Failed = {} => c \in usable
  BY DEF Unusable, Path
<1>6. \/ /\ found.best \subseteq {tip} /\ cand' = found.cand /\ failedChild' = found.failedChild
         /\ activating' = FALSE /\ UNCHANGED <<tip, failedValid, dirty, disk, rejected>>
      \/ \E most \in found.best \ {tip}, fresh \in refused \cup {Genesis}, turned \in SUBSET Blocks :
            Outcome(most, found, fresh, turned)
  BY ActivateCases
<1> HIDE DEF usable, found
(* What is common to both cases. *)
<1>7. ASSUME NEW bad \in SUBSET Invalid, cand' = {c \in found.cand : ~Worse(seq, c, tip')} \ bad,
             failedValid' = failedValid \cup bad, failedChild' = found.failedChild,
             Line[tip'] \cap Invalid = {},
             ~activating' => \A c \in usable : ~Worse(seq, tip', c)
      PROVE  ChosenWell'
  <2>1. Failed \subseteq Failed'
    BY <1>4, <1>7 DEF Failed
  <2>2. ASSUME NEW c \in cand, Lasting(c), ~Worse(seq, c, tip') PROVE Lasting(c)'
    <3>1. c \in All /\ Line[c] \cap (Failed \cup Invalid) = {} /\ c \in Line[c]
      BY <1>0, <2>2, LineIsLeast DEF Lasting
    <3>2. c \in cand'
      BY <1>3, <1>7, <2>2, <3>1
    <3>3. Line[c] \cap (Failed' \cup Invalid) = {}
      BY <1>2, <1>7, <3>1 DEF Failed
    <3> QED
      BY <3>2, <3>3 DEF Lasting
  <2>3. CandidatesSuffice'
    <3> SUFFICES ASSUME NEW b \in linked, ~Worse(seq, b, tip'), Line[b] \cap failedValid' = {}
                 PROVE  b \in cand' \/ \E c \in cand' : Lasting(c)' /\ Worse(seq, b, c)
      BY <1>1 DEF CandidatesSuffice
    <3>1. b \in All /\ b \in Line[b] /\ Line[b] \cap failedValid = {}
      BY <1>0, <1>7, LineIsLeast
    <3>2. b \in cand \/ \E c \in cand : Lasting(c) /\ Worse(seq, b, c) /\ ~Worse(seq, c, tip')
      BY <1>a, <3>1, SufficesBelow
    <3>3. CASE b \in cand
      <4>1. Line[b] \cap Failed = {}
        BY <1>0, <3>1, ValidIsUnmarked
      <4>2. b \in found.cand /\ b \notin bad
        BY <1>3, <1>7, <3>1, <3>3, <4>1
      <4> QED
        BY <1>7, <4>2
    <3>4. ASSUME NEW c \in cand, Lasting(c), Worse(seq, b, c), ~Worse(seq, c, tip')
          PROVE  c \in cand' /\ Lasting(c)'
      BY <2>2, <3>4 DEF Lasting
    <3> QED
      BY <3>2, <3>3, <3>4
  <2>4. ASSUME ~activating'
        PROVE  CandidatesAreExact' /\ \A b \in linked' : Line[b] \cap Failed' = {} => ~Worse(seq', tip', b)
    <3>1. \A c \in cand' : Line[c] \cap Failed' = {} => ~Worse(seq', tip', c)
      BY <1>1, <1>5, <1>7, <2>1, <2>4
    <3>2. Numbered' /\ CandidatesAreSound' /\ tip' \in All /\ linked' \subseteq All /\ linked' \subseteq index'
      BY <1>0, <1>a, <1>1 DEF ChainInv
    <3> QED
      BY <2>3, <3>1, <3>2, ReturnIsBest
  <2> QED
    BY <1>7, <2>3, <2>4 DEF ChosenWell, CandidatesExactAtRest, TipIsBest
<1>8. CASE /\ found.best \subseteq {tip} /\ cand' = found.cand /\ failedChild' = found.failedChild
           /\ UNCHANGED <<tip, failedValid, dirty, disk, rejected>>
  <2>1. \A c \in usable : ~Worse(seq, tip, c)
    <3> SUFFICES ASSUME NEW c \in usable, Worse(seq, tip, c) PROVE FALSE
      OBVIOUS
    <3>1. usable \in SUBSET All
      BY <1>0 DEF usable
    <3>2. PICK m \in usable : \A d \in usable : ~Worse(seq, m, d)
      BY <1>0, <3>1, BestExists
    <3> QED
      BY <1>4, <1>8, <3>2
  <2>2. \A c \in found.cand : ~Worse(seq, c, tip)
    BY <1>1 DEF ChainInv, CandidatesAreSound
  <2>3. cand' = {c \in found.cand : ~Worse(seq, c, tip')} \ {} /\ failedValid' = failedValid \cup {} /\ {} \in SUBSET Invalid
    BY <1>8, <2>2
  <2> QED
    BY <1>0, <1>7, <1>8, <2>1, <2>3
<1>9. ASSUME NEW most \in found.best, NEW fresh, NEW turned \in SUBSET Blocks, Outcome(most, found, fresh, turned)
      PROVE  ChosenWell'
  <2> DEFINE bad == InvalidBlockFound(turned)
  <2>1. /\ \A x \in Line[tip'] \ Line[tip] : ~TurnedDown(x, fresh)
        /\ \A x \in turned : TurnedDown(x, fresh)
        /\ cand' = {c \in found.cand : ~Worse(seq, c, tip')} \ bad
        /\ failedValid' = failedValid \cup bad
        /\ failedChild' = found.failedChild
        /\ activating' = (tip' # most)
    BY <1>9 DEF Outcome
  <2>2. bad \in SUBSET Invalid /\ Line[tip'] \cap Invalid = {}
    BY <1>0, <2>1 DEF TurnedDown, InvalidBlockFound
  <2>3. ~activating' => \A c \in usable : ~Worse(seq, tip', c)
    BY <1>4, <1>9, <2>1
  <2> HIDE DEF bad
  <2> QED
    BY <1>7, <2>1, <2>2, <2>3
<1> QED
  BY <1>6, <1>8, <1>9


-----------------------------------------------------------------------------
(* BestInv is inductive *)

(* The activation marks descendants of blocks it has found to be invalid. *)
LEMMA ActivateBestChainCauses ==
    ASSUME MarkInv, CausesAreKept, ActivateBestChain
    PROVE  CausesAreKept'
<1> DEFINE found == FindMostWorkChain({c \in cand : ~Unusable(c)})
<1>0. ChainInv /\ failedValid \in SUBSET index /\ failedValid \subseteq All /\ dirty \in SUBSET Blocks /\ MarksHaveACause
  BY DEF MarkInv, ChainInv, Types, CausesAreKept
<1>1. /\ found.best \subseteq cand /\ found.failedChild \in SUBSET index /\ failedChild \subseteq found.failedChild
      /\ \A x \in found.failedChild : Line[x] \cap failedValid # {}
  BY <1>0, ActivateCases, FoundHasACause DEF FindMostWorkChain
<1>2. \/ /\ found.best \subseteq {tip} /\ cand' = found.cand /\ failedChild' = found.failedChild
         /\ activating' = FALSE /\ UNCHANGED <<tip, failedValid, dirty, disk, rejected>>
      \/ \E most \in found.best \ {tip}, fresh \in refused \cup {Genesis}, turned \in SUBSET Blocks :
            Outcome(most, found, fresh, turned)
  BY <1>0, ActivateCases
<1> HIDE DEF found
<1>3. CASE failedChild' = found.failedChild /\ UNCHANGED <<failedValid, dirty, disk>>
  BY <1>0, <1>1, <1>3, CausesAside
<1>4. ASSUME NEW most \in found.best, NEW fresh, NEW turned \in SUBSET Blocks, Outcome(most, found, fresh, turned)
      PROVE  CausesAreKept'
  <2> DEFINE bad == InvalidBlockFound(turned)
  <2>1. /\ failedValid' = failedValid \cup bad
        /\ failedChild' = found.failedChild
        /\ tip' \in Line[most]
        /\ \/ disk' = disk /\ dirty' = dirty \cup bad
           \/ \E f \in Line[tip'] : disk' = WriteAll(disk, dirty, failedValid, found.failedChild, f) /\ dirty' = bad
    BY <1>4 DEF Outcome
  <2>2. bad \subseteq All
    BY Tree DEF InvalidBlockFound
  <2> HIDE DEF bad
  <2>3. \A x \in found.failedChild : Line[x] \cap failedValid' # {}
    BY <1>1, <2>1
  <2>4. CASE disk' = disk /\ dirty' = dirty \cup bad
    BY <1>0, <2>1, <2>2, <2>3, <2>4, CausesAside
  <2>5. CASE \E f \in Line[tip'] : disk' = WriteAll(disk, dirty, failedValid, found.failedChild, f) /\ dirty' = bad
    <3>1. PICK f \in Line[tip'] : disk' = WriteAll(disk, dirty, failedValid, found.failedChild, f) /\ dirty' = bad
      BY <2>5
    <3>2. f \in All
      BY <1>0, <1>1, <2>1, LinkedLine, LineTransitive DEF ChainInv, CandidatesAreSound
    <3> QED
      BY <1>0, <1>1, <2>1, <2>2, <3>1, <3>2, CausesFlushed
  <2> QED
    BY <2>1, <2>4, <2>5
<1> QED
  BY <1>2, <1>3, <1>4

(* invalidateblock marks its block and descendants of it. *)
LEMMA InvalidateBlockCauses ==
    ASSUME MarkInv, CausesAreKept, NEW b \in Blocks, InvalidateBlock(b)
    PROVE  CausesAreKept'
<1> DEFINE gone == DisconnectedBy(b)
           fv   == failedValid \cup {b}
           fc   == failedChild \cup gone
<1>0. ChainInv /\ dirty \in SUBSET Blocks /\ failedValid \subseteq index /\ failedChild \subseteq index /\ index \subseteq All
  BY DEF MarkInv, ChainInv, Types
<1>1. /\ failedValid' = fv /\ failedChild' = fc /\ b \in index
      /\ IF gone = {} THEN dirty' = dirty \cup {b} /\ UNCHANGED disk
         ELSE dirty' = {} /\ disk' = WriteAll(disk, dirty \cup gone, fv, fc, tip')
  BY DEF InvalidateBlock
<1>2. /\ gone # {} => b \in Line[tip]
      /\ tip' \in Line[tip] /\ gone \subseteq linked /\ gone \subseteq Blocks
      /\ \A x \in gone : b \in Line[x]
  BY <1>0, InvalidateShape
<1>3. gone # {} => b \in gone
  BY <1>2, LineIsLeast, NotItsOwnAncestor, Tree DEF DisconnectedBy
<1>4. tip' \in All /\ linked \subseteq index
  BY <1>0, <1>2, LinkedLine, LineTransitive DEF ChainInv, TipIsLinked, LinksAreSound
<1> HIDE DEF gone
<1>5. \A x \in fc : Line[x] \cap fv # {}
  BY <1>2 DEF CausesAreKept, MarksHaveACause, Failed
<1>6. fv \in SUBSET index /\ fc \in SUBSET index /\ dirty \cup gone \in SUBSET Blocks
  BY <1>0, <1>1, <1>2, <1>4
<1>7. CASE gone = {}
  <2>1. disk' = disk /\ dirty' = dirty \cup {b}
    BY <1>1, <1>7
  <2> QED
    BY <1>0, <1>1, <1>5, <2>1, CausesAside
<1>8. CASE gone # {}
  <2>1. disk' = WriteAll(disk, dirty \cup gone, fv, fc, tip') /\ fv \ failedValid \subseteq dirty \cup gone
    BY <1>1, <1>3, <1>8
  <2>2. failedValid \subseteq fv /\ failedChild \subseteq fc /\ dirty \subseteq dirty \cup gone /\ fv \subseteq All
    BY <1>0, <1>1
  <2> HIDE DEF fv, fc
  <2> QED
    BY <1>1, <1>4, <1>5, <1>6, <2>1, <2>2, CausesFlushed
<1> QED
  BY <1>7, <1>8

(* A restart keeps the causes and the choice. *)
LEMMA CrashBest ==
    ASSUME BestInv, Crash, StartsUp'
    PROVE  CausesAreKept' /\ ChosenWell'
<1> USE DEF BestInv, MarkInv, ChainInv
<1>1. CASE Load(disk)
  <2>1. Startable(disk)
    BY DEF Startable, DiskIsBehind, DiskTipIsIndexed, DiskType
  <2>2. disk.tip \in Line[tip] /\ \A b \in disk.failedValid \cup disk.failedChild : Line[b] \cap disk.failedValid # {}
    BY DEF CausesAreKept, DiskTipIsBelow
  <2> QED
    BY <1>1, <2>1, <2>2, CausesLoaded, LoadChosen
<1>2. CASE Load(WriteFirst(disk, dirty, failedValid, failedChild, tip))
  <2> DEFINE d == WriteIndex(disk, dirty, failedValid, failedChild)
  <2>1. /\ d \in DiskType /\ d.index = index /\ d.data = data /\ Genesis \in data
        /\ d.failedValid \subseteq index /\ d.failedChild \subseteq index /\ d.tip = disk.tip
    BY IndexIsWritten DEF Types
  <2>2. Load(d)
    BY <1>2 DEF WriteFirst
  <2>3. d.failedValid = failedValid /\ d.failedChild \subseteq failedChild
    <3>1. dirty \in SUBSET Blocks /\ failedValid \in SUBSET index /\ failedChild \in SUBSET index /\ Genesis \in All
      BY Tree DEF Types
    <3>2. d.failedChild \subseteq failedChild
      BY <3>1, MarksAreWritten
    <3>3. d.failedValid = failedValid
      BY <3>1, CausesAreWritten
    <3> QED
      BY <3>2, <3>3
  <2> HIDE DEF d
  <2>4. Startable(d)
    BY <2>1 DEF Startable, DiskIsBehind, DiskTipIsIndexed, Types
  <2>5. d.tip \in Line[tip] /\ \A b \in d.failedValid \cup d.failedChild : Line[b] \cap d.failedValid # {}
    BY <2>1, <2>3 DEF CausesAreKept, DiskTipIsBelow, MarksHaveACause, Failed
  <2> QED
    BY <2>2, <2>4, <2>5, CausesLoaded, LoadChosen
<1> QED
  BY <1>1, <1>2 DEF Crash

(* Every step keeps the causes of marks and the choice of the tip. *)
LEMMA BestInvStep ==
    ASSUME Undisputed
    PROVE  BestInv /\ [Next]_vars => BestInv'
<1> SUFFICES ASSUME BestInv, [Next]_vars
             PROVE  CausesAreKept' /\ ChosenWell'
  BY MarkInvStep DEF BestInv, Undisputed
<1>0. /\ MarkInv /\ MarkInv' /\ CausesAreKept /\ ChainInv /\ ChainInv' /\ StartsUp' /\ failedValid \subseteq All
      /\ failedValid \in SUBSET index /\ failedChild \in SUBSET index /\ dirty \in SUBSET Blocks
      /\ tip \in All /\ tip' \in All /\ linked \subseteq data /\ Types'
  <2>1. MarkInv /\ MarkInv' /\ CausesAreKept
    BY MarkInvStep DEF BestInv, Undisputed
  <2>2. ChainInv /\ ChainInv' /\ StartsUp' /\ Types'
    BY <2>1 DEF MarkInv, ChainInv
  <2>3. tip \in All /\ linked \subseteq data
    BY <2>2, LinkedLine DEF ChainInv, TipIsLinked
  <2>4. tip' \in All
    BY <2>2 DEF ChainInv, TipIsLinked, LinksAreSound, Types
  <2> QED
    BY <2>1, <2>2, <2>3, <2>4 DEF ChainInv, Types
<1>1. \A x \in failedValid \cup failedChild : Line[x] \cap failedValid # {}
  BY <1>0 DEF CausesAreKept, MarksHaveACause, Failed
<1>2. CASE UNCHANGED vars \/ WalkOn \/ OpinionChanges
  <2>1. UNCHANGED <<tip, linked, seq, cand, activating, up, index, failedValid, failedChild, disk, dirty>>
    BY <1>2 DEF vars, treeVars, WalkOn, OpinionChanges
  <2>2. CausesAreKept'
    BY <1>0, <1>1, <2>1, CausesAside
  <2>3. Failed' = Failed
    BY <2>1 DEF Failed
  <2> QED
    BY <2>1, <2>2, <2>3, ChosenAside
<1>3. ASSUME NEW b \in Blocks, AcceptBlockHeader(b) \/ BeginWalk(b) PROVE CausesAreKept' /\ ChosenWell'
  <2>1. /\ UNCHANGED <<tip, linked, seq, cand, activating, up, failedValid, failedChild, disk>>
        /\ index' = index \cup {b} /\ dirty' = dirty \cup {b}
    BY <1>3 DEF AcceptBlockHeader, BeginWalk
  <2>2. CausesAreKept'
    BY <1>0, <1>1, <2>1, CausesAside
  <2>3. Failed' = Failed
    BY <2>1 DEF Failed
  <2> QED
    BY <2>1, <2>2, <2>3, ChosenAside
<1>4. ASSUME NEW b \in Blocks, AcceptMisplacedBlock(b) PROVE CausesAreKept' /\ ChosenWell'
  <2>1. /\ UNCHANGED <<tip, linked, seq, cand, activating, up, failedChild, disk>> /\ b \notin data
        /\ index' = index \cup {b} /\ dirty' = dirty \cup {b} /\ failedValid' = failedValid \cup {b}
    BY <1>4 DEF AcceptMisplacedBlock
  <2>2. CausesAreKept'
    BY <1>0, <1>1, <2>1, Tree, CausesAside
  <2>3. Failed' = Failed \cup {b}
    BY <2>1 DEF Failed
  <2> QED
    BY <1>0, <2>1, <2>2, <2>3, ChosenAside
<1>5. ASSUME NEW b \in Blocks, AcceptBlock(b) PROVE CausesAreKept' /\ ChosenWell'
  <2>1. UNCHANGED <<failedValid, failedChild, disk>> /\ dirty' = dirty \cup {b}
    BY <1>5 DEF AcceptBlock
  <2>2. CausesAreKept'
    BY <1>0, <1>1, <2>1, CausesAside
  <2> QED
    BY <1>5, <2>2, AcceptBlockChosen
<1>6. ASSUME NEW b \in Blocks, AcceptOnCheckpoint(b) \/ ReconsiderBlock(b) \/ CrashInInvalidateBlock(b) PROVE FALSE
  BY <1>0, <1>6 DEF AcceptOnCheckpoint, ReconsiderBlock, CrashInInvalidateBlock, Command, Undisputed, ChainInv, Types
<1>7. ASSUME NEW b \in Blocks, InvalidateBlock(b) PROVE CausesAreKept' /\ ChosenWell'
  <2>1. CausesAreKept'
    BY <1>0, <1>7, InvalidateBlockCauses
  <2> QED
    BY <1>0, <1>7, <2>1, InvalidateBlockChosen DEF CausesAreKept
<1>8. CASE ActivateBestChain
  BY <1>0, <1>8, ActivateBestChainCauses, ActivateBestChainChosen
<1>9. CASE DisconnectBlocks \/ FlushState
  <2>1. /\ disk' = WriteAll(disk, dirty, failedValid, failedChild, tip')
        /\ UNCHANGED <<failedValid, failedChild, linked, seq, cand, up, index>>
    BY <1>9 DEF DisconnectBlocks, FlushState, treeVars
  <2>2. CausesAreKept'
    BY <1>0, <1>1, <2>1, CausesFlushed
  <2>3. ASSUME FlushState PROVE ChosenWell'
    <3>1. UNCHANGED <<tip, activating>> /\ Failed' = Failed
      BY <2>1, <2>3 DEF FlushState, Failed
    <3> QED
      BY <2>1, <3>1, ChosenAside
  <2> QED
    BY <1>9, <2>2, <2>3, DisconnectBlocksChosen
<1>10. CASE Crash
  BY <1>0, <1>10, CrashBest
<1> QED
  BY <1>2, <1>3, <1>4, <1>5, <1>6, <1>7, <1>8, <1>9, <1>10 DEF Next


(* At first the genesis block is the best there is. *)
LEMMA BestInvInit == Init => BestInv
<1> SUFFICES ASSUME Init PROVE CausesAreKept /\ ChosenWell
  BY MarkInvInit DEF BestInv
<1>1. CausesAreKept
  BY DEF Init, CausesAreKept, MarksHaveACause, Failed
<1>2. Line[tip] \cap Invalid = {}
  BY LineOfGenesis, BlockKindsAssumption, Tree DEF Init
<1>3. CandidatesSuffice
  BY DEF Init, CandidatesSuffice
<1>b. ~Worse(seq, Genesis, Genesis)
  <2>1. seq \in [All -> Nat]
    BY DEF Init
  <2> QED
    BY <2>1, Tree, WorseIsTotal
<1>4. CandidatesAreExact
  BY <1>b DEF Init, CandidatesAreExact
<1>5. \A b \in linked : ~Worse(seq, tip, b)
  BY <1>b DEF Init
<1> QED
  BY <1>1, <1>2, <1>3, <1>4, <1>5 DEF ChosenWell, CandidatesExactAtRest, TipIsBest

(* A round of ActivateBestChain ends with less work than it began with only  *)
(* where it marks a block that was not marked.                               *)
LEMMA WorkIsKept ==
    ASSUME MarkInv, Corrupted = {}, ActivateBestChain
    PROVE  failedValid' # failedValid \/ Work[tip'] >= Work[tip]
<1> DEFINE found == FindMostWorkChain({c \in cand : ~Unusable(c)})
<1>0. ChainInv /\ tip \in All /\ Work[tip] \in Nat
  BY LinkedLine, TreeAssumption DEF MarkInv, ChainInv, TipIsLinked
<1>1. found.best \subseteq cand /\ \A c \in found.best : Path(c) \cap Failed = {}
  BY <1>0, ActivateCases DEF FindMostWorkChain, Unusable
<1>2. \/ UNCHANGED tip
      \/ \E most \in found.best, fresh \in refused \cup {Genesis}, turned \in SUBSET Blocks :
            Outcome(most, found, fresh, turned)
  BY <1>0, ActivateCases
<1> HIDE DEF found
<1>3. ASSUME NEW most \in found.best, NEW fresh, NEW turned \in SUBSET Blocks, Outcome(most, found, fresh, turned)
      PROVE  failedValid' # failedValid \/ Work[tip'] >= Work[tip]
  <2>1. most \in All /\ Line[most] \cap Failed = {} /\ ~Worse(seq, most, tip)
    BY <1>0, <1>1, LinkedLine DEF MarkInv, ActiveChainIsUnmarked, ChainInv, CandidatesAreSound, Path
  <2>2. Work[most] >= Work[tip] /\ tip' \in All /\ Work[tip'] \in Nat /\ Work[most] \in Nat
    <3>1. tip' \in All /\ Work[most] \in Nat
      BY <1>3, <2>1, LineIsLeast, TreeAssumption DEF Outcome
    <3> QED
      BY <1>0, <2>1, <3>1, TreeAssumption DEF Worse
  <2>3. CASE turned = {}
    BY <1>0, <1>3, <2>2, <2>3 DEF Outcome, InBetterPosition
  <2>4. CASE turned # {}
    <3>1. PICK x \in turned : TRUE
      BY <2>4
    <3>2. x \in Line[most] /\ x \in failedValid'
      BY <1>3, <3>1 DEF Outcome, InvalidBlockFound
    <3> QED
      BY <2>1, <3>2 DEF Failed
  <2> QED
    BY <2>3, <2>4
<1> QED
  BY <1>0, <1>2, <1>3

(* CheckBlockIndex's assertions hold, the active chain is never marked and   *)
(* the node always starts, for every tree of blocks, every order of arrival, *)
(* any number of invalidateblock commands and any crash that is not inside   *)
(* one, as long as no vote, lock, checkpoint or reconsiderblock changes what *)
(* was said of a block.                                                      *)
THEOREM IndexStaysSound ==
    ASSUME Undisputed
    PROVE  Spec => []IndexIsSound
<1>1. Init => BestInv
  BY BestInvInit
<1>2. BestInv /\ [Next]_vars => BestInv'
  BY BestInvStep
<1>3. BestInv => IndexIsSound
  BY ChainInvImpliesType DEF BestInv, MarkInv, ChainInv, CausesAreKept, ChosenWell, IndexIsSound
<1> QED
  BY <1>1, <1>2, <1>3, PTL DEF Spec

(* Under the same condition, and with no block damaged on disk: once         *)
(* ActivateBestChain has returned, no block that may be used is better than  *)
(* the tip; and a round of it gives up work only where it turned a block     *)
(* down.                                                                     *)
THEOREM BestChainIsChosen ==
    ASSUME Undisputed, Corrupted = {}
    PROVE  Spec => BestChainIsKept
<1>1. Init => BestInv
  BY BestInvInit
<1>2. BestInv /\ [Next]_vars => BestInv'
  BY BestInvStep
<1>3. BestInv => TipIsBest
  BY DEF BestInv, ChosenWell
<1>4. BestInv /\ [Next]_vars
        => [ActivateBestChain => failedValid' # failedValid \/ Work[tip'] >= Work[tip]]_vars
  BY WorkIsKept DEF BestInv
<1> QED
  BY <1>1, <1>2, <1>3, <1>4, PTL DEF Spec, BestChainIsKept, NoWorkIsLost
==============================================================================
