---------------------------- MODULE ThreadsProofs -----------------------------
(***************************************************************************)
(* Proofs about the places where threads meet, for any number of threads,  *)
(* checks, nodes, tasks, requests and keys: the script check queue, the    *)
(* peers, the scheduler, the HTTP work queue and the encrypted wallet.     *)
(*                                                                         *)
(* Each has an inductive invariant of its own, which says what the         *)
(* property does not: who has a batch of checks and what the counters of   *)
(* threads count; who will give a reference on a node back; which task a   *)
(* thread that waits will find due; which workers are counted; and that    *)
(* memory and wallet file are under the same master key.                   *)
(***************************************************************************)
EXTENDS MCThreads, Sequences, FiniteSetTheorems, TLAPS

-----------------------------------------------------------------------------
(* The script check queue *)

(* The checks that are not completed, and without those of t. *)
Inflight == queue \cup UNION {batch[t] : t \in Loopers}
Rest(t) == Inflight \ batch[t]

Busy == {t \in Loopers : at[t] = "working"}
Dozing == {t \in Loopers : at[t] \in {"waiting", "notified"}}

(* A thread has a batch exactly while it works on it. *)
BatchesAreHeld ==
    \A t \in Loopers :
        /\ at[t] = "working" <=> batch[t] # {}
        /\ at[t] # "working" => batchOk[t]

(* What is under way belongs to this block. *)
NothingIsStale == Inflight \subseteq added

(* nTotal counts the working threads more than nIdle does.  Threads that     *)
(* were interrupted stay counted in both, so nIdle is no exact count.        *)
ThreadsAreCounted ==
    /\ nTotal = nIdle + Cardinality(Busy)
    /\ Cardinality(Dozing) <= nIdle

(* A check that fails is still to be looked at, unless fAllOk has it; and    *)
(* batches are skipped only after fAllOk became false.                       *)
FailuresAreKept ==
    /\ ~fAllOk => failing # {}
    /\ \A t \in Loopers : ~batchOk[t] => ~fAllOk
    /\ at[Master] # "out" /\ fAllOk => failing \subseteq Inflight

OutIsAtRest == at[Master] = "out" => fAllOk /\ nTodo = 0 /\ result = (failing = {})

(* The inductive invariant. *)
CheckInv ==
    /\ TypeOK
    /\ TodoIsExact
    /\ BatchesAreHeld
    /\ NothingIsStale
    /\ ThreadsAreCounted
    /\ FailuresAreKept
    /\ OutIsAtRest

-----------------------------------------------------------------------------
(* Counting *)

(* The threads, and any set of threads, can be counted. *)
LEMMA ThreadsFinite ==
    /\ IsFiniteSet(Loopers)
    /\ IsFiniteSet(Busy) /\ Cardinality(Busy) \in Nat
    /\ IsFiniteSet(Dozing) /\ Cardinality(Dozing) \in Nat
<1>1. IsFiniteSet(Loopers)
  BY CheckQueueAssumption, FS_AddElement DEF Loopers
<1>2. IsFiniteSet(Busy) /\ IsFiniteSet(Dozing)
  BY <1>1, FS_Subset DEF Busy, Dozing
<1> QED
  BY <1>1, <1>2, FS_CardinalityType

(* Finishing a batch: nTodo loses what the thread worked on. *)
LEMMA RestIsCounted ==
    ASSUME TypeOK, TodoIsExact, BatchesAreHeld, NEW t \in Loopers
    PROVE  /\ IsFiniteSet(Inflight)
           /\ Inflight \subseteq Checks
           /\ Rest(t) = queue \cup UNION {batch[u] : u \in Loopers \ {t}}
           /\ TodoAfter(t) = Cardinality(Rest(t))
           /\ TodoAfter(t) \in Nat
           /\ TodoAfter(t) = 0 <=> Rest(t) = {}
<1>1. Inflight \subseteq Checks /\ batch[t] \subseteq Inflight
  BY DEF Inflight, TypeOK
<1>2. IsFiniteSet(Inflight) /\ IsFiniteSet(batch[t]) /\ IsFiniteSet(Rest(t))
  BY <1>1, CheckQueueAssumption, FS_Subset DEF Rest
<1>3. Rest(t) = queue \cup UNION {batch[u] : u \in Loopers \ {t}}
  BY DEF Rest, Inflight, TodoIsExact
<1>4. nTodo = Cardinality(Inflight)
  BY DEF Inflight, TodoIsExact
<1>5. Cardinality(Rest(t)) \in Nat /\ Cardinality(batch[t]) \in Nat
  BY <1>2, FS_CardinalityType
<1>6. Cardinality(Inflight) = Cardinality(Rest(t)) + Cardinality(batch[t])
  <2>1. Inflight = Rest(t) \cup batch[t] /\ Rest(t) \cap batch[t] = {}
    BY <1>1 DEF Rest
  <2>2. Cardinality(Rest(t) \cup batch[t])
           = Cardinality(Rest(t)) + Cardinality(batch[t]) - Cardinality(Rest(t) \cap batch[t])
    BY <1>2, FS_Union
  <2>3. Cardinality(Rest(t) \cap batch[t]) = 0
    BY <2>1, FS_EmptySet
  <2> QED
    BY <2>1, <2>2, <2>3, <1>5
<1>7. TodoAfter(t) = Cardinality(Rest(t))
  <2>1. CASE at[t] = "working"
    BY <1>4, <1>5, <1>6, <2>1 DEF TodoAfter
  <2>2. CASE at[t] # "working"
    <3>1. Cardinality(batch[t]) = 0
      BY <2>2, FS_EmptySet DEF BatchesAreHeld
    <3> QED
      BY <1>4, <1>5, <1>6, <2>2, <3>1 DEF TodoAfter
  <2> QED
    BY <2>1, <2>2
<1>8. Cardinality(Rest(t)) = 0 <=> Rest(t) = {}
  BY <1>2, FS_EmptySet
<1>9. TodoAfter(t) \in Nat /\ (TodoAfter(t) = 0 <=> Rest(t) = {})
  BY <1>5, <1>7, <1>8
<1> QED
  BY <1>1, <1>2, <1>3, <1>7, <1>9

(* Where the others are after a thread has left a critical section. *)
LEMMA OthersStay ==
    ASSUME TypeOK, NEW t \in Loopers, NEW where \in {"waiting", "working"}, at' = AtAfter(t, where)
    PROVE  /\ at' \in [Loopers -> {"starting", "waiting", "notified", "working", "adding", "out", "gone"}]
           /\ at'[t] = where
           /\ \A u \in Loopers \ {t} : at'[u] = at[u] \/ (at[u] = "waiting" /\ at'[u] = "notified")
           /\ Busy' = IF where = "working" THEN Busy \cup {t} ELSE Busy \ {t}
           /\ Dozing' = IF where = "waiting" THEN Dozing \cup {t} ELSE Dozing \ {t}
<1>1. at' \in [Loopers -> {"starting", "waiting", "notified", "working", "adding", "out", "gone"}]
  BY DEF AtAfter, TypeOK
<1>2. at'[t] = where
  BY DEF AtAfter
<1>3. \A u \in Loopers \ {t} : at'[u] = at[u] \/ (at[u] = "waiting" /\ at'[u] = "notified")
  BY DEF AtAfter
<1> QED
  BY <1>1, <1>2, <1>3 DEF Busy, Dozing

(* The thread counters when t leaves a critical section to sleep or to work. *)
LEMMA ThreadsStayCounted ==
    ASSUME TypeOK, ThreadsAreCounted, NEW t \in Loopers, MayLoop(t), NEW where \in {"waiting", "working"},
           at' = AtAfter(t, where),
           nTotal' = TotalAfter(t),
           nIdle' = IF where = "waiting" THEN IdleAfter(t) + 1 ELSE IdleAfter(t)
    PROVE  nTotal' \in Nat /\ nIdle' \in Nat /\ ThreadsAreCounted'
<1>1. /\ Busy' = IF where = "working" THEN Busy \cup {t} ELSE Busy \ {t}
      /\ Dozing' = IF where = "waiting" THEN Dozing \cup {t} ELSE Dozing \ {t}
  BY OthersStay
<1>2. /\ Cardinality(Busy \cup {t}) = IF t \in Busy THEN Cardinality(Busy) ELSE Cardinality(Busy) + 1
      /\ Cardinality(Busy \ {t}) = IF t \in Busy THEN Cardinality(Busy) - 1 ELSE Cardinality(Busy)
      /\ Cardinality(Dozing \cup {t}) = IF t \in Dozing THEN Cardinality(Dozing) ELSE Cardinality(Dozing) + 1
      /\ Cardinality(Dozing \ {t}) = IF t \in Dozing THEN Cardinality(Dozing) - 1 ELSE Cardinality(Dozing)
  BY ThreadsFinite, FS_AddElement, FS_RemoveElement
<1>3. t \in Dozing => Cardinality(Dozing) >= 1
  BY ThreadsFinite, FS_EmptySet
<1>4. /\ t \in Busy <=> at[t] = "working"
      /\ t \in Dozing <=> at[t] = "notified"
  BY DEF Busy, Dozing, MayLoop
<1>5. /\ nTotal \in Nat /\ nIdle \in Nat
      /\ nTotal = nIdle + Cardinality(Busy)
      /\ Cardinality(Dozing) <= nIdle
      /\ Cardinality(Busy) \in Nat /\ Cardinality(Dozing) \in Nat
  BY ThreadsFinite DEF TypeOK, ThreadsAreCounted
<1>6. CASE at[t] = "starting"
  BY <1>1, <1>2, <1>4, <1>5, <1>6 DEF TotalAfter, IdleAfter, ThreadsAreCounted
<1>7. CASE at[t] = "notified"
  BY <1>1, <1>2, <1>3, <1>4, <1>5, <1>7 DEF TotalAfter, IdleAfter, ThreadsAreCounted
<1>8. CASE at[t] = "working"
  BY <1>1, <1>2, <1>4, <1>5, <1>8 DEF TotalAfter, IdleAfter, ThreadsAreCounted
<1> QED
  BY <1>6, <1>7, <1>8 DEF MayLoop

(* What a thread adds to fAllOk. *)
LEMMA OkIsExact ==
    ASSUME TypeOK, BatchesAreHeld, FailuresAreKept, NEW t \in Loopers
    PROVE  /\ OkAfter(t) \in BOOLEAN
           /\ OkAfter(t) => fAllOk /\ failing \cap batch[t] = {}
           /\ ~OkAfter(t) => failing # {}
           /\ at[t] # "working" => OkAfter(t) = fAllOk
<1>1. OkAfter(t) \in BOOLEAN
  BY DEF OkAfter, TypeOK
<1>2. OkAfter(t) => fAllOk /\ failing \cap batch[t] = {}
  BY DEF OkAfter, BatchesAreHeld
<1>3. ~OkAfter(t) => failing # {}
  BY DEF OkAfter, FailuresAreKept
<1>4. at[t] # "working" => OkAfter(t) = fAllOk
  BY DEF OkAfter, TypeOK
<1> QED
  BY <1>1, <1>2, <1>3, <1>4

-----------------------------------------------------------------------------
(* The steps *)

(* A thread that hands in its batch and finds the queue empty. *)
LEMMA SleepKeeps ==
    ASSUME CheckInv, NEW t \in Loopers, Sleep(t)
    PROVE  CheckInv'
<1> USE DEF CheckInv
<1>1. /\ IsFiniteSet(Inflight) /\ Inflight \subseteq Checks
      /\ Rest(t) = queue \cup UNION {batch[u] : u \in Loopers \ {t}}
      /\ TodoAfter(t) = Cardinality(Rest(t)) /\ TodoAfter(t) \in Nat
  BY RestIsCounted
<1>2. /\ at' \in [Loopers -> {"starting", "waiting", "notified", "working", "adding", "out", "gone"}]
      /\ at'[t] = "waiting"
      /\ \A u \in Loopers \ {t} : at'[u] = at[u] \/ (at[u] = "waiting" /\ at'[u] = "notified")
  BY OthersStay DEF Sleep
<1>3. nTotal' \in Nat /\ nIdle' \in Nat /\ ThreadsAreCounted'
  BY ThreadsStayCounted DEF Sleep
<1>4. /\ fAllOk' \in BOOLEAN
      /\ fAllOk' => fAllOk /\ failing \cap batch[t] = {}
      /\ ~fAllOk' => failing # {}
      /\ at[t] # "working" => fAllOk' = fAllOk
  BY OkIsExact DEF Sleep
<1>5. /\ batch' \in [Loopers -> SUBSET Checks] /\ batch'[t] = {}
      /\ \A u \in Loopers \ {t} : batch'[u] = batch[u]
      /\ batchOk' \in [Loopers -> BOOLEAN] /\ batchOk'[t] = TRUE
      /\ \A u \in Loopers \ {t} : batchOk'[u] = batchOk[u]
      /\ queue' = queue
  BY DEF Sleep, TypeOK
<1>6. Inflight' = Rest(t)
  BY <1>1, <1>5 DEF Inflight
<1>7. TypeOK'
  BY <1>1, <1>2, <1>3, <1>4, <1>5 DEF TypeOK, Sleep
<1>8. TodoIsExact'
  <2>1. nTodo' = Cardinality(Inflight')
    BY <1>1, <1>6 DEF Sleep
  <2> QED
    BY <1>5, <2>1 DEF TodoIsExact, Inflight
<1>9. BatchesAreHeld'
  BY <1>2, <1>5 DEF BatchesAreHeld
<1>10. NothingIsStale'
  BY <1>6 DEF NothingIsStale, Rest, Sleep
<1>11. FailuresAreKept'
  <2>1. at'[Master] # "out" => at[Master] # "out"
    BY <1>2 DEF Loopers, Sleep, MayLoop
  <2>2. failing' = failing
    BY DEF Sleep
  <2> QED
    BY <1>4, <1>5, <1>6, <2>1, <2>2 DEF FailuresAreKept, Rest
<1>12. OutIsAtRest'
  <2> SUFFICES ASSUME at'[Master] = "out"
               PROVE  fAllOk' /\ nTodo' = 0 /\ result' = (failing' = {})
    BY DEF OutIsAtRest
  <2>1. at[Master] = "out"
    BY <1>2 DEF Loopers
  <2>2. fAllOk /\ nTodo = 0 /\ result = (failing = {})
    BY <2>1 DEF OutIsAtRest
  <2>3. Inflight = {}
    BY <2>2, <1>1, FS_EmptySet DEF TodoIsExact, Inflight
  <2>4. at[t] # "working"
    BY <2>3 DEF BatchesAreHeld, Inflight
  <2> QED
    BY <2>2, <2>4, <1>4 DEF Sleep, TodoAfter
<1> QED
  BY <1>3, <1>7, <1>8, <1>9, <1>10, <1>11, <1>12

(* A thread that hands in its batch and takes another. *)
LEMMA TakeKeeps ==
    ASSUME CheckInv, NEW t \in Loopers, Take(t)
    PROVE  CheckInv'
<1> USE DEF CheckInv
<1>1. /\ IsFiniteSet(Inflight) /\ Inflight \subseteq Checks
      /\ Rest(t) = queue \cup UNION {batch[u] : u \in Loopers \ {t}}
      /\ TodoAfter(t) = Cardinality(Rest(t)) /\ TodoAfter(t) \in Nat
  BY RestIsCounted
<1>2. /\ at' \in [Loopers -> {"starting", "waiting", "notified", "working", "adding", "out", "gone"}]
      /\ at'[t] = "working"
      /\ \A u \in Loopers \ {t} : at'[u] = at[u] \/ (at[u] = "waiting" /\ at'[u] = "notified")
  BY OthersStay DEF Take
<1>3. nTotal' \in Nat /\ nIdle' \in Nat /\ ThreadsAreCounted'
  BY ThreadsStayCounted DEF Take
<1>4. /\ fAllOk' \in BOOLEAN
      /\ fAllOk' => fAllOk /\ failing \cap batch[t] = {}
      /\ ~fAllOk' => failing # {}
  BY OkIsExact DEF Take
<1>5. PICK taken \in SUBSET queue :
          /\ queue # {}
          /\ Cardinality(taken) = BatchLength(Cardinality(queue), TotalAfter(t), IdleAfter(t))
          /\ batch' = [batch EXCEPT ![t] = taken]
          /\ queue' = queue \ taken
  BY DEF Take
<1>6. taken # {}
  <2>1. BatchLength(Cardinality(queue), TotalAfter(t), IdleAfter(t)) # 0
    BY DEF BatchLength
  <2> QED
    BY <1>5, <2>1, FS_EmptySet
<1>7. /\ batch' \in [Loopers -> SUBSET Checks] /\ batch'[t] = taken
      /\ \A u \in Loopers \ {t} : batch'[u] = batch[u]
      /\ batchOk' \in [Loopers -> BOOLEAN] /\ batchOk'[t] = fAllOk'
      /\ \A u \in Loopers \ {t} : batchOk'[u] = batchOk[u]
  BY <1>4, <1>5 DEF Take, TypeOK
<1>8. Inflight' = Rest(t)
  <2>1. UNION {batch'[u] : u \in Loopers} = taken \cup UNION {batch[u] : u \in Loopers \ {t}}
    BY <1>7
  <2> QED
    BY <1>1, <1>5, <2>1 DEF Inflight
<1>9. TypeOK'
  BY <1>1, <1>2, <1>3, <1>4, <1>5, <1>7 DEF TypeOK, Take
<1>10. TodoIsExact'
  <2>1. nTodo' = Cardinality(Inflight')
    BY <1>1, <1>8 DEF Take
  <2>2. \A u \in Loopers : batch'[u] \cap queue' = {}
    BY <1>5, <1>7 DEF TodoIsExact
  <2>3. \A u, v \in Loopers : u # v => batch'[u] \cap batch'[v] = {}
    BY <1>5, <1>7 DEF TodoIsExact
  <2> QED
    BY <2>1, <2>2, <2>3 DEF TodoIsExact, Inflight
<1>11. BatchesAreHeld'
  BY <1>2, <1>6, <1>7 DEF BatchesAreHeld
<1>12. NothingIsStale'
  BY <1>8 DEF NothingIsStale, Rest, Take
<1>13. at[Master] # "out"
  <2> SUFFICES ASSUME at[Master] = "out" PROVE FALSE
    OBVIOUS
  <2>1. Inflight = {}
    BY <1>1, FS_EmptySet DEF OutIsAtRest, TodoIsExact, Inflight
  <2> QED
    BY <2>1, <1>5 DEF Inflight
<1>14. FailuresAreKept'
  <2>1. failing' = failing
    BY DEF Take
  <2> QED
    BY <1>4, <1>7, <1>8, <1>13, <2>1 DEF FailuresAreKept, Rest
<1>15. OutIsAtRest'
  BY <1>2, <1>13 DEF OutIsAtRest, Loopers
<1> QED
  BY <1>3, <1>9, <1>10, <1>11, <1>12, <1>14, <1>15

(* The master finds everything done, takes the result and resets it. *)
LEMMA ReturnKeeps ==
    ASSUME CheckInv, Return
    PROVE  CheckInv'
<1> USE DEF CheckInv
<1>0. Master \in Loopers
  BY DEF Loopers
<1>1. Rest(Master) = {}
  BY <1>0, RestIsCounted DEF Return
<1>2. Inflight = batch[Master] /\ queue = {} /\ \A u \in Loopers \ {Master} : batch[u] = {}
  BY <1>0, <1>1 DEF Rest, Inflight, TodoIsExact
<1>3. /\ OkAfter(Master) \in BOOLEAN
      /\ OkAfter(Master) => fAllOk /\ failing \cap batch[Master] = {}
      /\ ~OkAfter(Master) => failing # {}
  BY <1>0, OkIsExact
<1>4. /\ batch' \in [Loopers -> SUBSET Checks]
      /\ \A u \in Loopers : batch'[u] = {}
      /\ batchOk' \in [Loopers -> BOOLEAN]
      /\ \A u \in Loopers : batchOk'[u] = TRUE
      /\ queue' = {}
  BY <1>2 DEF Return, TypeOK, BatchesAreHeld
<1>5. Inflight' = {}
  BY <1>4 DEF Inflight
<1>6. /\ at' \in [Loopers -> {"starting", "waiting", "notified", "working", "adding", "out", "gone"}]
      /\ at'[Master] = "out"
      /\ \A u \in Loopers \ {Master} : at'[u] = at[u] /\ at'[u] # "working"
  BY <1>0, <1>2 DEF Return, TypeOK, BatchesAreHeld
<1>7. nTotal' \in Nat /\ nIdle' \in Nat /\ ThreadsAreCounted'
  <2>1. Busy' = {} /\ Busy \subseteq {Master}
    BY <1>0, <1>6 DEF Busy
  <2>2. Dozing' = Dozing \ {Master}
    BY <1>0, <1>6 DEF Dozing
  <2>3. Cardinality(Dozing \ {Master}) = IF Master \in Dozing THEN Cardinality(Dozing) - 1 ELSE Cardinality(Dozing)
    BY ThreadsFinite, FS_RemoveElement
  <2>4. Master \in Dozing => Cardinality(Dozing) >= 1
    BY ThreadsFinite, FS_EmptySet
  <2>5. Cardinality(Busy) = IF at[Master] = "working" THEN 1 ELSE 0
    <3>1. Busy = IF at[Master] = "working" THEN {Master} ELSE {}
      BY <1>0, <2>1 DEF Busy
    <3> QED
      BY <3>1, FS_EmptySet, FS_Singleton
  <2>6. Cardinality(Busy') = 0
    BY <2>1, FS_EmptySet
  <2>7. Master \in Dozing <=> at[Master] = "notified"
    BY <1>0 DEF Dozing, Return, MayLoop
  <2>8. /\ nTotal \in Nat /\ nIdle \in Nat
        /\ nTotal = nIdle + Cardinality(Busy)
        /\ Cardinality(Dozing) <= nIdle
        /\ Cardinality(Dozing) \in Nat
    BY ThreadsFinite DEF TypeOK, ThreadsAreCounted
  <2>9. /\ nTotal' = TotalAfter(Master) - 1
        /\ nIdle' = IdleAfter(Master)
        /\ at[Master] \in {"starting", "notified", "working"}
    BY DEF Return, MayLoop
  <2>10. nTotal' = nIdle' + 0 /\ nTotal' \in Nat /\ nIdle' \in Nat /\ Cardinality(Dozing') <= nIdle'
    BY <2>2, <2>3, <2>4, <2>5, <2>7, <2>8, <2>9 DEF TotalAfter, IdleAfter
  <2>11. nTotal' = nIdle' + Cardinality(Busy')
    BY <2>6, <2>10
  <2> QED
    BY <2>10, <2>11 DEF ThreadsAreCounted
<1>8. TypeOK'
  BY <1>3, <1>4, <1>6, <1>7 DEF TypeOK, Return
<1>9. TodoIsExact'
  <2>1. nTodo' = Cardinality(Inflight')
    BY <1>5, FS_EmptySet DEF Return
  <2> QED
    BY <1>4, <2>1 DEF TodoIsExact, Inflight
<1>10. BatchesAreHeld'
  BY <1>4, <1>6 DEF BatchesAreHeld
<1>11. NothingIsStale'
  BY <1>5 DEF NothingIsStale
<1>12. FailuresAreKept'
  BY <1>4, <1>6 DEF FailuresAreKept, Return
<1>13. OutIsAtRest'
  <2>1. at[Master] # "out"
    BY DEF Return, MayLoop
  <2>2. OkAfter(Master) => failing = {}
    BY <1>2, <1>3, <2>1 DEF FailuresAreKept
  <2>3. OkAfter(Master) = (failing = {})
    BY <1>3, <2>2
  <2> QED
    BY <2>3 DEF OutIsAtRest, Return
<1> QED
  BY <1>7, <1>8, <1>9, <1>10, <1>11, <1>12, <1>13

(* A new block is given the queue. *)
LEMMA NewControlKeeps ==
    ASSUME CheckInv, NewControl
    PROVE  CheckInv'
<1> USE DEF CheckInv
<1>1. /\ at' = [at EXCEPT ![Master] = "adding"] /\ at[Master] = "out" /\ Master \in Loopers
      /\ queue' = queue /\ batch' = batch /\ batchOk' = batchOk /\ nTodo' = nTodo /\ fAllOk' = fAllOk
  BY DEF NewControl, Loopers
<1>2. Inflight' = Inflight /\ Busy' = Busy /\ Dozing' = Dozing
  BY <1>1 DEF Inflight, Busy, Dozing, TypeOK
<1>3. Inflight = {}
  BY <1>1, RestIsCounted, FS_EmptySet DEF OutIsAtRest, TodoIsExact, Inflight
<1>4. TypeOK'
  BY DEF TypeOK, NewControl
<1>5. TodoIsExact' /\ NothingIsStale'
  BY <1>1, <1>2, <1>3 DEF TodoIsExact, NothingIsStale
<1>6. BatchesAreHeld'
  BY <1>1 DEF BatchesAreHeld, TypeOK
<1>7. ThreadsAreCounted'
  BY <1>2 DEF ThreadsAreCounted, NewControl
<1>8. FailuresAreKept'
  <2>1. fAllOk' /\ failing' = {}
    BY <1>1 DEF OutIsAtRest, NewControl
  <2> QED
    BY <1>1, <2>1 DEF FailuresAreKept
<1>9. OutIsAtRest'
  BY <1>1 DEF OutIsAtRest, TypeOK
<1> QED
  BY <1>4, <1>5, <1>6, <1>7, <1>8, <1>9

(* The master adds checks and wakes workers. *)
LEMMA AddKeeps ==
    ASSUME CheckInv, NEW new \in SUBSET Checks, NEW bad \in SUBSET new, Add(new, bad)
    PROVE  CheckInv'
<1> USE DEF CheckInv
<1>0. Master \in Loopers /\ Master \notin Workers /\ at[Master] = "adding"
  BY CheckQueueAssumption DEF Loopers, Add
<1>1. PICK some \in SUBSET {w \in Workers : at[w] = "waiting"} :
          at' = [t \in Loopers |-> IF t \in some THEN "notified" ELSE at[t]]
  BY DEF Add
<1>2. /\ at' \in [Loopers -> {"starting", "waiting", "notified", "working", "adding", "out", "gone"}]
      /\ \A t \in Loopers : at'[t] = at[t] \/ (at[t] = "waiting" /\ at'[t] = "notified")
      /\ at'[Master] = "adding"
  BY <1>0, <1>1 DEF TypeOK
<1>3. Busy' = Busy /\ Dozing' = Dozing
  BY <1>2 DEF Busy, Dozing
<1>4. Inflight' = Inflight \cup new /\ Inflight \cap new = {}
  BY DEF Inflight, Add, NothingIsStale
<1>5. nTodo' = Cardinality(Inflight') /\ nTodo' \in Nat
  <2>1. IsFiniteSet(Inflight) /\ IsFiniteSet(new)
    BY <1>0, RestIsCounted, CheckQueueAssumption, FS_Subset
  <2>2. Cardinality(Inflight) \in Nat /\ Cardinality(new) \in Nat /\ Cardinality(Inflight \cap new) = 0
    BY <2>1, <1>4, FS_CardinalityType, FS_EmptySet
  <2>3. Cardinality(Inflight \cup new) = Cardinality(Inflight) + Cardinality(new) - Cardinality(Inflight \cap new)
    BY <2>1, FS_Union
  <2>4. nTodo = Cardinality(Inflight) /\ nTodo' = nTodo + Cardinality(new)
    BY DEF TodoIsExact, Inflight, Add
  <2> QED
    BY <1>4, <2>2, <2>3, <2>4
<1>6. TypeOK'
  BY <1>2, <1>5 DEF TypeOK, Add
<1>7. TodoIsExact'
  <2>1. \A t \in Loopers : batch[t] \cap new = {}
    BY <1>4 DEF Inflight
  <2> QED
    BY <1>5, <2>1 DEF TodoIsExact, Inflight, Add
<1>8. BatchesAreHeld'
  BY <1>2 DEF BatchesAreHeld, Add
<1>9. NothingIsStale'
  BY <1>4 DEF NothingIsStale, Add
<1>10. ThreadsAreCounted'
  BY <1>3 DEF ThreadsAreCounted, Add
<1>11. FailuresAreKept'
  BY <1>0, <1>4 DEF FailuresAreKept, Add
<1>12. OutIsAtRest'
  BY <1>2 DEF OutIsAtRest
<1> QED
  BY <1>6, <1>7, <1>8, <1>9, <1>10, <1>11, <1>12

(* Wait, waking up and being interrupted move a thread that has no batch. *)
LEMMA MovesKeep ==
    ASSUME CheckInv, NEW t \in Loopers, NEW where \in {"starting", "notified", "gone"},
           at[t] \in {"adding", "waiting", "notified"},
           where = "notified" => at[t] = "waiting",
           at' = [at EXCEPT ![t] = where],
           uninterrupted' \in SUBSET Loopers,
           UNCHANGED <<queue, batch, batchOk, nTodo, nIdle, nTotal, fAllOk, added, failing, result>>
    PROVE  CheckInv'
<1> USE DEF CheckInv
<1>1. /\ at' \in [Loopers -> {"starting", "waiting", "notified", "working", "adding", "out", "gone"}]
      /\ at'[t] = where /\ \A u \in Loopers \ {t} : at'[u] = at[u]
  BY DEF TypeOK
<1>2. Inflight' = Inflight /\ Busy' = Busy
  BY <1>1 DEF Inflight, Busy
<1>3. Cardinality(Dozing') <= Cardinality(Dozing) /\ Cardinality(Dozing') \in Nat
  <2>1. Dozing' \in SUBSET Dozing
    BY <1>1 DEF Dozing
  <2> QED
    BY <2>1, ThreadsFinite, FS_Subset, FS_CardinalityType
<1>4. TypeOK'
  BY <1>1 DEF TypeOK
<1>5. TodoIsExact' /\ NothingIsStale'
  BY <1>2 DEF TodoIsExact, NothingIsStale
<1>6. BatchesAreHeld'
  BY <1>1 DEF BatchesAreHeld
<1>7. ThreadsAreCounted'
  BY <1>2, <1>3, ThreadsFinite DEF ThreadsAreCounted, TypeOK
<1>8. at'[Master] = "out" <=> at[Master] = "out"
  BY <1>1 DEF Loopers
<1>9. FailuresAreKept' /\ OutIsAtRest'
  BY <1>2, <1>8 DEF FailuresAreKept, OutIsAtRest
<1> QED
  BY <1>4, <1>5, <1>6, <1>7, <1>9

(* The queue begins empty and idle. *)
LEMMA CheckInvInit == Init => CheckInv
<1> SUFFICES ASSUME Init PROVE CheckInv
  OBVIOUS
<1> USE DEF Init
<1>1. TypeOK
  BY DEF TypeOK
<1>2. Inflight = {} /\ Busy = {} /\ Dozing = {}
  BY DEF Inflight, Busy, Dozing
<1>3. TodoIsExact
  BY <1>2, FS_EmptySet DEF TodoIsExact, Inflight
<1>4. BatchesAreHeld /\ NothingIsStale /\ FailuresAreKept /\ OutIsAtRest
  BY <1>2 DEF BatchesAreHeld, NothingIsStale, FailuresAreKept, OutIsAtRest
<1>5. ThreadsAreCounted
  BY <1>2, FS_EmptySet DEF ThreadsAreCounted
<1> QED
  BY <1>1, <1>3, <1>4, <1>5 DEF CheckInv

(* Every step keeps the inductive invariant. *)
LEMMA CheckInvStep == CheckInv /\ [Next]_checkVars => CheckInv'
<1> SUFFICES ASSUME CheckInv, [Next]_checkVars PROVE CheckInv'
  OBVIOUS
<1>1. ASSUME NEW t \in Loopers, Sleep(t) PROVE CheckInv'
  BY <1>1, SleepKeeps
<1>2. ASSUME NEW t \in Loopers, Take(t) PROVE CheckInv'
  BY <1>2, TakeKeeps
<1>3. CASE Return
  BY <1>3, ReturnKeeps
<1>4. CASE NewControl
  BY <1>4, NewControlKeeps
<1>5. ASSUME NEW new \in SUBSET Checks, NEW bad \in SUBSET new, Add(new, bad) PROVE CheckInv'
  BY <1>5, AddKeeps
<1>6. CASE Wait
  <2>1. Master \in Loopers /\ uninterrupted \in SUBSET Loopers
    BY DEF Loopers, CheckInv, TypeOK
  <2> QED
    BY <1>6, <2>1, MovesKeep DEF Wait
<1>7. ASSUME NEW t \in Loopers, SpuriousWake(t) PROVE CheckInv'
  <2>1. uninterrupted \in SUBSET Loopers
    BY DEF CheckInv, TypeOK
  <2> QED
    BY <1>7, <2>1, MovesKeep DEF SpuriousWake
<1>8. ASSUME NEW t \in Loopers, Interrupt(t) PROVE CheckInv'
  <2>1. uninterrupted' \in SUBSET Loopers
    BY <1>8 DEF CheckInv, TypeOK, Interrupt
  <2>2. PICK where \in {"starting", "gone"} : at' = [at EXCEPT ![t] = where]
    BY <1>8 DEF Interrupt
  <2> QED
    BY <1>8, <2>1, <2>2, MovesKeep DEF Interrupt
<1>9. CASE UNCHANGED checkVars
  BY <1>9 DEF checkVars, CheckInv, TypeOK, TodoIsExact, BatchesAreHeld, NothingIsStale, ThreadsAreCounted,
              FailuresAreKept, OutIsAtRest, Inflight, Busy, Dozing
<1> QED
  BY <1>1, <1>2, <1>3, <1>4, <1>5, <1>6, <1>7, <1>8, <1>9 DEF Next

(* It says what the run checks. *)
LEMMA CheckInvImplies == CheckInv => ChecksAreSound
<1> SUFFICES ASSUME CheckInv PROVE ChecksAreSound
  OBVIOUS
<1> USE DEF CheckInv
<1>1. ResultIsOfThisBlock
  BY DEF ResultIsOfThisBlock, OutIsAtRest
<1>2. UnusedIsIdle
  <2> SUFFICES ASSUME at[Master] = "out" PROVE nTotal = nIdle /\ nTodo = 0 /\ fAllOk
    BY DEF UnusedIsIdle
  <2>1. fAllOk /\ nTodo = 0
    BY DEF OutIsAtRest
  <2>2. Inflight = {}
    BY <2>1, RestIsCounted, FS_EmptySet DEF Loopers, TodoIsExact, Inflight
  <2>3. Busy = {}
    BY <2>2 DEF Busy, BatchesAreHeld, Inflight
  <2>4. nTotal = nIdle + 0
    BY <2>3, FS_EmptySet DEF ThreadsAreCounted
  <2> QED
    BY <2>1, <2>4 DEF TypeOK
<1> QED
  BY <1>1, <1>2 DEF ChecksAreSound

-----------------------------------------------------------------------------
(* What Wait returns is the conjunction of the checks of this block and of   *)
(* nothing else, nTodo counts the checks that are not completed, and IsIdle  *)
(* holds whenever a CCheckQueueControl is made: for every number of checks   *)
(* and worker threads, every batch size, and with threads that start late,   *)
(* wake without a cause or are interrupted.                                  *)
THEOREM ChecksCorrect == Spec => []ChecksAreSound
<1>1. Init => CheckInv
  BY CheckInvInit
<1>2. CheckInv /\ [Next]_checkVars => CheckInv'
  BY CheckInvStep
<1>3. CheckInv => ChecksAreSound
  BY CheckInvImplies
<1> QED
  BY <1>1, <1>2, <1>3, PTL DEF Spec

-----------------------------------------------------------------------------
(* Peers: who keeps a node *)

NodeType == [where : {"unmade", "vNodes", "disconnected", "deleted"}, refs : Nat, fDisconnect : BOOLEAN,
             open : BOOLEAN, unsent : BOOLEAN, fNetworkNode : BOOLEAN, grant : BOOLEAN]
SocketType == [at : {"disconnect", "delete", "accept", "service"}, copy : SUBSET Net!PeerNodes,
               todo : SUBSET Net!PeerNodes]
MessageType == [at : {"copy", "poll", "process", "send"}, copy : SUBSET Net!PeerNodes,
                todo : SUBSET Net!PeerNodes, peer : Net!PeerNodes \cup {Net!Nobody}]
OpenerType == [at : {"idle", "connect", "found", "connected"}, peer : Outbound \cup {Net!Nobody}]

PeersTyped ==
    /\ node \in [Net!PeerNodes -> NodeType]
    /\ socket \in SocketType
    /\ message \in MessageType
    /\ opener \in [Net!Callers -> OpenerType]
    /\ freeGrants \in Nat

(* The callers of ConnectNode that hold a reference, the ones that have a    *)
(* grant, and the nodes that have one.                                       *)
Holders(n) == {o \in Net!Callers : opener[o].at = "connected" /\ opener[o].peer = n}
Opening == {o \in Openers : opener[o] # Net!NotOpening}
Granted == {n \in Net!PeerNodes : node[n].grant}

(* The reference that Removed gives back. *)
Kept(n) == node[n].where = "vNodes" /\ (node[n].fNetworkNode \/ n \in Inbound)

One(b) == IF b THEN 1 ELSE 0
Owed(n) == One(n \in socket.copy) + One(n \in message.copy) + One(Kept(n)) + Cardinality(Holders(n))

(* Every reference that will be given back is counted.  There may be more: a *)
(* second opener that found the node leaves one behind.                      *)
RefsAreOwed == \A n \in Net!PeerNodes : IsFiniteSet(Holders(n)) /\ node[n].refs >= Owed(n)

(* Who has a copy is in the loop over it. *)
LoopsAreInPlace ==
    /\ socket.at # "service" => socket.copy = {}
    /\ message.at = "copy" => message.copy = {}
    /\ socket.todo \subseteq socket.copy /\ message.todo \subseteq message.copy
    /\ message.at \in {"process", "send"} => message.peer \in message.copy

CopiesAreMade == \A n \in socket.copy \cup message.copy : node[n].where # "unmade"

OpenersHaveNodes ==
    \A o \in Net!Callers :
        /\ opener[o].at = "idle" => opener[o] = Net!NotOpening
        /\ opener[o].at # "idle" => opener[o].peer \in Outbound
        /\ opener[o].at \in {"found", "connected"} => node[opener[o].peer].where # "unmade"

(* Before and after its life a node has neither references nor a grant. *)
EndsAreBare == \A n \in Net!PeerNodes : node[n].where \in {"unmade", "deleted"} => node[n].refs = 0 /\ ~node[n].grant

GrantsAreCounted ==
    /\ IsFiniteSet(Opening)
    /\ IsFiniteSet(Granted)
    /\ freeGrants + Cardinality(Opening) + Cardinality(Granted) = MaxOutbound

PeersInv ==
    /\ PeersTyped
    /\ RefsAreOwed
    /\ LoopsAreInPlace
    /\ CopiesAreMade
    /\ OpenersHaveNodes
    /\ EndsAreBare
    /\ GrantsAreCounted

(* The type invariant of Peers. *)
LEMMA PeersTypedImplies == PeersTyped /\ freeGrants \in 0 .. MaxOutbound => Net!TypeOK
BY DEF PeersTyped, NodeType, SocketType, MessageType, OpenerType, Net!TypeOK

(* Cardinality as Peers sees it. *)
LEMMA NetCardinality == \A S : Net!Cardinality(S) = Cardinality(S)
BY DEF Net!Cardinality, Cardinality

(* The count is the one that Peers states. *)
LEMMA GrantsCountedImplies == GrantsAreCounted => Net!GrantsAreExact
<1>1. Net!Cardinality(Opening) = Cardinality(Opening) /\ Net!Cardinality(Granted) = Cardinality(Granted)
  BY NetCardinality
<1>2. Net!GrantsAreExact <=> freeGrants + Net!Cardinality(Opening) + Net!Cardinality(Granted) = MaxOutbound
  BY DEF Net!GrantsAreExact, Opening, Granted
<1> QED
  BY <1>1, <1>2 DEF GrantsAreCounted

(* The invariant says what the run checks. *)
LEMMA PeersInvImplies == PeersInv => NodesAreAlive
<1> SUFFICES ASSUME PeersInv PROVE NodesAreAlive
  OBVIOUS
<1> USE DEF PeersInv
<1>1. Cardinality(Opening) \in Nat /\ Cardinality(Granted) \in Nat
  BY FS_CardinalityType DEF GrantsAreCounted
<1>2. MaxOutbound \in Nat
  BY ServicesAssumption DEF Net!PeersAssumption
<1>3. freeGrants + Cardinality(Opening) + Cardinality(Granted) = MaxOutbound
  BY DEF GrantsAreCounted
<1>4. freeGrants \in 0 .. MaxOutbound
  BY <1>1, <1>2, <1>3 DEF PeersTyped
<1>5. Net!TypeOK
  BY <1>4, PeersTypedImplies
<1>6. ASSUME NEW n \in Net!PeerNodes, node[n].where = "deleted"
      PROVE  n \notin socket.copy /\ n \notin message.copy /\ Holders(n) = {}
  <2>1. Cardinality(Holders(n)) \in Nat /\ IsFiniteSet(Holders(n))
    BY FS_CardinalityType DEF RefsAreOwed
  <2>2. node[n].refs = 0
    BY <1>6 DEF EndsAreBare
  <2>3. 0 >= Owed(n)
    BY <2>2 DEF RefsAreOwed
  <2>4. n \notin socket.copy /\ n \notin message.copy /\ Cardinality(Holders(n)) = 0
    BY <2>1, <2>3 DEF Owed, One
  <2> QED
    BY <2>1, <2>4, FS_EmptySet
<1>7. Net!UsedIsAlive
  <2>1. ASSUME NEW n \in socket.copy \cup message.copy PROVE node[n].where \in {"vNodes", "disconnected"}
    <3>1. n \in Net!PeerNodes
      BY DEF PeersTyped, SocketType, MessageType
    <3> QED
      BY <3>1, <1>6 DEF PeersTyped, NodeType, CopiesAreMade
  <2>2. ASSUME NEW o \in Net!Callers, opener[o].at = "connected" PROVE node[opener[o].peer].where # "deleted"
    <3>1. opener[o].peer \in Net!PeerNodes
      BY <2>2 DEF OpenersHaveNodes, Net!PeerNodes
    <3>2. o \in Holders(opener[o].peer)
      BY <2>2 DEF Holders
    <3> QED
      BY <3>1, <3>2, <1>6
  <2> QED
    BY <2>1, <2>2 DEF Net!UsedIsAlive
<1> QED
  BY <1>5, <1>7, GrantsCountedImplies DEF NodesAreAlive

(* At the start no node is made and every grant is free. *)
LEMMA PeersInvInit == Net!Init => PeersInv
<1> SUFFICES ASSUME Net!Init PROVE PeersInv
  OBVIOUS
<1> USE DEF Net!Init
<1>1. MaxOutbound \in Nat
  BY ServicesAssumption DEF Net!PeersAssumption
<1>2. PeersTyped
  BY <1>1 DEF PeersTyped, NodeType, SocketType, MessageType, OpenerType, Net!Unmade, Net!NotOpening
<1>3. \A n \in Net!PeerNodes : Holders(n) = {}
  BY DEF Holders, Net!NotOpening
<1>4. Opening = {} /\ Granted = {}
  BY DEF Opening, Granted, Net!Unmade, Net!Callers
<1>5. RefsAreOwed
  <2> SUFFICES ASSUME NEW n \in Net!PeerNodes PROVE IsFiniteSet(Holders(n)) /\ node[n].refs >= Owed(n)
    BY DEF RefsAreOwed
  <2>1. IsFiniteSet(Holders(n)) /\ Cardinality(Holders(n)) = 0
    BY <1>3, FS_EmptySet
  <2>2. node[n].refs = 0 /\ ~Kept(n)
    BY DEF Kept, Net!Unmade
  <2> QED
    BY <2>1, <2>2 DEF Owed, One
<1>6. LoopsAreInPlace /\ CopiesAreMade /\ OpenersHaveNodes /\ EndsAreBare
  BY DEF LoopsAreInPlace, CopiesAreMade, OpenersHaveNodes, EndsAreBare, Net!Unmade, Net!NotOpening
<1>7. GrantsAreCounted
  BY <1>1, <1>4, FS_EmptySet DEF GrantsAreCounted
<1> QED
  BY <1>2, <1>5, <1>6, <1>7 DEF PeersInv

(* The counts of a node are numbers. *)
LEMMA OwedIsCounted ==
    ASSUME PeersInv, NEW n \in Net!PeerNodes
    PROVE  /\ node[n] \in NodeType
           /\ IsFiniteSet(Holders(n))
           /\ Cardinality(Holders(n)) \in Nat
           /\ Owed(n) \in Nat
           /\ Owed(n) <= node[n].refs
<1>1. node[n] \in NodeType
  BY DEF PeersInv, PeersTyped
<1>2. IsFiniteSet(Holders(n)) /\ node[n].refs >= Owed(n)
  BY DEF PeersInv, RefsAreOwed
<1>3. Cardinality(Holders(n)) \in Nat
  BY <1>2, FS_CardinalityType
<1>4. Owed(n) \in Nat
  BY <1>3 DEF Owed, One
<1> QED
  BY <1>1, <1>2, <1>3, <1>4 DEF NodeType

(* What a step on the socket, the send queue or fDisconnect of a node leaves *)
(* as it is.                                                                 *)
SameHold(x, y) == x.where = y.where /\ x.refs = y.refs /\ x.fNetworkNode = y.fNetworkNode /\ x.grant = y.grant

(* Steps inside of the two loops, and marks from elsewhere. *)
LEMMA TouchKeeps ==
    ASSUME PeersInv, UNCHANGED <<opener, freeGrants>>,
           node' \in [Net!PeerNodes -> NodeType], \A n \in Net!PeerNodes : SameHold(node'[n], node[n]),
           socket' \in SocketType, socket'.copy = socket.copy,
           message' \in MessageType, message'.copy = message.copy,
           LoopsAreInPlace'
    PROVE  PeersInv'
<1> USE DEF SameHold
<1>1. PeersTyped'
  BY DEF PeersInv, PeersTyped
<1>2. ASSUME NEW n \in Net!PeerNodes PROVE Holders(n)' = Holders(n) /\ (Kept(n) <=> Kept(n)')
  BY DEF Holders, Kept
<1>3. RefsAreOwed'
  <2> SUFFICES ASSUME NEW n \in Net!PeerNodes PROVE (IsFiniteSet(Holders(n)) /\ node[n].refs >= Owed(n))'
    BY DEF RefsAreOwed
  <2> QED
    BY <1>2, OwedIsCounted DEF Owed, One
<1>4. CopiesAreMade'
  BY DEF PeersInv, CopiesAreMade, PeersTyped, SocketType, MessageType
<1>5. OpenersHaveNodes'
  BY DEF PeersInv, OpenersHaveNodes, Net!PeerNodes
<1>6. EndsAreBare'
  BY DEF PeersInv, EndsAreBare
<1>7. Opening' = Opening /\ Granted' = Granted
  BY DEF Opening, Granted
<1>8. GrantsAreCounted'
  BY <1>7 DEF PeersInv, GrantsAreCounted
<1> QED
  BY <1>1, <1>3, <1>4, <1>5, <1>6, <1>8 DEF PeersInv

(* What a step of one opener does to the sets that are counted. *)
LEMMA OpenerMoves ==
    ASSUME PeersInv, NEW o \in Net!Callers, NEW w \in OpenerType, opener' = [opener EXCEPT ![o] = w]
    PROVE  /\ opener' \in [Net!Callers -> OpenerType]
           /\ \A n \in Net!PeerNodes :
                Holders(n)' = IF w.at = "connected" /\ w.peer = n THEN Holders(n) \cup {o} ELSE Holders(n) \ {o}
           /\ Opening' = IF o \in Openers /\ w # Net!NotOpening THEN Opening \cup {o} ELSE Opening \ {o}
<1>1. opener \in [Net!Callers -> OpenerType]
  BY DEF PeersInv, PeersTyped
<1>2. \A p \in Net!Callers : opener'[p] = IF p = o THEN w ELSE opener[p]
  BY <1>1
<1>3. ASSUME NEW n \in Net!PeerNodes
      PROVE  Holders(n)' = IF w.at = "connected" /\ w.peer = n THEN Holders(n) \cup {o} ELSE Holders(n) \ {o}
  BY <1>2 DEF Holders
<1>4. Opening' = IF o \in Openers /\ w # Net!NotOpening THEN Opening \cup {o} ELSE Opening \ {o}
  BY <1>2 DEF Opening, Net!Callers
<1> QED
  BY <1>1, <1>3, <1>4

(* One element more or less. *)
LEMMA CountOne ==
    ASSUME NEW S, NEW x, IsFiniteSet(S)
    PROVE  /\ Cardinality(S) \in Nat
           /\ IsFiniteSet(S \cup {x}) /\ Cardinality(S \cup {x}) = IF x \in S THEN Cardinality(S) ELSE Cardinality(S) + 1
           /\ IsFiniteSet(S \ {x}) /\ Cardinality(S \ {x}) = IF x \in S THEN Cardinality(S) - 1 ELSE Cardinality(S)
BY FS_AddElement, FS_RemoveElement, FS_CardinalityType

(* Grants that nodes give back. *)
LEMMA GrantsComeBack ==
    ASSUME PeersInv, NEW D, D \subseteq Granted, Granted' = Granted \ D, UNCHANGED opener,
           freeGrants' = freeGrants + Net!Cardinality(D)
    PROVE  GrantsAreCounted' /\ freeGrants' \in Nat
<1>1. Opening' = Opening
  BY DEF Opening
<1>2. IsFiniteSet(Opening) /\ IsFiniteSet(Granted)
  BY DEF PeersInv, GrantsAreCounted
<1>3. IsFiniteSet(D) /\ D = Granted \cap D
  BY <1>2, FS_Subset
<1>4. Cardinality(Opening) \in Nat /\ Cardinality(Granted) \in Nat /\ Cardinality(D) \in Nat
  BY <1>2, <1>3, FS_CardinalityType
<1>5. IsFiniteSet(Granted \ D) /\ Cardinality(Granted \ D) = Cardinality(Granted) - Cardinality(D)
  BY <1>2, <1>3, FS_Difference
<1>6. freeGrants' = freeGrants + Cardinality(D)
  BY NetCardinality
<1>7. freeGrants \in Nat /\ MaxOutbound \in Nat
  BY ServicesAssumption DEF Net!PeersAssumption, PeersInv, PeersTyped
<1>8. freeGrants + Cardinality(Opening) + Cardinality(Granted) = MaxOutbound
  BY DEF PeersInv, GrantsAreCounted
<1>9. freeGrants' + Cardinality(Opening') + Cardinality(Granted') = MaxOutbound
  BY <1>1, <1>4, <1>5, <1>6, <1>7, <1>8
<1> QED
  BY <1>1, <1>2, <1>4, <1>5, <1>6, <1>7, <1>9 DEF GrantsAreCounted

-----------------------------------------------------------------------------
(* The socket thread *)

(* ThreadSocketHandler moves nodes to vNodesDisconnected: each loses the     *)
(* reference of its membership and gives its grant back.                     *)
LEMMA DisconnectNodesKeeps == ASSUME PeersInv, Net!DisconnectNodes PROVE PeersInv'
<1> DEFINE gone == {n \in Net!vNodes : node[n].fDisconnect \/ Net!Unused(n)}
           D == {n \in gone : node[n].grant}
<1>1. /\ socket.at = "disconnect"
      /\ node' = [n \in Net!PeerNodes |-> IF n \in gone THEN Net!Removed(n) ELSE node[n]]
      /\ freeGrants' = freeGrants + Net!Cardinality(D)
      /\ socket' = [socket EXCEPT !.at = "delete"]
      /\ UNCHANGED <<message, opener>>
  BY DEF Net!DisconnectNodes
<1>2. ASSUME NEW n \in gone
      PROVE  /\ n \in Net!PeerNodes /\ node[n].where = "vNodes"
             /\ node'[n] \in NodeType
             /\ node'[n].where = "disconnected" /\ ~node'[n].grant
             /\ node'[n].refs = node[n].refs - One(Kept(n))
  <2>1. n \in Net!PeerNodes /\ node[n].where = "vNodes"
    BY DEF Net!vNodes
  <2>2. node'[n] = Net!Removed(n)
    BY <1>1, <2>1
  <2>3. node[n] \in NodeType /\ node[n].refs >= One(Kept(n))
    BY <2>1, OwedIsCounted DEF Owed, One, NodeType
  <2>4. One(Kept(n)) = IF node[n].fNetworkNode \/ n \in Inbound THEN 1 ELSE 0
    BY <2>1 DEF One, Kept
  <2>5. node[n].refs \in Nat /\ node[n].refs - One(Kept(n)) \in Nat
    BY <2>3, <2>4 DEF NodeType
  <2> DEFINE x == Net!Closed(node[n])
  <2>6. x \in NodeType /\ x.refs = node[n].refs
    BY <2>3 DEF Net!Closed, NodeType
  <2>7. node'[n] = [x EXCEPT !.where = "disconnected", !.grant = FALSE, !.refs = node[n].refs - One(Kept(n))]
    <3>1. (IF node[n].fNetworkNode \/ n \in Inbound THEN x.refs - 1 ELSE x.refs) = node[n].refs - One(Kept(n))
      BY <2>4, <2>5, <2>6
    <3>2. node'[n] = [x EXCEPT !.where = "disconnected", !.grant = FALSE,
                               !.refs = IF node[n].fNetworkNode \/ n \in Inbound THEN x.refs - 1 ELSE x.refs]
      BY <2>2, <2>6 DEF Net!Removed, NodeType
    <3> QED
      BY <3>1, <3>2
  <2> HIDE DEF x
  <2> QED
    BY <2>1, <2>5, <2>6, <2>7 DEF NodeType
<1>3. ASSUME NEW n \in Net!PeerNodes, n \notin gone PROVE node'[n] = node[n]
  BY <1>1, <1>3
<1>4. socket' \in SocketType /\ socket'.copy = socket.copy /\ socket'.todo = socket.todo /\ socket'.at = "delete"
  BY <1>1 DEF PeersInv, PeersTyped, SocketType
<1>5. D \subseteq Granted /\ Granted' = Granted \ D
  <2>1. \A n \in Net!PeerNodes : n \in D => node[n].grant /\ ~node'[n].grant
    BY <1>2
  <2>2. \A n \in Net!PeerNodes : n \notin D => (node'[n].grant <=> node[n].grant)
    BY <1>2, <1>3, OwedIsCounted DEF NodeType
  <2> QED
    BY <2>1, <2>2, <1>2 DEF Granted
<1> HIDE DEF gone, D
<1>6. GrantsAreCounted' /\ freeGrants' \in Nat
  BY <1>1, <1>5, GrantsComeBack
<1>7. PeersTyped'
  <2>1. node' \in [Net!PeerNodes -> NodeType]
    BY <1>1, <1>2, <1>3, OwedIsCounted
  <2> QED
    BY <1>1, <1>4, <1>6, <2>1 DEF PeersInv, PeersTyped
<1>8. RefsAreOwed'
  <2> SUFFICES ASSUME NEW n \in Net!PeerNodes PROVE (IsFiniteSet(Holders(n)) /\ node[n].refs >= Owed(n))'
    BY DEF RefsAreOwed
  <2>1. Holders(n)' = Holders(n)
    BY <1>1 DEF Holders
  <2>2. (n \in socket.copy <=> n \in socket'.copy) /\ (n \in message.copy <=> n \in message'.copy)
    BY <1>1, <1>4
  <2>3. CASE n \in gone
    <3>1. ~Kept(n)' /\ node'[n].refs = node[n].refs - One(Kept(n))
      BY <1>2, <2>3 DEF Kept
    <3> QED
      BY <2>1, <2>2, <3>1, OwedIsCounted DEF Owed, One, NodeType
  <2>4. CASE n \notin gone
    BY <1>3, <2>1, <2>2, <2>4, OwedIsCounted DEF Owed, One, Kept
  <2> QED
    BY <2>3, <2>4
<1>9. LoopsAreInPlace' /\ CopiesAreMade' /\ OpenersHaveNodes' /\ EndsAreBare'
  <2>1. \A n \in Net!PeerNodes : node'[n].where = "unmade" => node[n].where = "unmade"
    BY <1>2, <1>3
  <2>2. \A n \in Net!PeerNodes : node'[n].where \in {"unmade", "deleted"} => node'[n] = node[n]
    BY <1>2, <1>3
  <2>3. LoopsAreInPlace'
    BY <1>1, <1>4 DEF PeersInv, LoopsAreInPlace
  <2>4. CopiesAreMade'
    BY <1>1, <1>4, <2>1 DEF PeersInv, CopiesAreMade, PeersTyped, SocketType, MessageType
  <2>5. OpenersHaveNodes'
    BY <1>1, <2>1 DEF PeersInv, OpenersHaveNodes, Net!PeerNodes
  <2> QED
    BY <2>2, <2>3, <2>4, <2>5 DEF PeersInv, EndsAreBare
<1> QED
  BY <1>6, <1>7, <1>8, <1>9 DEF PeersInv

(* A node that is deleted has no reference left, so nobody has a copy of     *)
(* it.                                                                       *)
LEMMA DeleteNodesKeeps == ASSUME PeersInv, Net!DeleteNodes PROVE PeersInv'
<1> DEFINE D == {n \in Net!Deletable : node[n].grant}
<1>1. /\ socket.at = "delete"
      /\ node' = [n \in Net!PeerNodes |->
                     IF n \in Net!Deletable THEN [node[n] EXCEPT !.where = "deleted", !.grant = FALSE] ELSE node[n]]
      /\ freeGrants' = freeGrants + Net!Cardinality(D)
      /\ socket' = [socket EXCEPT !.at = "accept"]
      /\ UNCHANGED <<message, opener>>
  BY DEF Net!DeleteNodes
<1>2. ASSUME NEW n \in Net!Deletable
      PROVE  /\ n \in Net!PeerNodes /\ node[n].where = "disconnected"
             /\ node'[n] \in NodeType
             /\ node'[n].where = "deleted" /\ ~node'[n].grant
             /\ node'[n].refs = node[n].refs /\ node[n].refs = 0
  <2>1. n \in Net!PeerNodes /\ node[n].where = "disconnected" /\ node[n].refs <= 0
    BY DEF Net!Deletable, Net!vNodesDisconnected
  <2>2. node'[n] = [node[n] EXCEPT !.where = "deleted", !.grant = FALSE]
    BY <1>1, <2>1
  <2>3. node[n] \in NodeType
    BY <2>1, OwedIsCounted
  <2>4. node[n].refs = 0
    BY <2>1, <2>3 DEF NodeType
  <2>5. node'[n] \in NodeType
    BY <2>2, <2>3 DEF NodeType
  <2>6. node'[n].where = "deleted" /\ ~node'[n].grant /\ node'[n].refs = node[n].refs
    BY <2>2, <2>3 DEF NodeType
  <2> QED
    BY <2>1, <2>4, <2>5, <2>6
<1>3. ASSUME NEW n \in Net!PeerNodes, n \notin Net!Deletable PROVE node'[n] = node[n]
  BY <1>1, <1>3
<1>4. socket' \in SocketType /\ socket'.copy = socket.copy /\ socket'.todo = socket.todo /\ socket'.at = "accept"
  BY <1>1 DEF PeersInv, PeersTyped, SocketType
<1>5. D \subseteq Granted /\ Granted' = Granted \ D
  <2>1. \A n \in Net!PeerNodes : n \in D => node[n].grant /\ ~node'[n].grant
    BY <1>2
  <2>2. \A n \in Net!PeerNodes : n \notin D => (node'[n].grant <=> node[n].grant)
    BY <1>2, <1>3, OwedIsCounted DEF NodeType
  <2> QED
    BY <2>1, <2>2, <1>2 DEF Granted
<1> HIDE DEF D
<1>6. GrantsAreCounted' /\ freeGrants' \in Nat
  BY <1>1, <1>5, GrantsComeBack
<1>7. PeersTyped'
  <2>1. node' \in [Net!PeerNodes -> NodeType]
    BY <1>1, <1>2, <1>3, OwedIsCounted
  <2> QED
    BY <1>1, <1>4, <1>6, <2>1 DEF PeersInv, PeersTyped
<1>8. RefsAreOwed'
  <2> SUFFICES ASSUME NEW n \in Net!PeerNodes PROVE (IsFiniteSet(Holders(n)) /\ node[n].refs >= Owed(n))'
    BY DEF RefsAreOwed
  <2>1. Holders(n)' = Holders(n)
    BY <1>1 DEF Holders
  <2>2. (n \in socket.copy <=> n \in socket'.copy) /\ (n \in message.copy <=> n \in message'.copy)
    BY <1>1, <1>4
  <2>3. node'[n].refs = node[n].refs /\ (Kept(n)' <=> Kept(n))
    BY <1>2, <1>3 DEF Kept
  <2> QED
    BY <2>1, <2>2, <2>3, OwedIsCounted DEF Owed, One
<1>9. LoopsAreInPlace' /\ CopiesAreMade' /\ OpenersHaveNodes' /\ EndsAreBare'
  <2>1. \A n \in Net!PeerNodes : node'[n].where = "unmade" => node[n].where = "unmade"
    BY <1>2, <1>3
  <2>2. EndsAreBare'
    BY <1>2, <1>3 DEF PeersInv, EndsAreBare
  <2>3. LoopsAreInPlace'
    BY <1>1, <1>4 DEF PeersInv, LoopsAreInPlace
  <2>4. CopiesAreMade'
    BY <1>1, <1>4, <2>1 DEF PeersInv, CopiesAreMade, PeersTyped, SocketType, MessageType
  <2>5. OpenersHaveNodes'
    BY <1>1, <2>1 DEF PeersInv, OpenersHaveNodes, Net!PeerNodes
  <2> QED
    BY <2>2, <2>3, <2>4, <2>5
<1> QED
  BY <1>6, <1>7, <1>8, <1>9 DEF PeersInv

(* Steps that make no node and change references only. *)
LEMMA RefsChange ==
    ASSUME PeersInv, UNCHANGED <<opener, freeGrants>>,
           node' \in [Net!PeerNodes -> NodeType],
           \A n \in Net!PeerNodes : SameHold(node'[n], [node[n] EXCEPT !.refs = node'[n].refs]),
           socket' \in SocketType, message' \in MessageType, LoopsAreInPlace', CopiesAreMade',
           \A n \in Net!PeerNodes :
               node'[n].refs - node[n].refs = One(n \in socket'.copy) + One(n \in message'.copy)
                                                 - One(n \in socket.copy) - One(n \in message.copy),
           \A n \in Net!PeerNodes : node[n].where \in {"unmade", "deleted"} => node'[n].refs = node[n].refs
    PROVE  PeersInv'
<1>1. \A n \in Net!PeerNodes :
         /\ node'[n].where = node[n].where
         /\ node'[n].fNetworkNode = node[n].fNetworkNode
         /\ node'[n].grant = node[n].grant
  BY OwedIsCounted DEF SameHold, NodeType
<1>2. PeersTyped'
  BY DEF PeersInv, PeersTyped
<1>3. ASSUME NEW n \in Net!PeerNodes PROVE Holders(n)' = Holders(n) /\ (Kept(n) <=> Kept(n)')
  BY <1>1 DEF Holders, Kept
<1>4. RefsAreOwed'
  <2> SUFFICES ASSUME NEW n \in Net!PeerNodes PROVE (IsFiniteSet(Holders(n)) /\ node[n].refs >= Owed(n))'
    BY DEF RefsAreOwed
  <2>1. node'[n].refs \in Nat
    BY DEF NodeType
  <2> QED
    BY <1>3, <2>1, OwedIsCounted DEF Owed, One, NodeType
<1>5. OpenersHaveNodes'
  BY <1>1 DEF PeersInv, OpenersHaveNodes, Net!PeerNodes
<1>6. EndsAreBare'
  BY <1>1 DEF PeersInv, EndsAreBare
<1>7. Opening' = Opening /\ Granted' = Granted
  BY <1>1 DEF Opening, Granted
<1>8. GrantsAreCounted'
  BY <1>7 DEF PeersInv, GrantsAreCounted
<1> QED
  BY <1>2, <1>4, <1>5, <1>6, <1>8 DEF PeersInv

(* A new node in vNodes. *)
LEMMA MadeIsBare == Net!Made \in NodeType /\ Net!Unmade \in NodeType
                    /\ Net!Made.where = "vNodes" /\ Net!Made.refs = 1 /\ ~Net!Made.fNetworkNode /\ ~Net!Made.grant
                    /\ Net!Unmade.where = "unmade" /\ Net!Unmade.refs = 0 /\ ~Net!Unmade.grant
BY DEF Net!Made, Net!Unmade, NodeType

(* Nobody has anything to do with a node that is not made. *)
LEMMA UnmadeIsUnused ==
    ASSUME PeersInv, NEW n \in Net!PeerNodes, node[n].where = "unmade"
    PROVE  n \notin socket.copy /\ n \notin message.copy /\ Holders(n) = {} /\ node[n].refs = 0 /\ ~node[n].grant
BY DEF PeersInv, CopiesAreMade, EndsAreBare, Holders, OpenersHaveNodes

(* An accepted node begins with the reference of vNodes. *)
LEMMA AcceptKeeps == ASSUME PeersInv, NEW n \in Net!PeerNodes, Net!Accept(n) PROVE PeersInv'
<1>1. /\ n \in Inbound /\ node[n] = Net!Unmade
      /\ node' = [node EXCEPT ![n] = Net!Made]
      /\ UNCHANGED <<socket, message, opener, freeGrants>>
  BY DEF Net!Accept
<1>2. node \in [Net!PeerNodes -> NodeType]
  BY DEF PeersInv, PeersTyped
<1>3. \A m \in Net!PeerNodes : node'[m] = IF m = n THEN Net!Made ELSE node[m]
  BY <1>1, <1>2
<1>4. PeersTyped'
  BY <1>1, MadeIsBare DEF PeersInv, PeersTyped
<1>5. n \notin socket.copy /\ n \notin message.copy /\ Holders(n) = {} /\ ~node[n].grant
  BY <1>1, MadeIsBare, UnmadeIsUnused
<1>6. \A m \in Net!PeerNodes : Holders(m)' = Holders(m)
  BY <1>1 DEF Holders
<1>7. RefsAreOwed'
  <2> SUFFICES ASSUME NEW m \in Net!PeerNodes PROVE (IsFiniteSet(Holders(m)) /\ node[m].refs >= Owed(m))'
    BY DEF RefsAreOwed
  <2>1. CASE m = n
    <3>1. Cardinality(Holders(m)) = 0
      BY <1>5, <2>1, FS_EmptySet
    <3>2. node'[m].refs = 1
      BY <1>3, <2>1, MadeIsBare
    <3>3. m \notin socket'.copy /\ m \notin message'.copy
      BY <1>1, <1>5, <2>1
    <3> QED
      BY <1>6, <3>1, <3>2, <3>3, OwedIsCounted DEF Owed, One
  <2>2. CASE m # n
    <3>1. Kept(m)' <=> Kept(m)
      BY <1>3, <2>2 DEF Kept
    <3>2. Owed(m)' = Owed(m)
      BY <1>1, <1>6, <3>1 DEF Owed, One
    <3> QED
      BY <1>3, <1>6, <2>2, <3>2, OwedIsCounted
  <2> QED
    BY <2>1, <2>2
<1>8. LoopsAreInPlace' /\ CopiesAreMade' /\ OpenersHaveNodes' /\ EndsAreBare'
  <2>1. LoopsAreInPlace'
    BY <1>1 DEF PeersInv, LoopsAreInPlace
  <2>2. CopiesAreMade'
    BY <1>1, <1>3, MadeIsBare DEF PeersInv, CopiesAreMade, PeersTyped, SocketType, MessageType
  <2>3. OpenersHaveNodes'
    BY <1>1, <1>3, MadeIsBare DEF PeersInv, OpenersHaveNodes, Net!PeerNodes
  <2>4. EndsAreBare'
    BY <1>3, MadeIsBare DEF PeersInv, EndsAreBare
  <2> QED
    BY <2>1, <2>2, <2>3, <2>4
<1>9. Opening' = Opening /\ Granted' = Granted
  BY <1>1, <1>3, <1>5, MadeIsBare DEF Opening, Granted
<1> QED
  BY <1>1, <1>4, <1>7, <1>8, <1>9 DEF PeersInv, GrantsAreCounted

(* AddRef for a copy of vNodes, Release for the nodes of a copy. *)
LEMMA CopyCounts ==
    ASSUME PeersInv, NEW copy, node' = Net!AddRefs(copy)
    PROVE  \A n \in Net!PeerNodes :
               /\ node'[n] \in NodeType
               /\ SameHold(node'[n], [node[n] EXCEPT !.refs = node'[n].refs])
               /\ node'[n].where = node[n].where
               /\ node'[n].refs = node[n].refs + One(n \in copy)
<1> SUFFICES ASSUME NEW n \in Net!PeerNodes
             PROVE  /\ node'[n] \in NodeType
                    /\ SameHold(node'[n], [node[n] EXCEPT !.refs = node'[n].refs])
                    /\ node'[n].where = node[n].where
                    /\ node'[n].refs = node[n].refs + One(n \in copy)
  OBVIOUS
<1>1. node[n] \in NodeType
  BY OwedIsCounted
<1>2. CASE n \in copy
  <2>1. node'[n] = [node[n] EXCEPT !.refs = node[n].refs + 1]
    BY <1>2 DEF Net!AddRefs
  <2> QED
    BY <1>1, <1>2, <2>1 DEF NodeType, SameHold, One
<1>3. CASE n \notin copy
  <2>1. node'[n] = node[n]
    BY <1>3 DEF Net!AddRefs
  <2> QED
    BY <1>1, <1>3, <2>1 DEF NodeType, SameHold, One
<1> QED
  BY <1>2, <1>3

(* Release for the nodes of a copy. *)
LEMMA ReleaseCounts ==
    ASSUME PeersInv, NEW copy, node' = Net!Releases(copy), \A n \in copy \cap Net!PeerNodes : node[n].refs >= 1
    PROVE  \A n \in Net!PeerNodes :
               /\ node'[n] \in NodeType
               /\ SameHold(node'[n], [node[n] EXCEPT !.refs = node'[n].refs])
               /\ node'[n].where = node[n].where
               /\ node'[n].refs = node[n].refs - One(n \in copy)
<1> SUFFICES ASSUME NEW n \in Net!PeerNodes
             PROVE  /\ node'[n] \in NodeType
                    /\ SameHold(node'[n], [node[n] EXCEPT !.refs = node'[n].refs])
                    /\ node'[n].where = node[n].where
                    /\ node'[n].refs = node[n].refs - One(n \in copy)
  OBVIOUS
<1>1. node[n] \in NodeType
  BY OwedIsCounted
<1>2. CASE n \in copy
  <2>1. node'[n] = [node[n] EXCEPT !.refs = node[n].refs - 1]
    BY <1>2 DEF Net!Releases
  <2>2. node[n].refs - 1 \in Nat
    BY <1>1, <1>2 DEF NodeType
  <2> QED
    BY <1>1, <1>2, <2>1, <2>2 DEF NodeType, SameHold, One
<1>3. CASE n \notin copy
  <2>1. node'[n] = node[n]
    BY <1>3 DEF Net!Releases
  <2> QED
    BY <1>1, <1>3, <2>1 DEF NodeType, SameHold, One
<1> QED
  BY <1>2, <1>3

(* The socket thread copies vNodes and takes a reference on each node. *)
LEMMA CopyForServiceKeeps == ASSUME PeersInv, Net!CopyForService PROVE PeersInv'
<1>1. /\ socket.at = "accept"
      /\ socket' = [at |-> "service", copy |-> Net!vNodes, todo |-> Net!vNodes]
      /\ node' = Net!AddRefs(Net!vNodes)
      /\ UNCHANGED <<message, opener, freeGrants>>
  BY DEF Net!CopyForService
<1>2. socket.copy = {}
  BY <1>1 DEF PeersInv, LoopsAreInPlace
<1>3. \A n \in Net!PeerNodes :
         /\ node'[n] \in NodeType
         /\ SameHold(node'[n], [node[n] EXCEPT !.refs = node'[n].refs])
         /\ node'[n].where = node[n].where
         /\ node'[n].refs = node[n].refs + One(n \in Net!vNodes)
  BY <1>1, CopyCounts
<1>4. \A n \in Net!PeerNodes : n \in Net!vNodes <=> node[n].where = "vNodes"
  BY DEF Net!vNodes
<1>5. node' \in [Net!PeerNodes -> NodeType]
  BY <1>1, <1>3 DEF Net!AddRefs
<1>6. socket' \in SocketType /\ message' \in MessageType /\ LoopsAreInPlace' /\ CopiesAreMade'
  <2>1. Net!vNodes \subseteq Net!PeerNodes
    BY DEF Net!vNodes
  <2>2. socket' \in SocketType /\ message' \in MessageType
    BY <1>1, <2>1 DEF SocketType, PeersInv, PeersTyped
  <2>3. LoopsAreInPlace'
    BY <1>1 DEF PeersInv, LoopsAreInPlace
  <2>4. CopiesAreMade'
    BY <1>1, <1>3, <1>4, <2>1 DEF PeersInv, CopiesAreMade, PeersTyped, MessageType
  <2> QED
    BY <2>2, <2>3, <2>4
<1>7. ASSUME NEW n \in Net!PeerNodes
      PROVE  /\ node'[n].refs - node[n].refs = One(n \in socket'.copy) + One(n \in message'.copy)
                                                  - One(n \in socket.copy) - One(n \in message.copy)
             /\ node[n].where \in {"unmade", "deleted"} => node'[n].refs = node[n].refs
  <2>1. node[n].refs \in Nat
    BY OwedIsCounted DEF NodeType
  <2>2. socket'.copy = Net!vNodes /\ message'.copy = message.copy
    BY <1>1
  <2>3. node'[n].refs = node[n].refs + One(n \in Net!vNodes)
    BY <1>3
  <2>4. node[n].where \in {"unmade", "deleted"} => n \notin Net!vNodes
    BY <1>4
  <2> QED
    BY <1>2, <2>1, <2>2, <2>3, <2>4 DEF One
<1> QED
  BY <1>1, <1>3, <1>5, <1>6, <1>7, RefsChange

(* It gives back exactly those references, whatever vNodes has become. *)
LEMMA ReleaseServicedKeeps == ASSUME PeersInv, Net!ReleaseServiced PROVE PeersInv'
<1>1. /\ socket.at = "service"
      /\ socket' = [at |-> "disconnect", copy |-> {}, todo |-> {}]
      /\ node' = Net!Releases(socket.copy)
      /\ UNCHANGED <<message, opener, freeGrants>>
  BY DEF Net!ReleaseServiced
<1>2. \A n \in socket.copy \cap Net!PeerNodes : node[n].refs >= 1
  BY OwedIsCounted DEF Owed, One, NodeType
<1>3. \A n \in Net!PeerNodes :
         /\ node'[n] \in NodeType
         /\ SameHold(node'[n], [node[n] EXCEPT !.refs = node'[n].refs])
         /\ node'[n].where = node[n].where
         /\ node'[n].refs = node[n].refs - One(n \in socket.copy)
  BY <1>1, <1>2, ReleaseCounts
<1>4. node' \in [Net!PeerNodes -> NodeType]
  BY <1>1, <1>3 DEF Net!Releases
<1>5. socket' \in SocketType /\ message' \in MessageType /\ LoopsAreInPlace' /\ CopiesAreMade'
  <2>1. socket' \in SocketType /\ message' \in MessageType
    BY <1>1 DEF SocketType, PeersInv, PeersTyped
  <2>2. LoopsAreInPlace'
    BY <1>1 DEF PeersInv, LoopsAreInPlace
  <2>3. CopiesAreMade'
    BY <1>1, <1>3 DEF PeersInv, CopiesAreMade, PeersTyped, MessageType
  <2> QED
    BY <2>1, <2>2, <2>3
<1>6. ASSUME NEW n \in Net!PeerNodes
      PROVE  /\ node'[n].refs - node[n].refs = One(n \in socket'.copy) + One(n \in message'.copy)
                                                  - One(n \in socket.copy) - One(n \in message.copy)
             /\ node[n].where \in {"unmade", "deleted"} => node'[n].refs = node[n].refs
  <2>1. node[n].refs \in Nat
    BY OwedIsCounted DEF NodeType
  <2>2. socket'.copy = {} /\ message'.copy = message.copy
    BY <1>1
  <2>3. node'[n].refs = node[n].refs - One(n \in socket.copy)
    BY <1>3
  <2>4. node[n].where \in {"unmade", "deleted"} => n \notin socket.copy
    BY <1>2 DEF PeersInv, EndsAreBare
  <2> QED
    BY <2>1, <2>2, <2>3, <2>4 DEF One
<1> QED
  BY <1>1, <1>3, <1>4, <1>5, <1>6, RefsChange

-----------------------------------------------------------------------------
(* The message thread *)

LEMMA CopyForMessagesKeeps == ASSUME PeersInv, Net!CopyForMessages PROVE PeersInv'
<1>1. /\ message.at = "copy"
      /\ message' = [at |-> "poll", copy |-> Net!vNodes, todo |-> Net!vNodes, peer |-> Net!Nobody]
      /\ node' = Net!AddRefs(Net!vNodes)
      /\ UNCHANGED <<socket, opener, freeGrants>>
  BY DEF Net!CopyForMessages
<1>2. message.copy = {}
  BY <1>1 DEF PeersInv, LoopsAreInPlace
<1>3. \A n \in Net!PeerNodes :
         /\ node'[n] \in NodeType
         /\ SameHold(node'[n], [node[n] EXCEPT !.refs = node'[n].refs])
         /\ node'[n].where = node[n].where
         /\ node'[n].refs = node[n].refs + One(n \in Net!vNodes)
  BY <1>1, CopyCounts
<1>4. \A n \in Net!PeerNodes : n \in Net!vNodes <=> node[n].where = "vNodes"
  BY DEF Net!vNodes
<1>5. node' \in [Net!PeerNodes -> NodeType]
  BY <1>1, <1>3 DEF Net!AddRefs
<1>6. socket' \in SocketType /\ message' \in MessageType /\ LoopsAreInPlace' /\ CopiesAreMade'
  <2>1. Net!vNodes \subseteq Net!PeerNodes
    BY DEF Net!vNodes
  <2>2. socket' \in SocketType /\ message' \in MessageType
    BY <1>1, <2>1 DEF MessageType, PeersInv, PeersTyped
  <2>3. LoopsAreInPlace'
    BY <1>1 DEF PeersInv, LoopsAreInPlace
  <2>4. CopiesAreMade'
    BY <1>1, <1>3, <1>4, <2>1 DEF PeersInv, CopiesAreMade, PeersTyped, SocketType
  <2> QED
    BY <2>2, <2>3, <2>4
<1>7. ASSUME NEW n \in Net!PeerNodes
      PROVE  /\ node'[n].refs - node[n].refs = One(n \in socket'.copy) + One(n \in message'.copy)
                                                  - One(n \in socket.copy) - One(n \in message.copy)
             /\ node[n].where \in {"unmade", "deleted"} => node'[n].refs = node[n].refs
  <2>1. node[n].refs \in Nat
    BY OwedIsCounted DEF NodeType
  <2>2. message'.copy = Net!vNodes /\ socket'.copy = socket.copy
    BY <1>1
  <2>3. node'[n].refs = node[n].refs + One(n \in Net!vNodes)
    BY <1>3
  <2>4. node[n].where \in {"unmade", "deleted"} => n \notin Net!vNodes
    BY <1>4
  <2> QED
    BY <1>2, <2>1, <2>2, <2>3, <2>4 DEF One
<1> QED
  BY <1>1, <1>3, <1>5, <1>6, <1>7, RefsChange

(* So does the message thread. *)
LEMMA ReleasePolledKeeps == ASSUME PeersInv, Net!ReleasePolled PROVE PeersInv'
<1>1. /\ message.at = "poll"
      /\ message' = [at |-> "copy", copy |-> {}, todo |-> {}, peer |-> Net!Nobody]
      /\ node' = Net!Releases(message.copy)
      /\ UNCHANGED <<socket, opener, freeGrants>>
  BY DEF Net!ReleasePolled
<1>2. \A n \in message.copy \cap Net!PeerNodes : node[n].refs >= 1
  BY OwedIsCounted DEF Owed, One, NodeType
<1>3. \A n \in Net!PeerNodes :
         /\ node'[n] \in NodeType
         /\ SameHold(node'[n], [node[n] EXCEPT !.refs = node'[n].refs])
         /\ node'[n].where = node[n].where
         /\ node'[n].refs = node[n].refs - One(n \in message.copy)
  BY <1>1, <1>2, ReleaseCounts
<1>4. node' \in [Net!PeerNodes -> NodeType]
  BY <1>1, <1>3 DEF Net!Releases
<1>5. socket' \in SocketType /\ message' \in MessageType /\ LoopsAreInPlace' /\ CopiesAreMade'
  <2>1. socket' \in SocketType /\ message' \in MessageType
    BY <1>1 DEF MessageType, PeersInv, PeersTyped
  <2>2. LoopsAreInPlace'
    BY <1>1 DEF PeersInv, LoopsAreInPlace
  <2>3. CopiesAreMade'
    BY <1>1, <1>3 DEF PeersInv, CopiesAreMade, PeersTyped, SocketType
  <2> QED
    BY <2>1, <2>2, <2>3
<1>6. ASSUME NEW n \in Net!PeerNodes
      PROVE  /\ node'[n].refs - node[n].refs = One(n \in socket'.copy) + One(n \in message'.copy)
                                                  - One(n \in socket.copy) - One(n \in message.copy)
             /\ node[n].where \in {"unmade", "deleted"} => node'[n].refs = node[n].refs
  <2>1. node[n].refs \in Nat
    BY OwedIsCounted DEF NodeType
  <2>2. message'.copy = {} /\ socket'.copy = socket.copy
    BY <1>1
  <2>3. node'[n].refs = node[n].refs - One(n \in message.copy)
    BY <1>3
  <2>4. node[n].where \in {"unmade", "deleted"} => n \notin message.copy
    BY <1>2 DEF PeersInv, EndsAreBare
  <2> QED
    BY <2>1, <2>2, <2>3, <2>4 DEF One
<1> QED
  BY <1>1, <1>3, <1>4, <1>5, <1>6, RefsChange

(* What happens to the socket, the send queue and the mark of a node. *)
LEMMA NodeIsTouched ==
    ASSUME NEW x \in NodeType
    PROVE  /\ Net!Closed(x) \in NodeType /\ SameHold(Net!Closed(x), x)
           /\ \A y \in Net!SendResults(x) : y \in NodeType /\ SameHold(y, x)
           /\ \A b \in BOOLEAN : [x EXCEPT !.fDisconnect = b] \in NodeType /\ SameHold([x EXCEPT !.fDisconnect = b], x)
<1>1. ASSUME NEW z \in NodeType PROVE Net!Closed(z) \in NodeType /\ SameHold(Net!Closed(z), z)
  BY DEF Net!Closed, NodeType, SameHold
<1>2. \A b \in BOOLEAN : [x EXCEPT !.unsent = b] \in NodeType /\ SameHold([x EXCEPT !.unsent = b], x)
  BY DEF NodeType, SameHold
<1>3. \A b \in BOOLEAN : [x EXCEPT !.fDisconnect = b] \in NodeType /\ SameHold([x EXCEPT !.fDisconnect = b], x)
  BY DEF NodeType, SameHold
<1>4. Net!Closed([x EXCEPT !.unsent = TRUE]) \in NodeType /\ SameHold(Net!Closed([x EXCEPT !.unsent = TRUE]), x)
  <2>1. [x EXCEPT !.unsent = TRUE] \in NodeType /\ SameHold([x EXCEPT !.unsent = TRUE], x)
    BY <1>2
  <2>2. SameHold(Net!Closed([x EXCEPT !.unsent = TRUE]), [x EXCEPT !.unsent = TRUE])
    BY <1>1, <2>1
  <2> QED
    BY <1>1, <2>1, <2>2 DEF SameHold
<1>5. ASSUME NEW y \in Net!SendResults(x) PROVE y \in NodeType /\ SameHold(y, x)
  <2>1. y \in {[x EXCEPT !.unsent = FALSE], [x EXCEPT !.unsent = TRUE], Net!Closed([x EXCEPT !.unsent = TRUE])}
    BY DEF Net!SendResults
  <2> QED
    BY <1>2, <1>4, <2>1
<1> QED
  BY <1>1, <1>3, <1>5

(* One node of a loop is touched. *)
LEMMA TouchOne ==
    ASSUME PeersInv, NEW n \in Net!PeerNodes, NEW y \in NodeType, SameHold(y, node[n]), node' = [node EXCEPT ![n] = y]
    PROVE  node' \in [Net!PeerNodes -> NodeType] /\ \A m \in Net!PeerNodes : SameHold(node'[m], node[m])
BY DEF PeersInv, PeersTyped, SameHold

(* Serving a node may close its socket, which moves no reference. *)
LEMMA ServiceKeeps == ASSUME PeersInv, NEW n \in Net!PeerNodes, Net!Service(n) PROVE PeersInv'
<1>1. node[n] \in NodeType
  BY OwedIsCounted
<1>2. node' \in [Net!PeerNodes -> NodeType] /\ \A m \in Net!PeerNodes : SameHold(node'[m], node[m])
  <2>1. CASE UNCHANGED node
    BY <2>1 DEF PeersInv, PeersTyped, SameHold
  <2>2. CASE node' = [node EXCEPT ![n] = Net!Closed(node[n])]
    BY <1>1, <2>2, NodeIsTouched, TouchOne
  <2>3. CASE \E y \in Net!SendResults(node[n]) : node' = [node EXCEPT ![n] = y]
    BY <1>1, <2>3, NodeIsTouched, TouchOne
  <2>4. CASE node' = [node EXCEPT ![n].fDisconnect = TRUE]
    <3>1. node' = [node EXCEPT ![n] = [node[n] EXCEPT !.fDisconnect = TRUE]]
      BY <2>4 DEF PeersInv, PeersTyped
    <3> QED
      BY <1>1, <3>1, NodeIsTouched, TouchOne
  <2> QED
    BY <2>1, <2>2, <2>3, <2>4 DEF Net!Service
<1>3. socket' = [socket EXCEPT !.todo = @ \ {n}] /\ UNCHANGED <<message, opener, freeGrants>>
  BY DEF Net!Service
<1>4. socket' \in SocketType /\ socket'.copy = socket.copy /\ message' \in MessageType /\ LoopsAreInPlace'
  BY <1>3 DEF PeersInv, PeersTyped, SocketType, LoopsAreInPlace
<1> QED
  BY <1>2, <1>3, <1>4, TouchKeeps

(* The message thread goes on to a node of its copy. *)
LEMMA PollKeeps == ASSUME PeersInv, NEW n \in Net!PeerNodes, Net!Poll(n) PROVE PeersInv'
<1>1. node' \in [Net!PeerNodes -> NodeType] /\ \A m \in Net!PeerNodes : SameHold(node'[m], node[m])
  BY DEF PeersInv, PeersTyped, SameHold, Net!Poll
<1>2. UNCHANGED <<socket, opener, freeGrants>>
  BY DEF Net!Poll
<1>3. PICK marked \in BOOLEAN :
         message' = [message EXCEPT !.todo = @ \ {n}, !.at = IF marked THEN "poll" ELSE "process",
                                    !.peer = IF marked THEN Net!Nobody ELSE n]
  BY OwedIsCounted DEF Net!Poll, NodeType
<1>4. n \in message.todo
  BY DEF Net!Poll
<1>5. message' \in MessageType /\ message'.copy = message.copy
  BY <1>3 DEF PeersInv, PeersTyped, MessageType
<1>6. LoopsAreInPlace'
  BY <1>2, <1>3, <1>4 DEF PeersInv, PeersTyped, MessageType, LoopsAreInPlace
<1>7. socket' \in SocketType
  BY <1>2 DEF PeersInv, PeersTyped
<1> QED
  BY <1>1, <1>2, <1>5, <1>6, <1>7, TouchKeeps

(* The node that the message thread works on. *)
LEMMA PeerIsNode ==
    ASSUME PeersInv, message.at \in {"process", "send"}
    PROVE  message.peer \in Net!PeerNodes /\ node[message.peer] \in NodeType
BY OwedIsCounted DEF PeersInv, LoopsAreInPlace, PeersTyped, MessageType

(* ProcessMessages may mark the node for disconnection. *)
LEMMA ProcessMessagesKeeps == ASSUME PeersInv, Net!ProcessMessages PROVE PeersInv'
<1> DEFINE n == message.peer
<1>1. message.at = "process" /\ message' = [message EXCEPT !.at = "send"] /\ UNCHANGED <<socket, opener, freeGrants>>
  BY DEF Net!ProcessMessages
<1>2. n \in Net!PeerNodes /\ node[n] \in NodeType
  BY <1>1, PeerIsNode
<1>3. PICK y : /\ y \in {node[n], [node[n] EXCEPT !.fDisconnect = TRUE], Net!Closed(node[n])}
                          \cup {Net!DisconnectOldProtocol(node[n], obsolete) : obsolete \in BOOLEAN}
               /\ node' = [node EXCEPT ![n] = y]
  BY DEF Net!ProcessMessages
<1>4. y \in NodeType /\ SameHold(y, node[n])
  <2>1. CASE y = node[n]
    BY <1>2, <2>1 DEF SameHold
  <2>2. CASE y = Net!Closed(node[n])
    BY <1>2, <2>2, NodeIsTouched
  <2>3. CASE \E b \in BOOLEAN : y = [node[n] EXCEPT !.fDisconnect = b]
    BY <1>2, <2>3, NodeIsTouched
  <2> QED
    BY <1>3, <2>1, <2>2, <2>3 DEF Net!DisconnectOldProtocol
<1>5. node' \in [Net!PeerNodes -> NodeType] /\ \A m \in Net!PeerNodes : SameHold(node'[m], node[m])
  BY <1>2, <1>3, <1>4, TouchOne
<1>6. socket' \in SocketType /\ message' \in MessageType /\ message'.copy = message.copy /\ LoopsAreInPlace'
  BY <1>1 DEF PeersInv, PeersTyped, MessageType, LoopsAreInPlace
<1> QED
  BY <1>1, <1>5, <1>6, TouchKeeps

(* The end of SendMessages for one node. *)
LEMMA SendDoneKeeps ==
    ASSUME PeersInv, message.at = "send", Net!SendDone, UNCHANGED <<socket, opener, freeGrants>>,
           NEW y \in NodeType, SameHold(y, node[message.peer]), node' = [node EXCEPT ![message.peer] = y]
    PROVE  PeersInv'
<1>1. message.peer \in Net!PeerNodes
  BY PeerIsNode
<1>2. node' \in [Net!PeerNodes -> NodeType] /\ \A m \in Net!PeerNodes : SameHold(node'[m], node[m])
  BY <1>1, TouchOne
<1>3. socket' \in SocketType /\ message' \in MessageType /\ message'.copy = message.copy /\ LoopsAreInPlace'
  BY DEF Net!SendDone, PeersInv, PeersTyped, MessageType, LoopsAreInPlace
<1> QED
  BY <1>2, <1>3, TouchKeeps

(* SendMessages that sends nothing. *)
LEMMA SendNothingKeeps == ASSUME PeersInv, NEW mark \in BOOLEAN, Net!SendNothing(mark) PROVE PeersInv'
<1> DEFINE n == message.peer
<1>1. message.at = "send" /\ Net!SendDone /\ UNCHANGED <<socket, opener, freeGrants>>
  BY DEF Net!SendNothing
<1>2. n \in Net!PeerNodes /\ node[n] \in NodeType
  BY <1>1, PeerIsNode
<1>3. PICK b \in BOOLEAN : node' = [node EXCEPT ![n] = [node[n] EXCEPT !.fDisconnect = b]]
  <2>1. node' = [node EXCEPT ![n] = [node[n] EXCEPT !.fDisconnect = node[n].fDisconnect \/ mark]]
    BY <1>2 DEF Net!SendNothing, PeersInv, PeersTyped
  <2> QED
    BY <2>1
<1> QED
  BY <1>1, <1>2, <1>3, NodeIsTouched, SendDoneKeeps

(* SendMessages that sends, or fails to. *)
LEMMA SendPingKeeps == ASSUME PeersInv, NEW n \in Net!PeerNodes, Net!SendPing(n) PROVE PeersInv'
<1>1. message.at = "send" /\ message.peer = n /\ Net!SendDone /\ UNCHANGED <<socket, opener, freeGrants>>
  BY DEF Net!SendPing
<1>2. node[n] \in NodeType
  BY OwedIsCounted
<1>3. PICK y : y \in (IF node[n].unsent THEN {node[n]} ELSE Net!SendResults(node[n])) /\ node' = [node EXCEPT ![n] = y]
  BY DEF Net!SendPing
<1>4. y \in NodeType /\ SameHold(y, node[n])
  BY <1>2, <1>3, NodeIsTouched DEF SameHold
<1> QED
  BY <1>1, <1>3, <1>4, SendDoneKeeps

(* disconnectnode and Ban *)
LEMMA MarksKeep == ASSUME PeersInv, NEW n \in Net!PeerNodes, Net!DisconnectNode(n) \/ Net!Ban(n) PROVE PeersInv'
<1>1. node[n] \in NodeType
  BY OwedIsCounted
<1>2. UNCHANGED <<socket, message, opener, freeGrants>>
  BY DEF Net!DisconnectNode, Net!Ban
<1>3. CASE Net!DisconnectNode(n)
  <2>1. node' = [node EXCEPT ![n] = Net!Closed(node[n])]
    BY <1>3 DEF Net!DisconnectNode, PeersInv, PeersTyped
  <2> QED
    BY <1>1, <1>2, <2>1, NodeIsTouched, TouchOne, TouchKeeps DEF PeersInv, PeersTyped, LoopsAreInPlace
<1>4. CASE Net!Ban(n)
  <2>1. node' = [node EXCEPT ![n] = [node[n] EXCEPT !.fDisconnect = TRUE]]
    BY <1>4 DEF Net!Ban, PeersInv, PeersTyped
  <2> QED
    BY <1>1, <1>2, <2>1, NodeIsTouched, TouchOne, TouchKeeps DEF PeersInv, PeersTyped, LoopsAreInPlace
<1> QED
  BY <1>3, <1>4

-----------------------------------------------------------------------------
(* Openers *)

(* The nodes that are opened are not those that are accepted. *)
LEMMA OutboundIsNode ==
    ASSUME NEW n \in Outbound PROVE n \in Net!PeerNodes /\ n \notin Inbound
BY ServicesAssumption DEF Net!PeerNodes, Net!PeersAssumption

(* A step in which opener o goes to w and the node n it deals with to y, and *)
(* which counts the references.                                              *)
OpenerMove(o, w, n, y) ==
    /\ opener' = [opener EXCEPT ![o] = w]
    /\ w.at = "idle" => w = Net!NotOpening
    /\ opener[o].at # "idle" => opener[o].peer = n
    /\ w.at # "idle" => w.peer = n
    /\ w.at \in {"found", "connected"} => y.where # "unmade"
    /\ node' = [node EXCEPT ![n] = y]
    /\ y.where = "unmade" => node[n].where = "unmade"
    /\ y.where \in {"unmade", "deleted"} => y.refs = 0 /\ ~y.grant
    /\ y.refs - node[n].refs >= One(y.where = "vNodes" /\ y.fNetworkNode) - One(Kept(n))
                                 + One(w.at = "connected") - One(opener[o].at = "connected")
    /\ UNCHANGED <<socket, message>>

(* Such a step keeps the invariant, if the grants still add up. *)
LEMMA OpenerKeeps ==
    ASSUME PeersInv, NEW o \in Net!Callers, NEW w \in OpenerType, NEW n \in Outbound, NEW y \in NodeType,
           OpenerMove(o, w, n, y), GrantsAreCounted', freeGrants' \in Nat
    PROVE  PeersInv'
<1> USE DEF OpenerMove
<1>1. n \in Net!PeerNodes /\ node \in [Net!PeerNodes -> NodeType] /\ opener \in [Net!Callers -> OpenerType]
  BY DEF PeersInv, PeersTyped, Net!PeerNodes
<1>2. \A m \in Net!PeerNodes : node'[m] = IF m = n THEN y ELSE node[m]
  BY <1>1
<1>3. PeersTyped'
  BY <1>1 DEF PeersInv, PeersTyped
<1>4. RefsAreOwed'
  <2> SUFFICES ASSUME NEW m \in Net!PeerNodes PROVE (IsFiniteSet(Holders(m)) /\ node[m].refs >= Owed(m))'
    BY DEF RefsAreOwed
  <2>1. Holders(m)' = IF w.at = "connected" /\ w.peer = m THEN Holders(m) \cup {o} ELSE Holders(m) \ {o}
    BY OpenerMoves
  <2>2. IsFiniteSet(Holders(m)) /\ Cardinality(Holders(m)) \in Nat
    BY OwedIsCounted
  <2> DEFINE H == Holders(m)
  <2>0. /\ IsFiniteSet(H \cup {o}) /\ Cardinality(H \cup {o}) = IF o \in H THEN Cardinality(H) ELSE Cardinality(H) + 1
        /\ IsFiniteSet(H \ {o}) /\ Cardinality(H \ {o}) = IF o \in H THEN Cardinality(H) - 1 ELSE Cardinality(H)
    BY <2>2, CountOne
  <2>3. IsFiniteSet(Holders(m)')
    BY <2>1, <2>0
  <2>4. o \in Holders(m) <=> opener[o].at = "connected" /\ opener[o].peer = m
    BY DEF Holders
  <2>5. CASE m = n
    <3>1. Cardinality(Holders(m)') = Cardinality(Holders(m)) + One(w.at = "connected") - One(opener[o].at = "connected")
      <4>1. o \in Holders(m) <=> opener[o].at = "connected"
        BY <2>4, <2>5, <1>1 DEF OpenerType
      <4>2. CASE w.at = "connected"
        BY <2>1, <2>2, <2>0, <2>5, <4>1, <4>2 DEF One
      <4>3. CASE w.at # "connected"
        BY <2>1, <2>2, <2>0, <2>5, <4>1, <4>3 DEF One
      <4> QED
        BY <4>2, <4>3
    <3>2. node'[m] = y /\ node[m].refs \in Nat /\ y.refs \in Nat
      BY <1>1, <1>2, <2>5 DEF NodeType
    <3>3. node[m].refs >= Owed(m)
      BY OwedIsCounted
    <3>4. One(y.where = "vNodes" /\ y.fNetworkNode) = One(Kept(m)')
      BY <2>5, <3>2, OutboundIsNode DEF Kept, One
    <3>5. /\ Owed(m) = One(m \in socket.copy) + One(m \in message.copy) + One(Kept(m)) + Cardinality(Holders(m))
          /\ Owed(m)' = One(m \in socket.copy) + One(m \in message.copy) + One(Kept(m)') + Cardinality(Holders(m)')
      BY DEF Owed, One
    <3> HIDE DEF OpenerMove
    <3>6. y.refs - node[m].refs >= One(Kept(m)') - One(Kept(m)) + One(w.at = "connected") - One(opener[o].at = "connected")
      BY <2>5, <3>4 DEF OpenerMove
    <3> QED
      BY <2>2, <2>3, <3>1, <3>2, <3>3, <3>5, <3>6 DEF One
  <2>6. CASE m # n
    <3>1. Holders(m)' = Holders(m)
      <4>1. o \notin Holders(m)
        BY <2>4, <2>6
      <4> QED
        BY <2>1, <2>6, <4>1
    <3>2. node'[m] = node[m] /\ (Kept(m)' <=> Kept(m))
      BY <1>2, <2>6 DEF Kept
    <3>3. Owed(m)' = Owed(m)
      BY <3>1, <3>2 DEF Owed, One
    <3> QED
      BY <2>3, <3>2, <3>3, OwedIsCounted
  <2> QED
    BY <2>5, <2>6
<1>5. LoopsAreInPlace' /\ CopiesAreMade' /\ OpenersHaveNodes' /\ EndsAreBare'
  <2>1. LoopsAreInPlace'
    BY DEF PeersInv, LoopsAreInPlace
  <2>2. CopiesAreMade'
    BY <1>2 DEF PeersInv, CopiesAreMade, PeersTyped, SocketType, MessageType
  <2>3. ASSUME NEW p \in Net!Callers
        PROVE  (/\ opener[p].at = "idle" => opener[p] = Net!NotOpening
                /\ opener[p].at # "idle" => opener[p].peer \in Outbound
                /\ opener[p].at \in {"found", "connected"} => node[opener[p].peer].where # "unmade")'
    <3>1. CASE p = o
      BY <1>1, <1>2, <3>1 DEF Net!NotOpening
    <3>2. CASE p # o
      BY <1>1, <1>2, <3>2 DEF PeersInv, OpenersHaveNodes, Net!PeerNodes
    <3> QED
      BY <3>1, <3>2
  <2>4. OpenersHaveNodes'
    BY <2>3 DEF OpenersHaveNodes
  <2>5. EndsAreBare'
    BY <1>2 DEF PeersInv, EndsAreBare
  <2> QED
    BY <2>1, <2>2, <2>4, <2>5
<1> QED
  BY <1>3, <1>4, <1>5 DEF PeersInv

(* The grants, when one opener moves and one node gets or keeps a grant. *)
LEMMA GrantMoves ==
    ASSUME PeersInv, NEW o \in Net!Callers, NEW w \in OpenerType, opener' = [opener EXCEPT ![o] = w],
           NEW n \in Net!PeerNodes, Granted' = Granted \/ Granted' = Granted \cup {n},
           NEW d \in Int, freeGrants' = freeGrants + d, freeGrants + d >= 0,
           d + One(o \in Openers /\ w # Net!NotOpening) - One(o \in Opening)
             + (IF Granted' = Granted THEN 0 ELSE 1) = 0
    PROVE  GrantsAreCounted' /\ freeGrants' \in Nat
<1>1. IsFiniteSet(Opening) /\ IsFiniteSet(Granted) /\ freeGrants \in Nat
  BY DEF PeersInv, PeersTyped, GrantsAreCounted
<1>2. Cardinality(Opening) \in Nat /\ Cardinality(Granted) \in Nat
  BY <1>1, FS_CardinalityType
<1>3. Opening' = IF o \in Openers /\ w # Net!NotOpening THEN Opening \cup {o} ELSE Opening \ {o}
  BY OpenerMoves
<1>4. /\ IsFiniteSet(Opening')
      /\ Cardinality(Opening') = Cardinality(Opening) + One(o \in Openers /\ w # Net!NotOpening) - One(o \in Opening)
  <2> DEFINE S == Opening
  <2>0. /\ IsFiniteSet(S \cup {o}) /\ Cardinality(S \cup {o}) = IF o \in S THEN Cardinality(S) ELSE Cardinality(S) + 1
        /\ IsFiniteSet(S \ {o}) /\ Cardinality(S \ {o}) = IF o \in S THEN Cardinality(S) - 1 ELSE Cardinality(S)
    BY <1>1, CountOne
  <2>1. CASE o \in Openers /\ w # Net!NotOpening
    BY <1>2, <1>3, <2>0, <2>1 DEF One
  <2>2. CASE ~(o \in Openers /\ w # Net!NotOpening)
    BY <1>2, <1>3, <2>0, <2>2 DEF One
  <2> QED
    BY <2>1, <2>2
<1>5. IsFiniteSet(Granted') /\ Cardinality(Granted') = Cardinality(Granted) + (IF Granted' = Granted THEN 0 ELSE 1)
  <2>1. CASE Granted' = Granted
    BY <1>1, <1>2, <2>1
  <2>2. CASE Granted' # Granted
    <3>1. Granted' = Granted \cup {n} /\ n \notin Granted
      BY <2>2
    <3> QED
      BY <1>1, <1>2, <2>2, <3>1, CountOne
  <2> QED
    BY <2>1, <2>2
<1>6. freeGrants + Cardinality(Opening) + Cardinality(Granted) = MaxOutbound /\ MaxOutbound \in Nat
  BY ServicesAssumption DEF PeersInv, GrantsAreCounted, Net!PeersAssumption
<1> DEFINE a == One(o \in Openers /\ w # Net!NotOpening)
           b == One(o \in Opening)
           c == IF Granted' = Granted THEN 0 ELSE 1
<1>7. a \in Int /\ b \in Int /\ c \in Int
  BY DEF One
<1>8. Cardinality(Opening') = Cardinality(Opening) + a - b /\ Cardinality(Granted') = Cardinality(Granted) + c
  BY <1>4, <1>5
<1>9. d + a - b + c = 0
  OBVIOUS
<1> HIDE DEF a, b, c
<1>10. freeGrants' + Cardinality(Opening') + Cardinality(Granted') = MaxOutbound
  BY <1>1, <1>2, <1>6, <1>7, <1>8, <1>9
<1> QED
  BY <1>1, <1>4, <1>5, <1>10 DEF GrantsAreCounted

(* The peer of an opener and its record. *)
LEMMA OpenerIsTyped ==
    ASSUME PeersInv, NEW o \in Net!Callers
    PROVE  /\ opener[o] \in OpenerType
           /\ opener[o].at # "idle" => opener[o].peer \in Outbound
           /\ opener[o].at = "idle" <=> opener[o] = Net!NotOpening
           /\ Net!NotOpening \in OpenerType /\ Net!NotOpening.at = "idle"
           /\ o \in Opening <=> o \in Openers /\ opener[o].at # "idle"
<1>1. opener[o] \in OpenerType /\ (opener[o].at # "idle" => opener[o].peer \in Outbound)
  BY DEF PeersInv, PeersTyped, OpenersHaveNodes
<1>2. Net!NotOpening \in OpenerType /\ Net!NotOpening.at = "idle"
  BY DEF Net!NotOpening, OpenerType
<1>3. opener[o].at = "idle" <=> opener[o] = Net!NotOpening
  BY <1>2 DEF PeersInv, OpenersHaveNodes
<1>4. o \in Opening <=> o \in Openers /\ opener[o].at # "idle"
  BY <1>3 DEF Opening
<1> QED
  BY <1>1, <1>2, <1>3, <1>4

(* An opener takes a grant and a destination. *)
LEMMA BeginOpenKeeps == ASSUME PeersInv, NEW o \in Net!Callers, NEW n \in Outbound, Net!BeginOpen(o, n) PROVE PeersInv'
<1> DEFINE w == [at |-> "connect", peer |-> n]
<1>1. /\ opener[o] = Net!NotOpening
      /\ o \in Openers => freeGrants > 0
      /\ freeGrants' = IF o \in Openers THEN freeGrants - 1 ELSE freeGrants
      /\ opener' = [opener EXCEPT ![o] = w]
      /\ UNCHANGED <<node, socket, message>>
  BY DEF Net!BeginOpen
<1>2. n \in Net!PeerNodes /\ node[n] \in NodeType /\ freeGrants \in Nat
  BY OutboundIsNode, OwedIsCounted DEF PeersInv, PeersTyped
<1>3. w \in OpenerType /\ w.at = "connect" /\ w.peer = n /\ w # Net!NotOpening
  BY DEF OpenerType, Net!NotOpening
<1>4. opener[o].at = "idle" /\ o \notin Opening
  BY <1>1, OpenerIsTyped
<1> HIDE DEF w
<1>5. Granted' = Granted
  BY <1>1 DEF Granted
<1>6. GrantsAreCounted' /\ freeGrants' \in Nat
  <2> DEFINE d == IF o \in Openers THEN -1 ELSE 0
  <2>1. d \in Int /\ freeGrants' = freeGrants + d /\ freeGrants + d >= 0
    BY <1>1, <1>2
  <2>2. d + One(o \in Openers /\ w # Net!NotOpening) - One(o \in Opening) + (IF Granted' = Granted THEN 0 ELSE 1) = 0
    BY <1>3, <1>4, <1>5 DEF One
  <2> HIDE DEF d
  <2> QED
    BY <1>1, <1>2, <1>3, <1>5, <2>1, <2>2, GrantMoves
<1>7. PICK y \in NodeType : y = node[n]
  BY <1>2
<1>8. OpenerMove(o, w, n, y)
  <2>1. node' = [node EXCEPT ![n] = y]
    BY <1>1, <1>2, <1>7 DEF PeersInv, PeersTyped
  <2>2. y.refs - node[n].refs >= One(y.where = "vNodes" /\ y.fNetworkNode) - One(Kept(n))
                                   + One(w.at = "connected") - One(opener[o].at = "connected")
    BY <1>2, <1>3, <1>4, <1>7, OutboundIsNode DEF One, NodeType, Kept
  <2>3. y.where \in {"unmade", "deleted"} => y.refs = 0 /\ ~y.grant
    BY <1>2, <1>7 DEF PeersInv, EndsAreBare
  <2> QED
    BY <1>1, <1>3, <1>4, <1>7, <2>1, <2>2, <2>3 DEF OpenerMove
<1> QED
  BY <1>3, <1>6, <1>8, OpenerKeeps

(* ConnectNode finds a node, fails, or makes one with a reference for the    *)
(* caller.                                                                   *)
LEMMA ConnectNodeKeeps == ASSUME PeersInv, NEW o \in Net!Callers, Net!ConnectNode(o) PROVE PeersInv'
<1>1. opener[o].at = "connect" /\ UNCHANGED <<socket, message>>
  BY DEF Net!ConnectNode
<1>2. PICK n \in Outbound : n = opener[o].peer
  BY <1>1, OpenerIsTyped
<1>3. n \in Net!PeerNodes /\ n \notin Inbound /\ node[n] \in NodeType /\ freeGrants \in Nat
  BY OutboundIsNode, OwedIsCounted DEF PeersInv, PeersTyped
<1>4. opener[o] \in OpenerType /\ (o \in Opening <=> o \in Openers)
  BY <1>1, OpenerIsTyped
<1>5. node[n].where \in {"unmade", "deleted"} => node[n].refs = 0 /\ ~node[n].grant
  BY <1>3 DEF PeersInv, EndsAreBare
<1>6. CASE /\ n \in Net!vNodes
           /\ opener' = [opener EXCEPT ![o].at = "found"]
           /\ UNCHANGED <<node, freeGrants>>
  <2> DEFINE w == [opener[o] EXCEPT !.at = "found"]
  <2>1. w \in OpenerType /\ w.at = "found" /\ w.peer = n /\ w # Net!NotOpening
    BY <1>2, <1>4 DEF OpenerType, Net!NotOpening
  <2>2. opener' = [opener EXCEPT ![o] = w]
    BY <1>6 DEF PeersInv, PeersTyped
  <2>3. PICK v \in OpenerType : v = w
    BY <2>1
  <2> HIDE DEF w
  <2>4. Granted' = Granted
    BY <1>6 DEF Granted
  <2>5. GrantsAreCounted' /\ freeGrants' \in Nat
    <3>1. 0 \in Int /\ freeGrants' = freeGrants + 0 /\ freeGrants + 0 >= 0
      BY <1>3, <1>6
    <3>2. 0 + One(o \in Openers /\ v # Net!NotOpening) - One(o \in Opening) + (IF Granted' = Granted THEN 0 ELSE 1) = 0
      BY <1>4, <2>1, <2>3, <2>4 DEF One
    <3>3. opener' = [opener EXCEPT ![o] = v]
      BY <2>2, <2>3
    <3> QED
      BY <1>3, <2>4, <3>1, <3>2, <3>3, GrantMoves
  <2>6. PICK y \in NodeType : y = node[n]
    BY <1>3
  <2>7. y.where = "vNodes"
    BY <1>6, <2>6 DEF Net!vNodes
  <2>8. node' = [node EXCEPT ![n] = y]
    BY <1>6, <2>6 DEF PeersInv, PeersTyped
  <2>9. y.refs - node[n].refs >= One(y.where = "vNodes" /\ y.fNetworkNode) - One(Kept(n))
                                   + One(v.at = "connected") - One(opener[o].at = "connected")
    BY <1>1, <1>3, <2>1, <2>3, <2>6 DEF One, NodeType, Kept
  <2>10. OpenerMove(o, v, n, y)
    BY <1>1, <1>2, <1>5, <2>1, <2>2, <2>3, <2>6, <2>7, <2>8, <2>9 DEF OpenerMove
  <2> QED
    BY <2>5, <2>10, OpenerKeeps
<1>7. CASE /\ node[n] = Net!Unmade
           /\ node' = [node EXCEPT ![n] = Net!Made]
           /\ opener' = [opener EXCEPT ![o].at = "connected"]
           /\ UNCHANGED freeGrants
  <2> DEFINE w == [opener[o] EXCEPT !.at = "connected"]
  <2>1. w \in OpenerType /\ w.at = "connected" /\ w.peer = n /\ w # Net!NotOpening
    BY <1>2, <1>4 DEF OpenerType, Net!NotOpening
  <2>2. opener' = [opener EXCEPT ![o] = w]
    BY <1>7 DEF PeersInv, PeersTyped
  <2>3. PICK v \in OpenerType : v = w
    BY <2>1
  <2> HIDE DEF w
  <2>4. Granted' = Granted
    <3>1. \A m \in Net!PeerNodes : node'[m] = IF m = n THEN Net!Made ELSE node[m]
      BY <1>7 DEF PeersInv, PeersTyped
    <3> QED
      BY <1>3, <1>7, <3>1, MadeIsBare DEF Granted
  <2>5. GrantsAreCounted' /\ freeGrants' \in Nat
    <3>1. 0 \in Int /\ freeGrants' = freeGrants + 0 /\ freeGrants + 0 >= 0
      BY <1>3, <1>7
    <3>2. 0 + One(o \in Openers /\ v # Net!NotOpening) - One(o \in Opening) + (IF Granted' = Granted THEN 0 ELSE 1) = 0
      BY <1>4, <2>1, <2>3, <2>4 DEF One
    <3>3. opener' = [opener EXCEPT ![o] = v]
      BY <2>2, <2>3
    <3> QED
      BY <1>3, <2>4, <3>1, <3>2, <3>3, GrantMoves
  <2>6. PICK y \in NodeType : y = Net!Made
    BY MadeIsBare
  <2>7. y.where = "vNodes" /\ y.refs = 1 /\ ~y.fNetworkNode /\ node[n].refs = 0 /\ node[n].where = "unmade"
    BY <1>7, <2>6, MadeIsBare
  <2>8. y.refs - node[n].refs >= One(y.where = "vNodes" /\ y.fNetworkNode) - One(Kept(n))
                                   + One(v.at = "connected") - One(opener[o].at = "connected")
    BY <1>1, <2>1, <2>3, <2>7 DEF One, Kept
  <2>9. OpenerMove(o, v, n, y)
    BY <1>1, <1>2, <1>7, <2>1, <2>2, <2>3, <2>6, <2>7, <2>8 DEF OpenerMove
  <2> QED
    BY <2>5, <2>9, OpenerKeeps
<1>8. CASE /\ opener' = [opener EXCEPT ![o] = Net!NotOpening]
           /\ freeGrants' = IF o \in Openers THEN freeGrants + 1 ELSE freeGrants
           /\ UNCHANGED node
  <2>1. PICK v \in OpenerType : v = Net!NotOpening
    BY OpenerIsTyped
  <2>2. v.at = "idle"
    BY <2>1, OpenerIsTyped
  <2>3. Granted' = Granted
    BY <1>8 DEF Granted
  <2>4. GrantsAreCounted' /\ freeGrants' \in Nat
    <3> DEFINE d == IF o \in Openers THEN 1 ELSE 0
    <3>1. d \in Int /\ freeGrants' = freeGrants + d /\ freeGrants + d >= 0
      BY <1>3, <1>8
    <3>2. d + One(o \in Openers /\ v # Net!NotOpening) - One(o \in Opening) + (IF Granted' = Granted THEN 0 ELSE 1) = 0
      BY <1>4, <2>1, <2>3 DEF One
    <3>3. opener' = [opener EXCEPT ![o] = v]
      BY <1>8, <2>1
    <3> HIDE DEF d
    <3> QED
      BY <1>3, <2>3, <3>1, <3>2, <3>3, GrantMoves
  <2>5. PICK y \in NodeType : y = node[n]
    BY <1>3
  <2>6. node' = [node EXCEPT ![n] = y]
    BY <1>8, <2>5 DEF PeersInv, PeersTyped
  <2>7. y.refs - node[n].refs >= One(y.where = "vNodes" /\ y.fNetworkNode) - One(Kept(n))
                                   + One(v.at = "connected") - One(opener[o].at = "connected")
    BY <1>1, <1>3, <2>2, <2>5 DEF One, NodeType, Kept
  <2>8. OpenerMove(o, v, n, y)
    BY <1>1, <1>2, <1>5, <1>8, <2>1, <2>2, <2>5, <2>6, <2>7 DEF OpenerMove
  <2> QED
    BY <2>4, <2>8, OpenerKeeps
<1> QED
  BY <1>2, <1>6, <1>7, <1>8 DEF Net!ConnectNode

(* The reference on a node that was found. *)
LEMMA AddRefFoundKeeps == ASSUME PeersInv, NEW o \in Net!Callers, Net!AddRefFound(o) PROVE PeersInv'
<1>1. opener[o].at = "found" /\ UNCHANGED <<socket, message, freeGrants>>
  BY DEF Net!AddRefFound
<1>2. PICK n \in Outbound : n = opener[o].peer
  BY <1>1, OpenerIsTyped
<1>3. n \in Net!PeerNodes /\ n \notin Inbound /\ node[n] \in NodeType /\ freeGrants \in Nat
  BY OutboundIsNode, OwedIsCounted DEF PeersInv, PeersTyped
<1>4. opener[o] \in OpenerType /\ (o \in Opening <=> o \in Openers)
  BY <1>1, OpenerIsTyped
<1>5. node[n].where \notin {"unmade", "deleted"}
  BY <1>1, <1>2 DEF Net!AddRefFound, PeersInv, OpenersHaveNodes
<1>6. PICK v \in OpenerType : v = [opener[o] EXCEPT !.at = "connected"]
  BY <1>4 DEF OpenerType
<1>7. v.at = "connected" /\ v.peer = n /\ v # Net!NotOpening
  BY <1>2, <1>4, <1>6 DEF OpenerType, Net!NotOpening
<1>8. opener' = [opener EXCEPT ![o] = v]
  BY <1>6 DEF Net!AddRefFound, PeersInv, PeersTyped
<1>9. PICK y \in NodeType : y = [node[n] EXCEPT !.refs = node[n].refs + 1]
  <2>1. PICK k \in Nat : k = node[n].refs + 1
    BY <1>3 DEF NodeType
  <2>2. [node[n] EXCEPT !.refs = k] \in NodeType
    BY <1>3 DEF NodeType
  <2>3. PICK z \in NodeType : z = [node[n] EXCEPT !.refs = k]
    BY <2>2
  <2> QED
    BY <2>1, <2>3
<1>10. y.where = node[n].where /\ y.refs = node[n].refs + 1 /\ y.fNetworkNode = node[n].fNetworkNode /\ y.grant = node[n].grant
  BY <1>3, <1>9 DEF NodeType
<1>11. node' = [node EXCEPT ![n] = y]
  BY <1>2, <1>3, <1>9 DEF Net!AddRefFound, PeersInv, PeersTyped
<1>12. Granted' = Granted
  <2>1. \A m \in Net!PeerNodes : node'[m] = IF m = n THEN y ELSE node[m]
    BY <1>11 DEF PeersInv, PeersTyped
  <2> QED
    BY <1>10, <2>1 DEF Granted
<1>13. GrantsAreCounted' /\ freeGrants' \in Nat
  <2>1. 0 \in Int /\ freeGrants' = freeGrants + 0 /\ freeGrants + 0 >= 0
    BY <1>1, <1>3
  <2>2. 0 + One(o \in Openers /\ v # Net!NotOpening) - One(o \in Opening) + (IF Granted' = Granted THEN 0 ELSE 1) = 0
    BY <1>4, <1>7, <1>12 DEF One
  <2> QED
    BY <1>3, <1>8, <1>12, <2>1, <2>2, GrantMoves
<1>14. y.refs - node[n].refs >= One(y.where = "vNodes" /\ y.fNetworkNode) - One(Kept(n))
                                  + One(v.at = "connected") - One(opener[o].at = "connected")
  BY <1>1, <1>3, <1>7, <1>10 DEF One, NodeType, Kept
<1>15. OpenerMove(o, v, n, y)
  BY <1>1, <1>2, <1>5, <1>7, <1>8, <1>10, <1>11, <1>14 DEF OpenerMove
<1> QED
  BY <1>13, <1>15, OpenerKeeps

(* OpenNetworkConnection hands its grant to the node. *)
LEMMA CompleteOpenKeeps == ASSUME PeersInv, NEW o \in Net!Callers, Net!CompleteOpen(o) PROVE PeersInv'
<1>1. o \in Openers /\ opener[o].at = "connected" /\ UNCHANGED <<socket, message>>
  BY DEF Net!CompleteOpen
<1>2. PICK n \in Outbound : n = opener[o].peer
  BY <1>1, OpenerIsTyped
<1>3. n \in Net!PeerNodes /\ n \notin Inbound /\ node[n] \in NodeType /\ freeGrants \in Nat
  BY OutboundIsNode, OwedIsCounted DEF PeersInv, PeersTyped
<1>4. o \in Opening
  BY <1>1, OpenerIsTyped
<1>5. node[n].where \notin {"unmade", "deleted"}
  <2>1. node[n].where # "unmade"
    BY <1>1, <1>2 DEF PeersInv, OpenersHaveNodes
  <2>2. Net!UsedIsAlive
    BY PeersInvImplies DEF NodesAreAlive
  <2> QED
    BY <1>1, <1>2, <2>1, <2>2 DEF Net!UsedIsAlive
<1>6. PICK v \in OpenerType : v = Net!NotOpening
  BY OpenerIsTyped
<1>7. v.at = "idle" /\ opener' = [opener EXCEPT ![o] = v]
  BY <1>6, OpenerIsTyped DEF Net!CompleteOpen
<1>8. PICK y \in NodeType : y = [node[n] EXCEPT !.grant = TRUE, !.fNetworkNode = TRUE]
  BY <1>3 DEF NodeType
<1>9. y.where = node[n].where /\ y.refs = node[n].refs /\ y.fNetworkNode /\ y.grant
  BY <1>3, <1>8 DEF NodeType
<1>10. node' = [node EXCEPT ![n] = y]
  BY <1>2, <1>3, <1>8 DEF Net!CompleteOpen, PeersInv, PeersTyped
<1>11. Granted' = Granted \cup {n}
  <2>1. \A m \in Net!PeerNodes : node'[m] = IF m = n THEN y ELSE node[m]
    BY <1>10 DEF PeersInv, PeersTyped
  <2> QED
    BY <1>3, <1>9, <2>1 DEF Granted
<1>12. GrantsAreCounted' /\ freeGrants' \in Nat
  <2> DEFINE d == IF node[n].grant THEN 1 ELSE 0
  <2>1. d \in Int /\ freeGrants' = freeGrants + d /\ freeGrants + d >= 0
    BY <1>2, <1>3 DEF Net!CompleteOpen
  <2>2. Granted' = Granted <=> node[n].grant
    BY <1>3, <1>11 DEF Granted
  <2>3. d + One(o \in Openers /\ v # Net!NotOpening) - One(o \in Opening) + (IF Granted' = Granted THEN 0 ELSE 1) = 0
    BY <1>4, <1>6, <2>2 DEF One
  <2> HIDE DEF d
  <2> QED
    BY <1>3, <1>7, <1>11, <2>1, <2>3, GrantMoves
<1>13. y.refs - node[n].refs >= One(y.where = "vNodes" /\ y.fNetworkNode) - One(Kept(n))
                                  + One(v.at = "connected") - One(opener[o].at = "connected")
  BY <1>1, <1>3, <1>7, <1>9 DEF One, NodeType, Kept
<1>14. OpenerMove(o, v, n, y)
  BY <1>1, <1>2, <1>5, <1>6, <1>7, <1>9, <1>10, <1>13 DEF OpenerMove
<1> QED
  BY <1>12, <1>14, OpenerKeeps

(* The masternode tester gives its reference back. *)
LEMMA ReleaseTestedKeeps == ASSUME PeersInv, NEW o \in Net!Callers, Net!ReleaseTested(o) PROVE PeersInv'
<1>1. o \in Testers /\ opener[o].at = "connected" /\ UNCHANGED <<socket, message, freeGrants>>
  BY DEF Net!ReleaseTested
<1>2. PICK n \in Outbound : n = opener[o].peer
  BY <1>1, OpenerIsTyped
<1>3. n \in Net!PeerNodes /\ n \notin Inbound /\ node[n] \in NodeType /\ freeGrants \in Nat
  BY OutboundIsNode, OwedIsCounted DEF PeersInv, PeersTyped
<1>4. o \notin Openers
  BY <1>1, ServicesAssumption DEF Net!PeersAssumption
<1>5. node[n].where \notin {"unmade", "deleted"} /\ node[n].refs >= 1
  <2>1. node[n].where # "unmade"
    BY <1>1, <1>2 DEF PeersInv, OpenersHaveNodes
  <2>2. Net!UsedIsAlive
    BY PeersInvImplies DEF NodesAreAlive
  <2>3. o \in Holders(n)
    BY <1>1, <1>2 DEF Holders
  <2>4. Cardinality(Holders(n)) >= 1
    BY <1>3, <2>3, OwedIsCounted, FS_EmptySet
  <2>5. node[n].refs >= 1
    BY <1>3, <2>4, OwedIsCounted DEF Owed, One, NodeType
  <2> QED
    BY <1>1, <1>2, <2>1, <2>2, <2>5 DEF Net!UsedIsAlive
<1>6. PICK v \in OpenerType : v = Net!NotOpening
  BY OpenerIsTyped
<1>7. v.at = "idle" /\ opener' = [opener EXCEPT ![o] = v]
  BY <1>6, OpenerIsTyped DEF Net!ReleaseTested
<1>8. PICK y \in NodeType : y = [node[n] EXCEPT !.refs = node[n].refs - 1]
  <2>1. PICK k \in Nat : k = node[n].refs - 1
    BY <1>3, <1>5 DEF NodeType
  <2>2. [node[n] EXCEPT !.refs = k] \in NodeType
    BY <1>3 DEF NodeType
  <2>3. PICK z \in NodeType : z = [node[n] EXCEPT !.refs = k]
    BY <2>2
  <2> QED
    BY <2>1, <2>3
<1>9. y.where = node[n].where /\ y.refs = node[n].refs - 1 /\ y.fNetworkNode = node[n].fNetworkNode /\ y.grant = node[n].grant
  BY <1>3, <1>8 DEF NodeType
<1>10. node' = [node EXCEPT ![n] = y]
  BY <1>2, <1>3, <1>8 DEF Net!ReleaseTested, PeersInv, PeersTyped
<1>11. Granted' = Granted
  <2>1. \A m \in Net!PeerNodes : node'[m] = IF m = n THEN y ELSE node[m]
    BY <1>10 DEF PeersInv, PeersTyped
  <2> QED
    BY <1>9, <2>1 DEF Granted
<1>12. GrantsAreCounted' /\ freeGrants' \in Nat
  <2>1. 0 \in Int /\ freeGrants' = freeGrants + 0 /\ freeGrants + 0 >= 0
    BY <1>1, <1>3
  <2>2. 0 + One(o \in Openers /\ v # Net!NotOpening) - One(o \in Opening) + (IF Granted' = Granted THEN 0 ELSE 1) = 0
    BY <1>4, <1>11 DEF One, Opening
  <2> QED
    BY <1>3, <1>7, <1>11, <2>1, <2>2, GrantMoves
<1>13. y.refs - node[n].refs >= One(y.where = "vNodes" /\ y.fNetworkNode) - One(Kept(n))
                                  + One(v.at = "connected") - One(opener[o].at = "connected")
  BY <1>1, <1>3, <1>7, <1>9 DEF One, NodeType, Kept
<1>14. OpenerMove(o, v, n, y)
  BY <1>1, <1>2, <1>5, <1>6, <1>7, <1>9, <1>10, <1>13 DEF OpenerMove
<1> QED
  BY <1>12, <1>14, OpenerKeeps

(* Every step of Peers keeps the invariant. *)
LEMMA PeersInvStep == PeersInv /\ [Net!Next]_peerVars => PeersInv'
<1> SUFFICES ASSUME PeersInv, [Net!Next]_peerVars PROVE PeersInv'
  OBVIOUS
<1>1. CASE Net!SocketStep
  BY <1>1, DisconnectNodesKeeps, DeleteNodesKeeps, CopyForServiceKeeps, ReleaseServicedKeeps, ServiceKeeps
     DEF Net!SocketStep
<1>2. CASE Net!MessageStep
  BY <1>2, CopyForMessagesKeeps, ProcessMessagesKeeps, ReleasePolledKeeps, PollKeeps, SendPingKeeps, SendNothingKeeps
     DEF Net!MessageStep
<1>3. CASE \E n \in Net!PeerNodes : Net!Accept(n) \/ Net!DisconnectNode(n) \/ Net!Ban(n)
  BY <1>3, AcceptKeeps, MarksKeep
<1>4. CASE \E o \in Net!Callers : Net!ConnectNode(o) \/ Net!AddRefFound(o) \/ Net!CompleteOpen(o) \/ Net!ReleaseTested(o)
  BY <1>4, ConnectNodeKeeps, AddRefFoundKeeps, CompleteOpenKeeps, ReleaseTestedKeeps
<1>5. CASE \E o \in Net!Callers, n \in Outbound : Net!BeginOpen(o, n)
  BY <1>5, BeginOpenKeeps
<1>6. CASE UNCHANGED peerVars
  BY <1>6, TouchKeeps DEF peerVars, PeersInv, PeersTyped, SameHold, LoopsAreInPlace
<1> QED
  BY <1>1, <1>2, <1>3, <1>4, <1>5, <1>6 DEF Net!Next

(* For every number of nodes, openers, testers and grants: a node is         *)
(* deleted only when neither network thread has it in a copy of vNodes and   *)
(* no opener holds it, and every grant of semOutbound is free, with an       *)
(* opener or with a node (ThreadSocketHandler, ThreadMessageHandler,         *)
(* ConnectNode and OpenNetworkConnection of net.cpp).                        *)
THEOREM NodesCorrect == Net!Spec => []NodesAreAlive
<1>1. Net!Init => PeersInv
  BY PeersInvInit
<1>2. PeersInv /\ [Net!Next]_peerVars => PeersInv'
  BY PeersInvStep
<1>3. PeersInv => NodesAreAlive
  BY PeersInvImplies
<1> QED
  BY <1>1, <1>2, <1>3, PTL DEF Net!Spec, peerVars, Net!peerVars

-----------------------------------------------------------------------------
(* The scheduler: which task a thread that waits will find due *)

ServingType == {"out", "proceed", "wait", "waitUntil", "timedOut", "left"} \cup Tasks

SchedTyped ==
    /\ Sched!Queued \subseteq Tasks
    /\ \A x \in Sched!Queued : taskQueue[x] \in 0..MaxTime
    /\ now \in 0..MaxTime
    /\ serving \in [Servers -> ServingType]
    /\ deadline \in [Servers -> 0..MaxTime]
    /\ {stopRequested, stopWhenEmpty, notifyAll, early} \subseteq BOOLEAN
    /\ notifyOne \in Nat
    /\ unscheduled \subseteq Tasks
    /\ interrupted \subseteq Servers

(* The threads inside serviceQueue, and those that ever were. *)
Inside == {t \in Servers : serving[t] \notin {"out", "left"}}
Entered == {t \in Servers : serving[t] # "out"}

InsideIsCounted == IsFiniteSet(Inside) /\ IsFiniteSet(Entered) /\ nServicing = Cardinality(Inside)

(* A task is queued or run only after it was scheduled, once. *)
TasksAreOnce ==
    /\ unscheduled \cap Sched!Queued = {}
    /\ \A t \in Servers : serving[t] \notin unscheduled

(* Some task is due when thread t wakes, or is due already. *)
WakesForTask(t) ==
    /\ serving[t] = "waitUntil" => \E x \in Sched!Queued : taskQueue[x] <= deadline[t]
    /\ serving[t] = "timedOut" => \E x \in Sched!Queued : taskQueue[x] <= now

(* A thread that is alone finds what it has waited for. *)
AloneIsInTime ==
    /\ Entered = {} => ~early
    /\ \A t \in Servers : Entered = {t} => ~early /\ WakesForTask(t)

SchedInv ==
    /\ SchedTyped
    /\ InsideIsCounted
    /\ TasksAreOnce
    /\ AloneIsInTime

(* Cardinality and finiteness as Scheduler sees them. *)
LEMMA SchedSets == \A S : Sched!Cardinality(S) = Cardinality(S) /\ Sched!IsFiniteSet(S) = IsFiniteSet(S)
BY DEF Sched!Cardinality, Cardinality, Sched!IsFiniteSet, IsFiniteSet

(* What the constants of the scheduler are. *)
LEMMA SchedConstants ==
    /\ Repeating \subseteq Tasks /\ Period \in Nat \ {0} /\ MaxTime \in Nat
    /\ IsFiniteSet(Servers)
    /\ \A x \in Tasks : x \notin {"out", "proceed", "wait", "waitUntil", "timedOut", "left"}
<1>1. Sched!SchedulerAssumption
  BY ServicesAssumption
<1>2. Sched!IsFiniteSet(Servers) /\ Repeating \subseteq Tasks /\ Period \in Nat \ {0} /\ MaxTime \in Nat
  BY <1>1 DEF Sched!SchedulerAssumption
<1>3. Tasks \cap {"out", "proceed", "wait", "waitUntil", "timedOut", "left"} = {}
  BY <1>1 DEF Sched!SchedulerAssumption
<1>4. IsFiniteSet(Servers)
  BY <1>2, SchedSets
<1> QED
  BY <1>2, <1>3, <1>4

(* The invariant says what the run checks of the scheduler. *)
LEMMA SchedInvImplies == SchedInv => Sched!TypeOK /\ Sched!NotEarly /\ Sched!ServersAreCounted
<1> SUFFICES ASSUME SchedInv PROVE Sched!TypeOK /\ Sched!NotEarly /\ Sched!ServersAreCounted
  OBVIOUS
<1>1. Inside \subseteq Servers /\ Entered \subseteq Servers
  BY DEF Inside, Entered
<1>2. Cardinality(Inside) \in Nat /\ Cardinality(Servers) \in Nat /\ Cardinality(Inside) <= Cardinality(Servers)
  BY <1>1, SchedConstants, FS_Subset, FS_CardinalityType
<1>3. nServicing = Cardinality(Inside)
  BY DEF SchedInv, InsideIsCounted
<1>4. Sched!Cardinality(Servers) = Cardinality(Servers) /\ Sched!Cardinality(Inside) = Cardinality(Inside)
      /\ Sched!Cardinality(Entered) = Cardinality(Entered)
  BY SchedSets
<1>5. nServicing \in 0 .. Sched!Cardinality(Servers)
  BY <1>2, <1>3, <1>4
<1>6. Sched!TypeOK
  BY <1>5 DEF Sched!TypeOK, SchedInv, SchedTyped, ServingType
<1>7. Sched!ServersAreCounted
  BY <1>3, <1>4 DEF Sched!ServersAreCounted, Inside
<1>8. ASSUME Cardinality(Entered) <= 1 PROVE ~early
  <2>1. IsFiniteSet(Entered) /\ Cardinality(Entered) \in Nat
    BY FS_CardinalityType DEF SchedInv, InsideIsCounted
  <2>2. CASE Cardinality(Entered) = 0
    <3>1. Entered = {}
      BY <2>1, <2>2, FS_EmptySet
    <3> QED
      BY <3>1 DEF SchedInv, AloneIsInTime
  <2>3. CASE Cardinality(Entered) = 1
    <3>1. PICK t : Entered = {t}
      BY <2>1, <2>3, FS_Singleton
    <3>2. t \in Servers
      BY <1>1, <3>1
    <3> QED
      BY <3>1, <3>2 DEF SchedInv, AloneIsInTime
  <2> QED
    BY <1>8, <2>1, <2>2, <2>3
<1>9. Sched!NotEarly
  BY <1>4, <1>8 DEF Sched!NotEarly, Entered
<1> QED
  BY <1>6, <1>7, <1>9

(* Nobody is inside at the start. *)
LEMMA SchedInvInit == Sched!Init => SchedInv
<1> SUFFICES ASSUME Sched!Init PROVE SchedInv
  OBVIOUS
<1> USE DEF Sched!Init
<1>1. Sched!Queued = {}
  BY DEF Sched!Queued
<1>2. Inside = {} /\ Entered = {}
  BY DEF Inside, Entered
<1>3. IsFiniteSet({}) /\ Cardinality({}) = 0
  BY FS_EmptySet
<1>4. InsideIsCounted
  BY <1>2, <1>3 DEF InsideIsCounted
<1>5. SchedTyped
  <2>1. serving \in [Servers -> ServingType] /\ deadline \in [Servers -> 0..MaxTime] /\ now \in 0..MaxTime
    BY SchedConstants DEF ServingType
  <2>2. {stopRequested, stopWhenEmpty, notifyAll, early} \subseteq BOOLEAN
    OBVIOUS
  <2> QED
    BY <1>1, <2>1, <2>2 DEF SchedTyped
<1>6. TasksAreOnce
  BY <1>1, SchedConstants DEF TasksAreOnce
<1>7. AloneIsInTime
  BY <1>2 DEF AloneIsInTime
<1> QED
  BY <1>4, <1>5, <1>6, <1>7 DEF SchedInv

(* A step that nobody enters or leaves in keeps the counts. *)
LEMMA SameInside ==
    ASSUME SchedInv, serving' \in [Servers -> ServingType], UNCHANGED nServicing,
           \A u \in Servers : (serving'[u] = "out" <=> serving[u] = "out") /\ (serving'[u] = "left" <=> serving[u] = "left")
    PROVE  Inside' = Inside /\ Entered' = Entered /\ InsideIsCounted'
<1>1. Inside' = Inside /\ Entered' = Entered
  BY DEF Inside, Entered
<1> QED
  BY <1>1 DEF SchedInv, InsideIsCounted

(* A thread that leaves was inside and is not counted any more. *)
LEMMA OneLeaves ==
    ASSUME SchedInv, NEW t \in Servers, t \in Inside, nServicing' = nServicing - 1,
           \A u \in Servers : u # t => (serving'[u] = "out" <=> serving[u] = "out") /\ (serving'[u] = "left" <=> serving[u] = "left"),
           serving'[t] = "left"
    PROVE  Entered' = Entered /\ InsideIsCounted'
<1>1. Entered' = Entered /\ Inside' = Inside \ {t}
  BY DEF Inside, Entered
<1>2. IsFiniteSet(Inside) /\ IsFiniteSet(Entered) /\ nServicing = Cardinality(Inside)
  BY DEF SchedInv, InsideIsCounted
<1>3. IsFiniteSet(Inside \ {t}) /\ Cardinality(Inside \ {t}) = Cardinality(Inside) - 1
  BY <1>2, FS_RemoveElement
<1> QED
  BY <1>1, <1>2, <1>3 DEF InsideIsCounted

(* A thread enters serviceQueue. *)
LEMMA EnterKeeps == ASSUME SchedInv, NEW t \in Servers, Sched!Enter(t) PROVE SchedInv'
<1> USE DEF Sched!Enter
<1>1. serving \in [Servers -> ServingType]
  BY DEF SchedInv, SchedTyped
<1>2. \A u \in Servers : serving'[u] = IF u = t THEN "proceed" ELSE serving[u]
  BY <1>1
<1>3. Sched!Queued' = Sched!Queued
  BY DEF Sched!Queued
<1>4. SchedTyped'
  BY <1>1, <1>3 DEF SchedInv, SchedTyped, ServingType
<1>5. Inside' = Inside \cup {t} /\ Entered' = Entered \cup {t} /\ t \notin Inside /\ t \notin Entered
  BY <1>2 DEF Inside, Entered
<1>6. IsFiniteSet(Inside) /\ IsFiniteSet(Entered) /\ nServicing = Cardinality(Inside)
  BY DEF SchedInv, InsideIsCounted
<1>7. IsFiniteSet(Inside \cup {t}) /\ Cardinality(Inside \cup {t}) = Cardinality(Inside) + 1
  BY <1>5, <1>6, FS_AddElement
<1>8. IsFiniteSet(Entered \cup {t})
  BY <1>6, FS_AddElement
<1>9. InsideIsCounted'
  BY <1>5, <1>6, <1>7, <1>8 DEF InsideIsCounted
<1>10. TasksAreOnce'
  BY <1>2, <1>3, SchedConstants DEF SchedInv, TasksAreOnce, SchedTyped
<1>11. ASSUME NEW u \in Servers, Entered' = {u} PROVE u = t /\ ~early' /\ WakesForTask(u)'
  <2>1. u = t /\ Entered = {}
    BY <1>5, <1>11
  <2> QED
    BY <1>2, <2>1 DEF SchedInv, AloneIsInTime, WakesForTask
<1>12. AloneIsInTime'
  BY <1>5, <1>11 DEF AloneIsInTime
<1> QED
  BY <1>4, <1>9, <1>10, <1>12 DEF SchedInv

(* A thread that goes to wait, wakes or takes nothing. *)
LEMMA ThreadMoves ==
    ASSUME SchedInv, NEW t \in Servers, NEW s \in {"proceed", "wait", "waitUntil", "timedOut"},
           t \in Inside, serving' = [serving EXCEPT ![t] = s], deadline' \in [Servers -> 0..MaxTime],
           WakesForTask(t)',
           UNCHANGED <<taskQueue, now, nServicing, stopRequested, stopWhenEmpty, notifyOne, notifyAll, interrupted, unscheduled, early>>
    PROVE  SchedInv'
<1>1. serving \in [Servers -> ServingType]
  BY DEF SchedInv, SchedTyped
<1>2. \A u \in Servers : serving'[u] = IF u = t THEN s ELSE serving[u]
  BY <1>1
<1>3. Sched!Queued' = Sched!Queued
  BY DEF Sched!Queued
<1>4. serving' \in [Servers -> ServingType]
  BY <1>1 DEF ServingType
<1>5. SchedTyped'
  BY <1>3, <1>4 DEF SchedInv, SchedTyped
<1>6. Entered' = Entered /\ InsideIsCounted'
  BY <1>2, <1>4, SameInside DEF Inside
<1>7. TasksAreOnce'
  BY <1>2, <1>3, SchedConstants DEF SchedInv, TasksAreOnce, SchedTyped
<1>8. t \in Entered
  BY DEF Inside, Entered
<1>9. ASSUME NEW u \in Servers, Entered' = {u} PROVE ~early' /\ WakesForTask(u)'
  <2>1. u = t
    BY <1>6, <1>8, <1>9
  <2>2. ~early
    BY <1>6, <1>9 DEF SchedInv, AloneIsInTime
  <2> QED
    BY <2>1, <2>2
<1>10. AloneIsInTime'
  BY <1>6, <1>8, <1>9 DEF AloneIsInTime
<1> QED
  BY <1>5, <1>6, <1>7, <1>10 DEF SchedInv

(* wait_until for the first task, or wait for any. *)
LEMMA WaitKeeps ==
    ASSUME SchedInv, NEW t \in Servers, Sched!WaitForTask(t) \/ Sched!WaitUntilFirst(t) \/ Sched!TimeOut(t)
    PROVE  SchedInv'
<1>1. serving \in [Servers -> ServingType] /\ deadline \in [Servers -> 0..MaxTime] /\ now \in 0..MaxTime
  BY DEF SchedInv, SchedTyped
<1>2. Sched!Queued' = Sched!Queued /\ taskQueue' = taskQueue /\ now' = now
  BY DEF Sched!Queued, Sched!WaitForTask, Sched!WaitUntilFirst, Sched!TimeOut
<1>3. CASE Sched!WaitForTask(t)
  <2>1. t \in Inside
    BY <1>1, <1>3 DEF Sched!WaitForTask, Sched!MayProceed, Inside
  <2>2. serving'[t] = "wait"
    BY <1>1, <1>3 DEF Sched!WaitForTask
  <2>3. WakesForTask(t)'
    BY <2>2 DEF WakesForTask
  <2> QED
    BY <1>1, <1>3, <2>1, <2>3, ThreadMoves DEF Sched!WaitForTask
<1>4. CASE Sched!WaitUntilFirst(t)
  <2>1. t \in Inside
    BY <1>1, <1>4 DEF Sched!WaitUntilFirst, Sched!MayProceed, Inside
  <2>2. PICK first \in Sched!First : deadline' = [deadline EXCEPT ![t] = taskQueue[first]]
    BY <1>4 DEF Sched!WaitUntilFirst
  <2>3. first \in Sched!Queued /\ taskQueue[first] \in 0..MaxTime
    BY <2>2 DEF Sched!First, SchedInv, SchedTyped
  <2>4. serving'[t] = "waitUntil" /\ deadline'[t] = taskQueue[first] /\ deadline' \in [Servers -> 0..MaxTime]
    BY <1>1, <1>4, <2>2, <2>3 DEF Sched!WaitUntilFirst
  <2>5. \E x \in Sched!Queued' : taskQueue'[x] <= deadline'[t]
    BY <1>2, <2>3, <2>4
  <2>6. WakesForTask(t)'
    BY <2>4, <2>5 DEF WakesForTask
  <2> QED
    BY <1>4, <2>1, <2>4, <2>6, ThreadMoves DEF Sched!WaitUntilFirst
<1>5. CASE Sched!TimeOut(t)
  <2>1. t \in Inside
    BY <1>1, <1>5 DEF Sched!TimeOut, Inside
  <2>2. serving'[t] = "timedOut" /\ now >= deadline[t] /\ deadline[t] \in 0..MaxTime
    BY <1>1, <1>5 DEF Sched!TimeOut
  <2>3. CASE Entered = {t}
    <3>1. PICK x \in Sched!Queued : taskQueue[x] <= deadline[t]
      BY <1>5, <2>3 DEF SchedInv, AloneIsInTime, WakesForTask, Sched!TimeOut
    <3>2. taskQueue[x] \in 0..MaxTime
      BY DEF SchedInv, SchedTyped
    <3>3. taskQueue[x] <= now
      BY <1>1, <2>2, <3>1, <3>2
    <3>4. WakesForTask(t)'
      BY <1>2, <2>2, <3>1, <3>3 DEF WakesForTask
    <3> QED
      BY <1>1, <1>5, <2>1, <3>4, ThreadMoves DEF Sched!TimeOut
  <2>4. CASE Entered # {t}
    <3>1. \A u \in Servers : serving'[u] = IF u = t THEN "timedOut" ELSE serving[u]
      BY <1>1, <1>5 DEF Sched!TimeOut
    <3>2. serving' \in [Servers -> ServingType]
      BY <1>1, <1>5 DEF Sched!TimeOut, ServingType
    <3>3. SchedTyped'
      BY <1>2, <1>5, <3>2 DEF SchedInv, SchedTyped, Sched!TimeOut
    <3>4. Entered' = Entered /\ InsideIsCounted'
      BY <1>5, <2>1, <3>1, <3>2, SameInside DEF Inside, Sched!TimeOut
    <3>5. TasksAreOnce'
      BY <1>2, <1>5, <3>1, SchedConstants DEF SchedInv, TasksAreOnce, SchedTyped, Sched!TimeOut
    <3>6. t \in Entered
      BY <2>1 DEF Inside, Entered
    <3>7. AloneIsInTime'
      BY <2>4, <3>4, <3>6 DEF AloneIsInTime
    <3> QED
      BY <3>3, <3>4, <3>5, <3>7 DEF SchedInv
  <2> QED
    BY <2>3, <2>4
<1> QED
  BY <1>3, <1>4, <1>5

(* Waiting threads that are notified go round their loop. *)
LEMMA WokenKeeps ==
    ASSUME SchedInv, NEW woken \in SUBSET Sched!Waiting,
           serving' = [u \in Servers |-> IF u \in woken THEN "proceed" ELSE serving[u]],
           {notifyAll'} \subseteq BOOLEAN, notifyOne' \in Nat,
           UNCHANGED <<taskQueue, now, deadline, nServicing, stopRequested, stopWhenEmpty, interrupted, unscheduled, early>>
    PROVE  SchedInv'
<1>1. serving \in [Servers -> ServingType]
  BY DEF SchedInv, SchedTyped
<1>2. \A u \in Servers : serving'[u] = IF u \in woken THEN "proceed" ELSE serving[u]
  OBVIOUS
<1>3. \A u \in woken : serving[u] \in {"wait", "waitUntil"}
  BY DEF Sched!Waiting
<1>4. Sched!Queued' = Sched!Queued
  BY DEF Sched!Queued
<1>5. serving' \in [Servers -> ServingType]
  BY <1>1 DEF ServingType
<1>6. SchedTyped'
  BY <1>4, <1>5 DEF SchedInv, SchedTyped
<1>7. Entered' = Entered /\ InsideIsCounted'
  BY <1>2, <1>3, <1>5, SameInside
<1>8. TasksAreOnce'
  BY <1>2, <1>4, SchedConstants DEF SchedInv, TasksAreOnce, SchedTyped
<1>9. AloneIsInTime'
  BY <1>2, <1>4, <1>7 DEF SchedInv, AloneIsInTime, WakesForTask
<1> QED
  BY <1>6, <1>7, <1>8, <1>9 DEF SchedInv

(* A thread leaves, with a notification or without. *)
LEMMA LeaveKeeps ==
    ASSUME SchedInv, NEW t \in Servers, Sched!Leave(t) \/ Sched!InterruptServer(t) PROVE SchedInv'
<1>1. serving \in [Servers -> ServingType]
  BY DEF SchedInv, SchedTyped
<1>2. t \in Inside /\ t \in Entered
  BY <1>1 DEF Sched!Leave, Sched!MayProceed, Sched!InterruptServer, Sched!Waiting, Inside, Entered
<1>3. \E woken \in SUBSET Sched!Waiting :
          serving' = [u \in Servers |-> IF u = t THEN "left" ELSE IF u \in woken THEN "proceed" ELSE serving[u]]
  <2>1. CASE Sched!Leave(t)
    BY <2>1 DEF Sched!Leave, Sched!OneOf
  <2>2. CASE Sched!InterruptServer(t)
    <3>1. serving' = [u \in Servers |-> IF u = t THEN "left" ELSE IF u \in {} THEN "proceed" ELSE serving[u]]
      BY <1>1, <2>2 DEF Sched!InterruptServer
    <3> WITNESS {} \in SUBSET Sched!Waiting
    <3> QED
      BY <3>1
  <2> QED
    BY <2>1, <2>2
<1>4. PICK woken \in SUBSET Sched!Waiting :
          serving' = [u \in Servers |-> IF u = t THEN "left" ELSE IF u \in woken THEN "proceed" ELSE serving[u]]
  BY <1>3
<1>5. \A u \in Servers : serving'[u] = IF u = t THEN "left" ELSE IF u \in woken THEN "proceed" ELSE serving[u]
  BY <1>4
<1>6. \A u \in woken : serving[u] \in {"wait", "waitUntil"}
  BY DEF Sched!Waiting
<1>7. /\ nServicing' = nServicing - 1 /\ interrupted' \subseteq Servers
      /\ UNCHANGED <<taskQueue, now, deadline, stopRequested, stopWhenEmpty, notifyOne, notifyAll, unscheduled, early>>
  BY DEF Sched!Leave, Sched!InterruptServer, SchedInv, SchedTyped
<1>8. Sched!Queued' = Sched!Queued
  BY <1>7 DEF Sched!Queued
<1>9. serving' \in [Servers -> ServingType]
  BY <1>1, <1>4 DEF ServingType
<1>10. SchedTyped'
  BY <1>7, <1>8, <1>9 DEF SchedInv, SchedTyped
<1>11. Entered' = Entered /\ InsideIsCounted'
  BY <1>2, <1>5, <1>6, <1>7, OneLeaves
<1>12. TasksAreOnce'
  BY <1>5, <1>7, <1>8, SchedConstants DEF SchedInv, TasksAreOnce, SchedTyped
<1>13. AloneIsInTime'
  BY <1>2, <1>5, <1>7, <1>8, <1>11 DEF SchedInv, AloneIsInTime, WakesForTask
<1> QED
  BY <1>10, <1>11, <1>12, <1>13 DEF SchedInv

(* A thread that is alone takes a task that is due. *)
LEMMA TakeTaskKeeps == ASSUME SchedInv, NEW t \in Servers, Sched!TakeTask(t) PROVE SchedInv'
<1>1. /\ serving \in [Servers -> ServingType] /\ now \in 0..MaxTime
      /\ \A y \in Sched!Queued : taskQueue[y] \in 0..MaxTime
  BY DEF SchedInv, SchedTyped
<1>2. PICK x \in Sched!First :
        /\ taskQueue' = [y \in Sched!Queued \ {x} |-> taskQueue[y]]
        /\ serving' = [serving EXCEPT ![t] = x]
        /\ early' = (early \/ taskQueue[x] > now)
  BY DEF Sched!TakeTask
<1>3. /\ serving[t] = "timedOut"
      /\ UNCHANGED <<now, deadline, nServicing, stopRequested, stopWhenEmpty, notifyOne, notifyAll, interrupted, unscheduled>>
  BY DEF Sched!TakeTask
<1>4. x \in Sched!Queued /\ x \in Tasks /\ \A y \in Sched!Queued : taskQueue[x] <= taskQueue[y]
  BY <1>2 DEF Sched!First, SchedInv, SchedTyped
<1>5. Sched!Queued' = Sched!Queued \ {x} /\ \A y \in Sched!Queued' : taskQueue'[y] = taskQueue[y]
  BY <1>2 DEF Sched!Queued
<1>6. \A u \in Servers : serving'[u] = IF u = t THEN x ELSE serving[u]
  BY <1>1, <1>2
<1>7. serving' \in [Servers -> ServingType]
  BY <1>1, <1>2, <1>4 DEF ServingType
<1>8. early' \in BOOLEAN
  BY <1>2
<1>9. SchedTyped'
  BY <1>1, <1>3, <1>5, <1>7, <1>8 DEF SchedInv, SchedTyped
<1>10. Entered' = Entered /\ InsideIsCounted' /\ t \in Entered
  BY <1>3, <1>4, <1>6, <1>7, SameInside, SchedConstants DEF Entered
<1>11. x \notin unscheduled
  BY <1>4 DEF SchedInv, TasksAreOnce
<1>12. TasksAreOnce'
  BY <1>3, <1>5, <1>6, <1>11 DEF SchedInv, TasksAreOnce
<1>13. ASSUME Entered = {t} PROVE ~early'
  <2>1. ~early
    BY <1>13 DEF SchedInv, AloneIsInTime
  <2>2. PICK y \in Sched!Queued : taskQueue[y] <= now
    BY <1>3, <1>13 DEF SchedInv, AloneIsInTime, WakesForTask
  <2>3. taskQueue[x] <= now
    BY <1>1, <1>4, <2>2
  <2>4. ~(taskQueue[x] > now)
    BY <1>1, <1>4, <2>3
  <2> QED
    BY <1>2, <2>1, <2>4, Zenon
<1>14. WakesForTask(t)'
  BY <1>4, <1>6, SchedConstants DEF WakesForTask
<1>15. AloneIsInTime'
  <2>1. ASSUME NEW u \in Servers, Entered' = {u} PROVE ~early' /\ WakesForTask(u)'
    <3>1. u = t
      BY <1>10, <2>1
    <3> QED
      BY <1>10, <1>13, <1>14, <2>1, <3>1
  <2> QED
    BY <1>10, <2>1 DEF AloneIsInTime
<1> QED
  BY <1>9, <1>10, <1>12, <1>15 DEF SchedInv

(* What Inserted does to the queue. *)
LEMMA InsertedQueue ==
    ASSUME SchedInv, NEW x \in Tasks, NEW due \in 0..MaxTime, taskQueue' = Sched!Inserted(x, due)
    PROVE  /\ Sched!Queued' = Sched!Queued \cup {x}
           /\ \A y \in Sched!Queued' : taskQueue'[y] = IF y = x THEN due ELSE taskQueue[y]
           /\ Sched!Queued' \subseteq Tasks
           /\ \A y \in Sched!Queued' : taskQueue'[y] \in 0..MaxTime
BY DEF Sched!Inserted, Sched!Queued, SchedInv, SchedTyped

(* Repeat puts the task back; the thread that ran it goes round its loop. *)
LEMMA FinishTaskKeeps == ASSUME SchedInv, NEW t \in Servers, Sched!FinishTask(t) PROVE SchedInv'
<1> DEFINE x == serving[t]
<1>1. serving \in [Servers -> ServingType] /\ now \in 0..MaxTime /\ notifyOne \in Nat
  BY DEF SchedInv, SchedTyped
<1>2. /\ x \in Tasks /\ serving' = [serving EXCEPT ![t] = "proceed"]
      /\ UNCHANGED <<now, deadline, nServicing, stopRequested, stopWhenEmpty, notifyAll, interrupted, unscheduled, early>>
  BY DEF Sched!FinishTask
<1>3. /\ Sched!Queued' \subseteq Sched!Queued \cup {x}
      /\ Sched!Queued' \subseteq Tasks
      /\ \A y \in Sched!Queued' : taskQueue'[y] \in 0..MaxTime
      /\ notifyOne' \in Nat
  <2>1. CASE x \in Repeating /\ now + Period <= MaxTime
    <3>1. now + Period \in 0..MaxTime
      BY <1>1, <2>1, SchedConstants
    <3>2. taskQueue' = Sched!Inserted(x, now + Period) /\ notifyOne' = notifyOne + 1
      BY <2>1 DEF Sched!FinishTask
    <3> QED
      BY <1>1, <1>2, <3>1, <3>2, InsertedQueue
  <2>2. CASE ~(x \in Repeating /\ now + Period <= MaxTime)
    <3>1. taskQueue' = taskQueue /\ notifyOne' = notifyOne
      BY <2>2 DEF Sched!FinishTask
    <3> QED
      BY <1>1, <3>1 DEF Sched!Queued, SchedInv, SchedTyped
  <2> QED
    BY <2>1, <2>2
<1>4. \A u \in Servers : serving'[u] = IF u = t THEN "proceed" ELSE serving[u]
  BY <1>1, <1>2
<1>5. serving' \in [Servers -> ServingType]
  BY <1>1, <1>2 DEF ServingType
<1>6. SchedTyped'
  BY <1>2, <1>3, <1>5 DEF SchedInv, SchedTyped
<1>7. x \notin {"out", "left"}
  BY <1>2, SchedConstants
<1>8. Entered' = Entered /\ InsideIsCounted' /\ t \in Entered
  BY <1>2, <1>4, <1>5, <1>7, SameInside DEF Entered
<1>9. TasksAreOnce'
  BY <1>2, <1>3, <1>4, SchedConstants DEF SchedInv, TasksAreOnce, SchedTyped
<1>10. AloneIsInTime'
  BY <1>2, <1>4, <1>8 DEF SchedInv, AloneIsInTime, WakesForTask
<1> QED
  BY <1>6, <1>8, <1>9, <1>10 DEF SchedInv

(* A new task does not put off the one that a thread waits for. *)
LEMMA ScheduleKeeps ==
    ASSUME SchedInv, NEW x \in Tasks, NEW due \in 0..MaxTime, Sched!Schedule(x, due) PROVE SchedInv'
<1>1. /\ x \in unscheduled /\ unscheduled' = unscheduled \ {x} /\ notifyOne' = notifyOne + 1
      /\ taskQueue' = Sched!Inserted(x, due)
      /\ UNCHANGED <<now, serving, deadline, nServicing, stopRequested, stopWhenEmpty, notifyAll, interrupted, early>>
  BY DEF Sched!Schedule
<1>2. /\ Sched!Queued' = Sched!Queued \cup {x}
      /\ \A y \in Sched!Queued' : taskQueue'[y] = IF y = x THEN due ELSE taskQueue[y]
      /\ Sched!Queued' \subseteq Tasks
      /\ \A y \in Sched!Queued' : taskQueue'[y] \in 0..MaxTime
  BY <1>1, InsertedQueue
<1>3. SchedTyped'
  BY <1>1, <1>2 DEF SchedInv, SchedTyped
<1>4. Inside' = Inside /\ Entered' = Entered
  BY <1>1 DEF Inside, Entered
<1>5. InsideIsCounted'
  BY <1>1, <1>4 DEF SchedInv, InsideIsCounted
<1>6. x \notin Sched!Queued
  BY <1>1 DEF SchedInv, TasksAreOnce
<1>7. TasksAreOnce'
  BY <1>1, <1>2 DEF SchedInv, TasksAreOnce
<1>8. \A y \in Sched!Queued : y \in Sched!Queued' /\ taskQueue'[y] = taskQueue[y]
  BY <1>2, <1>6
<1>9. ASSUME NEW t \in Servers, Entered = {t} PROVE WakesForTask(t)'
  BY <1>1, <1>8, <1>9 DEF SchedInv, AloneIsInTime, WakesForTask
<1>10. AloneIsInTime'
  BY <1>1, <1>4, <1>9 DEF SchedInv, AloneIsInTime
<1> QED
  BY <1>3, <1>5, <1>7, <1>10 DEF SchedInv

(* stop and the clock. *)
LEMMA StopAndTickKeep ==
    ASSUME SchedInv, Sched!Tick \/ \E drain \in BOOLEAN : Sched!Stop(drain) PROVE SchedInv'
<1>1. /\ now \in 0..MaxTime /\ now' \in 0..MaxTime /\ now <= now'
      /\ {stopRequested', stopWhenEmpty', notifyAll', early'} \subseteq BOOLEAN
      /\ UNCHANGED <<taskQueue, serving, deadline, nServicing, notifyOne, interrupted, unscheduled, early>>
  <2>1. CASE Sched!Tick
    BY <2>1, SchedConstants DEF Sched!Tick, SchedInv, SchedTyped
  <2>2. CASE \E drain \in BOOLEAN : Sched!Stop(drain)
    BY <2>2, SchedConstants DEF Sched!Stop, SchedInv, SchedTyped
  <2> QED
    BY <2>1, <2>2
<1>2. Sched!Queued' = Sched!Queued /\ Inside' = Inside /\ Entered' = Entered
  BY <1>1 DEF Sched!Queued, Inside, Entered
<1>3. SchedTyped'
  BY <1>1, <1>2 DEF SchedInv, SchedTyped
<1>4. InsideIsCounted' /\ TasksAreOnce'
  BY <1>1, <1>2 DEF SchedInv, InsideIsCounted, TasksAreOnce
<1>5. ASSUME NEW t \in Servers, WakesForTask(t) PROVE WakesForTask(t)'
  <2>1. CASE serving[t] = "timedOut"
    <3>1. PICK x \in Sched!Queued : taskQueue[x] <= now
      BY <1>5, <2>1 DEF WakesForTask
    <3>2. taskQueue[x] \in 0..MaxTime
      BY DEF SchedInv, SchedTyped
    <3>3. taskQueue'[x] <= now'
      BY <1>1, <3>1, <3>2
    <3> QED
      BY <1>1, <1>2, <2>1, <3>3 DEF WakesForTask
  <2>2. CASE serving[t] # "timedOut"
    BY <1>1, <1>2, <1>5, <2>2 DEF WakesForTask
  <2> QED
    BY <2>1, <2>2
<1>6. AloneIsInTime'
  BY <1>1, <1>2, <1>5 DEF SchedInv, AloneIsInTime
<1> QED
  BY <1>3, <1>4, <1>6 DEF SchedInv

(* Every step of the scheduler keeps the invariant. *)
LEMMA SchedInvStep == SchedInv /\ [Sched!Next]_schedulerVars => SchedInv'
<1> SUFFICES ASSUME SchedInv, [Sched!Next]_schedulerVars PROVE SchedInv'
  OBVIOUS
<1>1. CASE \E t \in Servers : Sched!Enter(t) \/ Sched!Proceed(t) \/ Sched!InterruptServer(t)
  BY <1>1, EnterKeeps, WaitKeeps, LeaveKeeps, TakeTaskKeeps, FinishTaskKeeps DEF Sched!Proceed
<1>2. CASE \E x \in Tasks, due \in 0..MaxTime : Sched!Schedule(x, due)
  BY <1>2, ScheduleKeeps
<1>3. CASE Sched!Tick \/ \E drain \in BOOLEAN : Sched!Stop(drain)
  BY <1>3, StopAndTickKeep
<1>4. CASE Sched!NotifyOne
  <2>1. PICK woken \in Sched!OneOf(Sched!Waiting) :
            serving' = [u \in Servers |-> IF u \in woken THEN "proceed" ELSE serving[u]]
    BY <1>4 DEF Sched!NotifyOne
  <2>2. woken \in SUBSET Sched!Waiting
    BY <2>1 DEF Sched!OneOf
  <2>3. notifyOne' \in Nat /\ {notifyAll'} \subseteq BOOLEAN
    BY <1>4 DEF Sched!NotifyOne, SchedInv, SchedTyped
  <2> QED
    BY <1>4, <2>1, <2>2, <2>3, WokenKeeps DEF Sched!NotifyOne
<1>5. CASE Sched!NotifyAll
  <2>1. notifyOne' \in Nat /\ {notifyAll'} \subseteq BOOLEAN
    BY <1>5 DEF Sched!NotifyAll, SchedInv, SchedTyped
  <2> QED
    BY <1>5, <2>1, WokenKeeps DEF Sched!NotifyAll
<1>6. CASE UNCHANGED schedulerVars
  <2>1. Sched!Queued' = Sched!Queued /\ Inside' = Inside /\ Entered' = Entered
    BY <1>6 DEF schedulerVars, Sched!Queued, Inside, Entered
  <2> QED
    BY <1>6, <2>1 DEF schedulerVars, SchedInv, SchedTyped, InsideIsCounted, TasksAreOnce, AloneIsInTime, WakesForTask
<1> QED
  BY <1>1, <1>2, <1>3, <1>4, <1>5, <1>6 DEF Sched!Next


-----------------------------------------------------------------------------
(* The HTTP work queue: which workers are counted *)

WorkerType == Requests \cup {"created", "ready", "waiting", "leaving", "left"}

HttpTyped ==
    /\ work \in Seq(Requests) /\ Len(work) <= MaxDepth
    /\ running \in BOOLEAN
    /\ worker \in [HttpThreads -> WorkerType]
    /\ request \in [Requests -> {"new", "arrived", "queued", "running", "answered"}]
    /\ stopper \in {"no", "interrupted", "waiting", "deleted"}

(* The threads between the two ends of their ThreadCounter. *)
Counted == {t \in HttpThreads : worker[t] \notin {"created", "left"}}

WorkersAreCounted == IsFiniteSet(Counted) /\ numThreads = Cardinality(Counted)

HttpInv ==
    /\ HttpTyped
    /\ WorkersAreCounted
    /\ stopper = "deleted" => Counted = {}

(* Cardinality and finiteness as WorkQueue sees them. *)
LEMMA HttpSets == \A S : Http!Cardinality(S) = Cardinality(S) /\ Http!IsFiniteSet(S) = IsFiniteSet(S)
BY DEF Http!Cardinality, Cardinality, Http!IsFiniteSet, IsFiniteSet

(* What the constants of the work queue are. *)
LEMMA HttpConstants ==
    /\ MaxDepth \in Nat \ {0}
    /\ IsFiniteSet(HttpThreads)
    /\ \A r \in Requests : r \notin {"created", "ready", "waiting", "leaving", "left"}
<1>1. Http!WorkQueueAssumption
  BY ServicesAssumption
<1>2. Http!IsFiniteSet(HttpThreads) /\ MaxDepth \in Nat \ {0}
  BY <1>1 DEF Http!WorkQueueAssumption
<1>3. Requests \cap {"created", "ready", "waiting", "leaving", "left"} = {}
  BY <1>1 DEF Http!WorkQueueAssumption
<1>4. IsFiniteSet(HttpThreads)
  BY <1>2, HttpSets
<1> QED
  BY <1>2, <1>3, <1>4

(* The invariant says what the run checks of the work queue. *)
LEMMA HttpInvImplies == HttpInv => Http!TypeOK /\ Http!DeletedAfterWorkers
<1> SUFFICES ASSUME HttpInv PROVE Http!TypeOK /\ Http!DeletedAfterWorkers
  OBVIOUS
<1>1. Counted \subseteq HttpThreads
  BY DEF Counted
<1>2. Cardinality(Counted) \in Nat /\ Cardinality(HttpThreads) \in Nat /\ Cardinality(Counted) <= Cardinality(HttpThreads)
  BY <1>1, HttpConstants, FS_Subset, FS_CardinalityType
<1>3. Http!Cardinality(HttpThreads) = Cardinality(HttpThreads)
  BY HttpSets
<1>4. numThreads \in 0 .. Http!Cardinality(HttpThreads)
  BY <1>2, <1>3 DEF HttpInv, WorkersAreCounted
<1>5. Http!TypeOK
  BY <1>4 DEF Http!TypeOK, HttpInv, HttpTyped, WorkerType
<1>6. Http!DeletedAfterWorkers
  BY DEF Http!DeletedAfterWorkers, HttpInv, Counted
<1> QED
  BY <1>5, <1>6

(* No thread has counted itself at the start. *)
LEMMA HttpInvInit == Http!Init => HttpInv
<1> SUFFICES ASSUME Http!Init PROVE HttpInv
  OBVIOUS
<1> USE DEF Http!Init
<1>1. Counted = {}
  BY DEF Counted
<1>2. IsFiniteSet({}) /\ Cardinality({}) = 0
  BY FS_EmptySet
<1>3. WorkersAreCounted
  BY <1>1, <1>2 DEF WorkersAreCounted
<1>4. Len(<<>>) = 0 /\ <<>> \in Seq(Requests)
  OBVIOUS
<1>5. HttpTyped
  BY <1>4, HttpConstants DEF HttpTyped, WorkerType
<1> QED
  BY <1>1, <1>3, <1>5 DEF HttpInv

(* A step in which no thread counts itself in or out keeps the count. *)
LEMMA SameCounted ==
    ASSUME HttpInv, HttpTyped', UNCHANGED numThreads,
           \A t \in HttpThreads : worker'[t] \in {"created", "left"} <=> worker[t] \in {"created", "left"},
           stopper' = "deleted" => stopper = "deleted" \/ numThreads = 0
    PROVE  HttpInv'
<1>1. Counted' = Counted
  BY DEF Counted
<1>2. WorkersAreCounted'
  BY <1>1 DEF HttpInv, WorkersAreCounted
<1>3. numThreads = 0 => Counted = {}
  BY FS_EmptySet DEF HttpInv, WorkersAreCounted
<1> QED
  BY <1>1, <1>2, <1>3 DEF HttpInv

(* Requests come in, and are queued or refused. *)
LEMMA EventThreadKeeps ==
    ASSUME HttpInv, NEW r \in Requests, Http!Arrive(r) \/ Http!Enqueue(r) PROVE HttpInv'
<1> USE DEF HttpInv, HttpTyped
<1>1. CASE Http!Arrive(r)
  <2>1. HttpTyped'
    BY <1>1 DEF Http!Arrive
  <2> QED
    BY <1>1, <2>1, SameCounted DEF Http!Arrive
<1>2. CASE Http!Enqueue(r)
  <2>1. UNCHANGED <<running, numThreads>>
    BY <1>2 DEF Http!Enqueue
  <2>2. request' \in [Requests -> {"new", "arrived", "queued", "running", "answered"}]
    BY <1>2 DEF Http!Enqueue
  <2>3. work' \in Seq(Requests) /\ Len(work') <= MaxDepth
    <3>1. CASE Len(work) >= MaxDepth
      BY <1>2, <3>1 DEF Http!Enqueue
    <3>2. CASE ~(Len(work) >= MaxDepth)
      <4>1. work' = Append(work, r)
        BY <1>2, <3>2 DEF Http!Enqueue
      <4>2. Len(work') = Len(work) + 1 /\ work' \in Seq(Requests) /\ Len(work) \in Nat
        BY <4>1
      <4> QED
        BY <3>2, <4>2, HttpConstants
    <3> QED
      BY <3>1, <3>2
  <2>4. /\ worker' = worker \/ \E t \in HttpThreads : worker[t] = "waiting" /\ worker' = [worker EXCEPT ![t] = "ready"]
        /\ stopper' = stopper \/ (stopper = "waiting" /\ stopper' = "interrupted")
    BY <1>2 DEF Http!Enqueue, Http!StopperWoken
  <2>5. worker' \in [HttpThreads -> WorkerType]
    BY <2>4 DEF WorkerType
  <2>6. \A t \in HttpThreads : worker'[t] \in {"created", "left"} <=> worker[t] \in {"created", "left"}
    BY <2>4
  <2>7. HttpTyped'
    BY <2>1, <2>2, <2>3, <2>4, <2>5
  <2> QED
    BY <2>1, <2>4, <2>6, <2>7, SameCounted
<1> QED
  BY <1>1, <1>2

(* A thread counts itself, while the queue is there. *)
LEMMA CountKeeps == ASSUME HttpInv, NEW t \in HttpThreads, Http!Count(t) PROVE HttpInv'
<1> USE DEF Http!Count
<1>1. worker \in [HttpThreads -> WorkerType]
  BY DEF HttpInv, HttpTyped
<1>2. HttpTyped'
  BY <1>1 DEF HttpInv, HttpTyped, WorkerType
<1>3. \A u \in HttpThreads : worker'[u] = IF u = t THEN "ready" ELSE worker[u]
  BY <1>1
<1>4. Counted' = Counted \cup {t} /\ t \notin Counted
  BY <1>3 DEF Counted
<1>5. IsFiniteSet(Counted \cup {t}) /\ Cardinality(Counted \cup {t}) = Cardinality(Counted) + 1
  BY <1>4, FS_AddElement DEF HttpInv, WorkersAreCounted
<1>6. WorkersAreCounted'
  BY <1>4, <1>5 DEF HttpInv, WorkersAreCounted
<1> QED
  BY <1>2, <1>6 DEF HttpInv, Http!Alive

(* A round of Run: the worker leaves, waits or takes a request. *)
LEMMA FetchKeeps == ASSUME HttpInv, NEW t \in HttpThreads, Http!Fetch(t) PROVE HttpInv'
<1>1. /\ worker \in [HttpThreads -> WorkerType] /\ worker[t] = "ready"
      /\ UNCHANGED <<running, numThreads, stopper>>
  BY DEF HttpInv, HttpTyped, Http!Fetch
<1>2. work \in Seq(Requests) /\ Len(work) \in Nat /\ Len(work) <= MaxDepth
      /\ request \in [Requests -> {"new", "arrived", "queued", "running", "answered"}]
  BY DEF HttpInv, HttpTyped
<1>3. CASE ~running \/ work = << >>
  <2>1. PICK s \in {"leaving", "waiting"} : worker' = [worker EXCEPT ![t] = s] /\ UNCHANGED <<work, request>>
    BY <1>3 DEF Http!Fetch
  <2>2. HttpTyped'
    BY <1>1, <2>1 DEF HttpInv, HttpTyped, WorkerType
  <2>3. \A u \in HttpThreads : worker'[u] \in {"created", "left"} <=> worker[u] \in {"created", "left"}
    BY <1>1, <2>1
  <2> QED
    BY <1>1, <2>2, <2>3, SameCounted
<1>4. CASE running /\ work # << >>
  <2>1. PICK r : r = Head(work)
    OBVIOUS
  <2>2. r \in Requests /\ Tail(work) \in Seq(Requests) /\ Len(Tail(work)) = Len(work) - 1
    BY <1>2, <1>4, <2>1
  <2>3. worker' = [worker EXCEPT ![t] = r] /\ request' = [request EXCEPT ![r] = "running"] /\ work' = Tail(work)
    BY <1>4, <2>1 DEF Http!Fetch
  <2>4. worker' \in [HttpThreads -> WorkerType]
    BY <1>1, <2>2, <2>3 DEF WorkerType
  <2>5. work' \in Seq(Requests) /\ Len(work') <= MaxDepth
    BY <1>2, <2>2, <2>3, HttpConstants
  <2>6. request' \in [Requests -> {"new", "arrived", "queued", "running", "answered"}]
    BY <1>2, <2>2, <2>3
  <2>7. HttpTyped'
    BY <1>1, <2>4, <2>5, <2>6 DEF HttpInv, HttpTyped
  <2>8. r \notin {"created", "left"}
    BY <2>2, HttpConstants
  <2>9. \A u \in HttpThreads : worker'[u] \in {"created", "left"} <=> worker[u] \in {"created", "left"}
    BY <1>1, <2>3, <2>8
  <2> QED
    BY <1>1, <2>7, <2>9, SameCounted
<1> QED
  BY <1>3, <1>4 DEF HttpInv, HttpTyped

(* The worker runs its request. *)
LEMMA ExecuteKeeps == ASSUME HttpInv, NEW t \in HttpThreads, Http!Execute(t) PROVE HttpInv'
<1> USE DEF Http!Execute
<1>1. worker \in [HttpThreads -> WorkerType] /\ worker[t] \in Requests
  BY DEF HttpInv, HttpTyped
<1>2. HttpTyped'
  BY <1>1 DEF HttpInv, HttpTyped, WorkerType
<1>3. worker[t] \notin {"created", "left"}
  BY <1>1, HttpConstants
<1>4. \A u \in HttpThreads : worker'[u] \in {"created", "left"} <=> worker[u] \in {"created", "left"}
  BY <1>1, <1>3
<1> QED
  BY <1>2, <1>4, SameCounted

(* cond.notify_all() wakes threads and keeps them counted. *)
LEMMA AllWokenCounts ==
    ASSUME NEW workers \in [HttpThreads -> WorkerType]
    PROVE  /\ Http!AllWoken(workers) \in [HttpThreads -> WorkerType]
           /\ \A u \in HttpThreads : Http!AllWoken(workers)[u] \in {"created", "left"} <=> workers[u] \in {"created", "left"}
BY DEF Http!AllWoken, WorkerType

(* A thread leaves: its ThreadCounter goes. *)
LEMMA UncountKeeps == ASSUME HttpInv, NEW t \in HttpThreads, Http!Uncount(t) PROVE HttpInv'
<1>1. worker \in [HttpThreads -> WorkerType] /\ worker[t] = "leaving" /\ numThreads' = numThreads - 1
  BY DEF HttpInv, HttpTyped, Http!Uncount
<1>2. PICK left \in [HttpThreads -> WorkerType] : left = [worker EXCEPT ![t] = "left"]
  BY <1>1 DEF WorkerType
<1>3. worker' = Http!AllWoken(left) /\ stopper' = Http!StopperWoken /\ UNCHANGED <<work, running, request>>
  BY <1>2 DEF Http!Uncount
<1>4. \A u \in HttpThreads : left[u] = IF u = t THEN "left" ELSE worker[u]
  BY <1>1, <1>2
<1>5. worker' \in [HttpThreads -> WorkerType]
      /\ \A u \in HttpThreads : worker'[u] \in {"created", "left"} <=> left[u] \in {"created", "left"}
  BY <1>3, AllWokenCounts
<1>6. HttpTyped'
  BY <1>3, <1>5 DEF HttpInv, HttpTyped, Http!StopperWoken
<1>7. Counted' = Counted \ {t} /\ t \in Counted
  BY <1>1, <1>4, <1>5 DEF Counted
<1>8. IsFiniteSet(Counted \ {t}) /\ Cardinality(Counted \ {t}) = Cardinality(Counted) - 1
  BY <1>7, FS_RemoveElement DEF HttpInv, WorkersAreCounted
<1>9. WorkersAreCounted'
  BY <1>1, <1>7, <1>8 DEF HttpInv, WorkersAreCounted
<1>10. stopper' # "deleted"
  BY <1>3, <1>7 DEF HttpInv, Http!StopperWoken
<1> QED
  BY <1>6, <1>9, <1>10 DEF HttpInv

(* InterruptHTTPServer, and WaitExit, which deletes the queue only when no   *)
(* thread is counted.                                                        *)
LEMMA StopKeeps == ASSUME HttpInv, Http!InterruptQueue \/ Http!WaitExit PROVE HttpInv'
<1>1. CASE Http!InterruptQueue
  <2>1. worker \in [HttpThreads -> WorkerType] /\ worker' = Http!AllWoken(worker)
    BY <1>1 DEF HttpInv, HttpTyped, Http!InterruptQueue
  <2>2. /\ worker' \in [HttpThreads -> WorkerType]
        /\ \A u \in HttpThreads : worker'[u] \in {"created", "left"} <=> worker[u] \in {"created", "left"}
    BY <2>1, AllWokenCounts
  <2>3. HttpTyped'
    BY <1>1, <2>2 DEF HttpInv, HttpTyped, Http!InterruptQueue
  <2> QED
    BY <1>1, <2>2, <2>3, SameCounted DEF Http!InterruptQueue
<1>2. CASE Http!WaitExit
  <2>1. UNCHANGED <<running, numThreads, worker>>
    BY <1>2 DEF Http!WaitExit
  <2>2. CASE numThreads > 0
    <3>1. HttpTyped'
      BY <1>2, <2>2 DEF HttpInv, HttpTyped, Http!WaitExit
    <3> QED
      BY <1>2, <2>1, <2>2, <3>1, SameCounted DEF Http!WaitExit
  <2>3. CASE ~(numThreads > 0)
    <3>1. numThreads = 0
      BY <2>3, FS_CardinalityType DEF HttpInv, WorkersAreCounted
    <3>2. /\ stopper' = "deleted" /\ work' = << >>
          /\ request' = [r \in Requests |-> IF request[r] = "queued" THEN "answered" ELSE request[r]]
      BY <1>2, <2>3 DEF Http!WaitExit
    <3>3. work' \in Seq(Requests) /\ Len(work') <= MaxDepth
      BY <3>2, HttpConstants
    <3>4. HttpTyped'
      BY <2>1, <3>2, <3>3 DEF HttpInv, HttpTyped
    <3> QED
      BY <2>1, <3>1, <3>4, SameCounted
  <2> QED
    BY <2>2, <2>3
<1> QED
  BY <1>1, <1>2

(* Every step of the work queue keeps the invariant. *)
LEMMA HttpInvStep == HttpInv /\ [Http!Next]_workVars => HttpInv'
<1> SUFFICES ASSUME HttpInv, [Http!Next]_workVars PROVE HttpInv'
  OBVIOUS
<1>1. CASE \E r \in Requests : Http!Arrive(r) \/ Http!Enqueue(r)
  BY <1>1, EventThreadKeeps
<1>2. CASE \E t \in HttpThreads : Http!WorkerStep(t)
  BY <1>2, CountKeeps, FetchKeeps, ExecuteKeeps, UncountKeeps DEF Http!WorkerStep
<1>3. CASE Http!InterruptQueue \/ Http!WaitExit
  BY <1>3, StopKeeps
<1>4. CASE UNCHANGED workVars
  <2>1. HttpTyped'
    BY <1>4 DEF workVars, HttpInv, HttpTyped
  <2> QED
    BY <1>4, <2>1, SameCounted DEF workVars
<1> QED
  BY <1>1, <1>2, <1>3, <1>4 DEF Http!Next

(* For every number of service threads, tasks, HTTP threads and requests:    *)
(* nThreadsServicingQueue counts the threads inside serviceQueue, however    *)
(* they leave it; a thread that is alone, as AppInit2 starts it, never calls *)
(* a task before its time, whatever is scheduled while it waits; and         *)
(* StopHTTPServer deletes the work queue only after every thread that has    *)
(* counted itself has left (scheduler.cpp and httpserver.cpp).               *)
THEOREM ServicesCorrect == Sched!Spec /\ Http!Spec => []ServicesAreSafe
<1>1. Sched!Init => SchedInv
  BY SchedInvInit
<1>2. SchedInv /\ [Sched!Next]_schedulerVars => SchedInv'
  BY SchedInvStep
<1>3. Http!Init => HttpInv
  BY HttpInvInit
<1>4. HttpInv /\ [Http!Next]_workVars => HttpInv'
  BY HttpInvStep
<1>5. SchedInv /\ HttpInv => ServicesAreSafe
  BY SchedInvImplies, HttpInvImplies DEF ServicesAreSafe
<1> QED
  BY <1>1, <1>2, <1>3, <1>4, <1>5, PTL
     DEF Sched!Spec, Http!Spec, schedulerVars, workVars, Sched!schedulerVars, Http!workVars


-----------------------------------------------------------------------------
(* The encrypted wallet: one master key, and memory and file agree *)

(* The memory w and the file f have their fields. *)
IsStore(w) ==
    w = [crypto |-> w.crypto, keys |-> w.keys, ckeys |-> w.ckeys, masters |-> w.masters, master |-> w.master,
         anonymizeOnly |-> w.anonymizeOnly, seed |-> w.seed]
IsFile(f) ==
    /\ f = [key |-> f.key, ckey |-> f.ckey, mkey |-> f.mkey, seedhash |-> f.seedhash, dzs |-> f.dzs]
    /\ f.seedhash \in BOOLEAN /\ f.dzs \in -1 .. MaxMasters

(* A wallet that is not encrypted.  Encryptions that could not begin have    *)
(* left master keys in memory, and none in the file.                         *)
PlainOk(w, f, keys) ==
    /\ IsStore(w) /\ ~w.crypto /\ w.master = 0 /\ w.keys = keys
    /\ DOMAIN w.ckeys = {} /\ DOMAIN w.masters \subseteq 1 .. MaxMasters
    /\ IsFile(f) /\ f.key = keys /\ DOMAIN f.ckey = {} /\ DOMAIN f.mkey = {}

(* A wallet encrypted with master key id, itself under passphrase p. *)
EncryptedOk(w, f, keys, p, id) ==
    /\ IsStore(w) /\ w.crypto /\ w.master \in {0, id} /\ w.keys = {}
    /\ w.ckeys = [k \in keys |-> id]
    /\ DOMAIN w.masters \subseteq 1 .. MaxMasters /\ id \in DOMAIN w.masters /\ w.masters[id] = p
    /\ IsFile(f) /\ f.key = {} /\ f.ckey = [k \in keys |-> id]
    /\ DOMAIN f.mkey = {id} /\ f.mkey[id] = p
    /\ w.master # 0 => f.dzs # 0

WalletOk(w, f, keys, p) ==
    PlainOk(w, f, keys) \/ \E id \in 1 .. MaxMasters : EncryptedOk(w, f, keys, p, id)

RelockType == [timer : BOOLEAN, firing : BOOLEAN, call : {"none", "unlocked", "erasing", "changing"},
               old : Passphrases, new : Passphrases, wasLocked : BOOLEAN]
OwnerType == [passphrase : Passphrases, keys : (SUBSET (1 .. MaxWalletKeys)) \ {{}}, starts : 0 .. MaxStarts, missed : BOOLEAN]

CryptInv ==
    /\ relock \in RelockType
    /\ owner \in OwnerType
    /\ WalletOk(store, walletDat, owner.keys, owner.passphrase)
    /\ relock.call = "changing" => store.master = 0

(* What the constants of the wallet are. *)
LEMMA CryptConstants == MaxWalletKeys \in Nat \ {0} /\ MaxMasters \in Nat \ {0} /\ MaxStarts \in Nat
BY ServicesAssumption DEF Crypt!WalletCryptoAssumption

(* The next key and the next master key are numbers. *)
LEMMA CryptCounts ==
    ASSUME NEW N \in Nat, NEW S, S \subseteq 1 .. N PROVE Crypt!Cardinality(S) \in Nat
<1>1. Crypt!Cardinality(S) = Cardinality(S)
  BY DEF Crypt!Cardinality, Cardinality
<1>2. IsFiniteSet(1 .. N)
  BY FS_Interval
<1>3. Cardinality(S) \in Nat
  BY <1>2, FS_Subset, FS_CardinalityType
<1> QED
  BY <1>1, <1>3

(* CCryptoKeyStore::Unlock opens the wallet with its own master key and with *)
(* no other.                                                                 *)
LEMMA UnlockStoreOk ==
    ASSUME NEW w, NEW f, NEW keys, keys # {}, NEW p, NEW id \in 1 .. MaxMasters, EncryptedOk(w, f, keys, p, id), NEW m
    PROVE  /\ m # id => Crypt!UnlockStore(w, f, m) = [ok |-> FALSE, w |-> w, f |-> f]
           /\ m = id => /\ EncryptedOk(Crypt!UnlockStore(w, f, m).w, Crypt!UnlockStore(w, f, m).f, keys, p, id)
                        /\ Crypt!UnlockStore(w, f, m).w.master = id
           /\ Crypt!UnlockStore(w, f, m).ok => m = id
<1>1. id # 0 /\ MaxMasters \in Nat
  BY CryptConstants
<1>2. DOMAIN w.ckeys = keys /\ \A k \in keys : w.ckeys[k] = id
  BY DEF EncryptedOk
<1>3. CASE m # id
  <2>1. ~(DOMAIN w.ckeys # {} /\ \A k \in DOMAIN w.ckeys : w.ckeys[k] = m)
    BY <1>2, <1>3
  <2>2. Crypt!UnlockStore(w, f, m) = [ok |-> FALSE, w |-> w, f |-> f]
    BY <2>1 DEF Crypt!UnlockStore
  <2> QED
    BY <1>3, <2>2
<1>4. CASE m = id
  <2>1. DOMAIN w.ckeys # {} /\ \A k \in DOMAIN w.ckeys : w.ckeys[k] = m
    BY <1>2, <1>4
  <2>2. PICK open : open = [w EXCEPT !.master = m]
    OBVIOUS
  <2>3. open = [crypto |-> w.crypto, keys |-> w.keys, ckeys |-> w.ckeys, masters |-> w.masters, master |-> m,
                anonymizeOnly |-> w.anonymizeOnly, seed |-> w.seed]
    BY <2>2 DEF EncryptedOk, IsStore
  <2>4. CASE f.seedhash /\ f.dzs = -1
    <3>1. Crypt!UnlockStore(w, f, m) = [ok |-> FALSE, w |-> open, f |-> f]
      BY <2>1, <2>2, <2>4 DEF Crypt!UnlockStore, Crypt!Lost
    <3>2. EncryptedOk(open, f, keys, p, id)
      BY <1>1, <1>4, <2>3, <2>4 DEF EncryptedOk, IsStore
    <3> QED
      BY <1>4, <2>3, <3>1, <3>2
  <2>5. CASE ~(f.seedhash /\ f.dzs = -1)
    <3>1. PICK v : v = [open EXCEPT !.seed = TRUE]
      OBVIOUS
    <3>2. PICK g : g = Crypt!AddDeterministicSeed(open, f)
      OBVIOUS
    <3>3. Crypt!UnlockStore(w, f, m) = [ok |-> TRUE, w |-> v, f |-> g]
      BY <2>1, <2>2, <2>5, <3>1, <3>2 DEF Crypt!UnlockStore, Crypt!Lost
    <3>4. v = [crypto |-> w.crypto, keys |-> w.keys, ckeys |-> w.ckeys, masters |-> w.masters, master |-> m,
               anonymizeOnly |-> w.anonymizeOnly, seed |-> TRUE]
      BY <2>3, <3>1
    <3>5. g = [key |-> f.key, ckey |-> f.ckey, mkey |-> f.mkey, seedhash |-> TRUE, dzs |-> m]
      BY <2>3, <3>2 DEF Crypt!AddDeterministicSeed, EncryptedOk, IsFile
    <3>6. IsStore(v) /\ IsFile(g)
      BY <1>1, <1>4, <3>4, <3>5 DEF IsStore, IsFile
    <3>7. EncryptedOk(v, g, keys, p, id)
      BY <1>1, <1>4, <3>4, <3>5, <3>6 DEF EncryptedOk
    <3> QED
      BY <1>4, <3>3, <3>4, <3>7
  <2> QED
    BY <2>4, <2>5
<1> QED
  BY <1>3, <1>4

(* CWallet::Unlock: what it leaves, and that the passphrase opens. *)
LEMMA UnlockOk ==
    ASSUME NEW w, NEW f, NEW keys, keys # {}, NEW p, NEW id \in 1 .. MaxMasters, EncryptedOk(w, f, keys, p, id),
           NEW q, NEW a
    PROVE  /\ EncryptedOk(Crypt!Unlock(w, f, q, a).w, Crypt!Unlock(w, f, q, a).f, keys, p, id)
           /\ Crypt!Unlock(w, f, q, a).ok \/ q = p => Crypt!Unlock(w, f, q, a).w.master = id
<1>1. id # 0
  BY CryptConstants
<1> DEFINE opening == {i \in Crypt!Tried(w, q) : Crypt!UnlockStore(w, f, i).w.master # Crypt!NoKey}
<1>2. opening = {i \in Crypt!Tried(w, q) : Crypt!UnlockStore(w, f, i).w.master # Crypt!NoKey}
  OBVIOUS
<1>3. CASE ~Crypt!IsLocked(w)
  <2>1. w.master = id
    BY <1>3 DEF Crypt!IsLocked, Crypt!NoKey, EncryptedOk
  <2>2. PICK v : v = [w EXCEPT !.anonymizeOnly = a]
    OBVIOUS
  <2>3. Crypt!Unlock(w, f, q, a) = [ok |-> TRUE, w |-> v, f |-> f]
    BY <1>3, <2>2 DEF Crypt!Unlock
  <2>4. v = [crypto |-> w.crypto, keys |-> w.keys, ckeys |-> w.ckeys, masters |-> w.masters, master |-> w.master,
             anonymizeOnly |-> a, seed |-> w.seed]
    BY <2>2 DEF EncryptedOk, IsStore
  <2>5. EncryptedOk(v, f, keys, p, id)
    BY <2>4 DEF EncryptedOk, IsStore
  <2> QED
    BY <2>1, <2>3, <2>4, <2>5
<1>4. CASE Crypt!IsLocked(w)
  <2>1. w.master = 0
    BY <1>4 DEF Crypt!IsLocked, Crypt!NoKey
  <2>2. ASSUME NEW i \in opening PROVE i = id
    <3>1. Crypt!UnlockStore(w, f, i).w.master # 0
      BY <1>2 DEF Crypt!NoKey
    <3>2. i # id => Crypt!UnlockStore(w, f, i) = [ok |-> FALSE, w |-> w, f |-> f]
      BY UnlockStoreOk
    <3> QED
      BY <2>1, <3>1, <3>2
  <2>3. ASSUME q = p PROVE id \in opening
    <3>1. id \in Crypt!Tried(w, q)
      BY <2>3 DEF Crypt!Tried, EncryptedOk
    <3>2. Crypt!UnlockStore(w, f, id).w.master = id
      BY UnlockStoreOk
    <3> QED
      BY <1>1, <1>2, <3>1, <3>2 DEF Crypt!NoKey
  <2>4. CASE opening = {}
    <3>1. Crypt!Unlock(w, f, q, a) = [ok |-> FALSE, w |-> w, f |-> f]
      BY <1>2, <1>4, <2>4 DEF Crypt!Unlock
    <3> QED
      BY <2>3, <2>4, <3>1
  <2>5. CASE opening # {}
    <3>1. (CHOOSE i \in opening : TRUE) = id
      BY <2>2, <2>5
    <3>2. PICK r : r = Crypt!UnlockStore(w, f, id)
      OBVIOUS
    <3>3. Crypt!Unlock(w, f, q, a) = IF r.ok THEN [r EXCEPT !.w = [r.w EXCEPT !.anonymizeOnly = a]] ELSE r
      <4>1. Crypt!Unlock(w, f, q, a) =
              LET s == Crypt!UnlockStore(w, f, CHOOSE i \in opening : TRUE)
              IN  IF s.ok THEN [s EXCEPT !.w = [s.w EXCEPT !.anonymizeOnly = a]] ELSE s
        BY <1>4, <2>5 DEF Crypt!Unlock
      <4> HIDE DEF opening
      <4> QED
        BY <3>1, <3>2, <4>1
    <3>4. EncryptedOk(r.w, r.f, keys, p, id) /\ r.w.master = id
      BY <3>2, UnlockStoreOk
    <3>5. CASE ~r.ok
      BY <3>3, <3>4, <3>5
    <3>6. CASE r.ok
      <4>1. PICK v : v = [r.w EXCEPT !.anonymizeOnly = a]
        OBVIOUS
      <4>2. v = [crypto |-> r.w.crypto, keys |-> r.w.keys, ckeys |-> r.w.ckeys, masters |-> r.w.masters,
                 master |-> r.w.master, anonymizeOnly |-> a, seed |-> r.w.seed]
        BY <3>4, <4>1 DEF EncryptedOk, IsStore
      <4>3. EncryptedOk(v, r.f, keys, p, id)
        BY <3>4, <4>2 DEF EncryptedOk, IsStore
      <4>4. r = [ok |-> r.ok, w |-> r.w, f |-> r.f]
        BY <3>2 DEF Crypt!UnlockStore
      <4>5. Crypt!Unlock(w, f, q, a) = [r EXCEPT !.w = v]
        BY <3>3, <3>6, <4>1
      <4>6. Crypt!Unlock(w, f, q, a).w = v /\ Crypt!Unlock(w, f, q, a).f = r.f
        BY <4>4, <4>5
      <4> QED
        BY <3>4, <4>2, <4>3, <4>6
    <3> QED
      BY <3>5, <3>6
  <2> QED
    BY <2>4, <2>5
<1> QED
  BY <1>3, <1>4


(* The invariant says what the run checks. *)
LEMMA CryptInvImplies == CryptInv => WalletIsProtected
<1> SUFFICES ASSUME CryptInv PROVE WalletIsProtected
  OBVIOUS
<1>1. /\ relock.call \in {"none", "unlocked", "erasing", "changing"}
      /\ owner.keys \subseteq 1 .. MaxWalletKeys /\ owner.keys # {} /\ owner.starts \in 0 .. MaxStarts
  BY DEF CryptInv, RelockType, OwnerType
<1>2. MaxMasters \in Nat \ {0}
  BY CryptConstants
<1>3. CASE PlainOk(store, walletDat, owner.keys)
  <2> USE <1>3 DEF PlainOk, IsFile
  <2>1. Crypt!TypeOK
    <3>1. walletDat.dzs \in (1 .. MaxMasters + 1) \cup {0, -1} /\ 1 .. MaxMasters \subseteq 1 .. MaxMasters + 1
      BY <1>2
    <3> QED
      BY <1>1, <1>2, <3>1 DEF Crypt!TypeOK, Crypt!NoKey, Crypt!Plain, Crypt!Lost
  <2>2. Crypt!KeysAreRecovered
    BY DEF Crypt!KeysAreRecovered
  <2>3. Crypt!PassphraseOpens
    BY DEF Crypt!PassphraseOpens, Crypt!IsLocked
  <2>4. Crypt!NothingInThePlain
    BY DEF Crypt!NothingInThePlain, Crypt!NoKey
  <2> QED
    BY <2>1, <2>2, <2>3, <2>4 DEF WalletIsProtected
<1>4. ASSUME NEW id \in 1 .. MaxMasters, EncryptedOk(store, walletDat, owner.keys, owner.passphrase, id)
      PROVE  WalletIsProtected
  <2>1. Crypt!TypeOK
    <3>1. walletDat.dzs \in (1 .. MaxMasters + 1) \cup {0, -1} /\ 1 .. MaxMasters \subseteq 1 .. MaxMasters + 1
      BY <1>2, <1>4 DEF EncryptedOk, IsFile
    <3>2. DOMAIN store.ckeys = owner.keys /\ DOMAIN walletDat.ckey = owner.keys
      BY <1>4 DEF EncryptedOk
    <3> QED
      BY <1>1, <1>2, <1>4, <3>1, <3>2 DEF Crypt!TypeOK, Crypt!NoKey, Crypt!Plain, Crypt!Lost, EncryptedOk, IsFile
  <2>2. Crypt!KeysAreRecovered
    BY <1>4 DEF Crypt!KeysAreRecovered, EncryptedOk
  <2>3. Crypt!PassphraseOpens
    <3>1. PICK keys, p, w, f : keys = owner.keys /\ p = owner.passphrase /\ w = store /\ f = walletDat
      OBVIOUS
    <3>2. keys # {} /\ EncryptedOk(w, f, keys, p, id)
      BY <1>1, <1>4, <3>1
    <3>3. \A a : Crypt!Unlock(w, f, p, a).w.master = id
      BY <1>4, <3>2, UnlockOk
    <3>4. id # 0
      BY <1>2
    <3> QED
      BY <3>1, <3>3, <3>4 DEF Crypt!PassphraseOpens, Crypt!NoKey
  <2>4. Crypt!NothingInThePlain
    BY <1>4 DEF Crypt!NothingInThePlain, Crypt!NoKey, Crypt!Plain, EncryptedOk
  <2> QED
    BY <2>1, <2>2, <2>3, <2>4 DEF WalletIsProtected
<1> QED
  BY <1>3, <1>4 DEF CryptInv, WalletOk

(* A new wallet, or an encrypted one without a seed. *)
LEMMA CryptInvInit == Crypt!Init => CryptInv
<1> SUFFICES ASSUME Crypt!Init PROVE CryptInv
  OBVIOUS
<1>1. PICK p \in Passphrases, old \in BOOLEAN :
        /\ store = IF old THEN [crypto |-> TRUE, keys |-> {}, ckeys |-> Crypt!Put(<<>>, 1, 1), masters |-> Crypt!Put(<<>>, 1, p),
                                master |-> 0, anonymizeOnly |-> FALSE, seed |-> FALSE]
                   ELSE [crypto |-> FALSE, keys |-> {1}, ckeys |-> <<>>, masters |-> <<>>, master |-> 0,
                         anonymizeOnly |-> FALSE, seed |-> TRUE]
        /\ walletDat = [key |-> store.keys, ckey |-> store.ckeys, mkey |-> store.masters,
                        seedhash |-> ~old, dzs |-> IF old THEN -1 ELSE 0]
        /\ relock = [timer |-> FALSE, firing |-> FALSE, call |-> "none", old |-> p, new |-> p, wasLocked |-> FALSE]
        /\ owner = [passphrase |-> p, keys |-> {1}, starts |-> 0, missed |-> FALSE]
  BY DEF Crypt!Init, Crypt!NoKey, Crypt!Plain, Crypt!Lost
<1>2. relock \in RelockType /\ owner \in OwnerType /\ relock.call # "changing"
  BY <1>1, CryptConstants DEF RelockType, OwnerType
<1>3. DOMAIN <<>> = {}
  OBVIOUS
<1>4. owner.keys = {1} /\ owner.passphrase = p
  BY <1>1
<1>5. MaxMasters \in Nat \ {0} /\ 1 \in 1 .. MaxMasters
  BY CryptConstants
<1>6. IsStore(store) /\ IsFile(walletDat)
  <2>1. IsStore(store)
    BY <1>1 DEF IsStore
  <2>2. (IF old THEN -1 ELSE 0) \in -1 .. MaxMasters
    BY <1>5
  <2> QED
    BY <1>1, <2>1, <2>2 DEF IsFile
<1>7. CASE ~old
  <2>1. PlainOk(store, walletDat, {1})
    BY <1>1, <1>3, <1>6, <1>7 DEF PlainOk
  <2> QED
    BY <1>2, <1>4, <2>1 DEF CryptInv, WalletOk
<1>8. CASE old
  <2>1. store.ckeys = [k \in {1} |-> 1] /\ store.masters = [i \in {1} |-> p]
    BY <1>1, <1>3, <1>8 DEF Crypt!Put
  <2>2. walletDat.ckey = [k \in {1} |-> 1] /\ walletDat.mkey = [i \in {1} |-> p] /\ walletDat.key = {}
    BY <1>1, <1>8, <2>1
  <2>3. store.crypto /\ store.master = 0 /\ store.keys = {}
    BY <1>1, <1>8
  <2>4. EncryptedOk(store, walletDat, {1}, p, 1)
    BY <1>5, <1>6, <2>1, <2>2, <2>3 DEF EncryptedOk
  <2> QED
    BY <1>2, <1>4, <1>5, <2>4 DEF CryptInv, WalletOk
<1> QED
  BY <1>7, <1>8

(* What Locked does to the fields. *)
LEMMA LockedIs ==
    ASSUME NEW w, IsStore(w)
    PROVE  Crypt!Locked(w) = [crypto |-> w.crypto, keys |-> w.keys, ckeys |-> w.ckeys, masters |-> w.masters, master |-> 0,
                              anonymizeOnly |-> w.anonymizeOnly, seed |-> FALSE]
<1>1. PICK v : v = [w EXCEPT !.master = 0]
  OBVIOUS
<1>2. v = [crypto |-> w.crypto, keys |-> w.keys, ckeys |-> w.ckeys, masters |-> w.masters, master |-> 0,
           anonymizeOnly |-> w.anonymizeOnly, seed |-> w.seed]
  BY <1>1 DEF IsStore
<1>3. Crypt!Locked(w) = [v EXCEPT !.seed = FALSE]
  BY <1>1 DEF Crypt!Locked, Crypt!NoKey
<1> QED
  BY <1>2, <1>3

(* Locking keeps everything but the master key in memory. *)
LEMMA LockedOk ==
    ASSUME NEW w, NEW f, NEW keys, NEW p, NEW a, WalletOk(w, f, keys, p)
    PROVE  /\ WalletOk(Crypt!Locked(w), f, keys, p)
           /\ WalletOk([Crypt!Locked(w) EXCEPT !.anonymizeOnly = a], f, keys, p)
<1>1. IsStore(w)
  BY DEF WalletOk, PlainOk, EncryptedOk
<1>2. ASSUME NEW v, NEW b,
             v = [crypto |-> w.crypto, keys |-> w.keys, ckeys |-> w.ckeys, masters |-> w.masters, master |-> 0,
                  anonymizeOnly |-> b, seed |-> FALSE]
      PROVE  WalletOk(v, f, keys, p)
  <2>1. IsStore(v)
    BY <1>2 DEF IsStore
  <2>2. CASE PlainOk(w, f, keys)
    BY <1>2, <2>1, <2>2 DEF PlainOk, WalletOk
  <2>3. ASSUME NEW id \in 1 .. MaxMasters, EncryptedOk(w, f, keys, p, id) PROVE WalletOk(v, f, keys, p)
    BY <1>2, <2>1, <2>3 DEF EncryptedOk, WalletOk
  <2> QED
    BY <2>2, <2>3 DEF WalletOk
<1>3. Crypt!Locked(w) = [crypto |-> w.crypto, keys |-> w.keys, ckeys |-> w.ckeys, masters |-> w.masters, master |-> 0,
                         anonymizeOnly |-> w.anonymizeOnly, seed |-> FALSE]
  BY <1>1, LockedIs
<1>4. PICK v : v = Crypt!Locked(w)
  OBVIOUS
<1>5. v = [crypto |-> w.crypto, keys |-> w.keys, ckeys |-> w.ckeys, masters |-> w.masters, master |-> 0,
           anonymizeOnly |-> w.anonymizeOnly, seed |-> FALSE]
  BY <1>3, <1>4
<1>6. PICK u : u = [v EXCEPT !.anonymizeOnly = a]
  OBVIOUS
<1>7. u = [crypto |-> w.crypto, keys |-> w.keys, ckeys |-> w.ckeys, masters |-> w.masters, master |-> 0,
           anonymizeOnly |-> a, seed |-> FALSE]
  BY <1>5, <1>6
<1>8. WalletOk(v, f, keys, p)
  BY <1>2, <1>3, <1>4
<1>9. WalletOk(u, f, keys, p)
  BY <1>2, <1>7
<1> QED
  BY <1>4, <1>6, <1>8, <1>9

(* A key goes into memory and file alike, under the master key if the wallet *)
(* is encrypted and open.                                                    *)
LEMMA AddKeyOk ==
    ASSUME NEW w, NEW f, NEW keys, NEW p, NEW k
    PROVE  /\ PlainOk(w, f, keys) => PlainOk(Crypt!AddKeyTo(w, k), Crypt!AddKeyRecord(w, f, k), keys \cup {k})
           /\ \A id \in 1 .. MaxMasters :
                  EncryptedOk(w, f, keys, p, id) /\ w.master = id =>
                      EncryptedOk(Crypt!AddKeyTo(w, k), Crypt!AddKeyRecord(w, f, k), keys \cup {k}, p, id)
<1>1. ASSUME PlainOk(w, f, keys)
      PROVE  PlainOk(Crypt!AddKeyTo(w, k), Crypt!AddKeyRecord(w, f, k), keys \cup {k})
  <2>1. Crypt!AddKeyTo(w, k) = [crypto |-> w.crypto, keys |-> w.keys \cup {k}, ckeys |-> w.ckeys, masters |-> w.masters,
                                master |-> w.master, anonymizeOnly |-> w.anonymizeOnly, seed |-> w.seed]
    BY <1>1 DEF Crypt!AddKeyTo, PlainOk, IsStore
  <2>2. Crypt!AddKeyRecord(w, f, k) = [key |-> f.key \cup {k}, ckey |-> f.ckey, mkey |-> f.mkey, seedhash |-> f.seedhash, dzs |-> f.dzs]
    BY <1>1 DEF Crypt!AddKeyRecord, PlainOk, IsFile
  <2>3. IsStore(Crypt!AddKeyTo(w, k)) /\ IsFile(Crypt!AddKeyRecord(w, f, k))
    BY <1>1, <2>1, <2>2 DEF PlainOk, IsStore, IsFile
  <2> QED
    BY <1>1, <2>1, <2>2, <2>3 DEF PlainOk
<1>2. ASSUME NEW id \in 1 .. MaxMasters, EncryptedOk(w, f, keys, p, id), w.master = id
      PROVE  EncryptedOk(Crypt!AddKeyTo(w, k), Crypt!AddKeyRecord(w, f, k), keys \cup {k}, p, id)
  <2>1. w.ckeys = [x \in keys |-> id] /\ f.ckey = [x \in keys |-> id]
    BY <1>2 DEF EncryptedOk
  <2>2. Crypt!Put(w.ckeys, k, id) = [x \in keys \cup {k} |-> id] /\ Crypt!Put(f.ckey, k, id) = [x \in keys \cup {k} |-> id]
    BY <2>1 DEF Crypt!Put
  <2>3. PICK c : c = [x \in keys \cup {k} |-> id]
    OBVIOUS
  <2>4. Crypt!AddKeyTo(w, k) = [crypto |-> w.crypto, keys |-> w.keys, ckeys |-> c, masters |-> w.masters,
                                master |-> w.master, anonymizeOnly |-> w.anonymizeOnly, seed |-> w.seed]
    BY <1>2, <2>2, <2>3 DEF Crypt!AddKeyTo, EncryptedOk, IsStore
  <2>5. Crypt!AddKeyRecord(w, f, k) = [key |-> f.key, ckey |-> c, mkey |-> f.mkey, seedhash |-> f.seedhash, dzs |-> f.dzs]
    BY <1>2, <2>2, <2>3 DEF Crypt!AddKeyRecord, EncryptedOk, IsFile
  <2>6. IsStore(Crypt!AddKeyTo(w, k)) /\ IsFile(Crypt!AddKeyRecord(w, f, k))
    BY <1>2, <2>4, <2>5 DEF EncryptedOk, IsStore, IsFile
  <2> QED
    BY <1>2, <2>3, <2>4, <2>5, <2>6 DEF EncryptedOk
<1> QED
  BY <1>1, <1>2

(* The transaction of EncryptWallet: what it has written is a wallet under   *)
(* the new master key.                                                       *)
LEMMA CommittedOk ==
    ASSUME NEW w, NEW f, NEW keys, NEW p, NEW m, PlainOk(w, f, keys), m = Crypt!NewMaster(w), m <= MaxMasters
    PROVE  /\ m \in 1 .. MaxMasters
           /\ EncryptedOk(Crypt!Locked(Crypt!EncryptKeys(Crypt!WithMaster(w, p), m)), Crypt!Committed(w, f, m, p), keys, p, m)
           /\ IsFile(Crypt!Committed(w, f, m, p))
           /\ PlainOk(Crypt!WithMaster(w, p), f, keys)
<1>1. MaxMasters \in Nat
  BY CryptConstants
<1>2. Crypt!Cardinality(DOMAIN w.masters) \in Nat
  BY <1>1, CryptCounts DEF PlainOk
<1>3. m \in 1 .. MaxMasters
  BY <1>1, <1>2 DEF Crypt!NewMaster
<1>4. PICK ms : ms = Crypt!Put(w.masters, m, p)
  OBVIOUS
<1>5. DOMAIN ms = DOMAIN w.masters \cup {m} /\ ms[m] = p
  BY <1>4 DEF Crypt!Put
<1>6. DOMAIN ms \subseteq 1 .. MaxMasters
  BY <1>3, <1>5 DEF PlainOk
<1>7. Crypt!WithMaster(w, p) = [crypto |-> w.crypto, keys |-> w.keys, ckeys |-> w.ckeys, masters |-> ms,
                                master |-> w.master, anonymizeOnly |-> w.anonymizeOnly, seed |-> w.seed]
  BY <1>4 DEF Crypt!WithMaster, PlainOk, IsStore
<1>8. PlainOk(Crypt!WithMaster(w, p), f, keys)
  <2>1. IsStore(Crypt!WithMaster(w, p))
    BY <1>7 DEF IsStore
  <2> QED
    BY <1>6, <1>7, <2>1 DEF PlainOk
<1>9. PICK c : c = [k \in keys |-> m]
  OBVIOUS
<1>10. PICK v : v = Crypt!Locked(Crypt!EncryptKeys(Crypt!WithMaster(w, p), m))
  OBVIOUS
<1>11. v = [crypto |-> TRUE, keys |-> {}, ckeys |-> c, masters |-> ms, master |-> 0,
            anonymizeOnly |-> w.anonymizeOnly, seed |-> FALSE]
  <2>1. PICK u : u = Crypt!WithMaster(w, p)
    OBVIOUS
  <2>2. u = [crypto |-> w.crypto, keys |-> w.keys, ckeys |-> w.ckeys, masters |-> ms,
             master |-> w.master, anonymizeOnly |-> w.anonymizeOnly, seed |-> w.seed]
    BY <1>7, <2>1
  <2>3. PICK e : e = [u EXCEPT !.crypto = TRUE]
    OBVIOUS
  <2>4. e = [crypto |-> TRUE, keys |-> w.keys, ckeys |-> w.ckeys, masters |-> ms,
             master |-> w.master, anonymizeOnly |-> w.anonymizeOnly, seed |-> w.seed]
    BY <2>3, <2>2
  <2>5. u.keys = keys
    BY <1>7, <2>1 DEF PlainOk
  <2>6. PICK d : d = [e EXCEPT !.ckeys = c]
    OBVIOUS
  <2>7. d = [crypto |-> TRUE, keys |-> w.keys, ckeys |-> c, masters |-> ms,
             master |-> w.master, anonymizeOnly |-> w.anonymizeOnly, seed |-> w.seed]
    BY <2>4, <2>6
  <2>8. PICK b : b = [d EXCEPT !.keys = {}]
    OBVIOUS
  <2>9. b = [crypto |-> TRUE, keys |-> {}, ckeys |-> c, masters |-> ms,
             master |-> w.master, anonymizeOnly |-> w.anonymizeOnly, seed |-> w.seed]
    BY <2>7, <2>8
  <2>10. Crypt!EncryptKeys(u, m) = b
    BY <1>9, <2>3, <2>5, <2>6, <2>8 DEF Crypt!EncryptKeys
  <2>11. IsStore(b)
    BY <2>9 DEF IsStore
  <2>12. v = Crypt!Locked(b)
    BY <1>10, <2>1, <2>10
  <2>13. v = [crypto |-> b.crypto, keys |-> b.keys, ckeys |-> b.ckeys, masters |-> b.masters, master |-> 0,
              anonymizeOnly |-> b.anonymizeOnly, seed |-> FALSE]
    BY <2>11, <2>12, LockedIs
  <2> QED
    BY <2>9, <2>13
<1>12. PICK mk : mk = Crypt!Put(f.mkey, m, p)
  OBVIOUS
<1>13. DOMAIN mk = {m} /\ mk[m] = p
  BY <1>12 DEF Crypt!Put, PlainOk
<1>14. PICK g : g = Crypt!Committed(w, f, m, p)
  OBVIOUS
<1>15. g = [key |-> {}, ckey |-> c, mkey |-> mk, seedhash |-> f.seedhash, dzs |-> f.dzs]
  <2>1. f.key \ w.keys = {} /\ w.keys = keys
    BY DEF PlainOk
  <2> QED
    BY <1>9, <1>12, <1>14, <2>1 DEF Crypt!Committed, PlainOk, IsFile
<1>16. IsFile(g) /\ IsStore(v)
  BY <1>11, <1>15 DEF IsFile, IsStore, PlainOk
<1>17. EncryptedOk(v, g, keys, p, m)
  BY <1>5, <1>6, <1>9, <1>11, <1>13, <1>15, <1>16 DEF EncryptedOk
<1> QED
  BY <1>3, <1>8, <1>10, <1>14, <1>16, <1>17

(* LoadWallet finds what the file holds. *)
LEMMA LoadedOk ==
    ASSUME NEW w, NEW f, NEW keys, keys # {}, NEW p, WalletOk(w, f, keys, p)
    PROVE  WalletOk(Crypt!Loaded(f), IF Crypt!Loaded(f).seed THEN Crypt!AddDeterministicSeed(Crypt!Loaded(f), f) ELSE f, keys, p)
<1>1. IsFile(f) /\ MaxMasters \in Nat
  BY CryptConstants DEF WalletOk, PlainOk, EncryptedOk
<1>2. PICK v : v = Crypt!Loaded(f)
  OBVIOUS
<1>3. PICK s : s = (DOMAIN f.ckey = {} /\ (f.dzs = 0 \/ ~f.seedhash))
  OBVIOUS
<1>4. v = [crypto |-> DOMAIN f.ckey # {}, keys |-> f.key, ckeys |-> f.ckey, masters |-> f.mkey, master |-> 0,
           anonymizeOnly |-> FALSE, seed |-> s]
  BY <1>2, <1>3 DEF Crypt!Loaded, Crypt!NoKey, Crypt!Plain
<1>5. PICK g : g = IF v.seed THEN Crypt!AddDeterministicSeed(v, f) ELSE f
  OBVIOUS
<1>6. IsStore(v)
  BY <1>4 DEF IsStore
<1>7. /\ IsFile(g) /\ g.key = f.key /\ g.ckey = f.ckey /\ g.mkey = f.mkey
  <2>1. CASE v.seed
    <3>1. g = [key |-> f.key, ckey |-> f.ckey, mkey |-> f.mkey, seedhash |-> TRUE, dzs |-> 0]
      BY <1>1, <1>4, <1>5, <2>1 DEF Crypt!AddDeterministicSeed, IsFile
    <3> QED
      BY <1>1, <3>1 DEF IsFile
  <2>2. CASE ~v.seed
    BY <1>1, <1>5, <2>2
  <2> QED
    BY <2>1, <2>2
<1>8. CASE PlainOk(w, f, keys)
  <2>1. DOMAIN f.ckey = {} /\ DOMAIN f.mkey = {} /\ f.key = keys
    BY <1>8 DEF PlainOk
  <2>2. ~v.crypto /\ v.master = 0 /\ v.keys = keys /\ v.ckeys = f.ckey /\ v.masters = f.mkey
    BY <1>4, <2>1
  <2>3. PlainOk(v, g, keys)
    BY <1>6, <1>7, <2>1, <2>2 DEF PlainOk
  <2> QED
    BY <1>2, <1>5, <2>3 DEF WalletOk
<1>9. ASSUME NEW id \in 1 .. MaxMasters, EncryptedOk(w, f, keys, p, id) PROVE WalletOk(v, g, keys, p)
  <2>1. DOMAIN f.ckey = keys /\ f.ckey = [k \in keys |-> id] /\ DOMAIN f.mkey = {id} /\ f.mkey[id] = p /\ f.key = {}
    BY <1>9 DEF EncryptedOk
  <2>2. v.crypto /\ v.master = 0 /\ v.keys = {} /\ v.ckeys = f.ckey /\ v.masters = f.mkey
    BY <1>4, <2>1
  <2>3. EncryptedOk(v, g, keys, p, id)
    BY <1>6, <1>7, <2>1, <2>2 DEF EncryptedOk
  <2> QED
    BY <2>3 DEF WalletOk
<1> QED
  BY <1>2, <1>5, <1>8, <1>9 DEF WalletOk


(* A wallet to which keys can be added. *)
OpenOk(w, f, keys, p) ==
    PlainOk(w, f, keys) \/ \E id \in 1 .. MaxMasters : EncryptedOk(w, f, keys, p, id) /\ w.master = id

(* TopUpKeyPool: what it generates is in memory, in the file and known. *)
LEMMA ToppedOk ==
    ASSUME CryptInv, NEW n \in {0, 1}, Crypt!MayGenerate(n), NEW w, NEW f, NEW p, OpenOk(w, f, owner.keys, p)
    PROVE  /\ Crypt!ToppedOwner(n) \in OwnerType
           /\ Crypt!ToppedOwner(n).passphrase = owner.passphrase
           /\ Crypt!ToppedOwner(n) = [owner EXCEPT !.keys = Crypt!ToppedOwner(n).keys]
           /\ WalletOk(Crypt!ToppedStore(w, n), Crypt!ToppedFile(w, f, n), Crypt!ToppedOwner(n).keys, p)
<1>1. owner \in OwnerType
  BY DEF CryptInv
<1>2. CASE n = 0
  <2>1. Crypt!ToppedOwner(n) = owner /\ Crypt!ToppedStore(w, n) = w /\ Crypt!ToppedFile(w, f, n) = f
    BY <1>2 DEF Crypt!ToppedOwner, Crypt!ToppedStore, Crypt!ToppedFile
  <2>2. WalletOk(w, f, owner.keys, p)
    BY DEF OpenOk, WalletOk
  <2>3. owner = [owner EXCEPT !.keys = owner.keys]
    BY <1>1 DEF OwnerType
  <2> QED
    BY <1>1, <2>1, <2>2, <2>3
<1>3. CASE n = 1
  <2>1. PICK k : k = Crypt!NextKey
    OBVIOUS
  <2>2. PICK keys : keys = owner.keys
    OBVIOUS
  <2>3. k \in 1 .. MaxWalletKeys
    <3>1. MaxWalletKeys \in Nat /\ owner.keys \subseteq 1 .. MaxWalletKeys
      BY <1>1, CryptConstants DEF OwnerType
    <3>2. Crypt!Cardinality(owner.keys) \in Nat
      BY <3>1, CryptCounts
    <3>3. k = Crypt!Cardinality(owner.keys) + 1 /\ k <= MaxWalletKeys
      BY <1>3, <2>1 DEF Crypt!MayGenerate, Crypt!NextKey
    <3> QED
      BY <3>1, <3>2, <3>3
  <2>4. /\ Crypt!ToppedOwner(n) = [owner EXCEPT !.keys = keys \cup {k}]
        /\ Crypt!ToppedStore(w, n) = Crypt!AddKeyTo(w, k)
        /\ Crypt!ToppedFile(w, f, n) = Crypt!AddKeyRecord(w, f, k)
    BY <1>3, <2>1, <2>2 DEF Crypt!ToppedOwner, Crypt!ToppedStore, Crypt!ToppedFile
  <2>5. PICK o : o = [owner EXCEPT !.keys = keys \cup {k}]
    OBVIOUS
  <2>6. o \in OwnerType /\ o.keys = keys \cup {k} /\ o.passphrase = owner.passphrase
    BY <1>1, <2>2, <2>3, <2>5 DEF OwnerType
  <2>7. WalletOk(Crypt!AddKeyTo(w, k), Crypt!AddKeyRecord(w, f, k), keys \cup {k}, p)
    BY <2>2, AddKeyOk DEF OpenOk, WalletOk
  <2>8. Crypt!ToppedOwner(n) = o
    BY <2>4, <2>5
  <2> QED
    BY <2>4, <2>5, <2>6, <2>7, <2>8
<1> QED
  BY <1>2, <1>3

(* GenerateNewKey *)
LEMMA GenerateNewKeyKeeps == ASSUME CryptInv, Crypt!GenerateNewKey PROVE CryptInv'
<1>1. /\ ~Crypt!IsLocked(store) /\ Crypt!MayGenerate(1) /\ relock' = relock /\ relock.call = "none"
      /\ store' = Crypt!ToppedStore(store, 1) /\ walletDat' = Crypt!ToppedFile(store, walletDat, 1)
      /\ owner' = Crypt!ToppedOwner(1)
  BY DEF Crypt!GenerateNewKey, Crypt!ToppedStore, Crypt!ToppedFile
<1>2. OpenOk(store, walletDat, owner.keys, owner.passphrase)
  BY <1>1 DEF CryptInv, WalletOk, OpenOk, EncryptedOk, Crypt!IsLocked, Crypt!NoKey
<1>3. /\ Crypt!ToppedOwner(1) \in OwnerType /\ Crypt!ToppedOwner(1).passphrase = owner.passphrase
      /\ WalletOk(Crypt!ToppedStore(store, 1), Crypt!ToppedFile(store, walletDat, 1), Crypt!ToppedOwner(1).keys, owner.passphrase)
  BY <1>1, <1>2, ToppedOk
<1> QED
  BY <1>1, <1>3 DEF CryptInv

(* encryptwallet: the memory gets a master key, or memory and file are       *)
(* encrypted, opened, given new keys and locked.                             *)
LEMMA EncryptWalletKeeps ==
    ASSUME CryptInv, NEW p \in Passphrases, NEW begins \in BOOLEAN, Crypt!EncryptWallet(p, begins) PROVE CryptInv'
<1>1. ~store.crypto /\ Crypt!NewMaster(store) <= MaxMasters /\ Crypt!MayGenerate(1) /\ relock' = relock /\ relock.call = "none"
  BY DEF Crypt!EncryptWallet
<1>2. PICK keys : keys = owner.keys
  OBVIOUS
<1>3. PlainOk(store, walletDat, keys) /\ keys # {} /\ owner \in OwnerType /\ relock \in RelockType
  BY <1>1, <1>2 DEF CryptInv, WalletOk, EncryptedOk, OwnerType
<1>4. PICK m : m = Crypt!NewMaster(store)
  OBVIOUS
<1>5. PICK e : e = Crypt!Locked(Crypt!EncryptKeys(Crypt!WithMaster(store, p), m))
  OBVIOUS
<1>6. PICK g : g = Crypt!Committed(store, walletDat, m, p)
  OBVIOUS
<1>7. m \in 1 .. MaxMasters /\ EncryptedOk(e, g, keys, p, m) /\ PlainOk(Crypt!WithMaster(store, p), walletDat, keys)
  BY <1>1, <1>3, <1>4, <1>5, <1>6, CommittedOk
<1>8. CASE ~begins
  <2>1. store' = Crypt!WithMaster(store, p) /\ UNCHANGED <<walletDat, owner>>
    BY <1>8 DEF Crypt!EncryptWallet
  <2> QED
    BY <1>1, <1>2, <1>3, <1>7, <2>1 DEF CryptInv, WalletOk
<1>9. CASE begins
  <2>1. PICK u : u = Crypt!Unlock(e, g, p, FALSE)
    OBVIOUS
  <2>2. /\ store' = Crypt!Locked(Crypt!ToppedStore(u.w, 1))
        /\ walletDat' = Crypt!ToppedFile(u.w, u.f, 1)
        /\ owner' = [Crypt!ToppedOwner(1) EXCEPT !.passphrase = p]
    BY <1>4, <1>5, <1>6, <1>9, <2>1 DEF Crypt!EncryptWallet
  <2>3. EncryptedOk(u.w, u.f, keys, p, m) /\ u.w.master = m
    <3>1. \A a : LET v == Crypt!Unlock(e, g, p, a) IN EncryptedOk(v.w, v.f, keys, p, m) /\ v.w.master = m
      BY <1>3, <1>7, UnlockOk
    <3> QED
      BY <2>1, <3>1
  <2>4. OpenOk(u.w, u.f, owner.keys, p)
    BY <1>2, <1>7, <2>3 DEF OpenOk
  <2>5. PICK o : o = Crypt!ToppedOwner(1)
    OBVIOUS
  <2>6. o \in OwnerType /\ WalletOk(Crypt!ToppedStore(u.w, 1), Crypt!ToppedFile(u.w, u.f, 1), o.keys, p)
    BY <1>1, <2>4, <2>5, ToppedOk
  <2>7. WalletOk(store', walletDat', o.keys, p)
    BY <2>2, <2>6, LockedOk
  <2>8. owner' \in OwnerType /\ owner'.keys = o.keys /\ owner'.passphrase = p
    BY <2>2, <2>5, <2>6 DEF OwnerType
  <2> QED
    BY <1>1, <1>3, <2>7, <2>8 DEF CryptInv
<1> QED
  BY <1>8, <1>9

(* walletpassphrase and the dialog of the GUI *)
LEMMA UnlockKeeps ==
    ASSUME CryptInv, NEW p \in Passphrases, NEW a \in BOOLEAN,
           Crypt!UnlockDialog(p, a) \/ \E n \in {0, 1} : Crypt!WalletPassphrase(p, a, n)
    PROVE  CryptInv'
<1>1. PICK keys, q : keys = owner.keys /\ q = owner.passphrase
  OBVIOUS
<1>2. store.crypto /\ keys # {} /\ owner \in OwnerType /\ relock \in RelockType /\ relock.call = "none"
  BY <1>1 DEF Crypt!UnlockDialog, Crypt!WalletPassphrase, CryptInv, OwnerType
<1>3. PICK id \in 1 .. MaxMasters : EncryptedOk(store, walletDat, keys, q, id)
  BY <1>1, <1>2 DEF CryptInv, WalletOk, PlainOk
<1>4. PICK u : u = Crypt!Unlock(store, walletDat, p, a)
  OBVIOUS
<1>5. EncryptedOk(u.w, u.f, keys, q, id) /\ (u.ok => u.w.master = id)
  BY <1>2, <1>3, <1>4, UnlockOk
<1>6. WalletOk(u.w, u.f, keys, q)
  BY <1>5 DEF WalletOk
<1>7. CASE Crypt!UnlockDialog(p, a)
  <2>1. store' = u.w /\ walletDat' = u.f /\ UNCHANGED <<relock, owner>>
    BY <1>4, <1>7 DEF Crypt!UnlockDialog
  <2> QED
    BY <1>1, <1>2, <1>6, <2>1 DEF CryptInv
<1>8. ASSUME NEW n \in {0, 1}, Crypt!WalletPassphrase(p, a, n) PROVE CryptInv'
  <2>1. CASE ~u.ok
    <3>1. store' = u.w /\ walletDat' = u.f /\ UNCHANGED <<relock, owner>>
      BY <1>4, <1>8, <2>1 DEF Crypt!WalletPassphrase
    <3> QED
      BY <1>1, <1>2, <1>6, <3>1 DEF CryptInv
  <2>2. CASE u.ok
    <3>1. /\ Crypt!MayGenerate(n)
          /\ store' = Crypt!ToppedStore(u.w, n) /\ walletDat' = Crypt!ToppedFile(u.w, u.f, n)
          /\ owner' = Crypt!ToppedOwner(n)
          /\ relock' = [relock EXCEPT !.call = "unlocked"]
      BY <1>4, <1>8, <2>2 DEF Crypt!WalletPassphrase
    <3>2. OpenOk(u.w, u.f, owner.keys, q)
      BY <1>1, <1>5, <2>2 DEF OpenOk
    <3>3. /\ Crypt!ToppedOwner(n) \in OwnerType /\ Crypt!ToppedOwner(n).passphrase = owner.passphrase
          /\ WalletOk(Crypt!ToppedStore(u.w, n), Crypt!ToppedFile(u.w, u.f, n), Crypt!ToppedOwner(n).keys, q)
      BY <1>8, <3>1, <3>2, ToppedOk
    <3>4. relock' \in RelockType /\ relock'.call # "changing"
      BY <1>2, <3>1 DEF RelockType
    <3> QED
      BY <1>1, <3>1, <3>3, <3>4 DEF CryptInv
  <2> QED
    BY <2>1, <2>2
<1> QED
  BY <1>7, <1>8

(* The timer, and every way to lock. *)
LEMMA LockKeeps ==
    ASSUME CryptInv,
           \/ \E timeout \in BOOLEAN : Crypt!SetUnlockTime(timeout)
           \/ Crypt!RPCRunLater \/ Crypt!TimerFires \/ Crypt!LockWallet \/ Crypt!WalletLock \/ Crypt!LockDialog
           \/ \E old, new \in Passphrases, gui \in BOOLEAN : Crypt!BeginChange(old, new, gui)
    PROVE  CryptInv'
<1>1. owner \in OwnerType /\ relock \in RelockType
  BY DEF CryptInv
<1>2. owner' \in OwnerType /\ owner'.keys = owner.keys /\ owner'.passphrase = owner.passphrase
  <2>1. owner' = owner \/ \E b \in BOOLEAN : owner' = [owner EXCEPT !.missed = b]
    <3>1. CASE Crypt!LockWallet
      <4>1. owner' = [owner EXCEPT !.missed = owner.missed \/ relock.call = "changing"]
        BY <3>1 DEF Crypt!LockWallet
      <4> QED
        BY <4>1
    <3>2. CASE ~Crypt!LockWallet
      BY <3>2 DEF Crypt!SetUnlockTime, Crypt!RPCRunLater, Crypt!TimerFires, Crypt!WalletLock, Crypt!LockDialog, Crypt!BeginChange
    <3> QED
      BY <3>1, <3>2
  <2> QED
    BY <1>1, <2>1 DEF OwnerType
<1>3. relock' \in RelockType
  <2>1. CASE \E timeout \in BOOLEAN : Crypt!SetUnlockTime(timeout)
    BY <1>1, <2>1 DEF Crypt!SetUnlockTime, RelockType
  <2>2. CASE Crypt!RPCRunLater \/ Crypt!TimerFires \/ Crypt!LockWallet
    <3>1. PICK t \in BOOLEAN, r \in BOOLEAN, c \in {"none", relock.call} :
            relock' = [timer |-> t, firing |-> r, call |-> c, old |-> relock.old, new |-> relock.new, wasLocked |-> relock.wasLocked]
      BY <1>1, <2>2 DEF Crypt!RPCRunLater, Crypt!TimerFires, Crypt!LockWallet, RelockType
    <3> QED
      BY <1>1, <3>1 DEF RelockType
  <2>3. CASE Crypt!WalletLock \/ Crypt!LockDialog
    BY <1>1, <2>3 DEF Crypt!WalletLock, Crypt!LockDialog
  <2>4. ASSUME NEW old \in Passphrases, NEW new \in Passphrases, NEW gui \in BOOLEAN, Crypt!BeginChange(old, new, gui)
        PROVE  relock' \in RelockType
    <3>1. PICK b \in BOOLEAN : b = (gui \/ Crypt!IsLocked(store))
      OBVIOUS
    <3>2. relock' = [timer |-> relock.timer, firing |-> relock.firing, call |-> "changing", old |-> old, new |-> new, wasLocked |-> b]
      BY <1>1, <2>4, <3>1 DEF Crypt!BeginChange, RelockType
    <3> QED
      BY <1>1, <2>4, <3>2 DEF RelockType
  <2> QED
    BY <2>1, <2>2, <2>3, <2>4
<1>4. WalletOk(store', walletDat', owner.keys, owner.passphrase)
  <2>1. /\ walletDat' = walletDat
        /\ \/ store' = store \/ store' = Crypt!Locked(store)
           \/ \E a : store' = [Crypt!Locked(store) EXCEPT !.anonymizeOnly = a]
    BY DEF Crypt!SetUnlockTime, Crypt!RPCRunLater, Crypt!TimerFires, Crypt!LockWallet, Crypt!WalletLock, Crypt!LockDialog, Crypt!BeginChange
  <2>2. PICK w, f, keys, p : w = store /\ f = walletDat /\ keys = owner.keys /\ p = owner.passphrase
    OBVIOUS
  <2>3. WalletOk(w, f, keys, p)
    BY <2>2 DEF CryptInv
  <2>4. WalletOk(Crypt!Locked(w), f, keys, p) /\ \A a : WalletOk([Crypt!Locked(w) EXCEPT !.anonymizeOnly = a], f, keys, p)
    BY <2>3, LockedOk
  <2>5. CASE store' = store
    BY <2>1, <2>2, <2>3, <2>5
  <2>6. CASE store' = Crypt!Locked(store)
    BY <2>1, <2>2, <2>4, <2>6
  <2>7. ASSUME NEW a, store' = [Crypt!Locked(store) EXCEPT !.anonymizeOnly = a]
        PROVE  WalletOk(store', walletDat', owner.keys, owner.passphrase)
    <3>1. store' = [Crypt!Locked(w) EXCEPT !.anonymizeOnly = a]
      BY <2>2, <2>7
    <3>2. WalletOk([Crypt!Locked(w) EXCEPT !.anonymizeOnly = a], f, keys, p)
      BY <2>4
    <3> QED
      BY <2>1, <2>2, <3>1, <3>2
  <2> QED
    BY <2>1, <2>5, <2>6, <2>7
<1>5. relock'.call = "changing" => store'.master = 0
  <2>1. IsStore(store)
    BY DEF CryptInv, WalletOk, PlainOk, EncryptedOk
  <2>2. Crypt!Locked(store).master = 0 /\ [Crypt!Locked(store) EXCEPT !.anonymizeOnly = FALSE].master = 0
    <3>1. PICK w, v : w = store /\ v = Crypt!Locked(w)
      OBVIOUS
    <3>2. v = [crypto |-> w.crypto, keys |-> w.keys, ckeys |-> w.ckeys, masters |-> w.masters, master |-> 0,
               anonymizeOnly |-> w.anonymizeOnly, seed |-> FALSE]
      BY <2>1, <3>1, LockedIs
    <3>3. v.master = 0 /\ [v EXCEPT !.anonymizeOnly = FALSE].master = 0
      BY <3>2
    <3> QED
      BY <3>1, <3>3
  <2>3. CASE \E timeout \in BOOLEAN : Crypt!SetUnlockTime(timeout)
    BY <1>1, <2>3 DEF Crypt!SetUnlockTime, RelockType
  <2>4. CASE Crypt!RPCRunLater \/ Crypt!TimerFires
    BY <1>1, <2>4 DEF Crypt!RPCRunLater, Crypt!TimerFires, RelockType, CryptInv
  <2>5. CASE Crypt!LockWallet \/ Crypt!WalletLock \/ Crypt!LockDialog
    BY <2>2, <2>5 DEF Crypt!LockWallet, Crypt!WalletLock, Crypt!LockDialog
  <2>6. CASE \E old, new \in Passphrases, gui \in BOOLEAN : Crypt!BeginChange(old, new, gui)
    BY <2>2, <2>6 DEF Crypt!BeginChange
  <2> QED
    BY <2>3, <2>4, <2>5, <2>6
<1> QED
  BY <1>2, <1>3, <1>4, <1>5 DEF CryptInv

(* walletpassphrasechange writes the master key that opens the wallet under  *)
(* the new passphrase, in memory and in the file.                            *)
LEMMA ChangeKeeps == ASSUME CryptInv, Crypt!ChangeWalletPassphrase PROVE CryptInv'
<1> DEFINE ids == {i \in DOMAIN store.masters : \A j \in DOMAIN store.masters : j <= i => store.masters[j] = relock.old}
           opening == {i \in ids : Crypt!UnlockStore(store, walletDat, i).ok}
           unreadable == {i \in ids \ opening : Crypt!UnlockStore(store, walletDat, i).w.master # Crypt!NoKey}
           c == CHOOSE i \in opening \cup unreadable : TRUE
           r == Crypt!UnlockStore(store, walletDat, c)
           changed == [r.w EXCEPT !.masters = Crypt!Put(r.w.masters, c, relock.new)]
<1>1. relock' = [relock EXCEPT !.call = "none"] /\ relock.call = "changing"
  BY DEF Crypt!ChangeWalletPassphrase
<1>2. /\ opening # {} => /\ store' = IF relock.wasLocked THEN Crypt!Locked(changed) ELSE changed
                         /\ walletDat' = [r.f EXCEPT !.mkey = Crypt!Put(r.f.mkey, c, relock.new)]
                         /\ owner' = [owner EXCEPT !.passphrase = relock.new]
      /\ opening = {} /\ unreadable # {} => store' = r.w /\ UNCHANGED <<walletDat, owner>>
      /\ opening = {} /\ unreadable = {} => UNCHANGED <<store, walletDat, owner>>
  BY DEF Crypt!ChangeWalletPassphrase
<1>3. owner \in OwnerType /\ relock \in RelockType /\ relock' \in RelockType /\ relock'.call # "changing"
  BY <1>1 DEF CryptInv, RelockType
<1>4. CASE opening = {} /\ unreadable = {}
  BY <1>2, <1>3, <1>4 DEF CryptInv
<1>5. CASE opening # {} \/ unreadable # {}
  <2>1. c \in opening \cup unreadable
    BY <1>5
  <2>2. PICK keys, p, w, f : keys = owner.keys /\ p = owner.passphrase /\ w = store /\ f = walletDat
    OBVIOUS
  <2>3. keys # {} /\ WalletOk(w, f, keys, p)
    BY <1>3, <2>2 DEF CryptInv, OwnerType
  <2>4. Crypt!UnlockStore(w, f, c) = r
    BY <2>2
  <2> HIDE DEF r, c
  <2>5. r.ok \/ r.w.master # 0
    BY <2>1 DEF r, Crypt!NoKey
  <2>6. PICK id \in 1 .. MaxMasters : EncryptedOk(w, f, keys, p, id)
    <3>1. CASE PlainOk(w, f, keys)
      <4>1. r = [ok |-> FALSE, w |-> w, f |-> f]
        BY <2>4, <3>1 DEF Crypt!UnlockStore, PlainOk
      <4> QED
        BY <2>5, <3>1, <4>1 DEF PlainOk
    <3> QED
      BY <2>3, <3>1 DEF WalletOk
  <2>7. w.master = 0
    BY <1>1, <2>2 DEF CryptInv
  <2>8. c = id
    <3>1. c # id => r = [ok |-> FALSE, w |-> w, f |-> f]
      BY <2>3, <2>4, <2>6, UnlockStoreOk
    <3> QED
      BY <2>5, <2>7, <3>1
  <2>9. EncryptedOk(r.w, r.f, keys, p, id)
    BY <2>3, <2>4, <2>6, <2>8, UnlockStoreOk
  <2>10. CASE opening = {}
    <3>1. store' = r.w /\ walletDat' = f /\ owner' = owner
      BY <1>2, <1>5, <2>2, <2>10
    <3>2. r.f = f
      <4>1. ~r.ok
        BY <2>1, <2>10 DEF r
      <4> QED
        BY <2>4, <4>1 DEF Crypt!UnlockStore
    <3> QED
      BY <1>3, <2>2, <2>6, <2>9, <3>1, <3>2 DEF CryptInv, WalletOk
  <2>11. CASE opening # {}
    <3>1. PICK new : new = relock.new
      OBVIOUS
    <3>2. PICK v : v = [r.w EXCEPT !.masters = Crypt!Put(r.w.masters, c, relock.new)]
      OBVIOUS
    <3>3. PICK ms : ms = Crypt!Put(r.w.masters, id, new)
      OBVIOUS
    <3>4. PICK mk : mk = Crypt!Put(r.f.mkey, id, new)
      OBVIOUS
    <3>5. DOMAIN ms = DOMAIN r.w.masters /\ ms[id] = new /\ DOMAIN mk = {id} /\ mk[id] = new
      BY <2>9, <3>3, <3>4 DEF EncryptedOk, Crypt!Put
    <3>6. v = [crypto |-> r.w.crypto, keys |-> r.w.keys, ckeys |-> r.w.ckeys, masters |-> ms, master |-> r.w.master,
               anonymizeOnly |-> r.w.anonymizeOnly, seed |-> r.w.seed]
      BY <2>8, <2>9, <3>1, <3>2, <3>3 DEF EncryptedOk, IsStore
    <3>7. PICK g : g = [r.f EXCEPT !.mkey = Crypt!Put(r.f.mkey, c, relock.new)]
      OBVIOUS
    <3>8. g = [key |-> r.f.key, ckey |-> r.f.ckey, mkey |-> mk, seedhash |-> r.f.seedhash, dzs |-> r.f.dzs]
      BY <2>8, <2>9, <3>1, <3>4, <3>7 DEF EncryptedOk, IsFile
    <3>9. IsStore(v) /\ IsFile(g)
      BY <2>9, <3>6, <3>8 DEF EncryptedOk, IsStore, IsFile
    <3>10. EncryptedOk(v, g, keys, new, id)
      BY <2>9, <3>5, <3>6, <3>8, <3>9 DEF EncryptedOk
    <3>11. WalletOk(v, g, keys, new) /\ WalletOk(Crypt!Locked(v), g, keys, new)
      BY <2>6, <3>10, LockedOk DEF WalletOk
    <3>12. /\ store' = IF relock.wasLocked THEN Crypt!Locked(v) ELSE v
           /\ walletDat' = g /\ owner' = [owner EXCEPT !.passphrase = new]
      BY <1>2, <2>11, <3>1, <3>2, <3>7
    <3>13. new \in Passphrases
      BY <1>3, <3>1 DEF RelockType
    <3>14. owner' \in OwnerType /\ owner'.keys = keys /\ owner'.passphrase = new
      BY <1>3, <2>2, <3>12, <3>13 DEF OwnerType
    <3> QED
      BY <1>3, <3>11, <3>12, <3>14 DEF CryptInv
  <2> QED
    BY <2>10, <2>11
<1> QED
  BY <1>4, <1>5

(* The program starts with the file f, which goes with some memory. *)
LEMMA StartKeeps ==
    ASSUME CryptInv, NEW w, NEW f, NEW p \in Passphrases, WalletOk(w, f, owner.keys, p), Crypt!StartWith(f),
           owner' \in OwnerType, owner'.keys = owner.keys, owner'.passphrase = p
    PROVE  CryptInv'
<1>1. PICK keys : keys = owner.keys
  OBVIOUS
<1>2. keys # {} /\ relock \in RelockType
  BY <1>1 DEF CryptInv, OwnerType
<1>3. /\ store' = Crypt!Loaded(f)
      /\ walletDat' = IF Crypt!Loaded(f).seed THEN Crypt!AddDeterministicSeed(Crypt!Loaded(f), f) ELSE f
      /\ relock' = [relock EXCEPT !.timer = FALSE, !.firing = FALSE, !.call = "none"]
  BY DEF Crypt!StartWith
<1>4. WalletOk(store', walletDat', keys, p)
  <2>1. WalletOk(w, f, keys, p)
    BY <1>1
  <2> QED
    BY <1>2, <1>3, <2>1, LoadedOk
<1>5. relock' = [timer |-> FALSE, firing |-> FALSE, call |-> "none", old |-> relock.old, new |-> relock.new, wasLocked |-> relock.wasLocked]
  BY <1>2, <1>3 DEF RelockType
<1>6. relock' \in RelockType /\ relock'.call # "changing"
  BY <1>2, <1>5 DEF RelockType
<1> QED
  BY <1>1, <1>4, <1>6 DEF CryptInv

(* Every end of the program leaves a file that the next start can load. *)
LEMMA RestartKeeps ==
    ASSUME CryptInv,
           \/ Crypt!Restart \/ Crypt!CrashInWriteSeed
           \/ \E p \in Passphrases, committed \in BOOLEAN : Crypt!CrashInEncryptWallet(p, committed)
    PROVE  CryptInv'
<1>1. owner \in OwnerType /\ relock \in RelockType /\ WalletOk(store, walletDat, owner.keys, owner.passphrase)
  BY DEF CryptInv
<1>2. ASSUME owner.starts < MaxStarts, NEW q \in Passphrases,
             owner' = [passphrase |-> q, keys |-> owner.keys, starts |-> owner.starts + 1, missed |-> owner.missed]
      PROVE  owner' \in OwnerType /\ owner'.keys = owner.keys /\ owner'.passphrase = q
  <2>1. owner.starts + 1 \in 0 .. MaxStarts
    BY <1>1, <1>2, CryptConstants DEF OwnerType
  <2> QED
    BY <1>1, <1>2, <2>1 DEF OwnerType
<1>3. CASE Crypt!Restart
  <2>1. Crypt!StartWith(walletDat) /\ owner.starts < MaxStarts
    BY <1>3 DEF Crypt!Restart, Crypt!StartWith
  <2>2. owner' = [passphrase |-> owner.passphrase, keys |-> owner.keys, starts |-> owner.starts + 1, missed |-> owner.missed]
    BY <1>1, <1>3 DEF Crypt!Restart, OwnerType
  <2>3. owner.passphrase \in Passphrases
    BY <1>1 DEF OwnerType
  <2> QED
    BY <1>1, <1>2, <2>1, <2>2, <2>3, StartKeeps
<1>4. CASE Crypt!CrashInWriteSeed
  <2>1. PICK g : g = [walletDat EXCEPT !.seedhash = TRUE]
    OBVIOUS
  <2>2. Crypt!StartWith(g) /\ owner.starts < MaxStarts
    BY <1>4, <2>1 DEF Crypt!CrashInWriteSeed, Crypt!StartWith
  <2>3. owner' = [passphrase |-> owner.passphrase, keys |-> owner.keys, starts |-> owner.starts + 1, missed |-> owner.missed]
    BY <1>1, <1>4 DEF Crypt!CrashInWriteSeed, OwnerType
  <2>4. owner.passphrase \in Passphrases
    BY <1>1 DEF OwnerType
  <2>5. IsFile(walletDat)
    BY <1>1 DEF WalletOk, PlainOk, EncryptedOk
  <2>6. g = [key |-> walletDat.key, ckey |-> walletDat.ckey, mkey |-> walletDat.mkey, seedhash |-> TRUE, dzs |-> walletDat.dzs]
    BY <2>1, <2>5 DEF IsFile
  <2>7. IsFile(g)
    BY <2>5, <2>6 DEF IsFile
  <2>8. WalletOk(store, g, owner.keys, owner.passphrase)
    BY <1>1, <2>6, <2>7 DEF WalletOk, PlainOk, EncryptedOk
  <2> QED
    BY <1>2, <2>2, <2>3, <2>4, <2>8, StartKeeps
<1>5. ASSUME NEW p \in Passphrases, NEW committed \in BOOLEAN, Crypt!CrashInEncryptWallet(p, committed) PROVE CryptInv'
  <2>1. PICK q : q = IF committed THEN p ELSE owner.passphrase
    OBVIOUS
  <2>2. q \in Passphrases
    BY <1>1, <1>5, <2>1 DEF OwnerType
  <2>3. PICK m : m = Crypt!NewMaster(store)
    OBVIOUS
  <2>4. PICK f : f = IF committed THEN Crypt!Committed(store, walletDat, m, p) ELSE walletDat
    OBVIOUS
  <2>5. ~store.crypto /\ m <= MaxMasters /\ Crypt!StartWith(f) /\ owner.starts < MaxStarts
    BY <1>5, <2>3, <2>4 DEF Crypt!CrashInEncryptWallet, Crypt!StartWith
  <2>6. owner' = [passphrase |-> q, keys |-> owner.keys, starts |-> owner.starts + 1, missed |-> owner.missed]
    <3>1. PICK o : o = [owner EXCEPT !.starts = owner.starts + 1]
      OBVIOUS
    <3>2. o = [passphrase |-> owner.passphrase, keys |-> owner.keys, starts |-> owner.starts + 1, missed |-> owner.missed]
      BY <1>1, <3>1 DEF OwnerType
    <3>3. owner' = [o EXCEPT !.passphrase = q]
      BY <1>1, <1>5, <2>1, <3>1, <3>2 DEF Crypt!CrashInEncryptWallet, OwnerType
    <3> QED
      BY <3>2, <3>3
  <2>7. \E w : WalletOk(w, f, owner.keys, q)
    <3>1. CASE ~committed
      BY <1>1, <2>1, <2>4, <3>1
    <3>2. CASE committed
      <4>1. PICK keys : keys = owner.keys
        OBVIOUS
      <4>2. PlainOk(store, walletDat, keys)
        BY <1>1, <2>5, <4>1 DEF WalletOk, EncryptedOk
      <4>3. PICK e : e = Crypt!Locked(Crypt!EncryptKeys(Crypt!WithMaster(store, p), m))
        OBVIOUS
      <4>4. m \in 1 .. MaxMasters /\ EncryptedOk(e, f, keys, p, m)
        BY <2>3, <2>4, <2>5, <3>2, <4>2, <4>3, CommittedOk
      <4>5. WalletOk(e, f, keys, p)
        BY <4>4 DEF WalletOk
      <4> QED
        BY <2>1, <3>2, <4>1, <4>5
    <3> QED
      BY <3>1, <3>2
  <2> QED
    BY <1>2, <2>2, <2>5, <2>6, <2>7, StartKeeps
<1> QED
  BY <1>3, <1>4, <1>5

(* Every step of the wallet keeps the invariant. *)
LEMMA CryptInvStep == CryptInv /\ [Crypt!Next]_cryptoVars => CryptInv'
<1> SUFFICES ASSUME CryptInv, [Crypt!Next]_cryptoVars PROVE CryptInv'
  OBVIOUS
<1>1. CASE Crypt!GenerateNewKey
  BY <1>1, GenerateNewKeyKeeps
<1>2. CASE \E p \in Passphrases, begins \in BOOLEAN : Crypt!EncryptWallet(p, begins)
  BY <1>2, EncryptWalletKeeps
<1>3. CASE \E p \in Passphrases, a \in BOOLEAN : Crypt!UnlockDialog(p, a) \/ \E n \in {0, 1} : Crypt!WalletPassphrase(p, a, n)
  BY <1>3, UnlockKeeps
<1>4. CASE \/ \E timeout \in BOOLEAN : Crypt!SetUnlockTime(timeout)
           \/ Crypt!RPCRunLater \/ Crypt!TimerFires \/ Crypt!LockWallet \/ Crypt!WalletLock \/ Crypt!LockDialog
           \/ \E old, new \in Passphrases, gui \in BOOLEAN : Crypt!BeginChange(old, new, gui)
  BY <1>4, LockKeeps
<1>5. CASE Crypt!ChangeWalletPassphrase
  BY <1>5, ChangeKeeps
<1>6. CASE \/ Crypt!Restart \/ Crypt!CrashInWriteSeed
           \/ \E p \in Passphrases, committed \in BOOLEAN : Crypt!CrashInEncryptWallet(p, committed)
  BY <1>6, RestartKeeps
<1>7. CASE UNCHANGED cryptoVars
  BY <1>7 DEF cryptoVars, CryptInv
<1> QED
  BY <1>1, <1>2, <1>3, <1>4, <1>5, <1>6, <1>7 DEF Crypt!Next

(* For every number of keys, of failed and repeated encryptions, of starts   *)
(* and of passphrases: whenever the process ends, in the middle of           *)
(* EncryptWallet or of WriteZANKSeed too, wallet.dat gives back every key    *)
(* that was ever generated, with the passphrase the owner was told of; that  *)
(* passphrase opens the wallet at any time, whatever the timer does while it *)
(* is changed; and neither keys nor, once it has been open, the seed are     *)
(* left in the plain (wallet.cpp, crypter.cpp, walletdb.cpp, rpcwallet.cpp). *)
THEOREM WalletCorrect == Crypt!Spec => []WalletIsProtected
<1>1. Crypt!Init => CryptInv
  BY CryptInvInit
<1>2. CryptInv /\ [Crypt!Next]_cryptoVars => CryptInv'
  BY CryptInvStep
<1>3. CryptInv => WalletIsProtected
  BY CryptInvImplies
<1> QED
  BY <1>1, <1>2, <1>3, PTL DEF Crypt!Spec, cryptoVars, Crypt!cryptoVars


-----------------------------------------------------------------------------
(* All of them side by side, as the run has them *)

ThreadsInv == CheckInv /\ SchedInv /\ HttpInv /\ PeersInv /\ CryptInv

(* A step of one part is a step of that part or of none for every part. *)
LEMMA PartsStep ==
    [MCNext]_MCVars =>
        [Next]_checkVars /\ [Sched!Next]_schedulerVars /\ [Http!Next]_workVars /\ [Net!Next]_peerVars /\ [Crypt!Next]_cryptoVars
BY DEF MCNext, MCVars, ChecksOnly, TasksOnly, HttpOnly, AcceptedOnly, OpenedOnly, PeersOnly, WalletOnly

(* What the run checks of all five, for every number of threads, checks,     *)
(* tasks, requests, nodes, keys and starts.                                  *)
THEOREM ThreadsCorrect == MCSpec => [](ChecksAreSound /\ ServicesAreSafe /\ NodesAreAlive /\ WalletIsProtected)
<1>1. MCInit => ThreadsInv
  BY CheckInvInit, SchedInvInit, HttpInvInit, PeersInvInit, CryptInvInit DEF MCInit, ThreadsInv
<1>2. ThreadsInv /\ [MCNext]_MCVars => ThreadsInv'
  BY PartsStep, CheckInvStep, SchedInvStep, HttpInvStep, PeersInvStep, CryptInvStep DEF ThreadsInv
<1>3. ThreadsInv => ChecksAreSound /\ ServicesAreSafe /\ NodesAreAlive /\ WalletIsProtected
  BY CheckInvImplies, SchedInvImplies, HttpInvImplies, PeersInvImplies, CryptInvImplies DEF ThreadsInv, ServicesAreSafe
<1> QED
  BY <1>1, <1>2, <1>3, PTL DEF MCSpec
==============================================================================
