------------------------------ MODULE CheckQueue -----------------------------
(***************************************************************************)
(* CCheckQueue of checkqueue.h: the thread that connects a block (the      *)
(* master) hands out script checks to worker threads, helps them, and      *)
(* returns the conjunction of the results.                                 *)
(*                                                                         *)
(* A step is one critical section of the queue's mutex.  A batch is        *)
(* evaluated outside of it by its owner alone, and what it gives is looked *)
(* at only in the owner's next critical section, so the evaluation is part *)
(* of that step.  The queue is a set: "As the order of booleans doesn't    *)
(* matter".  fQuit is never set and is left out.                           *)
(*                                                                         *)
(* Waiting on a condition variable may end without a notification, and at  *)
(* shutdown it ends with boost::thread_interrupted: a worker is then gone  *)
(* for good, and the master's exception runs ~CCheckQueueControl, which    *)
(* waits again.                                                            *)
(***************************************************************************)
EXTENDS Integers, FiniteSets

CONSTANTS
    Checks,         \* script checks
    Workers,        \* the threads of ThreadScriptCheck
    Master,         \* whichever thread holds cs_main and connects a block
    BatchSize       \* nBatchSize

ASSUME CheckQueueAssumption ==
    /\ IsFiniteSet(Checks)
    /\ IsFiniteSet(Workers)
    /\ Master \notin Workers
    /\ BatchSize \in Nat \ {0}

Loopers == Workers \cup {Master}

VARIABLES
    queue,      \* checks not yet taken
    batch,      \* vChecks of each thread
    batchOk,    \* fOk of each thread when it took its batch; TRUE when it has none
    nTodo,
    nIdle,
    nTotal,
    fAllOk,
    at,         \* where a thread is: before Loop, waiting, notified, working, outside, gone
    added,      \* history: the checks of this block that were added so far
    failing,    \* the checks of this block that return false
    result,     \* what the last Wait returned
    uninterrupted   \* the threads the shutdown has not interrupted yet

checkVars == <<queue, batch, batchOk, nTodo, nIdle, nTotal, fAllOk, at, added, failing, result, uninterrupted>>

TypeOK ==
    /\ queue \in SUBSET Checks
    /\ batch \in [Loopers -> SUBSET Checks]
    /\ batchOk \in [Loopers -> BOOLEAN]
    /\ nTodo \in Nat
    /\ nIdle \in Nat
    /\ nTotal \in Nat
    /\ fAllOk \in BOOLEAN
    /\ at \in [Loopers -> {"starting", "waiting", "notified", "working", "adding", "out", "gone"}]
    /\ added \in SUBSET Checks
    /\ failing \in SUBSET Checks
    /\ result \in BOOLEAN
    /\ uninterrupted \in SUBSET Loopers

Init ==
    /\ queue = {}
    /\ batch = [t \in Loopers |-> {}]
    /\ batchOk = [t \in Loopers |-> TRUE]
    /\ nTodo = 0
    /\ nIdle = 0
    /\ nTotal = 0
    /\ fAllOk = TRUE
    /\ at = [t \in Loopers |-> IF t = Master THEN "out" ELSE "starting"]
    /\ added = {}
    /\ failing = {}
    /\ result = TRUE
    /\ uninterrupted = Loopers

-----------------------------------------------------------------------------
(* The head of a critical section of Loop: the clean-up of the previous run. *)

(* Mutant: the result of a batch replaces what the others found. *)
OkAfterOverwritten(t) == IF at[t] = "working" THEN batchOk[t] /\ batch[t] \cap failing = {} ELSE fAllOk

(* fAllOk &= fOk; a batch is not evaluated when fAllOk was already false. *)
OkAfter(t) == fAllOk /\ (at[t] = "working" => batchOk[t] /\ batch[t] \cap failing = {})

TodoAfter(t) == IF at[t] = "working" THEN nTodo - Cardinality(batch[t]) ELSE nTodo

TotalAfter(t) == IF at[t] = "starting" THEN nTotal + 1 ELSE nTotal

IdleAfter(t) == IF at[t] = "notified" THEN nIdle - 1 ELSE nIdle

(* Mutant: the last worker does not wake the master. *)
AtUnwoken(t, where) == [at EXCEPT ![t] = where]

(* Thread t goes on to where; if it is a worker that has just finished the   *)
(* last check it notifies condMaster.                                        *)
AtAfter(t, where) ==
    [u \in Loopers |->
        IF u = t THEN where
        ELSE IF u = Master /\ at[t] = "working" /\ TodoAfter(t) = 0 /\ at[u] = "waiting" THEN "notified"
        ELSE at[u]]

(* The number of checks to take from a queue of that length. *)
BatchLength(length, total, idle) ==
    LET share == length \div (total + idle + 1)
        most  == IF share < BatchSize THEN share ELSE BatchSize
    IN  IF most < 1 THEN 1 ELSE most

MayLoop(t) == at[t] \in {"starting", "notified", "working"}

-----------------------------------------------------------------------------
(* The queue is empty and checks are still being worked on, or t is a worker. *)
Sleep(t) ==
    /\ MayLoop(t)
    /\ queue = {}
    /\ t # Master \/ TodoAfter(t) # 0
    /\ fAllOk' = OkAfter(t)
    /\ nTodo' = TodoAfter(t)
    /\ nTotal' = TotalAfter(t)
    /\ nIdle' = IdleAfter(t) + 1
    /\ batch' = [batch EXCEPT ![t] = {}]
    /\ batchOk' = [batchOk EXCEPT ![t] = TRUE]
    /\ at' = AtAfter(t, "waiting")
    /\ UNCHANGED <<queue, added, failing, result, uninterrupted>>

(* There are checks in the queue: t takes some. *)
Take(t) ==
    /\ MayLoop(t)
    /\ \E taken \in SUBSET queue :
          /\ queue # {}
          /\ Cardinality(taken) = BatchLength(Cardinality(queue), TotalAfter(t), IdleAfter(t))
          /\ batch' = [batch EXCEPT ![t] = taken]
          /\ queue' = queue \ taken
    /\ fAllOk' = OkAfter(t)
    /\ nTodo' = TodoAfter(t)
    /\ nTotal' = TotalAfter(t)
    /\ nIdle' = IdleAfter(t)
    /\ batchOk' = [batchOk EXCEPT ![t] = OkAfter(t)]
    /\ at' = AtAfter(t, "working")
    /\ UNCHANGED <<added, failing, result, uninterrupted>>

(* Everything is done: the master takes the result and resets the status. *)
Return ==
    /\ MayLoop(Master)
    /\ queue = {}
    /\ TodoAfter(Master) = 0
    /\ result' = OkAfter(Master)
    /\ fAllOk' = TRUE
    /\ nTodo' = 0
    /\ nTotal' = TotalAfter(Master) - 1
    /\ nIdle' = IdleAfter(Master)
    /\ batch' = [batch EXCEPT ![Master] = {}]
    /\ batchOk' = [batchOk EXCEPT ![Master] = TRUE]
    /\ at' = [at EXCEPT ![Master] = "out"]
    /\ UNCHANGED <<queue, added, failing, uninterrupted>>

(* CCheckQueueControl control(&scriptcheckqueue) in ConnectBlock.  That it   *)
(* asserts IsIdle is the property UnusedIsIdle.                              *)
NewControl ==
    /\ at[Master] = "out"
    /\ at' = [at EXCEPT ![Master] = "adding"]
    /\ added' = {}
    /\ failing' = {}
    /\ UNCHANGED <<queue, batch, batchOk, nTodo, nIdle, nTotal, fAllOk, result, uninterrupted>>

(* The checks of one transaction: one waiting worker is notified of a single *)
(* check, all of them of more.  Those in bad will return false.              *)
Add(new, bad) ==
    /\ at[Master] = "adding"
    /\ new # {}
    /\ new \cap added = {}
    /\ queue' = queue \cup new
    /\ nTodo' = nTodo + Cardinality(new)
    /\ added' = added \cup new
    /\ failing' = failing \cup bad
    /\ LET waiting == {w \in Workers : at[w] = "waiting"}
           Notify(some) == at' = [t \in Loopers |-> IF t \in some THEN "notified" ELSE at[t]]
       IN  IF Cardinality(new) = 1 /\ waiting # {} THEN \E w \in waiting : Notify({w}) ELSE Notify(waiting)
    /\ UNCHANGED <<batch, batchOk, nIdle, nTotal, fAllOk, result, uninterrupted>>

(* control.Wait(), or its destructor when the block turned out to be bad. *)
Wait ==
    /\ at[Master] = "adding"
    /\ at' = [at EXCEPT ![Master] = "starting"]
    /\ UNCHANGED <<queue, batch, batchOk, nTodo, nIdle, nTotal, fAllOk, added, failing, result, uninterrupted>>

(* A condition variable may wake a thread for no reason. *)
SpuriousWake(t) ==
    /\ at[t] = "waiting"
    /\ at' = [at EXCEPT ![t] = "notified"]
    /\ UNCHANGED <<queue, batch, batchOk, nTodo, nIdle, nTotal, fAllOk, added, failing, result, uninterrupted>>

(* The wait throws: neither nIdle nor nTotal is counted back.  *)
Interrupt(t) ==
    /\ t \in uninterrupted
    /\ at[t] \in {"waiting", "notified"}
    /\ uninterrupted' = uninterrupted \ {t}
    /\ at' = [at EXCEPT ![t] = IF t = Master THEN "starting" ELSE "gone"]
    /\ UNCHANGED <<queue, batch, batchOk, nTodo, nIdle, nTotal, fAllOk, added, failing, result>>

Next ==
    \/ \E t \in Loopers : Sleep(t)
    \/ \E t \in Loopers : Take(t)
    \/ Return
    \/ NewControl
    \/ \E new \in SUBSET Checks : \E bad \in SUBSET new : Add(new, bad)
    \/ Wait
    \/ \E t \in Loopers : SpuriousWake(t)
    \/ \E t \in Loopers : Interrupt(t)

(* A thread that may run gets the mutex in the end; nobody has to add checks *)
(* or to wake a thread without a notification.                               *)
Fairness ==
    /\ WF_checkVars(Return)
    /\ \A t \in Loopers : WF_checkVars(Sleep(t) \/ Take(t))

Spec == Init /\ [][Next]_checkVars

FairSpec == Spec /\ Fairness

-----------------------------------------------------------------------------
(* Properties *)

(* checkqueue.h on nTodo: "Number of verifications that haven't completed    *)
(* yet.  This includes elements that are not anymore in queue, but still in  *)
(* worker's own batches."  No check is in two places.                        *)
TodoIsExact ==
    /\ \A t \in Loopers : batch[t] \cap queue = {}
    /\ \A t, u \in Loopers : t # u => batch[t] \cap batch[u] = {}
    /\ nTodo = Cardinality(queue \cup UNION {batch[t] : t \in Loopers})

(* What Wait returns is the conjunction of the checks that were added since  *)
(* the control was made: all of them have been looked at or skipped for a    *)
(* failed one, no result of another block is mixed in.                       *)
ResultIsOfThisBlock == at[Master] = "out" => result = (failing = {})

(* assert(isIdle) of CCheckQueueControl: between two blocks the queue is     *)
(* unused, also when workers start late or were interrupted.                 *)
UnusedIsIdle == at[Master] = "out" => nTotal = nIdle /\ nTodo = 0 /\ fAllOk

(* Every check of a block is looked at once, its result is part of what this *)
(* block gets and of nothing else, and the next block finds the queue        *)
(* unused.                                                                   *)
ChecksAreSound == TypeOK /\ TodoIsExact /\ ResultIsOfThisBlock /\ UnusedIsIdle

(* Wait returns, whoever takes the last batch and whoever is interrupted.    *)
WaitReturns == at[Master] = "starting" ~> at[Master] = "out"
==============================================================================
