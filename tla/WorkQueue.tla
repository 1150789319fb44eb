------------------------------- MODULE WorkQueue -----------------------------
(***************************************************************************)
(* The work queue of the HTTP server (httpserver.cpp): the event thread    *)
(* hands requests to detached worker threads through a bounded queue, and  *)
(* StopHTTPServer waits for the workers and deletes the queue.             *)
(*                                                                         *)
(* A step is one critical section of cs, or the run of a request by the    *)
(* worker that owns it.  One condition variable serves the workers and     *)
(* WaitExit.  A thread counts itself only when it has begun to run.        *)
(***************************************************************************)
EXTENDS Naturals, FiniteSets, Sequences

CONSTANTS
    Requests,       \* HTTP requests
    HttpThreads,    \* the threads StartHTTPServer creates
    MaxDepth        \* maxDepth

WorkQueueAssumption ==
    /\ MaxDepth \in Nat \ {0}
    /\ IsFiniteSet(HttpThreads)
    /\ Requests \cap {"created", "ready", "waiting", "leaving", "left"} = {}

VARIABLES
    work,           \* queue
    running,
    numThreads,
    worker,         \* created, ready, waiting, a request, leaving, left
    request,        \* request -> new, arrived, queued, running, answered
    stopper         \* the thread that stops the server: no, interrupted, waiting, deleted

workVars == <<work, running, numThreads, worker, request, stopper>>

TypeOK ==
    /\ work \in Seq(Requests) /\ Len(work) <= MaxDepth
    /\ running \in BOOLEAN
    /\ numThreads \in 0..Cardinality(HttpThreads)
    /\ worker \in [HttpThreads -> Requests \cup {"created", "ready", "waiting", "leaving", "left"}]
    /\ request \in [Requests -> {"new", "arrived", "queued", "running", "answered"}]
    /\ stopper \in {"no", "interrupted", "waiting", "deleted"}

Init ==
    /\ work = << >>
    /\ running = TRUE
    /\ numThreads = 0
    /\ worker = [t \in HttpThreads |-> "created"]
    /\ request = [r \in Requests |-> "new"]
    /\ stopper = "no"

Alive == stopper # "deleted"

(* Workers and stopper after cond.notify_all(). *)
AllWoken(workers) == [t \in HttpThreads |-> IF workers[t] = "waiting" THEN "ready" ELSE workers[t]]

StopperWoken == IF stopper = "waiting" THEN "interrupted" ELSE stopper

-----------------------------------------------------------------------------
(* The event thread enters http_request_cb; after InterruptHTTPServer it     *)
(* rejects instead.  Requests are handled one by one.                        *)
Arrive(r) ==
    /\ stopper = "no"
    /\ request[r] = "new"
    /\ \A q \in Requests : request[q] # "arrived"
    /\ request' = [request EXCEPT ![r] = "arrived"]
    /\ UNCHANGED <<work, running, numThreads, worker, stopper>>

(* Enqueue, or an error reply when the queue is full.  The notification goes *)
(* to any one thread that waits on cond.                                     *)
Enqueue(r) ==
    /\ Alive
    /\ request[r] = "arrived"
    /\ IF Len(work) >= MaxDepth
       THEN /\ request' = [request EXCEPT ![r] = "answered"]
            /\ UNCHANGED <<work, worker, stopper>>
       ELSE /\ request' = [request EXCEPT ![r] = "queued"]
            /\ work' = Append(work, r)
            /\ \/ \E t \in HttpThreads :
                     /\ worker[t] = "waiting"
                     /\ worker' = [worker EXCEPT ![t] = "ready"]
                     /\ UNCHANGED stopper
               \/ /\ stopper = "waiting"
                  /\ stopper' = StopperWoken
                  /\ UNCHANGED worker
               \/ /\ stopper # "waiting"
                  /\ \A t \in HttpThreads : worker[t] # "waiting"
                  /\ UNCHANGED <<worker, stopper>>
    /\ UNCHANGED <<running, numThreads>>

(* The ThreadCounter of Run is constructed. *)
Count(t) ==
    /\ Alive
    /\ worker[t] = "created"
    /\ worker' = [worker EXCEPT ![t] = "ready"]
    /\ numThreads' = numThreads + 1
    /\ UNCHANGED <<work, running, request, stopper>>

(* One round of Run, up to the wait, the unlock with an item, or the break. *)
Fetch(t) ==
    /\ worker[t] = "ready"
    /\ IF ~running
       THEN worker' = [worker EXCEPT ![t] = "leaving"] /\ UNCHANGED <<work, request>>
       ELSE IF work = << >>
       THEN worker' = [worker EXCEPT ![t] = "waiting"] /\ UNCHANGED <<work, request>>
       ELSE /\ worker' = [worker EXCEPT ![t] = Head(work)]
            /\ request' = [request EXCEPT ![Head(work)] = "running"]
            /\ work' = Tail(work)
    /\ UNCHANGED <<running, numThreads, stopper>>

(* The item is run, with the lock free, and deleted. *)
Execute(t) ==
    /\ worker[t] \in Requests
    /\ request' = [request EXCEPT ![worker[t]] = "answered"]
    /\ worker' = [worker EXCEPT ![t] = "ready"]
    /\ UNCHANGED <<work, running, numThreads, stopper>>

(* ~ThreadCounter. *)
Uncount(t) ==
    /\ worker[t] = "leaving"
    /\ numThreads' = numThreads - 1
    /\ worker' = AllWoken([worker EXCEPT ![t] = "left"])
    /\ stopper' = StopperWoken
    /\ UNCHANGED <<work, running, request>>

(* InterruptHTTPServer. *)
InterruptQueue ==
    /\ stopper = "no"
    /\ running' = FALSE
    /\ worker' = AllWoken(worker)
    /\ stopper' = "interrupted"
    /\ UNCHANGED <<work, numThreads, request>>

(* WaitExit of StopHTTPServer: wait while threads are counted, else delete   *)
(* the queue; the requests left in it get an error from ~HTTPRequest.        *)
WaitExit ==
    /\ stopper = "interrupted"
    /\ IF numThreads > 0
       THEN stopper' = "waiting" /\ UNCHANGED <<work, request>>
       ELSE /\ stopper' = "deleted"
            /\ work' = << >>
            /\ request' = [r \in Requests |-> IF request[r] = "queued" THEN "answered" ELSE request[r]]
    /\ UNCHANGED <<running, numThreads, worker>>

WorkerStep(t) == Count(t) \/ Fetch(t) \/ Execute(t) \/ Uncount(t)

Next ==
    \/ \E r \in Requests : Arrive(r)
    \/ \E r \in Requests : Enqueue(r)
    \/ \E t \in HttpThreads : WorkerStep(t)
    \/ InterruptQueue
    \/ WaitExit

(* Threads run; requests need not come and the server need not stop.         *)
Fairness ==
    /\ \A r \in Requests : WF_workVars(Enqueue(r))
    /\ \A t \in HttpThreads : WF_workVars(WorkerStep(t))
    /\ WF_workVars(WaitExit)

Spec == Init /\ [][Next]_workVars

FairSpec == Spec /\ Fairness

-----------------------------------------------------------------------------
(* Properties *)

(* ~WorkQueue: "Precondition: worker threads have all stopped (call          *)
(* WaitExit)".  Of the threads that had counted themselves when the queue    *)
(* was deleted; a thread that has not begun to run yet is not waited for.    *)
DeletedAfterWorkers ==
    stopper = "deleted" => \A t \in HttpThreads : worker[t] \in {"created", "left"}

(* Every request that was taken in is answered: by a worker, by the full     *)
(* queue, or by the destructor; no notification is lost.  A callback that is *)
(* still under way when the queue is deleted is lost with it.                *)
RequestsAreAnswered ==
    \A r \in Requests : request[r] = "arrived" ~> request[r] = "answered" \/ ~Alive

(* StopHTTPServer gets past WaitExit. *)
ServerStops == stopper = "interrupted" ~> stopper = "deleted"
==============================================================================
