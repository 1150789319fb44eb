------------------------------- MODULE Scheduler -----------------------------
(***************************************************************************)
(* CScheduler of scheduler.cpp: threads in serviceQueue wait for the time  *)
(* of the first task and run it with the lock released.                    *)
(*                                                                         *)
(* A step is what happens between two releases of newTaskMutex.  schedule  *)
(* and stop notify after they have released it, so the notification is a   *)
(* step of its own.  A thread remembers the time of the task that was      *)
(* first when it began to wait; when that time comes it takes whatever is  *)
(* first then.                                                             *)
(***************************************************************************)
EXTENDS Naturals, FiniteSets

CONSTANTS
    Tasks,
    Repeating,      \* the tasks of scheduleEvery
    Period,         \* deltaSeconds of a repeating task
    Servers,        \* threads that may call serviceQueue
    MaxTime         \* bound on the clock

SchedulerAssumption ==
    /\ Repeating \subseteq Tasks
    /\ Period \in Nat \ {0}
    /\ MaxTime \in Nat
    /\ IsFiniteSet(Servers)
    /\ Tasks \cap {"out", "proceed", "wait", "waitUntil", "timedOut", "left"} = {}

VARIABLES
    taskQueue,      \* task -> the time it is due, for the tasks in the queue
    now,            \* system_clock
    serving,        \* what each thread is doing
    deadline,       \* the time a thread in wait_until waits for
    nServicing,     \* nThreadsServicingQueue
    stopRequested,
    stopWhenEmpty,
    notifyOne,      \* calls of schedule that have not notified yet
    notifyAll,      \* a call of stop has not notified yet
    interrupted,    \* threads that were interrupted
    unscheduled,    \* tasks that nobody has scheduled yet
    early           \* history: a task was started before its time

schedulerVars == <<taskQueue, now, serving, deadline, nServicing, stopRequested, stopWhenEmpty,
                   notifyOne, notifyAll, interrupted, unscheduled, early>>

Queued == DOMAIN taskQueue

(* The tasks that may be taskQueue.begin(). *)
First == {x \in Queued : \A y \in Queued : taskQueue[x] <= taskQueue[y]}

shouldStop == stopRequested \/ (stopWhenEmpty /\ Queued = {})

TypeOK ==
    /\ Queued \subseteq Tasks
    /\ \A x \in Queued : taskQueue[x] \in 0..MaxTime
    /\ now \in 0..MaxTime
    /\ serving \in [Servers -> {"out", "proceed", "wait", "waitUntil", "timedOut", "left"} \cup Tasks]
    /\ deadline \in [Servers -> 0..MaxTime]
    /\ nServicing \in 0..Cardinality(Servers)
    /\ {stopRequested, stopWhenEmpty, notifyAll, early} \subseteq BOOLEAN
    /\ notifyOne \in Nat
    /\ unscheduled \subseteq Tasks
    /\ interrupted \subseteq Servers

Init ==
    /\ taskQueue = [x \in {} |-> 0]
    /\ now = 0
    /\ serving = [t \in Servers |-> "out"]
    /\ deadline = [t \in Servers |-> 0]
    /\ nServicing = 0
    /\ stopRequested = FALSE
    /\ stopWhenEmpty = FALSE
    /\ notifyOne = 0
    /\ notifyAll = FALSE
    /\ interrupted = {}
    /\ unscheduled = Tasks
    /\ early = FALSE

Waiting == {t \in Servers : serving[t] \in {"wait", "waitUntil"}}

(* Waiting threads that one notification may wake: one of them, if any. *)
OneOf(threads) == IF threads = {} THEN {{}} ELSE {{t} : t \in threads}

Inserted(x, due) == [y \in Queued \cup {x} |-> IF y = x THEN due ELSE taskQueue[y]]

-----------------------------------------------------------------------------
(* A thread enters serviceQueue. *)
Enter(t) ==
    /\ serving[t] = "out"
    /\ serving' = [serving EXCEPT ![t] = "proceed"]
    /\ nServicing' = nServicing + 1
    /\ UNCHANGED <<taskQueue, now, deadline, stopRequested, stopWhenEmpty, notifyOne, notifyAll, interrupted, unscheduled, early>>

(* The loops of serviceQueue, entered from the start, after a task, after a  *)
(* notification, or after a time-out that found nothing to do.               *)
MayProceed(t) ==
    \/ serving[t] = "proceed"
    \/ serving[t] = "timedOut" /\ (shouldStop \/ Queued = {})

WaitForTask(t) ==
    /\ MayProceed(t)
    /\ ~shouldStop
    /\ Queued = {}
    /\ serving' = [serving EXCEPT ![t] = "wait"]
    /\ UNCHANGED <<taskQueue, now, deadline, nServicing, stopRequested, stopWhenEmpty, notifyOne, notifyAll, interrupted, unscheduled, early>>

WaitUntilFirst(t) ==
    /\ MayProceed(t)
    /\ ~shouldStop
    /\ \E first \in First : deadline' = [deadline EXCEPT ![t] = taskQueue[first]]
    /\ serving' = [serving EXCEPT ![t] = "waitUntil"]
    /\ UNCHANGED <<taskQueue, now, nServicing, stopRequested, stopWhenEmpty, notifyOne, notifyAll, interrupted, unscheduled, early>>

(* The thread leaves, and wakes another. *)
Leave(t) ==
    /\ MayProceed(t)
    /\ shouldStop
    /\ nServicing' = nServicing - 1
    /\ \E woken \in OneOf(Waiting) :
          serving' = [u \in Servers |-> IF u = t THEN "left" ELSE IF u \in woken THEN "proceed" ELSE serving[u]]
    /\ UNCHANGED <<taskQueue, now, deadline, stopRequested, stopWhenEmpty, notifyOne, notifyAll, interrupted, unscheduled, early>>

(* wait_until returns cv_status::timeout. *)
TimeOut(t) ==
    /\ serving[t] = "waitUntil"
    /\ now >= deadline[t]
    /\ serving' = [serving EXCEPT ![t] = "timedOut"]
    /\ UNCHANGED <<taskQueue, now, deadline, nServicing, stopRequested, stopWhenEmpty, notifyOne, notifyAll, interrupted, unscheduled, early>>

(* After a time-out the thread takes the first task and calls it. *)
TakeTask(t) ==
    /\ serving[t] = "timedOut"
    /\ ~shouldStop
    /\ \E x \in First :
          /\ taskQueue' = [y \in Queued \ {x} |-> taskQueue[y]]
          /\ serving' = [serving EXCEPT ![t] = x]
          /\ early' = (early \/ taskQueue[x] > now)
    /\ UNCHANGED <<now, deadline, nServicing, stopRequested, stopWhenEmpty, notifyOne, notifyAll, interrupted, unscheduled>>

(* The task returns; Repeat schedules it again, while the clock allows. *)
FinishTask(t) ==
    /\ serving[t] \in Tasks
    /\ serving' = [serving EXCEPT ![t] = "proceed"]
    /\ IF serving[t] \in Repeating /\ now + Period <= MaxTime
       THEN /\ taskQueue' = Inserted(serving[t], now + Period)
            /\ notifyOne' = notifyOne + 1
       ELSE UNCHANGED <<taskQueue, notifyOne>>
    /\ UNCHANGED <<now, deadline, nServicing, stopRequested, stopWhenEmpty, notifyAll, interrupted, unscheduled, early>>

(* schedule, up to the release of the lock, by any thread. *)
Schedule(x, due) ==
    /\ x \in unscheduled
    /\ unscheduled' = unscheduled \ {x}
    /\ taskQueue' = Inserted(x, due)
    /\ notifyOne' = notifyOne + 1
    /\ UNCHANGED <<now, serving, deadline, nServicing, stopRequested, stopWhenEmpty, notifyAll, interrupted, early>>

(* Mutant: the notification is dropped. *)
NotifyNobody ==
    /\ notifyOne > 0
    /\ notifyOne' = notifyOne - 1
    /\ UNCHANGED <<taskQueue, now, serving, deadline, nServicing, stopRequested, stopWhenEmpty, notifyAll, interrupted, unscheduled, early>>

(* newTaskScheduled.notify_one() of schedule. *)
NotifyOne ==
    /\ notifyOne > 0
    /\ notifyOne' = notifyOne - 1
    /\ \E woken \in OneOf(Waiting) :
          serving' = [u \in Servers |-> IF u \in woken THEN "proceed" ELSE serving[u]]
    /\ UNCHANGED <<taskQueue, now, deadline, nServicing, stopRequested, stopWhenEmpty, notifyAll, interrupted, unscheduled, early>>

(* stop, up to the release of the lock. *)
Stop(drain) ==
    /\ ~stopRequested
    /\ ~stopWhenEmpty
    /\ stopWhenEmpty' = drain
    /\ stopRequested' = ~drain
    /\ notifyAll' = TRUE
    /\ UNCHANGED <<taskQueue, now, serving, deadline, nServicing, notifyOne, interrupted, unscheduled, early>>

(* newTaskScheduled.notify_all() of stop. *)
NotifyAll ==
    /\ notifyAll
    /\ notifyAll' = FALSE
    /\ serving' = [u \in Servers |-> IF u \in Waiting THEN "proceed" ELSE serving[u]]
    /\ UNCHANGED <<taskQueue, now, deadline, nServicing, stopRequested, stopWhenEmpty, notifyOne, interrupted, unscheduled, early>>

(* Mutant: the handler of the exception does not count. *)
InterruptUncounted(t) ==
    /\ t \in Waiting
    /\ serving' = [serving EXCEPT ![t] = "left"]
    /\ interrupted' = interrupted \cup {t}
    /\ UNCHANGED <<taskQueue, now, deadline, nServicing, stopRequested, stopWhenEmpty, notifyOne, notifyAll, unscheduled, early>>

(* interrupt_all at shutdown: the wait throws, and the thread leaves without *)
(* a notification.                                                           *)
InterruptServer(t) ==
    /\ t \in Waiting
    /\ serving' = [serving EXCEPT ![t] = "left"]
    /\ nServicing' = nServicing - 1
    /\ interrupted' = interrupted \cup {t}
    /\ UNCHANGED <<taskQueue, now, deadline, stopRequested, stopWhenEmpty, notifyOne, notifyAll, unscheduled, early>>

Tick ==
    /\ now < MaxTime
    /\ now' = now + 1
    /\ UNCHANGED <<taskQueue, serving, deadline, nServicing, stopRequested, stopWhenEmpty, notifyOne, notifyAll, interrupted, unscheduled, early>>

Proceed(t) ==
    \/ WaitForTask(t)
    \/ WaitUntilFirst(t)
    \/ Leave(t)
    \/ TimeOut(t)
    \/ TakeTask(t)
    \/ FinishTask(t)

Next ==
    \/ \E t \in Servers : Enter(t) \/ Proceed(t) \/ InterruptServer(t)
    \/ \E x \in Tasks, due \in 0..MaxTime : Schedule(x, due)
    \/ \E drain \in BOOLEAN : Stop(drain)
    \/ NotifyOne
    \/ NotifyAll
    \/ Tick

(* Time passes; threads that may go on do; who has unlocked also notifies.   *)
Fairness ==
    /\ WF_schedulerVars(Tick)
    /\ WF_schedulerVars(NotifyOne)
    /\ WF_schedulerVars(NotifyAll)
    /\ \A t \in Servers : WF_schedulerVars(Proceed(t))

Spec == Init /\ [][Next]_schedulerVars

FairSpec == Spec /\ Fairness

-----------------------------------------------------------------------------
(* Properties *)

(* scheduler.h: "Call func at/after time t".  Holds for the single service   *)
(* thread that AppInit2 starts; with two, both may time out for one task and *)
(* the second takes the next task early.                                     *)
NotEarly == Cardinality({t \in Servers : serving[t] # "out"}) <= 1 => ~early

(* assert(nThreadsServicingQueue == 0) of ~CScheduler, which runs when the   *)
(* threads have been joined; and a thread that is inside is counted.         *)
ServersAreCounted == nServicing = Cardinality({t \in Servers : serving[t] \notin {"out", "left"}})

(* A scheduled task is started, if a thread is there to run it: no           *)
(* notification is lost and no thread oversleeps an earlier task.            *)
ScheduledTaskRuns ==
    \A x \in Tasks :
        x \in Queued /\ nServicing > 0 ~> x \notin Queued \/ stopRequested \/ interrupted # {}

(* stop lets every thread go: at once, or with drain when the queue is empty *)
(* (repeating tasks put themselves back).                                    *)
StopEnds ==
    stopRequested \/ (stopWhenEmpty /\ Queued \cap Repeating = {}) ~> nServicing = 0 \/ interrupted # {}
==============================================================================
