------------------------------ MODULE MCThreads ------------------------------
(* The places where threads meet, next to each other: the script check       *)
(* queue, the scheduler, the HTTP work queue, the peers, and the commands    *)
(* and the timer of the encrypted wallet.  They share nothing, so a          *)
(* behaviour runs one of them (part) and leaves the others in one of their   *)
(* initial states; the states add up.  Nodes that are accepted and nodes     *)
(* that are opened only share the two threads that serve them: they are two  *)
(* parts.                                                                    *)
EXTENDS CheckQueue

CONSTANTS Tasks, Repeating, Period, Servers, MaxTime,
          Requests, HttpThreads, MaxDepth,
          Inbound, Outbound, Openers, Testers, MaxOutbound,
          Passphrases, MaxWalletKeys, MaxMasters, MaxStarts

VARIABLES taskQueue, now, serving, deadline, nServicing, stopRequested, stopWhenEmpty, notifyOne, notifyAll,
          interrupted, unscheduled, early,
          work, running, numThreads, worker, request, stopper,
          node, socket, message, opener, freeGrants,
          store, walletDat, relock, owner,
          part

schedulerVars == <<taskQueue, now, serving, deadline, nServicing, stopRequested, stopWhenEmpty, notifyOne,
                   notifyAll, interrupted, unscheduled, early>>
workVars == <<work, running, numThreads, worker, request, stopper>>
peerVars == <<node, socket, message, opener, freeGrants>>
cryptoVars == <<store, walletDat, relock, owner>>

Sched == INSTANCE Scheduler
Http == INSTANCE WorkQueue
Net == INSTANCE Peers
Crypt == INSTANCE WalletCrypto

ASSUME ServicesAssumption ==
    /\ Sched!SchedulerAssumption
    /\ Http!WorkQueueAssumption
    /\ Net!PeersAssumption
    /\ Crypt!WalletCryptoAssumption

MCVars == <<checkVars, schedulerVars, workVars, peerVars, cryptoVars, part>>

MCInit ==
    /\ Init
    /\ Sched!Init
    /\ Http!Init
    /\ Net!Init
    /\ part \in {"checks", "tasks", "http", "accepted", "opened", "wallet"}
    /\ Crypt!Init
    /\ part # "wallet" => ~store.crypto /\ owner.passphrase = CHOOSE p \in Passphrases : TRUE

(* Which part runs, and that the others do not. *)
ChecksOnly == part = "checks" /\ UNCHANGED <<schedulerVars, workVars, peerVars, cryptoVars, part>>
TasksOnly == part = "tasks" /\ UNCHANGED <<checkVars, workVars, peerVars, cryptoVars, part>>
HttpOnly == part = "http" /\ UNCHANGED <<checkVars, schedulerVars, peerVars, cryptoVars, part>>
PeersOnly == UNCHANGED <<checkVars, schedulerVars, workVars, cryptoVars, part>>
AcceptedOnly == part = "accepted" /\ UNCHANGED opener /\ PeersOnly
OpenedOnly == part = "opened" /\ (\A n \in Inbound : UNCHANGED node[n]) /\ PeersOnly
WalletOnly == part = "wallet" /\ UNCHANGED <<checkVars, schedulerVars, workVars, peerVars, part>>

MCNext ==
    \/ ChecksOnly /\ Next
    \/ TasksOnly /\ Sched!Next
    \/ HttpOnly /\ Http!Next
    \/ Net!Next /\ AcceptedOnly
    \/ Net!Next /\ OpenedOnly
    \/ WalletOnly /\ Crypt!Next

(* Fairness of each part, as in its module. *)
MCFairness ==
    /\ WF_MCVars(ChecksOnly /\ Return)
    /\ \A t \in Loopers : WF_MCVars(ChecksOnly /\ (Sleep(t) \/ Take(t)))
    /\ WF_MCVars(TasksOnly /\ Sched!Tick)
    /\ WF_MCVars(TasksOnly /\ Sched!NotifyOne)
    /\ WF_MCVars(TasksOnly /\ Sched!NotifyAll)
    /\ \A t \in Servers : WF_MCVars(TasksOnly /\ Sched!Proceed(t))
    /\ \A r \in Requests : WF_MCVars(HttpOnly /\ Http!Enqueue(r))
    /\ \A t \in HttpThreads : WF_MCVars(HttpOnly /\ Http!WorkerStep(t))
    /\ WF_MCVars(HttpOnly /\ Http!WaitExit)
    /\ WF_MCVars(AcceptedOnly /\ Net!SocketStep)
    /\ WF_MCVars(AcceptedOnly /\ Net!MessageStep)
    /\ \A n \in Inbound : SF_MCVars(AcceptedOnly /\ Net!SendPing(n))
    /\ WF_MCVars(WalletOnly /\ Crypt!TimerFires)
    /\ WF_MCVars(WalletOnly /\ Crypt!LockWallet)
    /\ WF_MCVars(WalletOnly /\ \E timeout \in BOOLEAN : Crypt!SetUnlockTime(timeout))
    /\ WF_MCVars(WalletOnly /\ Crypt!RPCRunLater)
    /\ WF_MCVars(WalletOnly /\ Crypt!ChangeWalletPassphrase)

MCSpec == MCInit /\ [][MCNext]_MCVars /\ MCFairness

-----------------------------------------------------------------------------
(* The properties of the instances; those of CheckQueue are its own. *)

(* The threads inside serviceQueue are counted, no task is started early     *)
(* (with the one service thread of AppInit2), and the HTTP work queue is     *)
(* deleted after the threads it has counted have left.                       *)
ServicesAreSafe ==
    /\ Sched!TypeOK /\ Sched!NotEarly /\ Sched!ServersAreCounted
    /\ Http!TypeOK /\ Http!DeletedAfterWorkers

(* A node that one of the two network threads works on, or that an opener    *)
(* has made, is not deleted under it, and every outbound grant is free, with *)
(* an opener or with a node.                                                 *)
NodesAreAlive == Net!TypeOK /\ Net!UsedIsAlive /\ Net!GrantsAreExact

(* Encryption protects the wallet and does not lose it: whenever the process *)
(* ends, wallet.dat gives back every key that was ever generated, the        *)
(* passphrase opens a locked wallet at any time, neither keys nor, once it   *)
(* has been open, the zerocoin seed are left in the plain.                   *)
WalletIsProtected ==
    Crypt!TypeOK /\ Crypt!KeysAreRecovered /\ Crypt!PassphraseOpens /\ Crypt!NothingInThePlain

(* Nothing waits for ever: a task of CScheduler is started and stop lets its *)
(* threads go, no wake-up being lost; an HTTP request that was taken in is   *)
(* answered and StopHTTPServer gets past WaitExit; a node that was accepted  *)
(* and has left vNodes is deleted ("hold in disconnected pool until all refs *)
(* are released"); and once walletpassphrase has set the timer the wallet is *)
(* locked, but for the two real exceptions that WalletCrypto names.          *)
ServicesGoOn ==
    /\ Sched!ScheduledTaskRuns /\ Sched!StopEnds
    /\ Http!RequestsAreAnswered /\ Http!ServerStops
    /\ Net!DisconnectedIsDeleted
    /\ Crypt!WalletIsRelocked

(* A node whose socket was closed is deleted: CloseSocketDisconnect says of  *)
(* the receive buffer "we'll empty the recv buffer when the CNode is         *)
(* deleted".                                                                 *)
ClosedIsDeleted == Net!ClosedIsDeleted
==============================================================================
