------------------------------- MODULE Sporks --------------------------------
(***************************************************************************)
(* spork.cpp on a network of nodes: one switch that its signer changes,    *)
(* with messages that are relayed by everyone and may be lost, come again  *)
(* and come late.  A spork is known by the time it was signed at; 0 stands *)
(* for none.  Signatures are taken to be good, and the signer's clock to   *)
(* have moved on between two commands.                                     *)
(***************************************************************************)
EXTENDS Naturals

CONSTANTS
    Nodes, Signer,
    Links,          \* pairs of connected nodes, <<asking, asked>>
    MaxSigned,      \* bound on the sporks that are signed
    MaxCrashes      \* bound on restarts

SporksAssumption ==
    /\ Signer \in Nodes
    /\ Links \subseteq Nodes \X Nodes
    /\ {MaxSigned, MaxCrashes} \subseteq Nat

VARIABLES
    signed,     \* the last spork that was signed
    active,     \* mapSporksActive of each node
    stored,     \* its database of sporks
    crashes     \* restarts so far

sporkVars == <<signed, active, stored, crashes>>

-----------------------------------------------------------------------------
Init ==
    /\ signed = 0
    /\ active = [n \in Nodes |-> 0]
    /\ stored = [n \in Nodes |-> 0]
    /\ crashes = 0

(* UpdateSpork: the signer's own node does not write it to the database. *)
UpdateSpork ==
    /\ signed < MaxSigned
    /\ signed' = signed + 1
    /\ active' = [active EXCEPT ![Signer] = signed']
    /\ UNCHANGED <<stored, crashes>>

(* Mutant: it is only the same spork that is not taken again. *)
ProcessSporkOther(n, t) ==
    /\ active[n] # t
    /\ active' = [active EXCEPT ![n] = t]
    /\ stored' = [stored EXCEPT ![n] = t]
    /\ UNCHANGED <<signed, crashes>>

(* ProcessSpork: a spork signed after the one that is active. *)
ProcessSpork(n, t) ==
    /\ active[n] < t
    /\ active' = [active EXCEPT ![n] = t]
    /\ stored' = [stored EXCEPT ![n] = t]
    /\ UNCHANGED <<signed, crashes>>

(* The message that was announced and asked for, from any node that has it:  *)
(* at once, late, again or never.                                            *)
ReceiveSpork(n, t) == t \in 1..signed /\ ProcessSpork(n, t)

(* getsporks, sent to the first peer of a run and to a few peers in each     *)
(* round of the masternode sync: the other node's active spork.              *)
GetSporks(n, m) ==
    /\ <<n, m>> \in Links
    /\ active[m] # 0
    /\ ProcessSpork(n, active[m])

(* The node stops and starts with LoadSporksFromDB. *)
Restart(n) ==
    /\ crashes < MaxCrashes
    /\ crashes' = crashes + 1
    /\ active' = [active EXCEPT ![n] = stored[n]]
    /\ UNCHANGED <<signed, stored>>

(* It crashes in ProcessSpork between the map and the database. *)
CrashUnstored(n, t) ==
    /\ t \in active[n] + 1..signed
    /\ crashes < MaxCrashes
    /\ crashes' = crashes + 1
    /\ active' = [active EXCEPT ![n] = stored[n]]
    /\ UNCHANGED <<signed, stored>>

Next ==
    \/ UpdateSpork
    \/ \E n \in Nodes, t \in 1..MaxSigned : ReceiveSpork(n, t) \/ CrashUnstored(n, t)
    \/ \E n, m \in Nodes : GetSporks(n, m)
    \/ \E n \in Nodes : Restart(n)

Spec == Init /\ [][Next]_sporkVars

(* Relays may be lost with their connection and are not repeated; what is    *)
(* assumed is that nodes go on to run rounds of the masternode sync (a start, *)
(* a failure, mnsync reset, a long sleep), each with whatever peers it has.  *)
FairSpec == Spec /\ \A l \in Links : WF_sporkVars(GetSporks(l[1], l[2]))

-----------------------------------------------------------------------------
(* Properties *)

TypeOK ==
    /\ active \in [Nodes -> 0..signed]
    /\ stored \in [Nodes -> 0..signed]

(* Through the sync rounds all nodes come to have the same spork and keep    *)
(* it, whatever relays were lost, late or doubled and whoever restarted in   *)
(* between, the signer that forgets what it has signed included.  Without    *)
(* further rounds a lost relay is not made up for: see FairSpec.             *)
SporksConverge == <>[](\A n, m \in Nodes : active[n] = active[m])

(* A spork that every node has stored is never undone: neither an old        *)
(* message nor any series of restarts brings an older one back.              *)
SettledStays ==
    \A t \in 1..MaxSigned :
        []((\A n \in Nodes : stored[n] >= t) => [](\A n \in Nodes : active[n] >= t))
==============================================================================
