---------------------------- MODULE MasternodeList ---------------------------
(***************************************************************************)
(* CMasternodeMan and CMasternode: how announcements (mnb) and pings (mnp) *)
(* of a masternode put it on the list, keep it enabled, and let it expire. *)
(*                                                                         *)
(* Everything is kept per collateral, so one collateral is followed: its   *)
(* masternode, another node, signs announcements and pings, and the        *)
(* network delivers them in any order, late, repeatedly or never; an       *)
(* announcement comes with any ping that was signed since.  What can be    *)
(* wrong with an announcement (its flaw) is an input of its delivery,      *)
(* since the hash it is remembered by covers only its time and the key of  *)
(* the collateral.  The signatures of pings that come alone are right.     *)
(***************************************************************************)
EXTENDS Integers, FiniteSets

CONSTANTS
    MinPing,        \* MASTERNODE_MIN_MNP_SECONDS
    PingGap,        \* MASTERNODE_MIN_MNP_SECONDS - 60
    MinBroadcast,   \* MASTERNODE_MIN_MNB_SECONDS
    Expiration,     \* MASTERNODE_EXPIRATION_SECONDS
    Removal,        \* MASTERNODE_REMOVAL_SECONDS
    MaxTime,        \* bound on the time
    MaxAnnounced,   \* bound on the announcements signed
    MaxPings,       \* bound on the pings signed
    MaxStops        \* bound on the stops of the node

ListAssumption ==
    /\ {MinPing, PingGap, MinBroadcast, Expiration, Removal, MaxTime, MaxAnnounced, MaxPings, MaxStops} \subseteq Nat
    /\ PingGap <= MinPing /\ MinPing <= Expiration /\ Expiration < Removal

Times == 0..MaxTime
States == {"PRE_ENABLED", "ENABLED", "EXPIRED", "REMOVE", "VIN_SPENT"}
Entries == [sig : Times, ping : Times, state : States]
NotListed == [sig |-> -1, ping |-> -1, state |-> "NONE"]

(* What is wrong with an announcement, in the order of the checks: one that  *)
(* CheckAndUpdate makes before it looks for the entry (times, keys, version, *)
(* signature, port), the owner of the collateral, its confirmations, and a   *)
(* sigTime before the block that confirmed it.                               *)
Flaws == {"none", "checks", "owner", "age", "sigTime"}

VARIABLES
    time,       \* GetAdjustedTime()
    spent,      \* the collateral is spent
    announced,  \* sigTime of the announcements signed so far
    pinged,     \* sigTime of the pings signed so far
    entry,      \* the element of vMasternodes
    seenMnb,    \* mapSeenMasternodeBroadcast: sigTime -> lastPing
    seenMnp,    \* mapSeenMasternodePing
    ignored,    \* announcements that came too soon after another or had a flaw
    saved,      \* mncache.dat: what is read from it
    readable,   \* whether it can be read, if it is there
    stops       \* stops of the node so far

listVars == <<time, spent, announced, pinged, entry, seenMnb, seenMnp, ignored, saved, readable, stops>>
outVars == <<time, spent, announced, pinged>>
manVars == <<entry, seenMnb, seenMnp, ignored>>
fileVars == <<saved, readable, stops>>

Listed == entry # NotListed
IsEnabled(e) == e.state = "ENABLED"

(* What is serialized of CMasternodeMan. *)
Manager == [entry |-> entry, seenMnb |-> seenMnb, seenMnp |-> seenMnp]
Cleared == [entry |-> NotListed, seenMnb |-> [s \in {} |-> 0], seenMnp |-> {}]

(* What a manager holds was signed. *)
ManagerOK(m) ==
    /\ m.entry \in Entries \cup {NotListed}
    /\ DOMAIN m.seenMnb \subseteq announced /\ \A s \in DOMAIN m.seenMnb : m.seenMnb[s] \in pinged
    /\ m.seenMnp \subseteq pinged

TypeOK ==
    /\ time \in Times
    /\ spent \in BOOLEAN
    /\ announced \subseteq Times /\ pinged \subseteq Times
    /\ ManagerOK(Manager) /\ ManagerOK(saved)
    /\ ignored \subseteq announced
    /\ readable \in BOOLEAN
    /\ stops \in 0..MaxStops

Init ==
    /\ time = 0
    /\ spent = FALSE
    /\ announced = {0}
    /\ pinged = {0}
    /\ entry = NotListed
    /\ seenMnb = [s \in {} |-> 0]
    /\ seenMnp = {}
    /\ ignored = {}
    /\ saved = Cleared
    /\ readable = TRUE
    /\ stops = 0

-----------------------------------------------------------------------------
(* CMasternode::Check; without cs_main the state stays as it is. *)
Checked(e, lock) ==
    [e EXCEPT !.state =
        IF @ = "VIN_SPENT" THEN @
        ELSE IF time - e.ping >= Removal THEN "REMOVE"
        ELSE IF time - e.ping >= Expiration THEN "EXPIRED"
        ELSE IF e.ping - e.sig < MinPing THEN "PRE_ENABLED"
        ELSE IF ~lock THEN @
        ELSE IF spent THEN "VIN_SPENT" ELSE "ENABLED"]

With(seen, s, p) == [t \in DOMAIN seen \cup {s} |-> IF t = s THEN p ELSE seen[t]]
Without(seen, s) == [t \in DOMAIN seen \ {s} |-> seen[t]]

(* CMasternodePing::CheckAndUpdate of ping p for entry e, whose block is     *)
(* fresh: the entry and the announcement it was seen in are updated.         *)
PingDue(e, p) == p - e.ping >= PingGap
Pinged(e, p, lock) == Checked([e EXCEPT !.ping = p], lock)
SeenPinged(seen, e, p) == IF e.sig \in DOMAIN seen THEN With(seen, e.sig, p) ELSE seen

(* CheckInputsAndAdd for an announcement <<s, p>>, with the list and the     *)
(* announcements seen so far: an entry that is not enabled goes first.  The  *)
(* announcement may come again if the lock was missed or the collateral is   *)
(* too young.                                                                *)
CheckInputsAndAdd(s, p, e, seen, lock, flaw) ==
    IF IsEnabled(e) THEN [entry |-> e, seen |-> seen]
    ELSE IF ~lock THEN [entry |-> NotListed, seen |-> Without(seen, s)]
    ELSE IF spent THEN [entry |-> NotListed, seen |-> seen]
    ELSE IF flaw = "age" THEN [entry |-> NotListed, seen |-> Without(seen, s)]
    ELSE IF flaw = "sigTime" THEN [entry |-> NotListed, seen |-> seen]
    ELSE [entry |-> [sig |-> s, ping |-> p, state |-> "ENABLED"], seen |-> seen]

(* The ping of a newer announcement is taken into the entry. *)
TakesPing(s, p, e, fresh, lock) == PingDue(e, p) /\ fresh /\ IsEnabled(Pinged([e EXCEPT !.sig = s], p, lock))

(* UpdateFromNewBroadcast, and the Check after it if the ping was not due    *)
(* (otherwise the last check is too recent).                                 *)
Updated(s, p, e, fresh, lock) ==
    LET newer == [e EXCEPT !.sig = s]
    IN  IF PingDue(e, p) /\ fresh THEN Pinged(newer, p, lock) ELSE Checked(newer, lock)

(* "this broadcast is older or equal than the one that we already have" *)
NotNewer(s) == Listed /\ entry.sig >= s

(* The mnb message.  fresh says whether the block named in the ping is known *)
(* and not more than 24 deep, lock and lockAdd whether the two TRY_LOCKs     *)
(* succeed.  The announcement is seen before anything is checked.  One that  *)
(* fails the checks or is older than the one listed is refused; one that     *)
(* comes too soon after it is passed over.                                   *)
ReceiveMnb(s, p, flaw, fresh, lock, lockAdd) ==
    /\ s \in announced /\ p \in pinged /\ p >= s
    /\ s \notin DOMAIN seenMnb
    /\ LET seen    == With(seenMnb, s, p)
           refused == flaw = "checks" \/ NotNewer(s)
           due     == ~refused /\ IsEnabled(entry) /\ time - entry.sig >= MinBroadcast
           e       == IF due THEN Updated(s, p, entry, fresh, lock) ELSE entry
           r       == IF refused \/ flaw = "owner" THEN [entry |-> e, seen |-> seen]
                      ELSE CheckInputsAndAdd(s, p, e, seen, lockAdd, flaw)
           passed  == (IsEnabled(entry) /\ ~due /\ ~NotNewer(s)) \/ flaw \in {"checks", "owner", "sigTime"}
       IN  /\ entry' = r.entry
           /\ seenMnb' = r.seen
           /\ seenMnp' = IF due /\ TakesPing(s, p, entry, fresh, lock) THEN seenMnp \cup {p} ELSE seenMnp
           /\ ignored' = IF passed THEN ignored \cup {s} ELSE ignored
    /\ UNCHANGED <<outVars, fileVars>>

(* The dseg message: an enabled masternode is offered to the peer, and its   *)
(* announcement is seen if it was not.                                       *)
ReceiveDseg ==
    /\ IsEnabled(entry)
    /\ seenMnb' = IF entry.sig \in DOMAIN seenMnb THEN seenMnb ELSE With(seenMnb, entry.sig, entry.ping)
    /\ UNCHANGED <<outVars, entry, seenMnp, ignored, fileVars>>

(* Mutant: pings are taken in every state. *)
PingTakenListed(p, fresh) == Listed /\ PingDue(entry, p) /\ fresh

(* CMasternodePing::CheckAndUpdate with fRequireEnabled. *)
PingTaken(p, fresh) == IsEnabled(entry) /\ PingDue(entry, p) /\ fresh

(* The mnp message: only an enabled masternode takes a ping.  That AskForMN  *)
(* asks for the announcement of an unknown one is left out, since            *)
(* announcements come at any time.                                           *)
ReceiveMnp(p, fresh, lock) ==
    /\ p \in pinged \ seenMnp
    /\ seenMnp' = seenMnp \cup {p}
    /\ IF PingTaken(p, fresh)
       THEN entry' = Pinged(entry, p, lock) /\ seenMnb' = SeenPinged(seenMnb, entry, p)
       ELSE UNCHANGED <<entry, seenMnb>>
    /\ UNCHANGED <<outVars, ignored, fileVars>>

(* Check, from any of the functions that count or rank masternodes. *)
Check(lock) ==
    /\ Listed
    /\ entry' = Checked(entry, lock)
    /\ UNCHANGED <<outVars, seenMnb, seenMnp, ignored, fileVars>>

(* CheckAndRemove, every minute.  An entry checked less than five seconds    *)
(* ago (recent) is not checked again.                                        *)
CheckAndRemove(recent, lock) ==
    LET e    == IF ~Listed \/ recent THEN entry ELSE Checked(entry, lock)
        gone == e.state \in {"REMOVE", "VIN_SPENT"}
    IN  /\ entry' = IF gone THEN NotListed ELSE e
        /\ seenMnb' = [s \in {t \in DOMAIN seenMnb : ~gone /\ seenMnb[t] >= time - 2 * Removal} |-> seenMnb[s]]
        /\ seenMnp' = {p \in seenMnp : p >= time - 2 * Removal}
        /\ UNCHANGED <<outVars, ignored, fileVars>>

(* The node stops and starts again.  A clean stop dumps the list, unless     *)
(* there is a file that cannot be read; a crash leaves the last dump, and a  *)
(* crash while it is written leaves a file that cannot be read.  What is     *)
(* read is checked, and expired masternodes are removed at once.             *)
Restart(stop, lock) ==
    LET file == IF stop = "torn" THEN Cleared ELSE IF stop = "clean" /\ readable THEN Manager ELSE saved
        e    == IF file.entry = NotListed THEN NotListed ELSE Checked(file.entry, lock)
        gone == e.state \in {"REMOVE", "VIN_SPENT", "EXPIRED"}
        seen == file.seenMnb
    IN  /\ stops < MaxStops
        /\ stop = "torn" => readable
        /\ stops' = stops + 1
        /\ readable' = (readable /\ stop # "torn")
        /\ saved' = file
        /\ entry' = IF gone THEN NotListed ELSE e
        /\ seenMnb' = [s \in {t \in DOMAIN seen : ~gone /\ seen[t] >= time - 2 * Removal} |-> seen[s]]
        /\ seenMnp' = {p \in file.seenMnp : p >= time - 2 * Removal}
        /\ UNCHANGED <<outVars, ignored>>

(* The masternode announces itself with its first ping (from the start of    *)
(* the model), or pings, but not at the last moment (a bound); the           *)
(* collateral is spent; time passes.                                         *)
Announce ==
    /\ time < MaxTime /\ time \notin announced
    /\ Cardinality(announced) < MaxAnnounced /\ Cardinality(pinged \cup {time}) <= MaxPings
    /\ announced' = announced \cup {time}
    /\ pinged' = pinged \cup {time}
    /\ UNCHANGED <<time, spent, manVars, fileVars>>

SendPing ==
    /\ time < MaxTime /\ time \notin pinged
    /\ Cardinality(pinged) < MaxPings
    /\ pinged' = pinged \cup {time}
    /\ UNCHANGED <<time, spent, announced, manVars, fileVars>>

SpendCollateral ==
    /\ ~spent
    /\ spent' = TRUE
    /\ UNCHANGED <<time, announced, pinged, manVars, fileVars>>

Tick ==
    /\ time < MaxTime
    /\ time' = time + 1
    /\ UNCHANGED <<spent, announced, pinged, manVars, fileVars>>

Next ==
    \/ \E s, p \in Times, flaw \in Flaws, fresh, lock, lockAdd \in BOOLEAN : ReceiveMnb(s, p, flaw, fresh, lock, lockAdd)
    \/ ReceiveDseg
    \/ \E p \in Times, fresh, lock \in BOOLEAN : ReceiveMnp(p, fresh, lock)
    \/ \E lock \in BOOLEAN : Check(lock)
    \/ \E recent, lock \in BOOLEAN : CheckAndRemove(recent, lock)
    \/ \E stop \in {"clean", "crash", "torn"}, lock \in BOOLEAN : Restart(stop, lock)
    \/ Announce
    \/ SendPing
    \/ SpendCollateral
    \/ Tick

Spec == Init /\ [][Next]_listVars

-----------------------------------------------------------------------------
(* Properties *)

(* A step of the running node, or a stop that has saved its list. *)
ListKept == stops' = stops \/ saved' = Manager

(* While a masternode is listed its announcement is only ever replaced by a  *)
(* newer one, whatever old announcements are delivered again, unless the     *)
(* node starts from an older dump.                                           *)
AnnouncementsGrow == [][ ListKept /\ Listed /\ Listed' => entry'.sig >= entry.sig ]_listVars

(* A masternode that has expired, or whose collateral was found spent, is    *)
(* not revived by pings that are still under way, nor by an announcement     *)
(* that was seen before, nor when the lock for the check is missed, nor by a *)
(* restart: it takes a new announcement with unspent collateral, or an older *)
(* dump.                                                                     *)
RevivedByAnnouncement ==
    [][ ListKept /\ ~IsEnabled(entry) /\ IsEnabled(entry') => ~spent /\ entry'.sig \notin DOMAIN seenMnb ]_listVars

(* A masternode that has dropped out of the list can come back, also when    *)
(* the node has read an older dump or none: its newest announcement is not   *)
(* among those that would be passed over as seen, unless it came too soon    *)
(* after another one or had a flaw that is not expected to pass.             *)
CanComeBack ==
    \A s \in DOMAIN seenMnb :
        ~Listed /\ ~spent /\ (\A t \in announced : t <= s) => s \in ignored
==============================================================================
