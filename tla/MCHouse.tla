------------------------------ MODULE MCHouse -------------------------------
(***************************************************************************)
(* A house and what it meets: the direct path of a visit it makes, the     *)
(* visits it receives, knocks brought by the gate, announces heard on the  *)
(* LAN, a doctor's run, the diagnostics log.  The six share no state;      *)
(* `part` says which of them a behaviour is of, and the others stay as     *)
(* they were in the beginning.                                             *)
(***************************************************************************)
EXTENDS PathLife

MCHosts == {"wan", "lan", "self", "wan2", "wan:1"}
MCKind == [h \in MCHosts |->
             CASE h \in {"wan", "wan2"} -> "global"
               [] h = "lan" -> "private"
               [] h = "self" -> "loopback"
               [] h = "wan:1" -> "noPort"]

A(h) == [host |-> h, mapped |-> FALSE]
M(h) == [host |-> h, mapped |-> TRUE]

(* What peers offer: one behind one address; the same one in a rerun, after it
   moved; and one whose list names a private network and itself, in either
   spelling, and port 1, which no gather gives and the wire allows. *)
Offer == Gather(<<A("self"), A("wan")>>, <<A("wan")>>, <<>>)
MovedOffer == Regather(Offer, <<A("wan2")>>, <<A("wan")>>, <<>>)

MCPeerLists == {Offer, MovedOffer, <<M("self"), M("wan:1"), M("lan"), A("wan"), M("wan")>>}
MCHeardLists == {<<>>, <<A("lan")>>, <<M("lan"), A("self")>>}
MCObserved == {M("wan")}

(* One house announces once; the other, whose clock is ahead, three times. *)
MCSkew == [a |-> 0, b |-> 1]
MCMaxAnnounce == [a |-> 1, b |-> 3]

-----------------------------------------------------------------------------
CONSTANTS
    Peer, MaxSession, MaxDial, MaxTime, MAX_SESSIONS_PER_REGISTRATION,
    MAX_VISITS_PER_PEER, GATE_EVENT_QUEUE, REGISTRATION_TTL,
    Friend, Guest, Invite, Skews, MaxSeals, KnockTime, SEEN_WINDOW, SEEN_SET_CAP,
    House, Skew, MaxAnnounce, LanTime, ANNOUNCE_INTERVAL, ANNOUNCE_PER_KEY_GAP,
    ANNOUNCE_PACKETS_PER_SECOND, ANNOUNCE_REPLAY_WINDOW, ANNOUNCE_SEEN_REMEMBERED,
    MAX_RECORD_ENTRIES, MaxAttempts,
    Writer, Lengths, MaxDay, MaxRecords, MaxFaults, MAX_FILE_BYTES, MAX_FILES_KEPT

(* What the guard keeps of one friend outlasts the window it guards, with
   clocks up to a window apart: 4096 against 12 of each friend. *)
ASSUME GuardAssumption ==
    ANNOUNCE_SEEN_REMEMBERED * ANNOUNCE_PER_KEY_GAP >= 2 * ANNOUNCE_REPLAY_WINDOW

(* What is counted and measured has its type; there are two houses on the LAN;
   a record has room for the four steps of a run against the gate alone; the
   log keeps a day at least. *)
ASSUME HouseAssumption ==
    /\ MAX_SESSIONS_PER_REGISTRATION \in Nat \ {0}
    /\ MAX_VISITS_PER_PEER \in Nat \ {0}
    /\ Skews \subseteq Int
    /\ \A h, j, k \in House : j # h /\ k # h => j = k
    /\ Skew \in [House -> Int]
    /\ ANNOUNCE_PER_KEY_GAP \in Nat \ {0}
    /\ ANNOUNCE_REPLAY_WINDOW \in Nat
    /\ ANNOUNCE_SEEN_REMEMBERED \in Nat \ {0}
    /\ MAX_RECORD_ENTRIES \in Nat /\ MAX_RECORD_ENTRIES >= 3
    /\ MAX_FILES_KEPT \in Nat \ {0}

VARIABLES
    part,
    house, owner, pending, sess, starts, events, sessions, dials, visit, peers,
    homeNow, deregistered,
    knockNow, seals, seen, redeemed, knocked, answered,
    lanNow, next, inWindow, lastFrom, guard, cache, made, lan, heard, opened,
    args, rec, main, bell, gateUp, peerUp,
    files, writer, today, faults, acked

Hosting == INSTANCE HeadlessHouse WITH now <- homeNow

Door == INSTANCE Knocks WITH
    now <- knockNow, pending <- knocked, MaxTime <- KnockTime,
    Expires <- [i \in Invite |-> 2]

Lan == INSTANCE Discovery WITH
    now <- lanNow, net <- lan, MaxTime <- LanTime,
    Hosts <- {"lan", "wan"}, Kind <- [lan |-> "private", wan |-> "global"],
    MAX_CANDIDATES <- 1, DISCOVERY_CANDIDATE_SLOTS <- 1,
    CACHED_ADDRESSES_PER_PEER <- 1, CACHED_ADDRESS_TTL <- 2,
    DISCOVERED_ADDRESS_TTL <- 2

Doc == INSTANCE Doctor

Log == INSTANCE DiagLog

homeVars == <<house, owner, pending, sess, starts, events, sessions, dials, visit,
              peers, homeNow, deregistered>>
doorVars == <<knockNow, seals, seen, redeemed, knocked, answered>>
lanVars == <<lanNow, next, inWindow, lastFrom, guard, cache, made, lan, heard, opened>>
docVars == <<args, rec, main, bell, gateUp, peerUp>>
logVars == <<files, writer, today, faults, acked>>

MCInit ==
    /\ part \in {"path", "home", "door", "lan", "doctor", "log"}
    /\ Init /\ Hosting!Init /\ Door!Init /\ Lan!Init /\ Log!Init
    /\ Doc!Init
    /\ part # "path" => lists = CHOOSE l \in PeerLists \X HeardLists : TRUE
    /\ part # "doctor" => ~args.friend

MCNext ==
    /\ UNCHANGED part
    /\ \/ /\ part = "path" /\ Next
          /\ UNCHANGED <<homeVars, doorVars, lanVars, docVars, logVars>>
       \/ /\ part = "home" /\ Hosting!Next
          /\ UNCHANGED <<vars, doorVars, lanVars, docVars, logVars>>
       \/ /\ part = "door" /\ Door!Next
          /\ UNCHANGED <<vars, homeVars, lanVars, docVars, logVars>>
       \/ /\ part = "lan" /\ Lan!Next
          /\ UNCHANGED <<vars, homeVars, doorVars, docVars, logVars>>
       \/ /\ part = "doctor" /\ Doc!Next
          /\ UNCHANGED <<vars, homeVars, doorVars, lanVars, logVars>>
       \/ /\ part = "log" /\ Log!Next
          /\ UNCHANGED <<vars, homeVars, doorVars, lanVars, docVars>>

MCSpec ==
    MCInit /\ [][MCNext]_<<part, vars, homeVars, doorVars, lanVars, docVars, logVars>>

(* HeadlessHouse: the slots of a house are its visits, however each ended. *)
SlotsAreVisits == Hosting!SlotsAreVisits

(* HeadlessHouse: no Start goes to a visit that is over. *)
StartFindsAWaiter == Hosting!StartFindsAWaiter

(* Knocks: an invite opens the door to one knock, over all the seals that
   carry it and however often each of them arrives. *)
InviteOpensOnce == Door!InviteOpensOnce

(* Discovery, ReplayGuard: an announce is admitted once and never again,
   whichever way the clocks differ and however often it is repeated. *)
HeardOnce == Lan!HeardOnce

(* Discovery, on_datagram's order: the gap that drops a friend's announces was
   opened by an announce that friend signed, which was heard or was out of the
   replay window. *)
SilencedOnlyByItself == Lan!SilencedOnlyByItself

(* Doctor, Recorder::finish: a run leaves one record and exits by it, whoever
   closes it first. *)
OneRecordPerRun == Doc!OneRecordPerRun

(* Doctor, exit_for and exit_for_held: a run that fails before its visit, or
   whose visit it cut short, does not exit 0. *)
FailureIsNamed == Doc!FailureIsNamed

(* DiagLog: what append said yes to is kept and in order, over crashes,
   restarts and a second writer. *)
LogKeepsItsOrder == Log!LogKeepsItsOrder
=============================================================================
