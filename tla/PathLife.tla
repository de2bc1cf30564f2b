------------------------------ MODULE PathLife ------------------------------
(***************************************************************************)
(* One side of a doorbell attempt in time (mosschat-net/src/punch.rs): the *)
(* table of candidates is probed until one answers three pings in a row    *)
(* (`Attempt`), the winner is watched (`Watch`), and a visit on the relay  *)
(* watches the relay (`RelayWatch`), each on the PeerLiveness of Liveness. *)
(*                                                                         *)
(* One action is one whole pass of the 20 ms loop: send what is due, poll, *)
(* drain what has arrived, decide.  `now` counts passes from the start of  *)
(* the phase: no instant outlives its phase, and a pong that crosses into  *)
(* the next one matches no tx id there.  A ping's tx id is where and when  *)
(* it was sent.  The network is a delay for each path and a set of paths   *)
(* that lose everything, which changes a bounded number of times.          *)
(***************************************************************************)
EXTENDS CandidateTable, Liveness, FiniteSets, FiniteSetsExt

CONSTANTS
    PROBE_FAST_INTERVAL, PROBE_FAST_WINDOW, PROBE_SLOW_INTERVAL, PROBE_GIVE_UP,
    FIRE_IN, CONSECUTIVE_PONGS_TO_WIN,
    PONG_ANSWERS_PER_WINDOW, PONG_WINDOW,   \* the peer's PongLimiter
    Delays,         \* round trips a path may have, in passes
    PeerLists,      \* lists a peer may send
    HeardLists,     \* lists discovery may have heard
    Observed,       \* what the gate saw of the peer
    Horizon,        \* bound: passes of one phase
    MaxFlips        \* bound: how often the network changes

ASSUME PathLifeAssumption ==
    /\ {PROBE_FAST_INTERVAL, PROBE_FAST_WINDOW, PROBE_SLOW_INTERVAL,
        PROBE_GIVE_UP, FIRE_IN, CONSECUTIVE_PONGS_TO_WIN,
        PONG_ANSWERS_PER_WINDOW, PONG_WINDOW, Horizon} \subseteq Nat \ {0}
    /\ MaxFlips \in Nat
    /\ Delays \subseteq Nat \ {0}
    /\ PeerLists \cup HeardLists \subseteq Seq([host : Hosts, mapped : BOOLEAN])
    /\ Observed \subseteq [host : Hosts, mapped : BOOLEAN]

(* A pass over a watched path sends one ping at most, and the peer answers as
   many in its window as that has passes (64 a second, of 20 ms each); one
   ping that is late makes no path stale. *)
ASSUME WatchAssumption ==
    /\ PONG_WINDOW <= PONG_ANSWERS_PER_WINDOW
    /\ PROBES_TO_STALE >= 2

(* In the slow schedule each ping finds a fresh window with room for every
   candidate, and the schedule lasts for one ping more than a candidate has to
   answer (4 of its 7). *)
ASSUME BurstAssumption ==
    /\ PONG_WINDOW <= PROBE_SLOW_INTERVAL
    /\ MAX_CANDIDATES <= PONG_ANSWERS_PER_WINDOW
    /\ PROBE_FAST_WINDOW + (CONSECUTIVE_PONGS_TO_WIN + 1) * PROBE_SLOW_INTERVAL
          <= PROBE_GIVE_UP

VARIABLES
    phase,      \* Phase, with the exchange before it and the upgrade after it
    now,        \* passes since the phase began
    lists,      \* what the exchange brought, until the table is built
    table,      \* the candidate table
    prog,       \* for each candidate, the fields of Candidate the probing moves
    winner,     \* Attempt.winner
    watch,      \* Watch, or RelayWatch
    limiter,    \* the peer's PongLimiter: what it answered in its window
    net,        \* pongs on their way
    delay,      \* path of this phase -> its round trip
    losing,     \* paths that lose what is sent; the local queue, when full
    flips,      \* how often losing has changed
    ok,         \* ghost: candidate -> its last pings in order, answered in time?
    lost,       \* ghost: paths that lost a ping of this phase
    quiet,      \* ghost: when the first ping of the present silence left
    steady      \* ghost: when losing last changed

vars == <<phase, now, lists, table, prog, winner, watch, limiter, net, delay,
          losing, flips, ok, lost, quiet, steady>>

RelayPath == [host |-> "relay", mapped |-> FALSE]   \* the synthetic address
Queue == [host |-> "queue", mapped |-> FALSE]       \* this house's relay egress
Used == DOMAIN delay \cup (IF RelayPath \in DOMAIN delay THEN {Queue} ELSE {})

NoWatch == [none |-> TRUE]

(* A Candidate nothing has been sent to. *)
NewCandidate ==
    [consecutive |-> 0, recent |-> <<>>, srtt |-> None, outstanding |-> {},
     lastSent |-> None]

-----------------------------------------------------------------------------
(***************************************************************************)
(* The network, and the peer that answers.                                 *)
(***************************************************************************)

(* PongLimiter::may_answer at the peer, and the network: of the pings sent
   in a pass, those that come back.  A tx id is answered once. *)
Window(t) ==
    IF t - limiter.start >= PONG_WINDOW THEN [start |-> t, answered |-> 0]
    ELSE limiter

AnsweredSets(pings) ==
    LET there == {p \in pings : p.to \notin losing}
        left  == PONG_ANSWERS_PER_WINDOW - Window(now).answered
    IN IF Cardinality(there) <= left THEN {there}
       ELSE {s \in SUBSET there : Cardinality(s) = left}

(* Pings leave, pongs are put on their way. *)
Carry(answered, arrived) ==
    /\ net' = (net \ arrived)
              \cup {[tx |-> p, due |-> now + delay[p.to]] : p \in answered}
    /\ limiter' = IF answered = {} THEN limiter
                  ELSE [Window(now) EXCEPT !.answered = @ + Cardinality(answered)]

(* The pongs try_recv_probe has queued for this pass. *)
Arrived == {p \in net : p.due <= now}

Flip(p) ==
    /\ p \in Used
    /\ flips < MaxFlips
    /\ flips' = flips + 1
    /\ steady' = now
    /\ losing' = IF p \in losing THEN losing \ {p} ELSE losing \cup {p}
    /\ UNCHANGED <<phase, now, lists, table, prog, winner, watch, limiter, net,
                   delay, ok, lost, quiet>>

-----------------------------------------------------------------------------
Init ==
    /\ phase = "exchange"
    /\ now = 0
    /\ lists \in PeerLists \X HeardLists
    /\ table = NewTable({})
    /\ prog = <<>>
    /\ winner = NoWatch
    /\ watch = NoWatch
    /\ limiter = [start |-> 0, answered |-> 0]
    /\ net = {}
    /\ delay = <<>>
    /\ losing = {}
    /\ flips = 0
    /\ ok = <<>>
    /\ lost = {}
    /\ quiet = None
    /\ steady = 0

(* Every phase begins on a clock of its own, over its own paths. *)
BeginPhase(p, paths) ==
    /\ phase' = p
    /\ now' = 0
    /\ net' = {}
    /\ limiter' = [start |-> 0, answered |-> 0]
    /\ delay' \in {d \in [paths -> Delays] :
                     \A q \in paths \cap DOMAIN delay : d[q] = delay[q]}
    /\ losing' = losing \cap paths
    /\ flips' = 0
    /\ lost' = {}
    /\ quiet' = None
    /\ steady' = 0
    /\ lists' = << <<>>, <<>> >>

(* The attempt is built from the exchange and waits for its Start. *)
BuildAttempt ==
    /\ phase = "exchange"
    /\ table' = BuildTable(Observed, lists[1], lists[2])
    /\ prog' = [i \in DOMAIN table'.cands |-> NewCandidate]
    /\ ok' = [i \in DOMAIN table'.cands |-> <<>>]
    /\ phase' = "built"
    /\ UNCHANGED <<now, lists, winner, watch, limiter, net, delay, losing, flips,
                   lost, quiet, steady>>

(* start_signal_received: `now` is 0 at the signal. *)
StartSignalReceived ==
    /\ phase = "built"
    /\ BeginPhase("probing", {table.cands[i].addr : i \in DOMAIN table.cands})
    /\ UNCHANGED <<table, prog, winner, watch, ok>>

(* A Watch, or a RelayWatch with its slow schedule unused, and no table. *)
BeginWatching(p, path, srtt) ==
    /\ BeginPhase(p, {path})
    /\ watch' = [path |-> path, live |-> NewLiveness(srtt),
                 outstanding |-> None, sentAt |-> None,
                 deadSince |-> None, lastDeadProbe |-> None]
    /\ table' = NewTable({})
    /\ prog' = <<>>
    /\ ok' = <<>>
    /\ winner' = NoWatch

(* Punching off, or no Start: the visit is on the relay and stays there. *)
NoUpgrade ==
    /\ phase = "built"
    /\ BeginWatching("relayed", RelayPath, None)

-----------------------------------------------------------------------------
(***************************************************************************)
(* Phase::Probing.                                                         *)
(***************************************************************************)
Elapsed == now - FIRE_IN

BurstInterval ==
    IF Elapsed < PROBE_FAST_WINDOW THEN PROBE_FAST_INTERVAL
    ELSE PROBE_SLOW_INTERVAL

(* due_probes: the candidates whose turn it is. *)
Due ==
    IF Elapsed < 0 \/ Elapsed >= PROBE_GIVE_UP THEN {}
    ELSE {i \in DOMAIN prog :
             prog[i].lastSent # None => now - prog[i].lastSent >= BurstInterval}

GivenUp == Elapsed >= PROBE_GIVE_UP

(* Mutant: an unanswered ping does not end the streak. *)
SentKeepsStreak(c) ==
    [c EXCEPT !.outstanding = {now}, !.lastSent = now]

(* due_probes on one candidate: a ping sent over an unanswered one starts the
   streak again. *)
Sent(c) ==
    IF c.outstanding = {}
    THEN [c EXCEPT !.outstanding = {now}, !.lastSent = now]
    ELSE [c EXCEPT !.outstanding = {now}, !.lastSent = now,
                   !.consecutive = 0, !.recent = <<>>]

(* on_pong on one candidate, and record_rtt. *)
Answer(c, at) ==
    IF at \notin c.outstanding THEN c
    ELSE LET longer == Append(c.recent, now - at) IN
         [c EXCEPT !.outstanding = @ \ {at},
                   !.consecutive = @ + 1,
                   !.recent = IF Len(longer) > CONSECUTIVE_PONGS_TO_WIN
                              THEN Tail(longer) ELSE longer,
                   !.srtt = Smoothed(@, now - at)]

WinningRtt(c) ==
    FoldLeft(LAMBDA a, b : a + b, 0, c.recent) \div Len(c.recent)

(* decide: of the proved candidates the lowest mean, then the table's order
   (the code's is the address as text). *)
Proved(pr) == {i \in DOMAIN pr : pr[i].consecutive >= CONSECUTIVE_PONGS_TO_WIN}

Best(pr) ==
    CHOOSE i \in Proved(pr) : \A j \in Proved(pr) :
        \/ WinningRtt(pr[i]) < WinningRtt(pr[j])
        \/ WinningRtt(pr[i]) = WinningRtt(pr[j]) /\ i <= j

(* The ghost: the last pings of candidate i, told by what the network did. *)
Mark(i, due, arrived) ==
    LET sent == IF i \in due THEN Append(ok[i], FALSE) ELSE ok[i]
        last == Len(sent)
        hit  == \E p \in arrived : p.tx.to = table.cands[i].addr
                                   /\ p.tx.at = (IF i \in due THEN now
                                                 ELSE prog[i].lastSent)
        told == IF hit THEN [sent EXCEPT ![last] = TRUE] ELSE sent
    IN IF last > CONSECUTIVE_PONGS_TO_WIN THEN Tail(told) ELSE told

(* One pass while probing: send, give up or drain, decide. *)
Probe ==
    /\ phase = "probing"
    /\ ~GivenUp
    /\ LET due  == Due
           pings == {[to |-> table.cands[i].addr, at |-> now] : i \in due}
           arr  == Arrived
           sent == [i \in DOMAIN prog |->
                       IF i \in due THEN Sent(prog[i]) ELSE prog[i]]
           ats(i) == {p.tx.at : p \in {q \in arr : q.tx.to = table.cands[i].addr}}
           next == [i \in DOMAIN prog |->
                       FoldSet(LAMBDA at, c : Answer(c, at), sent[i], ats(i))]
       IN /\ \E answered \in AnsweredSets(pings) : Carry(answered, arr)
          /\ lost' = lost \cup ({p.to : p \in pings} \cap losing)
          /\ ok' = [i \in DOMAIN ok |-> Mark(i, due, arr)]
          /\ prog' = next
          /\ IF Proved(next) = {} THEN UNCHANGED <<phase, winner>>
             ELSE /\ phase' = "won"
                  /\ winner' = [at |-> Best(next), rtt |-> WinningRtt(next[Best(next)])]
    /\ now' = now + 1
    /\ UNCHANGED <<lists, table, watch, delay, losing, flips, quiet, steady>>

(* given_up: nothing was proved in the whole burst. *)
GiveUp ==
    /\ phase = "probing"
    /\ GivenUp
    /\ BeginWatching("relayed", RelayPath, None)

(* The upgrade: the winner is watched, its srtt seeded by the winning mean. *)
Upgrade ==
    /\ phase = "won"
    /\ BeginWatching("watching", table.cands[winner.at].addr, winner.rtt)

-----------------------------------------------------------------------------
(***************************************************************************)
(* Phase::Watching and Phase::Relayed.                                     *)
(***************************************************************************)

(* Mutant: probing stops at dead, as it does on a direct path. *)
WatchDueUntilDead == ProbeIsDue(watch.live, now)

(* RelayWatch::due_probe: the slow schedule after dead. *)
WatchDue ==
    IF watch.deadSince = None THEN ProbeIsDue(watch.live, now)
    ELSE watch.lastDeadProbe = None
         \/ now - watch.lastDeadProbe >= DEAD_PROBE_INTERVAL

(* A ping goes out: the tx id of the one before is forgotten. *)
WatchSent(w) ==
    IF w.deadSince = None
    THEN [w EXCEPT !.live = ProbeSent(@, now), !.outstanding = now, !.sentAt = now]
    ELSE [w EXCEPT !.lastDeadProbe = now, !.outstanding = now, !.sentAt = now]

(* Mutant: a ping the local queue refused is timed like one that left. *)
WatchNotSentTimed(w) == w

(* RelayWatch::probe_not_sent. *)
WatchNotSent(w) ==
    [w EXCEPT !.live = IF w.deadSince = None THEN ProbeNotSent(@, now) ELSE @,
              !.lastDeadProbe = IF w.deadSince = None THEN @ ELSE None,
              !.outstanding = None, !.sentAt = None]

(* A pong of the path watched, for the ping in flight. *)
Matches(w, p) == p.tx.to = w.path /\ p.tx.at = w.outstanding

(* The drain: the first poll that finds the relay dead starts the slow
   schedule; an answer to that schedule is a fresh watch; any other answer
   is fed to the liveness. *)
WatchDrain(before, w, arr) ==
    LET u == IF w.path = RelayPath /\ WentDead(before, w.live)
             THEN [w EXCEPT !.deadSince = now, !.outstanding = None] ELSE w
    IN IF ~\E p \in arr : Matches(u, p) THEN u
       ELSE IF u.deadSince # None
       THEN [u EXCEPT !.live = NewLiveness(None), !.outstanding = None,
                      !.sentAt = None, !.deadSince = None, !.lastDeadProbe = None]
       ELSE [u EXCEPT !.live = OnPong(@, now - u.sentAt), !.outstanding = None]

(* The ghost: a ping that is lost begins a silence, a pong ends one. *)
Silence(pingLost, heard) ==
    quiet' = IF pingLost THEN (IF quiet = None \/ heard THEN now ELSE quiet)
             ELSE IF heard THEN None ELSE quiet

(* One pass over the watched path: send, poll, drain. *)
WatchPass ==
    /\ now < Horizon
    /\ LET refused == WatchDue /\ watch.path = RelayPath /\ Queue \in losing
           pings == IF WatchDue /\ ~refused THEN {[to |-> watch.path, at |-> now]}
                    ELSE {}
           arr == Arrived
           a == IF ~WatchDue THEN watch
                ELSE IF refused THEN WatchNotSent(WatchSent(watch))
                ELSE WatchSent(watch)
           b == [a EXCEPT !.live = Poll(@, now)]
       IN /\ \E answered \in AnsweredSets(pings) :
                /\ Carry(answered, arr)
                /\ Silence(pings # answered, arr # {})
          /\ lost' = lost \cup ({p.to : p \in pings} \cap losing)
                          \cup (IF refused THEN {Queue} ELSE {})
          /\ watch' = WatchDrain(watch.live, b, arr)
    /\ now' = now + 1
    /\ UNCHANGED <<phase, lists, table, prog, winner, delay, losing, flips, ok,
                   steady>>

WatchDirect ==
    /\ phase = "watching"
    /\ watch.live.state # "dead"
    /\ WatchPass

WatchRelay ==
    /\ phase = "relayed"
    /\ WatchPass

(* The direct path is dead: the visit waits for a rerun on the relay. *)
PathDead ==
    /\ phase = "watching"
    /\ watch.live.state = "dead"
    /\ BeginWatching("relayed", RelayPath, None)

(* The bound: a watch is followed no further. *)
Enough ==
    /\ phase \in {"watching", "relayed"}
    /\ now = Horizon
    /\ UNCHANGED vars

Next ==
    \/ BuildAttempt \/ StartSignalReceived \/ NoUpgrade
    \/ Probe \/ GiveUp \/ Upgrade
    \/ WatchDirect \/ WatchRelay \/ PathDead
    \/ \E p \in Used : Flip(p)
    \/ Enough

Spec == Init /\ [][Next]_vars

-----------------------------------------------------------------------------
(***************************************************************************)
(* Properties.                                                             *)
(***************************************************************************)

(* The peer's own word never aims this house's probes inside a network: an
   address outside the global range is probed only when the gate or
   discovery heard the peer there, however the list spells it (issue #37). *)
PeerNeverAimsInside ==
    phase = "built" =>
        \A i \in DOMAIN table.cands :
            LET h == table.cands[i].addr.host IN
            /\ Kind[h] \notin {"bad", "noPort"}
            /\ Kind[h] # "global" =>
                  \E a \in Observed \cup ToSet(lists[2]) : a.host = h

(* What discovery heard takes no slot from the peer's list, and no host is
   probed twice under two spellings. *)
PeerListKeepsItsSlots ==
    phase = "built" =>
        /\ \A i, j \in DOMAIN table.cands :
              i # j => table.cands[i].addr.host # table.cands[j].addr.host
        /\ \A k \in DOMAIN lists[1] :
              LET h == lists[1][k].host
                  before == {lists[1][m].host : m \in 1..k}
              IN Kind[h] = "global" /\ Cardinality(before) <= MAX_CANDIDATES =>
                    Holds(table, [host |-> h, mapped |-> FALSE])

(* The table of an attempt: nobody is aimed at on the peer's word alone, and
   no slot of the peer's list goes to something else. *)
TableIsSound == PeerNeverAimsInside /\ PeerListKeepsItsSlots

(* Section 2 step 6: the winner answered its last three pings, each before
   the next one left. *)
WinnerProved ==
    phase = "won" =>
        ok[winner.at] = [k \in 1..CONSECUTIVE_PONGS_TO_WIN |-> TRUE]

(* A burst is given up only when no candidate could have been proved: each
   lost a ping or is slower than the slow schedule. *)
ReachableWins ==
    phase = "probing" /\ GivenUp =>
        \A p \in DOMAIN delay : p \in lost \/ delay[p] >= PROBE_SLOW_INTERVAL

(* The burst finds a path that is there and takes none that is not. *)
ProbingIsRight == WinnerProved /\ ReachableWins

(* A path that answers within the probe interval and loses nothing is never
   called stale, whatever this house's own queue refuses. *)
AnsweringPathStaysLive ==
    /\ phase \in {"watching", "relayed"}
    /\ watch.path \notin lost
    /\ delay[watch.path] < VISIT_PROBE_INTERVAL
    => watch.live.state = "live"

(* A silent path is called stale: three loss deadlines and the two probe
   intervals between them after the first ping that was lost. *)
SilenceDetected ==
    /\ phase \in {"watching", "relayed"}
    /\ quiet # None
    /\ Queue \notin lost
    /\ watch.live.state = "live"
    => now - quiet <= PROBES_TO_STALE * ProbeLossDeadline(watch.live.srtt)
                      + (PROBES_TO_STALE - 1) * VISIT_PROBE_INTERVAL

(* A relay that answers again is seen to: a dead one is probed on, as the comment
   on due_probe has it (punch.rs:1749); the one on RelayWatch (punch.rs:1709)
   denies it, and the code does not. *)
DeadRelayIsSeenBack ==
    /\ phase = "relayed"
    /\ watch.deadSince # None
    /\ RelayPath \notin losing /\ Queue \notin losing
    /\ delay[RelayPath] < DEAD_PROBE_INTERVAL
    => now - Largest(watch.deadSince, steady)
          <= DEAD_PROBE_INTERVAL + delay[RelayPath] + 1
=============================================================================
