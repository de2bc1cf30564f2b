--------------------------- MODULE HeadlessHouse ----------------------------
(***************************************************************************)
(* A house that is home (mosschat-net/src/house.rs `run` and `Visit`) on   *)
(* its gate client (gate/client.rs `reader_loop`, `remember_session`,      *)
(* `await_start`, `attempt_finished`): peers are introduced by the gate,   *)
(* dial, and are held in visits until they leave or the house stops.       *)
(*                                                                         *)
(* A session is the number the gate gives it, and belongs to a peer.  The  *)
(* gate, the peers and their dials are the environment.  Of the doorbell a *)
(* visit runs (module Doorbell) what is kept is where it can wait: for the *)
(* candidates, for the gate's Start, and in the loop, which is the only    *)
(* place it looks at its control.                                          *)
(***************************************************************************)
EXTENDS Naturals, Sequences, FiniteSets, Functions

CONSTANTS
    Peer,
    MaxSession,                     \* bound: sessions the gate makes
    MaxDial,                        \* bound: dials that arrive
    MaxTime,                        \* bound: ticks
    MAX_SESSIONS_PER_REGISTRATION,  \* also MAX_LIVE_VISITS
    MAX_VISITS_PER_PEER,
    GATE_EVENT_QUEUE,
    REGISTRATION_TTL                \* in ticks

VARIABLES
    house,      \* "up", "stopping" (told to), "lost" (its gate), "left"
    owner,      \* sessions made so far -> the peer introduced
    pending,    \* pending_accepts: peers whose knock was accepted
    sess,       \* Inner.sessions: session -> when it was opened, finished?
    starts,     \* Inner.starts: session -> Kept, or the visit that waits
    events,     \* the GateEvent queue
    sessions,   \* peer -> the session the house heard last, 0 for none
    dials,      \* dials at the endpoint, not yet accepted
    visit,      \* visits so far, in order: the dial's peer and session, where it is
    peers,      \* peer -> the visits it is charged for
    now,
    deregistered \* the house's frame 11 is sent

vars == <<house, owner, pending, sess, starts, events, sessions, dials, visit, peers,
          now, deregistered>>

client == <<owner, pending, sess, starts>>
desk == <<events, sessions, dials>>

Kept == 0      \* no visit has this number

Session == DOMAIN owner

Visits == DOMAIN visit

(* Every live visit has its control in the house's table. *)
Live == {v \in Visits : visit[v].pc # "done"}

InDoorbell == {v \in Visits : visit[v].pc \in {"expect", "await", "loop"}}

At(v, pc) == visit' = [visit EXCEPT ![v].pc = pc]

-----------------------------------------------------------------------------
Init ==
    /\ house = "up"
    /\ owner = <<>>
    /\ pending = {}
    /\ sess = <<>>
    /\ starts = <<>>
    /\ events = <<>>
    /\ sessions = [p \in Peer |-> 0]
    /\ dials = {}
    /\ visit = <<>>
    /\ peers = [p \in Peer |-> 0]
    /\ now = 0
    /\ deregistered = FALSE

(* emit_event: never waits; a full queue drops the newest. *)
EmitEvent(e) ==
    events' = IF Len(events) < GATE_EVENT_QUEUE THEN Append(events, e) ELSE events

(* answer_knock, once the knock is accepted (the verdict is Knocks'). *)
AnswerKnock(p) ==
    /\ house = "up"
    /\ Len(owner) < MaxSession
    /\ pending' = pending \cup {p}
    /\ EmitEvent([t |-> "knock"])
    /\ UNCHANGED <<house, owner, sess, starts, sessions, dials, visit,
                   peers, now, deregistered>>

(* remember_session: what has outlived the registration's time is swept, and
   room is made, the oldest finished entry first. *)
Swept(m) == Restrict(m, {s \in DOMAIN m : now - m[s].at < REGISTRATION_TTL})

Earliest(m, c) == CHOOSE s \in c : \A t \in c :
                      m[s].at < m[t].at \/ (m[s].at = m[t].at /\ s <= t)

Room(m) ==
    LET done == {s \in DOMAIN m : m[s].fin}
        out  == Earliest(m, IF done # {} THEN done ELSE DOMAIN m)
    IN IF Cardinality(DOMAIN m) < MAX_SESSIONS_PER_REGISTRATION THEN m
       ELSE Restrict(m, DOMAIN m \ {out})

RememberSession(s) ==
    LET m == Room(Swept(sess)) IN
    [t \in DOMAIN m \cup {s} |-> IF t = s THEN [at |-> now, fin |-> FALSE] ELSE m[t]]

(* reader_loop on Introduction, for a knock this house accepted: the session
   is remembered, its route and path exist, and the house is told. *)
Introduction(p) ==
    /\ house = "up"
    /\ p \in pending
    /\ Len(owner) < MaxSession
    /\ LET s == Len(owner) + 1 IN
       /\ owner' = Append(owner, p)
       /\ sess' = RememberSession(s)
       /\ EmitEvent([t |-> "introduced", s |-> s])
    /\ pending' = pending \ {p}
    /\ UNCHANGED <<house, starts, sessions, dials, visit, peers, now, deregistered>>

(* reader_loop on Start, which a peer may ask of the gate at any time, also
   before this house's exchange is over: for a session held, and within the
   slots' cap; a visit that waits is answered, otherwise it is kept. *)
Start(s) ==
    /\ house # "left"
    /\ s \in Session
    /\ IF s \notin DOMAIN sess THEN UNCHANGED <<starts, visit>>
       ELSE IF s \in DOMAIN starts /\ starts[s] # Kept
       THEN /\ starts' = Restrict(starts, DOMAIN starts \ {s})
            /\ At(starts[s], "loop")
       ELSE IF s \notin DOMAIN starts
               /\ Cardinality(DOMAIN starts) >= MAX_SESSIONS_PER_REGISTRATION
       THEN UNCHANGED <<starts, visit>>
       ELSE /\ starts' = [t \in DOMAIN starts \cup {s} |->
                             IF t = s THEN Kept ELSE starts[t]]
            /\ UNCHANGED visit
    /\ UNCHANGED <<house, owner, pending, sess, desk, peers, now, deregistered>>

(* A peer's dial reaches the endpoint: only through a session this house has
   a route for. *)
Dial(s) ==
    /\ house = "up"
    /\ s \in Session
    /\ Cardinality(dials) + Len(visit) < MaxDial
    /\ dials' = dials \cup {s}
    /\ UNCHANGED <<house, client, events, sessions, visit, peers, now, deregistered>>

Tick ==
    /\ house = "up"
    /\ now < MaxTime
    /\ now' = now + 1
    /\ UNCHANGED <<house, client, desk, visit, peers, deregistered>>

-----------------------------------------------------------------------------
(***************************************************************************)
(* The house's loop, biased: stop, gate lost, gate events, then dials.     *)
(***************************************************************************)
TakeEvent ==
    /\ house = "up"
    /\ events # <<>>
    /\ events' = Tail(events)
    /\ sessions' = IF Head(events).t # "introduced" THEN sessions
                   ELSE [sessions EXCEPT ![owner[Head(events).s]] = Head(events).s]
    /\ UNCHANGED <<house, client, dials, visit, peers, now, deregistered>>

(* A dial is accepted with every gate event taken; past the cap it is
   refused. *)
Accept ==
    /\ house = "up"
    /\ events = <<>>
    /\ \E s \in dials :
          /\ dials' = dials \ {s}
          /\ visit' = Append(visit,
                [via |-> s, peer |-> owner[s], sess |-> 0, charged |-> FALSE,
                 pc |-> IF Cardinality(Live) >= MAX_SESSIONS_PER_REGISTRATION
                        THEN "done" ELSE "handshake"])
    /\ UNCHANGED <<house, client, events, sessions, peers, now, deregistered>>

(* The stop, or the end of the gate connection: every visit's control is
   told, once. *)
Shutdown ==
    /\ house = "up"
    /\ house' \in {"stopping", "lost"}
    /\ UNCHANGED <<client, desk, visit, peers, now, deregistered>>

(* The grace is over, which is long enough for a loop to say goodbye; the
   visits still waiting for something are aborted, and frame 11 goes out if
   there is a gate to tell. *)
Depart ==
    /\ house \in {"stopping", "lost"}
    /\ \A v \in Visits : visit[v].pc # "loop"
    /\ deregistered' = (house = "stopping")
    /\ house' = "left"
    /\ visit' = <<>> /\ sess' = <<>> /\ starts' = <<>>
    /\ UNCHANGED <<owner, pending, desk, peers, now>>

-----------------------------------------------------------------------------
(***************************************************************************)
(* A visit.                                                                *)
(***************************************************************************)

(* Mutant: the slot is given back by visits that ended in their doorbell. *)
EndedInDoorbell(v) ==
    /\ visit' = [visit EXCEPT ![v].pc = "done", ![v].charged = FALSE,
                             ![v].sess = 0, ![v].via = 0]
    /\ peers' = [peers EXCEPT ![visit[v].peer] =
                    IF visit[v].charged /\ visit[v].pc \in {"expect", "await", "loop"}
                    THEN @ - 1 ELSE @]

(* Visit::run's end: the control leaves the table and the peer's slot, if one
   was charged, is given back. *)
Ended(v) ==
    /\ visit' = [visit EXCEPT ![v].pc = "done", ![v].charged = FALSE,
                             ![v].sess = 0, ![v].via = 0]
    /\ peers' = [peers EXCEPT ![visit[v].peer] =
                    IF visit[v].charged THEN @ - 1 ELSE @]

(* attempt_finished, by the attempt's guard. *)
AttemptFinished(s) ==
    /\ sess' = [t \in DOMAIN sess |-> IF t = s THEN [sess[t] EXCEPT !.fin = TRUE]
                                      ELSE sess[t]]
    /\ starts' = Restrict(starts, DOMAIN starts \ {s})

(* accept_peer fails. *)
HandshakeFails(v) ==
    /\ visit[v].pc = "handshake"
    /\ Ended(v)
    /\ UNCHANGED <<house, client, desk, now, deregistered>>

(* The key is proven: the peer is charged, or turned away at its cap. *)
Handshake(v) ==
    LET p == visit[v].peer IN
    /\ visit[v].pc = "handshake"
    /\ IF peers[p] >= MAX_VISITS_PER_PEER THEN Ended(v)
       ELSE /\ visit' = [visit EXCEPT ![v].pc = "session", ![v].charged = TRUE]
            /\ peers' = [peers EXCEPT ![p] = @ + 1]
    /\ UNCHANGED <<house, client, desk, now, deregistered>>

(* wait_for_session, and the doorbell begins. *)
WaitForSession(v) ==
    LET p == visit[v].peer IN
    /\ visit[v].pc = "session"
    /\ sessions[p] # 0
    /\ visit' = [visit EXCEPT ![v].pc = "expect", ![v].sess = sessions[p]]
    /\ UNCHANGED <<house, client, desk, peers, now, deregistered>>

(* SESSION_WAIT passes with no introduction. *)
NoIntroduction(v) ==
    /\ visit[v].pc = "session"
    /\ sessions[visit[v].peer] = 0
    /\ Ended(v)
    /\ UNCHANGED <<house, client, desk, now, deregistered>>

(* The exchange is over: await_start takes the kept signal, or waits, in the
   place of whoever waited before. *)
AwaitStart(v) ==
    LET s == visit[v].sess IN
    /\ visit[v].pc = "expect"
    /\ IF s \in DOMAIN starts /\ starts[s] = Kept
       THEN /\ starts' = Restrict(starts, DOMAIN starts \ {s})
            /\ At(v, "loop")
       ELSE /\ starts' = [t \in DOMAIN starts \cup {s} |->
                             IF t = s THEN v ELSE starts[t]]
            /\ At(v, "await")
    /\ UNCHANGED <<house, owner, pending, sess, desk, peers, now, deregistered>>

(* Mutant: a wait that runs out leaves its slot behind. *)
StartTimesOutKeepsSlot(v) ==
    /\ visit[v].pc = "await"
    /\ At(v, "loop")
    /\ UNCHANGED <<house, owner, pending, sess, starts, desk, peers,
                   now, deregistered>>

(* The wait runs out, or another visit took the slot: a held visit goes on
   over the relay. *)
StartTimesOut(v) ==
    /\ visit[v].pc = "await"
    /\ starts' = Restrict(starts, DOMAIN starts \ {visit[v].sess})
    /\ At(v, "loop")
    /\ UNCHANGED <<house, owner, pending, sess, desk, peers, now, deregistered>>

(* The peer reruns the doorbell: this attempt is finished, the next begins. *)
Rerun(v) ==
    /\ visit[v].pc = "loop"
    /\ AttemptFinished(visit[v].sess)
    /\ At(v, "expect")
    /\ UNCHANGED <<house, owner, pending, desk, peers, now, deregistered>>

(* The peer leaves, the connection ends, or the exchange fails. *)
PeerLeaves(v) ==
    /\ v \in InDoorbell
    /\ visit[v].pc # "await"
    /\ IF visit[v].pc = "loop" THEN AttemptFinished(visit[v].sess)
       ELSE UNCHANGED <<sess, starts>>
    /\ Ended(v)
    /\ UNCHANGED <<house, owner, pending, desk, now, deregistered>>

(* The loop sees its control: frame 19, the record, the end. *)
SayGoodbye(v) ==
    /\ house \in {"stopping", "lost"}
    /\ visit[v].pc = "loop"
    /\ AttemptFinished(visit[v].sess)
    /\ Ended(v)
    /\ UNCHANGED <<house, owner, pending, desk, now, deregistered>>

Gone == house = "left" /\ UNCHANGED vars

VisitStep(v) ==
    \/ HandshakeFails(v) \/ Handshake(v) \/ WaitForSession(v) \/ NoIntroduction(v)
    \/ AwaitStart(v) \/ StartTimesOut(v) \/ Rerun(v) \/ PeerLeaves(v) \/ SayGoodbye(v)

Next ==
    \/ \E p \in Peer : AnswerKnock(p) \/ Introduction(p)
    \/ \E s \in 1..MaxSession : Start(s) \/ Dial(s)
    \/ Tick
    \/ TakeEvent \/ Accept \/ Shutdown \/ Depart
    \/ \E v \in Visits : VisitStep(v)
    \/ Gone

Spec == Init /\ [][Next]_vars

-----------------------------------------------------------------------------
(***************************************************************************)
(* Properties.                                                             *)
(***************************************************************************)

(* The house's slots are its visits: each peer is charged for exactly the
   visits it holds, and neither cap is passed, however a visit ended. *)
SlotsAreVisits ==
    house # "left" =>
        /\ Cardinality(Live) <= MAX_SESSIONS_PER_REGISTRATION
        /\ \A p \in Peer :
              /\ peers[p] = Cardinality({v \in Live : visit[v].peer = p
                                                      /\ visit[v].pc # "handshake"})
              /\ peers[p] <= MAX_VISITS_PER_PEER

(* A visit that waits for its Start holds the slot the Start will look for,
   unless another visit of that session took it: no answer goes to a visit
   that is over. *)
StartFindsAWaiter ==
    \A s \in DOMAIN starts :
        starts[s] # Kept =>
            visit[starts[s]].pc = "await" /\ visit[starts[s]].sess = s
=============================================================================
