----------------------------- MODULE HouseRelay -----------------------------
(***************************************************************************)
(* The sending half of a relayed visit: the connection drivers of a house  *)
(* that send to a peer's synthetic address, the shaped egress queue and    *)
(* its drain onto the gate connection (PorchSocket,                        *)
(* crates/mosschat-net/src/sock.rs, and PathEntry, path.rs).               *)
(*                                                                         *)
(* A datagram is a number.  The socket is used for one gate connection, as *)
(* the gate client does, and the UDP socket itself never refuses a write.  *)
(***************************************************************************)
EXTENDS RelayShaper

CONSTANTS
  Driver,      \* connection drivers that relay to the peer
  Depth,       \* HOUSE_RELAY_QUEUE_DEPTH
  Burst,       \* HOUSE_DRAIN_BURST
  MaxSegments, \* max_transmit_segments
  MaxData      \* bound on the datagrams sent

\* GSO gives at most 64 segments, the queue holds 100: a poll for room for a
\* whole transmit can succeed.
ASSUME DepthAssumption ==
  /\ Depth \in Nat /\ Burst \in Nat \ {0} /\ MaxData \in Nat
  /\ MaxSegments \in Nat \ {0} /\ MaxSegments <= Depth

VARIABLES
  hq,        \* the egress queue, with its drain
  driver,    \* "poll", "send", "parked" or "failed"
  adopted,   \* the driver's poller knows that it relays (relay_destination)
  transmit,  \* the transmit a driver has to send; kept when it is refused
  nextData,  \* datagrams made so far
  direct,    \* PathKind::Direct
  session,   \* register_relay_session has been called
  attach,    \* attach_gate: "none", "gate" (gate set, queues to start), "done", "detached"
  drained,   \* B's address is in RelayRoutes::drained
  gateLost,  \* A's gate connection is gone
  out        \* what the drain wrote to the gate connection, in order

vars == <<hq, driver, adopted, transmit, nextData, direct, session, attach, drained,
          gateLost, out>>

Data == 1..MaxData

Init ==
  /\ hq = EmptyShaper
  /\ driver = [d \in Driver |-> "poll"]
  /\ adopted = [d \in Driver |-> FALSE]
  /\ transmit = [d \in Driver |-> <<>>]
  /\ nextData = 1
  /\ direct = FALSE
  /\ session = FALSE
  /\ attach = "none"
  /\ drained = FALSE
  /\ gateLost = FALSE
  /\ out = <<>>

-----------------------------------------------------------------------------
(* The session, the gate connection and the drain's start.                 *)

\* register_relay_session: the route, and the drain if a gate is attached.
RegisterRelaySession ==
  LET starts == attach \in {"gate", "done"} /\ ~drained IN
  /\ ~session
  /\ session' = TRUE
  /\ drained' = (drained \/ starts)
  /\ hq' = IF starts THEN [hq EXCEPT !.drain = "run"] ELSE hq
  /\ UNCHANGED <<driver, adopted, transmit, nextData, direct, attach, gateLost, out>>

\* attach_gate, under the lock on the routes.
AttachGate ==
  /\ attach = "none"
  /\ attach' = "gate"
  /\ UNCHANGED <<hq, driver, adopted, transmit, nextData, direct, session, drained,
                 gateLost, out>>

\* attach_gate, then: a session registered before it gets its drain.
StartUndrained ==
  LET starts == session /\ ~drained IN
  /\ attach = "gate"
  /\ attach' = "done"
  /\ drained' = (drained \/ starts)
  /\ hq' = IF starts THEN [hq EXCEPT !.drain = "run"] ELSE hq
  /\ UNCHANGED <<driver, adopted, transmit, nextData, direct, session, gateLost, out>>

\* The gate connection is gone, and nobody has noticed yet.
LoseGate ==
  /\ attach # "none" /\ ~gateLost
  /\ gateLost' = TRUE
  /\ UNCHANGED <<hq, driver, adopted, transmit, nextData, direct, session, attach,
                 drained, out>>

\* The reader task sees the connection end: detach_gate.
DetachGate ==
  /\ attach = "done" /\ gateLost
  /\ attach' = "detached"
  /\ drained' = FALSE
  /\ UNCHANGED <<hq, driver, adopted, transmit, nextData, direct, session, gateLost,
                 out>>

\* upgrade_to and fall_back_to_relay.  Nobody is woken.  The smoothed RTT and the
\* epoch they also reset are read by the congestion controller only.
SwitchPath ==
  /\ direct' = ~direct
  /\ UNCHANGED <<hq, driver, adopted, transmit, nextData, session, attach, drained,
                 gateLost, out>>

-----------------------------------------------------------------------------
(* A connection driver, which polls and then sends.                        *)

\* PorchPoller::poll_writable: a relayed connection waits for room for the
\* largest transmit.
PollWritable(d) ==
  LET polled == PollRoom(hq, MaxSegments, Depth, d)
      gated  == adopted[d] /\ ~direct
  IN /\ session /\ driver[d] = "poll"
     /\ transmit[d] # <<>> \/ nextData <= MaxData
     /\ driver' = [driver EXCEPT ![d] = IF gated /\ ~polled.ready THEN "parked" ELSE "send"]
     /\ hq' = IF gated THEN polled.q ELSE hq
     /\ UNCHANGED <<adopted, transmit, nextData, direct, session, attach, drained,
                    gateLost, out>>

\* quinn polls again for reasons of its own: a timer, a packet that came in.
Stir(d) ==
  /\ driver[d] = "parked"
  /\ driver' = [driver EXCEPT ![d] = "poll"]
  /\ UNCHANGED <<hq, adopted, transmit, nextData, direct, session, attach, drained,
                 gateLost, out>>

\* The transmits quinn may hand to try_send: the one that was refused, or a new one.
Transmits(d) ==
  IF transmit[d] # <<>> THEN {transmit[d]}
  ELSE { [i \in 1..n |-> nextData + i - 1] :
           n \in { m \in 1..MaxSegments : nextData + m - 1 <= MaxData } }

\* PorchSocket::try_send: onto the wire on a direct path, an error without a
\* gate, and otherwise into the queue, whole; a refused transmit is kept.
TrySend(d, t) ==
  LET tried == TryEnqueueAll(hq, t, Depth)
      relay == ~direct
      fails == relay /\ (attach \in {"none", "detached"} \/ tried.result = "Closed")
      queues == relay /\ ~fails
  IN /\ driver[d] = "send"
     /\ nextData' = IF transmit[d] # <<>> THEN nextData ELSE nextData + Len(t)
     /\ driver' = [driver EXCEPT ![d] = IF fails THEN "failed" ELSE "poll"]
     /\ adopted' = [adopted EXCEPT ![d] = @ \/ queues]
     /\ transmit' = [transmit EXCEPT ![d] =
                       IF queues /\ tried.result = "Full" THEN t ELSE <<>>]
     /\ hq' = IF queues THEN tried.q ELSE hq
     /\ UNCHANGED <<direct, session, attach, drained, gateLost, out>>

-----------------------------------------------------------------------------
(* spawn_relay_drain.                                                      *)

\* Drivers whose wakers were taken poll again.
Woken(q, r) ==
  [d \in Driver |-> IF d \in q.wakers \ r.wakers /\ driver[d] = "parked"
                    THEN "poll" ELSE driver[d]]

\* A pass of RelayShaper::drain; a pass that only sleeps changes nothing.
Drain ==
  /\ hq.drain = "run"
  /\ \E q \in Passes(hq, Burst) : hq' = q /\ driver' = Woken(hq, q)
  /\ UNCHANGED <<adopted, transmit, nextData, direct, session, attach, drained,
                 gateLost, out>>

Await ==
  /\ hq.drain = "wait"
  /\ hq' = AwaitArrival(hq)
  /\ UNCHANGED <<driver, adopted, transmit, nextData, direct, session, attach, drained,
                 gateLost, out>>

\* still_attached, after the batch has left the queue.
Check ==
  /\ hq.drain = "check"
  /\ hq' = IF attach \in {"gate", "done"} THEN [hq EXCEPT !.drain = "send"] ELSE Ended(hq)
  /\ UNCHANGED <<driver, adopted, transmit, nextData, direct, session, attach, drained,
                 gateLost, out>>

\* send_datagram_wait for each of the batch.
Send ==
  /\ hq.drain = "send"
  /\ \/ /\ hq.batch = <<>>
        /\ hq' = [hq EXCEPT !.drain = "run"]
        /\ UNCHANGED out
     \/ /\ hq.batch # <<>> /\ gateLost
        /\ hq' = Ended(hq)
        /\ UNCHANGED out
     \/ /\ hq.batch # <<>> /\ ~gateLost
        /\ hq' = [hq EXCEPT !.batch = Tail(@)]
        /\ out' = Append(out, Head(hq.batch))
  /\ UNCHANGED <<driver, adopted, transmit, nextData, direct, session, attach, drained,
                 gateLost>>

-----------------------------------------------------------------------------
Next ==
  \/ RegisterRelaySession \/ AttachGate \/ StartUndrained \/ LoseGate \/ DetachGate
  \/ SwitchPath
  \/ \E d \in Driver : PollWritable(d) \/ Stir(d)
  \/ \E d \in Driver : \E t \in Transmits(d) : TrySend(d, t)
  \/ Drain \/ Await \/ Check \/ Send

Spec == Init /\ [][Next]_vars

\* The runtime schedules attach_gate's caller and the drain, and the drain's
\* budget accrues.
FairSpec == Spec /\ WF_vars(StartUndrained) /\ WF_vars(Drain \/ Await \/ Check \/ Send)
-----------------------------------------------------------------------------
\* Issue #19's stall as a state: while the gate connection is up, a queue with
\* something in it, or with a driver parked on it, has a drain that will look at
\* it, in whichever order session and gate came and whatever was enqueued while
\* the drain was between looking and waiting (sock.rs:366, path.rs:601, 694).
NoStall ==
  attach = "done" /\ ~gateLost /\ (hq.items # <<>> \/ hq.wakers # {}) => ~Asleep(hq)

\* Back-pressure ends: a driver that poll_writable parked polls again, by the
\* drain's doing alone, unless the gate connection is lost (path.rs:594).
ParkedResumes ==
  \A d \in Driver : driver[d] = "parked" ~> driver[d] # "parked" \/ gateLost

Pipe == INSTANCE RelayPipe WITH
  Capacity <- Depth + Burst,
  pending  <- IF hq.drain = "done" THEN <<>> ELSE hq.batch \o hq.items,
  out      <- out,
  shut     <- hq.drain = "done"

\* The egress delivers to the gate connection in order, exactly once, all of it
\* until the drain ends (path.rs:514, sock.rs:526).
InOrder == Pipe!Spec
=============================================================================
