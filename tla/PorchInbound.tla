---------------------------- MODULE PorchInbound ----------------------------
(***************************************************************************)
(* The receiving half of the porch socket (PorchSocket, mosschat-net/src/  *)
(* sock.rs): quinn's endpoint driver polls it, the gate connection's reader*)
(* task delivers relayed datagrams into a bounded queue, doorbells arm and *)
(* disarm the probe keys of their attempts, and connections lease the      *)
(* source addresses they dialled.                                          *)
(*                                                                         *)
(* poll_recv is cut where another thread can come between its locks.  A    *)
(* datagram of the wire is its source and its segments (GRO may coalesce   *)
(* several): QUIC, or a probe with the attempt it names and the attempt    *)
(* whose key signed it.  A relayed QUIC datagram is only counted.  Left    *)
(* out: relayed probes, which the gate reader files by the same            *)
(* queue_probes, and errors of the socket, which poll_recv returns to      *)
(* quinn when the queue gave nothing and drops when it did.                *)
(***************************************************************************)
EXTENDS Naturals, Sequences

CONSTANTS
    Attempt,                    \* attempts of doorbells on this socket
    Gate, Peer, Stranger,       \* wire addresses
    MaxLease,                   \* bound: connections to the gate at a time
    Datagram,                   \* what may arrive on the wire
    Slots,                      \* receive buffers quinn passes, per platform
    INBOUND_RELAY_QUEUE_CAP,
    INBOUND_PROBE_QUEUE_CAP,
    COOP_BUDGET                 \* reads tokio lets one poll of a task make

ASSUME PorchInboundAssumption ==
    /\ MaxLease \in Nat
    /\ Slots \subseteq Nat \ {0}
    /\ INBOUND_RELAY_QUEUE_CAP \in Nat \ {0}
    /\ INBOUND_PROBE_QUEUE_CAP \in Nat \ {0}
    /\ COOP_BUDGET \in Nat \ {0}

Addr == {Gate, Peer, Stranger}

(* A piece of a datagram: a QUIC packet, or a probe with the attempt it names
   and the attempt whose key signed it. *)
Segment == [t : {"quic"}] \cup [t : {"probe"}, names : Attempt, key : Attempt]

(* Three different socket addresses, none of them one of ClassifySource's other
   verdicts; and what the wire carries has a source and segments. *)
ASSUME AddressAssumption ==
    /\ Gate # Peer /\ Gate # Stranger /\ Peer # Stranger
    /\ Addr \cap {"synthetic", "drop"} = {}
    /\ Datagram \subseteq [src : Addr, segs : Seq(Segment)]

VARIABLES
    slots,      \* bufs.len()
    wire,       \* the datagram in the socket's buffer, <<>> if none
    queue,      \* length of inbound_synthetic
    taker,      \* the gate reader in deliver_synthetic: "idle", or "wake" to do
    waker,      \* the reader's waker is stored
    ready,      \* the socket's readiness is awaited by the reader
    woken,      \* the reader's task has been woken
    reader,     \* where poll_recv is
    socketFirst,\* poll_recv_prefer_socket
    budget,     \* queue_budget of this call, then what it filled
    reads,      \* reads this call has made
    inHand,     \* the datagram being split, with the keys it is checked against
    armed,      \* the drop rule is in force
    leases,     \* connections to the gate that are live: by_lease's size
    refs,       \* address -> its count in the union of the live sets
    direct,     \* Peer is proved as the peer's direct address
    keys,       \* attempt -> its probe key: armed, or over
    probes,     \* attempt -> probes queued for its doorbell
    given,      \* ghost: the sources of what poll_recv last returned
    strange     \* ghost: quinn was shown a stranger's packet under the drop rule

vars == <<slots, wire, queue, taker, waker, ready, woken, reader, socketFirst,
          budget, reads, inHand, armed, leases, refs, direct, keys, probes, given, strange>>

turn == <<socketFirst, budget, reads>>
sock == <<armed, leases, refs, direct>>
bell == <<keys, probes>>

NoHand == [segs |-> <<>>]

Init ==
    /\ slots \in Slots
    /\ wire = <<>>
    /\ queue = 0
    /\ taker = "idle"
    /\ waker = FALSE /\ ready = FALSE /\ woken = FALSE
    /\ reader = "runnable"
    /\ socketFirst = FALSE
    /\ budget = 0
    /\ reads = 0
    /\ inHand = NoHand
    /\ armed = FALSE
    /\ leases = 0
    /\ refs = [a \in Addr |-> 0]
    /\ direct = FALSE
    /\ keys = [a \in Attempt |-> "armed"]
    /\ probes = [a \in Attempt |-> <<>>]
    /\ given = {}
    /\ strange = FALSE

-----------------------------------------------------------------------------
(***************************************************************************)
(* Everybody else: the network, the gate reader, connections, doorbells.   *)
(***************************************************************************)

(* The kernel has a datagram; a reader that waits for readiness is woken. *)
Arrive(d) ==
    /\ wire = <<>>
    /\ wire' = <<d>>
    /\ woken' = (woken \/ ready)
    /\ ready' = FALSE
    /\ UNCHANGED <<slots, queue, taker, waker, reader, turn,
                   inHand, sock, bell, given, strange>>

(* deliver_synthetic on a QUIC payload: a full queue drops the newest. *)
DeliverSynthetic ==
    /\ taker = "idle"
    /\ IF queue >= INBOUND_RELAY_QUEUE_CAP THEN UNCHANGED <<queue, taker>>
       ELSE queue' = queue + 1 /\ taker' = "wake"
    /\ UNCHANGED <<slots, wire, waker, ready, woken, reader, turn,
                   inHand, sock, bell, given, strange>>

(* Then the stored waker is taken and woken. *)
DeliverWake ==
    /\ taker = "wake"
    /\ taker' = "idle"
    /\ woken' = (woken \/ waker)
    /\ waker' = FALSE
    /\ UNCHANGED <<slots, wire, queue, ready, reader, turn, inHand,
                   sock, bell, given, strange>>

(* allow_source: before the gate is dialled, when it is attached, and for a
   Reflect, which may name the gate's own port.  The first dial arms. *)
AllowSource ==
    /\ leases < MaxLease
    /\ leases' = leases + 1
    /\ refs' = [refs EXCEPT ![Gate] = @ + 1]
    /\ armed' = TRUE
    /\ UNCHANGED <<slots, wire, queue, taker, waker, ready, woken, reader,
                   turn, inHand, direct, bell, given, strange>>

(* Mutant: a close withdraws the address for everyone. *)
ForgetSourceForAll ==
    /\ leases > 0
    /\ leases' = leases - 1
    /\ refs' = [refs EXCEPT ![Gate] = 0]
    /\ UNCHANGED <<slots, wire, queue, taker, waker, ready, woken, reader,
                   turn, inHand, armed, direct, bell, given, strange>>

(* forget_source: a lease takes back what it put in. *)
ForgetSource ==
    /\ leases > 0
    /\ leases' = leases - 1
    /\ refs' = [refs EXCEPT ![Gate] = IF @ = 0 THEN 0 ELSE @ - 1]
    /\ UNCHANGED <<slots, wire, queue, taker, waker, ready, woken, reader,
                   turn, inHand, armed, direct, bell, given, strange>>

(* The path table gains or loses the peer's proved address. *)
SwitchPath ==
    /\ direct' = ~direct
    /\ UNCHANGED <<slots, wire, queue, taker, waker, ready, woken, reader,
                   turn, inHand, armed, leases, refs, bell, given,
                   strange>>

(* disarm_probe_key.  Its two locks are one action: between them a datagram in
   hand may be filed by the key it saw, as well before both, and another read
   without the key, as well after both. *)
DisarmProbeKey(a) ==
    /\ keys[a] = "armed"
    /\ keys' = [keys EXCEPT ![a] = "over"]
    /\ probes' = [probes EXCEPT ![a] = <<>>]
    /\ UNCHANGED <<slots, wire, queue, taker, waker, ready, woken, reader,
                   turn, inHand, sock, given, strange>>

(* The doorbell of attempt a, on its tick. *)
TryRecvProbe(a) ==
    /\ keys[a] = "armed"
    /\ probes[a] # <<>>
    /\ probes' = [probes EXCEPT ![a] = Tail(@)]
    /\ UNCHANGED <<slots, wire, queue, taker, waker, ready, woken, reader,
                   turn, inHand, sock, keys, given, strange>>

-----------------------------------------------------------------------------
(***************************************************************************)
(* Splitting a datagram.                                                   *)
(***************************************************************************)
QuicOf(segs) == {i \in DOMAIN segs : segs[i].t = "quic"}

(* queue_probes on one segment: the key that verifies it is the key of the
   attempt it names, and a full queue drops it. *)
FileProbe(queues, p, known) ==
    IF /\ p.t = "probe" /\ p.key \in known /\ p.names = p.key
       /\ Len(queues[p.names]) < INBOUND_PROBE_QUEUE_CAP
    THEN [queues EXCEPT ![p.names] = Append(@, p)] ELSE queues

(* queue_probes: the segments of a datagram, one after the other. *)
QueueProbes(queues, segs, known) ==
    LET upto[n \in 0..Len(segs)] ==
          IF n = 0 THEN queues ELSE FileProbe(upto[n - 1], segs[n], known)
    IN upto[Len(segs)]

(* classify_source: what quinn is shown of a packet from a. *)
ClassifySource(a) ==
    IF refs[a] > 0 THEN a
    ELSE IF direct /\ a = Peer THEN "synthetic"
    ELSE IF ~armed THEN a
    ELSE "drop"

-----------------------------------------------------------------------------
(***************************************************************************)
(* poll_recv.                                                              *)
(***************************************************************************)
(* What the call returns: the queue's share, if any, and the socket's. *)
Return(fromSocket, filled) ==
    /\ reader' = "runnable"
    /\ given' = fromSocket \cup (IF filled > 0 THEN {"queue"} ELSE {})

(* Mutant: the queue has the first turn in every call. *)
TurnQueueAlways == /\ socketFirst' = socketFirst
                   /\ budget' = IF slots > 1 THEN slots - 1 ELSE 1

(* queue_first: with one buffer the turns alternate, with more the last one
   is the socket's. *)
Turn ==
    IF slots > 1 THEN budget' = slots - 1 /\ UNCHANGED socketFirst
    ELSE /\ socketFirst' = ~socketFirst
         /\ budget' = IF socketFirst THEN 0 ELSE 1

(* Mutant: only the socket's readiness wakes the reader. *)
PollBeginLate ==
    /\ reader = "runnable" \/ (reader = "parked" /\ woken)
    /\ woken' = FALSE
    /\ Turn
    /\ reads' = 0
    /\ reader' = "drain"
    /\ UNCHANGED <<slots, wire, queue, taker, waker, ready, inHand, sock, bell, given,
                   strange>>

(* The waker is stored before anything is looked at. *)
PollBegin ==
    /\ reader = "runnable" \/ (reader = "parked" /\ woken)
    /\ woken' = FALSE
    /\ waker' = TRUE
    /\ Turn
    /\ reads' = 0
    /\ reader' = "drain"
    /\ UNCHANGED <<slots, wire, queue, taker, ready, inHand, sock, bell, given,
                   strange>>

(* drain_queue_into, for the queue's share.  `budget` then counts what is
   filled. *)
PollDrain ==
    LET filled == IF queue < budget THEN queue ELSE budget IN
    /\ reader = "drain"
    /\ queue' = queue - filled
    /\ budget' = filled
    /\ IF filled = slots
       THEN Return({}, filled)
       ELSE reader' = (IF budget = 0 THEN "socketLast" ELSE "socket")
            /\ UNCHANGED given
    /\ UNCHANGED <<slots, wire, taker, waker, ready, woken, socketFirst, reads,
                   inHand, sock, bell, strange>>

(* poll_recv_ready is Pending: nothing is there and readiness is awaited, or
   the task has used up its budget and is woken at once. *)
NotReady ==
    /\ IF reads < COOP_BUDGET THEN ready' = TRUE /\ UNCHANGED woken
       ELSE woken' = TRUE /\ UNCHANGED ready
    /\ IF budget > 0 THEN Return({}, budget)
       ELSE reader' = (IF reader = "socketLast" THEN "last" ELSE "parked")
            /\ UNCHANGED given

(* The socket is read. *)
PollSocket ==
    /\ reader \in {"socket", "socketLast"}
    /\ IF wire # <<>> /\ reads < COOP_BUDGET
       THEN /\ inHand' = [segs |-> wire[1].segs, src |-> wire[1].src,
                          known |-> {a \in Attempt : keys[a] = "armed"},
                          last |-> reader = "socketLast"]
            /\ wire' = <<>>
            /\ reads' = reads + 1
            /\ reader' = "split"
            /\ UNCHANGED <<ready, woken, given>>
       ELSE NotReady /\ UNCHANGED <<wire, reads, inHand>>
    /\ UNCHANGED <<slots, queue, taker, waker, socketFirst, budget, sock, bell,
                   strange>>

(* demultiplex: probes are filed against the keys seen armed, what is left
   is classified, and a batch with nothing for quinn is not progress. *)
PollSplit ==
    LET verdict == ClassifySource(inHand.src)
        carries == QuicOf(inHand.segs) # {} /\ verdict # "drop"
    IN
    /\ reader = "split"
    /\ probes' = QueueProbes(probes, inHand.segs, inHand.known)
    /\ IF carries THEN Return({"socket"}, budget)
       ELSE IF budget > 0 THEN Return({}, budget)
       ELSE reader' = (IF inHand.last THEN "socketLast" ELSE "socket")
            /\ UNCHANGED given
    /\ strange' = (strange \/ (carries /\ armed /\ verdict \in {Peer, Stranger}))
    /\ inHand' = NoHand
    /\ UNCHANGED <<slots, wire, queue, taker, waker, ready, woken, turn, sock,
                   keys>>

(* The socket had its turn first and nothing: the queue is tried. *)
PollLast ==
    /\ reader = "last"
    /\ IF queue > 0 THEN queue' = queue - 1 /\ Return({}, 1)
       ELSE reader' = "parked" /\ UNCHANGED <<queue, given>>
    /\ UNCHANGED <<slots, wire, taker, waker, ready, woken, turn, inHand, sock,
                   bell, strange>>

Poll == PollBegin \/ PollDrain \/ PollSocket \/ PollSplit \/ PollLast

Next ==
    \/ \E d \in Datagram : Arrive(d)
    \/ DeliverSynthetic \/ DeliverWake
    \/ AllowSource \/ ForgetSource
    \/ SwitchPath
    \/ \E a \in Attempt : DisarmProbeKey(a) \/ TryRecvProbe(a)
    \/ Poll

(* The runtime polls a task that is runnable or woken, and the gate reader
   finishes a delivery it began.  What arrives is not assumed. *)
Fairness == WF_vars(Poll) /\ WF_vars(DeliverWake)

Spec == Init /\ [][Next]_vars
FairSpec == Spec /\ Fairness

-----------------------------------------------------------------------------
(***************************************************************************)
(* Properties.                                                             *)
(***************************************************************************)

(* A reader that sleeps has nothing to read, or is about to be woken
   (poll_recv's Pending, issue #19's shape on the receiving side). *)
NoLostWake ==
    reader = "parked" /\ ~woken =>
        /\ wire = <<>>
        /\ queue > 0 => taker = "wake"

(* The first of two connections on one address to close does not blind the
   other (AllowedSources). *)
LiveSourceIsHeard ==
    leases > 0 => ClassifySource(Gate) = Gate

(* From the first dial on, quinn never sees a packet of an address this
   house has neither dialled nor proved: a client connection would panic. *)
NoStrangerOnceArmed == ~strange

(* A doorbell takes the probes of its own attempt only: no session peer
   chooses the queue another visit reads. *)
ProbesAreTheirOwn ==
    \A a \in Attempt : \A i \in DOMAIN probes[a] : probes[a][i].key = a

(* What the socket passes on goes to whom it is for, and only that. *)
EachHearsItsOwn == LiveSourceIsHeard /\ NoStrangerOnceArmed /\ ProbesAreTheirOwn

(* Neither source starves the other, however fast both arrive (amended
   section 3): what waits in the queue, or on the wire with something for
   quinn, is served. *)
NeitherStarves ==
    /\ queue > 0 ~> "queue" \in given
    /\ (wire # <<>> /\ wire[1].src = Gate /\ refs[Gate] > 0)
          ~> ("socket" \in given \/ refs[Gate] = 0)
=============================================================================
