---------------------------- MODULE PorchProofs ----------------------------
(***************************************************************************)
(* Proofs about the receiving half of the porch socket (PorchInbound).     *)
(***************************************************************************)
EXTENDS PorchInbound, WellFoundedInduction, TLAPS

(* What a reader that has begun a call has in hand. *)
Hands ==
    [segs : Seq(Segment), src : Addr, known : SUBSET Attempt, last : BOOLEAN]

(* Every variable the arguments below use has its type. *)
TypeOK ==
    /\ slots \in Nat \ {0}
    /\ wire = <<>> \/ \E d \in Datagram : wire = <<d>>
    /\ queue \in Nat
    /\ taker \in {"idle", "wake"}
    /\ waker \in BOOLEAN /\ ready \in BOOLEAN /\ woken \in BOOLEAN
    /\ reader \in {"runnable", "drain", "socket", "socketLast", "split",
                   "last", "parked"}
    /\ budget \in Nat
    /\ reads \in Nat
    /\ leases \in Nat
    /\ refs \in [Addr -> Nat]
    /\ probes \in [Attempt -> Seq(Segment)]
    /\ reader = "split" => inHand \in Hands

-----------------------------------------------------------------------------
(***************************************************************************)
(* No lost wakeup.                                                         *)
(***************************************************************************)

(* Between PollBegin and its return the reader's waker is stored, unless it
   was taken, and then the reader has been woken. *)
WakerStored == reader # "runnable" => waker \/ woken

(* A call that found the socket empty awaits its readiness. *)
SocketWatched ==
    reader \in {"last", "parked"} => woken \/ (ready /\ wire = <<>>)

(* What came into the queue after the call looked at it has a wake to come:
   the call drained the queue before it reads the socket, or looks at the
   queue once more before it sleeps. *)
InSocketAfterQueue ==
    \/ reader = "parked"
    \/ reader = "socket" /\ budget = 0
    \/ reader = "split" /\ budget = 0 /\ inHand.last = FALSE
QueueWatched == InSocketAfterQueue => queue = 0 \/ taker = "wake" \/ woken

WakeInv == TypeOK /\ WakerStored /\ SocketWatched /\ QueueWatched

-----------------------------------------------------------------------------
(***************************************************************************)
(* The sources quinn is shown, and the probes a doorbell is given.         *)
(***************************************************************************)

(* Only the gate's address is in the live sets, once for each lease. *)
LeasesCounted == refs[Gate] = leases /\ refs[Peer] = 0 /\ refs[Stranger] = 0

OwnInv == LeasesCounted /\ NoStrangerOnceArmed /\ ProbesAreTheirOwn

Inv == WakeInv /\ OwnInv
-----------------------------------------------------------------------------
(***************************************************************************)
(* Filing the segments of a datagram.                                      *)
(***************************************************************************)

(* Queues in which every probe was signed with the key of the attempt it is
   queued for. *)
OwnQueues(q) ==
    /\ q \in [Attempt -> Seq(Segment)]
    /\ \A a \in Attempt : \A i \in DOMAIN q[a] : q[a][i].key = a

(* f is the table QueueProbes builds, as far as segment m. *)
IsFiling(f, q, segs, known, m) ==
    f = [n \in 0..m |-> IF n = 0 THEN q ELSE FileProbe(f[n - 1], segs[n], known)]

(* A set of naturals that is not empty has a least member. *)
LEMMA LeastNumber ==
    ASSUME NEW S \in SUBSET Nat, S # {}
    PROVE  \E m \in S : \A n \in S : m <= n
<1>. DEFINE R == OpToRel(<, Nat)
<1>1. \A x, y \in Nat : x < y => <<x, y>> \in R
  BY DEF OpToRel
<1>2. IsWellFoundedOn(R, Nat)
  BY NatLessThanWellFounded
<1>. HIDE DEF R
<1>3. PICK m \in S : \A n \in S : ~(<<n, m>> \in R)
  BY <1>2, WFMin, Zenon
<1>4. \A n \in S : m <= n
  <2>. SUFFICES ASSUME NEW n \in S PROVE m <= n
    OBVIOUS
  <2>1. m \in Nat /\ n \in Nat
    OBVIOUS
  <2>2. ~(n < m)
    BY <1>1, <1>3, <2>1
  <2>. QED BY <2>1, <2>2
<1>. QED BY <1>3, <1>4

(* Filing one segment keeps every queue its attempt's own. *)
LEMMA FileProbeOwn ==
    ASSUME NEW q, OwnQueues(q), NEW p \in Segment, NEW known \in SUBSET Attempt
    PROVE  OwnQueues(FileProbe(q, p, known))
<1>. DEFINE files == /\ p.t = "probe" /\ p.key \in known /\ p.names = p.key
                     /\ Len(q[p.names]) < INBOUND_PROBE_QUEUE_CAP
<1>1. CASE ~files
  BY <1>1 DEF FileProbe
<1>2. CASE files
  <2>. DEFINE k == p.key
  <2>1. k \in Attempt /\ p.names = k
    BY <1>2
  <2>2. FileProbe(q, p, known) = [q EXCEPT ![k] = Append(q[k], p)]
    BY <1>2 DEF FileProbe
  <2>3. q[k] \in Seq(Segment)
    BY <2>1 DEF OwnQueues
  <2>4. Append(q[k], p) \in Seq(Segment)
    BY <2>3
  <2>5. \A i \in DOMAIN Append(q[k], p) : Append(q[k], p)[i].key = k
    BY <2>1, <2>3 DEF OwnQueues
  <2>. HIDE DEF k
  <2>. QED BY <2>1, <2>2, <2>4, <2>5 DEF OwnQueues
<1>. QED BY <1>1, <1>2

(* queue_probes files each probe under the attempt whose key signed it. *)
LEMMA QueueProbesOwn ==
    ASSUME NEW q, OwnQueues(q), NEW segs \in Seq(Segment),
           NEW known \in SUBSET Attempt
    PROVE  OwnQueues(QueueProbes(q, segs, known))
<1>. DEFINE N == Len(segs)
            Filed(f, m) == IsFiling(f, q, segs, known, m)
            Bad == {m \in 0..N : ~ \E f : Filed(f, m)}
            u == CHOOSE h : Filed(h, N)
            Foreign == {n \in 0..N : ~OwnQueues(u[n])}
<1>0. N \in Nat
  OBVIOUS
<1>1. \E f : Filed(f, 0)
  <2>. DEFINE f0 == [n \in 0..0 |-> q]
  <2>1. f0 = [n \in 0..0 |-> IF n = 0 THEN q ELSE FileProbe(f0[n - 1], segs[n], known)]
    OBVIOUS
  <2>. QED BY <2>1 DEF IsFiling
<1>2. ASSUME NEW m \in 0..N, m > 0, \E f : Filed(f, m - 1)
      PROVE  \E f : Filed(f, m)
  <2>1. PICK f : Filed(f, m - 1)
    BY <1>2
  <2>. DEFINE g == [n \in 0..m |-> IF n = m THEN FileProbe(f[m - 1], segs[m], known)
                                   ELSE f[n]]
  <2>2. \A n \in 0..m : g[n] = IF n = 0 THEN q ELSE FileProbe(g[n - 1], segs[n], known)
    <3>. SUFFICES ASSUME NEW n \in 0..m
                  PROVE  g[n] = IF n = 0 THEN q ELSE FileProbe(g[n - 1], segs[n], known)
      OBVIOUS
    <3>1. CASE n = m
      <4>1. g[n - 1] = f[m - 1]
        BY <1>0, <1>2, <3>1
      <4>. QED BY <1>0, <1>2, <3>1, <4>1
    <3>2. CASE n # m
      <4>1. n \in 0..(m - 1) /\ (n # 0 => n - 1 \in 0..(m - 1))
        BY <1>0, <1>2, <3>2
      <4>2. f[n] = IF n = 0 THEN q ELSE FileProbe(f[n - 1], segs[n], known)
        BY <2>1, <4>1 DEF IsFiling
      <4>3. g[n] = f[n] /\ (n # 0 => g[n - 1] = f[n - 1])
        BY <1>0, <1>2, <3>2, <4>1
      <4>. QED BY <4>2, <4>3
    <3>. QED BY <3>1, <3>2
  <2>3. g = [n \in 0..m |-> g[n]]
    OBVIOUS
  <2>. HIDE DEF g
  <2>. QED BY <2>2, <2>3 DEF IsFiling
<1>3. Bad = {}
  <2>. SUFFICES ASSUME Bad # {} PROVE FALSE
    OBVIOUS
  <2>1. Bad \in SUBSET Nat
    BY <1>0
  <2>2. PICK m \in Bad : \A n \in Bad : m <= n
    BY <2>1, LeastNumber
  <2>3. m \in 0..N /\ ~ \E f : Filed(f, m)
    BY <2>2
  <2>4. m # 0
    BY <1>1, <2>3
  <2>5. m - 1 \in 0..N /\ m > 0 /\ ~(m <= m - 1)
    BY <1>0, <2>3, <2>4
  <2>. HIDE DEF Filed
  <2>6. \E f : Filed(f, m - 1)
    BY <2>2, <2>5
  <2>. QED BY <1>2, <2>3, <2>5, <2>6
<1>4. Filed(u, N)
  <2>. HIDE DEF Filed
  <2>1. N \in 0..N
    BY <1>0
  <2>2. \E f : Filed(f, N)
    BY <1>3, <2>1
  <2>. QED BY <2>2
<1>5. QueueProbes(q, segs, known) = u[N]
  BY DEF QueueProbes, IsFiling
<1>. HIDE DEF u
<1>6. \A n \in 0..N : u[n] = IF n = 0 THEN q ELSE FileProbe(u[n - 1], segs[n], known)
  <2>. DEFINE w == [n \in 0..N |-> IF n = 0 THEN q ELSE FileProbe(u[n - 1], segs[n], known)]
  <2>1. u = w
    BY <1>4 DEF IsFiling
  <2>2. \A n \in 0..N : w[n] = IF n = 0 THEN q ELSE FileProbe(u[n - 1], segs[n], known)
    OBVIOUS
  <2>. HIDE DEF w
  <2>. QED BY <2>1, <2>2
<1>7. Foreign = {}
  <2>. SUFFICES ASSUME Foreign # {} PROVE FALSE
    OBVIOUS
  <2>1. Foreign \in SUBSET Nat
    BY <1>0
  <2>2. PICK m \in Foreign : \A n \in Foreign : m <= n
    BY <2>1, LeastNumber
  <2>3. m \in 0..N /\ ~OwnQueues(u[m])
    BY <2>2
  <2>4. m # 0
    BY <1>6, <2>3
  <2>5. m - 1 \in 0..N /\ m > 0 /\ ~(m <= m - 1) /\ m \in 1..N
    BY <1>0, <2>3, <2>4
  <2>6. OwnQueues(u[m - 1])
    BY <2>2, <2>5
  <2>7. segs[m] \in Segment
    BY <2>5
  <2>8. u[m] = FileProbe(u[m - 1], segs[m], known)
    BY <1>6, <2>3, <2>4
  <2>. QED BY <2>3, <2>6, <2>7, <2>8, FileProbeOwn
<1>8. N \in 0..N
  BY <1>0
<1>. QED BY <1>5, <1>7, <1>8
-----------------------------------------------------------------------------
(***************************************************************************)
(* The invariant holds at first and is kept by every step.                 *)
(***************************************************************************)
USE PorchInboundAssumption, AddressAssumption

LEMMA InitInv == Init => Inv
<1>. SUFFICES ASSUME Init PROVE Inv
  OBVIOUS
<1>0. <<>> \in Seq(Segment)
  OBVIOUS
<1>1. TypeOK
  BY <1>0 DEF Init, TypeOK
<1>2. WakerStored /\ SocketWatched /\ QueueWatched
  BY DEF Init, WakerStored, SocketWatched, QueueWatched, InSocketAfterQueue
<1>3. OwnInv
  BY DEF Init, OwnInv, LeasesCounted, NoStrangerOnceArmed, ProbesAreTheirOwn, Addr
<1>. QED BY <1>1, <1>2, <1>3 DEF Inv, WakeInv

(* What the network and the gate's reader do keeps the reader watched. *)
LEMMA DeliveryStep ==
    ASSUME Inv, (\E d \in Datagram : Arrive(d)) \/ DeliverSynthetic \/ DeliverWake
    PROVE  Inv'
<1>. USE DEF Inv, WakeInv
<1>1. OwnInv'
  <2>1. UNCHANGED <<leases, refs, probes, strange>>
    BY DEF Arrive, DeliverSynthetic, DeliverWake, sock, bell
  <2>. QED BY <2>1 DEF OwnInv, LeasesCounted, NoStrangerOnceArmed, ProbesAreTheirOwn
<1>2. ASSUME NEW d \in Datagram, Arrive(d)
      PROVE  WakeInv'
  <2>1. TypeOK'
    BY <1>2 DEF TypeOK, Arrive, turn, sock, bell
  <2>2. WakerStored' /\ QueueWatched'
    BY <1>2 DEF TypeOK, Arrive, turn, sock, bell, WakerStored, QueueWatched,
                InSocketAfterQueue
  <2>3. SocketWatched'
    BY <1>2 DEF TypeOK, Arrive, SocketWatched
  <2>. QED BY <2>1, <2>2, <2>3
<1>3. ASSUME DeliverSynthetic PROVE WakeInv'
  <2>1. TypeOK'
    BY <1>3 DEF TypeOK, DeliverSynthetic, turn, sock, bell
  <2>2. WakerStored' /\ SocketWatched'
    BY <1>3 DEF DeliverSynthetic, WakerStored, SocketWatched
  <2>3. QueueWatched'
    BY <1>3 DEF TypeOK, DeliverSynthetic, turn, QueueWatched, InSocketAfterQueue
  <2>. QED BY <2>1, <2>2, <2>3
<1>4. ASSUME DeliverWake PROVE WakeInv'
  <2>1. TypeOK'
    BY <1>4 DEF TypeOK, DeliverWake, turn, sock, bell
  <2>2. WakerStored' /\ SocketWatched'
    BY <1>4 DEF TypeOK, DeliverWake, WakerStored, SocketWatched
  <2>3. QueueWatched'
    BY <1>4 DEF TypeOK, DeliverWake, turn, WakerStored, QueueWatched,
                InSocketAfterQueue
  <2>. QED BY <2>1, <2>2, <2>3
<1>. QED BY <1>1, <1>2, <1>3, <1>4

(* Leases, paths and doorbells leave the reader and its queue alone. *)
LEMMA SocketUsersStep ==
    ASSUME Inv,
           \/ AllowSource \/ ForgetSource \/ SwitchPath
           \/ \E a \in Attempt : DisarmProbeKey(a) \/ TryRecvProbe(a)
    PROVE  Inv'
<1>. USE DEF Inv
<1>1. UNCHANGED <<slots, wire, queue, taker, waker, ready, woken, reader, budget,
                  reads, inHand, strange>>
  BY DEF AllowSource, ForgetSource, SwitchPath, DisarmProbeKey, TryRecvProbe, turn
<1>2. WakerStored' /\ SocketWatched' /\ QueueWatched'
  BY <1>1 DEF WakeInv, WakerStored, SocketWatched, QueueWatched, InSocketAfterQueue
<1>3. leases' \in Nat /\ refs' \in [Addr -> Nat] /\ LeasesCounted'
  BY DEF WakeInv, OwnInv, TypeOK, AllowSource, ForgetSource, SwitchPath,
         DisarmProbeKey, TryRecvProbe, sock, LeasesCounted, Addr
<1>4. OwnQueues(probes)'
  <2>1. OwnQueues(probes)
    BY DEF WakeInv, OwnInv, TypeOK, ProbesAreTheirOwn, OwnQueues
  <2>2. CASE AllowSource \/ ForgetSource \/ SwitchPath
    BY <2>1, <2>2 DEF AllowSource, ForgetSource, SwitchPath, bell
  <2>3. ASSUME NEW a \in Attempt, DisarmProbeKey(a)
        PROVE  OwnQueues(probes)'
    BY <2>1, <2>3 DEF DisarmProbeKey, OwnQueues
  <2>4. ASSUME NEW a \in Attempt, TryRecvProbe(a)
        PROVE  OwnQueues(probes)'
    <3>1. PICK s \in Seq(Segment) : s = probes[a] /\ s # <<>>
      BY <2>1, <2>4 DEF TryRecvProbe, OwnQueues
    <3>2. /\ Tail(s) \in Seq(Segment)
          /\ \A i \in DOMAIN Tail(s) : Tail(s)[i] = s[i + 1] /\ i + 1 \in DOMAIN s
      BY <3>1
    <3>3. probes' = [probes EXCEPT ![a] = Tail(s)]
      BY <2>4, <3>1 DEF TryRecvProbe
    <3>. QED BY <2>1, <3>1, <3>2, <3>3 DEF OwnQueues
  <2>. QED BY <2>2, <2>3, <2>4
<1>. QED BY <1>1, <1>2, <1>3, <1>4
     DEF WakeInv, OwnInv, TypeOK, OwnQueues, NoStrangerOnceArmed, ProbesAreTheirOwn

(* The parts of a call that read no datagram. *)
LEMMA PollStep ==
    ASSUME Inv, PollBegin \/ PollDrain \/ PollSocket \/ PollLast
    PROVE  Inv'
<1>. USE DEF Inv, WakeInv
<1>1. OwnInv'
  <2>1. UNCHANGED <<leases, refs, probes, strange>>
    BY DEF PollBegin, PollDrain, PollSocket, PollLast, sock, bell
  <2>. QED BY <2>1 DEF OwnInv, LeasesCounted, NoStrangerOnceArmed, ProbesAreTheirOwn
<1>2. ASSUME PollBegin PROVE WakeInv'
  <2>0. budget' \in Nat
    BY <1>2 DEF TypeOK, PollBegin, Turn
  <2>1. TypeOK'
    BY <1>2, <2>0 DEF TypeOK, PollBegin, sock, bell
  <2>2. WakerStored' /\ SocketWatched' /\ QueueWatched'
    BY <1>2 DEF TypeOK, PollBegin, WakerStored, SocketWatched, QueueWatched,
                InSocketAfterQueue
  <2>. QED BY <2>1, <2>2
<1>3. ASSUME PollDrain PROVE WakeInv'
  <2>1. TypeOK'
    BY <1>3 DEF TypeOK, PollDrain, Return, sock, bell
  <2>2. WakerStored' /\ SocketWatched'
    BY <1>3 DEF TypeOK, PollDrain, Return, WakerStored, SocketWatched
  <2>3. QueueWatched'
    BY <1>3 DEF TypeOK, PollDrain, Return, QueueWatched, InSocketAfterQueue
  <2>. QED BY <2>1, <2>2, <2>3
<1>4. ASSUME PollSocket PROVE WakeInv'
  <2>1. CASE wire # <<>> /\ reads < COOP_BUDGET
    <3>0. PICK d \in Datagram : wire = <<d>>
      BY <2>1 DEF TypeOK
    <3>1. wire[1] \in [src : Addr, segs : Seq(Segment)]
      BY <3>0
    <3>2. inHand' \in Hands
      <4>1. PICK b \in BOOLEAN : b = (reader = "socketLast")
        OBVIOUS
      <4>2. inHand' = [segs |-> wire[1].segs, src |-> wire[1].src,
                       known |-> {a \in Attempt : keys[a] = "armed"}, last |-> b]
        BY <1>4, <2>1, <4>1 DEF PollSocket
      <4>. QED BY <3>1, <4>2 DEF Hands
    <3>3. TypeOK'
      BY <1>4, <2>1, <3>2 DEF TypeOK, PollSocket, sock, bell
    <3>4. WakerStored' /\ SocketWatched'
      BY <1>4, <2>1 DEF TypeOK, PollSocket, WakerStored, SocketWatched
    <3>5. inHand'.last = (reader = "socketLast")
      BY <1>4, <2>1 DEF PollSocket
    <3>6. QueueWatched'
      BY <1>4, <2>1, <3>5 DEF TypeOK, PollSocket, QueueWatched, InSocketAfterQueue
    <3>. QED BY <3>3, <3>4, <3>6
  <2>2. CASE ~(wire # <<>> /\ reads < COOP_BUDGET)
    <3>1. NotReady /\ UNCHANGED <<wire, reads, inHand>>
      BY <1>4, <2>2 DEF PollSocket
    <3>2. TypeOK'
      BY <1>4, <2>2, <3>1 DEF TypeOK, PollSocket, NotReady, Return, sock, bell
    <3>3. WakerStored' /\ SocketWatched'
      BY <1>4, <2>2, <3>1 DEF TypeOK, PollSocket, NotReady, Return, WakerStored,
                              SocketWatched
    <3>4. QueueWatched'
      BY <1>4, <2>2, <3>1 DEF TypeOK, PollSocket, NotReady, Return, QueueWatched,
                              InSocketAfterQueue
    <3>. QED BY <3>2, <3>3, <3>4
  <2>. QED BY <2>1, <2>2
<1>5. ASSUME PollLast PROVE WakeInv'
  <2>1. TypeOK'
    BY <1>5 DEF TypeOK, PollLast, Return, turn, sock, bell
  <2>2. WakerStored' /\ SocketWatched' /\ QueueWatched'
    BY <1>5 DEF TypeOK, PollLast, Return, turn, WakerStored, SocketWatched,
                QueueWatched, InSocketAfterQueue
  <2>. QED BY <2>1, <2>2
<1>. QED BY <1>1, <1>2, <1>3, <1>4, <1>5

(* demultiplex: the probes go to their own queues, and under the drop rule only
   a leased address is shown as itself. *)
LEMMA SplitStep ==
    ASSUME Inv, PollSplit
    PROVE  Inv'
<1>. USE DEF Inv, WakeInv
<1>1. inHand \in Hands
  BY DEF TypeOK, PollSplit
<1>2. OwnQueues(probes)'
  <2>1. OwnQueues(probes)
    BY DEF OwnInv, TypeOK, ProbesAreTheirOwn, OwnQueues
  <2>2. inHand.segs \in Seq(Segment) /\ inHand.known \in SUBSET Attempt
    BY <1>1 DEF Hands
  <2>3. OwnQueues(QueueProbes(probes, inHand.segs, inHand.known))
    BY <2>1, <2>2, QueueProbesOwn
  <2>. QED BY <2>3 DEF PollSplit
<1>3. armed => ClassifySource(inHand.src) \notin {Peer, Stranger}
  <2>. SUFFICES ASSUME armed PROVE ClassifySource(inHand.src) \notin {Peer, Stranger}
    OBVIOUS
  <2>1. PICK a \in Addr : a = inHand.src
    BY <1>1 DEF Hands
  <2>2. refs[a] > 0 => a = Gate
    BY DEF TypeOK, OwnInv, LeasesCounted, Addr
  <2>3. {"synthetic", "drop"} \cap {Peer, Stranger} = {} /\ Gate \notin {Peer, Stranger}
    BY DEF Addr
  <2>4. ClassifySource(a) \notin {Peer, Stranger}
    BY <2>2, <2>3 DEF ClassifySource
  <2>. QED BY <2>1, <2>4
<1>4. NoStrangerOnceArmed'
  BY <1>3 DEF PollSplit, OwnInv, NoStrangerOnceArmed
<1>5. UNCHANGED <<slots, wire, queue, taker, waker, ready, woken, budget, reads,
                  leases, refs>>
  BY DEF PollSplit, turn, sock
<1>6. OwnInv'
  BY <1>2, <1>4, <1>5 DEF OwnInv, LeasesCounted, ProbesAreTheirOwn, OwnQueues
<1>7. /\ reader' \in {"runnable", "socket", "socketLast"}
      /\ reader' = "socket" => budget = 0 /\ inHand.last = FALSE
  BY <1>1 DEF PollSplit, Return, TypeOK
<1>8. TypeOK'
  BY <1>2, <1>5, <1>7 DEF TypeOK, OwnQueues
<1>9. WakerStored' /\ SocketWatched' /\ QueueWatched'
  BY <1>5, <1>7 DEF PollSplit, WakerStored, SocketWatched, QueueWatched,
                    InSocketAfterQueue
<1>. QED BY <1>6, <1>8, <1>9

LEMMA InvHolds == Spec => []Inv
<1>1. ASSUME Inv, [Next]_vars PROVE Inv'
  <2>1. CASE UNCHANGED vars
    <3>. USE <2>1 DEF vars
    <3>1. TypeOK'
      BY <1>1 DEF Inv, WakeInv, TypeOK
    <3>2. WakerStored' /\ SocketWatched' /\ QueueWatched'
      BY <1>1 DEF Inv, WakeInv, WakerStored, SocketWatched, QueueWatched,
                  InSocketAfterQueue
    <3>3. OwnInv'
      BY <1>1 DEF Inv, OwnInv, LeasesCounted, NoStrangerOnceArmed, ProbesAreTheirOwn
    <3>. QED BY <3>1, <3>2, <3>3 DEF Inv, WakeInv
  <2>2. CASE Next
    BY <1>1, <2>2, DeliveryStep, SocketUsersStep, PollStep, SplitStep DEF Next, Poll
  <2>. QED BY <1>1, <2>1, <2>2
<1>. QED BY InitInv, <1>1, PTL DEF Spec

(* A reader that sleeps has nothing to read, or is about to be woken: poll_recv
   stores its waker before it looks at the queue, and a wake that comes between
   is not lost (sock.rs, poll_recv and deliver_synthetic), for any number of
   buffers, any queue length and any cooperative budget. *)
THEOREM SleepersAreWoken == Spec => []NoLostWake
<1>1. Inv => NoLostWake
  BY DEF Inv, WakeInv, TypeOK, SocketWatched, QueueWatched, InSocketAfterQueue,
         NoLostWake
<1>. QED BY <1>1, InvHolds, PTL

(* A leased source stays heard while any lease of it lives, no stranger's packet
   reaches quinn once the drop rule is in force, and a doorbell is given its own
   attempt's probes only (classify_source, forget_source, queue_probes). *)
THEOREM SocketSortsItsInput == Spec => []EachHearsItsOwn
<1>1. Inv => EachHearsItsOwn
  BY DEF Inv, WakeInv, OwnInv, TypeOK, LeasesCounted, EachHearsItsOwn,
         LiveSourceIsHeard, ClassifySource
<1>. QED BY <1>1, InvHolds, PTL
=============================================================================
