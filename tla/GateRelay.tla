----------------------------- MODULE GateRelay ------------------------------
(***************************************************************************)
(* One direction of a relay session at the gate: forward_relay, the        *)
(* session's shaped queue and its drain onto the destination's             *)
(* registrations (crates/mosschat-net/src/gate/server.rs).                 *)
(*                                                                         *)
(* A datagram is a number.  Datagrams on a QUIC connection are unreliable: *)
(* they come in any order or not at all.  The sender check and the volume  *)
(* limiter of forward_relay may refuse anything, which is the same as      *)
(* losing it on the way.                                                   *)
(***************************************************************************)
EXTENDS RelayShaper

CONSTANTS
  Registration,\* connections of the destination to the gate
  First,       \* the one that holds the session
  Depth,       \* GATE_RELAY_QUEUE_DEPTH, also the burst
  MaxData      \* bound on the datagrams relayed

VARIABLES
  wire,      \* relayed datagrams on their way to the gate
  gq,        \* the session's queue towards the destination, with its drain
  open,      \* the session is in the table
  forward,   \* datagrams forward_relay has looked up and not yet queued
  regs,      \* the destination's registrations, in order of arrival
  dead,      \* those whose connection is gone
  target,    \* the registration the drain is writing to
  out        \* what it wrote, in order

vars == <<wire, gq, open, forward, regs, dead, target, out>>

Data == 1..MaxData

\* The session has just been made, with its drain.
Init ==
  /\ wire = Data
  /\ gq = [EmptyShaper EXCEPT !.drain = "run"]
  /\ open = TRUE
  /\ forward = {}
  /\ regs = <<First>>
  /\ dead = {}
  /\ target = First
  /\ out = <<>>

-----------------------------------------------------------------------------
\* forward_relay finds the session and takes its queue; otherwise it drops.
LookUp(x) ==
  /\ x \in wire
  /\ wire' = wire \ {x}
  /\ forward' = IF open THEN forward \cup {x} ELSE forward
  /\ UNCHANGED <<gq, open, regs, dead, target, out>>

\* And queues it, after the lock on the sessions is gone.
Forward(x) ==
  LET tried == EnqueueOrDrop(gq, x, Depth) IN
  /\ x \in forward
  /\ forward' = forward \ {x}
  /\ gq' = tried.q
  /\ UNCHANGED <<wire, open, regs, dead, target, out>>

\* A pass of RelayShaper::drain; a pass that only sleeps changes nothing.
Drain ==
  /\ gq.drain = "run"
  /\ \E q \in Passes(gq, Depth) : gq' = q
  /\ UNCHANGED <<wire, open, forward, regs, dead, target, out>>

Await ==
  /\ gq.drain = "wait"
  /\ gq' = AwaitArrival(gq)
  /\ UNCHANGED <<wire, open, forward, regs, dead, target, out>>

\* Is the session still in the table?
Check ==
  /\ gq.drain = "check"
  /\ gq' = IF open THEN [gq EXCEPT !.drain = "find"] ELSE Ended(gq)
  /\ UNCHANGED <<wire, open, forward, regs, dead, target, out>>

\* Then, under another lock, the destination's latest registration.
Find ==
  /\ gq.drain = "find"
  /\ \/ /\ regs = <<>>
        /\ gq' = Ended(gq)
        /\ UNCHANGED target
     \/ /\ regs # <<>>
        /\ gq' = [gq EXCEPT !.drain = "send"]
        /\ target' = regs[Len(regs)]
  /\ UNCHANGED <<wire, open, forward, regs, dead, out>>

\* send_datagram_wait for each of the batch.
Send ==
  /\ gq.drain = "send"
  /\ \/ /\ gq.batch = <<>>
        /\ gq' = [gq EXCEPT !.drain = "run"]
        /\ UNCHANGED out
     \/ /\ gq.batch # <<>> /\ target \in dead
        /\ gq' = Ended(gq)
        /\ UNCHANGED out
     \/ /\ gq.batch # <<>> /\ target \notin dead
        /\ gq' = [gq EXCEPT !.batch = Tail(@)]
        /\ out' = Append(out, Head(gq.batch))
  /\ UNCHANGED <<wire, open, forward, regs, dead, target>>

\* The destination connects once more: that is now the latest registration.
RegisterAgain(r) ==
  /\ open /\ r \notin dead /\ \A i \in 1..Len(regs) : regs[i] # r
  /\ regs' = Append(regs, r)
  /\ UNCHANGED <<wire, gq, open, forward, dead, target, out>>

ConnectionDies(r) ==
  /\ r \notin dead /\ \E i \in 1..Len(regs) : regs[i] = r
  /\ dead' = dead \cup {r}
  /\ UNCHANGED <<wire, gq, open, forward, regs, target, out>>

\* teardown_registration of a connection that ended or that the sweep closed.
Unlist(r) ==
  /\ r \in dead /\ \E i \in 1..Len(regs) : regs[i] = r
  /\ regs' = SelectSeq(regs, LAMBDA q : q # r)
  /\ UNCHANGED <<wire, gq, open, forward, dead, target, out>>

\* And its sessions: this one leaves the table and its queue is closed, both under
\* the lock on the sessions.  It is held by First and by one of the sender's
\* registrations, which may end at any moment.
CloseSession ==
  /\ open
  /\ open' = FALSE
  /\ gq' = Close(gq)
  /\ UNCHANGED <<wire, forward, regs, dead, target, out>>

-----------------------------------------------------------------------------
Next ==
  \/ \E x \in wire : LookUp(x)
  \/ \E x \in forward : Forward(x)
  \/ Drain \/ Await \/ Check \/ Find \/ Send
  \/ \E r \in Registration : RegisterAgain(r) \/ ConnectionDies(r) \/ Unlist(r)
  \/ CloseSession

Spec == Init /\ [][Next]_vars

\* The runtime schedules the drain and its budget accrues.
FairSpec == Spec /\ WF_vars(Drain \/ Await \/ Check \/ Find \/ Send)
-----------------------------------------------------------------------------
\* A session that ends takes its drain with it, whatever the drain was doing, and
\* as long as no connection fails what was queued is written (server.rs:1335).
Drains ==
  /\ ~open ~> gq.drain = "done"
  /\ \A x \in Data :
       (\E i \in 1..Len(gq.items) : gq.items[i] = x) ~>
         (\E i \in 1..Len(out) : out[i] = x) \/ ~open \/ dead # {}

Pipe == INSTANCE RelayPipe WITH
  Capacity <- 2 * Depth,
  pending  <- IF gq.drain = "done" THEN <<>> ELSE gq.batch \o gq.items,
  out      <- out,
  shut     <- gq.closed \/ gq.drain = "done"

\* What the queue accepted is written in order, exactly once: only what a full
\* queue refuses and what the end of the drain discards is missing (path.rs:553,
\* server.rs:1331).
InOrder == Pipe!Spec
=============================================================================
