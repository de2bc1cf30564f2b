------------------------------ MODULE MCRelay -------------------------------
(***************************************************************************)
(* The two queues a relayed datagram waits in: the egress of the house     *)
(* that sends and the session's queue at the gate.  They share no state: a *)
(* datagram that leaves one arrives at the other at any time or not at     *)
(* all.  `part` says which of them a behaviour is of; the other stays as   *)
(* it began.                                                               *)
(***************************************************************************)
EXTENDS HouseRelay

CONSTANTS Registration, First, GateDepth, GateData

ASSUME GateAssumption ==
  First \in Registration /\ GateDepth \in Nat \ {0} /\ GateData \in Nat

VARIABLES part, gateWire, gq, open, forward, regs, dead, target, gateOut

Session == INSTANCE GateRelay WITH
  wire <- gateWire, out <- gateOut, Depth <- GateDepth, MaxData <- GateData

gateVars == <<gateWire, gq, open, forward, regs, dead, target, gateOut>>
all == <<part, vars, gateVars>>

MCInit == part \in {"egress", "gate"} /\ Init /\ Session!Init

MCNext ==
  /\ UNCHANGED part
  /\ \/ part = "egress" /\ Next /\ UNCHANGED gateVars
     \/ part = "gate" /\ Session!Next /\ UNCHANGED vars

\* The fairness of each: the runtime schedules its drain, whose budget accrues, and
\* attach_gate's caller.
MCFairness ==
  /\ WF_all(part = "egress" /\ StartUndrained /\ UNCHANGED <<part, gateVars>>)
  /\ WF_all(part = "egress" /\ (Drain \/ Await \/ Check \/ Send)
            /\ UNCHANGED <<part, gateVars>>)
  /\ WF_all(part = "gate"
            /\ (Session!Drain \/ Session!Await \/ Session!Check \/ Session!Find \/ Session!Send)
            /\ UNCHANGED <<part, vars>>)

MCSpec == MCInit /\ [][MCNext]_all /\ MCFairness

\* Both queues (HouseRelay, GateRelay): in order, exactly once, all of what was
\* taken until the drain ends.
RelaysKeepOrder == InOrder /\ Session!InOrder

\* The gate's drain ends with its session, and writes what was queued as long as
\* no connection fails (GateRelay).
GateDrains == Session!Drains
=============================================================================
