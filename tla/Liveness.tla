------------------------------ MODULE Liveness ------------------------------
(***************************************************************************)
(* One peer's liveness (mosschat-net/src/live.rs `PeerLiveness`): live,    *)
(* stale after PROBES_TO_STALE probes unanswered, dead after a grace.  The *)
(* state machine owns no clock and no socket; each operator is a method,   *)
(* on a record, at the `now` its caller read.  Durations are in ticks of   *)
(* the caller's loop, and a smoothed round trip is rounded down to one.    *)
(* A visit is the only activity the program sets: the idle keepalive and   *)
(* `on_goodbye` have no caller outside the tests and are left out, as is   *)
(* last_seen, which nothing reads.                                         *)
(***************************************************************************)
EXTENDS Integers

CONSTANTS
    VISIT_PROBE_INTERVAL,
    PROBES_TO_STALE,
    PROBE_LOSS_FLOOR, LOSS_SRTT_MULTIPLIER,
    DEAD_GRACE_BASE, DEAD_PROBE_INTERVAL

ASSUME LivenessAssumption ==
    {VISIT_PROBE_INTERVAL, PROBES_TO_STALE, PROBE_LOSS_FLOOR,
     LOSS_SRTT_MULTIPLIER, DEAD_GRACE_BASE, DEAD_PROBE_INTERVAL} \subseteq Nat \ {0}

None == -1      \* an Option that is None; every instant and duration is >= 0

Largest(a, b) == IF a < b THEN b ELSE a

-----------------------------------------------------------------------------
(* probe_loss_deadline, dead_grace: an unmeasured path takes the floor. *)
ProbeLossDeadline(srtt) ==
    IF srtt = None THEN PROBE_LOSS_FLOOR
    ELSE Largest(srtt * LOSS_SRTT_MULTIPLIER, PROBE_LOSS_FLOOR)

DeadGrace(srtt) ==
    IF srtt = None THEN DEAD_GRACE_BASE
    ELSE srtt * LOSS_SRTT_MULTIPLIER + DEAD_GRACE_BASE

(* PeerLiveness::new(now).with_srtt(srtt) during a visit. *)
NewLiveness(srtt) ==
    [state |-> "live", srtt |-> srtt, outstanding |-> None, misses |-> 0,
     lastSent |-> None, staleSince |-> None]

ProbeInterval(l) ==
    IF l.state = "stale" THEN DEAD_PROBE_INTERVAL ELSE VISIT_PROBE_INTERVAL

-----------------------------------------------------------------------------
ProbeIsDue(l, now) ==
    /\ l.state # "dead"
    /\ l.lastSent # None => now - l.lastSent >= ProbeInterval(l)

(* Mutant: every probe restarts the loss clock. *)
ProbeSentRestarts(l, now) == [l EXCEPT !.lastSent = now, !.outstanding = now]

(* due_probe answering true: the oldest unanswered probe keeps the clock. *)
ProbeSent(l, now) ==
    [l EXCEPT !.lastSent = now,
              !.outstanding = IF @ = None THEN now ELSE @]

(* probe_not_sent: only the marker of this very probe is taken back. *)
ProbeNotSent(l, sentAt) ==
    [l EXCEPT !.outstanding = IF @ = sentAt THEN None ELSE @]

(* The 1/8 weighting, seeded by the first sample. *)
Smoothed(srtt, rtt) == IF srtt = None THEN rtt ELSE (srtt * 7 + rtt) \div 8

(* on_pong: a stale path is not restored by an answer. *)
OnPong(l, rtt) ==
    IF l.state = "dead" THEN l
    ELSE [l EXCEPT !.srtt = Smoothed(@, rtt), !.outstanding = None,
                   !.misses = 0]

-----------------------------------------------------------------------------
(* The first half of poll: the outstanding probe's deadline. *)
CountMiss(l, now) ==
    IF l.outstanding # None /\ now - l.outstanding >= ProbeLossDeadline(l.srtt)
    THEN [l EXCEPT !.misses = @ + 1, !.outstanding = None]
    ELSE l

(* The second half: at most one transition. *)
Poll(l, now) ==
    LET m == CountMiss(l, now) IN
    CASE l.state = "dead" -> l
      [] l.state = "live" ->
            IF m.misses >= PROBES_TO_STALE
            THEN [m EXCEPT !.state = "stale", !.staleSince = now] ELSE m
      [] l.state = "stale" ->
            IF now - m.staleSince >= DeadGrace(m.srtt)
            THEN [m EXCEPT !.state = "dead"]
            ELSE m

(* What poll reports, once. *)
WentDead(l, m) == l.state # "dead" /\ m.state = "dead"
=============================================================================
