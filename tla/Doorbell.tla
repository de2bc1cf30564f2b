------------------------------ MODULE Doorbell ------------------------------
(***************************************************************************)
(* The doorbell of one visit: `run_doorbell` (mosschat-net/src/punch.rs)   *)
(* as its two sides run it over one end to end connection.  The initiator  *)
(* (role 1) names an attempt and writes Candidates on the porch stream,    *)
(* the responder (role 2) answers, the gate fires both, each probes the    *)
(* other's candidates, the first to be proved carries the traffic, and a   *)
(* path that dies sends the traffic back to the relay and starts the next  *)
(* attempt.                                                                *)
(*                                                                         *)
(* One action is one arm of the 20 ms tick, or one wait before the loop.   *)
(* Time is not counted: a timer is an action that may fire whenever what   *)
(* it waits for has not happened, a lost probe is a timer that fires.      *)
(* Which candidate answers, its round trip and its streak are the subject  *)
(* of PathLife; here a side may win whenever its peer answers pings of    *)
(* the same attempt.  An attempt id is the number of the attempt; the path *)
(* an attempt proves is named by the attempt.                              *)
(***************************************************************************)
EXTENDS Naturals, Sequences

CONSTANTS
    MaxAttempts,                  \* bound: attempts one visit may mint
    PORCH_FRAME_QUEUE,            \* frames the reader task holds for the loop
    START_REQUESTS_PER_SESSION    \* Starts the gate answers for one session

(* The code's queue holds 16; what the two sides can have on their way to one
   of them is a PathUp, a PathDown, Candidates and a Goodbye. *)
ASSUME DoorbellAssumption ==
    /\ MaxAttempts \in Nat \ {0}
    /\ PORCH_FRAME_QUEUE \in Nat /\ PORCH_FRAME_QUEUE >= 4
    /\ START_REQUESTS_PER_SESSION \in Nat

VARIABLES
    held,       \* side -> the visit is held open (Hold is not UntilAttemptSettles)
    noPunch,    \* side -> --no-punch
    pc,         \* side -> where run_doorbell is
    att,        \* side -> the attempt armed, 0 before the first
    phase,      \* side -> Phase, a dead RelayWatch told from a live one
    path,       \* side -> the path table entry: Relay, or the attempt that proved it
    everUp,     \* side -> outcome.upgraded_to.is_some() || outcome.fell_back
    giveUp,     \* side -> give_up_reason
    relayDead,  \* side -> relay_dead
    frames,     \* side -> porch frames written to it and not yet taken
    overflow,   \* side -> the reader found its queue full and dropped a frame
    start,      \* side -> its Starts: coming from the gate, kept in the client's slot
    asked,      \* StartRequests the gate has counted for the session
    closed,     \* the end to end connection is closed
    reason,     \* side -> the reason settled with
    written     \* side -> the attempt's record has been finished and written

vars == <<held, noPunch, pc, att, phase, path, everUp, giveUp, relayDead,
          frames, overflow, start, asked, closed, reason, written>>

Sides == {"initiator", "responder"}
Other(s) == IF s = "initiator" THEN "responder" ELSE "initiator"

Relay == 0

Pcs == {"begin", "expect", "ask", "start", "loop", "ended"}

Phases == {"probing", "watching", "stale", "relayed", "relayGone"}

GiveUps == {"none", "punchDisabled", "internal", "probeFailed"}

Reasons == GiveUps \cup {"ok", "peerHandshakeFailed", "pathIdleTimeout",
                         "peerGoodbye"}

Frames == [t : {"candidates"}, a : 1..MaxAttempts, noUpgrade : BOOLEAN]
          \cup [t : {"pathUp", "pathDown"}, a : 1..MaxAttempts]
          \cup [t : {"goodbye"}]

-----------------------------------------------------------------------------
(***************************************************************************)
(* Helpers.                                                                *)
(***************************************************************************)

(* Every definition below fixes the next value of one variable for side s. *)
At(v, s, x) == [v EXCEPT ![s] = x]

(* read_porch_frames: past its bound the newest frame is dropped. *)
Push(queue, f) ==
    IF Len(queue) < PORCH_FRAME_QUEUE THEN Append(queue, f) ELSE queue

Overflows(queue) == Len(queue) >= PORCH_FRAME_QUEUE

(* The peer's stream takes a frame until its reader is gone. *)
Reachable(s) == ~closed /\ pc[Other(s)] # "ended"

(* write_porch_frame on a stream nobody reads fails; the callers that
   discard the error go on.  `rest` is what s itself leaves in its own queue. *)
WriteTo(s, f, rest) ==
    LET o == Other(s) IN
    /\ frames' = [frames EXCEPT ![s] = rest,
                                ![o] = IF Reachable(s) THEN Push(@, f) ELSE @]
    /\ overflow' = [overflow EXCEPT
                        ![o] = @ \/ (Reachable(s) /\ Overflows(frames[o]))]

WriteFails(s) == ~Reachable(s)

(* A ping is answered by the tick of a side that has armed the attempt's
   key; its pongs may still be on their way when that side has moved on. *)
Answers(s, a) == pc[s] = "loop" /\ att[s] = a

EndedInLoop(s) ==
    pc[s] = "ended" /\ reason[s] \notin {"internal", "peerHandshakeFailed"}

HasAnswered(s, a) ==
    att[s] > a \/ (att[s] = a /\ (pc[s] \in {"loop", "begin"} \/ EndedInLoop(s)))

(* end_of_visit_reason *)
EndReason(s) ==
    IF relayDead[s] THEN "pathIdleTimeout"
    ELSE IF noPunch[s] THEN "punchDisabled"
    ELSE IF giveUp[s] # "none" THEN giveUp[s]
    ELSE IF ~everUp[s] THEN "probeFailed"
    ELSE IF path[s] = Relay THEN "pathIdleTimeout"
    ELSE "ok"

(* gate.attempt_finished, by the guard of every armed attempt: a Start kept
   for the session is dropped. *)
AttemptFinished(s) == start' = At(start, s, start[s] \ {"kept"})

(* settle and finish_visit: the record is closed with a reason and written. *)
Settle(s, r) ==
    /\ pc' = At(pc, s, "ended")
    /\ reason' = At(reason, s, r)
    /\ written' = At(written, s, TRUE)

(* The same with an attempt armed. *)
End(s, r) == Settle(s, r) /\ AttemptFinished(s)

(* Phase::Relayed(RelayWatch::new(..)): a fresh watch over the relay. *)
RelayWatch(s) == phase' = At(phase, s, "relayed")

(* continue 'attempts: the guard disarms the attempt, give_up_reason is
   cleared, and the next turn exchanges candidates again. *)
Rerun(s) ==
    /\ pc' = At(pc, s, "begin")
    /\ giveUp' = At(giveUp, s, "none")
    /\ phase' = At(phase, s, "probing")
    /\ AttemptFinished(s)

-----------------------------------------------------------------------------
(***************************************************************************)
(* Opening: both sides are on the relay, the porch stream is open, and     *)
(* traffic already flows.  The initiator begins, the responder waits.      *)
(***************************************************************************)
Init ==
    /\ held \in [Sides -> BOOLEAN]
    /\ noPunch \in [Sides -> BOOLEAN]
    /\ pc = [s \in Sides |-> IF s = "initiator" THEN "begin" ELSE "expect"]
    /\ att = [s \in Sides |-> 0]
    /\ phase = [s \in Sides |-> "probing"]
    /\ path = [s \in Sides |-> Relay]
    /\ everUp = [s \in Sides |-> FALSE]
    /\ giveUp = [s \in Sides |-> "none"]
    /\ relayDead = [s \in Sides |-> FALSE]
    /\ frames = [s \in Sides |-> <<>>]
    /\ overflow = [s \in Sides |-> FALSE]
    /\ start = [s \in Sides |-> {}]
    /\ asked = 0
    /\ closed = FALSE
    /\ reason = [s \in Sides |-> "none"]
    /\ written = [s \in Sides |-> FALSE]

(* Mutant: what the peer's frame says about punching is not read. *)
ArmedDeafToPeer(s, a, peerNoUpgrade) ==
    /\ att' = At(att, s, a)
    /\ IF noPunch[s]
       THEN /\ giveUp' = At(giveUp, s, "punchDisabled")
            /\ pc' = At(pc, s, "loop")
            /\ RelayWatch(s)
       ELSE /\ giveUp' = At(giveUp, s, "none")
            /\ pc' = At(pc, s, IF s = "initiator" THEN "ask" ELSE "start")
            /\ phase' = At(phase, s, "probing")

(* What a side does once both halves are exchanged: with punching off on
   either side it goes straight to the relay, otherwise it goes on to the
   start signal. *)
Armed(s, a, peerNoUpgrade) ==
    /\ att' = At(att, s, a)
    /\ IF noPunch[s] \/ peerNoUpgrade
       THEN /\ giveUp' = At(giveUp, s, "punchDisabled")
            /\ pc' = At(pc, s, "loop")
            /\ RelayWatch(s)
       ELSE /\ giveUp' = At(giveUp, s, "none")
            /\ pc' = At(pc, s, IF s = "initiator" THEN "ask" ELSE "start")
            /\ phase' = At(phase, s, "probing")

(* exchange_candidates, the initiator's first half: a fresh attempt id and
   its own Candidates. *)
WriteCandidates ==
    LET s == "initiator" IN
    /\ pc[s] = "begin"
    /\ IF WriteFails(s)
       THEN Settle(s, "peerHandshakeFailed") /\ UNCHANGED <<att, frames, overflow>>
       ELSE /\ att' = At(att, s, att[s] + 1)
            /\ pc' = At(pc, s, "expect")
            /\ WriteTo(s, [t |-> "candidates", a |-> att[s] + 1,
                           noUpgrade |-> noPunch[s]], frames[s])
            /\ UNCHANGED <<reason, written>>
    /\ UNCHANGED <<held, noPunch, phase, path, everUp, giveUp, relayDead,
                   start, asked, closed>>

(* expect_candidates fails: anything but Candidates is a protocol error, and
   so is the responder's Candidates for another attempt; the stream ended;
   the deadline passed. *)
ExchangeFails(s) ==
    /\ pc[s] = "expect"
    /\ frames[s] # <<>> /\ Head(frames[s]).t = "candidates" =>
          s = "initiator" /\ Head(frames[s]).a # att[s]
    /\ Settle(s, "peerHandshakeFailed")
    /\ frames' = At(frames, s, <<>>)
    /\ UNCHANGED <<held, noPunch, att, phase, path, everUp, giveUp, relayDead,
                   overflow, start, asked, closed>>

(* The initiator reads the responder's half: the exchange is complete. *)
ReadCandidates ==
    LET s == "initiator" IN
    /\ pc[s] = "expect"
    /\ frames[s] # <<>>
    /\ Head(frames[s]).t = "candidates"
    /\ Head(frames[s]).a = att[s]
    /\ Armed(s, att[s], Head(frames[s]).noUpgrade)
    /\ frames' = At(frames, s, Tail(frames[s]))
    /\ UNCHANGED <<held, noPunch, path, everUp, relayDead, overflow, start,
                   asked, closed, reason, written>>

(* The responder answers the Candidates f that names the attempt: the first
   exchange and an adopted rerun write the same frame. *)
AnswerCandidates(s, f) ==
    IF WriteFails(s)
    THEN /\ Settle(s, "peerHandshakeFailed")
         /\ frames' = At(frames, s, <<>>)
         /\ UNCHANGED <<att, giveUp, phase, overflow>>
    ELSE /\ Armed(s, f.a, f.noUpgrade)
         /\ WriteTo(s, [t |-> "candidates", a |-> f.a, noUpgrade |-> noPunch[s]],
                    Tail(frames[s]))
         /\ UNCHANGED <<reason, written>>

FirstCandidates ==
    LET s == "responder" IN
    /\ pc[s] = "expect"
    /\ frames[s] # <<>>
    /\ Head(frames[s]).t = "candidates"
    /\ AnswerCandidates(s, Head(frames[s]))
    /\ UNCHANGED <<held, noPunch, path, everUp, relayDead, start, asked, closed>>

(* gate.request_start, the initiator's only: the gate counts the request and
   past its budget ignores it.  A Start goes to each side's latest
   registration, so either may miss it. *)
AskStart ==
    /\ pc["initiator"] = "ask"
    /\ \E fired \in SUBSET Sides :
          /\ fired # {} => asked < START_REQUESTS_PER_SESSION
          /\ start' = [s \in Sides |->
                       start[s] \cup (IF s \in fired THEN {"coming"} ELSE {})]
    /\ asked' = asked + 1
    /\ pc' = At(pc, "initiator", "start")
    /\ UNCHANGED <<held, noPunch, att, phase, path, everUp, giveUp, relayDead,
                   frames, overflow, closed, reason, written>>

(* The gate client's reader keeps a Start for whoever waits, or comes to. *)
StartLands(s) ==
    /\ "coming" \in start[s]
    /\ start' = At(start, s, {"kept"})
    /\ UNCHANGED <<held, noPunch, pc, att, phase, path, everUp, giveUp, relayDead,
                   frames, overflow, asked, closed, reason, written>>

(* await_start answers: probing begins at the signal. *)
StartArrives(s) ==
    /\ pc[s] = "start"
    /\ "kept" \in start[s]
    /\ AttemptFinished(s)
    /\ pc' = At(pc, s, "loop")
    /\ UNCHANGED <<held, noPunch, att, phase, path, everUp, giveUp, relayDead,
                   frames, overflow, asked, closed, reason, written>>

(* request_start failed, or await_start ran out: a one-shot attempt ends, a
   held visit carries on over the relay. *)
NoStart(s) ==
    /\ pc[s] = "ask" \/ (pc[s] = "start" /\ "kept" \notin start[s])
    /\ IF held[s]
       THEN /\ pc' = At(pc, s, "loop")
            /\ giveUp' = At(giveUp, s, "internal")
            /\ RelayWatch(s)
            /\ UNCHANGED <<reason, written, start>>
       ELSE End(s, "internal") /\ UNCHANGED <<giveUp, phase>>
    /\ UNCHANGED <<held, noPunch, att, path, everUp, relayDead, frames,
                   overflow, asked, closed>>

-----------------------------------------------------------------------------
(***************************************************************************)
(* The loop: the visit's own end, the three phases, the upgrade.           *)
(***************************************************************************)

(* The hold ran out, or the house is stopping: Goodbye, then the record. *)
Leave(s) ==
    /\ pc[s] = "loop"
    /\ held[s]
    /\ WriteTo(s, [t |-> "goodbye"], <<>>)
    /\ End(s, EndReason(s))
    /\ UNCHANGED <<held, noPunch, att, phase, path, everUp, giveUp, relayDead,
                   asked, closed>>

(* Attempt::given_up: the burst ran out with nothing proved. *)
ProbesGiveUp(s) ==
    /\ pc[s] = "loop"
    /\ phase[s] = "probing"
    /\ IF held[s]
       THEN /\ giveUp' = At(giveUp, s, "probeFailed")
            /\ RelayWatch(s)
            /\ UNCHANGED <<pc, reason, written, start>>
       ELSE End(s, "probeFailed") /\ UNCHANGED <<giveUp, phase>>
    /\ UNCHANGED <<held, noPunch, att, path, everUp, relayDead, frames,
                   overflow, asked, closed>>

(* Attempt::decide named a winner: traffic moves to it before PathUp goes
   out, and a PathUp that cannot be written returns the error as it is,
   without settling the record. *)
Upgrade(s) ==
    /\ pc[s] = "loop"
    /\ phase[s] = "probing"
    /\ HasAnswered(Other(s), att[s])
    /\ path' = At(path, s, att[s])
    /\ everUp' = At(everUp, s, TRUE)
    /\ phase' = At(phase, s, "watching")
    /\ WriteTo(s, [t |-> "pathUp", a |-> att[s]], frames[s])
    /\ pc' = IF WriteFails(s) THEN At(pc, s, "ended") ELSE pc
    /\ UNCHANGED <<held, noPunch, att, giveUp, relayDead, start, asked, closed,
                   reason, written>>

(* Mutant: only the initiator tells its peer. *)
WatchStaleTellsOneWay(s) ==
    /\ pc[s] = "loop"
    /\ phase[s] = "watching"
    /\ att[s] < MaxAttempts
    /\ path' = At(path, s, Relay)
    /\ IF s = "initiator"
       THEN WriteTo(s, [t |-> "pathDown", a |-> att[s]], frames[s])
       ELSE UNCHANGED <<frames, overflow>>
    /\ IF held[s]
       THEN /\ phase' = At(phase, s, "stale")
            /\ UNCHANGED <<pc, reason, written, start>>
       ELSE End(s, "pathIdleTimeout") /\ UNCHANGED phase
    /\ UNCHANGED <<held, noPunch, att, everUp, giveUp, relayDead, asked,
                   closed>>

(* The watched path went stale: traffic back to the relay at once, PathDown
   to the peer, probing goes on.  The path the last attempt of the bound
   proves does not die. *)
WatchStale(s) ==
    /\ pc[s] = "loop"
    /\ phase[s] = "watching"
    /\ att[s] < MaxAttempts
    /\ path' = At(path, s, Relay)
    /\ WriteTo(s, [t |-> "pathDown", a |-> att[s]], frames[s])
    /\ IF held[s]
       THEN /\ phase' = At(phase, s, "stale")
            /\ UNCHANGED <<pc, reason, written, start>>
       ELSE End(s, "pathIdleTimeout") /\ UNCHANGED phase
    /\ UNCHANGED <<held, noPunch, att, everUp, giveUp, relayDead, asked,
                   closed>>

(* The stale grace ran out: the initiator reruns, the responder waits. *)
WatchDead(s) ==
    /\ pc[s] = "loop"
    /\ phase[s] = "stale"
    /\ IF s = "initiator" THEN Rerun(s)
       ELSE RelayWatch(s) /\ UNCHANGED <<pc, giveUp, start>>
    /\ UNCHANGED <<held, noPunch, att, path, everUp, relayDead, frames,
                   overflow, asked, closed, reason, written>>

(* The relay's own watch went dead: reported, and a one-shot visit ends. *)
RelayGoesDead(s) ==
    /\ pc[s] = "loop"
    /\ phase[s] = "relayed"
    /\ relayDead' = At(relayDead, s, TRUE)
    /\ phase' = At(phase, s, "relayGone")
    /\ IF held[s] THEN UNCHANGED <<pc, reason, written, start>>
       ELSE End(s, "pathIdleTimeout")
    /\ UNCHANGED <<held, noPunch, att, path, everUp, giveUp, frames, overflow,
                   asked, closed>>

(* The slow probe of a dead relay is answered: a fresh watch. *)
RelayRecovers(s) ==
    /\ pc[s] = "loop"
    /\ phase[s] = "relayGone"
    /\ Answers(Other(s), att[s])
    /\ relayDead' = At(relayDead, s, FALSE)
    /\ RelayWatch(s)
    /\ UNCHANGED <<held, noPunch, pc, att, path, everUp, giveUp, frames,
                   overflow, start, asked, closed, reason, written>>

-----------------------------------------------------------------------------
(***************************************************************************)
(* The peer's own frames, taken in the order they were written.            *)
(***************************************************************************)
Take(s, t) == pc[s] = "loop" /\ frames[s] # <<>> /\ Head(frames[s]).t = t

TakeGoodbye(s) ==
    /\ Take(s, "goodbye")
    /\ End(s, IF giveUp[s] = "punchDisabled" THEN "punchDisabled"
                 ELSE "peerGoodbye")
    /\ frames' = At(frames, s, <<>>)
    /\ UNCHANGED <<held, noPunch, att, phase, path, everUp, giveUp, relayDead,
                   overflow, asked, closed>>

(* Candidates for another attempt: the peer reran the doorbell, and this
   side joins whatever it was doing. *)
TakeCandidates(s) ==
    /\ Take(s, "candidates")
    /\ Head(frames[s]).a # att[s]
    /\ AttemptFinished(s)
    /\ AnswerCandidates(s, Head(frames[s]))
    /\ UNCHANGED <<held, noPunch, path, everUp, relayDead, asked, closed>>

(* Mutant: the attempt is over, the path is left in the table. *)
TakePathDownKeepsPath(s) ==
    /\ Take(s, "pathDown")
    /\ Head(frames[s]).a = att[s]
    /\ frames' = At(frames, s, Tail(frames[s]))
    /\ IF held[s]
       THEN RelayWatch(s) /\ UNCHANGED <<pc, giveUp, reason, written, start>>
       ELSE End(s, "pathIdleTimeout") /\ UNCHANGED <<giveUp, phase>>
    /\ UNCHANGED <<held, noPunch, att, path, everUp, relayDead, overflow, asked, closed>>

(* Mutant: the initiator, too, waits for the other side to rerun. *)
TakePathDownWaits(s) ==
    /\ Take(s, "pathDown")
    /\ Head(frames[s]).a = att[s]
    /\ path' = At(path, s, Relay)
    /\ frames' = At(frames, s, Tail(frames[s]))
    /\ IF held[s]
       THEN RelayWatch(s) /\ UNCHANGED <<pc, giveUp, reason, written, start>>
       ELSE End(s, "pathIdleTimeout") /\ UNCHANGED <<giveUp, phase>>
    /\ UNCHANGED <<held, noPunch, att, everUp, relayDead, overflow, asked, closed>>

(* A fall-back is mutual: this side leaves the path too, and the attempt is
   over for both. *)
TakePathDown(s) ==
    /\ Take(s, "pathDown")
    /\ Head(frames[s]).a = att[s]
    /\ path' = At(path, s, Relay)
    /\ frames' = At(frames, s, Tail(frames[s]))
    /\ \/ /\ ~held[s]
          /\ End(s, "pathIdleTimeout")
          /\ UNCHANGED <<giveUp, phase>>
       \/ /\ held[s] /\ s = "initiator"
          /\ Rerun(s)
          /\ UNCHANGED <<reason, written>>
       \/ /\ held[s] /\ s = "responder"
          /\ RelayWatch(s)
          /\ UNCHANGED <<pc, giveUp, reason, written, start>>
    /\ UNCHANGED <<held, noPunch, att, everUp, relayDead, overflow, asked, closed>>

(* PathUp says nothing about this side; neither does a PathDown of an
   attempt already over, or Candidates it has already answered. *)
IgnoreFrame(s) ==
    /\ \/ Take(s, "pathUp")
       \/ Take(s, "pathDown") /\ Head(frames[s]).a # att[s]
       \/ Take(s, "candidates") /\ Head(frames[s]).a = att[s]
    /\ frames' = At(frames, s, Tail(frames[s]))
    /\ UNCHANGED <<held, noPunch, pc, att, phase, path, everUp, giveUp,
                   relayDead, overflow, start, asked, closed, reason, written>>

(* peer.closed(): whatever the reader had not delivered yet is lost. *)
ConnectionClosed(s) ==
    /\ pc[s] = "loop"
    /\ closed
    /\ End(s, IF held[s] \/ everUp[s] THEN EndReason(s) ELSE "internal")
    /\ frames' = At(frames, s, <<>>)
    /\ UNCHANGED <<held, noPunch, att, phase, path, everUp, giveUp, relayDead,
                   overflow, asked, closed>>

(* The caller closes the connection once its side has returned; and the
   connection may be lost under both. *)
Close ==
    /\ ~closed
    /\ closed' = TRUE
    /\ UNCHANGED <<held, noPunch, pc, att, phase, path, everUp, giveUp,
                   relayDead, frames, overflow, start, asked, reason, written>>

(* Both sides have returned and the connection is closed. *)
Over ==
    /\ closed
    /\ \A s \in Sides : pc[s] = "ended"
    /\ UNCHANGED vars

Step(s) ==
    \/ ExchangeFails(s) \/ StartLands(s) \/ StartArrives(s) \/ NoStart(s)
    \/ ProbesGiveUp(s) \/ WatchDead(s)
    \/ TakeGoodbye(s) \/ TakeCandidates(s) \/ TakePathDown(s) \/ IgnoreFrame(s)
    \/ ConnectionClosed(s)

Next ==
    \/ WriteCandidates \/ ReadCandidates \/ FirstCandidates \/ AskStart
    \/ \E s \in Sides :
          \/ Step(s)
          \/ Leave(s) \/ Upgrade(s) \/ WatchStale(s)
          \/ RelayGoesDead(s) \/ RelayRecovers(s)
    \/ Close
    \/ Over

(* Every wait of the code is bounded by a timer and every frame taken by the
   tick, so the steps of a side that are not a matter of the network or of
   the user are taken if they stay possible. *)
Fairness ==
    /\ WF_vars(WriteCandidates)
    /\ WF_vars(ReadCandidates)
    /\ WF_vars(FirstCandidates)
    /\ WF_vars(AskStart)
    /\ \A s \in Sides : WF_vars(Step(s))

Spec == Init /\ [][Next]_vars

FairSpec == Spec /\ Fairness

-----------------------------------------------------------------------------
(***************************************************************************)
(* Properties.                                                             *)
(***************************************************************************)

(* Every variable has its type. *)
TypeOK ==
    /\ held \in [Sides -> BOOLEAN]
    /\ noPunch \in [Sides -> BOOLEAN]
    /\ pc \in [Sides -> Pcs]
    /\ att \in [Sides -> 0..MaxAttempts]
    /\ phase \in [Sides -> Phases]
    /\ path \in [Sides -> 0..MaxAttempts]
    /\ everUp \in [Sides -> BOOLEAN]
    /\ giveUp \in [Sides -> GiveUps]
    /\ relayDead \in [Sides -> BOOLEAN]
    /\ frames \in [Sides -> Seq(Frames)]
    /\ overflow \in [Sides -> BOOLEAN]
    /\ start \in [Sides -> SUBSET {"coming", "kept"}]
    /\ asked \in Nat
    /\ closed \in BOOLEAN
    /\ reason \in [Sides -> Reasons]
    /\ written \in [Sides -> BOOLEAN]

(* Traffic is on a direct path only while the attempt that proved the path
   watches it: an attempt is joined, given up or rerun with the traffic on
   the relay. *)
DirectOnlyWhileWatched ==
    \A s \in Sides :
        pc[s] # "ended" =>
            (path[s] # Relay <=> pc[s] = "loop" /\ phase[s] = "watching")
            /\ path[s] \in {Relay, att[s]}

(* One id names the attempt in both houses: whenever the initiator is past
   the exchange, the responder has the same attempt or has ended, and the
   two are never more than the attempt in flight apart. *)
AttemptsAgree ==
    /\ att["responder"] <= att["initiator"]
    /\ att["initiator"] <= att["responder"] + 1
    /\ pc["initiator"] \in {"ask", "start", "loop"} =>
          att["initiator"] = att["responder"]

(* The bounded porch queue never drops a frame of these two peers. *)
NoFrameDropped == \A s \in Sides : ~overflow[s]

(* "Both sides stop": with punching off on one side, neither leaves the
   relay nor spends a Start. *)
NoPunchIsMutual ==
    (\E s \in Sides : noPunch[s]) =>
        asked = 0 /\ \A s \in Sides : ~everUp[s] /\ path[s] = Relay

(* What the two sides know of each other agrees: the attempt, whether there
   is to be punching at all, and every frame that was written. *)
BothSidesAgree == TypeOK /\ AttemptsAgree /\ NoPunchIsMutual /\ NoFrameDropped

(* A fall-back is mutual: when one side has left the direct path of its
   attempt, the other does not stay on it. *)
FallBackIsMutual ==
    \A s \in Sides :
        (pc[s] = "loop" /\ phase[s] = "stale")
            ~> (path[Other(s)] = Relay \/ pc[Other(s)] = "ended")

(* A direct path that died is replaced: both sides of a held visit come to a
   newer attempt, or the visit ends. *)
DeadPathIsRerun ==
    \A s \in Sides : \A a \in 1..MaxAttempts :
        (pc[s] = "loop" /\ phase[s] = "stale" /\ att[s] = a)
            ~> (\/ \A t \in Sides : att[t] > a
                \/ \E t \in Sides : pc[t] = "ended")
=============================================================================
