------------------------------- MODULE Doctor -------------------------------
(***************************************************************************)
(* `mosschat doctor`: one run of run_doctor_steps (mosschat/src/main.rs)   *)
(* against a gate, or a gate and a friend, from the name it resolves to    *)
(* the status it exits with.  It drives a gate client (gate/client.rs) and *)
(* the doorbell, which from then on is a task of its own; both write to    *)
(* one Recorder (diag.rs) and each may be the one to close it.             *)
(*                                                                         *)
(* Of a record what is kept is its steps, the first that failed, and its   *)
(* reason; of the doorbell (module Doorbell has both sides of it) what it  *)
(* records, and where it may be when the run gives up on it.  A deadline   *)
(* may pass whenever what it bounds has not happened.                      *)
(***************************************************************************)
EXTENDS Naturals, Sequences, Functions

CONSTANTS
    MAX_RECORD_ENTRIES,
    MaxAttempts             \* bound: attempts of the doorbell in one visit

VARIABLES
    args,       \* friend: --friend, held: --hold above 0, noPunch: --no-punch
    rec,        \* the Recorder's state
    main,       \* run_doctor_steps: where it is, the reason it will close with
    bell,       \* the doorbell's task
    gateUp,     \* the gate connection
    peerUp      \* the end to end connection

vars == <<args, rec, main, bell, gateUp, peerUp>>

None == "none"
NoRecord == [reason |-> None, steps |-> <<>>, failed |-> None, by |-> None]

-----------------------------------------------------------------------------
(***************************************************************************)
(* The Recorder.                                                           *)
(***************************************************************************)

(* Recorder::step: the first failure is kept, also of an entry there is no
   room for; past the cap one entry, the marker, is still written. *)
Stepped(r, s, ok) ==
    [r EXCEPT !.failed = IF ~ok /\ @ = None THEN s ELSE @,
              !.steps = IF Len(@) <= MAX_RECORD_ENTRIES
                        THEN Append(@, [step |-> s, ok |-> ok]) ELSE @]

(* Recorder::snapshot *)
Snapshot(r, reason, by) ==
    [reason |-> reason, steps |-> r.steps, failed |-> r.failed, by |-> by]

(* Mutant: the record is written by everyone who closes it. *)
FinishedAgain(r, snap) == [r EXCEPT !.done = snap, !.lines = @ + 1]

(* Recorder::finish, once its snapshot is taken: under the lock the first to
   come stores its record and writes it, the others are handed that one. *)
Finished(r, snap) ==
    IF r.done # NoRecord THEN r ELSE [r EXCEPT !.done = snap, !.lines = @ + 1]

Recorded(record, s, ok) == [step |-> s, ok |-> ok] \in Range(record.steps)

-----------------------------------------------------------------------------
Init ==
    /\ args \in {a \in [friend : BOOLEAN, held : BOOLEAN, noPunch : BOOLEAN] :
                    a.friend \/ (~a.held /\ ~a.noPunch)}
    /\ rec = [steps |-> <<>>, failed |-> None, hint |-> None, done |-> NoRecord,
              lines |-> 0]
    /\ main = [pc |-> "resolve", reason |-> None, snap |-> NoRecord,
               cut |-> FALSE, unsent |-> FALSE]
    /\ bell = [pc |-> "off", phase |-> "probing", up |-> FALSE, giveUp |-> None,
               dead |-> FALSE, attempts |-> 0, snap |-> NoRecord]
    /\ gateUp = FALSE
    /\ peerUp = FALSE

To(pc) == main' = [main EXCEPT !.pc = pc]

(* Close the record with a reason; deregister comes first, if there is a
   registration. *)
CloseWith(pc, reason) == main' = [main EXCEPT !.pc = pc, !.reason = reason]

-----------------------------------------------------------------------------
(***************************************************************************)
(* To the gate.                                                            *)
(***************************************************************************)

(* Mutant: an error that recorded no step is left so. *)
ConnectErrorUnnamed(r) ==
    /\ rec' = r
    /\ CloseWith("finish", IF r.hint # None THEN r.hint
                           ELSE IF r.failed = "gateDial" THEN "gateUnreachable"
                           ELSE "internal")

(* What run_doctor_steps makes of an error of connect: the reason the gate
   named, or what the failed step says, or the step that was in flight. *)
ConnectError(r) ==
    LET inFlight == IF r.steps = <<>> THEN "gateDial"
                    ELSE IF r.steps[Len(r.steps)].step = "gateDial" THEN "gateRegister"
                    ELSE "closed"
    IN IF r.hint # None \/ r.failed # None
       THEN /\ rec' = r
            /\ CloseWith("finish", IF r.hint # None THEN r.hint
                                   ELSE IF r.failed = "gateDial" THEN "gateUnreachable"
                                   ELSE "internal")
       ELSE rec' = Stepped(r, inFlight, FALSE) /\ CloseWith("finish", "internal")

Resolve ==
    /\ main.pc = "resolve"
    /\ \/ To("dial") /\ UNCHANGED rec
       \/ rec' = Stepped(rec, "gateDial", FALSE) /\ CloseWith("finish", "gateUnreachable")
    /\ UNCHANGED <<args, bell, gateUp, peerUp>>

(* connect_with_recorder up to the registration: its certificates and socket,
   which record nothing when they fail, the handshake, the pinned key. *)
Dial ==
    /\ main.pc = "dial"
    /\ \/ ConnectError(rec)
       \/ ConnectError(Stepped(rec, "gateDial", FALSE))
       \/ rec' = Stepped(rec, "gateDial", TRUE) /\ To("register")
       \/ ConnectError(Stepped(Stepped(rec, "gateDial", TRUE), "gateDial", FALSE))
    /\ UNCHANGED <<args, bell, gateUp, peerUp>>

(* The registration is answered, or refused by a frame or a close that names
   a reason, or the gate goes without one (record_gate_close). *)
Register ==
    /\ main.pc = "register"
    /\ \/ /\ rec' = Stepped(Stepped(rec, "gateRegister", TRUE), "reflectPrimary", TRUE)
          /\ To("reflect")
          /\ gateUp' = TRUE
       \/ /\ \E h \in {None, "refused"} :
                ConnectError(Stepped([rec EXCEPT !.hint = h], "gateRegister", FALSE))
          /\ UNCHANGED gateUp
    /\ UNCHANGED <<args, bell, peerUp>>

(* DIAL_DEADLINE over all of connect. *)
DialDeadline ==
    /\ main.pc \in {"dial", "register"}
    /\ rec' = Stepped(rec, "gateDial", FALSE)
    /\ CloseWith("finish", "gateUnreachable")
    /\ UNCHANGED <<args, bell, gateUp, peerUp>>

(* gate_only_reason *)
GateOnlyReason(ok, hint) ==
    IF ok THEN "ok" ELSE IF hint # None THEN hint ELSE "internal"

(* reflect, off the secondary port; a gate-only run is over after it. *)
Reflect ==
    /\ main.pc = "reflect"
    /\ \E ok \in BOOLEAN, h \in {None, "refused"} :
          /\ ok => h = None
          /\ rec' = Stepped([rec EXCEPT !.hint = h], "reflectSecondary", ok)
          /\ IF args.friend THEN To("introduce")
             ELSE CloseWith("goodbye", GateOnlyReason(ok, h))
    /\ UNCHANGED <<args, bell, gateUp, peerUp>>

-----------------------------------------------------------------------------
(***************************************************************************)
(* To the friend.                                                          *)
(***************************************************************************)

(* introduce: the knock is written, and answered by an introduction or by
   nothing inside its time; a knock that cannot be written returns the error
   as it is. *)
Introduce ==
    /\ main.pc = "introduce"
    /\ \/ /\ gateUp
          /\ rec' = Stepped(Stepped(rec, "introduce", TRUE), "relayOpen", TRUE)
          /\ To("handshake")
       \/ /\ rec' = Stepped(rec, "introduce", FALSE)
          /\ CloseWith("goodbye", "introduceTimeout")
       \/ /\ ~gateUp
          /\ main' = [main EXCEPT !.pc = "goodbye", !.reason = "introduceTimeout",
                                  !.unsent = TRUE]
          /\ UNCHANGED rec
    /\ UNCHANGED <<args, bell, gateUp, peerUp>>

(* dial_peer; with the connection the doorbell's task begins. *)
DialPeer ==
    /\ main.pc = "handshake"
    /\ \/ /\ rec' = Stepped(rec, "peerHandshake", TRUE)
          /\ To("visit")
          /\ bell' = [bell EXCEPT !.pc = "open"]
          /\ peerUp' = TRUE
       \/ /\ rec' = Stepped(rec, "peerHandshake", FALSE)
          /\ CloseWith("goodbye", "peerHandshakeFailed")
          /\ UNCHANGED <<bell, peerUp>>
    /\ UNCHANGED <<args, gateUp>>

(* A held run waits for the doorbell, for its budget. *)
Settled ==
    /\ main.pc = "visit" /\ args.held
    /\ bell.pc = "done"
    /\ peerUp' = FALSE
    /\ CloseWith("goodbye", "ok")
    /\ UNCHANGED <<args, rec, bell, gateUp>>

Overran ==
    /\ main.pc = "visit" /\ args.held
    /\ bell.pc # "done"
    /\ peerUp' = FALSE
    /\ To("cut")
    /\ UNCHANGED <<args, rec, bell, gateUp>>

CutShort ==
    /\ main.pc = "cut"
    /\ rec' = Stepped(rec, "closed", FALSE)
    /\ main' = [main EXCEPT !.pc = "goodbye", !.reason = "internal", !.cut = TRUE]
    /\ UNCHANGED <<args, bell, gateUp, peerUp>>

(* A run that is not held waits for a direct path, for the time probing may
   take; then it closes the connection. *)
Upgraded ==
    /\ main.pc = "visit" /\ ~args.held
    /\ peerUp' = FALSE
    /\ \/ bell.phase = "direct" /\ CloseWith("drain", "ok")
       \/ bell.phase # "direct" /\ CloseWith("drain", "probeFailed")
    /\ UNCHANGED <<args, rec, bell, gateUp>>

(* And gives the doorbell a moment to end, which it may not. *)
Drain ==
    /\ main.pc = "drain"
    /\ To("goodbye")
    /\ UNCHANGED <<args, rec, bell, gateUp, peerUp>>

-----------------------------------------------------------------------------
(***************************************************************************)
(* The end of the run.                                                     *)
(***************************************************************************)

(* deregister: GateClient::goodbye says it, waits on one budget, and closes
   the connection whatever came of it. *)
Goodbye ==
    /\ main.pc = "goodbye"
    /\ gateUp' = FALSE
    /\ To("finish")
    /\ UNCHANGED <<args, rec, bell, peerUp>>

Finish ==
    /\ main.pc = "finish"
    /\ main' = [main EXCEPT !.pc = "lock", !.snap = Snapshot(rec, main.reason, "run")]
    /\ UNCHANGED <<args, rec, bell, gateUp, peerUp>>

(* The record finish returns is the one that is printed and judged. *)
Lock ==
    /\ main.pc = "lock"
    /\ rec' = Finished(rec, main.snap)
    /\ main' = [main EXCEPT !.pc = "exit",
                            !.snap = IF rec.done # NoRecord THEN rec.done ELSE @]
    /\ UNCHANGED <<args, bell, gateUp, peerUp>>

FATAL_TO_A_VISIT == {"gateDial", "gateRegister", "introduce", "relayOpen",
                     "peerHandshake", "candidateExchange", "closed"}

(* exit_for, and for a held run exit_for_held on held_run_verdict. *)
ExitsZero(record) ==
    IF args.held
    THEN /\ \A s \in FATAL_TO_A_VISIT : ~Recorded(record, s, FALSE)
         /\ Recorded(record, "live", TRUE)
    ELSE record.failed = None

-----------------------------------------------------------------------------
(***************************************************************************)
(* The doorbell's task, the initiator's side, as it records.               *)
(***************************************************************************)
BellOnly == UNCHANGED <<args, main, gateUp, peerUp>>

(* settle: run_doorbell returns, its record snapshot and not yet stored.  The
   path was lost before the reason that says so is given. *)
BellEnds(r, reason) ==
    /\ rec' = r
    /\ bell' = [bell EXCEPT !.pc = "settle", !.snap = Snapshot(r, reason, "bell"),
                            !.phase = IF reason = "pathIdleTimeout" THEN "relayed" ELSE @]

BellSettles ==
    /\ bell.pc = "settle"
    /\ rec' = Finished(rec, bell.snap)
    /\ bell' = [bell EXCEPT !.pc = "done"]
    /\ BellOnly

(* A held visit is live from the start; then the porch stream, which fails
   with the connection. *)
BellOpens ==
    LET r == IF args.held THEN Stepped(rec, "live", TRUE) ELSE rec IN
    /\ bell.pc = "open"
    /\ \/ rec' = r /\ bell' = [bell EXCEPT !.pc = "exchange", !.attempts = 1]
       \/ ~peerUp /\ BellEnds(Stepped(r, "candidateExchange", FALSE), "peerHandshakeFailed")
    /\ BellOnly

(* The exchange, of the first attempt or of a rerun.  Either side's candidates
   may say that nothing is to be probed. *)
BellExchanges ==
    LET r == Stepped(rec, "candidateExchange", TRUE) IN
    /\ bell.pc = "exchange"
    /\ \/ BellEnds(Stepped(rec, "candidateExchange", FALSE), "peerHandshakeFailed")
       \/ \E peerNoUpgrade \in BOOLEAN :
          /\ peerUp
          /\ IF args.noPunch \/ peerNoUpgrade
             THEN /\ rec' = Stepped(r, "probeBurst", TRUE)
                  /\ bell' = [bell EXCEPT !.pc = "loop", !.phase = "relayed",
                                          !.giveUp = "punchDisabled"]
             ELSE /\ rec' \in {r, Stepped(r, "probeBurst", FALSE)}  \* no candidates
                  /\ bell' = [bell EXCEPT !.pc = "start", !.phase = "probing"]
    /\ BellOnly

(* request_start and await_start. *)
BellStarts ==
    /\ bell.pc = "start"
    /\ \/ /\ gateUp
          /\ rec' = Stepped(rec, "startSignal", TRUE)
          /\ bell' = [bell EXCEPT !.pc = "loop"]
       \/ LET r == Stepped(rec, "startSignal", FALSE) IN
          IF args.held
          THEN /\ rec' = r
               /\ bell' = [bell EXCEPT !.pc = "loop", !.phase = "relayed",
                                       !.giveUp = "internal"]
          ELSE BellEnds(r, "internal")
    /\ BellOnly

(* The burst gives up: a held visit stays on the relay. *)
BellGivesUp ==
    LET r == Stepped(rec, "probeBurst", FALSE) IN
    /\ bell.pc = "loop" /\ bell.phase = "probing"
    /\ IF args.held
       THEN rec' = r /\ bell' = [bell EXCEPT !.phase = "relayed", !.giveUp = "probeFailed"]
       ELSE BellEnds(r, "probeFailed")
    /\ BellOnly

(* A candidate is proved; a PathUp that cannot be written ends the task with
   its record open. *)
BellUpgrades ==
    /\ bell.pc = "loop" /\ bell.phase = "probing"
    /\ rec' = Stepped(Stepped(Stepped(rec, "probeBurst", TRUE), "upgrade", TRUE),
                      "live", TRUE)
    /\ bell' = [bell EXCEPT !.phase = "direct", !.up = TRUE,
                            !.pc = IF peerUp THEN @ ELSE "done"]
    /\ BellOnly

(* The watched path goes stale: traffic back to the relay, and the end of a
   run that is not held. *)
BellGoesStale ==
    LET r == Stepped(Stepped(rec, "pathLost", FALSE), "relayFallback", TRUE) IN
    /\ bell.pc = "loop" /\ bell.phase = "direct"
    /\ IF args.held THEN rec' = r /\ bell' = [bell EXCEPT !.phase = "stale"]
       ELSE BellEnds(r, "pathIdleTimeout")
    /\ BellOnly

Rerun == [bell EXCEPT !.pc = "exchange", !.phase = "relayed", !.giveUp = None,
                      !.attempts = @ + 1]

(* And dead: a held visit starts the next attempt. *)
BellGoesDead ==
    /\ bell.pc = "loop" /\ bell.phase = "stale"
    /\ bell.attempts < MaxAttempts
    /\ rec' = Stepped(rec, "pathLost", FALSE)
    /\ bell' = Rerun
    /\ BellOnly

(* The peer fell back, in whatever phase this side is. *)
BellPathDown ==
    LET r == IF bell.phase = "direct" THEN Stepped(rec, "relayFallback", TRUE) ELSE rec IN
    /\ bell.pc = "loop" /\ peerUp
    /\ IF ~args.held THEN BellEnds(r, "pathIdleTimeout")
       ELSE bell.attempts < MaxAttempts /\ rec' = r /\ bell' = Rerun
    /\ BellOnly

(* The relay goes dead under a relayed visit, and may come back to a held one. *)
BellLosesRelay ==
    LET r == Stepped(Stepped(rec, "pathLost", FALSE), "pathLost", FALSE) IN
    /\ bell.pc = "loop" /\ bell.phase = "relayed" /\ ~bell.dead
    /\ IF args.held THEN rec' = r /\ bell' = [bell EXCEPT !.dead = TRUE]
       ELSE BellEnds(r, "pathIdleTimeout")
    /\ BellOnly

BellRelayIsBack ==
    /\ bell.pc = "loop" /\ bell.phase = "relayed" /\ bell.dead
    /\ rec' = Stepped(rec, "relayFallback", TRUE)
    /\ bell' = [bell EXCEPT !.dead = FALSE]
    /\ BellOnly

(* end_of_visit_reason *)
EndReason ==
    IF bell.dead THEN "pathIdleTimeout"
    ELSE IF args.noPunch THEN "punchDisabled"
    ELSE IF bell.giveUp # None THEN bell.giveUp
    ELSE IF ~bell.up THEN "probeFailed"
    ELSE IF bell.phase # "direct" THEN "pathIdleTimeout"
    ELSE "ok"

(* The hold elapsed, the peer said goodbye, the connection closed. *)
BellLeaves ==
    /\ bell.pc = "loop"
    /\ \/ args.held /\ BellEnds(rec, EndReason)
       \/ /\ peerUp
          /\ BellEnds(Stepped(rec, "closed", TRUE),
                      IF bell.giveUp = "punchDisabled" THEN "punchDisabled"
                      ELSE "peerGoodbye")
       \/ /\ ~peerUp
          /\ BellEnds(Stepped(rec, "closed", TRUE),
                      IF args.held \/ bell.up THEN EndReason ELSE "internal")
    /\ BellOnly

-----------------------------------------------------------------------------
GateLost ==
    /\ gateUp /\ gateUp' = FALSE
    /\ UNCHANGED <<args, rec, main, bell, peerUp>>

PeerLost ==
    /\ peerUp /\ peerUp' = FALSE
    /\ UNCHANGED <<args, rec, main, bell, gateUp>>

Exited == main.pc = "exit" /\ UNCHANGED vars

Bell ==
    \/ BellOpens \/ BellExchanges \/ BellStarts \/ BellGivesUp \/ BellUpgrades
    \/ BellGoesStale
    \/ BellGoesDead \/ BellPathDown \/ BellLosesRelay \/ BellRelayIsBack \/ BellLeaves
    \/ BellSettles

Run ==
    \/ Resolve \/ Dial \/ Register \/ DialDeadline \/ Reflect
    \/ Introduce \/ DialPeer \/ Settled \/ Overran \/ CutShort \/ Upgraded \/ Drain
    \/ Goodbye \/ Finish \/ Lock

Next ==
    \/ main.pc # "exit" /\ (Run \/ Bell \/ GateLost \/ PeerLost)
    \/ Exited

Spec == Init /\ [][Next]_vars

-----------------------------------------------------------------------------
(***************************************************************************)
(* Properties.                                                             *)
(***************************************************************************)

(* A run leaves one record, whoever closes it first, and exits by that one;
   a visit that was cut short is not called ok by the run that cut it. *)
OneRecordPerRun ==
    /\ rec.lines <= 1
    /\ main.pc = "exit" =>
          /\ rec.lines = 1
          /\ main.snap = rec.done
          /\ main.cut /\ rec.done.by = "run" => rec.done.reason # "ok"

(* A run that ends before its visit begins does not exit 0 (the knock that
   could not be sent aside), and neither does one that was cut short, unless
   the doorbell settled in that very moment or the record was full. *)
FailureIsNamed ==
    main.pc = "exit" /\ ExitsZero(main.snap) =>
        /\ \/ bell.pc # "off"
           \/ ~args.friend /\ Recorded(main.snap, "reflectSecondary", TRUE)
           \/ main.unsent
        /\ main.cut =>
              \/ main.snap.by = "bell" /\ ~Recorded(main.snap, "closed", FALSE)
              \/ Len(main.snap.steps) > MAX_RECORD_ENTRIES

(* The usage text and gatehouse-design.md section 7: a run against a friend
   exits 0 only if it reached live. *)
ExitZeroMeansLive ==
    main.pc = "exit" /\ args.friend /\ ExitsZero(main.snap) =>
        Recorded(main.snap, "live", TRUE)
=============================================================================
