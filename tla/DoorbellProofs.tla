--------------------------- MODULE DoorbellProofs ---------------------------
(***************************************************************************)
(* What holds of Doorbell for every bound on the attempts and every budget *)
(* of Starts.  The argument is about what can be on its way: the frames    *)
(* that wait for a side are at most one of each type, in one order, and    *)
(* each belongs to the attempt that the two sides' states say.             *)
(***************************************************************************)
EXTENDS Doorbell, TLAPS

-----------------------------------------------------------------------------
(* Queues.                                                                 *)

In(q) == { q[k] : k \in DOMAIN q }

Rank(f) ==
  CASE f.t = "pathUp"     -> 1
    [] f.t = "pathDown"   -> 2
    [] f.t = "candidates" -> 3
    [] f.t = "goodbye"    -> 4

\* The frames of a queue come in the order of their ranks, none twice.
Sorted(q) == \A j, k \in DOMAIN q : j < k => Rank(q[j]) < Rank(q[k])

LEMMA EmptyFacts ==
  /\ <<>> \in Seq(Frames) /\ Sorted(<<>>) /\ In(<<>>) = {}
  /\ \A q \in Seq(Frames) : In(q) = {} => q = <<>>
<1>1. <<>> \in Seq(Frames)
  OBVIOUS
<1>2. Sorted(<<>>) /\ In(<<>>) = {}
  BY DEF Sorted, In
<1>3. ASSUME NEW q \in Seq(Frames), In(q) = {} PROVE q = <<>>
  <2>0. \A k \in DOMAIN q : q[k] \in In(q)
    BY DEF In
  <2>1. DOMAIN q = {}
    BY <1>3, <2>0
  <2>2. DOMAIN q = 1..Len(q) /\ Len(q) \in Nat
    OBVIOUS
  <2>3. Len(q) = 0
    BY <2>1, <2>2
  <2> QED
    BY <2>3
<1> QED
  BY <1>1, <1>2, <1>3

LEMMA RankType == \A f \in Frames : Rank(f) \in 1..4
BY DEF Frames, Rank

\* Taking the first frame leaves those of higher rank.
LEMMA TailFacts ==
  ASSUME NEW q \in Seq(Frames), q # <<>>, Sorted(q)
  PROVE  /\ Tail(q) \in Seq(Frames) /\ Sorted(Tail(q))
         /\ Head(q) \in In(q) /\ Head(q) \in Frames
         /\ In(Tail(q)) \subseteq In(q)
         /\ \A f \in In(Tail(q)) : Rank(Head(q)) < Rank(f)
         /\ \A f \in In(q) : f = Head(q) \/ f \in In(Tail(q))
<1>1. Len(q) \in Nat \ {0} /\ DOMAIN q = 1..Len(q) /\ Head(q) = q[1] /\ q[1] \in Frames
  OBVIOUS
<1>2. /\ Tail(q) \in Seq(Frames) /\ DOMAIN Tail(q) = 1..Len(q) - 1
      /\ \A k \in 1..Len(q) - 1 : Tail(q)[k] = q[k + 1]
  OBVIOUS
<1>3. \A k \in 1..Len(q) - 1 : k + 1 \in DOMAIN q /\ 1 < k + 1
  BY <1>1
<1>4. Sorted(Tail(q))
  <2> SUFFICES ASSUME NEW j \in 1..Len(q) - 1, NEW k \in 1..Len(q) - 1, j < k
               PROVE  Rank(q[j + 1]) < Rank(q[k + 1])
    BY <1>2 DEF Sorted
  <2> QED
    BY <1>1, <1>3 DEF Sorted
<1>5. In(Tail(q)) = { q[k + 1] : k \in 1..Len(q) - 1 }
  BY <1>2 DEF In
<1>6. In(Tail(q)) \subseteq In(q) /\ Head(q) \in In(q)
  BY <1>1, <1>3, <1>5 DEF In
<1>7. \A f \in In(Tail(q)) : Rank(Head(q)) < Rank(f)
  BY <1>1, <1>3, <1>5 DEF Sorted
<1>8. ASSUME NEW f \in In(q), f # Head(q) PROVE f \in In(Tail(q))
  <2>1. PICK k \in 1..Len(q) : f = q[k]
    BY <1>1 DEF In
  <2>2. k - 1 \in 1..Len(q) - 1 /\ (k - 1) + 1 = k
    BY <1>1, <1>8, <2>1
  <2> QED
    BY <1>5, <2>1, <2>2
<1> QED
  BY <1>1, <1>2, <1>4, <1>6, <1>7, <1>8

\* A frame that outranks those that wait finds room behind them.
LEMMA PushFacts ==
  ASSUME NEW q \in Seq(Frames), Sorted(q), NEW f \in Frames, \A g \in In(q) : Rank(g) < Rank(f)
  PROVE  /\ ~Overflows(q) /\ Push(q, f) \in Seq(Frames)
         /\ Sorted(Push(q, f)) /\ In(Push(q, f)) = In(q) \cup {f}
<1>1. Len(q) \in Nat /\ DOMAIN q = 1..Len(q) /\ \A k \in DOMAIN q : q[k] \in Frames /\ q[k] \in In(q)
  BY DEF In
<1>2. \A k \in DOMAIN q : Rank(q[k]) \in 1..4 /\ Rank(q[k]) < Rank(f)
  BY <1>1, RankType
<1>3. Rank(f) \in 1..4
  BY RankType
<1>4. Len(q) < 4
  <2> SUFFICES ASSUME Len(q) >= 4 PROVE FALSE
    BY <1>1
  <2>1. 1 \in DOMAIN q /\ 2 \in DOMAIN q /\ 3 \in DOMAIN q /\ 4 \in DOMAIN q
    BY <1>1
  <2>2. Rank(q[1]) < Rank(q[2]) /\ Rank(q[2]) < Rank(q[3]) /\ Rank(q[3]) < Rank(q[4])
    BY <2>1 DEF Sorted
  <2> HIDE DEF Rank
  <2> QED
    BY <1>2, <1>3, <2>1, <2>2
<1>5. Len(q) < PORCH_FRAME_QUEUE /\ ~Overflows(q)
  BY <1>1, <1>4, DoorbellAssumption DEF Overflows
<1> DEFINE p == Append(q, f)
<1>6. Push(q, f) = p /\ p \in Seq(Frames) /\ DOMAIN p = 1..Len(q) + 1
  BY <1>5 DEF Push
<1>7. p[Len(q) + 1] = f /\ \A k \in 1..Len(q) : p[k] = q[k]
  BY <1>1
<1>8. \A k \in 1..Len(q) + 1 : k = Len(q) + 1 \/ k \in 1..Len(q)
  BY <1>1
<1> HIDE DEF p
<1>9. In(p) = In(q) \cup {f}
  <2>1. In(p) \subseteq In(q) \cup {f}
    BY <1>1, <1>6, <1>7, <1>8 DEF In
  <2>2. \A k \in 1..Len(q) : k \in DOMAIN p
    BY <1>1, <1>6
  <2>3. Len(q) + 1 \in DOMAIN p
    BY <1>1, <1>6
  <2> QED
    BY <1>1, <1>7, <2>1, <2>2, <2>3 DEF In
<1>10. Sorted(p)
  <2> SUFFICES ASSUME NEW j \in DOMAIN p, NEW k \in DOMAIN p, j < k PROVE Rank(p[j]) < Rank(p[k])
    BY DEF Sorted
  <2>1. j \in 1..Len(q) /\ p[j] = q[j]
    BY <1>1, <1>6, <1>7
  <2>2. CASE k \in 1..Len(q)
    BY <1>1, <1>7, <2>1, <2>2 DEF Sorted
  <2>3. CASE k = Len(q) + 1
    BY <1>1, <1>2, <1>7, <2>1, <2>3
  <2> QED
    BY <1>6, <1>8, <2>2, <2>3
<1> QED
  BY <1>5, <1>6, <1>9, <1>10

-----------------------------------------------------------------------------
(* The inductive invariant.  I and R are the two sides.                    *)

I == "initiator"
R == "responder"
FI == In(frames[I])
FR == In(frames[R])

\* Where each side can be, and in which attempt.
Places ==
  /\ pc[R] \in {"expect", "start", "loop", "ended"}
  /\ pc[R] = "expect" => att[R] = 0 /\ frames[I] = <<>>
  /\ att[R] <= att[I] /\ att[I] <= att[R] + 1
  /\ pc[I] \in {"begin", "ask", "start", "loop"} => att[I] = att[R]
  /\ pc[I] \in {"expect", "ask", "start", "loop"} => att[I] > 0
  /\ pc[R] \in {"start", "loop"} => att[R] > 0
  /\ pc[I] = "begin" => att[I] < MaxAttempts
  /\ \A s \in Sides :
       /\ pc[s] \in {"begin", "expect", "ask", "start"} => phase[s] = "probing"
       /\ pc[s] = "loop" /\ phase[s] = "stale" => att[s] < MaxAttempts

\* What may wait for the initiator.
ToInitiator ==
  pc[I] # "ended" =>
    /\ Sorted(frames[I])
    /\ \A f \in FI :
         /\ f.t = "candidates" =>
              /\ pc[I] = "expect" /\ f.a = att[I] /\ f.a = att[R] /\ f.noUpgrade = noPunch[R]
              /\ frames[R] = <<>> /\ phase[R] \notin {"watching", "stale"}
         /\ f.t = "goodbye" => pc[R] = "ended"
         /\ f.t = "pathDown" => f.a < MaxAttempts /\ (pc[R] = "loop" => phase[R] # "watching")
         /\ f.t \in {"pathUp", "pathDown"} /\ pc[R] \in {"start", "loop"} /\ phase[R] = "probing" =>
              \E c \in FI : c.t = "candidates"

\* What may wait for the responder.
ToResponder ==
  pc[R] # "ended" =>
    /\ Sorted(frames[R])
    /\ pc[I] \in {"ask", "start"} \/ (pc[I] = "loop" /\ phase[I] = "probing") => frames[R] = <<>>
    /\ \A f \in FR :
         /\ f.t = "candidates" =>
              /\ pc[I] \in {"expect", "ended"} /\ f.a = att[I] /\ f.a = att[R] + 1
              /\ f.noUpgrade = noPunch[I]
         /\ f.t = "goodbye" => pc[I] = "ended"
         /\ f.t = "pathDown" =>
              f.a = att[R] /\ f.a < MaxAttempts /\ (pc[I] = "loop" => phase[I] # "watching")

\* A side that may still come to the path of its attempt, or stay on it, after the
\* initiator has left it, has the initiator's PathDown before it.
Warned ==
  /\ pc[R] \in {"start", "loop"} /\ phase[R] \in {"probing", "watching"}
  /\ \/ att[I] = att[R] + 1
     \/ ~closed /\ (pc[I] = "begin" \/ (pc[I] = "loop" /\ phase[I] = "stale"))
  => \E d \in FR : d.t = "pathDown"

\* With punching off on one side neither comes near a direct path.
Unpunched ==
  (\E s \in Sides : noPunch[s]) =>
    /\ asked = 0
    /\ \A s \in Sides :
         /\ ~everUp[s] /\ path[s] = Relay
         /\ pc[s] \notin {"ask", "start"}
         /\ pc[s] = "loop" => phase[s] \in {"relayed", "relayGone"}

Inv ==
  /\ TypeOK /\ Places /\ ToInitiator /\ ToResponder /\ Warned /\ Unpunched
  /\ NoFrameDropped /\ DirectOnlyWhileWatched

-----------------------------------------------------------------------------
(* The steps.                                                              *)

USE DEF I, R, FI, FR, Sides, Other, At, Relay

LEMMA WriteEffect ==
  ASSUME TypeOK, NoFrameDropped, NEW s \in Sides, NEW f \in Frames, NEW rest \in Seq(Frames),
         WriteTo(s, f, rest),
         Reachable(s) => /\ Sorted(frames[Other(s)])
                         /\ \A g \in In(frames[Other(s)]) : Rank(g) < Rank(f)
  PROVE  /\ frames' \in [Sides -> Seq(Frames)] /\ overflow' \in [Sides -> BOOLEAN] /\ NoFrameDropped'
         /\ frames'[s] = rest
         /\ Reachable(s) => /\ Sorted(frames'[Other(s)])
                            /\ In(frames'[Other(s)]) = In(frames[Other(s)]) \cup {f}
         /\ ~Reachable(s) => frames'[Other(s)] = frames[Other(s)]
<1> DEFINE o == Other(s)
           q == frames[o]
<1>1. o \in Sides /\ o # s /\ q \in Seq(Frames) /\ frames \in [Sides -> Seq(Frames)] /\ overflow \in [Sides -> BOOLEAN]
  BY DEF TypeOK
<1>2. /\ frames' = [frames EXCEPT ![s] = rest, ![o] = IF Reachable(s) THEN Push(q, f) ELSE q]
      /\ overflow' = [overflow EXCEPT ![o] = overflow[o] \/ (Reachable(s) /\ Overflows(q))]
  BY <1>1 DEF WriteTo
<1>3. Reachable(s) => /\ ~Overflows(q) /\ Push(q, f) \in Seq(Frames)
                      /\ Sorted(Push(q, f)) /\ In(Push(q, f)) = In(q) \cup {f}
  BY <1>1, PushFacts
<1>4. overflow[o] = FALSE
  BY <1>1 DEF NoFrameDropped
<1>5. (overflow[o] \/ (Reachable(s) /\ Overflows(q))) = FALSE
  BY <1>3, <1>4
<1>6. overflow' = [overflow EXCEPT ![o] = FALSE]
  BY <1>2, <1>5
<1>7. frames'[s] = rest /\ frames'[o] = IF Reachable(s) THEN Push(q, f) ELSE q
  BY <1>1, <1>2
<1>8. frames' \in [Sides -> Seq(Frames)]
  BY <1>1, <1>2, <1>3
<1>9. overflow' \in [Sides -> BOOLEAN] /\ NoFrameDropped'
  BY <1>1, <1>6 DEF NoFrameDropped
<1> QED
  BY <1>3, <1>7, <1>8, <1>9

\* The gate's side of a Start changes nothing the invariant speaks of.
LEMMA StartLandsStep ==
  ASSUME Inv, NEW s \in Sides, StartLands(s)
  PROVE  Inv'
<1>1. TypeOK'
  BY DEF Inv, StartLands, TypeOK
<1> QED
  BY <1>1 DEF Inv, StartLands, Places, ToInitiator, ToResponder, Warned, Unpunched, NoFrameDropped,
              DirectOnlyWhileWatched

LEMMA StartArrivesStep ==
  ASSUME Inv, NEW s \in Sides, StartArrives(s)
  PROVE  Inv'
<1>0. /\ TypeOK /\ pc' = [pc EXCEPT ![s] = "loop"] /\ pc[s] = "start"
      /\ start' = [start EXCEPT ![s] = start[s] \ {"kept"}]
      /\ UNCHANGED <<held, noPunch, att, phase, path, everUp, giveUp, relayDead,
                     frames, overflow, asked, closed, reason, written>>
  BY DEF Inv, StartArrives, AttemptFinished
<1>1. TypeOK'
  BY <1>0 DEF TypeOK, Pcs
<1>2. Places'
  BY <1>0 DEF Inv, TypeOK, Places
<1>3. ToInitiator' /\ ToResponder'
  BY <1>0 DEF Inv, TypeOK, Places, ToInitiator, ToResponder
<1>4. Warned' /\ Unpunched'
  BY <1>0 DEF Inv, TypeOK, Places, Warned, Unpunched
<1>5. DirectOnlyWhileWatched' /\ NoFrameDropped'
  BY <1>0 DEF Inv, TypeOK, Places, DirectOnlyWhileWatched, NoFrameDropped
<1> QED
  BY <1>1, <1>2, <1>3, <1>4, <1>5 DEF Inv

LEMMA FlagType ==
  ASSUME NEW f \in [Sides -> BOOLEAN], NEW s \in Sides
  PROVE  [f EXCEPT ![s] = TRUE] \in [Sides -> BOOLEAN] /\ [f EXCEPT ![s] = FALSE] \in [Sides -> BOOLEAN]
OBVIOUS

LEMMA WrittenType ==
  ASSUME TypeOK, NEW s \in Sides, written' = written \/ written' = [written EXCEPT ![s] = TRUE]
  PROVE  written' \in [Sides -> BOOLEAN]
<1>1. written \in [Sides -> BOOLEAN]
  BY DEF TypeOK
<1>2. CASE written' = written
  BY <1>1, <1>2
<1>3. CASE written' = [written EXCEPT ![s] = TRUE]
  BY <1>1, <1>3, FlagType, Zenon
<1> QED
  BY <1>2, <1>3

LEMMA NoStartStep ==
  ASSUME Inv, NEW s \in Sides, NoStart(s)
  PROVE  Inv'
<1>0. /\ TypeOK /\ pc[s] \in {"ask", "start"}
      /\ \/ /\ pc' = [pc EXCEPT ![s] = "loop"] /\ giveUp' = [giveUp EXCEPT ![s] = "internal"]
            /\ phase' = [phase EXCEPT ![s] = "relayed"]
            /\ UNCHANGED <<reason, written, start>>
         \/ /\ pc' = [pc EXCEPT ![s] = "ended"] /\ reason' = [reason EXCEPT ![s] = "internal"]
            /\ written' = [written EXCEPT ![s] = TRUE]
            /\ start' = [start EXCEPT ![s] = start[s] \ {"kept"}]
            /\ UNCHANGED <<giveUp, phase>>
      /\ UNCHANGED <<held, noPunch, att, path, everUp, relayDead, frames, overflow, asked, closed>>
  BY DEF Inv, NoStart, End, Settle, AttemptFinished, RelayWatch
<1>1. TypeOK'
  <2>1. written' = written \/ written' = [written EXCEPT ![s] = TRUE]
    BY <1>0
  <2>2. written' \in [Sides -> BOOLEAN] 
    BY <1>0, <2>1, WrittenType
  <2>3. relayDead' \in [Sides -> BOOLEAN] /\ closed' \in BOOLEAN
    BY <1>0, FlagType DEF TypeOK
  <2> QED
    BY <1>0, <2>2, <2>3 DEF TypeOK, Pcs, Phases, GiveUps, Reasons
<1>2. Places'
  BY <1>0 DEF Inv, TypeOK, Places
<1>3. ToInitiator' /\ ToResponder'
  BY <1>0 DEF Inv, TypeOK, Places, ToInitiator, ToResponder
<1>4. Warned' /\ Unpunched'
  BY <1>0 DEF Inv, TypeOK, Places, Warned, Unpunched
<1>5. DirectOnlyWhileWatched' /\ NoFrameDropped'
  BY <1>0 DEF Inv, TypeOK, Places, DirectOnlyWhileWatched, NoFrameDropped
<1> QED
  BY <1>1, <1>2, <1>3, <1>4, <1>5 DEF Inv

LEMMA ProbesGiveUpStep ==
  ASSUME Inv, NEW s \in Sides, ProbesGiveUp(s)
  PROVE  Inv'
<1>0. /\ TypeOK /\ pc[s] = "loop" /\ phase[s] = "probing"
      /\ \/ /\ giveUp' = [giveUp EXCEPT ![s] = "probeFailed"]
            /\ phase' = [phase EXCEPT ![s] = "relayed"]
            /\ UNCHANGED <<pc, reason, written, start>>
         \/ /\ pc' = [pc EXCEPT ![s] = "ended"] /\ reason' = [reason EXCEPT ![s] = "probeFailed"]
            /\ written' = [written EXCEPT ![s] = TRUE]
            /\ start' = [start EXCEPT ![s] = start[s] \ {"kept"}]
            /\ UNCHANGED <<giveUp, phase>>
      /\ UNCHANGED <<held, noPunch, att, path, everUp, relayDead, frames, overflow, asked, closed>>
  BY DEF Inv, ProbesGiveUp, End, Settle, AttemptFinished, RelayWatch
<1>1. TypeOK'
  <2>1. written' = written \/ written' = [written EXCEPT ![s] = TRUE]
    BY <1>0
  <2>2. written' \in [Sides -> BOOLEAN] 
    BY <1>0, <2>1, WrittenType
  <2>3. relayDead' \in [Sides -> BOOLEAN] /\ closed' \in BOOLEAN
    BY <1>0, FlagType DEF TypeOK
  <2> QED
    BY <1>0, <2>2, <2>3 DEF TypeOK, Pcs, Phases, GiveUps, Reasons
<1>2. Places'
  BY <1>0 DEF Inv, TypeOK, Places
<1>3. ToInitiator' /\ ToResponder'
  BY <1>0 DEF Inv, TypeOK, Places, ToInitiator, ToResponder
<1>4. Warned' /\ Unpunched'
  BY <1>0 DEF Inv, TypeOK, Places, Warned, Unpunched
<1>5. DirectOnlyWhileWatched' /\ NoFrameDropped'
  BY <1>0 DEF Inv, TypeOK, Places, DirectOnlyWhileWatched, NoFrameDropped
<1> QED
  BY <1>1, <1>2, <1>3, <1>4, <1>5 DEF Inv

LEMMA WatchDeadStep ==
  ASSUME Inv, NEW s \in Sides, WatchDead(s)
  PROVE  Inv'
<1>0. /\ TypeOK /\ pc[s] = "loop" /\ phase[s] = "stale"
      /\ \/ /\ s = I /\ pc' = [pc EXCEPT ![s] = "begin"] /\ giveUp' = [giveUp EXCEPT ![s] = "none"]
            /\ phase' = [phase EXCEPT ![s] = "probing"]
            /\ start' = [start EXCEPT ![s] = start[s] \ {"kept"}]
         \/ /\ s = R /\ phase' = [phase EXCEPT ![s] = "relayed"]
            /\ UNCHANGED <<pc, giveUp, start>>
      /\ UNCHANGED <<held, noPunch, att, path, everUp, relayDead, frames, overflow, asked, closed,
                     reason, written>>
  BY DEF Inv, WatchDead, Rerun, AttemptFinished, RelayWatch
<1>1. TypeOK'
  <2>1. written' = written \/ written' = [written EXCEPT ![s] = TRUE]
    BY <1>0
  <2>2. written' \in [Sides -> BOOLEAN] 
    BY <1>0, <2>1, WrittenType
  <2>3. relayDead' \in [Sides -> BOOLEAN] /\ closed' \in BOOLEAN
    BY <1>0, FlagType DEF TypeOK
  <2> QED
    BY <1>0, <2>2, <2>3 DEF TypeOK, Pcs, Phases, GiveUps, Reasons
<1>2. Places'
  BY <1>0 DEF Inv, TypeOK, Places
<1>3. ToInitiator' /\ ToResponder'
  BY <1>0 DEF Inv, TypeOK, Places, ToInitiator, ToResponder
<1>4. Warned' /\ Unpunched'
  BY <1>0 DEF Inv, TypeOK, Places, Warned, Unpunched
<1>5. DirectOnlyWhileWatched' /\ NoFrameDropped'
  BY <1>0 DEF Inv, TypeOK, Places, DirectOnlyWhileWatched, NoFrameDropped
<1> QED
  BY <1>1, <1>2, <1>3, <1>4, <1>5 DEF Inv

LEMMA RelayGoesDeadStep ==
  ASSUME Inv, NEW s \in Sides, RelayGoesDead(s)
  PROVE  Inv'
<1>0. /\ TypeOK /\ pc[s] = "loop" /\ phase[s] = "relayed"
      /\ phase' = [phase EXCEPT ![s] = "relayGone"]
      /\ relayDead' = [relayDead EXCEPT ![s] = TRUE]
      /\ \/ UNCHANGED <<pc, reason, written, start>>
         \/ /\ pc' = [pc EXCEPT ![s] = "ended"] /\ reason' = [reason EXCEPT ![s] = "pathIdleTimeout"]
            /\ written' = [written EXCEPT ![s] = TRUE]
            /\ start' = [start EXCEPT ![s] = start[s] \ {"kept"}]
      /\ UNCHANGED <<held, noPunch, att, path, everUp, giveUp, frames, overflow, asked, closed>>
  BY DEF Inv, RelayGoesDead, End, Settle, AttemptFinished
<1>1. TypeOK'
  <2>1. written' = written \/ written' = [written EXCEPT ![s] = TRUE]
    BY <1>0
  <2>2. written' \in [Sides -> BOOLEAN] 
    BY <1>0, <2>1, WrittenType
  <2>3. relayDead' \in [Sides -> BOOLEAN] /\ closed' \in BOOLEAN
    BY <1>0, FlagType DEF TypeOK
  <2> QED
    BY <1>0, <2>2, <2>3 DEF TypeOK, Pcs, Phases, GiveUps, Reasons
<1>2. Places'
  BY <1>0 DEF Inv, TypeOK, Places
<1>3. ToInitiator' /\ ToResponder'
  BY <1>0 DEF Inv, TypeOK, Places, ToInitiator, ToResponder
<1>4. Warned' /\ Unpunched'
  BY <1>0 DEF Inv, TypeOK, Places, Warned, Unpunched
<1>5. DirectOnlyWhileWatched' /\ NoFrameDropped'
  BY <1>0 DEF Inv, TypeOK, Places, DirectOnlyWhileWatched, NoFrameDropped
<1> QED
  BY <1>1, <1>2, <1>3, <1>4, <1>5 DEF Inv

LEMMA RelayRecoversStep ==
  ASSUME Inv, NEW s \in Sides, RelayRecovers(s)
  PROVE  Inv'
<1>0. /\ TypeOK /\ pc[s] = "loop" /\ phase[s] = "relayGone"
      /\ phase' = [phase EXCEPT ![s] = "relayed"]
      /\ relayDead' = [relayDead EXCEPT ![s] = FALSE]
      /\ UNCHANGED <<held, noPunch, pc, att, path, everUp, giveUp, frames, overflow, start, asked,
                     closed, reason, written>>
  BY DEF Inv, RelayRecovers, RelayWatch
<1>1. TypeOK'
  <2>1. written' = written \/ written' = [written EXCEPT ![s] = TRUE]
    BY <1>0
  <2>2. written' \in [Sides -> BOOLEAN] 
    BY <1>0, <2>1, WrittenType
  <2>3. relayDead' \in [Sides -> BOOLEAN] /\ closed' \in BOOLEAN
    BY <1>0, FlagType DEF TypeOK
  <2> QED
    BY <1>0, <2>2, <2>3 DEF TypeOK, Pcs, Phases, GiveUps, Reasons
<1>2. Places'
  BY <1>0 DEF Inv, TypeOK, Places
<1>3. ToInitiator' /\ ToResponder'
  BY <1>0 DEF Inv, TypeOK, Places, ToInitiator, ToResponder
<1>4. Warned' /\ Unpunched'
  BY <1>0 DEF Inv, TypeOK, Places, Warned, Unpunched
<1>5. DirectOnlyWhileWatched' /\ NoFrameDropped'
  BY <1>0 DEF Inv, TypeOK, Places, DirectOnlyWhileWatched, NoFrameDropped
<1> QED
  BY <1>1, <1>2, <1>3, <1>4, <1>5 DEF Inv

LEMMA CloseStep ==
  ASSUME Inv, Close
  PROVE  Inv'
<1>0. /\ TypeOK /\ closed' = TRUE
      /\ UNCHANGED <<held, noPunch, pc, att, phase, path, everUp, giveUp, relayDead, frames, overflow,
                     start, asked, reason, written>>
  BY DEF Inv, Close
<1>1. TypeOK'
  <2>1. written' = written \/ written' = [written EXCEPT ![I] = TRUE]
    BY <1>0
  <2>2. written' \in [Sides -> BOOLEAN] 
    BY <1>0, <2>1, WrittenType
  <2>3. relayDead' \in [Sides -> BOOLEAN] /\ closed' \in BOOLEAN
    BY <1>0, FlagType DEF TypeOK
  <2> QED
    BY <1>0, <2>2, <2>3 DEF TypeOK, Pcs, Phases, GiveUps, Reasons
<1>2. Places'
  BY <1>0 DEF Inv, TypeOK, Places
<1>3. ToInitiator' /\ ToResponder'
  BY <1>0 DEF Inv, TypeOK, Places, ToInitiator, ToResponder
<1>4. Warned' /\ Unpunched'
  BY <1>0 DEF Inv, TypeOK, Places, Warned, Unpunched
<1>5. DirectOnlyWhileWatched' /\ NoFrameDropped'
  BY <1>0 DEF Inv, TypeOK, Places, DirectOnlyWhileWatched, NoFrameDropped
<1> QED
  BY <1>1, <1>2, <1>3, <1>4, <1>5 DEF Inv

LEMMA AskStartStep ==
  ASSUME Inv, AskStart
  PROVE  Inv'
<1>0. /\ TypeOK /\ pc[I] = "ask" /\ pc' = [pc EXCEPT ![I] = "start"]
      /\ asked' = asked + 1
      /\ \E fired \in SUBSET Sides :
           start' = [s \in Sides |-> start[s] \cup (IF s \in fired THEN {"coming"} ELSE {})]
      /\ UNCHANGED <<held, noPunch, att, phase, path, everUp, giveUp, relayDead, frames, overflow,
                     closed, reason, written>>
  BY DEF Inv, AskStart
<1>1. TypeOK'
  <2>1. written' = written \/ written' = [written EXCEPT ![I] = TRUE]
    BY <1>0
  <2>2. written' \in [Sides -> BOOLEAN] 
    BY <1>0, <2>1, WrittenType
  <2>3. relayDead' \in [Sides -> BOOLEAN] /\ closed' \in BOOLEAN
    BY <1>0, FlagType DEF TypeOK
  <2> QED
    BY <1>0, <2>2, <2>3 DEF TypeOK, Pcs, Phases, GiveUps, Reasons
<1>2. Places'
  BY <1>0 DEF Inv, TypeOK, Places
<1>3. ToInitiator' /\ ToResponder'
  BY <1>0 DEF Inv, TypeOK, Places, ToInitiator, ToResponder
<1>4. Warned' /\ Unpunched'
  BY <1>0 DEF Inv, TypeOK, Places, Warned, Unpunched
<1>5. DirectOnlyWhileWatched' /\ NoFrameDropped'
  BY <1>0 DEF Inv, TypeOK, Places, DirectOnlyWhileWatched, NoFrameDropped
<1> QED
  BY <1>1, <1>2, <1>3, <1>4, <1>5 DEF Inv

\* The queue of a side that takes its first frame.
LEMMA Taking ==
  ASSUME Inv, NEW s \in Sides, pc[s] # "ended", frames[s] # <<>>
  PROVE  /\ frames \in [Sides -> Seq(Frames)]
         /\ Tail(frames[s]) \in Seq(Frames) /\ Sorted(Tail(frames[s]))
         /\ Head(frames[s]) \in In(frames[s]) /\ Head(frames[s]) \in Frames
         /\ In(Tail(frames[s])) \subseteq In(frames[s])
         /\ \A f \in In(Tail(frames[s])) : f \in Frames /\ Rank(Head(frames[s])) < Rank(f)
         /\ \A f \in In(frames[s]) : f = Head(frames[s]) \/ f \in In(Tail(frames[s]))
<1>1. frames \in [Sides -> Seq(Frames)] /\ frames[s] \in Seq(Frames) /\ Sorted(frames[s])
  BY DEF Inv, TypeOK, ToInitiator, ToResponder
<1>2. \A f \in In(frames[s]) : f \in Frames
  BY <1>1 DEF In
<1> QED
  BY <1>1, <1>2, TailFacts

\* Behind Candidates there can only be a Goodbye.
LEMMA BehindCandidates ==
  ASSUME NEW h \in Frames, h.t = "candidates", NEW f \in Frames, Rank(h) < Rank(f)
  PROVE  f.t = "goodbye"
BY DEF Frames, Rank

LEMMA IgnoreFrameStep ==
  ASSUME Inv, NEW s \in Sides, IgnoreFrame(s)
  PROVE  Inv'
<1>0. /\ TypeOK /\ pc[s] = "loop" /\ frames[s] # <<>>
      /\ \/ Head(frames[s]).t = "pathUp"
         \/ Head(frames[s]).t = "pathDown" /\ Head(frames[s]).a # att[s]
         \/ Head(frames[s]).t = "candidates" /\ Head(frames[s]).a = att[s]
      /\ frames' = [frames EXCEPT ![s] = Tail(frames[s])]
      /\ UNCHANGED <<held, noPunch, pc, att, phase, path, everUp, giveUp, relayDead, overflow, start,
                     asked, closed, reason, written>>
  BY DEF Inv, IgnoreFrame, Take
<1> DEFINE q == frames[s]
           h == Head(q)
<1>1. /\ frames \in [Sides -> Seq(Frames)] /\ Tail(q) \in Seq(Frames) /\ Sorted(Tail(q))
      /\ h \in In(q) /\ h \in Frames /\ In(Tail(q)) \subseteq In(q)
      /\ \A f \in In(Tail(q)) : f \in Frames /\ Rank(h) < Rank(f)
      /\ \A f \in In(q) : f = h \/ f \in In(Tail(q))
  BY <1>0, Taking
<1>2. frames'[s] = Tail(q) /\ frames' \in [Sides -> Seq(Frames)]
  BY <1>0, <1>1
<1>3. s = R => h.t = "pathUp"
  BY <1>0, <1>1 DEF Inv, TypeOK, ToResponder
<1>4. TypeOK'
  <2>1. written' = written \/ written' = [written EXCEPT ![s] = TRUE]
    BY <1>0
  <2>2. written' \in [Sides -> BOOLEAN] 
    BY <1>0, <2>1, WrittenType
  <2>3. relayDead' \in [Sides -> BOOLEAN] /\ closed' \in BOOLEAN
    BY <1>0, FlagType DEF TypeOK
  <2> QED
    BY <1>0, <1>1, <1>2, <1>3, <2>2, <2>3, DoorbellAssumption DEF TypeOK, Pcs, Phases, GiveUps, Reasons
<1>5. Places'
  BY <1>0, <1>1, <1>2, <1>3 DEF Inv, TypeOK, Places
<1>6. ToInitiator' /\ ToResponder'
  BY <1>0, <1>1, <1>2, <1>3 DEF Inv, TypeOK, Places, ToInitiator, ToResponder
<1>7. Warned' /\ Unpunched'
  BY <1>0, <1>1, <1>2, <1>3 DEF Inv, TypeOK, Places, Warned, Unpunched
<1>8. DirectOnlyWhileWatched' /\ NoFrameDropped'
  BY <1>0, <1>1, <1>2, <1>3 DEF Inv, TypeOK, Places, DirectOnlyWhileWatched, NoFrameDropped
<1> QED
  BY <1>4, <1>5, <1>6, <1>7, <1>8 DEF Inv

LEMMA ReadCandidatesStep ==
  ASSUME Inv, ReadCandidates
  PROVE  Inv'
<1>0. /\ TypeOK /\ pc[I] = "expect" /\ frames[I] # <<>>
      /\ Head(frames[I]).t = "candidates" /\ Head(frames[I]).a = att[I]
      /\ att' = [att EXCEPT ![I] = att[I]]
      /\ frames' = [frames EXCEPT ![I] = Tail(frames[I])]
      /\ IF noPunch[I] \/ Head(frames[I]).noUpgrade
         THEN /\ giveUp' = [giveUp EXCEPT ![I] = "punchDisabled"] /\ pc' = [pc EXCEPT ![I] = "loop"]
              /\ phase' = [phase EXCEPT ![I] = "relayed"]
         ELSE /\ giveUp' = [giveUp EXCEPT ![I] = "none"] /\ pc' = [pc EXCEPT ![I] = "ask"]
              /\ phase' = [phase EXCEPT ![I] = "probing"]
      /\ UNCHANGED <<held, noPunch, path, everUp, relayDead, overflow, start, asked, closed, reason,
                     written>>
  BY DEF Inv, ReadCandidates, Armed, RelayWatch
<1> DEFINE q == frames[I]
           h == Head(q)
<1>1. /\ frames \in [Sides -> Seq(Frames)] /\ Tail(q) \in Seq(Frames) /\ Sorted(Tail(q))
      /\ h \in In(q) /\ h \in Frames /\ In(Tail(q)) \subseteq In(q)
      /\ \A f \in In(Tail(q)) : f \in Frames /\ Rank(h) < Rank(f)
      /\ \A f \in In(q) : f = h \/ f \in In(Tail(q))
  BY <1>0, Taking
<1>2. frames'[I] = Tail(q) /\ frames' \in [Sides -> Seq(Frames)]
  BY <1>0, <1>1
<1>3. \A f \in In(Tail(q)) : f.t = "goodbye"
  BY <1>0, <1>1, BehindCandidates
<1>4. frames[R] = <<>> /\ att[R] = att[I] /\ h.noUpgrade = noPunch[R]
  BY <1>0, <1>1 DEF Inv, ToInitiator
<1>5. TypeOK'
  <2>1. written' = written \/ written' = [written EXCEPT ![I] = TRUE]
    BY <1>0
  <2>2. written' \in [Sides -> BOOLEAN] 
    BY <1>0, <2>1, WrittenType
  <2>3. relayDead' \in [Sides -> BOOLEAN] /\ closed' \in BOOLEAN
    BY <1>0, FlagType DEF TypeOK
  <2> QED
    BY <1>0, <1>1, <1>2, <1>3, <1>4, <2>2, <2>3, DoorbellAssumption DEF TypeOK, Pcs, Phases, GiveUps, Reasons
<1>6. Places'
  BY <1>0, <1>1, <1>2, <1>3, <1>4 DEF Inv, TypeOK, Places
<1>7. ToInitiator' /\ ToResponder'
  BY <1>0, <1>1, <1>2, <1>3, <1>4 DEF Inv, TypeOK, Places, ToInitiator, ToResponder
<1>8. Warned' /\ Unpunched'
  BY <1>0, <1>1, <1>2, <1>3, <1>4 DEF Inv, TypeOK, Places, Warned, Unpunched
<1>9. DirectOnlyWhileWatched' /\ NoFrameDropped'
  BY <1>0, <1>1, <1>2, <1>3, <1>4 DEF Inv, TypeOK, Places, DirectOnlyWhileWatched, NoFrameDropped
<1> QED
  BY <1>5, <1>6, <1>7, <1>8, <1>9 DEF Inv

LEMMA TakePathDownStep ==
  ASSUME Inv, NEW s \in Sides, TakePathDown(s)
  PROVE  Inv'
<1>0. /\ TypeOK /\ pc[s] = "loop" /\ frames[s] # <<>>
      /\ Head(frames[s]).t = "pathDown" /\ Head(frames[s]).a = att[s]
      /\ frames' = [frames EXCEPT ![s] = Tail(frames[s])]
      /\ path' = [path EXCEPT ![s] = 0]
      /\ \/ /\ pc' = [pc EXCEPT ![s] = "ended"] /\ reason' = [reason EXCEPT ![s] = "pathIdleTimeout"]
            /\ written' = [written EXCEPT ![s] = TRUE]
            /\ start' = [start EXCEPT ![s] = start[s] \ {"kept"}]
            /\ UNCHANGED <<giveUp, phase>>
         \/ /\ s = I /\ pc' = [pc EXCEPT ![s] = "begin"] /\ giveUp' = [giveUp EXCEPT ![s] = "none"]
            /\ phase' = [phase EXCEPT ![s] = "probing"]
            /\ start' = [start EXCEPT ![s] = start[s] \ {"kept"}]
            /\ UNCHANGED <<reason, written>>
         \/ /\ s = R /\ phase' = [phase EXCEPT ![s] = "relayed"]
            /\ UNCHANGED <<pc, giveUp, start, reason, written>>
      /\ UNCHANGED <<held, noPunch, att, everUp, relayDead, overflow, asked, closed>>
  BY DEF Inv, TakePathDown, Take, Rerun, End, Settle, AttemptFinished, RelayWatch
<1> DEFINE q == frames[s]
           h == Head(q)
<1>1. /\ frames \in [Sides -> Seq(Frames)] /\ Tail(q) \in Seq(Frames) /\ Sorted(Tail(q))
      /\ h \in In(q) /\ h \in Frames /\ In(Tail(q)) \subseteq In(q)
      /\ \A f \in In(Tail(q)) : f \in Frames /\ Rank(h) < Rank(f)
      /\ \A f \in In(q) : f = h \/ f \in In(Tail(q))
  BY <1>0, Taking
<1>2. frames'[s] = Tail(q) /\ frames' \in [Sides -> Seq(Frames)]
  BY <1>0, <1>1
<1>3. h.a < MaxAttempts /\ \A f \in In(q) : f.t = "pathDown" /\ f \in In(Tail(q)) => FALSE
  <2>1. \A f \in Frames : f.t = "pathDown" => Rank(f) = 2
    BY DEF Rank
  <2> QED
    BY <1>0, <1>1, <2>1 DEF Inv, ToInitiator, ToResponder
<1>4. s = I => ~(pc[R] \in {"start", "loop"} /\ phase[R] \in {"probing", "watching"})
  BY <1>0, <1>1 DEF Inv, Places, ToInitiator
<1>5. TypeOK'
  <2>1. written' = written \/ written' = [written EXCEPT ![s] = TRUE]
    BY <1>0
  <2>2. written' \in [Sides -> BOOLEAN] 
    BY <1>0, <2>1, WrittenType
  <2>3. relayDead' \in [Sides -> BOOLEAN] /\ closed' \in BOOLEAN
    BY <1>0, FlagType DEF TypeOK
  <2> QED
    BY <1>0, <1>1, <1>2, <1>3, <1>4, <2>2, <2>3, DoorbellAssumption DEF TypeOK, Pcs, Phases, GiveUps, Reasons
<1>6. Places'
  BY <1>0, <1>1, <1>2, <1>3, <1>4 DEF Inv, TypeOK, Places
<1>7. ToInitiator' /\ ToResponder'
  BY <1>0, <1>1, <1>2, <1>3, <1>4 DEF Inv, TypeOK, Places, ToInitiator, ToResponder
<1>8. Warned' /\ Unpunched'
  BY <1>0, <1>1, <1>2, <1>3, <1>4 DEF Inv, TypeOK, Places, Warned, Unpunched
<1>9. DirectOnlyWhileWatched' /\ NoFrameDropped'
  BY <1>0, <1>1, <1>2, <1>3, <1>4 DEF Inv, TypeOK, Places, DirectOnlyWhileWatched, NoFrameDropped
<1> QED
  BY <1>5, <1>6, <1>7, <1>8, <1>9 DEF Inv

LEMMA EndReasonType ==
  ASSUME TypeOK, NEW s \in Sides
  PROVE  EndReason(s) \in Reasons
BY DEF TypeOK, EndReason, Reasons, GiveUps

\* A side that ends and leaves its queue.
Quits(s) ==
  /\ \E r \in Reasons : Settle(s, r)
  /\ frames' = [frames EXCEPT ![s] = <<>>]
  /\ start' = start \/ AttemptFinished(s)
  /\ UNCHANGED <<held, noPunch, att, phase, path, everUp, giveUp, relayDead, overflow, asked, closed>>

LEMMA QuitsStep ==
  ASSUME Inv, NEW s \in Sides, Quits(s)
  PROVE  Inv'
<1>0. /\ TypeOK /\ pc' = [pc EXCEPT ![s] = "ended"] /\ written' = [written EXCEPT ![s] = TRUE]
      /\ reason' \in [Sides -> Reasons]
      /\ start' \in [Sides -> SUBSET {"coming", "kept"}]
      /\ frames' = [frames EXCEPT ![s] = <<>>]
      /\ UNCHANGED <<held, noPunch, att, phase, path, everUp, giveUp, relayDead, overflow, asked, closed>>
  BY DEF Inv, Quits, Settle, AttemptFinished, TypeOK
<1>1. /\ frames'[s] = <<>> /\ frames' \in [Sides -> Seq(Frames)]
      /\ Sorted(<<>>) /\ In(<<>>) = {}
  BY <1>0, EmptyFacts DEF TypeOK
<1>2. TypeOK'
  <2>1. written' = written \/ written' = [written EXCEPT ![s] = TRUE]
    BY <1>0
  <2>2. written' \in [Sides -> BOOLEAN] 
    BY <1>0, <2>1, WrittenType
  <2>3. relayDead' \in [Sides -> BOOLEAN] /\ closed' \in BOOLEAN
    BY <1>0, FlagType DEF TypeOK
  <2> QED
    BY <1>0, <1>1, <2>2, <2>3, DoorbellAssumption DEF TypeOK, Pcs, Phases, GiveUps, Reasons
<1>3. Places'
  BY <1>0, <1>1 DEF Inv, TypeOK, Places
<1>4. ToInitiator' /\ ToResponder'
  BY <1>0, <1>1 DEF Inv, TypeOK, Places, ToInitiator, ToResponder
<1>5. Warned' /\ Unpunched'
  BY <1>0, <1>1 DEF Inv, TypeOK, Places, Warned, Unpunched
<1>6. DirectOnlyWhileWatched' /\ NoFrameDropped'
  BY <1>0, <1>1 DEF Inv, TypeOK, Places, DirectOnlyWhileWatched, NoFrameDropped
<1> QED
  BY <1>2, <1>3, <1>4, <1>5, <1>6 DEF Inv

LEMMA EndingSteps ==
  ASSUME Inv, NEW s \in Sides, ExchangeFails(s) \/ TakeGoodbye(s) \/ ConnectionClosed(s)
  PROVE  Inv'
<1>0. TypeOK
  BY DEF Inv
<1>1. ASSUME ExchangeFails(s) PROVE Quits(s)
  BY <1>1 DEF ExchangeFails, Quits, Reasons
<1>2. ASSUME TakeGoodbye(s) PROVE Quits(s)
  BY <1>2 DEF TakeGoodbye, End, Quits, Reasons, GiveUps
<1>3. ASSUME ConnectionClosed(s) PROVE Quits(s)
  <2>1. EndReason(s) \in Reasons /\ "internal" \in Reasons
    BY <1>0, EndReasonType DEF Reasons, GiveUps
  <2> QED
    BY <1>3, <2>1 DEF ConnectionClosed, End, Quits
<1> QED
  BY <1>1, <1>2, <1>3, QuitsStep

\* What is written to a peer that still reads outranks what waits for it.
LEMMA Writing ==
  ASSUME Inv, NEW s \in Sides, NEW f \in Frames, NEW rest \in Seq(Frames), WriteTo(s, f, rest),
         Reachable(s) => \A g \in In(frames[Other(s)]) : Rank(g) < Rank(f)
  PROVE  /\ frames' \in [Sides -> Seq(Frames)] /\ overflow' \in [Sides -> BOOLEAN] /\ NoFrameDropped'
         /\ frames'[s] = rest
         /\ Reachable(s) => /\ Sorted(frames'[Other(s)])
                            /\ In(frames'[Other(s)]) = In(frames[Other(s)]) \cup {f}
         /\ ~Reachable(s) => frames'[Other(s)] = frames[Other(s)]
<1>1. Reachable(s) => Sorted(frames[Other(s)])
  BY DEF Inv, ToInitiator, ToResponder, Reachable
<1>2. TypeOK /\ NoFrameDropped
  BY DEF Inv
<1> QED
  BY <1>1, <1>2, WriteEffect

LEMMA FramesWait ==
  ASSUME Inv, NEW s \in Sides
  PROVE  frames[s] \in Seq(Frames) /\ \A f \in In(frames[s]) : f \in Frames
<1>1. frames[s] \in Seq(Frames)
  BY DEF Inv, TypeOK
<1> QED
  BY <1>1 DEF In

LEMMA LeaveStep ==
  ASSUME Inv, NEW s \in Sides, Leave(s)
  PROVE  Inv'
<1> DEFINE g == [t |-> "goodbye"]
           o == Other(s)
<1>0. /\ TypeOK /\ pc[s] = "loop" /\ WriteTo(s, g, <<>>)
      /\ pc' = [pc EXCEPT ![s] = "ended"] /\ written' = [written EXCEPT ![s] = TRUE]
      /\ reason' \in [Sides -> Reasons]
      /\ start' \in [Sides -> SUBSET {"coming", "kept"}]
      /\ UNCHANGED <<held, noPunch, att, phase, path, everUp, giveUp, relayDead, asked, closed>>
  <2>1. EndReason(s) \in Reasons /\ TypeOK
    BY EndReasonType DEF Inv
  <2> QED
    BY <2>1 DEF Leave, End, Settle, AttemptFinished, TypeOK
<1>1. g \in Frames /\ g.t = "goodbye" /\ Rank(g) = 4
  BY DEF Frames, Rank
<1>2. Reachable(s) => \A f \in In(frames[o]) : Rank(f) < Rank(g)
  <2>1. \A f \in Frames : f.t # "goodbye" => Rank(f) < 4
    BY DEF Frames, Rank
  <2>2. Reachable(s) => \A f \in In(frames[o]) : f.t # "goodbye"
    BY <1>0 DEF Inv, ToInitiator, ToResponder, Reachable
  <2>3. \A f \in In(frames[o]) : f \in Frames
    BY FramesWait
  <2> QED
    BY <1>1, <2>1, <2>2, <2>3
<1>3. /\ frames' \in [Sides -> Seq(Frames)] /\ overflow' \in [Sides -> BOOLEAN] /\ NoFrameDropped'
      /\ frames'[s] = <<>>
      /\ Reachable(s) => Sorted(frames'[o]) /\ In(frames'[o]) = In(frames[o]) \cup {g}
      /\ ~Reachable(s) => frames'[o] = frames[o]
  <2> HIDE DEF g
  <2> QED
    BY <1>0, <1>1, <1>2, EmptyFacts, Writing
<1>4. Sorted(<<>>) /\ In(<<>>) = {}
  BY EmptyFacts
<1> HIDE DEF g
<1>5. TypeOK'
  <2>1. written' = written \/ written' = [written EXCEPT ![s] = TRUE]
    BY <1>0
  <2>2. written' \in [Sides -> BOOLEAN] 
    BY <1>0, <2>1, WrittenType
  <2>3. relayDead' \in [Sides -> BOOLEAN] /\ closed' \in BOOLEAN
    BY <1>0, FlagType DEF TypeOK
  <2> QED
    BY <1>0, <1>1, <1>3, <1>4, <2>2, <2>3, DoorbellAssumption DEF TypeOK, Pcs, Phases, GiveUps, Reasons
<1>6. Places'
  BY <1>0, <1>1, <1>3, <1>4 DEF Inv, TypeOK, Places
<1>7. ToInitiator' /\ ToResponder'
  BY <1>0, <1>1, <1>3, <1>4 DEF Inv, TypeOK, Places, ToInitiator, ToResponder
<1>8. Warned' /\ Unpunched'
  BY <1>0, <1>1, <1>3, <1>4 DEF Inv, TypeOK, Places, Warned, Unpunched
<1>9. DirectOnlyWhileWatched' /\ NoFrameDropped'
  BY <1>0, <1>1, <1>3, <1>4 DEF Inv, TypeOK, Places, DirectOnlyWhileWatched, NoFrameDropped
<1> QED
  BY <1>5, <1>6, <1>7, <1>8, <1>9 DEF Inv

LEMMA WatchStaleStep ==
  ASSUME Inv, NEW s \in Sides, WatchStale(s)
  PROVE  Inv'
<1> DEFINE g == [t |-> "pathDown", a |-> att[s]]
           o == Other(s)
<1>0. /\ TypeOK /\ pc[s] = "loop" /\ phase[s] = "watching" /\ att[s] < MaxAttempts
      /\ WriteTo(s, g, frames[s]) /\ path' = [path EXCEPT ![s] = 0]
      /\ \/ /\ phase' = [phase EXCEPT ![s] = "stale"]
            /\ UNCHANGED <<pc, reason, written, start>>
         \/ /\ pc' = [pc EXCEPT ![s] = "ended"] /\ reason' = [reason EXCEPT ![s] = "pathIdleTimeout"]
            /\ written' = [written EXCEPT ![s] = TRUE]
            /\ start' = [start EXCEPT ![s] = start[s] \ {"kept"}]
            /\ UNCHANGED phase
      /\ UNCHANGED <<held, noPunch, att, everUp, giveUp, relayDead, asked, closed>>
  BY DEF Inv, WatchStale, End, Settle, AttemptFinished
<1>1. g \in Frames /\ g.t = "pathDown" /\ g.a = att[s] /\ Rank(g) = 2
  <2>1. att[s] \in 1..MaxAttempts
    BY <1>0, DoorbellAssumption DEF Inv, TypeOK, Places
  <2> QED
    BY <2>1 DEF Frames, Rank
<1>2. pc[o] # "ended" => \A f \in In(frames[o]) : f.t = "pathUp"
  <2>1. pc[o] # "ended" => \A f \in In(frames[o]) : f.t \notin {"pathDown", "candidates", "goodbye"}
    BY <1>0 DEF Inv, ToInitiator, ToResponder
  <2>2. \A f \in Frames : f.t \in {"pathUp", "pathDown", "candidates", "goodbye"}
    BY DEF Frames
  <2> QED
    BY <2>1, <2>2, FramesWait
<1>3. Reachable(s) => \A f \in In(frames[o]) : Rank(f) < Rank(g)
  BY <1>1, <1>2 DEF Reachable, Rank
<1>4. /\ frames' \in [Sides -> Seq(Frames)] /\ overflow' \in [Sides -> BOOLEAN] /\ NoFrameDropped'
      /\ frames'[s] = frames[s]
      /\ Reachable(s) => Sorted(frames'[o]) /\ In(frames'[o]) = In(frames[o]) \cup {g}
      /\ ~Reachable(s) => frames'[o] = frames[o]
  <2>1. frames[s] \in Seq(Frames)
    BY FramesWait
  <2> HIDE DEF g
  <2> QED
    BY <1>0, <1>1, <1>3, <2>1, Writing
<1>5. Reachable(s) <=> ~closed /\ pc[o] # "ended"
  BY DEF Reachable
<1> HIDE DEF g
<1>6. TypeOK'
  <2>1. written' = written \/ written' = [written EXCEPT ![s] = TRUE]
    BY <1>0
  <2>2. written' \in [Sides -> BOOLEAN] 
    BY <1>0, <2>1, WrittenType
  <2>3. relayDead' \in [Sides -> BOOLEAN] /\ closed' \in BOOLEAN
    BY <1>0, FlagType DEF TypeOK
  <2> QED
    BY <1>0, <1>1, <1>2, <1>4, <1>5, <2>2, <2>3, DoorbellAssumption DEF TypeOK, Pcs, Phases, GiveUps, Reasons
<1>7. Places'
  BY <1>0, <1>1, <1>2, <1>4, <1>5 DEF Inv, TypeOK, Places
<1>8. ToInitiator' /\ ToResponder'
  BY <1>0, <1>1, <1>2, <1>4, <1>5 DEF Inv, TypeOK, Places, ToInitiator, ToResponder
<1>9. Warned' /\ Unpunched'
  BY <1>0, <1>1, <1>2, <1>4, <1>5 DEF Inv, TypeOK, Places, Warned, Unpunched
<1>10. DirectOnlyWhileWatched' /\ NoFrameDropped'
  BY <1>0, <1>1, <1>2, <1>4, <1>5 DEF Inv, TypeOK, Places, DirectOnlyWhileWatched, NoFrameDropped
<1> QED
  BY <1>6, <1>7, <1>8, <1>9, <1>10 DEF Inv

LEMMA UpgradeStep ==
  ASSUME Inv, NEW s \in Sides, Upgrade(s)
  PROVE  Inv'
<1> DEFINE g == [t |-> "pathUp", a |-> att[s]]
           o == Other(s)
<1>0. /\ TypeOK /\ pc[s] = "loop" /\ phase[s] = "probing" /\ HasAnswered(o, att[s])
      /\ WriteTo(s, g, frames[s]) /\ path' = [path EXCEPT ![s] = att[s]]
      /\ everUp' = [everUp EXCEPT ![s] = TRUE] /\ everUp' \in [Sides -> BOOLEAN]
      /\ phase' = [phase EXCEPT ![s] = "watching"]
      /\ pc' = IF Reachable(s) THEN pc ELSE [pc EXCEPT ![s] = "ended"]
      /\ UNCHANGED <<held, noPunch, att, giveUp, relayDead, start, asked, closed, reason, written>>
  <2>1. everUp' = [everUp EXCEPT ![s] = TRUE] /\ everUp \in [Sides -> BOOLEAN]
    BY DEF Inv, TypeOK, Upgrade
  <2>2. everUp' \in [Sides -> BOOLEAN]
    BY <2>1, FlagType, Zenon
  <2> QED
    BY <2>1, <2>2 DEF Inv, Upgrade, WriteFails
<1>1. g \in Frames /\ g.t = "pathUp" /\ att[s] \in 1..MaxAttempts
  <2>1. att[s] \in 1..MaxAttempts
    BY <1>0, DoorbellAssumption DEF Inv, TypeOK, Places
  <2> QED
    BY <2>1 DEF Frames
<1>2. pc[o] # "ended" => In(frames[o]) = {}
  <2>1. CASE s = I
    BY <1>0, <2>1, EmptyFacts DEF Inv, ToResponder
  <2>2. CASE s = R
    <3> SUFFICES ASSUME pc[I] # "ended" PROVE In(frames[I]) = {}
      BY <2>2
    <3>1. att[I] # att[R] \/ pc[I] # "expect"
      BY <1>0, <2>2, DoorbellAssumption DEF HasAnswered, EndedInLoop, Inv, TypeOK
    <3>2. \A f \in FI : f.t \notin {"candidates", "goodbye"}
      BY <1>0, <2>2, <3>1 DEF Inv, ToInitiator
    <3>3. \A f \in FI : f.t \notin {"pathUp", "pathDown"}
      BY <1>0, <2>2, <3>2 DEF Inv, ToInitiator
    <3>4. \A f \in Frames : f.t \in {"pathUp", "pathDown", "candidates", "goodbye"}
      BY DEF Frames
    <3> QED
      BY <3>2, <3>3, <3>4, FramesWait
  <2> QED
    BY <2>1, <2>2
<1>3. Reachable(s) => \A f \in In(frames[o]) : Rank(f) < Rank(g)
  BY <1>2 DEF Reachable
<1>4. /\ frames' \in [Sides -> Seq(Frames)] /\ overflow' \in [Sides -> BOOLEAN] /\ NoFrameDropped'
      /\ frames'[s] = frames[s]
      /\ Reachable(s) => Sorted(frames'[o]) /\ In(frames'[o]) = In(frames[o]) \cup {g}
      /\ ~Reachable(s) => frames'[o] = frames[o]
  <2>1. frames[s] \in Seq(Frames)
    BY FramesWait
  <2> HIDE DEF g
  <2> QED
    BY <1>0, <1>1, <1>3, <2>1, Writing
<1>5. Reachable(s) <=> ~closed /\ pc[o] # "ended"
  BY DEF Reachable
<1> HIDE DEF g
<1>6. TypeOK'
  <2>1. written' = written \/ written' = [written EXCEPT ![s] = TRUE]
    BY <1>0
  <2>2. written' \in [Sides -> BOOLEAN] 
    BY <1>0, <2>1, WrittenType
  <2>3. relayDead' \in [Sides -> BOOLEAN] /\ closed' \in BOOLEAN
    BY <1>0, FlagType DEF TypeOK
  <2> QED
    BY <1>0, <1>1, <1>2, <1>4, <1>5, <2>2, <2>3, DoorbellAssumption DEF TypeOK, Pcs, Phases, GiveUps, Reasons
<1>7. Places'
  BY <1>0, <1>1, <1>2, <1>4, <1>5 DEF Inv, TypeOK, Places
<1>8. ToInitiator' /\ ToResponder'
  BY <1>0, <1>1, <1>2, <1>4, <1>5 DEF Inv, TypeOK, Places, ToInitiator, ToResponder
<1>9. Warned' /\ Unpunched'
  BY <1>0, <1>1, <1>2, <1>4, <1>5 DEF Inv, TypeOK, Places, Warned, Unpunched
<1>10. DirectOnlyWhileWatched' /\ NoFrameDropped'
  BY <1>0, <1>1, <1>2, <1>4, <1>5 DEF Inv, TypeOK, Places, DirectOnlyWhileWatched, NoFrameDropped
<1> QED
  BY <1>6, <1>7, <1>8, <1>9, <1>10 DEF Inv

LEMMA WriteCandidatesStep ==
  ASSUME Inv, WriteCandidates
  PROVE  Inv'
<1> DEFINE g == [t |-> "candidates", a |-> att[I] + 1, noUpgrade |-> noPunch[I]]
<1>a. CASE WriteFails(I)
  <2>0. /\ TypeOK /\ pc[I] = "begin" /\ pc' = [pc EXCEPT ![I] = "ended"]
        /\ reason' = [reason EXCEPT ![I] = "peerHandshakeFailed"] /\ written' = [written EXCEPT ![I] = TRUE]
        /\ UNCHANGED <<held, noPunch, att, phase, path, everUp, giveUp, relayDead, frames, overflow,
                       start, asked, closed>>
    BY <1>a DEF Inv, WriteCandidates, Settle
  <2>1. TypeOK'
    <3>1. written' \in [Sides -> BOOLEAN]
      BY <2>0, WrittenType
    <3> QED
      BY <2>0, <3>1 DEF TypeOK, Pcs, Reasons
  <2>2. Places' /\ ToInitiator' /\ ToResponder'
    BY <2>0 DEF Inv, TypeOK, Places, ToInitiator, ToResponder
  <2>3. Warned' /\ Unpunched' /\ DirectOnlyWhileWatched' /\ NoFrameDropped'
    BY <2>0 DEF Inv, TypeOK, Places, Warned, Unpunched, DirectOnlyWhileWatched, NoFrameDropped
  <2> QED
    BY <2>1, <2>2, <2>3 DEF Inv
<1>b. CASE ~WriteFails(I)
  <2>0. /\ TypeOK /\ pc[I] = "begin" /\ pc' = [pc EXCEPT ![I] = "expect"]
        /\ att' = [att EXCEPT ![I] = att[I] + 1] /\ WriteTo(I, g, frames[I])
        /\ ~closed /\ pc[R] # "ended" /\ Reachable(I)
        /\ UNCHANGED <<held, noPunch, phase, path, everUp, giveUp, relayDead, start, asked, closed,
                       reason, written>>
    BY <1>b DEF Inv, WriteCandidates, WriteFails, Reachable
  <2>1. /\ g \in Frames /\ g.t = "candidates" /\ g.a = att[I] + 1 /\ g.noUpgrade = noPunch[I]
        /\ att[I] + 1 \in 1..MaxAttempts /\ Rank(g) = 3
    <3>1. att[I] + 1 \in 1..MaxAttempts /\ noPunch[I] \in BOOLEAN
      BY <2>0, DoorbellAssumption DEF Inv, TypeOK, Places
    <3> QED
      BY <3>1 DEF Frames, Rank
  <2>2. \A f \in FR : f.t \in {"pathUp", "pathDown"}
    <3>1. \A f \in FR : f.t \notin {"candidates", "goodbye"}
      BY <2>0 DEF Inv, ToResponder
    <3>2. \A f \in Frames : f.t \in {"pathUp", "pathDown", "candidates", "goodbye"}
      BY DEF Frames
    <3> QED
      BY <3>1, <3>2, FramesWait
  <2>3. \A f \in FR : Rank(f) < Rank(g)
    BY <2>1, <2>2 DEF Rank
  <2>4. /\ frames' \in [Sides -> Seq(Frames)] /\ overflow' \in [Sides -> BOOLEAN] /\ NoFrameDropped'
        /\ frames'[I] = frames[I] /\ Sorted(frames'[R]) /\ FR' = FR \cup {g}
    <3>1. frames[I] \in Seq(Frames)
      BY FramesWait
    <3> HIDE DEF g
    <3> QED
      BY <2>0, <2>1, <2>3, <3>1, Writing
  <2> HIDE DEF g
  <2>5. TypeOK'
    BY <2>0, <2>1, <2>4 DEF TypeOK, Pcs
  <2>6. Places'
    BY <2>0, <2>1, <2>4 DEF Inv, TypeOK, Places
  <2>7. ToInitiator' /\ ToResponder'
    BY <2>0, <2>1, <2>4 DEF Inv, TypeOK, Places, ToInitiator, ToResponder
  <2>8. Warned' /\ Unpunched'
    BY <2>0, <2>1, <2>4 DEF Inv, TypeOK, Places, Warned, Unpunched
  <2>9. DirectOnlyWhileWatched'
    BY <2>0, <2>1, <2>4 DEF Inv, TypeOK, Places, DirectOnlyWhileWatched
  <2> QED
    BY <2>4, <2>5, <2>6, <2>7, <2>8, <2>9 DEF Inv
<1> QED
  BY <1>a, <1>b

\* The responder takes up the attempt that waiting Candidates name: it cannot be on a direct
\* path any more, for the PathDown of the attempt before came first.
LEMMA AnswerStep ==
  ASSUME Inv, pc[R] \in {"expect", "loop"}, frames[R] # <<>>, Head(frames[R]).t = "candidates",
         AnswerCandidates(R, Head(frames[R])),
         start' = start \/ AttemptFinished(R),
         UNCHANGED <<held, noPunch, path, everUp, relayDead, asked, closed>>
  PROVE  Inv'
<1>a. CASE WriteFails(R)
  <2>1. Quits(R)
    BY <1>a DEF AnswerCandidates, Quits, Reasons
  <2> QED
    BY <2>1, QuitsStep
<1>b. CASE ~WriteFails(R)
  <2> DEFINE q == frames[R]
             h == Head(q)
             g == [t |-> "candidates", a |-> h.a, noUpgrade |-> noPunch[R]]
  <2>0. /\ TypeOK /\ att' = [att EXCEPT ![R] = h.a] /\ WriteTo(R, g, Tail(q))
        /\ ~closed /\ pc[I] # "ended" /\ Reachable(R)
        /\ start' \in [Sides -> SUBSET {"coming", "kept"}]
        /\ IF noPunch[R] \/ h.noUpgrade
           THEN /\ giveUp' = [giveUp EXCEPT ![R] = "punchDisabled"] /\ pc' = [pc EXCEPT ![R] = "loop"]
                /\ phase' = [phase EXCEPT ![R] = "relayed"]
           ELSE /\ giveUp' = [giveUp EXCEPT ![R] = "none"] /\ pc' = [pc EXCEPT ![R] = "start"]
                /\ phase' = [phase EXCEPT ![R] = "probing"]
        /\ UNCHANGED <<held, noPunch, path, everUp, relayDead, asked, closed, reason, written>>
    BY <1>b DEF Inv, AnswerCandidates, Armed, RelayWatch, WriteFails, Reachable, AttemptFinished, TypeOK
  <2>1. /\ frames \in [Sides -> Seq(Frames)] /\ Tail(q) \in Seq(Frames) /\ Sorted(Tail(q))
        /\ h \in In(q) /\ h \in Frames /\ In(Tail(q)) \subseteq In(q)
        /\ \A f \in In(Tail(q)) : f \in Frames /\ Rank(h) < Rank(f)
        /\ \A f \in In(q) : f = h \/ f \in In(Tail(q))
    BY Taking
  <2>2. pc[I] = "expect" /\ h.a = att[I] /\ h.a = att[R] + 1 /\ h.noUpgrade = noPunch[I]
    BY <2>0, <2>1 DEF Inv, ToResponder
  <2>3. Tail(q) = <<>>
    <3>1. \A f \in In(Tail(q)) : f.t = "goodbye"
      BY <2>1, BehindCandidates
    <3>2. \A f \in FR : f.t # "goodbye"
      BY <2>0 DEF Inv, ToResponder
    <3>3. In(Tail(q)) = {}
      BY <2>1, <3>1, <3>2
    <3> QED
      BY <2>1, <3>3, EmptyFacts
  <2>4. path[R] = 0
    <3>1. \A f \in FR : f.t # "pathDown"
      BY <2>1, <2>3, EmptyFacts
    <3>2. ~(pc[R] = "loop" /\ phase[R] = "watching")
      BY <2>2, <3>1 DEF Inv, Warned
    <3> QED
      BY <3>2 DEF Inv, DirectOnlyWhileWatched
  <2>5. /\ g \in Frames /\ g.t = "candidates" /\ g.a = att[I] /\ g.noUpgrade = noPunch[R]
        /\ h.a \in 1..MaxAttempts /\ Rank(g) = 3
    <3>1. noPunch[R] \in BOOLEAN
      BY DEF Inv, TypeOK
    <3>2. h.a \in 1..MaxAttempts
      BY <2>1 DEF Frames
    <3> QED
      BY <2>2, <3>1, <3>2 DEF Frames, Rank
  <2>6. \A f \in FI : Rank(f) < Rank(g)
    <3>1. \A f \in FI : f.t \notin {"candidates", "goodbye"}
      BY <2>0 DEF Inv, ToInitiator
    <3>2. \A f \in Frames : f.t \in {"pathUp", "pathDown", "candidates", "goodbye"}
      BY DEF Frames
    <3>3. \A f \in FI : f.t \in {"pathUp", "pathDown"}
      BY <3>1, <3>2, FramesWait
    <3> QED
      BY <2>5, <3>3 DEF Rank
  <2>7. /\ frames' \in [Sides -> Seq(Frames)] /\ overflow' \in [Sides -> BOOLEAN] /\ NoFrameDropped'
        /\ frames'[R] = <<>> /\ Sorted(frames'[I]) /\ FI' = FI \cup {g}
        /\ Sorted(<<>>) /\ In(<<>>) = {}
    <3> HIDE DEF g
    <3> QED
      BY <2>0, <2>1, <2>3, <2>5, <2>6, EmptyFacts, Writing
  <2>7a. /\ att'[R] = att[I] /\ att'[I] = att[I] /\ pc'[I] = "expect" /\ phase'[I] = phase[I]
         /\ \/ pc'[R] = "loop" /\ phase'[R] = "relayed"
            \/ pc'[R] = "start" /\ phase'[R] = "probing" /\ ~noPunch[I] /\ ~noPunch[R]
    BY <2>0, <2>2 DEF TypeOK
  <2> HIDE DEF g, h
  <2>8. TypeOK'
    BY <2>0, <2>5, <2>7 DEF TypeOK, Pcs, Phases, GiveUps
  <2>9. Places'
    BY <2>0, <2>2, <2>5, <2>7, <2>7a, DoorbellAssumption DEF Inv, TypeOK, Places
  <2>10. ToInitiator' /\ ToResponder'
    BY <2>0, <2>2, <2>5, <2>7, <2>7a, DoorbellAssumption DEF Inv, TypeOK, Places, ToInitiator, ToResponder
  <2>11. Warned' /\ Unpunched'
    BY <2>0, <2>2, <2>5, <2>7, <2>7a, DoorbellAssumption DEF Inv, TypeOK, Places, Warned, Unpunched
  <2>12. DirectOnlyWhileWatched'
    BY <2>0, <2>2, <2>4, <2>7 DEF Inv, TypeOK, DirectOnlyWhileWatched
  <2> QED
    BY <2>7, <2>8, <2>9, <2>10, <2>11, <2>12 DEF Inv
<1> QED
  BY <1>a, <1>b

LEMMA AnsweringSteps ==
  ASSUME Inv, FirstCandidates \/ \E s \in Sides : TakeCandidates(s)
  PROVE  Inv'
<1>1. CASE FirstCandidates
  BY <1>1, AnswerStep DEF FirstCandidates
<1>2. ASSUME NEW s \in Sides, TakeCandidates(s) PROVE Inv'
  <2>1. /\ pc[s] = "loop" /\ frames[s] # <<>> /\ Head(frames[s]).t = "candidates"
        /\ AttemptFinished(s) /\ AnswerCandidates(s, Head(frames[s]))
        /\ UNCHANGED <<held, noPunch, path, everUp, relayDead, asked, closed>>
    BY <1>2 DEF TakeCandidates, Take
  <2>2. Head(frames[s]) \in In(frames[s])
    BY <2>1, Taking
  <2>3. s = R
    BY <2>1, <2>2 DEF Inv, ToInitiator
  <2> QED
    BY <2>1, <2>3, AnswerStep
<1> QED
  BY <1>1, <1>2

-----------------------------------------------------------------------------
(* The theorems.                                                           *)

LEMMA InitStep == Init => Inv
<1> SUFFICES ASSUME Init PROVE Inv
  OBVIOUS
<1>1. frames[I] = <<>> /\ frames[R] = <<>> /\ Sorted(<<>>) /\ In(<<>>) = {} /\ <<>> \in Seq(Frames)
  BY EmptyFacts DEF Init
<1>2. TypeOK
  <2>1. /\ everUp \in [Sides -> BOOLEAN] /\ relayDead \in [Sides -> BOOLEAN] /\ overflow \in [Sides -> BOOLEAN]
        /\ written \in [Sides -> BOOLEAN] /\ closed \in BOOLEAN
    BY Zenon DEF Init
  <2> QED
    BY <1>1, <2>1, DoorbellAssumption DEF Init, TypeOK, Pcs, Phases, GiveUps, Reasons
<1>3. Places /\ ToInitiator /\ ToResponder
  BY <1>1, DoorbellAssumption DEF Init, Places, ToInitiator, ToResponder
<1>4. Warned /\ Unpunched /\ NoFrameDropped /\ DirectOnlyWhileWatched
  BY <1>1 DEF Init, Warned, Unpunched, NoFrameDropped, DirectOnlyWhileWatched
<1> QED
  BY <1>2, <1>3, <1>4 DEF Inv

LEMMA NextStep == Inv /\ [Next]_vars => Inv'
<1> SUFFICES ASSUME Inv, [Next]_vars PROVE Inv'
  OBVIOUS
<1>1. CASE UNCHANGED vars
  BY <1>1 DEF vars, Inv, TypeOK, Places, ToInitiator, ToResponder, Warned, Unpunched, NoFrameDropped,
              DirectOnlyWhileWatched
<1>2. CASE WriteCandidates
  BY <1>2, WriteCandidatesStep
<1>3. CASE ReadCandidates
  BY <1>3, ReadCandidatesStep
<1>4. CASE FirstCandidates
  BY <1>4, AnsweringSteps
<1>5. CASE AskStart
  BY <1>5, AskStartStep
<1>6. CASE Close
  BY <1>6, CloseStep
<1>7. CASE Over
  BY <1>1, <1>7 DEF Over
<1>8. ASSUME NEW s \in Sides, Step(s) PROVE Inv'
  BY <1>8, EndingSteps, StartLandsStep, StartArrivesStep, NoStartStep, ProbesGiveUpStep, WatchDeadStep,
     AnsweringSteps, TakePathDownStep, IgnoreFrameStep DEF Step
<1>9. ASSUME NEW s \in Sides, Leave(s) \/ Upgrade(s) \/ WatchStale(s) \/ RelayGoesDead(s) \/ RelayRecovers(s)
      PROVE  Inv'
  BY <1>9, LeaveStep, UpgradeStep, WatchStaleStep, RelayGoesDeadStep, RelayRecoversStep
<1> QED
  BY <1>1, <1>2, <1>3, <1>4, <1>5, <1>6, <1>7, <1>8, <1>9 DEF Next

LEMMA Invariance == Spec => []Inv
BY InitStep, NextStep, PTL DEF Spec

(* Traffic is on a direct path exactly while the attempt that proved it watches it: whatever the
   peer's PathDown, its next attempt, a timer and the stream's end do first, the path table entry
   that run_doorbell set is back on the relay before the attempt is left or another is joined. *)
THEOREM DirectPathsAreWatched == Spec => []DirectOnlyWhileWatched
<1>1. Inv => DirectOnlyWhileWatched
  BY DEF Inv
<1> QED
  BY <1>1, Invariance, PTL

(* One attempt id names the attempt in both houses, --no-punch on either side keeps both on the
   relay and spends no Start, and the bounded queue between read_porch_frames and the loop never
   drops a frame. *)
THEOREM SidesAgree == Spec => []BothSidesAgree
<1>1. Inv => BothSidesAgree
  <2> SUFFICES ASSUME Inv PROVE BothSidesAgree
    OBVIOUS
  <2>1. AttemptsAgree
    BY DEF Inv, Places, AttemptsAgree
  <2>2. NoPunchIsMutual
    BY DEF Inv, Unpunched, NoPunchIsMutual
  <2> QED
    BY <2>1, <2>2 DEF Inv, BothSidesAgree
<1> QED
  BY <1>1, Invariance, PTL
=============================================================================
