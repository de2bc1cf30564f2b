----------------------------- MODULE GateServer -----------------------------
(***************************************************************************)
(* The gatehouse: registrations, knocks and relay sessions of              *)
(* crates/mosschat-net/src/gate/server.rs.                                 *)
(*                                                                         *)
(* Every connection has its own task (handle_primary_connection and        *)
(* control_loop) and the sweep is one more.  They share three tables under *)
(* three locks, taken one after the other and never for a whole operation: *)
(* one action below is what a task does under one lock (or nested ones).   *)
(*                                                                         *)
(* Connection r stands for one QUIC connection of the key KeyOf[r]; a knock *)
(* is filed under pair_tag, a hash that depends only on the unordered pair, *)
(* so the pair itself is the tag.  Frames to a house change nothing at the *)
(* gate and are left out; so are the rate limiters, which may refuse       *)
(* anything at any time.  Time appears as what has run out: silent marks a *)
(* registration past REGISTRATION_TTL; a knock's deadline may pass at any  *)
(* time, before or after it is answered.                                   *)
(* Session identifiers are drawn at random from 2^32 until one is unused;  *)
(* here they are drawn without reuse.                                      *)
(***************************************************************************)
EXTENDS Naturals, Sequences, FiniteSets

CONSTANTS
  Key,          \* houses, by their TLS-proven key
  Conn,         \* QUIC connections to the primary port
  KeyOf,        \* the key each of them proves
  Sweeper,      \* the sweep task
  None,
  Capacity,     \* max_registrations
  MaxPerKey,    \* MAX_CONNECTIONS_PER_KEY
  MaxPending,   \* MAX_PENDING_CONNECTIONS
  MaxHeld,      \* MAX_SESSIONS_PER_REGISTRATION
  MaxSession    \* bound on the sessions ever introduced

ASSUME KeyOfAssumption == KeyOf \in [Conn -> Key]
ASSUME SweeperAssumption == Sweeper \notin Conn
ASSUME LimitAssumption ==
  Capacity \in Nat /\ MaxPerKey \in Nat /\ MaxPending \in Nat /\ MaxHeld \in Nat
    /\ MaxSession \in Nat

VARIABLES
  pc,        \* where each connection's task is
  alive,     \* whether its QUIC connection still is
  silent,    \* whether its last keepalive is longer ago than the TTL
  regs,      \* key -> its registrations, in order of arrival
  held,      \* registration -> its set of session identifiers
  knocks,    \* pair -> the knock filed under it, or None
  answering, \* the knock a task is about to file or has taken out, or None
  sessions,  \* session id -> its two keys, or None
  nextId,    \* the next session id to be drawn
  down,      \* teardown in progress, by the task that runs it
  expired    \* registrations the sweep has yet to tear down

vars == <<pc, alive, silent, regs, held, knocks, answering, sessions,
          nextId, down, expired>>

Session == 1..MaxSession
Pairs == { p \in SUBSET Key : Cardinality(p) = 2 }
Knock == [requester : Key, target : Key]
ASSUME NoneAssumption == None \notin Conn \cup Key \cup Knock \cup [a : Key, b : Key]
Listed(r) == \E i \in 1..Len(regs[KeyOf[r]]) : regs[KeyOf[r]][i] = r
Last(k) == regs[k][Len(regs[k])]
Live == { id \in Session : sessions[id] # None }
Other(s, k) == IF s.a = k THEN s.b ELSE s.a

\* Tasks that have passed the TLS handshake and hold a PendingGuard.
Pending == { r \in Conn : pc[r] \in {"pending", "listed"} }

NoDown == [reg |-> None, step |-> "none", orphans |-> {}]

Init ==
  /\ pc = [r \in Conn |-> "new"]
  /\ alive = [r \in Conn |-> TRUE]
  /\ silent = [r \in Conn |-> FALSE]
  /\ regs = [k \in Key |-> <<>>]
  /\ held = [r \in Conn |-> {}]
  /\ knocks = [p \in Pairs |-> None]
  /\ answering = [r \in Conn |-> None]
  /\ sessions = [id \in Session |-> None]
  /\ nextId = 1
  /\ down = [t \in Conn \cup {Sweeper} |-> NoDown]
  /\ expired = {}

tables == <<regs, held, knocks, answering, sessions, nextId>>

-----------------------------------------------------------------------------
(* One connection's task: handle_primary_connection.                       *)

\* The member check, the pending cap and the attempt limit, before any stream; the
\* member list may be reloaded at any moment.  A refused connection leaves no
\* trace: r is then free for the key's next attempt.
Accept(r) ==
  /\ pc[r] = "new" /\ Cardinality(Pending) < MaxPending
  /\ pc' = [pc EXCEPT ![r] = "pending"]
  /\ UNCHANGED <<alive, silent, tables, down, expired>>

\* Register arrives.  The caps are checked and the slot taken under one lock.
MayRegister(k) ==
  /\ regs[k] = <<>> => Cardinality({ j \in Key : regs[j] # <<>> }) < Capacity
  /\ Len(regs[k]) < MaxPerKey

Register(r) ==
  /\ pc[r] = "pending" /\ MayRegister(KeyOf[r])
  /\ regs' = [regs EXCEPT ![KeyOf[r]] = Append(@, r)]
  /\ pc' = [pc EXCEPT ![r] = "listed"]
  /\ UNCHANGED <<alive, silent, held, knocks, answering, sessions, nextId, down,
                 expired>>

\* At capacity, no Register before the deadline, or a connection that died waiting.
GiveUp(r) ==
  /\ pc[r] = "pending"
  /\ pc' = [pc EXCEPT ![r] = "new"]
  /\ UNCHANGED <<alive, silent, tables, down, expired>>

\* Registered is written; when that fails, as it must on a dead connection and may
\* on a live one whose house stopped the stream, the task returns at once, and the
\* registration stays in the table for the sweep to find.
WriteRegistered(r) ==
  /\ pc[r] = "listed"
  /\ \/ alive[r] /\ pc' = [pc EXCEPT ![r] = "serving"]
     \/ pc' = [pc EXCEPT ![r] = "done"]
  /\ UNCHANGED <<alive, silent, tables, down, expired>>

\* Keepalive: the registration is fresh again.  A keepalive that is read after the
\* connection closed has no effect that lasts: it counts as read before.
Keepalive(r) ==
  /\ pc[r] = "serving" /\ alive[r] /\ silent[r]
  /\ silent' = [silent EXCEPT ![r] = FALSE]
  /\ UNCHANGED <<pc, alive, tables, down, expired>>

\* handle_introduce, under the lock on registrations: a knock for a registered key.
\* (A frame may still be read from a connection that is already closed.)
Introduce(r, k) ==
  /\ pc[r] = "serving"
  /\ k # KeyOf[r] /\ regs[k] # <<>>
  /\ answering' = [answering EXCEPT ![r] = [requester |-> KeyOf[r], target |-> k]]
  /\ pc' = [pc EXCEPT ![r] = "introducing"]
  /\ UNCHANGED <<alive, silent, regs, held, knocks, sessions, nextId, down, expired>>

\* handle_introduce, under the lock on knocks: filed over any older knock of the pair,
\* also when the key's last registration has gone since.
FileKnock(r) ==
  LET k == answering[r] IN
  /\ pc[r] = "introducing"
  /\ knocks' = [knocks EXCEPT ![{k.requester, k.target}] = k]
  /\ answering' = [answering EXCEPT ![r] = None]
  /\ pc' = [pc EXCEPT ![r] = "serving"]
  /\ UNCHANGED <<alive, silent, regs, held, sessions, nextId, down, expired>>

\* A faulty answer that anyone of the pair may give.
TakeKnockAnyone(r, p) ==
  /\ pc[r] = "serving"
  /\ knocks[p] # None /\ KeyOf[r] \in p
  /\ knocks' = [knocks EXCEPT ![p] = None]
  /\ answering' = [answering EXCEPT ![r] = knocks[p]]
  /\ pc' = [pc EXCEPT ![r] = "answering"]
  /\ UNCHANGED <<alive, silent, regs, held, sessions, nextId, down, expired>>

\* handle_knock_answer, under the lock on knocks: only the knock's own target
\* consumes it.
TakeKnock(r, p) ==
  /\ pc[r] = "serving"
  /\ knocks[p] # None /\ knocks[p].target = KeyOf[r]
  /\ knocks' = [knocks EXCEPT ![p] = None]
  /\ answering' = [answering EXCEPT ![r] = knocks[p]]
  /\ pc' = [pc EXCEPT ![r] = "answering"]
  /\ UNCHANGED <<alive, silent, regs, held, sessions, nextId, down, expired>>

Room(a, b) == Cardinality(held[a]) < MaxHeld /\ Cardinality(held[b]) < MaxHeld

\* The registrations that note a new session as theirs: the latest of each key,
\* which need not be the one that knocked or answered.
Holders(r, a, b) == {a, b}

\* handle_knock_answer, under the lock on registrations: a declined, late or no
\* longer possible introduction ends in silence, an accepted one in a session.
Decide(r) ==
  LET k == answering[r]
      possible == /\ regs[k.requester] # <<>> /\ regs[k.target] # <<>>
                  /\ Room(Last(k.requester), Last(k.target))
  IN /\ pc[r] = "answering"
     /\ \/ /\ possible /\ nextId <= MaxSession
           /\ sessions' = [sessions EXCEPT ![nextId] =
                             [a |-> k.requester, b |-> k.target]]
           /\ held' = [q \in Conn |->
                         IF q \in Holders(r, Last(k.requester), Last(k.target))
                         THEN held[q] \cup {nextId} ELSE held[q]]
           /\ nextId' = nextId + 1
        \/ UNCHANGED <<sessions, held, nextId>>
     /\ answering' = [answering EXCEPT ![r] = None]
     /\ pc' = [pc EXCEPT ![r] = "serving"]
     /\ UNCHANGED <<alive, silent, regs, knocks, down, expired>>

\* control_loop returns: Goodbye, an unexpected frame, or a read that failed.  The
\* connection ends with its task, and nothing asks for it on the way.
Leave(r) ==
  /\ pc[r] = "serving"
  /\ pc' = [pc EXCEPT ![r] = "leaving"]
  /\ alive' = [alive EXCEPT ![r] = FALSE]
  /\ down' = [down EXCEPT ![r] = [reg |-> r, step |-> "unlist", orphans |-> {}]]
  /\ UNCHANGED <<silent, tables, expired>>

-----------------------------------------------------------------------------
(* teardown_registration, run by the connection's own task or the sweep,   *)
(* or by both at once.                                                     *)

\* list.retain: the list less r, which is in it once at most.
Without(s, r) ==
  IF \E i \in 1..Len(s) : s[i] = r
  THEN LET i == CHOOSE i \in 1..Len(s) : s[i] = r
       IN [j \in 1..Len(s)-1 |-> IF j < i THEN s[j] ELSE s[j+1]]
  ELSE s

\* Under the lock on registrations: out of the key's list (and out of the sweep's
\* sight, so that its silence no longer matters).
Unlist(t) ==
  LET r == down[t].reg IN
  /\ down[t].step = "unlist"
  /\ regs' = [regs EXCEPT ![KeyOf[r]] = Without(@, r)]
  /\ silent' = [silent EXCEPT ![r] = FALSE]
  /\ down' = [down EXCEPT ![t].step = "close"]
  /\ UNCHANGED <<pc, alive, held, knocks, answering, sessions, nextId, expired>>

\* Under the lock on sessions: the sessions it holds end, and who shared them is
\* remembered.  (It reads its own set first; nobody adds to the set of a
\* registration that is out of the list.)
CloseSessions(t) ==
  LET r   == down[t].reg
      ids == held[r] \cap Live
  IN /\ down[t].step = "close"
     /\ sessions' = [id \in Session |-> IF id \in ids THEN None ELSE sessions[id]]
     /\ down' = [down EXCEPT ![t].step = "notify",
                   ![t].orphans = { <<Other(sessions[id], KeyOf[r]), id>> : id \in ids }]
     /\ UNCHANGED <<pc, alive, silent, regs, held, knocks, answering, nextId,
                    expired>>

\* A faulty last step that leaves the other side's count as it was.
DropOrphansNot(orphans) == held

DropOrphans(orphans) ==
  [q \in Conn |->
     IF Listed(q) THEN { id \in held[q] : <<KeyOf[q], id>> \notin orphans } ELSE held[q]]

\* Under the lock on registrations: the other side's registrations let go of them.
\* The registration's own set is not used again.
ReleaseOthers(t) ==
  /\ down[t].step = "notify"
  /\ held' = [DropOrphans(down[t].orphans) EXCEPT ![down[t].reg] = {}]
  /\ down' = [down EXCEPT ![t] = NoDown]
  /\ pc' = IF t = Sweeper THEN pc ELSE [pc EXCEPT ![t] = "done"]
  /\ UNCHANGED <<alive, silent, regs, knocks, answering, sessions, nextId, expired>>

-----------------------------------------------------------------------------
(* sweep_once: knocks past their deadline go; the silent registrations are *)
(* collected under the lock and then closed and torn down one by one.      *)

SweepKnock(p) ==
  /\ knocks[p] # None
  /\ knocks' = [knocks EXCEPT ![p] = None]
  /\ UNCHANGED <<pc, alive, silent, regs, held, answering, sessions, nextId,
                 down, expired>>

\* A faulty sweep that trusts a connection's task to clean up after itself.
ExpiredServing == { r \in Conn : Listed(r) /\ silent[r] /\ pc[r] = "serving" }

Expired == { r \in Conn : Listed(r) /\ silent[r] }

SweepIdle == down[Sweeper] = NoDown /\ expired = {}

Sweep ==
  /\ SweepIdle
  /\ Expired # {}
  /\ expired' = Expired
  /\ UNCHANGED <<pc, alive, silent, tables, down>>

SweepNext(r) ==
  /\ r \in expired /\ down[Sweeper] = NoDown
  /\ expired' = expired \ {r}
  /\ alive' = [alive EXCEPT ![r] = FALSE]
  /\ down' = [down EXCEPT ![Sweeper] = [reg |-> r, step |-> "unlist", orphans |-> {}]]
  /\ UNCHANGED <<pc, silent, tables>>

-----------------------------------------------------------------------------
(* What happens around the gate.                                           *)

\* A connection dies under its task (GiveUp covers one that has yet to register, and
\* nothing asks once the task reads no more); time runs out for a registration.
Die(r) ==
  /\ alive[r] /\ pc[r] \in {"listed", "serving", "introducing", "answering"}
  /\ alive' = [alive EXCEPT ![r] = FALSE]
  /\ UNCHANGED <<pc, silent, tables, down, expired>>

FallSilent(r) ==
  /\ Listed(r) /\ ~silent[r]
  /\ silent' = [silent EXCEPT ![r] = TRUE]
  /\ UNCHANGED <<pc, alive, tables, down, expired>>

Teardown(t) == Unlist(t) \/ CloseSessions(t) \/ ReleaseOthers(t)

Next ==
  \/ \E r \in Conn : \/ Accept(r) \/ Register(r) \/ GiveUp(r) \/ WriteRegistered(r)
                     \/ Keepalive(r) \/ FileKnock(r) \/ Decide(r) \/ Leave(r)
                     \/ SweepNext(r) \/ Die(r) \/ FallSilent(r)
  \/ \E r \in Conn : \E k \in Key : Introduce(r, k)
  \/ \E r \in Conn : \E p \in Pairs : TakeKnock(r, p)
  \/ \E t \in Conn \cup {Sweeper} : Unlist(t) \/ CloseSessions(t) \/ ReleaseOthers(t)
  \/ \E p \in Pairs : SweepKnock(p)
  \/ Sweep

Spec == Init /\ [][Next]_vars

\* The tasks are scheduled, the sweep's interval ticks, a read on a dead
\* connection fails, and no keepalive is read from a dead connection or by a task
\* that has returned.
LeaveDead(r) == ~alive[r] /\ Leave(r)
Mute(r) == ~alive[r] \/ pc[r] = "done"
FallSilentMute(r) == Mute(r) /\ FallSilent(r)

Fairness ==
  /\ \A r \in Conn :
       /\ WF_vars(WriteRegistered(r))
       /\ WF_vars(FileKnock(r))
       /\ WF_vars(Decide(r))
       /\ WF_vars(LeaveDead(r))
       /\ WF_vars(FallSilentMute(r))
  /\ \A t \in Conn \cup {Sweeper} : WF_vars(Teardown(t))
  /\ WF_vars(Sweep)
  /\ WF_vars(\E r \in Conn : SweepNext(r))

FairSpec == Spec /\ Fairness
-----------------------------------------------------------------------------
\* Every variable has its type (ServerState, server.rs:199).
TypeOK ==
  /\ pc \in [Conn -> {"new", "pending", "listed", "serving", "introducing",
                   "answering", "leaving", "done"}]
  /\ alive \in [Conn -> BOOLEAN]
  /\ silent \in [Conn -> BOOLEAN]
  /\ regs \in [Key -> Seq(Conn)]
  /\ held \in [Conn -> SUBSET Session]
  /\ knocks \in [Pairs -> Knock \cup {None}]
  /\ \A p \in Pairs : knocks[p] # None => p = {knocks[p].requester, knocks[p].target}
  /\ answering \in [Conn -> Knock \cup {None}]
  /\ sessions \in [Session -> [a : Key, b : Key] \cup {None}]
  /\ nextId \in 1..MaxSession+1
  /\ down \in [Conn \cup {Sweeper} ->
                 [reg : Conn \cup {None}, step : {"none", "unlist", "close", "notify"},
                  orphans : SUBSET (Key \X Session)]]
  /\ expired \subseteq Conn

\* r is out of the list and its teardown has yet to reach the sessions.
Closing(r) == \E t \in DOMAIN down : down[t].reg = r /\ down[t].step = "close"

\* "A session never outlives the registration that owns one of its two keys"
\* (server.rs:257): while a session is in the table, each of its keys has a
\* registration that holds it and is listed, or whose teardown is about to end it.
SessionsHaveOwners ==
  \A id \in Live : \A k \in {sessions[id].a, sessions[id].b} :
    \E r \in Conn : KeyOf[r] = k /\ id \in held[r] /\ (Listed(r) \/ Closing(r))

\* And the reverse: a listed registration's sessions are live ones, so an ended
\* session stops counting against MAX_SESSIONS_PER_REGISTRATION as soon as the
\* teardown that ended it is through.
NoSlotLeaks ==
  \A r \in Conn : Listed(r) =>
    \A id \in held[r] :
      \/ id \in Live
      \/ \E t \in DOMAIN down : <<KeyOf[r], id>> \in down[t].orphans

\* The table's caps, with registrations arriving and ending at the same time.
CapsHold ==
  /\ Cardinality({ k \in Key : regs[k] # <<>> }) <= Capacity
  /\ \A k \in Key : Len(regs[k]) <= MaxPerKey
  /\ \A r \in Conn : Cardinality(held[r]) <= MaxHeld

\* The registrations and the sessions agree, and the caps hold.
TableConsistent == TypeOK /\ SessionsHaveOwners /\ NoSlotLeaks /\ CapsHold

\* A session comes about only while a task of its second key answers for that key
\* (server.rs:1137), whatever knocks crossed or were replaced in between.
TargetAgreed ==
  [][\A id \in Session :
       (sessions[id] = None /\ sessions'[id] # None) =>
         \E r \in Conn : /\ pc[r] = "answering" /\ pc'[r] # "answering"
                        /\ KeyOf[r] = sessions'[id].b]_vars

\* A connection that died is out of the table sooner or later, and so is one whose
\* task returned without tearing it down, though the connection lives on.
DeadAreSwept == \A r \in Conn : (Mute(r) /\ Listed(r)) ~> ~Listed(r)
=============================================================================
