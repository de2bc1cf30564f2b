---------------------------- MODULE RelayShaper -----------------------------
(***************************************************************************)
(* One direction's shaped queue: RelayShaper of                            *)
(* crates/mosschat-net/src/path.rs, as operators on a record.              *)
(*   items   what is queued, in order                                      *)
(*   closed  close has been called                                         *)
(*   wakers  drivers parked until a drain pass                             *)
(*   permit  tokio's Notify holds a permit: notify_one found nobody waiting *)
(*   drain   the drain task: "none" (not started), "run" (about to look at *)
(*           the queue), "wait" (found it empty, not yet registered),      *)
(*           "idle" (registered with Notify), "check" (has a batch, yet to *)
(*           look where to), "find" (looking, at the gate), "send"         *)
(*           (writing it), "done" (returned)                               *)
(*   batch   what drain handed over and is not yet written                 *)
(* The rate is left out: a pass may find budget for any number of          *)
(* datagrams up to the burst, or not be made yet.  Enqueueing and closing  *)
(* notify the drain just after they let the lock go; here in one step,     *)
(* since a drain that runs in between finds nothing once more at worst.    *)
(***************************************************************************)
EXTENDS Naturals, Sequences

EmptyShaper ==
  [items |-> <<>>, closed |-> FALSE, wakers |-> {}, permit |-> FALSE,
   drain |-> "none", batch |-> <<>>]

HasRoom(q, wanted, depth) == Len(q.items) + wanted <= depth

\* Notify::notify_one wakes the task that waits, or leaves a permit.
NotifyOne(q) ==
  IF q.drain = "idle" THEN [q EXCEPT !.drain = "run"] ELSE [q EXCEPT !.permit = TRUE]

\* The part of try_enqueue_all and of enqueue_or_drop that accepts.
Accepted(q, ds) == NotifyOne([q EXCEPT !.items = @ \o ds])

\* A faulty enqueue that takes what fits of a transmit and refuses the rest.
TryEnqueueAllPartly(q, ds, depth) ==
  LET n == IF Len(q.items) >= depth THEN 0 ELSE depth - Len(q.items)
      k == IF n < Len(ds) THEN n ELSE Len(ds)
  IN IF q.closed THEN [result |-> "Closed", q |-> q]
     ELSE [result |-> IF k = Len(ds) THEN "Accepted" ELSE "Full",
           q |-> Accepted(q, SubSeq(ds, 1, k))]

\* try_enqueue_all: a whole transmit or nothing of it.
TryEnqueueAll(q, ds, depth) ==
  IF q.closed THEN [result |-> "Closed", q |-> q]
  ELSE IF ~HasRoom(q, Len(ds), depth) THEN [result |-> "Full", q |-> q]
  ELSE [result |-> "Accepted", q |-> Accepted(q, ds)]

\* enqueue_or_drop: the newest is refused when the queue is full.
EnqueueOrDrop(q, d, depth) ==
  IF q.closed THEN [result |-> "Closed", q |-> q]
  ELSE IF Len(q.items) >= depth THEN [result |-> "Full", q |-> q]
  ELSE [result |-> "Accepted", q |-> Accepted(q, <<d>>)]

\* A faulty poll that forgets to register.
PollRoomForgets(q, wanted, depth, w) ==
  [ready |-> q.closed \/ HasRoom(q, wanted, depth), q |-> q]

\* poll_room: look and register under one lock.
PollRoom(q, wanted, depth, w) ==
  IF q.closed \/ HasRoom(q, wanted, depth) THEN [ready |-> TRUE, q |-> q]
  ELSE [ready |-> FALSE, q |-> [q EXCEPT !.wakers = @ \cup {w}]]

\* What one look of drain at the queue may find: it is closed, it is empty, or k
\* datagrams leave it and every parked driver is woken (their wakers are taken).
Passes(q, burst) ==
  IF q.closed THEN { [q EXCEPT !.drain = "done"] }
  ELSE IF q.items = <<>> THEN { [q EXCEPT !.drain = "wait"] }
  ELSE { [q EXCEPT !.drain = "check", !.batch = SubSeq(q.items, 1, k),
                   !.items = SubSeq(q.items, k + 1, Len(q.items)), !.wakers = {}]
         : k \in { n \in 1..burst : n <= Len(q.items) } }

\* A faulty wait that starts over instead of taking the permit that was left.
AwaitArrivalIgnoresPermit(q) == [q EXCEPT !.drain = "idle", !.permit = FALSE]

\* Notified::await takes a permit that is there, or registers.
AwaitArrival(q) ==
  IF q.permit THEN [q EXCEPT !.drain = "run", !.permit = FALSE]
  ELSE [q EXCEPT !.drain = "idle"]

\* The drain task returns; what it has not written goes with it.
Ended(q) == [q EXCEPT !.drain = "done", !.batch = <<>>]

\* A faulty close that leaves the drain to find out by itself.
CloseSilently(q) == [q EXCEPT !.closed = TRUE, !.items = <<>>, !.wakers = {}]

\* close: what is queued is discarded, parked drivers and the drain are woken.
Close(q) == NotifyOne([q EXCEPT !.closed = TRUE, !.items = <<>>, !.wakers = {}])

\* Nobody will look at the queue until something more arrives.
Asleep(q) == q.drain \in {"none", "done"} \/ (q.drain = "idle" /\ ~q.permit)
=============================================================================
