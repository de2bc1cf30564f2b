----------------------------- MODULE HouseStore -----------------------------
(***************************************************************************)
(* One visit in one house: the recording in memory (RecordingRules), the   *)
(* rows the encrypted store keeps of it, and what a crash leaves.          *)
(*                                                                         *)
(* Sources: crates/mosschat-core/src/store.rs and view/mod.rs.  A call of  *)
(* the store is one SQL statement (each commits by itself) or one          *)
(* transaction, so a crash falls between statements: between creating the  *)
(* tables and writing the schema version, between the ingest of an event   *)
(* and its row, and between the rows of one drop-request.                  *)
(*                                                                         *)
(* The caller that joins the two (ingest first, then append_event, as the  *)
(* comment on append_event asks) is not in the repository yet; it is the   *)
(* environment here, as is the host that sequences the events.             *)
(***************************************************************************)
EXTENDS RecordingRules, Sequences, FiniteSets

CONSTANTS
  Person,       \* identity keys the host may admit
  BodyTypes,    \* the body types authors use
  Redelivered,  \* the body types of events that may be offered again
  NumTables,    \* the tables create_schema makes, one statement each
  MaxEvents,    \* bound on seq
  MaxMinted     \* bound on the events signed over all runs of the house

ASSUME StorePersonAssumption == Person \subseteq Key
ASSUME TablesAssumption == NumTables \in Nat \ {0}
ASSUME StoreBoundAssumption == MaxEvents \in Nat /\ MaxMinted \in Nat

SchemaVersion == 1

VARIABLES
  phase,     \* "down", "locked", "creating", "up" (Store::open has returned)
  tables,    \* on disk: how many of the tables exist
  version,   \* on disk: PRAGMA user_version
  visitRow,  \* on disk: "none", "open" or "closed"; "deleted" once it was removed
  rows,      \* on disk: seq -> [id, ev]; ev = None is a row whose bytes are NULL
  loaded,    \* a Recording of the visit is in memory
  mem,       \* that Recording
  task,      \* what the call in progress has yet to do in the store
  minted     \* every event signed so far; its identifier is its index

disk == <<tables, version, visitRow, rows>>
vars == <<phase, tables, version, visitRow, rows, loaded, mem, task, minted>>

Seqs == 0..MaxEvents-1
NoRows == [n \in {} |-> None]

Idle == [op |-> "idle"]
Appending(e) == [op |-> "append", ev |-> e]
Dropping(ns) == IF ns = {} THEN Idle ELSE [op |-> "drop", seqs |-> ns]
VisitRowExists == visitRow \in {"open", "closed"}

\* The bodies an author may write (environment).
Bodies ==
  LET ids == DOMAIN minted IN
  { b \in [type : {"message"}, replyTo : ids \cup {None}]
            \cup [type : {"join"}, person : Person, devices : { {p} : p \in Person }]
            \cup [type : {"leave"}, person : Person]
            \cup [type : {"dropRequest"}, scope : {"visit"}]
            \cup [type : {"dropRequest"}, scope : {"events"}, targets : { {i} : i \in ids }]
    : b.type \in BodyTypes /\ (b.type = "join" => b.person \in b.devices) }

-----------------------------------------------------------------------------
(* Rebuilding a recording from its rows (recording_from_store).            *)

\* One row: live bytes are ingested again, a tombstoned row puts its tombstone
\* back; the first row that is not admitted ends the replay.
ReplayRow(acc, n, row, t) ==
  IF row.ev = None
  THEN [acc EXCEPT !.rec = InsertTombstone(acc.rec, n, row.id)]
  ELSE [verdict |-> Verdict(acc.rec, row.ev, t), rec |-> Ingest(acc.rec, row.ev, t)]

\* A faulty replay that reads the rows from the last to the first.
ReplayedBackwards(rs, t) ==
  LET upto[n \in 0..MaxEvents] ==
        IF n = 0 THEN [verdict |-> "ok", rec |-> EmptyRecording]
        ELSE LET acc == upto[n - 1] IN
             IF acc.verdict = "ok" /\ MaxEvents - n \in DOMAIN rs
             THEN ReplayRow(acc, MaxEvents - n, rs[MaxEvents - n], t) ELSE acc
  IN upto[MaxEvents]

\* The rows in seq order (events_for_visit), from an empty Recording.
Replayed(rs, t) ==
  LET upto[n \in 0..MaxEvents] ==
        IF n = 0 THEN [verdict |-> "ok", rec |-> EmptyRecording]
        ELSE LET acc == upto[n - 1] IN
             IF acc.verdict = "ok" /\ n - 1 \in DOMAIN rs
             THEN ReplayRow(acc, n - 1, rs[n - 1], t) ELSE acc
  IN upto[MaxEvents]

-----------------------------------------------------------------------------
Init ==
  /\ phase = "down"
  /\ tables = 0
  /\ version = 0
  /\ visitRow = "none"
  /\ rows = NoRows
  /\ loaded = FALSE
  /\ mem = EmptyRecording
  /\ task = Idle
  /\ minted = <<>>

(* Store::open: lock, connect, look at user_version; a file whose version   *)
(* is 0 gets its tables, one statement at a time, and then its version.     *)
Lock ==
  /\ phase = "down"
  /\ phase' = "locked"
  /\ UNCHANGED <<disk, loaded, mem, task, minted>>

\* Version 0 leads to create_schema, whose first statement fails on a table that
\* is already there, and open returns that error.
CheckVersion ==
  /\ phase = "locked"
  /\ phase' = CASE version = SchemaVersion         -> "up"
                [] version = 0 /\ tables = 0       -> "creating"
                [] OTHER                           -> "down"
  /\ UNCHANGED <<disk, loaded, mem, task, minted>>

CreateTable ==
  /\ phase = "creating" /\ tables < NumTables
  /\ tables' = tables + 1
  /\ UNCHANGED <<phase, version, visitRow, rows, loaded, mem, task, minted>>

SetVersion ==
  /\ phase = "creating" /\ tables = NumTables
  /\ version' = SchemaVersion
  /\ phase' = "up"
  /\ UNCHANGED <<tables, visitRow, rows, loaded, mem, task, minted>>

\* The process ends, whatever it was doing; the lock goes with it.
Crash ==
  /\ phase # "down"
  /\ phase' = "down"
  /\ loaded' = FALSE
  /\ mem' = EmptyRecording
  /\ task' = Idle
  /\ UNCHANGED <<disk, minted>>

-----------------------------------------------------------------------------
Ready == phase = "up" /\ task = Idle

\* Store::open_visit.  The host draws a visit's identifier once, so a deleted
\* visit is not opened again.
OpenVisit ==
  /\ Ready /\ visitRow = "none"
  /\ visitRow' = "open"
  /\ UNCHANGED <<phase, tables, version, rows, loaded, mem, task, minted>>

CloseVisit ==
  /\ Ready /\ visitRow = "open"
  /\ visitRow' = "closed"
  /\ UNCHANGED <<phase, tables, version, rows, loaded, mem, task, minted>>

\* recordings_from_store for this visit; an error loads nothing.
Load ==
  LET result == Replayed(rows, 0)
  IN /\ Ready /\ VisitRowExists /\ ~loaded
     /\ result.verdict = "ok"
     /\ loaded' = TRUE
     /\ mem' = result.rec
     /\ UNCHANGED <<phase, disk, task, minted>>

\* Recording::ingest; an admitted event is then to be appended.
Receive(e) ==
  /\ Ready /\ loaded
  /\ mem' = Ingest(mem, e, 0)
  /\ task' = IF Verdict(mem, e, 0) = "ok" THEN Appending(e) ELSE Idle
  /\ UNCHANGED <<phase, disk, loaded>>

\* What the host may sequence the next event after: what this house holds last,
\* or the last event of all, which this house may have lost in a crash.
Heads == { IF Held(mem) = {} THEN ZeroId ELSE mem.slots[Cardinality(Held(mem)) - 1].id,
           Len(minted) }

\* The next event of the visit, as its host sequences it (environment).
NewEvent(author, prev, body) ==
  LET e == [id |-> Len(minted) + 1, form |-> "valid", visit |-> This, author |-> author,
            seq |-> IF prev = ZeroId THEN 0 ELSE minted[prev].seq + 1,
            prev |-> prev, body |-> body]
  IN /\ e.seq < MaxEvents /\ Len(minted) < MaxMinted
     /\ Verdict(mem, e, 0) \in {"ok", "PredecessorMissing"}
     /\ Receive(e)
     /\ minted' = Append(minted, e)

\* An event that was sent before is sent again, stored or not (environment).
OldEvent(e) ==
  /\ e.body.type \in Redelivered \/ e.id \notin HeldIds(mem)
  /\ Receive(e)
  /\ UNCHANGED minted

\* Faulty appends: no foreign key on the visit; INSERT OR REPLACE.
AppendEventNoForeignKey ==
  /\ phase = "up" /\ task.op = "append"
  /\ rows' = IF task.ev.seq \notin DOMAIN rows
             THEN PutSlot(rows, task.ev.seq, [id |-> task.ev.id, ev |-> task.ev])
             ELSE rows
  /\ task' = Idle
  /\ UNCHANGED <<phase, tables, version, visitRow, loaded, mem, minted>>
AppendEventReplaces ==
  /\ phase = "up" /\ task.op = "append"
  /\ rows' = IF VisitRowExists
             THEN PutSlot(rows, task.ev.seq, [id |-> task.ev.id, ev |-> task.ev])
             ELSE rows
  /\ task' = Idle
  /\ UNCHANGED <<phase, tables, version, visitRow, loaded, mem, minted>>

\* Store::append_event: INSERT, refused by the primary key when a row is at that
\* seq and by the foreign key when the visit has no row.
AppendEvent ==
  /\ phase = "up" /\ task.op = "append"
  /\ rows' = IF VisitRowExists /\ task.ev.seq \notin DOMAIN rows
             THEN PutSlot(rows, task.ev.seq, [id |-> task.ev.id, ev |-> task.ev])
             ELSE rows
  /\ task' = Idle
  /\ UNCHANGED <<phase, tables, version, visitRow, loaded, mem, minted>>

\* view::honour_drop_request: the recording in memory first, then the rows of
\* the seqs that were live before and are tombstones now.
Honour(n) ==
  /\ Ready /\ loaded
  /\ Honourable(mem, n)
  /\ mem' = HonourDropRequest(mem, n)
  /\ task' = Dropping({ m \in Held(mem) : Live(mem.slots[m]) /\ ~Live(mem'.slots[m]) })
  /\ UNCHANGED <<phase, disk, loaded, minted>>

\* Store::tombstone_event of the lowest seq left; without a row it fails, and
\* the call returns with the rest undone.
TombstoneEvent ==
  /\ phase = "up" /\ task.op = "drop"
  /\ \E n \in task.seqs :
       /\ \A m \in task.seqs : n <= m
       /\ IF n \in DOMAIN rows
          THEN rows' = [rows EXCEPT ![n].ev = None] /\ task' = Dropping(task.seqs \ {n})
          ELSE rows' = rows /\ task' = Idle
  /\ UNCHANGED <<phase, tables, version, visitRow, loaded, mem, minted>>

\* Store::delete_visit: one transaction over every table.  The recording in
\* memory, if its owner keeps it, is not touched.
DeleteVisit ==
  /\ Ready /\ VisitRowExists
  /\ visitRow' = "deleted"
  /\ rows' = NoRows
  /\ UNCHANGED <<phase, tables, version, loaded, mem, task, minted>>

Next ==
  \/ Lock \/ CheckVersion \/ CreateTable \/ SetVersion \/ Crash
  \/ OpenVisit \/ CloseVisit \/ Load \/ DeleteVisit
  \/ \E a \in Key : \E p \in Heads : \E b \in Bodies : NewEvent(a, p, b)
  \/ \E i \in DOMAIN minted : OldEvent(minted[i])
  \/ AppendEvent
  \/ \E n \in Held(mem) : Honour(n)
  \/ TombstoneEvent

Spec == Init /\ [][Next]_vars
-----------------------------------------------------------------------------
\* Every variable has its type (Store, store.rs:470; Recording, ingest.rs:206).
TypeOK ==
  /\ phase \in {"down", "locked", "creating", "up"}
  /\ tables \in 0..NumTables
  /\ version \in {0, SchemaVersion}
  /\ visitRow \in {"none", "open", "closed", "deleted"}
  /\ DOMAIN rows \subseteq Seqs /\ \A n \in DOMAIN rows : rows[n] \in Slot
  /\ loaded \in BOOLEAN
  /\ IsRecording(mem, Seqs)
  /\ task.op \in {"idle", "append", "drop"}
  /\ task.op = "append" => task.ev \in Event
  /\ task.op = "drop" => task.seqs \in (SUBSET Seqs) \ {{}}
  /\ minted \in Seq(Event)

\* A store that Store::open hands out has all its tables, whatever crashes came
\* before: the version is written after them (store.rs:524).
OpenStoreIsComplete == phase = "up" => tables = NumTables /\ version = SchemaVersion

\* R-45 with calls in flight: a visit without a row has no event rows, so an
\* event received after a delete does not bring the visit back.
DeletedStaysDeleted == ~VisitRowExists => rows = NoRows

\* Whatever crashes, redeliveries and drops came between, the rows hold a
\* gapless prefix of the chain: each row's event follows the row below it.
RowsLinked ==
  \A n \in DOMAIN rows :
    /\ rows[n].id \in DOMAIN minted
    /\ minted[rows[n].id].seq = n
    /\ n > 0 => n - 1 \in DOMAIN rows /\ minted[rows[n].id].prev = rows[n - 1].id

\* A store that is open has its tables, and their rows are the visit's, all of it
\* up to some event and nothing else.
RowsAreTheVisit == TypeOK /\ OpenStoreIsComplete /\ DeletedStaysDeleted /\ RowsLinked

\* R-41 and R-50: bytes that were dropped from the file do not come back to it,
\* even when the event is delivered again and admitted again in memory.
DroppedBytesStayGone ==
  [][\A n \in DOMAIN rows \cap DOMAIN rows' : ~Live(rows[n]) => rows'[n] = rows[n]]_vars

\* Restart loses nothing: while nothing was dropped, replaying the rows gives
\* the very recording that is in memory (slots, membership, devices in force).
ReplayGivesMemory ==
  (/\ Ready /\ loaded /\ VisitRowExists /\ ~mem.broken
   /\ \A n \in DOMAIN rows : Live(rows[n])
   /\ \A n \in Held(mem) : Live(mem.slots[n]))
  => Replayed(rows, 0) = [verdict |-> "ok", rec |-> mem]

\* R-49 over restarts: the views of a house can be computed from its rows, with
\* a marker where something was dropped.
ReplaySucceeds == VisitRowExists => Replayed(rows, 0).verdict = "ok"
=============================================================================
