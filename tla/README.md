# Mosschat in TLA+

Mosschat lets people visit each other's houses: every house keeps its own
recording of a visit, and nothing merges two people's recordings.  This
directory holds TLA+ models of the parts where that is hard to get right, the
TLC configurations that check them, and TLAPS proofs.  `PROJECT.json` links
every definition to the lines it models, every property to the fault that
breaks it, and every hazard to the properties that would catch it.

Run a model with `tlc -config MCVisitHonest.cfg MCVisit`, check the proofs of
one of the `*Proofs` modules with, say, `tlapm VisitProofs.tla`.

## 1. The system

| Part | State | Operations | Hard because |
|---|---|---|---|
| Recording (`mosschat-core/src/event/ingest.rs`) | slots by seq (event or tombstone), joins, devices in force, windows, revoked keys, broken mark | `ingest`, `honour_drop_request`, `insert_tombstone` | events come late, twice, out of order, forged; the checks read state that earlier events wrote |
| Event encoding (`event/{signed,envelope,body,id}.rs`) | none | `sign`, `parse`, `to_cbor`, `from_cbor` | pure functions |
| Store (`store.rs`) | lock file, schema version, tables, one row per event | `open`, `open_visit`, `close_visit`, `append_event`, `tombstone_event`, `delete_visit`, `events_for_visit` | a crash falls between any two statements |
| Views (`view/mod.rs`) | none of their own | `recording_from_store`, `recordings_from_store`, `honour_drop_request`, `delete_visit_for_real`, the projections | memory and file change in two steps; a restart replays the file |
| Gate server (`mosschat-net/src/gate/server.rs`) | registrations by key, knocks by pair tag, sessions by id, limiters, counters | register, keepalive, introduce, knock answer, start request, relay, teardown, sweep | one task per connection plus the sweep; three locks taken one after the other |
| Gate client (`gate/client.rs`) | sessions held, start slots, seen set, friends, invites | connect, reflect, introduce, answer, await start, goodbye | `Start` races its waiter; replayed seals |
| Path table and relay shaper (`path.rs`) | path per peer, epoch, bounded queue, wakers, tokens | upgrade, fall back, enqueue, poll for room, drain, close | lost wake-ups; switching while sending |
| Porch socket (`sock.rs`) | source leases, armed probe keys, inbound queues | send, receive, demultiplex, arm, attach and detach the gate | sources come and go under the receiver |
| Doorbell (`punch.rs`) | attempt, candidates, phase, watch | candidates, start, probe, upgrade, fall back, rerun | two sides, one stream, reruns with a fresh attempt; answers race deadlines |
| Liveness and addresses (`live.rs`) | last pong, probes out, state; cached addresses | probe due, pong, poll; remember, expire | timeouts race answers |
| Headless house (`house.rs`) | visits, slots per house and per peer | take a gate event, accept a dial, run a visit, shut down | a visit can end in any of its waits |
| Discovery (`discovery.rs`) | replay guard, limiters, addresses | announce, receive | repeats, clocks that differ, bounds |
| Doctor (`mosschat/src/main.rs`) | one record | resolve, dial, register, reflect, introduce, visit, exit | two tasks close one record; what fails without a step |
| Diagnostics (`diag.rs`) | steps and reason of a record; log files | step, snapshot, finish; append, rotate, prune, read | crashes inside a line, restarts, two writers |
| Identity, TLS, wire format | none | | see section 7 |

How they interact.  A caller hands an event to `Recording::ingest` and, if it
is admitted, to `Store::append_event`; at start-up the views replay the rows
through the same `ingest`.  Houses meet at the gate: each holds a QUIC
connection to it, asks it to *introduce* it to another house under a tag only
the two can compute, and the gate opens a *session* when the other side agrees.
Traffic goes through the gate's relay until the doorbell has found a direct
path.  The transport that will carry recorded events between houses, and the
caller that joins ingest and store, are not in the repository at this commit:
both are environment here.

What makes each part correct: recordings of one visit are prefixes of the
host's sequence, membership follows from the log alone, a drop takes down only
what its author may drop and changes nobody's verdict; the file holds a prefix
of the recording through any crash and forgets what it was told to forget; the
gate's sessions belong to registrations that exist, its caps hold, only the
target opens a session, and what died leaves the table; a relayed datagram goes
out once and in order, and nobody sleeps over work; two sides of a visit agree
on the attempt, use a direct path only while it is watched, and replace one that
died; a house gives back every slot, opens once per invite and hears an announce
once; a doctor's run leaves one record and its status tells the truth about it.

## 2. Modules

| Module | Models | Extends |
|---|---|---|
| `RecordingRules` | the rules of one recording as operators: verdict and effect of `ingest`, drops, tombstones | |
| `SharedVisit` | several houses recording one visit | `RecordingRules` |
| `RuleProofs` | lemmas about `RecordingRules` | `RecordingRules`, TLAPS |
| `VisitProofs` | theorems about `SharedVisit` | `SharedVisit`, `RuleProofs` |
| `HouseStore` | one house: recording, rows, crash and restart | `RecordingRules` |
| `GateServer` | connections, registrations, knocks, sessions, sweep | |
| `RelayShaper` | the shaped relay queue of `path.rs` as operators: both enqueue policies, poll for room, drain, close | |
| `RelayPipe` | what a relay direction promises: a bounded FIFO, each datagram once, nothing lost before it is shut | |
| `HouseRelay` | a house's relay egress: drivers, queue, drain, gate connection; refines `RelayPipe` | `RelayShaper` |
| `GateRelay` | one direction of a session at the gate: forwarding, queue, drain, registrations; refines `RelayPipe` | `RelayShaper` |
| `PorchInbound` | the receiving half of the porch socket: `poll_recv` cut at its locks, deliveries, leases, probe keys | |
| `Doorbell` | `run_doorbell` on both sides of one porch stream | |
| `CandidateTable` | gathering, the candidate table of an attempt, the address cache, as operators | |
| `Liveness` | `PeerLiveness` as operators | |
| `PathLife` | one side of an attempt in time: probing, the watch on a direct path, the watch on the relay | `CandidateTable`, `Liveness` |
| `HeadlessHouse` | `house.rs` on its gate client: sessions, Start slots, visits, shutdown | |
| `Knocks` | whose knock a house answers: seen set, freshness window, invites | |
| `Discovery` | announces between two houses of a LAN | `CandidateTable` |
| `Doctor` | one `mosschat doctor` run, its record and the doorbell task it starts | |
| `DiagLog` | the diagnostics log: writers, days, parts, crashes, the reader | |
| `MCVisit`, `MCStore`, `MCGate`, `MCPorchInbound`, `MCDoorbell` | small instances | the module above |
| `MCRelay` | the two queues of a relayed datagram | `HouseRelay`; an instance of `GateRelay` |
| `MCHouse` | a house and what it meets | `PathLife`; instances of `HeadlessHouse`, `Knocks`, `Discovery`, `Doctor`, `DiagLog` |
| `StoreProofs`, `GateProofs`, `PorchProofs`, `DoorbellProofs` | theorems | `HouseStore` and `RuleProofs`, `GateServer`, `PorchInbound`, `Doorbell` |
| `RelayProofs`, `HouseProofs` | theorems | `MCRelay`, `MCHouse` |

Definitions whose comment starts with "Mutant" or "A faulty" are plausible bugs in the
definition that follows; no specification uses them.  `PROJECT.json` says which
property each of them breaks when it is put in place of the real one.

### RecordingRules

A recording is a record with the fields of `Recording`; `Verdict(r, e, t)` is
what `ingest` returns and `Ingest(r, e, t)` what it leaves behind, with the
checks in the order of the code: broken, parse, visit, chain, revoked author,
author status, window, then the body's own rule.  Faithful in what is easily
lost: an event already held passes the chain checks and takes effect again; a
missing predecessor decides nothing; `or_insert` keeps an older claim on a
device; a leave closes every open join below it; tombstones count as stored for
replies and reactions but not for drop-requests.

Abstracted: keys are model values; an identifier is a number that stands for one
event (BLAKE3 over the envelope, which holds the body's hash, is taken to be
collision free); bytes are what `SignedEvent::parse` makes of them (`Form`).
Timestamps, text, names, symbols and the set `reactions_added` (written, never
read) are left out.

### SharedVisit

`rec[h]` is the recording of house `h`.  `HostSequence` is the host assigning
the next seq, the author signing and the host's own house admitting it;
`Deliver` offers any event to any house at any time, again and again when
`Redeliver` is set; `Stray` signs an event outside the host's sequence (another
visit, another prev, a seq already taken); `Honour` is the owner of a house
granting a drop-request; `Tick` moves the ingest clock.

### HouseStore

The disk (`tables`, `version`, `visitRow`, `rows`) survives `Crash`; `phase`,
`loaded`, `mem` and `task` do not.  Every SQL statement or transaction is one
action, so `Store::open` on a new file is `Lock`, `CheckVersion`, `CreateTable`
several times and `SetVersion`, and `view::honour_drop_request` is `Honour`
followed by one `TombstoneEvent` per row.  `Replayed` is `recording_from_store`.
Events come from a host that may know more than this house (it lost an event in
a crash) or the same.  Replay and ingest run at clock 0, since no body type in
these runs has a window.

### GateServer

One action is what a task does under one lock.  `handle_introduce` is `Introduce`
(lock on registrations) and `FileKnock` (lock on knocks); `handle_knock_answer` is
`TakeKnock` (lock on knocks) and `Decide` (locks on registrations and, inside it,
sessions); `teardown_registration` is `Unlist`, `CloseSessions`, `ReleaseOthers`,
run by the connection's own task or by the sweep, possibly both.  A connection
that fails before it registers leaves no trace; writing `Registered` may fail on a
connection that lives on.  The knock's pair stands for its
tag.  Frames to houses and counters change nothing at the gate and are left out;
a rate limiter can refuse any frame, which is the action not being taken.
Session identifiers are drawn without reuse: the code draws from 2^32 until one
is free, so one that ended can come back, with probability about 2^-32.

### RelayShaper, HouseRelay, GateRelay

A shaper is a record of the queue, the parked wakers, the permit of tokio's
`Notify`, and its drain task with the batch it holds.  One action is one hold of
the shaper's lock, or one wait: a driver's `poll_writable` and `try_send` are two
actions, the drain's pass, its wait for arrivals, its look at where to send and
each datagram it writes are others.  The rate is left out (a pass takes any
number of datagrams up to the burst, at any later time); so are counters.

`HouseRelay` is used for one gate connection, as `gate/client.rs:674` does.
quinn's drivers are external: they poll, then send, keep a transmit that was
refused, and may poll again at any time (`Stir`).  `adopted` is the poller's
`relay_destination`, set when `try_send` notes the intent, since the same driver
polls before it sends again.  The path may turn direct or back at any moment.

`GateRelay` starts with the session made.  What reaches `forward_relay` is any
subset of the datagrams in any order, because datagrams on the house's connection
are unreliable; this is also all that couples it to `HouseRelay`, so `MCRelay`
lets a behaviour be of either.  The destination may connect again and lose connections.

Both map to `RelayPipe` by taking batch and queue together as what is pending,
and the end of the drain (at the gate also the close) as the shut.

### PorchInbound

`poll_recv` is five actions, since `deliver_synthetic` runs between any two of
its locks: register the waker and choose whose turn it is (`PollBegin`), drain
the relay queue (`PollDrain`), read the socket (`PollSocket`, `NotReady`), split
and classify what came (`PollSplit`), and the last look at the queue (`PollLast`).
A delivery is two actions as well: the push and the wake.  A datagram of the wire
is its source and its segments, as GRO coalesces them; a probe has the attempt it
names and the attempt whose key signed it.  quinn's driver and tokio's budget are
external.  `DisarmProbeKey` takes its two locks in one action: what falls between
them falls as well before or after both, and splitting it triples the state space.  Probes that come over the relay and the receive errors that `poll_recv`
passes on are left out.

### Doorbell

The state of a side is where it is in `run_doorbell`, its attempt, its phase,
what its path table says, and the flags the end of a visit is named by; between
the sides are two bounded queues of porch frames, the Starts of the gate, and one
connection.  An action is the part of the function between two awaits that wait
for something outside, with everything it writes: `WatchStale` falls back,
records and sends `PathDown`; `TakeCandidates` joins the peer's newer attempt.
Candidates, probes and time are `PathLife`'s: here a burst may be answered when
the other side answers pings, and may give up otherwise.

### CandidateTable, Liveness, PathLife

One action of `PathLife` is one pass of the 20 ms loop; `now` counts passes from
the beginning of the phase.  The schedule constants keep the ratios and the order
of the code's (fast and slow interval, fast window, give-up, probe interval, loss
floor, grace) with a pass of 125 to 250 ms.  An address is a host and a spelling,
because the dual-stack socket has two spellings for one IPv4 host and the range
tests read only one of them; port 0 or 1, which no spelling hides, makes a host of a
kind of its own.  The network is a delay for each path and a set of
paths, and of the house's own queue, that lose what is sent.

### HeadlessHouse, Knocks

`HeadlessHouse` has the client's reader (`Introduction`, `Start`, the event queue
that drops when full), the house's select loop (`TakeEvent`, `Accept`,
`Shutdown`, `Depart`) and each visit's task, where every wait is a place it can
end.  A peer may ask the gate for a Start at any time, so one may come before the
first visit of its session waits.  `Knocks` has `answer_knock` in its order: open,
friend or invite, freshness, seen set.  Clocks of knockers may be ahead.

### Discovery

Two houses that are friends.  The network keeps each datagram for ever, so any
announce may come again at any time, and from any host.  Clocks differ by up to the
window and go at one rate.  `opened` is a ghost: the frame that set each entry of
`last_from`.

### Doctor, DiagLog

`Doctor` is `run_doctor_steps` up to the exit status, with the steps `connect`,
`reflect`, `introduce`, `dial_peer` and `goodbye` record, and the doorbell's task
reduced to what it records and in which order.  `Recorder::finish` is two actions
on both sides, the snapshot and the lock.  Deadlines may pass whenever what they
bound has not happened.

`DiagLog` has writers that are processes: a restart begins with no file open.  A
crash leaves a line cut short, or whole without its newline.  A disk that fills in
the middle of a write, with the process living on, is not modelled, nor is a prune
that fails between two files (one that fails on its first changes nothing); the
clock never goes back.

## 3. Runs

| Run | Question | Bounds | States |
|---|---|---|---|
| `visit_honest` | do houses under an honest host agree in log, membership and verdicts, and are leaves, revocations and drops respected? | 2 houses, 3 keys, 4 events, 7 body types, one grant that runs out | 69 000 |
| `visit_catchup` | does a house that lags get everything in the end? | 2 houses, 4 events, 5 body types, drop-requests among them | 37 000 |
| `visit_stray` | does the chain hold against events the host did not sequence and repeats? | 3 seqs, 1 stray event, 2 visits, redelivery | 217 000 |
| `store_crash` | what do crashes, deletes, drops and redeliveries leave in the file? | 3 seqs, 4 events signed, 2 tables | 1 200 000 |
| `store_replay` | violation, see section 6 | as above | |
| `gate_sessions` | sessions, slots, caps and consent with every interleaving of locks | 2 keys, 3 connections, cap of 1 pending and 1 session per registration, 2 sessions | 2 300 000 |
| `gate_sweep` | does a dead registration leave, and one whose task returned? | 2 connections, 1 session | 27 000 |
| `relay` | can the egress or the gate's queue stall, lose, repeat or reorder? does the gate's drain end with the session? | egress: 2 drivers, depth 3, burst 2, 2 segments, 5 datagrams; gate: 2 connections, depth 2, 3 datagrams | 441 000 |
| `porch_inbound` | can the reader sleep over something to read, hear a stranger, or starve a source? | 2 attempts, 2 leases, 1 or 2 buffers, both queues of 1 | 430 000 |
| `doorbell` | do two sides agree, fall back together and replace a dead path? | 4 attempts, frame queue of 4, 2 start requests | 84 000 |
| `house` | candidates, probes and watches in time; slots and Starts; knocks; announces; a doctor's run; the log | see below | 1 480 000 |
| `doctor_exit` | violation, see section 6 | 12 steps, 2 attempts | |

The properties are defined, with comments, at the end of each module.  Those of
`HeadlessHouse`, `Knocks`, `Discovery`, `Doctor` and `DiagLog` are given their
names for TLC at the end of `MCHouse`.

Why the bounds are enough.  Four or five events hold join, leave, rejoin and one
event after it, or join, device-add, revocation and an attempt to return, or
join, message, drop-request and a reply to what was dropped.  Two houses are all
that any property compares.  One stray event gives a collision, a wrong prev and
an event of another visit.  In the store, three seqs are join, message and
drop-request, and the fourth signed event is the one that takes the place of one
lost in a crash or follows it.  Two tables tell "some" from "all".  At the gate
a key with two connections tells "the latest registration" from "the one that
asked"; a limit of 1 is reached at once; the second session shows that the first
gave its slot back.  For the relay, two drivers meet on a queue that holds one
transmit and a half, so that a transmit is refused with room for a part of it;
five datagrams fill the queue and a batch; the gate's three fill its queue and
find it full; two connections tell the latest from the one that holds the session.

The porch's queues of 1 are full after one datagram; two attempts tell the name a
probe carries from the key that made it; two leases tell the first close from the
last.  Four attempts of a doorbell are a first one, a rerun by each cause and one
more after it; the gate grants two start requests (four in the code), so a rerun
without a Start happens; the frame queue of 4 (16 in the code) never overflows,
which `BothSidesAgree` says.

In `house`, a behaviour is of one of the six parts and the others stay as they
began, since they share no state; one run instead of six lets the checker share
nothing but the start.  `path`: lists of two admissible hosts plus one that does
not fit, a list that names a private network and the house itself in both
spellings, discovery that heard nothing, the private host, or more than its slot;
delays below, at and above the fast interval; three changes of what is lost in 48
passes, enough for stale, dead and answering again.  `home`: one peer, two
sessions, three dials at caps of two; time for a session to be swept
(the eviction of the earliest session at the client's cap is not reached: the
gate never has more than eight either).  `door`: a friend and a guest with one
invite, two seals, a seen set of one.  `lan`: a house that announces once and one,
a window ahead, that does so three times.  `doctor`: every option, two attempts,
and a record of 12 entries, which a held run fills.  `log`: two writers, three
days of which two are kept, three records of two lengths, one fault.

`CHECK_DEADLOCK FALSE` where the system may stop: visits end, bounds are reached,
and connections are not made again once done.  `porch_inbound` and `doorbell`
check deadlock.

Fairness.  `visit_catchup`: weak fairness of offering each event to each house.
`PredecessorMissing` is documented as retryable (`ingest.rs:124`); that a caller
retries is an assumption about code to be written; the run has no windows, as R-32
judges a grant at the ingest clock and a late house may rightly be refused.  A
house may also stand before a drop-request that it refuses for good (`Stuck`,
section 6); `CatchUp` says that nothing else holds it up.
`gate_sweep`: weak fairness of the gate's own tasks (the runtime schedules them,
the sweep's interval ticks), of a read on a dead connection, which fails, and of
time running out for a registration whose keepalives nobody sends or nobody reads
any more (`Mute`: its connection died, or its task returned).  No fairness for anything a house
does.  `relay`: weak fairness of the drain task and of the rest of `attach_gate`
(the runtime schedules them and the rate's budget accrues); none for quinn's own
wake-ups, so a parked driver resumes by the drain's doing.  `porch_inbound`: weak
fairness of the reader once it is runnable and of the second half of a delivery.
`doorbell`: weak fairness of each side's own steps, among them that the grace of a
stale path and every bounded wait run out; none for probes being answered, for
leaving or for closing.

## 4. Proofs

Each theorem is proved by TLAPS for every value of the constants that the named
`ASSUME`s allow; TLC evaluates those in the runs.  Where a theorem has the
specification of an `MC` module (`MCRelay`, `MCHouse`), the constants are still
arbitrary: only the `.cfg` gives them values.

| Module | Theorem | States |
|---|---|---|
| `VisitProofs` | `TypeCorrect`, `ChainIsLinked`, `HousesAgree`, `RecordingsAppendOnly` | `TypeOK`, `ChainLinked`, `ChainAgreement`, `AppendOnly` |
| | `RevocationIsFinal`, `OnlyOwnEventsAreDropped` | `RevokedStaysRevoked`, `DropsAreOwn` |
| | `HonestPrefix` | `HostPrefix`, if `MaxStray = 0` |
| | `MembersSpeak`, `MembershipIsDerived` | `OnlyMembersSpeak`, `SameLogSameMembership`, if `Redeliver = FALSE` |
| | `DropsAreNeutral` | `DropsChangeNoVerdict`, under both |
| `StoreProofs` | `StoreKeepsTheVisit`, `DropsAreFinal` | `RowsAreTheVisit`, `DroppedBytesStayGone` |
| | `RestartLosesNothing` | `ReplayGivesMemory`, if nothing that changes membership is redelivered |
| `GateProofs` | `TablesAgree`, `SessionsWereAnswered` | `TableConsistent`, `TargetAgreed` |
| `RelayProofs` | `EgressNeverStalls` | `NoStall` |
| | `RelaysAreOrderedPipes` | `RelaysKeepOrder`: both queues implement `RelayPipe` |
| `PorchProofs` | `SleepersAreWoken`, `SocketSortsItsInput` | `NoLostWake`, `EachHearsItsOwn` |
| `DoorbellProofs` | `DirectPathsAreWatched`, `SidesAgree` | `DirectOnlyWhileWatched`, `BothSidesAgree` |
| `HouseProofs` | `InvitesOpenOnce` | `InviteOpensOnce` |
| | `SlotsNeverLeak`, `StartsFindWaiters` | `SlotsAreVisits`, `StartFindsAWaiter` |
| | `AnnouncesAreHeardOnce`, `GapsAreOwn` | `HeardOnce`, `SilencedOnlyByItself` |
| | `RunsLeaveOneRecord`, `FailuresAreNamed` | `OneRecordPerRun`, `FailureIsNamed` |
| | `TablesAreSound`, `BurstsAreRight` | `TableIsSound`, `ProbingIsRight` |
| | `AnsweringPathsStayLive`, `SilencesAreDetected`, `DeadRelaysAreSeenBack` | `AnsweringPathStaysLive`, `SilenceDetected`, `DeadRelayIsSeenBack` |
| | `LogsKeepTheirOrder` | `LogKeepsItsOrder` |

`RuleProofs` has the lemmas about `RecordingRules` that the visit and the store
share.

### Assumptions

Most say that bounds are naturals, caps are positive and names differ (`None` is
no key, event, connection or knock; the gate, the peer and a stranger have
different addresses; the sweeper is no connection).  The ones with content:

* `DepthAssumption`: an egress queue holds one whole transmit, as
  `HOUSE_RELAY_QUEUE_DEPTH` (100) does.  Without it a driver parks for good.
* `DoorbellAssumption`: the porch frame queue holds at least 4 frames (16 in
  `punch.rs`).  The proof shows why 4: there is never more than one frame of each
  type on its way to a side.
* `GuardAssumption`: what discovery's guard remembers, times the gap between two
  announces of a key, is at least twice the replay window (4096 entries; two
  windows are twelve gaps).
* `PathLifeAssumption`: types and positive schedule constants; the lists a peer
  sends, and what was heard of it, are sequences of addresses, of any length.
* `WatchAssumption`: the peer's pong limiter allows at least one answer for each
  pass in its window (64 for the 50 passes of a second), so it never withholds the
  pong of a watch, which sends one ping a pass at most; and one late pong alone
  makes no path stale (`PROBES_TO_STALE` is 3).
* `BurstAssumption`: a slow interval is no shorter than the limiter's window and
  the limiter answers all 16 candidates in one (64), so that no slow ping goes
  without an answer by the limiter's doing; and after the fast window there is time
  for one slow ping more than a candidate must answer (3 s and 4 s of 10 s).  In the
  fast window the limiter may withhold pongs, and the theorem covers it.
* `HouseAssumption`: types; the log keeps one day at least (7 in `diag.rs`); a
  diagnostics record has room for at least 3 entries (512), so that the fourth step
  of a run against the gate alone is entered; and at most two houses on the LAN.  The last is a limit of the proof:
  the guard is one queue for all friends, and the argument below counts the
  entries of one.

The hypotheses of single theorems.  `MaxStray = 0` is the honest host: `HostPrefix`
and `DropsChangeNoVerdict` are about nothing else.  `Redeliver = FALSE` is needed
because a join delivered again after the leave does admit its person again
(section 6); for the same reason the store's replay gives the memory back only if
no redelivered event changes membership.  All three kinds of instance are checked
by runs as well, so no hypothesis is empty.

### The arguments

*Visit.*  `ChainLinked` is inductive together with `TypeOK`: an admitted event
passed `ChainVerdict`, so its predecessor is held and its prev is that
identifier; if its seq was held already, the identifier is the same and nothing
moves; honouring keeps identifiers.  `ChainAgreement` is inductive given
`ChainLinked`: if two houses hold the same event at n after a step, both held
n - 1 before it (`LinkStep`), the event fixes its prev, so they held the same event
there, and the agreement of the old state reaches down to 0.  The induction over
seqs is carried by the behaviour, one step at a time.  `OnlyMembersSpeak` reads from the log alone who may speak after it (`MaySpeak`): a
listed device by a join that no leave of its person follows; an added one by the
person at the end of the chain of its adders.  It needs that the join records are
the joins of the log, open exactly while their person stays, and that a device in
force is of the person its chain of adders leads to (`MembershipFromLog`); a device
added later than a claim on it changes nothing (`or_insert`), so the first claim
counts.  `SameLogSameMembership` needs the past:
there is a sequence of memberships, one for each seq, that begins empty, follows the
log's events and ends with the house's (`HistoryKept`); an admission extends it by
one, and two histories of one log are equal by a least seq at which they differ.
`DropsAreOwn` is stated over `Lineage`, the least set closed under "was vouched for
by"; the person a device is in force for is of its lineage, so the check that let
the drop-request in makes the two lineages meet (`OwnershipKept`).

*Store.*  Rows and memory are two linked sequences over what was signed
(`Linked`), the rows are behind by at most the event that is being appended
(`MemoryLeads`), tables come before the version and the version before use
(`SchemaOrder`).  For `RestartLosesNothing`, that replaying what memory holds gives its membership is
part of the invariant (`MemoryIsReplay`), and one append extends both by one step;
that the replay is a recursive function, and that replays of equal rows agree, is
shown with least counterexamples (`WFMin`).

*Gate.*  The tables alone are not inductive; the invariant says how far every
teardown is and what it has undone (`TeardownsSound`), that a registration that
has not yet been made left no trace, that what a task answers is addressed to its
key, and that a session has at most one holder for each key.  Then a live session
whose owner is gone has a teardown that is about to end it.

*Relay.*  The refinement mapping takes batch and queue together.  What the steps
need is that a datagram is in one place only, and that the drain's position agrees
with the batch it holds.  `NoStall` rests on the order of `Notify`: a push that
finds the drain about to sleep leaves a permit.

*Porch.*  For `NoLostWake`: between `PollBegin` and its return the waker is stored
or was taken, and then the reader is woken; what comes into the queue after the
call looked has a wake on its way.  For `EachHearsItsOwn` the recursive
`QueueProbes` is handled by the least segment at which a table goes wrong (`WFMin`).

*Doorbell.*  The frames that wait for a side are at most one of each type, in the
order path-up, path-down, candidates, goodbye, and each belongs to the attempt that
the two sides' states say; a side that left its direct path has warned the other,
or the other has moved on.  This gives agreement and the bound on the queue at once.

*House.*  Slots: each visit task charges one slot and one count of its peer, and a
place in its code says which it holds; a Start slot names a waiting visit and
whatever takes it away from its
visit removes it or puts another waiting visit in its place.  Knocks: every answered guest's
seal carries a spent invite and no two the same.  Discovery: what was admitted is
spaced by the gap, so an entry that is m places back was sent m gaps before the
last; a gap is opened by a signed announce, which is in the network from when it was
made (`GapsAre`), and the guard is asked of that same announce at that same time; the guard is the tail of what was admitted; hence what it has forgotten is
outside the window for any two clocks.  Doctor: the record's line count follows
from who closed it; before the doorbell's task runs only the run closes the record
and the record holds a failed step, or the step that succeeds a gate-only run, or
the knock was unsent; a run that cuts its visit short has entered `closed` as failed
before it takes its snapshot.

*Folds.*  The candidate table is built by a fold over the peer's list, pongs are
applied by a fold over a set, and the library has no fact about what a fold
computes.  `FoldExists` shows, by a least number (`LeastNumber`), that the function
the fold is defined by exists; the lemmas after it say what it is on a prefix of the
list or without the element it chose, and a property of the result is then carried
from prefix to prefix.

*Candidate table.*  A table is sound for a set of addresses V that something other
than the peer stands behind (`SoundTable`): whatever is outside the global range is
in V, what is vouched for is in V, no host twice.  Each insertion keeps this, and the
peer's list leaves a table whose hosts include every global host of it before the cap
is reached; discovery is asked after that and only adds.

*Burst.*  `AttemptInv` relates each candidate's streak to the ghost of its last
answers (`StreaksAreAnswers`), says that what is on its way answers a ping of the
past (`PongsOut`) and that candidates are probed together and on schedule
(`BurstInStep`), and bounds the instant of a slow ping by the streak its candidate
has (`SlowCounts`): one that lost nothing and is faster than the slow interval
answers each slow ping before the next, so when the schedule ends it has the answers
it needs, and the burst was won before.

*Watch.*  `WatchInv` says when a live path is probed next and by when an unanswered
ping is counted (`LiveIsTimely`); that on a path that lost nothing and answers in
time each ping is answered before the next, with one miss at most between them
(`Answered`), since the limiter's window has room (`WindowHasRoom`); how far back a
silence can have begun by the misses so far (`SilenceCounted`); and that a dead path
is probed on schedule with the last ping's pong on its way, if the network has not
changed since (`DeadIsProbed`).  The three properties are read off these.

*Log.*  Sizes do not matter, only that a writer's part never goes down within a day:
`LogInv` says that a record is in the file of its day, whole and once; that it is
there while its day is; that an order of acknowledgement of one writer's life is an
order of places; and that a writer is at or past all it has written
(`WriterIsAhead`).  Pruning takes whole days and never today; opening a part adds
an empty file of today, or finds one.  An unreadable record follows a piece without
its newline, and going back one place is injective, which bounds the loss.

### Only model-checked

* Liveness under fairness (`CatchUp`, `DeadAreSwept`, `ParkedResumes`,
  `GateDrains`, `NeitherStarves`, `FallBackIsMutual`, `DeadPathIsRerun`): out of the
  prover's reach.
* The two violations of section 6.

## 5. Plan

Done: all modules of section 2; theorems for every invariant and action property
that a passing run checks.

Left, in this order:

1. Discovery's guard with more than two houses.
2. The clock in `HouseStore`, so that a restart replays a grant that has expired.
3. The views as functions of a recording, against a reference definition.

## 6. Where code and documents part

Shown by runs:

* `store_replay`.  R-49 (`docs/spec/recording.md:590`) shows an honoured
  drop-request "as a marker where the dropped events were".  After a restart the
  drop-request is ingested again, `check_drop_request` wants its target to be a
  live event, the target is a tombstone by now, and the replay of the whole house
  fails.
* `doctor_exit`.  The usage text (`main.rs:567`) promises "Exit: 0 if the run
  reached live".  `exit_for` looks for a failed step only.  A knock that cannot be
  written, the gate having gone after the reflection, returns through a bare `?`
  in `introduce` and fails no step: status 0 with reason `introduce_timeout`.  A
  one-shot run with `--no-punch`, or one whose peer leaves while it probes, also
  exits 0 without `live`.  (`FailureIsNamed` is what does hold.)

Met while modelling, without a run of their own:

* R-18 (`recording.md:274`) says that "whether this house honoured a drop-request
  must not change which events it admits", and section 9 calls such a difference "a
  defect or an attack".  `check_drop_request` (`ingest.rs:670`) wants every target to
  be a live event: a house that honoured one request refuses a second request for
  the same event (`DropRequestTargetNotOwnPerson`), and a house that declined admits
  it.  When the host declined, the house that honoured refuses all that follows as
  well, for want of the predecessor, for good.  A join, a message, and two requests
  to drop it are enough.  `CatchUp` names this case (`Stuck`) and shows that it is
  the only one; `DropsChangeNoVerdict` says that every other body gets one verdict.
* The comment on `ANNOUNCE_REPLAY_WINDOW` (`discovery.rs:86`) has it that "a capture
  is worthless a minute later".  `on_datagram` spends the per-key gap
  (`discovery.rs:693`) before the guard looks at the age (`discovery.rs:696`): an
  announce of any age, repeated, silences its maker for one gap.
  `SilencedOnlyByItself` names this case too; what holds is that only an announce
  the friend signed opens the gap.
* The comment on `RelayWatch` (`punch.rs:1709`) says that it "deliberately does not"
  notice a relay that comes back after dead, and that "probing stops there".
  `due_probe` (`punch.rs:1759`) goes on probing and a pong clears `dead_since`, as
  its own comment says (`punch.rs:1749`).
  `DeadRelayIsSeenBack` states what the code does; the struct's comment is stale.
* R-30 (`recording.md:387`) keeps a person out after a leave until "a later
  `join`".  The same join delivered a second time passes the chain checks and
  `apply_join` (`ingest.rs:582`) opens a new record at the old seq.
  `OnlyMembersSpeak` fails with `Redeliver` set.
* `store.rs:210` takes version 0 for "a freshly created file".  Tables and version
  are separate statements; a crash between them leaves a file that is neither
  fresh nor usable.
* `server.rs:1335` lists the exits of a relay drain and leaves out a failed write
  to the *latest* registration (`server.rs:1370`): with an older one live the
  session stays and nothing drains that direction again.
* `expect_candidates` reads a `Goodbye` or `PathDown` during a rerun as a failed
  exchange, so the visit ends as `peer_handshake_failed`, where `punch.rs:2226`
  says that the peer marks this side dead at once.  A `PathUp` that cannot be
  written returns without settling (`punch.rs:2685`), and a held doctor then
  closes the record as `ok`.  `relay_dead` is not reset by a rerun.
* A watch matches a pong to its latest ping only (`punch.rs:2529`): a round trip
  longer than the probe interval is never counted.  A silent direct path is called
  stale after three loss deadlines and two intervals, 2.5 s with the constants of
  `live.rs`.
* `regather` keeps the caller's list first and truncates: a first list that fills
  the cap leaves no room for the address a machine has moved to.
* `answer_knock` spends an invite before it asks the seen set.  A waiter for a
  Start that is displaced by another of its session removes the new one's slot on
  its timeout.  A visit that waits for candidates or for a Start does not look at
  its control, so at shutdown its peer gets no goodbye.
* A restarted log writer begins at part 0 of the day, so `last_record`
  (`diag.rs:2243`, "the most recent record") can return an older one, read from a
  later part; it also appends one line to a part that is full.  A line that was
  cut swallows the one appended after it.
* An event delivered again after it was dropped is put back in memory, not in the
  file.  `detach_gate` clears the set of drained queues on the ground that every
  drain exits with its gate; an idle one stays, which would matter if a socket were
  attached twice.

## 7. Not modelled

Cryptography and TLS (`identity.rs`, `authed.rs`, sealing in `client.rs`, SQLCipher
keys): external libraries; what they prove is assumed.  CBOR, frame and probe
layouts (`envelope.rs`, `body.rs`, `gate/wire.rs`): pure functions with round-trip
tests.  The views' projections: pure functions of a recording.  The congestion
controller and its epoch (`path.rs`): quinn calls it.  Rate limiters and counters.
The reports and the JSON form of `diag.rs`, the argument parsing of `main.rs`.
`mosschat-door` and `mosschat-tui` are empty at this commit.  `lockext.rs` takes
over a poisoned lock; no modelled handler panics while it holds one.  The VACUUM
after `delete_visit` and `secure_delete` are about bytes in free pages, below the
level of rows.  `Discovery` is modelled though nothing outside its module calls it
yet; `AddressCache::answered` and `PeerLiveness::on_goodbye`, which only tests
call, are not.
