---------------------------- MODULE SharedVisit -----------------------------
(***************************************************************************)
(* One visit as the houses that take part record it.  Each house runs its  *)
(* own Recording (RecordingRules); nothing is shared but the signed events *)
(* in circulation.  The host's house assigns seq and prev and admits each  *)
(* event to its own recording first; every other house is offered events   *)
(* in any order, late, and more than once, each with the clock of the      *)
(* moment.  Any house may honour any drop-request it holds.  A misbehaving *)
(* party is modelled by Stray: an event that verifies but was not          *)
(* sequenced by the host (an equivocation, a guess at a seq, an event of   *)
(* another visit, bytes that do not parse).                                *)
(*                                                                         *)
(* The exchange that carries events between houses is not implemented in   *)
(* the repository yet; HostSequence, Stray and Tick are the environment    *)
(* that docs/spec/recording.md section 4 describes for it.                 *)
(***************************************************************************)
EXTENDS RecordingRules, Sequences, FiniteSets

CONSTANTS
  House,        \* the machines that keep a recording of the visit
  HostHouse,    \* the one that assigns seq
  Person,       \* identity keys the host may admit
  DeviceSets,   \* the device lists the host may put in a join
  BodyTypes,    \* the body types authors use
  Windows,      \* the validity windows a device-add may carry
  MaxEvents,    \* bound on the seqs the host assigns
  MaxStray,     \* bound on the events the host did not sequence
  StrayShapes,  \* what parsing them gives: a form and a visit
  MaxTime,      \* bound on the clock
  Redeliver     \* TRUE: a house may be offered an event it already holds

ASSUME HouseAssumption == HostHouse \in House
ASSUME PersonAssumption == Person \subseteq Key /\ DeviceSets \subseteq SUBSET Key
ASSUME WindowsAssumption == Windows \subseteq Window
ASSUME ShapeAssumption == StrayShapes \subseteq [form : Form, visit : Visit]
ASSUME BoundAssumption ==
  MaxEvents \in Nat /\ MaxStray \in Nat /\ MaxTime \in Nat /\ Redeliver \in BOOLEAN

VARIABLES
  rec,     \* the recording of each house
  minted,  \* every event signed so far; the identifier of an event is its index
  stray,   \* how many of them the host did not sequence
  now      \* the clock that Recording::ingest is given

vars == <<rec, minted, stray, now>>

Ids == DOMAIN minted
NextId == Len(minted) + 1

HostPrev(seq) == ExpectedPrev(rec[HostHouse], seq)

\* The bodies an author may write: references name events in circulation.
Bodies ==
  { b \in [type : {"message"}, replyTo : Ids \cup {None}]
            \cup [type : {"reaction"}, target : Ids]
            \cup [type : {"attachment", "unknown"}]
            \cup { j \in [type : {"join"}, person : Person, devices : DeviceSets] :
                     j.person \in j.devices }
            \cup [type : {"leave"}, person : Person]
            \cup [type : {"deviceAdd"}, device : Key, window : Windows]
            \cup [type : {"deviceRevoke"}, device : Key]
            \cup [type : {"dropRequest"}, scope : {"visit"}]
            \cup [type : {"dropRequest"}, scope : {"events"}, targets : { {i} : i \in Ids }]
    : b.type \in BodyTypes }

-----------------------------------------------------------------------------
Init ==
  /\ rec = [h \in House |-> EmptyRecording]
  /\ minted = <<>>
  /\ stray = 0
  /\ now = 0

\* The host assigns the next seq and prev, the author signs, and the host's own
\* house admits the event; only then is it sent to anybody (environment).
HostSequence(author, seq, body) ==
  LET e == [id |-> NextId, form |-> "valid", visit |-> This, author |-> author,
            seq |-> seq, prev |-> HostPrev(seq), body |-> body]
  IN /\ seq \notin Held(rec[HostHouse])
     /\ seq > 0 => seq - 1 \in Held(rec[HostHouse])
     /\ Verdict(rec[HostHouse], e, now) = "ok"
     /\ minted' = Append(minted, e)
     /\ rec' = [rec EXCEPT ![HostHouse] = Ingest(@, e, now)]
     /\ UNCHANGED <<stray, now>>

\* An event signed outside the host's sequence (environment).
Stray(shape, author, seq, prev, body) ==
  /\ stray < MaxStray
  /\ minted' = Append(minted, [id |-> NextId, form |-> shape.form, visit |-> shape.visit,
                               author |-> author, seq |-> seq, prev |-> prev,
                               body |-> body])
  /\ stray' = stray + 1
  /\ UNCHANGED <<rec, now>>

\* A house is offered an event: Recording::ingest.
Deliver(h, e) ==
  /\ Redeliver \/ e.id \notin HeldIds(rec[h])
  /\ rec' = [rec EXCEPT ![h] = Ingest(@, e, now)]
  /\ UNCHANGED <<minted, stray, now>>

\* A house honours the drop-request it holds at n: Recording::honour_drop_request.
Honour(h, n) ==
  /\ Honourable(rec[h], n)
  /\ rec' = [rec EXCEPT ![h] = HonourDropRequest(@, n)]
  /\ UNCHANGED <<minted, stray, now>>

Tick ==
  /\ now < MaxTime
  /\ now' = now + 1
  /\ UNCHANGED <<rec, minted, stray>>

Next ==
  \/ \E a \in Key : \E n \in 0..MaxEvents-1 : \E b \in Bodies : HostSequence(a, n, b)
  \/ \E s \in StrayShapes : \E a \in Key : \E n \in 0..MaxEvents-1 :
       \E p \in Ids \cup {ZeroId} : \E b \in Bodies : Stray(s, a, n, p, b)
  \/ \E h \in House : \E i \in Ids : Deliver(h, minted[i])
  \/ \E h \in House : \E n \in Held(rec[h]) : Honour(h, n)
  \/ Tick

Spec == Init /\ [][Next]_vars
-----------------------------------------------------------------------------
(* What the recordings promise.  The log of a house is read through the    *)
(* identifiers it holds, so that a property speaks of dropped events too.  *)

IdAt(h, n) == rec[h].slots[n].id
EventAt(h, n) == minted[IdAt(h, n)]

SameLog(g, h) ==
  /\ Held(rec[g]) = Held(rec[h])
  /\ \A n \in Held(rec[g]) : IdAt(g, n) = IdAt(h, n)

\* Every variable has its type (Recording's fields, ingest.rs:207).
TypeOK ==
  /\ rec = [h \in House |-> rec[h]]
  /\ \A h \in House : IsRecording(rec[h], 0..MaxEvents-1)
  /\ minted \in Seq(Event)
  /\ \A i \in Ids : minted[i].id = i /\ minted[i].seq \in 0..MaxEvents-1
  /\ stray \in 0..MaxStray
  /\ now \in 0..MaxTime

\* R-13 through drops and redeliveries, whatever is offered in whatever order:
\* what a house holds has no gap, each event sits at the seq it was signed for,
\* and its prev is the identifier held at seq - 1, tombstoned or not.
ChainLinked ==
  \A h \in House : \A n \in Held(rec[h]) :
    /\ n > 0 => n - 1 \in Held(rec[h])
    /\ IdAt(h, n) \in Ids
    /\ EventAt(h, n).seq = n
    /\ EventAt(h, n).prev = ExpectedPrev(rec[h], n)

\* The chain makes a claimed order verifiable: two houses that hold the same
\* event at a seq hold the same events at every lower seq, even when the host
\* equivocates, events are duplicated and either house has honoured drops.
ChainAgreement ==
  \A g, h \in House : \A n \in Held(rec[g]) \cap Held(rec[h]) :
    IdAt(g, n) = IdAt(h, n) =>
      \A m \in 0..n : m \in Held(rec[g]) \cap Held(rec[h]) /\ IdAt(g, m) = IdAt(h, m)

\* A held identifier is never lost or replaced, a broken recording admits
\* nothing more and stays broken, and a revocation once seen is kept (R-13, R-37).
AppendOnly ==
  [][\A h \in House :
       /\ \A n \in Held(rec[h]) : n \in Held(rec'[h]) /\ rec'[h].slots[n].id = IdAt(h, n)
       /\ rec[h].broken => rec'[h].broken /\ Held(rec'[h]) = Held(rec[h])
       /\ rec[h].revoked \subseteq rec'[h].revoked]_vars

\* Section 9: with an honest host every recording is a prefix of the host's
\* sequence, and no house is told that its visit is broken.
HostPrefix ==
  \A h \in House :
    /\ ~rec[h].broken
    /\ \A n \in Held(rec[h]) : n \in Held(rec[HostHouse]) /\ IdAt(h, n) = IdAt(HostHouse, n)

\* Houses that hold the same log have derived the same membership from it: the
\* open joins, the revoked keys, the devices in force and their windows do not
\* depend on when or in which attempt an event was admitted, nor on drops.
SameLogSameMembership ==
  \A g, h \in House :
    SameLog(g, h) =>
      /\ rec[g].joins = rec[h].joins
      /\ rec[g].revoked = rec[h].revoked
      /\ rec[g].inForce = rec[h].inForce
      /\ rec[g].windows = rec[h].windows

\* The log of a house, and what of it lies below a seq.
Log(h) == [n \in Held(rec[h]) |-> EventAt(h, n)]
Below(L, n) == [m \in { i \in DOMAIN L : i < n } |-> L[m]]

\* The event claims the key for a person: a join that lists it, or a device-add.
Claims(e, k) ==
  \/ e.body.type = "join" /\ k \in e.body.devices
  \/ e.body.type = "deviceAdd" /\ e.body.device = k

FirstClaim(L, m, k) == Claims(L[m], k) /\ \A i \in DOMAIN L : i < m => ~Claims(L[i], k)

\* With a device whose first claim in the log is a device-add, S has its author.
WithAdders(L, S) ==
  \A m \in DOMAIN L : \A k \in S :
    L[m].body.type = "deviceAdd" /\ FirstClaim(L, m, k) => L[m].author \in S

\* Device k is person p's: the chain of k, the device that added it, the one that
\* added that, and so on (the least S), ends at a device that a join of p let in.
DeviceOf(L, k, p) ==
  \A S \in SUBSET Key : k \in S /\ WithAdders(L, S) =>
    \E m \in DOMAIN L : \E u \in S :
      L[m].body.type = "join" /\ L[m].body.person = p /\ FirstClaim(L, m, u)

\* The person of the join at m has not left since.
Stays(L, m) ==
  \A k \in DOMAIN L : m < k /\ L[k].body.type = "leave" => L[k].body.person # L[m].body.person

JoinsOfKey(L, k) == { m \in DOMAIN L : L[m].body.type = "join" /\ k \in L[m].body.devices }

\* After log L device k may speak: a join that lists it is open, or, listed by
\* none, it was added to a person one of whose joins is open.
MaySpeak(L, k) ==
  IF JoinsOfKey(L, k) # {} THEN \E m \in JoinsOfKey(L, k) : Stays(L, m)
  ELSE \E m \in DOMAIN L :
         L[m].body.type = "join" /\ Stays(L, m) /\ DeviceOf(L, k, L[m].body.person)

\* R-27 and R-30, read off the log: whoever authors an event other than a join or
\* a leave is a listed device whose person has not left, or one that was added,
\* over however many device-adds, to a person who has not left.
NobodySpeaksAfterLeaving ==
  \A h \in House : \A n \in Held(rec[h]) :
    EventAt(h, n).body.type \notin {"join", "leave"} =>
      MaySpeak(Below(Log(h), n), EventAt(h, n).author)

\* R-37 and R-38, read off the log: above a device-revoke the revoked device
\* authors nothing and is never added again.
RevokedStaysRevoked ==
  \A h \in House : \A n \in Held(rec[h]) : \A m \in 0..n-1 :
    EventAt(h, m).body.type = "deviceRevoke" =>
      LET d == EventAt(h, m).body.device IN
        /\ EventAt(h, n).author # d
        /\ EventAt(h, n).body.type = "deviceAdd" => EventAt(h, n).body.device # d

\* Who speaks in a recording was let in, has not left and is not revoked, whatever
\* the order in which membership and devices changed.
OnlyMembersSpeak == NobodySpeaksAfterLeaving /\ RevokedStaysRevoked

\* The event the host might sequence next, as a house with its log would see it.
Candidate(h, author, body) ==
  LET n == Cardinality(Held(rec[h]))
  IN [id |-> NextId, form |-> "valid", visit |-> This, author |-> author, seq |-> n,
      prev |-> ExpectedPrev(rec[h], n), body |-> body]

SameVerdict(g, h, b) ==
  \A a \in Key :
    Verdict(rec[g], Candidate(g, a, b), now) = Verdict(rec[h], Candidate(h, a, b), now)

\* R-18 and R-19: a house that honoured a drop-request admits exactly the events
\* that a house with the same log which declined admits, drop-requests aside: a
\* second request for what was dropped is refused where it was (AsksAgain).
DropsChangeNoVerdict ==
  \A g, h \in House : SameLog(g, h) =>
    \A b \in Bodies : b.type # "dropRequest" => SameVerdict(g, h, b)

\* Who vouched for a device in the log of h: the persons whose joins list it and
\* the devices that added it.
Vouchers(h, k) ==
  {k} \cup { EventAt(h, n).author : n \in { m \in Held(rec[h]) :
               EventAt(h, m).body.type = "deviceAdd" /\ EventAt(h, m).body.device = k } }
      \cup { EventAt(h, n).body.person : n \in { m \in Held(rec[h]) :
               EventAt(h, m).body.type = "join" /\ k \in EventAt(h, m).body.devices } }

\* They, who vouched for them, and so on: the least set with k and the vouchers of
\* its members.
Vouched(h, S) == \A u \in S : Vouchers(h, u) \subseteq S
Lineage(h, k) == { v \in Key : \A S \in SUBSET Key : k \in S /\ Vouched(h, S) => v \in S }

\* R-40: a live event that a step drops is one that a held drop-request covers,
\* and one that names targets was made by a device of the dropped event's person.
DropsAreOwn ==
  [][\A h \in House : \A n \in Held(rec[h]) :
       (Live(rec[h].slots[n]) /\ ~Live(rec'[h].slots[n])) =>
         \E m \in Held(rec[h]) :
           LET q == EventAt(h, m) IN
           /\ q.body.type = "dropRequest"
           /\ \/ q.body.scope = "visit"
              \/ /\ IdAt(h, n) \in q.body.targets
                 /\ Lineage(h, q.author) \cap Lineage(h, EventAt(h, n).author) # {}]_vars

\* The event asks to drop what this house has dropped already: OwnLiveEvent finds
\* a tombstone and refuses it for good, where the host, which declined, did not.
AsksAgain(h, e) ==
  /\ e.body.type = "dropRequest" /\ e.body.scope = "events"
  /\ \E n \in Held(rec[h]) : IdAt(h, n) \in e.body.targets /\ ~Live(rec[h].slots[n])

\* The next event of the host's sequence that h does not hold.
NextFor(h, i) ==
  /\ i \in HeldIds(rec[HostHouse])
  /\ minted[i].seq \notin Held(rec[h])
  /\ minted[i].seq > 0 => minted[i].seq - 1 \in Held(rec[h])

\* Section 9: a house sent the next event of the host's sequence admits it, so a
\* guest that catches up ends on the prefix it would have held anyway; a second
\* request for what it has dropped is the one event it refuses.
ReplayCompletes ==
  \A h \in House : \A i \in Ids :
    NextFor(h, i) => Verdict(rec[h], minted[i], now) = "ok" \/ AsksAgain(h, minted[i])

\* A house that stands before such a request gets no further.
Stuck(h) == \E i \in Ids : NextFor(h, i) /\ AsksAgain(h, minted[i])

\* A caller that keeps offering what a house does not hold (PredecessorMissing
\* is retryable, ingest.rs:124) brings it level with the host.
Retry(h, i) == i \in Ids /\ Deliver(h, minted[i])

FairSpec ==
  Spec /\ \A h \in House : \A i \in 1..MaxEvents : WF_vars(Retry(h, i))

\* Every event the host holds reaches every house that is not stuck before a second
\* request for what it dropped, and no house comes to another refusal on the way.
CatchUp ==
  /\ ~<>(~ReplayCompletes)
  /\ \A h \in House : \A i \in 1..MaxEvents :
       i \in HeldIds(rec[HostHouse]) ~> (i \in HeldIds(rec[h]) \/ Stuck(h))
=============================================================================
