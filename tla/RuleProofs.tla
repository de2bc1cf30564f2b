----------------------------- MODULE RuleProofs -----------------------------
(***************************************************************************)
(* Facts about one recording (RecordingRules): what ingesting an event and *)
(* honouring a drop-request change.  The proofs about the modules that     *)
(* keep recordings share them.                                             *)
(***************************************************************************)
EXTENDS RecordingRules, WellFoundedInduction, TLAPS

\* Admitting an event passes the chain checks, of a recording not broken (R-13).
LEMMA AdmitsOnlyLinked ==
  ASSUME NEW r, NEW e \in Event, NEW t, Verdict(r, e, t) = "ok"
  PROVE  /\ ~r.broken
         /\ e.form = "valid"
         /\ e.seq \in Held(r) => r.slots[e.seq].id = e.id
         /\ e.seq > 0 => e.seq - 1 \in Held(r)
         /\ e.prev = ExpectedPrev(r, e.seq)
BY DEF Verdict, ChainVerdict, Event, Form

\* An event is admitted when every check passes (the order of Recording::ingest).
LEMMA EveryCheckPasses ==
  ASSUME NEW r, NEW e \in Event, NEW t, Verdict(r, e, t) = "ok"
  PROVE  AuthorVerdict(r, e, t) = "ok" /\ BodyVerdict(r, e) = "ok"
BY DEF Verdict, Event, Form

\* The effect of a body leaves the slots and the broken mark alone and keeps the
\* revoked keys; the result is a recording again.
LEMMA ApplyBodyType ==
  ASSUME NEW Seqs, NEW r, IsRecording(r, Seqs), NEW e \in Event
  PROVE  /\ IsRecording(ApplyBody(r, e), Seqs)
         /\ ApplyBody(r, e).slots = r.slots
         /\ ApplyBody(r, e).broken = r.broken
         /\ r.revoked \subseteq ApplyBody(r, e).revoked
<1> DEFINE b == e.body
<1>0. e.author \in Key /\ e.seq \in Nat /\ b \in Body
  BY DEF Event
<1>1. CASE b.type = "join"
  <2>1. b.person \in Key /\ b.devices \in SUBSET Key
    BY <1>0, <1>1 DEF Body, MessageBody, ReactionBody, PlainBody, JoinBody, LeaveBody,
       DeviceAddBody, DeviceRevokeBody, DropBody
  <2>2. OrInsert(r.inForce, b.devices, b.person) \in [Key -> Key \cup {None}]
    BY <2>1 DEF OrInsert, IsRecording
  <2>3. [person |-> b.person, seq |-> e.seq, devices |-> b.devices, leftAt |-> None]
          \in JoinRecord
    BY <1>0, <2>1 DEF JoinRecord
  <2>4. ApplyBody(r, e) = ApplyJoin(r, e)
    BY <1>1 DEF ApplyBody
  <2>5. ApplyBody(r, e) =
          [slots |-> r.slots,
           joins |-> r.joins \cup {[person |-> b.person, seq |-> e.seq,
                                    devices |-> b.devices, leftAt |-> None]},
           revoked |-> r.revoked, inForce |-> OrInsert(r.inForce, b.devices, b.person),
           windows |-> r.windows, broken |-> r.broken]
    BY <2>4 DEF ApplyJoin, IsRecording
  <2> QED
    BY <2>2, <2>3, <2>5 DEF IsRecording
<1>2. CASE b.type = "leave"
  <2>1. ApplyBody(r, e) = ApplyLeave(r, e)
    BY <1>2 DEF ApplyBody
  <2>2. \A j \in JoinRecord : [j EXCEPT !.leftAt = e.seq] \in JoinRecord
    BY <1>0 DEF JoinRecord
  <2> DEFINE closing == OpenJoinsBelow(r, b.person, e.seq)
             closed  == { [j EXCEPT !.leftAt = e.seq] : j \in closing }
  <2>3. closing \subseteq JoinRecord /\ closed \subseteq JoinRecord
    BY <2>2 DEF IsRecording, OpenJoinsBelow
  <2>4. ApplyBody(r, e) =
          [slots |-> r.slots, joins |-> (r.joins \ closing) \cup closed,
           revoked |-> r.revoked, inForce |-> r.inForce,
           windows |-> r.windows, broken |-> r.broken]
    BY <2>1 DEF ApplyLeave, IsRecording
  <2> HIDE DEF closing, closed
  <2> QED
    BY <2>3, <2>4 DEF IsRecording
<1>3. CASE b.type = "deviceAdd"
  <2>1. b.device \in Key /\ b.window \in Window
    BY <1>0, <1>3 DEF Body, MessageBody, ReactionBody, PlainBody, JoinBody, LeaveBody,
       DeviceAddBody, DeviceRevokeBody, DropBody
  <2>2. PersonOf(r, e.author) \in Key
    BY <1>0 DEF PersonOf, IsRecording
  <2>3. OrInsert(r.inForce, {b.device}, PersonOf(r, e.author)) \in [Key -> Key \cup {None}]
    BY <2>2 DEF OrInsert, IsRecording
  <2>4. [r.windows EXCEPT ![b.device] = b.window] \in [Key -> Window \cup {None}]
    BY <2>1 DEF IsRecording
  <2>5. ApplyBody(r, e) = ApplyDeviceAdd(r, e)
    BY <1>3 DEF ApplyBody
  <2> QED
    BY <2>3, <2>4, <2>5 DEF ApplyDeviceAdd, IsRecording
<1>4. CASE b.type = "deviceRevoke"
  <2>1. b.device \in Key
    BY <1>0, <1>4 DEF Body, MessageBody, ReactionBody, PlainBody, JoinBody, LeaveBody,
       DeviceAddBody, DeviceRevokeBody, DropBody
  <2>2. [r.inForce EXCEPT ![b.device] = None] \in [Key -> Key \cup {None}]
    BY DEF IsRecording
  <2>3. ApplyBody(r, e) = ApplyDeviceRevoke(r, e)
    BY <1>4 DEF ApplyBody
  <2>4. ApplyBody(r, e) =
          [slots |-> r.slots, joins |-> r.joins, revoked |-> r.revoked \cup {b.device},
           inForce |-> [r.inForce EXCEPT ![b.device] = None],
           windows |-> r.windows, broken |-> r.broken]
    BY <2>3 DEF ApplyDeviceRevoke, IsRecording
  <2> QED
    BY <2>1, <2>2, <2>4 DEF IsRecording
<1>5. CASE b.type \notin {"join", "leave", "deviceAdd", "deviceRevoke"}
  <2>1. ApplyBody(r, e) = r
    BY <1>5 DEF ApplyBody
  <2> QED
    BY <2>1
<1> QED
  BY <1>1, <1>2, <1>3, <1>4, <1>5

\* What a body does to the revoked keys and to the joins, to the devices in force
\* and to their windows.
JoinsAfter(r, e) ==
  CASE e.body.type = "join"  -> r.joins \cup {[person |-> e.body.person, seq |-> e.seq,
                                               devices |-> e.body.devices, leftAt |-> None]}
    [] e.body.type = "leave" ->
         (r.joins \ OpenJoinsBelow(r, e.body.person, e.seq))
           \cup { [j EXCEPT !.leftAt = e.seq] : j \in OpenJoinsBelow(r, e.body.person, e.seq) }
    [] OTHER -> r.joins

RevokedAfter(r, e) ==
  IF e.body.type = "deviceRevoke" THEN r.revoked \cup {e.body.device} ELSE r.revoked

InForceAfter(r, e) ==
  CASE e.body.type = "join"         -> OrInsert(r.inForce, e.body.devices, e.body.person)
    [] e.body.type = "deviceAdd"    -> OrInsert(r.inForce, {e.body.device}, PersonOf(r, e.author))
    [] e.body.type = "deviceRevoke" -> [r.inForce EXCEPT ![e.body.device] = None]
    [] OTHER -> r.inForce

WindowsAfter(r, e) ==
  IF e.body.type = "deviceAdd" THEN [r.windows EXCEPT ![e.body.device] = e.body.window]
  ELSE r.windows

LEMMA ApplyBodyMembers ==
  ASSUME NEW Seqs, NEW r, IsRecording(r, Seqs), NEW e
  PROVE  /\ ApplyBody(r, e).joins = JoinsAfter(r, e)
         /\ ApplyBody(r, e).revoked = RevokedAfter(r, e)
         /\ ApplyBody(r, e).inForce = InForceAfter(r, e)
         /\ ApplyBody(r, e).windows = WindowsAfter(r, e)
<1> USE DEF ApplyBody, JoinsAfter, RevokedAfter, InForceAfter, WindowsAfter, IsRecording
<1>1. CASE e.body.type = "join"
  BY <1>1 DEF ApplyJoin
<1>2. CASE e.body.type = "leave"
  BY <1>2 DEF ApplyLeave
<1>3. CASE e.body.type = "deviceAdd"
  BY <1>3 DEF ApplyDeviceAdd
<1>4. CASE e.body.type = "deviceRevoke"
  BY <1>4 DEF ApplyDeviceRevoke
<1>5. CASE e.body.type \notin {"join", "leave", "deviceAdd", "deviceRevoke"}
  BY <1>5
<1> QED
  BY <1>1, <1>2, <1>3, <1>4, <1>5

\* Recording::ingest keeps the shape of a recording; it leaves the slots alone, or
\* it puts an admitted event at its seq; a broken recording it leaves as it is.
LEMMA IngestEffect ==
  ASSUME NEW Seqs, NEW r, IsRecording(r, Seqs), NEW e \in Event, e.seq \in Seqs, NEW t
  PROVE  /\ IsRecording(Ingest(r, e, t), Seqs)
         /\ r.revoked \subseteq Ingest(r, e, t).revoked
         /\ r.broken => Ingest(r, e, t) = r
         /\ \/ Ingest(r, e, t).slots = r.slots
            \/ /\ Verdict(r, e, t) = "ok"
               /\ Ingest(r, e, t).slots = PutSlot(r.slots, e.seq, [id |-> e.id, ev |-> e])
<1> DEFINE q == ApplyBody(r, e)
           s == [id |-> e.id, ev |-> e]
<1>1. CASE Verdict(r, e, t) = "ok"
  <2>1. Ingest(r, e, t) = Admit(r, e)
    BY <1>1 DEF Ingest
  <2>2. /\ IsRecording(q, Seqs)
        /\ q.slots = r.slots
        /\ q.broken = r.broken
        /\ r.revoked \subseteq q.revoked
    BY ApplyBodyType
  <2> HIDE DEF q
  <2>3. Admit(r, e) = [q EXCEPT !.slots = PutSlot(r.slots, e.seq, s)]
    BY <2>2 DEF Admit, q
  <2>4. Admit(r, e) = [slots |-> PutSlot(r.slots, e.seq, s), joins |-> q.joins,
                       revoked |-> q.revoked, inForce |-> q.inForce,
                       windows |-> q.windows, broken |-> q.broken]
    BY <2>2, <2>3 DEF IsRecording
  <2>5. s \in Slot
    BY DEF Slot, Event
  <2>6. /\ DOMAIN PutSlot(r.slots, e.seq, s) \subseteq Seqs
        /\ PutSlot(r.slots, e.seq, s)
             = [n \in DOMAIN PutSlot(r.slots, e.seq, s) |-> PutSlot(r.slots, e.seq, s)[n]]
        /\ \A n \in DOMAIN PutSlot(r.slots, e.seq, s) : PutSlot(r.slots, e.seq, s)[n] \in Slot
    BY <2>5 DEF PutSlot, IsRecording
  <2>7. IsRecording(Admit(r, e), Seqs)
    BY <2>2, <2>4, <2>6 DEF IsRecording
  <2>8. ~r.broken
    BY <1>1, AdmitsOnlyLinked
  <2> QED
    BY <1>1, <2>1, <2>2, <2>4, <2>7, <2>8
<1>2. CASE Verdict(r, e, t) = "Broken"
  <2>1. Ingest(r, e, t) = MarkBroken(r)
    BY <1>2 DEF Ingest
  <2>0. ASSUME NEW v
        PROVE  [r EXCEPT !.broken = v] =
                 [slots |-> r.slots, joins |-> r.joins, revoked |-> r.revoked,
                  inForce |-> r.inForce, windows |-> r.windows, broken |-> v]
    BY DEF IsRecording
  <2>2. MarkBroken(r) = [slots |-> r.slots, joins |-> r.joins, revoked |-> r.revoked,
                         inForce |-> r.inForce, windows |-> r.windows, broken |-> TRUE]
    BY <2>0, Zenon DEF MarkBroken
  <2>3. ~r.broken
    BY <1>2 DEF Verdict
  <2> QED
    BY <2>1, <2>2, <2>3 DEF IsRecording
<1>3. CASE Verdict(r, e, t) \notin {"ok", "Broken"}
  <2>1. Ingest(r, e, t) = r
    BY <1>3 DEF Ingest
  <2> QED
    BY <2>1
<1> QED
  BY <1>1, <1>2, <1>3

\* Honouring a drop-request keeps the identifier at every held seq.
LEMMA HonourEffect ==
  ASSUME NEW Seqs, NEW r, IsRecording(r, Seqs), NEW n
  PROVE  /\ IsRecording(HonourDropRequest(r, n), Seqs)
         /\ HonourDropRequest(r, n).revoked = r.revoked
         /\ HonourDropRequest(r, n).broken = r.broken
         /\ Held(HonourDropRequest(r, n)) = Held(r)
         /\ \A m \in Held(r) : HonourDropRequest(r, n).slots[m].id = r.slots[m].id
<1> DEFINE T == DropTargets(r, n)
           f == [m \in Held(r) |->
                   IF m \in T THEN [r.slots[m] EXCEPT !.ev = None] ELSE r.slots[m]]
<1>1. HonourDropRequest(r, n) =
        [slots |-> f, joins |-> r.joins, revoked |-> r.revoked, inForce |-> r.inForce,
         windows |-> r.windows, broken |-> r.broken]
  BY DEF HonourDropRequest, IsRecording
<1>2. \A s \in Slot : [s EXCEPT !.ev = None] \in Slot /\ [s EXCEPT !.ev = None].id = s.id
  BY DEF Slot
<1> HIDE DEF T
<1>3. /\ DOMAIN f = DOMAIN r.slots
      /\ f = [m \in DOMAIN f |-> f[m]]
      /\ \A m \in DOMAIN f : f[m] \in Slot /\ f[m].id = r.slots[m].id
  BY <1>2 DEF IsRecording, Held
<1> HIDE DEF f
<1> QED
  BY <1>1, <1>3 DEF IsRecording, Held

-----------------------------------------------------------------------------
(* The chain.                                                              *)

USE DEF Held

\* Every identifier held in r is held in q at the same seq.
Keeps(r, q) == \A n \in Held(r) : n \in Held(q) /\ q.slots[n].id = r.slots[n].id

\* q holds what r holds and, at its end, the event e.
Extends(r, q, e) ==
  /\ Held(q) = Held(r) \cup {e.seq}
  /\ q.slots[e.seq].id = e.id
  /\ e.seq > 0 => e.seq - 1 \in Held(r)
  /\ e.prev = ExpectedPrev(r, e.seq)
  /\ ~r.broken

\* Recording::ingest keeps every identifier and adds at most the event offered.
LEMMA IngestChain ==
  ASSUME NEW S, NEW r, IsRecording(r, S), NEW e \in Event, e.seq \in S, NEW t
  PROVE  /\ Keeps(r, Ingest(r, e, t))
         /\ r.revoked \subseteq Ingest(r, e, t).revoked
         /\ Held(Ingest(r, e, t)) = Held(r) \/ Extends(r, Ingest(r, e, t), e)
<1> DEFINE q == Ingest(r, e, t)
           s == [id |-> e.id, ev |-> e]
<1>0. r.revoked \subseteq q.revoked
  BY IngestEffect
<1>1. CASE q.slots = r.slots
  BY <1>0, <1>1 DEF Keeps
<1>2. CASE Verdict(r, e, t) = "ok" /\ q.slots = PutSlot(r.slots, e.seq, s)
  <2>1. DOMAIN q.slots = DOMAIN r.slots \cup {e.seq} /\ q.slots[e.seq] = s
    BY <1>2 DEF PutSlot
  <2>2. \A n \in DOMAIN r.slots : n # e.seq => q.slots[n] = r.slots[n]
    BY <1>2 DEF PutSlot
  <2>3. e.seq \in DOMAIN r.slots => r.slots[e.seq].id = e.id
    BY <1>2, AdmitsOnlyLinked
  <2>4. Keeps(r, q)
    BY <2>1, <2>2, <2>3 DEF Keeps
  <2>5. Extends(r, q, e)
    BY <1>2, <2>1, AdmitsOnlyLinked DEF Extends
  <2> QED
    BY <1>0, <2>4, <2>5
<1> QED
  BY <1>1, <1>2, IngestEffect

\* The slots that Recording::ingest leaves: an admitted event is put at its seq,
\* and an event that is refused changes none.
LEMMA IngestSlots ==
  ASSUME NEW S, NEW r, IsRecording(r, S), NEW e \in Event, NEW t
  PROVE  Ingest(r, e, t).slots =
           IF Verdict(r, e, t) = "ok" THEN PutSlot(r.slots, e.seq, [id |-> e.id, ev |-> e])
           ELSE r.slots
<1> DEFINE q == ApplyBody(r, e)
<1>1. q.slots = r.slots /\ IsRecording(q, S)
  BY ApplyBodyType
<1>2. Admit(r, e).slots = PutSlot(q.slots, e.seq, [id |-> e.id, ev |-> e])
  BY <1>1 DEF Admit, IsRecording
<1>3. MarkBroken(r).slots = r.slots
  BY DEF MarkBroken, IsRecording
<1> QED
  BY <1>1, <1>2, <1>3 DEF Ingest

\* Recording::ingest leaves a broken recording as it is (AlreadyBroken).
LEMMA BrokenIsFinal ==
  ASSUME NEW r, NEW e, NEW t, r.broken
  PROVE  Ingest(r, e, t) = r
BY DEF Ingest, Verdict

-----------------------------------------------------------------------------
(* Sequence numbers.                                                       *)

\* A set of naturals that is not empty has a least member.
LEMMA LeastNumber ==
  ASSUME NEW S \in SUBSET Nat, S # {}
  PROVE  \E m \in S : \A n \in S : m <= n
<1> DEFINE R == OpToRel(<, Nat)
<1>1. \A x, y \in Nat : x < y => <<x, y>> \in R
  BY DEF OpToRel
<1>2. IsWellFoundedOn(R, Nat)
  BY NatLessThanWellFounded
<1> HIDE DEF R
<1>3. PICK m \in S : \A n \in S : ~(<<n, m>> \in R)
  BY <1>2, WFMin, Zenon
<1>4. ASSUME NEW n \in S PROVE m <= n
  <2>1. m \in Nat /\ n \in Nat
    OBVIOUS
  <2>2. ~(n < m)
    BY <1>1, <1>3, <2>1
  <2> QED
    BY <2>1, <2>2
<1> QED
  BY <1>3, <1>4

\* A set of naturals without a gap has nothing above what it does not have.
LEMMA NoneAbove ==
  ASSUME NEW S \in SUBSET Nat, \A n \in S : n > 0 => n - 1 \in S, NEW k \in Nat, k \notin S
  PROVE  \A n \in S : n < k
<1> SUFFICES ASSUME NEW n \in S, ~(n < k) PROVE FALSE
  OBVIOUS
<1> DEFINE Over == { m \in S : m > k }
<1>0. n \in Nat /\ n # k
  OBVIOUS
<1>1. Over \in SUBSET Nat /\ n \in Over
  <2>1. n > k
    BY <1>0
  <2> QED
    BY <2>1
<1>2. PICK m \in Over : \A j \in Over : m <= j
  BY <1>1, LeastNumber
<1>3. m \in Nat /\ m > k /\ m \in S
  BY <1>1
<1>4. m - 1 \in S /\ m - 1 # k
  BY <1>3
<1>5. m - 1 > k
  BY <1>3, <1>4
<1> QED
  BY <1>2, <1>3, <1>4, <1>5
=============================================================================
