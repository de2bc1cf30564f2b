--------------------------- MODULE RecordingRules ---------------------------
(***************************************************************************)
(* The ingest rules of one recording: the in-memory state machine          *)
(* `Recording` of crates/mosschat-core/src/event/ingest.rs, as operators   *)
(* that take a recording (a record) and return a verdict or the recording  *)
(* that results.  The modules that use it hold recordings as variables.    *)
(*                                                                         *)
(* Data is abstracted to what the rules tell apart.  A key (an identity    *)
(* key or a device key: the code compares both as the same 32 bytes) is a  *)
(* member of Key.  An event identifier is BLAKE3 of the envelope, and the  *)
(* envelope holds the hash of the body, so an identifier stands for one    *)
(* event: identifiers are natural numbers, and the 32 zero bytes are 0,    *)
(* which is the identifier of no event.                                    *)
(***************************************************************************)
EXTENDS Naturals

CONSTANTS
  Key,      \* device and identity keys
  Host,     \* the key that hosts the visit
  Visit,    \* identifiers of visits
  This,     \* the visit this recording is of
  None      \* an absent optional value

ASSUME KeyAssumption == Host \in Key /\ None \notin Key
ASSUME VisitAssumption == This \in Visit

-----------------------------------------------------------------------------
(* Events.                                                                 *)

ZeroId == 0
EventId == Nat \ {ZeroId}

\* not_before_ms and not_after_ms of a device-add (R-31: the first is smaller).
Window == { w \in [notBefore : Nat, notAfter : Nat] : w.notBefore < w.notAfter }

MessageBody == [type : {"message"}, replyTo : EventId \cup {None}]
ReactionBody == [type : {"reaction"}, target : EventId]
PlainBody == [type : {"attachment", "unknown"}]
JoinBody == { b \in [type : {"join"}, person : Key, devices : SUBSET Key] :
                b.person \in b.devices }
LeaveBody == [type : {"leave"}, person : Key]
DeviceAddBody == [type : {"deviceAdd"}, device : Key, window : Window]
DeviceRevokeBody == [type : {"deviceRevoke"}, device : Key]
\* targets is absent when the scope is the whole visit, not empty otherwise (R-39);
\* the caps on the number of devices and targets are left out.
DropBody ==
  [type : {"dropRequest"}, scope : {"visit"}]
    \cup [type : {"dropRequest"}, scope : {"events"}, targets : (SUBSET EventId) \ {{}}]

Body == MessageBody \cup ReactionBody \cup PlainBody \cup JoinBody \cup LeaveBody
          \cup DeviceAddBody \cup DeviceRevokeBody \cup DropBody

\* What SignedEvent::parse finds: the event, or the first check that fails.
Form == {"valid", "Envelope", "UnsupportedVersion", "BodyLenOverCap",
         "TotalSizeOverCap", "TooShort", "BodyLenMismatch", "BodyHashMismatch",
         "InvalidSignature", "Body"}

Event == [id : EventId, form : Form, visit : Visit, author : Key, seq : Nat,
          prev : Nat, body : Body]

ASSUME NoneAssumption == None \notin Event /\ None \notin Nat

-----------------------------------------------------------------------------
(* The state of a recording.                                               *)
(*   slots    seq -> the stored event, or its tombstone (ev = None)        *)
(*   joins    the JoinRecords of all participants; leftAt is None while    *)
(*            the join is open                                             *)
(*   revoked  device keys seen revoked                                     *)
(*   inForce  device -> the person it is in force for                      *)
(*   windows  device -> the validity window its device-add gave it         *)
(*   broken   R-13's mark                                                  *)

Slot == [id : EventId, ev : Event \cup {None}]
JoinRecord == [person : Key, seq : Nat, devices : SUBSET Key, leftAt : Nat \cup {None}]

\* r is a recording whose held seqs are taken from Seqs.
IsRecording(r, Seqs) ==
  /\ r = [slots |-> r.slots, joins |-> r.joins, revoked |-> r.revoked,
          inForce |-> r.inForce, windows |-> r.windows, broken |-> r.broken]
  /\ DOMAIN r.slots \subseteq Seqs
  /\ r.slots = [n \in DOMAIN r.slots |-> r.slots[n]]
  /\ \A n \in DOMAIN r.slots : r.slots[n] \in Slot
  /\ r.joins \subseteq JoinRecord
  /\ r.revoked \subseteq Key
  /\ r.inForce \in [Key -> Key \cup {None}]
  /\ r.windows \in [Key -> Window \cup {None}]
  /\ r.broken \in BOOLEAN

Live(slot) == slot.ev # None

EmptyRecording ==
  [slots   |-> [n \in {} |-> None],
   joins   |-> {},
   revoked |-> {},
   inForce |-> [k \in Key |-> None],
   windows |-> [k \in Key |-> None],
   broken  |-> FALSE]

Held(r) == DOMAIN r.slots
HeldIds(r) == { r.slots[n].id : n \in Held(r) }

-----------------------------------------------------------------------------
(* Lookups the checks share.                                               *)

PersonOf(r, device) == IF r.inForce[device] = None THEN device ELSE r.inForce[device]

\* A faulty lookup that does not find tombstones.
StoredBelowLiveOnly(r, id, seq) ==
  \E n \in Held(r) : n < seq /\ r.slots[n].id = id /\ Live(r.slots[n])

\* require_stored_at_lower_seq: an event or a tombstone with this identifier
\* is held below seq.
StoredBelow(r, id, seq) == \E n \in Held(r) : n < seq /\ r.slots[n].id = id

ExpectedPrev(r, seq) == IF seq = 0 THEN ZeroId ELSE r.slots[seq - 1].id

OpenAt(j, seq) == j.leftAt = None \/ j.leftAt > seq

\* The joins that decide a device's standing at seq: those that list it, else
\* those of the person it is in force for.
JoinsOf(r, device, seq) ==
  LET sofar  == { j \in r.joins : j.seq <= seq }
      listed == { j \in sofar : device \in j.devices }
  IN IF listed # {} THEN listed
     ELSE { j \in sofar : j.person = r.inForce[device] }

\* A faulty status: a device that no join lists stays when its person leaves.
AuthorStatusAddedStays(r, device, seq) ==
  LET js == JoinsOf(r, device, seq)
  IN IF js = {} THEN "Unknown"
     ELSE IF \/ \A j \in js : device \notin j.devices
             \/ \E j \in js : OpenAt(j, seq) THEN "Active" ELSE "Left"

AuthorStatus(r, device, seq) ==
  LET js == JoinsOf(r, device, seq)
  IN IF js = {} THEN "Unknown"
     ELSE IF \E j \in js : OpenAt(j, seq) THEN "Active" ELSE "Left"

DeviceAddGrantInForce(w, t) == w.notBefore <= t /\ t < w.notAfter

-----------------------------------------------------------------------------
(* The checks, in the order Recording::ingest makes them.                  *)

\* Author checks (R-7, R-30, R-32, R-37).
AuthorVerdict(r, e, t) ==
  LET status == AuthorStatus(r, e.author, e.seq)
  IN IF e.author \in r.revoked THEN "RevokedAuthor"
     ELSE IF e.body.type \in {"join", "leave"} THEN "ok"
     ELSE IF status = "Unknown" THEN "UnknownAuthor"
     ELSE IF status = "Left" THEN "AuthorHasLeft"
     ELSE IF /\ r.windows[e.author] # None
             /\ ~DeviceAddGrantInForce(r.windows[e.author], t)
          THEN "DeviceAddGrantNotInForce"
     ELSE "ok"

OpenJoinsBelow(r, person, seq) ==
  { j \in r.joins : j.person = person /\ j.seq < seq /\ j.leftAt = None }

\* A faulty check that forgets whose event the target is.
LiveEventOfAnyone(r, requester, id) ==
  \E n \in Held(r) : r.slots[n].id = id /\ Live(r.slots[n])

\* Each target is a live event of the requester's own person (R-40).
OwnLiveEvent(r, requester, id) ==
  \E n \in Held(r) :
    /\ r.slots[n].id = id
    /\ Live(r.slots[n])
    /\ PersonOf(r, r.slots[n].ev.author) = PersonOf(r, requester)

\* The check of each body type.
MessageVerdict(r, e) ==
  IF e.body.replyTo # None /\ ~StoredBelow(r, e.body.replyTo, e.seq)
  THEN "ReplyTargetNotFound" ELSE "ok"

ReactionVerdict(r, e) ==
  IF StoredBelow(r, e.body.target, e.seq) THEN "ok" ELSE "ReactionTargetNotFound"

JoinVerdict(r, e) == IF e.author # Host THEN "JoinNotByHost" ELSE "ok"

LeaveVerdict(r, e) ==
  IF e.author # Host THEN "LeaveNotByHost"
  ELSE IF OpenJoinsBelow(r, e.body.person, e.seq) = {} THEN "LeaveWithoutActiveJoin"
  ELSE "ok"

DeviceAddVerdict(r, e) ==
  IF e.body.device \in r.revoked THEN "DeviceAddOfRevokedKey"
  ELSE IF r.inForce[e.body.device] \notin {None, PersonOf(r, e.author)}
       THEN "DeviceInForceForDifferentPerson"
  ELSE "ok"

DeviceRevokeVerdict(r, e) ==
  IF \/ e.body.device = e.author
     \/ r.inForce[e.body.device] # PersonOf(r, e.author)
  THEN "InvalidRevokeTarget" ELSE "ok"

DropRequestVerdict(r, e) ==
  IF e.body.scope = "events" /\ \E id \in e.body.targets : ~OwnLiveEvent(r, e.author, id)
  THEN "DropRequestTargetNotOwnPerson" ELSE "ok"

BodyVerdict(r, e) ==
  CASE e.body.type = "message"      -> MessageVerdict(r, e)
    [] e.body.type = "reaction"     -> ReactionVerdict(r, e)
    [] e.body.type = "join"         -> JoinVerdict(r, e)
    [] e.body.type = "leave"        -> LeaveVerdict(r, e)
    [] e.body.type = "deviceAdd"    -> DeviceAddVerdict(r, e)
    [] e.body.type = "deviceRevoke" -> DeviceRevokeVerdict(r, e)
    [] e.body.type = "dropRequest"  -> DropRequestVerdict(r, e)
    [] e.body.type \in {"attachment", "unknown"} -> "ok"

\* Faulty chain checks: a gap breaks the recording; a gap is let through; prev is
\* not compared.
ChainVerdictGapBreaks(r, e) ==
  IF e.seq \in Held(r) /\ r.slots[e.seq].id # e.id THEN "Broken"
  ELSE IF e.seq > 0 /\ e.seq - 1 \notin Held(r) THEN "Broken"
  ELSE IF e.prev # ExpectedPrev(r, e.seq) THEN "Broken"
  ELSE "ok"
ChainVerdictGapPasses(r, e) ==
  IF e.seq \in Held(r) /\ r.slots[e.seq].id # e.id THEN "Broken"
  ELSE IF e.seq > 0 /\ e.seq - 1 \in Held(r) /\ e.prev # ExpectedPrev(r, e.seq) THEN "Broken"
  ELSE "ok"
ChainVerdictNoPrev(r, e) ==
  IF e.seq \in Held(r) /\ r.slots[e.seq].id # e.id THEN "Broken"
  ELSE IF e.seq > 0 /\ e.seq - 1 \notin Held(r) THEN "PredecessorMissing"
  ELSE "ok"

\* The chain checks (R-13).  An event whose predecessor is not held decides
\* nothing; a second event at a held seq, or a prev that is not the identifier
\* held at seq - 1, breaks the recording.
ChainVerdict(r, e) ==
  IF e.seq \in Held(r) /\ r.slots[e.seq].id # e.id THEN "Broken"
  ELSE IF e.seq > 0 /\ e.seq - 1 \notin Held(r) THEN "PredecessorMissing"
  ELSE IF e.prev # ExpectedPrev(r, e.seq) THEN "Broken"
  ELSE "ok"

\* What Recording::ingest(bytes, now_ms) returns.
Verdict(r, e, t) ==
  LET chain  == ChainVerdict(r, e)
      author == AuthorVerdict(r, e, t)
  IN IF r.broken THEN "AlreadyBroken"
     ELSE IF e.form # "valid" THEN e.form
     ELSE IF e.visit # This THEN "WrongVisit"
     ELSE IF chain # "ok" THEN chain
     ELSE IF author # "ok" THEN author
     ELSE BodyVerdict(r, e)

-----------------------------------------------------------------------------
(* The effects.                                                            *)

\* A faulty insert that replaces the whole map.
OrInsertReplacesAll(f, S, v) == [k \in S |-> v]

\* HashMap::entry(k).or_insert(v) for every k in S.
OrInsert(f, S, v) == [k \in Key |-> IF k \in S /\ f[k] = None THEN v ELSE f[k]]

ApplyJoin(r, e) ==
  [r EXCEPT !.inForce = OrInsert(@, e.body.devices, e.body.person),
            !.joins = @ \cup {[person  |-> e.body.person, seq |-> e.seq,
                               devices |-> e.body.devices, leftAt |-> None]}]

ApplyLeave(r, e) ==
  LET closing == OpenJoinsBelow(r, e.body.person, e.seq)
  IN [r EXCEPT !.joins = (@ \ closing) \cup { [j EXCEPT !.leftAt = e.seq] : j \in closing }]

ApplyDeviceAdd(r, e) ==
  [r EXCEPT !.inForce = OrInsert(@, {e.body.device}, PersonOf(r, e.author)),
            !.windows[e.body.device] = e.body.window]

ApplyDeviceRevoke(r, e) ==
  [r EXCEPT !.revoked = @ \cup {e.body.device},
            !.inForce[e.body.device] = None]

ApplyBody(r, e) ==
  CASE e.body.type = "join"         -> ApplyJoin(r, e)
    [] e.body.type = "leave"        -> ApplyLeave(r, e)
    [] e.body.type = "deviceAdd"    -> ApplyDeviceAdd(r, e)
    [] e.body.type = "deviceRevoke" -> ApplyDeviceRevoke(r, e)
    [] OTHER                        -> r

\* HashMap::insert on slots: a slot already held is overwritten.
PutSlot(slots, n, s) == [m \in DOMAIN slots \cup {n} |-> IF m = n THEN s ELSE slots[m]]

Admit(r, e) ==
  [ApplyBody(r, e) EXCEPT !.slots = PutSlot(@, e.seq, [id |-> e.id, ev |-> e])]

MarkBroken(r) == [r EXCEPT !.broken = TRUE]

\* A faulty ingest: a grant outside its window is stored but not recorded as one.
IngestSkipsStaleGrant(r, e, t) ==
  CASE Verdict(r, e, t) # "ok" -> r
    [] /\ Verdict(r, e, t) = "ok" /\ e.body.type = "deviceAdd"
       /\ ~DeviceAddGrantInForce(e.body.window, t)
         -> [r EXCEPT !.slots = PutSlot(@, e.seq, [id |-> e.id, ev |-> e])]
    [] OTHER -> Admit(r, e)
\* The recording Recording::ingest(bytes, now_ms) leaves behind.
Ingest(r, e, t) ==
  LET verdict == Verdict(r, e, t)
  IN CASE verdict = "ok"     -> Admit(r, e)
       [] verdict = "Broken" -> MarkBroken(r)
       [] OTHER              -> r

-----------------------------------------------------------------------------
(* Drop requests and tombstones.                                           *)

\* honour_drop_request finds a live drop-request with this identifier.
Honourable(r, n) == Live(r.slots[n]) /\ r.slots[n].ev.body.type = "dropRequest"

DropTargets(r, n) ==
  LET rq == r.slots[n].ev.body
  IN { m \in Held(r) :
         /\ Live(r.slots[m])
         /\ IF rq.scope = "visit" THEN m # n ELSE r.slots[m].id \in rq.targets }

\* A faulty honouring that deletes the slots and leaves no tombstone.
HonourDropRequestDeletes(r, n) ==
  [r EXCEPT !.slots = [m \in Held(r) \ DropTargets(r, n) |-> r.slots[m]]]

HonourDropRequest(r, n) ==
  [r EXCEPT !.slots = [m \in Held(r) |->
     IF m \in DropTargets(r, n) THEN [r.slots[m] EXCEPT !.ev = None] ELSE r.slots[m]]]

\* insert_tombstone: the replay of a tombstoned row; checks nothing.
InsertTombstone(r, n, id) ==
  [r EXCEPT !.slots = PutSlot(@, n, [id |-> id, ev |-> None])]
=============================================================================
