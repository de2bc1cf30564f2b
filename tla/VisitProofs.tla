---------------------------- MODULE VisitProofs -----------------------------
(***************************************************************************)
(* What holds of SharedVisit for every set of houses, keys and visits, any *)
(* bounds, any stray events and any redelivery.                            *)
(***************************************************************************)
EXTENDS SharedVisit, RuleProofs, FiniteSetTheorems

-----------------------------------------------------------------------------
(* The steps of the visit.                                                 *)

USE DEF Held, Ids, NextId, IdAt, EventAt

Seqs == 0..MaxEvents-1

\* The bodies authors write are bodies.
LEMMA BodiesType ==
  ASSUME minted \in Seq(Event)
  PROVE  Bodies \subseteq Body
<1>1. Ids \subseteq EventId
  BY DEF EventId, ZeroId
<1> USE PersonAssumption, WindowsAssumption
<1>2. ASSUME NEW b \in Bodies PROVE b \in Body
  <2>1. CASE b.type = "message"
    BY <1>1, <1>2, <2>1 DEF Bodies, Body, MessageBody
  <2>2. CASE b.type = "reaction"
    BY <1>1, <1>2, <2>2 DEF Bodies, Body, ReactionBody
  <2>3. CASE b.type \in {"attachment", "unknown"}
    BY <1>2, <2>3 DEF Bodies, Body, PlainBody
  <2>4. CASE b.type = "join"
    BY <1>2, <2>4 DEF Bodies, Body, JoinBody
  <2>5. CASE b.type = "leave"
    BY <1>2, <2>5 DEF Bodies, Body, LeaveBody
  <2>6. CASE b.type = "deviceAdd"
    BY <1>2, <2>6 DEF Bodies, Body, DeviceAddBody
  <2>7. CASE b.type = "deviceRevoke"
    BY <1>2, <2>7 DEF Bodies, Body, DeviceRevokeBody
  <2>8. CASE b.type = "dropRequest"
    BY <1>1, <1>2, <2>8 DEF Bodies, Body, DropBody
  <2> QED
    BY <1>2, <2>1, <2>2, <2>3, <2>4, <2>5, <2>6, <2>7, <2>8 DEF Bodies
<1> QED
  BY <1>2

\* Every step either mints one event, or lets one house ingest a minted event, or
\* both at once for the host's house, or honours a request, or moves the clock.
Mints(e) == minted' = Append(minted, e)

Ingests(h, e) == rec' = [rec EXCEPT ![h] = Ingest(@, e, now)]

\* An event about to be minted has the type of an event and the next identifier.
Fresh(e) == e \in Event /\ e.id = NextId /\ e.seq \in Seqs

LEMMA HostSequenceMints ==
  ASSUME TypeOK, NEW a \in Key, NEW n \in 0..MaxEvents-1, NEW b \in Bodies, HostSequence(a, n, b)
  PROVE  \E e : Fresh(e) /\ Mints(e) /\ Ingests(HostHouse, e)
<1> USE HouseAssumption, BoundAssumption
<1> DEFINE e == [id |-> NextId, form |-> "valid", visit |-> This, author |-> a,
                 seq |-> n, prev |-> HostPrev(n), body |-> b]
<1>0. b \in Body /\ NextId \in EventId
  BY BodiesType DEF TypeOK, EventId, ZeroId
<1>1. HostPrev(n) \in Nat
  <2>1. n > 0 => n - 1 \in DOMAIN rec[HostHouse].slots
    BY DEF HostSequence
  <2>2. \A m \in DOMAIN rec[HostHouse].slots : rec[HostHouse].slots[m].id \in Nat
    BY DEF TypeOK, IsRecording, Slot, EventId
  <2> QED
    BY <2>1, <2>2 DEF HostPrev, ExpectedPrev, ZeroId, Seqs
<1>2. Fresh(e)
  BY <1>0, <1>1, VisitAssumption DEF Fresh, Event, Form, Seqs
<1>3. Mints(e) /\ Ingests(HostHouse, e)
  BY DEF HostSequence, Mints, Ingests
<1> QED
  BY <1>2, <1>3

LEMMA StepCases ==
  ASSUME TypeOK, [Next]_vars
  PROVE  \/ /\ \E e : Fresh(e) /\ Mints(e) /\ Ingests(HostHouse, e)
            /\ stray' = stray /\ now' = now
         \/ /\ \E e : Fresh(e) /\ Mints(e)
            /\ rec' = rec /\ stray' \in 0..MaxStray /\ now' = now
         \/ /\ \E h \in House : \E i \in Ids : Ingests(h, minted[i])
            /\ minted' = minted /\ stray' = stray /\ now' = now
         \/ /\ \E h \in House : \E n : rec' = [rec EXCEPT ![h] = HonourDropRequest(@, n)]
            /\ minted' = minted /\ stray' = stray /\ now' = now
         \/ rec' = rec /\ minted' = minted /\ stray' = stray /\ now' \in 0..MaxTime
<1> USE HouseAssumption, BoundAssumption
<1>0. Bodies \subseteq Body /\ NextId \in EventId
  BY BodiesType DEF TypeOK, EventId, ZeroId
<1>1. ASSUME NEW a \in Key, NEW n \in Seqs, NEW b \in Bodies, HostSequence(a, n, b)
      PROVE  \E e : Fresh(e) /\ Mints(e) /\ Ingests(HostHouse, e)
  BY <1>1, HostSequenceMints DEF Seqs
<1>2. ASSUME NEW s \in StrayShapes, NEW a \in Key, NEW n \in Seqs,
             NEW p \in Ids \cup {ZeroId}, NEW b \in Bodies, Stray(s, a, n, p, b)
      PROVE  /\ \E e : Fresh(e) /\ Mints(e)
             /\ rec' = rec /\ stray' \in 0..MaxStray /\ now' = now
  <2> DEFINE e == [id |-> NextId, form |-> s.form, visit |-> s.visit, author |-> a,
                   seq |-> n, prev |-> p, body |-> b]
  <2>1. Fresh(e)
    BY <1>0, ShapeAssumption, SMTT(30) DEF Fresh, Event, Seqs, ZeroId, TypeOK
  <2>2. Mints(e)
    BY <1>2 DEF Stray, Mints
  <2>3. rec' = rec /\ stray' \in 0..MaxStray /\ now' = now
    BY <1>2 DEF Stray, TypeOK
  <2> QED
    BY <2>1, <2>2, <2>3
<1>3. ASSUME NEW h \in House, NEW i \in Ids, Deliver(h, minted[i])
      PROVE  /\ Ingests(h, minted[i])
             /\ minted' = minted /\ stray' = stray /\ now' = now
  BY <1>3 DEF Deliver, Ingests
<1>4. ASSUME NEW h \in House, NEW n, Honour(h, n)
      PROVE  /\ rec' = [rec EXCEPT ![h] = HonourDropRequest(@, n)]
             /\ minted' = minted /\ stray' = stray /\ now' = now
  BY <1>4 DEF Honour
<1>5. ASSUME Tick
      PROVE  rec' = rec /\ minted' = minted /\ stray' = stray /\ now' \in 0..MaxTime
  BY <1>5 DEF Tick, TypeOK
<1>6. ASSUME UNCHANGED vars
      PROVE  rec' = rec /\ minted' = minted /\ stray' = stray /\ now' \in 0..MaxTime
  BY <1>6 DEF vars, TypeOK
<1>7. ASSUME NEW a \in Key, NEW n \in Seqs, NEW b \in Bodies, HostSequence(a, n, b)
      PROVE  stray' = stray /\ now' = now
  BY <1>7 DEF HostSequence
<1> QED
  BY <1>1, <1>2, <1>3, <1>4, <1>5, <1>6, <1>7 DEF Next, Seqs

-----------------------------------------------------------------------------
(* Type correctness.                                                       *)

\* Minting keeps minted well typed.
LEMMA MintType ==
  ASSUME TypeOK, NEW e, Fresh(e), Mints(e)
  PROVE  /\ minted' \in Seq(Event)
         /\ Ids' = Ids \cup {NextId}
         /\ minted'[NextId] = e
         /\ \A i \in Ids : minted'[i] = minted[i]
         /\ \A i \in Ids' : minted'[i].id = i /\ minted'[i].seq \in Seqs
<1>1. minted \in Seq(Event) /\ e \in Event
  BY DEF TypeOK, Fresh
<1>2. minted' = Append(minted, e)
  BY DEF Mints
<1>3. Len(minted) \in Nat /\ Ids = 1..Len(minted) /\ NextId = Len(minted) + 1
  BY <1>1
<1>4. minted' \in Seq(Event) /\ Len(minted') = NextId
  BY <1>1, <1>2, <1>3
<1>5. Ids' = Ids \cup {NextId}
  BY <1>3, <1>4
<1>6. minted'[NextId] = e /\ \A i \in Ids : minted'[i] = minted[i]
  BY <1>1, <1>2, <1>3
<1> QED
  BY <1>4, <1>5, <1>6 DEF TypeOK, Fresh, Seqs

\* One house changing its recording to one of the right type keeps all of them so.
LEMMA RecType ==
  ASSUME TypeOK, NEW h \in House, NEW q, IsRecording(q, Seqs), rec' = [rec EXCEPT ![h] = q]
  PROVE  /\ rec' = [g \in House |-> rec'[g]]
         /\ \A g \in House : IsRecording(rec'[g], Seqs)
<1>1. \A g \in House : rec'[g] = IF g = h THEN q ELSE rec[g]
  BY DEF TypeOK
<1>2. \A g \in House : IsRecording(rec[g], Seqs)
  BY DEF TypeOK, Seqs
<1> QED
  BY <1>1, <1>2 DEF TypeOK

\* Every reachable state has its types: houses keep recordings whose held seqs,
\* participants, revoked keys and windows are what ingest.rs:207 declares.
THEOREM TypeCorrect == Spec => []TypeOK
<1> USE HouseAssumption, BoundAssumption
<1>1. Init => TypeOK
  <2> SUFFICES ASSUME Init PROVE TypeOK
    OBVIOUS
  <2>1. IsRecording(EmptyRecording, 0..MaxEvents-1)
    BY DEF IsRecording, EmptyRecording
  <2>2. minted \in Seq(Event) /\ Ids = {}
    BY DEF Init
  <2> QED
    BY <2>1, <2>2 DEF Init, TypeOK
<1>2. TypeOK /\ [Next]_vars => TypeOK'
  <2> SUFFICES ASSUME TypeOK, [Next]_vars PROVE TypeOK'
    OBVIOUS
  <2>1. ASSUME NEW e, Fresh(e), Mints(e), Ingests(HostHouse, e), stray' = stray, now' = now
        PROVE  TypeOK'
    <3>1. IsRecording(Ingest(rec[HostHouse], e, now), Seqs)
      BY <2>1, IngestEffect DEF TypeOK, Fresh, Seqs
    <3>2. /\ rec' = [g \in House |-> rec'[g]]
          /\ \A g \in House : IsRecording(rec'[g], Seqs)
      BY <2>1, <3>1, RecType DEF Ingests
    <3> QED
      BY <2>1, <3>2, MintType DEF TypeOK, Seqs
  <2>2. ASSUME NEW e, Fresh(e), Mints(e), rec' = rec, stray' \in 0..MaxStray, now' = now
        PROVE  TypeOK'
    BY <2>2, MintType DEF TypeOK, Seqs
  <2>3. ASSUME NEW h \in House, NEW i \in Ids, Ingests(h, minted[i]),
               minted' = minted, stray' = stray, now' = now
        PROVE  TypeOK'
    <3>1. minted[i] \in Event /\ minted[i].seq \in Seqs
      BY DEF TypeOK, Seqs
    <3>2. IsRecording(Ingest(rec[h], minted[i], now), Seqs)
      BY <3>1, IngestEffect DEF TypeOK, Seqs
    <3>3. /\ rec' = [g \in House |-> rec'[g]]
          /\ \A g \in House : IsRecording(rec'[g], Seqs)
      BY <2>3, <3>2, RecType DEF Ingests
    <3> QED
      BY <2>3, <3>3 DEF TypeOK, Seqs
  <2>4. ASSUME NEW h \in House, NEW n, rec' = [rec EXCEPT ![h] = HonourDropRequest(@, n)],
               minted' = minted, stray' = stray, now' = now
        PROVE  TypeOK'
    <3>1. IsRecording(HonourDropRequest(rec[h], n), Seqs)
      BY HonourEffect DEF TypeOK, Seqs
    <3>2. /\ rec' = [g \in House |-> rec'[g]]
          /\ \A g \in House : IsRecording(rec'[g], Seqs)
      BY <2>4, <3>1, RecType
    <3> QED
      BY <2>4, <3>2 DEF TypeOK, Seqs
  <2>5. ASSUME rec' = rec, minted' = minted, stray' = stray, now' \in 0..MaxTime
        PROVE  TypeOK'
    BY <2>5 DEF TypeOK
  <2> QED
    BY <2>1, <2>2, <2>3, <2>4, <2>5, StepCases
<1> QED
  BY <1>1, <1>2, PTL DEF Spec

-----------------------------------------------------------------------------
(* The chain.                                                              *)

\* A step of the visit lets every house keep what it holds and adds to a house at
\* most one event, linked to what it held.
LEMMA ChainStep ==
  ASSUME TypeOK, [Next]_vars
  PROVE  /\ \A i \in Ids : i \in Ids' /\ minted'[i] = minted[i]
         /\ \A g \in House :
              /\ Keeps(rec[g], rec'[g])
              /\ rec[g].revoked \subseteq rec'[g].revoked
              /\ rec[g].broken => rec'[g].broken /\ Held(rec'[g]) = Held(rec[g])
              /\ \/ Held(rec'[g]) = Held(rec[g])
                 \/ \E i \in Ids' : minted'[i].id = i /\ Extends(rec[g], rec'[g], minted'[i])
<1> USE HouseAssumption
<1>0. \A g \in House : IsRecording(rec[g], Seqs)
  BY DEF TypeOK, Seqs
<1> DEFINE Kept(g) == /\ Keeps(rec[g], rec'[g])
                      /\ rec[g].revoked \subseteq rec'[g].revoked
                      /\ rec[g].broken => rec'[g].broken /\ Held(rec'[g]) = Held(rec[g])
<1>1. ASSUME NEW g \in House, rec'[g] = rec[g]
      PROVE  Kept(g) /\ Held(rec'[g]) = Held(rec[g])
  BY <1>1 DEF Keeps
<1>2. ASSUME NEW h \in House, NEW e \in Event, e.seq \in Seqs, Ingests(h, e)
      PROVE  /\ Kept(h)
             /\ Held(rec'[h]) = Held(rec[h]) \/ Extends(rec[h], rec'[h], e)
             /\ \A g \in House : g # h => rec'[g] = rec[g]
  <2>1. rec'[h] = Ingest(rec[h], e, now)
    BY <1>2 DEF Ingests, TypeOK
  <2>2. \A g \in House : g # h => rec'[g] = rec[g]
    BY <1>2 DEF Ingests, TypeOK
  <2>3. IsRecording(rec[h], Seqs)
    BY <1>0
  <2>4. /\ Keeps(rec[h], rec'[h])
        /\ rec[h].revoked \subseteq rec'[h].revoked
        /\ Held(rec'[h]) = Held(rec[h]) \/ Extends(rec[h], rec'[h], e)
    BY <1>2, <2>1, <2>3, IngestChain
  <2>5. rec[h].broken => rec'[h] = rec[h]
    BY <2>1, BrokenIsFinal
  <2> QED
    BY <2>2, <2>4, <2>5
<1>3. ASSUME NEW e, Fresh(e), Mints(e)
      PROVE  /\ \A i \in Ids : i \in Ids' /\ minted'[i] = minted[i]
             /\ NextId \in Ids' /\ minted'[NextId] = e /\ e.id = NextId
             /\ e \in Event /\ e.seq \in Seqs
  BY <1>3, MintType DEF Fresh
<1>4. CASE \E e : Fresh(e) /\ Mints(e) /\ Ingests(HostHouse, e)
  <2> PICK e : Fresh(e) /\ Mints(e) /\ Ingests(HostHouse, e)
    BY <1>4
  <2> QED
    BY <1>1, <1>2, <1>3
<1>5. CASE (\E e : Fresh(e) /\ Mints(e)) /\ rec' = rec
  BY <1>1, <1>3, <1>5
<1>6. CASE (\E h \in House : \E i \in Ids : Ingests(h, minted[i])) /\ minted' = minted
  <2> PICK h \in House, i \in Ids : Ingests(h, minted[i])
    BY <1>6
  <2>1. minted[i] \in Event /\ minted[i].seq \in Seqs /\ minted[i].id = i
    BY DEF TypeOK, Seqs
  <2> QED
    BY <1>1, <1>2, <1>6, <2>1
<1>7. CASE /\ \E h \in House : \E n : rec' = [rec EXCEPT ![h] = HonourDropRequest(@, n)]
           /\ minted' = minted
  <2> PICK h \in House : \E n : rec' = [rec EXCEPT ![h] = HonourDropRequest(@, n)]
    BY <1>7
  <2> PICK n : rec' = [rec EXCEPT ![h] = HonourDropRequest(@, n)]
    OBVIOUS
  <2>1. rec'[h] = HonourDropRequest(rec[h], n) /\ \A g \in House : g # h => rec'[g] = rec[g]
    BY DEF TypeOK
  <2>2. /\ rec'[h].revoked = rec[h].revoked
        /\ rec'[h].broken = rec[h].broken
        /\ Held(rec'[h]) = Held(rec[h])
        /\ Keeps(rec[h], rec'[h])
    BY <1>0, <2>1, HonourEffect DEF Keeps
  <2>3. Kept(h)
    BY <2>2
  <2> QED
    BY <1>1, <1>7, <2>1, <2>2, <2>3
<1>8. CASE rec' = rec /\ minted' = minted
  BY <1>1, <1>8
<1> QED
  BY <1>4, <1>5, <1>6, <1>7, <1>8, StepCases

\* The links of one step: a seq that a house holds afterwards has its predecessor
\* held before the step.
LEMMA LinkStep ==
  ASSUME TypeOK, ChainLinked, [Next]_vars
  PROVE  /\ ChainLinked'
         /\ \A g \in House : \A n \in Held(rec'[g]) : n > 0 => n - 1 \in Held(rec[g])
<1>1. \A i \in Ids : i \in Ids' /\ minted'[i] = minted[i]
  BY ChainStep
<1>2. SUFFICES ASSUME NEW g \in House, NEW n \in Held(rec'[g])
               PROVE  /\ n > 0 => n - 1 \in Held(rec[g]) /\ n - 1 \in Held(rec'[g])
                      /\ rec'[g].slots[n].id \in Ids'
                      /\ minted'[rec'[g].slots[n].id].seq = n
                      /\ minted'[rec'[g].slots[n].id].prev = ExpectedPrev(rec'[g], n)
  BY DEF ChainLinked
<1>3. Keeps(rec[g], rec'[g])
  BY ChainStep
<1>4. ASSUME n > 0 => n - 1 \in Held(rec[g])
      PROVE  ExpectedPrev(rec'[g], n) = ExpectedPrev(rec[g], n)
  <2>1. DOMAIN rec'[g].slots \subseteq Nat
    <3>1. IsRecording(rec[g], Seqs)
      BY DEF TypeOK, Seqs
    <3>2. \A i \in Ids : minted[i].seq \in Nat
      BY BoundAssumption DEF TypeOK
    <3>3. \A i \in Ids' : minted'[i].seq \in Nat
      BY StepCases, MintType, <3>2, BoundAssumption DEF Seqs
    <3> QED
      BY <3>1, <3>3, ChainStep, BoundAssumption DEF IsRecording, Seqs, Extends
  <2> QED
    BY <1>3, <1>4, <2>1 DEF Keeps, ExpectedPrev
<1>5. CASE n \in Held(rec[g])
  BY <1>1, <1>3, <1>4, <1>5 DEF ChainLinked, Keeps
<1>6. CASE n \notin Held(rec[g])
  <2>1. PICK i \in Ids' : minted'[i].id = i /\ Extends(rec[g], rec'[g], minted'[i])
    BY <1>6, ChainStep
  <2>2. n = minted'[i].seq
    BY <1>6, <2>1 DEF Extends
  <2> QED
    BY <1>3, <1>4, <2>1, <2>2 DEF Extends, Keeps
<1> QED
  BY <1>5, <1>6

\* R-13 holds of every recording, whatever is offered and dropped.
THEOREM ChainIsLinked == Spec => []ChainLinked
<1>1. Init => ChainLinked
  BY DEF Init, ChainLinked, EmptyRecording
<1>2. TypeOK /\ ChainLinked /\ [Next]_vars => ChainLinked'
  BY LinkStep
<1> QED
  BY <1>1, <1>2, TypeCorrect, PTL DEF Spec

\* Two houses that hold the same event hold the same events below it, for any
\* number of houses and any equivocation, loss, duplication or drop.  The links of
\* the new state give agreement one seq down, and the agreement of the old state
\* reaches from there to seq 0.
THEOREM HousesAgree == Spec => []ChainAgreement
<1>1. Init => ChainAgreement
  BY DEF Init, ChainAgreement, EmptyRecording
<1>2. TypeOK /\ TypeOK' /\ ChainLinked /\ ChainAgreement /\ [Next]_vars => ChainAgreement'
  <2> SUFFICES ASSUME TypeOK, TypeOK', ChainLinked, ChainAgreement, [Next]_vars,
                      NEW g \in House, NEW h \in House,
                      NEW n \in Held(rec'[g]) \cap Held(rec'[h]),
                      rec'[g].slots[n].id = rec'[h].slots[n].id,
                      NEW m \in 0..n
               PROVE  /\ m \in Held(rec'[g]) \cap Held(rec'[h])
                      /\ rec'[g].slots[m].id = rec'[h].slots[m].id
    BY DEF ChainAgreement
  <2>0. n \in Nat
    <3>1. IsRecording(rec'[g], Seqs)
      BY DEF TypeOK, Seqs
    <3> QED
      BY <3>1, BoundAssumption DEF IsRecording, Seqs
  <2>1. CASE m = n
    BY <2>1
  <2>2. CASE m < n
    <3>1. n - 1 \in Held(rec[g]) /\ n - 1 \in Held(rec[h])
      BY <2>0, <2>2, LinkStep
    <3>2. Keeps(rec[g], rec'[g]) /\ Keeps(rec[h], rec'[h])
      BY ChainStep
    <3>3. ChainLinked'
      BY LinkStep
    <3>4. ExpectedPrev(rec'[g], n) = ExpectedPrev(rec'[h], n)
      BY <3>3 DEF ChainLinked
    <3>5. rec[g].slots[n - 1].id = rec[h].slots[n - 1].id
      BY <2>0, <2>2, <3>1, <3>2, <3>4 DEF ExpectedPrev, Keeps
    <3>6. m \in 0..(n - 1)
      BY <2>0, <2>2
    <3>7. /\ m \in Held(rec[g]) \cap Held(rec[h])
          /\ rec[g].slots[m].id = rec[h].slots[m].id
      BY <3>1, <3>5, <3>6 DEF ChainAgreement
    <3> QED
      BY <3>2, <3>7 DEF Keeps
  <2> QED
    BY <2>0, <2>1, <2>2
<1> QED
  BY <1>1, <1>2, TypeCorrect, ChainIsLinked, PTL DEF Spec

\* No step loses or replaces a held identifier, adds to a broken recording, mends
\* one, or forgets a revocation.
THEOREM RecordingsAppendOnly == Spec => AppendOnly
<1> DEFINE Kept(h) ==
             /\ \A n \in Held(rec[h]) : n \in Held(rec'[h]) /\ rec'[h].slots[n].id = IdAt(h, n)
             /\ rec[h].broken => rec'[h].broken /\ Held(rec'[h]) = Held(rec[h])
             /\ rec[h].revoked \subseteq rec'[h].revoked
<1>1. TypeOK /\ [Next]_vars => [\A h \in House : Kept(h)]_vars
  <2> SUFFICES ASSUME TypeOK, [Next]_vars, NEW h \in House PROVE Kept(h)
    OBVIOUS
  <2>1. /\ Keeps(rec[h], rec'[h])
        /\ rec[h].revoked \subseteq rec'[h].revoked
        /\ rec[h].broken => rec'[h].broken /\ Held(rec'[h]) = Held(rec[h])
    BY ChainStep, Zenon
  <2> QED
    BY <2>1, Zenon DEF Keeps
<1> QED
  BY <1>1, TypeCorrect, PTL DEF Spec, AppendOnly

-----------------------------------------------------------------------------
(* What a step does to the log of one house.                               *)

Members(r) == <<r.joins, r.revoked, r.inForce, r.windows>>

\* The log and the membership stay: nothing is offered, it is refused, or a drop
\* is honoured.
Quiet(g) ==
  /\ Held(rec'[g]) = Held(rec[g])
  /\ \A n \in Held(rec[g]) : rec'[g].slots[n].id = rec[g].slots[n].id
  /\ Members(rec'[g]) = Members(rec[g])

\* The event e is admitted.
Admits(g, e) ==
  /\ e \in Event /\ e.seq \in Seqs /\ e.id \in Ids' /\ minted'[e.id] = e
  /\ Verdict(rec[g], e, now) = "ok"
  /\ Held(rec'[g]) = Held(rec[g]) \cup {e.seq}
  /\ \A n \in Held(rec[g]) : rec'[g].slots[n].id = rec[g].slots[n].id
  /\ rec'[g].slots[e.seq].id = e.id
  /\ Members(rec'[g]) = Members(ApplyBody(rec[g], e))
  /\ rec'[g].broken = rec[g].broken

\* It is new to the house and comes after all it holds.
Grows(g, e) ==
  /\ Admits(g, e)
  /\ e.seq \notin Held(rec[g])
  /\ \A n \in Held(rec[g]) : n \in Nat /\ n < e.seq

LEMMA IngestMembers ==
  ASSUME NEW r, IsRecording(r, Seqs), NEW e \in Event, NEW t
  PROVE  IF Verdict(r, e, t) = "ok"
         THEN Members(Ingest(r, e, t)) = Members(ApplyBody(r, e)) /\ Ingest(r, e, t).broken = r.broken
         ELSE Members(Ingest(r, e, t)) = Members(r)
<1> DEFINE q == ApplyBody(r, e)
<1>1. IsRecording(q, Seqs) /\ q.broken = r.broken
  BY ApplyBodyType
<1>2. Members(Admit(r, e)) = Members(q) /\ Admit(r, e).broken = q.broken
  BY <1>1 DEF Admit, IsRecording, Members
<1>3. Members(MarkBroken(r)) = Members(r)
  BY DEF MarkBroken, IsRecording, Members
<1> QED
  BY <1>1, <1>2, <1>3 DEF Ingest

LEMMA IngestStep ==
  ASSUME TypeOK, ChainLinked, NEW h \in House, NEW e \in Event, e.seq \in Seqs,
         e.id \in Ids', minted'[e.id] = e, Ingests(h, e)
  PROVE  \/ Quiet(h)
         \/ /\ Admits(h, e)
            /\ Grows(h, e) \/ (e.seq \in Held(rec[h]) /\ e.id \in HeldIds(rec[h]))
<1> DEFINE r == rec[h]
           x == [id |-> e.id, ev |-> e]
<1>1. rec'[h] = Ingest(r, e, now) /\ IsRecording(r, Seqs)
  BY DEF Ingests, TypeOK, Seqs
<1>2. rec'[h].slots = IF Verdict(r, e, now) = "ok" THEN PutSlot(r.slots, e.seq, x) ELSE r.slots
  BY <1>1, IngestSlots
<1>3. CASE Verdict(r, e, now) # "ok"
  <2>1. Members(rec'[h]) = Members(r)
    BY <1>1, <1>3, IngestMembers
  <2> QED
    BY <1>2, <1>3, <2>1 DEF Quiet
<1>4. CASE Verdict(r, e, now) = "ok"
  <2>1. Members(rec'[h]) = Members(ApplyBody(r, e)) /\ rec'[h].broken = r.broken
    BY <1>1, <1>4, IngestMembers
  <2>2. e.seq \in Held(r) => r.slots[e.seq].id = e.id
    BY <1>4, AdmitsOnlyLinked
  <2>3. /\ DOMAIN rec'[h].slots = DOMAIN r.slots \cup {e.seq}
        /\ rec'[h].slots[e.seq].id = e.id
        /\ \A n \in DOMAIN r.slots : rec'[h].slots[n].id = r.slots[n].id
    BY <1>2, <1>4, <2>2 DEF PutSlot
  <2>4. Admits(h, e)
    BY <1>4, <2>1, <2>3 DEF Admits
  <2>5. CASE e.seq \in Held(r)
    BY <2>2, <2>4, <2>5 DEF HeldIds
  <2>6. CASE e.seq \notin Held(r)
    <3>1. Held(r) \in SUBSET Nat /\ e.seq \in Nat
      BY <1>1, BoundAssumption DEF IsRecording, Seqs
    <3>2. \A n \in Held(r) : n > 0 => n - 1 \in Held(r)
      BY DEF ChainLinked
    <3>3. \A n \in Held(r) : n < e.seq
      BY <2>6, <3>1, <3>2, NoneAbove
    <3> QED
      BY <2>4, <2>6, <3>1, <3>3 DEF Grows
  <2> QED
    BY <2>5, <2>6
<1> QED
  BY <1>3, <1>4

\* The event e, which the house holds already, is admitted again.
Repeats(g, e) == Redeliver /\ Admits(g, e) /\ e.seq \in Held(rec[g])

\* A house keeps its log and membership, or admits an event in circulation, which
\* is new to it unless events are delivered again.
LEMMA HouseStep ==
  ASSUME TypeOK, ChainLinked, [Next]_vars, NEW g \in House
  PROVE  Quiet(g) \/ \E e : Grows(g, e) \/ Repeats(g, e)
<1> USE HouseAssumption
<1>0. IsRecording(rec[g], Seqs) /\ \A i \in Ids : minted[i] \in Event /\ minted[i].seq \in Seqs /\ minted[i].id = i
  BY DEF TypeOK, Seqs
<1>1. ASSUME rec'[g] = rec[g] PROVE Quiet(g)
  BY <1>1 DEF Quiet
<1>2. ASSUME NEW h \in House, NEW q, rec' = [rec EXCEPT ![h] = q], g # h PROVE rec'[g] = rec[g]
  BY <1>2 DEF TypeOK
<1>3. ASSUME NEW e, Fresh(e), Mints(e), Ingests(HostHouse, e)
      PROVE  Quiet(g) \/ \E d : Grows(g, d)
  <2>1. e \in Event /\ e.seq \in Seqs /\ e.id = NextId /\ NextId \in Ids' /\ minted'[NextId] = e
    BY <1>3, MintType DEF Fresh
  <2>2. NextId \notin Ids
    BY DEF TypeOK
  <2>3. NextId \notin HeldIds(rec[HostHouse])
    BY <2>2 DEF ChainLinked, HeldIds
  <2> QED
    BY <1>1, <1>2, <1>3, <2>1, <2>3, IngestStep DEF Ingests
<1>4. ASSUME NEW h \in House, NEW i \in Ids, Deliver(h, minted[i])
      PROVE  Quiet(g) \/ \E e : Grows(g, e) \/ Repeats(g, e)
  <2>1. Ingests(h, minted[i]) /\ minted' = minted /\ (Redeliver \/ minted[i].id \notin HeldIds(rec[h]))
    BY <1>4 DEF Deliver, Ingests
  <2>2. minted[i] \in Event /\ minted[i].seq \in Seqs /\ minted[i].id \in Ids' /\ minted'[minted[i].id] = minted[i]
    BY <1>0, <2>1
  <2>3. CASE g # h
    BY <1>1, <1>2, <2>1, <2>3 DEF Ingests
  <2>4. CASE g = h
    BY <2>1, <2>2, <2>4, IngestStep DEF Repeats
  <2> QED
    BY <2>3, <2>4
<1>5. ASSUME NEW h \in House, NEW n, Honour(h, n) PROVE Quiet(g)
  <2>1. rec' = [rec EXCEPT ![h] = HonourDropRequest(rec[h], n)]
    BY <1>5 DEF Honour
  <2>2. CASE g # h
    BY <1>1, <1>2, <2>1, <2>2
  <2>3. CASE g = h
    <3>1. rec'[g] = HonourDropRequest(rec[g], n)
      BY <2>1, <2>3 DEF TypeOK
    <3>2. Members(HonourDropRequest(rec[g], n)) = Members(rec[g])
      BY <1>0 DEF HonourDropRequest, IsRecording, Members
    <3> QED
      BY <1>0, <3>1, <3>2, HonourEffect DEF Quiet
  <2> QED
    BY <2>2, <2>3
<1>6. CASE \E a \in Key, n \in 0..MaxEvents-1, b \in Bodies : HostSequence(a, n, b)
  <2>1. PICK a \in Key, n \in 0..MaxEvents-1, b \in Bodies : HostSequence(a, n, b)
    BY <1>6
  <2>2. \E e : Fresh(e) /\ Mints(e) /\ Ingests(HostHouse, e)
    BY <2>1, HostSequenceMints
  <2> QED
    BY <1>3, <2>2 DEF Grows
<1>7. CASE rec' = rec
  BY <1>1, <1>7
<1>8. CASE \/ \E h \in House : \E i \in Ids : Deliver(h, minted[i])
           \/ \E h \in House : \E n \in Held(rec[h]) : Honour(h, n)
  BY <1>4, <1>5, <1>8
<1> QED
  BY <1>6, <1>7, <1>8 DEF Next, Stray, Tick, vars

\* One more event at the end of a log.
LogGrows(L, M, e) ==
  /\ DOMAIN M = DOMAIN L \cup {e.seq} /\ M[e.seq] = e /\ e.seq \in Nat
  /\ \A n \in DOMAIN L : n \in Nat /\ n < e.seq /\ M[n] = L[n]

LEMMA LogStep ==
  ASSUME TypeOK, ChainLinked, [Next]_vars, NEW g \in House
  PROVE  /\ Quiet(g) => Log(g)' = Log(g)
         /\ \A e : Repeats(g, e) => Log(g)' = Log(g) /\ e.seq \in DOMAIN Log(g) /\ Log(g)[e.seq] = e
         /\ \A e : Grows(g, e) => LogGrows(Log(g), Log(g)', e)
<1>1. \A n \in Held(rec[g]) : rec[g].slots[n].id \in Ids
  BY DEF ChainLinked
<1>2. \A i \in Ids : minted'[i] = minted[i]
  BY ChainStep
<1>3. \A n \in Held(rec[g]) : minted'[rec[g].slots[n].id] = minted[rec[g].slots[n].id]
  BY <1>1, <1>2
<1>4. Quiet(g) => Log(g)' = Log(g)
  BY <1>3 DEF Quiet, Log
<1>5. ASSUME NEW e, Repeats(g, e)
      PROVE  Log(g)' = Log(g) /\ e.seq \in DOMAIN Log(g) /\ Log(g)[e.seq] = e
  <2>1. Log(g)' = Log(g) /\ e.seq \in DOMAIN Log(g)
    BY <1>3, <1>5 DEF Repeats, Admits, Log
  <2>2. Log(g)'[e.seq] = e
    BY <1>5 DEF Repeats, Admits, Log
  <2> QED
    BY <2>1, <2>2
<1>6. ASSUME NEW e, Grows(g, e) PROVE LogGrows(Log(g), Log(g)', e)
  <2>1. e.seq \in Nat /\ minted'[e.id] = e
    BY <1>6, BoundAssumption DEF Grows, Admits, Seqs
  <2>2. Held(rec'[g]) = Held(rec[g]) \cup {e.seq} /\ rec'[g].slots[e.seq].id = e.id
    BY <1>6 DEF Grows, Admits
  <2>3. \A n \in Held(rec[g]) : n \in Nat /\ n < e.seq /\ rec'[g].slots[n].id = rec[g].slots[n].id
    BY <1>6 DEF Grows, Admits
  <2> QED
    BY <1>3, <2>1, <2>2, <2>3 DEF Log, LogGrows
<1> QED
  BY <1>4, <1>5, <1>6

\* A log has no gap.
Gapless(L) == DOMAIN L \subseteq Nat /\ \A n \in DOMAIN L : \A m \in 0..n : m \in DOMAIN L

LEMMA LogGapless ==
  ASSUME TypeOK, ChainLinked, NEW g \in House
  PROVE  Gapless(Log(g)) /\ \A n \in DOMAIN Log(g) : Log(g)[n] \in Event /\ Log(g)[n].seq = n
<1> DEFINE S == Held(rec[g])
<1>0. IsRecording(rec[g], Seqs)
  BY DEF TypeOK, Seqs
<1>1. S \in SUBSET Nat
  BY <1>0, BoundAssumption DEF IsRecording, Seqs, Held
<1>2. \A n \in S : n > 0 => n - 1 \in S
  BY DEF ChainLinked
<1>3. DOMAIN Log(g) = S
  BY DEF Log
<1>4. ASSUME NEW n \in S, NEW m \in 0..n, m \notin S PROVE FALSE
  <2>1. m \in Nat /\ n \in Nat /\ m <= n
    BY <1>1
  <2> HIDE DEF S
  <2>2. n < m
    BY <1>1, <1>2, <1>4, <2>1, NoneAbove
  <2> QED
    BY <2>1, <2>2
<1>5. \A n \in S : Log(g)[n] \in Event /\ Log(g)[n].seq = n
  BY DEF Log, ChainLinked, TypeOK
<1> QED
  BY <1>1, <1>3, <1>4, <1>5 DEF Gapless

-----------------------------------------------------------------------------
(* An honest host.                                                         *)

\* Only the chain checks break a recording.
LEMMA BrokenByChain ==
  ASSUME NEW r, NEW e \in Event, NEW t, ChainVerdict(r, e) # "Broken"
  PROVE  Verdict(r, e, t) # "Broken"
<1>1. e.form # "Broken"
  BY DEF Event, Form
<1>2. AuthorVerdict(r, e, t) # "Broken"
  BY DEF AuthorVerdict
<1>3. BodyVerdict(r, e) # "Broken"
  <2>1. e.body.type \in {"message", "reaction", "join", "leave", "deviceAdd", "deviceRevoke",
                         "dropRequest", "attachment", "unknown"}
    BY DEF Event, Body, MessageBody, ReactionBody, PlainBody, JoinBody, LeaveBody,
           DeviceAddBody, DeviceRevokeBody, DropBody
  <2> QED
    BY <2>1 DEF BodyVerdict, MessageVerdict, ReactionVerdict, JoinVerdict, LeaveVerdict,
                DeviceAddVerdict, DeviceRevokeVerdict, DropRequestVerdict
<1> QED
  BY <1>1, <1>2, <1>3 DEF Verdict

\* Every event in circulation was sequenced and admitted by the host's house.
HostMinted ==
  \A i \in Ids : minted[i].seq \in Held(rec[HostHouse]) /\ IdAt(HostHouse, minted[i].seq) = i

LEMMA HonestStep ==
  ASSUME TypeOK, ChainLinked, HostPrefix, HostMinted, [Next]_vars, MaxStray = 0
  PROVE  HostMinted' /\ \A g \in House : ~rec'[g].broken
<1> USE HouseAssumption
<1>0. \A h \in House : IsRecording(rec[h], Seqs)
  BY DEF TypeOK, Seqs
<1>1. ASSUME NEW h \in House, NEW e \in Event, e.seq \in Seqs, Ingests(h, e),
             Verdict(rec[h], e, now) # "Broken"
      PROVE  \A g \in House : ~rec'[g].broken
  <2>1. rec'[h] = Ingest(rec[h], e, now) /\ \A g \in House : g # h => rec'[g] = rec[g]
    BY <1>1 DEF Ingests, TypeOK
  <2>2. Ingest(rec[h], e, now) = rec[h] \/ Verdict(rec[h], e, now) = "ok"
    BY <1>1 DEF Ingest
  <2>3. Verdict(rec[h], e, now) = "ok" => Ingest(rec[h], e, now).broken = rec[h].broken
    BY <1>0, IngestMembers
  <2>4. \A g \in House : ~rec[g].broken
    BY DEF HostPrefix
  <2> QED
    BY <2>1, <2>2, <2>3, <2>4
<1>2. ASSUME NEW a \in Key, NEW n \in 0..MaxEvents-1, NEW b \in Bodies, HostSequence(a, n, b)
      PROVE  HostMinted' /\ \A g \in House : ~rec'[g].broken
  <2>1. PICK e : Fresh(e) /\ Mints(e) /\ Ingests(HostHouse, e) /\ Verdict(rec[HostHouse], e, now) = "ok"
    <3> DEFINE d == [id |-> NextId, form |-> "valid", visit |-> This, author |-> a,
                     seq |-> n, prev |-> HostPrev(n), body |-> b]
    <3>1. PICK e : Fresh(e) /\ Mints(e) /\ Ingests(HostHouse, e)
      BY <1>2, HostSequenceMints
    <3>2. minted' = Append(minted, d) /\ minted' = Append(minted, e) /\ minted \in Seq(Event)
      BY <1>2, <3>1 DEF HostSequence, Mints, TypeOK
    <3>3. e = d
      BY <3>2
    <3> QED
      BY <1>2, <3>1, <3>3 DEF HostSequence
  <2>2. e \in Event /\ e.seq \in Seqs /\ e.id = NextId
    BY <2>1 DEF Fresh
  <2>3. /\ Ids' = Ids \cup {NextId} /\ minted'[NextId] = e
        /\ \A i \in Ids : minted'[i] = minted[i]
    BY <2>1, MintType
  <2>4. rec'[HostHouse].slots = PutSlot(rec[HostHouse].slots, e.seq, [id |-> e.id, ev |-> e])
    <3>1. rec'[HostHouse] = Ingest(rec[HostHouse], e, now)
      BY <2>1 DEF Ingests, TypeOK
    <3> QED
      BY <1>0, <2>1, <2>2, <3>1, IngestSlots
  <2>5. e.seq \in Held(rec'[HostHouse]) /\ rec'[HostHouse].slots[e.seq].id = NextId
    BY <2>2, <2>4 DEF PutSlot
  <2>6. Keeps(rec[HostHouse], rec'[HostHouse])
    BY ChainStep
  <2>7. HostMinted'
    BY <2>3, <2>5, <2>6 DEF HostMinted, Keeps
  <2> QED
    BY <1>1, <2>1, <2>2, <2>7
<1>3. ASSUME minted' = minted PROVE HostMinted'
  <2>1. Keeps(rec[HostHouse], rec'[HostHouse])
    BY ChainStep
  <2> QED
    BY <1>3, <2>1 DEF HostMinted, Keeps
<1>4. ASSUME NEW h \in House, NEW i \in Ids, Deliver(h, minted[i])
      PROVE  HostMinted' /\ \A g \in House : ~rec'[g].broken
  <2> DEFINE e == minted[i]
  <2>1. e \in Event /\ e.seq \in Seqs /\ e.id = i
    BY DEF TypeOK, Seqs
  <2>2. Ingests(h, e) /\ minted' = minted
    BY <1>4 DEF Deliver, Ingests
  <2>3. e.seq \in Held(rec[HostHouse]) /\ rec[HostHouse].slots[e.seq].id = i
    BY DEF HostMinted
  <2>4. e.prev = ExpectedPrev(rec[HostHouse], e.seq)
    BY <2>3 DEF ChainLinked
  <2>5. \A n \in Held(rec[h]) : rec[h].slots[n].id = rec[HostHouse].slots[n].id
    BY DEF HostPrefix
  <2>6. ChainVerdict(rec[h], e) # "Broken"
    <3>1. e.seq \in Held(rec[h]) => rec[h].slots[e.seq].id = e.id
      BY <2>1, <2>3, <2>5
    <3>2. (e.seq > 0 => e.seq - 1 \in Held(rec[h])) => e.prev = ExpectedPrev(rec[h], e.seq)
      <4>1. e.seq \in Nat
        BY <2>1, BoundAssumption DEF Seqs
      <4> QED
        BY <2>4, <2>5, <4>1 DEF ExpectedPrev
    <3> HIDE DEF e
    <3> QED
      BY <3>1, <3>2 DEF ChainVerdict
  <2>7. Verdict(rec[h], e, now) # "Broken"
    BY <2>1, <2>6, BrokenByChain
  <2> HIDE DEF e
  <2> QED
    BY <1>1, <1>3, <2>1, <2>2, <2>7
<1>5. ASSUME NEW h \in House, NEW n, Honour(h, n)
      PROVE  HostMinted' /\ \A g \in House : ~rec'[g].broken
  <2>1. rec' = [rec EXCEPT ![h] = HonourDropRequest(rec[h], n)] /\ minted' = minted
    BY <1>5 DEF Honour
  <2>2. HonourDropRequest(rec[h], n).broken = rec[h].broken
    BY <1>0, HonourEffect
  <2>3. \A g \in House : rec'[g].broken = rec[g].broken
    BY <2>1, <2>2 DEF TypeOK
  <2> QED
    BY <1>3, <2>1, <2>3 DEF HostPrefix
<1>6. ASSUME rec' = rec, minted' = minted
      PROVE  HostMinted' /\ \A g \in House : ~rec'[g].broken
  BY <1>3, <1>6 DEF HostPrefix
<1>7. ASSUME NEW s, NEW a, NEW n, NEW p, NEW b, Stray(s, a, n, p, b) PROVE FALSE
  BY <1>7 DEF Stray, TypeOK
<1> QED
  BY <1>2, <1>4, <1>5, <1>6, <1>7 DEF Next, Tick, vars

\* Section 9: when every event is sequenced by the host, every recording is a
\* prefix of the host's and none is marked broken, for any number of houses and
\* any order, loss and repetition of deliveries (Recording::ingest).
THEOREM HonestPrefix ==
  ASSUME MaxStray = 0
  PROVE  Spec => []HostPrefix
<1> DEFINE I == TypeOK /\ ChainLinked
<1>1. Init => HostPrefix /\ HostMinted
  BY HouseAssumption DEF Init, HostPrefix, HostMinted, EmptyRecording
<1>2. I /\ HostPrefix /\ HostMinted /\ [Next]_vars => HostPrefix' /\ HostMinted'
  <2> SUFFICES ASSUME TypeOK, ChainLinked, HostPrefix, HostMinted, [Next]_vars
               PROVE  HostPrefix' /\ HostMinted'
    OBVIOUS
  <2>1. HostMinted' /\ \A g \in House : ~rec'[g].broken
    BY HonestStep
  <2>2. ASSUME NEW g \in House, NEW n \in Held(rec'[g])
        PROVE  n \in Held(rec'[HostHouse]) /\ rec'[g].slots[n].id = rec'[HostHouse].slots[n].id
    <3>1. Keeps(rec[HostHouse], rec'[HostHouse])
      BY HouseAssumption, ChainStep
    <3>2. CASE n \in Held(rec[g])
      <4>1. rec'[g].slots[n].id = rec[g].slots[n].id
        BY <3>2, ChainStep DEF Keeps
      <4> QED
        BY <3>1, <3>2, <4>1 DEF HostPrefix, Keeps
    <3>3. CASE n \notin Held(rec[g])
      <4>1. PICK i \in Ids' : minted'[i].id = i /\ Extends(rec[g], rec'[g], minted'[i])
        BY <3>3, ChainStep
      <4>2. n = minted'[i].seq /\ rec'[g].slots[n].id = i
        BY <3>3, <4>1 DEF Extends
      <4> QED
        BY <2>1, <4>2 DEF HostMinted
    <3> QED
      BY <3>2, <3>3
  <2> QED
    BY <2>1, <2>2 DEF HostPrefix
<1> QED
  BY <1>1, <1>2, TypeCorrect, ChainIsLinked, PTL DEF Spec

-----------------------------------------------------------------------------
(* Membership, read off the log.                                           *)

\* The fields that an admitted event leaves.
LEMMA AdmitsMembers ==
  ASSUME TypeOK, NEW g \in House, NEW e, Admits(g, e)
  PROVE  /\ IsRecording(rec[g], Seqs) /\ e \in Event
         /\ rec'[g].joins = JoinsAfter(rec[g], e)
         /\ rec'[g].revoked = RevokedAfter(rec[g], e)
         /\ rec'[g].inForce = InForceAfter(rec[g], e)
         /\ rec'[g].windows = WindowsAfter(rec[g], e)
         /\ AuthorVerdict(rec[g], e, now) = "ok" /\ BodyVerdict(rec[g], e) = "ok"
<1>1. IsRecording(rec[g], Seqs) /\ e \in Event
  BY DEF TypeOK, Seqs, Admits
<1>2. Members(rec'[g]) = Members(ApplyBody(rec[g], e)) /\ Verdict(rec[g], e, now) = "ok"
  BY DEF Admits
<1>3. AuthorVerdict(rec[g], e, now) = "ok" /\ BodyVerdict(rec[g], e) = "ok"
  BY <1>1, <1>2, EveryCheckPasses
<1>4. /\ ApplyBody(rec[g], e).joins = JoinsAfter(rec[g], e)
      /\ ApplyBody(rec[g], e).revoked = RevokedAfter(rec[g], e)
      /\ ApplyBody(rec[g], e).inForce = InForceAfter(rec[g], e)
      /\ ApplyBody(rec[g], e).windows = WindowsAfter(rec[g], e)
  BY <1>1, ApplyBodyMembers
<1> QED
  BY <1>1, <1>2, <1>3, <1>4 DEF Members

LEMMA QuietMembers ==
  ASSUME NEW g, Quiet(g)
  PROVE  /\ rec'[g].joins = rec[g].joins /\ rec'[g].revoked = rec[g].revoked
         /\ rec'[g].inForce = rec[g].inForce /\ rec'[g].windows = rec[g].windows
BY DEF Quiet, Members

\* The devices revoked in a log are among R, and none comes back above its revocation.
RevokedIn(L, R) ==
  \A m \in DOMAIN L : L[m].body.type = "deviceRevoke" => L[m].body.device \in R

Revives(e, d) == e.author = d \/ (e.body.type = "deviceAdd" /\ e.body.device = d)

NoRevival(L) ==
  \A n \in DOMAIN L : \A m \in DOMAIN L :
    m < n /\ L[m].body.type = "deviceRevoke" => ~Revives(L[n], L[m].body.device)

RevocationsHold == \A g \in House : RevokedIn(Log(g), rec[g].revoked) /\ NoRevival(Log(g))

\* R-37 and R-38 for every instance: above a device-revoke the revoked device
\* authors nothing and no device-add names it, whatever is delivered again, dropped
\* or signed outside the host's sequence (the revoked set of Recording).
THEOREM RevocationIsFinal == Spec => []RevokedStaysRevoked
<1> DEFINE I == TypeOK /\ ChainLinked
<1>1. Init => RevocationsHold
  BY DEF Init, RevocationsHold, RevokedIn, NoRevival, Log, EmptyRecording
<1>2. I /\ RevocationsHold /\ [Next]_vars => RevocationsHold'
  <2> SUFFICES ASSUME TypeOK, ChainLinked, RevocationsHold, [Next]_vars, NEW g \in House
               PROVE  RevokedIn(Log(g)', rec'[g].revoked) /\ NoRevival(Log(g)')
    BY DEF RevocationsHold
  <2> DEFINE L == Log(g)
             M == Log(g)'
             R == rec[g].revoked
             Q == rec'[g].revoked
  <2>1. RevokedIn(L, R) /\ NoRevival(L)
    BY DEF RevocationsHold
  <2>2. ASSUME M = L, R \subseteq Q PROVE RevokedIn(M, Q) /\ NoRevival(M)
    <3> HIDE DEF L, M, R, Q
    <3> QED
      BY <2>1, <2>2 DEF RevokedIn
  <2>3. ASSUME Quiet(g) PROVE RevokedIn(M, Q) /\ NoRevival(M)
    <3>1. M = L /\ Q = R
      BY <2>3, LogStep, QuietMembers
    <3> QED
      BY <2>2, <3>1
  <2>4. ASSUME NEW e, Repeats(g, e) PROVE RevokedIn(M, Q) /\ NoRevival(M)
    <3>1. M = L
      BY <2>4, LogStep
    <3>2. R \subseteq Q
      BY ChainStep
    <3> QED
      BY <2>2, <3>1, <3>2
  <2>5. ASSUME NEW e, Grows(g, e) PROVE RevokedIn(M, Q) /\ NoRevival(M)
    <3>1. LogGrows(L, M, e)
      BY <2>5, LogStep
    <3>2. /\ Q = RevokedAfter(rec[g], e) /\ AuthorVerdict(rec[g], e, now) = "ok"
          /\ BodyVerdict(rec[g], e) = "ok" /\ e \in Event
      BY <2>5, AdmitsMembers DEF Grows
    <3>3. \A d \in R : ~Revives(e, d)
      <4>1. e.author \notin R
        BY <3>2 DEF AuthorVerdict
      <4>2. e.body.type = "deviceAdd" => e.body.device \notin R
        BY <3>2 DEF BodyVerdict, DeviceAddVerdict
      <4> QED
        BY <4>1, <4>2 DEF Revives
    <3>4. R \subseteq Q /\ (e.body.type = "deviceRevoke" => e.body.device \in Q)
      BY <3>2 DEF RevokedAfter
    <3> HIDE DEF L, M, R, Q
    <3>5. RevokedIn(M, Q)
      BY <2>1, <3>1, <3>4 DEF RevokedIn, LogGrows
    <3>6. ASSUME NEW n \in DOMAIN M, NEW m \in DOMAIN M, m < n, M[m].body.type = "deviceRevoke"
          PROVE  ~Revives(M[n], M[m].body.device)
      <4>1. m \in DOMAIN L /\ M[m] = L[m]
        <5>1. m # e.seq
          BY <3>1, <3>6 DEF LogGrows
        <5> QED
          BY <3>1, <5>1 DEF LogGrows
      <4>2. CASE n \in DOMAIN L
        BY <2>1, <3>1, <3>6, <4>1, <4>2 DEF LogGrows, NoRevival
      <4>3. CASE n \notin DOMAIN L
        <5>1. M[n] = e
          BY <3>1, <4>3 DEF LogGrows
        <5>2. M[m].body.device \in R
          BY <2>1, <3>6, <4>1 DEF RevokedIn
        <5> QED
          BY <3>3, <5>1, <5>2
      <4> QED
        BY <4>2, <4>3
    <3> QED
      BY <3>5, <3>6 DEF NoRevival
  <2> QED
    BY <2>3, <2>4, <2>5, HouseStep
<1>3. I /\ RevocationsHold => RevokedStaysRevoked
  <2> SUFFICES ASSUME TypeOK, ChainLinked, RevocationsHold, NEW h \in House,
                      NEW n \in Held(rec[h]), NEW m \in 0..n-1,
                      EventAt(h, m).body.type = "deviceRevoke"
               PROVE  ~Revives(EventAt(h, n), EventAt(h, m).body.device)
    BY DEF RevokedStaysRevoked, Revives
  <2>1. Gapless(Log(h)) /\ DOMAIN Log(h) = Held(rec[h])
    BY LogGapless DEF Log
  <2>2. n \in Nat /\ m \in Held(rec[h]) /\ m < n
    BY <2>1 DEF Gapless
  <2>3. Log(h)[n] = EventAt(h, n) /\ Log(h)[m] = EventAt(h, m)
    BY <2>2 DEF Log
  <2> QED
    BY <2>1, <2>2, <2>3 DEF RevocationsHold, NoRevival
<1> QED
  BY <1>1, <1>2, <1>3, TypeCorrect, ChainIsLinked, PTL DEF Spec

\* Every join record stands for a join in the log: it is open only while no leave
\* of its person follows, and it was closed by something in the log.
JoinInLog(L, j) ==
  /\ j.seq \in DOMAIN L /\ L[j.seq].body.type = "join"
  /\ L[j.seq].body.person = j.person /\ L[j.seq].body.devices = j.devices
  /\ j.leftAt = None =>
       \A k \in DOMAIN L : k > j.seq /\ L[k].body.type = "leave" => L[k].body.person # j.person
  /\ j.leftAt # None => j.leftAt \in DOMAIN L

Listed(J, d) == \E j \in J : d \in j.devices

\* Every join in the log has its record.
JoinsRecorded(L, J) ==
  \A m \in DOMAIN L : L[m].body.type = "join" => \E j \in J : j.devices = L[m].body.devices

\* An unrevoked device is in force for the person it belongs to, once the log
\* claims it for anybody.
ForceFromLog(L, R, f) ==
  \A d \in Key \ R :
    /\ f[d] = None => \A m \in DOMAIN L : ~Claims(L[m], d)
    /\ f[d] # None => DeviceOf(L, d, f[d])

SpeakersLetIn(L) ==
  \A n \in DOMAIN L :
    L[n].body.type \notin {"join", "leave"} => MaySpeak(Below(L, n), L[n].author)

MembershipOk(L, J, R, f) ==
  /\ \A j \in J : JoinInLog(L, j)
  /\ JoinsRecorded(L, J)
  /\ ForceFromLog(L, R, f)
  /\ SpeakersLetIn(L)

MembershipFromLog ==
  \A g \in House : MembershipOk(Log(g), rec[g].joins, rec[g].revoked, rec[g].inForce)

\* A body that joins or leaves, adds or revokes has its fields.
LEMMA BodyFields ==
  ASSUME NEW e \in Event
  PROVE  /\ e.author \in Key /\ e.seq \in Nat /\ e.body \in Body
         /\ e.body.type = "join" => e.body.person \in Key /\ e.body.devices \in SUBSET Key
         /\ e.body.type = "leave" => e.body.person \in Key
         /\ e.body.type = "deviceAdd" => e.body.device \in Key /\ e.body.window \in Window
         /\ e.body.type = "deviceRevoke" => e.body.device \in Key
<1>1. e.author \in Key /\ e.seq \in Nat /\ e.body \in Body
  BY DEF Event
<1> QED
  BY <1>1 DEF Body, MessageBody, ReactionBody, PlainBody, JoinBody, LeaveBody,
              DeviceAddBody, DeviceRevokeBody, DropBody

\* What lies below an event stays as it is, and all of a log lies below its next.
LEMMA BelowGrows ==
  ASSUME NEW e, NEW L, NEW M, L = [m \in DOMAIN L |-> L[m]], LogGrows(L, M, e)
  PROVE  /\ \A n \in DOMAIN L : Below(M, n) = Below(L, n)
         /\ Below(M, e.seq) = L
<1>1. \A n \in DOMAIN L : { i \in DOMAIN M : i < n } = { i \in DOMAIN L : i < n }
  BY DEF LogGrows
<1>2. \A n \in DOMAIN L : \A i \in { j \in DOMAIN L : j < n } : M[i] = L[i]
  BY DEF LogGrows
<1>3. { i \in DOMAIN M : i < e.seq } = DOMAIN L
  BY DEF LogGrows
<1>4. \A i \in DOMAIN L : M[i] = L[i]
  BY DEF LogGrows
<1>5. Below(M, e.seq) = [m \in DOMAIN L |-> L[m]]
  BY <1>3, <1>4 DEF Below
<1> QED
  BY <1>1, <1>2, <1>5 DEF Below

\* The first claim on a device stays the first.
LEMMA FirstClaimGrows ==
  ASSUME NEW e, NEW L, NEW M, LogGrows(L, M, e), NEW m \in DOMAIN L, NEW k
  PROVE  FirstClaim(M, m, k) <=> FirstClaim(L, m, k)
BY DEF LogGrows, FirstClaim

LEMMA AddersGrow ==
  ASSUME NEW e, NEW L, NEW M, LogGrows(L, M, e), NEW S, WithAdders(M, S)
  PROVE  WithAdders(L, S)
<1> SUFFICES ASSUME NEW m \in DOMAIN L, NEW k \in S, L[m].body.type = "deviceAdd", FirstClaim(L, m, k)
             PROVE  L[m].author \in S
  BY DEF WithAdders
<1>1. m \in DOMAIN M /\ M[m] = L[m] /\ FirstClaim(M, m, k)
  BY FirstClaimGrows DEF LogGrows
<1> QED
  BY <1>1 DEF WithAdders

\* So a device belongs to whom it belonged to.
LEMMA DeviceOfGrows ==
  ASSUME NEW e, NEW L, NEW M, LogGrows(L, M, e), NEW k, NEW p, DeviceOf(L, k, p)
  PROVE  DeviceOf(M, k, p)
<1> SUFFICES ASSUME NEW S \in SUBSET Key, k \in S, WithAdders(M, S)
             PROVE  \E m \in DOMAIN M : \E u \in S :
                      M[m].body.type = "join" /\ M[m].body.person = p /\ FirstClaim(M, m, u)
  BY DEF DeviceOf
<1>1. PICK m \in DOMAIN L, u \in S :
        L[m].body.type = "join" /\ L[m].body.person = p /\ FirstClaim(L, m, u)
  BY AddersGrow DEF DeviceOf
<1>2. m \in DOMAIN M /\ M[m] = L[m] /\ FirstClaim(M, m, u)
  BY <1>1, FirstClaimGrows DEF LogGrows
<1> QED
  BY <1>1, <1>2

\* An author whom the checks pass may speak, and is in force for its person.
LEMMA SpeakerMaySpeak ==
  ASSUME NEW r, IsRecording(r, Seqs), NEW e \in Event, NEW t, AuthorVerdict(r, e, t) = "ok",
         e.body.type \notin {"join", "leave"},
         NEW L, NEW M, LogGrows(L, M, e), MembershipOk(L, r.joins, r.revoked, r.inForce)
  PROVE  MaySpeak(L, e.author) /\ r.inForce[e.author] # None
<1>0. e.author \in Key \ r.revoked /\ e.seq \in Nat
  BY BodyFields DEF AuthorVerdict
<1> DEFINE a == e.author
           sofar == { j \in r.joins : j.seq <= e.seq }
           listed == { j \in sofar : a \in j.devices }
           js == JoinsOf(r, a, e.seq)
<1>1. js # {} /\ \E j \in js : OpenAt(j, e.seq)
  BY DEF AuthorVerdict, AuthorStatus
<1>2. ASSUME NEW j \in r.joins
      PROVE  JoinInLog(L, j) /\ j.seq \in DOMAIN L /\ j.seq \in Nat /\ j.seq < e.seq
  BY DEF MembershipOk, JoinInLog, LogGrows
<1>3. sofar = r.joins
  BY <1>0, <1>2
<1>4. ASSUME NEW j \in r.joins, OpenAt(j, e.seq)
      PROVE  L[j.seq].body.type = "join" /\ L[j.seq].body.person = j.person
             /\ L[j.seq].body.devices = j.devices /\ Stays(L, j.seq)
  <2>1. j.leftAt = None
    <3> SUFFICES ASSUME j.leftAt # None PROVE FALSE
      OBVIOUS
    <3>1. j.leftAt \in DOMAIN L /\ j.leftAt > e.seq
      BY <1>2, <1>4 DEF JoinInLog, OpenAt
    <3>2. j.leftAt \in Nat /\ j.leftAt < e.seq
      BY <3>1 DEF LogGrows
    <3> QED
      BY <1>0, <3>1, <3>2
  <2>2. \A k \in DOMAIN L : k \in Nat
    BY DEF LogGrows
  <2> QED
    BY <1>2, <2>1, <2>2 DEF JoinInLog, Stays
<1>5. CASE listed # {}
  <2>1. PICK j \in r.joins : a \in j.devices /\ OpenAt(j, e.seq)
    BY <1>1, <1>5 DEF JoinsOf
  <2>2. j.seq \in JoinsOfKey(L, a) /\ Stays(L, j.seq) /\ Claims(L[j.seq], a)
    BY <1>2, <1>4, <2>1 DEF JoinsOfKey, Claims
  <2>3. r.inForce[a] # None
    BY <1>0, <1>2, <2>2 DEF MembershipOk, ForceFromLog
  <2> QED
    BY <2>2, <2>3 DEF MaySpeak
<1>6. CASE listed = {}
  <2>1. PICK j \in r.joins : j.person = r.inForce[a] /\ OpenAt(j, e.seq)
    BY <1>1, <1>6 DEF JoinsOf
  <2>2. r.inForce[a] # None
    BY <2>1, KeyAssumption DEF IsRecording, JoinRecord
  <2>3. DeviceOf(L, a, j.person)
    BY <1>0, <2>1, <2>2 DEF MembershipOk, ForceFromLog
  <2>4. JoinsOfKey(L, a) = {}
    BY <1>3, <1>6 DEF MembershipOk, JoinsRecorded, JoinsOfKey
  <2>5. j.seq \in DOMAIN L /\ L[j.seq].body.type = "join" /\ Stays(L, j.seq)
        /\ DeviceOf(L, a, L[j.seq].body.person)
    BY <1>2, <1>4, <2>1, <2>3
  <2> QED
    BY <2>2, <2>4, <2>5 DEF MaySpeak
<1> QED
  BY <1>5, <1>6

\* An admitted event extends the log by an author who was let in.
LEMMA SpeakerStep ==
  ASSUME NEW r, IsRecording(r, Seqs), NEW e \in Event, NEW t, AuthorVerdict(r, e, t) = "ok",
         NEW L, NEW M, L = [m \in DOMAIN L |-> L[m]], LogGrows(L, M, e),
         MembershipOk(L, r.joins, r.revoked, r.inForce)
  PROVE  SpeakersLetIn(M)
<1> SUFFICES ASSUME NEW n \in DOMAIN M, M[n].body.type \notin {"join", "leave"}
             PROVE  MaySpeak(Below(M, n), M[n].author)
  BY DEF SpeakersLetIn
<1>1. CASE n \in DOMAIN L
  <2>1. Below(M, n) = Below(L, n) /\ M[n] = L[n]
    BY <1>1, BelowGrows DEF LogGrows
  <2> QED
    BY <1>1, <2>1 DEF MembershipOk, SpeakersLetIn
<1>2. CASE n \notin DOMAIN L
  <2>1. n = e.seq /\ M[n] = e
    BY <1>2 DEF LogGrows
  <2>2. Below(M, n) = L
    BY <2>1, BelowGrows
  <2>3. MaySpeak(L, e.author)
    BY <2>1, SpeakerMaySpeak
  <2> QED
    BY <2>1, <2>2, <2>3
<1> QED
  BY <1>1, <1>2

\* The join records and the devices in force follow the log.
LEMMA MembershipStep ==
  ASSUME NEW r, IsRecording(r, Seqs), NEW e \in Event, NEW t, AuthorVerdict(r, e, t) = "ok",
         BodyVerdict(r, e) = "ok",
         NEW L, NEW M, LogGrows(L, M, e), MembershipOk(L, r.joins, r.revoked, r.inForce)
  PROVE  /\ \A j \in JoinsAfter(r, e) : JoinInLog(M, j)
         /\ JoinsRecorded(M, JoinsAfter(r, e))
         /\ ForceFromLog(M, RevokedAfter(r, e), InForceAfter(r, e))
<1> DEFINE b == e.body
           J == JoinsAfter(r, e)
<1>0. /\ e.author \in Key /\ e.seq \in Nat
      /\ b.type = "join" => b.person \in Key /\ b.devices \in SUBSET Key
      /\ b.type = "deviceAdd" => b.device \in Key
      /\ b.type = "deviceRevoke" => b.device \in Key
  BY BodyFields
<1>1. /\ M[e.seq] = e /\ DOMAIN M = DOMAIN L \cup {e.seq}
      /\ \A n \in DOMAIN L : n \in Nat /\ n < e.seq /\ M[n] = L[n]
  BY DEF LogGrows
<1>2. \A j \in r.joins : JoinInLog(L, j) /\ j \in JoinRecord
  BY DEF MembershipOk, IsRecording
<1>3. ASSUME NEW j \in r.joins, b.type = "leave" /\ j.leftAt = None => b.person # j.person
      PROVE  JoinInLog(M, j)
  BY <1>1, <1>2, <1>3 DEF JoinInLog
<1>4. ASSUME b.type = "leave", NEW j \in r.joins \ OpenJoinsBelow(r, b.person, e.seq)
      PROVE  JoinInLog(M, j)
  <2>1. j.seq < e.seq
    BY <1>1, <1>2 DEF JoinInLog
  <2> QED
    BY <1>3, <1>4, <2>1 DEF OpenJoinsBelow
<1>5. ASSUME b.type = "leave", NEW j \in OpenJoinsBelow(r, b.person, e.seq)
      PROVE  JoinInLog(M, [j EXCEPT !.leftAt = e.seq])
  <2>1. JoinInLog(L, j) /\ j \in JoinRecord
    BY <1>2 DEF OpenJoinsBelow
  <2> DEFINE i == [j EXCEPT !.leftAt = e.seq]
  <2>2. i.seq = j.seq /\ i.person = j.person /\ i.devices = j.devices /\ i.leftAt = e.seq
    BY <2>1 DEF JoinRecord
  <2>3. e.seq # None
    BY <1>0, NoneAssumption
  <2> HIDE DEF i
  <2>4. JoinInLog(M, i)
    BY <1>1, <2>1, <2>2, <2>3 DEF JoinInLog
  <2> QED
    BY <2>4 DEF i
<1>6. ASSUME b.type = "join"
      PROVE  JoinInLog(M, [person |-> b.person, seq |-> e.seq, devices |-> b.devices, leftAt |-> None])
  <2> DEFINE i == [person |-> b.person, seq |-> e.seq, devices |-> b.devices, leftAt |-> None]
  <2>1. i.seq = e.seq /\ i.person = b.person /\ i.devices = b.devices /\ i.leftAt = None
    OBVIOUS
  <2>2. \A k \in DOMAIN M : ~(k > e.seq)
    BY <1>0, <1>1
  <2> HIDE DEF i
  <2>3. JoinInLog(M, i)
    BY <1>1, <1>6, <2>1, <2>2 DEF JoinInLog
  <2> QED
    BY <2>3 DEF i
<1>7. \A j \in J : JoinInLog(M, j)
  BY <1>3, <1>4, <1>5, <1>6 DEF JoinsAfter
<1>8. JoinsRecorded(M, J)
  <2> SUFFICES ASSUME NEW m \in DOMAIN M, M[m].body.type = "join"
               PROVE  \E j \in J : j.devices = M[m].body.devices
    BY DEF JoinsRecorded
  <2>1. CASE m = e.seq
    <3> DEFINE i == [person |-> b.person, seq |-> e.seq, devices |-> b.devices, leftAt |-> None]
    <3>1. i \in J /\ i.devices = b.devices
      BY <1>1, <2>1 DEF JoinsAfter
    <3> HIDE DEF i, J
    <3> QED
      BY <1>1, <2>1, <3>1
  <2>2. CASE m # e.seq
    <3>1. PICK j \in r.joins : j.devices = M[m].body.devices
      BY <1>1, <2>2 DEF MembershipOk, JoinsRecorded
    <3>2. CASE j \in J
      BY <3>1, <3>2
    <3>3. CASE j \notin J
      <4>1. [j EXCEPT !.leftAt = e.seq] \in J
        BY <3>1, <3>3 DEF JoinsAfter
      <4>2. [j EXCEPT !.leftAt = e.seq].devices = j.devices
        BY <1>2, <3>1 DEF JoinRecord
      <4> HIDE DEF J
      <4> QED
        BY <3>1, <4>1, <4>2
    <3> QED
      BY <3>2, <3>3
  <2> QED
    BY <2>1, <2>2
<1>9. ASSUME NEW d \in Key \ RevokedAfter(r, e)
      PROVE  /\ InForceAfter(r, e)[d] = None => \A m \in DOMAIN M : ~Claims(M[m], d)
             /\ InForceAfter(r, e)[d] # None => DeviceOf(M, d, InForceAfter(r, e)[d])
  <2> DEFINE g == InForceAfter(r, e)
  <2>1. d \in Key \ r.revoked
    BY <1>9 DEF RevokedAfter
  <2>2. CASE r.inForce[d] # None
    <3>1. g[d] = r.inForce[d]
      BY <1>0, <1>9, <2>1, <2>2 DEF InForceAfter, RevokedAfter, OrInsert, IsRecording
    <3>2. DeviceOf(L, d, r.inForce[d])
      BY <2>1, <2>2 DEF MembershipOk, ForceFromLog
    <3> QED
      BY <2>2, <3>1, <3>2, DeviceOfGrows
  <2>3. CASE r.inForce[d] = None
    <3>1. \A m \in DOMAIN L : ~Claims(M[m], d)
      BY <1>1, <2>1, <2>3 DEF MembershipOk, ForceFromLog
    <3>2. CASE ~Claims(e, d)
      <4>1. g[d] = None
        BY <1>0, <1>9, <2>1, <2>3, <3>2 DEF InForceAfter, RevokedAfter, OrInsert, IsRecording, Claims
      <4> QED
        BY <1>1, <3>1, <3>2, <4>1
    <3>3. ASSUME Claims(e, d) PROVE FirstClaim(M, e.seq, d)
      BY <1>0, <1>1, <3>1, <3>3 DEF FirstClaim
    <3>4. CASE b.type = "join" /\ d \in b.devices
      <4>1. g[d] = b.person
        BY <2>1, <2>3, <3>4 DEF InForceAfter, OrInsert
      <4>2. FirstClaim(M, e.seq, d)
        BY <3>3, <3>4 DEF Claims
      <4>3. DeviceOf(M, d, b.person)
        BY <1>1, <3>4, <4>2 DEF DeviceOf
      <4>4. b.person # None
        BY <1>0, <3>4, KeyAssumption
      <4> QED
        BY <4>1, <4>3, <4>4
    <3>5. CASE b.type = "deviceAdd" /\ b.device = d
      <4>1. r.inForce[e.author] # None
        BY <3>5, SpeakerMaySpeak
      <4>2. g[d] = r.inForce[e.author]
        BY <2>1, <2>3, <3>5, <4>1 DEF InForceAfter, OrInsert, PersonOf
      <4>3. e.author \in Key \ r.revoked
        BY <1>0 DEF AuthorVerdict
      <4>4. DeviceOf(L, e.author, r.inForce[e.author])
        BY <4>1, <4>3 DEF MembershipOk, ForceFromLog
      <4>5. FirstClaim(M, e.seq, d)
        BY <3>3, <3>5 DEF Claims
      <4>6. ASSUME NEW S \in SUBSET Key, d \in S, WithAdders(M, S)
            PROVE  \E m \in DOMAIN M : \E u \in S :
                     M[m].body.type = "join" /\ M[m].body.person = r.inForce[e.author]
                       /\ FirstClaim(M, m, u)
        <5>1. e.author \in S
          BY <1>1, <3>5, <4>5, <4>6 DEF WithAdders
        <5>2. DeviceOf(M, e.author, r.inForce[e.author])
          BY <4>4, DeviceOfGrows
        <5> QED
          BY <4>6, <5>1, <5>2 DEF DeviceOf
      <4>7. DeviceOf(M, d, r.inForce[e.author])
        BY <4>6 DEF DeviceOf
      <4> QED
        BY <4>1, <4>2, <4>7
    <3> QED
      BY <3>2, <3>4, <3>5 DEF Claims
  <2> QED
    BY <2>2, <2>3
<1> QED
  BY <1>7, <1>8, <1>9 DEF ForceFromLog

\* R-27 and R-30 for every instance in which no house is offered an event it holds
\* (a join delivered again after a leave does re-admit its person): whoever authors
\* an event is a device that an open join lists, or one added, over any number of
\* device-adds, to a person one of whose joins is open; and is not revoked.
THEOREM MembersSpeak ==
  ASSUME Redeliver = FALSE
  PROVE  Spec => []OnlyMembersSpeak
<1> DEFINE I == TypeOK /\ ChainLinked
<1>1. Init => MembershipFromLog
  <2> SUFFICES ASSUME Init, NEW g \in House
               PROVE  MembershipOk(Log(g), rec[g].joins, rec[g].revoked, rec[g].inForce)
    BY DEF MembershipFromLog
  <2>1. rec[g] = EmptyRecording
    BY DEF Init
  <2>2. DOMAIN Log(g) = {} /\ rec[g].joins = {} /\ \A d \in Key : rec[g].inForce[d] = None
    BY <2>1 DEF EmptyRecording, Log
  <2> QED
    BY <2>2 DEF MembershipOk, JoinsRecorded, ForceFromLog, SpeakersLetIn
<1>2. I /\ MembershipFromLog /\ [Next]_vars => MembershipFromLog'
  <2> SUFFICES ASSUME TypeOK, ChainLinked, MembershipFromLog, [Next]_vars, NEW g \in House
               PROVE  MembershipOk(Log(g)', rec'[g].joins, rec'[g].revoked, rec'[g].inForce)
    BY DEF MembershipFromLog
  <2>1. MembershipOk(Log(g), rec[g].joins, rec[g].revoked, rec[g].inForce)
    BY DEF MembershipFromLog
  <2>2. CASE Quiet(g)
    <3>1. /\ Log(g)' = Log(g) /\ rec'[g].joins = rec[g].joins
          /\ rec'[g].revoked = rec[g].revoked /\ rec'[g].inForce = rec[g].inForce
      BY <2>2, LogStep, QuietMembers
    <3> QED
      BY <2>1, <3>1
  <2>3. ASSUME NEW e, Grows(g, e)
        PROVE  MembershipOk(Log(g)', rec'[g].joins, rec'[g].revoked, rec'[g].inForce)
    <3>1. LogGrows(Log(g), Log(g)', e)
      BY <2>3, LogStep
    <3>2. /\ IsRecording(rec[g], Seqs) /\ e \in Event /\ AuthorVerdict(rec[g], e, now) = "ok"
          /\ BodyVerdict(rec[g], e) = "ok"
          /\ rec'[g].joins = JoinsAfter(rec[g], e) /\ rec'[g].inForce = InForceAfter(rec[g], e)
          /\ rec'[g].revoked = RevokedAfter(rec[g], e)
      BY <2>3, AdmitsMembers DEF Grows
    <3>3. Log(g) = [m \in DOMAIN Log(g) |-> Log(g)[m]]
      BY DEF Log
    <3>4. SpeakersLetIn(Log(g)')
      BY <2>1, <3>1, <3>2, <3>3, SpeakerStep
    <3>5. /\ \A j \in JoinsAfter(rec[g], e) : JoinInLog(Log(g)', j)
          /\ JoinsRecorded(Log(g)', JoinsAfter(rec[g], e))
          /\ ForceFromLog(Log(g)', RevokedAfter(rec[g], e), InForceAfter(rec[g], e))
      BY <2>1, <3>1, <3>2, MembershipStep
    <3> QED
      BY <3>2, <3>4, <3>5 DEF MembershipOk
  <2> QED
    BY <2>2, <2>3, HouseStep DEF Repeats
<1>3. MembershipFromLog => NobodySpeaksAfterLeaving
  <2> SUFFICES ASSUME MembershipFromLog, NEW h \in House, NEW n \in Held(rec[h]),
                      EventAt(h, n).body.type \notin {"join", "leave"}
               PROVE  MaySpeak(Below(Log(h), n), EventAt(h, n).author)
    BY DEF NobodySpeaksAfterLeaving
  <2>1. n \in DOMAIN Log(h) /\ Log(h)[n] = EventAt(h, n)
    BY DEF Log
  <2> QED
    BY <2>1 DEF MembershipFromLog, MembershipOk, SpeakersLetIn
<1> QED
  BY <1>1, <1>2, <1>3, TypeCorrect, ChainIsLinked, RevocationIsFinal, PTL DEF Spec, OnlyMembersSpeak

-----------------------------------------------------------------------------
(* The membership is a function of the log.                                *)

\* The membership N is what the body of e makes of the membership M.
Follows(M, e, N) ==
  \E r : IsRecording(r, Seqs) /\ Members(r) = M /\ N = Members(ApplyBody(r, e))

LEMMA FollowsIsFunction ==
  ASSUME NEW M, NEW e, NEW N, NEW O, Follows(M, e, N), Follows(M, e, O)
  PROVE  N = O
<1>1. PICK r : IsRecording(r, Seqs) /\ Members(r) = M /\ N = Members(ApplyBody(r, e))
  BY DEF Follows
<1>2. PICK q : IsRecording(q, Seqs) /\ Members(q) = M /\ O = Members(ApplyBody(q, e))
  BY DEF Follows
<1>3. /\ r.joins = q.joins /\ r.revoked = q.revoked
      /\ r.inForce = q.inForce /\ r.windows = q.windows
  BY <1>1, <1>2 DEF Members
<1>4. OpenJoinsBelow(r, e.body.person, e.seq) = OpenJoinsBelow(q, e.body.person, e.seq)
  BY <1>3 DEF OpenJoinsBelow
<1>5. JoinsAfter(r, e) = JoinsAfter(q, e)
  BY <1>3, <1>4 DEF JoinsAfter
<1>6. PersonOf(r, e.author) = PersonOf(q, e.author)
  BY <1>3 DEF PersonOf
<1>7. InForceAfter(r, e) = InForceAfter(q, e)
  BY <1>3, <1>6 DEF InForceAfter
<1>8. RevokedAfter(r, e) = RevokedAfter(q, e) /\ WindowsAfter(r, e) = WindowsAfter(q, e)
  BY <1>3 DEF RevokedAfter, WindowsAfter
<1>9. Members(ApplyBody(r, e)) = <<JoinsAfter(r, e), RevokedAfter(r, e), InForceAfter(r, e), WindowsAfter(r, e)>>
  BY <1>1, ApplyBodyMembers DEF Members
<1>10. Members(ApplyBody(q, e)) = <<JoinsAfter(q, e), RevokedAfter(q, e), InForceAfter(q, e), WindowsAfter(q, e)>>
  BY <1>2, ApplyBodyMembers DEF Members
<1> QED
  BY <1>1, <1>2, <1>5, <1>7, <1>8, <1>9, <1>10

\* The seq after the last event of a log.
EndOf(L, n) == n \in Nat /\ n \notin DOMAIN L /\ (n > 0 => n - 1 \in DOMAIN L)

\* T[n] is the membership below n of a log that ends with the membership M.
History(L, T, M) ==
  /\ T = [n \in Nat |-> T[n]]
  /\ T[0] = Members(EmptyRecording)
  /\ \A n \in DOMAIN L : Follows(T[n], L[n], T[n + 1])
  /\ \A n \in Nat : EndOf(L, n) => T[n] = M

HistoryKept == \A g \in House : \E T : History(Log(g), T, Members(rec[g]))

LEMMA HistoryStep ==
  ASSUME NEW r, IsRecording(r, Seqs), NEW e \in Event, NEW L, NEW M, Gapless(L), LogGrows(L, M, e),
         e.seq > 0 => e.seq - 1 \in DOMAIN L, NEW T, History(L, T, Members(r))
  PROVE  \E U : History(M, U, Members(ApplyBody(r, e)))
<1> DEFINE N == Members(ApplyBody(r, e))
           k == e.seq
           U == [n \in Nat |-> IF n = k + 1 THEN N ELSE T[n]]
<1>0. k \in Nat /\ k + 1 \in Nat /\ k + 1 # 0 /\ k # k + 1
  BY BodyFields
<1>1. /\ M[k] = e /\ DOMAIN M = DOMAIN L \cup {k}
      /\ \A n \in DOMAIN L : n \in Nat /\ n < k /\ M[n] = L[n]
  BY DEF LogGrows
<1>2. k \notin DOMAIN L
  <2>1. ~(k < k)
    BY <1>0
  <2> QED
    BY <1>1, <2>1
<1>3. T[k] = Members(r)
  BY <1>0, <1>2 DEF History, EndOf
<1>4. U[k] = T[k] /\ U[k + 1] = N /\ U[0] = T[0]
  BY <1>0
<1>5. Follows(U[k], e, U[k + 1])
  BY <1>3, <1>4 DEF Follows
<1>6. \A n \in DOMAIN L : U[n] = T[n] /\ U[n + 1] = T[n + 1]
  <2> SUFFICES ASSUME NEW n \in DOMAIN L PROVE U[n] = T[n] /\ U[n + 1] = T[n + 1]
    OBVIOUS
  <2>1. n \in Nat /\ n + 1 \in Nat /\ n # k + 1 /\ n + 1 # k + 1
    BY <1>0, <1>1
  <2> QED
    BY <2>1
<1>7. \A n \in Nat : EndOf(M, n) => n = k + 1
  <2> SUFFICES ASSUME NEW n \in Nat, EndOf(M, n), n # k + 1 PROVE FALSE
    OBVIOUS
  <2>1. n \notin DOMAIN L /\ n # k /\ (n > 0 => n - 1 \in DOMAIN L \cup {k})
    BY <1>1 DEF EndOf
  <2>2. CASE n = 0
    <3>1. k > 0 /\ k - 1 \in DOMAIN L /\ 0 \in 0..(k - 1)
      BY <1>0, <2>1, <2>2
    <3> QED
      BY <2>1, <2>2, <3>1 DEF Gapless
  <2>3. CASE n > 0
    <3>1. n - 1 \in DOMAIN L
      BY <1>0, <2>1, <2>3
    <3>2. n - 1 < k
      BY <1>1, <3>1
    <3>3. n < k
      BY <1>0, <2>1, <3>2
    <3>4. k > 0 /\ k - 1 \in DOMAIN L /\ n \in 0..(k - 1)
      BY <1>0, <3>3
    <3> QED
      BY <2>1, <3>4 DEF Gapless
  <2> QED
    BY <2>2, <2>3
<1>8. U = [n \in Nat |-> U[n]]
  OBVIOUS
<1> HIDE DEF U, N, k
<1>9. \A n \in DOMAIN M : Follows(U[n], M[n], U[n + 1])
  BY <1>1, <1>5, <1>6 DEF History
<1>10. History(M, U, N)
  BY <1>4, <1>7, <1>8, <1>9 DEF History
<1> QED
  BY <1>10 DEF N

\* Two histories of one log agree.
LEMMA HistoriesAgree ==
  ASSUME NEW L, Gapless(L), NEW T, NEW U, NEW M, NEW N, History(L, T, M), History(L, U, N),
         NEW B \in Nat, B \notin DOMAIN L
  PROVE  M = N
<1> DEFINE Gap == { n \in Nat : n \notin DOMAIN L }
<1>1. PICK k \in Gap : \A n \in Gap : k <= n
  <2>1. Gap \in SUBSET Nat /\ Gap # {}
    OBVIOUS
  <2> HIDE DEF Gap
  <2> QED
    BY <2>1, LeastNumber
<1>2. k \in Nat /\ EndOf(L, k)
  <2>1. k > 0 => k - 1 \in Nat /\ ~(k <= k - 1)
    OBVIOUS
  <2> QED
    BY <1>1, <2>1 DEF EndOf
<1> DEFINE Bad == { n \in Nat : (n > 0 => n - 1 \in DOMAIN L) /\ T[n] # U[n] }
<1>3. Bad = {}
  <2> SUFFICES ASSUME Bad # {} PROVE FALSE
    OBVIOUS
  <2>1. PICK m \in Bad : \A n \in Bad : m <= n
    <3>1. Bad \in SUBSET Nat
      OBVIOUS
    <3> HIDE DEF Bad
    <3> QED
      BY <3>1, LeastNumber
  <2>2. m \in Nat /\ T[m] # U[m] /\ (m > 0 => m - 1 \in DOMAIN L)
    OBVIOUS
  <2>3. m # 0
    BY <2>2 DEF History
  <2> DEFINE p == m - 1
  <2>4. p \in DOMAIN L /\ p \in Nat /\ p + 1 = m /\ ~(m <= p)
    BY <2>2, <2>3
  <2>5. p > 0 => p - 1 \in DOMAIN L
    <3>1. p > 0 => p - 1 \in 0..p
      BY <2>4
    <3> QED
      BY <2>4, <3>1 DEF Gapless
  <2> HIDE DEF p
  <2>6. T[p] = U[p]
    BY <2>1, <2>4, <2>5
  <2>7. Follows(T[p], L[p], T[p + 1]) /\ Follows(U[p], L[p], U[p + 1])
    BY <2>4 DEF History
  <2>8. T[p + 1] = U[p + 1]
    BY <2>6, <2>7, FollowsIsFunction
  <2> QED
    BY <2>2, <2>4, <2>8
<1>4. T[k] = U[k]
  BY <1>2, <1>3 DEF EndOf
<1> QED
  BY <1>2, <1>4 DEF History

\* Houses that hold the same log have the same membership, for every instance in
\* which no house is offered an event it holds: the maps of Recording depend on the
\* log alone, not on the time of an admission nor on what was dropped since.
THEOREM MembershipIsDerived ==
  ASSUME Redeliver = FALSE
  PROVE  Spec => []SameLogSameMembership
<1> DEFINE I == TypeOK /\ ChainLinked
<1>1. Init => HistoryKept
  <2> SUFFICES ASSUME Init, NEW g \in House PROVE \E T : History(Log(g), T, Members(rec[g]))
    BY DEF HistoryKept
  <2>1. rec[g] = EmptyRecording
    BY DEF Init
  <2>2. DOMAIN Log(g) = {}
    BY <2>1 DEF EmptyRecording, Log
  <2> DEFINE T == [n \in Nat |-> Members(EmptyRecording)]
  <2>3. T = [n \in Nat |-> T[n]] /\ \A n \in Nat : T[n] = Members(EmptyRecording)
    OBVIOUS
  <2> HIDE DEF T
  <2>4. History(Log(g), T, Members(rec[g]))
    BY <2>1, <2>2, <2>3 DEF History
  <2> QED
    BY <2>4
<1>2. I /\ HistoryKept /\ [Next]_vars => HistoryKept'
  <2> SUFFICES ASSUME TypeOK, ChainLinked, HistoryKept, [Next]_vars, NEW g \in House
               PROVE  \E T : History(Log(g)', T, Members(rec'[g]))
    BY DEF HistoryKept
  <2>1. PICK T : History(Log(g), T, Members(rec[g]))
    BY DEF HistoryKept
  <2>2. CASE Quiet(g)
    <3>1. Log(g)' = Log(g) /\ Members(rec'[g]) = Members(rec[g])
      BY <2>2, LogStep DEF Quiet
    <3> QED
      BY <2>1, <3>1
  <2>3. ASSUME NEW e, Grows(g, e) PROVE \E U : History(Log(g)', U, Members(rec'[g]))
    <3>1. LogGrows(Log(g), Log(g)', e) /\ Gapless(Log(g))
      BY <2>3, LogStep, LogGapless
    <3>2. /\ IsRecording(rec[g], Seqs) /\ e \in Event /\ Verdict(rec[g], e, now) = "ok"
          /\ Members(rec'[g]) = Members(ApplyBody(rec[g], e))
      BY <2>3 DEF Grows, Admits, TypeOK, Seqs
    <3>3. e.seq > 0 => e.seq - 1 \in DOMAIN Log(g)
      BY <3>2, AdmitsOnlyLinked DEF Log
    <3> QED
      BY <2>1, <3>1, <3>2, <3>3, HistoryStep
  <2> QED
    BY <2>2, <2>3, HouseStep DEF Repeats
<1>3. I /\ HistoryKept => SameLogSameMembership
  <2> SUFFICES ASSUME TypeOK, ChainLinked, HistoryKept, NEW g \in House, NEW h \in House, SameLog(g, h)
               PROVE  Members(rec[g]) = Members(rec[h])
    BY DEF SameLogSameMembership, Members
  <2>1. Log(g) = Log(h)
    BY DEF SameLog, Log
  <2>2. Gapless(Log(g))
    BY LogGapless
  <2>3. MaxEvents \in Nat /\ MaxEvents \notin DOMAIN Log(g)
    <3>1. IsRecording(rec[g], Seqs) /\ DOMAIN Log(g) = Held(rec[g])
      BY DEF TypeOK, Seqs, Log
    <3> QED
      BY <3>1, BoundAssumption DEF IsRecording, Seqs
  <2>4. PICK T : History(Log(g), T, Members(rec[g]))
    BY DEF HistoryKept
  <2>5. PICK U : History(Log(h), U, Members(rec[h]))
    BY DEF HistoryKept
  <2> QED
    BY <2>1, <2>2, <2>3, <2>4, <2>5, HistoriesAgree
<1> QED
  BY <1>1, <1>2, <1>3, TypeCorrect, ChainIsLinked, PTL DEF Spec

-----------------------------------------------------------------------------
(* Drops and verdicts.                                                     *)

\* Two recordings that differ at most in what they dropped.
AlikeButDrops(r, q) ==
  /\ Held(r) = Held(q) /\ \A n \in Held(r) : r.slots[n].id = q.slots[n].id
  /\ Members(r) = Members(q) /\ r.broken = q.broken

\* They give the same verdict on anything but a drop-request: every other check
\* reads identifiers and membership, never the bytes that a drop erases.
LEMMA VerdictIgnoresDrops ==
  ASSUME NEW r, NEW q, AlikeButDrops(r, q), NEW e \in Event, e.body.type # "dropRequest",
         e.seq > 0 => e.seq - 1 \in Held(r), NEW t
  PROVE  Verdict(r, e, t) = Verdict(q, e, t)
<1>1. /\ DOMAIN r.slots = DOMAIN q.slots /\ \A n \in DOMAIN r.slots : r.slots[n].id = q.slots[n].id
      /\ r.joins = q.joins /\ r.revoked = q.revoked
      /\ r.inForce = q.inForce /\ r.windows = q.windows /\ r.broken = q.broken
  BY DEF AlikeButDrops, Members
<1>2. ExpectedPrev(r, e.seq) = ExpectedPrev(q, e.seq)
  <2>1. e.seq \in Nat
    BY BodyFields
  <2> QED
    BY <1>1, <2>1 DEF ExpectedPrev
<1>3. ChainVerdict(r, e) = ChainVerdict(q, e)
  BY <1>1, <1>2 DEF ChainVerdict
<1>4. JoinsOf(r, e.author, e.seq) = JoinsOf(q, e.author, e.seq)
  BY <1>1 DEF JoinsOf
<1>5. AuthorVerdict(r, e, t) = AuthorVerdict(q, e, t)
  BY <1>1, <1>4 DEF AuthorVerdict, AuthorStatus
<1>6. \A id : StoredBelow(r, id, e.seq) <=> StoredBelow(q, id, e.seq)
  BY <1>1 DEF StoredBelow
<1>7. OpenJoinsBelow(r, e.body.person, e.seq) = OpenJoinsBelow(q, e.body.person, e.seq)
  BY <1>1 DEF OpenJoinsBelow
<1>8. PersonOf(r, e.author) = PersonOf(q, e.author)
  BY <1>1 DEF PersonOf
<1>9. BodyVerdict(r, e) = BodyVerdict(q, e)
  <2>1. MessageVerdict(r, e) = MessageVerdict(q, e) /\ ReactionVerdict(r, e) = ReactionVerdict(q, e)
    BY <1>6 DEF MessageVerdict, ReactionVerdict
  <2>2. JoinVerdict(r, e) = JoinVerdict(q, e) /\ LeaveVerdict(r, e) = LeaveVerdict(q, e)
    BY <1>7 DEF JoinVerdict, LeaveVerdict
  <2>3. DeviceAddVerdict(r, e) = DeviceAddVerdict(q, e) /\ DeviceRevokeVerdict(r, e) = DeviceRevokeVerdict(q, e)
    BY <1>1, <1>8 DEF DeviceAddVerdict, DeviceRevokeVerdict
  <2>4. e.body.type \in {"message", "reaction", "join", "leave", "deviceAdd", "deviceRevoke",
                         "attachment", "unknown"}
    BY DEF Event, Body, MessageBody, ReactionBody, PlainBody, JoinBody, LeaveBody,
           DeviceAddBody, DeviceRevokeBody, DropBody
  <2> QED
    BY <2>1, <2>2, <2>3, <2>4 DEF BodyVerdict
<1> QED
  BY <1>1, <1>3, <1>5, <1>9 DEF Verdict

\* A log without a gap holds the seqs below its length.
LEMMA HeldIsInterval ==
  ASSUME NEW S \in SUBSET Seqs, \A n \in S : n > 0 => n - 1 \in S
  PROVE  Cardinality(S) \in Nat /\ (Cardinality(S) > 0 => Cardinality(S) - 1 \in S)
<1>1. S \in SUBSET Nat /\ MaxEvents \in Nat /\ MaxEvents \notin S
  BY BoundAssumption DEF Seqs
<1> DEFINE Gap == { n \in Nat : n \notin S }
<1>2. PICK k \in Gap : \A n \in Gap : k <= n
  <2>1. Gap \in SUBSET Nat /\ Gap # {}
    BY <1>1
  <2> HIDE DEF Gap
  <2> QED
    BY <2>1, LeastNumber
<1>3. k \in Nat /\ k \notin S
  OBVIOUS
<1>4. \A n \in S : n < k
  BY <1>1, <1>3, NoneAbove
<1>5. \A n \in 0..k-1 : n \in S
  <2> SUFFICES ASSUME NEW n \in 0..k-1, n \notin S PROVE FALSE
    OBVIOUS
  <2>1. n \in Nat /\ ~(k <= n)
    BY <1>3
  <2> QED
    BY <1>2, <2>1
<1>6. S = 0..k-1
  <2>1. \A n \in S : n \in 0..k-1
    <3> SUFFICES ASSUME NEW n \in S PROVE n \in 0..k-1
      OBVIOUS
    <3>1. n \in Nat /\ n < k
      BY <1>1, <1>4
    <3> QED
      BY <1>3, <3>1
  <2> HIDE DEF Gap
  <2> QED
    BY <1>5, <2>1
<1>7. Cardinality(0..k-1) = k
  BY <1>3, FS_Interval
<1> QED
  BY <1>3, <1>5, <1>6, <1>7

\* R-18 and R-19 for every instance with an honest host and without redelivery: a
\* house that honoured drop-requests gives any candidate but a drop-request the
\* verdict that a house with the same log gives which declined them.
THEOREM DropsAreNeutral ==
  ASSUME MaxStray = 0, Redeliver = FALSE
  PROVE  Spec => []DropsChangeNoVerdict
<1>1. TypeOK /\ ChainLinked /\ HostPrefix /\ SameLogSameMembership => DropsChangeNoVerdict
  <2> SUFFICES ASSUME TypeOK, ChainLinked, HostPrefix, SameLogSameMembership,
                      NEW g \in House, NEW h \in House, SameLog(g, h),
                      NEW b \in Bodies, b.type # "dropRequest", NEW a \in Key
               PROVE  Verdict(rec[g], Candidate(g, a, b), now) = Verdict(rec[h], Candidate(h, a, b), now)
    BY DEF DropsChangeNoVerdict, SameVerdict
  <2> DEFINE n == Cardinality(Held(rec[g]))
             e == Candidate(g, a, b)
  <2>1. Held(rec[g]) = Held(rec[h]) /\ \A m \in Held(rec[g]) : rec[g].slots[m].id = rec[h].slots[m].id
    BY DEF SameLog
  <2>2. n \in Nat /\ (n > 0 => n - 1 \in Held(rec[g]))
    <3>1. Held(rec[g]) \in SUBSET Seqs
      BY DEF TypeOK, IsRecording, Seqs
    <3>2. \A m \in Held(rec[g]) : m > 0 => m - 1 \in Held(rec[g])
      BY DEF ChainLinked
    <3> HIDE DEF Held
    <3> QED
      BY <3>1, <3>2, HeldIsInterval
  <2>3. ExpectedPrev(rec[g], n) = ExpectedPrev(rec[h], n)
    <3> HIDE DEF n
    <3> QED
      BY <2>1, <2>2 DEF ExpectedPrev
  <2>4. Candidate(h, a, b) = e
    BY <2>1, <2>3 DEF Candidate
  <2>5. AlikeButDrops(rec[g], rec[h])
    <3>1. Members(rec[g]) = Members(rec[h])
      BY DEF SameLogSameMembership, Members
    <3>2. rec[g].broken = FALSE /\ rec[h].broken = FALSE
      <4>1. rec[g].broken \in BOOLEAN /\ rec[h].broken \in BOOLEAN
        BY DEF TypeOK, IsRecording
      <4> QED
        BY <4>1 DEF HostPrefix
    <3> QED
      BY <2>1, <3>1, <3>2 DEF AlikeButDrops
  <2>6. e \in Event /\ e.seq = n /\ e.body = b
    <3>1. ExpectedPrev(rec[g], n) \in Nat
      <4>1. \A m \in Held(rec[g]) : rec[g].slots[m].id \in Nat
        BY DEF TypeOK, IsRecording, Slot, EventId
      <4> HIDE DEF n
      <4> QED
        BY <2>2, <4>1 DEF ExpectedPrev, ZeroId
    <3>2. b \in Body /\ NextId \in EventId
      BY BodiesType DEF TypeOK, EventId, ZeroId
    <3> HIDE DEF n, NextId
    <3>3. e = [id |-> NextId, form |-> "valid", visit |-> This, author |-> a, seq |-> n,
               prev |-> ExpectedPrev(rec[g], n), body |-> b]
      BY DEF Candidate, n
    <3> HIDE DEF e
    <3> QED
      BY <2>2, <3>1, <3>2, <3>3, VisitAssumption DEF Event, Form
  <2> HIDE DEF e, n
  <2> QED
    BY <2>2, <2>4, <2>5, <2>6, VerdictIgnoresDrops DEF e
<1>2. Spec => []HostPrefix
  BY HonestPrefix
<1>3. Spec => []SameLogSameMembership
  BY MembershipIsDerived
<1> QED
  BY <1>1, <1>2, <1>3, TypeCorrect, ChainIsLinked, PTL

-----------------------------------------------------------------------------
(* Whose events are dropped.                                               *)

\* Lineage, as it reads in a log.
VouchersIn(L, k) ==
  {k} \cup { L[n].author : n \in { m \in DOMAIN L : L[m].body.type = "deviceAdd" /\ L[m].body.device = k } }
      \cup { L[n].body.person : n \in { m \in DOMAIN L : L[m].body.type = "join" /\ k \in L[m].body.devices } }
ClosedIn(L, S) == \A u \in S : VouchersIn(L, u) \subseteq S
LineageIn(L, k) == { v \in Key : \A S \in SUBSET Key : k \in S /\ ClosedIn(L, S) => v \in S }

LEMMA LineageOfLog ==
  ASSUME NEW h, NEW k
  PROVE  Lineage(h, k) = LineageIn(Log(h), k)
<1>1. DOMAIN Log(h) = Held(rec[h]) /\ \A n \in Held(rec[h]) : Log(h)[n] = EventAt(h, n)
  BY DEF Log
<1> HIDE DEF EventAt, Held
<1>2. ASSUME NEW u PROVE Vouchers(h, u) = VouchersIn(Log(h), u)
  BY <1>1 DEF Vouchers, VouchersIn
<1>3. ASSUME NEW S PROVE Vouched(h, S) <=> ClosedIn(Log(h), S)
  BY <1>2 DEF Vouched, ClosedIn
<1> QED
  BY <1>3 DEF Lineage, LineageIn

\* A key is of its own lineage, the lineage of a voucher is part of it, and a log
\* that grows takes nobody out of it.
LEMMA LineageFacts ==
  ASSUME NEW L, NEW k \in Key
  PROVE  /\ k \in LineageIn(L, k)
         /\ \A u \in VouchersIn(L, k) : LineageIn(L, u) \subseteq LineageIn(L, k)
         /\ \A M : (\A n \in DOMAIN L : n \in DOMAIN M /\ M[n] = L[n]) =>
                    LineageIn(L, k) \subseteq LineageIn(M, k)
<1>1. k \in LineageIn(L, k)
  BY DEF LineageIn
<1>2. ASSUME NEW u \in VouchersIn(L, k) PROVE LineageIn(L, u) \subseteq LineageIn(L, k)
  BY DEF LineageIn, ClosedIn
<1>3. ASSUME NEW M, \A n \in DOMAIN L : n \in DOMAIN M /\ M[n] = L[n]
      PROVE  LineageIn(L, k) \subseteq LineageIn(M, k)
  <2>1. ASSUME NEW u PROVE VouchersIn(L, u) \subseteq VouchersIn(M, u)
    BY <1>3 DEF VouchersIn
  <2>2. ASSUME NEW S, ClosedIn(M, S) PROVE ClosedIn(L, S)
    BY <2>1, <2>2 DEF ClosedIn
  <2> QED
    BY <2>2 DEF LineageIn
<1> QED
  BY <1>1, <1>2, <1>3

\* The person a device is in force for is of the device's lineage.
PersonsIn(L, r) == \A k \in Key : PersonOf(r, k) \in LineageIn(L, k)

\* Each target of a drop-request in the log is an event of a device that shares its
\* lineage with the requester.
OwnTarget(L, q, id) ==
  \E n \in DOMAIN L : L[n].id = id /\ LineageIn(L, q.author) \cap LineageIn(L, L[n].author) # {}
NamesTargets(q) == q.body.type = "dropRequest" /\ q.body.scope = "events"
OwnTargets(L) == \A m \in DOMAIN L : NamesTargets(L[m]) => \A id \in L[m].body.targets : OwnTarget(L, L[m], id)

\* What a slot still shows is the event of its identifier.
ShowsItsEvent(g) == \A n \in Held(rec[g]) : Live(rec[g].slots[n]) => rec[g].slots[n].ev = EventAt(g, n)

OwnershipKept == \A g \in House : PersonsIn(Log(g), rec[g]) /\ OwnTargets(Log(g)) /\ ShowsItsEvent(g)

\* A step leaves a slot alone, fills it, or drops what a live request covers.
Filled(g, n) == rec'[g].slots[n].ev = minted'[rec'[g].slots[n].id] /\ rec'[g].slots[n].ev \in Event
Dropped(g, n) ==
  /\ n \in Held(rec[g]) /\ rec'[g].slots[n].ev = None
  /\ \E m \in Held(rec[g]) : Honourable(rec[g], m) /\ n \in DropTargets(rec[g], m)
LeftAlone(g, n) == n \in Held(rec[g]) /\ rec'[g].slots[n] = rec[g].slots[n]

LEMMA SlotStep ==
  ASSUME TypeOK, ChainLinked, [Next]_vars, NEW g \in House, NEW n \in Held(rec'[g])
  PROVE  LeftAlone(g, n) \/ Filled(g, n) \/ Dropped(g, n)
<1> USE HouseAssumption
<1>0. /\ \A h \in House : IsRecording(rec[h], Seqs)
      /\ \A i \in Ids : minted[i] \in Event /\ minted[i].seq \in Seqs /\ minted[i].id = i
  BY DEF TypeOK, Seqs
<1>1. ASSUME rec'[g] = rec[g] PROVE LeftAlone(g, n)
  BY <1>1 DEF LeftAlone
<1>2. ASSUME NEW h \in House, NEW q, rec' = [rec EXCEPT ![h] = q], g # h PROVE LeftAlone(g, n)
  BY <1>1, <1>2 DEF TypeOK
<1>3. ASSUME NEW h \in House, NEW e \in Event, Ingests(h, e), minted'[e.id] = e
      PROVE  LeftAlone(g, n) \/ Filled(g, n)
  <2>1. CASE g # h
    BY <1>2, <1>3, <2>1 DEF Ingests
  <2>2. CASE g = h
    <3>1. rec'[g] = Ingest(rec[g], e, now)
      BY <1>3, <2>2 DEF Ingests, TypeOK
    <3> DEFINE x == [id |-> e.id, ev |-> e]
    <3>2. rec'[g].slots = PutSlot(rec[g].slots, e.seq, x) \/ rec'[g].slots = rec[g].slots
      BY <1>0, <3>1, IngestSlots
    <3>3. x.id = e.id /\ x.ev = e
      OBVIOUS
    <3> HIDE DEF x
    <3> QED
      BY <1>3, <3>2, <3>3 DEF PutSlot, LeftAlone, Filled
  <2> QED
    BY <2>1, <2>2
<1>4. ASSUME NEW a \in Key, NEW m \in 0..MaxEvents-1, NEW b \in Bodies, HostSequence(a, m, b)
      PROVE  LeftAlone(g, n) \/ Filled(g, n)
  <2>1. PICK e : Fresh(e) /\ Mints(e) /\ Ingests(HostHouse, e)
    BY <1>4, HostSequenceMints
  <2>2. e \in Event /\ e.id = NextId /\ minted'[NextId] = e
    BY <2>1, MintType DEF Fresh
  <2> QED
    BY <1>3, <2>1, <2>2
<1>5. ASSUME NEW h \in House, NEW i \in Ids, Deliver(h, minted[i]) PROVE LeftAlone(g, n) \/ Filled(g, n)
  <2>1. Ingests(h, minted[i]) /\ minted' = minted
    BY <1>5 DEF Deliver, Ingests
  <2> QED
    BY <1>0, <1>3, <2>1
<1>6. ASSUME NEW h \in House, NEW m \in Held(rec[h]), Honour(h, m) PROVE LeftAlone(g, n) \/ Dropped(g, n)
  <2>1. rec' = [rec EXCEPT ![h] = HonourDropRequest(rec[h], m)] /\ Honourable(rec[h], m)
    BY <1>6 DEF Honour
  <2>2. CASE g # h
    BY <1>2, <2>1, <2>2
  <2>3. CASE g = h
    <3>1. rec'[g] = HonourDropRequest(rec[g], m)
      BY <2>1, <2>3 DEF TypeOK
    <3>2. rec'[g].slots = [k \in Held(rec[g]) |->
            IF k \in DropTargets(rec[g], m) THEN [rec[g].slots[k] EXCEPT !.ev = None] ELSE rec[g].slots[k]]
      BY <1>0, <3>1 DEF HonourDropRequest, IsRecording
    <3>3. n \in Held(rec[g]) /\ rec[g].slots[n] \in Slot
      BY <1>0, <3>2 DEF IsRecording
    <3>4. CASE n \in DropTargets(rec[g], m)
      <4>1. rec'[g].slots[n] = [rec[g].slots[n] EXCEPT !.ev = None]
        BY <3>2, <3>3, <3>4
      <4>2. rec'[g].slots[n].ev = None
        BY <3>3, <4>1 DEF Slot
      <4> QED
        BY <1>6, <2>1, <2>3, <3>3, <3>4, <4>2 DEF Dropped
    <3>5. CASE n \notin DropTargets(rec[g], m)
      BY <3>2, <3>3, <3>5 DEF LeftAlone
    <3> QED
      BY <3>4, <3>5
  <2> QED
    BY <2>2, <2>3
<1>7. CASE rec' = rec
  BY <1>1, <1>7
<1> QED
  BY <1>4, <1>5, <1>6, <1>7 DEF Next, Stray, Tick, vars

Within(L, M) == \A n \in DOMAIN L : n \in DOMAIN M /\ M[n] = L[n]

LEMMA PersonsStep ==
  ASSUME NEW r, IsRecording(r, Seqs), NEW e \in Event, NEW q, q.inForce = InForceAfter(r, e),
         NEW L, NEW M, Within(L, M), e.seq \in DOMAIN M, M[e.seq] = e, PersonsIn(L, r)
  PROVE  PersonsIn(M, q)
<1> SUFFICES ASSUME NEW k \in Key PROVE PersonOf(q, k) \in LineageIn(M, k)
  BY DEF PersonsIn
<1> USE KeyAssumption
<1> DEFINE b == e.body
<1>0. /\ e.author \in Key /\ (b.type = "join" => b.person \in Key) /\ (b.type = "deviceRevoke" => b.device \in Key)
      /\ r.inForce \in [Key -> Key \cup {None}]
  BY BodyFields DEF IsRecording
<1>1. \A v \in Key : LineageIn(L, v) \subseteq LineageIn(M, v)
  BY LineageFacts DEF Within
<1>2. \A v \in Key : PersonOf(r, v) \in LineageIn(M, v)
  BY <1>1 DEF PersonsIn
<1>3. ASSUME q.inForce[k] = r.inForce[k] PROVE PersonOf(q, k) \in LineageIn(M, k)
  <2>1. PersonOf(q, k) = PersonOf(r, k)
    BY <1>3 DEF PersonOf
  <2> QED
    BY <1>2, <2>1
<1>4. ASSUME NEW u \in VouchersIn(M, k), NEW v \in Key, v \in LineageIn(M, u), q.inForce[k] = v
      PROVE  PersonOf(q, k) \in LineageIn(M, k)
  <2>1. PersonOf(q, k) = v
    BY <1>4 DEF PersonOf
  <2> QED
    BY <1>4, <2>1, LineageFacts
<1>5. CASE b.type = "join"
  <2>1. q.inForce[k] = IF k \in b.devices /\ r.inForce[k] = None THEN b.person ELSE r.inForce[k]
    BY <1>5 DEF InForceAfter, OrInsert
  <2>2. k \in b.devices => b.person \in VouchersIn(M, k)
    BY <1>5 DEF VouchersIn
  <2>3. b.person \in Key /\ b.person \in LineageIn(M, b.person)
    BY <1>0, <1>5, LineageFacts
  <2> QED
    BY <1>3, <1>4, <2>1, <2>2, <2>3
<1>6. CASE b.type = "deviceAdd"
  <2>1. q.inForce[k] = IF k = b.device /\ r.inForce[k] = None THEN PersonOf(r, e.author) ELSE r.inForce[k]
    BY <1>6 DEF InForceAfter, OrInsert
  <2>2. k = b.device => e.author \in VouchersIn(M, k)
    BY <1>6 DEF VouchersIn
  <2>3. PersonOf(r, e.author) \in Key /\ PersonOf(r, e.author) \in LineageIn(M, e.author)
    BY <1>0, <1>2 DEF PersonOf
  <2> QED
    BY <1>3, <1>4, <2>1, <2>2, <2>3
<1>7. CASE b.type = "deviceRevoke"
  <2>1. q.inForce[k] = IF k = b.device THEN None ELSE r.inForce[k]
    BY <1>0, <1>7 DEF InForceAfter
  <2>2. k = b.device => PersonOf(q, k) = k
    BY <2>1 DEF PersonOf
  <2> QED
    BY <1>3, <2>1, <2>2, LineageFacts
<1>8. CASE b.type \notin {"join", "deviceAdd", "deviceRevoke"}
  BY <1>3, <1>8 DEF InForceAfter
<1> QED
  BY <1>5, <1>6, <1>7, <1>8

LEMMA TargetsStep ==
  ASSUME NEW r, IsRecording(r, Seqs), NEW e \in Event, BodyVerdict(r, e) = "ok",
         NEW L, NEW M, LogGrows(L, M, e), PersonsIn(L, r), OwnTargets(L),
         \A n \in DOMAIN L : L[n] \in Event,
         \A n \in Held(r) : n \in DOMAIN L /\ r.slots[n].id = L[n].id,
         \A n \in Held(r) : Live(r.slots[n]) => r.slots[n].ev = L[n]
  PROVE  OwnTargets(M)
<1>0. e.author \in Key /\ \A n \in DOMAIN L : L[n].author \in Key
  BY BodyFields
<1>1. /\ Within(L, M) /\ e.seq \in DOMAIN M /\ M[e.seq] = e
      /\ \A n \in DOMAIN M : n \in DOMAIN L \/ n = e.seq
  BY DEF LogGrows, Within
<1>2. \A v \in Key : LineageIn(L, v) \subseteq LineageIn(M, v)
  BY <1>1, LineageFacts DEF Within
<1>3. ASSUME NEW m \in DOMAIN L, NEW id, OwnTarget(L, L[m], id) PROVE OwnTarget(M, M[m], id)
  <2>1. PICK n \in DOMAIN L : L[n].id = id /\ LineageIn(L, L[m].author) \cap LineageIn(L, L[n].author) # {}
    BY <1>3 DEF OwnTarget
  <2>2. M[m] = L[m] /\ M[n] = L[n] /\ n \in DOMAIN M
    BY <1>1 DEF Within
  <2>3. LineageIn(M, L[m].author) \cap LineageIn(M, L[n].author) # {}
    BY <1>0, <1>2, <2>1
  <2> QED
    BY <2>1, <2>2, <2>3 DEF OwnTarget
<1>4. ASSUME NamesTargets(e), NEW id \in e.body.targets PROVE OwnTarget(M, e, id)
  <2>1. OwnLiveEvent(r, e.author, id)
    BY <1>4 DEF NamesTargets, BodyVerdict, DropRequestVerdict
  <2>2. PICK n \in Held(r) : /\ r.slots[n].id = id /\ Live(r.slots[n])
                             /\ PersonOf(r, r.slots[n].ev.author) = PersonOf(r, e.author)
    BY <2>1 DEF OwnLiveEvent
  <2>3. n \in DOMAIN L /\ r.slots[n].ev = L[n] /\ L[n].id = id /\ L[n].author \in Key
    BY <1>0, <2>2
  <2>4. PersonOf(r, e.author) \in LineageIn(M, e.author) /\ PersonOf(r, e.author) \in LineageIn(M, L[n].author)
    BY <1>0, <1>2, <2>2, <2>3 DEF PersonsIn
  <2>5. n \in DOMAIN M /\ M[n] = L[n]
    BY <1>1, <2>3 DEF Within
  <2> QED
    BY <2>3, <2>4, <2>5 DEF OwnTarget
<1>5. \A m \in DOMAIN L : M[m] = L[m]
  BY <1>1 DEF Within
<1> QED
  BY <1>1, <1>3, <1>4, <1>5 DEF OwnTargets

\* R-40 for every instance, with any stray events and any redelivery: a drop erases
\* an event only for a held request that covers it, made by a device whose lineage
\* of joins and device-adds meets that of the event's author.
THEOREM OnlyOwnEventsAreDropped == Spec => DropsAreOwn
<1> DEFINE I == TypeOK /\ ChainLinked
<1>1. Init => OwnershipKept
  <2> SUFFICES ASSUME Init, NEW g \in House PROVE PersonsIn(Log(g), rec[g]) /\ OwnTargets(Log(g)) /\ ShowsItsEvent(g)
    BY DEF OwnershipKept
  <2>1. rec[g] = EmptyRecording
    BY DEF Init
  <2>2. DOMAIN Log(g) = {} /\ Held(rec[g]) = {} /\ \A d \in Key : rec[g].inForce[d] = None
    BY <2>1 DEF EmptyRecording, Log
  <2>3. PersonsIn(Log(g), rec[g])
    BY <2>2, LineageFacts DEF PersonsIn, PersonOf
  <2> QED
    BY <2>2, <2>3 DEF OwnTargets, ShowsItsEvent
<1>2. I /\ OwnershipKept /\ [Next]_vars => OwnershipKept'
  <2> SUFFICES ASSUME TypeOK, ChainLinked, OwnershipKept, [Next]_vars, NEW g \in House
               PROVE  PersonsIn(Log(g)', rec'[g]) /\ OwnTargets(Log(g)') /\ ShowsItsEvent(g)'
    BY DEF OwnershipKept
  <2>0. PersonsIn(Log(g), rec[g]) /\ OwnTargets(Log(g)) /\ ShowsItsEvent(g)
    BY DEF OwnershipKept
  <2>1. ShowsItsEvent(g)'
    <3> SUFFICES ASSUME NEW n \in Held(rec'[g]), Live(rec'[g].slots[n])
                 PROVE  rec'[g].slots[n].ev = minted'[rec'[g].slots[n].id]
      BY DEF ShowsItsEvent
    <3>1. ~Dropped(g, n)
      BY DEF Dropped, Live
    <3>2. CASE Filled(g, n)
      BY <3>2 DEF Filled
    <3>3. CASE LeftAlone(g, n)
      <4>1. rec[g].slots[n].id \in Ids /\ \A i \in Ids : minted'[i] = minted[i]
        BY <3>3, ChainStep DEF LeftAlone, ChainLinked
      <4> QED
        BY <2>0, <3>3, <4>1 DEF LeftAlone, ShowsItsEvent
    <3> QED
      BY <3>1, <3>2, <3>3, SlotStep
  <2>2. ASSUME Quiet(g) PROVE PersonsIn(Log(g)', rec'[g]) /\ OwnTargets(Log(g)')
    <3>1. Log(g)' = Log(g) /\ rec'[g].inForce = rec[g].inForce
      BY <2>2, LogStep, QuietMembers
    <3>2. \A k : PersonOf(rec'[g], k) = PersonOf(rec[g], k)
      BY <3>1 DEF PersonOf
    <3> QED
      BY <2>0, <3>1, <3>2 DEF PersonsIn
  <2>3. ASSUME NEW e, Repeats(g, e) PROVE PersonsIn(Log(g)', rec'[g]) /\ OwnTargets(Log(g)')
    <3>1. Log(g)' = Log(g) /\ e.seq \in DOMAIN Log(g) /\ Log(g)[e.seq] = e
      BY <2>3, LogStep
    <3>2. IsRecording(rec[g], Seqs) /\ e \in Event /\ rec'[g].inForce = InForceAfter(rec[g], e)
      BY <2>3, AdmitsMembers DEF Repeats
    <3>3. Within(Log(g), Log(g))
      BY DEF Within
    <3>4. PersonsIn(Log(g), rec'[g])
      BY <2>0, <3>1, <3>2, <3>3, PersonsStep
    <3> QED
      BY <2>0, <3>1, <3>4
  <2>4. ASSUME NEW e, Grows(g, e) PROVE PersonsIn(Log(g)', rec'[g]) /\ OwnTargets(Log(g)')
    <3>1. LogGrows(Log(g), Log(g)', e)
      BY <2>4, LogStep
    <3>2. /\ IsRecording(rec[g], Seqs) /\ e \in Event /\ BodyVerdict(rec[g], e) = "ok"
          /\ rec'[g].inForce = InForceAfter(rec[g], e)
      BY <2>4, AdmitsMembers DEF Grows
    <3>3. Within(Log(g), Log(g)') /\ e.seq \in DOMAIN Log(g)' /\ Log(g)'[e.seq] = e
      BY <3>1 DEF LogGrows, Within
    <3>4. PersonsIn(Log(g)', rec'[g])
      BY <2>0, <3>2, <3>3, PersonsStep
    <3>5. \A n \in DOMAIN Log(g) : Log(g)[n] \in Event
      BY LogGapless
    <3>6. \A n \in Held(rec[g]) : n \in DOMAIN Log(g) /\ rec[g].slots[n].id = Log(g)[n].id
      BY DEF Log, ChainLinked, TypeOK
    <3>7. \A n \in Held(rec[g]) : Live(rec[g].slots[n]) => rec[g].slots[n].ev = Log(g)[n]
      BY <2>0 DEF ShowsItsEvent, Log
    <3>8. OwnTargets(Log(g)')
      BY <2>0, <3>1, <3>2, <3>5, <3>6, <3>7, TargetsStep
    <3> QED
      BY <3>4, <3>8
  <2> QED
    BY <2>1, <2>2, <2>3, <2>4, HouseStep
<1> DEFINE Owned(h, n) ==
             \E m \in Held(rec[h]) :
               LET q == EventAt(h, m) IN
               /\ q.body.type = "dropRequest"
               /\ \/ q.body.scope = "visit"
                  \/ /\ IdAt(h, n) \in q.body.targets
                     /\ Lineage(h, q.author) \cap Lineage(h, EventAt(h, n).author) # {}
<1>3. I /\ OwnershipKept /\ [Next]_vars =>
        [\A h \in House : \A n \in Held(rec[h]) :
           (Live(rec[h].slots[n]) /\ ~Live(rec'[h].slots[n])) => Owned(h, n)]_vars
  <2> SUFFICES ASSUME TypeOK, ChainLinked, OwnershipKept, [Next]_vars, NEW h \in House, NEW n \in Held(rec[h]),
                      Live(rec[h].slots[n]), ~Live(rec'[h].slots[n])
               PROVE  Owned(h, n)
    OBVIOUS
  <2>1. Dropped(h, n)
    <3>1. n \in Held(rec'[h])
      BY ChainStep DEF Keeps
    <3>2. ~LeftAlone(h, n)
      BY DEF LeftAlone
    <3>3. ~Filled(h, n)
      BY NoneAssumption DEF Filled, Live
    <3> QED
      BY <3>1, <3>2, <3>3, SlotStep
  <2>2. PICK m \in Held(rec[h]) : Honourable(rec[h], m) /\ n \in DropTargets(rec[h], m)
    BY <2>1 DEF Dropped
  <2> DEFINE q == EventAt(h, m)
             L == Log(h)
  <2>3. Live(rec[h].slots[m]) /\ rec[h].slots[m].ev = q /\ q.body.type = "dropRequest"
    BY <2>2 DEF Honourable, OwnershipKept, ShowsItsEvent
  <2>4. q.body.scope = "visit" \/ rec[h].slots[n].id \in q.body.targets
    BY <2>2, <2>3 DEF DropTargets
  <2>5. q.body.scope \in {"visit", "events"}
    <3>1. q \in Event
      BY DEF ChainLinked, TypeOK
    <3> HIDE DEF q
    <3> QED
      BY <2>3, <3>1 DEF Event, Body, MessageBody, ReactionBody, PlainBody, JoinBody, LeaveBody,
                        DeviceAddBody, DeviceRevokeBody, DropBody
  <2>6. CASE q.body.scope = "visit"
    BY <2>3, <2>6
  <2>7. CASE q.body.scope = "events"
    <3>1. rec[h].slots[n].id \in q.body.targets
      BY <2>4, <2>7
    <3>2. m \in DOMAIN L /\ L[m] = q /\ OwnTargets(L)
      BY DEF Log, OwnershipKept
    <3> HIDE DEF L, q
    <3>3. OwnTarget(L, q, rec[h].slots[n].id)
      BY <2>3, <2>7, <3>1, <3>2 DEF OwnTargets, NamesTargets
    <3>4. PICK k \in DOMAIN L : /\ L[k].id = rec[h].slots[n].id
                                /\ LineageIn(L, q.author) \cap LineageIn(L, L[k].author) # {}
      BY <3>3 DEF OwnTarget
    <3>5. L[k] = EventAt(h, n)
      <4>1. k \in Held(rec[h]) /\ L[k] = minted[rec[h].slots[k].id] /\ L[k].id = rec[h].slots[k].id
        BY DEF L, Log, ChainLinked, TypeOK
      <4> QED
        BY <3>4, <4>1
    <3>6. Lineage(h, q.author) \cap Lineage(h, EventAt(h, n).author) # {}
      BY <3>4, <3>5, LineageOfLog DEF L
    <3> QED
      BY <2>3, <3>1, <3>6 DEF q
  <2> QED
    BY <2>5, <2>6, <2>7
<1> QED
  BY <1>1, <1>2, <1>3, TypeCorrect, ChainIsLinked, PTL DEF Spec, DropsAreOwn
=============================================================================
