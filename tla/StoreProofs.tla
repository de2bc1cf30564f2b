---------------------------- MODULE StoreProofs ----------------------------
(***************************************************************************)
(* What holds of HouseStore for any keys, any number of tables, any bounds *)
(* and any redelivery, through crashes at every statement.                 *)
(***************************************************************************)
EXTENDS HouseStore, RuleProofs, FiniteSetTheorems

\* Every event signed is recorded at its identifier.
MintedKept ==
  \A i \in DOMAIN minted : minted[i].id = i /\ minted[i].seq \in Seqs

\* The slots hold events at the seqs they were signed for, without a gap, each
\* naming the one below it; the bytes kept are those that were signed.
Linked(slots) ==
  \A n \in DOMAIN slots :
    /\ slots[n].id \in DOMAIN minted
    /\ minted[slots[n].id].seq = n
    /\ slots[n].ev \in {None, minted[slots[n].id]}
    /\ n > 0 => n - 1 \in DOMAIN slots /\ minted[slots[n].id].prev = slots[n - 1].id

\* The tables come before the version, and the version before the store is used.
SchemaOrder ==
  /\ version = SchemaVersion => tables = NumTables
  /\ phase = "up" => version = SchemaVersion

\* The call in progress works for the recording in memory: what it has to append
\* is held there.
TaskSound ==
  /\ loaded => visitRow # "none"
  /\ task.op # "idle" => loaded
  /\ task.op = "append" =>
       /\ task.ev.seq \in Held(mem)
       /\ mem.slots[task.ev.seq] = [id |-> task.ev.id, ev |-> task.ev]
  /\ ~loaded => mem = EmptyRecording

\* What is in memory and not in the rows is what is being appended.
Pending == IF task.op = "append" THEN {task.ev.seq} ELSE {}
MemoryLeads ==
  loaded /\ VisitRowExists =>
    /\ DOMAIN rows \subseteq Held(mem) /\ Held(mem) \ DOMAIN rows \subseteq Pending
    /\ \A n \in DOMAIN rows : rows[n].id = mem.slots[n].id

Inv ==
  /\ TypeOK /\ rows = [n \in DOMAIN rows |-> rows[n]]
  /\ SchemaOrder /\ DeletedStaysDeleted
  /\ MintedKept /\ Linked(mem.slots) /\ Linked(rows)
  /\ TaskSound /\ MemoryLeads
-----------------------------------------------------------------------------
(* Numbers.                                                                *)

USE DEF Held, Seqs

\* A set of naturals without a gap and with a bound is an initial segment, and
\* its last member is its size less one.
LEMMA GaplessPrefix ==
  ASSUME NEW M \in Nat, NEW S \in SUBSET (0..M-1), S # {},
         \A n \in S : n > 0 => n - 1 \in S
  PROVE  Cardinality(S) - 1 \in S
<1> DEFINE Above == { n \in Nat : n \notin S }
<1>1. S \subseteq Nat /\ M \in Above
  OBVIOUS
<1>2. PICK k \in Above : \A n \in Above : k <= n
  BY <1>1, LeastNumber
<1>3. \A n \in S : n < k
  BY <1>1, <1>2, NoneAbove
<1>4. \A n \in Nat : n < k => n \in S
  BY <1>2
<1>5. S = 0..(k - 1)
  <2>1. k \in Nat /\ k \notin S
    BY <1>2
  <2>2. ASSUME NEW n \in S PROVE n \in 0..(k - 1)
    <3>1. n \in Nat /\ n < k
      BY <1>1, <1>3
    <3> QED
      BY <2>1, <3>1
  <2>3. ASSUME NEW n \in 0..(k - 1) PROVE n \in S
    BY <1>4, <2>1
  <2> QED
    BY <2>2, <2>3
<1>6. k \in Nat /\ k > 0
  BY <1>2, <1>5
<1>7. Cardinality(S) = k
  BY <1>5, <1>6, FS_Interval
<1> QED
  BY <1>5, <1>6, <1>7

-----------------------------------------------------------------------------
(* Replaying rows.                                                         *)

\* The rows at which replaying may look: as RowsSound says below.
RowsFit(rs) ==
  /\ rs = [n \in DOMAIN rs |-> rs[n]]
  /\ DOMAIN rs \subseteq Seqs
  /\ \A n \in DOMAIN rs :
       /\ rs[n] \in Slot
       /\ rs[n].ev = None \/ (rs[n].ev \in Event /\ rs[n].ev.id = rs[n].id /\ rs[n].ev.seq = n)

Start == [verdict |-> "ok", rec |-> EmptyRecording]

ReplayStep(acc, n, rs, t) ==
  IF acc.verdict = "ok" /\ n \in DOMAIN rs THEN ReplayRow(acc, n, rs[n], t) ELSE acc

\* f is the table that Replayed builds, as far as m.
IsReplay(f, rs, t, m) ==
  f = [n \in 0..m |-> IF n = 0 THEN Start ELSE ReplayStep(f[n - 1], n - 1, rs, t)]

LEMMA ReplayExists ==
  ASSUME NEW rs, NEW t, NEW M \in Nat
  PROVE  \E f : IsReplay(f, rs, t, M)
<1> DEFINE Bad == { m \in 0..M : ~ \E f : IsReplay(f, rs, t, m) }
<1>1. \E f : IsReplay(f, rs, t, 0)
  <2> DEFINE f0 == [n \in 0..0 |-> Start]
  <2>1. f0 = [n \in 0..0 |-> IF n = 0 THEN Start ELSE ReplayStep(f0[n - 1], n - 1, rs, t)]
    OBVIOUS
  <2> HIDE DEF f0
  <2> QED
    BY <2>1 DEF IsReplay
<1>2. ASSUME NEW m \in 0..M, m > 0, \E f : IsReplay(f, rs, t, m - 1)
      PROVE  \E f : IsReplay(f, rs, t, m)
  <2>1. PICK f : IsReplay(f, rs, t, m - 1)
    BY <1>2
  <2> DEFINE g == [n \in 0..m |-> IF n = m THEN ReplayStep(f[m - 1], m - 1, rs, t) ELSE f[n]]
  <2>2. ASSUME NEW n \in 0..m
        PROVE  g[n] = IF n = 0 THEN Start ELSE ReplayStep(g[n - 1], n - 1, rs, t)
    <3>1. CASE n = m
      <4>1. g[n - 1] = f[m - 1]
        BY <1>2, <3>1
      <4> QED
        BY <1>2, <3>1, <4>1
    <3>2. CASE n # m
      <4>1. n \in 0..(m - 1) /\ (n # 0 => n - 1 \in 0..(m - 1))
        BY <1>2, <3>2
      <4>2. f[n] = IF n = 0 THEN Start ELSE ReplayStep(f[n - 1], n - 1, rs, t)
        BY <2>1, <4>1 DEF IsReplay
      <4>3. g[n] = f[n] /\ (n # 0 => g[n - 1] = f[n - 1])
        BY <1>2, <3>2, <4>1
      <4> QED
        BY <4>2, <4>3
    <3> QED
      BY <3>1, <3>2
  <2>3. g = [n \in 0..m |-> g[n]]
    OBVIOUS
  <2> HIDE DEF g
  <2> QED
    BY <2>2, <2>3 DEF IsReplay
<1>3. Bad = {}
  <2> SUFFICES ASSUME Bad # {} PROVE FALSE
    OBVIOUS
  <2>1. Bad \in SUBSET Nat
    OBVIOUS
  <2>2. PICK m \in Bad : \A n \in Bad : m <= n
    BY <2>1, LeastNumber
  <2>3. m \in 0..M /\ ~ \E f : IsReplay(f, rs, t, m)
    BY <2>2
  <2>4. m # 0
    BY <1>1, <2>3
  <2>5. m - 1 \in 0..M /\ m > 0 /\ ~(m <= m - 1)
    BY <2>3, <2>4
  <2>6. \E f : IsReplay(f, rs, t, m - 1)
    BY <2>2, <2>5
  <2> QED
    BY <1>2, <2>3, <2>5, <2>6
<1>4. M \in 0..M
  OBVIOUS
<1> QED
  BY <1>3, <1>4

\* The table that Replayed builds, entry by entry.
IsTable(f, rs, t) ==
  /\ Replayed(rs, t) = f[MaxEvents]
  /\ f[0] = Start
  /\ \A n \in 1..MaxEvents : f[n] = ReplayStep(f[n - 1], n - 1, rs, t)

LEMMA ReplayUnfolds ==
  ASSUME NEW rs, NEW t
  PROVE  \E f : IsTable(f, rs, t)
<1> USE StoreBoundAssumption
<1> DEFINE u == CHOOSE f : IsReplay(f, rs, t, MaxEvents)
<1>1. \E f : IsReplay(f, rs, t, MaxEvents)
  BY ReplayExists
<1>2. IsReplay(u, rs, t, MaxEvents)
  BY <1>1
<1>3. Replayed(rs, t) = u[MaxEvents]
  BY DEF Replayed, IsReplay, ReplayStep, Start
<1> HIDE DEF u
<1> DEFINE w == [n \in 0..MaxEvents |->
                   IF n = 0 THEN Start ELSE ReplayStep(u[n - 1], n - 1, rs, t)]
<1>4. u = w
  BY <1>2 DEF IsReplay
<1>5. /\ w[0] = Start
      /\ \A n \in 1..MaxEvents : w[n] = ReplayStep(u[n - 1], n - 1, rs, t)
  OBVIOUS
<1> HIDE DEF w
<1>6. IsTable(u, rs, t)
  BY <1>3, <1>4, <1>5 DEF IsTable
<1> QED
  BY <1>6

\* A tombstone put back is in its slot, and the rest is as it was.
LEMMA TombstoneEffect ==
  ASSUME NEW S, NEW r, IsRecording(r, S), NEW n \in S, NEW id \in EventId
  PROVE  /\ IsRecording(InsertTombstone(r, n, id), S)
         /\ InsertTombstone(r, n, id).slots = PutSlot(r.slots, n, [id |-> id, ev |-> None])
<1> DEFINE x == [id |-> id, ev |-> None]
           f == PutSlot(r.slots, n, x)
           q == InsertTombstone(r, n, id)
<1>1. x \in Slot
  BY DEF Slot
<1>2. /\ DOMAIN f = DOMAIN r.slots \cup {n}
      /\ f = [m \in DOMAIN f |-> f[m]]
      /\ \A m \in DOMAIN f : f[m] = IF m = n THEN x ELSE r.slots[m]
  BY DEF PutSlot
<1>3. \A m \in DOMAIN f : f[m] \in Slot
  BY <1>1, <1>2 DEF IsRecording
<1> HIDE DEF f, x
<1>4. /\ q = [slots |-> f, joins |-> r.joins, revoked |-> r.revoked,
              inForce |-> r.inForce, windows |-> r.windows, broken |-> r.broken]
      /\ q.slots = f /\ q.joins = r.joins /\ q.revoked = r.revoked
      /\ q.inForce = r.inForce /\ q.windows = r.windows /\ q.broken = r.broken
  BY DEF IsRecording, InsertTombstone, f, x
<1> HIDE DEF q
<1>5. IsRecording(q, S)
  BY <1>2, <1>3, <1>4 DEF IsRecording
<1> QED
  BY <1>4, <1>5 DEF q, f, x

\* Putting the row of n to the rows below n.
Below(rs, n) == [m \in { k \in DOMAIN rs : k < n } |-> rs[m]]

LEMMA PutNext ==
  ASSUME NEW rs, NEW n \in Seqs, n \in DOMAIN rs, DOMAIN rs \subseteq Nat
  PROVE  PutSlot(Below(rs, n), n, rs[n]) = Below(rs, n + 1)
<1>1. { k \in DOMAIN rs : k < n + 1 } = { k \in DOMAIN rs : k < n } \cup {n}
  <2>1. \A k \in Nat : k < n + 1 <=> (k < n \/ k = n)
    OBVIOUS
  <2> QED
    BY <2>1
<1>2. n \notin { k \in DOMAIN rs : k < n }
  OBVIOUS
<1> QED
  BY <1>1, <1>2 DEF PutSlot, Below

\* One row of a replay: what was rebuilt so far is a recording, and if every row
\* was admitted its slots are the rows.
Rebuilt(acc, rs, n) ==
  /\ acc = [verdict |-> acc.verdict, rec |-> acc.rec]
  /\ IsRecording(acc.rec, Seqs)
  /\ acc.verdict = "ok" => acc.rec.slots = Below(rs, n)

LEMMA ReplayRowKeeps ==
  ASSUME NEW rs, RowsFit(rs), NEW t, NEW n \in Seqs, NEW acc, Rebuilt(acc, rs, n)
  PROVE  Rebuilt(ReplayStep(acc, n, rs, t), rs, n + 1)
<1> DEFINE r == acc.rec
           row == rs[n]
<1>0. DOMAIN rs \subseteq Nat /\ n \in Nat
  BY StoreBoundAssumption DEF RowsFit
<1>1. CASE ~(acc.verdict = "ok" /\ n \in DOMAIN rs)
  <2>1. ReplayStep(acc, n, rs, t) = acc
    BY <1>1 DEF ReplayStep
  <2>2. n \notin DOMAIN rs => { k \in DOMAIN rs : k < n } = { k \in DOMAIN rs : k < n + 1 }
    <3>1. \A k \in Nat : k < n + 1 <=> (k < n \/ k = n)
      BY <1>0
    <3> QED
      BY <1>0, <3>1
  <2>3. acc.verdict = "ok" => Below(rs, n) = Below(rs, n + 1)
    BY <1>1, <2>2 DEF Below
  <2> QED
    BY <2>1, <2>3 DEF Rebuilt
<1>2. CASE acc.verdict = "ok" /\ n \in DOMAIN rs /\ row.ev = None
  <2> DEFINE q == InsertTombstone(r, n, row.id)
  <2>1. ReplayStep(acc, n, rs, t) = [verdict |-> "ok", rec |-> q]
    <3>1. ReplayStep(acc, n, rs, t) = [acc EXCEPT !.rec = q]
      BY <1>2 DEF ReplayStep, ReplayRow
    <3> HIDE DEF q
    <3> QED
      BY <1>2, <3>1 DEF Rebuilt
  <2>2. row \in Slot /\ row = [id |-> row.id, ev |-> None] /\ row.id \in EventId
    BY <1>2 DEF RowsFit, Slot
  <2>3. IsRecording(q, Seqs) /\ q.slots = PutSlot(r.slots, n, row)
    <3>1. IsRecording(r, Seqs)
      BY DEF Rebuilt
    <3>2. PICK id \in EventId : id = row.id
      BY <2>2
    <3> HIDE DEF r
    <3>3. /\ IsRecording(InsertTombstone(r, n, id), Seqs)
          /\ InsertTombstone(r, n, id).slots = PutSlot(r.slots, n, [id |-> id, ev |-> None])
      BY <3>1, TombstoneEffect
    <3> QED
      BY <2>2, <3>2, <3>3
  <2>4. q.slots = Below(rs, n + 1)
    BY <1>0, <1>2, <2>3, PutNext DEF Rebuilt
  <2> HIDE DEF q
  <2> QED
    BY <2>1, <2>3, <2>4 DEF Rebuilt
<1>3. CASE acc.verdict = "ok" /\ n \in DOMAIN rs /\ row.ev # None
  <2> DEFINE e == row.ev
             q == Ingest(r, e, t)
             v == Verdict(r, e, t)
  <2>1. ReplayStep(acc, n, rs, t) = [verdict |-> v, rec |-> q]
    BY <1>3 DEF ReplayStep, ReplayRow
  <2>2. e \in Event /\ e.seq = n /\ row = [id |-> e.id, ev |-> e]
    BY <1>3 DEF RowsFit, Slot
  <2>3. IsRecording(q, Seqs)
    BY <2>2, IngestEffect DEF Rebuilt
  <2>4. v = "ok" => q.slots = PutSlot(r.slots, n, row)
    BY <2>2, IngestSlots DEF Rebuilt
  <2>5. v = "ok" => q.slots = Below(rs, n + 1)
    BY <1>0, <1>3, <2>4, PutNext DEF Rebuilt
  <2> HIDE DEF q, v, e
  <2> QED
    BY <2>1, <2>3, <2>5 DEF Rebuilt
<1> QED
  BY <1>1, <1>2, <1>3

\* recording_from_store: a replay that every row passes rebuilds the slots as the
\* rows have them, tombstones included.
LEMMA ReplayRebuilds ==
  ASSUME NEW rs, RowsFit(rs), NEW t
  PROVE  /\ IsRecording(Replayed(rs, t).rec, Seqs)
         /\ Replayed(rs, t) = [verdict |-> Replayed(rs, t).verdict, rec |-> Replayed(rs, t).rec]
         /\ Replayed(rs, t).verdict = "ok" => Replayed(rs, t).rec.slots = rs
<1> USE StoreBoundAssumption
<1>1. PICK f : IsTable(f, rs, t)
  BY ReplayUnfolds
<1> DEFINE Bad == { n \in 0..MaxEvents : ~Rebuilt(f[n], rs, n) }
<1>2. Rebuilt(f[0], rs, 0)
  <2>1. f[0] = Start
    BY <1>1 DEF IsTable
  <2>2. IsRecording(EmptyRecording, Seqs)
    BY DEF IsRecording, EmptyRecording
  <2>3. EmptyRecording.slots = Below(rs, 0)
    <3>1. { k \in DOMAIN rs : k < 0 } = {}
      BY DEF RowsFit
    <3> QED
      BY <3>1 DEF EmptyRecording, Below
  <2> QED
    BY <2>1, <2>2, <2>3 DEF Rebuilt, Start
<1>3. Bad = {}
  <2> SUFFICES ASSUME Bad # {} PROVE FALSE
    OBVIOUS
  <2>1. Bad \in SUBSET Nat
    OBVIOUS
  <2>2. PICK m \in Bad : \A n \in Bad : m <= n
    BY <2>1, LeastNumber
  <2>3. m \in 0..MaxEvents /\ ~Rebuilt(f[m], rs, m)
    BY <2>2
  <2>4. m # 0
    BY <1>2, <2>3
  <2>5. m - 1 \in 0..MaxEvents /\ m > 0 /\ ~(m <= m - 1) /\ m \in 1..MaxEvents /\ m - 1 \in Seqs
    BY <2>3, <2>4
  <2>6. Rebuilt(f[m - 1], rs, m - 1)
    BY <2>2, <2>5
  <2>7. f[m] = ReplayStep(f[m - 1], m - 1, rs, t)
    BY <1>1, <2>5 DEF IsTable
  <2>8. PICK k \in Seqs : k = m - 1 /\ m = k + 1
    BY <2>3, <2>5
  <2>9. Rebuilt(ReplayStep(f[k], k, rs, t), rs, k + 1)
    BY <2>6, <2>8, ReplayRowKeeps
  <2> QED
    BY <2>3, <2>7, <2>8, <2>9
<1>4. Rebuilt(f[MaxEvents], rs, MaxEvents)
  BY <1>3
<1>5. Below(rs, MaxEvents) = rs
  <2>1. { k \in DOMAIN rs : k < MaxEvents } = DOMAIN rs
    BY DEF RowsFit
  <2> QED
    BY <2>1 DEF Below, RowsFit
<1> QED
  BY <1>1, <1>4, <1>5 DEF IsTable, Rebuilt

-----------------------------------------------------------------------------
(* The steps.                                                              *)

USE StoreBoundAssumption

LEMMA BodiesType ==
  ASSUME minted \in Seq(Event)
  PROVE  Bodies \subseteq Body
<1> USE StorePersonAssumption
<1>1. DOMAIN minted \subseteq EventId
  BY DEF EventId, ZeroId
<1>2. ASSUME NEW b \in Bodies PROVE b \in Body
  <2>1. CASE b.type = "message"
    BY <1>1, <1>2, <2>1 DEF Bodies, Body, MessageBody
  <2>2. CASE b.type = "join"
    BY <1>2, <2>2 DEF Bodies, Body, JoinBody
  <2>3. CASE b.type = "leave"
    BY <1>2, <2>3 DEF Bodies, Body, LeaveBody
  <2>4. CASE b.type = "dropRequest"
    BY <1>1, <1>2, <2>4 DEF Bodies, Body, DropBody
  <2> QED
    BY <1>2, <2>1, <2>2, <2>3, <2>4 DEF Bodies
<1> QED
  BY <1>2

LEMMA InitInv == Init => Inv
<1> SUFFICES ASSUME Init PROVE Inv
  OBVIOUS
<1>1. IsRecording(EmptyRecording, Seqs)
  BY DEF IsRecording, EmptyRecording
<1>2. TypeOK
  <2>1. minted \in Seq(Event)
    BY DEF Init
  <2>2. DOMAIN rows = {} /\ IsRecording(mem, Seqs) /\ task.op = "idle"
    BY <1>1 DEF Init, NoRows, Idle
  <2>3. tables \in 0..NumTables /\ version \in {0, SchemaVersion}
    BY TablesAssumption DEF Init
  <2> QED
    BY <2>1, <2>2, <2>3 DEF Init, TypeOK
<1>3. rows = [n \in DOMAIN rows |-> rows[n]] /\ DeletedStaysDeleted
  BY DEF Init, NoRows, DeletedStaysDeleted
<1>4. SchemaOrder /\ MintedKept /\ TaskSound /\ MemoryLeads
  BY DEF Init, SchemaOrder, SchemaVersion, MintedKept, TaskSound, MemoryLeads, Idle
<1>5. Linked(mem.slots) /\ Linked(rows)
  BY DEF Init, Linked, EmptyRecording, NoRows
<1> QED
  BY <1>2, <1>3, <1>4, <1>5 DEF Inv

\* Opening the store, opening and closing the visit: no row and no recording.
LEMMA OpenSteps ==
  ASSUME Inv, Lock \/ CheckVersion \/ CreateTable \/ SetVersion \/ OpenVisit \/ CloseVisit
  PROVE  Inv'
<1>1. UNCHANGED <<rows, loaded, mem, task, minted>>
  BY DEF Lock, CheckVersion, CreateTable, SetVersion, OpenVisit, CloseVisit, disk
<1>2. /\ phase' \in {"down", "locked", "creating", "up"}
      /\ tables' \in 0..NumTables /\ version' \in {0, SchemaVersion}
      /\ SchemaOrder'
  BY TablesAssumption DEF Lock, CheckVersion, CreateTable, SetVersion, OpenVisit,
     CloseVisit, disk, Inv, TypeOK, SchemaOrder, SchemaVersion
<1>3. /\ visitRow' \in {"none", "open", "closed", "deleted"}
      /\ loaded => visitRow' # "none" /\ (VisitRowExists' <=> VisitRowExists)
      /\ ~VisitRowExists' => ~VisitRowExists
  BY DEF Lock, CheckVersion, CreateTable, SetVersion, OpenVisit, CloseVisit, disk, Inv,
         TypeOK, VisitRowExists, TaskSound
<1>4. TypeOK'
  BY <1>1, <1>2, <1>3 DEF Inv, TypeOK
<1>5. /\ (rows = [n \in DOMAIN rows |-> rows[n]])'
      /\ MintedKept' /\ Linked(mem.slots)' /\ Linked(rows)'
  BY <1>1 DEF Inv, MintedKept, Linked
<1>6. DeletedStaysDeleted' /\ TaskSound' /\ MemoryLeads'
  BY <1>1, <1>3 DEF Inv, DeletedStaysDeleted, TaskSound, MemoryLeads, Pending
<1> QED
  BY <1>2, <1>4, <1>5, <1>6 DEF Inv

\* A crash keeps what is on disk and forgets the rest.
LEMMA CrashStep ==
  ASSUME Inv, Crash
  PROVE  Inv'
<1>1. IsRecording(EmptyRecording, Seqs) /\ DOMAIN EmptyRecording.slots = {}
  BY DEF IsRecording, EmptyRecording
<1>2. TypeOK'
  BY <1>1 DEF Inv, TypeOK, Crash, disk, Idle
<1>3. /\ (rows = [n \in DOMAIN rows |-> rows[n]])' /\ SchemaOrder' /\ DeletedStaysDeleted'
      /\ MintedKept' /\ Linked(rows)'
  BY DEF Inv, Crash, disk, SchemaOrder, DeletedStaysDeleted, VisitRowExists, MintedKept, Linked
<1>4. Linked(mem.slots)'
  BY <1>1 DEF Crash, Linked
<1>5. TaskSound' /\ MemoryLeads'
  BY DEF Crash, TaskSound, MemoryLeads, Idle
<1> QED
  BY <1>2, <1>3, <1>4, <1>5 DEF Inv

\* The rows of a store can be replayed.
LEMMA RowsReplay == Inv => RowsFit(rows)
<1> SUFFICES ASSUME Inv PROVE RowsFit(rows)
  OBVIOUS
<1>1. ASSUME NEW n \in DOMAIN rows
      PROVE  rows[n].ev = None \/ (rows[n].ev \in Event /\ rows[n].ev.id = rows[n].id /\ rows[n].ev.seq = n)
  <2>1. PICK i \in DOMAIN minted : i = rows[n].id
    BY DEF Inv, Linked
  <2>2. rows[n].ev \in {None, minted[i]} /\ minted[i].seq = n
    BY <2>1 DEF Inv, Linked
  <2>3. minted[i] \in Event /\ minted[i].id = i
    BY DEF Inv, TypeOK, MintedKept
  <2> QED
    BY <2>1, <2>2, <2>3
<1> QED
  BY <1>1 DEF Inv, TypeOK, RowsFit

\* recording_from_store brings the slots back as the rows have them.
LEMMA LoadStep ==
  ASSUME Inv, Load
  PROVE  Inv'
<1> DEFINE q == Replayed(rows, 0).rec
<1>1. IsRecording(q, Seqs) /\ q.slots = rows
  BY RowsReplay, ReplayRebuilds DEF Load
<1> HIDE DEF q
<1>2. mem' = q /\ loaded' = TRUE /\ UNCHANGED <<phase, tables, version, visitRow, rows, task, minted>>
  BY DEF Load, disk, q
<1>3. task = Idle /\ VisitRowExists
  BY DEF Load, Ready
<1>4. TypeOK'
  BY <1>1, <1>2 DEF Inv, TypeOK
<1>5. /\ (rows = [n \in DOMAIN rows |-> rows[n]])' /\ SchemaOrder' /\ DeletedStaysDeleted'
      /\ MintedKept' /\ Linked(rows)'
  BY <1>2 DEF Inv, SchemaOrder, DeletedStaysDeleted, VisitRowExists, MintedKept, Linked
<1>6. Linked(mem.slots)'
  BY <1>1, <1>2 DEF Inv, Linked
<1>7. TaskSound' /\ MemoryLeads'
  BY <1>1, <1>2, <1>3 DEF TaskSound, MemoryLeads, Idle, VisitRowExists, Pending
<1> QED
  BY <1>4, <1>5, <1>6, <1>7 DEF Inv

\* delete_visit empties the rows; the visit is not opened again.
LEMMA DeleteStep ==
  ASSUME Inv, DeleteVisit
  PROVE  Inv'
<1>1. DOMAIN NoRows = {} /\ NoRows = [n \in DOMAIN NoRows |-> NoRows[n]]
  BY DEF NoRows
<1>2. rows' = NoRows /\ visitRow' = "deleted"
      /\ UNCHANGED <<phase, tables, version, loaded, mem, task, minted>>
  BY DEF DeleteVisit
<1> HIDE DEF NoRows
<1>3. TypeOK'
  BY <1>1, <1>2 DEF Inv, TypeOK
<1>4. /\ (rows = [n \in DOMAIN rows |-> rows[n]])' /\ SchemaOrder' /\ DeletedStaysDeleted'
      /\ MintedKept'
  BY <1>1, <1>2 DEF Inv, SchemaOrder, DeletedStaysDeleted, MintedKept
<1>5. Linked(rows)' /\ Linked(mem.slots)'
  BY <1>1, <1>2 DEF Inv, Linked
<1>6. TaskSound' /\ MemoryLeads'
  BY <1>2 DEF Inv, TaskSound, MemoryLeads, VisitRowExists
<1> QED
  BY <1>3, <1>4, <1>5, <1>6 DEF Inv

\* append_event puts down the row that memory is ahead by.
LEMMA AppendStep ==
  ASSUME Inv, AppendEvent
  PROVE  Inv'
<1> DEFINE e == task.ev
           n == e.seq
           x == [id |-> e.id, ev |-> e]
<1>1. /\ task.op = "append" /\ task' = Idle
      /\ UNCHANGED <<phase, tables, version, visitRow, loaded, mem, minted>>
  BY DEF AppendEvent
<1>2. loaded /\ n \in Held(mem) /\ mem.slots[n] = x
  BY <1>1 DEF Inv, TaskSound
<1>3. /\ SchemaOrder' /\ MintedKept' /\ Linked(mem.slots)' /\ TaskSound'
      /\ VisitRowExists' = VisitRowExists
  BY <1>1 DEF Inv, SchemaOrder, MintedKept, Linked, TaskSound, Idle, VisitRowExists
<1>4. CASE VisitRowExists /\ n \notin DOMAIN rows
  <2>1. rows' = PutSlot(rows, n, x)
    BY <1>4 DEF AppendEvent
  <2>2. n \in Seqs /\ x \in Slot
    BY <1>2 DEF Inv, TypeOK, IsRecording
  <2> HIDE DEF n, x
  <2>3. /\ DOMAIN rows' = DOMAIN rows \cup {n}
        /\ rows' = [m \in DOMAIN rows' |-> rows'[m]]
        /\ \A m \in DOMAIN rows' : rows'[m] = IF m = n THEN x ELSE rows[m]
    BY <2>1 DEF PutSlot
  <2>4. TypeOK'
    BY <1>1, <2>2, <2>3 DEF Inv, TypeOK, Idle
  <2>5. DeletedStaysDeleted'
    BY <1>3, <1>4 DEF DeletedStaysDeleted
  <2>6. MemoryLeads'
    <3>1. DOMAIN rows \subseteq Held(mem) /\ Held(mem) \ DOMAIN rows \subseteq {n}
      BY <1>1, <1>2, <1>4 DEF Inv, MemoryLeads, Pending, n
    <3>2. \A m \in DOMAIN rows : rows[m].id = mem.slots[m].id
      BY <1>2, <1>4 DEF Inv, MemoryLeads
    <3> QED
      BY <1>1, <1>2, <2>3, <3>1, <3>2 DEF MemoryLeads
  <2>7. Linked(rows')
    <3>1. n > 0 => n - 1 \in DOMAIN rows /\ rows[n - 1].id = mem.slots[n - 1].id
      <4>1. n > 0 => n - 1 \in Held(mem) /\ n - 1 # n
        BY <1>2, <2>2 DEF Inv, Linked
      <4> QED
        BY <1>1, <1>2, <1>4, <4>1 DEF Inv, MemoryLeads, Pending, n
    <3>2. /\ x.id \in DOMAIN minted /\ minted[x.id].seq = n
          /\ x.ev \in {None, minted[x.id]}
          /\ n > 0 => minted[x.id].prev = mem.slots[n - 1].id
      BY <1>2 DEF Inv, Linked
    <3>3. ASSUME NEW m \in DOMAIN rows'
          PROVE  /\ rows'[m].id \in DOMAIN minted
                 /\ minted[rows'[m].id].seq = m
                 /\ rows'[m].ev \in {None, minted[rows'[m].id]}
                 /\ m > 0 => m - 1 \in DOMAIN rows' /\ minted[rows'[m].id].prev = rows'[m - 1].id
      <4>1. CASE m = n
        <5>1. n > 0 => n - 1 # n
          BY <2>2
        <5> QED
          BY <2>3, <3>1, <3>2, <4>1, <5>1
      <4>2. CASE m # n
        <5>1. m \in DOMAIN rows /\ rows'[m] = rows[m]
          BY <2>3, <4>2
        <5>2. m > 0 => m - 1 \in DOMAIN rows /\ m - 1 # n
          BY <1>4, <5>1 DEF Inv, Linked
        <5> QED
          BY <2>3, <5>1, <5>2 DEF Inv, Linked
      <4> QED
        BY <4>1, <4>2
    <3> QED
      BY <3>3 DEF Linked
  <2>8. Linked(rows)'
    BY <1>1, <2>7 DEF Linked
  <2> QED
    BY <1>3, <2>3, <2>4, <2>5, <2>6, <2>8 DEF Inv
<1>5. CASE ~(VisitRowExists /\ n \notin DOMAIN rows)
  <2>1. rows' = rows
    BY <1>5 DEF AppendEvent
  <2>2. TypeOK'
    BY <1>1, <2>1 DEF Inv, TypeOK, Idle
  <2>3. DeletedStaysDeleted' /\ (rows = [m \in DOMAIN rows |-> rows[m]])' /\ Linked(rows)'
    BY <1>1, <1>3, <2>1 DEF Inv, DeletedStaysDeleted, Linked
  <2>4. MemoryLeads'
    BY <1>1, <1>3, <1>5, <2>1 DEF Inv, MemoryLeads, Pending
  <2> QED
    BY <1>3, <2>2, <2>3, <2>4 DEF Inv
<1> QED
  BY <1>4, <1>5

\* tombstone_event keeps every row's identifier.
LEMMA TombstoneStep ==
  ASSUME Inv, TombstoneEvent
  PROVE  Inv' /\ \A n \in DOMAIN rows : ~Live(rows[n]) => rows'[n] = rows[n]
<1>1. /\ task.op = "drop"
      /\ UNCHANGED <<phase, tables, version, visitRow, loaded, mem, minted>>
  BY DEF TombstoneEvent
<1>2. PICK n \in task.seqs :
        IF n \in DOMAIN rows
        THEN rows' = [rows EXCEPT ![n].ev = None] /\ task' = Dropping(task.seqs \ {n})
        ELSE rows' = rows /\ task' = Idle
  BY DEF TombstoneEvent
<1>3. task' = Idle \/ \E ns \in (SUBSET Seqs) \ {{}} : task' = [op |-> "drop", seqs |-> ns]
  BY <1>1, <1>2 DEF Dropping, Inv, TypeOK
<1>4. /\ DOMAIN rows' = DOMAIN rows
      /\ rows' = [m \in DOMAIN rows' |-> rows'[m]]
      /\ \A m \in DOMAIN rows :
           /\ rows'[m] \in Slot /\ rows'[m].id = rows[m].id
           /\ rows'[m].ev \in {None, rows[m].ev}
           /\ rows[m].ev = None => rows'[m] = rows[m]
  <2>1. \A s \in Slot : /\ [s EXCEPT !.ev = None] \in Slot
                        /\ [s EXCEPT !.ev = None].id = s.id
                        /\ [s EXCEPT !.ev = None].ev = None
                        /\ s.ev = None => [s EXCEPT !.ev = None] = s
    BY DEF Slot
  <2>2. \A m \in DOMAIN rows : rows[m] \in Slot
    BY DEF Inv, TypeOK
  <2>3. rows = [m \in DOMAIN rows |-> rows[m]]
    BY DEF Inv
  <2>4. CASE n \notin DOMAIN rows
    BY <1>2, <2>2, <2>3, <2>4
  <2>5. CASE n \in DOMAIN rows
    <3> DEFINE y == [rows[n] EXCEPT !.ev = None]
    <3>1. rows' = [rows EXCEPT ![n] = y]
      BY <1>2, <2>5
    <3>2. y \in Slot /\ y.id = rows[n].id /\ y.ev = None /\ (rows[n].ev = None => y = rows[n])
      BY <2>1, <2>2, <2>5
    <3> HIDE DEF y
    <3> QED
      BY <2>2, <2>3, <2>5, <3>1, <3>2
  <2> QED
    BY <2>4, <2>5
<1>5. TypeOK'
  BY <1>1, <1>3, <1>4 DEF Inv, TypeOK, Idle
<1>6. SchemaOrder' /\ MintedKept' /\ Linked(mem.slots)' /\ VisitRowExists' = VisitRowExists
  BY <1>1 DEF Inv, SchemaOrder, MintedKept, Linked, VisitRowExists
<1>7. TaskSound'
  BY <1>1, <1>3 DEF Inv, TaskSound, Idle
<1>8. MemoryLeads'
  BY <1>1, <1>3, <1>4, <1>6 DEF Inv, MemoryLeads, Pending, Idle
<1>9. Linked(rows)'
  BY <1>1, <1>4 DEF Inv, Linked
<1>10. DeletedStaysDeleted'
  <2>1. ~VisitRowExists => rows = NoRows
    BY DEF Inv, DeletedStaysDeleted
  <2>2. rows = NoRows => rows' = NoRows
    BY <1>2 DEF NoRows
  <2> QED
    BY <1>6, <2>1, <2>2 DEF DeletedStaysDeleted
<1> QED
  BY <1>4, <1>5, <1>6, <1>7, <1>8, <1>9, <1>10 DEF Inv, Live

\* honour_drop_request empties slots and keeps their identifiers; the rows follow.
LEMMA HonourStep ==
  ASSUME Inv, NEW k \in Held(mem), Honour(k)
  PROVE  Inv'
<1> DEFINE q == HonourDropRequest(mem, k)
           D == { m \in Held(mem) : Live(mem.slots[m]) /\ ~Live(mem'.slots[m]) }
<1>1. /\ mem' = q /\ task' = Dropping(D) /\ loaded /\ task = Idle
      /\ UNCHANGED <<phase, tables, version, visitRow, rows, loaded, minted>>
  BY DEF Honour, Ready, disk
<1>2. /\ IsRecording(q, Seqs) /\ DOMAIN q.slots = DOMAIN mem.slots
      /\ \A m \in DOMAIN mem.slots : q.slots[m].id = mem.slots[m].id
  BY HonourEffect DEF Inv, TypeOK
<1>3. \A m \in DOMAIN mem.slots : q.slots[m].ev \in {None, mem.slots[m].ev}
  <2> DEFINE f == [m \in Held(mem) |-> IF m \in DropTargets(mem, k)
                                       THEN [mem.slots[m] EXCEPT !.ev = None] ELSE mem.slots[m]]
  <2>1. q.slots = f
    BY DEF HonourDropRequest, Inv, TypeOK, IsRecording
  <2>2. \A s \in Slot : [s EXCEPT !.ev = None].ev = None
    BY DEF Slot
  <2>3. \A m \in DOMAIN mem.slots : mem.slots[m] \in Slot
    BY DEF Inv, TypeOK, IsRecording
  <2> QED
    BY <2>1, <2>2, <2>3
<1>4. D \subseteq Seqs
  BY DEF Inv, TypeOK, IsRecording
<1> HIDE DEF q, D
<1>5. task' = Idle \/ \E ns \in (SUBSET Seqs) \ {{}} : task' = [op |-> "drop", seqs |-> ns]
  BY <1>1, <1>4 DEF Dropping
<1>6. TypeOK'
  BY <1>1, <1>2, <1>5 DEF Inv, TypeOK, Idle
<1>7. /\ (rows = [n \in DOMAIN rows |-> rows[n]])' /\ SchemaOrder' /\ DeletedStaysDeleted'
      /\ MintedKept' /\ Linked(rows)' /\ VisitRowExists' = VisitRowExists
  BY <1>1 DEF Inv, SchemaOrder, DeletedStaysDeleted, VisitRowExists, MintedKept, Linked
<1>8. Linked(mem.slots)'
  BY <1>1, <1>2, <1>3 DEF Inv, Linked
<1>9. TaskSound'
  BY <1>1, <1>5 DEF Inv, TaskSound, Idle
<1>10. MemoryLeads'
  BY <1>1, <1>2, <1>5, <1>7 DEF Inv, MemoryLeads, Pending, Idle
<1> QED
  BY <1>6, <1>7, <1>8, <1>9, <1>10 DEF Inv

\* A recording is offered an event that was signed, perhaps in this step.
Signed(e) ==
  /\ minted' \in Seq(Event) /\ MintedKept'
  /\ \A i \in DOMAIN minted : i \in DOMAIN minted' /\ minted'[i] = minted[i]
  /\ e \in Event /\ e.seq \in Seqs /\ e.id \in DOMAIN minted' /\ minted'[e.id] = e

LEMMA ReceiveStep ==
  ASSUME Inv, NEW e, Signed(e), Receive(e)
  PROVE  Inv'
<1> DEFINE q == Ingest(mem, e, 0)
           v == Verdict(mem, e, 0)
           n == e.seq
           x == [id |-> e.id, ev |-> e]
<1>1. /\ mem' = q /\ task' = (IF v = "ok" THEN Appending(e) ELSE Idle) /\ loaded /\ task = Idle
      /\ UNCHANGED <<phase, tables, version, visitRow, rows, loaded>>
  BY DEF Receive, Ready, disk
<1>2. IsRecording(mem, Seqs) /\ e \in Event /\ n \in Seqs
  BY DEF Inv, TypeOK, Signed
<1>3. IsRecording(q, Seqs)
  BY <1>2, IngestEffect
<1>4. q.slots = IF v = "ok" THEN PutSlot(mem.slots, n, x) ELSE mem.slots
  BY <1>2, IngestSlots
<1>5. v = "ok" => /\ n \in DOMAIN mem.slots => mem.slots[n].id = e.id
                  /\ n > 0 => n - 1 \in DOMAIN mem.slots /\ e.prev = mem.slots[n - 1].id
  <2>1. n \in Nat
    BY <1>2
  <2> QED
    BY <1>2, <2>1, AdmitsOnlyLinked DEF ExpectedPrev
<1>6. Linked(rows)'
  BY <1>1 DEF Inv, Linked, Signed
<1>7. /\ (rows = [m \in DOMAIN rows |-> rows[m]])' /\ SchemaOrder' /\ DeletedStaysDeleted'
      /\ MintedKept' /\ VisitRowExists' = VisitRowExists
  BY <1>1 DEF Inv, SchemaOrder, DeletedStaysDeleted, VisitRowExists, Signed
<1> HIDE DEF q, v, n, x
<1>8. CASE v # "ok"
  <2>1. mem'.slots = mem.slots /\ task' = Idle
    BY <1>1, <1>4, <1>8
  <2>2. TypeOK'
    BY <1>1, <1>3, <2>1 DEF Inv, TypeOK, Idle, Signed
  <2>3. Linked(mem.slots)'
    BY <2>1 DEF Inv, Linked, Signed
  <2>4. TaskSound' /\ MemoryLeads'
    BY <1>1, <1>7, <2>1 DEF Inv, TaskSound, MemoryLeads, Pending, Idle
  <2> QED
    BY <1>6, <1>7, <2>2, <2>3, <2>4 DEF Inv
<1>9. CASE v = "ok"
  <2>1. task' = [op |-> "append", ev |-> e]
    BY <1>1, <1>9 DEF Appending
  <2>2. /\ DOMAIN mem'.slots = DOMAIN mem.slots \cup {n}
        /\ \A m \in DOMAIN mem'.slots : mem'.slots[m] = IF m = n THEN x ELSE mem.slots[m]
    BY <1>1, <1>4, <1>9 DEF PutSlot
  <2>3. TypeOK'
    BY <1>1, <1>3, <2>1 DEF Inv, TypeOK, Signed
  <2>4. TaskSound'
    BY <1>1, <2>1, <2>2 DEF Inv, TaskSound, n, x
  <2>5. MemoryLeads'
    <3> SUFFICES ASSUME VisitRowExists PROVE MemoryLeads'
      BY <1>7 DEF MemoryLeads
    <3>1. /\ DOMAIN rows = DOMAIN mem.slots
          /\ \A m \in DOMAIN rows : rows[m].id = mem.slots[m].id
      BY <1>1 DEF Inv, MemoryLeads, Pending, Idle
    <3>2. Pending' = {n}
      BY <2>1 DEF Pending, n
    <3>3. x.id = e.id
      BY DEF x
    <3> QED
      BY <1>1, <1>5, <1>9, <2>2, <3>1, <3>2, <3>3 DEF MemoryLeads
  <2>6. ASSUME NEW m \in DOMAIN mem'.slots
        PROVE  /\ mem'.slots[m].id \in DOMAIN minted'
               /\ minted'[mem'.slots[m].id].seq = m
               /\ mem'.slots[m].ev \in {None, minted'[mem'.slots[m].id]}
               /\ m > 0 => /\ m - 1 \in DOMAIN mem'.slots
                           /\ minted'[mem'.slots[m].id].prev = mem'.slots[m - 1].id
    <3>1. ASSUME NEW k \in DOMAIN mem.slots PROVE mem'.slots[k].id = mem.slots[k].id
      BY <1>5, <1>9, <2>2 DEF x
    <3>2. CASE m = n
      <4>1. mem'.slots[m] = [id |-> e.id, ev |-> e] /\ minted'[e.id] = e /\ e.id \in DOMAIN minted'
        BY <2>2, <3>2 DEF x, Signed
      <4>2. n > 0 => n - 1 \in DOMAIN mem'.slots /\ e.prev = mem'.slots[n - 1].id
        BY <1>5, <1>9, <2>2, <3>1
      <4> QED
        BY <3>2, <4>1, <4>2 DEF n
    <3>3. CASE m # n
      <4>1. m \in DOMAIN mem.slots /\ mem'.slots[m] = mem.slots[m]
        BY <2>2, <3>3
      <4>2. PICK i \in DOMAIN minted : i = mem.slots[m].id
        BY <4>1 DEF Inv, Linked
      <4>3. i \in DOMAIN minted' /\ minted'[i] = minted[i]
        BY DEF Signed
      <4>4. /\ minted[i].seq = m /\ mem.slots[m].ev \in {None, minted[i]}
            /\ m > 0 => m - 1 \in DOMAIN mem.slots /\ minted[i].prev = mem.slots[m - 1].id
        BY <4>1, <4>2 DEF Inv, Linked
      <4>5. m > 0 => m - 1 \in DOMAIN mem'.slots /\ mem'.slots[m - 1].id = mem.slots[m - 1].id
        BY <2>2, <3>1, <4>4
      <4> QED
        BY <4>1, <4>2, <4>3, <4>4, <4>5
    <3> QED
      BY <3>2, <3>3
  <2>7. Linked(mem.slots)'
    BY <2>6 DEF Linked
  <2> QED
    BY <1>6, <1>7, <2>3, <2>4, <2>5, <2>7 DEF Inv
<1> QED
  BY <1>8, <1>9

\* What the host may sequence the next event after is signed, or nothing.
LEMMA HeadsSigned ==
  ASSUME Inv, NEW p \in Heads
  PROVE  p = ZeroId \/ p \in DOMAIN minted
<1> DEFINE S == Held(mem)
<1>1. minted \in Seq(Event)
  BY DEF Inv, TypeOK
<1>2. Len(minted) = ZeroId \/ Len(minted) \in DOMAIN minted
  BY <1>1 DEF ZeroId
<1>3. ASSUME S # {} PROVE mem.slots[Cardinality(S) - 1].id \in DOMAIN minted
  <2>1. S \in SUBSET (0..MaxEvents-1) /\ \A n \in S : n > 0 => n - 1 \in S
    BY DEF Inv, TypeOK, IsRecording, Linked
  <2> HIDE DEF S
  <2>2. Cardinality(S) - 1 \in S
    BY <1>3, <2>1, GaplessPrefix
  <2> QED
    BY <2>2 DEF Inv, Linked, S
<1> QED
  BY <1>2, <1>3 DEF Heads

LEMMA NewEventSigned ==
  ASSUME Inv, NEW a \in Key, NEW p \in Heads, NEW b \in Bodies, NewEvent(a, p, b)
  PROVE  \E e : Signed(e) /\ Receive(e) /\ e.id = Len(minted) + 1
<1> DEFINE k == Len(minted) + 1
           q == IF p = ZeroId THEN 0 ELSE minted[p].seq + 1
           e == [id |-> k, form |-> "valid", visit |-> This, author |-> a,
                 seq |-> q, prev |-> p, body |-> b]
<1>1. q < MaxEvents /\ Receive(e) /\ minted' = Append(minted, e)
  BY DEF NewEvent
<1>2. minted \in Seq(Event) /\ MintedKept
  BY DEF Inv, TypeOK
<1>3. p \in Nat /\ q \in Nat
  <2>1. CASE p = ZeroId
    BY <2>1 DEF ZeroId
  <2>2. CASE p # ZeroId
    <3>1. p \in DOMAIN minted /\ minted[p].seq \in Nat
      BY <1>2, <2>2, HeadsSigned DEF MintedKept
    <3> QED
      BY <1>2, <2>2, <3>1
  <2> QED
    BY <2>1, <2>2
<1>4. q \in Seqs
  BY <1>1, <1>3
<1>5. k \in EventId /\ b \in Body
  BY <1>2, BodiesType DEF EventId, ZeroId
<1> HIDE DEF k, q
<1>6. e \in Event
  BY <1>3, <1>5, VisitAssumption DEF Event, Form
<1>7. e.id = k /\ e.seq = q
  OBVIOUS
<1> HIDE DEF e
<1>8. /\ minted' \in Seq(Event)
      /\ DOMAIN minted' = DOMAIN minted \cup {k}
      /\ minted'[k] = e
      /\ \A i \in DOMAIN minted : minted'[i] = minted[i]
  BY <1>1, <1>2, <1>6 DEF k
<1>9. Signed(e)
  BY <1>2, <1>4, <1>6, <1>7, <1>8 DEF Signed, MintedKept
<1> QED
  BY <1>1, <1>7, <1>9 DEF k

LEMMA OldEventSigned ==
  ASSUME Inv, NEW i \in DOMAIN minted, OldEvent(minted[i])
  PROVE  Signed(minted[i]) /\ Receive(minted[i])
<1>1. Receive(minted[i]) /\ minted' = minted
  BY DEF OldEvent
<1>2. minted[i] \in Event /\ minted[i].id = i /\ minted[i].seq \in Seqs
  BY DEF Inv, TypeOK, MintedKept
<1>3. Signed(minted[i])
  BY <1>1, <1>2 DEF Inv, TypeOK, Signed, MintedKept
<1> QED
  BY <1>1, <1>3

LEMMA StutterStep ==
  ASSUME Inv, UNCHANGED vars
  PROVE  Inv'
<1> USE DEF vars
<1>1. TypeOK' /\ (rows = [n \in DOMAIN rows |-> rows[n]])'
  BY DEF Inv, TypeOK
<1>2. SchemaOrder' /\ DeletedStaysDeleted' /\ MintedKept' /\ Linked(mem.slots)' /\ Linked(rows)'
  BY DEF Inv, SchemaOrder, DeletedStaysDeleted, VisitRowExists, MintedKept, Linked
<1>3. TaskSound' /\ MemoryLeads'
  BY DEF Inv, TaskSound, MemoryLeads, VisitRowExists, Pending
<1> QED
  BY <1>1, <1>2, <1>3 DEF Inv

LEMMA InvHolds == Spec => []Inv
<1>1. ASSUME Inv, [Next]_vars PROVE Inv'
  BY <1>1, StutterStep, OpenSteps, CrashStep, LoadStep, DeleteStep, NewEventSigned,
     OldEventSigned, ReceiveStep, AppendStep, HonourStep, TombstoneStep DEF Next
<1> QED
  BY InitInv, <1>1, PTL DEF Spec

-----------------------------------------------------------------------------
\* Through crashes at every statement, redeliveries and half-done drops, an open
\* store has all its tables, a deleted visit leaves no row behind, and the rows
\* are a gapless prefix of the visit (Store::open, append_event, delete_visit),
\* for any bodies, any tables and any bounds.
THEOREM StoreKeepsTheVisit == Spec => []RowsAreTheVisit
<1>1. Inv => RowsAreTheVisit
  BY DEF Inv, SchemaOrder, Linked, RowsAreTheVisit, OpenStoreIsComplete, RowsLinked
<1> QED
  BY <1>1, InvHolds, PTL

\* R-41 and R-50: no step writes bytes into a row whose bytes were dropped, not
\* even when the event is delivered and admitted again (append_event's INSERT).
THEOREM DropsAreFinal == Spec => DroppedBytesStayGone
<1> DEFINE Kept == \A n \in DOMAIN rows \cap DOMAIN rows' : ~Live(rows[n]) => rows'[n] = rows[n]
<1>1. ASSUME Inv, Next PROVE Kept
  <2>1. CASE TombstoneEvent
    BY <1>1, <2>1, TombstoneStep
  <2>2. CASE AppendEvent
    BY <2>2 DEF AppendEvent, PutSlot
  <2>3. CASE DeleteVisit
    BY <2>3 DEF DeleteVisit, NoRows
  <2>4. CASE ~(TombstoneEvent \/ AppendEvent \/ DeleteVisit)
    <3>1. rows' = rows
      BY <1>1, <2>4 DEF Next, Lock, CheckVersion, CreateTable, SetVersion, Crash, OpenVisit,
         CloseVisit, Load, NewEvent, OldEvent, Receive, Honour, disk
    <3> QED
      BY <3>1
  <2> QED
    BY <2>1, <2>2, <2>3, <2>4
<1>2. Inv /\ [Next]_vars => [Kept]_vars
  BY <1>1
<1> QED
  BY <1>2, InvHolds, PTL DEF Spec, DroppedBytesStayGone

-----------------------------------------------------------------------------
(* Replaying the rows gives the recording in memory.                       *)

\* What the slots of the recording were before anything was dropped.
Whole == [n \in Held(mem) |-> [id |-> mem.slots[n].id, ev |-> minted[mem.slots[n].id]]]

AllLive(slots) == \A n \in DOMAIN slots : Live(slots[n])

\* r rebuilds the membership that the recording in memory has.
SameMembers(r) ==
  /\ r.joins = mem.joins /\ r.revoked = mem.revoked /\ r.inForce = mem.inForce
  /\ r.windows = mem.windows /\ r.broken = mem.broken

\* While every row has its bytes, the recording in memory has the membership that
\* its events give when they are replayed from the first; and it has all its
\* bytes too, except while a drop is on its way to the rows.
MemoryIsReplay ==
  loaded /\ VisitRowExists /\ ~mem.broken /\ AllLive(rows) =>
    /\ Replayed(Whole, 0).verdict = "ok" /\ SameMembers(Replayed(Whole, 0).rec)
    /\ task.op # "drop" => AllLive(mem.slots)

DropSound == task.op = "drop" => task.seqs \subseteq Held(mem)

ReplayInv == Inv /\ DropSound /\ MemoryIsReplay

\* Replays of rows that agree below k agree up to k.
LEMMA ReplaysAgree ==
  ASSUME NEW rs, NEW rq, NEW t, NEW f, NEW g, IsTable(f, rs, t), IsTable(g, rq, t),
         NEW k \in 0..MaxEvents,
         \A m \in 0..(k - 1) : (m \in DOMAIN rs <=> m \in DOMAIN rq) /\ (m \in DOMAIN rs => rs[m] = rq[m])
  PROVE  f[k] = g[k]
<1> DEFINE Bad == { n \in 0..k : f[n] # g[n] }
<1>1. Bad = {}
  <2> SUFFICES ASSUME Bad # {} PROVE FALSE
    OBVIOUS
  <2>1. Bad \in SUBSET Nat
    OBVIOUS
  <2>2. PICK m \in Bad : \A n \in Bad : m <= n
    BY <2>1, LeastNumber
  <2>3. m \in 0..k /\ f[m] # g[m]
    BY <2>2
  <2>4. m # 0
    BY <2>3 DEF IsTable
  <2>5. m \in 1..MaxEvents /\ m - 1 \in 0..(k - 1) /\ m - 1 \in 0..k /\ ~(m <= m - 1)
    BY <2>3, <2>4
  <2>6. f[m - 1] = g[m - 1]
    BY <2>2, <2>5
  <2>7. ReplayStep(f[m - 1], m - 1, rs, t) = ReplayStep(g[m - 1], m - 1, rq, t)
    <3>1. (m - 1 \in DOMAIN rs <=> m - 1 \in DOMAIN rq) /\ (m - 1 \in DOMAIN rs => rs[m - 1] = rq[m - 1])
      BY <2>5
    <3> QED
      BY <2>6, <3>1 DEF ReplayStep
  <2> QED
    BY <2>3, <2>5, <2>7 DEF IsTable
<1>2. k \in 0..k
  OBVIOUS
<1> QED
  BY <1>1, <1>2

\* A replay is over with the last row.
LEMMA ReplayEnds ==
  ASSUME NEW rs, NEW t, NEW f, IsTable(f, rs, t), NEW k \in 0..MaxEvents,
         \A m \in k..MaxEvents : m \notin DOMAIN rs
  PROVE  Replayed(rs, t) = f[k]
<1> DEFINE Bad == { n \in k..MaxEvents : f[n] # f[k] }
<1>1. Bad = {}
  <2> SUFFICES ASSUME Bad # {} PROVE FALSE
    OBVIOUS
  <2>1. Bad \in SUBSET Nat
    OBVIOUS
  <2>2. PICK m \in Bad : \A n \in Bad : m <= n
    BY <2>1, LeastNumber
  <2>3. m \in k..MaxEvents /\ f[m] # f[k]
    BY <2>2
  <2>4. m # k
    BY <2>3
  <2>5. m \in 1..MaxEvents /\ m - 1 \in k..MaxEvents /\ ~(m <= m - 1)
    BY <2>3, <2>4
  <2>6. f[m - 1] = f[k]
    BY <2>2, <2>5
  <2>7. ReplayStep(f[m - 1], m - 1, rs, t) = f[m - 1]
    BY <2>5 DEF ReplayStep
  <2> QED
    BY <2>3, <2>5, <2>6, <2>7 DEF IsTable
<1>2. MaxEvents \in k..MaxEvents
  OBVIOUS
<1> QED
  BY <1>1, <1>2 DEF IsTable

\* One row more is one step more of the replay.
LEMMA ReplayExtends ==
  ASSUME NEW rs, NEW t, NEW k \in Seqs, NEW row, DOMAIN rs \subseteq Nat,
         \A m \in DOMAIN rs : m < k, Replayed(rs, t).verdict = "ok"
  PROVE  Replayed(PutSlot(rs, k, row), t) = ReplayRow(Replayed(rs, t), k, row, t)
<1> DEFINE rq == PutSlot(rs, k, row)
<1>1. PICK f : IsTable(f, rs, t)
  BY ReplayUnfolds
<1>2. PICK g : IsTable(g, rq, t)
  BY ReplayUnfolds
<1>3. /\ DOMAIN rq = DOMAIN rs \cup {k}
      /\ \A m \in DOMAIN rq : rq[m] = IF m = k THEN row ELSE rs[m]
  BY DEF PutSlot
<1> HIDE DEF rq
<1>4. k \in Nat /\ k \in 0..MaxEvents /\ k + 1 \in 1..MaxEvents /\ k + 1 \in 0..MaxEvents
      /\ (k + 1) - 1 = k
  OBVIOUS
<1>5. Replayed(rs, t) = f[k]
  <2>1. \A m \in k..MaxEvents : m \notin DOMAIN rs
    BY <1>4
  <2> QED
    BY <1>1, <1>4, <2>1, ReplayEnds
<1>6. f[k] = g[k]
  <2>1. \A m \in 0..(k - 1) : (m \in DOMAIN rs <=> m \in DOMAIN rq)
    BY <1>3, <1>4
  <2>2. \A m \in 0..(k - 1) : m \in DOMAIN rs => rs[m] = rq[m]
    BY <1>3, <1>4
  <2> QED
    BY <1>1, <1>2, <1>4, <2>1, <2>2, ReplaysAgree
<1>7. g[k + 1] = ReplayRow(g[k], k, row, t)
  <2>1. g[k + 1] = ReplayStep(g[k], k, rq, t)
    BY <1>2, <1>4 DEF IsTable
  <2>2. k \in DOMAIN rq /\ rq[k] = row
    BY <1>3
  <2> QED
    BY <1>5, <1>6, <2>1, <2>2 DEF ReplayStep
<1>8. Replayed(rq, t) = g[k + 1]
  <2>1. \A m \in (k + 1)..MaxEvents : m \notin DOMAIN rq
    BY <1>3, <1>4
  <2> QED
    BY <1>2, <1>4, <2>1, ReplayEnds
<1> QED
  BY <1>5, <1>6, <1>7, <1>8 DEF rq

\* Between calls, while every row has its bytes, the rows are the slots in memory
\* and their replay is the recording in memory.
InStep == loaded /\ VisitRowExists /\ ~mem.broken /\ AllLive(rows)

LEMMA ReplayNow ==
  ASSUME Inv, MemoryIsReplay, InStep, task = Idle
  PROVE  /\ Whole = mem.slots /\ rows = mem.slots
         /\ Replayed(mem.slots, 0) = [verdict |-> "ok", rec |-> mem]
<1>1. DOMAIN rows = DOMAIN mem.slots /\ \A n \in DOMAIN rows : rows[n].id = mem.slots[n].id
  BY DEF Inv, InStep, MemoryLeads, Pending, Idle
<1>2. AllLive(mem.slots) /\ Replayed(Whole, 0).verdict = "ok" /\ SameMembers(Replayed(Whole, 0).rec)
  BY DEF MemoryIsReplay, InStep, Idle
<1>3. ASSUME NEW n \in DOMAIN mem.slots
      PROVE  rows[n] = Whole[n] /\ mem.slots[n] = Whole[n]
  <2>1. rows[n] \in Slot /\ mem.slots[n] \in Slot
    BY <1>1 DEF Inv, TypeOK, IsRecording
  <2>2. rows[n].ev = minted[rows[n].id] /\ mem.slots[n].ev = minted[mem.slots[n].id]
    BY <1>1, <1>2 DEF Inv, Linked, AllLive, InStep, Live
  <2>3. \A x \in Slot : x = [id |-> x.id, ev |-> x.ev]
    BY DEF Slot
  <2>4. /\ rows[n] = [id |-> rows[n].id, ev |-> rows[n].ev]
        /\ mem.slots[n] = [id |-> mem.slots[n].id, ev |-> mem.slots[n].ev]
    BY <2>1, <2>3
  <2> QED
    BY <1>1, <2>2, <2>4 DEF Whole
<1>4. /\ rows = [n \in DOMAIN rows |-> rows[n]]
      /\ mem.slots = [n \in DOMAIN mem.slots |-> mem.slots[n]]
      /\ Whole = [n \in DOMAIN mem.slots |-> Whole[n]]
  BY DEF Inv, TypeOK, IsRecording, Whole
<1>5. Whole = mem.slots /\ rows = mem.slots
  BY <1>1, <1>3, <1>4
<1> DEFINE R == Replayed(rows, 0)
<1>6. /\ IsRecording(R.rec, Seqs) /\ R = [verdict |-> R.verdict, rec |-> R.rec]
      /\ R.verdict = "ok" => R.rec.slots = rows
  BY RowsReplay, ReplayRebuilds
<1>7. R.verdict = "ok" /\ SameMembers(R.rec)
  BY <1>2, <1>5
<1> HIDE DEF R
<1>8. R.rec = mem
  <2> DEFINE q == R.rec
  <2>1. /\ q.slots = mem.slots /\ q.joins = mem.joins /\ q.revoked = mem.revoked
        /\ q.inForce = mem.inForce /\ q.windows = mem.windows /\ q.broken = mem.broken
    BY <1>5, <1>6, <1>7 DEF SameMembers
  <2>2. q = [slots |-> q.slots, joins |-> q.joins, revoked |-> q.revoked,
             inForce |-> q.inForce, windows |-> q.windows, broken |-> q.broken]
    BY <1>6 DEF IsRecording
  <2>3. mem = [slots |-> mem.slots, joins |-> mem.joins, revoked |-> mem.revoked,
               inForce |-> mem.inForce, windows |-> mem.windows, broken |-> mem.broken]
    BY DEF Inv, TypeOK, IsRecording
  <2> HIDE DEF q
  <2>4. q = mem
    BY <2>1, <2>2, <2>3
  <2> QED
    BY <2>4 DEF q
<1>9. Replayed(mem.slots, 0) = R
  BY <1>5 DEF R
<1> QED
  BY <1>5, <1>6, <1>7, <1>8, <1>9

\* A step that keeps the identifiers and the membership in memory.
Frame ==
  /\ Held(mem') = Held(mem)
  /\ \A n \in Held(mem) : mem'.slots[n].id = mem.slots[n].id
  /\ \A i \in DOMAIN minted : minted'[i] = minted[i]
  /\ SameMembers(mem')
  /\ InStep' => InStep /\ (task'.op # "drop" => AllLive(mem'.slots))

LEMMA FrameKeeps ==
  ASSUME Inv, MemoryIsReplay, Frame
  PROVE  MemoryIsReplay'
<1>1. Whole' = Whole
  <2>1. \A n \in Held(mem) : mem.slots[n].id \in DOMAIN minted
    BY DEF Inv, Linked
  <2>2. \A n \in Held(mem) : minted'[mem.slots[n].id] = minted[mem.slots[n].id]
    BY <2>1 DEF Frame
  <2> QED
    BY <2>2 DEF Whole, Frame
<1> SUFFICES ASSUME InStep'
             PROVE  /\ Replayed(Whole', 0).verdict = "ok" /\ SameMembers(Replayed(Whole, 0).rec)'
                    /\ task'.op # "drop" => AllLive(mem'.slots)
  BY DEF MemoryIsReplay, InStep, AllLive
<1>2. InStep /\ (task'.op # "drop" => AllLive(mem'.slots))
  BY DEF Frame
<1> DEFINE R == Replayed(Whole, 0).rec
<1>3. Replayed(Whole, 0).verdict = "ok" /\ SameMembers(R)
  BY <1>2 DEF MemoryIsReplay, InStep
<1>4. Replayed(Whole', 0) = Replayed(Whole, 0)
  BY <1>1
<1> QED
  BY <1>2, <1>3, <1>4 DEF SameMembers, Frame

\* Steps of the store that leave the recording in memory alone.
LEMMA QuietReplay ==
  ASSUME Inv, DropSound, MemoryIsReplay,
         \/ Lock \/ CheckVersion \/ CreateTable \/ SetVersion \/ OpenVisit \/ CloseVisit
         \/ DeleteVisit \/ AppendEvent
  PROVE  DropSound' /\ MemoryIsReplay'
<1>1. UNCHANGED <<loaded, mem, minted>> /\ (task' = task \/ (task.op = "append" /\ task' = Idle))
  BY DEF Lock, CheckVersion, CreateTable, SetVersion, OpenVisit, CloseVisit, DeleteVisit,
         AppendEvent, disk
<1>2. loaded => (VisitRowExists' => VisitRowExists)
  BY DEF Lock, CheckVersion, CreateTable, SetVersion, OpenVisit, CloseVisit, DeleteVisit,
         AppendEvent, disk, Inv, TaskSound, VisitRowExists
<1>3. VisitRowExists' => (AllLive(rows') => AllLive(rows))
  <2>1. CASE AppendEvent
    BY <2>1 DEF AppendEvent, PutSlot, AllLive
  <2>2. CASE DeleteVisit
    BY <2>2 DEF DeleteVisit, VisitRowExists
  <2>3. CASE ~(AppendEvent \/ DeleteVisit)
    BY <2>3 DEF Lock, CheckVersion, CreateTable, SetVersion, OpenVisit, CloseVisit, disk
  <2> QED
    BY <2>1, <2>2, <2>3
<1>4. InStep' => InStep
  BY <1>1, <1>2, <1>3 DEF InStep, AllLive
<1>5. InStep /\ task'.op # "drop" => AllLive(mem'.slots)
  BY <1>1 DEF InStep, MemoryIsReplay, AllLive
<1>6. Frame
  BY <1>1, <1>4, <1>5 DEF Frame, SameMembers
<1>7. DropSound'
  BY <1>1 DEF DropSound, Idle
<1> QED
  BY <1>6, <1>7, FrameKeeps

\* A crash unloads, and a load replays.
LEMMA RestartReplay ==
  ASSUME Inv, Inv', Crash \/ Load
  PROVE  DropSound' /\ MemoryIsReplay'
<1>1. CASE Crash
  BY <1>1 DEF Crash, DropSound, MemoryIsReplay, Idle
<1>2. CASE Load
  <2> DEFINE q == Replayed(rows, 0).rec
  <2>1. q.slots = rows /\ Replayed(rows, 0).verdict = "ok"
    BY <1>2, RowsReplay, ReplayRebuilds DEF Load
  <2>2. mem' = q /\ task' = Idle /\ UNCHANGED <<rows, minted>>
    BY <1>2 DEF Load, Ready, disk
  <2>3. ASSUME AllLive(rows) PROVE Whole' = rows
    <3>1. \A n \in DOMAIN rows : rows[n] = [id |-> rows[n].id, ev |-> minted[rows[n].id]]
      <4>1. \A x \in Slot : x = [id |-> x.id, ev |-> x.ev]
        BY DEF Slot
      <4>2. \A n \in DOMAIN rows : rows[n] \in Slot /\ rows[n].ev = minted[rows[n].id]
        BY <2>3 DEF Inv, TypeOK, Linked, AllLive, Live
      <4> QED
        BY <4>1, <4>2
    <3>2. Whole' = [n \in DOMAIN rows |-> [id |-> rows[n].id, ev |-> minted[rows[n].id]]]
      BY <2>1, <2>2 DEF Whole
    <3>3. rows = [n \in DOMAIN rows |-> rows[n]]
      BY DEF Inv
    <3> QED
      BY <3>1, <3>2, <3>3
  <2> SUFFICES ASSUME AllLive(rows') PROVE DropSound' /\ MemoryIsReplay'
    BY <2>2 DEF DropSound, MemoryIsReplay, Idle, AllLive
  <2>4. Whole' = rows /\ AllLive(rows)
    BY <2>2, <2>3 DEF AllLive
  <2>5. Replayed(Whole', 0).verdict = "ok" /\ Replayed(Whole', 0).rec = mem'
    BY <2>1, <2>2, <2>4
  <2>6. AllLive(mem'.slots)
    BY <2>1, <2>2, <2>4
  <2> QED
    BY <2>2, <2>5, <2>6 DEF DropSound, MemoryIsReplay, SameMembers, Idle, AllLive
<1> QED
  BY <1>1, <1>2

\* A drop leaves the membership; the rows lose their bytes after memory has.
LEMMA DropReplay ==
  ASSUME Inv, DropSound, MemoryIsReplay, TombstoneEvent \/ \E k \in Held(mem) : Honour(k)
  PROVE  DropSound' /\ MemoryIsReplay'
<1>1. ASSUME NEW k \in Held(mem), Honour(k)
      PROVE  DropSound' /\ MemoryIsReplay'
  <2> DEFINE q == HonourDropRequest(mem, k)
             D == { m \in Held(mem) : Live(mem.slots[m]) /\ ~Live(mem'.slots[m]) }
  <2>1. /\ mem' = q /\ task' = Dropping(D) /\ task = Idle
        /\ UNCHANGED <<visitRow, rows, loaded, minted>>
    BY <1>1 DEF Honour, Ready, disk
  <2>2. /\ DOMAIN q.slots = DOMAIN mem.slots
        /\ \A m \in DOMAIN mem.slots : q.slots[m].id = mem.slots[m].id
    BY HonourEffect DEF Inv, TypeOK
  <2>3. SameMembers(q)
    BY DEF SameMembers, HonourDropRequest, Inv, TypeOK, IsRecording
  <2> HIDE DEF q
  <2>4. InStep' => InStep
    BY <2>1, <2>3 DEF InStep, SameMembers, VisitRowExists, AllLive
  <2>5. InStep /\ task'.op # "drop" => AllLive(mem'.slots)
    <3> SUFFICES ASSUME InStep, task'.op # "drop" PROVE AllLive(mem'.slots)
      OBVIOUS
    <3>1. D = {}
      BY <2>1 DEF Dropping
    <3>2. AllLive(mem.slots)
      BY <2>1 DEF InStep, MemoryIsReplay, Idle
    <3> QED
      BY <2>1, <2>2, <3>1, <3>2 DEF AllLive
  <2>6. Frame
    BY <2>1, <2>2, <2>3, <2>4, <2>5 DEF Frame
  <2>7. DropSound'
    BY <2>1, <2>2 DEF DropSound, Dropping, Idle
  <2> QED
    BY <2>6, <2>7, FrameKeeps
<1>2. CASE TombstoneEvent
  <2>1. task.op = "drop" /\ UNCHANGED <<visitRow, loaded, mem, minted>>
    BY <1>2 DEF TombstoneEvent
  <2>2. PICK n \in task.seqs :
          IF n \in DOMAIN rows
          THEN rows' = [rows EXCEPT ![n].ev = None] /\ task' = Dropping(task.seqs \ {n})
          ELSE rows' = rows /\ task' = Idle
    BY <1>2 DEF TombstoneEvent
  <2>3. DropSound'
    BY <2>1, <2>2 DEF DropSound, Dropping, Idle
  <2>4. ASSUME InStep' PROVE FALSE
    <3>1. n \in DOMAIN rows
      BY <2>1, <2>4 DEF Inv, DropSound, MemoryLeads, Pending, InStep, VisitRowExists
    <3>2. n \in DOMAIN rows' /\ rows'[n].ev = None
      BY <2>2, <3>1 DEF Inv, TypeOK, Slot
    <3> QED
      BY <2>4, <3>2 DEF InStep, AllLive, Live
  <2> QED
    BY <2>3, <2>4 DEF MemoryIsReplay, InStep
<1> QED
  BY <1>1, <1>2

\* The bodies that change who may speak; ingesting the others changes slots only.
MembershipTypes == {"join", "leave", "deviceAdd", "deviceRevoke"}

\* An event in circulation is offered, and one that is held again only if its body
\* changes no membership.
Offered(e) ==
  /\ Signed(e) /\ Receive(e)
  /\ e.id \in HeldIds(mem) => e.body.type \notin MembershipTypes

LEMMA ReceiveReplay ==
  ASSUME Inv, MemoryIsReplay, NEW e, Offered(e)
  PROVE  DropSound' /\ MemoryIsReplay'
<1> DEFINE q == Ingest(mem, e, 0)
           v == Verdict(mem, e, 0)
           n == e.seq
           x == [id |-> e.id, ev |-> e]
<1>1. /\ mem' = q /\ task' = (IF v = "ok" THEN Appending(e) ELSE Idle) /\ loaded /\ task = Idle
      /\ UNCHANGED <<visitRow, rows, loaded>>
  BY DEF Offered, Receive, Ready, disk
<1>2. IsRecording(mem, Seqs) /\ e \in Event /\ n \in Seqs /\ Signed(e)
  BY DEF Inv, TypeOK, Signed, Offered
<1>3. DropSound' /\ task'.op # "drop"
  BY <1>1 DEF DropSound, Appending, Idle
<1>4. mem.broken => q = mem
  BY BrokenIsFinal
<1> SUFFICES ASSUME InStep' PROVE MemoryIsReplay'
  BY <1>3 DEF MemoryIsReplay, InStep
<1>5. InStep
  <2>1. ~mem.broken
    BY <1>1, <1>4 DEF InStep
  <2> QED
    BY <1>1, <2>1 DEF InStep, VisitRowExists, AllLive
<1>6. /\ Whole = mem.slots /\ rows = mem.slots
      /\ Replayed(mem.slots, 0) = [verdict |-> "ok", rec |-> mem]
  BY <1>1, <1>5, ReplayNow
<1>7. AllLive(mem.slots)
  BY <1>1, <1>5 DEF InStep, MemoryIsReplay, Idle
<1>8. ASSUME mem' = mem PROVE MemoryIsReplay'
  <2>1. Frame
    BY <1>2, <1>5, <1>7, <1>8 DEF Frame, SameMembers, Signed, AllLive
  <2> QED
    BY <2>1, FrameKeeps
<1>9. CASE v # "ok"
  <2>1. q = mem \/ q = MarkBroken(mem)
    BY <1>9 DEF Ingest
  <2>2. MarkBroken(mem).broken
    BY <1>2 DEF MarkBroken, IsRecording
  <2> QED
    BY <1>1, <1>8, <2>1, <2>2 DEF InStep
<1>10. CASE v = "ok" /\ n \in DOMAIN mem.slots
  <2>1. mem.slots[n].id = e.id
    BY <1>2, <1>10, AdmitsOnlyLinked
  <2>2. e.body.type \notin MembershipTypes
    BY <1>10, <2>1 DEF HeldIds, Offered
  <2>3. q = [mem EXCEPT !.slots = PutSlot(mem.slots, n, x)]
    <3>1. q = Admit(mem, e)
      BY <1>10 DEF Ingest
    <3>2. ApplyBody(mem, e) = mem
      BY <2>2 DEF ApplyBody, MembershipTypes
    <3> QED
      BY <3>1, <3>2 DEF Admit
  <2>4. mem.slots[n] = x
    <3>1. mem.slots[n] \in Slot /\ mem.slots[n].ev = minted[e.id]
      BY <1>7, <1>10, <2>1 DEF Inv, TypeOK, IsRecording, Linked, AllLive, Live
    <3>2. minted[e.id] = e
      BY <1>10, <2>1 DEF Inv, Linked, Offered, Signed
    <3>3. \A y \in Slot : y = [id |-> y.id, ev |-> y.ev]
      BY DEF Slot
    <3> QED
      BY <2>1, <3>1, <3>2, <3>3
  <2> HIDE DEF x, n
  <2>5. PutSlot(mem.slots, n, x) = mem.slots
    <3>1. mem.slots = [m \in DOMAIN mem.slots |-> mem.slots[m]]
      BY <1>2 DEF IsRecording
    <3> QED
      BY <1>10, <2>4, <3>1 DEF PutSlot
  <2>6. q = mem
    BY <1>2, <2>3, <2>5 DEF IsRecording
  <2> QED
    BY <1>1, <1>8, <2>6
<1>11. CASE v = "ok" /\ n \notin DOMAIN mem.slots
  <2>1. q.slots = PutSlot(mem.slots, n, x)
    BY <1>2, <1>11, IngestSlots
  <2>2. \A m \in DOMAIN mem.slots : m < n
    <3>1. DOMAIN mem.slots \in SUBSET Nat /\ \A m \in DOMAIN mem.slots : m > 0 => m - 1 \in DOMAIN mem.slots
      BY <1>2 DEF Inv, IsRecording, Linked
    <3>2. n \in Nat
      BY <1>2
    <3> HIDE DEF n
    <3> QED
      BY <1>11, <3>1, <3>2, NoneAbove
  <2>3. Replayed(PutSlot(mem.slots, n, x), 0) = ReplayRow([verdict |-> "ok", rec |-> mem], n, x, 0)
    <3>1. DOMAIN mem.slots \subseteq Nat
      BY <1>2 DEF IsRecording
    <3>2. Replayed(mem.slots, 0).verdict = "ok"
      BY <1>6
    <3> HIDE DEF n, x
    <3> QED
      BY <1>2, <1>6, <2>2, <3>1, <3>2, ReplayExtends
  <2>4. ReplayRow([verdict |-> "ok", rec |-> mem], n, x, 0) = [verdict |-> v, rec |-> q]
    BY <1>2, NoneAssumption DEF ReplayRow
  <2>5. Whole' = PutSlot(mem.slots, n, x)
    <3>1. /\ DOMAIN q.slots = DOMAIN mem.slots \cup {n}
          /\ \A m \in DOMAIN q.slots : q.slots[m] = IF m = n THEN x ELSE mem.slots[m]
      BY <2>1 DEF PutSlot
    <3>2. minted'[x.id] = e /\ x = [id |-> x.id, ev |-> e]
      BY <1>2 DEF Signed
    <3>3. ASSUME NEW m \in DOMAIN mem.slots
          PROVE  mem.slots[m] = [id |-> mem.slots[m].id, ev |-> minted'[mem.slots[m].id]]
      <4>1. mem.slots[m] = [id |-> mem.slots[m].id, ev |-> minted[mem.slots[m].id]]
        BY <1>6 DEF Whole
      <4>2. mem.slots[m].id \in DOMAIN minted
        BY DEF Inv, Linked
      <4> QED
        BY <1>2, <4>1, <4>2 DEF Signed
    <3> HIDE DEF n, x
    <3>4. Whole' = [m \in DOMAIN q.slots |-> [id |-> q.slots[m].id, ev |-> minted'[q.slots[m].id]]]
      BY <1>1 DEF Whole
    <3>5. \A m \in DOMAIN q.slots :
            [id |-> q.slots[m].id, ev |-> minted'[q.slots[m].id]] = IF m = n THEN x ELSE mem.slots[m]
      BY <3>1, <3>2, <3>3
    <3> QED
      BY <3>1, <3>4, <3>5 DEF PutSlot
  <2>6. Replayed(Whole', 0).verdict = "ok" /\ Replayed(Whole', 0).rec = mem'
    BY <1>1, <1>11, <2>3, <2>4, <2>5
  <2>7. AllLive(mem'.slots)
    <3>1. Live(x)
      BY <1>2, NoneAssumption DEF Live
    <3> HIDE DEF n, x
    <3> QED
      BY <1>1, <1>7, <2>1, <3>1 DEF AllLive, PutSlot
  <2> QED
    BY <2>6, <2>7 DEF MemoryIsReplay, SameMembers, AllLive
<1> QED
  BY <1>9, <1>10, <1>11

\* Restart loses nothing: when no event that changes membership is delivered
\* again, replaying the rows after any crash gives the very recording that was in
\* memory, while nothing was dropped (recording_from_store, append_event).
THEOREM RestartLosesNothing ==
  ASSUME Redelivered \cap MembershipTypes = {}
  PROVE  Spec => []ReplayGivesMemory
<1>1. Init => DropSound /\ MemoryIsReplay
  BY DEF Init, DropSound, MemoryIsReplay, Idle
<1>2. ASSUME Inv, Inv', DropSound, MemoryIsReplay, [Next]_vars
      PROVE  DropSound' /\ MemoryIsReplay'
  <2>1. ASSUME NEW a \in Key, NEW p \in Heads, NEW b \in Bodies, NewEvent(a, p, b)
        PROVE  DropSound' /\ MemoryIsReplay'
    <3>1. PICK e : Signed(e) /\ Receive(e) /\ e.id = Len(minted) + 1
      BY <1>2, <2>1, NewEventSigned
    <3>2. e.id \notin HeldIds(mem)
      BY <1>2, <3>1 DEF Inv, TypeOK, Linked, HeldIds
    <3> QED
      BY <1>2, <3>1, <3>2, ReceiveReplay DEF Offered
  <2>2. ASSUME NEW i \in DOMAIN minted, OldEvent(minted[i])
        PROVE  DropSound' /\ MemoryIsReplay'
    <3>1. Signed(minted[i])
      BY <1>2, <2>2, OldEventSigned
    <3>2. Offered(minted[i])
      BY <2>2, <3>1 DEF OldEvent, Offered
    <3> QED
      BY <1>2, <3>2, ReceiveReplay
  <2>3. CASE UNCHANGED vars
    BY <1>2, <2>3 DEF vars, DropSound, MemoryIsReplay, SameMembers, Whole, AllLive, VisitRowExists
  <2> QED
    BY <1>2, <2>1, <2>2, <2>3, QuietReplay, RestartReplay, DropReplay DEF Next
<1>3. Inv /\ MemoryIsReplay => ReplayGivesMemory
  <2> SUFFICES ASSUME Inv, MemoryIsReplay, Ready, InStep
               PROVE  Replayed(rows, 0) = [verdict |-> "ok", rec |-> mem]
    BY DEF ReplayGivesMemory, InStep, AllLive
  <2> QED
    BY ReplayNow DEF Ready
<1> QED
  BY <1>1, <1>2, <1>3, InvHolds, PTL DEF Spec
=============================================================================
