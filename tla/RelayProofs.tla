----------------------------- MODULE RelayProofs ----------------------------
(***************************************************************************)
(* What holds of the two shaped relay queues, the egress of a house        *)
(* (HouseRelay) and a session's queue at the gate (GateRelay), for any     *)
(* number of drivers, registrations and datagrams and any queue depths.    *)
(***************************************************************************)
EXTENDS MCRelay, SequenceTheorems, TLAPS

-----------------------------------------------------------------------------
(* Sequences of datagrams, each of which occurs once.                      *)

In(s) == { s[i] : i \in 1..Len(s) }
Once(s) == \A i, j \in 1..Len(s) : s[i] = s[j] => i = j

\* Two queues one after the other.
LEMMA OnceConcat ==
  ASSUME NEW s \in Seq(Nat), NEW t \in Seq(Nat), Once(s), Once(t), In(s) \cap In(t) = {}
  PROVE  s \o t \in Seq(Nat) /\ Once(s \o t) /\ In(s \o t) = In(s) \cup In(t)
<1>1. /\ s \o t \in Seq(Nat) /\ Len(s \o t) = Len(s) + Len(t)
      /\ Len(s) \in Nat /\ Len(t) \in Nat
      /\ \A i \in 1..Len(s) : (s \o t)[i] = s[i]
      /\ \A i \in 1..Len(t) : (s \o t)[Len(s) + i] = t[i]
  OBVIOUS
<1> DEFINE u == s \o t
<1>2. \A i \in 1..Len(u) : \/ i \in 1..Len(s) /\ u[i] = s[i]
                           \/ i - Len(s) \in 1..Len(t) /\ u[i] = t[i - Len(s)] /\ i > Len(s)
  OBVIOUS
<1>a. /\ u \in Seq(Nat) /\ Len(u) = Len(s) + Len(t)
      /\ \A i \in 1..Len(s) : u[i] = s[i]
      /\ \A i \in 1..Len(t) : u[Len(s) + i] = t[i]
  BY <1>1
<1> HIDE DEF u
<1>3. \A x \in 1..Len(s), y \in 1..Len(t) : s[x] # t[y]
  BY DEF In
<1>4. Once(u)
  <2> SUFFICES ASSUME NEW i \in 1..Len(u), NEW j \in 1..Len(u), u[i] = u[j]
               PROVE  i = j
    BY DEF Once
  <2>1. CASE i \in 1..Len(s) /\ j \in 1..Len(s)
    BY <1>a, <2>1 DEF Once
  <2>2. CASE i \notin 1..Len(s) /\ j \notin 1..Len(s)
    <3>1. i - Len(s) = j - Len(s)
      BY <1>2, <2>2 DEF Once
    <3> QED
      BY <1>1, <3>1
  <2>3. CASE i \in 1..Len(s) /\ j \notin 1..Len(s)
    BY <1>2, <1>3, <1>a, <2>3
  <2>4. CASE i \notin 1..Len(s) /\ j \in 1..Len(s)
    BY <1>2, <1>3, <1>a, <2>4
  <2> QED
    BY <2>1, <2>2, <2>3, <2>4
<1>5. In(u) = In(s) \cup In(t)
  <2>1. In(u) \subseteq In(s) \cup In(t)
    BY <1>2 DEF In
  <2>2. In(s) \subseteq In(u)
    BY <1>1, <1>a DEF In
  <2>3. In(t) \subseteq In(u)
    <3>1. \A i \in 1..Len(t) : Len(s) + i \in 1..Len(u)
      BY <1>1, <1>a
    <3> QED
      BY <1>a, <3>1 DEF In
  <2> QED
    BY <2>1, <2>2, <2>3
<1> QED
  BY <1>1, <1>4, <1>5 DEF u

IsSplit(s, k, p, r) ==
  /\ p \in Seq(Nat) /\ r \in Seq(Nat) /\ p \o r = s
  /\ Once(p) /\ Once(r) /\ In(p) \cap In(r) = {}
  /\ In(p) \subseteq In(s) /\ In(r) \subseteq In(s)
  /\ Len(p) = k /\ Len(r) = Len(s) - k

\* A drain pass takes a prefix.
LEMMA SplitFacts ==
  ASSUME NEW s \in Seq(Nat), Once(s), NEW k \in 1..Len(s),
         NEW p, p = SubSeq(s, 1, k), NEW r, r = SubSeq(s, k + 1, Len(s))
  PROVE  IsSplit(s, k, p, r)
<1>1. /\ p \in Seq(Nat) /\ Len(p) = k /\ \A i \in 1..Len(p) : p[i] = s[i]
      /\ Len(s) \in Nat
  OBVIOUS
<1>2. /\ r \in Seq(Nat) /\ Len(r) = Len(s) - k /\ \A i \in 1..Len(r) : r[i] = s[k + i]
  OBVIOUS
<1>3. Once(p) /\ In(p) \subseteq In(s)
  BY <1>1 DEF Once, In
<1>4. Once(r) /\ In(r) \subseteq In(s)
  <2>1. \A i \in 1..Len(r) : k + i \in 1..Len(s)
    BY <1>1, <1>2
  <2>2. In(r) \subseteq In(s)
    BY <1>2, <2>1 DEF In
  <2>3. Once(r)
    <3> SUFFICES ASSUME NEW i \in 1..Len(r), NEW j \in 1..Len(r), r[i] = r[j] PROVE i = j
      BY DEF Once
    <3>1. k + i = k + j
      BY <1>2, <2>1 DEF Once
    <3> QED
      BY <3>1
  <2> QED
    BY <2>2, <2>3
<1>5. In(p) \cap In(r) = {}
  <2> SUFFICES ASSUME NEW i \in 1..Len(p), NEW j \in 1..Len(r), p[i] = r[j] PROVE FALSE
    BY DEF In
  <2>1. i \in 1..Len(s) /\ k + j \in 1..Len(s) /\ s[i] = s[k + j]
    BY <1>1, <1>2
  <2>2. i = k + j
    BY <2>1 DEF Once
  <2> QED
    BY <1>1, <2>2
<1>6. p \o r = s
  <2>1. p \o r \in Seq(Nat) /\ Len(p \o r) = Len(s)
    BY <1>1, <1>2
  <2>2. \A i \in 1..Len(s) : (p \o r)[i] = s[i]
    BY <1>1, <1>2
  <2> QED
    BY <2>1, <2>2, SeqEqual
<1> QED
  BY <1>1, <1>2, <1>3, <1>4, <1>5, <1>6 DEF IsSplit

IsTake(b, o, q, h, r, o2, p) ==
  /\ h \in In(b) /\ r \in Seq(Nat) /\ Once(r)
  /\ In(r) \subseteq In(b) /\ h \notin In(r) /\ Len(r) = Len(b) - 1
  /\ o2 \in Seq(Nat) /\ Once(o2) /\ In(o2) = In(o) \cup {h}
  /\ p # <<>> /\ Head(p) = h /\ Tail(p) = r \o q

\* A write takes the head.
LEMMA TakeFacts ==
  ASSUME NEW b \in Seq(Nat), NEW o \in Seq(Nat), NEW q \in Seq(Nat),
         b # <<>>, Once(b), Once(o), In(o) \cap In(b) = {}
  PROVE  IsTake(b, o, q, Head(b), Tail(b), Append(o, Head(b)), b \o q)
<1>1. /\ Len(b) \in Nat \ {0} /\ Head(b) = b[1] /\ Head(b) \in Nat
      /\ Tail(b) \in Seq(Nat) /\ Len(Tail(b)) = Len(b) - 1
      /\ \A i \in 1..Len(Tail(b)) : Tail(b)[i] = b[i + 1]
  OBVIOUS
<1>2. Head(b) \in In(b)
  BY <1>1 DEF In
<1>3. Once(Tail(b)) /\ In(Tail(b)) \subseteq In(b) /\ Head(b) \notin In(Tail(b))
  <2>1. \A i \in 1..Len(Tail(b)) : i + 1 \in 1..Len(b) /\ i + 1 # 1
    BY <1>1
  <2>2. In(Tail(b)) \subseteq In(b)
    BY <1>1, <2>1 DEF In
  <2>3. Head(b) \notin In(Tail(b))
    BY <1>1, <2>1 DEF In, Once
  <2>4. Once(Tail(b))
    <3> SUFFICES ASSUME NEW i \in 1..Len(Tail(b)), NEW j \in 1..Len(Tail(b)), Tail(b)[i] = Tail(b)[j]
                 PROVE  i = j
      BY DEF Once
    <3>1. i + 1 = j + 1
      BY <1>1, <2>1 DEF Once
    <3> QED
      BY <3>1
  <2> QED
    BY <2>2, <2>3, <2>4
<1>4. /\ Append(o, Head(b)) \in Seq(Nat) /\ Once(Append(o, Head(b)))
      /\ In(Append(o, Head(b))) = In(o) \cup {Head(b)}
  <2>1. /\ <<Head(b)>> \in Seq(Nat) /\ Once(<<Head(b)>>) /\ In(<<Head(b)>>) = {Head(b)}
    BY <1>1 DEF Once, In
  <2>2. Append(o, Head(b)) = o \o <<Head(b)>>
    BY <1>1
  <2> DEFINE h == <<Head(b)>>
  <2>3. h \in Seq(Nat) /\ Once(h) /\ In(h) = {Head(b)} /\ In(o) \cap In(h) = {}
    BY <1>2, <2>1
  <2>4. Append(o, Head(b)) = o \o h
    BY <2>2
  <2> HIDE DEF h
  <2>5. o \o h \in Seq(Nat) /\ Once(o \o h) /\ In(o \o h) = In(o) \cup In(h)
    BY <2>3, OnceConcat
  <2> QED
    BY <2>3, <2>4, <2>5
<1>5. b \o q # <<>> /\ Head(b \o q) = Head(b) /\ Tail(b \o q) = Tail(b) \o q
  <2>1. b \o q \in Seq(Nat) /\ Len(b \o q) = Len(b) + Len(q) /\ Len(q) \in Nat /\ (b \o q)[1] = b[1]
    BY <1>1
  <2>2. b \o q # <<>> /\ Head(b \o q) = Head(b)
    BY <1>1, <2>1
  <2>3. /\ Tail(b \o q) \in Seq(Nat) /\ Len(Tail(b \o q)) = Len(b) + Len(q) - 1
        /\ Tail(b) \o q \in Seq(Nat) /\ Len(Tail(b) \o q) = Len(b) + Len(q) - 1
    BY <1>1, <2>1
  <2>4. ASSUME NEW i \in 1..(Len(b) + Len(q) - 1) PROVE Tail(b \o q)[i] = (Tail(b) \o q)[i]
    <3>1. Tail(b \o q)[i] = (b \o q)[i + 1]
      BY <1>1, <2>1
    <3>2. CASE i <= Len(b) - 1
      BY <1>1, <2>1, <3>1, <3>2
    <3>3. CASE i > Len(b) - 1
      <4>1. (b \o q)[i + 1] = q[i + 1 - Len(b)]
        BY <1>1, <2>1, <3>3
      <4>2. (Tail(b) \o q)[i] = q[i - (Len(b) - 1)]
        BY <1>1, <2>3, <3>3
      <4>3. i + 1 - Len(b) = i - (Len(b) - 1)
        BY <1>1
      <4> QED
        BY <3>1, <4>1, <4>2, <4>3
    <3> QED
      BY <1>1, <3>2, <3>3
  <2> QED
    BY <2>2, <2>3, <2>4, SeqEqual
<1> QED
  BY <1>1, <1>2, <1>3, <1>4, <1>5 DEF IsTake

IsPut(b, q, t) ==
  /\ b \o (q \o t) \in Seq(Nat)
  /\ Len(b \o (q \o t)) = Len(b \o q) + Len(t)
  /\ SubSeq(b \o (q \o t), 1, Len(b \o q)) = b \o q

\* What is put behind a queue leaves the queue a prefix.
LEMMA PutFacts ==
  ASSUME NEW b \in Seq(Nat), NEW q \in Seq(Nat), NEW t \in Seq(Nat)
  PROVE  IsPut(b, q, t)
<1>1. b \o q \in Seq(Nat) /\ q \o t \in Seq(Nat)
  OBVIOUS
<1>2. b \o (q \o t) = (b \o q) \o t
  <2>1. /\ b \o (q \o t) \in Seq(Nat) /\ (b \o q) \o t \in Seq(Nat)
        /\ Len(b \o (q \o t)) = Len(b) + Len(q) + Len(t)
        /\ Len((b \o q) \o t) = Len(b) + Len(q) + Len(t)
    BY <1>1
  <2>2. \A i \in 1..(Len(b) + Len(q) + Len(t)) : (b \o (q \o t))[i] = ((b \o q) \o t)[i]
    BY <1>1, <2>1
  <2> QED
    BY <2>1, <2>2, SeqEqual
<1> DEFINE u == b \o q
<1>3. /\ u \in Seq(Nat) /\ Len(u) \in Nat /\ u \o t \in Seq(Nat) /\ Len(u \o t) = Len(u) + Len(t)
      /\ \A i \in 1..Len(u) : (u \o t)[i] = u[i]
  BY <1>1
<1> HIDE DEF u
<1>4. SubSeq(u \o t, 1, Len(u)) = u
  <2>1. /\ SubSeq(u \o t, 1, Len(u)) \in Seq(Nat) /\ Len(SubSeq(u \o t, 1, Len(u))) = Len(u)
        /\ \A i \in 1..Len(u) : SubSeq(u \o t, 1, Len(u))[i] = u[i]
    BY <1>3
  <2> QED
    BY <1>3, <2>1, SeqEqual
<1> QED
  BY <1>2, <1>3, <1>4 DEF u, IsPut
-----------------------------------------------------------------------------
(* The egress of a house: the inductive invariant.                         *)

Shaper(W) ==
  [items : Seq(Nat), closed : BOOLEAN, wakers : SUBSET W, permit : BOOLEAN,
   drain : {"none", "run", "wait", "idle", "check", "find", "send", "done"}, batch : Seq(Nat)]

HouseType ==
  /\ hq \in Shaper(Driver) /\ ~hq.closed /\ hq.drain # "find"
  /\ driver \in [Driver -> {"poll", "send", "parked", "failed"}]
  /\ transmit \in [Driver -> Seq(Nat)]
  /\ nextData \in Nat
  /\ session \in BOOLEAN /\ drained \in BOOLEAN
  /\ attach \in {"none", "gate", "done", "detached"}
  /\ out \in Seq(Nat)

\* Neither the queue nor a batch grows past its limit; a batch is a drain's alone.
HouseLimits ==
  /\ Len(hq.items) <= Depth /\ Len(hq.batch) <= Burst
  /\ hq.drain \notin {"check", "send"} => hq.batch = <<>>

\* Written, in the batch, queued, or a driver's refused transmit: a datagram made so
\* far is in one place at most.
Parts(o, b, q, tr, n) ==
  /\ Once(o) /\ Once(b) /\ Once(q)
  /\ In(o) \cap In(b) = {} /\ In(o) \cap In(q) = {} /\ In(b) \cap In(q) = {}
  /\ \A x \in In(o) \cup In(b) \cup In(q) : x < n
  /\ \A d \in Driver :
       /\ Once(tr[d])
       /\ \A x \in In(tr[d]) : x < n /\ x \notin In(o) \cup In(b) \cup In(q)
       /\ \A e \in Driver : e # d => In(tr[d]) \cap In(tr[e]) = {}

\* Which of session, gate and drain there is, and when a drain may sleep.
HouseDrain ==
  /\ hq.drain # "none" => drained \/ attach = "detached"
  /\ drained => hq.drain # "none" /\ attach # "none"
  /\ hq.drain = "done" => attach = "detached" \/ gateLost
  /\ attach = "done" /\ session => drained
  /\ \A d \in Driver : driver[d] # "poll" => session
  /\ hq.items # <<>> => session
  /\ hq.wakers # {} => hq.items # <<>>
  /\ hq.drain = "idle" => hq.items = <<>>
  /\ hq.drain = "wait" /\ hq.items # <<>> => hq.permit

HouseInv ==
  HouseType /\ HouseLimits /\ Parts(out, hq.batch, hq.items, transmit, nextData) /\ HouseDrain

-----------------------------------------------------------------------------
(* Each step keeps it, and is a step of the pipe.                          *)

LEMMA HouseInit == Init => HouseInv /\ Pipe!Init
<1> SUFFICES ASSUME Init PROVE HouseInv /\ Pipe!Init
  OBVIOUS
<1>1. /\ hq.items = <<>> /\ hq.batch = <<>> /\ hq.wakers = {} /\ hq.drain = "none"
      /\ hq \in Shaper(Driver) /\ ~hq.closed
  BY DEF Init, EmptyShaper, Shaper
<1>2. In(<<>>) = {} /\ Once(<<>>)
  BY DEF In, Once
<1>a. /\ driver = [d \in Driver |-> "poll"] /\ adopted = [d \in Driver |-> FALSE]
      /\ transmit = [d \in Driver |-> <<>>] /\ nextData = 1 /\ session = FALSE
      /\ attach = "none" /\ drained = FALSE /\ out = <<>>
  BY DEF Init
<1>b. HouseType
  <2>1. session \in BOOLEAN /\ drained \in BOOLEAN
    BY <1>a
  <2>2. /\ driver \in [Driver -> {"poll", "send", "parked", "failed"}]
        /\ transmit \in [Driver -> Seq(Nat)]
        /\ nextData \in Nat /\ out \in Seq(Nat)
    BY <1>a
  <2> QED
    BY <1>1, <1>a, <2>1, <2>2 DEF HouseType
<1>c. HouseLimits
  BY <1>1, DepthAssumption DEF HouseLimits
<1>3. HouseType /\ HouseLimits /\ HouseDrain
  BY <1>1, <1>a, <1>b, <1>c DEF HouseDrain
<1>4. Parts(out, hq.batch, hq.items, transmit, nextData)
  BY <1>1, <1>2 DEF Init, Parts
<1>5. Pipe!Init
  BY <1>1 DEF Init, Pipe!Init
<1> QED
  BY <1>3, <1>4, <1>5 DEF HouseInv

\* A step that changes neither queue, batch nor output, nor ends the drain, is none
\* of the pipe's.
LEMMA HouseStutter ==
  ASSUME UNCHANGED out, hq'.items = hq.items, hq'.batch = hq.batch,
         hq'.drain = "done" <=> hq.drain = "done"
  PROVE  UNCHANGED Pipe!pipe
BY DEF Pipe!pipe

\* The queue itself is left alone.
LEMMA QueueKept ==
  ASSUME HouseInv, [Next]_vars, UNCHANGED hq,
         AttachGate \/ LoseGate \/ DetachGate \/ SwitchPath \/ UNCHANGED vars
           \/ \E d \in Driver : Stir(d)
  PROVE  HouseInv' /\ [Pipe!Next]_(Pipe!pipe)
<1>1. UNCHANGED <<transmit, nextData, adopted, session, out>>
  BY DEF AttachGate, LoseGate, DetachGate, SwitchPath, Stir, vars
<1>2. UNCHANGED Pipe!pipe
  BY <1>1, HouseStutter
<1>3. HouseLimits' /\ Parts(out, hq.batch, hq.items, transmit, nextData)'
  BY <1>1 DEF HouseInv, HouseLimits, Parts
<1>4. /\ driver' \in [Driver -> {"poll", "send", "parked", "failed"}]
      /\ \A d \in Driver : driver'[d] # "poll" => driver[d] # "poll"
      /\ attach' \in {"none", "gate", "done", "detached"} /\ drained' \in BOOLEAN
  BY DEF AttachGate, LoseGate, DetachGate, SwitchPath, Stir, vars, HouseInv, HouseType
<1>5. HouseType'
  BY <1>1, <1>4 DEF HouseInv, HouseType
<1>6. HouseDrain'
  BY <1>1, <1>4 DEF AttachGate, LoseGate, DetachGate, SwitchPath, Stir, vars, HouseInv, HouseType,
     HouseDrain
<1> QED
  BY <1>2, <1>3, <1>5, <1>6 DEF HouseInv

\* A drain is started, once: with the session, or with the gate.
LEMMA DrainStarts ==
  ASSUME HouseInv, RegisterRelaySession \/ StartUndrained
  PROVE  HouseInv' /\ [Pipe!Next]_(Pipe!pipe)
<1>1. UNCHANGED <<driver, transmit, nextData, adopted, gateLost, out>>
  BY DEF RegisterRelaySession, StartUndrained
<1>0. session \in BOOLEAN /\ drained \in BOOLEAN
  BY DEF HouseInv, HouseType
<1>a. PICK starts \in BOOLEAN :
        /\ starts => /\ drained' = TRUE /\ hq' = [hq EXCEPT !.drain = "run"]
                     /\ ~drained /\ attach \in {"gate", "done"}
        /\ ~starts => drained' = drained /\ hq' = hq
        /\ RegisterRelaySession => (starts <=> attach \in {"gate", "done"} /\ ~drained)
        /\ StartUndrained => (starts <=> session /\ ~drained)
  <2>1. CASE RegisterRelaySession
    <3>0. ~session /\ (StartUndrained => session' = session) /\ session' = TRUE
      BY <2>1 DEF RegisterRelaySession, StartUndrained
    <3>1. ~StartUndrained
      BY <1>0, <3>0
    <3>2. CASE attach \in {"gate", "done"} /\ ~drained
      <4>1. drained' = TRUE /\ hq' = [hq EXCEPT !.drain = "run"]
        BY <2>1, <3>2 DEF RegisterRelaySession
      <4> QED
        BY <3>1, <3>2, <4>1
    <3>3. CASE ~(attach \in {"gate", "done"} /\ ~drained)
      <4>1. drained' = drained /\ hq' = hq
        BY <1>0, <2>1, <3>3 DEF RegisterRelaySession
      <4> QED
        BY <3>1, <3>3, <4>1
    <3> QED
      BY <3>2, <3>3
  <2>2. CASE StartUndrained
    <3>0. attach = "gate" /\ attach' = "done" /\ (RegisterRelaySession => attach' = attach)
      BY <2>2 DEF RegisterRelaySession, StartUndrained
    <3>1. ~RegisterRelaySession
      BY <3>0
    <3>2. CASE session /\ ~drained
      <4>1. drained' = TRUE /\ hq' = [hq EXCEPT !.drain = "run"]
        BY <2>2, <3>2 DEF StartUndrained
      <4> QED
        BY <3>0, <3>1, <3>2, <4>1
    <3>3. CASE ~(session /\ ~drained)
      <4>1. drained' = drained /\ hq' = hq
        BY <1>0, <2>2, <3>3 DEF StartUndrained
      <4> QED
        BY <3>1, <3>3, <4>1
    <3> QED
      BY <3>2, <3>3
  <2> QED
    BY <2>1, <2>2
<1>b. starts => hq.drain = "none"
  BY <1>a DEF HouseInv, HouseDrain
<1>c. /\ hq'.items = hq.items /\ hq'.batch = hq.batch /\ hq'.wakers = hq.wakers
      /\ hq'.permit = hq.permit /\ hq' \in Shaper(Driver) /\ ~hq'.closed
      /\ hq'.drain = IF starts THEN "run" ELSE hq.drain
  <2>1. CASE starts
    BY <1>a, <2>1 DEF HouseInv, HouseType, Shaper
  <2>2. CASE ~starts
    BY <1>a, <2>2 DEF HouseInv, HouseType
  <2> QED
    BY <2>1, <2>2
<1>2. /\ hq'.items = hq.items /\ hq'.batch = hq.batch /\ hq'.wakers = hq.wakers
      /\ hq'.permit = hq.permit /\ hq' \in Shaper(Driver) /\ ~hq'.closed
      /\ \/ hq'.drain = hq.drain /\ drained' = drained
         \/ hq.drain = "none" /\ hq'.drain = "run" /\ drained'
  BY <1>a, <1>b, <1>c
<1>3. UNCHANGED Pipe!pipe
  BY <1>1, <1>2, HouseStutter
<1>4. HouseLimits' /\ Parts(out, hq.batch, hq.items, transmit, nextData)'
  BY <1>1, <1>2 DEF HouseInv, HouseLimits, Parts
<1>5. /\ session \in BOOLEAN /\ session' \in BOOLEAN /\ (session => session')
      /\ attach' \in {"none", "gate", "done", "detached"} /\ drained' \in BOOLEAN
      /\ attach' = "done" /\ session' => drained'
      /\ attach' = "none" <=> attach = "none"
      /\ attach' = "detached" <=> attach = "detached"
      /\ drained => drained'
      /\ drained' => attach' # "none"
  <2>1. session \in BOOLEAN /\ drained \in BOOLEAN /\ (drained => attach # "none")
        /\ (attach = "done" /\ session => drained)
        /\ attach \in {"none", "gate", "done", "detached"}
    BY DEF HouseInv, HouseType, HouseDrain
  <2>2. CASE RegisterRelaySession
    <3>1. session' = TRUE /\ attach' = attach
      BY <2>2 DEF RegisterRelaySession
    <3>2. attach = "done" => drained'
      <4>1. CASE drained
        BY <1>a, <4>1
      <4>2. CASE ~drained
        BY <1>a, <2>2, <4>2
      <4> QED
        BY <4>1, <4>2
    <3>3. (drained => drained') /\ (drained' => attach # "none") /\ drained' \in BOOLEAN
      <4>1. CASE starts
        BY <1>a, <4>1
      <4>2. CASE ~starts
        <5>1. drained' = drained
          BY <1>a, <4>2
        <5> QED
          BY <2>1, <5>1
      <4> QED
        BY <4>1, <4>2
    <3> QED
      BY <2>1, <3>1, <3>2, <3>3
  <2>3. CASE StartUndrained
    <3>1. session' = session /\ attach = "gate" /\ attach' = "done"
      BY <2>3 DEF StartUndrained
    <3> QED
      BY <1>a, <2>1, <2>3, <3>1
  <2> QED
    BY <2>2, <2>3
<1>6. HouseType'
  BY <1>1, <1>2, <1>5 DEF HouseInv, HouseType
<1>7. HouseDrain'
  BY <1>1, <1>2, <1>5 DEF HouseInv, HouseType, HouseDrain
<1> QED
  BY <1>3, <1>4, <1>6, <1>7 DEF HouseInv

\* poll_writable parks a driver only on a queue with something in it.
LEMMA PollStep ==
  ASSUME HouseInv, NEW d \in Driver, PollWritable(d)
  PROVE  HouseInv' /\ [Pipe!Next]_(Pipe!pipe)
<1>1. UNCHANGED <<adopted, transmit, nextData, direct, session, attach, drained, gateLost, out>>
  BY DEF PollWritable
<1>2. /\ hq'.items = hq.items /\ hq'.batch = hq.batch /\ hq'.permit = hq.permit
      /\ hq'.drain = hq.drain /\ hq' \in Shaper(Driver) /\ ~hq'.closed
      /\ hq'.wakers = hq.wakers \/ ~HasRoom(hq, MaxSegments, Depth)
  BY DEF PollWritable, PollRoom, HouseInv, HouseType, Shaper
<1>3. ~HasRoom(hq, MaxSegments, Depth) => hq.items # <<>>
  BY DepthAssumption DEF HasRoom
<1>4. session /\ driver' \in [Driver -> {"poll", "send", "parked", "failed"}]
  BY DEF PollWritable, HouseInv, HouseType
<1>5. UNCHANGED Pipe!pipe
  BY <1>1, <1>2, HouseStutter
<1>6. HouseLimits' /\ Parts(out, hq.batch, hq.items, transmit, nextData)' /\ HouseType'
  BY <1>1, <1>2, <1>4 DEF HouseInv, HouseLimits, Parts, HouseType
<1>7. HouseDrain'
  BY <1>1, <1>2, <1>3, <1>4 DEF HouseInv, HouseDrain
<1> QED
  BY <1>5, <1>6, <1>7 DEF HouseInv

\* A transmit, kept or new, is of datagrams that are nowhere else.
LEMMA TransmitIsFresh ==
  ASSUME HouseInv, NEW d \in Driver, NEW t \in Transmits(d),
         NEW n, n = IF transmit[d] # <<>> THEN nextData ELSE nextData + Len(t)
  PROVE  /\ t \in Seq(Nat) /\ t # <<>> /\ Once(t) /\ n \in Nat /\ nextData <= n
         /\ \A x \in In(t) : /\ x < n
                            /\ x \notin In(out) \cup In(hq.batch) \cup In(hq.items)
                            /\ \A e \in Driver : e # d => x \notin In(transmit[e])
<1>1. CASE transmit[d] # <<>>
  <2>1. t = transmit[d]
    BY <1>1 DEF Transmits
  <2>2. t \in Seq(Nat) /\ nextData \in Nat
    BY <2>1 DEF HouseInv, HouseType
  <2>3. /\ Once(transmit[d])
        /\ \A x \in In(transmit[d]) :
             x < nextData /\ x \notin In(out) \cup In(hq.batch) \cup In(hq.items)
        /\ \A e \in Driver : e # d => In(transmit[d]) \cap In(transmit[e]) = {}
    BY DEF HouseInv, Parts
  <2> QED
    BY <1>1, <2>1, <2>2, <2>3
<1>2. CASE transmit[d] = <<>>
  <2>1. PICK m \in 1..MaxSegments : t = [i \in 1..m |-> nextData + i - 1]
    BY <1>2 DEF Transmits
  <2>2. nextData \in Nat /\ m \in Nat /\ m >= 1
    BY <2>1, DepthAssumption DEF HouseInv, HouseType
  <2>3. t \in Seq(Nat) /\ Len(t) = m
    <3>1. \A i \in 1..m : nextData + i - 1 \in Nat
      BY <2>2
    <3> QED
      BY <2>1, <2>2, <3>1
  <2>4. t # <<>> /\ Once(t)
    BY <2>1, <2>2, <2>3 DEF Once
  <2>5. n = nextData + m
    BY <1>2, <2>3
  <2>6. \A x \in In(t) : x \in Nat /\ x >= nextData /\ x < n
    BY <2>1, <2>2, <2>3, <2>5 DEF In
  <2>7. /\ \A x \in In(out) \cup In(hq.batch) \cup In(hq.items) : x < nextData
        /\ \A e \in Driver : \A x \in In(transmit[e]) : x < nextData
    BY DEF HouseInv, Parts
  <2>8. \A x \in In(t) : ~(x < nextData)
    BY <2>2, <2>6
  <2> QED
    BY <2>2, <2>3, <2>4, <2>5, <2>6, <2>7, <2>8
<1> QED
  BY <1>1, <1>2

\* try_send queues a whole transmit behind what waits, keeps it, or is done with it.
LEMMA TrySendStep ==
  ASSUME HouseInv, NEW d \in Driver, NEW t \in Transmits(d), TrySend(d, t)
  PROVE  HouseInv' /\ [Pipe!Next]_(Pipe!pipe)
<1>1. /\ UNCHANGED <<direct, session, attach, drained, gateLost, out>>
      /\ driver[d] = "send"
      /\ nextData' = IF transmit[d] # <<>> THEN nextData ELSE nextData + Len(t)
      /\ driver' \in [Driver -> {"poll", "send", "parked", "failed"}]
      /\ \A e \in Driver : e # d => driver'[e] = driver[e]
  BY DEF TrySend, HouseInv, HouseType
<1>2. session
  BY <1>1 DEF HouseInv, HouseDrain
<1>3. /\ t \in Seq(Nat) /\ t # <<>> /\ Once(t) /\ nextData' \in Nat /\ nextData <= nextData'
      /\ \A x \in In(t) : /\ x < nextData'
                         /\ x \notin In(out) \cup In(hq.batch) \cup In(hq.items)
                         /\ \A e \in Driver : e # d => x \notin In(transmit[e])
  BY <1>1, TransmitIsFresh
<1>4. \/ hq' = hq /\ transmit' = [transmit EXCEPT ![d] = t]
      \/ hq' = hq /\ transmit' = [transmit EXCEPT ![d] = <<>>]
      \/ /\ hq' = Accepted(hq, t) /\ HasRoom(hq, Len(t), Depth)
         /\ transmit' = [transmit EXCEPT ![d] = <<>>]
  BY DEF TrySend, TryEnqueueAll, HouseInv, HouseType
<1>5. /\ hq \in Shaper(Driver) /\ ~hq.closed /\ hq.items \in Seq(Nat) /\ hq.batch \in Seq(Nat)
      /\ transmit \in [Driver -> Seq(Nat)] /\ out \in Seq(Nat) /\ nextData \in Nat
  BY DEF HouseInv, HouseType, Shaper
<1>6. In(<<>>) = {} /\ Once(<<>>) /\ <<>> \in Seq(Nat)
  BY DEF In, Once
<1>7. ASSUME NEW u \in {t, <<>>}, transmit' = [transmit EXCEPT ![d] = u]
      PROVE  /\ transmit' \in [Driver -> Seq(Nat)]
             /\ \A e \in Driver : e # d => transmit'[e] = transmit[e]
             /\ transmit'[d] = u /\ u \in Seq(Nat)
             /\ Once(u) /\ In(u) \subseteq In(t)
  BY <1>3, <1>5, <1>6, <1>7
<1>8. CASE \E u \in {t, <<>>} : hq' = hq /\ transmit' = [transmit EXCEPT ![d] = u]
  <2>1. PICK u \in {t, <<>>} : hq' = hq /\ transmit' = [transmit EXCEPT ![d] = u]
    BY <1>8
  <2>2. /\ transmit' \in [Driver -> Seq(Nat)]
        /\ \A e \in Driver : e # d => transmit'[e] = transmit[e]
        /\ transmit'[d] = u /\ Once(u) /\ In(u) \subseteq In(t)
    BY <1>7, <2>1
  <2>3. UNCHANGED Pipe!pipe
    BY <1>1, <2>1, HouseStutter
  <2>4. HouseType' /\ HouseLimits' /\ HouseDrain'
    BY <1>1, <1>2, <1>3, <2>1, <2>2 DEF HouseInv, HouseType, HouseLimits, HouseDrain
  <2>5. Parts(out, hq.batch, hq.items, transmit, nextData)'
    <3>1. \A x \in In(out) \cup In(hq.batch) \cup In(hq.items) : x < nextData'
      <4>1. \A x \in In(out) \cup In(hq.batch) \cup In(hq.items) : x < nextData /\ x \in Nat
        BY <1>5 DEF HouseInv, Parts, In
      <4> QED
        BY <1>3, <1>5, <4>1
    <3>2. ASSUME NEW e \in Driver
          PROVE  /\ Once(transmit'[e])
                 /\ \A x \in In(transmit'[e]) :
                      x < nextData' /\ x \notin In(out) \cup In(hq.batch) \cup In(hq.items)
                 /\ \A f \in Driver : f # e => In(transmit'[e]) \cap In(transmit'[f]) = {}
      <4>1. CASE e = d
        <5>1. \A f \in Driver : f # d => In(u) \cap In(transmit[f]) = {}
          BY <1>3, <2>2
        <5> QED
          BY <1>3, <2>2, <4>1, <5>1
      <4>2. CASE e # d
        <5>0. \A x \in In(transmit[e]) : x \in Nat
          <6>1. transmit[e] \in Seq(Nat)
            BY <1>5
          <6> QED
            BY <6>1 DEF In
        <5>1. /\ Once(transmit[e])
              /\ \A x \in In(transmit[e]) : /\ x < nextData /\ x \in Nat
                                           /\ x \notin In(out) \cup In(hq.batch) \cup In(hq.items)
              /\ \A f \in Driver : f # e => In(transmit[e]) \cap In(transmit[f]) = {}
          BY <5>0 DEF HouseInv, Parts
        <5>2. \A x \in In(transmit[e]) : x < nextData'
          BY <1>3, <1>5, <5>1
        <5>3. In(transmit[e]) \cap In(u) = {}
          BY <1>3, <2>2, <4>2
        <5> QED
          BY <2>2, <4>2, <5>1, <5>2, <5>3
      <4> QED
        BY <4>1, <4>2
    <3> QED
      BY <1>1, <2>1, <3>1, <3>2 DEF HouseInv, Parts
  <2> QED
    BY <2>3, <2>4, <2>5 DEF HouseInv
<1>9. CASE /\ hq' = Accepted(hq, t) /\ HasRoom(hq, Len(t), Depth)
           /\ transmit' = [transmit EXCEPT ![d] = <<>>]
  <2>1. /\ transmit' \in [Driver -> Seq(Nat)] /\ transmit'[d] = <<>>
        /\ \A e \in Driver : e # d => transmit'[e] = transmit[e]
    BY <1>7, <1>9
  <2>2. /\ hq'.items = hq.items \o t /\ hq'.batch = hq.batch /\ hq'.wakers = hq.wakers
        /\ ~hq'.closed
        /\ hq.drain = "idle" => hq'.drain = "run" /\ hq'.permit = hq.permit
        /\ hq.drain # "idle" => hq'.drain = hq.drain /\ hq'.permit = TRUE
    BY <1>5, <1>9 DEF Accepted, NotifyOne, Shaper
  <2>3. hq' \in Shaper(Driver)
    <3>1. hq.items \o t \in Seq(Nat)
      BY <1>3, <1>5
    <3>2. [hq EXCEPT !.items = @ \o t] \in Shaper(Driver)
      BY <1>5, <3>1 DEF Shaper
    <3>3. \A q \in Shaper(Driver) : NotifyOne(q) \in Shaper(Driver)
      BY DEF NotifyOne, Shaper
    <3> QED
      BY <1>9, <3>2, <3>3 DEF Accepted
  <2>4. /\ hq.items \o t \in Seq(Nat) /\ Once(hq.items \o t)
        /\ In(hq.items \o t) = In(hq.items) \cup In(t)
    <3>1. Once(hq.items) /\ In(hq.items) \cap In(t) = {}
      BY <1>3 DEF HouseInv, Parts
    <3> QED
      BY <1>3, <1>5, <3>1, OnceConcat
  <2>5. Len(hq.items \o t) = Len(hq.items) + Len(t) /\ Len(t) > 0 /\ Len(t) \in Nat
        /\ Len(hq.items) \in Nat /\ Len(hq.items) + Len(t) <= Depth /\ hq.items \o t # <<>>
    BY <1>3, <1>5, <1>9 DEF HasRoom
  <2>6. HouseType'
    BY <1>1, <1>3, <2>1, <2>2, <2>3 DEF HouseInv, HouseType
  <2>7. HouseLimits'
    BY <2>2, <2>5 DEF HouseInv, HouseLimits
  <2>8. HouseDrain'
    <3>1. \A e \in Driver : driver'[e] # "poll" => session'
      BY <1>1, <1>2
    <3> QED
      BY <1>1, <1>2, <2>2, <2>5, <3>1 DEF HouseInv, HouseDrain
  <2>9. Parts(out, hq.batch, hq.items, transmit, nextData)'
    <3>1. /\ Once(out) /\ Once(hq.batch) /\ In(out) \cap In(hq.batch) = {}
          /\ In(out) \cap In(hq.items) = {} /\ In(hq.batch) \cap In(hq.items) = {}
      BY DEF HouseInv, Parts
    <3>2. In(out) \cap In(hq'.items) = {} /\ In(hq.batch) \cap In(hq'.items) = {}
      BY <1>3, <2>2, <2>4, <3>1
    <3>3. \A x \in In(out) \cup In(hq.batch) \cup In(hq'.items) : x < nextData'
      <4>1. \A x \in In(out) \cup In(hq.batch) \cup In(hq.items) : x < nextData /\ x \in Nat
        BY <1>5 DEF HouseInv, Parts, In
      <4>2. \A x \in In(out) \cup In(hq.batch) \cup In(hq.items) : x < nextData'
        BY <1>3, <1>5, <4>1
      <4> QED
        BY <1>3, <2>2, <2>4, <4>2
    <3>4. ASSUME NEW e \in Driver
          PROVE  /\ Once(transmit'[e])
                 /\ \A x \in In(transmit'[e]) :
                      x < nextData' /\ x \notin In(out) \cup In(hq.batch) \cup In(hq'.items)
                 /\ \A f \in Driver : f # e => In(transmit'[e]) \cap In(transmit'[f]) = {}
      <4>1. CASE e = d
        BY <1>6, <2>1, <4>1
      <4>2. CASE e # d
        <5>0. \A x \in In(transmit[e]) : x \in Nat
          <6>1. transmit[e] \in Seq(Nat)
            BY <1>5
          <6> QED
            BY <6>1 DEF In
        <5>1. /\ Once(transmit[e])
              /\ \A x \in In(transmit[e]) : /\ x < nextData /\ x \in Nat
                                           /\ x \notin In(out) \cup In(hq.batch) \cup In(hq.items)
              /\ \A f \in Driver : f # e => In(transmit[e]) \cap In(transmit[f]) = {}
          BY <5>0 DEF HouseInv, Parts
        <5>2. \A x \in In(transmit[e]) : x < nextData'
          BY <1>3, <1>5, <5>1
        <5>3. \A x \in In(transmit[e]) : x \notin In(t)
          BY <1>3, <4>2
        <5> QED
          BY <1>6, <2>1, <2>2, <2>4, <4>2, <5>1, <5>2, <5>3
      <4> QED
        BY <4>1, <4>2
    <3> QED
      BY <1>1, <2>2, <2>4, <3>1, <3>2, <3>3, <3>4 DEF Parts
  <2>10. [Pipe!Next]_(Pipe!pipe)
    <3>1. CASE hq.drain = "done"
      <4>1. hq'.drain = "done"
        BY <2>2, <3>1
      <4> QED
        BY <1>1, <3>1, <4>1 DEF Pipe!pipe
    <3>2. CASE hq.drain # "done"
      <4> DEFINE was == hq.batch \o hq.items
                 is  == hq.batch \o (hq.items \o t)
      <4>1. hq'.drain # "done"
        BY <2>2, <3>2
      <4>2. /\ is \in Seq(Nat) /\ Len(is) = Len(was) + Len(t) /\ SubSeq(is, 1, Len(was)) = was
            /\ was \in Seq(Nat) /\ Len(was) = Len(hq.batch) + Len(hq.items) /\ Len(hq.batch) \in Nat
        <5>1. /\ is \in Seq(Nat) /\ Len(is) = Len(was) + Len(t)
              /\ SubSeq(is, 1, Len(was)) = was
          <6>1. IsPut(hq.batch, hq.items, t)
            BY <1>3, <1>5, PutFacts
          <6> QED
            BY <6>1 DEF IsPut
        <5>2. /\ was \in Seq(Nat) /\ Len(was) = Len(hq.batch) + Len(hq.items)
              /\ Len(hq.batch) \in Nat
          BY <1>5
        <5> QED
          BY <5>1, <5>2
      <4>3. Once(out \o is)
        <5>1. /\ Once(out) /\ Once(hq.batch) /\ Once(hq.items \o t)
              /\ In(hq.batch) \cap In(hq.items \o t) = {} /\ In(out) \cap In(hq.batch) = {}
              /\ In(out) \cap In(hq.items \o t) = {}
          BY <1>1, <2>2, <2>9 DEF Parts
        <5>2. is \in Seq(Nat) /\ Once(is) /\ In(is) = In(hq.batch) \cup In(hq.items \o t)
          BY <1>5, <2>4, <5>1, OnceConcat
        <5>3. In(out) \cap In(is) = {}
          BY <5>1, <5>2
        <5> HIDE DEF is
        <5> QED
          BY <1>5, <5>1, <5>2, <5>3, OnceConcat
      <4>4. Len(was) < Len(is) /\ Len(is) <= Depth + Burst
        <5> HIDE DEF was, is
        <5>1. Len(hq.batch) <= Burst
          BY DEF HouseInv, HouseLimits
        <5>2. Len(was) = Len(hq.batch) + Len(hq.items) /\ Len(is) = Len(was) + Len(t)
              /\ Len(hq.batch) \in Nat /\ Len(hq.items) \in Nat /\ Len(t) \in Nat /\ Len(t) > 0
              /\ Len(hq.items) + Len(t) <= Depth
          BY <2>5, <4>2
        <5>3. Depth \in Nat /\ Burst \in Nat
          BY DepthAssumption
        <5>4. \A x, y, z, m, n \in Nat : x <= n /\ y + z <= m /\ z > 0 =>
                x + y < x + y + z /\ x + y + z <= m + n
          OBVIOUS
        <5>5. Len(hq.batch) + Len(hq.items) + Len(t) <= Depth + Burst
              /\ Len(hq.batch) + Len(hq.items) < Len(hq.batch) + Len(hq.items) + Len(t)
          BY <5>1, <5>2, <5>3, <5>4
        <5> QED
          BY <5>2, <5>5
      <4>5. Pipe!Put
        <5>1. Pipe!Once(out \o is)
          BY <4>3 DEF Once, Pipe!Once
        <5> HIDE DEF was, is
        <5>2. /\ (IF hq.drain = "done" THEN <<>> ELSE hq.batch \o hq.items) = was
              /\ (IF hq'.drain = "done" THEN <<>> ELSE hq'.batch \o hq'.items) = is
          BY <2>2, <3>2, <4>1 DEF was, is
        <5> QED
          BY <1>1, <3>2, <4>1, <4>2, <4>4, <5>1, <5>2 DEF Pipe!Put
      <4> QED
        BY <4>5 DEF Pipe!Next
    <3> QED
      BY <3>1, <3>2
  <2> QED
    BY <2>6, <2>7, <2>8, <2>9, <2>10 DEF HouseInv
<1> QED
  BY <1>4, <1>8, <1>9

\* A pass of the drain finds nothing, or moves a prefix of the queue into its batch and
\* wakes whoever is parked.
LEMMA DrainStep ==
  ASSUME HouseInv, Drain
  PROVE  HouseInv' /\ [Pipe!Next]_(Pipe!pipe)
<1>1. UNCHANGED <<adopted, transmit, nextData, direct, session, attach, drained, gateLost, out>>
      /\ hq.drain = "run"
  BY DEF Drain
<1>2. /\ hq \in Shaper(Driver) /\ ~hq.closed /\ hq.items \in Seq(Nat) /\ hq.batch = <<>>
      /\ Once(hq.items)
  BY <1>1 DEF HouseInv, HouseType, HouseLimits, Shaper, Parts
<1>3. /\ driver' \in [Driver -> {"poll", "send", "parked", "failed"}]
      /\ \A d \in Driver : driver'[d] # "poll" => driver[d] # "poll"
  BY DEF Drain, Woken, HouseInv, HouseType
<1>4. CASE hq.items = <<>>
  <2>1. hq' = [hq EXCEPT !.drain = "wait"]
    BY <1>2, <1>4 DEF Drain, Passes
  <2>2. /\ hq'.items = hq.items /\ hq'.batch = hq.batch /\ hq'.wakers = hq.wakers
        /\ hq'.drain = "wait" /\ hq' \in Shaper(Driver) /\ ~hq'.closed
    BY <1>2, <2>1 DEF Shaper
  <2>3. UNCHANGED Pipe!pipe
    BY <1>1, <2>2, HouseStutter
  <2>4. HouseType' /\ HouseLimits' /\ Parts(out, hq.batch, hq.items, transmit, nextData)'
    BY <1>1, <1>2, <1>3, <2>2 DEF HouseInv, HouseType, HouseLimits, Parts
  <2>5. HouseDrain'
    BY <1>1, <1>3, <1>4, <2>2 DEF HouseInv, HouseDrain
  <2> QED
    BY <2>3, <2>4, <2>5 DEF HouseInv
<1>5. CASE hq.items # <<>>
  <2>1. PICK k \in 1..Len(hq.items) :
          /\ k <= Burst
          /\ hq' = [hq EXCEPT !.drain = "check", !.batch = SubSeq(hq.items, 1, k),
                              !.items = SubSeq(hq.items, k + 1, Len(hq.items)), !.wakers = {}]
    <3>1. PICK k \in { n \in 1..Burst : n <= Len(hq.items) } :
            hq' = [hq EXCEPT !.drain = "check", !.batch = SubSeq(hq.items, 1, k),
                             !.items = SubSeq(hq.items, k + 1, Len(hq.items)), !.wakers = {}]
      BY <1>2, <1>5 DEF Drain, Passes
    <3>2. k \in 1..Len(hq.items) /\ k <= Burst
      BY <1>2, <3>1
    <3> QED
      BY <3>1, <3>2
  <2> DEFINE p == SubSeq(hq.items, 1, k)
             r == SubSeq(hq.items, k + 1, Len(hq.items))
  <2>2. /\ hq'.batch = p /\ hq'.items = r /\ hq'.drain = "check" /\ hq'.wakers = {}
        /\ hq'.permit = hq.permit /\ hq'.closed = hq.closed
    BY <1>2, <2>1 DEF Shaper
  <2>3. /\ p \in Seq(Nat) /\ r \in Seq(Nat) /\ p \o r = hq.items
        /\ Once(p) /\ Once(r) /\ In(p) \cap In(r) = {}
        /\ In(p) \subseteq In(hq.items) /\ In(r) \subseteq In(hq.items)
        /\ Len(p) = k /\ Len(r) = Len(hq.items) - k /\ Len(hq.items) \in Nat
    <3>1. IsSplit(hq.items, k, p, r)
      BY <1>2, SplitFacts
    <3> HIDE DEF p, r
    <3> QED
      BY <1>2, <3>1 DEF IsSplit
  <2>4. hq' \in Shaper(Driver)
    BY <1>2, <2>1, <2>3 DEF Shaper
  <2> HIDE DEF p, r
  <2>5. HouseType'
    BY <1>1, <1>2, <1>3, <2>2, <2>4 DEF HouseInv, HouseType
  <2>6. HouseLimits'
    <3>1. Len(hq.items) <= Depth
      BY DEF HouseInv, HouseLimits
    <3>2. Len(r) <= Depth /\ Len(p) <= Burst
      BY <2>1, <2>3, <3>1, DepthAssumption
    <3> QED
      BY <2>2, <3>2 DEF HouseLimits
  <2>7. HouseDrain'
    <3>1. hq.items # <<>> => session
      BY DEF HouseInv, HouseDrain
    <3> QED
      BY <1>1, <1>3, <1>5, <2>2, <3>1 DEF HouseInv, HouseDrain
  <2>8. Parts(out, hq.batch, hq.items, transmit, nextData)'
    BY <1>1, <2>2, <2>3 DEF HouseInv, Parts
  <2>9. UNCHANGED Pipe!pipe
    <3>1. hq.batch \o hq.items = hq.items
      BY <1>2
    <3> QED
      BY <1>1, <2>2, <2>3, <3>1 DEF Pipe!pipe
  <2> QED
    BY <2>5, <2>6, <2>7, <2>8, <2>9 DEF HouseInv
<1> QED
  BY <1>4, <1>5

\* The drain returns: what it had not written is given up.
LEMMA HouseEnds ==
  ASSUME HouseInv, hq.drain \in {"check", "send"}, hq' = Ended(hq),
         attach = "detached" \/ gateLost,
         UNCHANGED <<driver, adopted, transmit, nextData, direct, session, attach, drained,
                     gateLost, out>>
  PROVE  HouseInv' /\ [Pipe!Next]_(Pipe!pipe)
<1>1. /\ hq'.items = hq.items /\ hq'.batch = <<>> /\ hq'.wakers = hq.wakers
      /\ hq'.drain = "done" /\ ~hq'.closed /\ hq' \in Shaper(Driver)
  <2>1. hq \in Shaper(Driver) /\ ~hq.closed
    BY DEF HouseInv, HouseType
  <2>2. hq' = [hq EXCEPT !.drain = "done", !.batch = <<>>]
    BY DEF Ended
  <2>3. \A e \in Seq(Nat) : [hq EXCEPT !.drain = "done", !.batch = e] \in Shaper(Driver)
    BY <2>1 DEF Shaper
  <2>4. hq' \in Shaper(Driver)
    <3>1. <<>> \in Seq(Nat)
      OBVIOUS
    <3>2. [hq EXCEPT !.drain = "done", !.batch = <<>>] \in Shaper(Driver)
      BY <2>3, <3>1, Zenon
    <3> QED
      BY <2>2, <3>2, Zenon
  <2> QED
    BY <2>1, <2>2, <2>4 DEF Shaper
<1>2. In(<<>>) = {} /\ Once(<<>>)
  BY DEF In, Once
<1>3. HouseType'
  BY <1>1 DEF HouseInv, HouseType
<1>4. HouseLimits'
  BY <1>1, DepthAssumption DEF HouseInv, HouseLimits
<1>5. HouseDrain'
  BY <1>1 DEF HouseInv, HouseDrain
<1>6. Parts(out, hq.batch, hq.items, transmit, nextData)'
  BY <1>1, <1>2 DEF HouseInv, Parts
<1>7. Pipe!Shut
  <2> DEFINE was == hq.batch \o hq.items
  <2>1. was \in Seq(Nat) /\ Len(was) \in Nat
    BY DEF HouseInv, HouseType, Shaper
  <2> HIDE DEF was
  <2>2. SubSeq(was, 1, 0) = <<>> /\ Len(<<>>) = 0 /\ 0 <= Len(was)
    BY <2>1
  <2>3. /\ (IF hq.drain = "done" THEN <<>> ELSE hq.batch \o hq.items) = was
        /\ (IF hq'.drain = "done" THEN <<>> ELSE hq'.batch \o hq'.items) = <<>>
    BY <1>1 DEF was
  <2> QED
    BY <1>1, <2>2, <2>3 DEF Pipe!Shut
<1> QED
  BY <1>3, <1>4, <1>5, <1>6, <1>7 DEF HouseInv, Pipe!Next

\* Waiting, looking where to, writing.
LEMMA DrainGoesOn ==
  ASSUME HouseInv, Await \/ Check \/ Send
  PROVE  HouseInv' /\ [Pipe!Next]_(Pipe!pipe)
<1>1. UNCHANGED <<driver, adopted, transmit, nextData, direct, session, attach, drained, gateLost>>
  BY DEF Await, Check, Send
<1>2. /\ hq \in Shaper(Driver) /\ ~hq.closed /\ hq.items \in Seq(Nat) /\ hq.batch \in Seq(Nat)
      /\ out \in Seq(Nat)
  BY DEF HouseInv, HouseType, Shaper
<1>3. ASSUME NEW x \in {"run", "idle", "send"}, NEW b \in BOOLEAN,
             hq' = [hq EXCEPT !.drain = x, !.permit = b], UNCHANGED out,
             hq.drain \in {"wait", "check", "send"}, x # "send" => hq.batch = <<>>,
             x = "idle" => hq.items = <<>>
      PROVE  HouseInv' /\ [Pipe!Next]_(Pipe!pipe)
  <2>1. /\ hq'.items = hq.items /\ hq'.batch = hq.batch /\ hq'.wakers = hq.wakers
        /\ hq'.drain = x /\ ~hq'.closed /\ hq' \in Shaper(Driver)
    BY <1>2, <1>3 DEF Shaper
  <2>2. UNCHANGED Pipe!pipe
    BY <1>3, <2>1, HouseStutter
  <2>3. HouseType' /\ HouseLimits' /\ Parts(out, hq.batch, hq.items, transmit, nextData)'
    BY <1>1, <1>3, <2>1 DEF HouseInv, HouseType, HouseLimits, Parts
  <2>4. HouseDrain'
    BY <1>1, <1>3, <2>1 DEF HouseInv, HouseDrain
  <2> QED
    BY <2>2, <2>3, <2>4 DEF HouseInv
<1>4. CASE Await
  <2>1. hq.drain = "wait" /\ UNCHANGED out /\ hq.batch = <<>> /\ hq.permit \in BOOLEAN
    BY <1>2, <1>4 DEF Await, HouseInv, HouseLimits, Shaper
  <2>2. CASE hq.permit
    <3>1. hq' = [hq EXCEPT !.drain = "run", !.permit = FALSE]
      BY <1>4, <2>2 DEF Await, AwaitArrival
    <3> QED
      BY <1>3, <2>1, <3>1
  <2>3. CASE ~hq.permit
    <3>1. hq' = [hq EXCEPT !.drain = "idle"]
      BY <1>4, <2>3 DEF Await, AwaitArrival
    <3>2. hq' = [hq EXCEPT !.drain = "idle", !.permit = hq.permit]
      BY <1>2, <3>1 DEF Shaper
    <3>3. hq.items = <<>>
      BY <2>1, <2>3 DEF HouseInv, HouseDrain
    <3> QED
      BY <1>3, <2>1, <3>2, <3>3
  <2> QED
    BY <2>2, <2>3
<1>5. CASE Check
  <2>1. hq.drain = "check" /\ UNCHANGED out /\ hq.permit \in BOOLEAN
    BY <1>2, <1>5 DEF Check, Shaper
  <2>2. CASE attach \in {"gate", "done"}
    <3>1. hq' = [hq EXCEPT !.drain = "send"]
      BY <1>5, <2>2 DEF Check
    <3>2. hq' = [hq EXCEPT !.drain = "send", !.permit = hq.permit]
      BY <1>2, <3>1 DEF Shaper
    <3> QED
      BY <1>3, <2>1, <3>2
  <2>3. CASE attach \notin {"gate", "done"}
    <3>1. attach = "detached"
      BY <2>1, <2>3 DEF HouseInv, HouseType, HouseDrain
    <3>2. hq' = Ended(hq)
      BY <1>5, <2>3 DEF Check
    <3> QED
      BY <1>1, <2>1, <3>1, <3>2, HouseEnds
  <2> QED
    BY <2>2, <2>3
<1>6. CASE Send
  <2>1. hq.drain = "send" /\ hq.permit \in BOOLEAN
    BY <1>2, <1>6 DEF Send, Shaper
  <2>2. CASE hq.batch = <<>>
    <3>1. hq' = [hq EXCEPT !.drain = "run"] /\ UNCHANGED out
      BY <1>6, <2>2 DEF Send
    <3>2. hq' = [hq EXCEPT !.drain = "run", !.permit = hq.permit]
      BY <1>2, <3>1 DEF Shaper
    <3> QED
      BY <1>3, <2>1, <2>2, <3>1, <3>2
  <2>3. CASE hq.batch # <<>> /\ gateLost
    <3>1. hq' = Ended(hq) /\ UNCHANGED out
      BY <1>6, <2>3 DEF Send
    <3> QED
      BY <1>1, <2>1, <2>3, <3>1, HouseEnds
  <2>4. CASE hq.batch # <<>> /\ ~gateLost
    <3>1. hq' = [hq EXCEPT !.batch = Tail(@)] /\ out' = Append(out, Head(hq.batch))
      BY <1>6, <2>4 DEF Send
    <3>2. Once(hq.batch) /\ Once(out) /\ In(out) \cap In(hq.batch) = {}
      BY DEF HouseInv, Parts
    <3>3. PICK h, b, q :
            /\ h = Head(hq.batch) /\ b = Tail(hq.batch) /\ q = hq.batch \o hq.items
            /\ h \in In(hq.batch) /\ b \in Seq(Nat) /\ Once(b)
            /\ In(b) \subseteq In(hq.batch) /\ h \notin In(b) /\ Len(b) = Len(hq.batch) - 1
            /\ out' \in Seq(Nat) /\ Once(out') /\ In(out') = In(out) \cup {h}
            /\ q # <<>> /\ Head(q) = h /\ Tail(q) = b \o hq.items
      <4>1. IsTake(hq.batch, out, hq.items, Head(hq.batch), Tail(hq.batch),
                   Append(out, Head(hq.batch)), hq.batch \o hq.items)
        BY <1>2, <2>4, <3>2, TakeFacts
      <4>2. PICK h, b, q : /\ h = Head(hq.batch) /\ b = Tail(hq.batch) /\ q = hq.batch \o hq.items
                           /\ IsTake(hq.batch, out, hq.items, h, b, out', q)
        BY <3>1, <4>1
      <4> QED
        BY <4>2 DEF IsTake
    <3>4. /\ hq'.items = hq.items /\ hq'.batch = b /\ hq'.wakers = hq.wakers
          /\ hq'.drain = "send" /\ hq'.permit = hq.permit /\ ~hq'.closed
          /\ hq' \in Shaper(Driver)
      BY <1>2, <2>1, <3>1, <3>3 DEF Shaper
    <3>5. HouseType'
      BY <1>1, <3>3, <3>4 DEF HouseInv, HouseType
    <3>6. HouseLimits'
      <4>1. Len(hq.batch) \in Nat /\ Len(b) \in Nat /\ Len(hq.batch) <= Burst
        BY <1>2, <3>3 DEF HouseInv, HouseLimits
      <4>2. Len(b) <= Burst
        BY <3>3, <4>1, DepthAssumption
      <4> QED
        BY <3>4, <4>2 DEF HouseInv, HouseLimits
    <3>7. HouseDrain'
      BY <1>1, <2>1, <3>4 DEF HouseInv, HouseDrain
    <3>8. Parts(out, hq.batch, hq.items, transmit, nextData)'
      <4>1. \A x \in In(out') \cup In(b) : x \in In(out) \cup In(hq.batch)
        BY <3>3
      <4>2. In(out') \cap In(b) = {} /\ In(out') \cap In(hq.items) = {} /\ In(b) \cap In(hq.items) = {}
        BY <3>3 DEF HouseInv, Parts
      <4> QED
        BY <1>1, <3>3, <3>4, <4>1, <4>2 DEF HouseInv, Parts
    <3>9. Pipe!Take
      <4>1. /\ (IF hq.drain = "done" THEN <<>> ELSE hq.batch \o hq.items) = q
            /\ (IF hq'.drain = "done" THEN <<>> ELSE hq'.batch \o hq'.items) = b \o hq.items
        BY <2>1, <3>3, <3>4
      <4> QED
        BY <2>1, <3>1, <3>3, <3>4, <4>1 DEF Pipe!Take
    <3> QED
      BY <3>5, <3>6, <3>7, <3>8, <3>9 DEF HouseInv, Pipe!Next
  <2> QED
    BY <2>2, <2>3, <2>4
<1> QED
  BY <1>4, <1>5, <1>6

LEMMA HouseStep == HouseInv /\ [Next]_vars => HouseInv' /\ [Pipe!Next]_(Pipe!pipe)
<1> SUFFICES ASSUME HouseInv, [Next]_vars PROVE HouseInv' /\ [Pipe!Next]_(Pipe!pipe)
  OBVIOUS
<1>1. ASSUME NEW d \in Driver, NEW t \in Transmits(d), TrySend(d, t)
      PROVE  HouseInv' /\ [Pipe!Next]_(Pipe!pipe)
  BY <1>1, TrySendStep
<1>2. ASSUME NEW d \in Driver, PollWritable(d)
      PROVE  HouseInv' /\ [Pipe!Next]_(Pipe!pipe)
  BY <1>2, PollStep
<1>3. CASE RegisterRelaySession \/ StartUndrained
  BY <1>3, DrainStarts
<1>4. CASE AttachGate \/ LoseGate \/ DetachGate \/ SwitchPath \/ UNCHANGED vars
             \/ \E d \in Driver : Stir(d)
  <2>1. UNCHANGED hq
    BY <1>4 DEF AttachGate, LoseGate, DetachGate, SwitchPath, Stir, vars
  <2> QED
    BY <1>4, <2>1, QueueKept
<1>5. CASE Drain
  BY <1>5, DrainStep
<1>6. CASE Await \/ Check \/ Send
  BY <1>6, DrainGoesOn
<1> QED
  BY <1>1, <1>2, <1>3, <1>4, <1>5, <1>6 DEF Next

-----------------------------------------------------------------------------
(* The session's queue at the gate.                                        *)

\* Limits and places as above.  A datagram on its way or looked up is not yet queued.
GateInv ==
  /\ gq \in Shaper(Driver)
  /\ gateWire \subseteq Nat /\ forward \subseteq Nat /\ gateOut \in Seq(Nat)
  /\ gateWire \cap forward = {}
  /\ Len(gq.items) <= GateDepth /\ Len(gq.batch) <= GateDepth
  /\ gq.drain \notin {"check", "find", "send"} => gq.batch = <<>>
  /\ gq.closed => gq.items = <<>>
  /\ Once(gateOut) /\ Once(gq.batch) /\ Once(gq.items)
  /\ In(gateOut) \cap In(gq.batch) = {} /\ In(gateOut) \cap In(gq.items) = {}
  /\ In(gq.batch) \cap In(gq.items) = {}
  /\ (gateWire \cup forward) \cap (In(gateOut) \cup In(gq.batch) \cup In(gq.items)) = {}

LEMMA GateInit == Session!Init => GateInv /\ Session!Pipe!Init
<1> SUFFICES ASSUME Session!Init PROVE GateInv /\ Session!Pipe!Init
  OBVIOUS
<1>1. gq = [EmptyShaper EXCEPT !.drain = "run"] /\ gateOut = <<>> /\ forward = {}
      /\ gateWire = 1..GateData
  BY DEF Session!Init, Session!EmptyShaper, EmptyShaper, Session!Data
<1>2. /\ gq.items = <<>> /\ gq.batch = <<>> /\ gq.drain = "run" /\ gq.closed = FALSE
      /\ gq \in Shaper(Driver)
  <2>1. gq = [items |-> <<>>, closed |-> FALSE, wakers |-> {}, permit |-> FALSE,
              drain |-> "run", batch |-> <<>>]
    BY <1>1 DEF EmptyShaper
  <2> QED
    BY <2>1 DEF Shaper
<1>3. In(<<>>) = {} /\ Once(<<>>) /\ <<>> \in Seq(Nat) /\ Len(<<>>) = 0
  BY DEF In, Once
<1>4. GateInv
  BY <1>1, <1>2, <1>3, GateAssumption DEF GateInv
<1>5. Session!Pipe!Init
  BY <1>1, <1>2 DEF Session!Pipe!Init
<1> QED
  BY <1>4, <1>5

LEMMA GateStutter ==
  ASSUME UNCHANGED gateOut, gq'.items = gq.items, gq'.batch = gq.batch, gq'.closed = gq.closed,
         gq'.drain = "done" <=> gq.drain = "done"
  PROVE  UNCHANGED Session!Pipe!pipe
BY DEF Session!Pipe!pipe

\* Looking up and queueing.
LEMMA GateForwards ==
  ASSUME GateInv, NEW x, Session!LookUp(x) \/ Session!Forward(x)
  PROVE  GateInv' /\ [Session!Pipe!Next]_(Session!Pipe!pipe)
<1>1. CASE Session!LookUp(x)
  <2>1. UNCHANGED <<gq, gateOut>> /\ gateWire' = gateWire \ {x}
        /\ forward' \subseteq forward \cup {x} /\ x \in gateWire
    BY <1>1 DEF Session!LookUp
  <2>2. GateInv'
    BY <2>1 DEF GateInv
  <2>3. UNCHANGED Session!Pipe!pipe
    BY <2>1, GateStutter
  <2> QED
    BY <2>2, <2>3
<1>2. CASE Session!Forward(x)
  <2>1. x \in forward /\ x \in Nat /\ forward' = forward \ {x} /\ UNCHANGED <<gateWire, gateOut>>
        /\ x \notin gateWire
    BY <1>2 DEF Session!Forward, GateInv
  <2>2. \/ gq' = gq
        \/ /\ ~gq.closed /\ ~(Len(gq.items) >= GateDepth)
           /\ gq' = Session!NotifyOne([gq EXCEPT !.items = @ \o <<x>>])
    BY <1>2 DEF Session!Forward, Session!EnqueueOrDrop, Session!Accepted
  <2>3. CASE gq' = gq
    <3>1. GateInv'
      BY <2>1, <2>3 DEF GateInv
    <3>2. UNCHANGED Session!Pipe!pipe
      BY <2>1, <2>3, GateStutter
    <3> QED
      BY <3>1, <3>2
  <2>4. CASE /\ ~gq.closed /\ ~(Len(gq.items) >= GateDepth)
             /\ gq' = Session!NotifyOne([gq EXCEPT !.items = @ \o <<x>>])
    <3>0. PICK t \in Seq(Nat) : t = <<x>> /\ Len(t) = 1 /\ Once(t) /\ In(t) = {x}
      <4>1. <<x>> \in Seq(Nat) /\ Len(<<x>>) = 1
        BY <2>1
      <4>2. Once(<<x>>)
        BY DEF Once
      <4>3. In(<<x>>) = {x}
        BY DEF In
      <4> QED
        BY <4>1, <4>2, <4>3, Zenon
    <3>a. t \in Seq(Nat) /\ Len(t) = 1 /\ Once(t) /\ In(t) = {x}
      BY <3>0
    <3>1. /\ gq \in Shaper(Driver) /\ gq.items \in Seq(Nat) /\ gq.batch \in Seq(Nat)
          /\ Len(gq.items) \in Nat /\ gateOut \in Seq(Nat)
      BY DEF GateInv, Shaper
    <3>2. /\ gq'.items = gq.items \o t /\ gq'.batch = gq.batch /\ gq'.closed = gq.closed
          /\ gq'.drain = "done" <=> gq.drain = "done"
          /\ gq'.drain \in {"check", "find", "send"} <=> gq.drain \in {"check", "find", "send"}
      BY <2>4, <3>0, <3>1 DEF Session!NotifyOne, Shaper
    <3>3. gq' \in Shaper(Driver)
      <4>1. gq.items \o t \in Seq(Nat)
        BY <3>0, <3>1
      <4>2. [gq EXCEPT !.items = @ \o t] \in Shaper(Driver)
        BY <3>1, <4>1 DEF Shaper
      <4>3. \A q \in Shaper(Driver) : Session!NotifyOne(q) \in Shaper(Driver)
        BY DEF Session!NotifyOne, Shaper
      <4> QED
        BY <2>4, <3>0, <4>2, <4>3
    <3>4. /\ gq.items \o t \in Seq(Nat) /\ Once(gq.items \o t)
          /\ In(gq.items \o t) = In(gq.items) \cup {x}
      <4>1. Once(gq.items) /\ In(gq.items) \cap In(t) = {}
        BY <2>1, <3>a DEF GateInv
      <4>2. /\ gq.items \o t \in Seq(Nat) /\ Once(gq.items \o t)
            /\ In(gq.items \o t) = In(gq.items) \cup In(t)
        BY <3>1, <3>a, <4>1, OnceConcat
      <4> QED
        BY <3>a, <4>2
    <3>5. Len(gq.items \o t) = Len(gq.items) + 1 /\ Len(gq.items) + 1 <= GateDepth
      BY <2>4, <3>0, <3>1, GateAssumption
    <3>6. GateInv'
      <4>1. x \notin In(gateOut) /\ x \notin In(gq.batch)
        BY <2>1 DEF GateInv
      <4> QED
        BY <2>1, <2>4, <3>2, <3>3, <3>4, <3>5, <4>1 DEF GateInv
    <3>7. [Session!Pipe!Next]_(Session!Pipe!pipe)
      <4>1. CASE gq.drain = "done"
        BY <2>1, <3>2, <4>1 DEF Session!Pipe!pipe
      <4>2. CASE gq.drain # "done"
        <5> DEFINE was == gq.batch \o gq.items
                   is  == gq.batch \o (gq.items \o t)
        <5>1. /\ is \in Seq(Nat) /\ Len(is) = Len(was) + Len(t) /\ SubSeq(is, 1, Len(was)) = was
          <6>1. IsPut(gq.batch, gq.items, t)
            BY <3>0, <3>1, PutFacts
          <6> QED
            BY <6>1 DEF IsPut
        <5>2. /\ was \in Seq(Nat) /\ Len(was) = Len(gq.batch) + Len(gq.items)
              /\ Len(gq.batch) \in Nat
          BY <3>1
        <5>3. Once(gateOut \o is)
          <6>1. /\ Once(gateOut) /\ Once(gq.batch) /\ Once(gq.items \o t)
                /\ In(gq.batch) \cap In(gq.items \o t) = {} /\ In(gateOut) \cap In(gq.batch) = {}
                /\ In(gateOut) \cap In(gq.items \o t) = {}
            BY <2>1, <3>2, <3>6 DEF GateInv
          <6>2. is \in Seq(Nat) /\ Once(is) /\ In(is) = In(gq.batch) \cup In(gq.items \o t)
            BY <3>1, <3>4, <6>1, OnceConcat
          <6>3. In(gateOut) \cap In(is) = {}
            BY <6>1, <6>2
          <6> HIDE DEF is
          <6> QED
            BY <3>1, <6>1, <6>2, <6>3, OnceConcat
        <5>4. Session!Pipe!Once(gateOut \o is)
          BY <5>3 DEF Once, Session!Pipe!Once
        <5> HIDE DEF was, is
        <5>5. Len(was) < Len(is) /\ Len(is) <= 2 * GateDepth
          <6>1. Len(gq.batch) <= GateDepth
            BY DEF GateInv
          <6>2. \A m, n, k \in Nat : m <= k /\ n + 1 <= k =>
                  m + n < m + n + 1 /\ m + n + 1 <= 2 * k
            OBVIOUS
          <6>3. Len(gq.batch) + Len(gq.items) + 1 <= 2 * GateDepth
                /\ Len(gq.batch) + Len(gq.items) < Len(gq.batch) + Len(gq.items) + 1
            BY <3>1, <3>5, <5>2, <6>1, <6>2, GateAssumption
          <6> QED
            BY <3>0, <5>1, <5>2, <6>3
        <5>6. /\ (IF gq.drain = "done" THEN <<>> ELSE gq.batch \o gq.items) = was
              /\ (IF gq'.drain = "done" THEN <<>> ELSE gq'.batch \o gq'.items) = is
          BY <3>2, <4>2 DEF was, is
        <5>7. Session!Pipe!Put
          BY <2>1, <2>4, <3>2, <4>2, <5>1, <5>4, <5>5, <5>6 DEF Session!Pipe!Put
        <5> QED
          BY <5>7 DEF Session!Pipe!Next
      <4> QED
        BY <4>1, <4>2
    <3> QED
      BY <3>6, <3>7
  <2> QED
    BY <2>2, <2>3, <2>4
<1> QED
  BY <1>1, <1>2

\* A pass of the gate's drain finds the queue closed, empty, or takes a prefix.
LEMMA GateDrainStep ==
  ASSUME GateInv, Session!Drain
  PROVE  GateInv' /\ [Session!Pipe!Next]_(Session!Pipe!pipe)
<1>1. UNCHANGED <<gateWire, forward, gateOut>> /\ gq.drain = "run"
  BY DEF Session!Drain
<1>2. /\ gq \in Shaper(Driver) /\ gq.items \in Seq(Nat) /\ gq.batch = <<>> /\ Once(gq.items)
      /\ gq.closed \in BOOLEAN /\ gq.closed => gq.items = <<>>
  BY <1>1 DEF GateInv, Shaper
<1>3. ASSUME NEW x \in {"wait", "done"}, gq' = [gq EXCEPT !.drain = x], x = "done" => gq.closed
      PROVE  GateInv' /\ [Session!Pipe!Next]_(Session!Pipe!pipe)
  <2>1. /\ gq'.items = gq.items /\ gq'.batch = gq.batch /\ gq'.closed = gq.closed
        /\ gq'.drain = x /\ gq' \in Shaper(Driver)
    BY <1>2, <1>3 DEF Shaper
  <2>2. GateInv'
    BY <1>1, <1>2, <2>1 DEF GateInv
  <2>3. CASE x = "wait"
    <3>1. UNCHANGED Session!Pipe!pipe
      BY <1>1, <2>1, <2>3, GateStutter
    <3> QED
      BY <2>2, <3>1
  <2>4. CASE x = "done"
    <3>0. gq.closed /\ gq'.closed /\ gq.items = <<>> /\ gq.batch = <<>>
      BY <1>2, <1>3, <2>1, <2>4
    <3>1. gq.batch \o gq.items = <<>> /\ gq.closed /\ gq'.closed
      <4>1. <<>> \o <<>> = <<>>
        OBVIOUS
      <4> QED
        BY <3>0, <4>1
    <3>2. UNCHANGED Session!Pipe!pipe
      BY <1>1, <2>1, <2>4, <3>1 DEF Session!Pipe!pipe
    <3> QED
      BY <2>2, <3>2
  <2> QED
    BY <2>3, <2>4
<1>4. CASE gq.closed
  <2>1. gq' = [gq EXCEPT !.drain = "done"]
    BY <1>4 DEF Session!Drain, Session!Passes
  <2> QED
    BY <1>3, <1>4, <2>1
<1>5. CASE ~gq.closed /\ gq.items = <<>>
  <2>1. gq' = [gq EXCEPT !.drain = "wait"]
    BY <1>5 DEF Session!Drain, Session!Passes
  <2> QED
    BY <1>3, <2>1
<1>6. CASE ~gq.closed /\ gq.items # <<>>
  <2>1. PICK k \in 1..Len(gq.items) :
          /\ k <= GateDepth
          /\ gq' = [gq EXCEPT !.drain = "check", !.batch = SubSeq(gq.items, 1, k),
                              !.items = SubSeq(gq.items, k + 1, Len(gq.items)), !.wakers = {}]
    <3>1. PICK k \in { n \in 1..GateDepth : n <= Len(gq.items) } :
            gq' = [gq EXCEPT !.drain = "check", !.batch = SubSeq(gq.items, 1, k),
                             !.items = SubSeq(gq.items, k + 1, Len(gq.items)), !.wakers = {}]
      BY <1>6 DEF Session!Drain, Session!Passes
    <3>2. k \in 1..Len(gq.items) /\ k <= GateDepth
      BY <1>2, <3>1
    <3> QED
      BY <3>1, <3>2
  <2> DEFINE p == SubSeq(gq.items, 1, k)
             r == SubSeq(gq.items, k + 1, Len(gq.items))
  <2>2. /\ gq'.batch = p /\ gq'.items = r /\ gq'.drain = "check" /\ gq'.closed = gq.closed
    BY <1>2, <2>1 DEF Shaper
  <2>3. /\ p \in Seq(Nat) /\ r \in Seq(Nat) /\ p \o r = gq.items
        /\ Once(p) /\ Once(r) /\ In(p) \cap In(r) = {}
        /\ In(p) \subseteq In(gq.items) /\ In(r) \subseteq In(gq.items)
        /\ Len(p) = k /\ Len(r) = Len(gq.items) - k /\ Len(gq.items) \in Nat
    <3>1. IsSplit(gq.items, k, p, r)
      BY <1>2, SplitFacts
    <3> HIDE DEF p, r
    <3> QED
      BY <1>2, <3>1 DEF IsSplit
  <2>4. gq' \in Shaper(Driver)
    BY <1>2, <2>1, <2>3 DEF Shaper
  <2> HIDE DEF p, r
  <2>5. Len(p) <= GateDepth /\ Len(r) <= GateDepth
    <3>1. Len(gq.items) <= GateDepth
      BY DEF GateInv
    <3> QED
      BY <2>1, <2>3, <3>1, GateAssumption
  <2>6. GateInv'
    BY <1>1, <1>6, <2>2, <2>3, <2>4, <2>5 DEF GateInv
  <2>7. UNCHANGED Session!Pipe!pipe
    <3>1. gq.batch \o gq.items = gq.items
      BY <1>2
    <3> QED
      BY <1>1, <2>2, <2>3, <3>1 DEF Session!Pipe!pipe
  <2> QED
    BY <2>6, <2>7
<1> QED
  BY <1>4, <1>5, <1>6

\* The gate's drain returns in the middle of a batch.
LEMMA GateEnds ==
  ASSUME GateInv, gq.drain \in {"check", "find", "send"}, gq' = Session!Ended(gq),
         UNCHANGED <<gateWire, forward, gateOut>>
  PROVE  GateInv' /\ [Session!Pipe!Next]_(Session!Pipe!pipe)
<1>1. gq \in Shaper(Driver) /\ gq' = [gq EXCEPT !.drain = "done", !.batch = <<>>]
  BY DEF Session!Ended, GateInv
<1>2. gq' \in Shaper(Driver)
  <2>1. <<>> \in Seq(Nat)
    OBVIOUS
  <2>2. \A e \in Seq(Nat) : [gq EXCEPT !.drain = "done", !.batch = e] \in Shaper(Driver)
    BY <1>1 DEF Shaper
  <2>3. [gq EXCEPT !.drain = "done", !.batch = <<>>] \in Shaper(Driver)
    BY <2>1, <2>2, Zenon
  <2> QED
    BY <1>1, <2>3, Zenon
<1>3. gq'.items = gq.items /\ gq'.batch = <<>> /\ gq'.drain = "done" /\ gq'.closed = gq.closed
  BY <1>1 DEF Shaper
<1>4. In(<<>>) = {} /\ Once(<<>>) /\ Len(<<>>) = 0
  BY DEF In, Once
<1>5. GateInv'
  BY <1>2, <1>3, <1>4, GateAssumption DEF GateInv
<1>6. Session!Pipe!Shut
  <2> DEFINE was == gq.batch \o gq.items
  <2>1. was \in Seq(Nat) /\ Len(was) \in Nat
    BY <1>1 DEF Shaper
  <2> HIDE DEF was
  <2>2. SubSeq(was, 1, 0) = <<>> /\ Len(<<>>) = 0 /\ 0 <= Len(was)
    BY <2>1
  <2>3. /\ (IF gq.drain = "done" THEN <<>> ELSE gq.batch \o gq.items) = was
        /\ (IF gq'.drain = "done" THEN <<>> ELSE gq'.batch \o gq'.items) = <<>>
    BY <1>3 DEF was
  <2> QED
    BY <1>3, <2>2, <2>3 DEF Session!Pipe!Shut
<1> QED
  BY <1>5, <1>6 DEF Session!Pipe!Next

\* Waiting, looking for the session and its registration, writing.
LEMMA GateDrainGoesOn ==
  ASSUME GateInv, Session!Await \/ Session!Check \/ Session!Find \/ Session!Send
  PROVE  GateInv' /\ [Session!Pipe!Next]_(Session!Pipe!pipe)
<1>1. UNCHANGED <<gateWire, forward>>
  BY DEF Session!Await, Session!Check, Session!Find, Session!Send
<1>2. /\ gq \in Shaper(Driver) /\ gq.items \in Seq(Nat) /\ gq.batch \in Seq(Nat)
      /\ gateOut \in Seq(Nat) /\ gq.permit \in BOOLEAN
  BY DEF GateInv, Shaper
<1>3. ASSUME NEW x \in {"run", "idle", "find", "send"}, NEW b \in BOOLEAN,
             gq' = [gq EXCEPT !.drain = x, !.permit = b], UNCHANGED gateOut,
             gq.drain # "done", x \in {"run", "idle"} => gq.batch = <<>>
      PROVE  GateInv' /\ [Session!Pipe!Next]_(Session!Pipe!pipe)
  <2>1. /\ gq'.items = gq.items /\ gq'.batch = gq.batch /\ gq'.closed = gq.closed
        /\ gq'.drain = x /\ gq' \in Shaper(Driver)
    BY <1>2, <1>3 DEF Shaper
  <2>2. UNCHANGED Session!Pipe!pipe
    BY <1>3, <2>1, GateStutter
  <2>3. GateInv'
    BY <1>1, <1>3, <2>1 DEF GateInv
  <2> QED
    BY <2>2, <2>3
<1>4. CASE Session!Await
  <2>1. gq.drain = "wait" /\ UNCHANGED gateOut /\ gq.batch = <<>>
    BY <1>4 DEF Session!Await, GateInv
  <2>2. CASE gq.permit
    <3>1. gq' = [gq EXCEPT !.drain = "run", !.permit = FALSE]
      BY <1>4, <2>2 DEF Session!Await, Session!AwaitArrival
    <3> QED
      BY <1>3, <2>1, <3>1
  <2>3. CASE ~gq.permit
    <3>1. gq' = [gq EXCEPT !.drain = "idle"]
      BY <1>4, <2>3 DEF Session!Await, Session!AwaitArrival
    <3>2. gq' = [gq EXCEPT !.drain = "idle", !.permit = gq.permit]
      BY <1>2, <3>1 DEF Shaper
    <3> QED
      BY <1>2, <1>3, <2>1, <3>2
  <2> QED
    BY <2>2, <2>3
<1>5. ASSUME NEW x \in {"find", "send"}, gq' = [gq EXCEPT !.drain = x], gq.drain # "done",
             UNCHANGED gateOut
      PROVE  GateInv' /\ [Session!Pipe!Next]_(Session!Pipe!pipe)
  <2>1. gq' = [gq EXCEPT !.drain = x, !.permit = gq.permit]
    BY <1>2, <1>5 DEF Shaper
  <2> QED
    BY <1>2, <1>3, <1>5, <2>1
<1>6. CASE Session!Check
  <2>1. gq.drain = "check" /\ UNCHANGED gateOut
        /\ (gq' = [gq EXCEPT !.drain = "find"] \/ gq' = Session!Ended(gq))
    BY <1>6 DEF Session!Check
  <2> QED
    BY <1>1, <1>5, <2>1, GateEnds
<1>7. CASE Session!Find
  <2>1. gq.drain = "find" /\ UNCHANGED gateOut
        /\ (gq' = [gq EXCEPT !.drain = "send"] \/ gq' = Session!Ended(gq))
    BY <1>7 DEF Session!Find
  <2> QED
    BY <1>1, <1>5, <2>1, GateEnds
<1>8. CASE Session!Send
  <2>1. gq.drain = "send"
    BY <1>8 DEF Session!Send
  <2>2. CASE gq.batch = <<>>
    <3>1. gq' = [gq EXCEPT !.drain = "run"] /\ UNCHANGED gateOut
      BY <1>8, <2>2 DEF Session!Send
    <3>2. gq' = [gq EXCEPT !.drain = "run", !.permit = gq.permit]
      BY <1>2, <3>1 DEF Shaper
    <3> QED
      BY <1>2, <1>3, <2>1, <2>2, <3>1, <3>2
  <2>3. CASE gq.batch # <<>> /\ target \in dead
    <3>1. gq' = Session!Ended(gq) /\ UNCHANGED gateOut
      BY <1>8, <2>3 DEF Session!Send
    <3> QED
      BY <1>1, <2>1, <3>1, GateEnds
  <2>4. CASE gq.batch # <<>> /\ target \notin dead
    <3>1. gq' = [gq EXCEPT !.batch = Tail(@)] /\ gateOut' = Append(gateOut, Head(gq.batch))
      BY <1>8, <2>4 DEF Session!Send
    <3>2. Once(gq.batch) /\ Once(gateOut) /\ In(gateOut) \cap In(gq.batch) = {}
      BY DEF GateInv
    <3>3. PICK h, b, q :
            /\ h = Head(gq.batch) /\ b = Tail(gq.batch) /\ q = gq.batch \o gq.items
            /\ h \in In(gq.batch) /\ b \in Seq(Nat) /\ Once(b)
            /\ In(b) \subseteq In(gq.batch) /\ h \notin In(b) /\ Len(b) = Len(gq.batch) - 1
            /\ gateOut' \in Seq(Nat) /\ Once(gateOut') /\ In(gateOut') = In(gateOut) \cup {h}
            /\ q # <<>> /\ Head(q) = h /\ Tail(q) = b \o gq.items
      <4>1. IsTake(gq.batch, gateOut, gq.items, Head(gq.batch), Tail(gq.batch),
                   Append(gateOut, Head(gq.batch)), gq.batch \o gq.items)
        BY <1>2, <2>4, <3>2, TakeFacts
      <4>2. PICK h, b, q : /\ h = Head(gq.batch) /\ b = Tail(gq.batch) /\ q = gq.batch \o gq.items
                           /\ IsTake(gq.batch, gateOut, gq.items, h, b, gateOut', q)
        BY <3>1, <4>1
      <4> QED
        BY <4>2 DEF IsTake
    <3>4. /\ gq'.items = gq.items /\ gq'.batch = b /\ gq'.closed = gq.closed
          /\ gq'.drain = "send" /\ gq' \in Shaper(Driver)
      BY <1>2, <2>1, <3>1, <3>3 DEF Shaper
    <3>5. Len(b) <= GateDepth
      <4>1. Len(gq.batch) \in Nat /\ Len(b) \in Nat /\ Len(gq.batch) <= GateDepth
        BY <1>2, <3>3 DEF GateInv
      <4> QED
        BY <3>3, <4>1, GateAssumption
    <3>6. GateInv'
      BY <1>1, <3>3, <3>4, <3>5 DEF GateInv
    <3>7. Session!Pipe!Take
      <4>1. /\ (IF gq.drain = "done" THEN <<>> ELSE gq.batch \o gq.items) = q
            /\ (IF gq'.drain = "done" THEN <<>> ELSE gq'.batch \o gq'.items) = b \o gq.items
        BY <2>1, <3>3, <3>4
      <4> QED
        BY <2>1, <3>1, <3>3, <3>4, <4>1 DEF Session!Pipe!Take
    <3> QED
      BY <3>6, <3>7 DEF Session!Pipe!Next
  <2> QED
    BY <2>2, <2>3, <2>4
<1> QED
  BY <1>4, <1>6, <1>7, <1>8

\* A session that ends discards what is queued; the batch under way is still its drain's.
LEMMA GateCloses ==
  ASSUME GateInv, Session!CloseSession
  PROVE  GateInv' /\ [Session!Pipe!Next]_(Session!Pipe!pipe)
<1>1. UNCHANGED <<gateWire, forward, gateOut>>
      /\ gq' = Session!NotifyOne([gq EXCEPT !.closed = TRUE, !.items = <<>>, !.wakers = {}])
  BY DEF Session!CloseSession, Session!Close
<1>2. gq \in Shaper(Driver) /\ gq.items \in Seq(Nat) /\ gq.batch \in Seq(Nat)
  BY DEF GateInv, Shaper
<1>3. gq' \in Shaper(Driver)
  <2>1. <<>> \in Seq(Nat)
    OBVIOUS
  <2>2. \A e \in Seq(Nat) : [gq EXCEPT !.closed = TRUE, !.items = e, !.wakers = {}] \in Shaper(Driver)
    BY <1>2 DEF Shaper
  <2>3. [gq EXCEPT !.closed = TRUE, !.items = <<>>, !.wakers = {}] \in Shaper(Driver)
    BY <2>1, <2>2, Zenon
  <2>4. \A q \in Shaper(Driver) : Session!NotifyOne(q) \in Shaper(Driver)
    BY DEF Session!NotifyOne, Shaper
  <2> QED
    BY <1>1, <2>3, <2>4
<1>4. /\ gq'.items = <<>> /\ gq'.batch = gq.batch /\ gq'.closed = TRUE
      /\ gq'.drain = "done" <=> gq.drain = "done"
      /\ gq'.drain \in {"check", "find", "send"} <=> gq.drain \in {"check", "find", "send"}
  BY <1>1, <1>2 DEF Session!NotifyOne, Shaper
<1>5. In(<<>>) = {} /\ Once(<<>>) /\ Len(<<>>) = 0
  BY DEF In, Once
<1>6. GateInv'
  BY <1>1, <1>3, <1>4, <1>5, GateAssumption DEF GateInv
<1>7. CASE gq.drain = "done"
  <2>1. gq'.drain = "done"
    BY <1>4, <1>7
  <2>2. UNCHANGED Session!Pipe!pipe
    BY <1>1, <1>4, <1>7, <2>1 DEF Session!Pipe!pipe
  <2> QED
    BY <1>6, <2>2
<1>8. CASE gq.drain # "done"
  <2>1. PICK b \in Seq(Nat), q \in Seq(Nat) : b = gq.batch /\ q = gq.items
    BY <1>2
  <2> DEFINE was == b \o q
  <2>2. /\ was \in Seq(Nat) /\ Len(b) \in Nat /\ Len(b) <= Len(was) /\ b \o <<>> = b
        /\ \A i \in 1..Len(b) : was[i] = b[i]
    <3>1. was \in Seq(Nat) /\ Len(b) \in Nat /\ Len(q) \in Nat /\ Len(was) = Len(b) + Len(q)
      OBVIOUS
    <3>2. \A i \in 1..Len(b) : was[i] = b[i]
      OBVIOUS
    <3>3. b \o <<>> = b
      OBVIOUS
    <3> HIDE DEF was
    <3> QED
      BY <3>1, <3>2, <3>3
  <2> HIDE DEF was
  <2>3. b = SubSeq(was, 1, Len(b))
    <3>0. PICK n \in Nat : n = Len(b) /\ n <= Len(was)
      BY <2>2
    <3>1. /\ SubSeq(was, 1, Len(b)) \in Seq(Nat) /\ Len(SubSeq(was, 1, Len(b))) = Len(b)
          /\ \A i \in 1..Len(b) : SubSeq(was, 1, Len(b))[i] = b[i]
      <4>1. /\ SubSeq(was, 1, n) \in Seq(Nat) /\ Len(SubSeq(was, 1, n)) = n
            /\ \A i \in 1..n : SubSeq(was, 1, n)[i] = was[i]
        BY <2>2, <3>0
      <4> QED
        BY <2>2, <3>0, <4>1
    <3> QED
      BY <2>1, <3>1, SeqEqual
  <2>4. /\ (IF gq.drain = "done" THEN <<>> ELSE gq.batch \o gq.items) = was
        /\ (IF gq'.drain = "done" THEN <<>> ELSE gq'.batch \o gq'.items) = b
    BY <1>4, <1>8, <2>1, <2>2 DEF was
  <2>5. (gq'.closed \/ gq'.drain = "done") = TRUE
    BY <1>4
  <2>6. Session!Pipe!Shut
    BY <1>1, <2>2, <2>3, <2>4, <2>5 DEF Session!Pipe!Shut
  <2> QED
    BY <1>6, <2>6 DEF Session!Pipe!Next
<1> QED
  BY <1>7, <1>8

LEMMA GateStep ==
  GateInv /\ [Session!Next]_gateVars => GateInv' /\ [Session!Pipe!Next]_(Session!Pipe!pipe)
<1> SUFFICES ASSUME GateInv, [Session!Next]_gateVars
             PROVE  GateInv' /\ [Session!Pipe!Next]_(Session!Pipe!pipe)
  OBVIOUS
<1>1. ASSUME NEW x, Session!LookUp(x) \/ Session!Forward(x)
      PROVE  GateInv' /\ [Session!Pipe!Next]_(Session!Pipe!pipe)
  BY <1>1, GateForwards
<1>2. CASE Session!Drain
  BY <1>2, GateDrainStep
<1>3. CASE Session!Await \/ Session!Check \/ Session!Find \/ Session!Send
  BY <1>3, GateDrainGoesOn
<1>4. CASE Session!CloseSession
  BY <1>4, GateCloses
<1>5. CASE UNCHANGED gateVars \/ \E r \in Registration :
             Session!RegisterAgain(r) \/ Session!ConnectionDies(r) \/ Session!Unlist(r)
  <2>1. UNCHANGED <<gateWire, gq, forward, gateOut>>
    BY <1>5 DEF gateVars, Session!RegisterAgain, Session!ConnectionDies, Session!Unlist
  <2>2. GateInv'
    BY <2>1 DEF GateInv
  <2>3. UNCHANGED Session!Pipe!pipe
    BY <2>1, GateStutter
  <2> QED
    BY <2>2, <2>3
<1> QED
  BY <1>1, <1>2, <1>3, <1>4, <1>5 DEF Session!Next

-----------------------------------------------------------------------------
(* The theorems.                                                           *)

LEMMA RelayInv == MCSpec => [](HouseInv /\ GateInv)
<1>1. MCInit => HouseInv /\ GateInv
  BY HouseInit, GateInit DEF MCInit
<1>2. HouseInv /\ GateInv /\ [MCNext]_all => HouseInv' /\ GateInv'
  <2>1. [MCNext]_all => [Next]_vars /\ [Session!Next]_gateVars
    BY DEF MCNext, all
  <2> QED
    BY <2>1, HouseStep, GateStep
<1> QED
  BY <1>1, <1>2, PTL DEF MCSpec

\* A relayed visit never stalls on a sleeping drain (sock.rs:366, path.rs:601, 694):
\* while the gate connection is up, a queue with something in it or a driver parked on
\* it has a drain that will look at it, for any number of drivers and any depth that
\* holds one transmit.
THEOREM EgressNeverStalls == MCSpec => []NoStall
<1>1. HouseInv => NoStall
  BY DEF HouseInv, HouseType, HouseDrain, NoStall, Asleep
<1> QED
  BY <1>1, RelayInv, PTL

\* Both shaped queues implement RelayPipe: what is accepted leaves in order, exactly
\* once and all of it until the drain ends, and no more than the queue and a batch wait
\* (path.rs:514, 553, sock.rs:526, server.rs:1331).
THEOREM RelaysAreOrderedPipes == MCSpec => RelaysKeepOrder
<1>1. MCInit => Pipe!Init /\ Session!Pipe!Init
  BY HouseInit, GateInit DEF MCInit
<1>2. HouseInv /\ GateInv /\ [MCNext]_all =>
        [Pipe!Next]_(Pipe!pipe) /\ [Session!Pipe!Next]_(Session!Pipe!pipe)
  <2>1. [MCNext]_all => [Next]_vars /\ [Session!Next]_gateVars
    BY DEF MCNext, all
  <2> QED
    BY <2>1, HouseStep, GateStep
<1>3. MCSpec => InOrder
  BY <1>1, <1>2, RelayInv, PTL DEF MCSpec, InOrder, Pipe!Spec
<1>4. MCSpec => Session!InOrder
  BY <1>1, <1>2, RelayInv, PTL DEF MCSpec, Session!InOrder, Session!Pipe!Spec
<1> QED
  BY <1>3, <1>4 DEF RelaysKeepOrder

=============================================================================
