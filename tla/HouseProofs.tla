---------------------------- MODULE HouseProofs -----------------------------
(***************************************************************************)
(* What holds of a house's parts (MCHouse) for every value of their bounds *)
(* and limits.  Each part has an inductive invariant of its own; a step of *)
(* another part leaves its variables as they are.                          *)
(***************************************************************************)
EXTENDS MCHouse, FiniteSetTheorems, WellFoundedInduction, TLAPS

allVars == <<part, vars, homeVars, doorVars, lanVars, docVars, logVars>>

-----------------------------------------------------------------------------
(* Knocks.                                                                 *)

SealType == [from : Friend \cup Guest, sent : Int, invite : Invite \cup {"none"},
             tag : BOOLEAN, bind : BOOLEAN]

\* Every answered guest's seal carries a spent invite, and no two the same.
DoorInv ==
  /\ knockNow \in Nat
  /\ seals \in Seq(SealType)
  /\ answered \in Seq(DOMAIN seals)
  /\ \A i \in DOMAIN answered :
        seals[answered[i]].from \notin Friend => seals[answered[i]].invite \in redeemed
  /\ Door!InviteOpensOnce

LEMMA DoorInit == Door!Init => DoorInv
BY DEF Door!Init, DoorInv, Door!InviteOpensOnce

\* A new seal leaves those made before it as they were.
LEMMA KnockStep == DoorInv /\ Door!Knock => DoorInv'
<1> SUFFICES ASSUME DoorInv, Door!Knock PROVE DoorInv'
  OBVIOUS
<1>1. PICK b : b \in SealType /\ seals' = Append(seals, b)
  <2>1. PICK k \in Door!Knocker, skew \in Skews, i \in Invite \cup {Door!None}, tag \in BOOLEAN, bind \in BOOLEAN :
           seals' = Append(seals, [from |-> k, sent |-> knockNow + skew, invite |-> i,
                                   tag |-> tag, bind |-> bind])
    BY DEF Door!Knock
  <2>2. knockNow + skew \in Int
    BY HouseAssumption DEF DoorInv
  <2>3. [from |-> k, sent |-> knockNow + skew, invite |-> i, tag |-> tag, bind |-> bind] \in SealType
    BY <2>2 DEF SealType, Door!Knocker, Door!None
  <2> QED
    BY <2>1, <2>3
<1>2. UNCHANGED <<knockNow, redeemed, answered>>
  BY DEF Door!Knock
<1>3. seals \in Seq(SealType) /\ answered \in Seq(DOMAIN seals)
  BY DEF DoorInv
<1>4. /\ seals' \in Seq(SealType) /\ DOMAIN seals \subseteq DOMAIN seals'
      /\ \A k \in DOMAIN seals : seals'[k] = seals[k]
  BY <1>1, <1>3
<1>5. \A i \in DOMAIN answered : answered[i] \in DOMAIN seals
  BY <1>3
<1>6. answered' \in Seq(DOMAIN seals')
  BY <1>2, <1>3, <1>4
<1> QED
  BY <1>2, <1>4, <1>5, <1>6 DEF DoorInv, Door!InviteOpensOnce

\* An answer to a guest spends its invite, and asks that it is not spent.
LEMMA AnswerKnockStep ==
  ASSUME DoorInv, NEW s \in DOMAIN seals, Door!AnswerKnock(s)
  PROVE  DoorInv'
<1> DEFINE b == seals[s]
<1>1. /\ UNCHANGED <<knockNow, seals>> /\ redeemed \subseteq redeemed'
      /\ b.from \notin Friend => b.invite \notin redeemed /\ b.invite \in redeemed'
      /\ answered' = answered \/ answered' = Append(answered, s)
  BY DEF Door!AnswerKnock, Door!Redeemable
<1>2. answered \in Seq(DOMAIN seals)
  BY DEF DoorInv
<1>3. CASE answered' = answered
  BY <1>1, <1>2, <1>3 DEF DoorInv, Door!InviteOpensOnce
<1>4. CASE answered' = Append(answered, s)
  <2>1. /\ answered' \in Seq(DOMAIN seals) /\ DOMAIN answered = 1..Len(answered) /\ Len(answered) \in Nat
        /\ DOMAIN answered' = 1..Len(answered) + 1
        /\ answered'[Len(answered) + 1] = s
        /\ \A i \in DOMAIN answered : answered'[i] = answered[i]
    BY <1>2, <1>4
  <2>2. \A i \in DOMAIN answered' : i \in DOMAIN answered \/ i = Len(answered) + 1
    BY <2>1
  <2>3. \A i \in DOMAIN answered : seals[answered[i]].from \notin Friend => seals[answered[i]].invite \in redeemed
    BY DEF DoorInv
  <2>4. \A i \in DOMAIN answered' : seals[answered'[i]].from \notin Friend => seals[answered'[i]].invite \in redeemed'
    BY <1>1, <2>1, <2>2, <2>3
  <2>5. Door!InviteOpensOnce'
    <3> SUFFICES ASSUME NEW i \in DOMAIN answered', NEW j \in DOMAIN answered',
                        seals[answered'[i]].from \notin Friend, seals[answered'[j]].from \notin Friend,
                        seals[answered'[i]].invite = seals[answered'[j]].invite
                 PROVE  i = j
      BY <1>1 DEF Door!InviteOpensOnce
    <3>1. CASE i \in DOMAIN answered /\ j \in DOMAIN answered
      BY <2>1, <3>1 DEF DoorInv, Door!InviteOpensOnce
    <3>2. CASE i \in DOMAIN answered /\ j = Len(answered) + 1
      BY <1>1, <2>1, <2>3, <3>2
    <3>3. CASE i = Len(answered) + 1 /\ j \in DOMAIN answered
      BY <1>1, <2>1, <2>3, <3>3
    <3> QED
      BY <2>2, <3>1, <3>2, <3>3
  <2> QED
    BY <1>1, <2>1, <2>4, <2>5 DEF DoorInv
<1> QED
  BY <1>1, <1>3, <1>4

LEMMA DoorStep == DoorInv /\ [MCNext]_allVars => DoorInv'
<1> SUFFICES ASSUME DoorInv, [MCNext]_allVars PROVE DoorInv'
  OBVIOUS
<1>1. CASE UNCHANGED doorVars
  BY <1>1 DEF doorVars, DoorInv, Door!InviteOpensOnce
<1>2. CASE Door!Next
  <2>1. CASE Door!Knock
    BY <2>1, KnockStep
  <2>2. CASE Door!Tick
    BY <2>2 DEF Door!Tick, DoorInv, Door!InviteOpensOnce
  <2>3. CASE \E s \in Door!Seal : Door!AnswerKnock(s)
    BY <2>3, AnswerKnockStep DEF Door!Seal
  <2>4. CASE \E k \in Door!Knocker : Door!Introduction(k)
    BY <2>4 DEF Door!Introduction, DoorInv, Door!InviteOpensOnce
  <2> QED
    BY <1>2, <2>1, <2>2, <2>3, <2>4 DEF Door!Next
<1> QED
  BY <1>1, <1>2 DEF MCNext, allVars

(* An invite opens the door to one knock: try_redeem spends it before the seen set is asked, so
   neither a repeated seal, nor another seal with the same invite, nor what the seen set has
   forgotten is answered with accept a second time. *)
THEOREM InvitesOpenOnce == MCSpec => []InviteOpensOnce
<1>1. MCInit => DoorInv
  BY DoorInit DEF MCInit
<1>2. DoorInv => InviteOpensOnce
  BY DEF DoorInv, InviteOpensOnce
<1>3. MCSpec => []DoorInv
  BY <1>1, DoorStep, PTL DEF MCSpec, allVars
<1> QED
  BY <1>2, <1>3, PTL

-----------------------------------------------------------------------------
(* HeadlessHouse: the slots.                                               *)

LEMMA OneCardinality == \A S : Hosting!Cardinality(S) = Cardinality(S)
BY DEF Hosting!Cardinality, Cardinality

HeldPcs == {"session", "expect", "await", "loop"}

VisitType == [via : Nat, peer : Peer, sess : Nat, charged : BOOLEAN,
              pc : HeldPcs \cup {"handshake", "done"}]

EventType == [t : {"knock"}] \cup [t : {"introduced"}, s : Nat]

HomeType ==
  /\ house \in {"up", "stopping", "lost", "left"}
  /\ owner \in Seq(Peer)
  /\ events \in Seq(EventType)
  /\ sessions \in [Peer -> Nat]
  /\ dials \subseteq DOMAIN owner
  /\ visit \in Seq(VisitType)
  /\ peers \in [Peer -> Nat]

\* The visits that are not over, and the visits a peer is charged for.
LiveOf(vs) == {v \in DOMAIN vs : vs[v].pc # "done"}
HeldOf(vs, p) == {v \in DOMAIN vs : vs[v].pc \in HeldPcs /\ vs[v].peer = p}

Slots ==
  /\ \A v \in DOMAIN visit : visit[v].charged <=> visit[v].pc \in HeldPcs
  /\ Cardinality(LiveOf(visit)) <= MAX_SESSIONS_PER_REGISTRATION
  /\ house = "left" => visit = <<>>
  /\ house # "left" =>
       \A p \in Peer : peers[p] = Cardinality(HeldOf(visit, p)) /\ peers[p] <= MAX_VISITS_PER_PEER

\* A slot that is not a kept Start names the visit of its session that waits.
Waiters ==
  \A s \in DOMAIN starts : starts[s] # 0 =>
     /\ starts[s] \in DOMAIN visit
     /\ visit[starts[s]].pc = "await" /\ visit[starts[s]].sess = s

HomeInv == HomeType /\ Slots /\ Waiters

LEMMA HomeInit == Hosting!Init => HomeInv
<1> SUFFICES ASSUME Hosting!Init PROVE HomeInv
  OBVIOUS
<1>1. visit = <<>> /\ starts = <<>>
  BY DEF Hosting!Init
<1>2. HomeType
  BY DEF Hosting!Init, HomeType
<1>3. LiveOf(visit) = {} /\ \A p \in Peer : HeldOf(visit, p) = {}
  BY <1>1 DEF LiveOf, HeldOf
<1>4. Cardinality({}) = 0
  BY FS_EmptySet
<1>5. house = "up" /\ \A p \in Peer : peers[p] = 0
  BY DEF Hosting!Init
<1>6. Slots
  <2>1. DOMAIN visit = {}
    BY <1>1
  <2>2. Cardinality(LiveOf(visit)) <= MAX_SESSIONS_PER_REGISTRATION
    BY <1>3, <1>4, HouseAssumption
  <2>3. \A p \in Peer : peers[p] = Cardinality(HeldOf(visit, p)) /\ peers[p] <= MAX_VISITS_PER_PEER
    BY <1>3, <1>4, <1>5, HouseAssumption
  <2> QED
    BY <1>1, <1>5, <2>1, <2>2, <2>3 DEF Slots
<1> QED
  BY <1>1, <1>2, <1>6 DEF HomeInv, Waiters

LEMMA VisitsAreFinite ==
  ASSUME NEW vs \in Seq(VisitType)
  PROVE  IsFiniteSet(LiveOf(vs)) /\ \A p \in Peer : IsFiniteSet(HeldOf(vs, p))
<1>1. DOMAIN vs = 1..Len(vs) /\ Len(vs) \in Nat
  OBVIOUS
<1>2. IsFiniteSet(DOMAIN vs)
  BY <1>1, FS_Interval
<1> QED
  BY <1>2, FS_Subset DEF LiveOf, HeldOf

\* A step that leaves every visit on the side of each line it was on.
LEMMA SlotsStand ==
  ASSUME HomeInv, UNCHANGED <<house, peers>>, visit' \in Seq(VisitType), DOMAIN visit' = DOMAIN visit,
         \A w \in DOMAIN visit :
            /\ visit'[w].peer = visit[w].peer /\ visit'[w].charged = visit[w].charged
            /\ visit'[w].pc \in HeldPcs <=> visit[w].pc \in HeldPcs
            /\ visit'[w].pc = "done" <=> visit[w].pc = "done"
  PROVE  Slots'
<1>1. LiveOf(visit') = LiveOf(visit) /\ \A p \in Peer : HeldOf(visit', p) = HeldOf(visit, p)
  BY DEF LiveOf, HeldOf
<1>2. house = "left" => visit' = <<>>
  BY DEF HomeInv, Slots, HomeType
<1> QED
  BY <1>1, <1>2 DEF HomeInv, Slots

\* Visit v is at pc c, its session s: the others are as they were.
LEMMA VisitMoves ==
  ASSUME HomeInv, NEW v \in DOMAIN visit, NEW c \in HeldPcs, visit[v].pc \in HeldPcs, NEW n \in Nat,
         \/ visit' = [visit EXCEPT ![v].pc = c] /\ n = visit[v].sess
         \/ visit' = [visit EXCEPT ![v].pc = c, ![v].sess = n],
         UNCHANGED <<house, peers>>
  PROVE  /\ visit' \in Seq(VisitType) /\ DOMAIN visit' = DOMAIN visit /\ Slots'
         /\ visit'[v].pc = c /\ visit'[v].sess = n
         /\ \A w \in DOMAIN visit : w # v => visit'[w] = visit[w]
<1>1. visit \in Seq(VisitType) /\ visit[v] \in VisitType
  BY DEF HomeInv, HomeType
<1> DEFINE r == [visit[v] EXCEPT !.pc = c, !.sess = n]
<1>2. /\ r \in VisitType /\ r.pc = c /\ r.sess = n /\ r.peer = visit[v].peer /\ r.charged = visit[v].charged
  BY <1>1 DEF VisitType
<1>3. visit' = [visit EXCEPT ![v] = r]
  BY <1>1 DEF VisitType
<1> HIDE DEF r
<1>4. /\ visit' \in Seq(VisitType) /\ DOMAIN visit' = DOMAIN visit /\ visit'[v] = r
      /\ \A w \in DOMAIN visit : w # v => visit'[w] = visit[w]
  BY <1>1, <1>2, <1>3
<1>5. Slots'
  <2>1. c # "done" /\ visit[v].pc # "done"
    BY DEF HeldPcs
  <2>2. \A w \in DOMAIN visit :
            /\ visit'[w].peer = visit[w].peer /\ visit'[w].charged = visit[w].charged
            /\ visit'[w].pc \in HeldPcs <=> visit[w].pc \in HeldPcs
            /\ visit'[w].pc = "done" <=> visit[w].pc = "done"
    BY <1>2, <1>4, <2>1
  <2> QED
    BY <1>4, <2>2, SlotsStand
<1> QED
  BY <1>2, <1>4, <1>5

\* Visit::run's end gives back the slot that was charged, if one was.
LEMMA VisitEnds ==
  ASSUME HomeInv, NEW v \in DOMAIN visit, visit[v].pc # "done", Hosting!Ended(v), UNCHANGED house
  PROVE  /\ visit' \in Seq(VisitType) /\ DOMAIN visit' = DOMAIN visit /\ Slots'
         /\ peers' \in [Peer -> Nat]
         /\ \A w \in DOMAIN visit : w # v => visit'[w] = visit[w]
<1>1. /\ visit \in Seq(VisitType) /\ visit[v] \in VisitType /\ peers \in [Peer -> Nat]
      /\ visit # <<>> /\ house # "left"
  BY DEF HomeInv, HomeType, Slots
<1> DEFINE r == [visit[v] EXCEPT !.pc = "done", !.charged = FALSE, !.sess = 0, !.via = 0]
           p == visit[v].peer
<1>2. r \in VisitType /\ r.pc = "done" /\ ~r.charged /\ r.peer = p /\ p \in Peer
  BY <1>1 DEF VisitType
<1>3. /\ visit' = [visit EXCEPT ![v] = r]
      /\ peers' = [peers EXCEPT ![p] = IF visit[v].charged THEN peers[p] - 1 ELSE peers[p]]
  BY <1>1 DEF VisitType, Hosting!Ended
<1> HIDE DEF r, p
<1>4. /\ visit' \in Seq(VisitType) /\ DOMAIN visit' = DOMAIN visit /\ visit'[v] = r
      /\ \A w \in DOMAIN visit : w # v => visit'[w] = visit[w]
  BY <1>1, <1>2, <1>3
<1>5. /\ LiveOf(visit') = LiveOf(visit) \ {v}
      /\ \A q \in Peer : HeldOf(visit', q) = HeldOf(visit, q) \ {v}
  BY <1>2, <1>4 DEF LiveOf, HeldOf, HeldPcs
<1>6. IsFiniteSet(LiveOf(visit)) /\ \A q \in Peer : IsFiniteSet(HeldOf(visit, q))
  BY <1>1, VisitsAreFinite
<1>7. Cardinality(LiveOf(visit')) <= MAX_SESSIONS_PER_REGISTRATION
  <2>1. Cardinality(LiveOf(visit)) \in Nat /\ v \in LiveOf(visit)
    BY <1>6, FS_CardinalityType DEF LiveOf
  <2>2. Cardinality(LiveOf(visit')) = Cardinality(LiveOf(visit)) - 1
    BY <1>5, <1>6, <2>1, FS_RemoveElement
  <2> QED
    BY <2>1, <2>2, HouseAssumption DEF HomeInv, Slots
<1>8. ASSUME NEW q \in Peer
      PROVE  peers'[q] = Cardinality(HeldOf(visit', q)) /\ peers'[q] <= MAX_VISITS_PER_PEER /\ peers'[q] \in Nat
  <2>1. /\ peers[q] = Cardinality(HeldOf(visit, q)) /\ peers[q] <= MAX_VISITS_PER_PEER
        /\ visit[v].charged <=> visit[v].pc \in HeldPcs
    BY <1>1 DEF HomeInv, Slots
  <2>2. peers[q] \in Nat
    BY <1>1
  <2>3. CASE v \in HeldOf(visit, q)
    <3>1. visit[v].charged /\ q = p
      BY <2>1, <2>3 DEF HeldOf, p
    <3>2. peers'[q] = peers[q] - 1
      BY <1>1, <1>3, <3>1
    <3>3. Cardinality(HeldOf(visit', q)) = Cardinality(HeldOf(visit, q)) - 1
      BY <1>5, <1>6, <2>3, FS_RemoveElement
    <3>4. Cardinality(HeldOf(visit', q)) \in Nat
      BY <1>4, VisitsAreFinite, FS_CardinalityType
    <3> QED
      BY <2>1, <2>2, <3>2, <3>3, <3>4, HouseAssumption
  <2>4. CASE v \notin HeldOf(visit, q)
    <3>1. q = p => ~visit[v].charged
      BY <2>1, <2>4 DEF HeldOf, p
    <3>2. peers'[q] = peers[q] /\ HeldOf(visit', q) = HeldOf(visit, q)
      BY <1>1, <1>3, <1>5, <2>4, <3>1
    <3> QED
      BY <2>1, <2>2, <3>2
  <2> QED
    BY <2>3, <2>4
<1>9. peers' \in [Peer -> Nat]
  BY <1>1, <1>3, <1>8
<1>10. \A w \in DOMAIN visit' : visit'[w].charged <=> visit'[w].pc \in HeldPcs
  BY <1>2, <1>4 DEF HomeInv, Slots, HeldPcs
<1> QED
  BY <1>1, <1>4, <1>7, <1>8, <1>9, <1>10 DEF Slots

\* A proven key below its cap is charged.
Charges(v) ==
  /\ visit[v].pc = "handshake"
  /\ peers[visit[v].peer] < MAX_VISITS_PER_PEER
  /\ visit' = [visit EXCEPT ![v].pc = "session", ![v].charged = TRUE]
  /\ peers' = [peers EXCEPT ![visit[v].peer] = @ + 1]
  /\ UNCHANGED house

LEMMA VisitCharged ==
  ASSUME HomeInv, NEW v \in DOMAIN visit, Charges(v)
  PROVE  /\ visit' \in Seq(VisitType) /\ DOMAIN visit' = DOMAIN visit /\ Slots'
         /\ peers' \in [Peer -> Nat]
         /\ \A w \in DOMAIN visit : w # v => visit'[w] = visit[w]
<1>1. /\ visit \in Seq(VisitType) /\ visit[v] \in VisitType /\ peers \in [Peer -> Nat]
      /\ visit # <<>> /\ house # "left"
  BY DEF HomeInv, HomeType, Slots
<1> DEFINE r == [visit[v] EXCEPT !.pc = "session", !.charged = TRUE]
           p == visit[v].peer
<1>2. r \in VisitType /\ r.pc = "session" /\ r.charged /\ r.peer = p /\ p \in Peer
  BY <1>1 DEF VisitType, HeldPcs
<1>3. visit' = [visit EXCEPT ![v] = r] /\ peers' = [peers EXCEPT ![p] = peers[p] + 1]
  BY <1>1 DEF VisitType, Charges
<1> HIDE DEF r, p
<1>4. /\ visit' \in Seq(VisitType) /\ DOMAIN visit' = DOMAIN visit /\ visit'[v] = r
      /\ \A w \in DOMAIN visit : w # v => visit'[w] = visit[w]
  BY <1>1, <1>2, <1>3
<1>5. /\ LiveOf(visit') = LiveOf(visit)
      /\ HeldOf(visit', p) = HeldOf(visit, p) \cup {v} /\ v \notin HeldOf(visit, p)
      /\ \A q \in Peer : q # p => HeldOf(visit', q) = HeldOf(visit, q)
  BY <1>2, <1>4 DEF LiveOf, HeldOf, HeldPcs, p, Charges
<1>6. Cardinality(HeldOf(visit', p)) = Cardinality(HeldOf(visit, p)) + 1
  <2>1. IsFiniteSet(HeldOf(visit, p))
    BY <1>1, <1>2, VisitsAreFinite
  <2> QED
    BY <1>5, <2>1, FS_AddElement
<1>7. ASSUME NEW q \in Peer
      PROVE  peers'[q] = Cardinality(HeldOf(visit', q)) /\ peers'[q] <= MAX_VISITS_PER_PEER /\ peers'[q] \in Nat
  <2>1. peers[q] = Cardinality(HeldOf(visit, q)) /\ peers[q] <= MAX_VISITS_PER_PEER /\ peers[q] \in Nat
    BY <1>1 DEF HomeInv, Slots
  <2>2. CASE q = p
    <3>1. peers'[q] = peers[q] + 1 /\ peers[q] < MAX_VISITS_PER_PEER
      BY <1>1, <1>3, <2>2 DEF p, Charges
    <3> QED
      BY <1>6, <2>1, <2>2, <3>1, HouseAssumption
  <2>3. CASE q # p
    BY <1>1, <1>3, <1>5, <2>1, <2>3
  <2> QED
    BY <2>2, <2>3
<1>8. peers' \in [Peer -> Nat]
  BY <1>1, <1>3, <1>7
<1>9. \A w \in DOMAIN visit' : visit'[w].charged <=> visit'[w].pc \in HeldPcs
  BY <1>2, <1>4 DEF HomeInv, Slots, HeldPcs
<1> QED
  BY <1>1, <1>4, <1>5, <1>7, <1>8, <1>9 DEF HomeInv, Slots, Charges

\* A dial that is accepted is a visit within the cap, or one that is over at once.
LEMMA VisitBegins ==
  ASSUME HomeInv, house = "up", UNCHANGED <<house, peers>>, NEW r \in VisitType, ~r.charged,
         r.pc = IF Cardinality(LiveOf(visit)) >= MAX_SESSIONS_PER_REGISTRATION THEN "done" ELSE "handshake",
         visit' = Append(visit, r)
  PROVE  /\ visit' \in Seq(VisitType) /\ DOMAIN visit \subseteq DOMAIN visit' /\ Slots'
         /\ \A w \in DOMAIN visit : visit'[w] = visit[w]
<1> DEFINE n == Len(visit) + 1
<1>1. /\ visit \in Seq(VisitType) /\ visit' \in Seq(VisitType) /\ n \in Nat
      /\ DOMAIN visit' = DOMAIN visit \cup {n} /\ n \notin DOMAIN visit /\ visit'[n] = r
      /\ \A w \in DOMAIN visit : visit'[w] = visit[w]
  BY DEF HomeInv, HomeType
<1> HIDE DEF n
<1>2. /\ \A q \in Peer : HeldOf(visit', q) = HeldOf(visit, q)
      /\ LiveOf(visit') = IF r.pc = "done" THEN LiveOf(visit) ELSE LiveOf(visit) \cup {n}
      /\ n \notin LiveOf(visit)
  BY <1>1 DEF LiveOf, HeldOf, HeldPcs
<1>3. Cardinality(LiveOf(visit)) \in Nat /\ IsFiniteSet(LiveOf(visit))
  BY <1>1, VisitsAreFinite, FS_CardinalityType
<1>4. Cardinality(LiveOf(visit')) <= MAX_SESSIONS_PER_REGISTRATION
  <2>1. CASE r.pc = "done"
    BY <1>2, <2>1 DEF HomeInv, Slots
  <2>2. CASE r.pc # "done"
    <3>1. Cardinality(LiveOf(visit')) = Cardinality(LiveOf(visit)) + 1
      BY <1>2, <1>3, <2>2, FS_AddElement
    <3>2. ~(Cardinality(LiveOf(visit)) >= MAX_SESSIONS_PER_REGISTRATION)
      BY <2>2
    <3> QED
      BY <1>3, <3>1, <3>2, HouseAssumption
  <2> QED
    BY <2>1, <2>2
<1>5. \A w \in DOMAIN visit' : visit'[w].charged <=> visit'[w].pc \in HeldPcs
  BY <1>1 DEF HomeInv, Slots, HeldPcs
<1> QED
  BY <1>1, <1>2, <1>4, <1>5 DEF HomeInv, Slots

\* The slots still taken are slots that were, of visits that have not moved.
LEMMA WaitersStand ==
  ASSUME Waiters, NEW v, v \in DOMAIN visit => visit[v].pc # "await" \/ \A s \in DOMAIN starts' : starts'[s] # v,
         DOMAIN visit \subseteq DOMAIN visit', \A w \in DOMAIN visit : w # v => visit'[w] = visit[w],
         DOMAIN starts' \subseteq DOMAIN starts, \A s \in DOMAIN starts' : starts'[s] = starts[s]
  PROVE  Waiters'
BY DEF Waiters

\* What attempt_finished and a wait that ran out leave of the slots.
LEMMA SlotFreed ==
  ASSUME NEW s, starts' = Hosting!Restrict(starts, DOMAIN starts \ {s})
  PROVE  /\ DOMAIN starts' \subseteq DOMAIN starts /\ s \notin DOMAIN starts'
         /\ \A t \in DOMAIN starts' : starts'[t] = starts[t]
BY DEF Hosting!Restrict

LEMMA EndingVisit ==
  ASSUME HomeInv, NEW v \in DOMAIN visit, visit[v].pc \notin {"done", "await"}, Hosting!Ended(v),
         UNCHANGED <<house, owner, events, sessions, dials>>,
         starts' = starts \/ \E s : starts' = Hosting!Restrict(starts, DOMAIN starts \ {s})
  PROVE  HomeInv'
<1>1. /\ visit' \in Seq(VisitType) /\ DOMAIN visit' = DOMAIN visit /\ Slots'
      /\ peers' \in [Peer -> Nat]
      /\ \A w \in DOMAIN visit : w # v => visit'[w] = visit[w]
  BY VisitEnds
<1>2. DOMAIN starts' \subseteq DOMAIN starts /\ \A s \in DOMAIN starts' : starts'[s] = starts[s]
  BY SlotFreed
<1>3. Waiters'
  <2>1. Waiters /\ visit[v].pc # "await"
    BY DEF HomeInv
  <2> QED
    BY <1>1, <1>2, <2>1, WaitersStand
<1>4. HomeType'
  BY <1>1 DEF HomeInv, HomeType
<1> QED
  BY <1>1, <1>3, <1>4 DEF HomeInv

LEMMA MovingVisit ==
  ASSUME HomeInv, NEW v \in DOMAIN visit, NEW c \in HeldPcs, visit[v].pc \in HeldPcs, NEW n \in Nat,
         \/ visit' = [visit EXCEPT ![v].pc = c] /\ n = visit[v].sess
         \/ visit' = [visit EXCEPT ![v].pc = c, ![v].sess = n],
         UNCHANGED <<house, owner, events, sessions, dials, peers>>,
         visit[v].pc = "await" => \A s \in DOMAIN starts' : starts'[s] # v,
         DOMAIN starts' \subseteq DOMAIN starts, \A s \in DOMAIN starts' : starts'[s] = starts[s]
  PROVE  HomeInv'
<1>1. /\ visit' \in Seq(VisitType) /\ DOMAIN visit' = DOMAIN visit /\ Slots'
      /\ \A w \in DOMAIN visit : w # v => visit'[w] = visit[w]
  BY VisitMoves
<1>2. HomeType'
  BY <1>1 DEF HomeInv, HomeType
<1>3. Waiters
  BY DEF HomeInv
<1>4. Waiters'
  BY <1>1, <1>3, WaitersStand
<1> QED
  BY <1>1, <1>2, <1>4 DEF HomeInv

\* await_start takes the slot of its session, whoever had it.
LEMMA WaitingVisit ==
  ASSUME HomeInv, NEW v \in DOMAIN visit, visit[v].pc = "expect",
         visit' = [visit EXCEPT ![v].pc = "await"],
         UNCHANGED <<house, owner, events, sessions, dials, peers>>,
         starts' = [t \in DOMAIN starts \cup {visit[v].sess} |->
                       IF t = visit[v].sess THEN v ELSE starts[t]]
  PROVE  HomeInv'
<1>0. visit[v].sess \in Nat /\ {"expect", "await"} \subseteq HeldPcs
  <2>1. visit[v] \in VisitType
    BY DEF HomeInv, HomeType
  <2> QED
    BY <2>1 DEF VisitType, HeldPcs
<1>1. /\ visit' \in Seq(VisitType) /\ DOMAIN visit' = DOMAIN visit /\ Slots'
      /\ visit'[v].pc = "await" /\ visit'[v].sess = visit[v].sess
      /\ \A w \in DOMAIN visit : w # v => visit'[w] = visit[w]
  BY <1>0, VisitMoves
<1>2. HomeType'
  BY <1>1 DEF HomeInv, HomeType
<1>3. Waiters'
  <2> SUFFICES ASSUME NEW t \in DOMAIN starts', starts'[t] # 0
               PROVE  /\ starts'[t] \in DOMAIN visit'
                      /\ visit'[starts'[t]].pc = "await" /\ visit'[starts'[t]].sess = t
    BY DEF Waiters
  <2>1. CASE t = visit[v].sess
    <3>1. starts'[t] = v
      BY <2>1
    <3> QED
      BY <1>1, <2>1, <3>1
  <2>2. CASE t # visit[v].sess
    <3>1. t \in DOMAIN starts /\ starts'[t] = starts[t]
      BY <2>2
    <3>2. starts[t] \in DOMAIN visit /\ visit[starts[t]].pc = "await" /\ visit[starts[t]].sess = t
      BY <3>1 DEF HomeInv, Waiters
    <3> QED
      BY <1>1, <3>1, <3>2
  <2> QED
    BY <2>1, <2>2
<1> QED
  BY <1>1, <1>2, <1>3 DEF HomeInv

LEMMA VisitSteps ==
  ASSUME HomeInv, NEW v \in DOMAIN visit, Hosting!VisitStep(v)
  PROVE  HomeInv'
<1>0. /\ visit[v] \in VisitType /\ visit[v].sess \in Nat /\ visit[v].peer \in Peer
      /\ sessions \in [Peer -> Nat] /\ peers \in [Peer -> Nat]
  <2>1. visit[v] \in VisitType /\ sessions \in [Peer -> Nat] /\ peers \in [Peer -> Nat]
    BY DEF HomeInv, HomeType
  <2> QED
    BY <2>1 DEF VisitType
<1> USE DEF Hosting!client, Hosting!desk
<1>1. CASE Hosting!HandshakeFails(v)
  BY <1>1, EndingVisit DEF Hosting!HandshakeFails
<1>2. CASE Hosting!Handshake(v)
  <2>1. CASE Hosting!Ended(v)
    BY <1>2, <2>1, EndingVisit DEF Hosting!Handshake
  <2>2. CASE Charges(v)
    <3>1. /\ visit' \in Seq(VisitType) /\ DOMAIN visit' = DOMAIN visit /\ Slots'
          /\ peers' \in [Peer -> Nat]
          /\ \A w \in DOMAIN visit : w # v => visit'[w] = visit[w]
      BY <2>2, VisitCharged
    <3>2. UNCHANGED <<house, owner, starts, events, sessions, dials>>
      BY <1>2 DEF Hosting!Handshake
    <3>3. Waiters'
      <4>1. Waiters /\ visit[v].pc # "await"
        BY <2>2 DEF HomeInv, Charges
      <4> QED
        BY <3>1, <3>2, <4>1, WaitersStand
    <3>4. HomeType'
      BY <3>1, <3>2 DEF HomeInv, HomeType
    <3> QED
      BY <3>1, <3>3, <3>4 DEF HomeInv
  <2> QED
    BY <1>0, <1>2, <2>1, <2>2, HouseAssumption DEF Hosting!Handshake, Charges
<1>3. CASE Hosting!WaitForSession(v)
  <2>1. sessions[visit[v].peer] \in Nat
    BY <1>0
  <2> QED
    BY <1>3, <2>1, MovingVisit DEF Hosting!WaitForSession, HeldPcs
<1>4. CASE Hosting!NoIntroduction(v)
  BY <1>4, EndingVisit DEF Hosting!NoIntroduction
<1>5. CASE Hosting!AwaitStart(v)
  <2> DEFINE s == visit[v].sess
  <2>0. /\ visit[v].pc = "expect" /\ UNCHANGED <<house, owner, events, sessions, dials, peers>>
        /\ {"expect", "await", "loop"} \subseteq HeldPcs
    BY <1>5 DEF Hosting!AwaitStart, HeldPcs
  <2>1. CASE starts' = Hosting!Restrict(starts, DOMAIN starts \ {s}) /\ Hosting!At(v, "loop")
    <3>1. DOMAIN starts' \subseteq DOMAIN starts /\ \A t \in DOMAIN starts' : starts'[t] = starts[t]
      BY <2>1, SlotFreed
    <3> QED
      BY <1>0, <2>0, <2>1, <3>1, MovingVisit DEF Hosting!At
  <2>2. CASE /\ starts' = [t \in DOMAIN starts \cup {s} |-> IF t = s THEN v ELSE starts[t]]
             /\ Hosting!At(v, "await")
    BY <2>0, <2>2, WaitingVisit DEF Hosting!At
  <2> QED
    BY <1>5, <2>1, <2>2 DEF Hosting!AwaitStart
<1>6. CASE Hosting!StartTimesOut(v)
  <2>0. /\ visit[v].pc = "await" /\ UNCHANGED <<house, owner, events, sessions, dials, peers>>
        /\ {"await", "loop"} \subseteq HeldPcs /\ Hosting!At(v, "loop")
        /\ starts' = Hosting!Restrict(starts, DOMAIN starts \ {visit[v].sess})
    BY <1>6 DEF Hosting!StartTimesOut, HeldPcs
  <2>1. /\ DOMAIN starts' \subseteq DOMAIN starts /\ \A t \in DOMAIN starts' : starts'[t] = starts[t]
        /\ visit[v].sess \notin DOMAIN starts'
    BY <2>0, SlotFreed
  <2>2. \A t \in DOMAIN starts' : starts'[t] # v
    <3>1. v # 0
      BY DEF HomeInv, HomeType
    <3> QED
      BY <2>1, <3>1 DEF HomeInv, Waiters
  <2> QED
    BY <1>0, <2>0, <2>1, <2>2, MovingVisit DEF Hosting!At
<1>7. CASE Hosting!Rerun(v)
  <2>0. /\ visit[v].pc = "loop" /\ UNCHANGED <<house, owner, events, sessions, dials, peers>>
        /\ {"expect", "loop"} \subseteq HeldPcs /\ Hosting!At(v, "expect")
        /\ starts' = Hosting!Restrict(starts, DOMAIN starts \ {visit[v].sess})
    BY <1>7 DEF Hosting!Rerun, Hosting!AttemptFinished, HeldPcs
  <2>1. DOMAIN starts' \subseteq DOMAIN starts /\ \A t \in DOMAIN starts' : starts'[t] = starts[t]
    BY <2>0, SlotFreed
  <2> QED
    BY <1>0, <2>0, <2>1, MovingVisit DEF Hosting!At
<1>8. CASE Hosting!PeerLeaves(v)
  BY <1>8, EndingVisit DEF Hosting!PeerLeaves, Hosting!InDoorbell, Hosting!AttemptFinished
<1>9. CASE Hosting!SayGoodbye(v)
  BY <1>9, EndingVisit DEF Hosting!SayGoodbye, Hosting!AttemptFinished
<1> QED
  BY <1>1, <1>2, <1>3, <1>4, <1>5, <1>6, <1>7, <1>8, <1>9 DEF Hosting!VisitStep

LEMMA AcceptStep ==
  ASSUME HomeInv, Hosting!Accept
  PROVE  HomeInv'
<1> DEFINE r(s) == [via |-> s, peer |-> owner[s], sess |-> 0, charged |-> FALSE,
                    pc |-> IF Cardinality(Hosting!Live) >= MAX_SESSIONS_PER_REGISTRATION
                           THEN "done" ELSE "handshake"]
<1>1. PICK s \in dials : dials' = dials \ {s} /\ visit' = Append(visit, r(s))
  BY OneCardinality, Zenon DEF Hosting!Accept
<1>2. /\ house = "up"
      /\ UNCHANGED <<house, owner, starts, events, sessions, peers>>
  BY DEF Hosting!Accept, Hosting!client
<1>3. s \in Nat /\ owner[s] \in Peer
  <2>1. owner \in Seq(Peer) /\ s \in DOMAIN owner
    BY DEF HomeInv, HomeType
  <2> QED
    BY <2>1
<1>4. Hosting!Live = LiveOf(visit)
  BY DEF Hosting!Live, Hosting!Visits, LiveOf
<1>5. /\ r(s) \in VisitType /\ ~r(s).charged
      /\ r(s).pc = IF Cardinality(LiveOf(visit)) >= MAX_SESSIONS_PER_REGISTRATION THEN "done" ELSE "handshake"
  BY <1>3, <1>4 DEF VisitType
<1> HIDE DEF r
<1>6. /\ visit' \in Seq(VisitType) /\ DOMAIN visit \subseteq DOMAIN visit' /\ Slots'
      /\ \A w \in DOMAIN visit : visit'[w] = visit[w]
  BY <1>1, <1>2, <1>5, VisitBegins
<1>7. HomeType'
  BY <1>1, <1>2, <1>6 DEF HomeInv, HomeType
<1>8. Waiters'
  BY <1>2, <1>6 DEF HomeInv, Waiters
<1> QED
  BY <1>6, <1>7, <1>8 DEF HomeInv

\* The gate's Start takes the slot of the visit that waits for it, or is kept.
LEMMA StartStep ==
  ASSUME HomeInv, NEW s, Hosting!Start(s)
  PROVE  HomeInv'
<1>0. UNCHANGED <<house, owner, events, sessions, dials, peers>>
  BY DEF Hosting!Start, Hosting!desk
<1>1. CASE UNCHANGED <<starts, visit>>
  BY <1>0, <1>1 DEF HomeInv, HomeType, Slots, Waiters
<1>2. CASE /\ s \in DOMAIN starts /\ starts[s] # 0
           /\ starts' = Hosting!Restrict(starts, DOMAIN starts \ {s})
           /\ Hosting!At(starts[s], "loop")
  <2> DEFINE v == starts[s]
  <2>1. v \in DOMAIN visit /\ visit[v].pc = "await" /\ visit[v].sess = s /\ v # 0
    BY <1>2 DEF HomeInv, Waiters
  <2>2. /\ DOMAIN starts' \subseteq DOMAIN starts /\ \A t \in DOMAIN starts' : starts'[t] = starts[t]
        /\ s \notin DOMAIN starts'
    BY <1>2, SlotFreed
  <2>3. \A t \in DOMAIN starts' : starts'[t] # v
    <3>1. \A t \in DOMAIN starts : starts[t] # 0 => visit[starts[t]].sess = t
      BY DEF HomeInv, Waiters
    <3> HIDE DEF v
    <3> QED
      BY <2>1, <2>2, <3>1
  <2>4. /\ visit' = [visit EXCEPT ![v].pc = "loop"] /\ "loop" \in HeldPcs /\ "await" \in HeldPcs
        /\ visit[v].sess \in Nat
    <3>1. visit[v] \in VisitType
      BY <2>1 DEF HomeInv, HomeType
    <3> QED
      BY <1>2, <3>1 DEF Hosting!At, HeldPcs, VisitType
  <2> HIDE DEF v
  <2> QED
    BY <1>0, <2>1, <2>2, <2>3, <2>4, MovingVisit
<1>3. CASE /\ starts' = [t \in DOMAIN starts \cup {s} |-> IF t = s THEN 0 ELSE starts[t]]
           /\ UNCHANGED visit
  BY <1>0, <1>3 DEF HomeInv, HomeType, Slots, Waiters
<1> QED
  BY <1>1, <1>2, <1>3 DEF Hosting!Start, Hosting!Kept

\* What changes neither the visits nor the slots.
LEMMA DeskSteps ==
  ASSUME HomeInv, UNCHANGED <<visit, peers, starts>>,
         \/ \E p \in Peer : Hosting!AnswerKnock(p) \/ Hosting!Introduction(p)
         \/ \E s : Hosting!Dial(s)
         \/ Hosting!Tick \/ Hosting!TakeEvent \/ Hosting!Shutdown
  PROVE  HomeInv'
<1> USE DEF Hosting!client, Hosting!desk
<1>0. /\ owner \in Seq(Peer) /\ events \in Seq(EventType) /\ sessions \in [Peer -> Nat]
      /\ dials \subseteq DOMAIN owner /\ house \in {"up", "stopping", "lost", "left"}
  BY DEF HomeInv, HomeType
<1>1. ASSUME NEW e \in EventType, Hosting!EmitEvent(e) PROVE events' \in Seq(EventType)
  BY <1>0, <1>1 DEF Hosting!EmitEvent
<1> DEFINE Kept == /\ house' = house \/ (house # "left" /\ house' \in {"stopping", "lost"})
                   /\ owner' \in Seq(Peer) /\ events' \in Seq(EventType)
                   /\ sessions' \in [Peer -> Nat] /\ dials' \subseteq DOMAIN owner'
<1>2. Kept
  <2>1. ASSUME NEW p \in Peer, Hosting!AnswerKnock(p) PROVE Kept
    <3>1. [t |-> "knock"] \in EventType
      BY DEF EventType
    <3> QED
      BY <1>0, <1>1, <2>1, <3>1 DEF Hosting!AnswerKnock
  <2>2. ASSUME NEW p \in Peer, Hosting!Introduction(p) PROVE Kept
    <3>1. [t |-> "introduced", s |-> Len(owner) + 1] \in EventType
      BY <1>0 DEF EventType
    <3>2. owner' = Append(owner, p) /\ UNCHANGED <<house, sessions, dials>>
      BY <2>2 DEF Hosting!Introduction
    <3>3. owner' \in Seq(Peer) /\ DOMAIN owner \subseteq DOMAIN owner'
      BY <1>0, <3>2
    <3>4. events' \in Seq(EventType)
      BY <1>1, <2>2, <3>1 DEF Hosting!Introduction
    <3> QED
      BY <1>0, <3>2, <3>3, <3>4
  <2>3. ASSUME NEW s, Hosting!Dial(s) PROVE Kept
    BY <1>0, <2>3 DEF Hosting!Dial, Hosting!Session
  <2>4. CASE Hosting!Tick
    BY <1>0, <2>4 DEF Hosting!Tick
  <2>5. CASE Hosting!TakeEvent
    <3>1. Head(events) \in EventType /\ Tail(events) \in Seq(EventType)
      BY <1>0, <2>5 DEF Hosting!TakeEvent
    <3>2. Head(events).t = "introduced" => Head(events).s \in Nat
      BY <3>1 DEF EventType
    <3>3. sessions' \in [Peer -> Nat]
      BY <1>0, <2>5, <3>2 DEF Hosting!TakeEvent
    <3> QED
      BY <1>0, <2>5, <3>1, <3>3 DEF Hosting!TakeEvent
  <2>6. CASE Hosting!Shutdown
    BY <1>0, <2>6 DEF Hosting!Shutdown
  <2> QED
    BY <2>1, <2>2, <2>3, <2>4, <2>5, <2>6
<1>3. HomeType'
  BY <1>0, <1>2 DEF HomeInv, HomeType
<1> QED
  BY <1>2, <1>3 DEF HomeInv, Slots, Waiters

LEMMA DepartStep ==
  ASSUME HomeInv, Hosting!Depart
  PROVE  HomeInv'
<1>1. /\ visit' = <<>> /\ starts' = <<>> /\ house' = "left"
      /\ UNCHANGED <<owner, events, sessions, dials, peers>>
  BY DEF Hosting!Depart, Hosting!desk
<1>2. DOMAIN visit' = {} /\ LiveOf(visit') = {} /\ visit' \in Seq(VisitType)
  BY <1>1 DEF LiveOf
<1>3. Cardinality(LiveOf(visit')) <= MAX_SESSIONS_PER_REGISTRATION
  BY <1>2, FS_EmptySet, HouseAssumption
<1>4. HomeType'
  BY <1>1, <1>2 DEF HomeInv, HomeType
<1> QED
  BY <1>1, <1>2, <1>3, <1>4 DEF HomeInv, Slots, Waiters

LEMMA HomeStep == HomeInv /\ [MCNext]_allVars => HomeInv'
<1> SUFFICES ASSUME HomeInv, [MCNext]_allVars PROVE HomeInv'
  OBVIOUS
<1>1. CASE UNCHANGED homeVars
  BY <1>1 DEF homeVars, HomeInv, HomeType, Slots, Waiters
<1>2. CASE Hosting!Next
  <2>1. ASSUME NEW p \in Peer, Hosting!AnswerKnock(p) \/ Hosting!Introduction(p) PROVE HomeInv'
    <3>1. UNCHANGED <<visit, peers, starts>>
      BY <2>1 DEF Hosting!AnswerKnock, Hosting!Introduction
    <3> QED
      BY <2>1, <3>1, DeskSteps
  <2>2. ASSUME NEW s, Hosting!Start(s) PROVE HomeInv'
    BY <2>2, StartStep
  <2>3. ASSUME NEW s, Hosting!Dial(s) PROVE HomeInv'
    <3>1. UNCHANGED <<visit, peers, starts>>
      BY <2>3 DEF Hosting!Dial, Hosting!client
    <3> QED
      BY <2>3, <3>1, DeskSteps
  <2>4. CASE Hosting!Tick \/ Hosting!TakeEvent \/ Hosting!Shutdown
    <3>1. UNCHANGED <<visit, peers, starts>>
      BY <2>4 DEF Hosting!Tick, Hosting!TakeEvent, Hosting!Shutdown, Hosting!client
    <3> QED
      BY <2>4, <3>1, DeskSteps
  <2>5. CASE Hosting!Accept
    BY <2>5, AcceptStep
  <2>6. CASE Hosting!Depart
    BY <2>6, DepartStep
  <2>7. ASSUME NEW v \in Hosting!Visits, Hosting!VisitStep(v) PROVE HomeInv'
    BY <2>7, VisitSteps DEF Hosting!Visits
  <2>8. CASE Hosting!Gone
    BY <1>1, <2>8 DEF Hosting!Gone, Hosting!vars, homeVars
  <2> QED
    BY <1>2, <2>1, <2>2, <2>3, <2>4, <2>5, <2>6, <2>7, <2>8 DEF Hosting!Next
<1> QED
  BY <1>1, <1>2 DEF MCNext, allVars

LEMMA HomeInvariance == MCSpec => []HomeInv
<1>1. MCInit => HomeInv
  BY HomeInit DEF MCInit
<1> QED
  BY <1>1, HomeStep, PTL DEF MCSpec, allVars

(* The slots of a house are its visits: however a visit ends (a failed handshake, a peer past its
   cap, no introduction, the peer's leaving, the house's stop), Visit::run gives back what it
   charged, so a peer is charged for exactly the visits it holds and neither cap is passed. *)
THEOREM SlotsNeverLeak == MCSpec => []SlotsAreVisits
<1>1. HomeInv => SlotsAreVisits
  <2> SUFFICES ASSUME HomeInv, house # "left" PROVE
               /\ Cardinality(Hosting!Live) <= MAX_SESSIONS_PER_REGISTRATION
               /\ \A p \in Peer :
                     /\ peers[p] = Cardinality({v \in Hosting!Live : visit[v].peer = p
                                                                     /\ visit[v].pc # "handshake"})
                     /\ peers[p] <= MAX_VISITS_PER_PEER
    BY OneCardinality, Zenon DEF SlotsAreVisits, Hosting!SlotsAreVisits
  <2>1. Hosting!Live = LiveOf(visit)
    BY DEF Hosting!Live, Hosting!Visits, LiveOf
  <2>2. ASSUME NEW p \in Peer
        PROVE  {v \in Hosting!Live : visit[v].peer = p /\ visit[v].pc # "handshake"} = HeldOf(visit, p)
    <3>1. \A v \in DOMAIN visit : visit[v] \in VisitType
      BY DEF HomeInv, HomeType
    <3>2. \A v \in DOMAIN visit : visit[v].pc \in HeldPcs <=> visit[v].pc \notin {"done", "handshake"}
      BY <3>1 DEF VisitType, HeldPcs
    <3> QED
      BY <2>1, <3>2 DEF LiveOf, HeldOf
  <2> QED
    BY <2>1, <2>2 DEF HomeInv, Slots
<1> QED
  BY <1>1, HomeInvariance, PTL

(* A Start the gate sends goes to a visit that waits for it: whichever of two visits of one
   session took the slot, and whatever timed out, was rerun or ended meanwhile, no slot names a
   visit that is over or that waits for another session. *)
THEOREM StartsFindWaiters == MCSpec => []StartFindsAWaiter
<1>1. HomeInv => StartFindsAWaiter
  BY DEF HomeInv, Waiters, StartFindsAWaiter, Hosting!StartFindsAWaiter, Hosting!Kept
<1> QED
  BY <1>1, HomeInvariance, PTL

-----------------------------------------------------------------------------
(* Discovery.                                                              *)

TripleType == House \X Int \X Nat

LanType ==
  /\ lanNow \in Nat
  /\ made \in [House -> Nat]
  /\ lastFrom = [h \in House |-> lastFrom[h]]
  /\ opened = [h \in House |-> opened[h]]
  /\ \A h \in House : \A k \in DOMAIN lastFrom[h] : k \in House \ {h} /\ lastFrom[h][k] \in 0..lanNow
  /\ guard \in [House -> Seq(TripleType)]
  /\ heard \in [House -> Seq(TripleType)]
  /\ \A d \in lan : d.key \in House /\ d.sent \in Int /\ d.nonce \in Nat /\ d.sent - Skew[d.key] <= lanNow

\* What house h admitted lies a gap apart, the last of it no later than the gap it spent.
SpacedAt(hd, lf, h) ==
  \A i \in DOMAIN hd :
     /\ hd[i][1] \in DOMAIN lf
     /\ hd[i][2] + (Len(hd) - i) * ANNOUNCE_PER_KEY_GAP
          <= lf[hd[i][1]] + ANNOUNCE_REPLAY_WINDOW + Skew[h]

\* The guard is the end of what was admitted, all of it while there is room.
GuardIsLast(g, hd) ==
  /\ Len(g) <= Len(hd)
  /\ Len(g) = Len(hd) \/ Len(g) >= ANNOUNCE_SEEN_REMEMBERED
  /\ \A j \in 1..Len(g) : g[j] = hd[Len(hd) - Len(g) + j]

Once(hd) == \A i, j \in DOMAIN hd : hd[i] = hd[j] => i = j

\* The gap of k at h, spent at at, is d's: signed, made by then, and heard or out of the window.
GapIs(N, hd, h, k, at, d) ==
  /\ d \in N /\ d.to = h /\ d.key = k /\ d.signed
  /\ d.sent - Skew[k] <= at
  /\ \/ \E i \in DOMAIN hd : hd[i] = Lan!Triple(d)
     \/ at + Skew[h] - d.sent > ANNOUNCE_REPLAY_WINDOW
     \/ -(at + Skew[h] - d.sent) > ANNOUNCE_REPLAY_WINDOW

GapsAre(N, hd, h, lf, op) ==
  /\ DOMAIN op = DOMAIN lf
  /\ \A k \in DOMAIN lf : GapIs(N, hd, h, k, lf[k], op[k])

LanInv ==
  /\ LanType
  /\ \A h \in House : SpacedAt(heard[h], lastFrom[h], h) /\ GuardIsLast(guard[h], heard[h]) /\ Once(heard[h])
  /\ \A h \in House : GapsAre(lan, heard[h], h, lastFrom[h], opened[h])

LEMMA LanInit == Lan!Init => LanInv
<1> SUFFICES ASSUME Lan!Init PROVE LanInv
  OBVIOUS
<1>1. /\ lanNow = 0 /\ lan = {} /\ made = [h \in House |-> 0] /\ lastFrom = [h \in House |-> <<>>]
      /\ guard = [h \in House |-> <<>>] /\ heard = [h \in House |-> <<>>]
      /\ opened = [h \in House |-> <<>>]
  BY DEF Lan!Init
<1>2. DOMAIN <<>> = {} /\ Len(<<>>) = 0 /\ <<>> \in Seq(TripleType)
  OBVIOUS
<1>3. LanType
  BY <1>1, <1>2 DEF LanType
<1>4. ASSUME NEW h \in House
      PROVE  SpacedAt(heard[h], lastFrom[h], h) /\ GuardIsLast(guard[h], heard[h]) /\ Once(heard[h])
  BY <1>1, <1>2 DEF SpacedAt, GuardIsLast, Once
<1>5. ASSUME NEW h \in House PROVE GapsAre(lan, heard[h], h, lastFrom[h], opened[h])
  BY <1>1, <1>2 DEF GapsAre
<1> QED
  BY <1>3, <1>4, <1>5 DEF LanInv

\* Gaps add up.
LEMMA Gaps ==
  ASSUME NEW G \in Nat, NEW m \in Nat, NEW n \in Nat
  PROVE  (n + 1) * G = n * G + G /\ (m <= n => m * G <= n * G)
OBVIOUS

\* At time n the triple t of key k comes a gap after the last of its key, and spends the next.
GapLater(h, lf, k, t, n, lg) ==
  /\ t[1] = k
  /\ \A j \in DOMAIN lf : j = k /\ lf[j] \in Nat
  /\ k \in DOMAIN lf => n - lf[k] >= ANNOUNCE_PER_KEY_GAP
  /\ t[2] - (n + Skew[h]) <= ANNOUNCE_REPLAY_WINDOW
  /\ k \in DOMAIN lg /\ lg[k] = n

\* One more admitted triple, a gap after the last.
LEMMA SpacingGrows ==
  ASSUME NEW h \in House, NEW hd \in Seq(TripleType), NEW lf, NEW k \in House, NEW t \in TripleType,
         NEW n \in Nat, NEW lg, GapLater(h, lf, k, t, n, lg), SpacedAt(hd, lf, h)
  PROVE  SpacedAt(Append(hd, t), lg, h)
<1> USE DEF GapLater
<1> DEFINE G == ANNOUNCE_PER_KEY_GAP
           W == ANNOUNCE_REPLAY_WINDOW
           he == Append(hd, t)
<1>1. G \in Nat /\ W \in Nat /\ Skew[h] \in Int
  BY HouseAssumption
<1>2. /\ Len(hd) \in Nat /\ DOMAIN hd = 1..Len(hd) /\ Len(he) = Len(hd) + 1 /\ DOMAIN he = 1..Len(hd) + 1
      /\ he[Len(hd) + 1] = t /\ \A i \in DOMAIN hd : he[i] = hd[i] /\ hd[i] \in TripleType
  OBVIOUS
<1> HIDE DEF G, W, he
<1>3. ASSUME NEW i \in DOMAIN he
      PROVE  he[i][1] \in DOMAIN lg /\ he[i][2] + (Len(he) - i) * G <= lg[he[i][1]] + W + Skew[h]
  <2>1. CASE i = Len(hd) + 1
    <3>1. (Len(he) - i) * G = 0 /\ he[i] = t /\ t[2] \in Int
      BY <1>1, <1>2, <2>1 DEF TripleType
    <3> QED
      BY <1>1, <3>1 DEF W
  <2>2. CASE i \in DOMAIN hd
    <3>1. /\ hd[i][1] \in DOMAIN lf /\ hd[i][2] + (Len(hd) - i) * G <= lf[hd[i][1]] + W + Skew[h]
          /\ he[i] = hd[i] /\ hd[i][2] \in Int
      BY <1>2, <2>2 DEF SpacedAt, G, W, TripleType
    <3>2. hd[i][1] = k /\ lf[k] \in Nat /\ n - lf[k] >= G
      BY <3>1 DEF G
    <3>3. Len(hd) - i \in Nat /\ Len(he) - i = (Len(hd) - i) + 1
      BY <1>2, <2>2
    <3>4. (Len(he) - i) * G = (Len(hd) - i) * G + G /\ (Len(hd) - i) * G \in Int
      <4> DEFINE m == Len(hd) - i
      <4>1. m \in Nat /\ Len(he) - i = m + 1
        BY <3>3
      <4> HIDE DEF m
      <4>2. (m + 1) * G = m * G + G /\ m * G \in Int
        BY <1>1, <4>1, Gaps
      <4> QED
        BY <4>1, <4>2 DEF m
    <3> DEFINE x == (Len(hd) - i) * G
    <3>5. x \in Int /\ hd[i][2] + x <= lf[k] + W + Skew[h]
      BY <3>1, <3>2, <3>4
    <3>6. (Len(he) - i) * G = x + G
      BY <3>4
    <3>7. hd[i][2] + (x + G) <= n + W + Skew[h]
      <4> DEFINE e == hd[i][2]
                 l == lf[k]
                 S == Skew[h]
      <4>1. /\ e \in Int /\ x \in Int /\ G \in Int /\ l \in Int /\ n \in Int /\ W \in Int /\ S \in Int
            /\ e + x <= l + W + S /\ n - l >= G
        BY <1>1, <3>1, <3>2, <3>5
      <4> HIDE DEF e, l, S, x
      <4>2. e + (x + G) <= n + W + S
        BY <4>1
      <4> QED
        BY <4>2 DEF e, S
    <3> QED
      BY <3>1, <3>2, <3>6, <3>7
  <2> QED
    BY <1>2, <2>1, <2>2
<1> QED
  BY <1>3 DEF SpacedAt, G, W, he

\* A triple t that the gap and the replay window let through at time n.
InTime(h, lf, t, n) ==
  /\ \A j \in DOMAIN lf : j = t[1] /\ lf[j] \in Nat
  /\ t[1] \in DOMAIN lf => n - lf[t[1]] >= ANNOUNCE_PER_KEY_GAP
  /\ (n + Skew[h]) - t[2] <= ANNOUNCE_REPLAY_WINDOW

\* What the guard has forgotten is outside the window it is asked with.
LEMMA ForgottenIsStale ==
  ASSUME NEW h \in House, NEW hd \in Seq(TripleType), NEW g \in Seq(TripleType), NEW lf,
         NEW t \in TripleType, NEW n \in Nat, InTime(h, lf, t, n),
         SpacedAt(hd, lf, h), GuardIsLast(g, hd),
         \A j \in 1..Len(g) : g[j] # t
  PROVE  \A i \in DOMAIN hd : hd[i] # t
<1> DEFINE k == t[1]
           G == ANNOUNCE_PER_KEY_GAP
           W == ANNOUNCE_REPLAY_WINDOW
           Kept == ANNOUNCE_SEEN_REMEMBERED
<1>1. G \in Nat \ {0} /\ W \in Nat /\ Kept \in Nat /\ Skew[h] \in Int /\ Kept * G >= 2 * W
  BY HouseAssumption, GuardAssumption
<1> SUFFICES ASSUME NEW i \in DOMAIN hd, hd[i] = t PROVE FALSE
  OBVIOUS
<1>2. Len(hd) \in Nat /\ Len(g) \in Nat /\ i \in 1..Len(hd) /\ t[2] \in Int /\ k \in House
  BY DEF TripleType
<1>3. i <= Len(hd) - Len(g)
  <2> SUFFICES ASSUME i > Len(hd) - Len(g) PROVE FALSE
    BY <1>2
  <2> DEFINE j == i - (Len(hd) - Len(g))
  <2>1. j \in 1..Len(g) /\ Len(hd) - Len(g) + j = i
    BY <1>2 DEF GuardIsLast
  <2> QED
    BY <2>1 DEF GuardIsLast
<1>4. Len(g) >= Kept /\ Len(hd) - i \in Nat /\ Kept <= Len(hd) - i
  BY <1>1, <1>2, <1>3 DEF GuardIsLast
<1>5. Kept * G <= (Len(hd) - i) * G /\ (Len(hd) - i) * G \in Int /\ Kept * G \in Int
  <2> DEFINE m == Len(hd) - i
  <2>1. m \in Nat /\ Kept <= m
    BY <1>4
  <2> HIDE DEF m, Kept, G
  <2>2. Kept * G <= m * G /\ m * G \in Int /\ Kept * G \in Int
    BY <1>1, <2>1, Gaps
  <2> QED
    BY <2>2 DEF m
<1>6. k \in DOMAIN lf /\ t[2] + (Len(hd) - i) * G <= lf[k] + W + Skew[h]
  BY <1>2 DEF SpacedAt
<1>7. lf[k] \in Nat /\ n - lf[k] >= G
  BY <1>6 DEF InTime
<1> DEFINE x == (Len(hd) - i) * G
           y == Kept * G
<1>8. x \in Int /\ y \in Int /\ y <= x /\ y >= 2 * W /\ t[2] + x <= lf[k] + W + Skew[h]
  BY <1>1, <1>5, <1>6
<1> DEFINE e == t[2]
           l == lf[k]
           S == Skew[h]
<1>9. /\ e \in Int /\ x \in Int /\ y \in Int /\ G \in Int /\ l \in Int /\ n \in Int /\ W \in Int /\ S \in Int
      /\ e + x <= l + W + S /\ n - l >= G /\ G > 0 /\ y <= x /\ y >= 2 * W /\ (n + S) - e <= W
  BY <1>1, <1>2, <1>7, <1>8 DEF InTime
<1> HIDE DEF e, l, S, x, y, G, W
<1> QED
  BY <1>9

LEMMA GuardFollows ==
  ASSUME NEW hd \in Seq(TripleType), NEW g \in Seq(TripleType), NEW t \in TripleType, GuardIsLast(g, hd)
  PROVE  /\ Lan!Remembered(g, t) \in Seq(TripleType)
         /\ GuardIsLast(Lan!Remembered(g, t), Append(hd, t))
<1> DEFINE all == Append(g, t)
           he == Append(hd, t)
           Kept == ANNOUNCE_SEEN_REMEMBERED
<1>1. /\ Kept \in Nat \ {0} /\ Len(g) \in Nat /\ Len(hd) \in Nat /\ Len(all) = Len(g) + 1 /\ Len(he) = Len(hd) + 1
      /\ all \in Seq(TripleType) /\ he \in Seq(TripleType)
  BY HouseAssumption
<1>2. \A j \in 1..Len(g) + 1 : all[j] = IF j = Len(g) + 1 THEN t ELSE g[j]
  BY <1>1
<1>3. \A j \in 1..Len(hd) + 1 : he[j] = IF j = Len(hd) + 1 THEN t ELSE hd[j]
  BY <1>1
<1>4. Len(g) <= Len(hd) /\ (Len(g) = Len(hd) \/ Len(g) >= Kept) /\ \A j \in 1..Len(g) : g[j] = hd[Len(hd) - Len(g) + j]
  BY DEF GuardIsLast
<1>5. \A j \in 1..Len(g) + 1 : all[j] = he[Len(hd) - Len(g) + j]
  <2> SUFFICES ASSUME NEW j \in 1..Len(g) + 1 PROVE all[j] = he[Len(hd) - Len(g) + j]
    OBVIOUS
  <2>1. Len(hd) - Len(g) + j \in 1..Len(hd) + 1 /\ (j = Len(g) + 1 <=> Len(hd) - Len(g) + j = Len(hd) + 1)
    BY <1>1, <1>4
  <2>2. j # Len(g) + 1 => j \in 1..Len(g)
    BY <1>1
  <2> HIDE DEF all, he
  <2> QED
    BY <1>2, <1>3, <1>4, <2>1, <2>2
<1>6. CASE Len(all) > Kept
  <2>1. Lan!Remembered(g, t) = Tail(all)
    BY <1>6 DEF Lan!Remembered
  <2>2. /\ Tail(all) \in Seq(TripleType) /\ Len(Tail(all)) = Len(g)
        /\ \A j \in 1..Len(g) : Tail(all)[j] = all[j + 1]
    BY <1>1
  <2>3. \A j \in 1..Len(g) : j + 1 \in 1..Len(g) + 1 /\ Len(hd) - Len(g) + (j + 1) = Len(he) - Len(g) + j
    BY <1>1
  <2> HIDE DEF all, he
  <2>4. \A j \in 1..Len(g) : Tail(all)[j] = he[Len(he) - Len(g) + j]
    BY <1>5, <2>2, <2>3
  <2>5. Len(g) <= Len(he) /\ Len(g) >= Kept
    BY <1>1, <1>4, <1>6
  <2>6. GuardIsLast(Tail(all), he)
    BY <2>2, <2>4, <2>5 DEF GuardIsLast
  <2> QED
    BY <2>1, <2>2, <2>6 DEF he
<1>7. CASE ~(Len(all) > Kept)
  <2>1. Lan!Remembered(g, t) = all
    BY <1>7 DEF Lan!Remembered
  <2>2. Len(g) = Len(hd) /\ Len(all) = Len(he)
    BY <1>1, <1>4, <1>7
  <2> HIDE DEF all, he
  <2>3. \A j \in 1..Len(all) : all[j] = he[Len(he) - Len(all) + j]
    BY <1>1, <1>5, <2>2
  <2>4. GuardIsLast(all, he)
    BY <1>1, <2>2, <2>3 DEF GuardIsLast
  <2> QED
    BY <1>1, <2>1, <2>4 DEF he
<1> QED
  BY <1>6, <1>7

LEMMA OnceGrows ==
  ASSUME NEW hd \in Seq(TripleType), NEW t \in TripleType, Once(hd), \A i \in DOMAIN hd : hd[i] # t
  PROVE  Append(hd, t) \in Seq(TripleType) /\ Once(Append(hd, t))
<1> DEFINE he == Append(hd, t)
<1>1. /\ Len(hd) \in Nat /\ DOMAIN hd = 1..Len(hd) /\ DOMAIN he = 1..Len(hd) + 1 /\ he \in Seq(TripleType)
      /\ he[Len(hd) + 1] = t /\ \A i \in DOMAIN hd : he[i] = hd[i]
  OBVIOUS
<1>2. \A i \in DOMAIN he : i \in DOMAIN hd \/ i = Len(hd) + 1
  BY <1>1
<1> HIDE DEF he
<1>3. Once(he)
  BY <1>1, <1>2 DEF Once
<1> QED
  BY <1>1, <1>3 DEF he

\* A gap stays what it is while more is sent and more is heard.
LEMMA GapsStay ==
  ASSUME NEW N, NEW N2, N \subseteq N2, NEW hd, NEW h, NEW lf, NEW op, GapsAre(N, hd, h, lf, op)
  PROVE  GapsAre(N2, hd, h, lf, op)
BY DEF GapsAre, GapIs

\* What a house sends is made at its own clock.
LEMMA EncodeFacts ==
  ASSUME LanType, NEW h \in House, NEW g, NEW r
  PROVE  LET d == Lan!Encode(h, g, r) IN
         d.key \in House /\ d.sent \in Int /\ d.nonce \in Nat /\ d.sent - Skew[d.key] <= lanNow
<1>1. lanNow \in Nat /\ Skew[h] \in Int /\ made[h] \in Nat
  BY HouseAssumption DEF LanType
<1>2. (lanNow + Skew[h]) - Skew[h] = lanNow /\ lanNow + Skew[h] \in Int
  BY <1>1
<1> QED
  BY <1>1, <1>2 DEF Lan!Encode

\* Sending leaves what was sent, and says nothing of what was heard.
LEMMA SendingStep ==
  ASSUME LanInv, NEW S, lan' = lan \cup S, NEW h \in House,
         \A d \in S : \E g, r : d = Lan!Encode(h, g, r),
         made' = made \/ made' = [made EXCEPT ![h] = @ + 1],
         UNCHANGED <<lanNow, lastFrom, guard, heard, opened>>
  PROVE  LanInv'
<1>1. LanType
  BY DEF LanInv
<1>2. \A d \in S : d.key \in House /\ d.sent \in Int /\ d.nonce \in Nat /\ d.sent - Skew[d.key] <= lanNow
  BY <1>1, EncodeFacts
<1>3. made' \in [House -> Nat]
  <2>1. made \in [House -> Nat] /\ made[h] + 1 \in Nat
    BY <1>1 DEF LanType
  <2>2. CASE made' = made
    BY <2>1, <2>2
  <2>3. CASE made' = [made EXCEPT ![h] = @ + 1]
    BY <2>1, <2>3
  <2> QED
    BY <2>2, <2>3
<1>4. LanType'
  BY <1>1, <1>2, <1>3 DEF LanType
<1>5. ASSUME NEW g \in House PROVE GapsAre(lan', heard[g], g, lastFrom[g], opened[g])
  <2>1. GapsAre(lan, heard[g], g, lastFrom[g], opened[g]) /\ lan \subseteq lan'
    BY DEF LanInv
  <2> QED
    BY <2>1, GapsStay
<1> QED
  BY <1>4, <1>5 DEF LanInv

LEMMA LanTickStep ==
  ASSUME LanInv, Lan!Tick
  PROVE  LanInv'
<1>1. lanNow' = lanNow + 1 /\ UNCHANGED <<lastFrom, guard, made, lan, heard, opened>>
  BY DEF Lan!Tick
<1>2. LanType'
  <2>1. lanNow \in Nat
    BY DEF LanInv, LanType
  <2>2. \A h \in House : \A k \in DOMAIN lastFrom[h] : k \in House \ {h} /\ lastFrom[h][k] \in 0..lanNow + 1
    BY <2>1 DEF LanInv, LanType
  <2>3. ASSUME NEW d \in lan PROVE d.sent - Skew[d.key] <= lanNow + 1
    <3>1. d.key \in House /\ d.sent \in Int /\ d.sent - Skew[d.key] <= lanNow
      BY DEF LanInv, LanType
    <3>2. Skew[d.key] \in Int
      BY <3>1, HouseAssumption
    <3> QED
      BY <2>1, <3>1, <3>2
  <2> QED
    BY <1>1, <2>1, <2>2, <2>3 DEF LanInv, LanType
<1> QED
  BY <1>1, <1>2 DEF LanInv

\* The gap of the other house's key is spent at h, by its announce d.
Spends(h, d) == Lan!Spend(h, d)

LEMMA SpendFacts ==
  ASSUME LanInv, NEW h \in House, NEW d, NEW k \in House \ {h}, d.key = k, Spends(h, d)
  PROVE  /\ lastFrom' = [j \in House |-> lastFrom'[j]]
         /\ \A j \in House \ {h} : lastFrom'[j] = lastFrom[j]
         /\ DOMAIN lastFrom'[h] = DOMAIN lastFrom[h] \cup {k} /\ lastFrom'[h][k] = lanNow
         /\ \A j \in DOMAIN lastFrom'[h] : j = k
         /\ \A j \in DOMAIN lastFrom[h] : j = k /\ lastFrom[h][j] \in 0..lanNow
         /\ lanNow \in Nat
         /\ opened' = [j \in House |-> opened'[j]]
         /\ \A j \in House \ {h} : opened'[j] = opened[j]
         /\ DOMAIN opened'[h] = DOMAIN lastFrom'[h] /\ opened'[h][k] = d
<1> DEFINE sp == [j \in DOMAIN lastFrom[h] \cup {k} |-> IF j = k THEN lanNow ELSE lastFrom[h][j]]
           so == [j \in DOMAIN opened[h] \cup {k} |-> IF j = k THEN d ELSE opened[h][j]]
<1>1. /\ lastFrom = [j \in House |-> lastFrom[j]] /\ lanNow \in Nat
      /\ opened = [j \in House |-> opened[j]] /\ DOMAIN opened[h] = DOMAIN lastFrom[h]
  BY DEF LanInv, LanType, GapsAre
<1>2. lastFrom' = [lastFrom EXCEPT ![h] = sp] /\ opened' = [opened EXCEPT ![h] = so]
  BY DEF Spends, Lan!Spend, Lan!Override
<1>3. /\ DOMAIN sp = DOMAIN lastFrom[h] \cup {k} /\ sp[k] = lanNow
      /\ DOMAIN so = DOMAIN opened[h] \cup {k} /\ so[k] = d
  OBVIOUS
<1>4. \A j \in DOMAIN lastFrom[h] : j = k /\ lastFrom[h][j] \in 0..lanNow
  BY HouseAssumption DEF LanInv, LanType
<1> HIDE DEF sp, so
<1>5. DOMAIN lastFrom = House /\ DOMAIN opened = House
  BY <1>1
<1>6. /\ lastFrom'[h] = sp /\ \A j \in House \ {h} : lastFrom'[j] = lastFrom[j]
      /\ opened'[h] = so /\ \A j \in House \ {h} : opened'[j] = opened[j]
  BY <1>2, <1>5
<1>7. lastFrom' = [j \in House |-> lastFrom'[j]] /\ opened' = [j \in House |-> opened'[j]]
  BY <1>2, <1>5
<1> QED
  BY <1>1, <1>3, <1>4, <1>6, <1>7

\* What the guard refuses is out of the window, or was heard.
LEMMA RefusedFacts ==
  ASSUME LanInv, NEW h \in House, NEW d \in lan, ~Lan!Admits(h, d)
  PROVE  \/ \E i \in DOMAIN heard[h] : heard[h][i] = Lan!Triple(d)
         \/ lanNow + Skew[h] - d.sent > ANNOUNCE_REPLAY_WINDOW
         \/ -(lanNow + Skew[h] - d.sent) > ANNOUNCE_REPLAY_WINDOW
<1> DEFINE hd == heard[h]
           g == guard[h]
<1>1. CASE ~Lan!Within(h, d)
  <2>1. lanNow \in Nat /\ Skew[h] \in Int /\ d.sent \in Int /\ ANNOUNCE_REPLAY_WINDOW \in Nat
    BY HouseAssumption DEF LanInv, LanType
  <2> QED
    BY <1>1, <2>1 DEF Lan!Within
<1>2. CASE Lan!Contains(g, Lan!Triple(d))
  <2>1. GuardIsLast(g, hd) /\ hd \in Seq(TripleType) /\ g \in Seq(TripleType)
    BY DEF LanInv, LanType
  <2>2. PICK j \in 1..Len(g) : g[j] = Lan!Triple(d)
    BY <1>2 DEF Lan!Contains
  <2>3. hd[Len(hd) - Len(g) + j] = Lan!Triple(d) /\ Len(g) <= Len(hd)
    BY <2>1, <2>2 DEF GuardIsLast
  <2>4. Len(hd) \in Nat /\ Len(g) \in Nat /\ j \in 1..Len(g) /\ DOMAIN hd = 1..Len(hd)
    BY <2>1
  <2> DEFINE i == Len(hd) - Len(g) + j
             t == Lan!Triple(d)
  <2>5. hd[i] = t /\ Len(g) <= Len(hd)
    BY <2>3
  <2> HIDE DEF hd, g, t
  <2>6. i \in DOMAIN hd
    BY <2>4, <2>5
  <2> QED
    BY <2>5, <2>6 DEF hd, t
<1> QED
  BY <1>1, <1>2 DEF Lan!Admits

\* A signed announce opens its key's gap, whether or not the guard then admits it.
LEMMA SpendStep ==
  ASSUME LanInv, NEW h \in House, NEW d \in lan, d.to = h, d.signed, d.key \in House \ {h},
         Spends(h, d), ~Lan!Admits(h, d), UNCHANGED <<lanNow, guard, made, lan, heard>>
  PROVE  LanInv'
<1> DEFINE k == d.key
<1>1. /\ lastFrom' = [j \in House |-> lastFrom'[j]]
      /\ \A j \in House \ {h} : lastFrom'[j] = lastFrom[j]
      /\ DOMAIN lastFrom'[h] = DOMAIN lastFrom[h] \cup {k} /\ lastFrom'[h][k] = lanNow
      /\ \A j \in DOMAIN lastFrom'[h] : j = k
      /\ \A j \in DOMAIN lastFrom[h] : j = k /\ lastFrom[h][j] \in 0..lanNow
      /\ lanNow \in Nat
      /\ opened' = [j \in House |-> opened'[j]]
      /\ \A j \in House \ {h} : opened'[j] = opened[j]
      /\ DOMAIN opened'[h] = DOMAIN lastFrom'[h] /\ opened'[h][k] = d
  BY SpendFacts
<1>2. LanType'
  <2>1. \A g \in House : \A j \in DOMAIN lastFrom'[g] : j \in House \ {g} /\ lastFrom'[g][j] \in 0..lanNow
    <3> SUFFICES ASSUME NEW g \in House, NEW j \in DOMAIN lastFrom'[g]
                 PROVE  j \in House \ {g} /\ lastFrom'[g][j] \in 0..lanNow
      OBVIOUS
    <3>1. CASE g = h
      <4>1. j = k /\ lastFrom'[g][j] = lanNow
        BY <1>1, <3>1
      <4> QED
        BY <1>1, <3>1, <4>1
    <3>2. CASE g # h
      BY <1>1, <3>2 DEF LanInv, LanType
    <3> QED
      BY <3>1, <3>2
  <2> QED
    BY <1>1, <2>1 DEF LanInv, LanType
<1>3. ASSUME NEW g \in House PROVE SpacedAt(heard[g], lastFrom'[g], g)
  <2>1. CASE g # h
    BY <1>1, <2>1 DEF LanInv
  <2>2. CASE g = h
    <3>1. SpacedAt(heard[h], lastFrom[h], h) /\ heard[h] \in Seq(TripleType)
      BY DEF LanInv, LanType
    <3> SUFFICES ASSUME NEW i \in DOMAIN heard[h]
                 PROVE  /\ heard[h][i][1] \in DOMAIN lastFrom'[h]
                        /\ heard[h][i][2] + (Len(heard[h]) - i) * ANNOUNCE_PER_KEY_GAP
                             <= lastFrom'[h][heard[h][i][1]] + ANNOUNCE_REPLAY_WINDOW + Skew[h]
      BY <2>2 DEF SpacedAt
    <3> DEFINE a == heard[h][i][2] + (Len(heard[h]) - i) * ANNOUNCE_PER_KEY_GAP
               l == lastFrom[h][k]
    <3>2. heard[h][i][1] \in DOMAIN lastFrom[h] /\ heard[h][i][1] = k
      BY <1>1, <3>1 DEF SpacedAt
    <3>3. a <= l + ANNOUNCE_REPLAY_WINDOW + Skew[h]
      BY <3>1, <3>2 DEF SpacedAt
    <3>4. a \in Int /\ l \in 0..lanNow /\ Skew[h] \in Int /\ ANNOUNCE_REPLAY_WINDOW \in Nat
      <4>1. heard[h][i] \in TripleType /\ i \in Nat /\ Len(heard[h]) \in Nat
        BY <3>1
      <4>2. heard[h][i][2] \in Int
        BY <4>1 DEF TripleType
      <4>3. (Len(heard[h]) - i) * ANNOUNCE_PER_KEY_GAP \in Int
        BY <4>1, HouseAssumption
      <4>4. l \in 0..lanNow /\ Skew[h] \in Int /\ ANNOUNCE_REPLAY_WINDOW \in Nat
        BY <1>1, <3>2, HouseAssumption
      <4>5. a \in Int
        BY <4>2, <4>3
      <4> QED
        BY <4>4, <4>5
    <3> HIDE DEF a, l
    <3>5. a <= lanNow + ANNOUNCE_REPLAY_WINDOW + Skew[h]
      BY <1>1, <3>3, <3>4
    <3> QED
      BY <1>1, <3>2, <3>5 DEF a
  <2> QED
    BY <2>1, <2>2
<1>4. ASSUME NEW g \in House PROVE GapsAre(lan, heard[g], g, lastFrom'[g], opened'[g])
  <2>1. CASE g = h
    <3>1. d.sent - Skew[k] <= lanNow
      BY DEF LanInv, LanType
    <3>2. GapIs(lan, heard[h], h, k, lanNow, d)
      BY <3>1, RefusedFacts DEF GapIs
    <3>3. ASSUME NEW j \in DOMAIN lastFrom'[h]
          PROVE  j = k /\ lastFrom'[h][j] = lanNow /\ opened'[h][j] = d
      BY <1>1, <3>3
    <3> HIDE DEF k
    <3> QED
      BY <1>1, <2>1, <3>2, <3>3 DEF GapsAre
  <2>2. CASE g # h
    <3>1. lastFrom'[g] = lastFrom[g] /\ opened'[g] = opened[g]
      BY <1>1, <2>2
    <3> QED
      BY <3>1 DEF LanInv
  <2> QED
    BY <2>1, <2>2
<1> QED
  BY <1>2, <1>3, <1>4 DEF LanInv

\* An announce the guard admits: new, and remembered.
Admitted(h, d) ==
  /\ Spends(h, d)
  /\ Lan!AdmitKey(h, d.key)
  /\ Lan!Admits(h, d)
  /\ guard' = [guard EXCEPT ![h] = Lan!Remembered(@, Lan!Triple(d))]
  /\ heard' = [heard EXCEPT ![h] = Append(@, Lan!Triple(d))]
  /\ UNCHANGED lanNow

LEMMA AdmitStep ==
  ASSUME LanInv, NEW h \in House, NEW d \in lan, d.to = h, d.signed, d.key \in House \ {h}, Admitted(h, d),
         lan \subseteq lan', made' \in [House -> Nat],
         \A e \in lan' : e.key \in House /\ e.sent \in Int /\ e.nonce \in Nat /\ e.sent - Skew[e.key] <= lanNow
  PROVE  LanInv'
<1> DEFINE k == d.key
           t == <<d.key, d.sent, d.nonce>>
           hd == heard[h]
           g == guard[h]
<1>0. Spends(h, d) /\ lanNow' = lanNow
  BY DEF Admitted
<1>1. /\ lastFrom' = [j \in House |-> lastFrom'[j]]
      /\ \A j \in House \ {h} : lastFrom'[j] = lastFrom[j]
      /\ DOMAIN lastFrom'[h] = DOMAIN lastFrom[h] \cup {k} /\ lastFrom'[h][k] = lanNow
      /\ \A j \in DOMAIN lastFrom'[h] : j = k
      /\ \A j \in DOMAIN lastFrom[h] : j = k /\ lastFrom[h][j] \in 0..lanNow
      /\ lanNow \in Nat
      /\ opened' = [j \in House |-> opened'[j]]
      /\ \A j \in House \ {h} : opened'[j] = opened[j]
      /\ DOMAIN opened'[h] = DOMAIN lastFrom'[h] /\ opened'[h][k] = d
  BY <1>0, SpendFacts
<1>2. /\ d.sent \in Int /\ d.nonce \in Nat /\ d.sent - Skew[k] <= lanNow
      /\ hd \in Seq(TripleType) /\ g \in Seq(TripleType)
      /\ guard \in [House -> Seq(TripleType)] /\ heard \in [House -> Seq(TripleType)]
      /\ SpacedAt(hd, lastFrom[h], h) /\ GuardIsLast(g, hd) /\ Once(hd)
  BY DEF LanInv, LanType
<1>3. t \in TripleType /\ t[1] = k /\ t[2] = d.sent
  BY <1>2 DEF TripleType
<1>4. k \in DOMAIN lastFrom[h] => lanNow - lastFrom[h][k] >= ANNOUNCE_PER_KEY_GAP
  BY <1>1, HouseAssumption DEF Admitted, Lan!AdmitKey
<1>5. /\ t[2] - (lanNow + Skew[h]) <= ANNOUNCE_REPLAY_WINDOW
      /\ (lanNow + Skew[h]) - t[2] <= ANNOUNCE_REPLAY_WINDOW
  <2>1. Lan!Within(h, d)
    BY DEF Admitted, Lan!Admits
  <2>2. Skew[h] \in Int /\ ANNOUNCE_REPLAY_WINDOW \in Nat
    BY HouseAssumption
  <2> QED
    BY <1>1, <1>2, <1>3, <2>1, <2>2, SMTT(30) DEF Lan!Within
<1>6. \A j \in 1..Len(g) : g[j] # t
  BY DEF Admitted, Lan!Admits, Lan!Contains, Lan!Triple
<1>7. /\ guard' = [guard EXCEPT ![h] = Lan!Remembered(g, t)]
      /\ heard' = [heard EXCEPT ![h] = Append(hd, t)]
  BY DEF Admitted, Lan!Triple
<1>8. \A j \in DOMAIN lastFrom[h] : j = k /\ lastFrom[h][j] \in Nat
  BY <1>1
<1> HIDE DEF t, hd, g, k
<1>9. \A i \in DOMAIN hd : hd[i] # t
  <2> DEFINE lf == lastFrom[h]
  <2>1. InTime(h, lf, t, lanNow)
    BY <1>1, <1>3, <1>4, <1>5, <1>8 DEF InTime
  <2>2. /\ hd \in Seq(TripleType) /\ g \in Seq(TripleType) /\ t \in TripleType /\ lanNow \in Nat
        /\ SpacedAt(hd, lf, h) /\ GuardIsLast(g, hd)
        /\ \A j \in 1..Len(g) : g[j] # t
    BY <1>1, <1>2, <1>3, <1>6
  <2> HIDE DEF lf
  <2> QED
    BY <2>1, <2>2, ForgottenIsStale
<1>10. SpacedAt(Append(hd, t), lastFrom'[h], h)
  <2> DEFINE lf == lastFrom[h]
             lg == lastFrom'[h]
  <2>1. k \in House /\ k \in DOMAIN lg /\ lg[k] = lanNow /\ lanNow \in Nat
    BY <1>1 DEF k
  <2>2. (\A j \in DOMAIN lf : j = k /\ lf[j] \in Nat) /\ SpacedAt(hd, lf, h)
    BY <1>2, <1>8
  <2>3. k \in DOMAIN lf => lanNow - lf[k] >= ANNOUNCE_PER_KEY_GAP
    BY <1>4
  <2>4. hd \in Seq(TripleType) /\ t \in TripleType /\ t[1] = k
    BY <1>2, <1>3
  <2> HIDE DEF lf, lg
  <2>5. GapLater(h, lf, k, t, lanNow, lg)
    BY <1>5, <2>1, <2>2, <2>3, <2>4 DEF GapLater
  <2> QED
    BY <2>1, <2>2, <2>4, <2>5, SpacingGrows DEF lf, lg
<1>11. Lan!Remembered(g, t) \in Seq(TripleType) /\ GuardIsLast(Lan!Remembered(g, t), Append(hd, t))
  BY <1>2, <1>3, GuardFollows
<1>12. Append(hd, t) \in Seq(TripleType) /\ Once(Append(hd, t))
  BY <1>2, <1>3, <1>9, OnceGrows
<1>13. /\ guard' \in [House -> Seq(TripleType)] /\ heard' \in [House -> Seq(TripleType)]
       /\ guard'[h] = Lan!Remembered(g, t) /\ heard'[h] = Append(hd, t)
       /\ \A j \in House \ {h} : guard'[j] = guard[j] /\ heard'[j] = heard[j]
  BY <1>2, <1>7, <1>11, <1>12
<1>14. ASSUME NEW j \in House
       PROVE  /\ SpacedAt(heard'[j], lastFrom'[j], j) /\ GuardIsLast(guard'[j], heard'[j]) /\ Once(heard'[j])
  <2>1. CASE j = h
    BY <1>10, <1>11, <1>12, <1>13, <2>1
  <2>2. CASE j # h
    <3>1. heard'[j] = heard[j] /\ guard'[j] = guard[j] /\ lastFrom'[j] = lastFrom[j]
      BY <1>1, <1>13, <2>2
    <3> QED
      BY <3>1 DEF LanInv
  <2> QED
    BY <2>1, <2>2
<1>15. \A c \in House : \A j \in DOMAIN lastFrom'[c] : j \in House \ {c} /\ lastFrom'[c][j] \in 0..lanNow
  <2> SUFFICES ASSUME NEW c \in House, NEW j \in DOMAIN lastFrom'[c]
               PROVE  j \in House \ {c} /\ lastFrom'[c][j] \in 0..lanNow
    OBVIOUS
  <2>1. CASE c = h
    <3>1. j = k /\ lastFrom'[c][j] = lanNow
      BY <1>1, <2>1
    <3> QED
      BY <1>1, <2>1, <3>1 DEF k
  <2>2. CASE c # h
    BY <1>1, <2>2 DEF LanInv, LanType
  <2> QED
    BY <2>1, <2>2
<1>16. LanType'
  BY <1>0, <1>1, <1>13, <1>15 DEF LanType
<1>17. ASSUME NEW c \in House PROVE GapsAre(lan', heard'[c], c, lastFrom'[c], opened'[c])
  <2>1. CASE c = h
    <3>1. heard'[h] = Append(hd, t) /\ Append(hd, t)[Len(hd) + 1] = t /\ Len(hd) + 1 \in DOMAIN Append(hd, t)
      BY <1>2, <1>3, <1>13
    <3>2. \E i \in DOMAIN heard'[h] : heard'[h][i] = Lan!Triple(d)
      BY <3>1 DEF t, Lan!Triple
    <3>3. GapIs(lan', heard'[h], h, k, lanNow, d)
      BY <1>2, <3>2 DEF GapIs, k
    <3>4. ASSUME NEW j \in DOMAIN lastFrom'[h]
          PROVE  j = k /\ lastFrom'[h][j] = lanNow /\ opened'[h][j] = d
      BY <1>1, <3>4
    <3> QED
      BY <1>1, <2>1, <3>3, <3>4 DEF GapsAre
  <2>2. CASE c # h
    <3>1. lastFrom'[c] = lastFrom[c] /\ opened'[c] = opened[c] /\ heard'[c] = heard[c]
      BY <1>1, <1>13, <2>2
    <3>2. GapsAre(lan, heard[c], c, lastFrom[c], opened[c])
      BY DEF LanInv
    <3> QED
      BY <3>1, <3>2, GapsStay
  <2> QED
    BY <2>1, <2>2
<1> QED
  BY <1>14, <1>16, <1>17 DEF LanInv

LEMMA HearStep ==
  ASSUME LanInv, NEW h \in House, Lan!Hear(h)
  PROVE  LanInv'
<1>1. PICK d, from : d \in {e \in lan : e.to = h} \cup Lan!Noise(h) /\ Lan!OnDatagram(h, d, from)
  BY DEF Lan!Hear
<1> DEFINE known == Lan!Parses(h, d) /\ d.signed /\ Lan!AdmitKey(h, d.key)
           fresh == known /\ Lan!Admits(h, d)
<1>2. /\ IF known THEN Lan!Spend(h, d) ELSE UNCHANGED <<lastFrom, opened>>
      /\ guard' = IF fresh THEN [guard EXCEPT ![h] = Lan!Remembered(@, Lan!Triple(d))] ELSE guard
      /\ heard' = IF fresh THEN [heard EXCEPT ![h] = Append(@, Lan!Triple(d))] ELSE heard
      /\ IF fresh /\ Lan!SourceIsLocal(from) THEN Lan!HandOff(h, d, from) ELSE UNCHANGED <<cache, lan, made>>
      /\ UNCHANGED lanNow
  BY <1>1 DEF Lan!OnDatagram
<1>3. \A e \in Lan!Noise(h) : ~e.signed
  BY DEF Lan!Noise
<1>4. known => d \in lan /\ d.to = h /\ d.signed /\ d.key \in House \ {h}
  BY <1>1, <1>3 DEF Lan!Parses
<1>5. CASE ~known
  <2>1. UNCHANGED <<lanNow, lastFrom, guard, heard, lan, made, opened>>
    BY <1>2, <1>5
  <2> QED
    BY <2>1 DEF LanInv, LanType
<1>6. CASE known /\ ~fresh
  <2>1. Spends(h, d) /\ ~Lan!Admits(h, d) /\ UNCHANGED <<lanNow, guard, made, lan, heard>>
    BY <1>2, <1>6 DEF Spends
  <2> QED
    BY <1>4, <1>6, <2>1, SpendStep
<1>7. CASE fresh
  <2>1. Admitted(h, d)
    BY <1>2, <1>7 DEF Admitted, Spends
  <2>2. /\ \/ lan' = lan /\ made' = made
           \/ lan' = lan \cup {Lan!Encode(h, d.key, TRUE)} /\ made' = [made EXCEPT ![h] = @ + 1]
    BY <1>2, <1>7 DEF Lan!HandOff
  <2>3. LanType
    BY DEF LanInv
  <2>4. made' \in [House -> Nat]
    <3>1. made \in [House -> Nat] /\ made[h] + 1 \in Nat
      BY <2>3 DEF LanType
    <3>2. CASE made' = made
      BY <3>1, <3>2
    <3>3. CASE made' = [made EXCEPT ![h] = @ + 1]
      BY <3>1, <3>3
    <3> QED
      BY <2>2, <3>2, <3>3
  <2>5. /\ lan \subseteq lan'
        /\ \A e \in lan' : e.key \in House /\ e.sent \in Int /\ e.nonce \in Nat /\ e.sent - Skew[e.key] <= lanNow
    <3>1. \A e \in lan : e.key \in House /\ e.sent \in Int /\ e.nonce \in Nat /\ e.sent - Skew[e.key] <= lanNow
      BY <2>3 DEF LanType
    <3> DEFINE x == Lan!Encode(h, d.key, TRUE)
    <3>2. x.key \in House /\ x.sent \in Int /\ x.nonce \in Nat /\ x.sent - Skew[x.key] <= lanNow
      BY <2>3, EncodeFacts
    <3>3. lan' = lan \/ lan' = lan \cup {x}
      BY <2>2
    <3> HIDE DEF x
    <3> QED
      BY <3>1, <3>2, <3>3
  <2>6. d \in lan /\ d.to = h /\ d.signed /\ d.key \in House \ {h}
    BY <1>4, <1>7
  <2> QED
    BY <2>1, <2>4, <2>5, <2>6, AdmitStep
<1> QED
  BY <1>5, <1>6, <1>7

LEMMA LanStep == LanInv /\ [MCNext]_allVars => LanInv'
<1> SUFFICES ASSUME LanInv, [MCNext]_allVars PROVE LanInv'
  OBVIOUS
<1>1. CASE UNCHANGED lanVars
  BY <1>1 DEF lanVars, LanInv, LanType
<1>2. CASE Lan!Next
  <2>1. CASE Lan!Tick
    BY <2>1, LanTickStep
  <2>2. ASSUME NEW h \in House, Lan!Announce(h) PROVE LanInv'
    <3> DEFINE S == {Lan!Encode(h, g, FALSE) : g \in House}
    <3>1. /\ lan' = lan \cup S /\ made' = [made EXCEPT ![h] = @ + 1]
          /\ UNCHANGED <<lanNow, lastFrom, guard, heard, opened>>
      BY <2>2 DEF Lan!Announce
    <3>2. \A d \in S : \E g, r : d = Lan!Encode(h, g, r)
      OBVIOUS
    <3> HIDE DEF S
    <3> QED
      BY <3>1, <3>2, SendingStep
  <2>3. ASSUME NEW h \in House, Lan!Hear(h) PROVE LanInv'
    BY <2>3, HearStep
  <2>4. ASSUME NEW h \in House, Lan!Forget(h) PROVE LanInv'
    BY <2>4 DEF Lan!Forget, LanInv, LanType
  <2> QED
    BY <1>2, <2>1, <2>2, <2>3, <2>4 DEF Lan!Next
<1> QED
  BY <1>1, <1>2 DEF MCNext, allVars

LEMMA LanInvariance == MCSpec => []LanInv
<1>1. MCInit => LanInv
  BY LanInit DEF MCInit
<1> QED
  BY <1>1, LanStep, PTL DEF MCSpec, allVars

(* An announce is admitted once: what ReplayGuard has forgotten past its bound is outside the
   window by then, because admit_key let through no two of the friend's announces less than a gap
   apart.  This holds for any two clocks and however often the network repeats a datagram. *)
THEOREM AnnouncesAreHeardOnce == MCSpec => []HeardOnce
<1>1. LanInv => HeardOnce
  BY DEF LanInv, Once, HeardOnce, Lan!HeardOnce
<1> QED
  BY <1>1, LanInvariance, PTL

(* What last opened the gap that drops a friend's announces is an announce the friend signed and
   had made by then, because on_datagram spends a key's gap after the signature is checked: no
   frame that only names the key opens it, the first time or again.  That announce is one the
   house heard, unless it was out of the replay window, which is asked after the gap. *)
THEOREM GapsAreOwn == MCSpec => []SilencedOnlyByItself
<1>1. ASSUME LanInv PROVE SilencedOnlyByItself
  <2> SUFFICES ASSUME NEW h \in House
               PROVE  /\ DOMAIN opened[h] = DOMAIN lastFrom[h]
                      /\ \A k \in DOMAIN lastFrom[h] :
                            LET d == opened[h][k]
                                skew == lastFrom[h][k] + Skew[h] - d.sent
                            IN
                            /\ d \in lan /\ d.to = h /\ d.key = k /\ d.signed
                            /\ d.sent - Skew[k] <= lastFrom[h][k]
                            /\ \/ Lan!Contains(heard[h], Lan!Triple(d))
                               \/ skew > ANNOUNCE_REPLAY_WINDOW
                               \/ -skew > ANNOUNCE_REPLAY_WINDOW
    BY DEF SilencedOnlyByItself, Lan!SilencedOnlyByItself
  <2>1. GapsAre(lan, heard[h], h, lastFrom[h], opened[h]) /\ heard[h] \in Seq(TripleType)
    BY <1>1 DEF LanInv, LanType
  <2>2. ASSUME NEW t, \E i \in DOMAIN heard[h] : heard[h][i] = t PROVE Lan!Contains(heard[h], t)
    BY <2>1, <2>2 DEF Lan!Contains
  <2> QED
    BY <2>1, <2>2 DEF GapsAre, GapIs
<1> QED
  BY <1>1, LanInvariance, PTL

-----------------------------------------------------------------------------
(* Doctor.                                                                 *)

StepName == {"gateDial", "gateRegister", "reflectPrimary", "reflectSecondary", "introduce", "relayOpen",
             "peerHandshake", "candidateExchange", "startSignal", "probeBurst", "upgrade", "live",
             "pathLost", "relayFallback", "closed"}

Entry == [step : StepName, ok : BOOLEAN]

RecordForm(r) ==
  /\ r = [steps |-> r.steps, failed |-> r.failed, hint |-> r.hint, done |-> r.done, lines |-> r.lines]
  /\ r.steps \in Seq(Entry)

MainForm(m) ==
  /\ m = [pc |-> m.pc, reason |-> m.reason, snap |-> m.snap, cut |-> m.cut, unsent |-> m.unsent]
  /\ m.cut \in BOOLEAN /\ m.unsent \in BOOLEAN

BellForm(b) ==
  b = [pc |-> b.pc, phase |-> b.phase, up |-> b.up, giveUp |-> b.giveUp, dead |-> b.dead,
       attempts |-> b.attempts, snap |-> b.snap]

Full(r) == Len(r.steps) > MAX_RECORD_ENTRIES

NotLive(r) == ~Doc!Recorded(r, "live", TRUE)

AtMost(r, n) == Len(r.steps) \in 0..n

Grown(r, q) == Len(q.steps) \in 0..Len(r.steps) + 1

\* What a record that is still written to keeps: who closed it, its first failure, its entries.
Later(r, q) ==
  /\ q.done = r.done /\ q.lines = r.lines
  /\ r.failed # "none" => q.failed = r.failed
  /\ Full(r) => Full(q)
  /\ \A s, b : Doc!Recorded(r, s, b) => Doc!Recorded(q, s, b)

\* A step of the record: s is entered unless the record is full, and the first failure kept.
LEMMA SteppedFacts ==
  ASSUME NEW r, RecordForm(r), NEW s \in StepName, NEW b \in BOOLEAN
  PROVE  /\ RecordForm(Doc!Stepped(r, s, b)) /\ Later(r, Doc!Stepped(r, s, b))
         /\ Doc!Stepped(r, s, b).hint = r.hint
         /\ b = FALSE => Doc!Stepped(r, s, b).failed # "none"
         /\ Full(r) \/ Doc!Recorded(Doc!Stepped(r, s, b), s, b)
         /\ s # "live" /\ NotLive(r) => NotLive(Doc!Stepped(r, s, b))
         /\ Grown(r, Doc!Stepped(r, s, b))
<1> DEFINE q == Doc!Stepped(r, s, b)
           e == [step |-> s, ok |-> b]
           S == r.steps
           room == Len(S) <= MAX_RECORD_ENTRIES
           T == IF room THEN Append(S, e) ELSE S
           F == IF ~b /\ r.failed = "none" THEN s ELSE r.failed
<1>1. q = [steps |-> T, failed |-> F, hint |-> r.hint, done |-> r.done, lines |-> r.lines]
  <2>1. q = [r EXCEPT !.failed = F, !.steps = T]
    BY DEF Doc!Stepped, Doc!None
  <2>2. r = [steps |-> S, failed |-> r.failed, hint |-> r.hint, done |-> r.done, lines |-> r.lines]
    BY DEF RecordForm
  <2> HIDE DEF q, T, F, S
  <2> QED
    BY <2>1, <2>2
<1>2. q.steps = T /\ q.failed = F /\ q.hint = r.hint /\ q.done = r.done /\ q.lines = r.lines
  BY <1>1
<1>0. s # "none"
  BY DEF StepName
<1>3. S \in Seq(Entry) /\ e \in Entry /\ Len(S) \in Nat /\ MAX_RECORD_ENTRIES \in Nat
  BY HouseAssumption DEF RecordForm, Entry
<1>4. T \in Seq(Entry) /\ Len(T) <= Len(S) + 1 /\ (Len(S) > MAX_RECORD_ENTRIES => T = S)
  BY <1>3
<1>5. \A x \in Doc!Range(S) : x \in Doc!Range(T)
  <2>1. CASE room
    <3>1. DOMAIN T = 1..Len(S) + 1 /\ \A i \in 1..Len(S) : T[i] = S[i]
      BY <1>3, <2>1
    <3> QED
      BY <1>3, <3>1 DEF Doc!Range
  <2> QED
    BY <2>1
<1>6. Full(r) \/ e \in Doc!Range(T)
  <2>1. CASE room
    <3>1. DOMAIN T = 1..Len(S) + 1 /\ T[Len(S) + 1] = e
      BY <1>3, <2>1
    <3> QED
      BY <1>3, <3>1 DEF Doc!Range
  <2>2. CASE ~room
    BY <1>3, <2>2 DEF Full
  <2> QED
    BY <2>1, <2>2
<1>7. \A x \in Doc!Range(T) : x \in Doc!Range(S) \/ x = e
  <2>1. CASE room
    <3>1. DOMAIN T = 1..Len(S) + 1 /\ \A i \in 1..Len(S) + 1 : T[i] = IF i = Len(S) + 1 THEN e ELSE S[i]
      BY <1>3, <2>1
    <3>2. \A i \in 1..Len(S) + 1 : i = Len(S) + 1 \/ i \in DOMAIN S
      BY <1>3
    <3> QED
      BY <3>1, <3>2 DEF Doc!Range
  <2> QED
    BY <2>1
<1> HIDE DEF q, T, F
<1>8. RecordForm(q)
  BY <1>1, <1>2, <1>4 DEF RecordForm
<1>9. F = IF ~b /\ r.failed = "none" THEN s ELSE r.failed
  BY DEF F
<1>10. Full(r) => Full(q)
  BY <1>2, <1>4 DEF Full
<1>11. \A c, o : Doc!Recorded(r, c, o) => Doc!Recorded(q, c, o)
  BY <1>2, <1>5 DEF Doc!Recorded
<1>12. Later(r, q)
  BY <1>2, <1>9, <1>10, <1>11 DEF Later
<1>13. (b = FALSE => q.failed # "none") /\ (Full(r) \/ Doc!Recorded(q, s, b))
  BY <1>0, <1>2, <1>6, <1>9 DEF Doc!Recorded
<1>14. s # "live" /\ NotLive(r) => NotLive(q)
  <2>1. s # "live" => [step |-> "live", ok |-> TRUE] # e
    OBVIOUS
  <2> QED
    BY <1>2, <1>7, <2>1 DEF Doc!Recorded, NotLive
<1>15. Grown(r, q)
  BY <1>2, <1>3, <1>4 DEF Grown
<1> QED
  BY <1>2, <1>8, <1>12, <1>13, <1>14, <1>15 DEF q

LEMMA LaterTrans ==
  ASSUME NEW r, NEW q, NEW p, Later(r, q), Later(q, p)
  PROVE  Later(r, p)
BY DEF Later

LEMMA LaterRefl == ASSUME NEW r PROVE Later(r, r)
BY DEF Later

LEMMA ToFacts ==
  ASSUME MainForm(main), NEW p, Doc!To(p)
  PROVE  /\ MainForm(main') /\ main'.pc = p /\ main'.reason = main.reason /\ main'.snap = main.snap
         /\ main'.cut = main.cut /\ main'.unsent = main.unsent
<1>1. main' = [pc |-> p, reason |-> main.reason, snap |-> main.snap, cut |-> main.cut, unsent |-> main.unsent]
  BY DEF MainForm, Doc!To
<1> QED
  BY <1>1 DEF MainForm

LEMMA CloseFacts ==
  ASSUME MainForm(main), NEW p, NEW w, Doc!CloseWith(p, w)
  PROVE  /\ MainForm(main') /\ main'.pc = p /\ main'.reason = w /\ main'.snap = main.snap
         /\ main'.cut = main.cut /\ main'.unsent = main.unsent
<1>1. main' = [pc |-> p, reason |-> w, snap |-> main.snap, cut |-> main.cut, unsent |-> main.unsent]
  BY DEF MainForm, Doc!CloseWith
<1> QED
  BY <1>1 DEF MainForm

LEMMA Lengths0To3 ==
  ASSUME NEW r, NEW q, RecordForm(r), RecordForm(q), Grown(r, q)
  PROVE  (AtMost(r, 0) => AtMost(q, 1)) /\ (AtMost(r, 1) => AtMost(q, 2)) /\ (AtMost(r, 2) => AtMost(q, 3))
<1> DEFINE m == Len(r.steps)
           n == Len(q.steps)
<1>1. m \in Nat /\ n \in Nat /\ n <= m + 1
  BY DEF RecordForm, Grown
<1> HIDE DEF m, n
<1>2. (m \in 0..0 => n \in 0..1) /\ (m \in 0..1 => n \in 0..2) /\ (m \in 0..2 => n \in 0..3)
  BY <1>1
<1> QED
  BY <1>2 DEF AtMost, m, n

LEMMA HintFacts ==
  ASSUME NEW r, RecordForm(r), NEW h
  PROVE  LET q == [r EXCEPT !.hint = h]
         IN  RecordForm(q) /\ Later(r, q) /\ (NotLive(r) => NotLive(q)) /\ (Full(q) => Full(r))
<1> DEFINE q == [r EXCEPT !.hint = h]
<1>1. q = [steps |-> r.steps, failed |-> r.failed, hint |-> h, done |-> r.done, lines |-> r.lines]
  BY DEF RecordForm
<1> HIDE DEF q
<1>2. q.steps = r.steps /\ q.failed = r.failed /\ q.done = r.done /\ q.lines = r.lines /\ q.hint = h
  BY <1>1
<1>3. RecordForm(q) /\ Later(r, q) /\ (NotLive(r) => NotLive(q)) /\ (Full(q) => Full(r))
  BY <1>1, <1>2 DEF RecordForm, Later, Full, NotLive, Doc!Recorded
<1> QED
  BY <1>3 DEF q

EarlyPlaces == {"resolve", "dial", "register", "reflect", "introduce", "handshake"}

\* What the record shows of a run that never reached its visit, and of one that was cut short.
Refused(r) ==
  \/ r.failed # "none"
  \/ main.unsent = TRUE
  \/ ~args.friend /\ Doc!Recorded(r, "reflectSecondary", TRUE)

CutShown(r) == Full(r) \/ Doc!Recorded(r, "closed", FALSE)

\* On the way to the gate the record has the entries of that way only.
OnTheWay ==
  /\ main.pc \in {"resolve", "dial"} => rec.steps = <<>> /\ rec.hint = "none"
  /\ main.pc = "register" => AtMost(rec, 1)
  /\ main.pc = "reflect" => AtMost(rec, 3)

\* Before the doorbell runs only the run itself closes the record, and says why it gave up.
WithoutBell ==
  bell.pc = "off" =>
    /\ main.pc \notin {"visit", "cut", "drain"}
    /\ NotLive(rec)
    /\ main.pc # "exit" => rec.done = Doc!NoRecord
    /\ main.pc \in {"goodbye", "finish"} => Refused(rec)
    /\ main.pc \in {"lock", "exit"} => Refused(main.snap) /\ NotLive(main.snap)

\* A visit cut short is one that was held, and the record says so before it is closed.
CutIsShown ==
  /\ main.pc = "cut" => args.held
  /\ main.cut = TRUE =>
       /\ args.held /\ main.reason = "internal"
       /\ main.pc \in {"goodbye", "finish", "lock", "exit"}
       /\ main.pc \in {"goodbye", "finish"} => CutShown(rec)
       /\ main.pc = "lock" => CutShown(main.snap)
       /\ main.pc = "exit" /\ main.snap.by = "run" => CutShown(main.snap)

\* Who closed the record, and that the run has taken it over at its exit.
ClosedOnce ==
  /\ rec.lines = IF rec.done = Doc!NoRecord THEN 0 ELSE 1
  /\ main.pc = "lock" => main.snap.by = "run" /\ main.snap.reason = main.reason
  /\ bell.pc = "settle" => bell.snap.by = "bell"
  /\ main.pc # "exit" => rec.done = Doc!NoRecord \/ rec.done.by = "bell"
  /\ main.pc = "exit" =>
       /\ rec.done # Doc!NoRecord /\ main.snap = rec.done
       /\ rec.done.by = "bell" \/ (rec.done.by = "run" /\ rec.done.reason = main.reason)

DocInv ==
  /\ RecordForm(rec) /\ MainForm(main) /\ BellForm(bell)
  /\ main.pc \in EarlyPlaces => bell.pc = "off"
  /\ OnTheWay /\ WithoutBell /\ CutIsShown /\ ClosedOnce

LEMMA DocInit == Doc!Init => DocInv
<1> SUFFICES ASSUME Doc!Init PROVE DocInv
  OBVIOUS
<1>1. /\ rec = [steps |-> <<>>, failed |-> "none", hint |-> "none", done |-> Doc!NoRecord, lines |-> 0]
      /\ main = [pc |-> "resolve", reason |-> "none", snap |-> Doc!NoRecord, cut |-> FALSE, unsent |-> FALSE]
      /\ bell = [pc |-> "off", phase |-> "probing", up |-> FALSE, giveUp |-> "none", dead |-> FALSE,
                 attempts |-> 0, snap |-> Doc!NoRecord]
  BY DEF Doc!Init, Doc!None
<1>2. RecordForm(rec) /\ MainForm(main) /\ BellForm(bell)
  BY <1>1 DEF RecordForm, MainForm, BellForm
<1>3. rec.steps = <<>> /\ rec.hint = "none" /\ rec.done = Doc!NoRecord /\ rec.lines = 0
      /\ main.pc = "resolve" /\ main.cut = FALSE /\ bell.pc = "off"
  BY <1>1
<1>4. NotLive(rec)
  BY <1>3 DEF NotLive, Doc!Recorded, Doc!Range
<1> QED
  BY <1>2, <1>3, <1>4 DEF DocInv, OnTheWay, WithoutBell, CutIsShown, ClosedOnce, EarlyPlaces

\* A step of the run before its visit: on the way, or its end with the reason on record.
LEMMA EarlyGoes ==
  ASSUME DocInv, main.pc \in EarlyPlaces, args' = args, bell' = bell,
         RecordForm(rec'), Later(rec, rec'), NotLive(rec'),
         MainForm(main'), main'.cut = main.cut,
         main'.pc \in EarlyPlaces \cup {"goodbye", "finish"}, OnTheWay',
         main'.pc \in {"goodbye", "finish"} => Refused(rec)'
  PROVE  DocInv'
<1>1. /\ main.cut = FALSE /\ main.pc # "exit" /\ bell.pc = "off"
      /\ rec.done = Doc!NoRecord /\ rec.lines = IF rec.done = Doc!NoRecord THEN 0 ELSE 1
      /\ bell.pc = "settle" => bell.snap.by = "bell"
      /\ BellForm(bell)
  BY DEF DocInv, CutIsShown, MainForm, EarlyPlaces, WithoutBell, ClosedOnce
<1>2. rec'.done = Doc!NoRecord /\ rec'.lines = rec.lines
  BY <1>1 DEF Later
<1>3. WithoutBell'
  BY <1>1, <1>2 DEF WithoutBell, EarlyPlaces
<1>4. CutIsShown'
  BY <1>1 DEF CutIsShown, EarlyPlaces
<1>5. ClosedOnce'
  BY <1>1, <1>2 DEF ClosedOnce, EarlyPlaces
<1> QED
  BY <1>1, <1>3, <1>4, <1>5 DEF DocInv

\* A step of the doorbell that leaves the record open.
LEMMA BellGoes ==
  ASSUME DocInv, main' = main, args' = args, main.pc # "exit", bell.pc # "off",
         RecordForm(rec'), Later(rec, rec'),
         BellForm(bell'), bell'.pc # "off", bell'.pc = "settle" => bell'.snap.by = "bell"
  PROVE  DocInv'
<1>1. rec'.done = rec.done /\ rec'.lines = rec.lines
  BY DEF Later
<1>2. CutShown(rec) => CutShown(rec')
  BY DEF CutShown, Later
<1>3. main.pc \notin EarlyPlaces
  BY DEF DocInv
<1>4. OnTheWay' /\ WithoutBell'
  BY <1>3 DEF OnTheWay, WithoutBell, EarlyPlaces
<1>5. CutIsShown'
  BY <1>2 DEF DocInv, CutIsShown
<1>6. ClosedOnce'
  BY <1>1 DEF DocInv, ClosedOnce
<1>7. MainForm(main') /\ (main'.pc \in EarlyPlaces => bell'.pc = "off")
  BY <1>3 DEF DocInv
<1> QED
  BY <1>4, <1>5, <1>6, <1>7 DEF DocInv

\* A step of the run that changes where it is and nothing of the record.
LEMMA LateGoes ==
  ASSUME DocInv, args' = args, bell' = bell, rec' = rec, MainForm(main'),
         main.pc \notin EarlyPlaces \cup {"lock", "exit"},
         main'.pc \in {"goodbye", "finish", "cut", "drain"},
         main.pc = "goodbye" => main'.reason = main.reason,
         main'.pc = "finish" => main.pc = "goodbye", main.pc = "goodbye" => main'.pc = "finish",
         main'.pc = "cut" => args.held,
         bell.pc = "off" => main'.pc = "finish", main.pc # "finish",
         main'.cut = main.cut, main'.unsent = main.unsent
  PROVE  DocInv'
<1>1. OnTheWay' /\ (main'.pc \notin EarlyPlaces)
  BY DEF OnTheWay, EarlyPlaces
<1>2. WithoutBell'
  BY DEF DocInv, WithoutBell, Refused
<1>3. CutIsShown'
  BY DEF DocInv, CutIsShown, CutShown
<1>4. ClosedOnce'
  BY DEF DocInv, ClosedOnce
<1> QED
  BY <1>1, <1>2, <1>3, <1>4 DEF DocInv

LEMMA ConnectErrorStep ==
  ASSUME DocInv, main.pc \in {"dial", "register"}, args' = args, bell' = bell,
         NEW r, RecordForm(r), Later(rec, r), NotLive(r),
         r.failed # "none" \/ r.hint = "none", Doc!ConnectError(r)
  PROVE  DocInv'
<1> DEFINE f == IF r.steps = <<>> THEN "gateDial"
                ELSE IF r.steps[Len(r.steps)].step = "gateDial" THEN "gateRegister" ELSE "closed"
           q == Doc!Stepped(r, f, FALSE)
<1>1. f \in StepName /\ f # "live"
  BY DEF StepName
<1>2. \E w : Doc!CloseWith("finish", w)
  BY DEF Doc!ConnectError
<1>3. rec' = q \/ (rec' = r /\ r.failed # "none")
  BY DEF Doc!ConnectError, Doc!None
<1> HIDE DEF f, q
<1>4. RecordForm(q) /\ Later(r, q) /\ q.failed # "none" /\ NotLive(q)
  BY <1>1, SteppedFacts DEF q
<1>5. /\ RecordForm(rec') /\ Later(rec, rec') /\ rec'.failed # "none" /\ NotLive(rec')
  BY <1>3, <1>4, LaterTrans
<1>6. MainForm(main') /\ main'.pc = "finish" /\ main'.cut = main.cut
  BY <1>2, CloseFacts DEF DocInv
<1>7. OnTheWay' /\ Refused(rec)'
  BY <1>5, <1>6 DEF OnTheWay, Refused
<1> QED
  BY <1>5, <1>6, <1>7, EarlyGoes DEF EarlyPlaces

LEMMA ToTheGateStep ==
  ASSUME DocInv, Doc!Resolve \/ Doc!Dial \/ Doc!Register \/ Doc!DialDeadline
  PROVE  DocInv'
<1>1. /\ RecordForm(rec) /\ MainForm(main) /\ args' = args /\ bell' = bell
      /\ main.pc \in {"resolve", "dial", "register"} /\ main.pc \in EarlyPlaces
      /\ NotLive(rec)
      /\ main.pc \in {"resolve", "dial"} => rec.steps = <<>> /\ rec.hint = "none"
      /\ main.pc = "register" => AtMost(rec, 1)
  <2>1. /\ RecordForm(rec) /\ MainForm(main) /\ args' = args /\ bell' = bell
        /\ main.pc \in {"resolve", "dial", "register"}
    BY DEF DocInv, Doc!Resolve, Doc!Dial, Doc!Register, Doc!DialDeadline
  <2> QED
    BY <2>1 DEF DocInv, EarlyPlaces, WithoutBell, OnTheWay
<1> DEFINE S(s, b) == Doc!Stepped(rec, s, b)
<1>2. ASSUME NEW w, rec' = S("gateDial", FALSE), Doc!CloseWith("finish", w) PROVE DocInv'
  <2>1. /\ RecordForm(rec') /\ Later(rec, rec') /\ rec'.failed # "none" /\ NotLive(rec')
    BY <1>1, <1>2, SteppedFacts DEF StepName
  <2>2. MainForm(main') /\ main'.pc = "finish" /\ main'.cut = main.cut
    BY <1>1, <1>2, CloseFacts
  <2>3. OnTheWay' /\ Refused(rec)'
    BY <2>1, <2>2 DEF OnTheWay, Refused
  <2> QED
    BY <1>1, <2>1, <2>2, <2>3, EarlyGoes
<1>3. CASE Doc!Resolve
  <2>1. main.pc = "resolve"
    BY <1>3 DEF Doc!Resolve
  <2>2. CASE Doc!To("dial") /\ UNCHANGED rec
    <3>1. MainForm(main') /\ main'.pc = "dial" /\ main'.cut = main.cut
      BY <1>1, <2>2, ToFacts
    <3>2. OnTheWay'
      BY <1>1, <2>1, <2>2, <3>1 DEF OnTheWay
    <3> QED
      BY <1>1, <2>2, <3>1, <3>2, EarlyGoes, LaterRefl DEF EarlyPlaces
  <2> QED
    BY <1>2, <1>3, <2>2 DEF Doc!Resolve
<1>4. CASE Doc!DialDeadline
  BY <1>2, <1>4 DEF Doc!DialDeadline
<1>5. CASE Doc!Dial
  <2>1. main.pc = "dial" /\ rec.hint = "none" /\ AtMost(rec, 0)
    BY <1>1, <1>5 DEF Doc!Dial, AtMost
  <2>2. CASE Doc!ConnectError(rec)
    BY <1>1, <2>1, <2>2, ConnectErrorStep, LaterRefl
  <2>3. CASE Doc!ConnectError(S("gateDial", FALSE))
    <3>1. LET q == S("gateDial", FALSE)
          IN RecordForm(q) /\ Later(rec, q) /\ q.failed # "none" /\ NotLive(q)
      BY <1>1, SteppedFacts DEF StepName
    <3> QED
      BY <1>1, <2>1, <2>3, <3>1, ConnectErrorStep
  <2> DEFINE q == S("gateDial", TRUE)
             p == Doc!Stepped(q, "gateDial", FALSE)
  <2>4. RecordForm(q) /\ Later(rec, q) /\ NotLive(q) /\ Grown(rec, q)
    BY <1>1, SteppedFacts DEF StepName
  <2> HIDE DEF q
  <2>5. CASE rec' = q /\ Doc!To("register")
    <3>1. MainForm(main') /\ main'.pc = "register" /\ main'.cut = main.cut
      BY <1>1, <2>5, ToFacts
    <3>2. OnTheWay'
      BY <1>1, <2>1, <2>4, <2>5, <3>1, Lengths0To3 DEF OnTheWay
    <3> QED
      BY <1>1, <2>4, <2>5, <3>1, <3>2, EarlyGoes DEF EarlyPlaces
  <2>6. CASE Doc!ConnectError(p)
    <3>1. RecordForm(p) /\ Later(q, p) /\ p.failed # "none" /\ NotLive(p)
      BY <2>4, SteppedFacts DEF StepName
    <3>2. Later(rec, p)
      BY <2>4, <3>1, LaterTrans
    <3> HIDE DEF p
    <3> QED
      BY <1>1, <2>1, <2>6, <3>1, <3>2, ConnectErrorStep
  <2> QED
    BY <1>5, <2>2, <2>3, <2>5, <2>6 DEF Doc!Dial, q
<1>6. CASE Doc!Register
  <2>1. main.pc = "register" /\ AtMost(rec, 1)
    BY <1>1, <1>6 DEF Doc!Register
  <2> DEFINE q == S("gateRegister", TRUE)
             p == Doc!Stepped(q, "reflectPrimary", TRUE)
  <2>2. CASE rec' = p /\ Doc!To("reflect")
    <3>1. /\ RecordForm(q) /\ Later(rec, q) /\ NotLive(q) /\ Grown(rec, q)
      BY <1>1, SteppedFacts DEF StepName
    <3> HIDE DEF q
    <3>2. /\ RecordForm(p) /\ Later(q, p) /\ NotLive(p) /\ Grown(q, p)
      BY <3>1, SteppedFacts DEF StepName
    <3>3. Later(rec, p)
      BY <3>1, <3>2, LaterTrans
    <3>4. MainForm(main') /\ main'.pc = "reflect" /\ main'.cut = main.cut
      BY <1>1, <2>2, ToFacts
    <3>5. OnTheWay'
      BY <1>1, <2>1, <2>2, <3>1, <3>2, <3>4, Lengths0To3 DEF OnTheWay
    <3> QED
      BY <1>1, <2>2, <3>2, <3>3, <3>4, <3>5, EarlyGoes DEF EarlyPlaces
  <2>3. ASSUME NEW h, Doc!ConnectError(Doc!Stepped([rec EXCEPT !.hint = h], "gateRegister", FALSE)) PROVE DocInv'
    <3> DEFINE r == [rec EXCEPT !.hint = h]
               u == Doc!Stepped(r, "gateRegister", FALSE)
    <3>1. RecordForm(r) /\ Later(rec, r) /\ NotLive(r)
      BY <1>1, HintFacts
    <3> HIDE DEF r
    <3>2. RecordForm(u) /\ Later(r, u) /\ u.failed # "none" /\ NotLive(u)
      BY <3>1, SteppedFacts DEF StepName
    <3>3. Later(rec, u)
      BY <3>1, <3>2, LaterTrans
    <3>4. Doc!ConnectError(u)
      BY <2>3 DEF r
    <3> HIDE DEF u
    <3> QED
      BY <1>1, <2>1, <3>2, <3>3, <3>4, ConnectErrorStep
  <2> QED
    BY <1>6, <2>2, <2>3 DEF Doc!Register
<1> QED
  BY <1>3, <1>4, <1>5, <1>6

LEMMA ReflectStep ==
  ASSUME DocInv, Doc!Reflect
  PROVE  DocInv'
<1>1. PICK b \in BOOLEAN, h \in {"none", "refused"} :
        /\ rec' = Doc!Stepped([rec EXCEPT !.hint = h], "reflectSecondary", b)
        /\ IF args.friend THEN Doc!To("introduce") ELSE Doc!CloseWith("goodbye", Doc!GateOnlyReason(b, h))
  BY DEF Doc!Reflect, Doc!None
<1>2. /\ main.pc = "reflect" /\ main.pc \in EarlyPlaces /\ args' = args /\ bell' = bell
      /\ RecordForm(rec) /\ MainForm(main) /\ NotLive(rec) /\ AtMost(rec, 3)
  <2>1. main.pc = "reflect" /\ args' = args /\ bell' = bell
    BY DEF Doc!Reflect
  <2> QED
    BY <2>1 DEF DocInv, OnTheWay, WithoutBell, EarlyPlaces
<1> DEFINE r == [rec EXCEPT !.hint = h]
<1>3. RecordForm(r) /\ Later(rec, r) /\ NotLive(r) /\ ~Full(r)
  <2>1. ~Full(rec)
    <3> DEFINE n == Len(rec.steps)
    <3>1. n \in 0..3 /\ MAX_RECORD_ENTRIES \in Nat /\ MAX_RECORD_ENTRIES >= 3
      BY <1>2, HouseAssumption DEF AtMost
    <3> HIDE DEF n
    <3>2. ~(n > MAX_RECORD_ENTRIES)
      BY <3>1
    <3> QED
      BY <3>2 DEF Full, n
  <2> QED
    BY <1>2, <2>1, HintFacts
<1> HIDE DEF r
<1>4. rec' = Doc!Stepped(r, "reflectSecondary", b)
  BY <1>1 DEF r
<1>5. /\ RecordForm(rec') /\ Later(r, rec') /\ NotLive(rec') /\ (b = FALSE => rec'.failed # "none")
      /\ Doc!Recorded(rec', "reflectSecondary", b)
  BY <1>3, <1>4, SteppedFacts DEF StepName
<1>6. Later(rec, rec')
  BY <1>3, <1>5, LaterTrans
<1>7. CASE args.friend
  <2>1. MainForm(main') /\ main'.pc = "introduce" /\ main'.cut = main.cut
    BY <1>1, <1>2, <1>7, ToFacts
  <2>2. OnTheWay'
    BY <2>1 DEF OnTheWay
  <2> QED
    BY <1>2, <1>5, <1>6, <2>1, <2>2, EarlyGoes DEF EarlyPlaces
<1>8. CASE ~args.friend
  <2>1. MainForm(main') /\ main'.pc = "goodbye" /\ main'.cut = main.cut
    BY <1>1, <1>2, <1>8, CloseFacts
  <2>2. OnTheWay'
    BY <2>1 DEF OnTheWay
  <2>3. CASE b = TRUE
    <3>1. Refused(rec)'
      BY <1>2, <1>5, <1>8, <2>3 DEF Refused
    <3> QED
      BY <1>2, <1>5, <1>6, <2>1, <2>2, <3>1, EarlyGoes
  <2>4. CASE b = FALSE
    <3>1. Refused(rec)'
      BY <1>5, <2>4 DEF Refused
    <3> QED
      BY <1>2, <1>5, <1>6, <2>1, <2>2, <3>1, EarlyGoes
  <2> QED
    BY <2>3, <2>4
<1> QED
  BY <1>7, <1>8

LEMMA IntroduceStep ==
  ASSUME DocInv, Doc!Introduce
  PROVE  DocInv'
<1>1. /\ main.pc = "introduce" /\ main.pc \in EarlyPlaces /\ args' = args /\ bell' = bell
      /\ RecordForm(rec) /\ MainForm(main) /\ NotLive(rec)
  <2>1. main.pc = "introduce" /\ args' = args /\ bell' = bell
    BY DEF Doc!Introduce
  <2> QED
    BY <2>1 DEF DocInv, WithoutBell, EarlyPlaces
<1> DEFINE q == Doc!Stepped(rec, "introduce", TRUE)
<1>2. CASE rec' = Doc!Stepped(q, "relayOpen", TRUE) /\ Doc!To("handshake")
  <2>1. RecordForm(q) /\ Later(rec, q) /\ NotLive(q)
    BY <1>1, SteppedFacts DEF StepName
  <2> HIDE DEF q
  <2>2. RecordForm(rec') /\ Later(q, rec') /\ NotLive(rec')
    BY <1>2, <2>1, SteppedFacts DEF StepName
  <2>3. Later(rec, rec')
    BY <2>1, <2>2, LaterTrans
  <2>4. MainForm(main') /\ main'.pc = "handshake" /\ main'.cut = main.cut
    BY <1>1, <1>2, ToFacts
  <2>5. OnTheWay'
    BY <2>4 DEF OnTheWay
  <2> QED
    BY <1>1, <2>2, <2>3, <2>4, <2>5, EarlyGoes DEF EarlyPlaces
<1>3. CASE rec' = Doc!Stepped(rec, "introduce", FALSE) /\ Doc!CloseWith("goodbye", "introduceTimeout")
  <2>1. RecordForm(rec') /\ Later(rec, rec') /\ NotLive(rec') /\ rec'.failed # "none"
    BY <1>1, <1>3, SteppedFacts DEF StepName
  <2>2. MainForm(main') /\ main'.pc = "goodbye" /\ main'.cut = main.cut
    BY <1>1, <1>3, CloseFacts
  <2>3. OnTheWay' /\ Refused(rec)'
    BY <2>1, <2>2 DEF OnTheWay, Refused
  <2> QED
    BY <1>1, <2>1, <2>2, <2>3, EarlyGoes
<1>4. CASE /\ main' = [main EXCEPT !.pc = "goodbye", !.reason = "introduceTimeout", !.unsent = TRUE]
           /\ rec' = rec
  <2>1. main' = [pc |-> "goodbye", reason |-> "introduceTimeout", snap |-> main.snap, cut |-> main.cut,
                 unsent |-> TRUE]
    BY <1>1, <1>4 DEF MainForm
  <2>2. MainForm(main') /\ main'.pc = "goodbye" /\ main'.cut = main.cut /\ main'.unsent = TRUE
    BY <1>1, <2>1 DEF MainForm
  <2>3. OnTheWay' /\ Refused(rec)'
    BY <2>2 DEF OnTheWay, Refused
  <2> QED
    BY <1>1, <1>4, <2>2, <2>3, EarlyGoes, LaterRefl
<1> QED
  BY <1>2, <1>3, <1>4 DEF Doc!Introduce

\* With the peer's connection the doorbell is started.
LEMMA DialPeerStep ==
  ASSUME DocInv, Doc!DialPeer
  PROVE  DocInv'
<1>1. /\ main.pc = "handshake" /\ main.pc \in EarlyPlaces /\ args' = args
      /\ RecordForm(rec) /\ MainForm(main) /\ BellForm(bell) /\ NotLive(rec)
  <2>1. main.pc = "handshake" /\ args' = args
    BY DEF Doc!DialPeer
  <2> QED
    BY <2>1 DEF DocInv, WithoutBell, EarlyPlaces
<1>2. CASE rec' = Doc!Stepped(rec, "peerHandshake", TRUE) /\ Doc!To("visit") /\ bell' = [bell EXCEPT !.pc = "open"]
  <2>1. RecordForm(rec') /\ Later(rec, rec')
    BY <1>1, <1>2, SteppedFacts DEF StepName
  <2>2. MainForm(main') /\ main'.pc = "visit" /\ main'.cut = main.cut
    BY <1>1, <1>2, ToFacts
  <2>3. BellForm(bell') /\ bell'.pc = "open"
    BY <1>1, <1>2 DEF BellForm
  <2>4. rec'.done = rec.done /\ rec'.lines = rec.lines
    BY <2>1 DEF Later
  <2>5. OnTheWay' /\ WithoutBell' /\ main'.pc \notin EarlyPlaces
    BY <2>2, <2>3 DEF OnTheWay, WithoutBell, EarlyPlaces
  <2>6. CutIsShown'
    BY <1>1, <2>2 DEF DocInv, CutIsShown
  <2>7. ClosedOnce'
    BY <1>1, <2>2, <2>3, <2>4 DEF DocInv, ClosedOnce
  <2> QED
    BY <2>1, <2>2, <2>3, <2>5, <2>6, <2>7 DEF DocInv
<1>3. CASE /\ rec' = Doc!Stepped(rec, "peerHandshake", FALSE) /\ Doc!CloseWith("goodbye", "peerHandshakeFailed")
           /\ bell' = bell
  <2>1. RecordForm(rec') /\ Later(rec, rec') /\ NotLive(rec') /\ rec'.failed # "none"
    BY <1>1, <1>3, SteppedFacts DEF StepName
  <2>2. MainForm(main') /\ main'.pc = "goodbye" /\ main'.cut = main.cut
    BY <1>1, <1>3, CloseFacts
  <2>3. OnTheWay' /\ Refused(rec)'
    BY <2>1, <2>2 DEF OnTheWay, Refused
  <2> QED
    BY <1>1, <1>3, <2>1, <2>2, <2>3, EarlyGoes
<1> QED
  BY <1>2, <1>3 DEF Doc!DialPeer

\* From the visit to the goodbye.
LEMMA VisitEndsStep ==
  ASSUME DocInv, Doc!Settled \/ Doc!Overran \/ Doc!Upgraded \/ Doc!Drain \/ Doc!Goodbye
  PROVE  DocInv'
<1>1. /\ MainForm(main) /\ args' = args /\ bell' = bell /\ rec' = rec
      /\ main.pc \in {"visit", "drain", "goodbye"} /\ main.pc \notin EarlyPlaces \cup {"lock", "exit"}
      /\ main.pc # "finish" /\ (bell.pc = "off" => main.pc = "goodbye")
  <2>1. MainForm(main) /\ args' = args /\ bell' = bell /\ rec' = rec /\ main.pc \in {"visit", "drain", "goodbye"}
    BY DEF DocInv, Doc!Settled, Doc!Overran, Doc!Upgraded, Doc!Drain, Doc!Goodbye
  <2> QED
    BY <2>1 DEF DocInv, WithoutBell, EarlyPlaces
<1>2. CASE Doc!Goodbye
  <2>1. main.pc = "goodbye" /\ Doc!To("finish")
    BY <1>2 DEF Doc!Goodbye
  <2> QED
    BY <1>1, <2>1, ToFacts, LateGoes
<1>3. CASE Doc!Drain
  <2>1. main.pc = "drain" /\ Doc!To("goodbye")
    BY <1>3 DEF Doc!Drain
  <2> QED
    BY <1>1, <2>1, ToFacts, LateGoes
<1>4. CASE Doc!Overran
  <2>1. main.pc = "visit" /\ args.held /\ Doc!To("cut")
    BY <1>4 DEF Doc!Overran
  <2> QED
    BY <1>1, <2>1, ToFacts, LateGoes
<1>5. CASE Doc!Settled \/ Doc!Upgraded
  <2>1. PICK p \in {"goodbye", "drain"}, w \in {"ok", "probeFailed"} : Doc!CloseWith(p, w)
    BY <1>5 DEF Doc!Settled, Doc!Upgraded
  <2>2. main.pc = "visit"
    BY <1>5 DEF Doc!Settled, Doc!Upgraded
  <2>3. /\ MainForm(main') /\ main'.pc = p /\ main'.cut = main.cut /\ main'.unsent = main.unsent
    BY <1>1, <2>1, CloseFacts
  <2> QED
    BY <1>1, <2>2, <2>3, LateGoes
<1> QED
  BY <1>2, <1>3, <1>4, <1>5

\* The run gives up on a visit it held: it says so on the record first.
LEMMA CutShortStep ==
  ASSUME DocInv, Doc!CutShort
  PROVE  DocInv'
<1>1. /\ main.pc = "cut" /\ args' = args /\ bell' = bell /\ rec' = Doc!Stepped(rec, "closed", FALSE)
      /\ main' = [main EXCEPT !.pc = "goodbye", !.reason = "internal", !.cut = TRUE]
  BY DEF Doc!CutShort
<1>2. RecordForm(rec) /\ MainForm(main) /\ BellForm(bell) /\ args.held /\ bell.pc # "off"
  BY <1>1 DEF DocInv, CutIsShown, WithoutBell
<1>3. RecordForm(rec') /\ Later(rec, rec') /\ (Full(rec) \/ Doc!Recorded(rec', "closed", FALSE))
  BY <1>1, <1>2, SteppedFacts DEF StepName
<1>4. CutShown(rec') /\ rec'.done = rec.done /\ rec'.lines = rec.lines
  BY <1>3 DEF CutShown, Later
<1>5. main' = [pc |-> "goodbye", reason |-> "internal", snap |-> main.snap, cut |-> TRUE, unsent |-> main.unsent]
  BY <1>1, <1>2 DEF MainForm
<1>6. MainForm(main') /\ main'.pc = "goodbye" /\ main'.reason = "internal"
  BY <1>2, <1>5 DEF MainForm
<1>7. OnTheWay' /\ WithoutBell' /\ main'.pc \notin EarlyPlaces
  BY <1>1, <1>2, <1>6 DEF OnTheWay, WithoutBell, EarlyPlaces
<1>8. CutIsShown'
  BY <1>1, <1>2, <1>4, <1>6 DEF CutIsShown
<1>9. ClosedOnce'
  BY <1>1, <1>4, <1>6 DEF DocInv, ClosedOnce
<1> QED
  BY <1>1, <1>2, <1>3, <1>6, <1>7, <1>8, <1>9 DEF DocInv

\* Recorder::finish, its snapshot.
LEMMA FinishStep ==
  ASSUME DocInv, Doc!Finish
  PROVE  DocInv'
<1> DEFINE n == Doc!Snapshot(rec, main.reason, "run")
<1>1. /\ main.pc = "finish" /\ args' = args /\ bell' = bell /\ rec' = rec
      /\ main' = [main EXCEPT !.pc = "lock", !.snap = n]
  BY DEF Doc!Finish
<1>2. /\ n.by = "run" /\ n.reason = main.reason /\ n.steps = rec.steps /\ n.failed = rec.failed
  BY DEF Doc!Snapshot
<1> HIDE DEF n
<1>3. main' = [pc |-> "lock", reason |-> main.reason, snap |-> n, cut |-> main.cut, unsent |-> main.unsent]
  BY <1>1 DEF DocInv, MainForm
<1>4. /\ MainForm(main') /\ main'.pc = "lock" /\ main'.reason = main.reason /\ main'.snap = n
      /\ main'.cut = main.cut /\ main'.unsent = main.unsent
  BY <1>3 DEF DocInv, MainForm
<1>5. OnTheWay' /\ main'.pc \notin EarlyPlaces
  BY <1>4 DEF OnTheWay, EarlyPlaces
<1>6. WithoutBell'
  <2>1. NotLive(rec) => NotLive(n)
    BY <1>2 DEF NotLive, Doc!Recorded
  <2>2. main'.snap.failed = rec.failed /\ main'.snap.steps = rec.steps
    BY <1>2, <1>4
  <2>3. Refused(rec) => Refused(main.snap)'
    BY <1>1, <1>4, <2>2 DEF Refused, Doc!Recorded
  <2> QED
    BY <1>1, <1>4, <2>1, <2>3 DEF DocInv, WithoutBell
<1>7. CutIsShown'
  <2>1. CutShown(rec) => CutShown(n)
    BY <1>2 DEF CutShown, Full, Doc!Recorded
  <2> QED
    BY <1>1, <1>4, <2>1 DEF DocInv, CutIsShown
<1>8. ClosedOnce'
  BY <1>1, <1>2, <1>4 DEF DocInv, ClosedOnce
<1> QED
  BY <1>1, <1>4, <1>5, <1>6, <1>7, <1>8 DEF DocInv

LEMMA FinishedFacts ==
  ASSUME NEW r, RecordForm(r), NEW n, r.lines = IF r.done = Doc!NoRecord THEN 0 ELSE 1
  PROVE  LET q == Doc!Finished(r, n) IN
         /\ RecordForm(q) /\ q.steps = r.steps /\ q.hint = r.hint /\ q.failed = r.failed
         /\ q.done = IF r.done # Doc!NoRecord THEN r.done ELSE n
         /\ q.lines = 1
<1>1. CASE r.done # Doc!NoRecord
  <2>1. Doc!Finished(r, n) = r
    BY <1>1 DEF Doc!Finished
  <2> QED
    BY <1>1, <2>1
<1>2. CASE r.done = Doc!NoRecord
  <2> DEFINE q == Doc!Finished(r, n)
  <2>1. q = [r EXCEPT !.done = n, !.lines = @ + 1]
    BY <1>2 DEF Doc!Finished
  <2>2. r.lines = 0
    BY <1>2
  <2> HIDE DEF q
  <2>3. q = [steps |-> r.steps, failed |-> r.failed, hint |-> r.hint, done |-> n, lines |-> 0 + 1]
    BY <2>1, <2>2 DEF RecordForm
  <2>4. RecordForm(q) /\ q.steps = r.steps /\ q.hint = r.hint /\ q.failed = r.failed /\ q.done = n /\ q.lines = 1
    BY <2>3 DEF RecordForm
  <2> QED
    BY <1>2, <2>4 DEF q
<1> QED
  BY <1>1, <1>2

\* Recorder::finish under the lock: the run exits by the record that was stored.
LEMMA LockStep ==
  ASSUME DocInv, Doc!Lock
  PROVE  DocInv'
<1> DEFINE n == IF rec.done # Doc!NoRecord THEN rec.done ELSE main.snap
<1>1. /\ main.pc = "lock" /\ args' = args /\ bell' = bell /\ rec' = Doc!Finished(rec, main.snap)
      /\ main' = [main EXCEPT !.pc = "exit", !.snap = n]
  BY DEF Doc!Lock
<1>2. /\ RecordForm(rec) /\ rec.lines = IF rec.done = Doc!NoRecord THEN 0 ELSE 1
      /\ main.snap.by = "run" /\ main.snap.reason = main.reason
      /\ rec.done # Doc!NoRecord => rec.done.by = "bell"
      /\ bell.pc = "off" => rec.done = Doc!NoRecord
  BY <1>1 DEF DocInv, ClosedOnce, WithoutBell
<1>3. /\ RecordForm(rec') /\ rec'.steps = rec.steps /\ rec'.done = n /\ rec'.lines = 1
  BY <1>1, <1>2, FinishedFacts
<1>4. Doc!NoRecord.by = "none"
  BY DEF Doc!NoRecord, Doc!None
<1>5. n # Doc!NoRecord /\ (n.by = "bell" \/ n = main.snap) /\ (bell.pc = "off" => n = main.snap)
      /\ (n.by = "run" => n = main.snap)
  BY <1>2, <1>4
<1> HIDE DEF n
<1>6. main' = [pc |-> "exit", reason |-> main.reason, snap |-> n, cut |-> main.cut, unsent |-> main.unsent]
  BY <1>1 DEF DocInv, MainForm
<1>7. /\ MainForm(main') /\ main'.pc = "exit" /\ main'.reason = main.reason /\ main'.snap = n
      /\ main'.cut = main.cut /\ main'.unsent = main.unsent
  BY <1>6 DEF DocInv, MainForm
<1>8. OnTheWay' /\ main'.pc \notin EarlyPlaces
  BY <1>7 DEF OnTheWay, EarlyPlaces
<1>9. WithoutBell'
  <2> SUFFICES ASSUME bell.pc = "off" PROVE WithoutBell'
    BY <1>1 DEF WithoutBell
  <2>1. n = main.snap /\ Refused(main.snap) /\ NotLive(main.snap) /\ NotLive(rec)
    BY <1>1, <1>5 DEF DocInv, WithoutBell
  <2>2. NotLive(rec')
    BY <1>3, <2>1 DEF NotLive, Doc!Recorded
  <2>3. Refused(main.snap)'
    BY <1>1, <1>7, <2>1 DEF Refused
  <2> QED
    BY <1>7, <2>1, <2>2, <2>3 DEF WithoutBell
<1>10. CutIsShown'
  BY <1>1, <1>5, <1>7 DEF DocInv, CutIsShown
<1>11. ClosedOnce'
  BY <1>1, <1>2, <1>3, <1>5, <1>7 DEF DocInv, ClosedOnce
<1> QED
  BY <1>1, <1>3, <1>7, <1>8, <1>9, <1>10, <1>11 DEF DocInv

\* The doorbell closes the record, if nobody has.
LEMMA BellSettlesStep ==
  ASSUME DocInv, main.pc # "exit", Doc!BellSettles
  PROVE  DocInv'
<1>1. /\ bell.pc = "settle" /\ main' = main /\ args' = args /\ rec' = Doc!Finished(rec, bell.snap)
      /\ bell' = [bell EXCEPT !.pc = "done"]
  BY DEF Doc!BellSettles, Doc!BellOnly
<1>2. /\ RecordForm(rec) /\ BellForm(bell) /\ rec.lines = IF rec.done = Doc!NoRecord THEN 0 ELSE 1
      /\ bell.snap.by = "bell" /\ (rec.done = Doc!NoRecord \/ rec.done.by = "bell")
      /\ main.pc \notin EarlyPlaces
  BY <1>1 DEF DocInv, ClosedOnce
<1>3. /\ RecordForm(rec') /\ rec'.steps = rec.steps /\ rec'.lines = 1
      /\ rec'.done = IF rec.done # Doc!NoRecord THEN rec.done ELSE bell.snap
  BY <1>1, <1>2, FinishedFacts
<1>4. Doc!NoRecord.by = "none"
  BY DEF Doc!NoRecord, Doc!None
<1>5. rec'.done.by = "bell" /\ rec'.done # Doc!NoRecord
  BY <1>2, <1>3, <1>4
<1>6. BellForm(bell') /\ bell'.pc = "done"
  BY <1>1, <1>2 DEF BellForm
<1>7. OnTheWay' /\ WithoutBell'
  BY <1>1, <1>2, <1>6 DEF OnTheWay, WithoutBell, EarlyPlaces
<1>8. CutIsShown'
  <2>1. CutShown(rec) => CutShown(rec')
    BY <1>3 DEF CutShown, Full, Doc!Recorded
  <2> QED
    BY <1>1, <2>1 DEF DocInv, CutIsShown
<1>9. ClosedOnce'
  BY <1>1, <1>3, <1>5, <1>6 DEF DocInv, ClosedOnce
<1> QED
  BY <1>1, <1>2, <1>3, <1>6, <1>7, <1>8, <1>9 DEF DocInv

\* What the record may have become while the doorbell writes to it.
Written(r) == RecordForm(r) /\ Later(rec, r)

LEMMA WritesOn ==
  ASSUME NEW r, Written(r), NEW s \in StepName, NEW b \in BOOLEAN
  PROVE  Written(Doc!Stepped(r, s, b))
BY SteppedFacts, LaterTrans DEF Written

LEMMA BellEndsStep ==
  ASSUME DocInv, main.pc # "exit", bell.pc # "off", Doc!BellOnly, NEW r, Written(r), NEW w, Doc!BellEnds(r, w)
  PROVE  DocInv'
<1> DEFINE n == Doc!Snapshot(r, w, "bell")
           f == IF w = "pathIdleTimeout" THEN "relayed" ELSE bell.phase
<1>1. rec' = r /\ bell' = [bell EXCEPT !.pc = "settle", !.snap = n, !.phase = f]
  BY DEF Doc!BellEnds
<1>2. n.by = "bell"
  BY DEF Doc!Snapshot
<1> HIDE DEF n, f
<1>3. bell' = [pc |-> "settle", phase |-> f, up |-> bell.up, giveUp |-> bell.giveUp, dead |-> bell.dead,
               attempts |-> bell.attempts, snap |-> n]
  BY <1>1 DEF DocInv, BellForm
<1>4. BellForm(bell') /\ bell'.pc # "off" /\ bell'.snap.by = "bell"
  BY <1>2, <1>3 DEF BellForm
<1> QED
  BY <1>1, <1>4, BellGoes DEF Written, Doc!BellOnly

LEMMA BellMovesStep ==
  ASSUME DocInv, main.pc # "exit", bell.pc # "off", Doc!BellOnly, Written(rec'),
         BellForm(bell'), bell'.pc \notin {"off", "settle"}
  PROVE  DocInv'
BY BellGoes DEF Written, Doc!BellOnly

LEMMA BellStep ==
  ASSUME DocInv, main.pc # "exit", Doc!Bell
  PROVE  DocInv'
<1> USE DEF StepName
<1>1. RecordForm(rec) /\ BellForm(bell) /\ Written(rec)
  BY LaterRefl DEF DocInv, Written
<1>2. CASE Doc!BellSettles
  BY <1>2, BellSettlesStep
<1>3. CASE Doc!BellOpens
  <2> DEFINE r == IF args.held THEN Doc!Stepped(rec, "live", TRUE) ELSE rec
             q == Doc!Stepped(r, "candidateExchange", FALSE)
  <2>1. Written(r)
    BY <1>1, WritesOn
  <2>2. bell.pc = "open" /\ Doc!BellOnly
    BY <1>3 DEF Doc!BellOpens
  <2> HIDE DEF r
  <2>3. Written(q)
    BY <2>1, WritesOn
  <2>4. CASE rec' = r /\ bell' = [bell EXCEPT !.pc = "exchange", !.attempts = 1]
    <3>1. BellForm(bell') /\ bell'.pc = "exchange"
      BY <1>1, <2>4 DEF BellForm
    <3> QED
      BY <2>1, <2>2, <2>4, <3>1, BellMovesStep
  <2>5. CASE Doc!BellEnds(q, "peerHandshakeFailed")
    BY <2>2, <2>3, <2>5, BellEndsStep
  <2> QED
    BY <1>3, <2>4, <2>5 DEF Doc!BellOpens, r
<1>4. CASE Doc!BellExchanges
  <2> DEFINE r == Doc!Stepped(rec, "candidateExchange", TRUE)
             q == Doc!Stepped(rec, "candidateExchange", FALSE)
             u == Doc!Stepped(r, "probeBurst", TRUE)
             v == Doc!Stepped(r, "probeBurst", FALSE)
  <2>1. bell.pc = "exchange" /\ Doc!BellOnly
    BY <1>4 DEF Doc!BellExchanges
  <2>2. Written(r) /\ Written(q)
    BY <1>1, WritesOn
  <2> HIDE DEF r
  <2>3. Written(u) /\ Written(v)
    BY <2>2, WritesOn
  <2>4. CASE Doc!BellEnds(q, "peerHandshakeFailed")
    BY <2>1, <2>2, <2>4, BellEndsStep
  <2>5. CASE rec' = u /\ bell' = [bell EXCEPT !.pc = "loop", !.phase = "relayed", !.giveUp = "punchDisabled"]
    <3>1. BellForm(bell') /\ bell'.pc = "loop"
      BY <1>1, <2>5 DEF BellForm
    <3> QED
      BY <2>1, <2>3, <2>5, <3>1, BellMovesStep
  <2>6. CASE rec' \in {r, v} /\ bell' = [bell EXCEPT !.pc = "start", !.phase = "probing"]
    <3>1. BellForm(bell') /\ bell'.pc = "start"
      BY <1>1, <2>6 DEF BellForm
    <3> QED
      BY <2>1, <2>2, <2>3, <2>6, <3>1, BellMovesStep
  <2> QED
    BY <1>4, <2>4, <2>5, <2>6 DEF Doc!BellExchanges, r
<1>5. CASE Doc!BellStarts
  <2> DEFINE r == Doc!Stepped(rec, "startSignal", FALSE)
             q == Doc!Stepped(rec, "startSignal", TRUE)
  <2>1. bell.pc = "start" /\ Doc!BellOnly
    BY <1>5 DEF Doc!BellStarts
  <2>2. Written(r) /\ Written(q)
    BY <1>1, WritesOn
  <2>3. CASE rec' = q /\ bell' = [bell EXCEPT !.pc = "loop"]
    <3>1. BellForm(bell') /\ bell'.pc = "loop"
      BY <1>1, <2>3 DEF BellForm
    <3> QED
      BY <2>1, <2>2, <2>3, <3>1, BellMovesStep
  <2>4. CASE rec' = r /\ bell' = [bell EXCEPT !.pc = "loop", !.phase = "relayed", !.giveUp = "internal"]
    <3>1. BellForm(bell') /\ bell'.pc = "loop"
      BY <1>1, <2>4 DEF BellForm
    <3> QED
      BY <2>1, <2>2, <2>4, <3>1, BellMovesStep
  <2>5. CASE Doc!BellEnds(r, "internal")
    BY <2>1, <2>2, <2>5, BellEndsStep
  <2> QED
    BY <1>5, <2>3, <2>4, <2>5 DEF Doc!BellStarts
<1>6. CASE Doc!BellGivesUp
  <2> DEFINE r == Doc!Stepped(rec, "probeBurst", FALSE)
  <2>1. bell.pc = "loop" /\ Doc!BellOnly
    BY <1>6 DEF Doc!BellGivesUp
  <2>2. Written(r)
    BY <1>1, WritesOn
  <2>3. CASE rec' = r /\ bell' = [bell EXCEPT !.phase = "relayed", !.giveUp = "probeFailed"]
    <3>1. BellForm(bell') /\ bell'.pc = bell.pc
      BY <1>1, <2>3 DEF BellForm
    <3> QED
      BY <2>1, <2>2, <2>3, <3>1, BellMovesStep
  <2>4. CASE Doc!BellEnds(r, "probeFailed")
    BY <2>1, <2>2, <2>4, BellEndsStep
  <2> QED
    BY <1>6, <2>3, <2>4 DEF Doc!BellGivesUp
<1>7. CASE Doc!BellUpgrades
  <2> DEFINE r == Doc!Stepped(rec, "probeBurst", TRUE)
             q == Doc!Stepped(r, "upgrade", TRUE)
             u == Doc!Stepped(q, "live", TRUE)
             at == IF peerUp THEN bell.pc ELSE "done"
  <2>1. /\ bell.pc = "loop" /\ Doc!BellOnly /\ rec' = u
        /\ bell' = [bell EXCEPT !.phase = "direct", !.up = TRUE, !.pc = at]
    BY <1>7 DEF Doc!BellUpgrades
  <2>2. Written(r)
    BY <1>1, WritesOn
  <2> HIDE DEF r
  <2>3. Written(q)
    BY <2>2, WritesOn
  <2> HIDE DEF q
  <2>4. Written(u)
    BY <2>3, WritesOn
  <2>5. at \in {"loop", "done"}
    BY <2>1
  <2> HIDE DEF u, at
  <2>6. BellForm(bell') /\ bell'.pc = at
    <3>1. bell' = [pc |-> at, phase |-> "direct", up |-> TRUE, giveUp |-> bell.giveUp, dead |-> bell.dead,
                   attempts |-> bell.attempts, snap |-> bell.snap]
      BY <1>1, <2>1 DEF BellForm
    <3> QED
      BY <3>1 DEF BellForm
  <2> QED
    BY <2>1, <2>4, <2>5, <2>6, BellMovesStep
<1>8. CASE Doc!BellGoesStale
  <2> DEFINE q == Doc!Stepped(rec, "pathLost", FALSE)
             r == Doc!Stepped(q, "relayFallback", TRUE)
  <2>1. bell.pc = "loop" /\ Doc!BellOnly
    BY <1>8 DEF Doc!BellGoesStale
  <2>2. Written(q)
    BY <1>1, WritesOn
  <2> HIDE DEF q
  <2>3. Written(r)
    BY <2>2, WritesOn
  <2>4. CASE rec' = r /\ bell' = [bell EXCEPT !.phase = "stale"]
    <3>1. BellForm(bell') /\ bell'.pc = bell.pc
      BY <1>1, <2>4 DEF BellForm
    <3> QED
      BY <2>1, <2>3, <2>4, <3>1, BellMovesStep
  <2>5. CASE Doc!BellEnds(r, "pathIdleTimeout")
    BY <2>1, <2>3, <2>5, BellEndsStep
  <2> QED
    BY <1>8, <2>4, <2>5 DEF Doc!BellGoesStale, q
<1>9. bell' = Doc!Rerun => BellForm(bell') /\ bell'.pc = "exchange"
  <2> SUFFICES ASSUME bell' = Doc!Rerun PROVE BellForm(bell') /\ bell'.pc = "exchange"
    OBVIOUS
  <2>1. bell' = [pc |-> "exchange", phase |-> "relayed", up |-> bell.up, giveUp |-> "none", dead |-> bell.dead,
                 attempts |-> bell.attempts + 1, snap |-> bell.snap]
    BY <1>1 DEF Doc!Rerun, BellForm, Doc!None
  <2> QED
    BY <2>1 DEF BellForm
<1>10. CASE Doc!BellGoesDead
  <2>1. bell.pc = "loop" /\ Doc!BellOnly /\ rec' = Doc!Stepped(rec, "pathLost", FALSE) /\ bell' = Doc!Rerun
    BY <1>10 DEF Doc!BellGoesDead
  <2>2. Written(rec')
    BY <1>1, <2>1, WritesOn
  <2> QED
    BY <1>9, <2>1, <2>2, BellMovesStep
<1>11. CASE Doc!BellPathDown
  <2> DEFINE r == IF bell.phase = "direct" THEN Doc!Stepped(rec, "relayFallback", TRUE) ELSE rec
  <2>1. bell.pc = "loop" /\ Doc!BellOnly
    BY <1>11 DEF Doc!BellPathDown
  <2>2. Written(r)
    BY <1>1, WritesOn
  <2> HIDE DEF r
  <2>3. CASE rec' = r /\ bell' = Doc!Rerun
    BY <1>9, <2>1, <2>2, <2>3, BellMovesStep
  <2>4. CASE Doc!BellEnds(r, "pathIdleTimeout")
    BY <2>1, <2>2, <2>4, BellEndsStep
  <2> QED
    BY <1>11, <2>3, <2>4 DEF Doc!BellPathDown, r
<1>12. CASE Doc!BellLosesRelay
  <2> DEFINE q == Doc!Stepped(rec, "pathLost", FALSE)
             r == Doc!Stepped(q, "pathLost", FALSE)
  <2>1. bell.pc = "loop" /\ Doc!BellOnly
    BY <1>12 DEF Doc!BellLosesRelay
  <2>2. Written(q)
    BY <1>1, WritesOn
  <2> HIDE DEF q
  <2>3. Written(r)
    BY <2>2, WritesOn
  <2>4. CASE rec' = r /\ bell' = [bell EXCEPT !.dead = TRUE]
    <3>1. bell' = [pc |-> bell.pc, phase |-> bell.phase, up |-> bell.up, giveUp |-> bell.giveUp, dead |-> TRUE,
                   attempts |-> bell.attempts, snap |-> bell.snap]
      BY <1>1, <2>4 DEF BellForm
    <3>2. BellForm(bell') /\ bell'.pc = bell.pc
      BY <3>1 DEF BellForm
    <3> QED
      BY <2>1, <2>3, <2>4, <3>2, BellMovesStep
  <2>5. CASE Doc!BellEnds(r, "pathIdleTimeout")
    BY <2>1, <2>3, <2>5, BellEndsStep
  <2> QED
    BY <1>12, <2>4, <2>5 DEF Doc!BellLosesRelay, q
<1>13. CASE Doc!BellRelayIsBack
  <2>1. /\ bell.pc = "loop" /\ Doc!BellOnly /\ rec' = Doc!Stepped(rec, "relayFallback", TRUE)
        /\ bell' = [bell EXCEPT !.dead = FALSE]
    BY <1>13 DEF Doc!BellRelayIsBack
  <2>2. Written(rec')
    BY <1>1, <2>1, WritesOn
  <2>3. bell' = [pc |-> bell.pc, phase |-> bell.phase, up |-> bell.up, giveUp |-> bell.giveUp, dead |-> FALSE,
                 attempts |-> bell.attempts, snap |-> bell.snap]
    BY <1>1, <2>1 DEF BellForm
  <2>4. BellForm(bell') /\ bell'.pc = bell.pc
    BY <2>3 DEF BellForm
  <2> QED
    BY <2>1, <2>2, <2>4, BellMovesStep
<1>14. CASE Doc!BellLeaves
  <2> DEFINE r == Doc!Stepped(rec, "closed", TRUE)
  <2>1. bell.pc = "loop" /\ Doc!BellOnly
    BY <1>14 DEF Doc!BellLeaves
  <2>2. Written(r)
    BY <1>1, WritesOn
  <2> HIDE DEF r
  <2>3. ASSUME NEW w, Doc!BellEnds(rec, w) \/ Doc!BellEnds(r, w) PROVE DocInv'
    BY <1>1, <2>1, <2>2, <2>3, BellEndsStep
  <2> QED
    BY <1>14, <2>3 DEF Doc!BellLeaves, r
<1> QED
  BY <1>2, <1>3, <1>4, <1>5, <1>6, <1>7, <1>8, <1>10, <1>11, <1>12, <1>13, <1>14 DEF Doc!Bell

LEMMA DocStep == DocInv /\ [MCNext]_allVars => DocInv'
<1> SUFFICES ASSUME DocInv, [MCNext]_allVars PROVE DocInv'
  OBVIOUS
<1>1. CASE UNCHANGED <<args, rec, main, bell>>
  <2>1. args' = args /\ rec' = rec /\ main' = main /\ bell' = bell
    BY <1>1
  <2>2. RecordForm(rec') /\ MainForm(main') /\ BellForm(bell') /\ (main'.pc \in EarlyPlaces => bell'.pc = "off")
    BY <2>1 DEF DocInv
  <2>3. OnTheWay'
    BY <2>1 DEF DocInv, OnTheWay
  <2>4. WithoutBell'
    BY <2>1 DEF DocInv, WithoutBell, Refused
  <2>5. CutIsShown'
    BY <2>1 DEF DocInv, CutIsShown
  <2>6. ClosedOnce'
    BY <2>1 DEF DocInv, ClosedOnce
  <2> QED
    BY <2>2, <2>3, <2>4, <2>5, <2>6 DEF DocInv
<1>2. CASE Doc!Next
  <2>1. CASE main.pc # "exit" /\ Doc!Run
    <3>1. CASE Doc!Resolve \/ Doc!Dial \/ Doc!Register \/ Doc!DialDeadline
      BY <3>1, ToTheGateStep
    <3>2. CASE Doc!Settled \/ Doc!Overran \/ Doc!Upgraded \/ Doc!Drain \/ Doc!Goodbye
      BY <3>2, VisitEndsStep
    <3> QED
      BY <2>1, <3>1, <3>2, ReflectStep, IntroduceStep, DialPeerStep, CutShortStep, FinishStep, LockStep DEF Doc!Run
  <2>2. CASE main.pc # "exit" /\ Doc!Bell
    BY <2>2, BellStep
  <2>3. CASE Doc!GateLost \/ Doc!PeerLost \/ Doc!Exited
    BY <1>1, <2>3 DEF Doc!GateLost, Doc!PeerLost, Doc!Exited, Doc!vars
  <2> QED
    BY <1>2, <2>1, <2>2, <2>3 DEF Doc!Next
<1> QED
  BY <1>1, <1>2 DEF MCNext, allVars, docVars

LEMMA DocInvariance == MCSpec => []DocInv
<1>1. MCInit => DocInv
  BY DocInit DEF MCInit
<1> QED
  BY <1>1, DocStep, PTL DEF MCSpec, allVars

(* A doctor run leaves one record, whichever of the run and the doorbell's task closes it first, and
   exits by that one; a visit the run cut short is not closed as ok by it (Recorder::finish). *)
THEOREM RunsLeaveOneRecord == MCSpec => []OneRecordPerRun
<1>1. DocInv => OneRecordPerRun
  <2> SUFFICES ASSUME DocInv PROVE OneRecordPerRun
    OBVIOUS
  <2>1. rec.lines <= 1 /\ (rec.done # Doc!NoRecord => rec.lines = 1)
    BY DEF DocInv, ClosedOnce
  <2>2. main.cut => main.cut = TRUE
    BY DEF DocInv, MainForm
  <2> QED
    BY <2>1, <2>2 DEF DocInv, ClosedOnce, CutIsShown, OneRecordPerRun, Doc!OneRecordPerRun
<1> QED
  BY <1>1, DocInvariance, PTL

(* A run that ends before its visit, or whose visit it cut short, does not exit 0, with the exceptions
   the property names: the record names a failed step before the run closes it (exit_for,
   exit_for_held). *)
THEOREM FailuresAreNamed == MCSpec => []FailureIsNamed
<1>1. DocInv => FailureIsNamed
  <2> SUFFICES ASSUME DocInv, main.pc = "exit", Doc!ExitsZero(main.snap)
               PROVE  /\ \/ bell.pc # "off"
                         \/ ~args.friend /\ Doc!Recorded(main.snap, "reflectSecondary", TRUE)
                         \/ main.unsent
                      /\ main.cut =>
                           \/ main.snap.by = "bell" /\ ~Doc!Recorded(main.snap, "closed", FALSE)
                           \/ Len(main.snap.steps) > MAX_RECORD_ENTRIES
    BY DEF FailureIsNamed, Doc!FailureIsNamed
  <2>1. ASSUME bell.pc = "off"
        PROVE  (~args.friend /\ Doc!Recorded(main.snap, "reflectSecondary", TRUE)) \/ main.unsent
    <3>1. Refused(main.snap) /\ NotLive(main.snap)
      BY <2>1 DEF DocInv, WithoutBell
    <3>2. main.snap.failed = "none"
      BY <3>1 DEF Doc!ExitsZero, NotLive, Doc!None
    <3> QED
      BY <3>1, <3>2 DEF Refused
  <2>2. ASSUME main.cut
        PROVE  \/ main.snap.by = "bell" /\ ~Doc!Recorded(main.snap, "closed", FALSE)
               \/ Len(main.snap.steps) > MAX_RECORD_ENTRIES
    <3>1. main.cut = TRUE
      BY <2>2 DEF DocInv, MainForm
    <3>2. /\ args.held /\ (main.snap.by = "run" => CutShown(main.snap))
          /\ main.snap.by \in {"bell", "run"}
      BY <3>1 DEF DocInv, CutIsShown, ClosedOnce
    <3>3. ~Doc!Recorded(main.snap, "closed", FALSE)
      BY <3>2 DEF Doc!ExitsZero, Doc!FATAL_TO_A_VISIT
    <3> QED
      BY <3>2, <3>3 DEF CutShown, Full
  <2> QED
    BY <2>1, <2>2
<1> QED
  BY <1>1, DocInvariance, PTL

-----------------------------------------------------------------------------
(* PathLife: the watch on a path.                                          *)

Instant == Nat \cup {None}

Livenesses ==
  [state : {"live", "stale", "dead"}, srtt : Int, outstanding : Instant, misses : Nat,
   lastSent : Instant, staleSince : Instant]

Watches ==
  [path : DOMAIN delay, live : Livenesses, outstanding : Instant, sentAt : Instant,
   deadSince : Instant, lastDeadProbe : Instant]

InWatch == phase \in {"watching", "relayed"}

\* The pong to the ping sent over the watched path at an instant.
Pong(path, d, at) == [tx |-> [to |-> path, at |-> at], due |-> at + d]
PongTo(at) == Pong(watch.path, delay[watch.path], at)

\* The parts, in the order the lines below need each other.
WatchShape ==
  /\ now \in Nat /\ steady \in Nat /\ steady <= now
  /\ DOMAIN delay = {watch.path} /\ delay[watch.path] \in Delays
  /\ watch \in Watches
  /\ phase = "relayed" => watch.path = RelayPath

\* What is on its way answers a ping of the past and has not arrived.
PongsAhead ==
  \A p \in net : \E at \in Nat : p = PongTo(at) /\ at < now /\ now <= p.due

\* The peer has answered at most one ping in each pass of its window.
WindowHasRoom ==
  /\ limiter \in [start : Nat, answered : Nat]
  /\ limiter.start <= now
  /\ limiter.answered <= now - limiter.start

\* A live path is probed in its interval, and its oldest unanswered probe is
\* not overdue.
LiveIsTimely ==
  LET l == watch.live IN
  /\ l.lastSent < now /\ watch.deadSince < now /\ watch.lastDeadProbe < now
  /\ l.state = "live" =>
       /\ l.misses < PROBES_TO_STALE
       /\ l.outstanding # None => l.lastSent # None /\ l.outstanding < now
       /\ l.lastSent # None => now <= l.lastSent + VISIT_PROBE_INTERVAL
       /\ l.outstanding # None => now <= l.outstanding + ProbeLossDeadline(l.srtt)
  /\ watch.deadSince # None => l.state = "dead"
  /\ watch.deadSince = None => watch.lastDeadProbe = None

\* On a path that answers in time each ping is answered before the next, so at
\* most one is counted as missed.
Answered ==
  watch.path \notin lost /\ delay[watch.path] < VISIT_PROBE_INTERVAL =>
    LET l == watch.live
        at == watch.outstanding
    IN /\ l.state = "live"
       /\ \/ at = None /\ l.outstanding = None /\ l.misses = 0
          \/ /\ at # None /\ watch.sentAt = at /\ l.lastSent = at
             /\ PongTo(at) \in net
             /\ \/ l.outstanding = at /\ l.misses = 0
                \/ l.outstanding = None /\ l.misses = 1

\* The misses so far say how far back the silence began.
MissSpan == ProbeLossDeadline(watch.live.srtt) + VISIT_PROBE_INTERVAL

SilenceCounted ==
  LET l == watch.live IN
  quiet # None /\ Queue \notin lost /\ l.state = "live" =>
    /\ quiet \in Nat
    /\ l.outstanding # None => l.outstanding <= quiet + l.misses * MissSpan
    /\ l.outstanding = None =>
         /\ l.misses >= 1 /\ l.lastSent # None
         /\ l.lastSent <= quiet + l.misses * MissSpan - VISIT_PROBE_INTERVAL

\* A dead path is probed in its interval by every pass that can, and the last
\* of its pings is on its way back when nothing was lost since.
DeadIsProbed ==
  LET x == watch.deadSince
      s == watch.lastDeadProbe
      d == delay[watch.path]
      T == Largest(x, steady)
  IN x # None =>
       /\ s # None => now <= s + DEAD_PROBE_INTERVAL
       /\ s = None /\ Queue \notin losing => now <= Largest(x + 1, steady)
       /\ /\ s # None /\ s >= steady /\ d < DEAD_PROBE_INTERVAL
          /\ watch.path \notin losing
          => watch.outstanding = s /\ PongTo(s) \in net
       /\ /\ s # None /\ s >= steady /\ d < DEAD_PROBE_INTERVAL
          /\ watch.path \notin losing /\ Queue \notin losing
          => s <= T + DEAD_PROBE_INTERVAL

WatchInv ==
  InWatch =>
    /\ WatchShape /\ PongsAhead /\ WindowHasRoom /\ LiveIsTimely
    /\ Answered /\ SilenceCounted /\ DeadIsProbed

LEMMA DeadlineFacts ==
  ASSUME NEW srtt \in Int
  PROVE  ProbeLossDeadline(srtt) \in Nat /\ ProbeLossDeadline(srtt) >= 1
<1>1. PROBE_LOSS_FLOOR \in Nat /\ PROBE_LOSS_FLOOR >= 1 /\ LOSS_SRTT_MULTIPLIER \in Nat
  BY LivenessAssumption
<1>2. srtt * LOSS_SRTT_MULTIPLIER \in Int
  BY <1>1
<1> HIDE LivenessAssumption
<1> QED
  BY <1>1, <1>2 DEF ProbeLossDeadline, Largest

LEMMA WatchConstants ==
  /\ VISIT_PROBE_INTERVAL \in Nat /\ VISIT_PROBE_INTERVAL >= 1
  /\ DEAD_PROBE_INTERVAL \in Nat /\ DEAD_PROBE_INTERVAL >= 1
  /\ PROBES_TO_STALE \in Nat /\ PROBES_TO_STALE >= 2
  /\ PONG_WINDOW \in Nat /\ PONG_WINDOW >= 1 /\ PONG_ANSWERS_PER_WINDOW \in Nat
  /\ PONG_WINDOW <= PONG_ANSWERS_PER_WINDOW
  /\ \A d \in Delays : d \in Nat /\ d >= 1
<1>1. {VISIT_PROBE_INTERVAL, DEAD_PROBE_INTERVAL, PROBES_TO_STALE} \subseteq Nat \ {0}
  BY LivenessAssumption, Zenon
<1>2. {PONG_WINDOW, PONG_ANSWERS_PER_WINDOW} \subseteq Nat \ {0}
  BY PathLifeAssumption, Zenon
<1>3. Delays \subseteq Nat \ {0}
  BY PathLifeAssumption, Zenon
<1> HIDE LivenessAssumption, PathLifeAssumption
<1> QED
  BY <1>1, <1>2, <1>3, WatchAssumption

\* What a pass sends, and whether the house's own queue refuses it.
PingRefused == WatchDue /\ watch.path = RelayPath /\ Queue \in losing
Goes == WatchDue /\ ~PingRefused
Gone == Goes /\ watch.path \in losing

\* The watch after the send, and after the poll.
AfterSend ==
  IF ~WatchDue THEN watch
  ELSE IF PingRefused THEN WatchNotSent(WatchSent(watch)) ELSE WatchSent(watch)
AfterPoll == [AfterSend EXCEPT !.live = Poll(@, now)]

\* A pass, when the peer has room in its window: every ping that is not lost
\* on the way is answered.
PassSent ==
  /\ net' = (net \ Arrived)
            \cup (IF Goes /\ watch.path \notin losing THEN {PongTo(now)} ELSE {})
  /\ limiter' \in [start : Nat, answered : Nat]
  /\ limiter'.start <= now + 1 /\ limiter'.answered <= now + 1 - limiter'.start
  /\ watch.path \notin lost' => watch.path \notin lost /\ ~Gone
  /\ Queue \notin lost' => Queue \notin lost /\ ~PingRefused
  /\ quiet' = IF Gone THEN (IF quiet = None \/ Arrived # {} THEN now ELSE quiet)
              ELSE IF Arrived # {} THEN None ELSE quiet
  /\ watch' = WatchDrain(watch.live, AfterPoll, Arrived)
  /\ now' = now + 1
  /\ UNCHANGED <<phase, delay, losing, steady>>

\* The peer's window takes one ping more.
LEMMA OneMoreAnswer ==
  ASSUME WindowHasRoom, now \in Nat
  PROVE  /\ Window(now) \in [start : Nat, answered : Nat]
         /\ Window(now).start <= now
         /\ Window(now).answered <= now - Window(now).start
         /\ PONG_ANSWERS_PER_WINDOW - Window(now).answered >= 1
<1>1. CASE now - limiter.start >= PONG_WINDOW
  <2>1. Window(now) = [start |-> now, answered |-> 0]
    BY <1>1 DEF Window
  <2> QED
    BY <2>1, WatchConstants
<1>2. CASE ~(now - limiter.start >= PONG_WINDOW)
  <2>1. Window(now) = limiter
    BY <1>2 DEF Window
  <2> QED
    BY <1>2, <2>1, WatchConstants DEF WindowHasRoom
<1> QED
  BY <1>1, <1>2

LEMMA PassFacts ==
  ASSUME WatchShape, WindowHasRoom, WatchPass
  PROVE  PassSent
<1> DEFINE pings == IF Goes THEN {[to |-> watch.path, at |-> now]} ELSE {}
           there == {p \in pings : p.to \notin losing}
           left == PONG_ANSWERS_PER_WINDOW - Window(now).answered
<1>0. now \in Nat
  BY DEF WatchShape
<1>1. PICK back \in AnsweredSets(pings) :
        /\ Carry(back, Arrived) /\ Silence(pings # back, Arrived # {})
        /\ lost' = lost \cup ({p.to : p \in pings} \cap losing)
                        \cup (IF PingRefused THEN {Queue} ELSE {})
        /\ watch' = WatchDrain(watch.live, AfterPoll, Arrived)
        /\ now' = now + 1 /\ UNCHANGED <<phase, delay, losing, steady>>
  BY DEF WatchPass, Goes, PingRefused, AfterSend, AfterPoll
<1>2. there = IF Goes /\ watch.path \notin losing THEN {[to |-> watch.path, at |-> now]} ELSE {}
  OBVIOUS
<1>3. Cardinality(there) \in {0, 1}
  BY <1>2, FS_EmptySet, FS_Singleton
<1>4. Window(now) \in [start : Nat, answered : Nat] /\ left \in Int /\ left >= 1
  BY <1>0, OneMoreAnswer, WatchConstants
<1>5. back = there
  <2>1. Cardinality(there) <= left
    BY <1>3, <1>4
  <2>2. AnsweredSets(pings) = {there}
    BY <2>1 DEF AnsweredSets
  <2> QED
    BY <2>2
<1>6. net' = (net \ Arrived)
            \cup (IF Goes /\ watch.path \notin losing THEN {PongTo(now)} ELSE {})
  BY <1>1, <1>2, <1>5 DEF Carry, PongTo, Pong
<1>7. pings # back <=> Gone
  BY <1>2, <1>5 DEF Gone
<1>8. /\ limiter' \in [start : Nat, answered : Nat]
      /\ limiter'.start <= now + 1 /\ limiter'.answered <= now + 1 - limiter'.start
  <2>1. CASE there = {}
    BY <1>0, <1>1, <1>5, <2>1 DEF Carry, WindowHasRoom
  <2>2. CASE there # {}
    <3>1. Cardinality(there) = 1
      BY <1>2, <2>2, FS_Singleton
    <3>2. limiter' = [Window(now) EXCEPT !.answered = @ + 1]
      BY <1>1, <1>5, <2>2, <3>1 DEF Carry
    <3> QED
      BY <1>0, <3>2, OneMoreAnswer
  <2> QED
    BY <2>1, <2>2
<1>9. /\ watch.path \notin lost' => watch.path \notin lost /\ ~Gone
      /\ Queue \notin lost' => Queue \notin lost /\ ~PingRefused
  BY <1>1 DEF Gone
<1>10. quiet' = IF Gone THEN (IF quiet = None \/ Arrived # {} THEN now ELSE quiet)
               ELSE IF Arrived # {} THEN None ELSE quiet
  BY <1>1, <1>7 DEF Silence
<1> QED
  BY <1>1, <1>6, <1>8, <1>9, <1>10 DEF PassSent

LEMMA SmoothedType ==
  ASSUME NEW srtt \in Int, NEW rtt \in Int
  PROVE  Smoothed(srtt, rtt) \in Int
BY DEF Smoothed

\* Whether poll counts a miss.
Missed(l, t) == l.outstanding # None /\ t - l.outstanding >= ProbeLossDeadline(l.srtt)

LEMMA PollFacts ==
  ASSUME NEW l \in Livenesses, NEW t \in Nat
  PROVE  LET m == Poll(l, t) IN
         /\ m \in Livenesses /\ m.lastSent = l.lastSent /\ m.srtt = l.srtt
         /\ l.state = "dead" => m = l
         /\ m.state = "live" => l.state = "live" /\ m.misses < PROBES_TO_STALE
         /\ l.state = "live" =>
              /\ m.misses = l.misses + (IF Missed(l, t) THEN 1 ELSE 0)
              /\ m.outstanding = IF Missed(l, t) THEN None ELSE l.outstanding
              /\ m.misses < PROBES_TO_STALE => m.state = "live"
              /\ m.state # "dead"
<1> DEFINE c == CountMiss(l, t)
<1>1. /\ c \in Livenesses /\ c.lastSent = l.lastSent /\ c.srtt = l.srtt /\ c.state = l.state
      /\ c.misses = l.misses + (IF Missed(l, t) THEN 1 ELSE 0)
      /\ c.outstanding = IF Missed(l, t) THEN None ELSE l.outstanding
      /\ c.staleSince = l.staleSince
  <2>1. None \in Instant /\ l.misses + 1 \in Nat /\ l.misses + 0 = l.misses
    BY DEF Livenesses, Instant
  <2>2. CASE Missed(l, t)
    <3>1. c = [l EXCEPT !.misses = @ + 1, !.outstanding = None]
      BY <2>2 DEF CountMiss, Missed
    <3> QED
      BY <2>1, <2>2, <3>1 DEF Livenesses
  <2>3. CASE ~Missed(l, t)
    <3>1. c = l
      BY <2>3 DEF CountMiss, Missed
    <3> QED
      BY <2>1, <2>3, <3>1
  <2> QED
    BY <2>2, <2>3
<1>2. t \in Instant /\ PROBES_TO_STALE \in Nat
  BY WatchConstants DEF Instant
<1> HIDE DEF c
<1>3. Poll(l, t) = CASE l.state = "dead" -> l
                     [] l.state = "live" -> IF c.misses >= PROBES_TO_STALE
                                            THEN [c EXCEPT !.state = "stale", !.staleSince = t] ELSE c
                     [] l.state = "stale" -> IF t - c.staleSince >= DeadGrace(c.srtt)
                                             THEN [c EXCEPT !.state = "dead"] ELSE c
  BY DEF Poll, c
<1>4. l.state \in {"live", "stale", "dead"}
  BY DEF Livenesses
<1>5. CASE l.state = "dead"
  BY <1>3, <1>5
<1>6. CASE l.state = "live"
  <2>1. Poll(l, t) = IF c.misses >= PROBES_TO_STALE
                     THEN [c EXCEPT !.state = "stale", !.staleSince = t] ELSE c
    BY <1>3, <1>6
  <2>2. c.misses \in Nat /\ c.state = "live"
    BY <1>1, <1>6 DEF Livenesses
  <2>3. CASE c.misses >= PROBES_TO_STALE
    <3>1. Poll(l, t) = [c EXCEPT !.state = "stale", !.staleSince = t]
      BY <2>1, <2>3
    <3>2. ~(c.misses < PROBES_TO_STALE)
      BY <1>2, <2>2, <2>3
    <3>3. Poll(l, t) \in Livenesses
      BY <1>1, <1>2, <3>1 DEF Livenesses
    <3>4. /\ Poll(l, t).state = "stale" /\ Poll(l, t).misses = c.misses
          /\ Poll(l, t).outstanding = c.outstanding /\ Poll(l, t).srtt = c.srtt
          /\ Poll(l, t).lastSent = c.lastSent
      BY <1>1, <3>1 DEF Livenesses
    <3> QED
      BY <1>1, <1>6, <3>2, <3>3, <3>4
  <2>4. CASE ~(c.misses >= PROBES_TO_STALE)
    <3>1. Poll(l, t) = c /\ c.misses < PROBES_TO_STALE
      BY <1>2, <2>1, <2>2, <2>4
    <3> QED
      BY <1>1, <1>6, <2>2, <3>1
  <2> QED
    BY <2>3, <2>4
<1>7. CASE l.state = "stale"
  <2>1. Poll(l, t) = c \/ Poll(l, t) = [c EXCEPT !.state = "dead"]
    BY <1>3, <1>7
  <2> QED
    BY <1>1, <1>7, <2>1 DEF Livenesses
<1> QED
  BY <1>4, <1>5, <1>6, <1>7

\* The liveness the poll reads.
Noted ==
  IF ~WatchDue \/ watch.deadSince # None THEN watch.live
  ELSE IF PingRefused THEN ProbeNotSent(ProbeSent(watch.live, now), now)
  ELSE ProbeSent(watch.live, now)

LEMMA NotedFacts ==
  ASSUME WatchShape
  PROVE  /\ Noted \in Livenesses
         /\ Noted.state = watch.live.state /\ Noted.misses = watch.live.misses
         /\ Noted.srtt = watch.live.srtt
         /\ Noted.lastSent = IF WatchDue /\ watch.deadSince = None THEN now ELSE watch.live.lastSent
         /\ Goes /\ watch.deadSince = None =>
              Noted.outstanding = IF watch.live.outstanding = None THEN now
                                  ELSE watch.live.outstanding
         /\ ~Goes =>
              \/ Noted.outstanding = watch.live.outstanding
              \/ Noted.outstanding = None /\ PingRefused
<1>1. watch.live \in Livenesses /\ now \in Nat
  BY DEF WatchShape, Watches
<1>2. now \in Instant /\ now # None
  BY <1>1 DEF Instant, None
<1> DEFINE l == watch.live
<1>3. /\ ProbeSent(l, now) \in Livenesses
      /\ ProbeSent(l, now).state = l.state /\ ProbeSent(l, now).misses = l.misses
      /\ ProbeSent(l, now).srtt = l.srtt /\ ProbeSent(l, now).lastSent = now
      /\ ProbeSent(l, now).outstanding = IF l.outstanding = None THEN now ELSE l.outstanding
  BY <1>1, <1>2 DEF ProbeSent, Livenesses
<1>4. ASSUME NEW k \in Livenesses
      PROVE  /\ ProbeNotSent(k, now) \in Livenesses
             /\ ProbeNotSent(k, now).state = k.state /\ ProbeNotSent(k, now).misses = k.misses
             /\ ProbeNotSent(k, now).srtt = k.srtt /\ ProbeNotSent(k, now).lastSent = k.lastSent
             /\ ProbeNotSent(k, now).outstanding = IF k.outstanding = now THEN None ELSE k.outstanding
  BY DEF ProbeNotSent, Livenesses, Instant
<1> QED
  BY <1>1, <1>2, <1>3, <1>4 DEF Noted, Goes, PingRefused

\* The watch before the drain.
LEMMA PolledFacts ==
  ASSUME WatchShape, LiveIsTimely
  PROVE  LET b == AfterPoll IN
         /\ b \in Watches
         /\ b.path = watch.path /\ b.deadSince = watch.deadSince
         /\ b.live = Poll(Noted, now)
         /\ b.outstanding = IF Goes THEN now ELSE IF PingRefused THEN None ELSE watch.outstanding
         /\ b.sentAt = IF Goes THEN now ELSE IF PingRefused THEN None ELSE watch.sentAt
         /\ b.lastDeadProbe = IF watch.deadSince = None THEN None
                              ELSE IF Goes THEN now
                              ELSE IF PingRefused THEN None ELSE watch.lastDeadProbe
<1> DEFINE a == AfterSend
<1>1. watch \in Watches /\ now \in Instant /\ None \in Instant /\ watch.live \in Livenesses
  BY DEF WatchShape, Instant, Watches
<1>2. Noted \in Livenesses
  BY NotedFacts
<1>3. watch.deadSince = None => watch.lastDeadProbe = None
  BY DEF LiveIsTimely
<1>4. ASSUME watch.deadSince = None
      PROVE  /\ a = [watch EXCEPT !.live = Noted,
                       !.outstanding = IF Goes THEN now ELSE IF PingRefused THEN None ELSE @,
                       !.sentAt = IF Goes THEN now ELSE IF PingRefused THEN None ELSE @]
  <2>1. CASE ~WatchDue
    BY <1>1, <1>4, <2>1 DEF AfterSend, Goes, PingRefused, Noted, Watches
  <2>2. CASE WatchDue
    <3>1. WatchSent(watch) = [watch EXCEPT !.live = ProbeSent(@, now), !.outstanding = now, !.sentAt = now]
      BY <1>4 DEF WatchSent
    <3>2. WatchNotSent(WatchSent(watch)) =
            [watch EXCEPT !.live = ProbeNotSent(ProbeSent(@, now), now), !.outstanding = None, !.sentAt = None]
      BY <1>1, <1>4, <3>1 DEF WatchNotSent, Watches
    <3> QED
      BY <1>1, <1>4, <2>2, <3>1, <3>2 DEF AfterSend, Goes, PingRefused, Noted, Watches
  <2> QED
    BY <2>1, <2>2
<1>5. ASSUME watch.deadSince # None
      PROVE  a = [watch EXCEPT
                    !.lastDeadProbe = IF Goes THEN now ELSE IF PingRefused THEN None ELSE @,
                    !.outstanding = IF Goes THEN now ELSE IF PingRefused THEN None ELSE @,
                    !.sentAt = IF Goes THEN now ELSE IF PingRefused THEN None ELSE @]
  <2>1. CASE ~WatchDue
    BY <1>1, <1>5, <2>1 DEF AfterSend, Goes, PingRefused, Watches
  <2>2. CASE WatchDue
    <3>1. WatchSent(watch) = [watch EXCEPT !.lastDeadProbe = now, !.outstanding = now, !.sentAt = now]
      BY <1>5 DEF WatchSent
    <3>2. WatchNotSent(WatchSent(watch)) =
            [watch EXCEPT !.lastDeadProbe = None, !.outstanding = None, !.sentAt = None]
      BY <1>1, <1>5, <3>1 DEF WatchNotSent, Watches
    <3> QED
      BY <1>1, <1>5, <2>2, <3>1, <3>2 DEF AfterSend, Goes, PingRefused, Watches
  <2> QED
    BY <2>1, <2>2
<1>6. /\ a \in Watches /\ a.live = Noted
      /\ a.path = watch.path /\ a.deadSince = watch.deadSince
      /\ a.outstanding = IF Goes THEN now ELSE IF PingRefused THEN None ELSE watch.outstanding
      /\ a.sentAt = IF Goes THEN now ELSE IF PingRefused THEN None ELSE watch.sentAt
      /\ a.lastDeadProbe = IF watch.deadSince = None THEN None
                           ELSE IF Goes THEN now
                           ELSE IF PingRefused THEN None ELSE watch.lastDeadProbe
  <2>1. CASE watch.deadSince = None
    BY <1>1, <1>2, <1>3, <1>4, <2>1 DEF Watches
  <2>2. CASE watch.deadSince # None
    <3>1. Noted = watch.live
      BY <2>2 DEF Noted
    <3> QED
      BY <1>1, <1>2, <1>5, <2>2, <3>1 DEF Watches
  <2> QED
    BY <2>1, <2>2
<1>7. now \in Nat /\ Poll(Noted, now) \in Livenesses
  BY <1>2, PollFacts DEF WatchShape
<1> HIDE DEF a
<1>8. AfterPoll = [a EXCEPT !.live = Poll(@, now)]
  BY DEF AfterPoll, a
<1> QED
  BY <1>6, <1>7, <1>8 DEF Watches

\* How a pass may end: nothing heard of the ping in flight; the relay found
\* dead; a dead one heard again; an answer.
DiesNow == watch.path = RelayPath /\ watch.live.state # "dead" /\ AfterPoll.live.state = "dead"

Unheard ==
  /\ ~DiesNow /\ watch' = AfterPoll
  /\ PongTo(AfterPoll.outstanding) \notin Arrived

FoundDead ==
  DiesNow /\ watch' = [AfterPoll EXCEPT !.deadSince = now, !.outstanding = None]

HeardNow == ~Goes /\ ~PingRefused /\ Arrived # {}

SeenBack ==
  /\ HeardNow
  /\ watch' = [AfterPoll EXCEPT !.live = NewLiveness(None), !.outstanding = None,
                  !.sentAt = None, !.deadSince = None, !.lastDeadProbe = None]

Heard ==
  /\ HeardNow /\ watch.deadSince = None
  /\ watch' = [AfterPoll EXCEPT !.live = OnPong(@, now - AfterPoll.sentAt), !.outstanding = None]

LEMMA DrainFacts ==
  ASSUME WatchShape, PongsAhead, LiveIsTimely, PassSent
  PROVE  Unheard \/ FoundDead \/ SeenBack \/ Heard
<1> DEFINE b == AfterPoll
           u == IF b.path = RelayPath /\ WentDead(watch.live, b.live)
                THEN [b EXCEPT !.deadSince = now, !.outstanding = None] ELSE b
           hit == \E p \in Arrived : Matches(u, p)
<1>1. /\ b \in Watches
      /\ b.path = watch.path /\ b.deadSince = watch.deadSince
      /\ b.outstanding = IF Goes THEN now ELSE IF PingRefused THEN None ELSE watch.outstanding
  BY PolledFacts
<1>2. watch' = WatchDrain(watch.live, b, Arrived)
  BY DEF PassSent
<1>3. \A p \in Arrived : \E at \in Nat : p = PongTo(at) /\ at < now
  BY DEF Arrived, PongsAhead
<1>4. now \in Nat
  BY DEF WatchShape
<1> HIDE DEF b
<1>5. CASE DiesNow
  <2>1. u = [b EXCEPT !.deadSince = now, !.outstanding = None]
    BY <1>1, <1>5 DEF DiesNow, WentDead, b
  <2>2. u.outstanding = None
    BY <1>1, <2>1 DEF Watches
  <2>3. ~hit
    <3> SUFFICES ASSUME NEW p \in Arrived, Matches(u, p) PROVE FALSE
      OBVIOUS
    <3>1. PICK at \in Nat : p = PongTo(at)
      BY <1>3
    <3> QED
      BY <2>2, <3>1 DEF Matches, PongTo, Pong, None
  <2>4. watch' = u
    BY <1>2, <2>3 DEF WatchDrain
  <2> QED
    BY <1>5, <2>1, <2>4 DEF FoundDead, b
<1>6. CASE ~DiesNow
  <2>1. u = b
    BY <1>1, <1>6 DEF DiesNow, WentDead, b
  <2>2. CASE ~hit
    <3>1. watch' = b
      BY <1>2, <2>1, <2>2 DEF WatchDrain
    <3>2. PongTo(b.outstanding) \notin Arrived
      <4> SUFFICES ASSUME PongTo(b.outstanding) \in Arrived PROVE hit
        BY <2>2
      <4>1. Matches(u, PongTo(b.outstanding))
        BY <1>1, <2>1 DEF Matches, PongTo, Pong
      <4> QED
        BY <4>1
    <3> QED
      BY <1>6, <3>1, <3>2 DEF Unheard, b
  <2>3. CASE hit
    <3>1. PICK p \in Arrived : Matches(b, p)
      BY <2>1, <2>3
    <3>2. PICK at \in Nat : p = PongTo(at) /\ at < now
      BY <1>3
    <3>3. b.outstanding = at
      BY <3>1, <3>2 DEF Matches, PongTo, Pong
    <3>4. HeardNow
      BY <1>1, <1>4, <3>2, <3>3 DEF HeardNow, None
    <3>5. CASE b.deadSince # None
      BY <1>2, <2>1, <2>3, <3>4, <3>5 DEF WatchDrain, SeenBack, b
    <3>6. CASE b.deadSince = None
      BY <1>1, <1>2, <2>1, <2>3, <3>4, <3>6 DEF WatchDrain, Heard, b
    <3> QED
      BY <3>5, <3>6
  <2> QED
    BY <2>2, <2>3
<1> QED
  BY <1>5, <1>6

\* The liveness a pass leaves.
LEMMA OnPongFacts ==
  ASSUME NEW l \in Livenesses, NEW rtt \in Int
  PROVE  LET m == OnPong(l, rtt) IN
         /\ m \in Livenesses /\ m.state = l.state /\ m.lastSent = l.lastSent
         /\ l.state # "dead" => m.outstanding = None /\ m.misses = 0
         /\ l.state = "dead" => m = l
<1>1. Smoothed(l.srtt, rtt) \in Int
  BY SmoothedType DEF Livenesses
<1> QED
  BY <1>1 DEF OnPong, Livenesses, Instant

LEMMA NewLivenessFacts ==
  ASSUME NEW srtt \in Int
  PROVE  /\ NewLiveness(srtt) \in Livenesses
         /\ NewLiveness(srtt).state = "live" /\ NewLiveness(srtt).misses = 0
         /\ NewLiveness(srtt).outstanding = None /\ NewLiveness(srtt).lastSent = None
BY DEF NewLiveness, Livenesses, Instant

LEMMA ShapeStep ==
  ASSUME WatchShape, PongsAhead, WindowHasRoom, LiveIsTimely, PassSent
  PROVE  WatchShape' /\ PongsAhead' /\ WindowHasRoom'
<1>1. /\ AfterPoll \in Watches /\ AfterPoll.path = watch.path
  BY PolledFacts
<1>2. now \in Nat /\ now \in Instant /\ None \in Instant /\ None \in Int /\ now \in Int
  BY DEF WatchShape, Instant, None
<1>3. AfterPoll.sentAt \in Int /\ AfterPoll.live \in Livenesses
  BY <1>1 DEF Watches, Instant, None
<1>4. NewLiveness(None) \in Livenesses /\ OnPong(AfterPoll.live, now - AfterPoll.sentAt) \in Livenesses
  <2>1. NewLiveness(None) \in Livenesses
    BY <1>2, NewLivenessFacts
  <2>2. now - AfterPoll.sentAt \in Int
    BY <1>2, <1>3
  <2>3. \A r \in Int : OnPong(AfterPoll.live, r) \in Livenesses
    BY <1>3, OnPongFacts
  <2> QED
    BY <2>1, <2>2, <2>3
<1>5. Watches' = Watches
  BY DEF PassSent, Watches
<1>6. watch' \in Watches' /\ watch'.path = watch.path
  <2>1. CASE Unheard
    BY <1>1, <1>5, <2>1 DEF Unheard
  <2>2. CASE FoundDead
    BY <1>1, <1>2, <1>5, <2>2 DEF FoundDead, Watches
  <2>3. CASE SeenBack
    BY <1>1, <1>2, <1>4, <1>5, <2>3 DEF SeenBack, Watches
  <2>4. CASE Heard
    BY <1>1, <1>2, <1>4, <1>5, <2>4 DEF Heard, Watches
  <2> QED
    BY <2>1, <2>2, <2>3, <2>4, DrainFacts
<1>7. WatchShape'
  BY <1>2, <1>6 DEF WatchShape, PassSent
<1>8. PongsAhead'
  <2> SUFFICES ASSUME NEW p \in net'
               PROVE  \E at \in Nat : p = PongTo(at)' /\ at < now' /\ now' <= p.due
    BY DEF PongsAhead
  <2>1. \A at : PongTo(at)' = PongTo(at)
    BY <1>6 DEF PongTo, PassSent
  <2>2. delay[watch.path] \in Nat /\ delay[watch.path] >= 1
    BY WatchConstants DEF WatchShape
  <2>3. CASE p \in net \ Arrived
    <3>1. PICK at \in Nat : p = PongTo(at) /\ at < now /\ now <= p.due
      BY <2>3 DEF PongsAhead
    <3>2. p.due \in Nat /\ ~(p.due <= now)
      BY <2>2, <2>3, <3>1 DEF Arrived, PongTo, Pong
    <3> QED
      BY <1>2, <2>1, <3>1, <3>2 DEF PassSent
  <2>4. CASE p = PongTo(now)
    BY <1>2, <2>1, <2>2, <2>4 DEF PassSent, PongTo, Pong
  <2> QED
    BY <2>3, <2>4 DEF PassSent
<1>9. /\ limiter' \in [start : Nat, answered : Nat] /\ now' = now + 1
      /\ limiter'.start <= now + 1 /\ limiter'.answered <= now + 1 - limiter'.start
  BY DEF PassSent
<1>10. WindowHasRoom'
  BY <1>2, <1>9 DEF WindowHasRoom
<1> QED
  BY <1>7, <1>8, <1>10

\* What a step leaves of the watched liveness, in the words of the invariant.
LEMMA DueFacts ==
  ASSUME WatchShape, LiveIsTimely, ~WatchDue
  PROVE  /\ watch.deadSince = None /\ watch.live.state = "live" =>
              now + 1 <= watch.live.lastSent + VISIT_PROBE_INTERVAL /\ watch.live.lastSent # None
         /\ watch.deadSince # None =>
              now + 1 <= watch.lastDeadProbe + DEAD_PROBE_INTERVAL /\ watch.lastDeadProbe # None
<1>1. /\ now \in Nat /\ watch.live.lastSent \in Int /\ watch.lastDeadProbe \in Int
  BY DEF WatchShape, Watches, Livenesses, Instant, None
<1> QED
  BY <1>1, WatchConstants DEF WatchDue, ProbeIsDue, ProbeInterval

LEMMA TimelyStep ==
  ASSUME WatchShape, PongsAhead, LiveIsTimely, PassSent
  PROVE  LiveIsTimely'
<1> DEFINE b == AfterPoll
           m == b.live
           l == watch.live
<1>1. /\ b \in Watches /\ m = Poll(Noted, now) /\ b.deadSince = watch.deadSince
      /\ b.lastDeadProbe = IF watch.deadSince = None THEN None
                           ELSE IF Goes THEN now
                           ELSE IF PingRefused THEN None ELSE watch.lastDeadProbe
  BY PolledFacts
<1>2. /\ Noted \in Livenesses
      /\ Noted.state = l.state /\ Noted.misses = l.misses /\ Noted.srtt = l.srtt
      /\ Noted.lastSent = IF WatchDue /\ watch.deadSince = None THEN now ELSE l.lastSent
  BY NotedFacts
<1>3. /\ now \in Nat /\ now' = now + 1 /\ None \in Int /\ None < now
      /\ l \in Livenesses /\ watch \in Watches
  BY DEF WatchShape, PassSent, Watches, None
<1>4. /\ m \in Livenesses /\ m.lastSent = Noted.lastSent /\ m.srtt = l.srtt
      /\ l.state = "dead" => m = Noted
      /\ m.state = "live" => l.state = "live" /\ m.misses < PROBES_TO_STALE
      /\ l.state = "live" =>
           m.outstanding = IF Missed(Noted, now) THEN None ELSE Noted.outstanding
  <2> DEFINE q == Poll(Noted, now)
  <2>1. /\ q \in Livenesses /\ q.lastSent = Noted.lastSent /\ q.srtt = Noted.srtt
        /\ Noted.state = "dead" => q = Noted
        /\ q.state = "live" => Noted.state = "live" /\ q.misses < PROBES_TO_STALE
        /\ Noted.state = "live" =>
             q.outstanding = IF Missed(Noted, now) THEN None ELSE Noted.outstanding
    <3>1. Noted \in Livenesses /\ now \in Nat
      BY <1>2, <1>3
    <3> QED
      BY <3>1, PollFacts
  <2>2. m = q /\ Noted.state = l.state /\ Noted.srtt = l.srtt
    BY <1>1, <1>2
  <2> HIDE DEF q, m
  <2> QED
    BY <2>1, <2>2
<1>5. /\ m.lastSent < now + 1 /\ watch.deadSince < now + 1 /\ b.lastDeadProbe < now + 1
      /\ watch.deadSince \in Int /\ b.lastDeadProbe \in Int /\ m.lastSent \in Int
  <2>1. /\ l.lastSent \in Int /\ watch.deadSince \in Int /\ watch.lastDeadProbe \in Int
    BY <1>3 DEF Watches, Livenesses, Instant, None
  <2>2. l.lastSent < now /\ watch.deadSince < now /\ watch.lastDeadProbe < now
    BY DEF LiveIsTimely
  <2> QED
    BY <1>1, <1>2, <1>3, <1>4, <2>1, <2>2
<1>6. ASSUME m.state = "live"
      PROVE  /\ m.lastSent # None => now + 1 <= m.lastSent + VISIT_PROBE_INTERVAL
             /\ m.outstanding # None => now + 1 <= m.outstanding + ProbeLossDeadline(m.srtt)
             /\ m.outstanding # None => m.lastSent # None /\ m.outstanding < now + 1
  <2>1. l.state = "live" /\ watch.deadSince = None
    BY <1>4, <1>6 DEF LiveIsTimely
  <2>2. m.lastSent # None => now + 1 <= m.lastSent + VISIT_PROBE_INTERVAL
    <3>1. CASE WatchDue
      BY <1>2, <1>3, <1>4, <2>1, <3>1, WatchConstants
    <3>2. CASE ~WatchDue
      BY <1>2, <1>4, <2>1, <3>2, DueFacts
    <3> QED
      BY <3>1, <3>2
  <2>3. m.outstanding # None => now + 1 <= m.outstanding + ProbeLossDeadline(m.srtt)
    <3> SUFFICES ASSUME m.outstanding # None
                 PROVE  now + 1 <= m.outstanding + ProbeLossDeadline(m.srtt)
      OBVIOUS
    <3>1. ~Missed(Noted, now) /\ m.outstanding = Noted.outstanding
      BY <1>4, <2>1
    <3>2. ~(now - m.outstanding >= ProbeLossDeadline(m.srtt))
      BY <1>2, <1>4, <3>1 DEF Missed
    <3>3. m.outstanding \in Int /\ ProbeLossDeadline(m.srtt) \in Nat
      BY <1>4, DeadlineFacts DEF Livenesses, Instant, None
    <3> QED
      BY <1>3, <3>2, <3>3
  <2>4. m.outstanding # None => m.lastSent # None /\ m.outstanding < now + 1
    <3>1. CASE WatchDue
      <4>1. m.outstanding # None => \/ m.outstanding = now
                                    \/ m.outstanding = l.outstanding
        BY <1>4, <2>1, <3>1, NotedFacts DEF Goes
      <4>2. m.lastSent = now /\ now # None
        BY <1>2, <1>3, <1>4, <2>1, <3>1 DEF None
      <4>3. l.outstanding \in Int /\ (l.outstanding # None => l.outstanding < now)
        BY <1>3, <2>1 DEF LiveIsTimely, Livenesses, Instant, None
      <4> QED
        BY <1>3, <4>1, <4>2, <4>3
    <3>2. CASE ~WatchDue
      <4>1. Noted = l
        BY <3>2 DEF Noted
      <4>2. m.outstanding # None => m.outstanding = l.outstanding /\ l.outstanding \in Int
        BY <1>3, <1>4, <2>1, <4>1 DEF Livenesses, Instant, None
      <4> QED
        BY <1>2, <1>3, <1>4, <2>1, <3>2, <4>2 DEF LiveIsTimely
    <3> QED
      BY <3>1, <3>2
  <2> QED
    BY <2>2, <2>3, <2>4
<1>7. watch.deadSince # None => m.state = "dead"
  BY <1>2, <1>4 DEF LiveIsTimely
<1>8. \/ watch'.live = m /\ watch'.deadSince = watch.deadSince /\ watch'.lastDeadProbe = b.lastDeadProbe
      \/ /\ watch'.live = m /\ m.state = "dead" /\ watch'.deadSince = now
         /\ watch'.lastDeadProbe = b.lastDeadProbe
      \/ watch'.live = NewLiveness(None) /\ watch'.deadSince = None /\ watch'.lastDeadProbe = None
      \/ /\ watch'.live = OnPong(m, now - b.sentAt) /\ watch'.deadSince = watch.deadSince
         /\ watch'.lastDeadProbe = b.lastDeadProbe
  <2> HIDE DEF b
  <2>1. CASE Unheard
    BY <1>1, <2>1 DEF Unheard, Watches, b
  <2>2. CASE FoundDead
    BY <1>1, <2>2 DEF FoundDead, DiesNow, Watches, b
  <2>3. CASE SeenBack
    BY <1>1, <2>3 DEF SeenBack, Watches, b
  <2>4. CASE Heard
    BY <1>1, <2>4 DEF Heard, Watches, b
  <2> QED
    BY <2>1, <2>2, <2>3, <2>4, DrainFacts
<1>9. /\ OnPong(m, now - b.sentAt).state = m.state
      /\ OnPong(m, now - b.sentAt).lastSent = m.lastSent
      /\ m.state # "dead" => OnPong(m, now - b.sentAt).outstanding = None
                             /\ OnPong(m, now - b.sentAt).misses = 0
  <2>1. now - b.sentAt \in Int
    BY <1>1, <1>3 DEF Watches, Instant, None
  <2> QED
    BY <1>4, <2>1, OnPongFacts
<1>10. None \in Int /\ NewLiveness(None).state = "live" /\ NewLiveness(None).misses = 0
       /\ NewLiveness(None).outstanding = None /\ NewLiveness(None).lastSent = None
  BY <1>3, NewLivenessFacts
<1>11. watch.deadSince = None => b.lastDeadProbe = None
  BY <1>1
<1> HIDE DEF b, m, l
<1> QED
  BY <1>3, <1>4, <1>5, <1>6, <1>7, <1>8, <1>9, <1>10, <1>11, WatchConstants DEF LiveIsTimely

\* A live liveness after the poll: whether a miss was counted, and of which probe.
LEMMA LivePollFacts ==
  ASSUME WatchShape, LiveIsTimely, watch.live.state = "live"
  PROVE  LET m == AfterPoll.live
             l == watch.live
         IN /\ m \in Livenesses /\ m.srtt = l.srtt /\ m.state # "dead"
            /\ m.state = "live" => m.misses < PROBES_TO_STALE
            /\ m.misses < PROBES_TO_STALE => m.state = "live"
            /\ m.lastSent = IF WatchDue THEN now ELSE l.lastSent
            /\ Goes /\ l.outstanding = None => m.outstanding = now /\ m.misses = l.misses
            /\ (Goes /\ l.outstanding # None) \/ ~WatchDue =>
                 \/ /\ m.outstanding = l.outstanding /\ m.misses = l.misses
                    /\ ~Missed(l, now)
                 \/ /\ m.outstanding = None /\ m.misses = l.misses + 1
                    /\ Missed(l, now)
            /\ PingRefused => /\ l.outstanding = None => m.outstanding = None /\ m.misses = l.misses
<1> DEFINE m == AfterPoll.live
           l == watch.live
<1>1. watch.deadSince = None /\ now \in Nat /\ now # None /\ watch \in Watches /\ l \in Livenesses
  BY DEF LiveIsTimely, WatchShape, Watches, None
<1>2. m = Poll(Noted, now) /\ Noted \in Livenesses
  BY PolledFacts, NotedFacts
<1>3. /\ Noted.state = "live" /\ Noted.misses = l.misses /\ Noted.srtt = l.srtt
      /\ Noted.lastSent = IF WatchDue THEN now ELSE l.lastSent
      /\ Goes => Noted.outstanding = IF l.outstanding = None THEN now ELSE l.outstanding
      /\ ~WatchDue => Noted = l
  BY <1>1, NotedFacts DEF Noted
<1>4. PingRefused /\ l.outstanding = None => Noted.outstanding = None
  <2> SUFFICES ASSUME PingRefused, l.outstanding = None PROVE Noted.outstanding = None
    OBVIOUS
  <2>1. Noted = ProbeNotSent(ProbeSent(l, now), now)
    BY <1>1 DEF Noted, PingRefused
  <2> QED
    BY <1>1, <2>1 DEF ProbeNotSent, ProbeSent, Livenesses
<1>5. /\ m \in Livenesses /\ m.lastSent = Noted.lastSent /\ m.srtt = l.srtt /\ m.state # "dead"
      /\ m.state = "live" => m.misses < PROBES_TO_STALE
      /\ m.misses < PROBES_TO_STALE => m.state = "live"
      /\ m.misses = l.misses + (IF Missed(Noted, now) THEN 1 ELSE 0)
      /\ m.outstanding = IF Missed(Noted, now) THEN None ELSE Noted.outstanding
  BY <1>1, <1>2, <1>3, PollFacts
<1>6. l.misses + 0 = l.misses
  BY <1>1 DEF Livenesses
<1>7. Goes /\ l.outstanding = None => ~Missed(Noted, now)
  <2>1. l.srtt \in Int
    BY <1>1 DEF Livenesses
  <2> QED
    BY <1>1, <1>3, <2>1, DeadlineFacts DEF Missed
<1>8. (Goes /\ l.outstanding # None) \/ ~WatchDue => (Missed(Noted, now) <=> Missed(l, now))
                                                     /\ Noted.outstanding = l.outstanding
  BY <1>3 DEF Missed
<1>9. PingRefused /\ l.outstanding = None => ~Missed(Noted, now)
  BY <1>4 DEF Missed
<1> HIDE DEF m, l
<1> QED
  BY <1>3, <1>4, <1>5, <1>6, <1>7, <1>8, <1>9 DEF m, l, Goes

\* A pass sends and is refused in turn only.
LEMMA AnsweredStep ==
  ASSUME WatchShape, PongsAhead, LiveIsTimely, Answered, PassSent, WatchShape'
  PROVE  Answered'
<1>0. watch'.path = watch.path /\ delay' = delay
  BY DEF WatchShape, PassSent
<1> SUFFICES ASSUME watch.path \notin lost', delay[watch.path] < VISIT_PROBE_INTERVAL
             PROVE  LET l == watch'.live
                        at == watch'.outstanding
                    IN /\ l.state = "live"
                       /\ \/ at = None /\ l.outstanding = None /\ l.misses = 0
                          \/ /\ at # None /\ watch'.sentAt = at /\ l.lastSent = at
                             /\ PongTo(at) \in net'
                             /\ \/ l.outstanding = at /\ l.misses = 0
                                \/ l.outstanding = None /\ l.misses = 1
  BY <1>0 DEF Answered, PongTo
<1> DEFINE b == AfterPoll
           m == b.live
           l == watch.live
           d == delay[watch.path]
<1>1. /\ b \in Watches /\ b.path = watch.path /\ watch \in Watches /\ l \in Livenesses /\ now \in Nat
      /\ b.outstanding = IF Goes THEN now ELSE IF PingRefused THEN None ELSE watch.outstanding
      /\ b.sentAt = IF Goes THEN now ELSE IF PingRefused THEN None ELSE watch.sentAt
  BY PolledFacts DEF WatchShape, Watches
<1>3. watch.path \notin lost /\ ~Gone /\ d < VISIT_PROBE_INTERVAL /\ d \in Nat /\ d >= 1
  BY WatchConstants DEF PassSent, WatchShape
<1>4. /\ l.state = "live"
      /\ \/ watch.outstanding = None /\ l.outstanding = None /\ l.misses = 0
         \/ /\ watch.outstanding # None /\ watch.sentAt = watch.outstanding
            /\ l.lastSent = watch.outstanding
            /\ PongTo(watch.outstanding) \in net
            /\ \/ l.outstanding = watch.outstanding /\ l.misses = 0
               \/ l.outstanding = None /\ l.misses = 1
  BY <1>3 DEF Answered
<1>5. /\ m \in Livenesses /\ m.srtt = l.srtt /\ m.state # "dead"
      /\ m.misses < PROBES_TO_STALE => m.state = "live"
      /\ m.lastSent = IF WatchDue THEN now ELSE l.lastSent
      /\ Goes /\ l.outstanding = None => m.outstanding = now /\ m.misses = l.misses
      /\ (Goes /\ l.outstanding # None) \/ ~WatchDue =>
                 \/ /\ m.outstanding = l.outstanding /\ m.misses = l.misses
                    /\ ~Missed(l, now)
                 \/ /\ m.outstanding = None /\ m.misses = l.misses + 1
                    /\ Missed(l, now)
      /\ PingRefused => /\ l.outstanding = None => m.outstanding = None /\ m.misses = l.misses
  BY <1>4, LivePollFacts
<1>6. ~DiesNow
  BY <1>5 DEF DiesNow
<1>7. watch.deadSince = None
  BY <1>4 DEF LiveIsTimely
<1>8. ASSUME WatchDue PROVE watch.outstanding = None
  <2> SUFFICES ASSUME watch.outstanding # None PROVE FALSE
    OBVIOUS
  <2>1. watch.outstanding \in Nat
    BY <1>1 DEF Watches, Instant
  <2>2. now <= watch.outstanding + d
    BY <1>3, <1>4, <2>1 DEF PongsAhead, PongTo, Pong
  <2>3. now - l.lastSent >= VISIT_PROBE_INTERVAL
    BY <1>4, <1>7, <1>8 DEF WatchDue, ProbeIsDue, ProbeInterval
  <2> QED
    BY <1>1, <1>3, <1>4, <2>1, <2>2, <2>3, WatchConstants
<1> HIDE DEF b, m
\* The answer of the peer to what this pass sends.
<1>9. Goes => PongTo(now) \in net'
  BY <1>3 DEF PassSent, Gone
<1>10. CASE Goes
  <2>1. m.outstanding = now /\ m.misses = 0 /\ m.lastSent = now /\ b.outstanding = now /\ b.sentAt = now
    BY <1>1, <1>4, <1>5, <1>8, <1>10 DEF Goes
  <2>2. ~Heard /\ ~SeenBack /\ ~FoundDead
    BY <1>6, <1>10 DEF Heard, SeenBack, HeardNow, FoundDead
  <2>3. watch' = b
    BY <2>2, DrainFacts DEF Unheard, b
  <2>4. now # None /\ m.state = "live"
    BY <1>1, <1>5, <2>1, WatchConstants DEF None
  <2> QED
    BY <1>9, <1>10, <2>1, <2>3, <2>4 DEF m
<1>11. CASE PingRefused
  <2>1. m.outstanding = None /\ m.misses = 0 /\ b.outstanding = None
    BY <1>1, <1>4, <1>5, <1>8, <1>11 DEF Goes, PingRefused
  <2>2. ~Heard /\ ~SeenBack /\ ~FoundDead
    BY <1>6, <1>11 DEF Heard, SeenBack, HeardNow, FoundDead
  <2>3. watch' = b /\ m.state = "live"
    BY <1>5, <2>1, <2>2, WatchConstants, DrainFacts DEF Unheard, b
  <2> QED
    BY <2>1, <2>3 DEF m
<1>12. CASE ~WatchDue
  <2>1. b.outstanding = watch.outstanding /\ b.sentAt = watch.sentAt /\ m.lastSent = l.lastSent
    BY <1>1, <1>5, <1>12 DEF Goes, PingRefused
  <2>2. /\ m.misses \in {0, 1} /\ m.state = "live"
        /\ watch.outstanding = None => m.outstanding = None /\ m.misses = 0
        /\ watch.outstanding # None => \/ m.outstanding = watch.outstanding /\ m.misses = 0
                                       \/ m.outstanding = None /\ m.misses = 1
    BY <1>4, <1>5, <1>12, WatchConstants DEF Missed
  <2>3. ~FoundDead
    BY <1>6 DEF FoundDead
  <2>4. CASE Unheard
    <3>1. watch' = b
      BY <2>4 DEF Unheard, b
    <3>2. watch.outstanding # None => PongTo(watch.outstanding) \in net'
      BY <1>4, <2>1, <2>4 DEF Unheard, PassSent, b
    <3> QED
      BY <1>4, <2>1, <2>2, <3>1, <3>2 DEF m
  <2>5. CASE SeenBack
    <3>1. watch'.outstanding = None /\ watch'.live = NewLiveness(None)
      BY <1>1, <2>5 DEF SeenBack, Watches, b
    <3>2. None \in Int
      BY DEF None
    <3> QED
      BY <3>1, <3>2, NewLivenessFacts
  <2>6. CASE Heard
    <3>1. watch'.outstanding = None /\ watch'.live = OnPong(m, now - b.sentAt)
      BY <1>1, <2>6 DEF Heard, Watches, b, m
    <3>2. now - b.sentAt \in Int
      BY <1>1 DEF Watches, Instant, None
    <3> QED
      BY <1>5, <2>2, <3>1, <3>2, OnPongFacts
  <2> QED
    BY <2>3, <2>4, <2>5, <2>6, DrainFacts
<1> QED
  BY <1>10, <1>11, <1>12 DEF Goes

\* A pass of a silence: what it counts keeps up with what it lasts.
LEMMA SilenceStep ==
  ASSUME WatchShape, PongsAhead, LiveIsTimely, SilenceCounted, PassSent, WatchShape'
  PROVE  SilenceCounted'
<1> SUFFICES ASSUME quiet' # None, Queue \notin lost', watch'.live.state = "live"
             PROVE  LET l == watch'.live
                        span == ProbeLossDeadline(l.srtt) + VISIT_PROBE_INTERVAL
                    IN /\ quiet' \in Nat
                       /\ l.outstanding # None => l.outstanding <= quiet' + l.misses * span
                       /\ l.outstanding = None =>
                            /\ l.misses >= 1 /\ l.lastSent # None
                            /\ l.lastSent <= quiet' + l.misses * span - VISIT_PROBE_INTERVAL
  BY DEF SilenceCounted, MissSpan
<1> DEFINE b == AfterPoll
           m == b.live
           l == watch.live
           D == ProbeLossDeadline(l.srtt)
           V == VISIT_PROBE_INTERVAL
           q == quiet'
<1>1. /\ b \in Watches /\ b.deadSince = watch.deadSince /\ l \in Livenesses /\ now \in Nat
      /\ b.sentAt \in Int /\ m \in Livenesses
  BY PolledFacts DEF WatchShape, Watches, Instant, None
<1>2. Queue \notin lost /\ ~PingRefused
  BY DEF PassSent
<1>3. Unheard
  <2>1. CASE FoundDead
    <3>1. watch'.live = m /\ m.state = "dead"
      BY <1>1, <2>1 DEF FoundDead, DiesNow, Watches
    <3> QED
      BY <3>1
  <2>2. CASE SeenBack \/ Heard
    <3>1. ~Goes /\ Arrived # {}
      BY <2>2 DEF SeenBack, Heard, HeardNow
    <3> QED
      BY <3>1 DEF PassSent, Gone
  <2> QED
    BY <2>1, <2>2, DrainFacts
<1>4. watch'.live = m /\ m.state = "live"
  BY <1>3 DEF Unheard
<1>5. l.state = "live"
  <2>1. m = Poll(Noted, now) /\ Noted \in Livenesses /\ Noted.state = l.state
    BY PolledFacts, NotedFacts
  <2> QED
    BY <1>1, <1>4, <2>1, PollFacts
<1>6. /\ m.srtt = l.srtt
      /\ m.lastSent = IF WatchDue THEN now ELSE l.lastSent
      /\ Goes /\ l.outstanding = None => m.outstanding = now /\ m.misses = l.misses
      /\ (Goes /\ l.outstanding # None) \/ ~WatchDue =>
                 \/ /\ m.outstanding = l.outstanding /\ m.misses = l.misses
                    /\ ~Missed(l, now)
                 \/ /\ m.outstanding = None /\ m.misses = l.misses + 1
                    /\ Missed(l, now)
  BY <1>5, LivePollFacts
<1>7. D \in Nat /\ D >= 1 /\ V \in Nat /\ V >= 1
  BY <1>1, DeadlineFacts, WatchConstants DEF Livenesses
<1>8. /\ l.misses \in Nat /\ l.outstanding \in Int /\ l.lastSent \in Int
      /\ l.lastSent < now
      /\ l.outstanding # None => now <= l.outstanding + D /\ l.lastSent # None /\ l.outstanding \in Nat
      /\ l.lastSent # None => now <= l.lastSent + V
  BY <1>1, <1>5 DEF Livenesses, Instant, None, LiveIsTimely
<1>9. \/ Gone /\ q = now
      \/ q = quiet /\ quiet # None
  BY DEF PassSent
<1> DEFINE X == l.misses * (D + V)
<1>10. /\ X \in Nat /\ (l.misses + 1) * (D + V) = X + D + V
  BY <1>7, <1>8
<1>11. ASSUME Gone, q = now
       PROVE  /\ m.outstanding # None => m.outstanding <= q + m.misses * (D + V)
              /\ m.outstanding = None =>
                   /\ m.misses >= 1 /\ m.lastSent # None
                   /\ m.lastSent <= q + m.misses * (D + V) - V
  <2>1. Goes /\ WatchDue /\ m.lastSent = now
    BY <1>6, <1>11 DEF Gone, Goes
  <2>2. l.outstanding # None => l.outstanding < now
    BY <1>5 DEF LiveIsTimely
  <2> HIDE DEF X, D, V, m, l
  <2>3. \/ m.outstanding \in {now, l.outstanding} /\ m.outstanding # None /\ m.misses = l.misses
        \/ m.outstanding = None /\ m.misses = l.misses + 1
    <3>1. now # None
      BY <1>1 DEF None
    <3>2. CASE l.outstanding = None
      BY <1>6, <2>1, <3>1, <3>2
    <3>3. CASE l.outstanding # None
      BY <1>6, <2>1, <3>3
    <3> QED
      BY <3>2, <3>3
  <2>4. CASE m.outstanding \in {now, l.outstanding} /\ m.outstanding # None /\ m.misses = l.misses
    <3>1. m.misses * (D + V) = X /\ m.outstanding <= now
      BY <1>1, <1>8, <2>2, <2>4 DEF X
    <3> QED
      BY <1>1, <1>8, <1>10, <1>11, <2>4, <3>1
  <2>5. CASE m.outstanding = None /\ m.misses = l.misses + 1
    <3>1. m.misses * (D + V) = X + D + V /\ now # None /\ m.misses >= 1
      BY <1>1, <1>8, <1>10, <2>5 DEF None
    <3> QED
      BY <1>1, <1>7, <1>10, <1>11, <2>1, <2>5, <3>1
  <2> QED
    BY <2>3, <2>4, <2>5
<1>12. ASSUME q = quiet, quiet # None
       PROVE  /\ q \in Nat
              /\ m.outstanding # None => m.outstanding <= q + m.misses * (D + V)
              /\ m.outstanding = None =>
                   /\ m.misses >= 1 /\ m.lastSent # None
                   /\ m.lastSent <= q + m.misses * (D + V) - V
  <2>1. /\ q \in Nat
        /\ l.outstanding # None => l.outstanding <= q + X
        /\ l.outstanding = None =>
             l.misses >= 1 /\ l.lastSent # None /\ l.lastSent <= q + X - V
    BY <1>2, <1>5, <1>12 DEF SilenceCounted, MissSpan
  <2> HIDE DEF X, D, V, m, l, q
  <2>2. CASE Goes /\ l.outstanding = None
    <3>1. m.outstanding = now /\ m.misses * (D + V) = X
      BY <1>6, <2>2 DEF X
    <3> QED
      BY <1>1, <1>7, <1>8, <1>10, <2>1, <2>2, <3>1 DEF None
  <2>3. CASE (Goes /\ l.outstanding # None) \/ ~WatchDue
    <3>1. CASE m.outstanding = l.outstanding /\ m.misses = l.misses
      <4>1. m.misses * (D + V) = X
        BY <3>1 DEF X
      <4>2. l.outstanding = None => m.lastSent = l.lastSent
        BY <1>6, <2>3
      <4> QED
        BY <1>1, <1>7, <1>8, <1>10, <2>1, <3>1, <4>1, <4>2
    <3>2. CASE m.outstanding = None /\ m.misses = l.misses + 1 /\ Missed(l, now)
      <4>1. m.misses * (D + V) = X + D + V /\ m.misses >= 1
        BY <1>8, <1>10, <3>2
      <4>2. l.outstanding # None
        BY <3>2 DEF Missed
      <4>3. m.lastSent \in {now, l.lastSent} /\ now # None
        BY <1>1, <1>6 DEF None
      <4>4. now <= q + X + D
        BY <1>1, <1>7, <1>8, <1>10, <2>1, <4>2
      <4> QED
        BY <1>1, <1>7, <1>8, <1>10, <2>1, <3>2, <4>1, <4>2, <4>3, <4>4
    <3> QED
      BY <1>6, <2>3, <3>1, <3>2
  <2> QED
    BY <1>2, <2>1, <2>2, <2>3 DEF Goes
<1> QED
  BY <1>1, <1>4, <1>6, <1>9, <1>11, <1>12

\* A pass over a dead path.
LEMMA DeadStep ==
  ASSUME WatchShape, PongsAhead, LiveIsTimely, DeadIsProbed, PassSent, WatchShape'
  PROVE  DeadIsProbed'
<1> DEFINE x == watch'.deadSince
           s == watch'.lastDeadProbe
           d == delay[watch.path]
           P == DEAD_PROBE_INTERVAL
           x0 == watch.deadSince
           s0 == watch.lastDeadProbe
           b == AfterPoll
<1>0. watch'.path = watch.path /\ delay' = delay /\ losing' = losing /\ steady' = steady /\ now' = now + 1
  BY DEF WatchShape, PassSent
<1> SUFFICES ASSUME x # None
             PROVE  /\ s # None => now + 1 <= s + P
                    /\ s = None /\ Queue \notin losing => now + 1 <= Largest(x + 1, steady)
                    /\ s # None /\ s >= steady /\ d < P /\ watch.path \notin losing
                       => watch'.outstanding = s /\ PongTo(s) \in net'
                    /\ s # None /\ s >= steady /\ d < P /\ watch.path \notin losing
                                /\ Queue \notin losing
                       => s <= Largest(x, steady) + P
  BY <1>0 DEF DeadIsProbed, PongTo
<1>1. /\ b \in Watches /\ b.deadSince = x0 /\ watch \in Watches
      /\ b.outstanding = IF Goes THEN now ELSE IF PingRefused THEN None ELSE watch.outstanding
      /\ b.lastDeadProbe = IF x0 = None THEN None
                           ELSE IF Goes THEN now
                           ELSE IF PingRefused THEN None ELSE s0
  BY PolledFacts DEF WatchShape
<1>2. /\ now \in Nat /\ steady \in Nat /\ P \in Nat /\ P >= 1
      /\ x0 \in Int /\ s0 \in Int /\ x0 < now /\ s0 < now /\ d \in Nat
  BY WatchConstants DEF WatchShape, Watches, Instant, None, LiveIsTimely
<1> HIDE DEF b
<1>3. CASE FoundDead
  <2>1. x = now /\ x0 = None
    BY <1>1, <1>3 DEF FoundDead, Watches, DiesNow, LiveIsTimely, b
  <2>2. s = None
    BY <1>1, <1>3, <2>1 DEF FoundDead, Watches, b
  <2> QED
    BY <1>2, <2>1, <2>2 DEF Largest
<1>4. CASE SeenBack
  BY <1>1, <1>4 DEF SeenBack, Watches, b
<1>5. CASE Heard
  BY <1>1, <1>5 DEF Heard, Watches, b
<1>6. CASE Unheard
  <2>1. watch' = b /\ x = x0 /\ x0 # None
    BY <1>1, <1>6 DEF Unheard, b
  <2>2. /\ s0 # None => now <= s0 + P
        /\ s0 = None /\ Queue \notin losing => now <= Largest(x0 + 1, steady)
        /\ s0 # None /\ s0 >= steady /\ d < P /\ watch.path \notin losing
           => watch.outstanding = s0 /\ PongTo(s0) \in net
        /\ s0 # None /\ s0 >= steady /\ d < P /\ watch.path \notin losing
                     /\ Queue \notin losing
           => s0 <= Largest(x0, steady) + P
    BY <2>1 DEF DeadIsProbed
  <2>3. WatchDue <=> s0 = None \/ now - s0 >= P
    BY <2>1 DEF WatchDue
  <2>4. CASE Goes
    <3>1. s = now /\ watch'.outstanding = now /\ WatchDue
      BY <1>1, <2>1, <2>4 DEF Goes
    <3>2. watch.path \notin losing => PongTo(now) \in net'
      BY <2>4 DEF PassSent
    <3>3. ASSUME now >= steady, d < P, watch.path \notin losing, Queue \notin losing
          PROVE  now <= Largest(x0, steady) + P
      <4>1. CASE s0 = None
        BY <1>2, <2>2, <3>3, <4>1 DEF Largest
      <4>2. CASE s0 # None
        <5>1. now = s0 + P
          BY <1>2, <2>2, <2>3, <3>1, <4>2
        <5>2. ~(s0 >= steady)
          <6> SUFFICES ASSUME s0 >= steady PROVE FALSE
            OBVIOUS
          <6>1. PongTo(s0) \in net
            BY <2>2, <3>3, <4>2
          <6>2. now <= PongTo(s0).due
            BY <6>1 DEF PongsAhead
          <6>3. now <= s0 + d
            BY <6>2 DEF PongTo, Pong
          <6> QED
            BY <1>2, <3>3, <5>1, <6>3
        <5> QED
          BY <1>2, <5>1, <5>2 DEF Largest
      <4> QED
        BY <4>1, <4>2
    <3>4. now # None /\ now + 1 <= now + P
      BY <1>2 DEF None
    <3> HIDE DEF x, s, d, P, x0
    <3> QED
      BY <2>1, <3>1, <3>2, <3>3, <3>4
  <2>5. CASE PingRefused
    <3>1. s = None /\ Queue \in losing
      BY <1>1, <2>1, <2>5 DEF Goes, PingRefused
    <3> QED
      BY <3>1
  <2>6. CASE ~WatchDue
    <3>1. s = s0 /\ watch'.outstanding = watch.outstanding
      BY <1>1, <2>1, <2>6 DEF Goes, PingRefused
    <3>2. s0 # None /\ now + 1 <= s0 + P
      BY <1>2, <2>3, <2>6
    <3>3. ASSUME watch.outstanding = s0, PongTo(s0) \in net PROVE PongTo(s0) \in net'
      <4>1. PongTo(s0) \notin Arrived
        BY <1>6, <2>1, <3>1, <3>3 DEF Unheard, b
      <4> QED
        BY <3>3, <4>1 DEF PassSent
    <3> QED
      BY <2>1, <2>2, <3>1, <3>2, <3>3
  <2> QED
    BY <2>4, <2>5, <2>6 DEF Goes
<1> QED
  BY <1>3, <1>4, <1>5, <1>6, DrainFacts

\* The other steps of a watch: the network turns, and a watch begins.
LEMMA FlipStep ==
  ASSUME NEW p, Flip(p), InWatch, WatchInv
  PROVE  WatchInv'
<1>1. /\ UNCHANGED <<phase, now, lists, table, prog, winner, watch, limiter, net, delay, ok, lost, quiet>>
      /\ steady' = now /\ now \in Nat
      /\ WatchShape /\ PongsAhead /\ WindowHasRoom /\ LiveIsTimely
      /\ Answered /\ SilenceCounted /\ DeadIsProbed
  BY DEF Flip, WatchInv, WatchShape
<1>2. WatchShape' /\ PongsAhead' /\ WindowHasRoom' /\ LiveIsTimely' /\ Answered' /\ SilenceCounted'
  BY <1>1 DEF WatchShape, PongsAhead, WindowHasRoom, LiveIsTimely, Answered, SilenceCounted, MissSpan,
              PongTo, Watches
<1>3. DeadIsProbed'
  <2>1. /\ watch.lastDeadProbe \in Int /\ watch.deadSince \in Int
        /\ watch.lastDeadProbe < now
    BY <1>1 DEF WatchShape, Watches, Instant, None, LiveIsTimely
  <2>2. watch.deadSince # None /\ watch.lastDeadProbe # None =>
          now <= watch.lastDeadProbe + DEAD_PROBE_INTERVAL
    BY <1>1 DEF DeadIsProbed
  <2>3. ~(watch.lastDeadProbe >= steady') /\ now <= Largest(watch.deadSince + 1, steady')
    BY <1>1, <2>1 DEF Largest
  <2> QED
    BY <1>1, <2>2, <2>3 DEF DeadIsProbed
<1> QED
  BY <1>2, <1>3 DEF WatchInv

LEMMA WatchBegins ==
  ASSUME NEW p, NEW path, NEW srtt \in Int, BeginWatching(p, path, srtt),
         p = "relayed" => path = RelayPath
  PROVE  WatchInv'
<1> DEFINE w == [path |-> path, live |-> NewLiveness(srtt), outstanding |-> None, sentAt |-> None,
                 deadSince |-> None, lastDeadProbe |-> None]
<1>1. /\ phase' = p /\ now' = 0 /\ net' = {} /\ limiter' = [start |-> 0, answered |-> 0]
      /\ delay' \in [{path} -> Delays] /\ quiet' = None /\ steady' = 0
      /\ watch' = w
  BY DEF BeginWatching, BeginPhase
<1>2. /\ NewLiveness(srtt) \in Livenesses
      /\ NewLiveness(srtt).state = "live" /\ NewLiveness(srtt).misses = 0
      /\ NewLiveness(srtt).outstanding = None /\ NewLiveness(srtt).lastSent = None
  BY NewLivenessFacts
<1>3. w \in Watches'
  BY <1>1, <1>2 DEF Watches, Instant
<1>4. WatchShape'
  BY <1>1, <1>3 DEF WatchShape
<1>5. PongsAhead' /\ WindowHasRoom'
  BY <1>1 DEF PongsAhead, WindowHasRoom
<1>6. LiveIsTimely'
  BY <1>1, <1>2, WatchConstants DEF LiveIsTimely, None
<1>7. Answered' /\ SilenceCounted' /\ DeadIsProbed'
  BY <1>1, <1>2 DEF Answered, SilenceCounted, DeadIsProbed
<1> QED
  BY <1>4, <1>5, <1>6, <1>7 DEF WatchInv

LEMMA WatchPassStep ==
  ASSUME InWatch, WatchInv, WatchPass
  PROVE  WatchInv'
<1>1. /\ WatchShape /\ PongsAhead /\ WindowHasRoom /\ LiveIsTimely
      /\ Answered /\ SilenceCounted /\ DeadIsProbed
  BY DEF WatchInv
<1>2. PassSent
  BY <1>1, PassFacts
<1>3. WatchShape' /\ PongsAhead' /\ WindowHasRoom'
  BY <1>1, <1>2, ShapeStep
<1>4. LiveIsTimely'
  BY <1>1, <1>2, TimelyStep
<1>5. Answered'
  BY <1>1, <1>2, <1>3, AnsweredStep
<1>6. SilenceCounted'
  BY <1>1, <1>2, <1>3, SilenceStep
<1>7. DeadIsProbed'
  BY <1>1, <1>2, <1>3, DeadStep
<1> QED
  BY <1>3, <1>4, <1>5, <1>6, <1>7 DEF WatchInv

\* What the watch promises.
LEMMA WatchPromises ==
  ASSUME WatchInv
  PROVE  AnsweringPathStaysLive /\ SilenceDetected /\ DeadRelayIsSeenBack
<1>1. AnsweringPathStaysLive
  BY DEF WatchInv, InWatch, Answered, AnsweringPathStaysLive
<1>2. SilenceDetected
  <2> DEFINE l == watch.live
             D == ProbeLossDeadline(l.srtt)
             V == VISIT_PROBE_INTERVAL
             P == PROBES_TO_STALE
  <2> SUFFICES ASSUME InWatch, quiet # None, Queue \notin lost, l.state = "live"
               PROVE  now - quiet <= P * D + (P - 1) * V
    BY DEF SilenceDetected, InWatch
  <2>1. /\ l \in Livenesses /\ now \in Nat
        /\ l.misses < P
        /\ l.lastSent # None => now <= l.lastSent + V
        /\ l.outstanding # None => now <= l.outstanding + D
        /\ quiet \in Nat
        /\ l.outstanding # None => l.outstanding <= quiet + l.misses * (D + V)
        /\ l.outstanding = None =>
             /\ l.misses >= 1 /\ l.lastSent # None
             /\ l.lastSent <= quiet + l.misses * (D + V) - V
    BY DEF WatchInv, WatchShape, Watches, LiveIsTimely, SilenceCounted, MissSpan
  <2>2. D \in Nat /\ D >= 1 /\ V \in Nat /\ P \in Nat
    BY <2>1, DeadlineFacts, WatchConstants DEF Livenesses
  <2>3. l.misses \in Nat /\ l.outstanding \in Int /\ l.lastSent \in Int
    BY <2>1 DEF Livenesses, Instant, None
  <2> DEFINE n == l.misses
  <2> HIDE DEF l, D, V, P
  <2>4. n * (D + V) <= (P - 1) * (D + V)
    <3>1. n <= P - 1 /\ P - 1 \in Int /\ D + V \in Nat
      BY <2>1, <2>2, <2>3
    <3> HIDE DEF n
    <3> QED
      BY <2>3, <3>1 DEF n
  <2>5. (P - 1) * (D + V) + D = P * D + (P - 1) * V
    BY <2>2
  <2> DEFINE X == n * (D + V)
             Y == (P - 1) * (D + V)
             Z == P * D + (P - 1) * V
  <2>6. X \in Int /\ Y \in Int /\ Z \in Int
    BY <2>2, <2>3
  <2>7. now <= quiet + X + D
    BY <2>1, <2>2, <2>3, <2>6
  <2> HIDE DEF X, Y, Z
  <2>8. now - quiet <= Z
    BY <2>1, <2>2, <2>4, <2>5, <2>6, <2>7 DEF X, Y, Z
  <2> QED
    BY <2>8 DEF Z
<1>3. DeadRelayIsSeenBack
  <2> DEFINE x == watch.deadSince
             s == watch.lastDeadProbe
             d == delay[watch.path]
             P == DEAD_PROBE_INTERVAL
  <2> SUFFICES ASSUME phase = "relayed", x # None, RelayPath \notin losing, Queue \notin losing,
                      delay[RelayPath] < P
               PROVE  now - Largest(x, steady) <= P + delay[RelayPath] + 1
    BY DEF DeadRelayIsSeenBack
  <2>1. watch.path = RelayPath /\ d = delay[RelayPath]
    BY DEF WatchInv, InWatch, WatchShape
  <2>2. /\ s # None => now <= s + P
        /\ s = None => now <= Largest(x + 1, steady)
        /\ s # None /\ s >= steady => s <= Largest(x, steady) + P /\ PongTo(s) \in net
    BY <2>1 DEF WatchInv, InWatch, DeadIsProbed
  <2>3. /\ now \in Nat /\ steady \in Nat /\ x \in Int /\ s \in Int /\ d \in Nat /\ P \in Nat /\ P >= 1
    BY WatchConstants DEF WatchInv, InWatch, WatchShape, Watches, Instant, None
  <2>4. s # None /\ s >= steady => now <= s + d
    <3>1. PongTo(s) \in net => now <= PongTo(s).due
      BY DEF WatchInv, InWatch, PongsAhead
    <3>2. PongTo(s).due = s + d
      BY DEF PongTo, Pong
    <3> QED
      BY <2>2, <3>1, <3>2
  <2> HIDE DEF x, s, d, P
  <2> QED
    BY <2>1, <2>2, <2>3, <2>4 DEF Largest
<1> QED
  BY <1>1, <1>2, <1>3

-----------------------------------------------------------------------------
(* Folds.  A fold is a function defined on the subsets of what is folded;  *)
(* the lemmas say that there is one, and what it is on the prefixes.       *)

\* A set of naturals that is not empty has a least member.
LEMMA LeastNumber ==
  ASSUME NEW S \in SUBSET Nat, S # {}
  PROVE  \E m \in S : \A n \in S : m <= n
<1> DEFINE R == OpToRel(<, Nat)
<1>1. \A x, y \in Nat : x < y => <<x, y>> \in R
  BY DEF OpToRel
<1>2. IsWellFoundedOn(R, Nat)
  BY NatLessThanWellFounded
<1> HIDE DEF R
<1>3. PICK m \in S : \A n \in S : ~(<<n, m>> \in R)
  BY <1>2, WFMin, Zenon
<1>4. ASSUME NEW n \in S PROVE m <= n
  <2>1. m \in Nat /\ n \in Nat /\ ~(n < m)
    BY <1>1, <1>3
  <2> QED
    BY <2>1
<1> QED
  BY <1>3, <1>4

\* What holds of 0 and of each number after one of which it holds.
LEMMA StepByStep ==
  ASSUME NEW N \in Nat, NEW S, 0 \in S, \A k \in 1..N : k - 1 \in S => k \in S
  PROVE  0..N \subseteq S
<1> SUFFICES ASSUME NEW z \in 0..N, z \notin S PROVE FALSE
  OBVIOUS
<1> DEFINE Out == {k \in 0..N : k \notin S}
<1>0. Out \in SUBSET Nat /\ z \in Out
  OBVIOUS
<1>1. PICK k \in Out : \A n \in Out : k <= n
  BY <1>0, LeastNumber
<1>2. k \in 1..N
  BY <1>1
<1>3. k - 1 \in 0..N /\ k - 1 \notin Out
  BY <1>1, <1>2
<1> QED
  BY <1>1, <1>2, <1>3

LEMMA MaxFacts ==
  ASSUME NEW n \in Nat, NEW s \in SUBSET (1..n), s # {}
  PROVE  /\ Max(s) \in s /\ \A y \in s : Max(s) >= y
         /\ n \in s => Max(s) = n
<1> DEFINE D == {n - x : x \in s}
<1>1. D \in SUBSET Nat /\ D # {}
  <2>1. \A x \in s : x \in Nat /\ n - x \in Nat
    OBVIOUS
  <2>2. PICK x \in s : TRUE
    OBVIOUS
  <2> QED
    BY <2>1, <2>2
<1>2. PICK m \in D : \A d \in D : m <= d
  BY <1>1, LeastNumber
<1>3. PICK x \in s : m = n - x
  BY <1>2
<1>4. \A y \in s : x >= y
  <2> SUFFICES ASSUME NEW y \in s PROVE x >= y
    OBVIOUS
  <2>1. n - y \in D
    OBVIOUS
  <2>2. m <= n - y /\ x \in Int /\ y \in Int
    BY <1>2, <2>1
  <2> QED
    BY <1>3, <2>2
<1>5. Max(s) \in s /\ \A y \in s : Max(s) >= y
  BY <1>4 DEF Max
<1>6. Max(s) \in 1..n
  BY <1>5
<1> QED
  BY <1>5, <1>6

\* The equation of a left fold over n places, and its solution.
FoldsUp(it, n, b, G) ==
  it = [s \in SUBSET (1..n) |->
          IF s = {} THEN b ELSE G[<<it[s \ {Max(s)}], Max(s)>>]]

LEMMA FoldExists ==
  ASSUME NEW V, NEW b \in V, NEW N \in Nat, NEW G \in [V \X (1..N) -> V]
  PROVE  \E it \in [SUBSET (1..N) -> V] : FoldsUp(it, N, b, G)
<1> DEFINE S == {n \in 0..N : \E it \in [SUBSET (1..n) -> V] : FoldsUp(it, n, b, G)}
<1>1. 0 \in S
  <2> DEFINE it == [s \in SUBSET (1..0) |-> b]
  <2>1. \A s \in SUBSET (1..0) : s = {}
    OBVIOUS
  <2>2. it \in [SUBSET (1..0) -> V] /\ FoldsUp(it, 0, b, G)
    BY <2>1 DEF FoldsUp
  <2> QED
    BY <2>2
<1>2. ASSUME NEW n \in 1..N, n - 1 \in S PROVE n \in S
  <2>1. PICK f \in [SUBSET (1..(n - 1)) -> V] : FoldsUp(f, n - 1, b, G)
    BY <1>2
  <2> DEFINE P == SUBSET (1..(n - 1))
             Q == SUBSET (1..n)
             it == [s \in Q |-> IF n \in s THEN G[<<f[s \ {n}], n>>] ELSE f[s]]
  <2>2. \A s \in Q : /\ s \ {n} \in P
                     /\ n \notin s => s \in P
    OBVIOUS
  <2>3. it \in [Q -> V]
    <3> SUFFICES ASSUME NEW s \in Q PROVE it[s] \in V
      OBVIOUS
    <3>1. f[s \ {n}] \in V /\ (n \notin s => f[s] \in V)
      BY <2>2
    <3> QED
      BY <3>1
  <2>4. \A s \in Q : it[s] = IF s = {} THEN b ELSE G[<<it[s \ {Max(s)}], Max(s)>>]
    <3> SUFFICES ASSUME NEW s \in Q
                 PROVE  it[s] = IF s = {} THEN b ELSE G[<<it[s \ {Max(s)}], Max(s)>>]
      OBVIOUS
    <3>1. CASE n \in s
      <4>1. Max(s) = n
        BY <3>1, MaxFacts
      <4>2. s \ {n} \in Q /\ it[s \ {n}] = f[s \ {n}]
        BY <2>2
      <4> QED
        BY <3>1, <4>1, <4>2
    <3>2. CASE n \notin s
      <4>1. s \in P /\ it[s] = f[s]
        BY <2>2, <3>2
      <4>2. f[s] = IF s = {} THEN b ELSE G[<<f[s \ {Max(s)}], Max(s)>>]
        BY <2>1, <4>1 DEF FoldsUp
      <4>3. n \notin s \ {Max(s)} /\ s \ {Max(s)} \in Q
        BY <3>2
      <4> QED
        BY <4>1, <4>2, <4>3
    <3> QED
      BY <3>1, <3>2
  <2>5. FoldsUp(it, n, b, G)
    <3> HIDE DEF it
    <3> QED
      BY <2>3, <2>4 DEF FoldsUp
  <2> HIDE DEF it
  <2> QED
    BY <2>3, <2>5
<1> HIDE DEF S
<1>3. 0..N \subseteq S
  BY <1>1, <1>2, StepByStep
<1>4. N \in S
  BY <1>3
<1> QED
  BY <1>4 DEF S

\* The prefixes of a fold.
LEMMA PrefixFacts ==
  ASSUME NEW N \in Nat, NEW k \in 1..N
  PROVE  /\ 1..k \in SUBSET (1..N) /\ 1..k # {}
         /\ Max(1..k) = k /\ (1..k) \ {k} = 1..(k - 1)
<1>1. 1..k \in SUBSET (1..k) /\ k \in 1..k /\ 1..k \in SUBSET (1..N)
  OBVIOUS
<1>2. Max(1..k) = k
  BY <1>1, MaxFacts
<1>3. (1..k) \ {k} = 1..(k - 1)
  OBVIOUS
<1> QED
  BY <1>1, <1>2, <1>3

\* The sum of round trips.
SumOf(q) == FoldLeft(LAMBDA a, b : a + b, 0, q)

LEMMA SumFacts ==
  ASSUME NEW q \in Seq(Nat)
  PROVE  SumOf(q) \in Nat
<1> DEFINE N == Len(q)
           G == [p \in Nat \X (1..N) |-> p[1] + q[p[2]]]
           Body(it, s) == IF s = {} THEN 0 ELSE it[s \ {Max(s)}] + q[Max(s)]
           c == CHOOSE it : it = [s \in SUBSET (1..N) |-> Body(it, s)]
<1>1. N \in Nat /\ DOMAIN q = 1..N /\ \A i \in 1..N : q[i] \in Nat
  OBVIOUS
<1>2. G \in [Nat \X (1..N) -> Nat]
  BY <1>1
<1>3. PICK f \in [SUBSET (1..N) -> Nat] : FoldsUp(f, N, 0, G)
  BY <1>1, <1>2, FoldExists
<1>4. \A s \in SUBSET (1..N) : f[s] = Body(f, s)
  <2> SUFFICES ASSUME NEW s \in SUBSET (1..N), s # {} PROVE f[s] = Body(f, s)
    BY <1>3 DEF FoldsUp
  <2>1. Max(s) \in 1..N /\ s \ {Max(s)} \in SUBSET (1..N)
    BY <1>1, MaxFacts
  <2>2. f[s] = G[<<f[s \ {Max(s)}], Max(s)>>]
    BY <1>3 DEF FoldsUp
  <2> QED
    BY <2>1, <2>2
<1>5. f = [s \in SUBSET (1..N) |-> Body(f, s)]
  BY <1>4
<1>6. c = [s \in SUBSET (1..N) |-> Body(c, s)]
  BY <1>5
<1>7. SumOf(q) = c[1..N]
  BY <1>1 DEF SumOf, FoldLeft, MapThenFoldSet
<1> HIDE DEF c
<1> DEFINE S == {k \in 0..N : c[1..k] \in Nat}
<1>8. 0 \in S
  BY <1>6
<1>9. ASSUME NEW k \in 1..N, k - 1 \in S PROVE k \in S
  <2>1. c[1..k] = Body(c, 1..k) /\ 1..k # {} /\ Max(1..k) = k /\ (1..k) \ {k} = 1..(k - 1)
    BY <1>1, <1>6, PrefixFacts
  <2>2. c[1..k] = c[1..(k - 1)] + q[k]
    BY <2>1
  <2> QED
    BY <1>1, <1>9, <2>2
<1> HIDE DEF S
<1>10. 0..N \subseteq S
  BY <1>1, <1>8, <1>9, StepByStep
<1>11. N \in S
  BY <1>1, <1>10
<1> QED
  BY <1>7, <1>11 DEF S


-----------------------------------------------------------------------------
(* CandidateTable: the table of an attempt, step by step.                  *)

Address == [host : Hosts, mapped : BOOLEAN]

Entries == [addr : Address, source : {"peerReported", "discovery"}]

Tables == [cands : Seq(Entries), vouched : SUBSET Address, discovered : Nat]

LEMMA AddFacts ==
  ASSUME NEW t \in Tables, NEW a \in Address, NEW source \in {"peerReported", "discovery"}
  PROVE  LET u == AddCandidate(t, a, source)
             e == [addr |-> Unmap(a), source |-> source]
         IN /\ u \in Tables /\ Unmap(a) \in Address
            /\ u.vouched = t.vouched
            /\ u.cands = IF Admissible(t, Unmap(a), source) THEN Append(t.cands, e) ELSE t.cands
<1>1. Unmap(a) \in Address
  BY DEF Unmap, Address
<1>2. [addr |-> Unmap(a), source |-> source] \in Entries
  BY <1>1 DEF Entries
<1>3. Append(t.cands, [addr |-> Unmap(a), source |-> source]) \in Seq(Entries)
  BY <1>2 DEF Tables
<1> QED
  BY <1>1, <1>3 DEF AddCandidate, Tables

LEMMA VouchFacts ==
  ASSUME NEW t \in Tables, NEW a \in Address
  PROVE  /\ Vouch(t, a) \in Tables /\ Vouch(t, a).cands = t.cands
         /\ Vouch(t, a).vouched = t.vouched \cup {Unmap(a)}
BY DEF Vouch, Tables, Unmap, Address

LEMMA DiscoveredFacts ==
  ASSUME NEW t \in Tables, NEW a \in Address
  PROVE  LET u == AddDiscovered(t, a)
             v == Vouch(t, a)
         IN /\ u \in Tables
            /\ u.vouched = t.vouched \cup {Unmap(a)}
            /\ \/ u.cands = t.cands
               \/ u.cands = AddCandidate(v, a, "discovery").cands
<1>1. /\ Vouch(t, a) \in Tables /\ Vouch(t, a).cands = t.cands
      /\ Vouch(t, a).vouched = t.vouched \cup {Unmap(a)}
  BY VouchFacts
<1>2. LET w == AddCandidate(Vouch(t, a), a, "discovery") IN
      w \in Tables /\ w.vouched = Vouch(t, a).vouched
  BY <1>1, AddFacts
<1> QED
  BY <1>1, <1>2 DEF AddDiscovered, Tables

\* What discovery heard vouches.
LEMMA VouchedRun ==
  ASSUME NEW t \in Tables, NEW q \in Seq(Address)
  PROVE  \E r : /\ r[0] = t
                /\ \A k \in 1..Len(q) : r[k] = Vouch(r[k - 1], q[k])
                /\ FoldLeft(Vouch, t, q) = r[Len(q)]
<1> DEFINE N == Len(q)
           G == [p \in Tables \X (1..N) |-> Vouch(p[1], q[p[2]])]
           Body(it, s) == IF s = {} THEN t ELSE Vouch(it[s \ {Max(s)}], q[Max(s)])
           c == CHOOSE it : it = [s \in SUBSET (1..N) |-> Body(it, s)]
<1>1. N \in Nat /\ DOMAIN q = 1..N /\ \A i \in 1..N : q[i] \in Address
  OBVIOUS
<1>2. G \in [Tables \X (1..N) -> Tables]
  BY <1>1, VouchFacts
<1>3. PICK f \in [SUBSET (1..N) -> Tables] : FoldsUp(f, N, t, G)
  BY <1>1, <1>2, FoldExists
<1>4. \A s \in SUBSET (1..N) : f[s] = Body(f, s)
  <2> SUFFICES ASSUME NEW s \in SUBSET (1..N), s # {} PROVE f[s] = Body(f, s)
    BY <1>3 DEF FoldsUp
  <2>1. Max(s) \in 1..N /\ s \ {Max(s)} \in SUBSET (1..N)
    BY <1>1, MaxFacts
  <2>2. f[s] = G[<<f[s \ {Max(s)}], Max(s)>>]
    BY <1>3 DEF FoldsUp
  <2> QED
    BY <2>1, <2>2
<1>5. f = [s \in SUBSET (1..N) |-> Body(f, s)]
  BY <1>4
<1>6. c = [s \in SUBSET (1..N) |-> Body(c, s)]
  BY <1>5
<1>7. FoldLeft(Vouch, t, q) = c[1..N]
  BY <1>1 DEF FoldLeft, MapThenFoldSet
<1> HIDE DEF c
<1> DEFINE r == [k \in 0..N |-> c[1..k]]
<1>8. r[0] = t
  BY <1>1, <1>6
<1>9. ASSUME NEW k \in 1..N PROVE r[k] = Vouch(r[k - 1], q[k])
  <2>1. c[1..k] = Body(c, 1..k) /\ 1..k # {} /\ Max(1..k) = k /\ (1..k) \ {k} = 1..(k - 1)
    BY <1>1, <1>6, PrefixFacts
  <2>2. r[k] = c[1..k] /\ r[k - 1] = c[1..(k - 1)]
    BY <1>1
  <2> QED
    BY <2>1, <2>2
<1>10. r[N] = c[1..N]
  BY <1>1
<1> HIDE DEF r
<1> QED
  BY <1>7, <1>8, <1>9, <1>10

\* The peer's list takes its slots.
LEMMA PeerRun ==
  ASSUME NEW t \in Tables, NEW q \in Seq(Address)
  PROVE  \E r : /\ r[0] = t
                /\ \A k \in 1..Len(q) : r[k] = AddCandidate(r[k - 1], q[k], "peerReported")
                /\ AddPeerCandidates(t, q) = r[Len(q)]
<1> DEFINE N == Len(q)
           G == [p \in Tables \X (1..N) |-> AddCandidate(p[1], q[p[2]], "peerReported")]
           Body(it, s) == IF s = {} THEN t ELSE AddCandidate(it[s \ {Max(s)}], q[Max(s)], "peerReported")
           c == CHOOSE it : it = [s \in SUBSET (1..N) |-> Body(it, s)]
<1>1. N \in Nat /\ DOMAIN q = 1..N /\ \A i \in 1..N : q[i] \in Address
  OBVIOUS
<1>2. G \in [Tables \X (1..N) -> Tables]
  BY <1>1, AddFacts
<1>3. PICK f \in [SUBSET (1..N) -> Tables] : FoldsUp(f, N, t, G)
  BY <1>1, <1>2, FoldExists
<1>4. \A s \in SUBSET (1..N) : f[s] = Body(f, s)
  <2> SUFFICES ASSUME NEW s \in SUBSET (1..N), s # {} PROVE f[s] = Body(f, s)
    BY <1>3 DEF FoldsUp
  <2>1. Max(s) \in 1..N /\ s \ {Max(s)} \in SUBSET (1..N)
    BY <1>1, MaxFacts
  <2>2. f[s] = G[<<f[s \ {Max(s)}], Max(s)>>]
    BY <1>3 DEF FoldsUp
  <2> QED
    BY <2>1, <2>2
<1>5. f = [s \in SUBSET (1..N) |-> Body(f, s)]
  BY <1>4
<1>6. c = [s \in SUBSET (1..N) |-> Body(c, s)]
  BY <1>5
<1>7. AddPeerCandidates(t, q) = c[1..N]
  BY <1>1 DEF AddPeerCandidates, FoldLeft, MapThenFoldSet
<1> HIDE DEF c
<1> DEFINE r == [k \in 0..N |-> c[1..k]]
<1>8. r[0] = t
  BY <1>1, <1>6
<1>9. ASSUME NEW k \in 1..N PROVE r[k] = AddCandidate(r[k - 1], q[k], "peerReported")
  <2>1. c[1..k] = Body(c, 1..k) /\ 1..k # {} /\ Max(1..k) = k /\ (1..k) \ {k} = 1..(k - 1)
    BY <1>1, <1>6, PrefixFacts
  <2>2. r[k] = c[1..k] /\ r[k - 1] = c[1..(k - 1)]
    BY <1>1
  <2> QED
    BY <2>1, <2>2
<1>10. r[N] = c[1..N]
  BY <1>1
<1> HIDE DEF r
<1> QED
  BY <1>7, <1>8, <1>9, <1>10

\* Discovery takes what is left.
LEMMA DiscoveredRun ==
  ASSUME NEW t \in Tables, NEW q \in Seq(Address)
  PROVE  \E r : /\ r[0] = t
                /\ \A k \in 1..Len(q) : r[k] = AddDiscovered(r[k - 1], q[k])
                /\ FoldLeft(AddDiscovered, t, q) = r[Len(q)]
<1> DEFINE N == Len(q)
           G == [p \in Tables \X (1..N) |-> AddDiscovered(p[1], q[p[2]])]
           Body(it, s) == IF s = {} THEN t ELSE AddDiscovered(it[s \ {Max(s)}], q[Max(s)])
           c == CHOOSE it : it = [s \in SUBSET (1..N) |-> Body(it, s)]
<1>1. N \in Nat /\ DOMAIN q = 1..N /\ \A i \in 1..N : q[i] \in Address
  OBVIOUS
<1>2. G \in [Tables \X (1..N) -> Tables]
  BY <1>1, DiscoveredFacts
<1>3. PICK f \in [SUBSET (1..N) -> Tables] : FoldsUp(f, N, t, G)
  BY <1>1, <1>2, FoldExists
<1>4. \A s \in SUBSET (1..N) : f[s] = Body(f, s)
  <2> SUFFICES ASSUME NEW s \in SUBSET (1..N), s # {} PROVE f[s] = Body(f, s)
    BY <1>3 DEF FoldsUp
  <2>1. Max(s) \in 1..N /\ s \ {Max(s)} \in SUBSET (1..N)
    BY <1>1, MaxFacts
  <2>2. f[s] = G[<<f[s \ {Max(s)}], Max(s)>>]
    BY <1>3 DEF FoldsUp
  <2> QED
    BY <2>1, <2>2
<1>5. f = [s \in SUBSET (1..N) |-> Body(f, s)]
  BY <1>4
<1>6. c = [s \in SUBSET (1..N) |-> Body(c, s)]
  BY <1>5
<1>7. FoldLeft(AddDiscovered, t, q) = c[1..N]
  BY <1>1 DEF FoldLeft, MapThenFoldSet
<1> HIDE DEF c
<1> DEFINE r == [k \in 0..N |-> c[1..k]]
<1>8. r[0] = t
  BY <1>1, <1>6
<1>9. ASSUME NEW k \in 1..N PROVE r[k] = AddDiscovered(r[k - 1], q[k])
  <2>1. c[1..k] = Body(c, 1..k) /\ 1..k # {} /\ Max(1..k) = k /\ (1..k) \ {k} = 1..(k - 1)
    BY <1>1, <1>6, PrefixFacts
  <2>2. r[k] = c[1..k] /\ r[k - 1] = c[1..(k - 1)]
    BY <1>1
  <2> QED
    BY <2>1, <2>2
<1>10. r[N] = c[1..N]
  BY <1>1
<1> HIDE DEF r
<1> QED
  BY <1>7, <1>8, <1>9, <1>10

-----------------------------------------------------------------------------
(* PathLife: the burst.                                                    *)

Candidates ==
  [consecutive : Nat, recent : Seq(Nat), srtt : Int, outstanding : SUBSET Nat,
   lastSent : Instant]

\* What the ghost notes of a ping, as values.
Flags == BOOLEAN
Yes == TRUE
No == FALSE

InAttempt == phase \in {"built", "probing", "won"}

TableSlots == 1..Len(table.cands)

AttemptShape ==
  /\ now \in Nat
  /\ table.cands \in Seq(Entries) /\ Len(table.cands) <= MAX_CANDIDATES
  /\ prog \in [TableSlots -> Candidates]
  /\ ok \in [TableSlots -> Seq(Flags)]
  /\ phase = "built" => \A i \in TableSlots : prog[i] = NewCandidate /\ ok[i] = <<>>
  /\ phase # "built" => delay \in [{table.cands[i].addr : i \in TableSlots} -> Delays]
  /\ phase = "won" => /\ winner.at \in TableSlots /\ winner.rtt \in Nat
                      /\ prog[winner.at].consecutive >= CONSECUTIVE_PONGS_TO_WIN
  /\ phase = "probing" => Proved(prog) = {}

\* A pong on its way to a candidate.
PongsOut ==
  phase = "probing" =>
    \A p \in net : /\ p.tx.at \in Nat /\ p.tx.at < now /\ now <= p.due
                   /\ p.tx.to \in DOMAIN delay
                   /\ p = Pong(p.tx.to, delay[p.tx.to], p.tx.at)

\* A candidate's streak is the last of its answered pings.
Waits(c) == IF c.outstanding = {} THEN 0 ELSE 1

StreaksAreAnswers ==
  \A i \in TableSlots :
    LET c == prog[i]
        told == Len(ok[i]) - Waits(c)
    IN /\ c.outstanding = {} \/ (c.lastSent \in Nat /\ c.outstanding = {c.lastSent})
       /\ c.consecutive >= 1 => Len(c.recent) >= 1
       /\ Len(ok[i]) <= CONSECUTIVE_PONGS_TO_WIN
       /\ c.consecutive <= told
       /\ \A j \in told - c.consecutive + 1..told : ok[i][j] = Yes

\* Candidates are probed together, in the interval of the schedule.
SlowFrom == FIRE_IN + PROBE_FAST_WINDOW

BurstInStep ==
  phase = "probing" =>
    /\ \A i, j \in TableSlots : prog[i].lastSent = prog[j].lastSent
    /\ \A i \in TableSlots :
         LET s == prog[i].lastSent IN
         /\ s < now
         /\ s # None => now <= SlowFrom \/ now <= s + PROBE_SLOW_INTERVAL
         /\ now > FIRE_IN => s # None
         /\ s # None => limiter.start <= s
    /\ limiter \in [start : Nat, answered : Nat]
    /\ limiter.start <= now

\* In the slow schedule a candidate that loses nothing answers each ping before
\* the next, so its streak grows with the time.
SlowCounts ==
  phase = "probing" =>
    \A i \in TableSlots :
      LET c == prog[i]
          s == c.lastSent
          to == table.cands[i].addr
      IN to \notin lost /\ delay[to] < PROBE_SLOW_INTERVAL /\ s # None /\ s >= SlowFrom
         => /\ c.outstanding # {} => Pong(to, delay[to], s) \in net
            /\ s < SlowFrom + (c.consecutive + Waits(c)) * PROBE_SLOW_INTERVAL

AttemptInv ==
  InAttempt =>
    AttemptShape /\ PongsOut /\ StreaksAreAnswers /\ BurstInStep /\ SlowCounts

\* The table is built of the lists the exchange brought.
TableInv ==
  /\ phase \in {"exchange", "built"} => lists \in PeerLists \X HeardLists
  /\ phase = "exchange" => /\ now = 0 /\ limiter = [start |-> 0, answered |-> 0]
                           /\ net = {}
  /\ phase = "built" => TableIsSound

LEMMA ProbeConstants ==
  /\ PROBE_FAST_INTERVAL \in Nat /\ PROBE_FAST_WINDOW \in Nat /\ PROBE_FAST_WINDOW >= 1
  /\ PROBE_SLOW_INTERVAL \in Nat /\ PROBE_SLOW_INTERVAL >= 1 /\ PROBE_GIVE_UP \in Nat
  /\ FIRE_IN \in Nat /\ FIRE_IN >= 1
  /\ CONSECUTIVE_PONGS_TO_WIN \in Nat /\ CONSECUTIVE_PONGS_TO_WIN >= 1
  /\ PONG_ANSWERS_PER_WINDOW \in Nat /\ PONG_WINDOW \in Nat /\ PONG_WINDOW >= 1
  /\ PONG_WINDOW <= PROBE_SLOW_INTERVAL
  /\ MAX_CANDIDATES \in Nat /\ MAX_CANDIDATES <= PONG_ANSWERS_PER_WINDOW
  /\ PROBE_FAST_WINDOW + (CONSECUTIVE_PONGS_TO_WIN + 1) * PROBE_SLOW_INTERVAL <= PROBE_GIVE_UP
  /\ \A d \in Delays : d \in Nat /\ d >= 1
BY PathLifeAssumption, BurstAssumption, CandidateAssumption, SMTT(30)

\* An answer to the ping in flight, and to any other.
LEMMA AnswerFacts ==
  ASSUME NEW c \in Candidates, NEW at
  PROVE  /\ at \notin c.outstanding => Answer(c, at) = c
         /\ Answer(c, at).outstanding = c.outstanding \ {at}
         /\ Answer(c, at).lastSent = c.lastSent
         /\ at \in c.outstanding => Answer(c, at).consecutive = c.consecutive + 1
BY DEF Answer, Candidates

LEMMA AnswerType ==
  ASSUME NEW c \in Candidates, NEW at \in Nat, now \in Nat, at <= now
  PROVE  /\ Answer(c, at) \in Candidates
         /\ (c.consecutive >= 1 => Len(c.recent) >= 1)
            => (Answer(c, at).consecutive >= 1 => Len(Answer(c, at).recent) >= 1)
<1>1. CASE at \notin c.outstanding
  BY <1>1, AnswerFacts
<1>2. CASE at \in c.outstanding
  <2> DEFINE longer == Append(c.recent, now - at)
             kept == IF Len(longer) > CONSECUTIVE_PONGS_TO_WIN THEN Tail(longer) ELSE longer
  <2>1. longer \in Seq(Nat) /\ Len(longer) = Len(c.recent) + 1 /\ Len(c.recent) \in Nat
    BY DEF Candidates
  <2>2. kept \in Seq(Nat) /\ Len(kept) >= 1
    BY <2>1, ProbeConstants
  <2>3. Smoothed(c.srtt, now - at) \in Int
    BY SmoothedType DEF Candidates
  <2>4. c.consecutive + 1 \in Nat /\ c.outstanding \ {at} \in SUBSET Nat
    BY DEF Candidates
  <2>5. Answer(c, at) = [c EXCEPT !.outstanding = @ \ {at}, !.consecutive = @ + 1,
                                  !.recent = kept, !.srtt = Smoothed(@, now - at)]
    BY <1>2 DEF Answer
  <2> HIDE DEF kept
  <2>6. Answer(c, at).recent = kept
    BY <2>5 DEF Candidates
  <2> QED
    BY <2>2, <2>3, <2>4, <2>5, <2>6 DEF Candidates
<1> QED
  BY <1>1, <1>2

AnswersOf(b, ats) == FoldSet(LAMBDA at, c : Answer(c, at), b, ats)

\* Of the pongs of a pass only the one of the ping in flight counts.
LEMMA AnswersFold ==
  ASSUME NEW base \in Candidates, NEW x0, base.outstanding \subseteq {x0},
         NEW ats \in SUBSET Nat, IsFiniteSet(ats)
  PROVE  AnswersOf(base, ats) = IF x0 \in ats THEN Answer(base, x0) ELSE base
<1> DEFINE Body(it, s) == IF s = {} THEN base
                          ELSE Answer(it[s \ {CHOOSE x \in s : TRUE}], CHOOSE x \in s : TRUE)
           Val(s) == IF x0 \in s THEN Answer(base, x0) ELSE base
           f == [s \in SUBSET ats |-> Val(s)]
           g == CHOOSE it : it = [s \in SUBSET ats |-> Body(it, s)]
<1>1. \A x : x # x0 => Answer(base, x) = base
  BY AnswerFacts
<1>2. \A x : Answer(Answer(base, x0), x) = Answer(base, x0)
  <2>1. Answer(base, x0).outstanding = {}
    BY AnswerFacts
  <2> QED
    BY <2>1 DEF Answer
<1>3. \A s \in SUBSET ats : s # {} =>
        /\ s \ {CHOOSE x \in s : TRUE} \in SUBSET ats
        /\ (CHOOSE x \in s : TRUE) \in s
        /\ Val(s) = Answer(Val(s \ {CHOOSE x \in s : TRUE}), CHOOSE x \in s : TRUE)
  <2> SUFFICES ASSUME NEW s \in SUBSET ats, s # {}, NEW x, x = CHOOSE y \in s : TRUE
               PROVE  s \ {x} \in SUBSET ats /\ x \in s /\ Val(s) = Answer(Val(s \ {x}), x)
    BY Zenon
  <2>1. x \in s
    OBVIOUS
  <2>2. CASE x = x0
    BY <2>1, <2>2
  <2>3. CASE x # x0
    BY <1>1, <1>2, <2>1, <2>3
  <2> QED
    BY <2>1, <2>2, <2>3
<1>4. \A s \in SUBSET ats : f[s] = Body(f, s)
  BY <1>3
<1>5. f = [s \in SUBSET ats |-> Body(f, s)]
  BY <1>4
<1>6. g = [s \in SUBSET ats |-> Body(g, s)]
  BY <1>5
<1>7. AnswersOf(base, ats) = g[ats]
  BY DEF AnswersOf, FoldSet, MapThenFoldSet
<1> HIDE DEF g
<1>8. g[ats] = Val(ats)
  <2> SUFFICES ASSUME g[ats] # Val(ats) PROVE FALSE
    OBVIOUS
  <2> DEFINE Bad == {s \in SUBSET ats : g[s] # Val(s)}
             Sizes == {Cardinality(s) : s \in Bad}
  <2>1. \A s \in SUBSET ats : IsFiniteSet(s) /\ Cardinality(s) \in Nat
    BY FS_Subset, FS_CardinalityType
  <2>2. Sizes \in SUBSET Nat /\ Sizes # {}
    BY <2>1
  <2>3. PICK n \in Sizes : \A m \in Sizes : n <= m
    BY <2>2, LeastNumber
  <2>4. PICK s \in Bad : n = Cardinality(s)
    BY <2>3
  <2>5. s # {}
    BY <1>6, <2>4
  <2>6. PICK x : x = CHOOSE y \in s : TRUE
    OBVIOUS
  <2>7. x \in s /\ s \ {x} \in SUBSET ats /\ Cardinality(s \ {x}) = n - 1 /\ n \in Nat
    BY <2>1, <2>4, <2>5, <2>6, FS_RemoveElement
  <2>8. s \ {x} \notin Bad
    <3>1. s \ {x} \in Bad => n - 1 \in Sizes
      BY <2>7
    <3> QED
      BY <2>3, <2>7, <3>1
  <2>9. g[s \ {x}] = Val(s \ {x})
    BY <2>7, <2>8
  <2>10. g[s] = Answer(g[s \ {x}], x)
    BY <1>6, <2>4, <2>5, <2>6
  <2>11. Val(s) = Answer(Val(s \ {x}), x)
    BY <1>3, <2>4, <2>5, <2>6
  <2> QED
    BY <2>4, <2>9, <2>10, <2>11
<1> QED
  BY <1>7, <1>8

\* A pass of the burst: what is sent, and where a candidate is after it.
BurstPings == {[to |-> table.cands[i].addr, at |-> now] : i \in Due}
SentTo(i) == IF i \in Due THEN Sent(prog[i]) ELSE prog[i]
ArrivedAt(i) == {p.tx.at : p \in {q \in Arrived : q.tx.to = table.cands[i].addr}}
Hit(i) == SentTo(i).lastSent \in ArrivedAt(i)
AfterProbe(i) == IF Hit(i) THEN Answer(SentTo(i), SentTo(i).lastSent) ELSE SentTo(i)

LEMMA BurstDue ==
  ASSUME AttemptShape, BurstInStep, phase = "probing", ~GivenUp
  PROVE  /\ Due = {} \/ Due = TableSlots
         /\ \A i \in TableSlots : i \in Due <=>
              /\ now >= FIRE_IN
              /\ prog[i].lastSent # None => now - prog[i].lastSent >= BurstInterval
         /\ now < SlowFrom => BurstInterval = PROBE_FAST_INTERVAL
         /\ now >= SlowFrom => BurstInterval = PROBE_SLOW_INTERVAL
<1>1. /\ now \in Nat /\ DOMAIN prog = TableSlots
      /\ \A i, j \in TableSlots : prog[i].lastSent = prog[j].lastSent
  BY DEF AttemptShape, BurstInStep
<1>2. /\ Elapsed < 0 <=> now < FIRE_IN
      /\ Elapsed < PROBE_FAST_WINDOW <=> now < SlowFrom
  BY <1>1, ProbeConstants DEF Elapsed, SlowFrom
<1>3. \A i \in TableSlots : i \in Due <=>
              /\ now >= FIRE_IN
              /\ prog[i].lastSent # None => now - prog[i].lastSent >= BurstInterval
  <2> HIDE DEF TableSlots
  <2> QED
    BY <1>1, <1>2, ProbeConstants DEF Due, GivenUp
<1>4. Due \subseteq TableSlots
  BY <1>1 DEF Due
<1>5. Due = {} \/ Due = TableSlots
  BY <1>1, <1>3, <1>4
<1>6. /\ now < SlowFrom => BurstInterval = PROBE_FAST_INTERVAL
      /\ now >= SlowFrom => BurstInterval = PROBE_SLOW_INTERVAL
  BY <1>1, <1>2, ProbeConstants DEF BurstInterval, SlowFrom
<1> QED
  BY <1>3, <1>5, <1>6

LEMMA SentFacts ==
  ASSUME NEW c \in Candidates, now \in Nat
  PROVE  /\ Sent(c) \in Candidates /\ Sent(c).outstanding = {now} /\ Sent(c).lastSent = now
         /\ c.outstanding = {} => Sent(c).consecutive = c.consecutive /\ Sent(c).recent = c.recent
         /\ c.outstanding # {} => Sent(c).consecutive = 0
<1>1. <<>> \in Seq(Nat) /\ now \in Instant /\ {now} \in SUBSET Nat
  BY DEF Instant
<1> QED
  BY <1>1 DEF Sent, Candidates

\* The pings of a pass are no more than the candidates, and find room in a
\* fresh window.
LEMMA BurstNet ==
  ASSUME AttemptShape, BurstInStep, phase = "probing", ~GivenUp,
         NEW back \in AnsweredSets(BurstPings), Carry(back, Arrived)
  PROVE  LET there == {p \in BurstPings : p.to \notin losing} IN
         /\ back \subseteq there
         /\ net' = (net \ Arrived) \cup {Pong(p.to, delay[p.to], now) : p \in back}
         /\ limiter' \in [start : Nat, answered : Nat] /\ limiter'.start <= now
         /\ Due = {} => limiter' = limiter
         /\ \A i \in Due : prog[i].lastSent # None /\ now - prog[i].lastSent >= PONG_WINDOW
                           => back = there
<1> DEFINE there == {p \in BurstPings : p.to \notin losing}
           left == PONG_ANSWERS_PER_WINDOW - Window(now).answered
<1>1. /\ now \in Nat /\ limiter \in [start : Nat, answered : Nat] /\ limiter.start <= now
      /\ Len(table.cands) \in Nat /\ Len(table.cands) <= MAX_CANDIDATES
  BY DEF AttemptShape, BurstInStep
<1>2. IsFiniteSet(there) /\ Cardinality(there) \in Nat /\ Cardinality(there) <= MAX_CANDIDATES
  <2> DEFINE addrs == {[to |-> table.cands[i].addr, at |-> now] : i \in TableSlots}
             f == [i \in TableSlots |-> [to |-> table.cands[i].addr, at |-> now]]
  <2>1. IsFiniteSet(TableSlots) /\ Cardinality(TableSlots) = Len(table.cands)
    <3>1. 1 \in Int /\ Len(table.cands) \in Int
      BY <1>1
    <3>2. IsFiniteSet(1..Len(table.cands))
          /\ Cardinality(1..Len(table.cands))
               = IF 1 > Len(table.cands) THEN 0 ELSE Len(table.cands) - 1 + 1
      BY <3>1, FS_Interval
    <3> QED
      BY <1>1, <3>2 DEF TableSlots
  <2>2. f \in Surjection(TableSlots, addrs)
    BY DEF Surjection
  <2>3. IsFiniteSet(addrs) /\ Cardinality(addrs) <= Cardinality(TableSlots)
    BY <2>1, <2>2, FS_Surjection
  <2>4. there \in SUBSET addrs
    BY BurstDue DEF BurstPings
  <2> HIDE DEF addrs
  <2>5. IsFiniteSet(there) /\ Cardinality(there) <= Cardinality(addrs)
    BY <2>3, <2>4, FS_Subset
  <2>6. Cardinality(there) \in Nat /\ Cardinality(addrs) \in Nat
    BY <2>3, <2>5, FS_CardinalityType
  <2> QED
    BY <1>1, <2>1, <2>3, <2>5, <2>6, ProbeConstants
<1> HIDE DEF there
<1>3. back \subseteq there /\ (Cardinality(there) <= left => back = there)
  BY DEF AnsweredSets, there
<1>4. net' = (net \ Arrived) \cup {Pong(p.to, delay[p.to], now) : p \in back}
  <2>1. \A p \in back : p = [to |-> p.to, at |-> now]
    BY <1>3 DEF there, BurstPings
  <2>2. \A p \in back : [tx |-> p, due |-> now + delay[p.to]] = Pong(p.to, delay[p.to], now)
    BY <2>1 DEF Pong
  <2> QED
    BY <2>2 DEF Carry
<1>5. Window(now) \in [start : Nat, answered : Nat] /\ Window(now).start <= now
  BY <1>1 DEF Window
<1>6. limiter' \in [start : Nat, answered : Nat] /\ limiter'.start <= now
  <2>1. Cardinality(back) \in Nat
    BY <1>2, <1>3, FS_Subset, FS_CardinalityType
  <2> QED
    BY <1>1, <1>5, <2>1 DEF Carry
<1>7. Due = {} => limiter' = limiter
  <2>1. Due = {} => back = {}
    BY <1>3 DEF there, BurstPings
  <2> QED
    BY <2>1 DEF Carry
<1>8. ASSUME NEW i \in Due, prog[i].lastSent # None, now - prog[i].lastSent >= PONG_WINDOW
      PROVE  back = there
  <2>1. i \in TableSlots
    BY BurstDue
  <2>2. limiter.start <= prog[i].lastSent /\ prog[i].lastSent \in Nat
    BY <1>8, <2>1 DEF BurstInStep, AttemptShape, Candidates, Instant
  <2>3. Window(now) = [start |-> now, answered |-> 0]
    BY <1>1, <1>8, <2>2, ProbeConstants DEF Window
  <2>4. Cardinality(there) <= left
    BY <1>2, <2>3, ProbeConstants
  <2> QED
    BY <1>3, <2>4
<1> QED
  BY <1>3, <1>4, <1>6, <1>7, <1>8 DEF there

\* A pass of the burst.
BurstSent ==
  /\ Due = {} \/ Due = TableSlots
  /\ prog' = [i \in TableSlots |-> AfterProbe(i)]
  /\ ok' = [i \in TableSlots |-> Mark(i, Due, Arrived)]
  /\ lost' = lost \cup ({table.cands[i].addr : i \in Due} \cap losing)
  /\ now' = now + 1 /\ UNCHANGED <<table, delay>>
  /\ \/ phase' = "probing" /\ Proved(prog') = {}
     \/ /\ phase' = "won" /\ Proved(prog') # {}
        /\ winner' = [at |-> Best(prog'), rtt |-> WinningRtt(prog'[Best(prog')])]

\* What arrives answers a ping of an earlier pass, and only such a ping.
LEMMA ArrivedFacts ==
  ASSUME AttemptShape, PongsOut, phase = "probing", NEW i \in TableSlots
  PROVE  /\ ArrivedAt(i) \in SUBSET Nat /\ IsFiniteSet(ArrivedAt(i))
         /\ \A at \in ArrivedAt(i) : at < now
         /\ \A at \in ArrivedAt(i) : Pong(table.cands[i].addr, delay[table.cands[i].addr], at) \in Arrived
         /\ \A p \in Arrived : p.tx.to = table.cands[i].addr => p.tx.at \in ArrivedAt(i)
<1>1. \A at \in ArrivedAt(i) : at \in Nat /\ at < now
  BY DEF ArrivedAt, Arrived, PongsOut
<1>2. now \in Nat
  BY DEF AttemptShape
<1>3. ArrivedAt(i) \in SUBSET (0..now)
  BY <1>1, <1>2
<1>4. IsFiniteSet(ArrivedAt(i))
  <2>1. IsFiniteSet(0..now)
    BY <1>2, FS_Interval
  <2> QED
    BY <1>3, <2>1, FS_Subset
<1> QED
  BY <1>1, <1>4 DEF ArrivedAt, Arrived, PongsOut

\* A candidate before and after the pongs of a pass.
LEMMA SentToFacts ==
  ASSUME AttemptShape, StreaksAreAnswers, BurstInStep, phase = "probing", NEW i \in TableSlots
  PROVE  /\ SentTo(i) \in Candidates /\ SentTo(i).outstanding \subseteq {SentTo(i).lastSent}
         /\ SentTo(i).consecutive >= 1 => Len(SentTo(i).recent) >= 1
         /\ i \in Due => SentTo(i).lastSent = now /\ SentTo(i).outstanding = {now}
         /\ i \notin Due => SentTo(i) = prog[i]
<1>1. /\ prog[i] \in Candidates /\ now \in Nat
      /\ prog[i].outstanding = {} \/ prog[i].outstanding = {prog[i].lastSent}
      /\ prog[i].consecutive >= 1 => Len(prog[i].recent) >= 1
  BY DEF AttemptShape, StreaksAreAnswers
<1>2. CASE i \in Due
  <2>1. SentTo(i) = Sent(prog[i])
    BY <1>2 DEF SentTo
  <2> QED
    BY <1>1, <1>2, <2>1, SentFacts
<1>3. CASE i \notin Due
  BY <1>1, <1>3 DEF SentTo
<1> QED
  BY <1>2, <1>3

LEMMA AfterProbeFacts ==
  ASSUME AttemptShape, PongsOut, StreaksAreAnswers, BurstInStep, phase = "probing",
         NEW i \in TableSlots
  PROVE  LET b == SentTo(i)
             c == AfterProbe(i)
         IN /\ c \in Candidates /\ c.lastSent = b.lastSent
            /\ c.consecutive >= 1 => Len(c.recent) >= 1
            /\ i \in Due => ~Hit(i)
            /\ ~Hit(i) => c = b
            /\ Hit(i) => c.outstanding = {} /\ b.lastSent \in Nat
            /\ Hit(i) /\ b.outstanding = {} => c = b
            /\ Hit(i) /\ b.outstanding # {} => c.consecutive = b.consecutive + 1
<1>1. /\ SentTo(i) \in Candidates /\ SentTo(i).outstanding \subseteq {SentTo(i).lastSent}
      /\ SentTo(i).consecutive >= 1 => Len(SentTo(i).recent) >= 1
      /\ i \in Due => SentTo(i).lastSent = now
      /\ now \in Nat
  BY SentToFacts DEF AttemptShape
<1>2. Hit(i) => SentTo(i).lastSent \in Nat /\ SentTo(i).lastSent < now
  BY ArrivedFacts DEF Hit
<1>3. i \in Due => ~Hit(i)
  BY <1>1, <1>2
<1>4. CASE Hit(i)
  <2>1. AfterProbe(i) = Answer(SentTo(i), SentTo(i).lastSent)
    BY <1>4 DEF AfterProbe
  <2>2. /\ AfterProbe(i) \in Candidates
        /\ AfterProbe(i).consecutive >= 1 => Len(AfterProbe(i).recent) >= 1
    BY <1>1, <1>2, <1>4, <2>1, AnswerType
  <2>3. /\ AfterProbe(i).outstanding = {} /\ AfterProbe(i).lastSent = SentTo(i).lastSent
        /\ SentTo(i).outstanding = {} => AfterProbe(i) = SentTo(i)
        /\ SentTo(i).outstanding # {} => AfterProbe(i).consecutive = SentTo(i).consecutive + 1
    BY <1>1, <2>1, AnswerFacts
  <2> QED
    BY <1>2, <1>3, <1>4, <2>2, <2>3
<1>5. CASE ~Hit(i)
  <2>1. AfterProbe(i) = SentTo(i)
    BY <1>5 DEF AfterProbe
  <2> QED
    BY <1>1, <1>5, <2>1
<1> QED
  BY <1>4, <1>5

LEMMA BurstPassFacts ==
  ASSUME AttemptShape, PongsOut, StreaksAreAnswers, BurstInStep, Probe
  PROVE  /\ BurstSent /\ phase = "probing" /\ ~GivenUp
         /\ \E back \in AnsweredSets(BurstPings) : Carry(back, Arrived)
<1> DEFINE sent == [i \in DOMAIN prog |-> IF i \in Due THEN Sent(prog[i]) ELSE prog[i]]
           nxt == [i \in DOMAIN prog |->
                     FoldSet(LAMBDA at, c : Answer(c, at), sent[i],
                             {p.tx.at : p \in {q \in Arrived : q.tx.to = table.cands[i].addr}})]
<1>1. /\ phase = "probing" /\ ~GivenUp
      /\ \E back \in AnsweredSets(BurstPings) : Carry(back, Arrived)
  BY DEF Probe, BurstPings
<1>2. /\ prog' = nxt
      /\ ok' = [i \in DOMAIN ok |-> Mark(i, Due, Arrived)]
      /\ lost' = lost \cup ({p.to : p \in BurstPings} \cap losing)
      /\ now' = now + 1 /\ UNCHANGED <<table, delay>>
      /\ IF Proved(nxt) = {} THEN UNCHANGED <<phase, winner>>
         ELSE /\ phase' = "won"
              /\ winner' = [at |-> Best(nxt), rtt |-> WinningRtt(nxt[Best(nxt)])]
  BY DEF Probe, BurstPings
<1>3. DOMAIN prog = TableSlots /\ DOMAIN ok = TableSlots
  BY DEF AttemptShape
<1>4. ASSUME NEW i \in TableSlots PROVE nxt[i] = AfterProbe(i)
  <2>1. sent[i] = SentTo(i)
    BY <1>3 DEF SentTo
  <2>2. nxt[i] = AnswersOf(sent[i], ArrivedAt(i))
    BY <1>3 DEF ArrivedAt, AnswersOf
  <2>3. SentTo(i) \in Candidates /\ SentTo(i).outstanding \subseteq {SentTo(i).lastSent}
    BY <1>1, SentToFacts
  <2>4. ArrivedAt(i) \in SUBSET Nat /\ IsFiniteSet(ArrivedAt(i))
    BY <1>1, ArrivedFacts
  <2>5. AnswersOf(SentTo(i), ArrivedAt(i))
          = IF SentTo(i).lastSent \in ArrivedAt(i) THEN Answer(SentTo(i), SentTo(i).lastSent)
            ELSE SentTo(i)
    BY <2>3, <2>4, AnswersFold
  <2>6. nxt[i] = AnswersOf(SentTo(i), ArrivedAt(i))
    BY <2>1, <2>2
  <2> HIDE DEF nxt
  <2> QED
    BY <2>5, <2>6 DEF AfterProbe, Hit
<1>5. nxt = [i \in TableSlots |-> AfterProbe(i)]
  BY <1>3, <1>4
<1> HIDE DEF nxt
<1>6. {p.to : p \in BurstPings} = {table.cands[i].addr : i \in Due}
  <2> DEFINE ping(i) == [to |-> table.cands[i].addr, at |-> now]
  <2>1. \A i \in Due : ping(i).to = table.cands[i].addr
    OBVIOUS
  <2>2. BurstPings = {ping(i) : i \in Due}
    BY DEF BurstPings
  <2> HIDE DEF ping
  <2> QED
    BY <2>1, <2>2
<1>7. Due = {} \/ Due = TableSlots
  BY <1>1, BurstDue
<1> QED
  BY <1>1, <1>2, <1>3, <1>5, <1>6, <1>7 DEF BurstSent

LEMMA RttFacts ==
  ASSUME NEW c \in Candidates, Len(c.recent) >= 1
  PROVE  WinningRtt(c) \in Nat
<1>1. c.recent \in Seq(Nat) /\ Len(c.recent) \in Nat
  BY DEF Candidates
<1>2. SumOf(c.recent) \in Nat
  BY <1>1, SumFacts
<1>3. WinningRtt(c) = SumOf(c.recent) \div Len(c.recent)
  BY DEF WinningRtt, SumOf
<1> HIDE DEF WinningRtt, SumOf
<1> QED
  BY <1>1, <1>2, <1>3

\* There is a best of the proved candidates.
LEMMA BestFacts ==
  ASSUME NEW N \in Nat, NEW pr \in [1..N -> Candidates],
         \A i \in Proved(pr) : Len(pr[i].recent) >= 1, Proved(pr) # {}
  PROVE  Best(pr) \in Proved(pr) /\ WinningRtt(pr[Best(pr)]) \in Nat
<1> DEFINE P == Proved(pr)
           w(i) == WinningRtt(pr[i])
           Means == {w(i) : i \in P}
<1>1. P \subseteq 1..N
  BY DEF Proved
<1>2. \A i \in P : w(i) \in Nat
  BY <1>1, RttFacts
<1> HIDE DEF w, P
<1>3. PICK m \in Means : \A n \in Means : m <= n
  <2>1. Means \in SUBSET Nat /\ Means # {}
    BY <1>2 DEF P
  <2> QED
    BY <2>1, LeastNumber
<1> DEFINE I == {i \in P : w(i) = m}
<1>4. PICK i \in I : \A j \in I : i <= j
  <2>1. I \in SUBSET Nat /\ I # {}
    BY <1>1, <1>3
  <2> QED
    BY <2>1, LeastNumber
<1>5. \A j \in P : w(i) < w(j) \/ (w(i) = w(j) /\ i <= j)
  <2> SUFFICES ASSUME NEW j \in P PROVE w(i) < w(j) \/ (w(i) = w(j) /\ i <= j)
    OBVIOUS
  <2>1. m <= w(j) /\ w(i) = m /\ w(i) \in Nat /\ w(j) \in Nat
    BY <1>2, <1>3, <1>4
  <2>2. w(j) = m => i <= j
    BY <1>4
  <2> QED
    BY <2>1, <2>2
<1>6. Best(pr) \in P
  BY <1>4, <1>5 DEF Best, P, w
<1> QED
  BY <1>2, <1>6 DEF P, w

LEMMA SequenceFacts ==
  ASSUME NEW S, NEW q \in Seq(S), NEW x \in S
  PROVE  /\ LET r == [q EXCEPT ![Len(q)] = x] IN
            r \in Seq(S) /\ Len(r) = Len(q) /\ \A j \in 1..Len(q) : r[j] = IF j = Len(q) THEN x ELSE q[j]
         /\ LET r == Append(q, x) IN
            r \in Seq(S) /\ Len(r) = Len(q) + 1 /\ \A j \in 1..Len(q) : r[j] = q[j]
         /\ LET r == Tail(Append(q, x)) IN
            r \in Seq(S) /\ Len(r) = Len(q) /\ \A j \in 1..Len(q) - 1 : r[j] = q[j + 1]
<1>1. Len(q) \in Nat /\ q \in [1..Len(q) -> S]
  OBVIOUS
<1>2. [q EXCEPT ![Len(q)] = x] \in [1..Len(q) -> S]
  BY <1>1
<1>3. [q EXCEPT ![Len(q)] = x] \in Seq(S) /\ Len([q EXCEPT ![Len(q)] = x]) = Len(q)
  BY <1>1, <1>2
<1>4. /\ Append(q, x) \in Seq(S) /\ Len(Append(q, x)) = Len(q) + 1
      /\ \A j \in 1..Len(q) : Append(q, x)[j] = q[j]
  OBVIOUS
<1>5. Append(q, x) # <<>>
  <2> SUFFICES ASSUME NEW r, r = Append(q, x) PROVE r # <<>>
    OBVIOUS
  <2>1. Len(r) # 0
    BY <1>1, <1>4
  <2>2. Len(<<>>) = 0
    OBVIOUS
  <2> QED
    BY <2>1, <2>2, Zenon
<1>6. /\ Tail(Append(q, x)) \in Seq(S) /\ Len(Tail(Append(q, x))) = Len(q)
      /\ \A j \in 1..Len(q) - 1 : Tail(Append(q, x))[j] = Append(q, x)[j + 1]
  BY <1>1, <1>4, <1>5
<1>7. \A j \in 1..Len(q) - 1 : j + 1 \in 1..Len(q)
  BY <1>1
<1> QED
  BY <1>1, <1>3, <1>4, <1>6, <1>7

LEMMA FlagFacts == Yes \in Flags /\ No \in Flags
BY DEF Yes, No, Flags

\* What the ghost notes of a pass.
LEMMA MarkFacts ==
  ASSUME AttemptShape, PongsOut, StreaksAreAnswers, BurstInStep, phase = "probing",
         NEW i \in TableSlots
  PROVE  LET L == Len(ok[i])
             m == Mark(i, Due, Arrived)
         IN /\ i \in Due /\ L + 1 <= CONSECUTIVE_PONGS_TO_WIN => m = Append(ok[i], No)
            /\ i \in Due /\ L + 1 > CONSECUTIVE_PONGS_TO_WIN => m = Tail(Append(ok[i], No))
            /\ i \notin Due /\ ~Hit(i) => m = ok[i]
            /\ i \notin Due /\ Hit(i) => m = [ok[i] EXCEPT ![L] = Yes]
<1> DEFINE hit == \E p \in Arrived : /\ p.tx.to = table.cands[i].addr
                                     /\ p.tx.at = (IF i \in Due THEN now ELSE prog[i].lastSent)
           sent == IF i \in Due THEN Append(ok[i], No) ELSE ok[i]
           last == Len(sent)
           told == IF hit THEN [sent EXCEPT ![last] = Yes] ELSE sent
<1>1. Mark(i, Due, Arrived) = IF last > CONSECUTIVE_PONGS_TO_WIN THEN Tail(told) ELSE told
  BY DEF Mark, Yes, No
<1>2. SentTo(i).lastSent = IF i \in Due THEN now ELSE prog[i].lastSent
  BY SentToFacts
<1>3. hit <=> Hit(i)
  BY <1>2, ArrivedFacts DEF Hit, ArrivedAt
<1>4. i \in Due => ~Hit(i)
  BY AfterProbeFacts
<1>5. ok[i] \in Seq(Flags) /\ Len(ok[i]) \in Nat /\ Len(ok[i]) <= CONSECUTIVE_PONGS_TO_WIN
  BY DEF AttemptShape, StreaksAreAnswers
<1> DEFINE K == CONSECUTIVE_PONGS_TO_WIN
           m == Mark(i, Due, Arrived)
<1> HIDE DEF hit
<1>6. ASSUME i \in Due
      PROVE  /\ Len(ok[i]) + 1 <= K => m = Append(ok[i], No)
             /\ Len(ok[i]) + 1 > K => m = Tail(Append(ok[i], No))
  <2>1. sent = Append(ok[i], No) /\ told = sent
    BY <1>3, <1>4, <1>6
  <2>2. last = Len(ok[i]) + 1
    BY <1>5, <2>1
  <2> HIDE DEF sent, told, last, m
  <2>3. m = IF last > K THEN Tail(told) ELSE told
    BY <1>1 DEF m
  <2> QED
    BY <1>5, <2>1, <2>2, <2>3, ProbeConstants
<1>7. ASSUME i \notin Due
      PROVE  m = IF Hit(i) THEN [ok[i] EXCEPT ![Len(ok[i])] = Yes] ELSE ok[i]
  <2>1. sent = ok[i] /\ last = Len(ok[i])
    BY <1>7
  <2>2. told = IF Hit(i) THEN [ok[i] EXCEPT ![Len(ok[i])] = Yes] ELSE ok[i]
    BY <1>3, <2>1
  <2> HIDE DEF sent, told, last, m
  <2>3. m = told
    BY <1>1, <1>5, <2>1, ProbeConstants DEF m
  <2> QED
    BY <2>2, <2>3
<1> HIDE DEF sent, told, last
<1> QED
  BY <1>6, <1>7

LEMMA ProbeShape ==
  ASSUME AttemptShape, PongsOut, StreaksAreAnswers, BurstInStep, BurstSent, phase = "probing"
  PROVE  AttemptShape'
<1>1. /\ prog' = [i \in TableSlots |-> AfterProbe(i)] /\ ok' = [i \in TableSlots |-> Mark(i, Due, Arrived)]
      /\ UNCHANGED <<table, delay>> /\ now' = now + 1 /\ TableSlots' = TableSlots
      /\ phase' \in {"probing", "won"}
  BY DEF BurstSent, TableSlots
<1>2. prog' \in [TableSlots -> Candidates]
  BY <1>1, AfterProbeFacts
<1>3. ASSUME NEW i \in TableSlots PROVE Mark(i, Due, Arrived) \in Seq(Flags)
  <2>1. ok[i] \in Seq(Flags) /\ Len(ok[i]) \in Nat
    BY DEF AttemptShape
  <2>2. /\ Append(ok[i], No) \in Seq(Flags) /\ Tail(Append(ok[i], No)) \in Seq(Flags)
        /\ [ok[i] EXCEPT ![Len(ok[i])] = Yes] \in Seq(Flags)
    BY <2>1, FlagFacts, SequenceFacts
  <2>3. Mark(i, Due, Arrived) \in {ok[i], Append(ok[i], No), Tail(Append(ok[i], No)),
                                   [ok[i] EXCEPT ![Len(ok[i])] = Yes]}
    <3>1. \/ Len(ok[i]) + 1 <= CONSECUTIVE_PONGS_TO_WIN \/ Len(ok[i]) + 1 > CONSECUTIVE_PONGS_TO_WIN
      BY <2>1, ProbeConstants
    <3> QED
      BY <3>1, MarkFacts
  <2> QED
    BY <2>1, <2>2, <2>3
<1>4. ok' \in [TableSlots -> Seq(Flags)]
  BY <1>1, <1>3
<1>5. phase' = "won" => /\ winner'.at \in TableSlots /\ winner'.rtt \in Nat
                        /\ prog'[winner'.at].consecutive >= CONSECUTIVE_PONGS_TO_WIN
  <2> SUFFICES ASSUME phase' = "won"
               PROVE  /\ winner'.at \in TableSlots /\ winner'.rtt \in Nat
                      /\ prog'[winner'.at].consecutive >= CONSECUTIVE_PONGS_TO_WIN
    OBVIOUS
  <2>1. /\ Proved(prog') # {}
        /\ winner' = [at |-> Best(prog'), rtt |-> WinningRtt(prog'[Best(prog')])]
    BY DEF BurstSent
  <2>2. \A i \in Proved(prog') : i \in TableSlots /\ prog'[i].consecutive >= CONSECUTIVE_PONGS_TO_WIN
    BY <1>2 DEF Proved
  <2>3. \A i \in Proved(prog') : Len(prog'[i].recent) >= 1
    <3> SUFFICES ASSUME NEW i \in Proved(prog') PROVE Len(prog'[i].recent) >= 1
      OBVIOUS
    <3>1. i \in TableSlots /\ prog'[i] = AfterProbe(i)
      BY <1>1, <2>2
    <3>2. prog'[i] \in Candidates /\ (prog'[i].consecutive >= 1 => Len(prog'[i].recent) >= 1)
      BY <3>1, AfterProbeFacts
    <3>3. prog'[i].consecutive \in Nat
      BY <3>2 DEF Candidates
    <3> QED
      BY <2>2, <3>2, <3>3, ProbeConstants
  <2>4. Len(table.cands) \in Nat
    BY DEF AttemptShape
  <2>5. Best(prog') \in Proved(prog') /\ WinningRtt(prog'[Best(prog')]) \in Nat
    BY <1>2, <2>1, <2>3, <2>4, BestFacts DEF TableSlots
  <2> QED
    BY <2>1, <2>2, <2>5
<1>6. phase' = "probing" => Proved(prog)' = {}
  <2>1. Proved(prog') = Proved(prog)'
    BY DEF Proved
  <2> QED
    BY <2>1 DEF BurstSent
<1>7. /\ now' \in Nat
      /\ table'.cands \in Seq(Entries) /\ Len(table'.cands) <= MAX_CANDIDATES
      /\ delay' \in [{table'.cands[i].addr : i \in TableSlots} -> Delays]
  BY <1>1 DEF AttemptShape
<1> QED
  BY <1>1, <1>2, <1>4, <1>5, <1>6, <1>7 DEF AttemptShape

LEMMA ProbePongs ==
  ASSUME AttemptShape, PongsOut, BurstInStep, BurstSent, phase = "probing", ~GivenUp,
         NEW back \in AnsweredSets(BurstPings), Carry(back, Arrived)
  PROVE  PongsOut'
<1>1. /\ back \subseteq BurstPings
      /\ net' = (net \ Arrived) \cup {Pong(p.to, delay[p.to], now) : p \in back}
      /\ now' = now + 1 /\ delay' = delay /\ now \in Nat
  BY BurstNet DEF BurstSent, AttemptShape
<1>2. \A p \in back : p.to \in DOMAIN delay /\ delay[p.to] \in Nat /\ delay[p.to] >= 1
  <2>1. DOMAIN delay = {table.cands[i].addr : i \in TableSlots} /\ Due \subseteq TableSlots
    BY BurstDue DEF AttemptShape
  <2>2. \A p \in BurstPings : p.to \in DOMAIN delay
    BY <2>1 DEF BurstPings
  <2>3. \A q \in DOMAIN delay : delay[q] \in Delays
    BY DEF AttemptShape
  <2> QED
    BY <1>1, <2>2, <2>3, ProbeConstants
<1>3. ASSUME NEW p \in net' PROVE /\ p.tx.at \in Nat /\ p.tx.at < now + 1 /\ now + 1 <= p.due
                                  /\ p.tx.to \in DOMAIN delay
                                  /\ p = Pong(p.tx.to, delay[p.tx.to], p.tx.at)
  <2>1. CASE p \in net \ Arrived
    <3>1. /\ p.tx.at \in Nat /\ p.tx.at < now /\ now <= p.due /\ p.tx.to \in DOMAIN delay
          /\ p = Pong(p.tx.to, delay[p.tx.to], p.tx.at) /\ ~(p.due <= now)
      BY <2>1 DEF PongsOut, Arrived
    <3>2. delay[p.tx.to] \in Nat
      BY <3>1, ProbeConstants DEF AttemptShape
    <3>3. p.due = p.tx.at + delay[p.tx.to]
      BY <3>1 DEF Pong
    <3> QED
      BY <1>1, <3>1, <3>2, <3>3
  <2>2. CASE p \in {Pong(q.to, delay[q.to], now) : q \in back}
    <3>1. PICK q \in back : p = Pong(q.to, delay[q.to], now)
      BY <2>2
    <3>2. p.tx.to = q.to /\ p.tx.at = now /\ p.due = now + delay[q.to]
      BY <3>1 DEF Pong
    <3> QED
      BY <1>1, <1>2, <3>1, <3>2
  <2> QED
    BY <1>1, <2>1, <2>2
<1> QED
  BY <1>1, <1>3 DEF PongsOut

LEMMA ProbeStreaks ==
  ASSUME AttemptShape, PongsOut, StreaksAreAnswers, BurstInStep, BurstSent, phase = "probing",
         ~GivenUp
  PROVE  StreaksAreAnswers'
<1> DEFINE K == CONSECUTIVE_PONGS_TO_WIN
<1>1. /\ prog' = [i \in TableSlots |-> AfterProbe(i)] /\ ok' = [i \in TableSlots |-> Mark(i, Due, Arrived)]
      /\ TableSlots' = TableSlots
  BY DEF BurstSent, TableSlots
<1>2. ASSUME NEW i \in TableSlots, NEW m, m = Mark(i, Due, Arrived), NEW c, c = AfterProbe(i)
      PROVE  /\ c.outstanding = {} \/ (c.lastSent \in Nat /\ c.outstanding = {c.lastSent})
             /\ c.consecutive >= 1 => Len(c.recent) >= 1
             /\ Len(m) <= K
             /\ c.consecutive <= Len(m) - Waits(c)
             /\ \A j \in Len(m) - Waits(c) - c.consecutive + 1..Len(m) - Waits(c) : m[j] = Yes
  <2> DEFINE c0 == prog[i]
             q == ok[i]
             L == Len(ok[i])
  <2>1. /\ c0 \in Candidates /\ now \in Nat /\ K \in Nat /\ K >= 1
        /\ c0.outstanding = {} \/ (c0.lastSent \in Nat /\ c0.outstanding = {c0.lastSent})
        /\ q \in Seq(Flags) /\ L \in Nat /\ L <= K
        /\ c0.consecutive \in Nat
        /\ c0.consecutive <= L - Waits(c0)
        /\ \A j \in L - Waits(c0) - c0.consecutive + 1..L - Waits(c0) : q[j] = Yes
    BY ProbeConstants DEF StreaksAreAnswers, AttemptShape, Candidates
  <2>2. c0.consecutive < K
    <3>1. i \notin Proved(prog) /\ i \in DOMAIN prog
      BY DEF AttemptShape
    <3> QED
      BY <2>1, <3>1 DEF Proved
  <2>3. /\ c \in Candidates /\ c.lastSent = SentTo(i).lastSent
        /\ c.consecutive >= 1 => Len(c.recent) >= 1
    BY <1>2, AfterProbeFacts
  <2>4. Waits(c0) \in {0, 1} /\ Waits(c) \in {0, 1} /\ c.consecutive \in Nat
    BY <2>3 DEF Waits, Candidates
  <2>5. CASE i \in Due
    <3>1. c = Sent(c0)
      BY <1>2, <2>5, AfterProbeFacts DEF SentTo
    <3>2. /\ c.outstanding = {now} /\ c.lastSent = now /\ Waits(c) = 1
          /\ (c.consecutive = c0.consecutive /\ Waits(c0) = 0) \/ c.consecutive = 0
      BY <2>1, <3>1, SentFacts DEF Waits
    <3> DEFINE a == Append(q, No)
    <3>3. /\ a \in Seq(Flags) /\ Len(a) = L + 1 /\ \A j \in 1..L : a[j] = q[j]
          /\ Len(Tail(a)) = L /\ \A j \in 1..L - 1 : Tail(a)[j] = q[j + 1]
      BY <2>1, FlagFacts, SequenceFacts
    <3> HIDE DEF a
    <3>4. \A j \in L - c.consecutive + 1..L : q[j] = Yes
      BY <2>1, <3>2
    <3>5. c.consecutive <= L /\ c.consecutive < K
      BY <2>1, <2>2, <2>4, <3>2
    <3>6. CASE L + 1 <= K
      <4>1. m = a
        BY <1>2, <2>5, <3>6, MarkFacts DEF a
      <4>2. Len(m) - Waits(c) = L
        BY <2>1, <3>2, <3>3, <4>1
      <4>3. \A j \in L - c.consecutive + 1..L : m[j] = Yes
        BY <2>1, <2>4, <3>3, <3>4, <3>5, <4>1, SMTT(30)
      <4> QED
        BY <2>1, <2>3, <3>2, <3>3, <3>5, <3>6, <4>1, <4>2, <4>3
    <3>7. CASE L + 1 > K
      <4>1. m = Tail(a) /\ L = K
        BY <1>2, <2>1, <2>5, <3>7, MarkFacts DEF a
      <4>2. Len(m) - Waits(c) = L - 1
        BY <2>1, <3>2, <3>3, <4>1
      <4>3. \A j \in L - 1 - c.consecutive + 1..L - 1 : m[j] = Yes
        <5> SUFFICES ASSUME NEW j \in L - 1 - c.consecutive + 1..L - 1 PROVE m[j] = Yes
          OBVIOUS
        <5>1. j \in 1..L - 1 /\ j + 1 \in L - c.consecutive + 1..L
          BY <2>1, <2>4, <3>5, <4>1
        <5> QED
          BY <3>3, <3>4, <4>1, <5>1
      <4> QED
        BY <2>1, <2>3, <3>2, <3>3, <3>5, <3>7, <4>1, <4>2, <4>3
    <3> QED
      BY <2>1, <3>6, <3>7
  <2>6. CASE i \notin Due /\ ~Hit(i)
    <3>1. c = c0 /\ m = q
      BY <1>2, <2>6, AfterProbeFacts, MarkFacts DEF SentTo
    <3> QED
      BY <2>1, <2>3, <3>1
  <2>7. CASE i \notin Due /\ Hit(i)
    <3>1. /\ m = [q EXCEPT ![L] = Yes] /\ SentTo(i) = c0
          /\ c.outstanding = {} /\ Waits(c) = 0
          /\ c0.outstanding = {} => c = c0
          /\ c0.outstanding # {} => c.consecutive = c0.consecutive + 1
      BY <1>2, <2>7, AfterProbeFacts, MarkFacts DEF SentTo, Waits
    <3>2. Len(m) = L /\ \A j \in 1..L : m[j] = IF j = L THEN Yes ELSE q[j]
      BY <2>1, <3>1, FlagFacts, SequenceFacts
    <3>3. c.consecutive <= L
      <4>1. CASE c0.outstanding = {}
        BY <2>1, <2>4, <3>1, <4>1
      <4>2. CASE c0.outstanding # {}
        <5>1. Waits(c0) = 1 /\ c.consecutive = c0.consecutive + 1
          BY <3>1, <4>2 DEF Waits
        <5> QED
          BY <2>1, <5>1
      <4> QED
        BY <4>1, <4>2
    <3>4. \A j \in L - c.consecutive + 1..L : m[j] = Yes
      <4> SUFFICES ASSUME NEW j \in L - c.consecutive + 1..L PROVE m[j] = Yes
        OBVIOUS
      <4>1. j \in 1..L
        BY <2>1, <2>4, <3>3
      <4>2. CASE j = L
        BY <3>2, <4>1, <4>2
      <4>3. CASE j # L
        <5>1. j \in L - Waits(c0) - c0.consecutive + 1..L - Waits(c0)
          <6>1. CASE c0.outstanding = {}
            BY <2>1, <3>1, <4>1, <4>3, <6>1 DEF Waits
          <6>2. CASE c0.outstanding # {}
            <7>1. Waits(c0) = 1 /\ c.consecutive = c0.consecutive + 1
              BY <3>1, <6>2 DEF Waits
            <7> QED
              BY <2>1, <4>1, <4>3, <7>1
          <6> QED
            BY <6>1, <6>2
        <5> QED
          BY <2>1, <3>2, <4>1, <4>3, <5>1
      <4> QED
        BY <4>2, <4>3
    <3> QED
      BY <2>1, <2>3, <2>4, <3>1, <3>2, <3>3, <3>4
  <2> QED
    BY <2>5, <2>6, <2>7
<1>3. \A i \in TableSlots : prog'[i] = AfterProbe(i) /\ ok'[i] = Mark(i, Due, Arrived)
  BY <1>1
<1>4. \A i \in TableSlots :
        LET c == prog'[i]
            told == Len(ok'[i]) - Waits(c)
        IN /\ c.outstanding = {} \/ (c.lastSent \in Nat /\ c.outstanding = {c.lastSent})
           /\ c.consecutive >= 1 => Len(c.recent) >= 1
           /\ Len(ok'[i]) <= K
           /\ c.consecutive <= told
           /\ \A j \in told - c.consecutive + 1..told : ok'[i][j] = Yes
  <2> SUFFICES ASSUME NEW i \in TableSlots
               PROVE  LET c == prog'[i]
                          told == Len(ok'[i]) - Waits(c)
                      IN /\ c.outstanding = {} \/ (c.lastSent \in Nat /\ c.outstanding = {c.lastSent})
                         /\ c.consecutive >= 1 => Len(c.recent) >= 1
                         /\ Len(ok'[i]) <= K
                         /\ c.consecutive <= told
                         /\ \A j \in told - c.consecutive + 1..told : ok'[i][j] = Yes
    OBVIOUS
  <2> HIDE DEF K
  <2> QED
    BY <1>2, <1>3
<1> QED
  BY <1>1, <1>4 DEF StreaksAreAnswers, Waits

LEMMA ProbeInStep ==
  ASSUME AttemptShape, PongsOut, StreaksAreAnswers, BurstInStep, BurstSent, phase = "probing",
         ~GivenUp, NEW back \in AnsweredSets(BurstPings), Carry(back, Arrived)
  PROVE  BurstInStep'
<1>1. /\ prog' = [i \in TableSlots |-> AfterProbe(i)] /\ TableSlots' = TableSlots /\ now' = now + 1 /\ now \in Nat
  BY DEF BurstSent, TableSlots, AttemptShape
<1>2. \A i \in TableSlots : prog'[i].lastSent = IF i \in Due THEN now ELSE prog[i].lastSent
  <2> SUFFICES ASSUME NEW i \in TableSlots
               PROVE  prog'[i].lastSent = IF i \in Due THEN now ELSE prog[i].lastSent
    OBVIOUS
  <2>1. prog'[i] = AfterProbe(i) /\ AfterProbe(i).lastSent = SentTo(i).lastSent
    BY <1>1, AfterProbeFacts
  <2> QED
    BY <2>1, SentToFacts
<1>3. Due = {} \/ Due = TableSlots
  BY DEF BurstSent
<1>4. \A i, j \in TableSlots : prog'[i].lastSent = prog'[j].lastSent
  <2>1. \A i, j \in TableSlots : prog[i].lastSent = prog[j].lastSent
    BY DEF BurstInStep
  <2> QED
    BY <1>2, <1>3, <2>1
<1>5. /\ limiter' \in [start : Nat, answered : Nat] /\ limiter'.start <= now
      /\ Due = {} => limiter' = limiter
  BY BurstNet
<1>6. ASSUME NEW i \in TableSlots, NEW t, t = prog'[i].lastSent
      PROVE  /\ t < now + 1
             /\ t # None => now + 1 <= SlowFrom \/ now + 1 <= t + PROBE_SLOW_INTERVAL
             /\ now + 1 > FIRE_IN => t # None
             /\ t # None => limiter'.start <= t
  <2> DEFINE u == prog[i].lastSent
  <2>1. /\ u \in Int /\ u < now
        /\ u # None => now <= SlowFrom \/ now <= u + PROBE_SLOW_INTERVAL
        /\ now > FIRE_IN => u # None
        /\ u # None => limiter.start <= u
    BY DEF BurstInStep, AttemptShape, Candidates, Instant, None
  <2>2. CASE i \in Due
    <3>1. t = now
      BY <1>2, <1>6, <2>2
    <3> QED
      BY <1>1, <1>5, <3>1, ProbeConstants DEF None
  <2>3. CASE i \notin Due
    <3>1. t = u /\ Due = {} /\ limiter' = limiter
      BY <1>2, <1>3, <1>5, <1>6, <2>3
    <3>2. /\ ~(now >= FIRE_IN) \/ (u # None /\ ~(now - u >= BurstInterval))
          /\ now >= SlowFrom => BurstInterval = PROBE_SLOW_INTERVAL
      BY <2>3, BurstDue
    <3>3. SlowFrom \in Nat /\ SlowFrom > FIRE_IN
      BY ProbeConstants DEF SlowFrom
    <3> HIDE DEF u
    <3> QED
      BY <1>1, <2>1, <3>1, <3>2, <3>3, ProbeConstants
  <2> QED
    BY <2>2, <2>3
<1>7. /\ SlowFrom' = SlowFrom
      /\ limiter'.start <= now'
  BY <1>1, <1>5 DEF SlowFrom
<1> QED
  BY <1>1, <1>4, <1>5, <1>6, <1>7 DEF BurstInStep

LEMMA ProbeSlow ==
  ASSUME AttemptShape, PongsOut, StreaksAreAnswers, BurstInStep, SlowCounts, BurstSent,
         phase = "probing", ~GivenUp, NEW back \in AnsweredSets(BurstPings), Carry(back, Arrived)
  PROVE  SlowCounts'
<1> DEFINE P == PROBE_SLOW_INTERVAL
<1>1. /\ prog' = [i \in TableSlots |-> AfterProbe(i)] /\ TableSlots' = TableSlots /\ now' = now + 1 /\ now \in Nat
      /\ table' = table /\ delay' = delay
      /\ lost' = lost \cup ({table.cands[i].addr : i \in Due} \cap losing)
  BY DEF BurstSent, TableSlots, AttemptShape
<1>2. P \in Nat /\ P >= 1 /\ SlowFrom \in Nat /\ SlowFrom > FIRE_IN
  BY ProbeConstants DEF SlowFrom
<1>3. ASSUME NEW i \in TableSlots, NEW c, c = prog'[i], NEW to, to = table.cands[i].addr,
             to \notin lost', delay[to] < P, c.lastSent # None, c.lastSent >= SlowFrom
      PROVE  /\ c.outstanding # {} => Pong(to, delay[to], c.lastSent) \in net'
             /\ c.lastSent < SlowFrom + (c.consecutive + Waits(c)) * P
  <2> DEFINE c0 == prog[i]
             u == c0.lastSent
             d == delay[to]
  <2>1. /\ c0 \in Candidates /\ u \in Int /\ u < now
        /\ u # None => now <= SlowFrom \/ now <= u + P
        /\ now > FIRE_IN => u # None
        /\ c0.outstanding = {} \/ (u \in Nat /\ c0.outstanding = {u})
        /\ c0.consecutive \in Nat
    BY DEF BurstInStep, AttemptShape, StreaksAreAnswers, Candidates, Instant, None
  <2>2. c = AfterProbe(i) /\ c.lastSent = SentTo(i).lastSent /\ c \in Candidates
    BY <1>1, <1>3, AfterProbeFacts
  <2>3. to \notin lost /\ (i \in Due => to \notin losing)
    BY <1>1, <1>3
  <2>4. d \in Nat
    BY <1>3, ProbeConstants DEF AttemptShape
  <2>5. u # None /\ u >= SlowFrom =>
          /\ c0.outstanding # {} => Pong(to, d, u) \in net
          /\ u < SlowFrom + (c0.consecutive + Waits(c0)) * P
    BY <1>3, <2>3 DEF SlowCounts
  <2>6. CASE i \in Due
    <3>1. c = Sent(c0) /\ c.lastSent = now
      BY <2>2, <2>6, AfterProbeFacts, SentToFacts DEF SentTo
    <3>2. /\ c.outstanding = {now} /\ Waits(c) = 1 /\ c.consecutive \in Nat
          /\ c0.outstanding = {} => c.consecutive = c0.consecutive /\ Waits(c0) = 0
      BY <1>1, <2>1, <2>2, <3>1, SentFacts DEF Waits, Candidates
    <3>3. now >= SlowFrom /\ u # None /\ now - u >= P
      <4>1. now >= SlowFrom
        BY <1>3, <3>1
      <4>2. u # None
        BY <1>1, <1>2, <2>1, <4>1, ProbeConstants
      <4>3. (u # None => now - u >= BurstInterval) /\ BurstInterval = P
        BY <2>6, <4>1, BurstDue
      <4> QED
        BY <4>1, <4>2, <4>3
    <3>4. Pong(to, d, now) \in net'
      <4>1. \A j \in Due : prog[j].lastSent = u
        BY <2>6 DEF BurstSent, BurstInStep
      <4>2. back = {p \in BurstPings : p.to \notin losing}
        BY <1>1, <1>2, <2>1, <2>6, <3>3, <4>1, BurstNet, ProbeConstants
      <4>3. [to |-> to, at |-> now] \in back
        BY <1>3, <2>3, <2>6, <4>2 DEF BurstPings
      <4>4. net' = (net \ Arrived) \cup {Pong(p.to, delay[p.to], now) : p \in back}
        BY BurstNet
      <4>5. \E p \in back : p.to = to
        BY <4>3
      <4> QED
        BY <4>4, <4>5
    <3>5. now < SlowFrom + (c.consecutive + 1) * P
      <4>1. (c.consecutive + 1) * P = c.consecutive * P + P /\ c.consecutive * P \in Nat
        BY <1>2, <3>2
      <4> DEFINE X == c.consecutive * P
      <4>2. CASE now = SlowFrom \/ u < SlowFrom
        <5>1. now <= SlowFrom \/ now <= u + P
          BY <2>1, <3>3
        <5> HIDE DEF X, P, u
        <5> QED
          BY <1>1, <1>2, <2>1, <4>1, <4>2, <5>1 DEF X
      <4>3. CASE now # SlowFrom /\ u >= SlowFrom
        <5>1. now = u + P
          BY <1>1, <1>2, <2>1, <3>3, <4>3
        <5>2. c0.outstanding = {}
          <6> SUFFICES ASSUME c0.outstanding # {} PROVE FALSE
            OBVIOUS
          <6>1. Pong(to, d, u) \in net
            BY <2>5, <3>3, <4>3
          <6>2. now <= u + d
            BY <6>1 DEF PongsOut, Pong
          <6> QED
            BY <1>2, <1>3, <2>1, <2>4, <5>1, <6>2
        <5>3. c.consecutive = c0.consecutive /\ Waits(c0) = 0
          BY <3>2, <5>2
        <5>4. u < SlowFrom + (c0.consecutive + Waits(c0)) * P
          BY <2>5, <3>3, <4>3
        <5>5. (c0.consecutive + Waits(c0)) * P = X
          BY <3>2, <5>3
        <5> HIDE DEF X, P, u
        <5> QED
          BY <1>1, <1>2, <2>1, <4>1, <5>1, <5>4, <5>5 DEF X
      <4> QED
        BY <1>2, <2>1, <4>2, <4>3
    <3> QED
      BY <3>1, <3>2, <3>4, <3>5
  <2>7. CASE i \notin Due
    <3>1. SentTo(i) = c0 /\ c.lastSent = u
      BY <2>2, <2>7, SentToFacts
    <3>2. /\ c0.outstanding # {} => Pong(to, d, u) \in net
          /\ u < SlowFrom + (c0.consecutive + Waits(c0)) * P
      BY <1>3, <2>5, <3>1
    <3>3. CASE Hit(i)
      <4>1. /\ c.outstanding = {} /\ Waits(c) = 0
            /\ c0.outstanding = {} => c = c0
            /\ c0.outstanding # {} => c.consecutive = c0.consecutive + 1 /\ Waits(c0) = 1
        BY <2>2, <3>1, <3>3, AfterProbeFacts DEF Waits
      <4>2. c.consecutive + Waits(c) = c0.consecutive + Waits(c0)
        BY <2>1, <4>1
      <4> QED
        BY <3>1, <3>2, <4>1, <4>2
    <3>4. CASE ~Hit(i)
      <4>1. c = c0
        BY <2>2, <3>1, <3>4, AfterProbeFacts
      <4>2. ASSUME c0.outstanding # {} PROVE Pong(to, d, u) \in net'
        <5>1. Pong(to, d, u) \in net
          BY <3>2, <4>2
        <5>2. Pong(to, d, u).tx.to = to /\ Pong(to, d, u).tx.at = u
          BY DEF Pong
        <5>3. Pong(to, d, u) \notin Arrived
          BY <1>3, <3>1, <3>4, <5>2, ArrivedFacts DEF Hit
        <5>4. net' = (net \ Arrived) \cup {Pong(p.to, delay[p.to], now) : p \in back}
          BY BurstNet
        <5> QED
          BY <5>1, <5>3, <5>4
      <4> QED
        BY <3>2, <4>1, <4>2
    <3> QED
      BY <3>3, <3>4
  <2> QED
    BY <2>6, <2>7
<1> HIDE DEF P
<1>4. \A i \in TableSlots :
        LET c == prog'[i]
            to == table.cands[i].addr
        IN to \notin lost' /\ delay[to] < P /\ c.lastSent # None /\ c.lastSent >= SlowFrom =>
             /\ c.outstanding # {} => Pong(to, delay[to], c.lastSent) \in net'
             /\ c.lastSent < SlowFrom + (c.consecutive + Waits(c)) * P
  BY <1>3
<1> QED
  BY <1>1, <1>4 DEF SlowCounts, SlowFrom, Waits, P

\* An attempt begins, and what it promises.
LEMMA ProbeStep ==
  ASSUME AttemptInv, Probe
  PROVE  AttemptInv'
<1>1. AttemptShape /\ PongsOut /\ StreaksAreAnswers /\ BurstInStep /\ SlowCounts
  BY DEF AttemptInv, InAttempt, Probe
<1>2. BurstSent /\ phase = "probing" /\ ~GivenUp
  BY <1>1, BurstPassFacts
<1>3. PICK back \in AnsweredSets(BurstPings) : Carry(back, Arrived)
  BY <1>1, BurstPassFacts
<1>4. AttemptShape'
  BY <1>1, <1>2, ProbeShape
<1>5. PongsOut'
  BY <1>1, <1>2, <1>3, ProbePongs
<1>6. StreaksAreAnswers'
  BY <1>1, <1>2, ProbeStreaks
<1>7. BurstInStep'
  BY <1>1, <1>2, <1>3, ProbeInStep
<1>8. SlowCounts'
  BY <1>1, <1>2, <1>3, ProbeSlow
<1> QED
  BY <1>4, <1>5, <1>6, <1>7, <1>8 DEF AttemptInv

LEMMA NewCandidateFacts ==
  /\ NewCandidate \in Candidates /\ NewCandidate.outstanding = {}
  /\ NewCandidate.consecutive = 0 /\ NewCandidate.lastSent = None
  /\ Waits(NewCandidate) = 0
<1>1. <<>> \in Seq(Nat) /\ None \in Int /\ None \in Instant /\ {} \in SUBSET Nat /\ 0 \in Nat
  BY DEF None, Instant
<1> QED
  BY <1>1 DEF NewCandidate, Candidates, Waits

\* Nothing has been sent to any candidate.
LEMMA FreshAttempt ==
  ASSUME now \in Nat, limiter \in [start : Nat, answered : Nat], limiter.start <= now, now <= FIRE_IN,
         \A i \in TableSlots : prog[i] = NewCandidate /\ ok[i] = <<>>
  PROVE  StreaksAreAnswers /\ BurstInStep /\ SlowCounts
<1>1. StreaksAreAnswers
  <2> SUFFICES ASSUME NEW i \in TableSlots
               PROVE  LET c == prog[i]
                          told == Len(ok[i]) - Waits(c)
                      IN /\ c.outstanding = {} \/ (c.lastSent \in Nat /\ c.outstanding = {c.lastSent})
                         /\ c.consecutive >= 1 => Len(c.recent) >= 1
                         /\ Len(ok[i]) <= CONSECUTIVE_PONGS_TO_WIN
                         /\ c.consecutive <= told
                         /\ \A j \in told - c.consecutive + 1..told : ok[i][j] = Yes
    BY DEF StreaksAreAnswers
  <2>1. Len(<<>>) = 0
    OBVIOUS
  <2>2. prog[i].outstanding = {} /\ prog[i].consecutive = 0 /\ Waits(prog[i]) = 0 /\ Len(ok[i]) = 0
    BY <2>1, NewCandidateFacts
  <2> QED
    BY <2>2, ProbeConstants
<1>2. \A i \in TableSlots : prog[i].lastSent = None
  BY NewCandidateFacts
<1>3. BurstInStep
  BY <1>2, ProbeConstants DEF BurstInStep, None
<1>4. SlowCounts
  BY <1>2 DEF SlowCounts
<1> QED
  BY <1>1, <1>3, <1>4

LEMMA BurstBegins ==
  ASSUME AttemptInv, StartSignalReceived
  PROVE  AttemptInv'
<1>1. /\ phase = "built" /\ AttemptShape
      /\ phase' = "probing" /\ now' = 0 /\ net' = {} /\ limiter' = [start |-> 0, answered |-> 0]
      /\ delay' \in [{table.cands[i].addr : i \in DOMAIN table.cands} -> Delays]
      /\ UNCHANGED <<table, prog, ok>>
  BY DEF AttemptInv, InAttempt, StartSignalReceived, BeginPhase
<1>2. /\ DOMAIN table.cands = TableSlots /\ TableSlots' = TableSlots
      /\ \A i \in TableSlots : prog[i] = NewCandidate /\ ok[i] = <<>>
  BY <1>1 DEF AttemptShape, TableSlots
<1>3. Proved(prog)' = {}
  <2>1. \A i \in TableSlots : prog[i].consecutive = 0
    BY <1>2, NewCandidateFacts
  <2>2. DOMAIN prog = TableSlots
    BY <1>1 DEF AttemptShape
  <2> QED
    BY <1>1, <2>1, <2>2, ProbeConstants DEF Proved
<1>4. AttemptShape'
  BY <1>1, <1>2, <1>3 DEF AttemptShape
<1>5. PongsOut'
  BY <1>1 DEF PongsOut
<1>6. /\ now' \in Nat /\ limiter' \in [start : Nat, answered : Nat] /\ limiter'.start <= now'
      /\ now' <= FIRE_IN
      /\ \A i \in TableSlots' : prog'[i] = NewCandidate /\ ok'[i] = <<>>
  BY <1>1, <1>2, ProbeConstants
<1>7. StreaksAreAnswers' /\ BurstInStep' /\ SlowCounts'
  <2>1. (/\ now \in Nat /\ limiter \in [start : Nat, answered : Nat] /\ limiter.start <= now
         /\ now <= FIRE_IN
         /\ \A i \in TableSlots : prog[i] = NewCandidate /\ ok[i] = <<>>)'
    BY <1>6
  <2> QED
    BY <2>1, FreshAttempt, PTL
<1> QED
  BY <1>4, <1>5, <1>7 DEF AttemptInv

LEMMA ProbingPromises ==
  ASSUME AttemptInv
  PROVE  ProbingIsRight
<1>1. WinnerProved
  <2> SUFFICES ASSUME phase = "won"
               PROVE  ok[winner.at] = [k \in 1..CONSECUTIVE_PONGS_TO_WIN |-> TRUE]
    BY DEF WinnerProved
  <2> DEFINE i == winner.at
             q == ok[i]
             c == prog[i]
             K == CONSECUTIVE_PONGS_TO_WIN
  <2>1. /\ i \in TableSlots /\ c.consecutive >= K /\ c \in Candidates /\ q \in Seq(Flags)
        /\ Len(q) <= K /\ c.consecutive <= Len(q) - Waits(c)
        /\ \A j \in Len(q) - Waits(c) - c.consecutive + 1..Len(q) - Waits(c) : q[j] = Yes
    BY DEF AttemptInv, InAttempt, AttemptShape, StreaksAreAnswers
  <2>2. /\ Waits(c) \in {0, 1} /\ c.consecutive \in Nat /\ Len(q) \in Nat /\ K \in Nat
        /\ q \in [1..Len(q) -> Flags]
    BY <2>1, ProbeConstants DEF Waits, Candidates
  <2>3. Len(q) = K /\ Waits(c) = 0 /\ c.consecutive = K
    BY <2>1, <2>2
  <2>4. \A j \in 1..K : q[j] = Yes
    BY <2>1, <2>2, <2>3
  <2> HIDE DEF q, K
  <2>5. q = [k \in 1..K |-> Yes]
    BY <2>2, <2>3, <2>4
  <2> QED
    BY <2>5 DEF Yes, q, K
<1>2. ReachableWins
  <2> SUFFICES ASSUME phase = "probing", GivenUp, NEW p \in DOMAIN delay, p \notin lost,
                      delay[p] < PROBE_SLOW_INTERVAL
               PROVE  FALSE
    <3>1. \A d \in Delays : d \in Nat
      BY ProbeConstants
    <3>2. phase = "probing" => \A q \in DOMAIN delay : delay[q] \in Delays
      BY DEF AttemptInv, InAttempt, AttemptShape
    <3> QED
      BY <3>1, <3>2, ProbeConstants DEF ReachableWins
  <2> DEFINE K == CONSECUTIVE_PONGS_TO_WIN
             P == PROBE_SLOW_INTERVAL
  <2>1. AttemptShape /\ BurstInStep /\ SlowCounts /\ now \in Nat
    BY DEF AttemptInv, InAttempt, AttemptShape
  <2>2. PICK i \in TableSlots : p = table.cands[i].addr
    BY <2>1 DEF AttemptShape
  <2> DEFINE c == prog[i]
             s == c.lastSent
  <2>3. c \in Candidates /\ s \in Int /\ c.consecutive \in Nat /\ Waits(c) \in {0, 1}
    BY <2>1 DEF AttemptShape, Candidates, Instant, None, Waits
  <2>4. c.consecutive < K
    <3>1. i \notin Proved(prog) /\ i \in DOMAIN prog
      BY <2>1 DEF AttemptShape
    <3> QED
      BY <2>3, <3>1, ProbeConstants DEF Proved
  <2>5. /\ s # None => now <= SlowFrom \/ now <= s + P
        /\ now > FIRE_IN => s # None
        /\ s # None /\ s >= SlowFrom => s < SlowFrom + (c.consecutive + Waits(c)) * P
    BY <2>1, <2>2 DEF BurstInStep, SlowCounts
  <2>6. /\ K \in Nat /\ P \in Nat /\ P >= 1 /\ SlowFrom \in Nat /\ SlowFrom > FIRE_IN /\ FIRE_IN \in Nat
        /\ now - FIRE_IN >= PROBE_GIVE_UP /\ K >= 1
    BY ProbeConstants DEF SlowFrom, GivenUp, Elapsed
  <2>7. now >= SlowFrom + (K + 1) * P
    <3>1. PROBE_FAST_WINDOW + (K + 1) * P <= PROBE_GIVE_UP /\ PROBE_GIVE_UP \in Nat
          /\ PROBE_FAST_WINDOW \in Nat
      BY ProbeConstants
    <3> DEFINE X == (K + 1) * P
    <3>2. X \in Nat
      BY <2>6
    <3> HIDE DEF X
    <3> QED
      BY <2>1, <2>6, <3>1, <3>2 DEF SlowFrom, X
  <2> DEFINE n == c.consecutive + Waits(c)
             Y == K * P
             Z == n * P
  <2>8. n \in Nat /\ n <= K
    BY <2>3, <2>4, <2>6
  <2>9. Y \in Nat /\ Z \in Nat /\ (K + 1) * P = Y + P
    BY <2>6, <2>8
  <2> HIDE DEF n, K, P
  <2>10. Z <= Y
    BY <2>6, <2>8
  <2> HIDE DEF Y, Z
  <2>11. now >= SlowFrom + Y + P
    BY <2>1, <2>6, <2>7, <2>9
  <2>12. s # None
    BY <2>1, <2>5, <2>6, <2>9, <2>11
  <2>13. s >= SlowFrom + Y
    BY <2>1, <2>3, <2>5, <2>6, <2>9, <2>11, <2>12
  <2>14. s < SlowFrom + Z
    BY <2>3, <2>5, <2>6, <2>9, <2>12, <2>13 DEF Z, n
  <2> QED
    BY <2>3, <2>6, <2>9, <2>10, <2>13, <2>14
<1> QED
  BY <1>1, <1>2 DEF ProbingIsRight

-----------------------------------------------------------------------------
(* CandidateTable: what a table holds, and what may stand in it when V is  *)
(* what something other than the peer's word stands behind.                *)

HostsOf(t) == {t.cands[i].addr.host : i \in DOMAIN t.cands}

\* No address stands on the peer's word alone inside a network, no host twice.
SoundCands(s, V) ==
  /\ \A i \in DOMAIN s :
       /\ s[i].addr.mapped = FALSE
       /\ Kind[s[i].addr.host] \notin {"bad", "noPort"}
       /\ Kind[s[i].addr.host] # "global" => \E a \in V : a.host = s[i].addr.host
  /\ \A i, j \in DOMAIN s : i # j => s[i].addr.host # s[j].addr.host

SoundTable(t, V) ==
  /\ t \in Tables /\ Len(t.cands) <= MAX_CANDIDATES
  /\ SoundCands(t.cands, V)
  /\ \A v \in t.vouched : \E a \in V : a.host = v.host

Plain(h) == [host |-> h, mapped |-> FALSE]

LEMMA UnmapFacts ==
  ASSUME NEW a \in Address
  PROVE  Unmap(a) = Plain(a.host) /\ Unmap(a) \in Address /\ a.host \in Hosts
<1>1. a.host \in Hosts
  BY DEF Address
<1>2. Unmap(a) \in Address /\ Unmap(a).host = a.host /\ Unmap(a).mapped = FALSE
  BY DEF Unmap, Address
<1>3. \A r \in Address : r = [host |-> r.host, mapped |-> r.mapped]
  BY DEF Address
<1>4. Unmap(a) = [host |-> a.host, mapped |-> FALSE]
  BY <1>2, <1>3
<1> QED
  BY <1>1, <1>2, <1>4 DEF Plain

LEMMA HoldsPlain ==
  ASSUME NEW t, NEW V, SoundTable(t, V), NEW h \in Hosts
  PROVE  Holds(t, Plain(h)) <=> h \in HostsOf(t)
<1>1. \A i \in DOMAIN t.cands : t.cands[i].addr \in Address /\ t.cands[i].addr.mapped = FALSE
  <2>1. t.cands \in Seq(Entries)
    BY DEF SoundTable, Tables
  <2>2. \A i \in DOMAIN t.cands : t.cands[i] \in Entries
    BY <2>1
  <2> QED
    BY <2>2 DEF SoundTable, SoundCands, Entries
<1>2. \A i \in DOMAIN t.cands : t.cands[i].addr = Plain(t.cands[i].addr.host)
  BY <1>1 DEF Address, Plain
<1>3. Plain(h).host = h
  BY DEF Plain
<1> QED
  BY <1>2, <1>3 DEF Holds, HostsOf

\* A table like another in what is not said here.
LEMMA SoundLike ==
  ASSUME NEW V, NEW t, SoundTable(t, V), NEW u \in Tables, u.cands = t.cands,
         \A v \in u.vouched : \E b \in V : b.host = v.host
  PROVE  SoundTable(u, V) /\ HostsOf(u) = HostsOf(t)
BY DEF HostsOf, SoundTable

\* One address more.
LEMMA SoundAdd ==
  ASSUME NEW V, NEW t, SoundTable(t, V), NEW a \in Address,
         NEW source \in {"peerReported", "discovery"},
         source = "discovery" => \E b \in V : b.host = a.host
  PROVE  LET u == AddCandidate(t, a, source) IN
         /\ SoundTable(u, V) /\ u.vouched = t.vouched
         /\ HostsOf(t) \subseteq HostsOf(u) /\ HostsOf(u) \subseteq HostsOf(t) \cup {a.host}
         /\ Kind[a.host] = "global" /\ Len(t.cands) < MAX_CANDIDATES => a.host \in HostsOf(u)
<1> DEFINE u == AddCandidate(t, a, source)
           e == [addr |-> Plain(a.host), source |-> source]
           n == Len(t.cands)
<1>1. /\ t \in Tables /\ u \in Tables /\ u.vouched = t.vouched
      /\ u.cands = IF Admissible(t, Plain(a.host), source) THEN Append(t.cands, e) ELSE t.cands
      /\ a.host \in Hosts
  <2>1. t \in Tables /\ a.host \in Hosts /\ Unmap(a) = Plain(a.host)
    BY UnmapFacts DEF SoundTable
  <2>2. /\ u \in Tables /\ u.vouched = t.vouched
        /\ u.cands = IF Admissible(t, Unmap(a), source)
                     THEN Append(t.cands, [addr |-> Unmap(a), source |-> source]) ELSE t.cands
    BY <2>1, AddFacts
  <2> HIDE DEF u
  <2> QED
    BY <2>1, <2>2
<1> HIDE DEF u
<1>2. /\ t.cands \in Seq(Entries) /\ n \in Nat /\ DOMAIN t.cands = 1..n
      /\ Len(t.cands) <= MAX_CANDIDATES /\ MAX_CANDIDATES \in Nat
  BY <1>1, ProbeConstants DEF Tables, SoundTable
<1>3. CASE Admissible(t, Plain(a.host), source)
  <2>1. /\ u.cands = Append(t.cands, e) /\ DOMAIN u.cands = 1..n + 1 /\ Len(u.cands) = n + 1
        /\ \A i \in 1..n : u.cands[i] = t.cands[i]
        /\ u.cands[n + 1] = e
    BY <1>1, <1>2, <1>3
  <2>2. /\ n < MAX_CANDIDATES
        /\ Kind[a.host] \notin {"bad", "noPort"}
        /\ a.host \notin HostsOf(t)
        /\ source = "peerReported" => Kind[a.host] = "global" \/ Plain(a.host) \in t.vouched
    BY <1>1, <1>3, HoldsPlain DEF Admissible, IsProbeable, IsGloballyRoutable, Plain
  <2>3. Kind[a.host] # "global" => \E b \in V : b.host = a.host
    <3>1. Plain(a.host) \in t.vouched => \E b \in V : b.host = Plain(a.host).host
      BY DEF SoundTable
    <3> QED
      BY <2>2, <3>1 DEF Plain
  <2>4. e.addr.mapped = FALSE /\ e.addr.host = a.host
    BY DEF Plain
  <2> HIDE DEF e, n
  <2>5. \A i \in 1..n + 1 : i \in 1..n \/ i = n + 1
    BY <1>2
  <2>6. HostsOf(u) = HostsOf(t) \cup {a.host}
    <3>1. \A i \in 1..n : u.cands[i].addr.host = t.cands[i].addr.host /\ i \in 1..n + 1
      BY <1>2, <2>1
    <3>2. n + 1 \in 1..n + 1 /\ u.cands[n + 1].addr.host = a.host
      BY <1>2, <2>1, <2>4
    <3> QED
      BY <1>2, <2>1, <2>5, <3>1, <3>2 DEF HostsOf
  <2>7. Len(u.cands) <= MAX_CANDIDATES
    BY <1>2, <2>1, <2>2
  <2>8. \A i \in DOMAIN u.cands :
          /\ u.cands[i].addr.mapped = FALSE
          /\ Kind[u.cands[i].addr.host] \notin {"bad", "noPort"}
          /\ Kind[u.cands[i].addr.host] # "global" => \E b \in V : b.host = u.cands[i].addr.host
    <3> SUFFICES ASSUME NEW i \in 1..n + 1
                 PROVE  /\ u.cands[i].addr.mapped = FALSE
                        /\ Kind[u.cands[i].addr.host] \notin {"bad", "noPort"}
                        /\ Kind[u.cands[i].addr.host] # "global" =>
                             \E b \in V : b.host = u.cands[i].addr.host
      BY <2>1
    <3>1. CASE i \in 1..n
      BY <1>2, <2>1, <3>1 DEF SoundTable, SoundCands
    <3>2. CASE i = n + 1
      BY <2>1, <2>2, <2>3, <2>4, <3>2
    <3> QED
      BY <2>5, <3>1, <3>2
  <2>9. \A i, j \in DOMAIN u.cands : i # j => u.cands[i].addr.host # u.cands[j].addr.host
    <3>1. \A i \in 1..n : t.cands[i].addr.host # a.host
      BY <1>2, <2>2 DEF HostsOf
    <3>2. \A i, j \in 1..n : i # j => t.cands[i].addr.host # t.cands[j].addr.host
      BY <1>2 DEF SoundTable, SoundCands
    <3>3. \A i \in 1..n : u.cands[i].addr.host = t.cands[i].addr.host
      BY <2>1
    <3>4. u.cands[n + 1].addr.host = a.host
      BY <2>1, <2>4
    <3> QED
      BY <2>1, <2>5, <3>1, <3>2, <3>3, <3>4
  <2>10. \A v \in u.vouched : \E b \in V : b.host = v.host
    BY <1>1 DEF SoundTable
  <2> QED
    BY <1>1, <2>6, <2>7, <2>8, <2>9, <2>10 DEF SoundTable, SoundCands, u
<1>4. CASE ~Admissible(t, Plain(a.host), source)
  <2>1. u.cands = t.cands
    BY <1>1, <1>4
  <2>2. SoundTable(u, V) /\ HostsOf(u) = HostsOf(t)
    <3>1. u \in Tables /\ \A v \in u.vouched : \E b \in V : b.host = v.host
      BY <1>1, <1>2, <2>1 DEF SoundTable
    <3> QED
      BY <2>1, <3>1, SoundLike
  <2>3. ASSUME Kind[a.host] = "global", n < MAX_CANDIDATES PROVE a.host \in HostsOf(t)
    <3>1. Holds(t, Plain(a.host))
      BY <1>4, <2>3 DEF Admissible, IsProbeable, IsGloballyRoutable, Plain
    <3> QED
      BY <1>1, <3>1, HoldsPlain
  <2> QED
    BY <1>1, <2>2, <2>3 DEF u
<1> QED
  BY <1>3, <1>4

LEMMA SoundVouch ==
  ASSUME NEW V, NEW t, SoundTable(t, V), NEW a \in Address, a \in V
  PROVE  SoundTable(Vouch(t, a), V) /\ HostsOf(Vouch(t, a)) = HostsOf(t)
<1>1. t \in Tables
  BY DEF SoundTable
<1>2. /\ Vouch(t, a) \in Tables /\ Vouch(t, a).cands = t.cands
      /\ Vouch(t, a).vouched = t.vouched \cup {Unmap(a)}
  BY <1>1, VouchFacts
<1>3. Unmap(a).host = a.host
  BY UnmapFacts DEF Plain
<1>4. \A v \in Vouch(t, a).vouched : \E b \in V : b.host = v.host
  BY <1>2, <1>3 DEF SoundTable
<1> QED
  BY <1>2, <1>4, SoundLike

LEMMA SoundDiscovered ==
  ASSUME NEW V, NEW t, SoundTable(t, V), NEW a \in Address, a \in V
  PROVE  SoundTable(AddDiscovered(t, a), V) /\ HostsOf(t) \subseteq HostsOf(AddDiscovered(t, a))
<1> DEFINE u == AddDiscovered(t, a)
           v == Vouch(t, a)
           w == AddCandidate(v, a, "discovery")
<1>1. /\ t \in Tables /\ u \in Tables /\ u.vouched = t.vouched \cup {Unmap(a)}
      /\ u.cands = t.cands \/ u.cands = w.cands
  BY DiscoveredFacts DEF SoundTable
<1>2. SoundTable(v, V) /\ HostsOf(v) = HostsOf(t) /\ v.cands = t.cands
      /\ v.vouched = t.vouched \cup {Unmap(a)}
  BY <1>1, SoundVouch, VouchFacts
<1>3. SoundTable(w, V) /\ HostsOf(v) \subseteq HostsOf(w)
  BY <1>2, SoundAdd
<1> HIDE DEF u, v, w
<1>4. \A x \in u.vouched : \E b \in V : b.host = x.host
  BY <1>1, <1>2 DEF SoundTable
<1>5. CASE u.cands = t.cands
  <2>1. SoundTable(u, V) /\ HostsOf(u) = HostsOf(t)
    BY <1>1, <1>4, <1>5, SoundLike
  <2> QED
    BY <2>1 DEF u
<1>6. CASE u.cands = w.cands
  <2>1. SoundTable(u, V) /\ HostsOf(u) = HostsOf(w)
    BY <1>1, <1>3, <1>4, <1>6, SoundLike
  <2> QED
    BY <1>2, <1>3, <2>1 DEF u
<1> QED
  BY <1>1, <1>5, <1>6

\* No host stands in a table twice.
LEMMA HostsCount ==
  ASSUME NEW V, NEW t, SoundTable(t, V)
  PROVE  IsFiniteSet(HostsOf(t)) /\ Cardinality(HostsOf(t)) = Len(t.cands) /\ Len(t.cands) \in Nat
<1> DEFINE n == Len(t.cands)
           f == [i \in 1..n |-> t.cands[i].addr.host]
<1>1. n \in Nat /\ DOMAIN t.cands = 1..n
  BY DEF SoundTable, Tables
<1>2. IsFiniteSet(1..n) /\ Cardinality(1..n) = n
  <2>1. IsFiniteSet(1..n) /\ Cardinality(1..n) = IF 1 > n THEN 0 ELSE n - 1 + 1
    BY <1>1, FS_Interval, SMTT(30)
  <2> QED
    BY <1>1, <2>1
<1>3. HostsOf(t) = {f[i] : i \in 1..n}
  BY <1>1 DEF HostsOf
<1>4. \A i, j \in 1..n : i # j => f[i] # f[j]
  BY <1>1, Zenon DEF SoundTable, SoundCands
<1> HIDE DEF n
<1>5. f \in [1..n -> HostsOf(t)]
  BY <1>3
<1>6. f \in Surjection(1..n, HostsOf(t)) /\ f \in Injection(1..n, HostsOf(t))
  BY <1>3, <1>4, <1>5 DEF Surjection, Injection, IsInjective
<1>7. /\ IsFiniteSet(HostsOf(t))
      /\ Cardinality(HostsOf(t)) = Cardinality(1..n) <=> f \in Injection(1..n, HostsOf(t))
  BY <1>2, <1>6, FS_Surjection
<1> QED
  BY <1>1, <1>2, <1>6, <1>7 DEF n

\* The peer's list, address by address.
LEMMA PeerTable ==
  ASSUME NEW V, NEW t, SoundTable(t, V), HostsOf(t) = {}, NEW q \in Seq(Address)
  PROVE  LET u == AddPeerCandidates(t, q) IN
         /\ SoundTable(u, V)
         /\ \A k \in 1..Len(q) :
              /\ Kind[q[k].host] = "global"
              /\ Cardinality({q[m].host : m \in 1..k}) <= MAX_CANDIDATES
              => q[k].host \in HostsOf(u)
<1> DEFINE N == Len(q)
           Before(k) == {q[m].host : m \in 1..k}
<1>1. N \in Nat /\ DOMAIN q = 1..N /\ t \in Tables /\ \A k \in 1..N : q[k] \in Address
  BY DEF SoundTable
<1>2. PICK r : /\ r[0] = t
               /\ \A k \in 1..N : r[k] = AddCandidate(r[k - 1], q[k], "peerReported")
               /\ AddPeerCandidates(t, q) = r[N]
  BY <1>1, PeerRun
<1> DEFINE S == {k \in 0..N : SoundTable(r[k], V) /\ HostsOf(r[k]) \subseteq Before(k)}
<1>3. 0 \in S
  BY <1>1, <1>2
<1>4. \A k \in 1..N : Before(k) = Before(k - 1) \cup {q[k].host}
  <2>1. \A k \in 1..N : \A m : m \in 1..k <=> m \in 1..k - 1 \/ m = k
    BY <1>1
  <2> QED
    BY <2>1
<1> HIDE DEF Before
<1>5. ASSUME NEW k \in 1..N, k - 1 \in S
      PROVE  /\ k \in S
             /\ HostsOf(r[k - 1]) \subseteq HostsOf(r[k])
             /\ Kind[q[k].host] = "global" /\ Len(r[k - 1].cands) < MAX_CANDIDATES
                => q[k].host \in HostsOf(r[k])
  <2> DEFINE b == r[k - 1]
  <2>1. SoundTable(b, V) /\ HostsOf(b) \subseteq Before(k - 1) /\ q[k] \in Address
    BY <1>1, <1>5
  <2>2. r[k] = AddCandidate(b, q[k], "peerReported")
    BY <1>2
  <2> HIDE DEF b
  <2>3. /\ SoundTable(r[k], V)
        /\ HostsOf(b) \subseteq HostsOf(r[k]) /\ HostsOf(r[k]) \subseteq HostsOf(b) \cup {q[k].host}
        /\ Kind[q[k].host] = "global" /\ Len(b.cands) < MAX_CANDIDATES => q[k].host \in HostsOf(r[k])
    BY <2>1, <2>2, SoundAdd
  <2> QED
    BY <1>1, <1>4, <2>1, <2>3 DEF b
<1>6. 0..N \subseteq S
  <2> HIDE DEF S
  <2> QED
    BY <1>1, <1>3, <1>5, StepByStep
<1>7. SoundTable(r[N], V)
  BY <1>1, <1>6
<1>8. ASSUME NEW k \in 1..N, Kind[q[k].host] = "global", Cardinality(Before(k)) <= MAX_CANDIDATES
      PROVE  q[k].host \in HostsOf(r[N])
  <2> DEFINE h == q[k].host
             T == {m \in 0..N : m >= k => h \in HostsOf(r[m])}
             b == r[k - 1]
  <2>1. SoundTable(b, V) /\ HostsOf(b) \subseteq Before(k - 1) /\ k - 1 \in S
    <3>1. k - 1 \in 0..N
      BY <1>1
    <3> QED
      BY <1>6, <3>1
  <2>2. h \in HostsOf(r[k])
    <3>1. CASE h \in HostsOf(b)
      BY <1>5, <2>1, <3>1
    <3>2. CASE h \notin HostsOf(b)
      <4>1. HostsOf(b) \subseteq Before(k) \ {h} /\ h \in Before(k)
        BY <1>4, <2>1, <3>2
      <4>2. IsFiniteSet(Before(k))
        <5> DEFINE f == [m \in 1..k |-> q[m].host]
        <5>1. IsFiniteSet(1..k)
          BY FS_Interval
        <5>2. f \in Surjection(1..k, Before(k))
          BY DEF Surjection, Before
        <5> QED
          BY <5>1, <5>2, FS_Surjection
      <4>3. /\ Cardinality(Before(k) \ {h}) = Cardinality(Before(k)) - 1
            /\ IsFiniteSet(Before(k) \ {h}) /\ Cardinality(Before(k)) \in Nat
        BY <4>1, <4>2, FS_RemoveElement, FS_CardinalityType
      <4>4. Cardinality(HostsOf(b)) <= Cardinality(Before(k) \ {h})
        BY <4>1, <4>3, FS_Subset
      <4>5. Cardinality(HostsOf(b)) = Len(b.cands) /\ Len(b.cands) \in Nat
        BY <2>1, HostsCount
      <4>6. Len(b.cands) < MAX_CANDIDATES
        BY <1>8, <4>3, <4>4, <4>5, ProbeConstants
      <4> QED
        BY <1>5, <1>8, <2>1, <4>6
    <3> QED
      BY <3>1, <3>2
  <2>3. 0 \in T
    BY <1>1
  <2>4. ASSUME NEW m \in 1..N, m - 1 \in T PROVE m \in T
    <3> SUFFICES ASSUME m >= k PROVE h \in HostsOf(r[m])
      OBVIOUS
    <3>1. CASE m = k
      BY <2>2, <3>1
    <3>2. CASE m # k
      <4>1. m - 1 >= k /\ m - 1 \in 0..N
        BY <1>1, <3>2
      <4>2. h \in HostsOf(r[m - 1])
        BY <2>4, <4>1
      <4>3. m - 1 \in S
        BY <1>6, <4>1
      <4> QED
        BY <1>5, <4>2, <4>3
    <3> QED
      BY <3>1, <3>2
  <2>5. 0..N \subseteq T
    <3> HIDE DEF T
    <3> QED
      BY <1>1, <2>3, <2>4, StepByStep
  <2> QED
    BY <1>1, <2>5
<1> QED
  BY <1>2, <1>7, <1>8 DEF Before

\* What discovery heard, before and after.
LEMMA VouchedTable ==
  ASSUME NEW V, NEW t, SoundTable(t, V), NEW q \in Seq(Address), \A k \in 1..Len(q) : q[k] \in V
  PROVE  SoundTable(FoldLeft(Vouch, t, q), V) /\ HostsOf(FoldLeft(Vouch, t, q)) = HostsOf(t)
<1> DEFINE N == Len(q)
<1>1. N \in Nat /\ t \in Tables /\ \A k \in 1..N : q[k] \in Address
  BY DEF SoundTable
<1>2. PICK r : /\ r[0] = t
               /\ \A k \in 1..N : r[k] = Vouch(r[k - 1], q[k])
               /\ FoldLeft(Vouch, t, q) = r[N]
  BY <1>1, VouchedRun
<1> DEFINE S == {k \in 0..N : SoundTable(r[k], V) /\ HostsOf(r[k]) = HostsOf(t)}
<1>3. 0 \in S
  BY <1>1, <1>2
<1>4. ASSUME NEW k \in 1..N, k - 1 \in S PROVE k \in S
  BY <1>1, <1>2, <1>4, SoundVouch
<1>5. 0..N \subseteq S
  <2> HIDE DEF S
  <2> QED
    BY <1>1, <1>3, <1>4, StepByStep
<1> QED
  BY <1>1, <1>2, <1>5

LEMMA DiscoveredTable ==
  ASSUME NEW V, NEW t, SoundTable(t, V), NEW q \in Seq(Address), \A k \in 1..Len(q) : q[k] \in V
  PROVE  /\ SoundTable(FoldLeft(AddDiscovered, t, q), V)
         /\ HostsOf(t) \subseteq HostsOf(FoldLeft(AddDiscovered, t, q))
<1> DEFINE N == Len(q)
<1>1. N \in Nat /\ t \in Tables /\ \A k \in 1..N : q[k] \in Address
  BY DEF SoundTable
<1>2. PICK r : /\ r[0] = t
               /\ \A k \in 1..N : r[k] = AddDiscovered(r[k - 1], q[k])
               /\ FoldLeft(AddDiscovered, t, q) = r[N]
  BY <1>1, DiscoveredRun
<1> DEFINE S == {k \in 0..N : SoundTable(r[k], V) /\ HostsOf(t) \subseteq HostsOf(r[k])}
<1>3. 0 \in S
  BY <1>1, <1>2
<1>4. ASSUME NEW k \in 1..N, k - 1 \in S PROVE k \in S
  <2>1. SoundTable(AddDiscovered(r[k - 1], q[k]), V)
        /\ HostsOf(r[k - 1]) \subseteq HostsOf(AddDiscovered(r[k - 1], q[k]))
    BY <1>1, <1>4, SoundDiscovered
  <2> QED
    BY <1>2, <1>4, <2>1
<1>5. 0..N \subseteq S
  <2> HIDE DEF S
  <2> QED
    BY <1>1, <1>3, <1>4, StepByStep
<1> QED
  BY <1>1, <1>2, <1>5

LEMMA EmptyTable ==
  ASSUME NEW O \in SUBSET Address, NEW V, O \subseteq V
  PROVE  SoundTable(NewTable(O), V) /\ HostsOf(NewTable(O)) = {}
<1> DEFINE t == NewTable(O)
<1>1. \A a \in O : Unmap(a) \in Address /\ Unmap(a).host = a.host
  BY UnmapFacts DEF Plain
<1>2. t.cands = <<>> /\ t.vouched = {Unmap(a) : a \in O} /\ t.discovered = 0
  BY DEF NewTable
<1>3. t \in Tables
  BY <1>1 DEF NewTable, Tables
<1>4. \A v \in t.vouched : \E b \in V : b.host = v.host
  BY <1>1, <1>2
<1> HIDE DEF t
<1>5. DOMAIN t.cands = {} /\ Len(t.cands) = 0
  BY <1>2
<1>6. SoundTable(t, V) /\ HostsOf(t) = {}
  BY <1>3, <1>4, <1>5, ProbeConstants DEF SoundTable, SoundCands, HostsOf
<1> QED
  BY <1>6 DEF t

\* The table of an attempt.
LEMMA BuiltTable ==
  ASSUME NEW q \in Seq(Address), NEW g \in Seq(Address), NEW V,
         V = Observed \cup ToSet(g)
  PROVE  LET u == BuildTable(Observed, q, g) IN
         /\ SoundTable(u, V)
         /\ \A k \in 1..Len(q) :
              /\ Kind[q[k].host] = "global"
              /\ Cardinality({q[m].host : m \in 1..k}) <= MAX_CANDIDATES
              => q[k].host \in HostsOf(u)
<1> DEFINE t0 == NewTable(Observed)
           t1 == FoldLeft(Vouch, t0, g)
           t2 == AddPeerCandidates(t1, q)
           t3 == FoldLeft(AddDiscovered, t2, g)
<1>1. Observed \in SUBSET Address /\ Observed \subseteq V
  BY PathLifeAssumption DEF Address
<1>2. \A k \in 1..Len(g) : g[k] \in V
  BY DEF ToSet
<1>3. SoundTable(t0, V) /\ HostsOf(t0) = {}
  BY <1>1, EmptyTable
<1> HIDE DEF t0
<1>4. SoundTable(t1, V) /\ HostsOf(t1) = {}
  BY <1>2, <1>3, VouchedTable
<1> HIDE DEF t1
<1>5. /\ SoundTable(t2, V)
      /\ \A k \in 1..Len(q) :
           /\ Kind[q[k].host] = "global"
           /\ Cardinality({q[m].host : m \in 1..k}) <= MAX_CANDIDATES
           => q[k].host \in HostsOf(t2)
  BY <1>4, PeerTable
<1> HIDE DEF t2
<1>6. SoundTable(t3, V) /\ HostsOf(t2) \subseteq HostsOf(t3)
  BY <1>2, <1>5, DiscoveredTable
<1>7. BuildTable(Observed, q, g) = t3
  BY DEF BuildTable, t0, t1, t2
<1> HIDE DEF t3
<1> QED
  BY <1>5, <1>6, <1>7

LEMMA BuildStep ==
  ASSUME TableInv, BuildAttempt
  PROVE  TableInv' /\ AttemptInv'
<1> DEFINE V == Observed \cup ToSet(lists[2])
           q == lists[1]
           u == table'
<1>1. /\ phase' = "built" /\ lists \in PeerLists \X HeardLists
      /\ u = BuildTable(Observed, q, lists[2])
      /\ prog' = [i \in DOMAIN u.cands |-> NewCandidate]
      /\ ok' = [i \in DOMAIN u.cands |-> <<>>]
      /\ lists' = lists /\ now' = 0 /\ limiter' = [start |-> 0, answered |-> 0] /\ net' = {}
  BY DEF BuildAttempt, TableInv
<1>2. q \in Seq(Address) /\ lists[2] \in Seq(Address)
  BY <1>1, PathLifeAssumption DEF Address
<1>3. /\ SoundTable(u, V)
      /\ \A k \in 1..Len(q) :
           /\ Kind[q[k].host] = "global"
           /\ Cardinality({q[m].host : m \in 1..k}) <= MAX_CANDIDATES
           => q[k].host \in HostsOf(u)
  BY <1>1, <1>2, BuiltTable
<1>4. PeerNeverAimsInside'
  BY <1>1, <1>3 DEF PeerNeverAimsInside, SoundTable, SoundCands
<1>5. PeerListKeepsItsSlots'
  <2>1. \A i, j \in DOMAIN u.cands : i # j => u.cands[i].addr.host # u.cands[j].addr.host
    BY <1>3, Zenon DEF SoundTable, SoundCands
  <2>2. ASSUME NEW k \in DOMAIN q, Kind[q[k].host] = "global",
               Cardinality({q[m].host : m \in 1..k}) <= MAX_CANDIDATES
        PROVE  Holds(u, [host |-> q[k].host, mapped |-> FALSE])
    <3>1. k \in 1..Len(q) /\ q[k].host \in Hosts
      <4> HIDE DEF q
      <4>1. DOMAIN q = 1..Len(q) /\ q[k] \in Address
        BY <1>2, <2>2
      <4> QED
        BY <2>2, <4>1 DEF Address
    <3>2. q[k].host \in HostsOf(u)
      BY <1>3, <2>2, <3>1
    <3>3. Holds(u, Plain(q[k].host))
      BY <1>3, <3>1, <3>2, HoldsPlain
    <3> QED
      BY <3>3 DEF Plain
  <2> HIDE DEF u
  <2>3. lists'[1] = q
    BY <1>1
  <2> QED
    BY <2>1, <2>2, <2>3 DEF PeerListKeepsItsSlots, u
<1>6. TableInv'
  BY <1>1, <1>4, <1>5 DEF TableInv, TableIsSound
<1>7. /\ u.cands \in Seq(Entries) /\ Len(u.cands) <= MAX_CANDIDATES /\ DOMAIN u.cands = TableSlots'
  BY <1>3 DEF SoundTable, Tables, TableSlots
<1>8. AttemptShape'
  <2>1. <<>> \in Seq(Flags)
    OBVIOUS
  <2>2. prog' \in [TableSlots' -> Candidates] /\ ok' \in [TableSlots' -> Seq(Flags)]
    BY <1>1, <1>7, <2>1, NewCandidateFacts
  <2>3. \A i \in TableSlots' : prog'[i] = NewCandidate /\ ok'[i] = <<>>
    BY <1>1, <1>7
  <2> QED
    BY <1>1, <1>7, <2>2, <2>3 DEF AttemptShape
<1>9. StreaksAreAnswers' /\ BurstInStep' /\ SlowCounts'
  <2>1. (/\ now \in Nat /\ limiter \in [start : Nat, answered : Nat] /\ limiter.start <= now
         /\ now <= FIRE_IN
         /\ \A i \in TableSlots : prog[i] = NewCandidate /\ ok[i] = <<>>)'
    BY <1>1, <1>7, ProbeConstants
  <2> QED
    BY <2>1, FreshAttempt, PTL
<1>10. PongsOut'
  BY <1>1 DEF PongsOut
<1> QED
  BY <1>6, <1>8, <1>9, <1>10 DEF AttemptInv

\* A step of the path: what is said of the table, of the attempt, of the watch.
PathInv == TableInv /\ AttemptInv /\ WatchInv

LEMMA PathWatched ==
  ASSUME PathInv, NEW p, p \in {"watching", "relayed"}, NEW path, NEW srtt \in Int,
         BeginWatching(p, path, srtt), p = "relayed" => path = RelayPath
  PROVE  PathInv'
<1>1. WatchInv'
  BY WatchBegins
<1>2. phase' = p
  BY DEF BeginWatching, BeginPhase
<1> QED
  BY <1>1, <1>2 DEF PathInv, TableInv, AttemptInv, InAttempt

LEMMA PathFlip ==
  ASSUME PathInv, NEW p, Flip(p)
  PROVE  PathInv'
<1>1. UNCHANGED <<phase, now, lists, table, prog, winner, watch, limiter, net, delay, ok, lost, quiet>>
  BY DEF Flip
<1>2. TableInv'
  BY <1>1 DEF PathInv, TableInv, TableIsSound, PeerNeverAimsInside, PeerListKeepsItsSlots, Holds
<1>3. AttemptInv'
  <2>1. InAttempt' = InAttempt /\ TableSlots' = TableSlots /\ Proved(prog)' = Proved(prog)
    BY <1>1 DEF InAttempt, TableSlots, Proved
  <2>2. AttemptShape => AttemptShape'
    BY <1>1, <2>1 DEF AttemptShape
  <2>3. (PongsOut => PongsOut') /\ (StreaksAreAnswers => StreaksAreAnswers')
    BY <1>1, <2>1 DEF PongsOut, StreaksAreAnswers
  <2>4. (BurstInStep => BurstInStep') /\ (SlowCounts => SlowCounts')
    BY <1>1, <2>1 DEF BurstInStep, SlowCounts, SlowFrom
  <2> QED
    BY <2>1, <2>2, <2>3, <2>4 DEF PathInv, AttemptInv
<1>4. WatchInv'
  <2>1. CASE InWatch
    BY <2>1, FlipStep DEF PathInv
  <2>2. CASE ~InWatch
    BY <1>1, <2>2 DEF WatchInv, InWatch
  <2> QED
    BY <2>1, <2>2
<1> QED
  BY <1>2, <1>3, <1>4 DEF PathInv

LEMMA PathKept ==
  ASSUME PathInv, UNCHANGED vars
  PROVE  PathInv'
<1>1. TableInv'
  BY DEF vars, PathInv, TableInv, TableIsSound, PeerNeverAimsInside, PeerListKeepsItsSlots, Holds
<1>2. AttemptInv'
  <2>1. InAttempt' = InAttempt /\ TableSlots' = TableSlots /\ Proved(prog)' = Proved(prog)
    BY DEF vars, InAttempt, TableSlots, Proved
  <2>2. AttemptShape => AttemptShape'
    BY <2>1 DEF vars, AttemptShape
  <2>3. (PongsOut => PongsOut') /\ (StreaksAreAnswers => StreaksAreAnswers')
    BY <2>1 DEF vars, PongsOut, StreaksAreAnswers
  <2>4. (BurstInStep => BurstInStep') /\ (SlowCounts => SlowCounts')
    BY <2>1 DEF vars, BurstInStep, SlowCounts, SlowFrom
  <2> QED
    BY <2>1, <2>2, <2>3, <2>4 DEF PathInv, AttemptInv
<1>3. WatchInv'
  BY DEF vars, PathInv, WatchInv, InWatch, WatchShape, PongsAhead, WindowHasRoom, LiveIsTimely, Answered,
         SilenceCounted, DeadIsProbed, MissSpan, PongTo, Watches
<1> QED
  BY <1>1, <1>2, <1>3 DEF PathInv

LEMMA PathNext ==
  ASSUME PathInv, Next
  PROVE  PathInv'
<1>0. None \in Int
  BY DEF None
<1>1. CASE BuildAttempt
  <2>1. TableInv' /\ AttemptInv'
    BY <1>1, BuildStep DEF PathInv
  <2>2. WatchInv'
    BY <1>1 DEF BuildAttempt, WatchInv, InWatch
  <2> QED
    BY <2>1, <2>2 DEF PathInv
<1>2. CASE StartSignalReceived
  <2>1. AttemptInv'
    BY <1>2, BurstBegins DEF PathInv
  <2>2. TableInv' /\ WatchInv'
    BY <1>2 DEF StartSignalReceived, BeginPhase, TableInv, WatchInv, InWatch, TableIsSound
  <2> QED
    BY <2>1, <2>2 DEF PathInv
<1>3. CASE NoUpgrade \/ GiveUp \/ PathDead
  BY <1>0, <1>3, PathWatched DEF NoUpgrade, GiveUp, PathDead
<1>4. CASE Probe
  <2>1. AttemptInv'
    BY <1>4, ProbeStep DEF PathInv
  <2>2. phase = "probing" /\ phase' \in {"probing", "won"}
    BY <1>4 DEF Probe
  <2> QED
    BY <2>1, <2>2 DEF PathInv, TableInv, WatchInv, InWatch
<1>5. CASE Upgrade
  <2>1. winner.rtt \in Int
    BY <1>5 DEF Upgrade, PathInv, AttemptInv, InAttempt, AttemptShape
  <2> QED
    BY <1>5, <2>1, PathWatched DEF Upgrade
<1>6. CASE WatchDirect \/ WatchRelay
  <2>1. InWatch /\ WatchPass /\ phase' = phase
    BY <1>6 DEF WatchDirect, WatchRelay, InWatch, WatchPass
  <2>2. WatchInv'
    BY <2>1, WatchPassStep DEF PathInv
  <2> QED
    BY <2>1, <2>2 DEF PathInv, TableInv, AttemptInv, InAttempt, InWatch
<1>7. CASE \E p \in Used : Flip(p)
  BY <1>7, PathFlip
<1>8. CASE Enough
  BY <1>8, PathKept DEF Enough
<1> QED
  BY <1>1, <1>2, <1>3, <1>4, <1>5, <1>6, <1>7, <1>8 DEF Next

LEMMA PathInit == Init => PathInv
BY DEF Init, PathInv, TableInv, AttemptInv, WatchInv, InAttempt, InWatch

LEMMA PathStep == PathInv /\ [MCNext]_allVars => PathInv'
<1> SUFFICES ASSUME PathInv, [MCNext]_allVars PROVE PathInv'
  OBVIOUS
<1>1. CASE UNCHANGED vars
  BY <1>1, PathKept
<1>2. CASE Next
  BY <1>2, PathNext
<1> QED
  BY <1>1, <1>2 DEF MCNext, allVars

LEMMA PathInvariance == MCSpec => []PathInv
<1>1. MCInit => PathInv
  BY PathInit DEF MCInit
<1> QED
  BY <1>1, PathStep, PTL DEF MCSpec, allVars

(* Whatever a peer lists and whatever was heard of it, the table of an attempt holds an address outside
   the global range only when the gate or discovery heard the peer there, whichever way the list spells
   it; and what discovery heard takes no slot of the peer's public addresses, nor one host two slots
   (Attempt::add_candidate, add_peer_candidates, add_discovered). *)
THEOREM TablesAreSound == MCSpec => []TableIsSound
<1>1. PathInv => TableIsSound
  BY DEF PathInv, TableInv, TableIsSound, PeerNeverAimsInside, PeerListKeepsItsSlots
<1> QED
  BY <1>1, PathInvariance, PTL

(* A burst wins with a candidate that answered its last pings, each before the next one left, and is
   given up only when every candidate lost a ping or takes as long as the slow schedule, whatever the
   round trips, the losses and the pongs the peer's limiter withholds from the fast pings
   (Attempt::due_probes, on_pong, decide, given_up; PongLimiter). *)
THEOREM BurstsAreRight == MCSpec => []ProbingIsRight
<1>1. PathInv => ProbingIsRight
  BY ProbingPromises DEF PathInv
<1> QED
  BY <1>1, PathInvariance, PTL

(* A path, direct or relayed, that has lost nothing and answers within the probe interval is live: the
   peer's limiter never costs it a pong, and a ping the house's own queue refuses is no miss (Liveness,
   PongLimiter; RelayWatch::probe_not_sent). *)
THEOREM AnsweringPathsStayLive == MCSpec => []AnsweringPathStaysLive
<1>1. PathInv => AnsweringPathStaysLive
  BY WatchPromises DEF PathInv
<1> QED
  BY <1>1, PathInvariance, PTL

(* A path whose pings have been lost since an instant is called stale within the loss deadlines and probe
   intervals of PROBES_TO_STALE probes from it, however it answered before and whatever the round trip
   was measured to be (PeerLiveness::due_probe, poll). *)
THEOREM SilencesAreDetected == MCSpec => []SilenceDetected
<1>1. PathInv => SilenceDetected
  BY WatchPromises DEF PathInv
<1> QED
  BY <1>1, PathInvariance, PTL

(* A relay path that was declared dead and answers again is taken back within one dead-probe interval and
   its round trip: its probing goes on, and no miss of the silence before counts against it
   (RelayWatch::due_probe, probe_not_sent). *)
THEOREM DeadRelaysAreSeenBack == MCSpec => []DeadRelayIsSeenBack
<1>1. PathInv => DeadRelayIsSeenBack
  BY WatchPromises DEF PathInv
<1> QED
  BY <1>1, PathInvariance, PTL

-----------------------------------------------------------------------------
(* DiagLog: what holds of the files fs, the writers wr, the records ak on  *)
(* a day td.                                                               *)

Pieces == [rec : Nat, len : Lengths, end : {"newline", "bare", "cut"}]

Acks == [day : Nat, by : Writer \X Nat]

DaysOf(fs) == {f[1] : f \in DOMAIN fs}

WriterForm(v) ==
  /\ DOMAIN v = {"date", "part", "open", "bytes", "life"}
  /\ v.date \in Nat /\ v.part \in Nat /\ v.life \in Nat

LogTypes(fs, wr, ak, td) ==
  /\ td \in Nat /\ td >= 1
  /\ ak \in Seq(Acks) /\ \A r \in 1..Len(ak) : ak[r].day <= td
  /\ DOMAIN fs \subseteq (0..td) \X Nat
  /\ \A f \in DOMAIN fs : fs[f] \in Seq(Pieces)
  /\ wr \in [Writer -> {wr[w] : w \in Writer}]
  /\ \A w \in Writer : WriterForm(wr[w]) /\ wr[w].date <= td

\* What is written: a record whole, in a file of its day.
RecordsAreWhole(fs, ak) ==
  \A f \in DOMAIN fs : \A i \in 1..Len(fs[f]) :
    fs[f][i].rec # 0 =>
      /\ fs[f][i].rec \in 1..Len(ak) /\ fs[f][i].end = "newline"
      /\ ak[fs[f][i].rec].day = f[1]

\* It is in one place, as long as its day is there.
OnePlace(fs) ==
  \A f, g \in DOMAIN fs : \A i \in 1..Len(fs[f]) : \A j \in 1..Len(fs[g]) :
    fs[f][i].rec # 0 /\ fs[f][i].rec = fs[g][j].rec => f = g /\ i = j

StillThere(fs, ak, td) ==
  \A r \in 1..Len(ak) :
    ak[r].day \in DaysOf(fs) \cup {td} =>
      \E f \in DOMAIN fs : \E i \in 1..Len(fs[f]) : fs[f][i].rec = r

\* In order, the next one after it.
InOrder(fs, ak) ==
  \A f, g \in DOMAIN fs : \A i \in 1..Len(fs[f]) : \A j \in 1..Len(fs[g]) :
    LET r == fs[f][i].rec
        q == fs[g][j].rec
    IN r # 0 /\ r < q /\ ak[r].by = ak[q].by => Log!Before(f, g) \/ (f = g /\ i < j)

WriterIsAhead(fs, wr, ak) ==
  \A w \in Writer :
    /\ \A r \in 1..Len(ak) : ak[r].by[1] = w => ak[r].by[2] <= wr[w].life
    /\ \A f \in DOMAIN fs : \A i \in 1..Len(fs[f]) :
         fs[f][i].rec # 0 /\ ak[fs[f][i].rec].by = <<w, wr[w].life>> =>
           \/ f[1] < wr[w].date
           \/ f[1] = wr[w].date /\ f[2] <= wr[w].part

\* A file that is open is there.
OpenIsThere(fs, wr, td) ==
  \A w \in Writer : wr[w].date = td /\ wr[w].open => <<td, wr[w].part>> \in DOMAIN fs

LogOk(fs, wr, ak, td) ==
  /\ LogTypes(fs, wr, ak, td) /\ RecordsAreWhole(fs, ak) /\ OnePlace(fs)
  /\ StillThere(fs, ak, td) /\ InOrder(fs, ak) /\ WriterIsAhead(fs, wr, ak)
  /\ OpenIsThere(fs, wr, td)

LogInv == LogOk(files, writer, acked, today)

\* A writer finds its place: days are pruned, files of today are created.
MovedFiles(fs, m, td) ==
  /\ DOMAIN m \subseteq (0..td) \X Nat
  /\ \A f \in DOMAIN m : \/ f \in DOMAIN fs /\ m[f] = fs[f]
                         \/ f \notin DOMAIN fs /\ f[1] = td /\ m[f] = <<>>
  /\ \A f \in DOMAIN fs : f[1] = td => f \in DOMAIN m
  /\ \A f, g \in DOMAIN fs : f[1] = g[1] /\ f \in DOMAIN m => g \in DOMAIN m

MovedWriter(u, v, td) ==
  /\ WriterForm(v) /\ v.date = td /\ v.life = u.life
  /\ u.date = td => u.part <= v.part

LEMMA MoveKeeps ==
  ASSUME NEW fs, NEW wr, NEW ak, NEW td, LogOk(fs, wr, ak, td), NEW w \in Writer,
         NEW m, MovedFiles(fs, m, td), NEW v, MovedWriter(wr[w], v, td),
         v.open => <<td, v.part>> \in DOMAIN m
  PROVE  LogOk(m, [wr EXCEPT ![w] = v], ak, td)
<1> DEFINE nw == [wr EXCEPT ![w] = v]
<1>1. \A x \in Writer : nw[x] = IF x = w THEN v ELSE wr[x]
  BY DEF LogOk, LogTypes
<1>2. \A f \in DOMAIN m : \A i \in 1..Len(m[f]) : f \in DOMAIN fs /\ m[f] = fs[f]
  <2>1. \A f \in DOMAIN m : m[f] = <<>> => Len(m[f]) = 0
    OBVIOUS
  <2> QED
    BY <2>1 DEF MovedFiles
<1>3. LogTypes(m, nw, ak, td)
  <2>1. \A f \in DOMAIN m : m[f] \in Seq(Pieces)
    <3>1. <<>> \in Seq(Pieces)
      OBVIOUS
    <3>2. \A f \in DOMAIN fs : fs[f] \in Seq(Pieces)
      BY DEF LogOk, LogTypes
    <3> QED
      BY <3>1, <3>2 DEF MovedFiles
  <2>2. nw \in [Writer -> {nw[x] : x \in Writer}]
    BY DEF LogOk, LogTypes
  <2>3. \A x \in Writer : WriterForm(nw[x]) /\ nw[x].date <= td
    BY <1>1 DEF LogOk, LogTypes, MovedWriter
  <2> HIDE DEF nw
  <2> QED
    BY <2>1, <2>2, <2>3 DEF LogOk, LogTypes, MovedFiles
<1>4. RecordsAreWhole(m, ak)
  BY <1>2 DEF LogOk, RecordsAreWhole
<1>5. OnePlace(m)
  BY <1>2 DEF LogOk, OnePlace
<1>6. StillThere(m, ak, td)
  <2> SUFFICES ASSUME NEW r \in 1..Len(ak), ak[r].day \in DaysOf(m) \cup {td}
               PROVE  \E f \in DOMAIN m : \E i \in 1..Len(m[f]) : m[f][i].rec = r
    BY DEF StillThere
  <2>1. ak[r].day \in DaysOf(fs) \cup {td}
    BY DEF DaysOf, MovedFiles
  <2>2. PICK g \in DOMAIN fs : \E i \in 1..Len(fs[g]) : fs[g][i].rec = r
    BY <2>1 DEF LogOk, StillThere
  <2>3. PICK i \in 1..Len(fs[g]) : fs[g][i].rec = r
    BY <2>2
  <2>4. g[1] = ak[r].day
    BY <2>3 DEF LogOk, RecordsAreWhole
  <2>5. g \in DOMAIN m
    <3>1. CASE ak[r].day = td
      BY <2>4, <3>1 DEF MovedFiles
    <3>2. CASE ak[r].day # td
      <4>1. PICK f \in DOMAIN m : f[1] = ak[r].day
        BY <3>2 DEF DaysOf
      <4>2. f \in DOMAIN fs
        BY <3>2, <4>1 DEF MovedFiles
      <4> QED
        BY <2>4, <4>1, <4>2 DEF MovedFiles
    <3> QED
      BY <3>1, <3>2
  <2>6. m[g] = fs[g]
    BY <2>5 DEF MovedFiles
  <2> QED
    BY <2>3, <2>5, <2>6
<1>7. InOrder(m, ak)
  BY <1>2 DEF LogOk, InOrder
<1>8. WriterIsAhead(m, nw, ak)
  <2> SUFFICES ASSUME NEW x \in Writer
               PROVE  /\ \A r \in 1..Len(ak) : ak[r].by[1] = x => ak[r].by[2] <= nw[x].life
                      /\ \A f \in DOMAIN m : \A i \in 1..Len(m[f]) :
                           m[f][i].rec # 0 /\ ak[m[f][i].rec].by = <<x, nw[x].life>> =>
                             \/ f[1] < nw[x].date
                             \/ f[1] = nw[x].date /\ f[2] <= nw[x].part
    BY DEF WriterIsAhead
  <2>1. /\ nw[x].life = wr[x].life /\ nw[x].date \in Nat /\ nw[x].part \in Nat
        /\ wr[x].date \in Nat /\ wr[x].part \in Nat
        /\ wr[x].date < nw[x].date \/ (wr[x].date = nw[x].date /\ wr[x].part <= nw[x].part)
    BY <1>1 DEF MovedWriter, WriterForm, LogOk, LogTypes
  <2>2. \A r \in 1..Len(ak) : ak[r].by[1] = x => ak[r].by[2] <= nw[x].life
    BY <2>1 DEF LogOk, WriterIsAhead
  <2> HIDE DEF nw
  <2>3. ASSUME NEW f \in DOMAIN m, NEW i \in 1..Len(m[f]), m[f][i].rec # 0,
               ak[m[f][i].rec].by = <<x, nw[x].life>>
        PROVE  f[1] < nw[x].date \/ (f[1] = nw[x].date /\ f[2] <= nw[x].part)
    <3>1. f \in DOMAIN fs /\ m[f] = fs[f]
      BY <1>2
    <3>2. f[1] < wr[x].date \/ (f[1] = wr[x].date /\ f[2] <= wr[x].part)
      BY <2>1, <2>3, <3>1 DEF LogOk, WriterIsAhead
    <3>3. f[1] \in Nat /\ f[2] \in Nat
      BY <3>1 DEF LogOk, LogTypes
    <3> QED
      BY <2>1, <3>2, <3>3
  <2> QED
    BY <2>2, <2>3
<1>9. OpenIsThere(m, nw, td)
  <2> SUFFICES ASSUME NEW x \in Writer, nw[x].date = td, nw[x].open
               PROVE  <<td, nw[x].part>> \in DOMAIN m
    BY DEF OpenIsThere
  <2>1. CASE x = w
    BY <1>1, <2>1
  <2>2. CASE x # w
    <3>1. nw[x] = wr[x]
      BY <1>1, <2>2
    <3>2. <<td, wr[x].part>> \in DOMAIN fs
      BY <3>1 DEF LogOk, OpenIsThere
    <3>3. <<td, wr[x].part>>[1] = td
      OBVIOUS
    <3> QED
      BY <3>1, <3>2, <3>3 DEF MovedFiles
  <2> QED
    BY <2>1, <2>2
<1> QED
  BY <1>3, <1>4, <1>5, <1>6, <1>7, <1>8, <1>9 DEF LogOk

\* A process ends and its writer is a new one.
LEMMA RestartKeeps ==
  ASSUME NEW fs, NEW wr, NEW ak, NEW td, LogOk(fs, wr, ak, td), NEW w \in Writer
  PROVE  LogOk(fs, [wr EXCEPT ![w] = Log!Fresh(wr[w].life + 1)], ak, td)
<1> DEFINE v == Log!Fresh(wr[w].life + 1)
           nw == [wr EXCEPT ![w] = v]
<1>1. \A x \in Writer : nw[x] = IF x = w THEN v ELSE wr[x]
  BY DEF LogOk, LogTypes
<1>2. wr[w].life \in Nat /\ td \in Nat /\ td >= 1
  BY DEF LogOk, LogTypes, WriterForm
<1>3. WriterForm(v) /\ v.date = 0 /\ v.life = wr[w].life + 1
  BY <1>2 DEF Log!Fresh, Log!NoDay, WriterForm
<1>4. nw \in [Writer -> {nw[x] : x \in Writer}]
  BY DEF LogOk, LogTypes
<1> HIDE DEF nw, v
<1>5. LogTypes(fs, nw, ak, td)
  <2>1. \A x \in Writer : WriterForm(wr[x]) /\ wr[x].date <= td
    BY DEF LogOk, LogTypes
  <2>2. ASSUME NEW x \in Writer PROVE WriterForm(nw[x]) /\ nw[x].date <= td
    <3>1. CASE x = w
      BY <1>1, <1>2, <1>3, <3>1
    <3>2. CASE x # w
      BY <1>1, <2>1, <3>2
    <3> QED
      BY <3>1, <3>2
  <2>3. /\ td \in Nat /\ td >= 1
        /\ ak \in Seq(Acks) /\ \A r \in 1..Len(ak) : ak[r].day <= td
        /\ DOMAIN fs \subseteq (0..td) \X Nat
        /\ \A f \in DOMAIN fs : fs[f] \in Seq(Pieces)
    BY DEF LogOk, LogTypes
  <2> QED
    BY <1>4, <2>2, <2>3 DEF LogTypes
<1>6. WriterIsAhead(fs, nw, ak)
  <2>1. \A r \in 1..Len(ak) : ak[r].by[1] = w => ak[r].by[2] \in Nat /\ ak[r].by[2] < nw[w].life
    <3> SUFFICES ASSUME NEW r \in 1..Len(ak), ak[r].by[1] = w
                 PROVE  ak[r].by[2] \in Nat /\ ak[r].by[2] < nw[w].life
      OBVIOUS
    <3>1. ak[r] \in Acks
      BY DEF LogOk, LogTypes
    <3>2. ak[r].by[2] \in Nat
      BY <3>1 DEF Acks
    <3>3. ak[r].by[2] <= wr[w].life
      BY DEF LogOk, WriterIsAhead
    <3> QED
      BY <1>1, <1>2, <1>3, <3>2, <3>3
  <2>2. ASSUME NEW f \in DOMAIN fs, NEW i \in 1..Len(fs[f]), fs[f][i].rec # 0
        PROVE  ak[fs[f][i].rec].by # <<w, nw[w].life>>
    <3>1. fs[f][i].rec \in 1..Len(ak)
      BY <2>2 DEF LogOk, RecordsAreWhole
    <3> QED
      BY <2>1, <3>1
  <2>3. ASSUME NEW x \in Writer, x # w
        PROVE  /\ \A r \in 1..Len(ak) : ak[r].by[1] = x => ak[r].by[2] <= nw[x].life
               /\ \A f \in DOMAIN fs : \A i \in 1..Len(fs[f]) :
                    fs[f][i].rec # 0 /\ ak[fs[f][i].rec].by = <<x, nw[x].life>> =>
                      \/ f[1] < nw[x].date
                      \/ f[1] = nw[x].date /\ f[2] <= nw[x].part
    BY <1>1, <2>3 DEF LogOk, WriterIsAhead
  <2>4. \A r \in 1..Len(ak) : ak[r].by[1] = w => ak[r].by[2] <= nw[w].life
    BY <1>1, <1>2, <1>3, <2>1, SMTT(30)
  <2> QED
    BY <2>2, <2>3, <2>4 DEF WriterIsAhead
<1>7. OpenIsThere(fs, nw, td)
  BY <1>1, <1>2, <1>3 DEF LogOk, OpenIsThere
<1> QED
  BY <1>5, <1>6, <1>7 DEF LogOk, nw, v

Put(fs, f, p, nf) == nf = [fs EXCEPT ![f] = Append(@, p)]

\* A line is written, a record or a part of one; of a record append says yes.
LEMMA WriteKeeps ==
  ASSUME NEW fs, NEW wr, NEW ak, NEW td, LogOk(fs, wr, ak, td), NEW w \in Writer,
         NEW f, f = <<td, wr[w].part>>, f \in DOMAIN fs, wr[w].date = td,
         NEW p \in Pieces, NEW nk,
         \/ p.rec = 0 /\ nk = ak
         \/ /\ p.rec = Len(ak) + 1 /\ p.end = "newline"
            /\ nk = Append(ak, [day |-> td, by |-> <<w, wr[w].life>>]),
         NEW nf, Put(fs, f, p, nf)
  PROVE  LogOk(nf, wr, nk, td)
<1> DEFINE n == Len(fs[f])
<1>1. /\ td \in Nat /\ td >= 1 /\ wr[w].part \in Nat /\ wr[w].life \in Nat
      /\ ak \in Seq(Acks) /\ \A r \in 1..Len(ak) : ak[r].day <= td
      /\ \A g \in DOMAIN fs : g[1] \in Nat /\ g[2] \in Nat /\ g[1] <= td
      /\ f[1] = td /\ f[2] = wr[w].part
      /\ wr \in [Writer -> {wr[x] : x \in Writer}]
      /\ \A x \in Writer : WriterForm(wr[x]) /\ wr[x].date <= td
      /\ fs[f] \in Seq(Pieces)
  BY DEF LogOk, LogTypes, WriterForm
<1>2. /\ n \in Nat /\ n = Len(fs[f]) /\ DOMAIN nf = DOMAIN fs /\ nf[f] \in Seq(Pieces)
      /\ Len(nf[f]) = n + 1 /\ nf[f][n + 1] = p
      /\ \A i \in 1..n : nf[f][i] = fs[f][i]
      /\ \A g \in DOMAIN fs : g # f => nf[g] = fs[g]
  <2> DEFINE e == [fs EXCEPT ![f] = Append(@, p)]
  <2>1. /\ n \in Nat /\ n = Len(fs[f]) /\ DOMAIN e = DOMAIN fs /\ e[f] \in Seq(Pieces)
        /\ Len(e[f]) = n + 1 /\ e[f][n + 1] = p
        /\ \A i \in 1..n : e[f][i] = fs[f][i]
        /\ \A g \in DOMAIN fs : g # f => e[g] = fs[g]
    BY <1>1
  <2>2. nf = e
    BY DEF Put
  <2> HIDE DEF e, n
  <2> QED
    BY <2>1, <2>2
<1>3. /\ nk \in Seq(Acks) /\ Len(nk) \in Nat /\ Len(ak) \in Nat /\ Len(ak) <= Len(nk)
      /\ \A r \in 1..Len(ak) : nk[r] = ak[r]
      /\ \/ p.rec = 0 /\ nk = ak
         \/ /\ p.rec = Len(ak) + 1 /\ p.end = "newline" /\ Len(nk) = Len(ak) + 1
            /\ nk[Len(nk)].day = td /\ nk[Len(nk)].by = <<w, wr[w].life>>
  <2>1. CASE p.rec = 0 /\ nk = ak
    BY <1>1, <2>1
  <2>2. CASE p.rec # 0 \/ nk # ak
    <3> DEFINE a == [day |-> td, by |-> <<w, wr[w].life>>]
    <3>1. a \in Acks /\ a.day = td /\ a.by = <<w, wr[w].life>>
      BY <1>1 DEF Acks
    <3>2. nk = Append(ak, a) /\ p.rec = Len(ak) + 1 /\ p.end = "newline"
      BY <2>2
    <3> HIDE DEF a
    <3> QED
      BY <1>1, <3>1, <3>2
  <2> QED
    BY <2>1, <2>2
<1> HIDE DEF n
\* A place is an old one, or the end of the file written to.
<1>4. ASSUME NEW g \in DOMAIN nf, NEW i \in 1..Len(nf[g])
      PROVE  \/ g \in DOMAIN fs /\ i \in 1..Len(fs[g]) /\ nf[g][i] = fs[g][i]
             \/ g = f /\ i = n + 1 /\ nf[g][i] = p
  <2>1. CASE g # f
    BY <1>2, <2>1
  <2>2. CASE g = f
    <3>1. i \in 1..(n + 1)
      BY <1>2, <2>2
    <3>2. CASE i \in 1..n
      BY <1>2, <2>2, <3>2
    <3>3. CASE i = n + 1
      BY <1>2, <2>2, <3>3
    <3> QED
      BY <1>2, <3>1, <3>2, <3>3
  <2> QED
    BY <2>1, <2>2
<1>5. \A g \in DOMAIN fs : \A i \in 1..Len(fs[g]) :
        /\ i \in 1..Len(nf[g]) /\ nf[g][i] = fs[g][i]
        /\ fs[g][i].rec \in Nat
        /\ fs[g][i].rec # 0 => fs[g][i].rec \in 1..Len(ak)
        /\ fs[g][i].rec # 0 => ak[fs[g][i].rec].day = g[1] /\ fs[g][i].end = "newline"
  <2> SUFFICES ASSUME NEW g \in DOMAIN fs, NEW i \in 1..Len(fs[g])
               PROVE  /\ i \in 1..Len(nf[g]) /\ nf[g][i] = fs[g][i]
                      /\ fs[g][i].rec \in Nat
                      /\ fs[g][i].rec # 0 => fs[g][i].rec \in 1..Len(ak)
                      /\ fs[g][i].rec # 0 => ak[fs[g][i].rec].day = g[1] /\ fs[g][i].end = "newline"
    OBVIOUS
  <2>1. fs[g] \in Seq(Pieces)
    BY DEF LogOk, LogTypes
  <2>2. fs[g][i] \in Pieces
    BY <2>1
  <2>3. fs[g][i].rec \in Nat
    BY <2>2 DEF Pieces
  <2>4. i \in 1..Len(nf[g]) /\ nf[g][i] = fs[g][i]
    <3>1. CASE g = f
      <4>1. i \in 1..n
        BY <1>2, <3>1
      <4>2. i \in 1..Len(nf[f])
        BY <1>2, <4>1
      <4>3. nf[f][i] = fs[f][i]
        BY <1>2, <4>1
      <4> QED
        BY <3>1, <4>2, <4>3
    <3>2. CASE g # f
      BY <1>2, <3>2
    <3> QED
      BY <3>1, <3>2
  <2> QED
    BY <2>3, <2>4 DEF LogOk, RecordsAreWhole
<1>6. LogTypes(nf, wr, nk, td)
  <2>1. \A g \in DOMAIN nf : nf[g] \in Seq(Pieces)
    BY <1>2 DEF LogOk, LogTypes
  <2>2. \A r \in 1..Len(nk) : nk[r].day <= td
    BY <1>1, <1>3
  <2>3. DOMAIN nf \subseteq (0..td) \X Nat
    BY <1>2 DEF LogOk, LogTypes
  <2> QED
    BY <1>1, <1>3, <2>1, <2>2, <2>3 DEF LogTypes
<1>7. RecordsAreWhole(nf, nk)
  <2> SUFFICES ASSUME NEW g \in DOMAIN nf, NEW i \in 1..Len(nf[g]), nf[g][i].rec # 0
               PROVE  /\ nf[g][i].rec \in 1..Len(nk) /\ nf[g][i].end = "newline"
                      /\ nk[nf[g][i].rec].day = g[1]
    BY DEF RecordsAreWhole
  <2>1. CASE g \in DOMAIN fs /\ i \in 1..Len(fs[g]) /\ nf[g][i] = fs[g][i]
    BY <1>3, <1>5, <2>1
  <2>2. CASE g = f /\ i = n + 1 /\ nf[g][i] = p
    BY <1>1, <1>3, <2>2
  <2> QED
    BY <1>4, <2>1, <2>2
<1>8. OnePlace(nf)
  <2> SUFFICES ASSUME NEW g \in DOMAIN nf, NEW h \in DOMAIN nf, NEW i \in 1..Len(nf[g]),
                      NEW j \in 1..Len(nf[h]), nf[g][i].rec # 0, nf[g][i].rec = nf[h][j].rec
               PROVE  g = h /\ i = j
    BY DEF OnePlace
  <2>1. CASE g \in DOMAIN fs /\ i \in 1..Len(fs[g]) /\ nf[g][i] = fs[g][i]
    <3>1. nf[g][i].rec <= Len(ak)
      BY <1>3, <1>5, <2>1
    <3>2. ~(h = f /\ j = n + 1 /\ nf[h][j] = p)
      BY <1>3, <3>1
    <3>3. h \in DOMAIN fs /\ j \in 1..Len(fs[h]) /\ nf[h][j] = fs[h][j]
      BY <1>4, <3>2
    <3> QED
      BY <2>1, <3>3 DEF LogOk, OnePlace
  <2>2. CASE g = f /\ i = n + 1 /\ nf[g][i] = p
    <3>1. nf[h][j].rec = Len(ak) + 1
      BY <1>3, <2>2
    <3>2. ~(h \in DOMAIN fs /\ j \in 1..Len(fs[h]) /\ nf[h][j] = fs[h][j])
      BY <1>3, <1>5, <3>1
    <3> QED
      BY <1>4, <2>2, <3>2
  <2> QED
    BY <1>4, <2>1, <2>2
<1>9. StillThere(nf, nk, td)
  <2> SUFFICES ASSUME NEW r \in 1..Len(nk), nk[r].day \in DaysOf(nf) \cup {td}
               PROVE  \E g \in DOMAIN nf : \E i \in 1..Len(nf[g]) : nf[g][i].rec = r
    BY DEF StillThere
  <2>1. CASE r \in 1..Len(ak)
    <3>1. ak[r].day \in DaysOf(fs) \cup {td}
      BY <1>2, <1>3, <2>1 DEF DaysOf
    <3>2. \E g \in DOMAIN fs : \E i \in 1..Len(fs[g]) : fs[g][i].rec = r
      BY <2>1, <3>1 DEF LogOk, StillThere
    <3> QED
      BY <1>2, <1>5, <3>2
  <2>2. CASE r \notin 1..Len(ak)
    <3>1. r = Len(ak) + 1 /\ p.rec = r
      BY <1>3, <2>2
    <3>2. f \in DOMAIN nf /\ n + 1 \in 1..Len(nf[f]) /\ nf[f][n + 1].rec = r
      BY <1>2, <3>1
    <3> QED
      BY <3>2
  <2> QED
    BY <2>1, <2>2
<1>10. InOrder(nf, nk)
  <2> SUFFICES ASSUME NEW g \in DOMAIN nf, NEW h \in DOMAIN nf, NEW i \in 1..Len(nf[g]),
                      NEW j \in 1..Len(nf[h]), nf[g][i].rec # 0, nf[g][i].rec < nf[h][j].rec,
                      nk[nf[g][i].rec].by = nk[nf[h][j].rec].by
               PROVE  Log!Before(g, h) \/ (g = h /\ i < j)
    BY DEF InOrder
  <2>1. CASE h \in DOMAIN fs /\ j \in 1..Len(fs[h]) /\ nf[h][j] = fs[h][j]
    <3>1. nf[h][j].rec <= Len(ak) /\ nf[h][j].rec \in Nat
      BY <1>3, <1>5, <2>1
    <3>2. ~(g = f /\ i = n + 1 /\ nf[g][i] = p)
      BY <1>3, <3>1
    <3>3. g \in DOMAIN fs /\ i \in 1..Len(fs[g]) /\ nf[g][i] = fs[g][i]
      BY <1>4, <3>2
    <3>4. nf[g][i].rec \in 1..Len(ak)
      BY <1>5, <3>3
    <3>5. nf[h][j].rec \in 1..Len(ak)
      BY <1>3, <3>1, <3>4
    <3>6. ak[fs[g][i].rec].by = ak[fs[h][j].rec].by
      BY <1>3, <2>1, <3>3, <3>4, <3>5
    <3> QED
      BY <2>1, <3>3, <3>6 DEF LogOk, InOrder
  <2>2. CASE h = f /\ j = n + 1 /\ nf[h][j] = p
    <3>1. CASE g = f /\ i = n + 1 /\ nf[g][i] = p
      BY <1>3, <2>2, <3>1
    <3>2. CASE g \in DOMAIN fs /\ i \in 1..Len(fs[g]) /\ nf[g][i] = fs[g][i]
      <4>1. fs[g][i].rec # 0 /\ fs[g][i].rec \in 1..Len(ak)
        BY <1>5, <3>2
      <4>2. nk[p.rec].by = <<w, wr[w].life>>
        BY <1>3, <1>5, <2>2, <3>2, <4>1, SMTT(30)
      <4>3. ak[fs[g][i].rec].by = <<w, wr[w].life>>
        BY <1>3, <2>2, <3>2, <4>1, <4>2
      <4>4. g[1] < wr[w].date \/ (g[1] = wr[w].date /\ g[2] <= wr[w].part)
        BY <3>2, <4>1, <4>3 DEF LogOk, WriterIsAhead
      <4>5. CASE g[1] = f[1] /\ g[2] = f[2]
        <5>1. g = f
          <6>1. g \in (0..td) \X Nat /\ f \in (0..td) \X Nat
            BY <3>2 DEF LogOk, LogTypes
          <6> QED
            BY <4>5, <6>1
        <5> QED
          BY <1>2, <2>2, <3>2, <5>1 DEF n
      <4>6. CASE ~(g[1] = f[1] /\ g[2] = f[2])
        <5>1. g[1] < f[1] \/ (g[1] = f[1] /\ g[2] < f[2])
          BY <1>1, <3>2, <4>4, <4>6
        <5> QED
          BY <2>2, <5>1 DEF Log!Before
      <4> QED
        BY <4>5, <4>6
    <3> QED
      BY <1>4, <3>1, <3>2
  <2> QED
    BY <1>4, <2>1, <2>2
<1>11. WriterIsAhead(nf, wr, nk)
  <2> SUFFICES ASSUME NEW x \in Writer
               PROVE  /\ \A r \in 1..Len(nk) : nk[r].by[1] = x => nk[r].by[2] <= wr[x].life
                      /\ \A g \in DOMAIN nf : \A i \in 1..Len(nf[g]) :
                           nf[g][i].rec # 0 /\ nk[nf[g][i].rec].by = <<x, wr[x].life>> =>
                             \/ g[1] < wr[x].date
                             \/ g[1] = wr[x].date /\ g[2] <= wr[x].part
    BY DEF WriterIsAhead
  <2>1. ASSUME NEW r \in 1..Len(nk), nk[r].by[1] = x PROVE nk[r].by[2] <= wr[x].life
    <3>1. CASE r \in 1..Len(ak)
      BY <1>3, <2>1, <3>1 DEF LogOk, WriterIsAhead
    <3>2. CASE r \notin 1..Len(ak)
      <4>1. nk[r].by = <<w, wr[w].life>>
        BY <1>3, <3>2
      <4> QED
        BY <1>1, <2>1, <4>1
    <3> QED
      BY <3>1, <3>2
  <2>2. ASSUME NEW g \in DOMAIN nf, NEW i \in 1..Len(nf[g]), nf[g][i].rec # 0,
               nk[nf[g][i].rec].by = <<x, wr[x].life>>
        PROVE  g[1] < wr[x].date \/ (g[1] = wr[x].date /\ g[2] <= wr[x].part)
    <3>1. CASE g \in DOMAIN fs /\ i \in 1..Len(fs[g]) /\ nf[g][i] = fs[g][i]
      <4>1. fs[g][i].rec # 0 /\ fs[g][i].rec \in 1..Len(ak)
        BY <1>5, <2>2, <3>1
      <4>2. ak[fs[g][i].rec].by = <<x, wr[x].life>>
        BY <1>3, <2>2, <3>1, <4>1
      <4> QED
        BY <3>1, <4>1, <4>2 DEF LogOk, WriterIsAhead
    <3>2. CASE g = f /\ i = n + 1 /\ nf[g][i] = p
      <4>1. nk[p.rec].by = <<w, wr[w].life>>
        BY <1>3, <2>2, <3>2
      <4>2. x = w
        BY <2>2, <3>2, <4>1
      <4> QED
        BY <1>1, <3>2, <4>2
    <3> QED
      BY <1>4, <2>2, <3>1, <3>2
  <2> QED
    BY <2>1, <2>2
<1>12. OpenIsThere(nf, wr, td)
  BY <1>2 DEF LogOk, OpenIsThere
<1> QED
  BY <1>6, <1>7, <1>8, <1>9, <1>10, <1>11, <1>12 DEF LogOk

\* The log moves on: a writer's v, and files it may write to.
Moved(fs, u, m, v, td) ==
  MovedFiles(fs, m, td) /\ MovedWriter(u, v, td) /\ (v.open => <<td, v.part>> \in DOMAIN m)

LEMMA MovedTwice ==
  ASSUME NEW fs, NEW m, NEW k, NEW td, MovedFiles(fs, m, td), MovedFiles(m, k, td)
  PROVE  MovedFiles(fs, k, td)
<1>1. \A f \in DOMAIN k : \/ f \in DOMAIN fs /\ k[f] = fs[f]
                          \/ f \notin DOMAIN fs /\ f[1] = td /\ k[f] = <<>>
  BY DEF MovedFiles
<1>2. \A f \in DOMAIN fs : f[1] = td => f \in DOMAIN k
  BY DEF MovedFiles
<1>3. ASSUME NEW f \in DOMAIN fs, NEW g \in DOMAIN fs, f[1] = g[1], f \in DOMAIN k
      PROVE  g \in DOMAIN k
  BY <1>2, <1>3 DEF MovedFiles
<1> QED
  BY <1>1, <1>2, <1>3 DEF MovedFiles

LEMMA LogCardinality == \A S : Log!Cardinality(S) = Cardinality(S)
BY DEF Log!Cardinality, Cardinality

\* Today is never pruned, and a day goes with its files.
LEMMA PruneMoves ==
  ASSUME today \in Nat, NEW m, DOMAIN m \subseteq (0..today) \X Nat
  PROVE  MovedFiles(m, Log!Prune(m), today)
<1> DEFINE days == {f[1] : f \in DOMAIN m} \cup {today}
           kept == {d \in days : Log!Cardinality({e \in days : e > d}) < MAX_FILES_KEPT}
           k == Log!Prune(m)
<1>1. k = [f \in {g \in DOMAIN m : g[1] \in kept} |-> m[f]]
  BY DEF Log!Prune
<1>2. today \in kept
  <2>1. {e \in days : e > today} = {}
    <3>1. \A f \in DOMAIN m : f[1] \in 0..today
      OBVIOUS
    <3> QED
      BY <3>1
  <2>2. Log!Cardinality({e \in days : e > today}) = 0
    BY <2>1, FS_EmptySet, LogCardinality
  <2> HIDE DEF days
  <2>3. today \in days
    BY DEF days
  <2> QED
    BY <2>2, <2>3, HouseAssumption
<1> HIDE DEF days, kept, k
<1>3. DOMAIN k = {g \in DOMAIN m : g[1] \in kept} /\ \A f \in DOMAIN k : k[f] = m[f]
  BY <1>1
<1> QED
  BY <1>2, <1>3 DEF MovedFiles, k

LEMMA OpenPartMoves ==
  ASSUME today \in Nat, NEW fs, DOMAIN fs.m \subseteq (0..today) \X Nat,
         WriterForm(fs.w), NEW n \in Nat
  PROVE  LET r == Log!OpenPartFile(fs, n)
         IN  /\ MovedFiles(fs.m, r.m, today) /\ WriterForm(r.w)
             /\ r.w.date = today /\ r.w.part = n /\ r.w.open /\ r.w.life = fs.w.life
             /\ <<today, n>> \in DOMAIN r.m
<1> DEFINE f == <<today, n>>
           m == IF f \in DOMAIN fs.m THEN fs.m
                ELSE [g \in DOMAIN fs.m \cup {f} |-> IF g = f THEN <<>> ELSE fs.m[g]]
           r == Log!OpenPartFile(fs, n)
<1>1. r.m = m /\ r.w = [fs.w EXCEPT !.date = today, !.part = n, !.open = TRUE,
                                    !.bytes = Log!Total(m[f])]
  BY DEF Log!OpenPartFile
<1>2. /\ WriterForm(r.w) /\ r.w.date = today /\ r.w.part = n /\ r.w.open
      /\ r.w.life = fs.w.life
  BY <1>1 DEF WriterForm
<1>3. f[1] = today /\ f \in (0..today) \X Nat
  OBVIOUS
<1>4. MovedFiles(fs.m, m, today) /\ f \in DOMAIN m
  BY <1>3 DEF MovedFiles
<1> QED
  BY <1>1, <1>2, <1>4

LEMMA RotateMoves ==
  ASSUME LogInv, NEW w \in Writer, writer[w].date # today
  PROVE  LET r == Log!RotateToDay([m |-> files, w |-> writer[w]])
         IN  Moved(files, writer[w], r.m, r.w, today)
<1> DEFINE fs == [m |-> Log!Prune(files), w |-> writer[w]]
           r == Log!OpenPartFile(fs, 0)
<1>1. today \in Nat /\ DOMAIN files \subseteq (0..today) \X Nat /\ WriterForm(writer[w])
  BY DEF LogInv, LogOk, LogTypes
<1>2. MovedFiles(files, fs.m, today)
  BY <1>1, PruneMoves
<1>3. DOMAIN fs.m \subseteq (0..today) \X Nat
  BY <1>2 DEF MovedFiles
<1>4. /\ MovedFiles(fs.m, r.m, today) /\ WriterForm(r.w)
      /\ r.w.date = today /\ r.w.part = 0 /\ r.w.open /\ r.w.life = fs.w.life
      /\ <<today, 0>> \in DOMAIN r.m
  BY <1>1, <1>3, OpenPartMoves
<1>5. MovedFiles(files, r.m, today)
  BY <1>2, <1>4, MovedTwice
<1>6. Log!RotateToDay([m |-> files, w |-> writer[w]]) = r
  BY DEF Log!RotateToDay
<1>7. MovedWriter(writer[w], r.w, today)
  BY <1>4 DEF MovedWriter
<1> HIDE DEF r
<1> QED
  BY <1>4, <1>5, <1>6, <1>7 DEF Moved

\* Where append and its failures find the writer before it looks for room.
LEMMA DayMoves ==
  ASSUME LogInv, NEW w \in Writer, NEW d,
         d = IF writer[w].date # today THEN Log!RotateToDay([m |-> files, w |-> writer[w]])
             ELSE [m |-> files, w |-> writer[w]]
  PROVE  Moved(files, writer[w], d.m, d.w, today)
<1>1. CASE writer[w].date # today
  BY <1>1, RotateMoves
<1>2. CASE writer[w].date = today
  <2>1. d.m = files /\ d.w = writer[w]
    BY <1>2
  <2>2. MovedFiles(files, files, today)
    BY DEF MovedFiles, LogInv, LogOk, LogTypes
  <2>3. MovedWriter(writer[w], writer[w], today)
    BY <1>2 DEF MovedWriter, LogInv, LogOk, LogTypes, WriterForm
  <2>4. writer[w].open => <<today, writer[w].part>> \in DOMAIN files
    BY <1>2 DEF LogInv, LogOk, OpenIsThere
  <2> QED
    BY <2>1, <2>2, <2>3, <2>4 DEF Moved
<1> QED
  BY <1>1, <1>2

LEMMA PositionedMoves ==
  ASSUME LogInv, NEW w \in Writer, NEW len \in Lengths
  PROVE  LET p == Log!Positioned([m |-> files, w |-> writer[w]], len)
         IN  Moved(files, writer[w], p.m, p.w, today)
<1> DEFINE fs == [m |-> files, w |-> writer[w]]
           d == IF fs.w.date # today THEN Log!RotateToDay(fs) ELSE fs
           p == Log!Positioned(fs, len)
<1>1. Moved(files, writer[w], d.m, d.w, today)
  BY DayMoves
<1>2. p = IF d.w.bytes + len > MAX_FILE_BYTES THEN Log!OpenPartFile(d, d.w.part + 1) ELSE d
  BY DEF Log!Positioned, Log!OpenNextPart
<1> HIDE DEF d, p
<1>3. ASSUME p = Log!OpenPartFile(d, d.w.part + 1)
      PROVE  Moved(files, writer[w], p.m, p.w, today)
  <2>1. today \in Nat /\ DOMAIN d.m \subseteq (0..today) \X Nat /\ WriterForm(d.w)
        /\ d.w.part \in Nat /\ d.w.part + 1 \in Nat /\ writer[w].part \in Nat
    BY <1>1 DEF Moved, MovedFiles, MovedWriter, WriterForm, LogInv, LogOk, LogTypes
  <2>2. /\ MovedFiles(d.m, p.m, today) /\ WriterForm(p.w)
        /\ p.w.date = today /\ p.w.part = d.w.part + 1 /\ p.w.open /\ p.w.life = d.w.life
        /\ <<today, d.w.part + 1>> \in DOMAIN p.m
    BY <1>3, <2>1, OpenPartMoves
  <2>3. MovedFiles(files, p.m, today)
    BY <1>1, <2>2, MovedTwice DEF Moved
  <2>4. MovedWriter(writer[w], p.w, today)
    BY <1>1, <2>1, <2>2 DEF Moved, MovedWriter
  <2> QED
    BY <2>2, <2>3, <2>4 DEF Moved
<1> QED
  BY <1>1, <1>2, <1>3 DEF p

LEMMA MovedKeeps ==
  ASSUME LogInv, NEW w \in Writer, NEW m, NEW v, Moved(files, writer[w], m, v, today)
  PROVE  /\ LogOk(m, [writer EXCEPT ![w] = v], acked, today)
         /\ [writer EXCEPT ![w] = v][w] = v
<1>1. writer \in [Writer -> {writer[x] : x \in Writer}]
  BY DEF LogInv, LogOk, LogTypes
<1>2. /\ LogOk(files, writer, acked, today)
      /\ MovedFiles(files, m, today) /\ MovedWriter(writer[w], v, today)
      /\ v.open => <<today, v.part>> \in DOMAIN m
  BY DEF LogInv, Moved
<1>3. LogOk(m, [writer EXCEPT ![w] = v], acked, today)
  BY <1>2, MoveKeeps
<1> QED
  BY <1>1, <1>3

\* A piece in the file a writer is at, before and after the count.
LEMMA PiecePut ==
  ASSUME LogInv, NEW w \in Writer, NEW len \in Lengths, NEW p,
         p = Log!Positioned([m |-> files, w |-> writer[w]], len), p.w.open,
         NEW b \in Pieces, NEW nk,
         \/ b.rec = 0 /\ nk = acked
         \/ /\ b.rec = Len(acked) + 1 /\ b.end = "newline"
            /\ nk = Append(acked, [day |-> today, by |-> <<w, p.w.life>>])
  PROVE  LogOk(Log!Written(p, b), [writer EXCEPT ![w] = p.w], nk, today)
<1> DEFINE wr == [writer EXCEPT ![w] = p.w]
           f == <<today, p.w.part>>
<1>1. Moved(files, writer[w], p.m, p.w, today)
  BY PositionedMoves
<1>2. LogOk(p.m, wr, acked, today) /\ wr[w] = p.w
  BY <1>1, MovedKeeps
<1>3. f \in DOMAIN p.m /\ p.w.date = today
  BY <1>1 DEF Moved, MovedWriter
<1> HIDE DEF wr
<1>4. f = <<today, wr[w].part>> /\ wr[w].date = today
  BY <1>2, <1>3
<1> HIDE DEF f
<1>5. \/ b.rec = 0 /\ nk = acked
      \/ /\ b.rec = Len(acked) + 1 /\ b.end = "newline"
         /\ nk = Append(acked, [day |-> today, by |-> <<w, wr[w].life>>])
  BY <1>2
<1>6. Put(p.m, f, b, Log!Written(p, b))
  BY DEF Log!Written, f, Put
<1>7. LogOk(Log!Written(p, b), wr, nk, today)
  BY <1>2, <1>3, <1>4, <1>5, <1>6, WriteKeeps
<1> QED
  BY <1>7 DEF wr

LEMMA AppendStep ==
  ASSUME LogInv, NEW w \in Writer, NEW len \in Lengths, Log!AppendRecord(w, len)
  PROVE  LogInv'
<1> DEFINE p == Log!Positioned([m |-> files, w |-> writer[w]], len)
           b == [rec |-> Len(acked) + 1, len |-> len, end |-> "newline"]
           v == [p.w EXCEPT !.bytes = @ + len]
<1>1. Moved(files, writer[w], p.m, p.w, today)
  BY PositionedMoves
<1>2. today' = today
  BY DEF Log!AppendRecord
<1>3. CASE ~p.w.open
  <2>1. files' = p.m /\ writer' = [writer EXCEPT ![w] = p.w] /\ acked' = acked
    BY <1>3 DEF Log!AppendRecord
  <2>2. LogOk(p.m, [writer EXCEPT ![w] = p.w], acked, today)
    BY <1>1, MovedKeeps
  <2> QED
    BY <1>2, <2>1, <2>2 DEF LogInv
<1>4. CASE p.w.open
  <2>1. /\ files' = Log!Written(p, b) /\ writer' = [writer EXCEPT ![w] = v]
        /\ acked' = Append(acked, [day |-> today, by |-> <<w, p.w.life>>])
    BY <1>4 DEF Log!AppendRecord
  <2>2. Len(acked) \in Nat
    BY DEF LogInv, LogOk, LogTypes
  <2>3. b \in Pieces /\ b.rec = Len(acked) + 1 /\ b.end = "newline"
    BY <2>2 DEF Pieces
  <2> HIDE DEF p, b
  <2>4. LogOk(files', [writer EXCEPT ![w] = p.w], acked', today)
    BY <1>4, <2>1, <2>3, PiecePut DEF p
  <2>5. MovedFiles(files', files', today)
    BY <2>4 DEF LogOk, LogTypes, MovedFiles
  <2>6. writer \in [Writer -> {writer[x] : x \in Writer}]
    BY DEF LogInv, LogOk, LogTypes
  <2>7. /\ [writer EXCEPT ![w] = p.w][w] = p.w
        /\ writer' = [[writer EXCEPT ![w] = p.w] EXCEPT ![w] = v]
    BY <2>1, <2>6
  <2>8. MovedWriter(p.w, v, today) /\ v.part = p.w.part
    BY <1>1 DEF Moved, MovedWriter, WriterForm
  <2>9. <<today, v.part>> \in DOMAIN files'
    <3>1. <<today, p.w.part>> \in DOMAIN p.m
      BY <1>1, <1>4 DEF Moved
    <3> QED
      BY <2>1, <2>8, <3>1 DEF Log!Written
  <2> HIDE DEF v
  <2>10. LogOk(files', [[writer EXCEPT ![w] = p.w] EXCEPT ![w] = v], acked', today)
    BY <2>4, <2>5, <2>7, <2>8, <2>9, MoveKeeps
  <2> QED
    BY <1>2, <2>7, <2>10 DEF LogInv
<1> QED
  BY <1>3, <1>4

LEMMA WriteStopsStep ==
  ASSUME LogInv, NEW w \in Writer, NEW len \in Lengths, Log!WriteStops(w, len)
  PROVE  LogInv'
<1> DEFINE p == Log!Positioned([m |-> files, w |-> writer[w]], len)
           wr == [writer EXCEPT ![w] = p.w]
<1>1. p.w.open /\ today' = today /\ acked' = acked
      /\ writer' = [writer EXCEPT ![w] = Log!Fresh(p.w.life + 1)]
  BY DEF Log!WriteStops
<1>2. PICK end \in {"bare", "cut"} :
        files' = Log!Written(p, [rec |-> 0, len |-> len, end |-> end])
  BY DEF Log!WriteStops
<1> DEFINE b == [rec |-> 0, len |-> len, end |-> end]
<1>3. b \in Pieces /\ b.rec = 0
  BY DEF Pieces
<1>4. writer \in [Writer -> {writer[x] : x \in Writer}]
  BY DEF LogInv, LogOk, LogTypes
<1>5. wr[w] = p.w /\ [wr EXCEPT ![w] = Log!Fresh(p.w.life + 1)]
                       = [writer EXCEPT ![w] = Log!Fresh(p.w.life + 1)]
  BY <1>4
<1> HIDE DEF b, p
<1>6. LogOk(Log!Written(p, b), wr, acked, today)
  BY <1>1, <1>3, PiecePut DEF p
<1> HIDE DEF wr
<1>7. LogOk(Log!Written(p, b), [wr EXCEPT ![w] = Log!Fresh(wr[w].life + 1)], acked, today)
  BY <1>6, RestartKeeps
<1> QED
  BY <1>1, <1>2, <1>5, <1>7 DEF LogInv, b

LEMMA OpenStopsStep ==
  ASSUME LogInv, NEW w \in Writer, NEW len \in Lengths, Log!OpenStops(w, len)
  PROVE  LogInv'
<1> DEFINE fs == [m |-> files, w |-> writer[w]]
           r == IF fs.w.date # today THEN Log!RotateToDay(fs) ELSE fs
<1>1. today' = today /\ acked' = acked
  BY DEF Log!OpenStops
<1>2. today \in Nat /\ DOMAIN files \subseteq (0..today) \X Nat /\ WriterForm(writer[w])
  BY DEF LogInv, LogOk, LogTypes
<1>3. CASE /\ fs.w.date # today
           /\ files' = Log!Prune(files)
           /\ writer' = [writer EXCEPT ![w] = Log!OpenFails(fs, 0).w]
  <2> DEFINE v == Log!OpenFails(fs, 0).w
  <2>1. /\ WriterForm(v) /\ v.date = today /\ v.part = 0 /\ ~v.open
        /\ v.life = writer[w].life
    BY <1>2 DEF Log!OpenFails, WriterForm
  <2>2. Moved(files, writer[w], files', v, today)
    BY <1>2, <1>3, <2>1, PruneMoves DEF Moved, MovedWriter
  <2> HIDE DEF v
  <2> QED
    BY <1>1, <1>3, <2>2, MovedKeeps DEF LogInv, v
<1>4. CASE /\ files' = r.m
           /\ writer' = [writer EXCEPT ![w] = Log!OpenFails(r, r.w.part + 1).w]
  <2> DEFINE v == Log!OpenFails(r, r.w.part + 1).w
  <2>1. Moved(files, writer[w], r.m, r.w, today)
    BY DayMoves
  <2>2. r = [m |-> r.m, w |-> r.w]
    BY DEF Log!RotateToDay, Log!OpenPartFile
  <2> HIDE DEF r
  <2>3. WriterForm(r.w) /\ r.w.date = today /\ r.w.life = writer[w].life
        /\ (writer[w].date = today => writer[w].part <= r.w.part)
    BY <2>1 DEF Moved, MovedWriter
  <2>4. v = [r.w EXCEPT !.date = today, !.part = r.w.part + 1, !.open = FALSE]
    BY <2>2 DEF Log!OpenFails
  <2> HIDE DEF v
  <2>5. /\ WriterForm(v) /\ v.date = today /\ v.part = r.w.part + 1 /\ ~v.open
        /\ v.life = writer[w].life
    BY <1>2, <2>3, <2>4 DEF WriterForm
  <2>6. writer[w].date = today => writer[w].part <= v.part
    BY <1>2, <2>3, <2>5 DEF WriterForm
  <2>7. Moved(files, writer[w], files', v, today)
    BY <1>4, <2>1, <2>5, <2>6 DEF Moved, MovedWriter
  <2> QED
    BY <1>1, <1>4, <2>7, MovedKeeps DEF LogInv, v
<1> QED
  BY <1>3, <1>4 DEF Log!OpenStops

LEMMA NextDayStep == ASSUME LogInv, Log!NextDay PROVE LogInv'
<1>1. UNCHANGED <<files, writer, acked>> /\ today \in Nat /\ today >= 1
      /\ today' \in Nat /\ today < today'
  BY DEF Log!NextDay, LogInv, LogOk, LogTypes
<1>2. /\ \A r \in 1..Len(acked) : acked[r].day <= today /\ acked[r].day \in Nat
      /\ \A w \in Writer : writer[w].date <= today /\ writer[w].date \in Nat
  <2>1. \A r \in 1..Len(acked) : acked[r].day \in Nat
    <3>1. acked \in Seq(Acks)
      BY DEF LogInv, LogOk, LogTypes
    <3>2. \A r \in 1..Len(acked) : acked[r] \in Acks
      BY <3>1
    <3> QED
      BY <3>2 DEF Acks
  <2> QED
    BY <2>1 DEF LogInv, LogOk, LogTypes, WriterForm
<1>3. LogTypes(files, writer, acked, today')
  <2>1. DOMAIN files \subseteq (0..today') \X Nat
    <3>1. 0..today \subseteq 0..today'
      BY <1>1
    <3>2. DOMAIN files \subseteq (0..today) \X Nat
      BY DEF LogInv, LogOk, LogTypes
    <3> QED
      BY <3>1, <3>2
  <2>2. \A r \in 1..Len(acked) : acked[r].day <= today'
    BY <1>1, <1>2
  <2>3. \A w \in Writer : WriterForm(writer[w]) /\ writer[w].date <= today'
    BY <1>1, <1>2 DEF LogInv, LogOk, LogTypes
  <2> QED
    BY <1>1, <2>1, <2>2, <2>3 DEF LogInv, LogOk, LogTypes
<1>4. StillThere(files, acked, today')
  BY <1>1, <1>2 DEF LogInv, LogOk, StillThere
<1>5. OpenIsThere(files, writer, today')
  BY <1>1, <1>2 DEF OpenIsThere
<1>6. LogOk(files, writer, acked, today')
  BY <1>3, <1>4, <1>5 DEF LogInv, LogOk
<1> QED
  BY <1>1, <1>6 DEF LogInv

LEMMA LogInit == Log!Init => LogInv
<1> SUFFICES ASSUME Log!Init PROVE LogInv
  OBVIOUS
<1>1. files = <<>> /\ writer = [w \in Writer |-> Log!Fresh(0)] /\ today = 1 /\ acked = <<>>
  BY DEF Log!Init
<1>2. DOMAIN files = {} /\ Len(acked) = 0 /\ acked \in Seq(Acks)
  BY <1>1
<1>3. \A w \in Writer : WriterForm(writer[w]) /\ writer[w].date = 0
  BY <1>1 DEF Log!Fresh, Log!NoDay, WriterForm
<1>4. writer \in [Writer -> {writer[w] : w \in Writer}]
  BY <1>1
<1>5. LogTypes(files, writer, acked, today)
  BY <1>1, <1>2, <1>3, <1>4 DEF LogTypes
<1>6. /\ RecordsAreWhole(files, acked) /\ OnePlace(files)
      /\ StillThere(files, acked, today) /\ InOrder(files, acked)
      /\ WriterIsAhead(files, writer, acked) /\ OpenIsThere(files, writer, today)
  BY <1>1, <1>2, <1>3
     DEF RecordsAreWhole, OnePlace, StillThere, InOrder, WriterIsAhead, OpenIsThere
<1> QED
  BY <1>5, <1>6 DEF LogInv, LogOk

LEMMA LogStep == LogInv /\ [MCNext]_allVars => LogInv'
<1> SUFFICES ASSUME LogInv, [MCNext]_allVars PROVE LogInv'
  OBVIOUS
<1>1. CASE UNCHANGED logVars
  BY <1>1 DEF logVars, LogInv
<1>2. CASE Log!Next
  <2>1. CASE \E w \in Writer, len \in Lengths :
               Log!AppendRecord(w, len) \/ Log!WriteStops(w, len) \/ Log!OpenStops(w, len)
    BY <2>1, AppendStep, WriteStopsStep, OpenStopsStep
  <2>2. ASSUME NEW w \in Writer, Log!Restart(w) PROVE LogInv'
    <3>1. /\ writer' = [writer EXCEPT ![w] = Log!Fresh(writer[w].life + 1)]
          /\ UNCHANGED <<files, today, acked>>
      BY <2>2 DEF Log!Restart
    <3>2. LogOk(files, [writer EXCEPT ![w] = Log!Fresh(writer[w].life + 1)], acked, today)
      BY RestartKeeps DEF LogInv
    <3> QED
      BY <3>1, <3>2 DEF LogInv
  <2>3. CASE Log!NextDay
    BY <2>3, NextDayStep
  <2> QED
    BY <1>2, <2>1, <2>2, <2>3 DEF Log!Next
<1> QED
  BY <1>1, <1>2 DEF MCNext, allVars

\* A record is in a place, and in no other.
LEMMA PlacesOf ==
  ASSUME LogInv, NEW r \in DOMAIN acked
  PROVE  /\ r \in Nat /\ r # 0
         /\ \A x \in Log!Places(r) :
              /\ x = <<x[1], x[2]>> /\ x[1] \in DOMAIN files
              /\ x[2] \in 1..Len(files[x[1]]) /\ files[x[1]][x[2]].rec = r
         /\ \A f \in DOMAIN files : \A i \in 1..Len(files[f]) :
              files[f][i].rec = r => <<f, i>> \in Log!Places(r)
<1>1. \A f \in DOMAIN files : DOMAIN files[f] = 1..Len(files[f])
  BY DEF LogInv, LogOk, LogTypes
<1>2. r \in Nat /\ r # 0
  BY DEF LogInv, LogOk, LogTypes
<1>3. ASSUME NEW x \in Log!Places(r)
      PROVE  /\ x = <<x[1], x[2]>> /\ x[1] \in DOMAIN files
             /\ x[2] \in 1..Len(files[x[1]]) /\ files[x[1]][x[2]].rec = r
  <2>1. /\ x \in UNION {{f} \X DOMAIN files[f] : f \in DOMAIN files}
        /\ files[x[1]][x[2]].rec = r
    BY DEF Log!Places
  <2>2. PICK f \in DOMAIN files : x \in {f} \X DOMAIN files[f]
    BY <2>1
  <2> QED
    BY <1>1, <2>1, <2>2
<1>4. ASSUME NEW f \in DOMAIN files, NEW i \in 1..Len(files[f]), files[f][i].rec = r
      PROVE  <<f, i>> \in Log!Places(r)
  <2>1. <<f, i>> \in {f} \X DOMAIN files[f]
    BY <1>1
  <2>2. <<f, i>> \in UNION {{g} \X DOMAIN files[g] : g \in DOMAIN files}
    BY <2>1
  <2>3. <<f, i>>[1] = f /\ <<f, i>>[2] = i
    OBVIOUS
  <2> QED
    BY <1>4, <2>2, <2>3 DEF Log!Places
<1> QED
  BY <1>2, <1>3, <1>4

\* An unreadable record follows a piece without its newline.
LEMMA UnreadableFollows ==
  ASSUME LogInv, NEW f \in DOMAIN files
  PROVE  Cardinality({i \in DOMAIN files[f] : files[f][i].rec # 0} \ Log!Readable(f))
            <= Cardinality({i \in DOMAIN files[f] : files[f][i].end # "newline"})
<1> DEFINE ps == files[f]
           hidden == {i \in DOMAIN ps : ps[i].rec # 0} \ Log!Readable(f)
           broken == {i \in DOMAIN ps : ps[i].end # "newline"}
           g == [i \in hidden |-> i - 1]
<1>1. ps \in Seq(Pieces) /\ DOMAIN ps = 1..Len(ps) /\ Len(ps) \in Nat
  BY DEF LogInv, LogOk, LogTypes
<1>2. ASSUME NEW i \in hidden PROVE i \in Int /\ i - 1 \in broken
  <2>1. i \in 1..Len(ps) /\ ps[i].rec # 0 /\ ~Log!Parses(ps, i)
    BY <1>1 DEF Log!Readable
  <2>2. ps[i].end = "newline"
    BY <2>1 DEF LogInv, LogOk, RecordsAreWhole
  <2>3. i > 1 /\ ps[i - 1].end # "newline"
    BY <2>1, <2>2 DEF Log!Parses
  <2> QED
    BY <1>1, <2>1, <2>3
<1>3. IsFiniteSet(broken)
  <2>1. IsFiniteSet(1..Len(ps))
    BY <1>1, FS_Interval
  <2> QED
    BY <1>1, <2>1, FS_Subset
<1> HIDE DEF hidden, broken
<1>4. g \in Injection(hidden, broken)
  <2>1. g \in [hidden -> broken]
    BY <1>2
  <2>2. \A i, j \in hidden : g[i] = g[j] => i = j
    BY <1>2
  <2> QED
    BY <2>1, <2>2 DEF Injection, IsInjective
<1>5. Cardinality(hidden) <= Cardinality(broken)
  BY <1>3, <1>4, FS_Injection
<1> QED
  BY <1>5 DEF hidden, broken

LEMMA LogPromises == LogInv => LogKeepsItsOrder
<1> SUFFICES ASSUME LogInv PROVE LogKeepsItsOrder
  OBVIOUS
<1>1. ASSUME NEW r \in DOMAIN acked, acked[r].day \in Log!KeptDays
      PROVE  Log!Cardinality(Log!Places(r)) = 1
  <2>1. r \in 1..Len(acked) /\ r # 0
    BY DEF LogInv, LogOk, LogTypes
  <2>2. acked[r].day \in DaysOf(files)
    BY <1>1 DEF Log!KeptDays, Log!Days, DaysOf
  <2>3. PICK f \in DOMAIN files : \E i \in 1..Len(files[f]) : files[f][i].rec = r
    BY <2>1, <2>2 DEF LogInv, LogOk, StillThere
  <2>4. PICK i \in 1..Len(files[f]) : files[f][i].rec = r
    BY <2>3
  <2>5. <<f, i>> \in Log!Places(r)
    BY <2>4, PlacesOf
  <2>6. ASSUME NEW x \in Log!Places(r) PROVE x = <<f, i>>
    <3>1. /\ x = <<x[1], x[2]>> /\ x[1] \in DOMAIN files
          /\ x[2] \in 1..Len(files[x[1]]) /\ files[x[1]][x[2]].rec = r
      BY PlacesOf
    <3>2. x[1] = f /\ x[2] = i
      BY <2>1, <2>4, <3>1 DEF LogInv, LogOk, OnePlace
    <3> QED
      BY <3>1, <3>2
  <2>7. Log!Places(r) = {<<f, i>>}
    BY <2>5, <2>6
  <2> QED
    BY <2>7, FS_Singleton, LogCardinality
<1>2. ASSUME NEW r \in DOMAIN acked, NEW q \in DOMAIN acked, r < q, acked[r].by = acked[q].by,
             NEW x \in Log!Places(r), NEW y \in Log!Places(q)
      PROVE  Log!Earlier(x, y)
  <2>1. /\ x[1] \in DOMAIN files /\ x[2] \in 1..Len(files[x[1]])
        /\ files[x[1]][x[2]].rec = r /\ r # 0
    BY PlacesOf
  <2>2. /\ y[1] \in DOMAIN files /\ y[2] \in 1..Len(files[y[1]])
        /\ files[y[1]][y[2]].rec = q
    BY PlacesOf
  <2>3. Log!Before(x[1], y[1]) \/ (x[1] = y[1] /\ x[2] < y[2])
    BY <1>2, <2>1, <2>2 DEF LogInv, LogOk, InOrder
  <2> QED
    BY <2>3 DEF Log!Earlier
<1>3. ASSUME NEW f \in DOMAIN files
      PROVE  Log!Cardinality({i \in DOMAIN files[f] : files[f][i].rec # 0} \ Log!Readable(f))
               <= Log!Cardinality({i \in DOMAIN files[f] : files[f][i].end # "newline"})
  BY UnreadableFollows, LogCardinality
<1> QED
  BY <1>1, <1>2, <1>3 DEF LogKeepsItsOrder, Log!LogKeepsItsOrder

LEMMA LogInvariance == MCSpec => []LogInv
<1>1. MCInit => LogInv
  BY LogInit DEF MCInit
<1> QED
  BY <1>1, LogStep, PTL DEF MCSpec, allVars

(* The diagnostics log keeps what append said yes to, each record once until its day is pruned and a
   writer's in the order it wrote them, over full parts, new days, torn writes, files that do not
   open and restarts, with any number of writers on one directory; a torn line costs itself and the
   one record written onto it (DiagWriter::append, rotate_to, prune; read_records). *)
THEOREM LogsKeepTheirOrder == MCSpec => []LogKeepsItsOrder
BY LogInvariance, LogPromises, PTL
=============================================================================
