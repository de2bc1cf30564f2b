----------------------------- MODULE GateProofs -----------------------------
(***************************************************************************)
(* What holds of the gatehouse's tables for any number of houses,          *)
(* connections and sessions, and whatever the caps.                        *)
(***************************************************************************)
EXTENDS GateServer, FiniteSetTheorems, TLAPS

Task == Conn \cup {Sweeper}

-----------------------------------------------------------------------------
(* The inductive invariant.                                                *)

\* A key's list holds connections of that key, each one once.
ListsSound ==
  \A k \in Key : \A i \in 1..Len(regs[k]) :
    /\ KeyOf[regs[k][i]] = k
    /\ \A j \in 1..Len(regs[k]) : regs[k][j] = regs[k][i] => i = j

\* A connection that has yet to register has left no trace.
EarlyIsClean ==
  \A r \in Conn : pc[r] \in {"new", "pending"} =>
    held[r] = {} /\ ~Listed(r) /\ r \notin expired

\* What a task files or answers is a knock of two keys; what it answers is addressed to its own.
AnswersAreOwn ==
  /\ \A p \in Pairs : knocks[p] # None => knocks[p].requester # knocks[p].target
  /\ \A r \in Conn : pc[r] = "answering" =>
       /\ answering[r] \in Knock
       /\ answering[r].requester # answering[r].target
       /\ answering[r].target = KeyOf[r]
  /\ \A r \in Conn : pc[r] = "introducing" =>
       answering[r] \in Knock /\ answering[r].requester # answering[r].target

\* How far each teardown is: which registration, and what it has undone.
TeardownsSound ==
  /\ \A r \in Conn : pc[r] # "leaving" => down[r] = NoDown
  /\ \A t \in Task :
       /\ down[t].step # "none" => /\ down[t].reg \in Conn
                                   /\ pc[down[t].reg] \notin {"new", "pending"}
       /\ down[t].step # "notify" => down[t].orphans = {}
       /\ down[t].step \in {"close", "notify"} => ~Listed(down[t].reg)
       /\ down[t].step = "notify" => held[down[t].reg] \cap Live = {}
       /\ \A k \in Key, id \in Session :
            <<k, id>> \in down[t].orphans => id \notin Live /\ id < nextId

\* A session identifier has two different keys and one holder for each, and was drawn.
HoldersSound ==
  /\ \A id \in Live : id < nextId /\ sessions[id].a # sessions[id].b
  /\ \A r \in Conn : \A id \in held[r] :
       /\ id < nextId
       /\ id \in Live => KeyOf[r] \in {sessions[id].a, sessions[id].b}
       /\ \A q \in Conn : id \in held[q] /\ KeyOf[q] = KeyOf[r] => q = r

FiniteLists == IsFiniteSet({ k \in Key : regs[k] # <<>> })

Inv ==
  /\ TypeOK /\ ListsSound /\ EarlyIsClean /\ AnswersAreOwn /\ TeardownsSound
  /\ HoldersSound /\ FiniteLists
  /\ SessionsHaveOwners /\ NoSlotLeaks /\ CapsHold
-----------------------------------------------------------------------------
(* Facts about the tables.                                                 *)

Distinct(s) == \A i, j \in 1..Len(s) : s[i] = s[j] => i = j

\* w is the list s less r.
IsLess(w, s, r) ==
  /\ w \in Seq(Conn)
  /\ Len(w) <= Len(s)
  /\ \A i \in 1..Len(w) : w[i] # r /\ \E j \in 1..Len(s) : w[i] = s[j]
  /\ \A i, j \in 1..Len(w) : w[i] = w[j] => i = j
  /\ \A j \in 1..Len(s) : s[j] # r => \E i \in 1..Len(w) : w[i] = s[j]
  /\ s = <<>> => w = <<>>

\* list.retain takes the one entry that is r out of a list and keeps the rest.
LEMMA WithoutFacts ==
  ASSUME NEW s \in Seq(Conn), NEW r \in Conn, Distinct(s)
  PROVE  IsLess(Without(s, r), s, r)
<1> DEFINE w == Without(s, r)
<1> USE DEF IsLess, Distinct
<1>1. CASE ~\E i \in 1..Len(s) : s[i] = r
  <2>1. w = s
    BY <1>1 DEF Without
  <2> HIDE DEF w
  <2>2. IsLess(w, s, r)
    BY <1>1, <2>1
  <2> QED
    BY <2>2 DEF w
<1>2. CASE \E i \in 1..Len(s) : s[i] = r
  <2> DEFINE i == CHOOSE i \in 1..Len(s) : s[i] = r
             v == [j \in 1..Len(s)-1 |-> IF j < i THEN s[j] ELSE s[j+1]]
  <2>1. i \in 1..Len(s) /\ s[i] = r
    BY <1>2
  <2>2. w = v
    BY <1>2 DEF Without
  <2> HIDE DEF i, w
  <2>3. Len(s) \in Nat /\ Len(s) - 1 \in Nat
    BY <2>1
  <2>4. w \in Seq(Conn) /\ Len(w) = Len(s) - 1
    BY <2>1, <2>2, <2>3
  <2>5. \A j \in 1..Len(w) : w[j] # r /\ \E k \in 1..Len(s) : w[j] = s[k]
    BY <2>1, <2>2, <2>3, <2>4
  <2>6. \A j, k \in 1..Len(w) : w[j] = w[k] => j = k
    BY <2>1, <2>2, <2>3, <2>4
  <2>7. \A j \in 1..Len(s) : s[j] # r => \E k \in 1..Len(w) : w[k] = s[j]
    <3> SUFFICES ASSUME NEW j \in 1..Len(s), s[j] # r
                 PROVE  \E k \in 1..Len(w) : w[k] = s[j]
      OBVIOUS
    <3>1. CASE j < i
      BY <2>1, <2>2, <2>3, <2>4, <3>1
    <3>2. CASE j > i
      <4>1. j - 1 \in 1..Len(w) /\ w[j-1] = s[j]
        BY <2>1, <2>2, <2>3, <2>4, <3>2
      <4> QED
        BY <4>1
    <3> QED
      BY <2>1, <2>3, <3>1, <3>2
  <2>8. s # <<>>
    BY <2>1
  <2>9. IsLess(w, s, r)
    BY <2>3, <2>4, <2>5, <2>6, <2>7, <2>8
  <2> QED
    BY <2>9 DEF w
<1> QED
  BY <1>1, <1>2

\* A teardown that moves on is a teardown still.
LEMMA DownUpdate ==
  ASSUME TypeOK, NEW t \in Task, NEW step \in {"none", "unlist", "close", "notify"},
         NEW O \in SUBSET (Key \X Session)
  PROVE  LET Down == [Conn \cup {Sweeper} ->
                        [reg : Conn \cup {None}, step : {"none", "unlist", "close", "notify"},
                         orphans : SUBSET (Key \X Session)]]
         IN /\ [down EXCEPT ![t].step = step] \in Down
            /\ [down EXCEPT ![t].step = step, ![t].orphans = O] \in Down
<1> DEFINE D == [reg : Conn \cup {None}, step : {"none", "unlist", "close", "notify"},
                 orphans : SUBSET (Key \X Session)]
<1>1. down \in [Conn \cup {Sweeper} -> D]
  BY DEF TypeOK
<1>2. \A d \in D : [d EXCEPT !.step = step] \in D /\ [d EXCEPT !.orphans = O] \in D
  OBVIOUS
<1> HIDE DEF D
<1>4. [down EXCEPT ![t].step = step] \in [Conn \cup {Sweeper} -> D]
  BY <1>1, <1>2 DEF Task
<1>5. [down EXCEPT ![t].step = step, ![t].orphans = O] \in [Conn \cup {Sweeper} -> D]
  BY <1>1, <1>2, <1>4 DEF Task
<1> QED
  BY <1>4, <1>5 DEF D

\* Sets of session identifiers are finite.
LEMMA HeldFinite ==
  ASSUME NEW S \in SUBSET Session
  PROVE  IsFiniteSet(S) /\ Cardinality(S) \in Nat
<1>1. IsFiniteSet(Session)
  BY FS_Interval, LimitAssumption DEF Session
<1> QED
  BY <1>1, FS_Subset, FS_CardinalityType

\* A step that touches neither the registrations, the sessions nor a teardown
\* keeps what relates them.
LEMMA TablesKept ==
  ASSUME Inv, UNCHANGED <<regs, held, sessions, nextId, down>>
  PROVE  /\ ListsSound' /\ HoldersSound' /\ FiniteLists'
         /\ SessionsHaveOwners' /\ NoSlotLeaks' /\ CapsHold'
         /\ \A r : Listed(r)' = Listed(r)
         /\ Live' = Live
<1>1. Live' = Live /\ \A r : Listed(r)' = Listed(r) /\ Closing(r)' = Closing(r)
  BY DEF Live, Listed, Closing
<1>2. ListsSound' /\ FiniteLists' /\ CapsHold'
  BY DEF Inv, ListsSound, FiniteLists, CapsHold
<1>3. HoldersSound'
  BY <1>1 DEF Inv, HoldersSound
<1>4. SessionsHaveOwners' /\ NoSlotLeaks'
  BY <1>1 DEF Inv, SessionsHaveOwners, NoSlotLeaks
<1> QED
  BY <1>1, <1>2, <1>3, <1>4

-----------------------------------------------------------------------------
(* Each step keeps the invariant.                                          *)

LEMMA InitInv == Init => Inv
<1> SUFFICES ASSUME Init PROVE Inv
  OBVIOUS
<1>0. Live = {} /\ \A r \in Conn : ~Listed(r)
  BY KeyOfAssumption DEF Init, Live, Listed
<1>1. TypeOK
  BY LimitAssumption DEF Init, TypeOK, NoDown, Session
<1>2. ListsSound /\ EarlyIsClean /\ AnswersAreOwn /\ HoldersSound
  BY <1>0 DEF Init, ListsSound, EarlyIsClean, AnswersAreOwn, HoldersSound
<1>3. TeardownsSound
  BY DEF Init, TeardownsSound, NoDown, Task
<1>4. { k \in Key : regs[k] # <<>> } = {}
  BY DEF Init
<1>5. FiniteLists
  BY <1>4, FS_EmptySet DEF FiniteLists
<1>6. SessionsHaveOwners /\ NoSlotLeaks
  BY <1>0 DEF SessionsHaveOwners, NoSlotLeaks
<1>7. CapsHold
  <2>1. Cardinality({}) = 0
    BY FS_EmptySet
  <2> DEFINE some == { k \in Key : regs[k] # <<>> }
  <2>a. some = {}
    BY <1>4
  <2> HIDE DEF some
  <2>b. Cardinality(some) <= Capacity
    BY <2>a, <2>1, LimitAssumption
  <2>2. Cardinality({ k \in Key : regs[k] # <<>> }) <= Capacity
    BY <2>b DEF some
  <2>3. \A k \in Key : Len(regs[k]) <= MaxPerKey
    BY LimitAssumption DEF Init
  <2>4. \A r \in Conn : Cardinality(held[r]) <= MaxHeld
    BY <2>1, LimitAssumption DEF Init
  <2> QED
    BY <2>2, <2>3, <2>4 DEF CapsHold
<1> QED
  BY <1>1, <1>2, <1>3, <1>5, <1>6, <1>7 DEF Inv

\* Steps that change neither list, session nor teardown.
LEMMA QuietSteps ==
  ASSUME Inv,
         \/ \E r \in Conn : \/ Accept(r) \/ GiveUp(r) \/ WriteRegistered(r) \/ Keepalive(r)
                            \/ Die(r) \/ FallSilent(r) \/ FileKnock(r)
                            \/ \E k \in Key : Introduce(r, k)
                            \/ \E p \in Pairs : TakeKnock(r, p)
         \/ \E p \in Pairs : SweepKnock(p)
         \/ Sweep
         \/ UNCHANGED vars
  PROVE  Inv'
<1>0. UNCHANGED <<regs, held, sessions, nextId, down>>
  BY DEF Accept, GiveUp, WriteRegistered, Keepalive, Die, FallSilent, Introduce, FileKnock, TakeKnock,
         SweepKnock, Sweep, tables, vars
<1>1. /\ ListsSound' /\ HoldersSound' /\ FiniteLists' /\ SessionsHaveOwners' /\ NoSlotLeaks'
      /\ CapsHold' /\ Live' = Live /\ \A r : Listed(r)' = Listed(r)
  BY <1>0, TablesKept
<1> USE DEF Inv
<1>2. ASSUME NEW r \in Conn, Accept(r) \/ GiveUp(r)
      PROVE  TypeOK' /\ EarlyIsClean' /\ AnswersAreOwn' /\ TeardownsSound'
  <2>1. UNCHANGED <<alive, silent, knocks, answering, expired>>
    BY <1>2 DEF Accept, GiveUp, tables
  <2>2. /\ pc[r] \in {"new", "pending"}
        /\ pc' = [pc EXCEPT ![r] = "pending"] \/ pc' = [pc EXCEPT ![r] = "new"]
    BY <1>2 DEF Accept, GiveUp
  <2>3. TypeOK'
    BY <1>0, <2>1, <2>2 DEF TypeOK
  <2>4. EarlyIsClean' /\ AnswersAreOwn' /\ TeardownsSound'
    BY <1>0, <1>1, <2>1, <2>2 DEF EarlyIsClean, AnswersAreOwn, TeardownsSound, TypeOK
  <2> QED
    BY <2>3, <2>4
<1>3. ASSUME NEW r \in Conn, WriteRegistered(r)
      PROVE  TypeOK' /\ EarlyIsClean' /\ AnswersAreOwn' /\ TeardownsSound'
  <2>1. UNCHANGED <<alive, silent, knocks, answering, expired>>
    BY <1>3 DEF WriteRegistered, tables
  <2>2. /\ pc[r] = "listed"
        /\ pc' = [pc EXCEPT ![r] = "serving"] \/ pc' = [pc EXCEPT ![r] = "done"]
    BY <1>3 DEF WriteRegistered
  <2>3. TypeOK'
    BY <1>0, <2>1, <2>2 DEF TypeOK
  <2>4. EarlyIsClean' /\ AnswersAreOwn' /\ TeardownsSound'
    BY <1>0, <1>1, <2>1, <2>2 DEF EarlyIsClean, AnswersAreOwn, TeardownsSound, TypeOK
  <2> QED
    BY <2>3, <2>4
<1>4. ASSUME NEW r \in Conn, Keepalive(r) \/ Die(r) \/ FallSilent(r)
      PROVE  TypeOK' /\ EarlyIsClean' /\ AnswersAreOwn' /\ TeardownsSound'
  <2>1. UNCHANGED <<pc, knocks, answering, expired>>
    BY <1>4 DEF Keepalive, Die, FallSilent, tables
  <2>2. alive' \in [Conn -> BOOLEAN] /\ silent' \in [Conn -> BOOLEAN]
    BY <1>4 DEF Keepalive, Die, FallSilent, TypeOK
  <2>3. TypeOK'
    BY <1>0, <2>1, <2>2 DEF TypeOK
  <2>4. EarlyIsClean' /\ AnswersAreOwn' /\ TeardownsSound'
    BY <1>0, <1>1, <2>1 DEF EarlyIsClean, AnswersAreOwn, TeardownsSound
  <2> QED
    BY <2>3, <2>4
<1>5. ASSUME NEW r \in Conn, NEW k \in Key, Introduce(r, k)
      PROVE  TypeOK' /\ EarlyIsClean' /\ AnswersAreOwn' /\ TeardownsSound'
  <2>1. UNCHANGED <<alive, silent, knocks, expired>>
    BY <1>5 DEF Introduce
  <2> DEFINE m == [requester |-> KeyOf[r], target |-> k]
  <2>2. /\ m \in Knock /\ m.requester # m.target
        /\ pc[r] = "serving" /\ pc' = [pc EXCEPT ![r] = "introducing"]
        /\ answering' = [answering EXCEPT ![r] = m]
    BY <1>5, KeyOfAssumption DEF Introduce, Knock
  <2> HIDE DEF m
  <2>3. TypeOK'
    BY <1>0, <2>1, <2>2 DEF TypeOK
  <2>4. AnswersAreOwn'
    BY <2>1, <2>2 DEF AnswersAreOwn, TypeOK
  <2>5. EarlyIsClean' /\ TeardownsSound'
    BY <1>0, <1>1, <2>1, <2>2 DEF EarlyIsClean, TeardownsSound, TypeOK
  <2> QED
    BY <2>3, <2>4, <2>5
<1>10. ASSUME NEW r \in Conn, FileKnock(r)
       PROVE  TypeOK' /\ EarlyIsClean' /\ AnswersAreOwn' /\ TeardownsSound'
  <2> DEFINE k == answering[r]
             x == {k.requester, k.target}
  <2>1. UNCHANGED <<alive, silent, expired>>
    BY <1>10 DEF FileKnock
  <2>2. /\ k \in Knock /\ k.requester # k.target
        /\ pc[r] = "introducing" /\ pc' = [pc EXCEPT ![r] = "serving"]
        /\ answering' = [answering EXCEPT ![r] = None]
        /\ knocks' = [knocks EXCEPT ![x] = k]
    BY <1>10 DEF FileKnock, AnswersAreOwn
  <2>3. x = {k.requester, k.target}
    OBVIOUS
  <2> HIDE DEF k, x
  <2>4. knocks' \in [Pairs -> Knock \cup {None}]
    BY <2>2 DEF TypeOK
  <2>5. \A p \in Pairs : knocks'[p] # None =>
           p = {knocks'[p].requester, knocks'[p].target} /\ knocks'[p].requester # knocks'[p].target
    BY <2>2, <2>3 DEF TypeOK, AnswersAreOwn
  <2>6. TypeOK'
    BY <1>0, <2>1, <2>2, <2>4, <2>5 DEF TypeOK
  <2>7. AnswersAreOwn'
    BY <2>2, <2>5 DEF AnswersAreOwn, TypeOK
  <2>8. EarlyIsClean' /\ TeardownsSound'
    BY <1>0, <1>1, <2>1, <2>2 DEF EarlyIsClean, TeardownsSound, TypeOK
  <2> QED
    BY <2>6, <2>7, <2>8
<1>6. ASSUME NEW r \in Conn, NEW p \in Pairs, TakeKnock(r, p)
      PROVE  TypeOK' /\ EarlyIsClean' /\ AnswersAreOwn' /\ TeardownsSound'
  <2>1. UNCHANGED <<alive, silent, expired>>
    BY <1>6 DEF TakeKnock
  <2>2. /\ pc[r] = "serving" /\ pc' = [pc EXCEPT ![r] = "answering"]
        /\ knocks[p] # None /\ knocks[p].target = KeyOf[r]
        /\ knocks' = [knocks EXCEPT ![p] = None]
        /\ answering' = [answering EXCEPT ![r] = knocks[p]]
    BY <1>6 DEF TakeKnock
  <2>3. TypeOK'
    BY <1>0, <2>1, <2>2 DEF TypeOK
  <2>4. AnswersAreOwn'
    BY <2>2 DEF AnswersAreOwn, TypeOK
  <2>5. EarlyIsClean' /\ TeardownsSound'
    BY <1>0, <1>1, <2>1, <2>2 DEF EarlyIsClean, TeardownsSound, TypeOK
  <2> QED
    BY <2>3, <2>4, <2>5
<1>7. ASSUME NEW p \in Pairs, SweepKnock(p)
      PROVE  TypeOK' /\ EarlyIsClean' /\ AnswersAreOwn' /\ TeardownsSound'
  <2>1. UNCHANGED <<pc, alive, silent, answering, expired>> /\ knocks' = [knocks EXCEPT ![p] = None]
    BY <1>7 DEF SweepKnock
  <2>2. TypeOK' /\ AnswersAreOwn'
    BY <1>0, <2>1 DEF TypeOK, AnswersAreOwn
  <2>3. EarlyIsClean' /\ TeardownsSound'
    BY <1>0, <1>1, <2>1 DEF EarlyIsClean, TeardownsSound
  <2> QED
    BY <2>2, <2>3
<1>8. ASSUME Sweep
      PROVE  TypeOK' /\ EarlyIsClean' /\ AnswersAreOwn' /\ TeardownsSound'
  <2>1. UNCHANGED <<pc, alive, silent, knocks, answering>> /\ expired' = Expired
    BY <1>8 DEF Sweep, tables
  <2>2. expired' \subseteq Conn /\ \A r \in expired' : Listed(r)
    BY <2>1 DEF Expired
  <2>3. TypeOK' /\ AnswersAreOwn'
    BY <1>0, <2>1, <2>2 DEF TypeOK, AnswersAreOwn
  <2>4. EarlyIsClean' /\ TeardownsSound'
    BY <1>0, <1>1, <2>1, <2>2 DEF EarlyIsClean, TeardownsSound
  <2> QED
    BY <2>3, <2>4
<1>9. ASSUME UNCHANGED vars
      PROVE  TypeOK' /\ EarlyIsClean' /\ AnswersAreOwn' /\ TeardownsSound'
  <2>1. UNCHANGED <<pc, alive, silent, knocks, answering, expired>>
    BY <1>9 DEF vars
  <2> QED
    BY <1>0, <1>1, <2>1 DEF TypeOK, EarlyIsClean, AnswersAreOwn, TeardownsSound
<1> QED
  BY <1>1, <1>2, <1>3, <1>4, <1>5, <1>6, <1>7, <1>8, <1>9, <1>10

\* A new registration is the last of its key's list, and holds nothing yet.
LEMMA RegisterStep ==
  ASSUME Inv, NEW r \in Conn, Register(r)
  PROVE  Inv'
<1> DEFINE kr == KeyOf[r]
<1>0. /\ UNCHANGED <<alive, silent, held, knocks, answering, sessions, nextId, down, expired>>
      /\ pc[r] = "pending" /\ pc' = [pc EXCEPT ![r] = "listed"]
      /\ regs' = [regs EXCEPT ![kr] = Append(@, r)]
      /\ MayRegister(kr)
  BY DEF Register
<1>1. kr \in Key /\ regs \in [Key -> Seq(Conn)] /\ regs[kr] \in Seq(Conn)
      /\ pc \in [Conn -> {"new", "pending", "listed", "serving", "introducing", "answering", "leaving", "done"}]
  BY KeyOfAssumption DEF Inv, TypeOK
<1>2. ~Listed(r) /\ held[r] = {} /\ r \notin expired
  BY <1>0 DEF Inv, EarlyIsClean
<1>3. Live' = Live
  BY <1>0 DEF Live
<1>4. /\ \A k \in Key : k # kr => regs'[k] = regs[k]
      /\ regs'[kr] = Append(regs[kr], r)
      /\ Len(regs'[kr]) = Len(regs[kr]) + 1 /\ Len(regs[kr]) \in Nat
      /\ \A i \in 1..Len(regs[kr]) : regs'[kr][i] = regs[kr][i]
      /\ regs'[kr][Len(regs[kr]) + 1] = r
  BY <1>0, <1>1
<1>5. \A q \in Conn : Listed(q)' <=> Listed(q) \/ q = r
  <2> SUFFICES ASSUME NEW q \in Conn PROVE Listed(q)' <=> Listed(q) \/ q = r
    OBVIOUS
  <2>1. CASE KeyOf[q] # kr
    <3>1. regs'[KeyOf[q]] = regs[KeyOf[q]] /\ q # r
      BY <1>4, <2>1, KeyOfAssumption
    <3> QED
      BY <3>1 DEF Listed
  <2>2. CASE KeyOf[q] = kr
    <3>1. 1..Len(regs'[kr]) = 1..Len(regs[kr]) \cup {Len(regs[kr]) + 1}
      BY <1>4
    <3> QED
      BY <1>4, <2>2, <3>1 DEF Listed
  <2> QED
    BY <2>1, <2>2
<1>6. TypeOK'
  <2>1. regs' \in [Key -> Seq(Conn)]
    BY <1>0, <1>1
  <2>2. pc' \in [Conn -> {"new", "pending", "listed", "serving", "introducing", "answering", "leaving", "done"}]
    BY <1>0, <1>1
  <2> QED
    BY <1>0, <2>1, <2>2 DEF Inv, TypeOK
<1>7. ListsSound'
  <2> SUFFICES ASSUME NEW k \in Key, NEW i \in 1..Len(regs'[k]), NEW j \in 1..Len(regs'[k])
               PROVE  KeyOf[regs'[k][i]] = k /\ (regs'[k][j] = regs'[k][i] => i = j)
    BY DEF ListsSound
  <2>1. CASE k # kr
    BY <1>4, <2>1 DEF Inv, ListsSound
  <2>2. CASE k = kr
    <3>1. \A n \in 1..Len(regs[kr]) : regs[kr][n] # r
      BY <1>2 DEF Listed
    <3>2. i \in 1..Len(regs[kr]) \/ i = Len(regs[kr]) + 1
      BY <1>4, <2>2
    <3>3. j \in 1..Len(regs[kr]) \/ j = Len(regs[kr]) + 1
      BY <1>4, <2>2
    <3>4. \A m, n \in 1..Len(regs[kr]) :
            KeyOf[regs[kr][m]] = kr /\ (regs[kr][m] = regs[kr][n] => m = n)
      BY <1>1 DEF Inv, ListsSound
    <3>5. KeyOf[regs'[kr][i]] = kr
      BY <1>4, <3>2, <3>4
    <3>6. regs'[kr][j] = regs'[kr][i] => i = j
      BY <1>4, <3>1, <3>2, <3>3, <3>4
    <3> QED
      BY <2>2, <3>5, <3>6
  <2> QED
    BY <2>1, <2>2
<1>8. EarlyIsClean'
  BY <1>0, <1>1, <1>5 DEF Inv, EarlyIsClean
<1>9. AnswersAreOwn'
  BY <1>0, <1>1 DEF Inv, AnswersAreOwn
<1>10. TeardownsSound'
  <2>1. \A q \in Conn : pc'[q] # "leaving" => down'[q] = NoDown
    BY <1>0, <1>1 DEF Inv, TeardownsSound
  <2>2. ASSUME NEW t \in Task
        PROVE  /\ down[t].step # "none" => /\ down[t].reg \in Conn /\ down[t].reg # r
                                            /\ pc'[down[t].reg] \notin {"new", "pending"}
               /\ down[t].step \in {"close", "notify"} => ~Listed(down[t].reg)'
    BY <1>0, <1>1, <1>5 DEF Inv, TeardownsSound
  <2> QED
    BY <1>0, <1>3, <2>1, <2>2 DEF Inv, TeardownsSound
<1>11. HoldersSound'
  BY <1>0, <1>3 DEF Inv, HoldersSound
<1>12. FiniteLists' /\ CapsHold'
  <2> DEFINE some == { k \in Key : regs[k] # <<>> }
  <2>1. { k \in Key : regs'[k] # <<>> } = some \cup {kr}
    BY <1>1, <1>4
  <2>2. IsFiniteSet(some) /\ Cardinality(some) <= Capacity
    BY DEF Inv, FiniteLists, CapsHold
  <2>3. kr \notin some => Cardinality(some) < Capacity
    BY <1>0, <1>1 DEF MayRegister
  <2> HIDE DEF some
  <2>4. Cardinality(some) \in Nat /\ IsFiniteSet(some \cup {kr})
        /\ Cardinality(some \cup {kr}) = IF kr \in some THEN Cardinality(some) ELSE Cardinality(some) + 1
    BY <2>2, FS_AddElement, FS_CardinalityType
  <2>5. Cardinality(some \cup {kr}) <= Capacity
    BY <2>2, <2>3, <2>4, LimitAssumption
  <2>6. FiniteLists'
    BY <2>1, <2>4 DEF FiniteLists
  <2>7. Cardinality({ k \in Key : regs'[k] # <<>> }) <= Capacity
    BY <2>1, <2>5
  <2>8. \A k \in Key : Len(regs'[k]) <= MaxPerKey
    BY <1>0, <1>4, LimitAssumption DEF Inv, CapsHold, MayRegister
  <2>9. \A q \in Conn : Cardinality(held'[q]) <= MaxHeld
    BY <1>0 DEF Inv, CapsHold
  <2> QED
    BY <2>6, <2>7, <2>8, <2>9 DEF CapsHold
<1>13. SessionsHaveOwners'
  <2>1. \A q : Closing(q)' = Closing(q)
    BY <1>0 DEF Closing
  <2> QED
    BY <1>0, <1>3, <1>5, <2>1 DEF Inv, SessionsHaveOwners
<1>14. NoSlotLeaks'
  BY <1>0, <1>2, <1>3, <1>5 DEF Inv, NoSlotLeaks
<1> QED
  BY <1>6, <1>7, <1>8, <1>9, <1>10, <1>11, <1>12, <1>13, <1>14 DEF Inv

\* An accepted answer gives its session to the latest registration of each key.
LEMMA DecideStep ==
  ASSUME Inv, NEW r \in Conn, Decide(r)
  PROVE  Inv'
<1> DEFINE k == answering[r]
           x == Last(k.requester)
           y == Last(k.target)
           s == [a |-> k.requester, b |-> k.target]
<1>0. /\ UNCHANGED <<alive, silent, regs, knocks, down, expired>>
      /\ pc[r] = "answering" /\ pc' = [pc EXCEPT ![r] = "serving"]
      /\ answering' = [answering EXCEPT ![r] = None]
  BY DEF Decide
<1>1. /\ k \in Knock /\ k.requester # k.target
      /\ k.requester \in Key /\ k.target \in Key /\ s \in [a : Key, b : Key] /\ s # None
  BY <1>0, NoneAssumption DEF Inv, AnswersAreOwn, Knock
<1>2. pc \in [Conn -> {"new", "pending", "listed", "serving", "introducing", "answering", "leaving", "done"}]
      /\ answering \in [Conn -> Knock \cup {None}]
      /\ held \in [Conn -> SUBSET Session]
      /\ sessions \in [Session -> [a : Key, b : Key] \cup {None}]
      /\ nextId \in Nat
  BY DEF Inv, TypeOK
<1>3. /\ pc' \in [Conn -> {"new", "pending", "listed", "serving", "introducing", "answering", "leaving", "done"}]
      /\ answering' \in [Conn -> Knock \cup {None}]
  BY <1>0, <1>2
<1>4. \A q : Listed(q)' = Listed(q) /\ Closing(q)' = Closing(q)
  BY <1>0 DEF Listed, Closing
<1>5. ListsSound' /\ FiniteLists'
  BY <1>0 DEF Inv, ListsSound, FiniteLists
<1>6. AnswersAreOwn'
  BY <1>0, <1>2 DEF Inv, AnswersAreOwn
<1>7. /\ \A q \in Conn : pc'[q] \in {"new", "pending"} => pc[q] \in {"new", "pending"}
      /\ \A q \in Conn : pc'[q] = "leaving" <=> pc[q] = "leaving"
  BY <1>0, <1>2
<1>8. CASE UNCHANGED <<sessions, held, nextId>>
  <2>1. Live' = Live
    BY <1>8 DEF Live
  <2>2. TypeOK'
    BY <1>0, <1>3, <1>8 DEF Inv, TypeOK
  <2>3. EarlyIsClean' /\ TeardownsSound'
    BY <1>0, <1>4, <1>7, <1>8, <2>1 DEF Inv, EarlyIsClean, TeardownsSound
  <2>4. HoldersSound' /\ SessionsHaveOwners' /\ NoSlotLeaks' /\ CapsHold'
    BY <1>0, <1>8, TablesKept
  <2> QED
    BY <1>5, <1>6, <2>2, <2>3, <2>4 DEF Inv
<1>9. CASE /\ regs[k.requester] # <<>> /\ regs[k.target] # <<>>
           /\ Room(x, y) /\ nextId <= MaxSession
           /\ sessions' = [sessions EXCEPT ![nextId] = s]
           /\ held' = [q \in Conn |-> IF q \in Holders(r, x, y) THEN held[q] \cup {nextId} ELSE held[q]]
           /\ nextId' = nextId + 1
  <2>1. /\ x \in Conn /\ KeyOf[x] = k.requester /\ Listed(x)
        /\ y \in Conn /\ KeyOf[y] = k.target /\ Listed(y)
    <3>1. ASSUME NEW h \in Key, regs[h] # <<>>
          PROVE  Last(h) \in Conn /\ KeyOf[Last(h)] = h /\ Listed(Last(h))
      <4>1. regs[h] \in Seq(Conn) /\ Len(regs[h]) \in 1..Len(regs[h])
        BY <3>1 DEF Inv, TypeOK
      <4>2. Last(h) = regs[h][Len(regs[h])] /\ Last(h) \in Conn /\ KeyOf[Last(h)] = h
        BY <4>1 DEF Last, Inv, ListsSound
      <4> QED
        BY <4>1, <4>2 DEF Listed
    <3> QED
      BY <1>1, <1>9, <3>1
  <2>2. nextId \in Session /\ nextId \notin Live
    BY <1>2, <1>9 DEF Session, Inv, TypeOK, HoldersSound
  <2>3. /\ held'[x] = held[x] \cup {nextId} /\ held'[y] = held[y] \cup {nextId}
        /\ \A q \in Conn : q \notin {x, y} => held'[q] = held[q]
        /\ \A q \in Conn : held[q] \subseteq held'[q] /\ held'[q] \subseteq held[q] \cup {nextId}
    BY <1>9, <2>1 DEF Holders
  <2>4. /\ sessions'[nextId] = s
        /\ \A id \in Session : id # nextId => sessions'[id] = sessions[id]
        /\ sessions' \in [Session -> [a : Key, b : Key] \cup {None}]
    BY <1>1, <1>2, <1>9, <2>2
  <2>5. Live' = Live \cup {nextId}
    BY <1>1, <2>2, <2>4 DEF Live
  <2>6. \A q \in Conn : nextId \notin held[q]
    BY <1>2 DEF Inv, HoldersSound
  <2>7. TypeOK'
    <3>1. held' \in [Conn -> SUBSET Session]
      BY <1>2, <1>9, <2>2
    <3>2. nextId' \in 1..MaxSession+1
      BY <1>9, <2>2, LimitAssumption DEF Session
    <3> QED
      BY <1>0, <1>3, <2>4, <3>1, <3>2 DEF Inv, TypeOK
  <2>8. EarlyIsClean'
    BY <1>0, <1>4, <1>7, <2>1, <2>3 DEF Inv, EarlyIsClean
  <2>9. TeardownsSound'
    <3>1. \A q \in Conn : pc'[q] # "leaving" => down'[q] = NoDown
      BY <1>0, <1>7 DEF Inv, TeardownsSound
    <3>2. ASSUME NEW t \in Task, down[t].step = "notify"
          PROVE  held'[down[t].reg] \cap Live' = {}
      <4>1. down[t].reg \in Conn /\ ~Listed(down[t].reg) /\ held[down[t].reg] \cap Live = {}
        BY <3>2 DEF Inv, TeardownsSound
      <4> QED
        BY <2>1, <2>3, <2>5, <2>6, <4>1
    <3>3. ASSUME NEW t \in Task, NEW h \in Key, NEW id \in Session, <<h, id>> \in down[t].orphans
          PROVE  id \notin Live' /\ id < nextId'
      <4>1. id \notin Live /\ id < nextId
        BY <3>3 DEF Inv, TeardownsSound
      <4>2. id \in Nat
        BY DEF Session
      <4> QED
        BY <1>2, <1>9, <2>5, <4>1, <4>2
    <3> QED
      BY <1>0, <1>4, <1>7, <3>1, <3>2, <3>3 DEF Inv, TeardownsSound
  <2>10. HoldersSound'
    <3>1. \A id \in Live' : id < nextId' /\ sessions'[id].a # sessions'[id].b
      <4>1. nextId < nextId' /\ sessions'[nextId].a # sessions'[nextId].b
        BY <1>1, <1>2, <1>9, <2>4
      <4>2. \A id \in Live : id \in Session /\ id \in Nat /\ id < nextId /\ sessions[id].a # sessions[id].b
        BY DEF Live, Session, Inv, HoldersSound
      <4> QED
        BY <1>2, <1>9, <2>2, <2>4, <2>5, <4>1, <4>2
    <3>2. ASSUME NEW q \in Conn, NEW id \in held'[q]
          PROVE  /\ id < nextId'
                 /\ id \in Live' => KeyOf[q] \in {sessions'[id].a, sessions'[id].b}
                 /\ \A p \in Conn : id \in held'[p] /\ KeyOf[p] = KeyOf[q] => p = q
      <4>1. CASE id = nextId
        <5>1. \A p \in Conn : id \in held'[p] => p \in {x, y}
          BY <2>3, <2>6, <4>1
        <5> QED
          BY <1>1, <1>2, <1>9, <2>1, <2>4, <3>2, <4>1, <5>1
      <4>2. CASE id # nextId
        <5>1. id \in held[q] /\ id \in Session /\ id \in Nat
          BY <1>2, <2>3, <4>2 DEF Session
        <5>2. \A p \in Conn : id \in held'[p] => id \in held[p]
          BY <2>3, <4>2
        <5>3. id < nextId /\ (id \in Live => KeyOf[q] \in {sessions[id].a, sessions[id].b})
          BY <5>1 DEF Inv, HoldersSound
        <5>4. id \in Live' => id \in Live
          BY <2>5, <4>2
        <5>5. \A p \in Conn : id \in held[p] /\ KeyOf[p] = KeyOf[q] => p = q
          BY <5>1 DEF Inv, HoldersSound
        <5> QED
          BY <1>2, <1>9, <2>4, <4>2, <5>1, <5>2, <5>3, <5>4, <5>5
      <4> QED
        BY <4>1, <4>2
    <3> QED
      BY <3>1, <3>2 DEF HoldersSound
  <2>11. SessionsHaveOwners'
    <3> SUFFICES ASSUME NEW id \in Live', NEW h \in {sessions'[id].a, sessions'[id].b}
                 PROVE  \E q \in Conn : KeyOf[q] = h /\ id \in held'[q] /\ (Listed(q) \/ Closing(q))
      BY <1>4 DEF SessionsHaveOwners
    <3>1. CASE id = nextId
      <4>1. h = k.requester \/ h = k.target
        BY <2>4, <3>1
      <4> QED
        BY <2>1, <2>3, <3>1, <4>1
    <3>2. CASE id # nextId
      <4>1. id \in Live /\ h \in {sessions[id].a, sessions[id].b}
        BY <2>4, <2>5, <3>2 DEF Live
      <4> QED
        BY <2>3, <4>1 DEF Inv, SessionsHaveOwners
    <3> QED
      BY <3>1, <3>2
  <2>12. NoSlotLeaks'
    BY <1>0, <1>4, <2>3, <2>5 DEF Inv, NoSlotLeaks
  <2>13. CapsHold'
    <3>1. ASSUME NEW q \in Conn
          PROVE  Cardinality(held'[q]) <= MaxHeld
      <4>1. held[q] \in SUBSET Session /\ Cardinality(held[q]) <= MaxHeld
        BY <1>2 DEF Inv, CapsHold
      <4>2. IsFiniteSet(held[q]) /\ Cardinality(held[q]) \in Nat
        BY <4>1, HeldFinite
      <4>3. Cardinality(held[q] \cup {nextId}) = Cardinality(held[q]) + 1
        BY <2>6, <4>2, FS_AddElement
      <4>4. q \in {x, y} => Cardinality(held[q]) < MaxHeld
        BY <1>9 DEF Room
      <4>5. CASE q \in {x, y}
        <5>1. held'[q] = held[q] \cup {nextId}
          BY <2>3, <4>5
        <5> QED
          BY <4>2, <4>3, <4>4, <4>5, <5>1, LimitAssumption
      <4>6. CASE q \notin {x, y}
        BY <2>3, <4>1, <4>6
      <4> QED
        BY <4>5, <4>6
    <3> QED
      BY <1>0, <3>1 DEF Inv, CapsHold
  <2> QED
    BY <1>5, <1>6, <2>7, <2>8, <2>9, <2>10, <2>11, <2>12, <2>13 DEF Inv
<1> QED
  BY <1>8, <1>9 DEF Decide

\* A teardown starts: the connection's own, or the sweep's.
LEMMA StartTeardown ==
  ASSUME Inv, NEW r \in Conn, Leave(r) \/ SweepNext(r)
  PROVE  Inv'
<1> DEFINE start == [reg |-> r, step |-> "unlist", orphans |-> {}]
<1>0. UNCHANGED <<regs, held, knocks, answering, sessions, nextId, silent>>
  BY DEF Leave, SweepNext, tables
<1>1. Live' = Live /\ \A q : Listed(q)' = Listed(q)
  BY <1>0 DEF Live, Listed
<1>2. PICK t \in Task : /\ down[t] = NoDown /\ down' = [down EXCEPT ![t] = start]
                         /\ \A q \in Conn : t = q => pc'[q] = "leaving"
  <2>1. CASE Leave(r)
    BY <2>1 DEF Leave, Task, Inv, TeardownsSound, TypeOK
  <2>2. CASE SweepNext(r)
    BY <2>2, SweeperAssumption DEF SweepNext, Task
  <2> QED
    BY <2>1, <2>2
<1>3. /\ pc[r] \notin {"new", "pending"}
      /\ \A q \in Conn : pc'[q] \in {"new", "pending"} => pc[q] \in {"new", "pending"}
      /\ \A q \in Conn : pc'[q] # "leaving" => pc[q] # "leaving"
      /\ \A q \in Conn : pc'[q] \in {"introducing", "answering"} => pc'[q] = pc[q]
      /\ pc' \in [Conn -> {"new", "pending", "listed", "serving", "introducing", "answering", "leaving", "done"}]
      /\ alive' \in [Conn -> BOOLEAN]
      /\ expired' \subseteq expired
  BY DEF Leave, SweepNext, Inv, TypeOK, EarlyIsClean
<1>4. /\ DOMAIN down = Task /\ DOMAIN down' = Task
      /\ down'[t] = start /\ \A u \in Task : u # t => down'[u] = down[u]
      /\ \A u \in Task : down'[u].orphans = down[u].orphans
      /\ \A u \in Task : down'[u].step \in {"close", "notify"} => down'[u] = down[u]
  <2>1. DOMAIN down = Task
    BY DEF Inv, TypeOK, Task
  <2>2. /\ DOMAIN down' = Task /\ down'[t] = start
        /\ \A u \in Task : u # t => down'[u] = down[u]
    BY <1>2, <2>1
  <2> QED
    BY <1>2, <2>1, <2>2 DEF NoDown
<1>5. TypeOK'
  <2>1. start \in [reg : Conn \cup {None}, step : {"none", "unlist", "close", "notify"},
                   orphans : SUBSET (Key \X Session)]
    OBVIOUS
  <2>2. down' \in [Conn \cup {Sweeper} ->
                 [reg : Conn \cup {None}, step : {"none", "unlist", "close", "notify"},
                  orphans : SUBSET (Key \X Session)]]
    BY <1>2, <2>1 DEF Inv, TypeOK, Task
  <2> QED
    BY <1>0, <1>3, <2>2 DEF Inv, TypeOK
<1>6. ListsSound' /\ EarlyIsClean' /\ AnswersAreOwn' /\ HoldersSound' /\ FiniteLists' /\ CapsHold'
  BY <1>0, <1>1, <1>3 DEF Inv, ListsSound, EarlyIsClean, AnswersAreOwn, HoldersSound, FiniteLists,
     CapsHold
<1>7. TeardownsSound'
  <2>1. \A q \in Conn : pc'[q] # "leaving" => down'[q] = NoDown
    <3> SUFFICES ASSUME NEW q \in Conn, pc'[q] # "leaving" PROVE down'[q] = NoDown
      OBVIOUS
    <3>1. q # t /\ q \in Task /\ pc[q] # "leaving"
      BY <1>2, <1>3 DEF Task
    <3> QED
      BY <1>4, <3>1 DEF Inv, TeardownsSound
  <2>2. ASSUME NEW u \in Task
        PROVE  /\ down'[u].step # "none" => /\ down'[u].reg \in Conn
                                             /\ pc'[down'[u].reg] \notin {"new", "pending"}
               /\ down'[u].step # "notify" => down'[u].orphans = {}
    BY <1>3, <1>4 DEF Inv, TeardownsSound
  <2> QED
    BY <1>0, <1>1, <1>4, <2>1, <2>2 DEF Inv, TeardownsSound
<1>8. SessionsHaveOwners'
  <2>1. \A q \in Conn : Closing(q) => Closing(q)'
    BY <1>2, <1>4 DEF Closing, NoDown
  <2> QED
    BY <1>0, <1>1, <2>1 DEF Inv, SessionsHaveOwners
<1>9. NoSlotLeaks'
  BY <1>0, <1>1, <1>4 DEF Inv, NoSlotLeaks
<1> QED
  BY <1>5, <1>6, <1>7, <1>8, <1>9 DEF Inv

\* A registration leaves its key's list; its own teardown is about to end what it holds.
LEMMA UnlistStep ==
  ASSUME Inv, NEW t \in Task, Unlist(t)
  PROVE  Inv'
<1>a. PICK r \in Conn, kr \in Key : r = down[t].reg /\ kr = KeyOf[r]
  <2>1. down[t].step = "unlist"
    BY DEF Unlist
  <2>2. down[t].reg \in Conn
    BY <2>1 DEF Inv, TeardownsSound
  <2>3. KeyOf[down[t].reg] \in Key
    BY <2>2, KeyOfAssumption
  <2> QED
    BY <2>2, <2>3
<1>0. PICK w :
        /\ UNCHANGED <<pc, alive, held, knocks, answering, sessions, nextId, expired>>
        /\ r = down[t].reg /\ kr = KeyOf[r] /\ w = Without(regs[kr], r)
        /\ down[t].step = "unlist" /\ down[t].orphans = {}
        /\ down' = [down EXCEPT ![t].step = "close"]
        /\ regs' = [regs EXCEPT ![kr] = w]
        /\ silent' = [silent EXCEPT ![r] = FALSE]
  <2>1. down[t].step = "unlist"
    BY DEF Unlist
  <2>2. down[t].orphans = {}
    BY <2>1 DEF Inv, TeardownsSound
  <2> QED
    BY <1>a, <2>2 DEF Unlist
<1>1. regs \in [Key -> Seq(Conn)]
  BY DEF Inv, TypeOK
<1>2. PICK s \in Seq(Conn) : s = regs[kr]
  BY <1>1
<1>3. /\ w \in Seq(Conn)
      /\ Len(w) <= Len(s)
      /\ \A i \in 1..Len(w) : w[i] # r /\ \E j \in 1..Len(s) : w[i] = s[j]
      /\ \A i, j \in 1..Len(w) : w[i] = w[j] => i = j
      /\ \A j \in 1..Len(s) : s[j] # r => \E i \in 1..Len(w) : w[i] = s[j]
      /\ s = <<>> => w = <<>>
  <2>1. Distinct(s)
    BY <1>2 DEF Inv, ListsSound, Distinct
  <2>2. w = Without(s, r)
    BY <1>0, <1>2
  <2>3. IsLess(w, s, r)
    BY <2>1, <2>2, WithoutFacts
  <2> QED
    BY <2>3 DEF IsLess
<1>4. regs'[kr] = w /\ \A k \in Key : k # kr => regs'[k] = regs[k]
  BY <1>0, <1>1
<1>5. \A q \in Conn : Listed(q)' <=> Listed(q) /\ q # r
  <2> SUFFICES ASSUME NEW q \in Conn PROVE Listed(q)' <=> Listed(q) /\ q # r
    OBVIOUS
  <2>1. CASE KeyOf[q] = kr
    <3>1. Listed(q) <=> \E i \in 1..Len(s) : s[i] = q
      BY <1>2, <2>1 DEF Listed
    <3>2. Listed(q)' <=> \E i \in 1..Len(w) : w[i] = q
      BY <1>4, <2>1 DEF Listed
    <3> QED
      BY <1>3, <3>1, <3>2, SMTT(30)
  <2>2. CASE KeyOf[q] # kr
    BY <1>0, <1>4, <2>2, KeyOfAssumption DEF Listed
  <2> QED
    BY <2>1, <2>2
<1>6. Live' = Live
  BY <1>0 DEF Live
<1>7. /\ DOMAIN down = Task /\ DOMAIN down' = Task
      /\ down'[t].step = "close" /\ down'[t].reg = r /\ down'[t].orphans = {}
      /\ \A u \in Task : u # t => down'[u] = down[u]
      /\ \A u \in Task : down'[u].orphans = down[u].orphans /\ down'[u].reg = down[u].reg
  BY <1>0, <1>1 DEF Inv, TypeOK, Task
<1>8. TypeOK'
  <2>1. regs' \in [Key -> Seq(Conn)]
    BY <1>0, <1>1, <1>3
  <2>2. silent' \in [Conn -> BOOLEAN]
    BY <1>0, <1>1 DEF Inv, TypeOK
  <2>3. down' \in [Conn \cup {Sweeper} ->
                 [reg : Conn \cup {None}, step : {"none", "unlist", "close", "notify"},
                  orphans : SUBSET (Key \X Session)]]
    BY <1>0, DownUpdate DEF Inv, Task
  <2> QED
    BY <1>0, <2>1, <2>2, <2>3 DEF Inv, TypeOK
<1>9. ListsSound'
  <2> SUFFICES ASSUME NEW k \in Key, NEW i \in 1..Len(regs'[k]), NEW j \in 1..Len(regs'[k])
               PROVE  KeyOf[regs'[k][i]] = k /\ (regs'[k][j] = regs'[k][i] => i = j)
    BY DEF ListsSound
  <2>1. CASE k # kr
    BY <1>4, <2>1 DEF Inv, ListsSound
  <2>2. CASE k = kr
    <3>1. \A m \in 1..Len(s) : KeyOf[s[m]] = kr
      BY <1>2 DEF Inv, ListsSound
    <3>2. PICK m \in 1..Len(s) : w[i] = s[m]
      BY <1>3, <1>4, <2>2
    <3>3. w[j] = w[i] => i = j
      BY <1>3, <1>4, <2>2
    <3> QED
      BY <1>4, <2>2, <3>1, <3>2, <3>3
  <2> QED
    BY <2>1, <2>2
<1>10. EarlyIsClean' /\ AnswersAreOwn' /\ HoldersSound'
  BY <1>0, <1>5, <1>6 DEF Inv, EarlyIsClean, AnswersAreOwn, HoldersSound
<1>11. TeardownsSound'
  <2>1. \A q \in Conn : pc'[q] # "leaving" => down'[q] = NoDown
    <3> SUFFICES ASSUME NEW q \in Conn, pc'[q] # "leaving" PROVE down'[q] = NoDown
      OBVIOUS
    <3>1. down[q] = NoDown /\ q \in Task
      BY <1>0 DEF Inv, TeardownsSound, Task
    <3>2. q # t
      BY <1>0, <3>1 DEF NoDown
    <3> QED
      BY <1>7, <3>1, <3>2
  <2>2. ASSUME NEW u \in Task
        PROVE  /\ down'[u].step # "none" => /\ down'[u].reg \in Conn
                                             /\ pc'[down'[u].reg] \notin {"new", "pending"}
               /\ down'[u].step # "notify" => down'[u].orphans = {}
               /\ down'[u].step \in {"close", "notify"} => ~Listed(down[u].reg)'
               /\ down'[u].step = "notify" => held'[down'[u].reg] \cap Live' = {}
    <3>1. CASE u = t
      BY <1>0, <1>1, <1>5, <1>7, <3>1 DEF Inv, TeardownsSound
    <3>2. CASE u # t
      <4>1. down'[u] = down[u]
        BY <1>7, <3>2
      <4> QED
        BY <1>0, <1>5, <1>6, <4>1 DEF Inv, TeardownsSound
    <3> QED
      BY <3>1, <3>2
  <2> QED
    BY <1>0, <1>6, <1>7, <2>1, <2>2 DEF Inv, TeardownsSound
<1>12. FiniteLists' /\ CapsHold'
  <2> DEFINE some == { k \in Key : regs[k] # <<>> }
             some2 == { k \in Key : regs'[k] # <<>> }
  <2>1. some2 \subseteq some
    BY <1>2, <1>3, <1>4
  <2>2. IsFiniteSet(some) /\ Cardinality(some) <= Capacity
    BY DEF Inv, FiniteLists, CapsHold
  <2>3. FiniteLists' <=> IsFiniteSet(some2)
    BY DEF FiniteLists
  <2>4. Cardinality({ k \in Key : regs'[k] # <<>> }) = Cardinality(some2)
    OBVIOUS
  <2> HIDE DEF some, some2
  <2>5. /\ Cardinality(some) \in Nat /\ IsFiniteSet(some2) /\ Cardinality(some2) \in Nat
        /\ Cardinality(some2) <= Cardinality(some)
    BY <2>1, <2>2, FS_Subset, FS_CardinalityType
  <2>6. Cardinality(some2) <= Capacity
    BY <2>2, <2>5, LimitAssumption
  <2>7. \A k \in Key : Len(regs'[k]) <= MaxPerKey
    <3>1. Len(s) <= MaxPerKey /\ Len(s) \in Nat /\ Len(w) \in Nat
      BY <1>2, <1>3 DEF Inv, CapsHold
    <3>2. Len(w) <= MaxPerKey
      BY <1>3, <3>1, LimitAssumption
    <3> QED
      BY <1>4, <3>2 DEF Inv, CapsHold
  <2>8. \A q \in Conn : Cardinality(held'[q]) <= MaxHeld
    BY <1>0 DEF Inv, CapsHold
  <2> QED
    BY <2>3, <2>4, <2>5, <2>6, <2>7, <2>8 DEF CapsHold
<1>13. SessionsHaveOwners'
  <2>1. \A q \in Conn : Closing(q) => Closing(q)'
    BY <1>0, <1>7 DEF Closing
  <2>2. Closing(r)'
    BY <1>7 DEF Closing
  <2> QED
    BY <1>0, <1>5, <1>6, <2>1, <2>2 DEF Inv, SessionsHaveOwners
<1>14. NoSlotLeaks'
  BY <1>0, <1>5, <1>6, <1>7 DEF Inv, NoSlotLeaks
<1> QED
  BY <1>8, <1>9, <1>10, <1>11, <1>12, <1>13, <1>14 DEF Inv

\* The sessions of an unlisted registration end; the other side of each is an orphan
\* until the last step.
LEMMA CloseStep ==
  ASSUME Inv, NEW t \in Task, CloseSessions(t)
  PROVE  Inv'
<1> DEFINE r == down[t].reg
           ids == held[r] \cap Live
           gone == { <<Other(sessions[id], KeyOf[r]), id>> : id \in ids }
<1>0. /\ UNCHANGED <<pc, alive, silent, regs, held, knocks, answering, nextId, expired>>
      /\ down[t].step = "close"
      /\ down' = [down EXCEPT ![t].step = "notify", ![t].orphans = gone]
      /\ sessions' = [id \in Session |-> IF id \in ids THEN None ELSE sessions[id]]
  BY DEF CloseSessions
<1>1. r \in Conn /\ KeyOf[r] \in Key /\ ~Listed(r) /\ down[t].orphans = {}
  BY <1>0, KeyOfAssumption DEF Inv, TypeOK, TeardownsSound
<1>2. \A id \in Live : id \in Session /\ sessions[id] \in [a : Key, b : Key]
  BY DEF Live, Inv, TypeOK
<1>3. Live' = Live \ ids
  BY <1>0 DEF Live
<1>4. \A id \in Live' : sessions'[id] = sessions[id]
  BY <1>0, <1>3 DEF Live
<1>5. \A q : Listed(q)' = Listed(q)
  BY <1>0 DEF Listed
<1>6. gone \subseteq Key \X Session /\ \A h, id : <<h, id>> \in gone => id \in ids
  BY <1>2 DEF Other
<1> HIDE DEF gone
<1>7. /\ DOMAIN down = Task /\ DOMAIN down' = Task
      /\ down'[t].step = "notify" /\ down'[t].reg = r /\ down'[t].orphans = gone
      /\ \A u \in Task : u # t => down'[u] = down[u]
  BY <1>0 DEF Inv, TypeOK, Task
<1>8. TypeOK'
  <2>1. sessions' \in [Session -> [a : Key, b : Key] \cup {None}]
    BY <1>0 DEF Inv, TypeOK
  <2>2. down' \in [Conn \cup {Sweeper} ->
                 [reg : Conn \cup {None}, step : {"none", "unlist", "close", "notify"},
                  orphans : SUBSET (Key \X Session)]]
    BY <1>0, <1>6, DownUpdate DEF Inv, Task
  <2> QED
    BY <1>0, <2>1, <2>2 DEF Inv, TypeOK
<1>9. ListsSound' /\ EarlyIsClean' /\ AnswersAreOwn' /\ FiniteLists' /\ CapsHold'
  BY <1>0, <1>5 DEF Inv, ListsSound, EarlyIsClean, AnswersAreOwn, FiniteLists, CapsHold
<1>10. TeardownsSound'
  <2>1. \A q \in Conn : pc'[q] # "leaving" => down'[q] = NoDown
    <3> SUFFICES ASSUME NEW q \in Conn, pc'[q] # "leaving" PROVE down'[q] = NoDown
      OBVIOUS
    <3>1. down[q] = NoDown /\ q \in Task
      BY <1>0 DEF Inv, TeardownsSound, Task
    <3>2. q # t
      BY <1>0, <3>1 DEF NoDown
    <3> QED
      BY <1>7, <3>1, <3>2
  <2>2. ASSUME NEW u \in Task
        PROVE  /\ down'[u].step # "none" => /\ down'[u].reg \in Conn
                                             /\ pc'[down'[u].reg] \notin {"new", "pending"}
               /\ down'[u].step # "notify" => down'[u].orphans = {}
               /\ down'[u].step \in {"close", "notify"} => ~Listed(down[u].reg)'
               /\ down'[u].step = "notify" => held'[down'[u].reg] \cap Live' = {}
               /\ \A k \in Key, id \in Session :
                    <<k, id>> \in down'[u].orphans => id \notin Live' /\ id < nextId'
    <3>1. CASE u = t
      <4>1. \A id \in ids : id < nextId
        BY DEF Inv, HoldersSound
      <4>2. held'[r] \cap Live' = {}
        BY <1>0, <1>3
      <4>3. pc[r] \notin {"new", "pending"}
        BY <1>0 DEF Inv, TeardownsSound
      <4> QED
        BY <1>0, <1>1, <1>3, <1>5, <1>6, <1>7, <3>1, <4>1, <4>2, <4>3
    <3>2. CASE u # t
      <4>1. down'[u] = down[u]
        BY <1>7, <3>2
      <4> QED
        BY <1>0, <1>3, <1>5, <4>1 DEF Inv, TeardownsSound
    <3> QED
      BY <3>1, <3>2
  <2> QED
    BY <2>1, <2>2 DEF TeardownsSound
<1>11. HoldersSound'
  BY <1>0, <1>3, <1>4 DEF Inv, HoldersSound
<1>12. SessionsHaveOwners'
  <2> SUFFICES ASSUME NEW id \in Live', NEW k \in {sessions'[id].a, sessions'[id].b}
               PROVE  \E q \in Conn : KeyOf[q] = k /\ id \in held'[q] /\ (Listed(q)' \/ Closing(q)')
    BY DEF SessionsHaveOwners
  <2>1. PICK q \in Conn : KeyOf[q] = k /\ id \in held[q] /\ (Listed(q) \/ Closing(q))
    BY <1>3, <1>4 DEF Inv, SessionsHaveOwners
  <2>2. q # r
    BY <1>3, <2>1
  <2>3. Closing(q) => Closing(q)'
    BY <1>7, <2>2 DEF Closing
  <2> QED
    BY <1>0, <1>5, <2>1, <2>3
<1>13. NoSlotLeaks'
  <2> SUFFICES ASSUME NEW q \in Conn, Listed(q), NEW id \in held[q], id \notin Live'
               PROVE  \E u \in Task : <<KeyOf[q], id>> \in down'[u].orphans
    BY <1>0, <1>5, <1>7 DEF NoSlotLeaks
  <2>1. CASE id \in ids
    <3>1. q # r
      BY <1>1
    <3>2. KeyOf[q] # KeyOf[r]
      BY <1>1, <2>1, <3>1 DEF Inv, HoldersSound
    <3>3. KeyOf[q] \in {sessions[id].a, sessions[id].b} /\ KeyOf[r] \in {sessions[id].a, sessions[id].b}
      BY <1>1, <2>1 DEF Inv, HoldersSound
    <3>4. KeyOf[q] = Other(sessions[id], KeyOf[r])
      BY <3>2, <3>3 DEF Other
    <3>5. <<KeyOf[q], id>> \in gone
      BY <2>1, <3>4 DEF gone
    <3> QED
      BY <1>7, <3>5
  <2>2. CASE id \notin ids
    <3>1. id \notin Live
      BY <1>3, <2>2
    <3>2. PICK u \in Task : <<KeyOf[q], id>> \in down[u].orphans
      BY <1>7, <3>1 DEF Inv, NoSlotLeaks
    <3>3. u # t
      BY <1>1, <3>2
    <3> QED
      BY <1>7, <3>2, <3>3
  <2> QED
    BY <2>1, <2>2
<1> QED
  BY <1>8, <1>9, <1>10, <1>11, <1>12, <1>13 DEF Inv

\* The other sides let go of what ended.
LEMMA ReleaseStep ==
  ASSUME Inv, NEW t \in Task, ReleaseOthers(t)
  PROVE  Inv'
<1> DEFINE r == down[t].reg
           O == down[t].orphans
<1>0. /\ UNCHANGED <<alive, silent, regs, knocks, answering, sessions, nextId, expired>>
      /\ down[t].step = "notify"
      /\ down' = [down EXCEPT ![t] = NoDown]
      /\ held' = [DropOrphans(O) EXCEPT ![r] = {}]
      /\ pc' = IF t = Sweeper THEN pc ELSE [pc EXCEPT ![t] = "done"]
  BY DEF ReleaseOthers
<1>1. /\ r \in Conn /\ ~Listed(r) /\ held[r] \cap Live = {}
      /\ \A k \in Key, id \in Session : <<k, id>> \in O => id \notin Live
  BY <1>0 DEF Inv, TeardownsSound
<1>2. /\ held'[r] = {} /\ DOMAIN held' = Conn
      /\ \A q \in Conn : q # r => held'[q] = IF Listed(q)
                                            THEN { id \in held[q] : <<KeyOf[q], id>> \notin O }
                                            ELSE held[q]
  BY <1>0, <1>1 DEF DropOrphans
<1>3. \A q \in Conn : held'[q] \subseteq held[q] /\ held[q] \subseteq Session
  BY <1>1, <1>2 DEF Inv, TypeOK
<1>4. Live' = Live /\ \A q : Listed(q)' = Listed(q)
  BY <1>0 DEF Live, Listed
<1>5. /\ DOMAIN down = Task /\ DOMAIN down' = Task /\ down'[t] = NoDown
      /\ \A u \in Task : u # t => down'[u] = down[u]
  BY <1>0 DEF Inv, TypeOK, Task
<1>6. /\ pc' \in [Conn -> {"new", "pending", "listed", "serving", "introducing", "answering", "leaving", "done"}]
      /\ \A q \in Conn : pc'[q] = pc[q] \/ (q = t /\ pc'[q] = "done")
      /\ alive' \in [Conn -> BOOLEAN]
  BY <1>0 DEF Inv, TypeOK
<1>7. TypeOK'
  <2>1. held' \in [Conn -> SUBSET Session]
    <3>1. DropOrphans(O) \in [Conn -> SUBSET Session]
      BY DEF DropOrphans, Inv, TypeOK
    <3> QED
      BY <1>0, <1>1, <3>1
  <2>2. down' \in [Conn \cup {Sweeper} ->
                 [reg : Conn \cup {None}, step : {"none", "unlist", "close", "notify"},
                  orphans : SUBSET (Key \X Session)]]
    BY <1>0 DEF Inv, TypeOK, NoDown
  <2> QED
    BY <1>0, <1>6, <2>1, <2>2 DEF Inv, TypeOK
<1>8. ListsSound' /\ AnswersAreOwn' /\ FiniteLists'
  BY <1>0, <1>6 DEF Inv, ListsSound, AnswersAreOwn, FiniteLists
<1>9. EarlyIsClean'
  BY <1>0, <1>3, <1>4, <1>6 DEF Inv, EarlyIsClean
<1>10. TeardownsSound'
  <2>1. \A q \in Conn : pc'[q] # "leaving" => down'[q] = NoDown
    BY <1>5, <1>6 DEF Inv, TeardownsSound, Task
  <2>2. ASSUME NEW u \in Task
        PROVE  /\ down'[u].step # "none" => /\ down'[u].reg \in Conn
                                             /\ pc'[down'[u].reg] \notin {"new", "pending"}
               /\ down'[u].step # "notify" => down'[u].orphans = {}
               /\ down'[u].step \in {"close", "notify"} => ~Listed(down[u].reg)'
               /\ down'[u].step = "notify" => held'[down'[u].reg] \cap Live' = {}
               /\ \A k \in Key, id \in Session :
                    <<k, id>> \in down'[u].orphans => id \notin Live' /\ id < nextId'
    <3>1. CASE u = t
      BY <1>5, <3>1 DEF NoDown
    <3>2. CASE u # t
      <4>1. down'[u] = down[u]
        BY <1>5, <3>2
      <4> QED
        BY <1>0, <1>3, <1>4, <1>6, <4>1 DEF Inv, TeardownsSound
    <3> QED
      BY <3>1, <3>2
  <2> QED
    BY <2>1, <2>2 DEF TeardownsSound
<1>11. HoldersSound'
  BY <1>0, <1>3, <1>4 DEF Inv, HoldersSound
<1>12. SessionsHaveOwners'
  <2> SUFFICES ASSUME NEW id \in Live, NEW k \in {sessions[id].a, sessions[id].b}
               PROVE  \E q \in Conn : KeyOf[q] = k /\ id \in held'[q] /\ (Listed(q) \/ Closing(q)')
    BY <1>0, <1>4 DEF SessionsHaveOwners
  <2>1. PICK q \in Conn : KeyOf[q] = k /\ id \in held[q] /\ (Listed(q) \/ Closing(q))
    BY DEF Inv, SessionsHaveOwners
  <2>2. q # r /\ KeyOf[q] \in Key /\ id \in Session
    BY <1>1, <2>1, KeyOfAssumption DEF Live
  <2>3. id \in held'[q]
    BY <1>1, <1>2, <2>1, <2>2
  <2>4. Closing(q) => Closing(q)'
    BY <1>0, <1>5 DEF Closing
  <2> QED
    BY <2>1, <2>3, <2>4
<1>13. NoSlotLeaks'
  <2> SUFFICES ASSUME NEW q \in Conn, Listed(q), NEW id \in held'[q], id \notin Live
               PROVE  \E u \in Task : <<KeyOf[q], id>> \in down'[u].orphans
    BY <1>4, <1>5 DEF NoSlotLeaks
  <2>1. q # r /\ id \in held[q] /\ <<KeyOf[q], id>> \notin O
    BY <1>1, <1>2
  <2>2. PICK u \in Task : <<KeyOf[q], id>> \in down[u].orphans
    BY <1>5, <2>1 DEF Inv, NoSlotLeaks
  <2> QED
    BY <1>5, <2>1, <2>2
<1>14. CapsHold'
  <2>1. ASSUME NEW q \in Conn
        PROVE  Cardinality(held'[q]) <= MaxHeld
    <3>1. Cardinality(held[q]) <= MaxHeld
      BY DEF Inv, CapsHold
    <3>2. /\ IsFiniteSet(held[q]) /\ Cardinality(held[q]) \in Nat
          /\ Cardinality(held'[q]) \in Nat
      BY <1>3, HeldFinite
    <3>3. Cardinality(held'[q]) <= Cardinality(held[q])
      BY <1>3, <3>2, FS_Subset
    <3> QED
      BY <3>1, <3>2, <3>3, LimitAssumption
  <2> QED
    BY <1>0, <2>1 DEF Inv, CapsHold
<1> QED
  BY <1>7, <1>8, <1>9, <1>10, <1>11, <1>12, <1>13, <1>14 DEF Inv

LEMMA NextInv == Inv /\ [Next]_vars => Inv'
<1> SUFFICES ASSUME Inv, [Next]_vars PROVE Inv'
  OBVIOUS
<1>1. ASSUME NEW r \in Conn, Register(r) PROVE Inv'
  BY <1>1, RegisterStep
<1>2. ASSUME NEW r \in Conn, Decide(r) PROVE Inv'
  BY <1>2, DecideStep
<1>3. ASSUME NEW r \in Conn, Leave(r) \/ SweepNext(r) PROVE Inv'
  BY <1>3, StartTeardown
<1>4. ASSUME NEW t \in Task, Unlist(t) \/ CloseSessions(t) \/ ReleaseOthers(t) PROVE Inv'
  BY <1>4, UnlistStep, CloseStep, ReleaseStep
<1>5. \/ \E r \in Conn : Register(r) \/ Decide(r) \/ Leave(r) \/ SweepNext(r)
      \/ \E t \in Task : Unlist(t) \/ CloseSessions(t) \/ ReleaseOthers(t)
      \/ \E r \in Conn : \/ Accept(r) \/ GiveUp(r) \/ WriteRegistered(r) \/ Keepalive(r)
                         \/ Die(r) \/ FallSilent(r) \/ FileKnock(r)
                         \/ \E k \in Key : Introduce(r, k)
                         \/ \E p \in Pairs : TakeKnock(r, p)
      \/ \E p \in Pairs : SweepKnock(p)
      \/ Sweep
      \/ UNCHANGED vars
  BY DEF Next, Task
<1> QED
  BY <1>1, <1>2, <1>3, <1>4, <1>5, QuietSteps

-----------------------------------------------------------------------------
(* The theorems.                                                           *)

LEMMA InvHolds == Spec => []Inv
<1> QED
  BY InitInv, NextInv, PTL DEF Spec

\* The gate's tables agree at every moment (server.rs:199, 257, 1137): a live session
\* has a listed owner on each side or a teardown about to end it, a listed registration
\* counts no session that ended for good, and no cap is exceeded - however the
\* connections' tasks and the sweep interleave, with any number of keys and
\* connections and any caps.
THEOREM TablesAgree == Spec => []TableConsistent
<1>1. Inv => TableConsistent
  BY DEF Inv, TableConsistent
<1> QED
  BY <1>1, InvHolds, PTL

\* No session comes about unless its second key's own task was answering a knock
\* addressed to that key (handle_knock_answer, server.rs:1137).
THEOREM SessionsWereAnswered == Spec => TargetAgreed
<1>1. ASSUME Inv, [Next]_vars, NEW id \in Session, sessions[id] = None, sessions'[id] # None
      PROVE  \E r \in Conn : /\ pc[r] = "answering" /\ pc'[r] # "answering"
                            /\ KeyOf[r] = sessions'[id].b
  <2>1. PICK r \in Conn : Decide(r)
    <3>1. \/ \E r \in Conn : Decide(r)
          \/ \E t \in Task : CloseSessions(t)
          \/ UNCHANGED sessions
      BY <1>1 DEF Next, Task, vars, tables, Accept, Register, GiveUp, WriteRegistered, Keepalive,
         Leave, SweepNext, Die, FallSilent, Introduce, FileKnock, TakeKnock, Unlist, ReleaseOthers,
         SweepKnock, Sweep
    <3>2. ASSUME NEW t \in Task, CloseSessions(t) PROVE FALSE
      BY <1>1, <3>2 DEF CloseSessions
    <3> QED
      BY <1>1, <3>1, <3>2
  <2>2. pc[r] = "answering" /\ pc'[r] = "serving"
    BY <1>1, <2>1 DEF Decide, Inv, TypeOK
  <2>3. answering[r].target = KeyOf[r]
    BY <1>1, <2>2 DEF Inv, AnswersAreOwn
  <2>4. sessions' = [sessions EXCEPT ![nextId] =
                      [a |-> answering[r].requester, b |-> answering[r].target]]
    BY <1>1, <2>1 DEF Decide
  <2>5. sessions'[id].b = answering[r].target
    BY <1>1, <2>4 DEF Inv, TypeOK
  <2> QED
    BY <2>2, <2>3, <2>5
<1>2. Inv /\ [Next]_vars =>
        [\A id \in Session :
          (sessions[id] = None /\ sessions'[id] # None) =>
            \E r \in Conn : /\ pc[r] = "answering" /\ pc'[r] # "answering"
                           /\ KeyOf[r] = sessions'[id].b]_vars
  BY <1>1
<1> QED
  BY <1>2, InvHolds, PTL DEF Spec, TargetAgreed

=============================================================================
