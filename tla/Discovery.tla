----------------------------- MODULE Discovery ------------------------------
(***************************************************************************)
(* Same-network discovery (mosschat-net/src/discovery.rs): two houses of a *)
(* community, each the other's friend, announce themselves on the LAN and  *)
(* keep the addresses they hear in an AddressCache (CandidateTable).       *)
(*                                                                         *)
(* An announce is its key, the second its maker's clock showed, a nonce,   *)
(* and whether the signature verifies.  The network keeps every datagram   *)
(* sent: it may be delivered late, twice, from an address that is not its  *)
(* sender's, or never.  Noise stands for what else arrives at the port.    *)
(* The two clocks differ by what Skew says, and go at one rate.            *)
(***************************************************************************)
EXTENDS CandidateTable, Integers, FiniteSets

CONSTANTS
    House,
    Skew,                         \* house -> what its wall clock is ahead
    MaxTime,                      \* bound: the clock
    MaxAnnounce,                  \* bound: house -> announces it makes
    ANNOUNCE_INTERVAL,
    ANNOUNCE_PER_KEY_GAP,
    ANNOUNCE_PACKETS_PER_SECOND,  \* per tick
    ANNOUNCE_REPLAY_WINDOW,
    ANNOUNCE_SEEN_REMEMBERED

VARIABLES
    now,
    next,       \* house -> Announcer.next
    inWindow,   \* house -> ReceiveLimiter: packets admitted in this second
    lastFrom,   \* house -> ReceiveLimiter.last_from: keys -> when
    guard,      \* house -> ReplayGuard.order, which is also its set
    cache,      \* house -> its addresses for the other
    made,       \* house -> announces made, the nonce of the next
    net,        \* datagrams: to whom, what
    heard,      \* ghost: house -> triples the guard admitted, in order
    opened      \* ghost: house -> the frame that set each entry of lastFrom

vars == <<now, next, inWindow, lastFrom, guard, cache, made, net, heard, opened>>

Other(h) == CHOOSE g \in House : g # h

(* Frames that are no friend's: not an announce, another community's, a
   stranger's, and a friend's key over a signature that fails. *)
Noise(h) ==
    LET frame(shape, community, key) ==
            [to |-> h, shape |-> shape, community |-> community, key |-> key,
             sent |-> 0, nonce |-> 0, signed |-> FALSE, reply |-> FALSE]
    IN {frame(FALSE, TRUE, "none"), frame(TRUE, FALSE, "none"),
        frame(TRUE, TRUE, "none"), frame(TRUE, TRUE, Other(h))}

Triple(d) == <<d.key, d.sent, d.nonce>>

-----------------------------------------------------------------------------
Init ==
    /\ now = 0
    /\ next = [h \in House |-> 0]
    /\ inWindow = [h \in House |-> 0]
    /\ lastFrom = [h \in House |-> <<>>]
    /\ guard = [h \in House |-> <<>>]
    /\ cache = [h \in House |-> <<>>]
    /\ made = [h \in House |-> 0]
    /\ net = {}
    /\ heard = [h \in House |-> <<>>]
    /\ opened = [h \in House |-> <<>>]

(* Announce::encode, at the maker's clock. *)
Encode(h, to, reply) ==
    [to |-> to, shape |-> TRUE, community |-> TRUE, key |-> h, sent |-> now + Skew[h],
     nonce |-> made[h], signed |-> TRUE, reply |-> reply]

(* The scheduled announce: due and armed in one call; the group loops it
   back to its maker. *)
Announce(h) ==
    /\ now >= next[h]
    /\ made[h] < MaxAnnounce[h]
    /\ next' = [next EXCEPT ![h] = now + ANNOUNCE_INTERVAL]
    /\ net' = net \cup {Encode(h, g, FALSE) : g \in House}
    /\ made' = [made EXCEPT ![h] = @ + 1]
    /\ UNCHANGED <<now, inWindow, lastFrom, guard, cache, heard, opened>>

(* A second is shorter than a tick: the packet window starts again. *)
Tick ==
    /\ now < MaxTime
    /\ now' = now + 1
    /\ inWindow' = [h \in House |-> 0]
    /\ UNCHANGED <<next, lastFrom, guard, cache, made, net, heard, opened>>

-----------------------------------------------------------------------------
Override(f, k, v) == [j \in DOMAIN f \cup {k} |-> IF j = k THEN v ELSE f[j]]

(* ReceiveLimiter::admit_packet and admit_key.  The keys remembered are the
   friends', fewer than its cap. *)
AdmitPacket(h) == inWindow[h] < ANNOUNCE_PACKETS_PER_SECOND

AdmitKey(h, k) ==
    ~(k \in DOMAIN lastFrom[h] /\ now - lastFrom[h][k] < ANNOUNCE_PER_KEY_GAP)

Spend(h, d) ==
    /\ lastFrom' = [lastFrom EXCEPT ![h] = Override(@, d.key, now)]
    /\ opened' = [opened EXCEPT ![h] = Override(@, d.key, d)]

(* Parse, then "is this us": what costs nothing. *)
Parses(h, d) == d.shape /\ d.community /\ d.key \in House /\ d.key # h

(* ReplayGuard::admit. *)
Within(h, d) ==
    LET skew == now + Skew[h] - d.sent IN
    skew <= ANNOUNCE_REPLAY_WINDOW /\ -skew <= ANNOUNCE_REPLAY_WINDOW

Admits(h, d) == Within(h, d) /\ ~Contains(guard[h], Triple(d))

(* Mutant: past its bound the guard starts again. *)
RememberedStartsAgain(g, t) ==
    IF Len(g) >= ANNOUNCE_SEEN_REMEMBERED THEN <<t>> ELSE Append(g, t)

Remembered(g, t) ==
    LET all == Append(g, t) IN
    IF Len(all) > ANNOUNCE_SEEN_REMEMBERED THEN Tail(all) ELSE all

(* source_is_local, after unmapping. *)
SourceIsLocal(a) == Kind[a.host] = "private"

(* The announce is believed: its address is kept, and the one reply goes
   back when nothing was held. *)
HandOff(h, d, from) ==
    /\ cache' = [cache EXCEPT ![h] = Remember(@, from, "discovery", now)]
    /\ IF cache[h] = <<>> /\ made[h] < MaxAnnounce[h]
       THEN /\ net' = net \cup {Encode(h, d.key, TRUE)}
            /\ made' = [made EXCEPT ![h] = @ + 1]
       ELSE UNCHANGED <<net, made>>

(* Mutant: the gap is read, and spent, before the signature. *)
OnDatagramGapFirst(h, d, from) ==
    /\ AdmitPacket(h)
    /\ inWindow' = [inWindow EXCEPT ![h] = @ + 1]
    /\ LET known == Parses(h, d) /\ AdmitKey(h, d.key)
           fresh == known /\ d.signed /\ Admits(h, d)
       IN
       /\ IF known THEN Spend(h, d) ELSE UNCHANGED <<lastFrom, opened>>
       /\ guard' = IF fresh THEN [guard EXCEPT ![h] = Remembered(@, Triple(d))] ELSE guard
       /\ heard' = IF fresh THEN [heard EXCEPT ![h] = Append(@, Triple(d))] ELSE heard
       /\ IF fresh /\ SourceIsLocal(from) THEN HandOff(h, d, from)
          ELSE UNCHANGED <<cache, net, made>>
    /\ UNCHANGED <<now, next>>

(* on_datagram, under the packet ceiling: parse, signature, the per-key gap,
   the replay guard, the source, in that order; each writes what it writes
   even when the next one refuses. *)
OnDatagram(h, d, from) ==
    /\ AdmitPacket(h)
    /\ inWindow' = [inWindow EXCEPT ![h] = @ + 1]
    /\ LET known == Parses(h, d) /\ d.signed /\ AdmitKey(h, d.key)
           fresh == known /\ Admits(h, d)
       IN
       /\ IF known THEN Spend(h, d) ELSE UNCHANGED <<lastFrom, opened>>
       /\ guard' = IF fresh THEN [guard EXCEPT ![h] = Remembered(@, Triple(d))] ELSE guard
       /\ heard' = IF fresh THEN [heard EXCEPT ![h] = Append(@, Triple(d))] ELSE heard
       /\ IF fresh /\ SourceIsLocal(from) THEN HandOff(h, d, from)
          ELSE UNCHANGED <<cache, net, made>>
    /\ UNCHANGED <<now, next>>

(* A datagram arrives, from whichever host put it on the wire, in the spelling
   of the socket it arrives at. *)
Hear(h) ==
    \E d \in {e \in net : e.to = h} \cup Noise(h) :
        \E host \in Hosts, m \in BOOLEAN :
            OnDatagram(h, d, [host |-> host, mapped |-> m])

(* Discovery::expire, and AddressCache::on_dial_failed by a doorbell that was
   given the address. *)
Forget(h) ==
    /\ \/ cache' = [cache EXCEPT ![h] = Expire(@, now)]
       \/ \E a \in Range(Discovered(cache[h])) :
             cache' = [cache EXCEPT ![h] = OnDialFailed(@, a)]
    /\ cache' # cache
    /\ UNCHANGED <<now, next, inWindow, lastFrom, guard, made, net, heard, opened>>

Next ==
    \/ Tick
    \/ \E h \in House : Announce(h) \/ Hear(h) \/ Forget(h)

Spec == Init /\ [][Next]_vars

-----------------------------------------------------------------------------
(***************************************************************************)
(* Properties.                                                             *)
(***************************************************************************)

(* ReplayGuard: an announce is admitted once and never again, whichever way
   the two clocks differ and however often the network repeats it, though
   the guard forgets the oldest past its bound. *)
HeardOnce ==
    \A h \in House : \A i, j \in DOMAIN heard[h] : heard[h][i] = heard[h][j] => i = j

(* on_datagram's order: what opened the gap that drops a friend's announces is
   an announce that friend signed and had made by then, never a frame that only
   names it; and that announce was heard, here and now or before, unless it was
   out of the replay window, which is asked after the gap is spent. *)
SilencedOnlyByItself ==
    \A h \in House :
        /\ DOMAIN opened[h] = DOMAIN lastFrom[h]
        /\ \A k \in DOMAIN lastFrom[h] :
              LET d == opened[h][k]
                  skew == lastFrom[h][k] + Skew[h] - d.sent
              IN
              /\ d \in net /\ d.to = h /\ d.key = k /\ d.signed
              /\ d.sent - Skew[k] <= lastFrom[h][k]
              /\ \/ Contains(heard[h], Triple(d))
                 \/ skew > ANNOUNCE_REPLAY_WINDOW
                 \/ -skew > ANNOUNCE_REPLAY_WINDOW
=============================================================================
