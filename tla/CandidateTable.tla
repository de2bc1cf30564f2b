--------------------------- MODULE CandidateTable ---------------------------
(***************************************************************************)
(* Which addresses a doorbell attempt may probe (mosschat-net/src/punch.rs *)
(* `gather`, `Attempt::add_candidate`, `add_discovered`, `vouch`,          *)
(* `add_peer_candidates`), and the addresses a house keeps for a friend    *)
(* between attempts (live.rs `AddressCache`).                              *)
(*                                                                         *)
(* An address is a host and a spelling: the dual-stack socket spells an    *)
(* IPv4 host plainly or as an IPv4-mapped IPv6 address.  What the range    *)
(* tests tell apart is the host's Kind: global, private (with link-local   *)
(* and unique-local), loopback, or bad (unspecified, broadcast, multicast: *)
(* never a peer).  A host that is named with port 0 or 1 is of the kind    *)
(* noPort, never a peer either, whatever its range and its spelling.       *)
(***************************************************************************)
EXTENDS Naturals, Sequences, SequencesExt

CONSTANTS
    Hosts,                      \* hosts an address may name
    Kind,                       \* host -> what its range says of it
    MAX_CANDIDATES,             \* slots of one attempt
    DISCOVERY_CANDIDATE_SLOTS,  \* of them, what discovery may take
    CACHED_ADDRESSES_PER_PEER,  \* addresses kept for one friend
    CACHED_ADDRESS_TTL,         \* how long an unanswered address is kept
    DISCOVERED_ADDRESS_TTL      \* how long a discovered one is

Kinds == {"global", "private", "loopback", "bad", "noPort"}

ASSUME CandidateAssumption ==
    /\ Kind \in [Hosts -> Kinds]
    /\ MAX_CANDIDATES \in Nat
    /\ DISCOVERY_CANDIDATE_SLOTS \in Nat
    /\ CACHED_ADDRESSES_PER_PEER \in Nat \ {0}
    /\ CACHED_ADDRESS_TTL \in Nat
    /\ DISCOVERED_ADDRESS_TTL \in 0..CACHED_ADDRESS_TTL

-----------------------------------------------------------------------------
(* sock.rs unmap_v4: one address, one spelling. *)
Unmap(a) == [a EXCEPT !.mapped = FALSE]

(* is_probeable, is_globally_routable: the tests read the spelling they are
   given, and no IPv6 range test matches a mapped address. *)
IsProbeable(a) ==
    Kind[a.host] # "noPort" /\ (a.mapped \/ Kind[a.host] # "bad")

IsGloballyRoutable(a) == a.mapped \/ Kind[a.host] = "global"

(* is_gatherable: loopback is never offered. *)
IsGatherable(a) == IsProbeable(a) /\ (a.mapped \/ Kind[a.host] # "loopback")

(* gather: local addresses, then reflections, then what discovery heard,
   without duplicates and within the cap. *)
GatherOne(out, a) ==
    IF Len(out) >= MAX_CANDIDATES \/ ~IsGatherable(a) \/ Contains(out, a)
    THEN out ELSE Append(out, a)

Gather(local, reflections, discovered) ==
    FoldLeft(GatherOne, <<>>, local \o reflections \o discovered)

(* regather: a rerun keeps what the caller offered and adds what the machine
   gathers now. *)
Regather(original, local, reflections, discovered) ==
    LET kept == SubSeq(original, 1,
                       IF Len(original) < MAX_CANDIDATES THEN Len(original)
                       ELSE MAX_CANDIDATES)
        add(out, a) == IF Len(out) >= MAX_CANDIDATES \/ Contains(out, a)
                       THEN out ELSE Append(out, a)
    IN FoldLeft(add, kept, Gather(local, reflections, discovered))

-----------------------------------------------------------------------------
(***************************************************************************)
(* The table of one attempt: its candidates in order, the addresses        *)
(* something other than the peer's word stands behind, and how many slots  *)
(* discovery has taken.                                                    *)
(***************************************************************************)
NewTable(observed) ==
    [cands |-> <<>>, vouched |-> {Unmap(a) : a \in observed}, discovered |-> 0]

Holds(t, a) == \E i \in DOMAIN t.cands : t.cands[i].addr = a

(* add_candidate's verdict on an address already unmapped. *)
Admissible(t, a, source) ==
    /\ Len(t.cands) < MAX_CANDIDATES
    /\ IsProbeable(a)
    /\ ~Holds(t, a)
    /\ source = "peerReported" => IsGloballyRoutable(a) \/ a \in t.vouched

(* Mutant: the address is classified in the spelling the peer chose. *)
AddCandidateAsSpelled(t, addr, source) ==
    IF Admissible(t, addr, source)
    THEN [t EXCEPT !.cands = Append(@, [addr |-> Unmap(addr), source |-> source])]
    ELSE t

AddCandidate(t, addr, source) ==
    LET a == Unmap(addr) IN
    IF Admissible(t, a, source)
    THEN [t EXCEPT !.cands = Append(@, [addr |-> a, source |-> source])]
    ELSE t

(* vouch: hearing the peer at an address is a fact whether or not there is
   room to probe it. *)
Vouch(t, addr) == [t EXCEPT !.vouched = @ \cup {Unmap(addr)}]

AddDiscovered(t, addr) ==
    LET v == Vouch(t, addr)
        u == AddCandidate(v, addr, "discovery")
    IN IF v.discovered >= DISCOVERY_CANDIDATE_SLOTS THEN v
       ELSE IF u = v THEN v
       ELSE [u EXCEPT !.discovered = @ + 1]

AddPeerCandidates(t, addrs) ==
    FoldLeft(LAMBDA u, a : AddCandidate(u, a, "peerReported"), t, addrs)

(* run_doorbell: what discovery heard vouches first, the peer's list takes
   its slots, discovery fills what is left. *)
BuildTable(observed, peerAddrs, peerDiscovered) ==
    FoldLeft(AddDiscovered,
             AddPeerCandidates(
                 FoldLeft(Vouch, NewTable(observed), peerDiscovered),
                 peerAddrs),
             peerDiscovered)

-----------------------------------------------------------------------------
(***************************************************************************)
(* AddressCache, for one friend: a sequence of [addr, source, at].         *)
(***************************************************************************)
Ttl(e) == IF e.source = "discovery" THEN DISCOVERED_ADDRESS_TTL
          ELSE CACHED_ADDRESS_TTL

IndexesOf(c, a) == {i \in DOMAIN c : c[i].addr = a}

(* Past its cap the oldest sighting goes, the first of equals. *)
Oldest(c) ==
    CHOOSE i \in DOMAIN c :
        \A j \in DOMAIN c : c[i].at < c[j].at \/ (c[i].at = c[j].at /\ i <= j)

Capped(c) ==
    IF Len(c) > CACHED_ADDRESSES_PER_PEER THEN RemoveAt(c, Oldest(c)) ELSE c

Remember(c, addr, source, now) ==
    LET a == Unmap(addr) IN
    IF IndexesOf(c, a) # {}
    THEN [i \in DOMAIN c |-> IF c[i].addr = a
                             THEN [addr |-> a, source |-> source, at |-> now]
                             ELSE c[i]]
    ELSE Capped(Append(c, [addr |-> a, source |-> source, at |-> now]))

Discovered(c) ==
    LET heard == SelectSeq(c, LAMBDA e : e.source = "discovery")
    IN [i \in DOMAIN heard |-> heard[i].addr]

Expire(c, now) == SelectSeq(c, LAMBDA e : now - e.at < Ttl(e))

OnDialFailed(c, addr) == SelectSeq(c, LAMBDA e : e.addr # Unmap(addr))
=============================================================================
