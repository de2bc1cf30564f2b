------------------------------- MODULE Knocks -------------------------------
(***************************************************************************)
(* Whose knock a house answers (mosschat-net/src/gate/client.rs            *)
(* `answer_knock`, `InMemoryInviteStore`; gate/mod.rs `SeenSet`,           *)
(* `within_freshness_window`).  A seal is who made it, what its clock      *)
(* showed, and the invite it carries.  The gate and the network may bring  *)
(* a seal late and more than once; only its recipient can open it.         *)
(***************************************************************************)
EXTENDS Integers, FiniteSets, Sequences, Functions

CONSTANTS
    Friend, Guest,            \* who knocks; a guest may hold no invite
    Invite,                   \* invites this house issued
    Expires,                  \* invite -> when it expires
    Skews,                    \* what a knocker's clock may be ahead
    MaxSeals, MaxTime,        \* bounds
    SEEN_WINDOW,
    SEEN_SET_CAP

Knocker == Friend \cup Guest

None == "none"                \* a seal with no invite

VARIABLES
    now,
    seals,     \* seals made, in order
    seen,      \* SeenSet.entries: the seal -> when it was inserted
    redeemed,  \* invites that are spent
    pending,   \* pending_accepts: tags, which name the knocker
    answered   \* ghost: the seals answered with accept, in order

vars == <<now, seals, seen, redeemed, pending, answered>>

Seal == DOMAIN seals

Init ==
    /\ now = 0
    /\ seals = <<>>
    /\ seen = <<>>
    /\ redeemed = {}
    /\ pending = {}
    /\ answered = <<>>

(* introduce, on another house: a fresh seal for every call.  `honest` says
   the tag is the pair's, `bind` that the proof is bound to this gate. *)
Knock ==
    /\ Len(seals) < MaxSeals
    /\ \E k \in Knocker, skew \in Skews, i \in Invite \cup {None}, tag, bind \in BOOLEAN :
          /\ k \in Friend => i = None
          /\ now + skew >= 0
          /\ seals' = Append(seals, [from |-> k, sent |-> now + skew, invite |-> i,
                                     tag |-> tag, bind |-> bind])
    /\ UNCHANGED <<now, seen, redeemed, pending, answered>>

Tick ==
    /\ now < MaxTime
    /\ now' = now + 1
    /\ UNCHANGED <<seals, seen, redeemed, pending, answered>>

-----------------------------------------------------------------------------
(* within_freshness_window: either way, the edge included. *)
WithinFreshnessWindow(sent) ==
    now - sent <= SEEN_WINDOW /\ sent - now <= SEEN_WINDOW

(* SeenSet::sweep: since insertion, the edge excluded. *)
Swept == Restrict(seen, {s \in DOMAIN seen : now - seen[s] < SEEN_WINDOW})

(* Mutant: an invite is good until it expires. *)
RedeemableUntilExpiry(b) ==
    b.invite # None /\ b.bind /\ now <= Expires[b.invite]

(* try_redeem's verdict. *)
Redeemable(b) ==
    /\ b.invite # None /\ b.bind
    /\ b.invite \notin redeemed
    /\ now <= Expires[b.invite]

(* answer_knock: open, freshness, tag, friend or invite, and only then the
   seen set; an invite is redeemed before the seen set is asked. *)
AnswerKnock(s) ==
    LET b == seals[s]
        friend == b.from \in Friend
    IN
    /\ WithinFreshnessWindow(b.sent)
    /\ b.tag
    /\ friend \/ Redeemable(b)
    /\ redeemed' = IF friend THEN redeemed ELSE redeemed \cup {b.invite}
    /\ IF s \in DOMAIN Swept \/ Cardinality(DOMAIN Swept) >= SEEN_SET_CAP
       THEN seen' = Swept /\ UNCHANGED <<pending, answered>>
       ELSE /\ seen' = [t \in DOMAIN Swept \cup {s} |-> IF t = s THEN now ELSE Swept[t]]
            /\ pending' = pending \cup {b.from}
            /\ answered' = Append(answered, s)
    /\ UNCHANGED <<now, seals>>

(* reader_loop on Introduction: the tag is taken out. *)
Introduction(k) ==
    /\ k \in pending
    /\ pending' = pending \ {k}
    /\ UNCHANGED <<now, seals, seen, redeemed, answered>>

Next ==
    \/ Knock \/ Tick
    \/ \E s \in Seal : AnswerKnock(s)
    \/ \E k \in Knocker : Introduction(k)

Spec == Init /\ [][Next]_vars

-----------------------------------------------------------------------------
(***************************************************************************)
(* Properties.                                                             *)
(***************************************************************************)

(* InviteRecord "(single use)": an invite opens the door to one knock, over
   all the seals that carry it and however often each arrives, also when
   the seen set has long forgotten the one it was spent on. *)
InviteOpensOnce ==
    \A i, j \in DOMAIN answered :
        LET a == seals[answered[i]]
            b == seals[answered[j]]
        IN a.from \notin Friend /\ b.from \notin Friend /\ a.invite = b.invite => i = j
=============================================================================
