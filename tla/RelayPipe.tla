----------------------------- MODULE RelayPipe ------------------------------
(***************************************************************************)
(* What a shaped relay direction promises: datagrams leave in the order in *)
(* which they were taken in, each at most once, none is lost before the    *)
(* direction is shut, and no more than Capacity wait.                      *)
(***************************************************************************)
EXTENDS Naturals, Sequences

CONSTANT Capacity

VARIABLES
  pending,  \* taken in and not yet out
  out,      \* what has left, in order
  shut      \* nothing is taken in any more

pipe == <<pending, out, shut>>

Init == pending = <<>> /\ out = <<>> /\ shut = FALSE

\* A datagram is taken in once.
Once(s) == \A i, j \in 1..Len(s) : s[i] = s[j] => i = j

Put ==
  /\ ~shut
  /\ Len(pending) < Len(pending') /\ Len(pending') <= Capacity
  /\ SubSeq(pending', 1, Len(pending)) = pending
  /\ Once(out \o pending')
  /\ UNCHANGED <<out, shut>>

Take ==
  /\ pending # <<>>
  /\ out' = Append(out, Head(pending))
  /\ pending' = Tail(pending)
  /\ UNCHANGED shut

\* The direction ends and leaves some or all of what is pending behind.
Shut ==
  /\ shut' = TRUE
  /\ Len(pending') <= Len(pending)
  /\ pending' = SubSeq(pending, 1, Len(pending'))
  /\ UNCHANGED out

Next == Put \/ Take \/ Shut

Spec == Init /\ [][Next]_pipe
=============================================================================
