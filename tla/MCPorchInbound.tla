--------------------------- MODULE MCPorchInbound ---------------------------
(* Two visits, a gate connection with its reflect, one buffer or two. *)
EXTENDS PorchInbound

Quic == [t |-> "quic"]
P(n, k) == [t |-> "probe", names |-> n, key |-> k]

MCDatagram ==
    {[src |-> s, segs |-> <<Quic>>] : s \in {"gate", "stranger"}}
    \cup {[src |-> "peer", segs |-> <<P("a", "b"), Quic>>],
          [src |-> "stranger", segs |-> <<P("a", "a")>>]}
=============================================================================
