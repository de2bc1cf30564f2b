SPECIFICATION FairSpec
CONSTANTS
    Attempt = {"a", "b"}
    Gate = "gate"
    Peer = "peer"
    Stranger = "stranger"
    MaxLease = 2
    Datagram <- MCDatagram
    Slots = {1, 2}
    INBOUND_RELAY_QUEUE_CAP = 1
    INBOUND_PROBE_QUEUE_CAP = 1
    COOP_BUDGET = 1
INVARIANTS
    NoLostWake
    EachHearsItsOwn
PROPERTIES
    NeitherStarves
