SPECIFICATION MCSpec
CHECK_DEADLOCK FALSE
CONSTANTS
    Hosts <- MCHosts
    Kind <- MCKind
    MAX_CANDIDATES = 2
    DISCOVERY_CANDIDATE_SLOTS = 1
    CACHED_ADDRESSES_PER_PEER = 1
    CACHED_ADDRESS_TTL = 1
    DISCOVERED_ADDRESS_TTL = 1
    VISIT_PROBE_INTERVAL = 4
    PROBES_TO_STALE = 3
    PROBE_LOSS_FLOOR = 4
    LOSS_SRTT_MULTIPLIER = 2
    DEAD_GRACE_BASE = 6
    DEAD_PROBE_INTERVAL = 6
    PROBE_FAST_INTERVAL = 2
    PROBE_FAST_WINDOW = 6
    PROBE_SLOW_INTERVAL = 6
    PROBE_GIVE_UP = 30
    FIRE_IN = 2
    CONSECUTIVE_PONGS_TO_WIN = 3
    PONG_ANSWERS_PER_WINDOW = 6
    PONG_WINDOW = 6
    Delays = {1, 3, 5}
    PeerLists <- MCPeerLists
    HeardLists <- MCHeardLists
    Observed <- MCObserved
    Horizon = 48
    MaxFlips = 3
    Peer = {"p"}
    MaxSession = 2
    MaxDial = 3
    MaxTime = 1
    MAX_SESSIONS_PER_REGISTRATION = 2
    MAX_VISITS_PER_PEER = 2
    GATE_EVENT_QUEUE = 1
    REGISTRATION_TTL = 1
    Friend = {"f"}
    Guest = {"g"}
    Invite = {"i"}
    Skews = {0, 1}
    MaxSeals = 2
    KnockTime = 3
    SEEN_WINDOW = 1
    SEEN_SET_CAP = 1
    House = {"a", "b"}
    Skew <- MCSkew
    MaxAnnounce <- MCMaxAnnounce
    LanTime = 3
    ANNOUNCE_INTERVAL = 1
    ANNOUNCE_PER_KEY_GAP = 1
    ANNOUNCE_PACKETS_PER_SECOND = 1
    ANNOUNCE_REPLAY_WINDOW = 1
    ANNOUNCE_SEEN_REMEMBERED = 2
    MAX_RECORD_ENTRIES = 12
    MaxAttempts = 2
    Writer = {"house", "doctor"}
    Lengths = {1, 2}
    MaxDay = 3
    MaxRecords = 3
    MaxFaults = 1
    MAX_FILE_BYTES = 3
    MAX_FILES_KEPT = 2
INVARIANTS
    TableIsSound
    ProbingIsRight
    AnsweringPathStaysLive
    SilenceDetected
    DeadRelayIsSeenBack
    SlotsAreVisits
    StartFindsAWaiter
    InviteOpensOnce
    HeardOnce
    SilencedOnlyByItself
    OneRecordPerRun
    FailureIsNamed
    LogKeepsItsOrder
