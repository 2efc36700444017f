\* 10, 10, 30 and 300 seconds become 1, 1, 3 and 4.
SPECIFICATION Spec
CONSTANTS
    TrackerCount = 2
    PeerSlots = 2
    MaxLag = 1
    connect_timeout = 1
    unchoke_interval = 1
    optimistic_interval = 3
    tracker_interval = 4
INVARIANTS
    TypeOK
    OneRound
    TrackerGivenUp
    NoLiveSocketLost
PROPERTIES
    SilentAreGivenUp
    PeersAreTried
