SPECIFICATION RecoverySpec
CONSTANTS
    k1 = k1  k2 = k2  d1 = d1  d2 = d2  x1 = x1  x2 = x2  c1 = c1
    NoPeer = NoPeer  Here = Here  Nobody = Nobody
    Peer <- AllPeers
    Control = {k1, k2}
    Data = {d1, d2}
    Client = {x1}
    ConnId = {c1}
    ConnOf <- OneConnection
    MaxQueue = 2
    LimitCode = {}
    Flaky = {}
    PendingLimit = 1
    MaxSockets = 3
    Lossy = {k1, d1}
    Unreachable = {k1, d1}
    MaxClients = 1
    MaxFrames = 0
    MaxPings = 0
    MaxNudges = 1
PROPERTY ReplacedWhenLeft
INVARIANT AnnouncementsTaken
