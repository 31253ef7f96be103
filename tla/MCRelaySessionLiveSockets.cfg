SPECIFICATION Spec
CONSTANTS
    k1 = k1  k2 = k2  d1 = d1  d2 = d2  x1 = x1  x2 = x2  c1 = c1  c2 = c2
    NoPeer = NoPeer
    Peer <- AllPeers
    Control = {k1, k2}
    Data = {}
    Client = {x1}
    ConnId = {c1}
    ConnOf <- OneConnection
    MaxQueue = 2
    LimitCode = {}
    Flaky = {}
    PendingLimit = 1
    MaxSockets = 2
    MaxClients = 1
    MaxFrames = 0
    MaxPings = 0
    MaxNudges = 0
INVARIANT LiveSocketsLimited
