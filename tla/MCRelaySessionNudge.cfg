SPECIFICATION FairSpec
CONSTANTS
    k1 = k1  k2 = k2  d1 = d1  d2 = d2  x1 = x1  x2 = x2  c1 = c1  c2 = c2
    NoPeer = NoPeer
    Peer <- AllPeers
    Control = {k1}
    Data = {d1}
    Client = {x1, x2}
    ConnId = {c1}
    ConnOf <- OneConnection
    MaxQueue = 1
    LimitCode = {}
    Flaky = {}
    PendingLimit = 1
    MaxSockets = 4
    MaxClients = 2
    MaxFrames = 0
    MaxPings = 0
    MaxNudges = 2
PROPERTY ControlRecovery
INVARIANT NobodyAbandoned
