SPECIFICATION Spec
CONSTANTS
    k1 = k1  k2 = k2  d1 = d1  d2 = d2  x1 = x1  x2 = x2  c1 = c1  c2 = c2
    NoPeer = NoPeer
    Peer <- AllPeers
    Control = {}
    Data = {d1, d2}
    Client = {x1, x2}
    ConnId = {c1}
    ConnOf <- OneConnection
    MaxQueue = 2
    LimitCode = {1008}
    Flaky = {}
    PendingLimit = 2
    MaxSockets = 3
    MaxClients = 1
    MaxFrames = 3
    MaxPings = 0
    MaxNudges = 0
SYMMETRY Symmetry
INVARIANT PendingSound
INVARIANT FramesInOrder
INVARIANT UnroutedIsClosing
PROPERTY SlotsVacatedByHolder
PROPERTY FramesGetThrough
