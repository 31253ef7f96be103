SPECIFICATION Spec
CONSTANTS
    k1 = k1  k2 = k2  d1 = d1  d2 = d2  x1 = x1  x2 = x2  c1 = c1  c2 = c2
    NoPeer = NoPeer
    Peer <- AllPeers
    Control = {k1}
    Data = {d1, d2}
    Client = {x1, x2}
    ConnId = {c1, c2}
    ConnOf <- ClientsTogether
    MaxQueue = 1
    LimitCode = {}
    Flaky = {d1}
    PendingLimit = 1
    MaxSockets = 3
    MaxClients = 2
    MaxFrames = 1
    MaxPings = 1
    MaxNudges = 0
SYMMETRY ClientSymmetry
INVARIANT TypeOK
INVARIANT FramesIsolated
INVARIANT RoutedIsLive
INVARIANT WithinLimits
