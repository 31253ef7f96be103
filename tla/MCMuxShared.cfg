SPECIFICATION Spec
CONSTANTS
    n1 = n1  n2 = n2  a1 = a1  a2 = a2
    Node = {n1}
    Access = {a1, a2}
    MaxOpens <- VisitEach
    MaxWrites <- OneOfEach
    Buffer = 6
    Hasty <- AnyEnd
    Faulty = {}
    Cut = {}
    Slow = {}
INVARIANT StreamsIsolated
