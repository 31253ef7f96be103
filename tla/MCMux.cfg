SPECIFICATION FairSpec
CONSTANTS
    n1 = n1  n2 = n2  a1 = a1  a2 = a2
    Node = {n1}
    Access = {a1}
    MaxOpens <- OneEach
    MaxWrites <- OneByVisitor
    Buffer = 2
    Hasty <- NodeEndOfVisit
    Faulty = {n1}
    Cut = {}
    Slow = {n1}
INVARIANT TypeOK
INVARIANT EntriesHaveOwners
PROPERTY PipesKept
PROPERTY ClosesArrive
