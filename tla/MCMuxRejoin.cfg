SPECIFICATION Spec
CONSTANTS
    n1 = n1  n2 = n2  a1 = a1  a2 = a2
    Node = {n1, n2}
    Access = {a1}
    MaxOpens <- Visit
    MaxWrites <- TwoByVisitorOneBack
    Buffer = 2
    Hasty = {}
    Faulty = {}
    Cut = {n1}
    Slow = {n1}
PROPERTY PipesKept
