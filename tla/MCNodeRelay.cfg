SPECIFICATION FairSpec
CONSTANTS
    a1 = a1  a2 = a2  b1 = b1  n1 = n1  n2 = n2  s1 = s1  s2 = s2  v1 = v1  v2 = v2  c1 = c1  c2 = c2
    NoAuth = NoAuth  Here = Here  Nobody = Nobody
    ConnId = {c1, c2}
    Channel = {a1, a2, b1}
    ConnOf <- TwoForC1
    Name = {n1, n2}
    Auth = {NoAuth, s1, s2}
    Offer <- Offers
    Visit = {v1, v2}
    Request <- Visitors
    LocalAuth <- OwnProvider
    MaxBinds = 1
INVARIANT TypeOK
INVARIANT OneChannelPerId
INVARIANT BindingsServed
INVARIANT AckedStaysBound
INVARIANT VisitsReachProviders
PROPERTY IdsAreGivenBack
