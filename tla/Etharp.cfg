SPECIFICATION ArpFairSpec
CONSTANTS
    h1 = h1
    h2 = h2
    h3 = h3
    m1 = m1
    m2 = m2
    Hosts = {h1, h2, h3}
    Macs = {m1, m2}
    NoHost = NoHost
    NoMac = NoMac
    TableSize = 2
    MaxAge = 4
    Rerequest = 2
    MaxPending = 2
INVARIANT ArpInv
INVARIANT AskedOnce
INVARIANT RightAddress
PROPERTY PendingEnds
