SPECIFICATION FairSpec
CONSTANTS
    a1 = a1
    Addrs = {a1}
    NoIp = NoIp
    GiveUp = 1
    RequestTries = 2
    CheckTries = 1
    RebindTries = 3
    TriesMod = 5
    TimerMod = 3
    Wait = 2
    CheckWait = 1
    Leases <- OneLease
    MaxLead = 1
    MaxNet = 1
    MaxFails = 1
    MaxRefused = 1
INVARIANT Inv
INVARIANT AddressAcked
PROPERTY Reported
