SPECIFICATION FairSpec
CONSTANTS
    MSS = 2
    TCP_WND = 4
    TCP_SND_BUF = 4
    SeqWidth = 32
    WndWidth = 16
    Iss = 30
    Bytes = 5
    MaxFaults = 1
    MaxRefused = 1
INVARIANT Inv
INVARIANT AcksHeld
PROPERTY EdgeGrows
PROPERTY Refines
PROPERTY AllArrive
CHECK_DEADLOCK FALSE
