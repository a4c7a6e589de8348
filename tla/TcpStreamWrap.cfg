SPECIFICATION Spec
CONSTANTS
    MSS = 2
    TCP_WND = 8
    TCP_SND_BUF = 4
    SeqWidth = 32
    WndWidth = 16
    Iss = 27
    Bytes = 4
    MaxFaults = 2
    MaxRefused = 0
INVARIANT AcksHeld
CHECK_DEADLOCK FALSE
