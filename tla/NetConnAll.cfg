SPECIFICATION FairSpec
CONSTANTS
    t1 = t1
    t2 = t2
    Tasks = {t1, t2}
    NoTask = NoTask
    Ops = {"bind", "connect", "listen", "accept", "peer", "write", "recv", "shutRD", "shutWR", "nonblocking"}
    MaxLen = 2
    SndBuf = 1
    RecvCap = 2
    AcceptCap = 1
    SendTimeout = TRUE
INVARIANT OneToken
INVARIANT CurMsgState
INVARIANT WriteReports
INVARIANT BlockedReaderWoken
INVARIANT FreedClean
INVARIANT EofLast
PROPERTY CallsReturn
PROPERTY OneAnswerPerCall
CHECK_DEADLOCK FALSE
