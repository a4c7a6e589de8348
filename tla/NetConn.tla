------------------------------ MODULE NetConn ------------------------------
(***************************************************************************)
(* One TCP netconn: the application tasks that call the sequential API on  *)
(* it (api_lib.c), the message each call posts to tcpip_thread             *)
(* (tcpip_apimsg), the do_* handlers and TCP callbacks that tcpip_thread   *)
(* runs on it (api_msg.c), and the part of its tcp_pcb those callbacks     *)
(* depend on (tcp.c, tcp_in.c).                                            *)
(*                                                                         *)
(* A handler or callback is one atomic step of tcpip_thread: nothing else  *)
(* touches the pcb, and the fields an application task shares with it are  *)
(* only touched by a task between its own calls.  The exception is the end *)
(* of poll_tcp and sent_tcp, which read conn after the caller was released *)
(* (variable thr).  An api_msg lives on the stack of its task, so a task   *)
(* stands for its message.  err_t is abstracted to what the code branches  *)
(* on: ERR_OK, the errors that are not ERR_IS_FATAL, and those that are.   *)
(***************************************************************************)
EXTENDS Naturals, Sequences, FiniteSets

CONSTANTS Tasks,      \* application tasks sharing the netconn, one call at a time
          NoTask,     \* current_msg = NULL
          Ops,        \* the API calls the tasks make
          MaxLen,     \* longest netconn_write, in units of the send buffer
          SndBuf,     \* TCP_SND_BUF, in the same unit
          RecvCap,    \* capacity of recvmbox
          AcceptCap,  \* capacity of acceptmbox
          SendTimeout \* TRUE when SO_SNDTIMEO is set (simpleSocket sets it)

AllOps == {"bind", "connect", "listen", "accept", "peer", "write", "recv", "shutRD",
           "shutWR", "nonblocking"}

ASSUME NetConnAssumption ==
    /\ NoTask \notin Tasks
    /\ Ops \subseteq AllOps
    /\ MaxLen \in Nat \ {0} /\ SndBuf \in Nat \ {0}
    /\ RecvCap \in Nat \ {0} /\ AcceptCap \in Nat \ {0}
    /\ SendTimeout \in BOOLEAN

VARIABLES
    nc,     \* struct netconn
    pcb,    \* the tcp_pcb conn->pcb.tcp points to, as far as the netconn sees it
    mbox,   \* API messages waiting in the mbox of tcpip_thread
    msg,    \* msg[t]: the api_msg on the stack of task t
    pc,     \* pc[t]: where task t is in its API call
    thr     \* "loop", or "tail": tcpip_thread is past the release in poll_tcp/sent_tcp

vars == <<nc, pcb, mbox, msg, pc, thr>>

----------------------------------------------------------------------------
Err   == {"OK", "SOFT", "FATAL"}        \* err.h: ERR_OK, not ERR_IS_FATAL, ERR_IS_FATAL
Fatal(e) == e = "FATAL"
SafeErr(c, e) == IF Fatal(c.lastErr) THEN c ELSE [c EXCEPT !.lastErr = e]

RD == "RD"
WR == "WR"
Shuts == {{RD}, {WR}, {RD, WR}}

Active    == {"SYN_SENT", "ESTABLISHED", "CLOSE_WAIT", "FIN_WAIT", "CLOSING", "LAST_ACK"}
PcbStates == {"NULL", "CLOSED", "LISTEN", "TIME_WAIT", "FREED"} \cup Active

\* A mailbox that is not valid (SYS_MBOX_NULL) is empty; valid tells them apart.
NoMbox == [valid |-> FALSE, q |-> <<>>]
NewMbox == [valid |-> TRUE, q |-> <<>>]
TryPost(m, cap, x) == IF Len(m.q) < cap THEN [m EXCEPT !.q = Append(@, x)] ELSE m
Full(m, cap) == Len(m.q) >= cap

NoPcb == [state |-> "NULL", recvCb |-> FALSE, sentCb |-> FALSE, rxclosed |-> FALSE,
          refused |-> "none", sndbuf |-> SndBuf]
NewPcb(s) == [state |-> s, recvCb |-> TRUE, sentCb |-> TRUE, rxclosed |-> FALSE,
              refused |-> "none", sndbuf |-> SndBuf]

FreeConn == [mem |-> "free", state |-> "NONE", cur |-> NoTask, nonblocking |-> FALSE,
             nbConnect |-> FALSE, off |-> 0, lastErr |-> "OK", sem |-> 0,
             recvmbox |-> NoMbox, acceptmbox |-> NoMbox]
AllocConn == [FreeConn EXCEPT !.mem = "alloc", !.recvmbox = NewMbox]

\* queued is a history field: the units of this write that tcp_write accepted.
NoMsg == [fn |-> "none", err |-> "SOFT", len |-> 0, queued |-> 0, dontblock |-> FALSE,
          shut |-> {RD, WR}]

Init == /\ nc = FreeConn
        /\ pcb = NoPcb
        /\ mbox = <<>>
        /\ msg = [t \in Tasks |-> NoMsg]
        /\ pc = [t \in Tasks |-> "idle"]
        /\ thr = "loop"

----------------------------------------------------------------------------
(* Application side (api_lib.c, tcpip_apimsg).                             *)

\* The rule that the callers follow, but for simpleConnect after its time limit (module
\* Session): a netconn is handed from task to task, but at most one API call on it is in
\* progress.
Serial == \A t \in Tasks : pc[t] = "idle"

\* tcpip_apimsg: err is preset to ERR_VAL (LWIP_DEBUG), the message is posted,
\* and the task waits for op_completed.
Post(t, m) == /\ msg' = [msg EXCEPT ![t] = m]
              /\ mbox' = Append(mbox, t)
              /\ pc' = [pc EXCEPT ![t] = "wait"]

Msg(fn) == [NoMsg EXCEPT !.fn = fn]

\* netconn_new_with_proto_and_callback: netconn_alloc, then do_newconn.
NetconnNew(t) == /\ Serial /\ nc.mem = "free" /\ thr = "loop"
                 /\ nc' = AllocConn
                 /\ Post(t, Msg("newconn"))
                 /\ UNCHANGED <<pcb, thr>>

\* netconn_set_nonblocking
SetNonblocking(t) == /\ Serial /\ nc.mem = "alloc" /\ "nonblocking" \in Ops
                     /\ nc' = [nc EXCEPT !.nonblocking = ~@]
                     /\ UNCHANGED <<pcb, mbox, msg, pc, thr>>

\* netconn_bind, netconn_connect, netconn_listen, netconn_getaddr, netconn_close,
\* netconn_shutdown, netconn_delete and netconn_write_partly only fill in the
\* message.  Closing and deleting are always possible.
Request(t) ==
    \/ \E fn \in {"bind", "connect", "listen", "peer"} \cap Ops : Post(t, Msg(fn))
    \/ "shutRD" \in Ops /\ Post(t, [Msg("close") EXCEPT !.shut = {RD}])
    \/ "shutWR" \in Ops /\ Post(t, [Msg("close") EXCEPT !.shut = {WR}])
    \/ \E fn \in {"close", "delconn"} : Post(t, Msg(fn))
    \/ /\ "write" \in Ops
       /\ \E n \in 1 .. MaxLen, d \in BOOLEAN :
             Post(t, [Msg("write") EXCEPT !.len = n, !.dontblock = d])

NetconnCall(t) == /\ Serial /\ nc.mem = "alloc"
                  /\ Request(t)
                  /\ UNCHANGED <<nc, pcb, thr>>

\* netconn_recv_data up to the fetch: ERR_CONN without a recvmbox (the caller's
\* last_err is untouched), last_err when it is fatal, else the task blocks.
NetconnRecv(t) == /\ Serial /\ nc.mem = "alloc" /\ "recv" \in Ops
                  /\ nc.recvmbox.valid /\ ~Fatal(nc.lastErr)
                  /\ pc' = [pc EXCEPT ![t] = "fetch"]
                  /\ UNCHANGED <<nc, pcb, mbox, msg, thr>>

\* sys_arch_mbox_fetch returned: a segment is acknowledged to the stack by
\* netconn_recved (sockets set noautorecved), a NULL by netconn_recv_data itself.
RecvFetched(t) == /\ pc[t] = "fetch" /\ Len(nc.recvmbox.q) > 0
                  /\ nc' = [nc EXCEPT !.recvmbox.q = Tail(@)]
                  /\ Post(t, Msg(IF Head(nc.recvmbox.q) = "NULL" THEN "recvNull" ELSE "recv"))
                  /\ UNCHANGED <<pcb, thr>>

\* recv_timeout elapsed (SO_RCVTIMEO, set by simpleSocket): ERR_TIMEOUT.
RecvTimeout(t) == /\ pc[t] = "fetch" /\ nc.recvmbox.q = <<>>
                  /\ nc' = SafeErr(nc, "SOFT")
                  /\ pc' = [pc EXCEPT ![t] = "idle"]
                  /\ UNCHANGED <<pcb, mbox, msg, thr>>

\* netconn_accept: same shape on acceptmbox; no message to tcpip_thread.
NetconnAccept(t) == /\ Serial /\ nc.mem = "alloc" /\ "accept" \in Ops
                    /\ nc.acceptmbox.valid /\ ~Fatal(nc.lastErr)
                    /\ pc' = [pc EXCEPT ![t] = "acceptFetch"]
                    /\ UNCHANGED <<nc, pcb, mbox, msg, thr>>

AcceptFetched(t) ==
    /\ pc[t] = "acceptFetch" /\ Len(nc.acceptmbox.q) > 0
    /\ LET c == [nc EXCEPT !.acceptmbox.q = Tail(@)]
       IN  nc' = IF Head(nc.acceptmbox.q) = "NULL" THEN SafeErr(c, "FATAL") ELSE c
    /\ pc' = [pc EXCEPT ![t] = "idle"]
    /\ UNCHANGED <<pcb, mbox, msg, thr>>

AcceptTimeout(t) == /\ pc[t] = "acceptFetch" /\ nc.acceptmbox.q = <<>>
                    /\ nc' = SafeErr(nc, "SOFT")
                    /\ pc' = [pc EXCEPT ![t] = "idle"]
                    /\ UNCHANGED <<pcb, mbox, msg, thr>>

\* op_completed was signalled: the rest of the API call.
Return(t) ==
    /\ pc[t] = "wait" /\ nc.sem = 1
    /\ LET c == [nc EXCEPT !.sem = 0]
           m == msg[t]
       IN  nc' = IF m.fn = "delconn" \/ (m.fn = "newconn" /\ m.err # "OK") THEN FreeConn
                 ELSE IF m.fn \in {"newconn", "recv"} THEN c
                 ELSE SafeErr(c, IF m.fn = "recvNull" THEN "FATAL" ELSE m.err)
    /\ pc' = [pc EXCEPT ![t] = "idle"]
    /\ msg' = [msg EXCEPT ![t] = NoMsg]
    /\ UNCHANGED <<pcb, mbox, thr>>

----------------------------------------------------------------------------
(* tcpip_thread: the do_* handlers (api_msg.c).                            *)

Signal(c) == [c EXCEPT !.sem = 1]

\* TCPIP_APIMSG_ACK of message t.
Ack(t, c, p, e) == /\ nc' = Signal(c)
                   /\ pcb' = p
                   /\ msg' = [msg EXCEPT ![t].err = e]

\* The head of the mbox of tcpip_thread; the thread takes it only in its loop.
Handle(t, fn) == /\ thr = "loop" /\ mbox # <<>> /\ t = Head(mbox) /\ msg[t].fn = fn
                 /\ mbox' = Tail(mbox)
                 /\ UNCHANGED <<pc, thr>>

Setup(p) == [p EXCEPT !.recvCb = TRUE, !.sentCb = TRUE]         \* setup_tcp
DrainRecvmbox(c) == [c EXCEPT !.recvmbox = NoMbox]  \* mutant: acceptmbox is forgotten
DrainMboxes(c) == [c EXCEPT !.recvmbox = NoMbox, !.acceptmbox = NoMbox]
Writable == {"ESTABLISHED", "CLOSE_WAIT", "SYN_SENT"}           \* tcp_write_checks

DoNewconn(t) == /\ Handle(t, "newconn")
                /\ \/ Ack(t, nc, NewPcb("CLOSED"), "OK")
                   \/ Ack(t, nc, pcb, "SOFT")                    \* tcp_new failed

DoBind(t) ==
    /\ Handle(t, "bind")
    /\ IF Fatal(nc.lastErr) THEN Ack(t, nc, pcb, nc.lastErr)
       ELSE \/ Ack(t, nc, pcb, "SOFT")
            \/ pcb.state = "CLOSED" /\ Ack(t, nc, pcb, "OK")

DoConnect(t) ==
    /\ Handle(t, "connect")
    /\ \/ pcb.state = "NULL" /\ Ack(t, nc, pcb, "FATAL")
       \/ pcb.state # "NULL" /\ nc.state # "NONE" /\ Ack(t, nc, pcb, "SOFT")
       \/ /\ pcb.state # "NULL" /\ nc.state = "NONE"             \* tcp_connect fails
          /\ Ack(t, nc, Setup(pcb), "SOFT")
       \/ /\ pcb.state = "CLOSED" /\ nc.state = "NONE"
          /\ LET p == [Setup(pcb) EXCEPT !.state = "SYN_SENT"]
                 c == [nc EXCEPT !.state = "CONNECT", !.nbConnect = nc.nonblocking]
             IN  IF nc.nonblocking
                 THEN Ack(t, c, p, "SOFT")
                 ELSE /\ nc' = [c EXCEPT !.cur = t]
                      /\ pcb' = p
                      /\ msg' = [msg EXCEPT ![t].err = "OK"]

DoListen(t) ==
    /\ Handle(t, "listen")
    /\ IF Fatal(nc.lastErr) THEN Ack(t, nc, pcb, nc.lastErr)
       ELSE \/ (pcb.state = "NULL" \/ nc.state # "NONE") /\ Ack(t, nc, pcb, "FATAL")
            \/ /\ pcb.state # "NULL" /\ nc.state = "NONE"        \* tcp_listen fails
               /\ Ack(t, nc, pcb, "SOFT")
            \/ /\ pcb.state = "CLOSED" /\ nc.state = "NONE"
               /\ \/ Ack(t, [nc EXCEPT !.recvmbox = NoMbox, !.acceptmbox = NewMbox,
                                       !.state = "LISTEN"],
                         [NoPcb EXCEPT !.state = "LISTEN"], "OK")
                  \/ Ack(t, [nc EXCEPT !.recvmbox = NoMbox], NoPcb, "SOFT")  \* no acceptmbox

\* tcp_recved only opens the receive window again.
DoRecv(t) == /\ \E fn \in {"recv", "recvNull"} : Handle(t, fn)
             /\ Ack(t, nc, pcb, "OK")

DoGetaddr(t) == /\ Handle(t, "peer")
                /\ Ack(t, nc, pcb, IF pcb.state = "NULL" THEN "FATAL" ELSE "OK")

\* The error of a write whose send_timeout elapsed: ERR_WOULDBLOCK or a partial write.
PartialAlwaysSoft(c) == "SOFT"      \* mutant: a partial write reported as not written
Partial(c) == IF c.off = 0 THEN "SOFT" ELSE "OK"

\* do_writemore of message t on conn c: from do_write, sent_tcp and poll_tcp.
WriteMore(t, c, p) ==
    LET dontblock == c.nonblocking \/ msg[t].dontblock
        Min2(a, b) == IF a <= b THEN a ELSE b
        len == Min2(msg[t].len - c.off, p.sndbuf)
        off == c.off + len
        Released(o) == Signal([c EXCEPT !.cur = NoTask, !.state = "NONE", !.off = o])
        Finish(o, e, n) == /\ nc' = Released(o) /\ pcb' = p
                           /\ msg' = [msg EXCEPT ![t].err = e, ![t].len = n]
        TimedOut == SendTimeout /\ Finish(c.off, Partial(c), c.off)  \* keeps write_offset
        Queue == /\ p.state \in Writable
                 /\ pcb' = [p EXCEPT !.sndbuf = @ - len]
                 /\ IF off = msg[t].len \/ dontblock
                    THEN /\ nc' = Released(0)
                         /\ msg' = [msg EXCEPT ![t].err = "OK", ![t].len = off,
                                               ![t].queued = @ + len]
                    ELSE /\ nc' = [c EXCEPT !.off = off]
                         /\ msg' = [msg EXCEPT ![t].queued = @ + len]
        NoMemory == IF dontblock THEN Finish(c.off, "SOFT", 0)
                    ELSE nc' = c /\ pcb' = p /\ msg' = msg
    IN  \/ TimedOut
        \/ dontblock /\ p.sndbuf = 0 /\ Finish(c.off, "SOFT", 0)   \* ERR_WOULDBLOCK
        \/ /\ ~(dontblock /\ p.sndbuf = 0)
           /\ \/ Queue
              \/ p.state \in Writable /\ len > 0 /\ NoMemory
              \/ p.state \notin Writable /\ Finish(c.off, "FATAL", 0)

DoWrite(t) ==
    /\ Handle(t, "write")
    /\ IF Fatal(nc.lastErr) THEN Ack(t, nc, pcb, nc.lastErr)
       ELSE IF nc.state # "NONE" THEN Ack(t, nc, pcb, "SOFT")
       ELSE IF pcb.state = "NULL" THEN Ack(t, nc, pcb, "FATAL")
       ELSE WriteMore(t, [nc EXCEPT !.state = "WRITE", !.cur = t, !.off = 0], pcb)

\* do_close_internal of message t on conn c: from do_close, do_delconn, sent_tcp
\* and poll_tcp.  tcp_close and tcp_shutdown may run out of memory for the FIN
\* unless refused data makes tcp_close send a RST; a half close of a pcb that is
\* not connected returns ERR_CONN.  A pcb in any other state is closed at once.
Connected == {"ESTABLISHED", "CLOSE_WAIT"}

CloseMayFail(p, shut) == CASE shut = {RD} -> FALSE
                           [] shut = {WR} -> TRUE
                           [] OTHER -> p.state \in Connected /\ p.refused = "none"
CloseMaySucceed(p, shut) == shut = {WR} => p.state \in Connected

Closed(p, shut) ==
    CASE shut = {RD} -> [p EXCEPT !.recvCb = FALSE, !.rxclosed = TRUE, !.refused = "none"]
      [] shut = {WR} -> [p EXCEPT !.sentCb = FALSE,
                                  !.state = IF @ = "ESTABLISHED" THEN "FIN_WAIT" ELSE "LAST_ACK"]
      [] OTHER -> NoPcb
NotClosed(p, shut) ==
    [p EXCEPT !.sentCb = TRUE, !.recvCb = @ /\ RD \notin shut, !.rxclosed = @ \/ RD \in shut]

CloseInternalAcks(t, c, p) ==        \* mutant: a close that must be retried is answered too
    LET shut == msg[t].shut
    IN  \/ /\ CloseMaySucceed(p, shut)
           /\ Ack(t, [c EXCEPT !.cur = NoTask, !.state = "NONE"], Closed(p, shut), "OK")
        \/ /\ CloseMayFail(p, shut)
           /\ nc' = Signal(c) /\ pcb' = NotClosed(p, shut) /\ msg' = msg

CloseInternal(t, c, p) ==
    LET shut == msg[t].shut
    IN  \/ /\ CloseMaySucceed(p, shut)
           /\ Ack(t, [c EXCEPT !.cur = NoTask, !.state = "NONE"], Closed(p, shut), "OK")
        \/ /\ CloseMayFail(p, shut)
           /\ nc' = c /\ pcb' = NotClosed(p, shut) /\ msg' = msg

DoClose(t) ==
    /\ Handle(t, "close")
    /\ LET c == IF RD \in msg[t].shut THEN DrainMboxes(nc) ELSE nc
       IN  IF nc.state \notin {"NONE", "LISTEN"} THEN Ack(t, nc, pcb, "SOFT")
           ELSE IF pcb.state = "NULL" THEN Ack(t, nc, pcb, "SOFT")
           ELSE IF msg[t].shut # {RD, WR} /\ nc.state = "LISTEN" THEN Ack(t, nc, pcb, "FATAL")
           ELSE CloseInternal(t, [c EXCEPT !.state = "CLOSE", !.cur = t], pcb)

DoDelconn(t) ==
    /\ Handle(t, "delconn")
    /\ LET c == DrainMboxes(nc)
       IN  IF nc.state \notin {"NONE", "LISTEN", "CONNECT"} THEN Ack(t, nc, pcb, "SOFT")
           ELSE IF pcb.state = "NULL" THEN Ack(t, c, pcb, "OK")
           ELSE CloseInternal(t, [c EXCEPT !.state = "CLOSE", !.cur = t], pcb)

TcpipThread == \E t \in Tasks : \/ DoNewconn(t) \/ DoBind(t) \/ DoConnect(t) \/ DoListen(t)
                                \/ DoRecv(t) \/ DoGetaddr(t) \/ DoWrite(t) \/ DoClose(t)
                                \/ DoDelconn(t)

----------------------------------------------------------------------------
(* tcpip_thread: input segments and timers, and the callbacks they make.   *)

Callback == thr = "loop" /\ UNCHANGED <<mbox, pc>>
NoTail == thr' = "loop"

\* Waking the tasks blocked on the mailboxes; a full mailbox needs no wake-up.
WakeNobody(c) == c                  \* mutant: err_tcp does not post the NULLs
WakeMboxes(c) ==
    [c EXCEPT !.recvmbox = IF @.valid THEN TryPost(@, RecvCap, "NULL") ELSE @,
              !.acceptmbox = IF @.valid THEN TryPost(@, AcceptCap, "NULL") ELSE @]

EndingForgetsConnect(c) == c.state \in {"WRITE", "CLOSE"}        \* mutant
Ending(c) == c.state \in {"WRITE", "CLOSE", "CONNECT"}

\* err_tcp, the pcb being freed: RST, tcp_abort, retransmission limit and closing
\* timeouts of tcp_slowtmr, tcp_kill_prio.  Every error it reports is fatal.
ErrTcp(c) ==
    LET waiting == Ending(c) /\ ~c.nbConnect
        c1 == [WakeMboxes(c) EXCEPT !.lastErr = "FATAL", !.state = "NONE",
                                    !.nbConnect = @ /\ ~Ending(c)]
    IN  /\ pcb' = NoPcb
        /\ nc' = IF waiting THEN Signal([c1 EXCEPT !.cur = NoTask]) ELSE c1
        /\ msg' = IF waiting THEN [msg EXCEPT ![c.cur].err = "FATAL"] ELSE msg

Abort == /\ Callback /\ NoTail /\ pcb.state \in Active
         /\ ErrTcp(nc)

\* accept_function of the listener this connection belongs to, and netconn_accept.
AcceptFunction == /\ Callback /\ NoTail /\ nc.mem = "free" /\ Serial
                  /\ nc' = [AllocConn EXCEPT !.mem = "queued"]
                  /\ pcb' = NewPcb("ESTABLISHED")
                  /\ UNCHANGED msg
Accepted(t) == /\ Serial /\ nc.mem = "queued"
               /\ nc' = [nc EXCEPT !.mem = "alloc"]
               /\ UNCHANGED <<pcb, mbox, msg, pc, thr>>

\* netconn_drain of that listener: tcp_abort and netconn_free.
DropQueued == /\ Callback /\ NoTail /\ nc.mem = "queued"
              /\ nc' = FreeConn /\ pcb' = NoPcb
              /\ UNCHANGED msg

\* accept_function of this netconn, a listener: ERR_MEM when the mailbox is full
\* or no netconn is left, and tcp_process aborts the new pcb.
NewConnection == /\ Callback /\ NoTail /\ pcb.state = "LISTEN" /\ nc.acceptmbox.valid
                 /\ nc' = [nc EXCEPT !.acceptmbox = TryPost(@, AcceptCap, "conn")]
                 /\ UNCHANGED <<pcb, msg>>

\* do_connected, the SYN+ACK arrived.
DoConnectedSignals == /\ Callback /\ NoTail /\ pcb.state = "SYN_SENT"  \* mutant: signals always
                      /\ pcb' = [Setup(pcb) EXCEPT !.state = "ESTABLISHED"]
                      /\ nc' = Signal([nc EXCEPT !.nbConnect = FALSE, !.cur = NoTask,
                                                 !.state = "NONE"])
                      /\ msg' = msg

DoConnected == /\ Callback /\ NoTail /\ pcb.state = "SYN_SENT"
               /\ pcb' = [Setup(pcb) EXCEPT !.state = "ESTABLISHED"]
               /\ LET c == [nc EXCEPT !.nbConnect = FALSE, !.cur = NoTask, !.state = "NONE"]
                  IN  nc' = IF nc.nbConnect THEN SafeErr(c, "OK") ELSE Signal(c)
               /\ msg' = IF nc.cur = NoTask THEN msg ELSE [msg EXCEPT ![nc.cur].err = "OK"]

\* recv_tcp: a full mailbox refuses x.
RecvTcp(c, x) == IF c.recvmbox.valid
                 THEN [SafeErr(c, "OK") EXCEPT !.recvmbox = TryPost(@, RecvCap, x)]
                 ELSE c
Refuses(c) == c.recvmbox.valid /\ Full(c.recvmbox, RecvCap)

\* TCP_EVENT_RECV: x, kept as refused data when recv_tcp refuses it.
Recv(c, p, x) ==
    IF ~p.recvCb THEN [c |-> c, p |-> [p EXCEPT !.refused = "none"]]
    ELSE [c |-> RecvTcp(c, "data"), p |-> [p EXCEPT !.refused = IF Refuses(c) THEN x ELSE "none"]]

\* TCP_EVENT_CLOSED: a full mailbox drops the NULL.
GotFin(r) == IF r.p.refused # "none" THEN [r EXCEPT !.p.refused = "datafin"]
             ELSE IF r.p.recvCb THEN [r EXCEPT !.c = RecvTcp(@, "NULL")]
             ELSE r

\* tcp_process_refused_data, when there is any.
RetryFinFirst ==                     \* mutant: the end of the stream before the refused data
    LET c == IF pcb.refused = "datafin" /\ pcb.recvCb THEN RecvTcp(nc, "NULL") ELSE nc
    IN  IF pcb.refused = "none" THEN [c |-> nc, p |-> pcb] ELSE Recv(c, pcb, "data")
Retry == LET r == Recv(nc, pcb, pcb.refused)
         IN  CASE pcb.refused = "none" -> [c |-> nc, p |-> pcb]
               [] pcb.refused = "datafin" /\ r.p.refused = "none" -> GotFin(r)
               [] OTHER -> r

\* tcp_fasttmr
RefusedRetry == /\ Callback /\ NoTail /\ pcb.state \in Active /\ pcb.refused # "none"
                /\ nc' = Retry.c /\ pcb' = Retry.p
                /\ UNCHANGED msg

AfterFin(s) == IF s = "ESTABLISHED" THEN {"CLOSE_WAIT"} ELSE {"CLOSING", "TIME_WAIT"}

\* tcp_input of an in-sequence segment with data (d) or a FIN (f): data refused
\* earlier comes first and, refused again, drops the segment; data after the
\* receive side was shut down aborts the connection, silently in TIME_WAIT.
Segment(d, f) ==
    /\ Callback /\ NoTail /\ (d \/ f) /\ pcb.state \in {"ESTABLISHED", "FIN_WAIT"}
    /\ LET r == Retry
       IN  \/ /\ r.p.refused # "none"
              /\ nc' = r.c /\ pcb' = r.p /\ msg' = msg
           \/ /\ r.p.refused = "none"
              /\ \E s \in IF f THEN AfterFin(pcb.state) ELSE {pcb.state} :
                    LET p == [r.p EXCEPT !.state = s]
                        q == IF d THEN Recv(r.c, p, "data") ELSE [c |-> r.c, p |-> p]
                        z == IF f THEN GotFin(q) ELSE q
                    IN  IF d /\ p.rxclosed
                        THEN IF s = "TIME_WAIT"
                             THEN nc' = r.c /\ pcb' = [p EXCEPT !.state = "FREED"] /\ msg' = msg
                             ELSE ErrTcp(r.c)
                        ELSE nc' = z.c /\ pcb' = z.p /\ msg' = msg

ContinueCloseOnly(c, p) ==           \* mutant: poll_tcp and sent_tcp forget a blocked write
    /\ IF c.state = "CLOSE" THEN CloseInternal(c.cur, c, p)
       ELSE nc' = c /\ pcb' = p /\ msg' = msg
    /\ thr' = IF c.sem = 0 /\ nc'.sem = 1 THEN "tail" ELSE "loop"

\* What poll_tcp and sent_tcp run, and the end of both: after a release they
\* still read conn->flags and conn->pcb (thr = "tail").
Continue(c, p) ==
    /\ IF c.state = "WRITE" THEN WriteMore(c.cur, c, p)
       ELSE IF c.state = "CLOSE" THEN CloseInternal(c.cur, c, p)
       ELSE nc' = c /\ pcb' = p /\ msg' = msg
    /\ thr' = IF c.sem = 0 /\ nc'.sem = 1 THEN "tail" ELSE "loop"

\* tcp_input of an acknowledgement of n units: sent_tcp.
Acked(n) == /\ Callback /\ pcb.state \in Active \ {"SYN_SENT"}
            /\ pcb.sndbuf + n <= SndBuf
            /\ LET r == Retry
                   p == [r.p EXCEPT !.sndbuf = @ + n]
               IN  IF p.sentCb THEN Continue(r.c, p)
                   ELSE nc' = r.c /\ pcb' = p /\ msg' = msg /\ NoTail

\* tcp_slowtmr: poll_tcp.
Poll == /\ Callback /\ pcb.state \in Active /\ nc.state \in {"WRITE", "CLOSE"}
        /\ Continue(nc, pcb)

CallbackEnd == /\ thr = "tail" /\ thr' = "loop"
         /\ UNCHANGED <<nc, pcb, mbox, msg, pc>>

\* The FIN of this side is acknowledged: CLOSING to TIME_WAIT purges the pcb, and
\* LAST_ACK frees it, without err_tcp when the receive side was shut down.
FinAcked ==
    /\ Callback /\ NoTail
    /\ \/ /\ pcb.state = "CLOSING"
          /\ nc' = Retry.c
          /\ pcb' = [Retry.p EXCEPT !.state = "TIME_WAIT", !.refused = "none"]
          /\ msg' = msg
       \/ /\ pcb.state = "LAST_ACK" /\ pcb.rxclosed
          /\ nc' = Retry.c /\ pcb' = [Retry.p EXCEPT !.state = "FREED"] /\ msg' = msg
       \/ /\ pcb.state = "LAST_ACK" /\ ~pcb.rxclosed
          /\ ErrTcp(Retry.c)

\* 2 MSL in TIME_WAIT: tcp_slowtmr frees the pcb, err_tcp is not called.
TimeWaitEnd == /\ Callback /\ NoTail /\ pcb.state = "TIME_WAIT"
               /\ pcb' = [pcb EXCEPT !.state = "FREED"]
               /\ UNCHANGED <<nc, msg>>

Events == \/ Abort \/ AcceptFunction \/ DropQueued \/ NewConnection \/ DoConnected
          \/ RefusedRetry \/ Poll \/ CallbackEnd \/ FinAcked \/ TimeWaitEnd
          \/ \E d, f \in BOOLEAN : Segment(d, f)
          \/ \E n \in 1 .. SndBuf : Acked(n)

Application == \E t \in Tasks :
    \/ NetconnNew(t) \/ SetNonblocking(t) \/ NetconnCall(t) \/ Accepted(t)
    \/ NetconnRecv(t) \/ RecvFetched(t) \/ RecvTimeout(t)
    \/ NetconnAccept(t) \/ AcceptFetched(t) \/ AcceptTimeout(t)
    \/ Return(t)

Next == Application \/ TcpipThread \/ Events

Spec == Init /\ [][Next]_vars

\* tcpip_thread keeps running, a task keeps running between its blocking calls,
\* and the timers of tcpip_thread keep firing: a blocked write with a send_timeout
\* is polled past it, a SYN is answered or given up (TCP_SYNMAXRTX), and memory for
\* a FIN is found at a poll or the connection is given up (TCP_MAXRTX).
PollTimedOut == Poll /\ nc.state = "WRITE" /\ nc'.sem = 1
PollClosed   == Poll /\ nc.state = "CLOSE" /\ nc'.sem = 1
Fairness == /\ WF_vars(TcpipThread) /\ WF_vars(CallbackEnd)
            /\ WF_vars(DoConnected \/ (Abort /\ pcb.state = "SYN_SENT"))
            /\ WF_vars(PollTimedOut)
            /\ WF_vars(PollClosed \/ (Abort /\ nc.state = "CLOSE"))
            /\ \A t \in Tasks : /\ WF_vars(RecvFetched(t) \/ RecvTimeout(t))
                                /\ WF_vars(AcceptFetched(t) \/ AcceptTimeout(t))
                                /\ WF_vars(Return(t))
FairSpec == Spec /\ Fairness

----------------------------------------------------------------------------
(* Properties.                                                             *)

Lens == 0 .. MaxLen
Mbox(xs) == [valid : BOOLEAN, q : Seq(xs)]
NcType == [mem : {"free", "queued", "alloc"}, state : {"NONE", "WRITE", "LISTEN", "CONNECT", "CLOSE"},
           cur : Tasks \cup {NoTask}, nonblocking : BOOLEAN, nbConnect : BOOLEAN,
           off : Lens, lastErr : Err, sem : {0, 1},
           recvmbox : Mbox({"data", "NULL"}), acceptmbox : Mbox({"conn", "NULL"})]
PcbType == [state : PcbStates, recvCb : BOOLEAN, sentCb : BOOLEAN, rxclosed : BOOLEAN,
            refused : {"none", "data", "datafin"}, sndbuf : 0 .. SndBuf]
Fns == {"none", "newconn", "bind", "connect", "listen", "peer", "recv", "recvNull", "write",
        "close", "delconn"}
MsgType == [fn : Fns, err : Err, len : Lens, queued : Nat,
            dontblock : BOOLEAN, shut : Shuts]

\* Every variable stays in its range; no mailbox holds more than its capacity.
TypeOK == /\ nc \in NcType
          /\ Len(nc.recvmbox.q) <= RecvCap /\ Len(nc.acceptmbox.q) <= AcceptCap
          /\ pcb \in PcbType
          /\ mbox \in Seq(Tasks) /\ Len(mbox) <= 1
          /\ msg \in [Tasks -> MsgType]
          /\ pc \in [Tasks -> {"idle", "wait", "fetch", "acceptFetch"}]
          /\ thr \in {"loop", "tail"}

\* The callers' discipline: at most one task is inside an API call.
OneCaller == \A t, u \in Tasks : pc[t] # "idle" /\ pc[u] # "idle" => t = u

\* A task inside tcpip_apimsg waits for exactly one of: its message in the mbox of
\* tcpip_thread, its message as current_msg of the connection, the signal of
\* op_completed; and when nobody waits none of these is left over, so no call is
\* answered twice and no signal of one call ends the next one.
Queued(t) == mbox = <<t>>
Signalled == nc.sem = 1
OneToken ==
    /\ \A t \in Tasks : pc[t] = "wait" =>
          \/ Queued(t) /\ nc.cur = NoTask /\ ~Signalled
          \/ mbox = <<>> /\ nc.cur = t /\ ~Signalled
          \/ mbox = <<>> /\ nc.cur = NoTask /\ Signalled
    /\ (\A t \in Tasks : pc[t] # "wait") => mbox = <<>> /\ nc.cur = NoTask /\ ~Signalled

\* The assertions of do_writemore, do_close_internal, do_connected and err_tcp:
\* current_msg is set exactly while a write, a close or a blocking connect is in
\* progress, that operation belongs to the message's function, it has a pcb, and a
\* write in progress has something left to write.
CurMsgState ==
    /\ nc.cur # NoTask <=> \/ nc.state \in {"WRITE", "CLOSE"}
                           \/ nc.state = "CONNECT" /\ ~nc.nbConnect
    /\ nc.cur # NoTask =>
          /\ pc[nc.cur] = "wait"
          /\ \/ nc.state = "WRITE" /\ msg[nc.cur].fn = "write"
             \/ nc.state = "CONNECT" /\ msg[nc.cur].fn = "connect"
             \/ nc.state = "CLOSE" /\ msg[nc.cur].fn \in {"close", "delconn"}
    /\ nc.state \in {"WRITE", "CLOSE", "CONNECT"} => pcb.state # "NULL"
    /\ nc.state = "WRITE" => nc.off < msg[nc.cur].len

\* A write that reports success reports as its length exactly what entered the
\* send queue, and one that fails with an error that is not fatal (ERR_WOULDBLOCK,
\* ERR_MEM, ERR_INPROGRESS) has queued nothing, so that repeating it cannot
\* duplicate data.
WriteReports ==
    \A t \in Tasks : pc[t] = "wait" /\ Signalled /\ msg[t].fn = "write" =>
        /\ msg[t].err = "OK" => msg[t].len = msg[t].queued
        /\ msg[t].err = "SOFT" => msg[t].queued = 0

\* A task blocked in netconn_recv or netconn_accept of a connection whose pcb is
\* gone has something in its mailbox to wake it (err_tcp posts the NULL).
BlockedReaderWoken ==
    \A t \in Tasks :
        /\ pc[t] = "fetch" /\ pcb.state = "NULL" => nc.recvmbox.q # <<>>
        /\ pc[t] = "acceptFetch" /\ pcb.state = "NULL" => nc.acceptmbox.q # <<>>

\* The assertions of netconn_free and of netconn_new_with_proto_and_callback: when
\* the conn is about to be released its pcb is gone and its mailboxes were drained.
FreedClean ==
    \A t \in Tasks : pc[t] = "wait" /\ Signalled =>
        /\ msg[t].fn = "delconn" =>
              pcb.state = "NULL" /\ ~nc.recvmbox.valid /\ ~nc.acceptmbox.valid
        /\ msg[t].fn = "newconn" /\ msg[t].err # "OK" =>
              pcb.state = "NULL" /\ nc.recvmbox.valid /\ ~nc.acceptmbox.valid

\* The end of the stream is the last thing a reader finds: nothing follows the NULL
\* in recvmbox, and it is not there while earlier data is still refused.
EofLast ==
    /\ \A i, j \in 1 .. Len(nc.recvmbox.q) :
          i < j /\ nc.recvmbox.q[i] = "NULL" => nc.recvmbox.q[j] # "data"
    /\ pcb.refused # "none" =>
          \A i \in 1 .. Len(nc.recvmbox.q) : nc.recvmbox.q[i] # "NULL"

\* What the callers of tcpip_apimsg rely on: the connection is a server that takes
\* one call at a time and answers it once (module ApiCall).
Api == INSTANCE ApiCall WITH
           call <- [t \in Tasks |-> IF pc[t] # "wait" THEN "none"
                                    ELSE IF nc.sem = 1 THEN "answered" ELSE "asked"]
OneAnswerPerCall == Api!Spec

\* A half close of a pcb that is not connected: tcp_shutdown refuses it, and no
\* callback comes that would try it again.
HalfCloseStuck(t) == /\ nc.state = "CLOSE" /\ nc.cur = t /\ msg[t].shut # {RD, WR}
                     /\ pcb.state \notin Connected

\* Every API call returns: a task that waits for tcpip_thread or on a mailbox
\* becomes idle again, but for that half close.
CallsReturn ==
    \A t \in Tasks : pc[t] # "idle" ~> (pc[t] = "idle" \/ []HalfCloseStuck(t))

\* The inductive invariant: the above, and what the callbacks rely on.  A connect
\* is in progress exactly while the pcb is in SYN_SENT; a write in progress has
\* queued write_offset units and may block; a released conn has no pcb; a conn its task does not
\* know yet or any more is at rest; a call just posted has done nothing.
Resting(c) == c.state \in {"NONE", "LISTEN"} /\ ~c.nbConnect
PcbInv == /\ nc.nbConnect => nc.state = "CONNECT" \/ pcb.state = "NULL"
          /\ nc.state = "CONNECT" <=> pcb.state = "SYN_SENT"
          /\ nc.state = "WRITE" => /\ msg[nc.cur].queued = nc.off
                                  /\ ~nc.nonblocking /\ ~msg[nc.cur].dontblock
          /\ nc.mem = "free" => pcb.state = "NULL" /\ nc = FreeConn
          /\ nc.mem # "alloc" => Serial
Posted(t) == /\ msg[t].fn # "none" /\ msg[t].queued = 0
             /\ msg[t].fn = "write" => msg[t].len > 0
             /\ msg[t].fn = "newconn" => pcb.state = "NULL" /\ Resting(nc)
Answered(t) == /\ msg[t].fn = "delconn" => pcb.state = "NULL"
               /\ msg[t].fn = "newconn" /\ msg[t].err # "OK" => pcb.state = "NULL"
CallInv == \A t \in Tasks :
              /\ msg[t].fn = "delconn" => msg[t].shut = {RD, WR}
              /\ pc[t] = "wait" /\ Queued(t) => Posted(t)
              /\ pc[t] = "wait" /\ Signalled => Answered(t)
Inv == /\ TypeOK
       /\ OneCaller
       /\ OneToken
       /\ CurMsgState
       /\ PcbInv
       /\ CallInv
       /\ WriteReports

=============================================================================
