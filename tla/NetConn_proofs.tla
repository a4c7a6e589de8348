--------------------------- MODULE NetConn_proofs ---------------------------
(***************************************************************************)
(* Proofs about NetConn: the invariant of the calls, of the token of each  *)
(* and of current_msg (Inv); that of the mailboxes - who is woken, what is *)
(* drained, where the end of the stream is (BoxInv); and the refinement of *)
(* ApiCall.                                                                *)
(***************************************************************************)
EXTENDS NetConn, TLAPS

USE NetConnAssumption

RecvMbox == Mbox({"data", "NULL"})
AcceptMbox == Mbox({"conn", "NULL"})

\* sys_mbox_trypost never fills a mailbox above its capacity.
LEMMA TryPostType ==
    ASSUME NEW S, NEW m \in Mbox(S), NEW cap \in Nat \ {0}, NEW x \in S, Len(m.q) <= cap
    PROVE  TryPost(m, cap, x) \in Mbox(S) /\ Len(TryPost(m, cap, x).q) <= cap
<1>1. m.q \in Seq(S) /\ m = [valid |-> m.valid, q |-> m.q] /\ m.valid \in BOOLEAN
    BY DEF Mbox
<1>2. /\ Append(m.q, x) \in Seq(S)
      /\ Len(m.q) < cap => Len(Append(m.q, x)) <= cap
    BY <1>1
<1>3. CASE Len(m.q) < cap
    <2>1. TryPost(m, cap, x) = [valid |-> m.valid, q |-> Append(m.q, x)]
        BY <1>1, <1>3 DEF TryPost
    <2> QED BY <1>1, <1>2, <1>3, <2>1 DEF Mbox
<1>4. CASE ~(Len(m.q) < cap)
    BY <1>4 DEF TryPost
<1> QED
    BY <1>3, <1>4

\* Lengths of a write.
LEMMA LensType == 0 \in Lens /\ Lens \subseteq Nat /\ 1 .. MaxLen \subseteq Lens
BY DEF Lens

\* The two empty mailboxes.
LEMMA MboxType == \A S : /\ NoMbox \in Mbox(S) /\ NewMbox \in Mbox(S)
                         /\ NoMbox.q = <<>> /\ NewMbox.q = <<>>
BY DEF NoMbox, NewMbox, Mbox

\* The classes of err_t.
LEMMA ErrType == "OK" \in Err /\ "SOFT" \in Err /\ "FATAL" \in Err
BY DEF Err

\* The directions a close can have.
LEMMA ShutType == {RD} \in Shuts /\ {WR} \in Shuts /\ {RD, WR} \in Shuts
BY DEF Shuts

\* A netconn before netconn_alloc and after it.
LEMMA FreeConnType == FreeConn \in NcType /\ AllocConn \in NcType
BY LensType, MboxType, ErrType DEF FreeConn, AllocConn, NcType

\* A message as netconn_* fills it in.
LEMMA MsgOfType == NoMsg \in MsgType /\ \A fn \in Fns : Msg(fn) \in MsgType
BY LensType, ErrType, ShutType DEF Msg, NoMsg, MsgType, Fns

\* The invariant holds before the netconn is allocated.
LEMMA InitInv == Init => Inv
<1> SUFFICES ASSUME Init PROVE Inv
    OBVIOUS
<1>2. NoPcb \in PcbType
    BY DEF NoPcb, PcbType, PcbStates
<1>4. TypeOK
    BY <1>2, FreeConnType, MsgOfType, MboxType DEF TypeOK, Init, FreeConn
<1>5. NoMsg.fn = "none"
    BY DEF NoMsg
<1> QED
    BY <1>4, <1>5 DEF Init, Inv, OneCaller, OneToken, CurMsgState, PcbInv, CallInv, WriteReports,
                FreeConn, NoPcb, Resting, Serial, Signalled

----------------------------------------------------------------------------
(* How a step may move the token of a call.                                *)

SameCore(c, d) == /\ c.mem = d.mem /\ c.state = d.state /\ c.cur = d.cur
                  /\ c.nbConnect = d.nbConnect /\ c.off = d.off /\ c.sem = d.sem
                  /\ c.nonblocking = d.nonblocking \/ c.state # "WRITE"

\* Nobody is in a call: no token is anywhere.
LEMMA IdleFacts ==
    ASSUME Inv, \A t \in Tasks : pc[t] # "wait"
    PROVE  mbox = <<>> /\ nc.cur = NoTask /\ nc.sem = 0 /\ nc.state \notin {"WRITE", "CLOSE"}
           /\ (nc.state = "CONNECT" => nc.nbConnect)
<1>1. mbox = <<>> /\ nc.cur = NoTask /\ ~Signalled
    BY DEF Inv, OneToken
<1>2. nc.sem = 0
    BY <1>1 DEF Signalled, Inv, TypeOK, NcType
<1> QED
    BY <1>1, <1>2 DEF Inv, CurMsgState

\* A message at the head of the mbox is the only token.
LEMMA QueuedFacts ==
    ASSUME Inv, NEW t \in Tasks, mbox # <<>>, t = Head(mbox)
    PROVE  /\ Tail(mbox) = <<>>
           /\ pc[t] = "wait" /\ \A u \in Tasks \ {t} : pc[u] = "idle"
           /\ nc.cur = NoTask /\ nc.sem = 0 /\ nc.state \notin {"WRITE", "CLOSE"}
           /\ (nc.state = "CONNECT" => nc.nbConnect)
           /\ Posted(t)
<1>1. PICK u \in Tasks : pc[u] = "wait"
    BY DEF Inv, OneToken
<1>2. mbox = <<u>> /\ nc.cur = NoTask /\ ~Signalled
    BY <1>1 DEF Inv, OneToken, Queued
<1>3. t = u /\ Tail(mbox) = <<>>
    BY <1>2
<1>4. \A v \in Tasks \ {t} : pc[v] = "idle"
    BY <1>1, <1>3 DEF Inv, OneCaller
<1>5. nc.sem = 0
    BY <1>2 DEF Signalled, Inv, TypeOK, NcType
<1>6. nc.state \notin {"WRITE", "CLOSE"} /\ (nc.state = "CONNECT" => nc.nbConnect)
    BY <1>2 DEF Inv, CurMsgState
<1>7. Posted(t)
    BY <1>1, <1>2, <1>3 DEF Inv, CallInv, Queued
<1> QED
    BY <1>1, <1>2, <1>3, <1>4, <1>5, <1>6, <1>7

\* A step that touches neither the call in progress nor the pcb keeps the invariant.
LEMMA QuietInv ==
    ASSUME Inv, TypeOK', SameCore(nc', nc), msg' = msg, mbox' = mbox,
           OneCaller', \A t \in Tasks : pc'[t] = "wait" <=> pc[t] = "wait",
           nc.mem # "alloc" => Serial' /\ (nc.mem = "free" => nc' = nc),
           pcb'.state = "SYN_SENT" <=> pcb.state = "SYN_SENT",
           pcb'.state = "NULL" <=> pcb.state = "NULL"
    PROVE  Inv'
<1>1. OneToken'
    BY DEF Inv, OneToken, SameCore, Queued, Signalled
<1>2. CurMsgState'
    BY DEF Inv, CurMsgState, SameCore, TypeOK, NcType
<1>3. PcbInv'
    BY DEF Inv, PcbInv, SameCore, Resting
<1>4. CallInv'
    BY DEF Inv, CallInv, SameCore, Queued, Posted, Answered, Signalled, Resting
<1>5. WriteReports'
    BY DEF Inv, WriteReports, SameCore, Signalled
<1> QED
    BY <1>1, <1>2, <1>3, <1>4, <1>5 DEF Inv

\* A task posts a message: NetconnNew, NetconnCall, RecvFetched.
LEMMA PostInv ==
    ASSUME Inv, TypeOK', NEW t \in Tasks, NEW m, Post(t, m),
           \A u \in Tasks : pc[u] # "wait", \A u \in Tasks \ {t} : pc[u] = "idle",
           m.fn # "none", m.queued = 0, m.fn = "write" => m.len > 0,
           m.fn = "delconn" => m.shut = {RD, WR},
           m.fn = "newconn" => pcb'.state = "NULL" /\ Resting(nc'),
           nc'.mem = "alloc", nc'.state = nc.state, nc'.cur = nc.cur, nc'.sem = nc.sem,
           nc'.nbConnect = nc.nbConnect, pcb' = pcb
    PROVE  Inv'
<1>1. mbox = <<>> /\ nc.cur = NoTask /\ nc.sem = 0 /\ nc.state \notin {"WRITE", "CLOSE"}
      /\ (nc.state = "CONNECT" => nc.nbConnect)
    BY IdleFacts
<1>2. mbox' = <<t>>
    BY <1>1 DEF Post
<1>3. pc'[t] = "wait" /\ msg'[t] = m /\ \A u \in Tasks \ {t} : pc'[u] = "idle" /\ msg'[u] = msg[u]
    BY DEF Post, Inv, TypeOK
<1>4. OneCaller' /\ OneToken'
    BY <1>1, <1>2, <1>3 DEF OneCaller, OneToken, Queued, Signalled
<1>5. CurMsgState' /\ WriteReports'
    BY <1>1, <1>3 DEF CurMsgState, WriteReports, Signalled, Inv
<1>6. PcbInv'
    BY <1>1 DEF PcbInv, Inv
<1>7. CallInv'
    BY <1>1, <1>3 DEF CallInv, Posted, Signalled, Inv
<1> QED
    BY <1>4, <1>5, <1>6, <1>7 DEF Inv

\* tcpip_thread answers the call of t.
LEMMA AnsweredInv ==
    ASSUME Inv, TypeOK', NEW t \in Tasks, pc[t] = "wait", pc' = pc, mbox' = <<>>,
           nc'.sem = 1, nc'.cur = NoTask, nc'.mem = nc.mem,
           nc'.state \in {"NONE", "LISTEN", "CONNECT"}, nc'.state = "CONNECT" => nc'.nbConnect,
           nc'.state = "CONNECT" <=> pcb'.state = "SYN_SENT",
           nc'.nbConnect => nc'.state = "CONNECT" \/ pcb'.state = "NULL",
           \A u \in Tasks : msg'[u].fn = msg[u].fn /\ msg'[u].shut = msg[u].shut,
           Answered(t)', WriteReports'
    PROVE  Inv'
<1>1. \A u \in Tasks \ {t} : pc[u] = "idle"
    BY DEF Inv, OneCaller
<1>2. nc.mem = "alloc"
    BY DEF Inv, PcbInv, Serial, TypeOK, NcType
<1>3. OneCaller' /\ OneToken'
    BY <1>1 DEF Inv, OneCaller, OneToken, Queued, Signalled
<1>4. CurMsgState'
    BY DEF CurMsgState
<1>5. PcbInv' /\ CallInv'
    BY <1>1, <1>2 DEF PcbInv, CallInv, Queued, Inv
<1> QED
    BY <1>3, <1>4, <1>5 DEF Inv

\* tcpip_thread keeps the message of t as current_msg.
LEMMA PendingInv ==
    ASSUME Inv, TypeOK', NEW t \in Tasks, pc[t] = "wait", pc' = pc, mbox' = <<>>,
           nc'.sem = 0, nc'.cur = t, nc'.mem = nc.mem, CurMsgState',
           nc'.nbConnect => pcb'.state = "NULL",
           nc'.state = "CONNECT" <=> pcb'.state = "SYN_SENT",
           \A u \in Tasks : msg'[u].fn = msg[u].fn /\ msg'[u].shut = msg[u].shut,
           nc'.state = "WRITE" => /\ msg'[t].queued = nc'.off
                                  /\ ~nc'.nonblocking /\ ~msg'[t].dontblock
    PROVE  Inv'
<1>1. \A u \in Tasks \ {t} : pc[u] = "idle"
    BY DEF Inv, OneCaller
<1>2. nc.mem = "alloc"
    BY DEF Inv, PcbInv, Serial, TypeOK, NcType
<1>3. t # NoTask
    BY DEF Inv
<1>4. OneCaller' /\ OneToken'
    BY <1>1, <1>3 DEF Inv, OneCaller, OneToken, Queued, Signalled
<1>5. PcbInv' /\ CallInv'
    BY <1>1, <1>2, <1>3 DEF PcbInv, CallInv, Queued, Signalled, Inv
<1>6. WriteReports'
    BY DEF WriteReports, Signalled
<1> QED
    BY <1>4, <1>5, <1>6 DEF Inv

----------------------------------------------------------------------------
(* The steps of the application tasks.                                     *)

\* tcpip_apimsg puts one message into the empty mbox.
LEMMA PostType ==
    ASSUME TypeOK, NEW t \in Tasks, NEW m \in MsgType, Post(t, m), mbox = <<>>
    PROVE  /\ mbox' \in Seq(Tasks) /\ Len(mbox') <= 1
           /\ msg' \in [Tasks -> MsgType]
           /\ pc' \in [Tasks -> {"idle", "wait", "fetch", "acceptFetch"}]
BY DEF TypeOK, Post

\* netconn_new_with_proto_and_callback keeps the invariant.
LEMMA NetconnNewInv == ASSUME Inv, NEW t \in Tasks, NetconnNew(t) PROVE Inv'
<1>0. \A u \in Tasks : pc[u] = "idle"
    BY DEF NetconnNew, Serial
<1>1. mbox = <<>> /\ nc.cur = NoTask /\ nc.sem = 0
    BY <1>0, IdleFacts
<1>2. Msg("newconn") \in MsgType
    BY MsgOfType DEF Fns
<1>3. TypeOK'
    BY <1>1, <1>2, PostType, FreeConnType, MboxType
    DEF NetconnNew, Inv, TypeOK, AllocConn, FreeConn
<1>4. pcb.state = "NULL" /\ nc = FreeConn
    BY DEF NetconnNew, Inv, PcbInv
<1>5. /\ nc'.mem = "alloc" /\ nc'.state = nc.state /\ nc'.cur = nc.cur /\ nc'.sem = nc.sem
      /\ nc'.nbConnect = nc.nbConnect /\ Resting(nc')
    BY <1>4 DEF NetconnNew, AllocConn, FreeConn, Resting
<1>6. Msg("newconn").fn = "newconn" /\ Msg("newconn").queued = 0
    BY DEF Msg, NoMsg
<1> QED
    BY <1>0, <1>2, <1>3, <1>4, <1>5, <1>6, PostInv DEF NetconnNew

\* What each API call asks for: a new message that has done nothing.
LEMMA RequestMsg ==
    ASSUME NEW t \in Tasks, Request(t)
    PROVE  \E m \in MsgType : /\ Post(t, m) /\ m.fn \notin {"none", "newconn"} /\ m.queued = 0
                              /\ m.fn = "write" => m.len > 0
                              /\ m.fn = "delconn" => m.shut = {RD, WR}
<1>1. CASE \E fn \in {"bind", "connect", "listen", "peer", "close", "delconn"} : Post(t, Msg(fn))
    BY <1>1, MsgOfType DEF Fns, Msg, NoMsg
<1>2. CASE Post(t, [Msg("close") EXCEPT !.shut = {RD}])
    <2>1. [Msg("close") EXCEPT !.shut = {RD}] \in MsgType
        BY ShutType, LensType, ErrType DEF Msg, NoMsg, MsgType, Fns
    <2> QED BY <1>2, <2>1 DEF Msg, NoMsg
<1>3. CASE Post(t, [Msg("close") EXCEPT !.shut = {WR}])
    <2>1. [Msg("close") EXCEPT !.shut = {WR}] \in MsgType
        BY ShutType, LensType, ErrType DEF Msg, NoMsg, MsgType, Fns
    <2> QED BY <1>3, <2>1 DEF Msg, NoMsg
<1>4. ASSUME NEW n \in 1 .. MaxLen, NEW d \in BOOLEAN,
             Post(t, [Msg("write") EXCEPT !.len = n, !.dontblock = d])
      PROVE  \E m \in MsgType : /\ Post(t, m) /\ m.fn \notin {"none", "newconn"} /\ m.queued = 0
                                /\ m.fn = "write" => m.len > 0
                                /\ m.fn = "delconn" => m.shut = {RD, WR}
    <2>1. n \in Lens /\ n > 0
        BY LensType
    <2>2. [Msg("write") EXCEPT !.len = n, !.dontblock = d] \in MsgType
        BY <2>1, ShutType, LensType, ErrType DEF Msg, NoMsg, MsgType, Fns
    <2> QED BY <1>4, <2>1, <2>2 DEF Msg, NoMsg
<1> QED
    BY <1>1, <1>2, <1>3, <1>4 DEF Request

\* The post of any API call keeps the invariant.
LEMMA NetconnCallInv == ASSUME Inv, NEW t \in Tasks, NetconnCall(t) PROVE Inv'
<1>0. \A u \in Tasks : pc[u] = "idle"
    BY DEF NetconnCall, Serial
<1>1. mbox = <<>>
    BY <1>0, IdleFacts
<1>2. PICK m \in MsgType : /\ Post(t, m) /\ m.fn \notin {"none", "newconn"} /\ m.queued = 0
                           /\ m.fn = "write" => m.len > 0
                           /\ m.fn = "delconn" => m.shut = {RD, WR}
    BY RequestMsg DEF NetconnCall
<1>3. TypeOK'
    BY <1>1, <1>2, PostType DEF NetconnCall, Inv, TypeOK
<1> QED
    BY <1>0, <1>2, <1>3, PostInv DEF NetconnCall

\* Taking the head of a mailbox.
LEMMA FetchType ==
    ASSUME NEW c \in NcType
    PROVE  /\ c.recvmbox.q # <<>> =>
                 /\ [c EXCEPT !.recvmbox.q = Tail(@)] \in NcType
                 /\ [c EXCEPT !.recvmbox.q = Tail(@)].recvmbox.q = Tail(c.recvmbox.q)
                 /\ [c EXCEPT !.recvmbox.q = Tail(@)].acceptmbox = c.acceptmbox
                 /\ SameCore([c EXCEPT !.recvmbox.q = Tail(@)], c)
                 /\ Len(Tail(c.recvmbox.q)) <= Len(c.recvmbox.q)
           /\ c.acceptmbox.q # <<>> =>
                 /\ [c EXCEPT !.acceptmbox.q = Tail(@)] \in NcType
                 /\ [c EXCEPT !.acceptmbox.q = Tail(@)].acceptmbox.q = Tail(c.acceptmbox.q)
                 /\ [c EXCEPT !.acceptmbox.q = Tail(@)].recvmbox = c.recvmbox
                 /\ SameCore([c EXCEPT !.acceptmbox.q = Tail(@)], c)
                 /\ Len(Tail(c.acceptmbox.q)) <= Len(c.acceptmbox.q)
<1> DEFINE r == [c.recvmbox EXCEPT !.q = Tail(@)]
           a == [c.acceptmbox EXCEPT !.q = Tail(@)]
<1>1. c.recvmbox \in RecvMbox /\ c.acceptmbox \in AcceptMbox
    BY DEF NcType, RecvMbox, AcceptMbox
<1>0. \A S : \A q \in Seq(S) : q # <<>> => Tail(q) \in Seq(S) /\ Len(Tail(q)) <= Len(q)
    OBVIOUS
<1>2. c.recvmbox.q # <<>> => r \in RecvMbox /\ r.q = Tail(c.recvmbox.q) /\ Len(r.q) <= Len(c.recvmbox.q)
    BY <1>0, <1>1 DEF RecvMbox, Mbox
<1>3. c.acceptmbox.q # <<>> => a \in AcceptMbox /\ a.q = Tail(c.acceptmbox.q) /\ Len(a.q) <= Len(c.acceptmbox.q)
    BY <1>0, <1>1 DEF AcceptMbox, Mbox
<1>4. ASSUME NEW x \in RecvMbox
      PROVE  /\ [c EXCEPT !.recvmbox = x] \in NcType /\ [c EXCEPT !.recvmbox = x].recvmbox = x
             /\ [c EXCEPT !.recvmbox = x].acceptmbox = c.acceptmbox
             /\ SameCore([c EXCEPT !.recvmbox = x], c)
    BY DEF NcType, SameCore, RecvMbox
<1>5. ASSUME NEW x \in AcceptMbox
      PROVE  /\ [c EXCEPT !.acceptmbox = x] \in NcType /\ [c EXCEPT !.acceptmbox = x].acceptmbox = x
             /\ [c EXCEPT !.acceptmbox = x].recvmbox = c.recvmbox
             /\ SameCore([c EXCEPT !.acceptmbox = x], c)
    BY DEF NcType, SameCore, AcceptMbox
<1>6. [c EXCEPT !.recvmbox.q = Tail(@)] = [c EXCEPT !.recvmbox = r]
    OBVIOUS
<1>7. [c EXCEPT !.acceptmbox.q = Tail(@)] = [c EXCEPT !.acceptmbox = a]
    OBVIOUS
<1> QED
    BY <1>2, <1>3, <1>4, <1>5, <1>6, <1>7

\* netconn_recv_data, the message for the stack included, keeps the invariant.
LEMMA RecvFetchedInv == ASSUME Inv, NEW t \in Tasks, RecvFetched(t) PROVE Inv'
<1>0. pc[t] = "fetch" /\ \A u \in Tasks \ {t} : pc[u] = "idle"
    BY DEF RecvFetched, Inv, OneCaller
<1>1. mbox = <<>>
    BY <1>0, IdleFacts
<1>2. PICK m \in MsgType : Post(t, m) /\ m.fn \in {"recv", "recvNull"} /\ m.queued = 0
    <2>1. Msg("recv") \in MsgType /\ Msg("recvNull") \in MsgType
        BY MsgOfType DEF Fns
    <2> QED BY <2>1 DEF RecvFetched, Msg, NoMsg
<1>a. nc \in NcType /\ nc.recvmbox.q # <<>> /\ nc' = [nc EXCEPT !.recvmbox.q = Tail(@)]
    BY DEF RecvFetched, Inv, TypeOK
<1>3. nc' \in NcType /\ nc'.recvmbox.q = Tail(nc.recvmbox.q) /\ nc'.acceptmbox = nc.acceptmbox
      /\ SameCore(nc', nc)
    BY <1>a, FetchType
<1>4. Len(Tail(nc.recvmbox.q)) <= RecvCap
    BY <1>a, FetchType DEF Inv, TypeOK, NcType, Mbox
<1>5. TypeOK'
    BY <1>1, <1>2, <1>3, <1>4, PostType DEF RecvFetched, Inv, TypeOK
<1>6. nc.mem = "alloc"
    BY <1>0 DEF Inv, PcbInv, Serial
<1> QED
    BY <1>0, <1>2, <1>3, <1>5, <1>6, PostInv DEF RecvFetched, SameCore

\* NETCONN_SET_SAFE_ERR changes last_err only.
LEMMA SafeErrType ==
    ASSUME NEW c \in NcType, NEW e \in Err
    PROVE  SafeErr(c, e) \in NcType /\ SameCore(SafeErr(c, e), c)
           /\ SafeErr(c, e).recvmbox = c.recvmbox /\ SafeErr(c, e).acceptmbox = c.acceptmbox
BY DEF SafeErr, NcType, SameCore

\* Steps that only touch what the invariant does not speak of.
LEMMA QuietAppInv ==
    ASSUME Inv, NEW t \in Tasks,
           SetNonblocking(t) \/ NetconnRecv(t) \/ NetconnAccept(t) \/ RecvTimeout(t)
           \/ AcceptTimeout(t) \/ AcceptFetched(t)
    PROVE  Inv'
<1>1. /\ nc' \in NcType /\ Len(nc'.recvmbox.q) <= RecvCap /\ Len(nc'.acceptmbox.q) <= AcceptCap
      /\ SameCore(nc', nc) /\ UNCHANGED <<pcb, mbox, msg, thr>>
    <2>1. CASE SetNonblocking(t)
        <3>1. nc.state # "WRITE"
            BY <2>1, IdleFacts DEF SetNonblocking, Serial
        <3> QED BY <2>1, <3>1 DEF SetNonblocking, Inv, TypeOK, NcType, SameCore
    <2>2. CASE NetconnRecv(t) \/ NetconnAccept(t)
        BY <2>2 DEF NetconnRecv, NetconnAccept, Inv, TypeOK, SameCore
    <2>3. CASE RecvTimeout(t) \/ AcceptTimeout(t)
        BY <2>3, SafeErrType, ErrType DEF RecvTimeout, AcceptTimeout, Inv, TypeOK
    <2>4. CASE AcceptFetched(t)
        <3>1. nc \in NcType /\ nc.acceptmbox.q # <<>>
            BY <2>4 DEF AcceptFetched, Inv, TypeOK
        <3> DEFINE c == [nc EXCEPT !.acceptmbox.q = Tail(@)]
        <3>2. /\ c \in NcType /\ c.acceptmbox.q = Tail(nc.acceptmbox.q) /\ c.recvmbox = nc.recvmbox
              /\ SameCore(c, nc) /\ Len(c.acceptmbox.q) <= Len(nc.acceptmbox.q)
            BY <3>1, FetchType
        <3>3. SafeErr(c, "FATAL") \in NcType /\ SameCore(SafeErr(c, "FATAL"), c)
              /\ SafeErr(c, "FATAL").recvmbox = c.recvmbox
              /\ SafeErr(c, "FATAL").acceptmbox = c.acceptmbox
            BY <3>2, SafeErrType, ErrType
        <3>4. nc' = c \/ nc' = SafeErr(c, "FATAL")
            BY <2>4 DEF AcceptFetched
        <3>5. Len(nc'.acceptmbox.q) <= AcceptCap
            <4>1. Len(c.acceptmbox.q) \in Nat /\ Len(nc.acceptmbox.q) \in Nat
                BY <3>1, <3>2 DEF NcType, Mbox
            <4>2. Len(nc'.acceptmbox.q) = Len(c.acceptmbox.q)
                BY <3>3, <3>4
            <4>3. Len(nc.acceptmbox.q) <= AcceptCap /\ AcceptCap \in Nat
                BY DEF Inv, TypeOK
            <4>4. Len(c.acceptmbox.q) <= Len(nc.acceptmbox.q)
                BY <3>2
            <4> HIDE DEF c
            <4> QED BY <4>1, <4>2, <4>3, <4>4
        <3> HIDE DEF c
        <3>6. SameCore(nc', nc)
            BY <3>2, <3>3, <3>4 DEF SameCore
        <3> QED
            BY <2>4, <3>2, <3>3, <3>4, <3>5, <3>6 DEF AcceptFetched, Inv, TypeOK
    <2> QED BY <2>1, <2>2, <2>3, <2>4
<1>2. /\ pc' \in [Tasks -> {"idle", "wait", "fetch", "acceptFetch"}]
      /\ pc'[t] # "wait" /\ pc[t] # "wait" /\ \A u \in Tasks \ {t} : pc'[u] = pc[u] /\ pc[u] = "idle"
      /\ nc.mem # "alloc" => Serial'
    <2>1. \A u \in Tasks \ {t} : pc[u] = "idle"
        BY DEF SetNonblocking, NetconnRecv, NetconnAccept, RecvTimeout, AcceptTimeout,
               AcceptFetched, Serial, Inv, OneCaller
    <2>2. pc'[t] # "wait" /\ pc[t] # "wait" /\ pc' \in [Tasks -> {"idle", "wait", "fetch", "acceptFetch"}]
          /\ \A u \in Tasks \ {t} : pc'[u] = pc[u]
        BY DEF SetNonblocking, NetconnRecv, NetconnAccept, RecvTimeout, AcceptTimeout,
               AcceptFetched, Serial, Inv, TypeOK
    <2>3. nc.mem # "alloc" => pc'[t] = "idle"
        BY DEF SetNonblocking, NetconnRecv, NetconnAccept, RecvTimeout, AcceptTimeout,
               AcceptFetched, Inv, TypeOK
    <2> QED BY <2>1, <2>2, <2>3 DEF Serial
<1>3. TypeOK'
    BY <1>1, <1>2 DEF Inv, TypeOK
<1>4. nc.mem = "free" => nc' = nc
    BY DEF SetNonblocking, NetconnRecv, NetconnAccept, RecvTimeout, AcceptTimeout,
           AcceptFetched, Inv, PcbInv, Serial
<1>5. OneCaller' /\ \A u \in Tasks : pc'[u] = "wait" <=> pc[u] = "wait"
    BY <1>2 DEF OneCaller
<1> QED
    BY <1>1, <1>2, <1>3, <1>4, <1>5, QuietInv

\* A task that gets to know an accepted netconn keeps the invariant.
LEMMA AcceptedInv == ASSUME Inv, NEW t \in Tasks, Accepted(t) PROVE Inv'
<1>1. \A u \in Tasks : pc[u] = "idle"
    BY DEF Accepted, Serial
<1>2. nc' \in NcType /\ nc'.recvmbox = nc.recvmbox /\ nc'.acceptmbox = nc.acceptmbox
      /\ nc'.state = nc.state /\ nc'.cur = nc.cur /\ nc'.nbConnect = nc.nbConnect
      /\ nc'.off = nc.off /\ nc'.sem = nc.sem /\ nc'.mem = "alloc"
    BY DEF Accepted, Inv, TypeOK, NcType
<1>3. TypeOK'
    BY <1>2 DEF Accepted, Inv, TypeOK
<1>4. OneCaller' /\ OneToken'
    BY <1>1, <1>2 DEF Accepted, Inv, OneCaller, OneToken, Queued, Signalled
<1>5. CurMsgState' /\ WriteReports' /\ CallInv'
    BY <1>1, <1>2 DEF Accepted, Inv, CurMsgState, WriteReports, CallInv
<1>6. PcbInv'
    BY <1>1, <1>2 DEF Accepted, Inv, PcbInv
<1> QED
    BY <1>3, <1>4, <1>5, <1>6 DEF Inv

\* The end of an API call, the release of the conn included, keeps the invariant.
LEMMA ReturnInv == ASSUME Inv, NEW t \in Tasks, Return(t) PROVE Inv'
<1>1. pc[t] = "wait" /\ \A u \in Tasks \ {t} : pc[u] = "idle"
    BY DEF Return, Inv, OneCaller
<1>2. mbox = <<>> /\ nc.cur = NoTask
    BY DEF Return, Inv, OneToken, Signalled, Queued
<1>3. nc.mem = "alloc"
    BY <1>1 DEF Inv, PcbInv, Serial
<1> DEFINE c == [nc EXCEPT !.sem = 0]
<1>4. /\ c \in NcType /\ c.recvmbox = nc.recvmbox /\ c.acceptmbox = nc.acceptmbox
      /\ c.state = nc.state /\ c.cur = nc.cur /\ c.nbConnect = nc.nbConnect
      /\ c.off = nc.off /\ c.sem = 0 /\ c.mem = nc.mem
    BY DEF Inv, TypeOK, NcType
<1>5. msg[t].err \in Err /\ msg[t].fn \in Fns
    BY DEF Inv, TypeOK, MsgType
<1>6. \/ nc' = FreeConn /\ pcb.state = "NULL"
      \/ /\ nc' \in NcType /\ nc'.recvmbox = nc.recvmbox /\ nc'.acceptmbox = nc.acceptmbox
         /\ SameCore(nc', c)
    <2>1. CASE msg[t].fn = "delconn" \/ (msg[t].fn = "newconn" /\ msg[t].err # "OK")
        <3>1. pcb.state = "NULL"
            BY <1>1, <2>1 DEF Return, Inv, CallInv, Answered, Signalled
        <3>2. nc' = FreeConn
            BY <2>1 DEF Return
        <3> QED BY <3>1, <3>2
    <2>2. CASE ~(msg[t].fn = "delconn" \/ (msg[t].fn = "newconn" /\ msg[t].err # "OK"))
        <3>1. nc' = c \/ nc' = SafeErr(c, "FATAL") \/ nc' = SafeErr(c, msg[t].err)
            BY <2>2 DEF Return
        <3> HIDE DEF c
        <3>2. SameCore(c, c)
            BY DEF SameCore
        <3>3. ASSUME NEW e \in Err
              PROVE  /\ SafeErr(c, e) \in NcType /\ SameCore(SafeErr(c, e), c)
                     /\ SafeErr(c, e).recvmbox = nc.recvmbox
                     /\ SafeErr(c, e).acceptmbox = nc.acceptmbox
            BY <1>4, SafeErrType
        <3>4. CASE nc' = c
            BY <1>4, <3>2, <3>4
        <3>5. CASE nc' = SafeErr(c, "FATAL")
            BY <3>3, <3>5, ErrType
        <3>6. CASE nc' = SafeErr(c, msg[t].err)
            BY <1>5, <3>3, <3>6
        <3> QED BY <3>1, <3>4, <3>5, <3>6
    <2> QED BY <2>1, <2>2
<1>7. TypeOK'
    <2>1. pc' \in [Tasks -> {"idle", "wait", "fetch", "acceptFetch"}]
          /\ msg' \in [Tasks -> MsgType]
        BY MsgOfType DEF Return, Inv, TypeOK
    <2> QED
        BY <1>6, <2>1, FreeConnType, MboxType DEF Return, FreeConn, Inv, TypeOK
<1>8. \A u \in Tasks : pc'[u] = "idle"
    BY <1>1 DEF Return, Inv, TypeOK
<1>9. nc'.cur = NoTask /\ nc'.sem = 0 /\ (nc' # FreeConn => SameCore(nc', c))
    BY <1>2, <1>4, <1>6 DEF SameCore, FreeConn
<1> HIDE DEF c
<1>10. OneCaller' /\ OneToken' /\ WriteReports'
    BY <1>2, <1>8, <1>9 DEF Return, OneCaller, OneToken, WriteReports, Queued, Signalled
<1>13. CallInv'
    <2>1. NoMsg.fn = "none" /\ msg' = [msg EXCEPT ![t] = NoMsg] /\ msg \in [Tasks -> MsgType]
        BY DEF NoMsg, Return, Inv, TypeOK
    <2>2. \A u \in Tasks : msg'[u].fn = "delconn" => msg'[u].shut = {RD, WR}
        BY <2>1 DEF Inv, CallInv
    <2> QED BY <1>8, <2>2 DEF CallInv
<1>11. CurMsgState'
    <2>1. CurMsgState /\ pcb' = pcb
        BY DEF Return, Inv
    <2>2. CASE nc' = FreeConn
        <3>1. nc'.state = "NONE" /\ nc'.cur = NoTask
            BY <2>2 DEF FreeConn
        <3> QED BY <3>1 DEF CurMsgState
    <2>3. CASE SameCore(nc', c)
        <3>1. nc'.state = nc.state /\ nc'.nbConnect = nc.nbConnect /\ nc'.cur = NoTask
            BY <1>2, <1>4, <2>3 DEF SameCore
        <3>2. nc.state \notin {"WRITE", "CLOSE"} /\ (nc.state = "CONNECT" => nc.nbConnect)
            BY <1>2, <2>1 DEF CurMsgState
        <3> QED BY <2>1, <3>1, <3>2 DEF CurMsgState
    <2> QED BY <1>6, <2>2, <2>3
<1>12. PcbInv'
    <2>1. CASE nc' = FreeConn /\ pcb.state = "NULL"
        <3>1. nc'.state = "NONE" /\ ~nc'.nbConnect
            BY <2>1 DEF FreeConn
        <3> QED BY <1>8, <2>1, <3>1 DEF Return, PcbInv, Serial
    <2>2. CASE SameCore(nc', c)
        BY <1>2, <1>3, <1>4, <1>8, <2>2 DEF Return, Inv, PcbInv, CurMsgState, SameCore
    <2> QED BY <1>6, <2>1, <2>2
<1> QED
    BY <1>7, <1>10, <1>11, <1>12, <1>13 DEF Inv

----------------------------------------------------------------------------
(* The steps of tcpip_thread.                                              *)

Bounded(c) == /\ c \in NcType
              /\ Len(c.recvmbox.q) <= RecvCap /\ Len(c.acceptmbox.q) <= AcceptCap

\* The signal of op_completed changes nothing else.
LEMMA SignalType ==
    ASSUME NEW c, Bounded(c)
    PROVE  /\ Bounded(Signal(c)) /\ Signal(c).sem = 1
           /\ Signal(c).cur = c.cur /\ Signal(c).mem = c.mem /\ Signal(c).state = c.state
           /\ Signal(c).nbConnect = c.nbConnect /\ Signal(c).off = c.off
BY DEF Signal, Bounded, NcType

\* An answer written to a message leaves it a message.
LEMMA MsgUpdate ==
    ASSUME NEW m \in [Tasks -> MsgType], NEW t \in Tasks, NEW e \in Err, NEW n \in Lens, NEW k \in Nat
    PROVE  /\ [m EXCEPT ![t].err = e] \in [Tasks -> MsgType]
           /\ [m EXCEPT ![t].err = e, ![t].len = n] \in [Tasks -> MsgType]
           /\ [m EXCEPT ![t].queued = @ + k] \in [Tasks -> MsgType]
           /\ [m EXCEPT ![t].err = e, ![t].len = n, ![t].queued = @ + k] \in [Tasks -> MsgType]
<1>1. m[t] \in MsgType
    OBVIOUS
<1>2. /\ [m[t] EXCEPT !.err = e] \in MsgType
      /\ [m[t] EXCEPT !.err = e, !.len = n] \in MsgType
    BY <1>1 DEF MsgType
<1>3. m[t].queued + k \in Nat
    BY <1>1 DEF MsgType
<1>4. ASSUME NEW r \in MsgType, NEW j \in Nat
      PROVE  [r EXCEPT !.queued = j] \in MsgType
    BY DEF MsgType
<1>5. [m[t] EXCEPT !.queued = m[t].queued + k] \in MsgType
    BY <1>1, <1>3, <1>4
<1>6. [m[t] EXCEPT !.err = e, !.len = n, !.queued = m[t].queued + k] \in MsgType
    <2> DEFINE r == [m[t] EXCEPT !.err = e, !.len = n]
    <2>1. [r EXCEPT !.queued = m[t].queued + k] \in MsgType
        BY <1>2, <1>3, <1>4
    <2>2. [r EXCEPT !.queued = m[t].queued + k] =
          [m[t] EXCEPT !.err = e, !.len = n, !.queued = m[t].queued + k]
        OBVIOUS
    <2> QED BY <2>1, <2>2
<1>7. ASSUME NEW r \in MsgType PROVE [m EXCEPT ![t] = r] \in [Tasks -> MsgType]
    OBVIOUS
<1>8. [m EXCEPT ![t] = [m[t] EXCEPT !.err = e]] \in [Tasks -> MsgType]
    BY <1>2, <1>7
<1>9. [m EXCEPT ![t] = [m[t] EXCEPT !.err = e, !.len = n]] \in [Tasks -> MsgType]
    BY <1>2, <1>7
<1>10. [m EXCEPT ![t] = [m[t] EXCEPT !.queued = m[t].queued + k]] \in [Tasks -> MsgType]
    BY <1>5, <1>7
<1>11. [m EXCEPT ![t] = [m[t] EXCEPT !.err = e, !.len = n, !.queued = m[t].queued + k]]
       \in [Tasks -> MsgType]
    BY <1>6, <1>7
<1> QED
    BY <1>8, <1>9, <1>10, <1>11

\* The state in which tcpip_thread works for task t.
Serving(t) == /\ Inv /\ t \in Tasks /\ pc[t] = "wait" /\ pc' = pc /\ mbox' = <<>>
              /\ thr' \in {"loop", "tail"}

\* A handler that keeps the types of what it changes keeps all types.
LEMMA ServingType ==
    ASSUME NEW t, Serving(t), Bounded(nc'), pcb' \in PcbType, msg' \in [Tasks -> MsgType]
    PROVE  TypeOK'
BY MboxType DEF Serving, Bounded, TypeOK, Inv

\* TCPIP_APIMSG_ACK ends a call and keeps the invariant.
LEMMA AckInv ==
    ASSUME NEW t, Serving(t), NEW c, Bounded(c), NEW p \in PcbType, NEW e \in Err, Ack(t, c, p, e),
           c.mem = nc.mem, c.cur = NoTask, c.state \in {"NONE", "LISTEN", "CONNECT"},
           c.state = "CONNECT" => c.nbConnect, c.state = "CONNECT" <=> p.state = "SYN_SENT",
           c.nbConnect => c.state = "CONNECT" \/ p.state = "NULL",
           msg[t].fn = "delconn" => p.state = "NULL",
           msg[t].fn = "newconn" /\ e # "OK" => p.state = "NULL",
           msg[t].fn = "write" => e = "FATAL" \/ (e = "SOFT" /\ msg[t].queued = 0)
    PROVE  Inv'
<1>1. msg' \in [Tasks -> MsgType]
    BY MsgUpdate, LensType DEF Ack, Serving, Inv, TypeOK
<1>2. /\ \A u \in Tasks : msg'[u].fn = msg[u].fn /\ msg'[u].shut = msg[u].shut
      /\ msg'[t].err = e /\ msg'[t].queued = msg[t].queued
    <2>1. msg \in [Tasks -> MsgType]
        BY DEF Serving, Inv, TypeOK
    <2> QED BY <2>1 DEF Ack, Serving, MsgType
<1>3. nc' = Signal(c) /\ pcb' = p
    BY DEF Ack
<1>4. TypeOK'
    BY <1>1, <1>3, SignalType, ServingType
<1>5. Answered(t)'
    BY <1>2, <1>3 DEF Answered, Serving
<1>6. WriteReports'
    BY <1>2 DEF WriteReports, Serving, Inv, OneCaller
<1> QED
    BY <1>2, <1>3, <1>4, <1>5, <1>6, SignalType, AnsweredInv DEF Serving

\* A handler: the message of t is the one the thread takes from its mbox.
LEMMA HandleFacts ==
    ASSUME Inv, NEW t \in Tasks, NEW fn, Handle(t, fn)
    PROVE  /\ Serving(t) /\ Bounded(nc) /\ pcb \in PcbType /\ nc.lastErr \in Err
           /\ nc.cur = NoTask /\ nc.sem = 0 /\ nc.mem = "alloc"
           /\ nc.state \in {"NONE", "LISTEN", "CONNECT"}
           /\ (nc.state = "CONNECT" => nc.nbConnect)
           /\ (nc.state = "CONNECT" <=> pcb.state = "SYN_SENT")
           /\ (nc.nbConnect => nc.state = "CONNECT" \/ pcb.state = "NULL")
           /\ Posted(t) /\ msg[t].fn = fn /\ msg[t] \in MsgType
<1>1. mbox # <<>> /\ t = Head(mbox) /\ msg[t].fn = fn /\ mbox' = Tail(mbox) /\ pc' = pc /\ thr' = thr
    BY DEF Handle
<1>2. Serving(t)
    BY <1>1, QueuedFacts DEF Serving, Inv, TypeOK
<1>3. Bounded(nc) /\ pcb \in PcbType /\ nc.lastErr \in Err /\ msg[t] \in MsgType
    BY DEF Bounded, Inv, TypeOK, NcType
<1>4. nc.state \in {"NONE", "WRITE", "LISTEN", "CONNECT", "CLOSE"}
    BY DEF Inv, TypeOK, NcType
<1>5. nc.mem = "alloc"
    BY <1>2 DEF Serving, Inv, PcbInv, Serial
<1>6. PcbInv
    BY DEF Inv
<1> QED
    BY <1>1, <1>2, <1>3, <1>4, <1>5, <1>6, QueuedFacts DEF PcbInv

\* A handler that refuses the call, or that changes nothing but answers it.
LEMMA RefuseInv ==
    ASSUME Inv, NEW t \in Tasks, NEW fn, Handle(t, fn), NEW e \in Err, Ack(t, nc, pcb, e),
           fn = "delconn" => pcb.state = "NULL",
           fn = "write" => e # "OK"
    PROVE  Inv'
<1>1. msg[t].fn = "newconn" => pcb.state = "NULL"
    BY HandleFacts DEF Posted
<1>2. msg[t].fn = "write" => e = "FATAL" \/ (e = "SOFT" /\ msg[t].queued = 0)
    BY HandleFacts DEF Posted, Err
<1> QED
    BY <1>1, <1>2, HandleFacts, AckInv

----------------------------------------------------------------------------
(* The handlers that answer at once.                                       *)

\* A pcb that changes its state is a pcb.
LEMMA PcbStateType ==
    ASSUME NEW p \in PcbType, NEW s \in PcbStates
    PROVE  /\ [p EXCEPT !.state = s] \in PcbType /\ [p EXCEPT !.state = s].state = s
           /\ Setup(p) \in PcbType /\ Setup(p).state = p.state
BY DEF PcbType, Setup

\* The pcbs of tcp_new, and no pcb.
LEMMA NewPcbType ==
    /\ NoPcb \in PcbType /\ NoPcb.state = "NULL"
    /\ \A s \in PcbStates : /\ NewPcb(s) \in PcbType /\ NewPcb(s).state = s
                            /\ [NoPcb EXCEPT !.state = s] \in PcbType
                            /\ [NoPcb EXCEPT !.state = s].state = s
<1>1. SndBuf \in 0 .. SndBuf
    OBVIOUS
<1>2. NoPcb \in PcbType /\ NoPcb.state = "NULL"
    BY <1>1 DEF NoPcb, PcbType, PcbStates
<1>3. ASSUME NEW s \in PcbStates
      PROVE  NewPcb(s) \in PcbType /\ NewPcb(s).state = s
    BY <1>1, <1>3 DEF NewPcb, PcbType
<1> QED
    BY <1>2, <1>3, PcbStateType

\* The states of a pcb.
LEMMA StateNames == /\ {"NULL", "CLOSED", "LISTEN", "TIME_WAIT", "FREED"} \subseteq PcbStates
                    /\ Active \subseteq PcbStates
BY DEF PcbStates, Active

\* do_newconn keeps the invariant.
LEMMA DoNewconnInv == ASSUME Inv, NEW t \in Tasks, DoNewconn(t) PROVE Inv'
<1>1. CASE Ack(t, nc, NewPcb("CLOSED"), "OK")
    <2>1. Handle(t, "newconn")
        BY DEF DoNewconn
    <2>2. Resting(nc)
        BY <2>1, HandleFacts DEF Posted
    <2>3. NewPcb("CLOSED") \in PcbType /\ NewPcb("CLOSED").state = "CLOSED"
        BY NewPcbType, StateNames
    <2>4. nc.state \in {"NONE", "LISTEN"} /\ ~nc.nbConnect
        BY <2>2 DEF Resting
    <2> QED
        BY <1>1, <2>1, <2>3, <2>4, HandleFacts, ErrType, AckInv
<1>2. CASE Ack(t, nc, pcb, "SOFT")
    BY <1>2, RefuseInv, ErrType DEF DoNewconn
<1> QED
    BY <1>1, <1>2 DEF DoNewconn

\* do_bind keeps the invariant.
LEMMA DoBindInv == ASSUME Inv, NEW t \in Tasks, DoBind(t) PROVE Inv'
<1>1. Handle(t, "bind")
    BY DEF DoBind
<1>2. \E e \in Err : Ack(t, nc, pcb, e)
    BY <1>1, HandleFacts, ErrType DEF DoBind
<1> QED
    BY <1>1, <1>2, RefuseInv

\* do_recv keeps the invariant.
LEMMA DoRecvInv == ASSUME Inv, NEW t \in Tasks, DoRecv(t) PROVE Inv'
BY RefuseInv, ErrType DEF DoRecv

\* do_getaddr keeps the invariant.
LEMMA DoGetaddrInv == ASSUME Inv, NEW t \in Tasks, DoGetaddr(t) PROVE Inv'
BY RefuseInv, ErrType DEF DoGetaddr

\* do_listen keeps the invariant.
LEMMA DoListenInv == ASSUME Inv, NEW t \in Tasks, DoListen(t) PROVE Inv'
<1>1. Handle(t, "listen")
    BY DEF DoListen
<1> DEFINE c == [nc EXCEPT !.recvmbox = NoMbox, !.acceptmbox = NewMbox, !.state = "LISTEN"]
           d == [nc EXCEPT !.recvmbox = NoMbox]
           p == [NoPcb EXCEPT !.state = "LISTEN"]
<1>2. \/ \E e \in Err : Ack(t, nc, pcb, e)
      \/ pcb.state = "CLOSED" /\ nc.state = "NONE" /\ Ack(t, c, p, "OK")
      \/ pcb.state = "CLOSED" /\ nc.state = "NONE" /\ Ack(t, d, NoPcb, "SOFT")
    BY <1>1, HandleFacts, ErrType DEF DoListen
<1>3. CASE \E e \in Err : Ack(t, nc, pcb, e)
    BY <1>1, <1>3, RefuseInv
<1>4. nc \in NcType
    BY <1>1, HandleFacts DEF Bounded
<1>5. CASE pcb.state = "CLOSED" /\ nc.state = "NONE" /\ Ack(t, c, p, "OK")
    <2>1. Bounded(c)
        <3>1. NoMbox \in Mbox({"data", "NULL"}) /\ NewMbox \in Mbox({"conn", "NULL"})
            BY MboxType
        <3>2. c \in NcType /\ c.recvmbox = NoMbox /\ c.acceptmbox = NewMbox
            BY <1>4, <3>1 DEF NcType
        <3> HIDE DEF c
        <3> QED BY <3>2, MboxType DEF Bounded
    <2>2. c.mem = nc.mem /\ c.cur = nc.cur /\ c.state = "LISTEN" /\ c.nbConnect = nc.nbConnect
        BY <1>4 DEF NcType
    <2>3. p \in PcbType /\ p.state = "LISTEN"
        BY NewPcbType, StateNames
    <2> HIDE DEF c, p
    <2> QED BY <1>1, <1>5, <2>1, <2>2, <2>3, HandleFacts, ErrType, AckInv
<1>6. CASE pcb.state = "CLOSED" /\ nc.state = "NONE" /\ Ack(t, d, NoPcb, "SOFT")
    <2>1. Bounded(d)
        BY <1>1, <1>4, HandleFacts, MboxType DEF NcType, Bounded
    <2>2. d.mem = nc.mem /\ d.cur = nc.cur /\ d.state = "NONE" /\ d.nbConnect = nc.nbConnect
        BY <1>4, <1>6 DEF NcType
    <2> HIDE DEF d
    <2> QED BY <1>1, <1>6, <2>1, <2>2, HandleFacts, NewPcbType, ErrType, AckInv
<1> QED
    BY <1>2, <1>3, <1>5, <1>6

\* do_connect, blocking or not, keeps the invariant.
LEMMA DoConnectInv == ASSUME Inv, NEW t \in Tasks, DoConnect(t) PROVE Inv'
<1>1. Handle(t, "connect")
    BY DEF DoConnect
<1> DEFINE p == [Setup(pcb) EXCEPT !.state = "SYN_SENT"]
           c == [nc EXCEPT !.state = "CONNECT", !.nbConnect = nc.nonblocking]
           d == [c EXCEPT !.cur = t]
<1>0. nc \in NcType /\ pcb \in PcbType /\ Bounded(nc)
    BY <1>1, HandleFacts DEF Bounded
<1>2. p \in PcbType /\ p.state = "SYN_SENT" /\ Setup(pcb) \in PcbType /\ Setup(pcb).state = pcb.state
    BY <1>0, PcbStateType DEF PcbStates, Active
<1>3. /\ Bounded(c) /\ c.mem = nc.mem /\ c.cur = nc.cur /\ c.state = "CONNECT" /\ c.sem = nc.sem
      /\ c.nbConnect = nc.nonblocking /\ c.nonblocking = nc.nonblocking
    BY <1>0 DEF NcType, Bounded
<1>4. \/ Ack(t, nc, pcb, "FATAL") \/ Ack(t, nc, pcb, "SOFT")
      \/ pcb.state # "NULL" /\ nc.state = "NONE" /\ Ack(t, nc, Setup(pcb), "SOFT")
      \/ nc.nonblocking /\ Ack(t, c, p, "SOFT")
      \/ ~nc.nonblocking /\ nc' = d /\ pcb' = p /\ msg' = [msg EXCEPT ![t].err = "OK"]
    BY DEF DoConnect
<1>5. CASE Ack(t, nc, pcb, "FATAL") \/ Ack(t, nc, pcb, "SOFT")
    BY <1>1, <1>5, ErrType, RefuseInv
<1>6. CASE pcb.state # "NULL" /\ nc.state = "NONE" /\ Ack(t, nc, Setup(pcb), "SOFT")
    BY <1>1, <1>2, <1>6, HandleFacts, ErrType, AckInv
<1>7. CASE nc.nonblocking /\ Ack(t, c, p, "SOFT")
    <2> HIDE DEF c, p
    <2> QED BY <1>1, <1>2, <1>3, <1>7, HandleFacts, ErrType, AckInv
<1>8. CASE ~nc.nonblocking /\ nc' = d /\ pcb' = p /\ msg' = [msg EXCEPT ![t].err = "OK"]
    <2>1. /\ Bounded(d) /\ d.mem = nc.mem /\ d.cur = t /\ d.state = "CONNECT" /\ d.sem = nc.sem
          /\ d.nbConnect = nc.nonblocking
        <3> HIDE DEF c
        <3> QED BY <1>3 DEF NcType, Bounded
    <2> HIDE DEF c, d, p
    <2>2. msg' \in [Tasks -> MsgType]
        BY <1>8, MsgUpdate, LensType, ErrType DEF Inv, TypeOK
    <2>3. \A u \in Tasks : msg'[u].fn = msg[u].fn /\ msg'[u].shut = msg[u].shut
        BY <1>8 DEF Inv, TypeOK, MsgType
    <2>4. TypeOK'
        BY <1>1, <1>2, <1>8, <2>1, <2>2, HandleFacts, ServingType
    <2>5. CurMsgState'
        BY <1>1, <1>2, <1>8, <2>1, <2>3, HandleFacts DEF CurMsgState, Serving
    <2> QED
        BY <1>1, <1>2, <1>8, <2>1, <2>3, <2>4, <2>5, HandleFacts, PendingInv DEF Serving
<1> QED
    BY <1>4, <1>5, <1>6, <1>7, <1>8

----------------------------------------------------------------------------
(* Writing and closing, from a handler or continued by a callback.         *)

\* What an answer changes of a message, and of no other.
LEMMA MsgFields ==
    ASSUME NEW m \in [Tasks -> MsgType], NEW t \in Tasks, NEW e \in Err, NEW n \in Lens, NEW k \in Nat
    PROVE  /\ \A u \in Tasks : /\ [m EXCEPT ![t].err = e, ![t].len = n][u].fn = m[u].fn
                               /\ [m EXCEPT ![t].err = e, ![t].len = n][u].shut = m[u].shut
                               /\ [m EXCEPT ![t].queued = @ + k][u].fn = m[u].fn
                               /\ [m EXCEPT ![t].queued = @ + k][u].shut = m[u].shut
           /\ [m EXCEPT ![t].err = e, ![t].len = n][t].queued = m[t].queued
           /\ [m EXCEPT ![t].err = e, ![t].len = n][t].err = e
           /\ [m EXCEPT ![t].err = e, ![t].len = n][t].len = n
           /\ [m EXCEPT ![t].queued = @ + k][t].queued = m[t].queued + k
           /\ [m EXCEPT ![t].queued = @ + k][t].len = m[t].len
           /\ [m EXCEPT ![t].queued = @ + k][t].dontblock = m[t].dontblock
BY DEF MsgType

\* What the end of do_writemore changes of a message.
LEMMA MsgFinish ==
    ASSUME NEW m \in [Tasks -> MsgType], NEW t \in Tasks, NEW e \in Err, NEW n \in Lens, NEW k \in Nat
    PROVE  LET m2 == [m EXCEPT ![t].err = e, ![t].len = n, ![t].queued = @ + k]
           IN  /\ \A u \in Tasks : m2[u].fn = m[u].fn /\ m2[u].shut = m[u].shut
               /\ m2[t].queued = m[t].queued + k /\ m2[t].err = e /\ m2[t].len = n
BY DEF MsgType

\* A write in progress, of message t on conn c and pcb p.
Writing(t, c, p) ==
    /\ Serving(t) /\ Bounded(c) /\ p \in PcbType
    /\ c.mem = nc.mem /\ c.state = "WRITE" /\ c.cur = t /\ c.sem = 0 /\ ~c.nbConnect
    /\ c.off < msg[t].len /\ c.off = msg[t].queued /\ msg[t].fn = "write"
    /\ c.nonblocking \/ msg[t].dontblock => c.off = 0
    /\ p.state \notin {"NULL", "SYN_SENT"}

\* It ends with error e.
LEMMA ReleaseInv ==
    ASSUME NEW t, NEW c, NEW p, Writing(t, c, p), NEW o \in Lens, NEW q \in PcbType, q.state = p.state,
           nc' = Signal([c EXCEPT !.cur = NoTask, !.state = "NONE", !.off = o]), pcb' = q,
           msg' \in [Tasks -> MsgType],
           \A u \in Tasks : msg'[u].fn = msg[u].fn /\ msg'[u].shut = msg[u].shut,
           msg'[t].err = "OK" => msg'[t].len = msg'[t].queued,
           msg'[t].err = "SOFT" => msg'[t].queued = 0
    PROVE  Inv'
<1> DEFINE d == [c EXCEPT !.cur = NoTask, !.state = "NONE", !.off = o]
<1>1. /\ Bounded(d) /\ d.mem = c.mem /\ d.cur = NoTask /\ d.state = "NONE"
      /\ d.nbConnect = c.nbConnect
    BY DEF Writing, Bounded, NcType
<1> HIDE DEF d
<1>2. /\ Bounded(nc') /\ nc'.mem = nc.mem /\ nc'.cur = NoTask /\ nc'.state = "NONE" /\ ~nc'.nbConnect
      /\ nc'.sem = 1
    <2>1. nc' = Signal(d)
        BY DEF d
    <2> QED BY <1>1, <2>1, SignalType DEF Writing
<1>3. TypeOK'
    BY <1>2, ServingType DEF Writing
<1>4. WriteReports'
    BY DEF Writing, WriteReports, Serving, Inv, OneCaller
<1>5. Answered(t)'
    BY DEF Writing, Answered, Serving
<1> QED
    BY <1>2, <1>3, <1>4, <1>5, AnsweredInv DEF Writing, Serving

\* do_writemore, started by do_write or by a callback, keeps the invariant.
LEMMA WriteMoreInv ==
    ASSUME NEW t, NEW c, NEW p, Writing(t, c, p), WriteMore(t, c, p)
    PROVE  Inv'
<1> DEFINE dontblock == c.nonblocking \/ msg[t].dontblock
           len == IF msg[t].len - c.off <= p.sndbuf THEN msg[t].len - c.off ELSE p.sndbuf
           off == c.off + len
           Released(o) == Signal([c EXCEPT !.cur = NoTask, !.state = "NONE", !.off = o])
           Finish(o, e, n) == /\ nc' = Released(o) /\ pcb' = p
                              /\ msg' = [msg EXCEPT ![t].err = e, ![t].len = n]
           q == [p EXCEPT !.sndbuf = @ - len]
<1>1. /\ t \in Tasks /\ msg \in [Tasks -> MsgType] /\ p \in PcbType /\ c \in NcType
      /\ c.off \in Lens /\ c.off \in Nat /\ msg[t].len \in Lens /\ msg[t].queued = c.off
      /\ p.sndbuf \in 0 .. SndBuf
    BY LensType DEF Writing, Serving, Bounded, Inv, TypeOK, NcType, PcbType, MsgType
<1>2. /\ len \in Nat /\ off \in Lens /\ p.sndbuf - len \in 0 .. SndBuf /\ off <= msg[t].len
    BY <1>1 DEF Lens, Writing
<1>3. q \in PcbType /\ q.state = p.state
    <2>1. \A x \in 0 .. SndBuf : [p EXCEPT !.sndbuf = x] \in PcbType
                                 /\ [p EXCEPT !.sndbuf = x].state = p.state
        BY <1>1 DEF PcbType
    <2> QED BY <1>2, <2>1
<1>4. \/ Finish(c.off, Partial(c), c.off)
      \/ dontblock /\ Finish(c.off, "SOFT", 0)
      \/ Finish(c.off, "FATAL", 0)
      \/ /\ pcb' = q /\ (off = msg[t].len \/ dontblock)
         /\ nc' = Released(0)
         /\ msg' = [msg EXCEPT ![t].err = "OK", ![t].len = off, ![t].queued = @ + len]
      \/ /\ pcb' = q /\ off # msg[t].len /\ ~dontblock
         /\ nc' = [c EXCEPT !.off = off]
         /\ msg' = [msg EXCEPT ![t].queued = @ + len]
      \/ ~dontblock /\ nc' = c /\ pcb' = p /\ msg' = msg
    BY DEF WriteMore
<1> HIDE DEF len, off, q, dontblock
<1>5. ASSUME NEW e \in Err, NEW n \in Lens, Finish(c.off, e, n), e = "OK" => n = c.off,
             e = "SOFT" => c.off = 0
      PROVE  Inv'
    <2>1. msg' \in [Tasks -> MsgType]
        BY <1>1, <1>5, MsgUpdate
    <2>2. /\ \A u \in Tasks : msg'[u].fn = msg[u].fn /\ msg'[u].shut = msg[u].shut
          /\ msg'[t].queued = msg[t].queued /\ msg'[t].err = e /\ msg'[t].len = n
        <3>1. 0 \in Nat
            OBVIOUS
        <3> QED BY <1>1, <1>5, <3>1, MsgFields
    <2>3. /\ e = "OK" => msg'[t].len = msg'[t].queued
          /\ e = "SOFT" => msg'[t].queued = 0
        BY <1>1, <1>5, <2>2
    <2>4. /\ nc' = Signal([c EXCEPT !.cur = NoTask, !.state = "NONE", !.off = c.off])
          /\ pcb' = p
        BY <1>5
    <2> HIDE DEF Finish
    <2> QED
        BY <1>1, <2>1, <2>2, <2>3, <2>4, ReleaseInv
<1>6. CASE Finish(c.off, Partial(c), c.off)
    BY <1>1, <1>5, <1>6, ErrType DEF Partial
<1>7. CASE dontblock /\ Finish(c.off, "SOFT", 0)
    BY <1>5, <1>7, ErrType, LensType DEF Writing, dontblock
<1>8. CASE Finish(c.off, "FATAL", 0)
    BY <1>5, <1>8, ErrType, LensType
<1>9. CASE /\ pcb' = q /\ (off = msg[t].len \/ dontblock)
           /\ nc' = Released(0)
           /\ msg' = [msg EXCEPT ![t].err = "OK", ![t].len = off, ![t].queued = @ + len]
    <2>1. msg' \in [Tasks -> MsgType]
        BY <1>1, <1>2, <1>9, MsgUpdate, ErrType
    <2>2. /\ \A u \in Tasks : msg'[u].fn = msg[u].fn /\ msg'[u].shut = msg[u].shut
          /\ msg'[t].queued = msg[t].queued + len /\ msg'[t].err = "OK" /\ msg'[t].len = off
        <3>1. msg' = [msg EXCEPT ![t].err = "OK", ![t].len = off, ![t].queued = @ + len]
            BY <1>9
        <3>2. "OK" \in Err
            BY ErrType
        <3> HIDE DEF Finish, Released
        <3> QED BY <1>1, <1>2, <3>1, <3>2, MsgFinish
    <2>3. msg'[t].queued = off
        BY <1>1, <2>2 DEF off
    <2>4. /\ nc' = Signal([c EXCEPT !.cur = NoTask, !.state = "NONE", !.off = 0])
          /\ pcb' = q /\ q \in PcbType /\ q.state = p.state
        BY <1>3, <1>9
    <2>5. /\ msg'[t].err = "OK" => msg'[t].len = msg'[t].queued
          /\ msg'[t].err = "SOFT" => msg'[t].queued = 0
        BY <2>2, <2>3
    <2> HIDE DEF Released, Finish
    <2> QED
        BY <2>1, <2>2, <2>4, <2>5, LensType, ReleaseInv
\* It goes on: the rest of the write waits for an acknowledgement or a poll.
<1>10. ASSUME NEW o \in Lens, nc' = [c EXCEPT !.off = o], ~dontblock, pcb' \in PcbType,
              pcb'.state = p.state, o < msg[t].len, msg' \in [Tasks -> MsgType],
              \A u \in Tasks : msg'[u].fn = msg[u].fn /\ msg'[u].shut = msg[u].shut,
              msg'[t].queued = o, msg'[t].len = msg[t].len, msg'[t].dontblock = msg[t].dontblock
       PROVE  Inv'
    <2>1. /\ Bounded(nc') /\ nc'.mem = nc.mem /\ nc'.cur = t /\ nc'.state = "WRITE" /\ nc'.sem = 0
          /\ ~nc'.nbConnect /\ nc'.off = o /\ nc'.nonblocking = c.nonblocking
        BY <1>10 DEF Writing, Bounded, NcType
    <2>2. TypeOK'
        BY <1>10, <2>1, ServingType DEF Writing
    <2>3. CurMsgState'
        BY <1>10, <2>1 DEF CurMsgState, Writing, Serving, Inv
    <2> QED
        BY <1>10, <2>1, <2>2, <2>3, PendingInv DEF Writing, Serving, dontblock
<1>11. CASE /\ pcb' = q /\ off # msg[t].len /\ ~dontblock
            /\ nc' = [c EXCEPT !.off = off]
            /\ msg' = [msg EXCEPT ![t].queued = @ + len]
    <2>3. msg' \in [Tasks -> MsgType]
        BY <1>1, <1>2, <1>11, MsgUpdate, ErrType, LensType
    <2>4. /\ msg'[t].queued = msg[t].queued + len
          /\ \A u \in Tasks : msg'[u].fn = msg[u].fn /\ msg'[u].shut = msg[u].shut
          /\ msg'[t].len = msg[t].len /\ msg'[t].dontblock = msg[t].dontblock
        BY <1>1, <1>2, <1>11, MsgFields, ErrType, LensType
    <2>1. /\ msg' \in [Tasks -> MsgType] /\ msg'[t].queued = off
          /\ \A u \in Tasks : msg'[u].fn = msg[u].fn /\ msg'[u].shut = msg[u].shut
          /\ msg'[t].len = msg[t].len /\ msg'[t].dontblock = msg[t].dontblock
        BY <1>1, <2>3, <2>4 DEF off
    <2>2. off < msg[t].len
        BY <1>1, <1>2, <1>11, LensType
    <2> QED
        BY <1>2, <1>3, <1>10, <1>11, <2>1, <2>2
<1>12. CASE ~dontblock /\ nc' = c /\ pcb' = p /\ msg' = msg
    <2>1. c = [c EXCEPT !.off = c.off]
        BY <1>1 DEF NcType
    <2> QED
        BY <1>1, <1>10, <1>12, <2>1 DEF Writing
<1> QED
    BY <1>4, <1>6, <1>7, <1>8, <1>9, <1>11, <1>12

\* do_write keeps the invariant.
LEMMA DoWriteInv == ASSUME Inv, NEW t \in Tasks, DoWrite(t) PROVE Inv'
<1>1. Handle(t, "write")
    BY DEF DoWrite
<1> DEFINE c == [nc EXCEPT !.state = "WRITE", !.cur = t, !.off = 0]
<1>2. \/ \E e \in {"FATAL", "SOFT"} : Ack(t, nc, pcb, e)
      \/ nc.state = "NONE" /\ pcb.state # "NULL" /\ WriteMore(t, c, pcb)
    BY DEF DoWrite, Fatal
<1>3. CASE \E e \in {"FATAL", "SOFT"} : Ack(t, nc, pcb, e)
    BY <1>1, <1>3, RefuseInv, ErrType
<1>4. CASE nc.state = "NONE" /\ pcb.state # "NULL" /\ WriteMore(t, c, pcb)
    <2>1. Bounded(nc) /\ nc \in NcType
        BY <1>1, HandleFacts DEF Bounded
    <2>2. /\ Bounded(c) /\ c.mem = nc.mem /\ c.cur = t /\ c.state = "WRITE" /\ c.sem = nc.sem
          /\ c.nbConnect = nc.nbConnect /\ c.off = 0
        BY <2>1, LensType DEF Bounded, NcType
    <2> HIDE DEF c
    <2>3. msg[t].queued = 0 /\ msg[t].len > 0
        BY <1>1, HandleFacts DEF Posted
    <2>4. Writing(t, c, pcb)
        BY <1>1, <1>4, <2>2, <2>3, HandleFacts DEF Writing
    <2> QED BY <1>4, <2>4, WriteMoreInv
<1> QED
    BY <1>2, <1>3, <1>4

\* netconn_drain empties the mailboxes and changes nothing else.
LEMMA DrainType ==
    ASSUME NEW c, Bounded(c)
    PROVE  /\ Bounded(DrainMboxes(c)) /\ DrainMboxes(c).mem = c.mem /\ DrainMboxes(c).state = c.state
           /\ DrainMboxes(c).cur = c.cur /\ DrainMboxes(c).nbConnect = c.nbConnect
           /\ DrainMboxes(c).sem = c.sem
<1>1. NoMbox \in Mbox({"data", "NULL"}) /\ NoMbox \in Mbox({"conn", "NULL"}) /\ NoMbox.q = <<>>
    BY MboxType
<1>2. /\ DrainMboxes(c) \in NcType
      /\ DrainMboxes(c).recvmbox = NoMbox /\ DrainMboxes(c).acceptmbox = NoMbox
    BY <1>1 DEF Bounded, DrainMboxes, NcType
<1>3. Bounded(DrainMboxes(c))
    BY <1>1, <1>2 DEF Bounded
<1> QED
    BY <1>3 DEF Bounded, DrainMboxes, NcType

\* A close in progress, of message t on conn c and pcb p.
Closing(t, c, p) ==
    /\ Serving(t) /\ Bounded(c) /\ p \in PcbType
    /\ c.mem = nc.mem /\ c.state = "CLOSE" /\ c.cur = t /\ c.sem = 0
    /\ msg[t].fn \in {"close", "delconn"} /\ msg[t].shut \in Shuts
    /\ msg[t].fn = "delconn" => msg[t].shut = {RD, WR}
    /\ p.state # "NULL"
    /\ c.nbConnect \/ p.state = "SYN_SENT" => msg[t].shut = {RD, WR} /\ p.state = "SYN_SENT"

\* The three kinds of close differ.
LEMMA ShutNames == {RD} # {WR} /\ {RD} # {RD, WR} /\ {WR} # {RD, WR}
BY DEF RD, WR

\* The pcb after a close that succeeded.
LEMMA ClosedType ==
    ASSUME NEW p \in PcbType, NEW shut \in Shuts
    PROVE  /\ Closed(p, shut) \in PcbType
           /\ shut = {RD} => Closed(p, shut).state = p.state
           /\ shut = {WR} => Closed(p, shut).state \in {"FIN_WAIT", "LAST_ACK"}
           /\ shut = {RD, WR} => Closed(p, shut).state = "NULL"
<1>1. CASE shut = {RD}
    <2>1. Closed(p, shut) = [p EXCEPT !.recvCb = FALSE, !.rxclosed = TRUE, !.refused = "none"]
        BY <1>1, ShutNames DEF Closed
    <2> QED BY <1>1, <2>1, ShutNames DEF PcbType
<1>2. CASE shut = {WR}
    <2>1. \E s \in {"FIN_WAIT", "LAST_ACK"} : Closed(p, shut) = [p EXCEPT !.sentCb = FALSE, !.state = s]
        BY <1>2, ShutNames DEF Closed
    <2>2. {"FIN_WAIT", "LAST_ACK"} \subseteq PcbStates
        BY StateNames DEF Active
    <2>3. \A s \in PcbStates : /\ [p EXCEPT !.sentCb = FALSE, !.state = s] \in PcbType
                               /\ [p EXCEPT !.sentCb = FALSE, !.state = s].state = s
        BY DEF PcbType
    <2>4. Closed(p, shut) \in PcbType /\ Closed(p, shut).state \in {"FIN_WAIT", "LAST_ACK"}
        BY <2>1, <2>2, <2>3
    <2> QED BY <1>2, <2>4, ShutNames
<1>3. CASE shut = {RD, WR}
    <2>1. Closed(p, shut) = NoPcb
        BY <1>3, ShutNames DEF Closed
    <2> QED BY <1>3, <2>1, NewPcbType, ShutNames
<1> QED
    BY <1>1, <1>2, <1>3 DEF Shuts

\* The pcb after a close that found no memory.
LEMMA NotClosedType ==
    ASSUME NEW p \in PcbType, NEW shut \in Shuts
    PROVE  NotClosed(p, shut) \in PcbType /\ NotClosed(p, shut).state = p.state
BY DEF NotClosed, PcbType

\* do_close_internal, started by a call or by a callback, keeps the invariant.
LEMMA CloseInternalInv ==
    ASSUME NEW t, NEW c, NEW p, Closing(t, c, p), CloseInternal(t, c, p)
    PROVE  Inv'
<1> DEFINE shut == msg[t].shut
           d == [c EXCEPT !.cur = NoTask, !.state = "NONE"]
<1>1. /\ Bounded(d) /\ d.mem = nc.mem /\ d.cur = NoTask /\ d.state = "NONE"
      /\ d.nbConnect = c.nbConnect
    BY DEF Closing, Bounded, NcType
<1>2. \/ CloseMaySucceed(p, shut) /\ Ack(t, d, Closed(p, shut), "OK")
      \/ CloseMayFail(p, shut) /\ nc' = c /\ pcb' = NotClosed(p, shut) /\ msg' = msg
    BY DEF CloseInternal
<1> HIDE DEF d
<1>3. CASE CloseMaySucceed(p, shut) /\ Ack(t, d, Closed(p, shut), "OK")
    <2>1. /\ Closed(p, shut) \in PcbType /\ Closed(p, shut).state # "SYN_SENT"
          /\ c.nbConnect => Closed(p, shut).state = "NULL"
          /\ msg[t].fn = "delconn" => Closed(p, shut).state = "NULL"
        BY ClosedType, ShutNames DEF Closing, Shuts
    <2> QED BY <1>1, <1>3, <2>1, ErrType, AckInv DEF Closing
<1>4. CASE CloseMayFail(p, shut) /\ nc' = c /\ pcb' = NotClosed(p, shut) /\ msg' = msg
    <2>1. p.state # "SYN_SENT" /\ ~c.nbConnect
        BY <1>4, ShutNames DEF Closing, CloseMayFail, Connected
    <2>2. pcb' \in PcbType /\ pcb'.state = p.state
        BY <1>4, NotClosedType DEF Closing
    <2>3. TypeOK'
        BY <1>4, <2>2, ServingType DEF Closing, Serving, Inv, TypeOK
    <2>4. CurMsgState'
        BY <1>4, <2>2 DEF CurMsgState, Closing, Serving, Inv
    <2> QED
        BY <1>4, <2>1, <2>2, <2>3, <2>4, PendingInv DEF Closing, Serving
<1> QED
    BY <1>2, <1>3, <1>4

\* A call of do_close or do_delconn has what do_close_internal relies on.
LEMMA StartClose ==
    ASSUME Inv, NEW t \in Tasks, NEW fn \in {"close", "delconn"}, Handle(t, fn), NEW c, Bounded(c),
           c.mem = nc.mem, c.nbConnect = nc.nbConnect, c.sem = nc.sem, pcb.state # "NULL",
           fn = "close" => nc.state # "CONNECT",
           CloseInternal(t, [c EXCEPT !.state = "CLOSE", !.cur = t], pcb)
    PROVE  Inv'
<1> DEFINE d == [c EXCEPT !.state = "CLOSE", !.cur = t]
<1>1. /\ Bounded(d) /\ d.mem = c.mem /\ d.cur = t /\ d.state = "CLOSE" /\ d.sem = c.sem
      /\ d.nbConnect = c.nbConnect
    BY DEF Bounded, NcType
<1> HIDE DEF d
<1>2. msg[t].shut \in Shuts /\ (msg[t].fn = "delconn" => msg[t].shut = {RD, WR})
    BY HandleFacts DEF MsgType, Inv, CallInv
<1>3. Closing(t, d, pcb)
    BY <1>1, <1>2, HandleFacts DEF Closing
<1> QED
    BY <1>3, CloseInternalInv DEF d

\* do_close keeps the invariant.
LEMMA DoCloseInv == ASSUME Inv, NEW t \in Tasks, DoClose(t) PROVE Inv'
<1>1. Handle(t, "close")
    BY DEF DoClose
<1> DEFINE c == IF RD \in msg[t].shut THEN DrainMboxes(nc) ELSE nc
<1>2. \/ \E e \in {"FATAL", "SOFT"} : Ack(t, nc, pcb, e)
      \/ /\ nc.state \in {"NONE", "LISTEN"} /\ pcb.state # "NULL"
         /\ CloseInternal(t, [c EXCEPT !.state = "CLOSE", !.cur = t], pcb)
    BY DEF DoClose
<1>3. CASE \E e \in {"FATAL", "SOFT"} : Ack(t, nc, pcb, e)
    BY <1>1, <1>3, RefuseInv, ErrType
<1>4. CASE /\ nc.state \in {"NONE", "LISTEN"} /\ pcb.state # "NULL"
           /\ CloseInternal(t, [c EXCEPT !.state = "CLOSE", !.cur = t], pcb)
    <2>1. Bounded(c) /\ c.mem = nc.mem /\ c.nbConnect = nc.nbConnect /\ c.sem = nc.sem
        BY <1>1, HandleFacts, DrainType
    <2> HIDE DEF c
    <2> QED BY <1>1, <1>4, <2>1, StartClose
<1> QED
    BY <1>2, <1>3, <1>4

\* do_delconn keeps the invariant.
LEMMA DoDelconnInv == ASSUME Inv, NEW t \in Tasks, DoDelconn(t) PROVE Inv'
<1>1. Handle(t, "delconn")
    BY DEF DoDelconn
<1> DEFINE c == DrainMboxes(nc)
<1>2. /\ Bounded(c) /\ c.mem = nc.mem /\ c.nbConnect = nc.nbConnect /\ c.sem = nc.sem
      /\ c.state = nc.state /\ c.cur = nc.cur
    BY <1>1, HandleFacts, DrainType
<1> HIDE DEF c
<1>3. \/ pcb.state = "NULL" /\ Ack(t, c, pcb, "OK")
      \/ /\ pcb.state # "NULL"
         /\ CloseInternal(t, [c EXCEPT !.state = "CLOSE", !.cur = t], pcb)
    BY <1>1, HandleFacts DEF DoDelconn, c
<1>4. CASE pcb.state = "NULL" /\ Ack(t, c, pcb, "OK")
    BY <1>1, <1>2, <1>4, HandleFacts, AckInv, ErrType
<1>5. CASE /\ pcb.state # "NULL"
           /\ CloseInternal(t, [c EXCEPT !.state = "CLOSE", !.cur = t], pcb)
    BY <1>1, <1>2, <1>5, StartClose
<1> QED
    BY <1>3, <1>4, <1>5

----------------------------------------------------------------------------
(* The callbacks of input segments and timers.                             *)

\* c is conn with nothing changed but its mailboxes and last_err.
Same(c) == Bounded(c) /\ SameCore(c, nc) /\ c.nonblocking = nc.nonblocking
           /\ (c.mem = "free" => c = nc)

\* A netconn with new contents in its mailboxes.
LEMMA MboxUpdate ==
    ASSUME NEW c, Bounded(c), NEW r \in RecvMbox, NEW a \in AcceptMbox,
           Len(r.q) <= RecvCap, Len(a.q) <= AcceptCap
    PROVE  /\ Bounded([c EXCEPT !.recvmbox = r, !.acceptmbox = a])
           /\ SameCore([c EXCEPT !.recvmbox = r, !.acceptmbox = a], c)
           /\ [c EXCEPT !.recvmbox = r, !.acceptmbox = a].nonblocking = c.nonblocking
           /\ Bounded([c EXCEPT !.recvmbox = r]) /\ SameCore([c EXCEPT !.recvmbox = r], c)
           /\ [c EXCEPT !.recvmbox = r].nonblocking = c.nonblocking
           /\ Bounded([c EXCEPT !.acceptmbox = a]) /\ SameCore([c EXCEPT !.acceptmbox = a], c)
           /\ [c EXCEPT !.acceptmbox = a].nonblocking = c.nonblocking
<1>1. [c EXCEPT !.recvmbox = r, !.acceptmbox = a] \in NcType
    BY DEF Bounded, NcType, RecvMbox, AcceptMbox
<1>2. [c EXCEPT !.recvmbox = r] \in NcType
    BY DEF Bounded, NcType, RecvMbox
<1>3. [c EXCEPT !.acceptmbox = a] \in NcType
    BY DEF Bounded, NcType, AcceptMbox
<1> QED
    BY <1>1, <1>2, <1>3 DEF Bounded, NcType, SameCore

\* The mailboxes of a netconn, and what a post makes of them.
LEMMA BoundedMboxes ==
    ASSUME NEW c, Bounded(c)
    PROVE  /\ c.recvmbox \in RecvMbox /\ c.acceptmbox \in AcceptMbox
           /\ \A x \in {"data", "NULL"} : /\ TryPost(c.recvmbox, RecvCap, x) \in RecvMbox
                                          /\ Len(TryPost(c.recvmbox, RecvCap, x).q) <= RecvCap
           /\ \A x \in {"conn", "NULL"} : /\ TryPost(c.acceptmbox, AcceptCap, x) \in AcceptMbox
                                          /\ Len(TryPost(c.acceptmbox, AcceptCap, x).q) <= AcceptCap
<1>1. c.recvmbox \in RecvMbox /\ c.acceptmbox \in AcceptMbox
    BY DEF Bounded, NcType, RecvMbox, AcceptMbox
<1>2. Len(c.recvmbox.q) <= RecvCap /\ Len(c.acceptmbox.q) <= AcceptCap
    BY DEF Bounded
<1> QED
    BY <1>1, <1>2, TryPostType DEF RecvMbox, AcceptMbox

\* The NULLs that err_tcp posts change the mailboxes only.
LEMMA WakeType ==
    ASSUME NEW c, Bounded(c)
    PROVE  Bounded(WakeMboxes(c)) /\ SameCore(WakeMboxes(c), c)
           /\ WakeMboxes(c).nonblocking = c.nonblocking
<1> DEFINE r == IF c.recvmbox.valid THEN TryPost(c.recvmbox, RecvCap, "NULL") ELSE c.recvmbox
           a == IF c.acceptmbox.valid THEN TryPost(c.acceptmbox, AcceptCap, "NULL") ELSE c.acceptmbox
<1>1. r \in RecvMbox /\ a \in AcceptMbox /\ Len(r.q) <= RecvCap /\ Len(a.q) <= AcceptCap
    BY BoundedMboxes DEF Bounded
<1>2. WakeMboxes(c) = [c EXCEPT !.recvmbox = r, !.acceptmbox = a]
    BY DEF WakeMboxes
<1> HIDE DEF r, a
<1>3. /\ Bounded([c EXCEPT !.recvmbox = r, !.acceptmbox = a])
      /\ SameCore([c EXCEPT !.recvmbox = r, !.acceptmbox = a], c)
      /\ [c EXCEPT !.recvmbox = r, !.acceptmbox = a].nonblocking = c.nonblocking
    BY <1>1, MboxUpdate
<1> QED
    BY <1>2, <1>3

\* recv_tcp changes recvmbox and last_err only.
LEMMA RecvTcpType ==
    ASSUME NEW c, Bounded(c), NEW x \in {"data", "NULL"}
    PROVE  Bounded(RecvTcp(c, x)) /\ SameCore(RecvTcp(c, x), c)
           /\ RecvTcp(c, x).nonblocking = c.nonblocking
<1>1. CASE c.recvmbox.valid
    <2> DEFINE d == SafeErr(c, "OK")
               r == TryPost(d.recvmbox, RecvCap, x)
    <2>1. /\ d \in NcType /\ SameCore(d, c) /\ d.recvmbox = c.recvmbox /\ d.acceptmbox = c.acceptmbox
          /\ d.nonblocking = c.nonblocking
        BY SafeErrType, ErrType DEF Bounded, SafeErr, NcType
    <2> HIDE DEF d
    <2>2. Bounded(d)
        BY <2>1 DEF Bounded
    <2>3. r \in RecvMbox /\ Len(r.q) <= RecvCap /\ d.acceptmbox \in AcceptMbox
          /\ Len(d.acceptmbox.q) <= AcceptCap
        BY <2>2, BoundedMboxes DEF Bounded
    <2>4. RecvTcp(c, x) = [d EXCEPT !.recvmbox = r]
        BY <1>1 DEF RecvTcp, d
    <2> HIDE DEF r
    <2>5. /\ Bounded([d EXCEPT !.recvmbox = r]) /\ SameCore([d EXCEPT !.recvmbox = r], d)
          /\ [d EXCEPT !.recvmbox = r].nonblocking = d.nonblocking
        BY <2>2, <2>3, MboxUpdate
    <2> QED BY <1>1, <2>1, <2>4, <2>5 DEF SameCore
<1>2. CASE ~c.recvmbox.valid
    BY <1>2 DEF RecvTcp, SameCore
<1> QED
    BY <1>1, <1>2

\* A pair [c, p] of conn and pcb after a callback for received data.
Received(r, p) == /\ Same(r.c) /\ r.p \in PcbType
                  /\ r.p.state = p.state /\ r.p.sndbuf = p.sndbuf

\* recv_tcp leaves the call in progress alone.
LEMMA SameRecvTcp ==
    ASSUME NEW c, Same(c), NEW x \in {"data", "NULL"}, nc.mem # "free"
    PROVE  Same(RecvTcp(c, x))
BY RecvTcpType DEF Same, SameCore

\* A segment given to recv_tcp or kept as refused_data leaves the call alone.
LEMMA RecvType ==
    ASSUME NEW c, Same(c), NEW p \in PcbType, NEW x \in {"data", "datafin"}, nc.mem # "free"
    PROVE  Received(Recv(c, p, x), p)
<1>1. \A y \in {"none", "data", "datafin"} :
         /\ [p EXCEPT !.refused = y] \in PcbType /\ [p EXCEPT !.refused = y].state = p.state
         /\ [p EXCEPT !.refused = y].sndbuf = p.sndbuf
    BY DEF PcbType
<1>2. Same(RecvTcp(c, "data"))
    BY SameRecvTcp
<1>3. Recv(c, p, x).c \in {c, RecvTcp(c, "data")}
      /\ \E y \in {"none", "data", "datafin"} : Recv(c, p, x).p = [p EXCEPT !.refused = y]
    BY DEF Recv
<1> QED
    BY <1>1, <1>2, <1>3 DEF Received

\* A FIN given to recv_tcp leaves the call alone.
LEMMA GotFinType ==
    ASSUME NEW c, Same(c), NEW p \in PcbType, nc.mem # "free"
    PROVE  Received(GotFin([c |-> c, p |-> p]), p)
<1>1. \A y \in {"none", "data", "datafin"} :
         /\ [p EXCEPT !.refused = y] \in PcbType /\ [p EXCEPT !.refused = y].state = p.state
         /\ [p EXCEPT !.refused = y].sndbuf = p.sndbuf
    BY DEF PcbType
<1>2. Same(RecvTcp(c, "NULL"))
    BY SameRecvTcp
<1> DEFINE g == GotFin([c |-> c, p |-> p])
<1>3. \/ g = [c |-> c, p |-> [p EXCEPT !.refused = "datafin"]]
      \/ g = [c |-> RecvTcp(c, "NULL"), p |-> p]
      \/ g = [c |-> c, p |-> p]
    BY DEF GotFin
<1> HIDE DEF g
<1>4. g.c \in {c, RecvTcp(c, "NULL")} /\ g.p \in {p, [p EXCEPT !.refused = "datafin"]}
    BY <1>3
<1> QED
    BY <1>1, <1>2, <1>4 DEF Received, g

\* The netconn as it is.
LEMMA SameNc == ASSUME Inv PROVE Same(nc)
BY DEF Same, SameCore, Inv, TypeOK, Bounded

\* tcp_process_refused_data leaves the call alone.
LEMMA RetryType == ASSUME Inv, nc.mem # "free" PROVE Received(Retry, pcb)
<1>1. Same(nc) /\ pcb \in PcbType /\ pcb.refused \in {"none", "data", "datafin"}
    BY SameNc DEF Inv, TypeOK, PcbType
<1> DEFINE r == Recv(nc, pcb, pcb.refused)
<1>2. pcb.refused # "none" => Received(r, pcb)
    BY <1>1, RecvType
<1>3. r = [c |-> r.c, p |-> r.p]
    BY DEF Recv
<1>4. \/ Retry = [c |-> nc, p |-> pcb]
      \/ pcb.refused # "none" /\ Retry = GotFin(r)
      \/ pcb.refused # "none" /\ Retry = r
    BY DEF Retry
<1> HIDE DEF r
<1>5. pcb.refused # "none" => Received(GotFin(r), pcb)
    BY <1>2, <1>3, GotFinType DEF Received
<1>6. Received([c |-> nc, p |-> pcb], pcb)
    BY <1>1 DEF Received
<1> QED
    BY <1>2, <1>4, <1>5, <1>6

----------------------------------------------------------------------------
(* What a callback does to the invariant.                                  *)

Called == /\ Inv /\ pc' = pc /\ mbox' = mbox /\ thr' \in {"loop", "tail"}

\* A callback that keeps the types of what it changes keeps all types.
LEMMA CalledType ==
    ASSUME Called, Bounded(nc'), pcb' \in PcbType, msg' \in [Tasks -> MsgType]
    PROVE  TypeOK'
BY DEF Called, Bounded, TypeOK, Inv

\* It ends nothing.
LEMMA SameInv ==
    ASSUME Called, Same(nc'), pcb' \in PcbType, msg' = msg,
           pcb'.state = "SYN_SENT" <=> pcb.state = "SYN_SENT",
           pcb'.state = "NULL" <=> pcb.state = "NULL"
    PROVE  Inv'
<1>1. TypeOK'
    BY CalledType DEF Same, Called, Inv, TypeOK
<1>2. OneCaller' /\ (nc.mem # "alloc" => Serial')
    BY DEF Called, Inv, OneCaller, PcbInv, Serial
<1>3. nc.mem = "free" => nc' = nc
    BY DEF Same, SameCore
<1> QED
    BY <1>1, <1>2, <1>3, QuietInv DEF Called, Same

\* It ends a connection nobody waits for.
LEMMA DetachInv ==
    ASSUME Called, Bounded(nc'), pcb' \in PcbType, msg' = msg,
           nc.cur = NoTask, nc'.cur = NoTask, nc'.sem = nc.sem, nc'.mem = nc.mem,
           nc'.state \in {"NONE", "LISTEN"}, pcb'.state # "SYN_SENT", pcb.state # "NULL",
           nc'.nbConnect => pcb'.state = "NULL"
    PROVE  Inv'
<1>1. TypeOK'
    BY CalledType DEF Called, Inv, TypeOK
<1>2. OneCaller' /\ OneToken'
    BY DEF Called, Inv, OneCaller, OneToken, Queued, Signalled
<1>3. CurMsgState'
    BY DEF CurMsgState, Inv
<1>4. nc.mem # "free"
    BY DEF Called, Inv, PcbInv
<1>5. PcbInv'
    BY <1>4 DEF Called, Inv, PcbInv, Serial
<1>6. CallInv'
    BY DEF Called, Inv, CallInv, Queued, Posted, Answered, Signalled, Resting
<1>7. WriteReports'
    BY DEF Called, Inv, WriteReports, Signalled
<1> QED
    BY <1>1, <1>2, <1>3, <1>5, <1>6, <1>7 DEF Inv

\* A task with its message as current_msg is the one tcpip_thread works for.
LEMMA CurrentFacts ==
    ASSUME Called, nc.cur # NoTask
    PROVE  /\ Serving(nc.cur) /\ nc.sem = 0 /\ nc.mem = "alloc" /\ mbox = <<>>
           /\ msg[nc.cur] \in MsgType /\ ~nc.nbConnect
           /\ nc.state \in {"WRITE", "CLOSE", "CONNECT"}
<1>1. nc.cur \in Tasks /\ nc.mem \in {"free", "queued", "alloc"} /\ nc.sem \in {0, 1}
    BY DEF Called, Inv, TypeOK, NcType
<1>2. pc[nc.cur] = "wait"
    BY DEF Called, Inv, CurMsgState
<1>3. mbox = <<>> /\ ~Signalled
    BY <1>1, <1>2 DEF Called, Inv, OneToken
<1>4. Serving(nc.cur)
    BY <1>1, <1>2, <1>3 DEF Called, Serving
<1>5. nc.mem = "alloc"
    BY <1>1, <1>2 DEF Called, Inv, PcbInv, Serial
<1>6. ~nc.nbConnect /\ nc.state \in {"WRITE", "CLOSE", "CONNECT"}
    BY DEF Called, Inv, CurMsgState, PcbInv
<1>7. msg[nc.cur] \in MsgType
    BY <1>1 DEF Called, Inv, TypeOK
<1> QED
    BY <1>1, <1>3, <1>4, <1>5, <1>6, <1>7 DEF Signalled

\* err_tcp, which may end the call in progress, keeps the invariant.
LEMMA ErrTcpInv ==
    ASSUME Called, NEW c, Same(c), pcb.state \in Active, ErrTcp(c)
    PROVE  Inv'
<1> DEFINE w == WakeMboxes(c)
           ending == Ending(c)
           c1 == [w EXCEPT !.lastErr = "FATAL", !.state = "NONE", !.nbConnect = @ /\ ~ending]
           d == [c1 EXCEPT !.cur = NoTask]
<1>1. Bounded(w) /\ SameCore(w, nc)
    BY WakeType DEF Same, SameCore
<1>2. /\ c.state = nc.state /\ c.nbConnect = nc.nbConnect /\ c.cur = nc.cur /\ c.sem = nc.sem
      /\ c.mem = nc.mem
    BY DEF Same, SameCore
<1> HIDE DEF w
<1>3. /\ Bounded(c1) /\ c1.mem = nc.mem /\ c1.state = "NONE" /\ c1.cur = nc.cur /\ c1.sem = nc.sem
      /\ c1.nbConnect = (nc.nbConnect /\ ~ending)
    BY <1>1, <1>2, ErrType DEF Bounded, NcType, SameCore
<1>4. /\ Bounded(d) /\ d.mem = nc.mem /\ d.state = "NONE" /\ d.cur = NoTask /\ d.sem = nc.sem
      /\ d.nbConnect = (nc.nbConnect /\ ~ending)
    <2> HIDE DEF c1
    <2> QED BY <1>3 DEF Bounded, NcType
<1>5. pcb.state \notin {"NULL"} /\ (nc.nbConnect => nc.state = "CONNECT" /\ ending)
    BY <1>2 DEF Called, Inv, PcbInv, Active, Ending
<1>6. CASE ending /\ ~c.nbConnect
    <2>1. nc.cur # NoTask
        BY <1>2, <1>6 DEF Called, Inv, CurMsgState, Ending
    <2>2. Ack(nc.cur, d, NoPcb, "FATAL")
        BY <1>2, <1>6 DEF ErrTcp, Ack, w
    <2> HIDE DEF d, ending
    <2> QED
        BY <1>2, <1>4, <1>6, <2>1, <2>2, CurrentFacts, NewPcbType, ErrType, AckInv
<1>7. CASE ~(ending /\ ~c.nbConnect)
    <2>1. nc.cur = NoTask
        BY <1>2, <1>5, <1>7 DEF Called, Inv, CurMsgState, Ending
    <2>2. nc' = c1 /\ pcb' = NoPcb /\ msg' = msg
        BY <1>7 DEF ErrTcp, w
    <2> HIDE DEF c1, ending
    <2> QED
        BY <1>3, <1>5, <2>1, <2>2, NewPcbType, DetachInv
<1> QED
    BY <1>6, <1>7

\* A reset or a pcb given up keeps the invariant.
LEMMA AbortInv == ASSUME Inv, Abort PROVE Inv'
<1>1. Called
    BY DEF Abort, Callback, NoTail, Called
<1> QED
    BY <1>1, SameNc, ErrTcpInv DEF Abort

\* No task is in a call before or after.
LEMMA AllIdleInv ==
    ASSUME Inv, Bounded(nc'), pcb' \in PcbType, UNCHANGED <<mbox, msg, pc>>, Serial,
           thr' \in {"loop", "tail"},
           nc'.cur = NoTask, nc'.sem = 0, nc'.state = "NONE", ~nc'.nbConnect,
           pcb'.state # "SYN_SENT", nc'.mem = "free" => pcb'.state = "NULL" /\ nc' = FreeConn
    PROVE  Inv'
<1>1. \A u \in Tasks : pc[u] = "idle"
    BY DEF Serial
<1>2. mbox = <<>>
    BY <1>1, IdleFacts
<1>3. TypeOK'
    BY DEF Inv, TypeOK, Bounded
<1>4. OneCaller' /\ OneToken' /\ CurMsgState' /\ WriteReports'
    BY <1>1, <1>2 DEF OneCaller, OneToken, CurMsgState, WriteReports, Signalled
<1>5. PcbInv' /\ CallInv'
    BY <1>1 DEF PcbInv, CallInv, Serial, Inv
<1> QED
    BY <1>3, <1>4, <1>5 DEF Inv

\* A netconn made by accept_function satisfies the invariant.
LEMMA AcceptFunctionInv == ASSUME Inv, AcceptFunction PROVE Inv'
<1> DEFINE c == [AllocConn EXCEPT !.mem = "queued"]
<1>1. /\ c.cur = NoTask /\ c.sem = 0 /\ c.state = "NONE" /\ ~c.nbConnect /\ c.mem = "queued"
      /\ c.recvmbox = NewMbox /\ c.acceptmbox = NoMbox
    BY DEF AllocConn, FreeConn
<1>2. c \in NcType
    BY FreeConnType DEF NcType
<1> HIDE DEF c
<1>3. Bounded(c)
    BY <1>1, <1>2, MboxType DEF Bounded
<1>4. NewPcb("ESTABLISHED") \in PcbType /\ NewPcb("ESTABLISHED").state = "ESTABLISHED"
    BY NewPcbType, StateNames DEF Active
<1>5. nc' = c /\ pcb' = NewPcb("ESTABLISHED")
    BY DEF AcceptFunction, c
<1> QED
    BY <1>1, <1>3, <1>4, <1>5, AllIdleInv DEF AcceptFunction, Callback, NoTail

\* A netconn drained from the acceptmbox of its listener satisfies it.
LEMMA DropQueuedInv == ASSUME Inv, DropQueued PROVE Inv'
<1>1. Serial
    BY DEF DropQueued, Inv, PcbInv
<1>2. /\ FreeConn.cur = NoTask /\ FreeConn.sem = 0 /\ FreeConn.state = "NONE" /\ ~FreeConn.nbConnect
      /\ FreeConn.recvmbox = NoMbox /\ FreeConn.acceptmbox = NoMbox
    BY DEF FreeConn
<1>3. Bounded(FreeConn)
    BY <1>2, FreeConnType, MboxType DEF Bounded
<1> QED
    BY <1>1, <1>2, <1>3, NewPcbType, AllIdleInv DEF DropQueued, Callback, NoTail

\* accept_function, seen from the listener, keeps the invariant.
LEMMA NewConnectionInv == ASSUME Inv, NewConnection PROVE Inv'
<1>1. Called /\ nc.mem # "free"
    BY DEF NewConnection, Callback, NoTail, Called, Inv, PcbInv
<1> DEFINE a == TryPost(nc.acceptmbox, AcceptCap, "conn")
<1>2. a \in AcceptMbox /\ Len(a.q) <= AcceptCap /\ Bounded(nc)
    BY SameNc, BoundedMboxes DEF Same
<1>3. nc' = [nc EXCEPT !.acceptmbox = a]
    BY DEF NewConnection
<1> HIDE DEF a
<1>4. nc.recvmbox \in RecvMbox /\ Len(nc.recvmbox.q) <= RecvCap
    BY <1>2, BoundedMboxes DEF Bounded
<1>5. Bounded(nc') /\ SameCore(nc', nc) /\ nc'.nonblocking = nc.nonblocking
    BY <1>2, <1>3, <1>4, MboxUpdate
<1>6. Same(nc')
    BY <1>1, <1>5 DEF Same, SameCore
<1> QED
    BY <1>1, <1>6, SameInv DEF NewConnection, Inv, TypeOK

\* do_connected, with or without a caller, keeps the invariant.
LEMMA DoConnectedInv == ASSUME Inv, DoConnected PROVE Inv'
<1> DEFINE c == [nc EXCEPT !.nbConnect = FALSE, !.cur = NoTask, !.state = "NONE"]
           p == [Setup(pcb) EXCEPT !.state = "ESTABLISHED"]
<1>1. Called /\ pcb.state = "SYN_SENT" /\ nc.state = "CONNECT" /\ pcb' = p
    BY DEF DoConnected, Callback, NoTail, Called, Inv, PcbInv
<1>2. p \in PcbType /\ p.state = "ESTABLISHED"
    BY PcbStateType DEF Inv, TypeOK, PcbStates, Active
<1>3. /\ Bounded(c) /\ c.mem = nc.mem /\ c.cur = NoTask /\ c.state = "NONE" /\ ~c.nbConnect
      /\ c.sem = nc.sem
    BY DEF Inv, TypeOK, NcType, Bounded
<1> HIDE DEF c, p
<1>4. CASE nc.nbConnect
    <2>1. nc.cur = NoTask
        BY <1>1, <1>4 DEF Inv, CurMsgState
    <2>2. nc' = SafeErr(c, "OK") /\ msg' = msg
        BY <1>4, <2>1 DEF DoConnected, c
    <2>3. c \in NcType
        BY <1>3 DEF Bounded
    <2>4. /\ Bounded(nc') /\ SameCore(nc', c)
        BY <1>3, <2>2, <2>3, SafeErrType, ErrType DEF Bounded
    <2> QED
        BY <1>1, <1>2, <1>3, <2>1, <2>2, <2>4, DetachInv DEF SameCore
<1>5. CASE ~nc.nbConnect
    <2>1. nc.cur # NoTask
        BY <1>1, <1>5 DEF Inv, CurMsgState
    <2>2. Ack(nc.cur, c, p, "OK")
        BY <1>1, <1>5, <2>1 DEF DoConnected, Ack, c
    <2>3. msg[nc.cur].fn = "connect"
        BY <1>1, <2>1 DEF Inv, CurMsgState
    <2> QED
        BY <1>1, <1>2, <1>3, <2>1, <2>2, <2>3, CurrentFacts, ErrType, AckInv
<1> QED
    BY <1>4, <1>5

\* The retry of tcp_fasttmr keeps the invariant.
LEMMA RefusedRetryInv == ASSUME Inv, RefusedRetry PROVE Inv'
<1>1. Called /\ pcb.state \in Active /\ nc.mem # "free"
    BY DEF RefusedRetry, Callback, NoTail, Called, Inv, PcbInv, Active
<1> QED
    BY <1>1, RetryType, SameInv DEF Received, RefusedRetry

\* A segment with data, a FIN or both keeps the invariant.
LEMMA SegmentInv == ASSUME Inv, NEW d \in BOOLEAN, NEW f \in BOOLEAN, Segment(d, f) PROVE Inv'
<1> DEFINE r == Retry
<1>1. Called /\ pcb.state \in {"ESTABLISHED", "FIN_WAIT"} /\ nc.mem # "free"
    BY DEF Segment, Callback, NoTail, Called, Inv, PcbInv
<1>2. Same(r.c) /\ r.p \in PcbType /\ r.p.state = pcb.state
    BY <1>1, RetryType DEF Received
<1>3. CASE nc' = r.c /\ pcb' = r.p /\ msg' = msg
    BY <1>1, <1>2, <1>3, SameInv
<1>4. ASSUME NEW s \in {"ESTABLISHED", "FIN_WAIT", "CLOSE_WAIT", "CLOSING", "TIME_WAIT"},
             NEW p, p = [r.p EXCEPT !.state = s],
             NEW q, q = IF d THEN Recv(r.c, p, "data") ELSE [c |-> r.c, p |-> p],
             NEW z, z = IF f THEN GotFin(q) ELSE q,
             \/ nc' = r.c /\ pcb' = [p EXCEPT !.state = "FREED"] /\ msg' = msg
             \/ ErrTcp(r.c)
             \/ nc' = z.c /\ pcb' = z.p /\ msg' = msg
      PROVE  Inv'
    <2> HIDE DEF r
    <2>1. p \in PcbType /\ p.state = s /\ s \in PcbStates \ {"NULL", "SYN_SENT"}
        <3>1. s \in PcbStates \ {"NULL", "SYN_SENT"}
            BY <1>4 DEF PcbStates, Active
        <3> QED BY <1>2, <1>4, <3>1, PcbStateType
    <2>2. [p EXCEPT !.state = "FREED"] \in PcbType /\ [p EXCEPT !.state = "FREED"].state = "FREED"
        BY <2>1, PcbStateType, StateNames
    <2>3. Received(q, p) /\ q = [c |-> q.c, p |-> q.p]
        <3>1. CASE d
            BY <1>1, <1>2, <1>4, <2>1, <3>1, RecvType DEF Recv
        <3>2. CASE ~d
            BY <1>2, <1>4, <2>1, <3>2 DEF Received
        <3> QED BY <3>1, <3>2
    <2>4. Received(z, p)
        <3>1. Same(q.c) /\ q.p \in PcbType /\ q.p.state = p.state /\ q.p.sndbuf = p.sndbuf
            BY <2>3 DEF Received
        <3>2. Received(GotFin([c |-> q.c, p |-> q.p]), q.p)
            BY <1>1, <3>1, GotFinType
        <3>3. Received(GotFin(q), q.p)
            BY <2>3, <3>2
        <3>4. z = GotFin(q) \/ z = q
            BY <1>4
        <3> QED BY <2>3, <3>1, <3>3, <3>4 DEF Received
    <2>5. CASE nc' = r.c /\ pcb' = [p EXCEPT !.state = "FREED"] /\ msg' = msg
        BY <1>1, <1>2, <2>2, <2>5, SameInv
    <2>6. CASE ErrTcp(r.c)
        BY <1>1, <1>2, <2>6, ErrTcpInv DEF Active
    <2>7. CASE nc' = z.c /\ pcb' = z.p /\ msg' = msg
        BY <1>1, <2>1, <2>4, <2>7, SameInv DEF Received
    <2> QED BY <1>4, <2>5, <2>6, <2>7
<1>5. \/ nc' = r.c /\ pcb' = r.p /\ msg' = msg
      \/ \E s \in {"ESTABLISHED", "FIN_WAIT", "CLOSE_WAIT", "CLOSING", "TIME_WAIT"} :
            LET p == [r.p EXCEPT !.state = s]
                q == IF d THEN Recv(r.c, p, "data") ELSE [c |-> r.c, p |-> p]
                z == IF f THEN GotFin(q) ELSE q
            IN  \/ nc' = r.c /\ pcb' = [p EXCEPT !.state = "FREED"] /\ msg' = msg
                \/ ErrTcp(r.c)
                \/ nc' = z.c /\ pcb' = z.p /\ msg' = msg
    BY DEF Segment, AfterFin
<1> QED
    BY <1>3, <1>4, <1>5

\* What poll_tcp and sent_tcp continue.
LEMMA ContinueInv ==
    ASSUME Inv, pc' = pc, mbox' = mbox, pcb.state \in Active, NEW c, Same(c), NEW p \in PcbType,
           p.state = pcb.state, Continue(c, p)
    PROVE  Inv'
<1>1. Called
    BY DEF Called, Continue
<1>2. /\ c.state = nc.state /\ c.nbConnect = nc.nbConnect /\ c.cur = nc.cur /\ c.sem = nc.sem
      /\ c.mem = nc.mem /\ c.off = nc.off /\ c.nonblocking = nc.nonblocking /\ Bounded(c)
    BY DEF Same, SameCore
<1>3. pcb.state # "NULL" /\ (nc.state = "CONNECT" <=> pcb.state = "SYN_SENT")
      /\ (nc.state = "WRITE" => /\ msg[nc.cur].queued = nc.off
                                /\ ~nc.nonblocking /\ ~msg[nc.cur].dontblock)
    BY DEF Inv, PcbInv, Active
<1>4. CASE c.state = "WRITE"
    <2>1. nc.cur # NoTask
        BY <1>2, <1>4 DEF Inv, CurMsgState
    <2>2. msg[nc.cur].fn = "write" /\ nc.off < msg[nc.cur].len
        BY <1>2, <1>4, <2>1 DEF Inv, CurMsgState
    <2>3. Writing(nc.cur, c, p)
        BY <1>1, <1>2, <1>3, <1>4, <2>1, <2>2, CurrentFacts DEF Writing
    <2> QED
        BY <1>2, <1>4, <2>3, WriteMoreInv DEF Continue
<1>5. CASE c.state = "CLOSE"
    <2>1. nc.cur # NoTask
        BY <1>2, <1>5 DEF Inv, CurMsgState
    <2>2. nc.cur \in Tasks /\ msg[nc.cur].fn \in {"close", "delconn"}
        BY <1>2, <1>5, <2>1 DEF Inv, CurMsgState, TypeOK, NcType
    <2>3. msg[nc.cur].shut \in Shuts /\ (msg[nc.cur].fn = "delconn" => msg[nc.cur].shut = {RD, WR})
        BY <2>2 DEF Inv, TypeOK, MsgType, CallInv
    <2>4. Closing(nc.cur, c, p)
        BY <1>1, <1>2, <1>3, <1>5, <2>1, <2>2, <2>3, CurrentFacts DEF Closing
    <2> QED
        BY <1>2, <1>5, <2>4, CloseInternalInv DEF Continue
<1>6. CASE c.state \notin {"WRITE", "CLOSE"}
    <2>1. nc' = c /\ pcb' = p /\ msg' = msg
        BY <1>6 DEF Continue
    <2> QED
        BY <1>1, <2>1, SameInv
<1> QED
    BY <1>4, <1>5, <1>6

\* sent_tcp, which may continue a write or a close, keeps the invariant.
LEMMA AckedInv == ASSUME Inv, NEW n \in 1 .. SndBuf, Acked(n) PROVE Inv'
<1> DEFINE r == Retry
           p == [r.p EXCEPT !.sndbuf = @ + n]
<1>1. pc' = pc /\ mbox' = mbox /\ pcb.state \in Active /\ pcb.sndbuf + n <= SndBuf
    BY DEF Acked, Callback
<1>2. nc.mem # "free"
    BY <1>1 DEF Inv, PcbInv, Active
<1>3. Same(r.c) /\ r.p \in PcbType /\ r.p.state = pcb.state /\ r.p.sndbuf = pcb.sndbuf
    BY <1>2, RetryType DEF Received
<1>4. IF p.sentCb THEN Continue(r.c, p)
      ELSE nc' = r.c /\ pcb' = p /\ msg' = msg /\ NoTail
    BY DEF Acked
<1> HIDE DEF r
<1>5. p \in PcbType /\ p.state = pcb.state
    <2>1. r.p.sndbuf + n \in 0 .. SndBuf
        BY <1>1, <1>3 DEF PcbType
    <2>2. \A x \in 0 .. SndBuf : [r.p EXCEPT !.sndbuf = x] \in PcbType
                                 /\ [r.p EXCEPT !.sndbuf = x].state = r.p.state
        BY <1>3 DEF PcbType
    <2> QED BY <1>3, <2>1, <2>2
<1> HIDE DEF p
<1>6. CASE Continue(r.c, p)
    BY <1>1, <1>3, <1>5, <1>6, ContinueInv
<1>7. CASE nc' = r.c /\ pcb' = p /\ msg' = msg /\ NoTail
    BY <1>1, <1>3, <1>5, <1>7, SameInv DEF Called, NoTail
<1> QED
    BY <1>4, <1>6, <1>7

\* poll_tcp, which may continue a write or a close, keeps the invariant.
LEMMA PollInv == ASSUME Inv, Poll PROVE Inv'
BY SameNc, ContinueInv DEF Poll, Callback, Inv, TypeOK

\* The end of poll_tcp and sent_tcp keeps the invariant.
LEMMA CallbackEndInv == ASSUME Inv, CallbackEnd PROVE Inv'
BY SameNc, SameInv DEF CallbackEnd, Called, Same, Inv, TypeOK

\* The acknowledgement of our FIN keeps the invariant.
LEMMA FinAckedInv == ASSUME Inv, FinAcked PROVE Inv'
<1> DEFINE r == Retry
<1>1. Called /\ pcb.state \in Active /\ pcb.state \notin {"NULL", "SYN_SENT"} /\ nc.mem # "free"
    BY DEF FinAcked, Callback, NoTail, Called, Inv, PcbInv, Active
<1>2. Same(r.c) /\ r.p \in PcbType
    BY <1>1, RetryType DEF Received
<1>3. \/ nc' = r.c /\ pcb' = [r.p EXCEPT !.state = "TIME_WAIT", !.refused = "none"] /\ msg' = msg
      \/ nc' = r.c /\ pcb' = [r.p EXCEPT !.state = "FREED"] /\ msg' = msg
      \/ ErrTcp(r.c)
    BY DEF FinAcked
<1> HIDE DEF r
<1>4. CASE nc' = r.c /\ pcb' = [r.p EXCEPT !.state = "TIME_WAIT", !.refused = "none"] /\ msg' = msg
    <2>1. pcb' \in PcbType /\ pcb'.state = "TIME_WAIT"
        BY <1>2, <1>4, StateNames DEF PcbType
    <2> QED BY <1>1, <1>2, <1>4, <2>1, SameInv
<1>5. CASE nc' = r.c /\ pcb' = [r.p EXCEPT !.state = "FREED"] /\ msg' = msg
    <2>1. pcb' \in PcbType /\ pcb'.state = "FREED"
        BY <1>2, <1>5, PcbStateType, StateNames
    <2> QED BY <1>1, <1>2, <1>5, <2>1, SameInv
<1>6. CASE ErrTcp(r.c)
    BY <1>1, <1>2, <1>6, ErrTcpInv
<1> QED
    BY <1>3, <1>4, <1>5, <1>6

\* The end of TIME_WAIT keeps the invariant.
LEMMA TimeWaitEndInv == ASSUME Inv, TimeWaitEnd PROVE Inv'
<1>1. Called /\ pcb.state = "TIME_WAIT"
    BY DEF TimeWaitEnd, Callback, NoTail, Called
<1>2. pcb' \in PcbType /\ pcb'.state = "FREED"
    BY PcbStateType, StateNames DEF TimeWaitEnd, Inv, TypeOK
<1> QED
    BY <1>1, <1>2, SameNc, SameInv DEF TimeWaitEnd, Same

----------------------------------------------------------------------------
(* Theorems.                                                               *)

\* Every step keeps the invariant.
LEMMA NextInv == ASSUME Inv, [Next]_vars PROVE Inv'
<1>1. CASE UNCHANGED vars
    BY <1>1, SameNc, SameInv DEF vars, Called, Same, Inv, TypeOK
<1>2. CASE Application
    BY <1>2, NetconnNewInv, QuietAppInv, NetconnCallInv, AcceptedInv, RecvFetchedInv, ReturnInv
    DEF Application
<1>3. CASE TcpipThread
    BY <1>3, DoNewconnInv, DoBindInv, DoConnectInv, DoListenInv, DoRecvInv, DoGetaddrInv,
       DoWriteInv, DoCloseInv, DoDelconnInv
    DEF TcpipThread
<1>4. CASE Events
    BY <1>4, AbortInv, AcceptFunctionInv, DropQueuedInv, NewConnectionInv, DoConnectedInv,
       RefusedRetryInv, PollInv, CallbackEndInv, FinAckedInv, TimeWaitEndInv, SegmentInv, AckedInv
    DEF Events
<1> QED
    BY <1>1, <1>2, <1>3, <1>4 DEF Next

\* The inductive invariant holds for any tasks, buffer and mailbox sizes.
THEOREM Invariance == Spec => []Inv
<1>1. Init => Inv
    BY InitInv
<1>2. Inv /\ [Next]_vars => Inv'
    BY NextInv
<1> QED
    BY <1>1, <1>2, PTL DEF Spec

\* Every variable of the connection stays in its range, and no mailbox holds more
\* than its capacity.
THEOREM TypeCorrect == Spec => []TypeOK
<1>1. Inv => TypeOK
    BY DEF Inv
<1> QED
    BY <1>1, Invariance, PTL

\* A task inside tcpip_apimsg is waited for in exactly one place.
THEOREM OneTokenHolds == Spec => []OneToken
<1>1. Inv => OneToken
    BY DEF Inv
<1> QED
    BY <1>1, Invariance, PTL

\* The assertions of do_writemore, do_close_internal, do_connected and err_tcp on
\* current_msg and state.
THEOREM CurMsgStateHolds == Spec => []CurMsgState
<1>1. Inv => CurMsgState
    BY DEF Inv
<1> QED
    BY <1>1, Invariance, PTL

\* netconn_write reports what it queued.
THEOREM WriteReportsHolds == Spec => []WriteReports
<1>1. Inv => WriteReports
    BY DEF Inv
<1> QED
    BY <1>1, Invariance, PTL

----------------------------------------------------------------------------
(* What the mailboxes hold: the NULL that ends a stream is last, a reader  *)
(* whose pcb is gone is woken, and a released conn has no mailbox.         *)

HasEof(q) == \E i \in 1 .. Len(q) : q[i] = "NULL"

\* The states of a pcb that receives no more data.
Ended == {"NULL", "CLOSE_WAIT", "CLOSING", "LAST_ACK", "TIME_WAIT", "FREED"}

\* For recvmbox q, refused data r and the state s of the pcb: data does not follow
\* the NULL, and behind the NULL nothing is refused and nothing will come.
Eof(q, r, s) ==
    /\ \A i, j \in 1 .. Len(q) : i < j /\ q[i] = "NULL" => q[j] = "NULL"
    /\ HasEof(q) => r = "none" /\ s \in Ended
    /\ r = "datafin" => s \in Ended
EofOf(c, p) == Eof(c.recvmbox.q, p.refused, p.state)

\* The mailboxes of d are those of c, perhaps fuller.
Filled(c, d) == /\ d.recvmbox.valid = c.recvmbox.valid /\ d.acceptmbox.valid = c.acceptmbox.valid
                /\ c.recvmbox.q # <<>> => d.recvmbox.q # <<>>
                /\ c.acceptmbox.q # <<>> => d.acceptmbox.q # <<>>
                /\ Fatal(c.lastErr) => Fatal(d.lastErr)

Queues == Seq({"data", "NULL"})

\* The queue of the recvmbox.
LEMMA RecvQueue == ASSUME NEW c, Bounded(c) PROVE c.recvmbox.q \in Queues
BY DEF Bounded, NcType, Mbox, Queues

\* A post puts the message behind the others, or the mailbox is full.
LEMMA TryPostBox ==
    ASSUME NEW S, NEW m \in Mbox(S), NEW cap \in Nat \ {0}, NEW x \in S
    PROVE  /\ TryPost(m, cap, x).valid = m.valid
           /\ TryPost(m, cap, x).q \in {m.q, Append(m.q, x)}
           /\ TryPost(m, cap, x).q # <<>>
<1>1. m.q \in Seq(S) /\ m = [valid |-> m.valid, q |-> m.q] /\ m.valid \in BOOLEAN
    BY DEF Mbox
<1>2. Append(m.q, x) # <<>>
    <2>1. Len(Append(m.q, x)) # 0
        BY <1>1
    <2>2. Len(<<>>) = 0
        OBVIOUS
    <2> QED BY <2>1, <2>2, Zenon
<1>3. CASE Len(m.q) < cap
    <2>1. TryPost(m, cap, x) = [valid |-> m.valid, q |-> Append(m.q, x)]
        BY <1>1, <1>3 DEF TryPost
    <2> QED BY <1>2, <2>1
<1>4. CASE ~(Len(m.q) < cap)
    <2>1. TryPost(m, cap, x) = m
        BY <1>4 DEF TryPost
    <2>2. Len(m.q) # 0
        BY <1>1, <1>4
    <2> QED BY <1>1, <2>1, <2>2
<1> QED
    BY <1>3, <1>4

\* The NULL behind a queue.
LEMMA EofNull ==
    ASSUME NEW q \in Queues, NEW r, NEW s, Eof(q, r, s), NEW s2 \in Ended
    PROVE  Eof(q, "none", s2) /\ Eof(Append(q, "NULL"), "none", s2)
BY DEF Eof, HasEof, Queues

\* Data behind a queue without the NULL.
LEMMA EofData ==
    ASSUME NEW q \in Queues, ~HasEof(q), NEW r \in {"none", "data", "datafin"}, NEW s,
           r = "datafin" => s \in Ended
    PROVE  /\ ~HasEof(Append(q, "data"))
           /\ Eof(q, r, s) /\ Eof(Append(q, "data"), r, s)
<1>1. ~HasEof(Append(q, "data"))
    <2>1. \A i \in 1 .. Len(Append(q, "data")) :
             Append(q, "data")[i] = IF i <= Len(q) THEN q[i] ELSE "data"
        BY DEF Queues
    <2>2. Len(q) \in Nat /\ Len(Append(q, "data")) = Len(q) + 1
        BY DEF Queues
    <2> QED BY <2>1, <2>2 DEF HasEof
<1>2. ASSUME NEW u, ~HasEof(u) PROVE Eof(u, r, s)
    <2>1. \A i \in 1 .. Len(u) : u[i] # "NULL"
        BY <1>2 DEF HasEof
    <2> QED BY <1>2, <2>1 DEF Eof
<1> QED
    BY <1>1, <1>2

\* recv_tcp posts to recvmbox.
LEMMA RecvTcpBox ==
    ASSUME NEW c, Bounded(c), NEW x \in {"data", "NULL"}
    PROVE  /\ Filled(c, RecvTcp(c, x))
           /\ RecvTcp(c, x).recvmbox.q \in {c.recvmbox.q, Append(c.recvmbox.q, x)}
<1>1. CASE c.recvmbox.valid
    <2> DEFINE d == SafeErr(c, "OK")
               r == TryPost(d.recvmbox, RecvCap, x)
    <2>0. c \in NcType
        BY DEF Bounded
    <2>a. d \in NcType /\ d.recvmbox = c.recvmbox /\ d.acceptmbox = c.acceptmbox
        BY <2>0, SafeErrType, ErrType
    <2>b. Fatal(c.lastErr) => Fatal(d.lastErr)
        BY DEF SafeErr
    <2>1. /\ d.recvmbox = c.recvmbox /\ d.acceptmbox = c.acceptmbox /\ d \in NcType
          /\ Fatal(c.lastErr) => Fatal(d.lastErr)
        BY <2>a, <2>b
    <2> HIDE DEF d
    <2>c. d.recvmbox \in RecvMbox
        BY <2>a DEF NcType, RecvMbox
    <2>2. r.valid = c.recvmbox.valid /\ r.q \in {c.recvmbox.q, Append(c.recvmbox.q, x)} /\ r.q # <<>>
        BY <2>1, <2>c, TryPostBox DEF RecvMbox
    <2>3. RecvTcp(c, x) = [d EXCEPT !.recvmbox = r]
        BY <1>1 DEF RecvTcp, d
    <2> HIDE DEF r
    <2>4. /\ [d EXCEPT !.recvmbox = r].recvmbox = r
          /\ [d EXCEPT !.recvmbox = r].acceptmbox = d.acceptmbox
          /\ [d EXCEPT !.recvmbox = r].lastErr = d.lastErr
        BY <2>1 DEF NcType
    <2> QED BY <2>1, <2>2, <2>3, <2>4 DEF Filled
<1>2. CASE ~c.recvmbox.valid
    BY <1>2 DEF RecvTcp, Filled
<1> QED
    BY <1>1, <1>2

\* err_tcp leaves no mailbox empty.
LEMMA WakeBox ==
    ASSUME NEW c, Bounded(c)
    PROVE  /\ Filled(c, WakeMboxes(c))
           /\ WakeMboxes(c).recvmbox.q \in {c.recvmbox.q, Append(c.recvmbox.q, "NULL")}
           /\ c.recvmbox.valid => WakeMboxes(c).recvmbox.q # <<>>
           /\ c.acceptmbox.valid => WakeMboxes(c).acceptmbox.q # <<>>
<1> DEFINE r == IF c.recvmbox.valid THEN TryPost(c.recvmbox, RecvCap, "NULL") ELSE c.recvmbox
           a == IF c.acceptmbox.valid THEN TryPost(c.acceptmbox, AcceptCap, "NULL") ELSE c.acceptmbox
<1>0. /\ TryPost(c.recvmbox, RecvCap, "NULL").valid = c.recvmbox.valid
      /\ TryPost(c.recvmbox, RecvCap, "NULL").q \in {c.recvmbox.q, Append(c.recvmbox.q, "NULL")}
      /\ TryPost(c.recvmbox, RecvCap, "NULL").q # <<>>
      /\ TryPost(c.acceptmbox, AcceptCap, "NULL").valid = c.acceptmbox.valid
      /\ TryPost(c.acceptmbox, AcceptCap, "NULL").q \in {c.acceptmbox.q, Append(c.acceptmbox.q, "NULL")}
      /\ TryPost(c.acceptmbox, AcceptCap, "NULL").q # <<>>
    <2>1. c.recvmbox \in RecvMbox /\ c.acceptmbox \in AcceptMbox
        BY BoundedMboxes
    <2> QED BY <2>1, TryPostBox DEF RecvMbox, AcceptMbox
<1>1. /\ r.valid = c.recvmbox.valid /\ r.q \in {c.recvmbox.q, Append(c.recvmbox.q, "NULL")}
      /\ c.recvmbox.valid => r.q # <<>>
    BY <1>0
<1>2. /\ a.valid = c.acceptmbox.valid /\ a.q \in {c.acceptmbox.q, Append(c.acceptmbox.q, "NULL")}
      /\ c.acceptmbox.valid => a.q # <<>>
    BY <1>0
<1>3. WakeMboxes(c) = [c EXCEPT !.recvmbox = r, !.acceptmbox = a]
    BY DEF WakeMboxes
<1>4. /\ c.recvmbox.q # <<>> => r.q # <<>>
      /\ c.acceptmbox.q # <<>> => a.q # <<>>
    <2>1. c.recvmbox.valid \/ r = c.recvmbox
        OBVIOUS
    <2>2. c.acceptmbox.valid \/ a = c.acceptmbox
        OBVIOUS
    <2> QED BY <1>1, <1>2, <2>1, <2>2
<1> HIDE DEF r, a
<1>5. WakeMboxes(c).recvmbox = r /\ WakeMboxes(c).acceptmbox = a
      /\ WakeMboxes(c).lastErr = c.lastErr
    BY <1>3 DEF Bounded, NcType
<1> QED
    BY <1>1, <1>2, <1>4, <1>5 DEF Filled

\* A segment given to recv_tcp or kept as refused_data, before the end of the stream.
LEMMA RecvBox ==
    ASSUME NEW c, Bounded(c), NEW p \in PcbType, NEW x \in {"data", "datafin"},
           ~HasEof(c.recvmbox.q), x = "datafin" => p.state \in Ended
    PROVE  /\ Filled(c, Recv(c, p, x).c)
           /\ ~HasEof(Recv(c, p, x).c.recvmbox.q)
           /\ EofOf(Recv(c, p, x).c, Recv(c, p, x).p)
<1> DEFINE d == Recv(c, p, x).c
           y == Recv(c, p, x).p
<1>1. d \in {c, RecvTcp(c, "data")} /\ \E z \in {"none", x} : y = [p EXCEPT !.refused = z]
    BY DEF Recv
<1>2. y.state = p.state /\ y.refused \in {"none", x}
    BY <1>1 DEF PcbType
<1>3. Filled(c, d) /\ d.recvmbox.q \in {c.recvmbox.q, Append(c.recvmbox.q, "data")}
    BY <1>1, RecvTcpBox DEF Filled
<1> HIDE DEF d, y
<1>4. ~HasEof(d.recvmbox.q) /\ Eof(d.recvmbox.q, y.refused, y.state)
    BY <1>2, <1>3, RecvQueue, EofData
<1> QED
    BY <1>3, <1>4 DEF EofOf, d, y

\* A FIN: the NULL goes behind the data, or waits with the refused data.
LEMMA GotFinBox ==
    ASSUME NEW c, Bounded(c), NEW p \in PcbType, ~HasEof(c.recvmbox.q), p.state \in Ended
    PROVE  /\ Filled(c, GotFin([c |-> c, p |-> p]).c)
           /\ EofOf(GotFin([c |-> c, p |-> p]).c, GotFin([c |-> c, p |-> p]).p)
<1> DEFINE g == GotFin([c |-> c, p |-> p])
<1>1. CASE p.refused # "none"
    <2>1. g = [c |-> c, p |-> [p EXCEPT !.refused = "datafin"]]
        BY <1>1 DEF GotFin
    <2>2. g.c = c /\ g.p.refused = "datafin" /\ g.p.state = p.state
        BY <2>1 DEF PcbType
    <2> HIDE DEF g
    <2>3. Eof(c.recvmbox.q, "datafin", p.state)
        BY RecvQueue, EofData
    <2> QED BY <2>2, <2>3 DEF g, Filled, EofOf
<1>2. CASE p.refused = "none"
    <2>1. g.p = p /\ g.c \in {c, RecvTcp(c, "NULL")}
        BY <1>2 DEF GotFin
    <2>2. Filled(c, g.c) /\ g.c.recvmbox.q \in {c.recvmbox.q, Append(c.recvmbox.q, "NULL")}
        BY <2>1, RecvTcpBox DEF Filled
    <2> HIDE DEF g
    <2>3. Eof(c.recvmbox.q, "none", p.state)
        BY RecvQueue, EofData
    <2>4. Eof(g.c.recvmbox.q, "none", p.state)
        BY <2>2, <2>3, RecvQueue, EofNull
    <2> QED BY <1>2, <2>1, <2>2, <2>4 DEF g, EofOf
<1> QED
    BY <1>1, <1>2

\* tcp_process_refused_data: data refused before the end comes before the NULL.
LEMMA RetryBox ==
    ASSUME Inv, EofOf(nc, pcb), nc.mem # "free"
    PROVE  Filled(nc, Retry.c) /\ EofOf(Retry.c, Retry.p)
<1>1. Bounded(nc) /\ pcb \in PcbType /\ pcb.refused \in {"none", "data", "datafin"}
    BY SameNc DEF Inv, TypeOK, PcbType, Same
<1> DEFINE r == Recv(nc, pcb, pcb.refused)
<1>2. CASE pcb.refused = "none"
    BY <1>2 DEF Retry, Filled
<1>3. CASE pcb.refused # "none"
    <2>1. ~HasEof(nc.recvmbox.q) /\ (pcb.refused = "datafin" => pcb.state \in Ended)
        BY <1>3 DEF EofOf, Eof
    <2>2. Filled(nc, r.c) /\ ~HasEof(r.c.recvmbox.q) /\ EofOf(r.c, r.p)
        BY <1>1, <1>3, <2>1, RecvBox
    <2>3. r = [c |-> r.c, p |-> r.p]
        BY DEF Recv
    <2> HIDE DEF r
    <2>4. Same(r.c) /\ r.p \in PcbType /\ r.p.state = pcb.state
        BY <1>1, <1>3, SameNc, RecvType DEF Received, r
    <2>5. CASE pcb.refused = "datafin" /\ r.p.refused = "none"
        <3>1. Retry = GotFin(r)
            BY <1>3, <2>5 DEF Retry, r
        <3>2. Filled(r.c, GotFin(r).c) /\ EofOf(GotFin(r).c, GotFin(r).p)
            BY <2>1, <2>2, <2>3, <2>4, <2>5, GotFinBox DEF Same
        <3> QED BY <2>2, <3>1, <3>2 DEF Filled
    <2>6. CASE ~(pcb.refused = "datafin" /\ r.p.refused = "none")
        <3>1. Retry = r
            BY <1>3, <2>6 DEF Retry, r
        <3> QED BY <2>2, <3>1
    <2> QED BY <2>5, <2>6
<1> QED
    BY <1>2, <1>3

----------------------------------------------------------------------------
(* What an event does to the mailboxes.                                    *)

Drained(c) == ~c.recvmbox.valid /\ ~c.acceptmbox.valid
Woken(c) == /\ Fatal(c.lastErr)
            /\ c.recvmbox.valid => c.recvmbox.q # <<>>
            /\ c.acceptmbox.valid => c.acceptmbox.q # <<>>

EofInv == EofOf(nc, pcb)

\* A close that shuts the receive side has drained the mailboxes, also when its
\* answer waits for a callback; only a listener has an acceptmbox; a conn just
\* allocated has an empty recvmbox.
MboxInv ==
    /\ nc.state = "CLOSE" /\ RD \in msg[nc.cur].shut => Drained(nc)
    /\ nc.acceptmbox.valid => pcb.state = "LISTEN"
    /\ \A t \in Tasks : pc[t] = "wait" =>
          /\ Signalled /\ msg[t].fn = "delconn" => Drained(nc)
          /\ msg[t].fn = "newconn" =>
                /\ Queued(t) => nc.recvmbox = NewMbox /\ ~nc.acceptmbox.valid
                /\ Signalled /\ msg[t].err # "OK" => nc.recvmbox.valid /\ ~nc.acceptmbox.valid
                /\ Signalled /\ msg[t].err = "OK" => pcb.state = "CLOSED"

\* An event on a pcb that is connected, listens or waits.
Effect == /\ pcb.state \notin {"NULL", "CLOSED"} /\ nc.mem # "free"
          /\ pc' = pc /\ mbox' = mbox /\ nc'.mem = nc.mem
          /\ nc'.sem \in {nc.sem, 1}
          /\ \A u \in Tasks : msg'[u].fn = msg[u].fn /\ msg'[u].shut = msg[u].shut
          /\ nc'.state = "CLOSE" => nc.state = "CLOSE" /\ nc'.cur = nc.cur
          /\ Filled(nc, nc') /\ EofInv'
          /\ pcb'.state = "NULL" => Woken(nc') \/ Drained(nc')

\* The result of err_tcp written to the message of the call in progress.
LEMMA AnswerKeeps ==
    ASSUME Inv, NEW t \in Tasks, NEW e, msg' = [msg EXCEPT ![t].err = e]
    PROVE  \A u \in Tasks : msg'[u].fn = msg[u].fn /\ msg'[u].shut = msg[u].shut
<1>1. msg \in [Tasks -> MsgType]
    BY DEF Inv, TypeOK
<1> QED
    BY <1>1 DEF MsgType

\* A callback that leaves the call in progress alone.
LEMMA SameEffect ==
    ASSUME Inv, pcb.state \notin {"NULL", "CLOSED"}, Same(nc'), msg' = msg, pc' = pc,
           mbox' = mbox, Filled(nc, nc'), EofOf(nc', pcb'), pcb'.state # "NULL"
    PROVE  Effect
<1>1. nc.mem # "free"
    BY DEF Inv, PcbInv
<1> QED
    BY <1>1 DEF Effect, Same, SameCore, EofInv

\* err_tcp.
LEMMA ErrTcpEffect ==
    ASSUME Called, NEW c, Same(c), pcb.state \in Active, ErrTcp(c), Filled(nc, c),
           NEW r, NEW s, Eof(c.recvmbox.q, r, s)
    PROVE  Effect
<1> DEFINE w == WakeMboxes(c)
           c1 == [w EXCEPT !.lastErr = "FATAL", !.state = "NONE",
                           !.nbConnect = @ /\ ~Ending(c)]
           d == Signal([c1 EXCEPT !.cur = NoTask])
<1>1. /\ Bounded(w) /\ SameCore(w, c) /\ Filled(c, w)
      /\ w.recvmbox.q \in {c.recvmbox.q, Append(c.recvmbox.q, "NULL")}
      /\ c.recvmbox.valid => w.recvmbox.q # <<>>
      /\ c.acceptmbox.valid => w.acceptmbox.q # <<>>
    BY WakeType, WakeBox DEF Same
<1>2. /\ c.state = nc.state /\ c.nbConnect = nc.nbConnect /\ c.cur = nc.cur /\ c.sem = nc.sem
      /\ c.mem = nc.mem
    BY DEF Same, SameCore
<1>3. NoPcb.state = "NULL" /\ NoPcb.refused = "none" /\ "NULL" \in Ended
    BY DEF NoPcb, Ended
<1>4. Eof(w.recvmbox.q, "none", "NULL")
    BY <1>1, <1>3, RecvQueue, EofNull DEF Same
<1> HIDE DEF w
<1>5. /\ c1.recvmbox = w.recvmbox /\ c1.acceptmbox = w.acceptmbox /\ c1.lastErr = "FATAL"
      /\ c1.mem = nc.mem /\ c1.sem = nc.sem /\ c1.state = "NONE"
    BY <1>1, <1>2 DEF Bounded, NcType, SameCore
<1>6. /\ d.recvmbox = w.recvmbox /\ d.acceptmbox = w.acceptmbox /\ d.lastErr = "FATAL"
      /\ d.mem = nc.mem /\ d.sem = 1 /\ d.state = "NONE"
    BY <1>1, <1>2 DEF Bounded, NcType, SameCore, Signal
<1>7. nc' \in {c1, d} /\ pcb' = NoPcb
    BY DEF ErrTcp, w
<1>8. \A u \in Tasks : msg'[u].fn = msg[u].fn /\ msg'[u].shut = msg[u].shut
    <2>1. CASE Ending(c) /\ ~c.nbConnect
        <3>1. nc.cur # NoTask /\ nc.cur \in Tasks
            BY <1>2, <2>1 DEF Called, Inv, CurMsgState, Ending, TypeOK, NcType, PcbInv
        <3>2. msg' = [msg EXCEPT ![nc.cur].err = "FATAL"]
            BY <1>2, <2>1 DEF ErrTcp
        <3> QED BY <3>1, <3>2, AnswerKeeps DEF Called
    <2>2. CASE ~(Ending(c) /\ ~c.nbConnect)
        BY <2>2 DEF ErrTcp
    <2> QED BY <2>1, <2>2
<1> HIDE DEF c1, d
<1>9. /\ nc'.recvmbox = w.recvmbox /\ nc'.acceptmbox = w.acceptmbox /\ nc'.lastErr = "FATAL"
      /\ nc'.mem = nc.mem /\ nc'.sem \in {nc.sem, 1} /\ nc'.state = "NONE"
    BY <1>5, <1>6, <1>7
<1>10. Filled(nc, nc')
    BY <1>1, <1>9 DEF Filled, Fatal
<1>11. Woken(nc')
    BY <1>1, <1>9 DEF Filled, Fatal, Woken
<1>12. EofInv'
    BY <1>3, <1>4, <1>7, <1>9 DEF EofInv, EofOf
<1>13. pcb.state \notin {"NULL", "CLOSED"} /\ nc.mem # "free"
    BY DEF Called, Inv, PcbInv, Active
<1> QED
    BY <1>8, <1>9, <1>10, <1>11, <1>12, <1>13 DEF Effect, Called

\* A write, begun or continued, touches no mailbox.
LEMMA WriteMoreBox ==
    ASSUME Inv, NEW t \in Tasks, NEW c \in NcType, NEW p \in PcbType, WriteMore(t, c, p)
    PROVE  /\ nc'.recvmbox = c.recvmbox /\ nc'.acceptmbox = c.acceptmbox
           /\ nc'.lastErr = c.lastErr /\ nc'.mem = c.mem /\ nc'.sem \in {c.sem, 1}
           /\ nc'.state \in {c.state, "NONE"} /\ (nc'.cur = c.cur \/ nc'.state = "NONE")
           /\ pcb'.state = p.state /\ pcb'.refused = p.refused
           /\ \A u \in Tasks : msg'[u].fn = msg[u].fn /\ msg'[u].shut = msg[u].shut
<1>1. /\ nc'.recvmbox = c.recvmbox /\ nc'.acceptmbox = c.acceptmbox /\ nc'.lastErr = c.lastErr
      /\ nc'.mem = c.mem /\ nc'.sem \in {c.sem, 1} /\ nc'.state \in {c.state, "NONE"}
      /\ nc'.cur = c.cur \/ nc'.state = "NONE"
    BY DEF WriteMore, Signal, NcType
<1>2. pcb'.state = p.state /\ pcb'.refused = p.refused
    BY DEF WriteMore, PcbType
<1>3. \A u \in Tasks : msg'[u].fn = msg[u].fn /\ msg'[u].shut = msg[u].shut
    <2>1. msg \in [Tasks -> MsgType]
        BY DEF Inv, TypeOK
    <2> QED BY <2>1 DEF WriteMore, MsgType
<1> QED
    BY <1>1, <1>2, <1>3

\* lwip_netconn_do_writemore only hands data to the stack, or ends a write.
LEMMA WriteMoreEffect ==
    ASSUME Called, NEW c, Same(c), Filled(nc, c), NEW p \in PcbType, p.state = pcb.state,
           EofOf(c, p), pcb.state \in Active, nc.cur \in Tasks, WriteMore(nc.cur, c, p)
    PROVE  Effect
<1>1. /\ nc'.recvmbox = c.recvmbox /\ nc'.acceptmbox = c.acceptmbox
      /\ nc'.lastErr = c.lastErr /\ nc'.mem = c.mem /\ nc'.sem \in {c.sem, 1}
      /\ nc'.state \in {c.state, "NONE"} /\ (nc'.cur = c.cur \/ nc'.state = "NONE")
      /\ pcb'.state = p.state /\ pcb'.refused = p.refused
      /\ \A u \in Tasks : msg'[u].fn = msg[u].fn /\ msg'[u].shut = msg[u].shut
    BY WriteMoreBox DEF Same, Bounded, Called
<1>2. /\ c.mem = nc.mem /\ c.sem = nc.sem /\ c.state = nc.state /\ c.cur = nc.cur
    BY DEF Same, SameCore
<1>3. EofInv' /\ Filled(nc, nc')
    BY <1>1 DEF EofInv, EofOf, Filled
<1>4. pcb.state \notin {"NULL", "CLOSED"} /\ nc.mem # "free"
    BY DEF Called, Inv, PcbInv, Active
<1> QED
    BY <1>1, <1>2, <1>3, <1>4 DEF Effect, Called

\* A close that succeeds forgets refused data or leaves the end of the stream.
LEMMA ClosedEof ==
    ASSUME NEW q, NEW p \in PcbType, Eof(q, p.refused, p.state), NEW shut \in Shuts,
           CloseMaySucceed(p, shut)
    PROVE  /\ Eof(q, Closed(p, shut).refused, Closed(p, shut).state)
           /\ Closed(p, shut).state = "NULL" => shut = {RD, WR} \/ p.state = "NULL"
           /\ p.state = "LISTEN" => Closed(p, shut).state = "LISTEN" \/ shut = {RD, WR}
<1>1. CASE shut = {RD}
    <2>1. Closed(p, shut).refused = "none" /\ Closed(p, shut).state = p.state
        BY <1>1, ShutNames DEF Closed, PcbType
    <2> QED BY <2>1 DEF Eof
<1>2. CASE shut = {WR}
    <2>1. /\ Closed(p, shut).refused = p.refused
          /\ Closed(p, shut).state = IF p.state = "ESTABLISHED" THEN "FIN_WAIT" ELSE "LAST_ACK"
        BY <1>2, ShutNames DEF Closed, PcbType
    <2>2. p.state \in Connected
        BY <1>2 DEF CloseMaySucceed
    <2> QED BY <2>1, <2>2 DEF Eof, Connected, Ended
<1>3. CASE shut = {RD, WR}
    <2>1. Closed(p, shut).refused = "none" /\ Closed(p, shut).state = "NULL"
        BY <1>3, ShutNames DEF Closed, NoPcb
    <2> QED BY <1>3, <2>1 DEF Eof, Ended
<1> QED
    BY <1>1, <1>2, <1>3 DEF Shuts

\* A close that is tried again: one that shuts both sides has drained the mailboxes.
LEMMA CloseInternalEffect ==
    ASSUME Called, NEW c, Same(c), Filled(nc, c), NEW p \in PcbType, p.state = pcb.state,
           EofOf(c, p), pcb.state \in Active, nc.cur \in Tasks, nc.state = "CLOSE",
           RD \in msg[nc.cur].shut => Drained(nc), CloseInternal(nc.cur, c, p)
    PROVE  Effect
<1> DEFINE shut == msg[nc.cur].shut
           d == Signal([c EXCEPT !.cur = NoTask, !.state = "NONE"])
<1>1. /\ c.mem = nc.mem /\ c.sem = nc.sem /\ c.state = nc.state /\ c.cur = nc.cur
    BY DEF Same, SameCore
<1>2. /\ d.recvmbox = c.recvmbox /\ d.acceptmbox = c.acceptmbox /\ d.lastErr = c.lastErr
      /\ d.mem = c.mem /\ d.sem = 1 /\ d.state = "NONE"
    BY DEF Signal, Same, Bounded, NcType
<1>3. shut \in Shuts
    BY DEF Called, Inv, TypeOK, MsgType
<1>4. pcb.state \notin {"NULL", "CLOSED"} /\ nc.mem # "free"
    BY DEF Called, Inv, PcbInv, Active
<1>5. \/ /\ CloseMaySucceed(p, shut)
         /\ nc' = d /\ pcb' = Closed(p, shut) /\ msg' = [msg EXCEPT ![nc.cur].err = "OK"]
      \/ /\ CloseMayFail(p, shut)
         /\ nc' = c /\ pcb' = NotClosed(p, shut) /\ msg' = msg
    BY DEF CloseInternal, Ack
<1> HIDE DEF d, shut
<1>6. CASE /\ CloseMaySucceed(p, shut)
           /\ nc' = d /\ pcb' = Closed(p, shut) /\ msg' = [msg EXCEPT ![nc.cur].err = "OK"]
    <2>1. \A u \in Tasks : msg'[u].fn = msg[u].fn /\ msg'[u].shut = msg[u].shut
        BY <1>6, AnswerKeeps DEF Called
    <2>2. Filled(nc, nc')
        BY <1>2, <1>6 DEF Filled
    <2>3. EofOf(d, Closed(p, shut))
        BY <1>2, <1>3, <1>6, ClosedEof DEF EofOf
    <2>4. pcb'.state = "NULL" => Drained(nc')
        <3>1. pcb'.state = "NULL" => shut = {RD, WR}
            BY <1>3, <1>4, <1>6, ClosedEof DEF EofOf
        <3>2. shut = {RD, WR} => Drained(nc)
            BY DEF shut
        <3> QED BY <2>2, <3>1, <3>2 DEF Filled, Drained
    <2> QED BY <1>1, <1>2, <1>4, <1>6, <2>1, <2>2, <2>3, <2>4 DEF Effect, Called, EofInv
<1>7. CASE /\ CloseMayFail(p, shut)
           /\ nc' = c /\ pcb' = NotClosed(p, shut) /\ msg' = msg
    <2>1. pcb'.state = p.state /\ pcb'.refused = p.refused
        BY <1>7 DEF NotClosed, PcbType
    <2> QED BY <1>1, <1>4, <1>7, <2>1, SameEffect DEF Called, EofOf
<1> QED
    BY <1>5, <1>6, <1>7

\* What poll_tcp and sent_tcp continue.
LEMMA ContinueEffect ==
    ASSUME Called, MboxInv, pcb.state \in Active, NEW c, Same(c), Filled(nc, c),
           NEW p \in PcbType, p.state = pcb.state, EofOf(c, p), Continue(c, p)
    PROVE  Effect
<1>1. c.state = nc.state /\ c.cur = nc.cur
    BY DEF Same, SameCore
<1>2. nc.state \in {"WRITE", "CLOSE"} => nc.cur \in Tasks
    BY DEF Called, Inv, CurMsgState, TypeOK, NcType
<1>3. CASE c.state = "WRITE"
    BY <1>1, <1>2, <1>3, WriteMoreEffect DEF Continue
<1>4. CASE c.state = "CLOSE"
    <2>1. RD \in msg[nc.cur].shut => Drained(nc)
        BY <1>1, <1>4 DEF MboxInv
    <2> QED BY <1>1, <1>2, <1>4, <2>1, CloseInternalEffect DEF Continue
<1>5. CASE c.state \notin {"WRITE", "CLOSE"}
    <2>1. nc' = c /\ pcb' = p /\ msg' = msg
        BY <1>5 DEF Continue
    <2>2. pcb.state \notin {"NULL", "CLOSED"}
        BY DEF Active
    <2> QED BY <2>1, <2>2, SameEffect DEF Called
<1> QED
    BY <1>3, <1>4, <1>5

\* tcp_process_refused_data, for a pcb that has any.
LEMMA RetryEffect ==
    ASSUME Inv, EofInv, nc.mem # "free"
    PROVE  /\ Same(Retry.c) /\ Filled(nc, Retry.c) /\ EofOf(Retry.c, Retry.p)
           /\ Retry.p \in PcbType /\ Retry.p.state = pcb.state
           /\ Retry.p.sndbuf = pcb.sndbuf
BY RetryBox, RetryType DEF EofInv, Received

\* A connection accepted, seen from the listener.
LEMMA NewConnectionEffect == ASSUME Inv, EofInv, NewConnection PROVE Effect
<1> DEFINE a == TryPost(nc.acceptmbox, AcceptCap, "conn")
<1>1. nc \in NcType /\ nc.acceptmbox \in AcceptMbox
    BY DEF Inv, TypeOK, NcType, AcceptMbox
<1>2. a.valid = nc.acceptmbox.valid /\ a.q # <<>>
    BY <1>1, TryPostBox DEF AcceptMbox
<1>3. nc' = [nc EXCEPT !.acceptmbox = a]
    BY DEF NewConnection
<1> HIDE DEF a
<1>4. /\ nc'.acceptmbox = a /\ nc'.recvmbox = nc.recvmbox /\ nc'.lastErr = nc.lastErr
      /\ nc'.mem = nc.mem /\ nc'.sem = nc.sem /\ nc'.state = nc.state /\ nc'.cur = nc.cur
    BY <1>1, <1>3 DEF NcType
<1>5. nc.mem # "free"
    BY DEF NewConnection, Inv, PcbInv
<1> QED
    BY <1>2, <1>4, <1>5 DEF NewConnection, Callback, Effect, Filled, EofInv, EofOf

\* The SYN+ACK: nothing has been received before it.
LEMMA DoConnectedEffect == ASSUME Inv, EofInv, DoConnected PROVE Effect
<1> DEFINE c == [nc EXCEPT !.nbConnect = FALSE, !.cur = NoTask, !.state = "NONE"]
<1>1. nc \in NcType /\ pcb \in PcbType /\ pcb.state = "SYN_SENT"
    BY DEF Inv, TypeOK, DoConnected
<1>2. /\ c.recvmbox = nc.recvmbox /\ c.acceptmbox = nc.acceptmbox /\ c.lastErr = nc.lastErr
      /\ c.mem = nc.mem /\ c.sem = nc.sem /\ c.state = "NONE" /\ c \in NcType
    BY <1>1 DEF NcType
<1>3. nc' = SafeErr(c, "OK") \/ nc' = Signal(c)
    BY DEF DoConnected
<1> HIDE DEF c
<1>4. /\ nc'.recvmbox = nc.recvmbox /\ nc'.acceptmbox = nc.acceptmbox
      /\ Fatal(nc.lastErr) => Fatal(nc'.lastErr)
      /\ nc'.mem = nc.mem /\ nc'.sem \in {nc.sem, 1} /\ nc'.state = "NONE"
    BY <1>2, <1>3 DEF SafeErr, Signal, NcType
<1>5. pcb'.refused = pcb.refused /\ pcb'.state = "ESTABLISHED"
    BY <1>1 DEF DoConnected, Setup, PcbType
<1>6. EofInv'
    <2>1. ~HasEof(nc.recvmbox.q) /\ pcb.refused # "datafin"
        BY <1>1 DEF EofInv, EofOf, Eof, Ended
    <2> QED BY <1>4, <1>5, <2>1 DEF EofInv, EofOf, Eof
<1>7. \A u \in Tasks : msg'[u].fn = msg[u].fn /\ msg'[u].shut = msg[u].shut
    <2>1. msg \in [Tasks -> MsgType]
        BY DEF Inv, TypeOK
    <2> QED BY <2>1 DEF DoConnected, MsgType
<1>8. nc.mem # "free"
    BY <1>1 DEF Inv, PcbInv
<1> QED
    BY <1>1, <1>4, <1>5, <1>6, <1>7, <1>8 DEF DoConnected, Callback, Effect, Filled

\* A reset, and the retry of refused data by tcp_fasttmr.
LEMMA AbortEffect == ASSUME Inv, EofInv, Abort PROVE Effect
<1>1. Called
    BY DEF Abort, Callback, NoTail, Called
<1>2. Filled(nc, nc) /\ Eof(nc.recvmbox.q, pcb.refused, pcb.state)
    BY DEF Filled, EofInv, EofOf
<1> QED
    BY <1>1, <1>2, SameNc, ErrTcpEffect DEF Abort

\* Data that was refused before is offered to recv_tcp again.
LEMMA RefusedRetryEffect == ASSUME Inv, EofInv, RefusedRetry PROVE Effect
<1>1. pcb.state \notin {"NULL", "CLOSED"} /\ nc.mem # "free"
    BY DEF RefusedRetry, Inv, PcbInv, Active
<1> QED
    BY <1>1, RetryEffect, SameEffect DEF RefusedRetry, Callback

\* poll_tcp and sent_tcp.
LEMMA PollEffect == ASSUME Inv, EofInv, MboxInv, Poll PROVE Effect
<1>1. Called
    BY DEF Poll, Callback, Called, Continue
<1>2. Filled(nc, nc) /\ pcb \in PcbType
    BY DEF Filled, Inv, TypeOK
<1> QED
    BY <1>1, <1>2, SameNc, ContinueEffect DEF Poll, EofInv

\* An acknowledgement lets a write or a close go on.
LEMMA AckedEffect ==
    ASSUME Inv, EofInv, MboxInv, NEW n \in 1 .. SndBuf, Acked(n) PROVE Effect
<1> DEFINE r == Retry
           p == [r.p EXCEPT !.sndbuf = @ + n]
<1>1. /\ pc' = pc /\ mbox' = mbox /\ pcb.state \in Active /\ pcb.sndbuf + n <= SndBuf
      /\ nc.mem # "free"
    BY DEF Acked, Callback, Inv, PcbInv, Active
<1>2. /\ Same(r.c) /\ Filled(nc, r.c) /\ EofOf(r.c, r.p) /\ r.p \in PcbType
      /\ r.p.state = pcb.state /\ r.p.sndbuf = pcb.sndbuf
    BY <1>1, RetryEffect
<1>3. IF p.sentCb THEN Continue(r.c, p)
      ELSE nc' = r.c /\ pcb' = p /\ msg' = msg /\ NoTail
    BY DEF Acked
<1> HIDE DEF r
<1>4. p \in PcbType /\ p.state = pcb.state /\ p.refused = r.p.refused
    <2>1. r.p.sndbuf + n \in 0 .. SndBuf
        BY <1>1, <1>2 DEF PcbType
    <2>2. \A x \in 0 .. SndBuf :
             /\ [r.p EXCEPT !.sndbuf = x] \in PcbType
             /\ [r.p EXCEPT !.sndbuf = x].state = r.p.state
             /\ [r.p EXCEPT !.sndbuf = x].refused = r.p.refused
        BY <1>2 DEF PcbType
    <2> QED BY <1>2, <2>1, <2>2
<1> HIDE DEF p
<1>5. EofOf(r.c, p)
    BY <1>2, <1>4 DEF EofOf
<1>6. CASE Continue(r.c, p)
    <2>1. Called
        BY <1>1, <1>6 DEF Called, Continue
    <2> QED BY <1>1, <1>2, <1>4, <1>5, <1>6, <2>1, ContinueEffect
<1>7. CASE nc' = r.c /\ pcb' = p /\ msg' = msg /\ NoTail
    <2>1. pcb.state \notin {"NULL", "CLOSED"}
        BY <1>1 DEF Active
    <2> QED BY <1>1, <1>2, <1>4, <1>5, <1>7, <2>1, SameEffect
<1> QED
    BY <1>3, <1>6, <1>7

\* The acknowledgement of our FIN, and the end of TIME_WAIT.
LEMMA FinAckedEffect == ASSUME Inv, EofInv, FinAcked PROVE Effect
<1> DEFINE r == Retry
<1>1. /\ Called /\ pcb.state \in {"CLOSING", "LAST_ACK"} /\ pcb.state \in Active
      /\ nc.mem # "free"
    BY DEF FinAcked, Callback, NoTail, Called, Inv, PcbInv, Active
<1>2. /\ Same(r.c) /\ Filled(nc, r.c) /\ EofOf(r.c, r.p) /\ r.p \in PcbType
    BY <1>1, RetryEffect
<1>3. \/ nc' = r.c /\ pcb' = [r.p EXCEPT !.state = "TIME_WAIT", !.refused = "none"] /\ msg' = msg
      \/ nc' = r.c /\ pcb' = [r.p EXCEPT !.state = "FREED"] /\ msg' = msg
      \/ ErrTcp(r.c)
    BY DEF FinAcked
<1> HIDE DEF r
<1>4. CASE \/ nc' = r.c /\ pcb' = [r.p EXCEPT !.state = "TIME_WAIT", !.refused = "none"] /\ msg' = msg
           \/ nc' = r.c /\ pcb' = [r.p EXCEPT !.state = "FREED"] /\ msg' = msg
    <2>1. pcb'.state \in {"TIME_WAIT", "FREED"} /\ pcb'.refused \in {"none", r.p.refused}
        BY <1>2, <1>4 DEF PcbType
    <2>2. nc' = r.c /\ msg' = msg
        BY <1>4
    <2>3. EofOf(nc', pcb')
        BY <1>2, <2>1, <2>2 DEF EofOf, Eof, Ended
    <2>4. pcb.state \notin {"NULL", "CLOSED"} /\ pcb'.state # "NULL"
        BY <1>1, <2>1
    <2> QED BY <1>1, <1>2, <2>2, <2>3, <2>4, SameEffect DEF Called
<1>5. CASE ErrTcp(r.c)
    BY <1>1, <1>2, <1>5, ErrTcpEffect DEF EofOf
<1> QED
    BY <1>3, <1>4, <1>5

\* The end of TIME_WAIT concerns no mailbox.
LEMMA TimeWaitEndEffect == ASSUME Inv, EofInv, TimeWaitEnd PROVE Effect
<1>1. pcb'.state = "FREED" /\ pcb'.refused = pcb.refused
    BY DEF TimeWaitEnd, Inv, TypeOK, PcbType
<1>2. EofOf(nc', pcb')
    BY <1>1 DEF TimeWaitEnd, EofInv, EofOf, Eof, Ended
<1>3. Filled(nc, nc') /\ Same(nc')
    BY SameNc DEF TimeWaitEnd, Filled
<1> QED
    BY <1>1, <1>2, <1>3, SameEffect DEF TimeWaitEnd, Callback

\* A segment: its data goes behind the data refused before, its FIN behind both.
LEMMA SegmentEffect ==
    ASSUME Inv, EofInv, NEW d \in BOOLEAN, NEW f \in BOOLEAN, Segment(d, f) PROVE Effect
<1> DEFINE r == Retry
<1>1. /\ Called /\ pcb.state \in {"ESTABLISHED", "FIN_WAIT"} /\ pcb.state \in Active
      /\ pcb.state \notin Ended /\ pcb.state \notin {"NULL", "CLOSED"} /\ nc.mem # "free"
    BY DEF Segment, Callback, NoTail, Called, Inv, PcbInv, Active, Ended
<1>2. /\ Same(r.c) /\ Filled(nc, r.c) /\ EofOf(r.c, r.p) /\ r.p \in PcbType
      /\ r.p.state = pcb.state
    BY <1>1, RetryEffect
<1>3. ~HasEof(r.c.recvmbox.q)
    BY <1>1, <1>2 DEF EofOf, Eof
<1>4. CASE nc' = r.c /\ pcb' = r.p /\ msg' = msg
    BY <1>1, <1>2, <1>4, SameEffect DEF Called
<1>5. ASSUME r.p.refused = "none",
             NEW s \in {"ESTABLISHED", "FIN_WAIT", "CLOSE_WAIT", "CLOSING", "TIME_WAIT"},
             f => s \in Ended,
             NEW p, p = [r.p EXCEPT !.state = s],
             NEW q, q = IF d THEN Recv(r.c, p, "data") ELSE [c |-> r.c, p |-> p],
             NEW z, z = IF f THEN GotFin(q) ELSE q,
             \/ nc' = r.c /\ pcb' = [p EXCEPT !.state = "FREED"] /\ msg' = msg
             \/ ErrTcp(r.c)
             \/ nc' = z.c /\ pcb' = z.p /\ msg' = msg
      PROVE  Effect
    <2> HIDE DEF r
    <2>1. /\ p \in PcbType /\ p.state = s /\ p.refused = "none" /\ s # "NULL"
          /\ [p EXCEPT !.state = "FREED"] \in PcbType
          /\ [p EXCEPT !.state = "FREED"].state = "FREED"
          /\ [p EXCEPT !.state = "FREED"].refused = "none"
        BY <1>2, <1>5 DEF PcbType, PcbStates, Active
    <2>2. /\ Filled(r.c, q.c) /\ ~HasEof(q.c.recvmbox.q) /\ EofOf(q.c, q.p)
          /\ q = [c |-> q.c, p |-> q.p]
        <3>1. CASE d
            <4>1. q = Recv(r.c, p, "data") /\ q = [c |-> q.c, p |-> q.p]
                BY <1>5, <3>1 DEF Recv
            <4> QED BY <1>2, <1>3, <2>1, <4>1, RecvBox DEF Same
        <3>2. CASE ~d
            <4>1. q = [c |-> r.c, p |-> p] /\ q.c = r.c /\ q.p = p
                BY <1>5, <3>2
            <4>2. Eof(r.c.recvmbox.q, "none", s)
                BY <1>2, <1>3, RecvQueue, EofData DEF Same
            <4> QED BY <1>3, <2>1, <4>1, <4>2 DEF Filled, EofOf
        <3> QED BY <3>1, <3>2
    <2>3. Same(q.c) /\ q.p \in PcbType /\ q.p.state = s
        <3>1. CASE d
            <4>1. q = Recv(r.c, p, "data")
                BY <1>5, <3>1
            <4>2. Received(q, p)
                BY <1>1, <1>2, <2>1, <4>1, RecvType
            <4> QED BY <2>1, <4>2 DEF Received
        <3>2. CASE ~d
            BY <1>2, <1>5, <2>1, <3>2
        <3> QED BY <3>1, <3>2
    <2>4. Same(z.c) /\ z.p \in PcbType /\ z.p.state = s /\ Filled(q.c, z.c) /\ EofOf(z.c, z.p)
        <3>1. CASE f
            <4>1. z = GotFin([c |-> q.c, p |-> q.p])
                BY <1>5, <2>2, <3>1
            <4>2. Received(z, q.p)
                BY <1>1, <2>3, <4>1, GotFinType
            <4>3. Bounded(q.c) /\ q.p \in PcbType /\ q.p.state \in Ended
                BY <1>5, <2>3, <3>1 DEF Same
            <4>4. /\ Filled(q.c, GotFin([c |-> q.c, p |-> q.p]).c)
                  /\ EofOf(GotFin([c |-> q.c, p |-> q.p]).c, GotFin([c |-> q.c, p |-> q.p]).p)
                BY <2>2, <4>3, GotFinBox
            <4> QED BY <2>3, <4>1, <4>2, <4>4 DEF Received
        <3>2. CASE ~f
            BY <1>5, <2>2, <2>3, <3>2 DEF Filled
        <3> QED BY <3>1, <3>2
    <2>5. CASE nc' = r.c /\ pcb' = [p EXCEPT !.state = "FREED"] /\ msg' = msg
        <3>1. Eof(r.c.recvmbox.q, "none", "FREED")
            BY <1>2, <1>3, RecvQueue, EofData DEF Same
        <3>2. EofOf(nc', pcb')
            BY <2>1, <2>5, <3>1 DEF EofOf
        <3> QED BY <1>1, <1>2, <2>1, <2>5, <3>2, SameEffect DEF Called
    <2>6. CASE ErrTcp(r.c)
        BY <1>1, <1>2, <2>6, ErrTcpEffect DEF EofOf
    <2>7. CASE nc' = z.c /\ pcb' = z.p /\ msg' = msg
        <3>1. Filled(nc, z.c)
            BY <1>2, <2>2, <2>4 DEF Filled
        <3> QED BY <1>1, <2>1, <2>4, <2>7, <3>1, SameEffect DEF Called
    <2> QED BY <1>5, <2>5, <2>6, <2>7
<1>6. \/ nc' = r.c /\ pcb' = r.p /\ msg' = msg
      \/ /\ r.p.refused = "none"
         /\ \E s \in {"ESTABLISHED", "FIN_WAIT", "CLOSE_WAIT", "CLOSING", "TIME_WAIT"} :
            /\ f => s \in Ended
            /\ LET p == [r.p EXCEPT !.state = s]
                   q == IF d THEN Recv(r.c, p, "data") ELSE [c |-> r.c, p |-> p]
                   z == IF f THEN GotFin(q) ELSE q
               IN  \/ nc' = r.c /\ pcb' = [p EXCEPT !.state = "FREED"] /\ msg' = msg
                   \/ ErrTcp(r.c)
                   \/ nc' = z.c /\ pcb' = z.p /\ msg' = msg
    BY DEF Segment, AfterFin, Ended
<1> QED
    BY <1>4, <1>5, <1>6

\* Every event, but for those on a conn no task has.
LEMMA EventEffect ==
    ASSUME Inv, EofInv, MboxInv, Events
    PROVE  Effect \/ AcceptFunction \/ DropQueued \/ CallbackEnd
BY NewConnectionEffect, DoConnectedEffect, AbortEffect, RefusedRetryEffect, PollEffect,
   AckedEffect, FinAckedEffect, TimeWaitEndEffect, SegmentEffect DEF Events

----------------------------------------------------------------------------
(* What a handler does to the mailboxes.                                   *)

Creating(t) == pc[t] = "wait" /\ msg[t].fn = "newconn"

\* A reader waits on a mailbox, and finds something there when the pcb is gone;
\* without a pcb, the next reader is refused.
ReaderInv ==
    /\ pcb.state = "NULL" /\ nc.mem # "free" =>
          Fatal(nc.lastErr) \/ Drained(nc) \/ \E t \in Tasks : Creating(t)
    /\ \A t \in Tasks : /\ pc[t] = "fetch" => nc.recvmbox.valid
                        /\ pc[t] = "acceptFetch" => nc.acceptmbox.valid
    /\ BlockedReaderWoken

BoxInv == EofInv /\ MboxInv /\ ReaderInv

\* What the handler of message t has to show.
Handled(t) ==
    /\ EofInv'
    /\ \A u \in Tasks : msg'[u].fn = msg[u].fn /\ msg'[u].shut = msg[u].shut
    /\ nc'.state = "CLOSE" => nc'.cur = t /\ (RD \in msg[t].shut => Drained(nc'))
    /\ nc'.acceptmbox.valid => pcb'.state = "LISTEN"
    /\ msg[t].fn = "delconn" => Drained(nc')
    /\ msg[t].fn = "newconn" =>
          /\ msg'[t].err # "OK" => nc'.recvmbox.valid /\ ~nc'.acceptmbox.valid
          /\ msg'[t].err = "OK" => pcb'.state = "CLOSED"
    /\ msg[t].fn # "newconn" /\ pcb'.state = "NULL" => Fatal(nc'.lastErr) \/ Drained(nc')

\* With it, the mailboxes are as they should be: nobody else is in a call.
LEMMA HandledBox ==
    ASSUME Inv, BoxInv, NEW t \in Tasks, NEW fn, Handle(t, fn), Inv', Handled(t)
    PROVE  BoxInv'
<1>1. /\ pc[t] = "wait" /\ pc' = pc /\ mbox' = <<>>
      /\ \A u \in Tasks \ {t} : pc[u] = "idle"
    BY QueuedFacts, HandleFacts DEF Handle, Serving
<1>2. MboxInv'
    BY <1>1 DEF Handled, MboxInv, Queued
<1>3. ReaderInv'
    BY <1>1 DEF Handled, ReaderInv, BlockedReaderWoken, Creating
<1> QED
    BY <1>2, <1>3 DEF BoxInv, Handled

\* Without a pcb a call other than netconn_new finds the conn broken or drained.
LEMMA NoPcbFacts ==
    ASSUME Inv, BoxInv, NEW t \in Tasks, NEW fn, Handle(t, fn), fn # "newconn",
           pcb.state = "NULL"
    PROVE  Fatal(nc.lastErr) \/ Drained(nc)
<1>1. \A u \in Tasks \ {t} : pc[u] = "idle"
    BY QueuedFacts DEF Handle
<1>2. msg[t].fn = fn /\ nc.mem = "alloc"
    BY HandleFacts
<1> QED
    BY <1>1, <1>2 DEF BoxInv, ReaderInv, Creating

\* An answer that changes no mailbox.
LEMMA AckBox ==
    ASSUME Inv, BoxInv, NEW t \in Tasks, NEW fn, Handle(t, fn), fn \notin {"newconn", "delconn"},
           NEW c, NEW p, NEW e, Ack(t, c, p, e), c \in NcType,
           c.recvmbox = nc.recvmbox, c.acceptmbox = nc.acceptmbox, c.lastErr = nc.lastErr,
           c.state # "CLOSE", p.refused = pcb.refused,
           p.state = pcb.state \/ (pcb.state = "CLOSED" /\ p.state = "SYN_SENT")
    PROVE  Handled(t)
<1>1. /\ nc'.recvmbox = nc.recvmbox /\ nc'.acceptmbox = nc.acceptmbox
      /\ nc'.lastErr = nc.lastErr /\ nc'.state = c.state /\ pcb' = p
    BY DEF Ack, Signal, NcType
<1>2. \A u \in Tasks : msg'[u].fn = msg[u].fn /\ msg'[u].shut = msg[u].shut
    BY AnswerKeeps DEF Ack
<1>3. EofInv'
    BY <1>1 DEF BoxInv, EofInv, EofOf, Eof, Ended
<1>4. msg[t].fn = fn
    BY HandleFacts
<1>5. pcb'.state = "NULL" => Fatal(nc'.lastErr) \/ Drained(nc')
    BY <1>1, NoPcbFacts DEF Drained
<1>6. nc'.acceptmbox.valid => pcb'.state = "LISTEN"
    BY <1>1 DEF BoxInv, MboxInv
<1> QED
    BY <1>1, <1>2, <1>3, <1>4, <1>5, <1>6 DEF Handled

\* The handlers that only answer.
LEMMA AnswersBox ==
    ASSUME Inv, BoxInv, NEW t \in Tasks, DoBind(t) \/ DoRecv(t) \/ DoGetaddr(t)
    PROVE  Handled(t)
<1>2. PICK fn \in {"bind", "recv", "recvNull", "peer"} : \E e : Handle(t, fn) /\ Ack(t, nc, pcb, e)
    BY DEF DoBind, DoRecv, DoGetaddr
<1>3. nc \in NcType /\ nc.state # "CLOSE"
    BY <1>2, HandleFacts DEF Bounded
<1> QED
    BY <1>2, <1>3, AckBox

\* do_newconn gives a netconn_new its pcb, or leaves the conn without one.
LEMMA DoNewconnBox == ASSUME Inv, BoxInv, NEW t \in Tasks, DoNewconn(t) PROVE Handled(t)
<1>1. Handle(t, "newconn") /\ msg[t].fn = "newconn" /\ pc[t] = "wait" /\ nc \in NcType
      /\ nc.state # "CLOSE"
    BY HandleFacts DEF DoNewconn, Serving, Bounded
<1>2. mbox = <<t>> /\ pcb.state = "NULL"
    <2>1. mbox = <<t>>
        BY <1>1 DEF Handle, Inv, OneToken, Queued
    <2> QED BY <1>1, <2>1 DEF Inv, CallInv, Queued, Posted
<1>3. nc.recvmbox = NewMbox /\ ~nc.acceptmbox.valid
    BY <1>1, <1>2 DEF BoxInv, MboxInv, Queued
<1>4. NewMbox.valid /\ NewMbox.q = <<>>
    BY DEF NewMbox
<1>5. /\ nc' = Signal(nc)
      /\ \/ pcb' = NewPcb("CLOSED") /\ msg' = [msg EXCEPT ![t].err = "OK"]
         \/ pcb' = pcb /\ msg' = [msg EXCEPT ![t].err = "SOFT"]
    BY DEF DoNewconn, Ack
<1>6. nc'.recvmbox = nc.recvmbox /\ nc'.acceptmbox = nc.acceptmbox /\ nc'.state = nc.state
    BY <1>1, <1>5 DEF Signal, NcType
<1>7. EofInv'
    <2>1. pcb'.refused = pcb.refused \/ pcb'.refused = "none"
        BY <1>5 DEF NewPcb
    <2>2. ~HasEof(nc'.recvmbox.q) /\ nc'.recvmbox.q = <<>>
        BY <1>3, <1>4, <1>6 DEF HasEof
    <2>3. pcb'.refused = "datafin" => pcb'.state \in Ended
        BY <1>2, <1>5 DEF NewPcb, Ended
    <2> QED BY <2>2, <2>3 DEF EofInv, EofOf, Eof
<1>8. /\ \A u \in Tasks : msg'[u].fn = msg[u].fn /\ msg'[u].shut = msg[u].shut
      /\ msg'[t].err = "OK" => pcb'.state = "CLOSED"
    <2>1. msg \in [Tasks -> MsgType]
        BY DEF Inv, TypeOK
    <2>2. \A u \in Tasks : msg'[u].fn = msg[u].fn /\ msg'[u].shut = msg[u].shut
        BY <1>5, AnswerKeeps
    <2>3. NewPcb("CLOSED").state = "CLOSED"
        BY DEF NewPcb
    <2>4. msg'[t].err = "OK" => pcb' = NewPcb("CLOSED")
        BY <1>5, <2>1 DEF MsgType
    <2> QED BY <2>2, <2>3, <2>4
<1> QED
    BY <1>1, <1>3, <1>4, <1>6, <1>7, <1>8 DEF Handled

\* do_listen replaces recvmbox by acceptmbox, or leaves a conn without either.
LEMMA DoListenBox == ASSUME Inv, BoxInv, NEW t \in Tasks, DoListen(t) PROVE Handled(t)
<1> DEFINE c == [nc EXCEPT !.recvmbox = NoMbox, !.acceptmbox = NewMbox, !.state = "LISTEN"]
           d == [nc EXCEPT !.recvmbox = NoMbox]
           p == [NoPcb EXCEPT !.state = "LISTEN"]
<1>1. Handle(t, "listen") /\ msg[t].fn = "listen" /\ nc \in NcType /\ nc.state # "CLOSE"
    BY HandleFacts DEF DoListen, Bounded
<1>2. \/ \E e : Ack(t, nc, pcb, e)
      \/ pcb.state = "CLOSED" /\ nc.state = "NONE" /\ Ack(t, c, p, "OK")
      \/ pcb.state = "CLOSED" /\ nc.state = "NONE" /\ Ack(t, d, NoPcb, "SOFT")
    BY DEF DoListen
<1>3. CASE \E e : Ack(t, nc, pcb, e)
    <2>1. PICK e : Ack(t, nc, pcb, e)
        BY <1>3
    <2> QED BY <1>1, <2>1, AckBox
<1>4. NoMbox.q = <<>> /\ ~NoMbox.valid
    BY DEF NoMbox
<1>5. NoPcb.refused = "none" /\ p.refused = "none" /\ p.state = "LISTEN" /\ NoPcb.state = "NULL"
    BY DEF NoPcb
<1>6. \A s : Eof(<<>>, "none", s)
    BY DEF Eof, HasEof
<1>7. CASE pcb.state = "CLOSED" /\ nc.state = "NONE" /\ Ack(t, c, p, "OK")
    <2>1. nc' = Signal(c) /\ pcb' = p
        BY <1>7 DEF Ack
    <2>2. Signal(c).recvmbox = NoMbox /\ Signal(c).state = "LISTEN"
        BY <1>1 DEF NcType, Signal
    <2>3. \A u \in Tasks : msg'[u].fn = msg[u].fn /\ msg'[u].shut = msg[u].shut
        BY <1>7, AnswerKeeps DEF Ack
    <2> HIDE DEF c, p
    <2>4. EofInv'
        BY <1>4, <1>5, <1>6, <2>1, <2>2 DEF EofInv, EofOf
    <2> QED BY <1>1, <1>5, <2>1, <2>2, <2>3, <2>4 DEF Handled
<1>8. CASE pcb.state = "CLOSED" /\ nc.state = "NONE" /\ Ack(t, d, NoPcb, "SOFT")
    <2>1. nc' = Signal(d) /\ pcb' = NoPcb
        BY <1>8 DEF Ack
    <2>2. /\ Signal(d).recvmbox = NoMbox /\ Signal(d).state = "NONE"
          /\ Signal(d).acceptmbox = nc.acceptmbox
        BY <1>1, <1>8 DEF NcType, Signal
    <2>3. \A u \in Tasks : msg'[u].fn = msg[u].fn /\ msg'[u].shut = msg[u].shut
        BY <1>8, AnswerKeeps DEF Ack
    <2>4. ~nc.acceptmbox.valid
        BY <1>8 DEF BoxInv, MboxInv
    <2> HIDE DEF d
    <2>5. Drained(nc')
        BY <1>4, <2>1, <2>2, <2>4 DEF Drained
    <2>6. EofInv'
        BY <1>4, <1>5, <1>6, <2>1, <2>2 DEF EofInv, EofOf
    <2> QED BY <1>1, <2>1, <2>2, <2>3, <2>5, <2>6 DEF Handled, Drained
<1> QED
    BY <1>2, <1>3, <1>7, <1>8

\* do_connect touches no mailbox.
LEMMA DoConnectBox == ASSUME Inv, BoxInv, NEW t \in Tasks, DoConnect(t) PROVE Handled(t)
<1> DEFINE p == [Setup(pcb) EXCEPT !.state = "SYN_SENT"]
           c == [nc EXCEPT !.state = "CONNECT", !.nbConnect = nc.nonblocking]
           d == [c EXCEPT !.cur = t]
<1>1. Handle(t, "connect") /\ msg[t].fn = "connect" /\ nc \in NcType /\ nc.state # "CLOSE"
      /\ pcb \in PcbType
    BY HandleFacts DEF DoConnect, Bounded
<1>2. /\ Setup(pcb).refused = pcb.refused /\ Setup(pcb).state = pcb.state
      /\ p.refused = pcb.refused /\ p.state = "SYN_SENT"
    BY <1>1 DEF Setup, PcbType
<1>3. /\ c \in NcType /\ c.recvmbox = nc.recvmbox /\ c.acceptmbox = nc.acceptmbox
      /\ c.lastErr = nc.lastErr /\ c.state = "CONNECT"
    BY <1>1 DEF NcType
<1>4. /\ d.recvmbox = nc.recvmbox /\ d.acceptmbox = nc.acceptmbox
      /\ d.lastErr = nc.lastErr /\ d.state = "CONNECT"
    BY <1>1 DEF NcType
<1>5. \/ \E e : Ack(t, nc, pcb, e)
      \/ \E e : Ack(t, nc, Setup(pcb), e)
      \/ pcb.state = "CLOSED" /\ Ack(t, c, p, "SOFT")
      \/ pcb.state = "CLOSED" /\ nc' = d /\ pcb' = p /\ msg' = [msg EXCEPT ![t].err = "OK"]
    BY DEF DoConnect
<1> HIDE DEF c, d, p
<1>6. CASE (\E e : Ack(t, nc, pcb, e)) \/ (\E e : Ack(t, nc, Setup(pcb), e))
    <2>1. PICK e : Ack(t, nc, pcb, e) \/ Ack(t, nc, Setup(pcb), e)
        BY <1>6
    <2> QED BY <1>1, <1>2, <2>1, AckBox
<1>7. CASE pcb.state = "CLOSED" /\ Ack(t, c, p, "SOFT")
    BY <1>1, <1>2, <1>3, <1>7, AckBox
<1>8. CASE pcb.state = "CLOSED" /\ nc' = d /\ pcb' = p /\ msg' = [msg EXCEPT ![t].err = "OK"]
    <2>1. \A u \in Tasks : msg'[u].fn = msg[u].fn /\ msg'[u].shut = msg[u].shut
        BY <1>8, AnswerKeeps
    <2>2. EofInv'
        BY <1>2, <1>4, <1>8 DEF BoxInv, EofInv, EofOf, Eof, Ended
    <2>3. ~nc.acceptmbox.valid
        BY <1>8 DEF BoxInv, MboxInv
    <2> QED BY <1>1, <1>2, <1>4, <1>8, <2>1, <2>2, <2>3 DEF Handled
<1> QED
    BY <1>5, <1>6, <1>7, <1>8

\* do_write touches no mailbox.
LEMMA DoWriteBox == ASSUME Inv, BoxInv, NEW t \in Tasks, DoWrite(t) PROVE Handled(t)
<1> DEFINE c == [nc EXCEPT !.state = "WRITE", !.cur = t, !.off = 0]
<1>1. Handle(t, "write") /\ msg[t].fn = "write" /\ nc \in NcType /\ nc.state # "CLOSE"
      /\ pcb \in PcbType
    BY HandleFacts DEF DoWrite, Bounded
<1>2. \/ \E e : Ack(t, nc, pcb, e)
      \/ pcb.state # "NULL" /\ WriteMore(t, c, pcb)
    BY DEF DoWrite
<1>3. CASE \E e : Ack(t, nc, pcb, e)
    <2>1. PICK e : Ack(t, nc, pcb, e)
        BY <1>3
    <2> QED BY <1>1, <2>1, AckBox
<1>4. CASE pcb.state # "NULL" /\ WriteMore(t, c, pcb)
    <2>1. /\ c \in NcType /\ c.recvmbox = nc.recvmbox /\ c.acceptmbox = nc.acceptmbox
          /\ c.state = "WRITE"
        BY <1>1, LensType DEF NcType
    <2> HIDE DEF c
    <2>2. /\ nc'.recvmbox = nc.recvmbox /\ nc'.acceptmbox = nc.acceptmbox
          /\ nc'.state \in {"WRITE", "NONE"}
          /\ pcb'.state = pcb.state /\ pcb'.refused = pcb.refused
          /\ \A u \in Tasks : msg'[u].fn = msg[u].fn /\ msg'[u].shut = msg[u].shut
        BY <1>1, <1>4, <2>1, WriteMoreBox
    <2>3. EofInv'
        BY <2>2 DEF BoxInv, EofInv, EofOf
    <2>4. nc'.acceptmbox.valid => pcb'.state = "LISTEN"
        BY <2>2 DEF BoxInv, MboxInv
    <2> QED BY <1>1, <1>4, <2>2, <2>3, <2>4 DEF Handled
<1> QED
    BY <1>2, <1>3, <1>4

\* netconn_drain leaves no mailbox.
LEMMA DrainBox ==
    ASSUME NEW c, Bounded(c)
    PROVE  Drained(DrainMboxes(c)) /\ DrainMboxes(c).recvmbox.q = <<>>
<1>1. NoMbox.q = <<>> /\ ~NoMbox.valid
    BY DEF NoMbox
<1>2. DrainMboxes(c).recvmbox = NoMbox /\ DrainMboxes(c).acceptmbox = NoMbox
    BY DEF Bounded, DrainMboxes, NcType
<1> QED
    BY <1>1, <1>2 DEF Drained

\* A close begins on a conn whose mailboxes are drained when its receive side ends.
LEMMA StartCloseBox ==
    ASSUME Inv, BoxInv, NEW t \in Tasks, NEW fn \in {"close", "delconn"}, Handle(t, fn),
           NEW c, Bounded(c), pcb.state # "NULL",
           c = nc \/ c.recvmbox.q = <<>>, RD \in msg[t].shut => Drained(c),
           c.acceptmbox.valid => c = nc, nc.state = "LISTEN" => msg[t].shut = {RD, WR},
           CloseInternal(t, [c EXCEPT !.state = "CLOSE", !.cur = t], pcb)
    PROVE  Handled(t)
<1> DEFINE d == [c EXCEPT !.state = "CLOSE", !.cur = t]
           x == Signal([d EXCEPT !.cur = NoTask, !.state = "NONE"])
           shut == msg[t].shut
<1>1. /\ d.recvmbox = c.recvmbox /\ d.acceptmbox = c.acceptmbox /\ d.state = "CLOSE" /\ d.cur = t
    BY DEF Bounded, NcType
<1>2. /\ x.recvmbox = c.recvmbox /\ x.acceptmbox = c.acceptmbox /\ x.state = "NONE"
    BY DEF Bounded, NcType, Signal
<1>3. /\ shut \in Shuts /\ (fn = "delconn" => shut = {RD, WR}) /\ msg[t].fn = fn /\ pcb \in PcbType
      /\ RD \in {RD, WR}
    BY HandleFacts DEF MsgType, Inv, CallInv
<1>4. \/ /\ CloseMaySucceed(pcb, shut)
         /\ nc' = x /\ pcb' = Closed(pcb, shut) /\ msg' = [msg EXCEPT ![t].err = "OK"]
      \/ nc' = d /\ pcb' = NotClosed(pcb, shut) /\ msg' = msg
    BY DEF CloseInternal, Ack
<1> HIDE DEF d, x
<1>5. fn = "delconn" => Drained(c)
    BY <1>3
<1> HIDE DEF shut
<1>6. c.acceptmbox.valid => pcb.state = "LISTEN" /\ ~(RD \in shut)
    BY DEF BoxInv, MboxInv, Drained, shut
<1>7. Eof(c.recvmbox.q, pcb.refused, pcb.state)
    <2>1. EofOf(nc, pcb)
        BY DEF BoxInv, EofInv
    <2>2. CASE c = nc
        BY <2>1, <2>2 DEF EofOf
    <2>3. CASE c.recvmbox.q = <<>>
        BY <2>1, <2>3 DEF EofOf, Eof, HasEof
    <2> QED BY <2>2, <2>3
<1>8. CASE /\ CloseMaySucceed(pcb, shut)
           /\ nc' = x /\ pcb' = Closed(pcb, shut) /\ msg' = [msg EXCEPT ![t].err = "OK"]
    <2>1. \A u \in Tasks : msg'[u].fn = msg[u].fn /\ msg'[u].shut = msg[u].shut
        BY <1>8, AnswerKeeps
    <2>2. /\ EofInv' /\ (pcb'.state = "NULL" => shut = {RD, WR})
          /\ (pcb.state = "LISTEN" => pcb'.state = "LISTEN" \/ shut = {RD, WR})
        BY <1>2, <1>3, <1>7, <1>8, ClosedEof DEF EofInv, EofOf
    <2>3. nc'.acceptmbox.valid => pcb'.state = "LISTEN"
        BY <1>2, <1>3, <1>6, <1>8, <2>2
    <2>4. RD \in shut => Drained(nc')
        BY <1>2, <1>8 DEF Drained, shut
    <2>5. fn = "delconn" => Drained(nc')
        BY <1>2, <1>5, <1>8 DEF Drained
    <2> QED BY <1>2, <1>3, <1>8, <2>1, <2>2, <2>3, <2>4, <2>5 DEF Handled
<1>9. CASE nc' = d /\ pcb' = NotClosed(pcb, shut) /\ msg' = msg
    <2>1. pcb'.state = pcb.state /\ pcb'.refused = pcb.refused
        BY <1>3, <1>9 DEF NotClosed, PcbType
    <2>2. EofInv'
        BY <1>1, <1>7, <1>9, <2>1 DEF EofInv, EofOf
    <2>3. RD \in msg[t].shut => Drained(nc')
        BY <1>1, <1>9 DEF Drained
    <2>4. fn = "delconn" => Drained(nc')
        BY <1>1, <1>5, <1>9 DEF Drained
    <2>5. nc'.acceptmbox.valid => pcb'.state = "LISTEN"
        BY <1>1, <1>6, <1>9, <2>1
    <2> QED BY <1>1, <1>3, <1>9, <2>1, <2>2, <2>3, <2>4, <2>5 DEF Handled
<1> QED
    BY <1>4, <1>8, <1>9

\* do_close.
LEMMA DoCloseBox == ASSUME Inv, BoxInv, NEW t \in Tasks, DoClose(t) PROVE Handled(t)
<1> DEFINE c == IF RD \in msg[t].shut THEN DrainMboxes(nc) ELSE nc
<1>1. Handle(t, "close") /\ nc \in NcType /\ nc.state # "CLOSE" /\ Bounded(nc)
    BY HandleFacts DEF DoClose, Bounded
<1>2. \/ \E e : Ack(t, nc, pcb, e)
      \/ /\ pcb.state # "NULL" /\ (nc.state = "LISTEN" => msg[t].shut = {RD, WR})
         /\ CloseInternal(t, [c EXCEPT !.state = "CLOSE", !.cur = t], pcb)
    BY DEF DoClose
<1>3. CASE \E e : Ack(t, nc, pcb, e)
    <2>1. PICK e : Ack(t, nc, pcb, e)
        BY <1>3
    <2> QED BY <1>1, <2>1, AckBox
<1>4. CASE /\ pcb.state # "NULL" /\ (nc.state = "LISTEN" => msg[t].shut = {RD, WR})
           /\ CloseInternal(t, [c EXCEPT !.state = "CLOSE", !.cur = t], pcb)
    <2>1. /\ Bounded(c) /\ (c = nc \/ c.recvmbox.q = <<>>)
          /\ (RD \in msg[t].shut => Drained(c)) /\ (c.acceptmbox.valid => c = nc)
        BY <1>1, DrainType, DrainBox DEF Drained
    <2> HIDE DEF c
    <2> QED BY <1>1, <1>4, <2>1, StartCloseBox
<1> QED
    BY <1>2, <1>3, <1>4

\* do_delconn.
LEMMA DoDelconnBox == ASSUME Inv, BoxInv, NEW t \in Tasks, DoDelconn(t) PROVE Handled(t)
<1> DEFINE c == DrainMboxes(nc)
<1>1. Handle(t, "delconn") /\ Bounded(nc) /\ nc.state \in {"NONE", "LISTEN", "CONNECT"}
      /\ msg[t].fn = "delconn" /\ msg[t].shut = {RD, WR}
    BY HandleFacts DEF DoDelconn, Inv, CallInv
<1>2. Bounded(c) /\ c.state = nc.state /\ Drained(c) /\ c.recvmbox.q = <<>>
    BY <1>1, DrainType, DrainBox
<1> HIDE DEF c
<1>3. \/ pcb.state = "NULL" /\ Ack(t, c, pcb, "OK")
      \/ /\ pcb.state # "NULL"
         /\ CloseInternal(t, [c EXCEPT !.state = "CLOSE", !.cur = t], pcb)
    BY <1>1 DEF DoDelconn, c
<1>4. CASE pcb.state = "NULL" /\ Ack(t, c, pcb, "OK")
    <2>1. /\ nc'.recvmbox = c.recvmbox /\ nc'.acceptmbox = c.acceptmbox /\ nc'.state = c.state
          /\ pcb' = pcb
        BY <1>2, <1>4 DEF Ack, Signal, Bounded, NcType
    <2>2. \A u \in Tasks : msg'[u].fn = msg[u].fn /\ msg'[u].shut = msg[u].shut
        BY <1>4, AnswerKeeps DEF Ack
    <2>3. EofInv'
        BY <1>2, <2>1 DEF BoxInv, EofInv, EofOf, Eof, HasEof
    <2> QED BY <1>1, <1>2, <2>1, <2>2, <2>3 DEF Handled, Drained
<1>5. CASE /\ pcb.state # "NULL"
           /\ CloseInternal(t, [c EXCEPT !.state = "CLOSE", !.cur = t], pcb)
    <2>1. c.acceptmbox.valid => c = nc
        BY <1>2 DEF Drained
    <2> QED BY <1>1, <1>2, <1>5, <2>1, StartCloseBox
<1> QED
    BY <1>3, <1>4, <1>5

\* Every handler.
LEMMA TcpipThreadBox == ASSUME Inv, BoxInv, TcpipThread, Inv' PROVE BoxInv'
<1>1. PICK t \in Tasks : \/ DoNewconn(t) \/ DoBind(t) \/ DoConnect(t) \/ DoListen(t)
                         \/ DoRecv(t) \/ DoGetaddr(t) \/ DoWrite(t) \/ DoClose(t)
                         \/ DoDelconn(t)
    BY DEF TcpipThread
<1>2. Handled(t)
    BY <1>1, DoNewconnBox, AnswersBox, DoConnectBox, DoListenBox, DoWriteBox, DoCloseBox,
       DoDelconnBox
<1>3. \E fn : Handle(t, fn)
    BY <1>1 DEF DoNewconn, DoBind, DoConnect, DoListen, DoRecv, DoGetaddr, DoWrite, DoClose,
               DoDelconn
<1> QED
    BY <1>2, <1>3, HandledBox

\* No event but a connection waiting to be accepted reaches a listener.
LEMMA ListenerKept ==
    ASSUME Events, pcb.state = "LISTEN", ~DropQueued PROVE pcb' = pcb \/ nc.mem = "free"
BY DEF Events, Abort, AcceptFunction, NewConnection, DoConnected, RefusedRetry, Poll, CallbackEnd,
       FinAcked, TimeWaitEnd, Segment, Acked, Active

\* A call of netconn_new is over or not begun when its pcb exists.
LEMMA EffectFacts ==
    ASSUME Inv, MboxInv, Effect, Inv', NEW t \in Tasks, pc[t] = "wait"
    PROVE  /\ msg[t].fn # "newconn"
           /\ nc'.sem = 1 /\ msg[t].fn = "delconn" => Drained(nc)
<1>0. nc.sem \in {0, 1}
    BY DEF Inv, TypeOK, NcType
<1>1. \/ Queued(t)
      \/ nc.cur = t
      \/ mbox = <<>> /\ nc.sem = 1
    BY DEF Inv, OneToken, Signalled
<1>2. CASE Queued(t)
    <2>1. nc.sem = 0 /\ nc.cur = NoTask
        BY <1>0, <1>2 DEF Inv, OneToken, Signalled, Queued
    <2>2. Posted(t)
        BY <1>2 DEF Inv, CallInv
    <2>3. nc'.sem # 1
        <3>1. mbox' = <<t>> /\ pc'[t] = "wait"
            BY <1>2 DEF Effect, Queued
        <3> QED BY <3>1 DEF Inv, OneToken, Signalled
    <2> QED BY <2>2, <2>3 DEF Posted, Effect
<1>3. CASE nc.cur = t
    <2>1. t # NoTask
        OBVIOUS
    <2>2. \/ nc.state \in {"WRITE", "CONNECT"} /\ msg[t].fn \in {"write", "connect"}
          \/ nc.state = "CLOSE" /\ msg[t].fn \in {"close", "delconn"}
        BY <1>3, <2>1 DEF Inv, CurMsgState
    <2>3. msg[t].fn = "delconn" => Drained(nc)
        <3>1. msg[t].fn = "delconn" => RD \in msg[t].shut
            BY DEF Inv, CallInv
        <3> QED BY <1>3, <2>2, <3>1 DEF MboxInv
    <2> QED BY <2>2, <2>3
<1>4. CASE mbox = <<>> /\ nc.sem = 1
    BY <1>4 DEF MboxInv, Signalled, Inv, CallInv, Answered, Effect
<1> QED
    BY <1>1, <1>2, <1>3, <1>4

\* An event on a pcb in use.
LEMMA EffectBox == ASSUME Inv, BoxInv, Events, Effect, Inv' PROVE BoxInv'
<1>1. ASSUME nc'.state = "CLOSE", RD \in msg'[nc'.cur].shut PROVE Drained(nc')
    <2>1. nc.state = "CLOSE" /\ nc'.cur = nc.cur /\ nc.cur \in Tasks
        BY <1>1 DEF Effect, Inv, CurMsgState, TypeOK, NcType
    <2>2. Drained(nc)
        BY <1>1, <2>1 DEF Effect, BoxInv, MboxInv
    <2> QED BY <2>2 DEF Effect, Filled, Drained
<1>2. nc'.acceptmbox.valid => pcb'.state = "LISTEN"
    <2>1. nc'.acceptmbox.valid => pcb.state = "LISTEN"
        BY DEF Effect, Filled, BoxInv, MboxInv
    <2>2. ~DropQueued
        <3>1. nc'.mem = nc.mem
            BY DEF Effect
        <3> QED BY <3>1 DEF DropQueued, FreeConn
    <2>3. nc.mem # "free"
        BY DEF Effect
    <2> QED BY <2>1, <2>2, <2>3, ListenerKept
<1>3. ASSUME NEW t \in Tasks, pc'[t] = "wait"
      PROVE  /\ Signalled' /\ msg'[t].fn = "delconn" => Drained(nc')
             /\ msg'[t].fn # "newconn"
    <2>1. pc[t] = "wait" /\ msg'[t].fn = msg[t].fn
        BY <1>3 DEF Effect
    <2>2. /\ msg[t].fn # "newconn"
          /\ nc'.sem = 1 /\ msg[t].fn = "delconn" => Drained(nc)
        BY <2>1, EffectFacts DEF BoxInv
    <2> QED BY <2>1, <2>2 DEF Signalled, Effect, Filled, Drained
<1>4. MboxInv'
    BY <1>1, <1>2, <1>3 DEF MboxInv
<1>5. ReaderInv'
    <2>1. \A t \in Tasks : /\ pc'[t] = "fetch" => nc'.recvmbox.valid
                           /\ pc'[t] = "acceptFetch" => nc'.acceptmbox.valid
        BY DEF BoxInv, ReaderInv, Effect, Filled
    <2>2. pcb'.state = "NULL" => Fatal(nc'.lastErr) \/ Drained(nc')
        BY DEF Effect, Woken
    <2>3. /\ pcb'.state = "NULL" /\ nc'.recvmbox.valid => nc'.recvmbox.q # <<>>
          /\ pcb'.state = "NULL" /\ nc'.acceptmbox.valid => nc'.acceptmbox.q # <<>>
        BY DEF Effect, Woken, Drained
    <2>4. ASSUME NEW t \in Tasks
          PROVE  /\ pc'[t] = "fetch" /\ pcb'.state = "NULL" => nc'.recvmbox.q # <<>>
                 /\ pc'[t] = "acceptFetch" /\ pcb'.state = "NULL" => nc'.acceptmbox.q # <<>>
        BY <2>1, <2>3
    <2>5. BlockedReaderWoken'
        BY <2>4 DEF BlockedReaderWoken
    <2> QED BY <2>1, <2>2, <2>5 DEF ReaderInv
<1> QED
    BY <1>4, <1>5 DEF BoxInv, Effect

\* A conn that no task is in a call of.
LEMMA SerialBox ==
    ASSUME \A t \in Tasks : pc'[t] = "idle", nc'.recvmbox.q = <<>>, ~nc'.acceptmbox.valid,
           nc'.state = "NONE", pcb'.refused = "none", pcb'.state = "NULL" => nc'.mem = "free"
    PROVE  BoxInv'
<1>1. EofInv'
    BY DEF EofInv, EofOf, Eof, HasEof
<1>2. MboxInv' /\ ReaderInv'
    BY DEF MboxInv, ReaderInv, BlockedReaderWoken
<1> QED
    BY <1>1, <1>2 DEF BoxInv

\* A netconn in the acceptmbox of its listener, made or dropped.
LEMMA QueuedConnBox ==
    ASSUME Inv, BoxInv, AcceptFunction \/ DropQueued PROVE BoxInv'
<1>1. \A t \in Tasks : pc'[t] = "idle"
    BY DEF AcceptFunction, DropQueued, Callback, Serial, Inv, PcbInv
<1>2. CASE AcceptFunction
    <2>1. /\ nc'.recvmbox.q = <<>> /\ ~nc'.acceptmbox.valid /\ nc'.state = "NONE"
        BY <1>2 DEF AcceptFunction, AllocConn, FreeConn, NewMbox, NoMbox
    <2>2. pcb'.refused = "none" /\ pcb'.state = "ESTABLISHED"
        BY <1>2 DEF AcceptFunction, NewPcb
    <2> QED BY <1>1, <2>1, <2>2, SerialBox
<1>3. CASE DropQueued
    <2>1. /\ nc'.recvmbox.q = <<>> /\ ~nc'.acceptmbox.valid /\ nc'.state = "NONE" /\ nc'.mem = "free"
        BY <1>3 DEF DropQueued, FreeConn, NoMbox
    <2>2. pcb'.refused = "none"
        BY <1>3 DEF DropQueued, NoPcb
    <2> QED BY <1>1, <2>1, <2>2, SerialBox
<1> QED
    BY <1>2, <1>3

\* A step that changes nothing of it.
LEMMA SameBox == ASSUME BoxInv, UNCHANGED <<nc, pcb, mbox, msg, pc>> PROVE BoxInv'
<1>1. EofInv' /\ MboxInv'
    BY DEF BoxInv, EofInv, EofOf, MboxInv, Signalled, Queued
<1>2. ReaderInv'
    BY DEF BoxInv, ReaderInv, BlockedReaderWoken, Creating
<1> QED
    BY <1>1, <1>2 DEF BoxInv

\* Every event.
LEMMA EventsBox == ASSUME Inv, BoxInv, Events, Inv' PROVE BoxInv'
BY EventEffect, EffectBox, QueuedConnBox, SameBox DEF BoxInv, CallbackEnd

----------------------------------------------------------------------------
(* What the application tasks do to the mailboxes.                         *)

\* A step of task t, the only one in a call.
LEMMA AppBox ==
    ASSUME Inv, BoxInv, NEW t \in Tasks, \A u \in Tasks \ {t} : pc'[u] = "idle", pcb' = pcb,
           nc'.state # "CLOSE", EofInv', nc'.acceptmbox.valid => nc.acceptmbox.valid,
           pc'[t] = "wait" =>
              /\ nc'.sem = 0
              /\ msg'[t].fn = "newconn" => nc'.recvmbox = NewMbox /\ ~nc'.acceptmbox.valid,
           pcb.state = "NULL" /\ nc'.mem # "free" =>
              \/ Fatal(nc'.lastErr) \/ Drained(nc')
              \/ pc'[t] = "wait" /\ msg'[t].fn = "newconn",
           pc'[t] = "fetch" =>
              nc'.recvmbox.valid /\ (pcb.state = "NULL" => nc'.recvmbox.q # <<>>),
           pc'[t] = "acceptFetch" =>
              nc'.acceptmbox.valid /\ (pcb.state = "NULL" => nc'.acceptmbox.q # <<>>)
    PROVE  BoxInv'
<1>1. MboxInv'
    <2>1. nc'.acceptmbox.valid => pcb'.state = "LISTEN"
        BY DEF BoxInv, MboxInv
    <2>2. ~(pc'[t] = "wait" /\ Signalled')
        BY DEF Signalled
    <2> QED BY <2>1, <2>2 DEF MboxInv
<1>2. BlockedReaderWoken'
    BY DEF BlockedReaderWoken
<1>3. ReaderInv'
    BY <1>2 DEF ReaderInv, Creating
<1> QED
    BY <1>1, <1>3 DEF BoxInv

\* Taking the head of recvmbox.
LEMMA EofTail ==
    ASSUME NEW q \in Queues, q # <<>>, NEW r, NEW s, Eof(q, r, s) PROVE Eof(Tail(q), r, s)
<1>1. /\ Len(Tail(q)) = Len(q) - 1 /\ Len(q) \in Nat
      /\ \A i \in 1 .. Len(Tail(q)) : Tail(q)[i] = q[i + 1] /\ i + 1 \in 1 .. Len(q)
    BY DEF Queues
<1>2. HasEof(Tail(q)) => HasEof(q)
    BY <1>1 DEF HasEof
<1>3. \A i, j \in 1 .. Len(Tail(q)) : i < j /\ Tail(q)[i] = "NULL" => Tail(q)[j] = "NULL"
    <2> TAKE i, j \in 1 .. Len(Tail(q))
    <2>1. i < j => i + 1 < j + 1
        OBVIOUS
    <2> QED BY <1>1, <2>1 DEF Eof
<1> QED
    BY <1>2, <1>3 DEF Eof

\* Before a call begins.
LEMMA IdleBox ==
    ASSUME Inv, BoxInv, \A u \in Tasks : pc[u] # "wait"
    PROVE  /\ nc.state # "CLOSE" /\ nc.sem = 0
           /\ pcb.state = "NULL" /\ nc.mem # "free" => Fatal(nc.lastErr) \/ Drained(nc)
BY IdleFacts DEF BoxInv, ReaderInv, Creating

\* netconn_new.
LEMMA NetconnNewBox == ASSUME Inv, BoxInv, NEW t \in Tasks, NetconnNew(t) PROVE BoxInv'
<1>1. /\ nc'.recvmbox = NewMbox /\ nc'.recvmbox.q = <<>> /\ ~nc'.acceptmbox.valid /\ nc'.state = "NONE"
      /\ nc'.sem = 0
    BY DEF NetconnNew, AllocConn, FreeConn, NewMbox, NoMbox
<1>2. pcb' = pcb /\ pc'[t] = "wait" /\ msg'[t].fn = "newconn" /\ \A u \in Tasks \ {t} : pc'[u] = "idle"
    BY DEF NetconnNew, Post, Serial, Msg, NoMsg, Inv, TypeOK
<1>3. EofInv'
    BY <1>1, <1>2 DEF BoxInv, EofInv, EofOf, Eof, HasEof
<1> QED
    BY <1>1, <1>2, <1>3, AppBox

\* The other calls that post a message.
LEMMA NetconnCallBox == ASSUME Inv, BoxInv, NEW t \in Tasks, NetconnCall(t) PROVE BoxInv'
<1>1. PICK m \in MsgType : Post(t, m) /\ m.fn \notin {"none", "newconn"}
    BY RequestMsg DEF NetconnCall
<1>2. /\ pcb' = pcb /\ nc' = nc /\ pc'[t] = "wait" /\ msg'[t].fn # "newconn"
      /\ \A u \in Tasks \ {t} : pc'[u] = "idle"
    BY <1>1 DEF NetconnCall, Post, Serial, Inv, TypeOK
<1>3. \A u \in Tasks : pc[u] # "wait"
    BY DEF NetconnCall, Serial
<1>4. EofInv'
    BY <1>2 DEF BoxInv, EofInv, EofOf
<1> QED
    BY <1>2, <1>3, <1>4, IdleBox, AppBox DEF Drained

\* The steps of netconn_recv and netconn_accept but for the fetch from recvmbox, and
\* those that touch no mailbox.
LEMMA QuietAppBox ==
    ASSUME Inv, BoxInv, NEW t \in Tasks,
           SetNonblocking(t) \/ NetconnRecv(t) \/ NetconnAccept(t) \/ RecvTimeout(t)
           \/ AcceptTimeout(t) \/ Accepted(t)
    PROVE  BoxInv'
<1>1. /\ pcb' = pcb /\ pc'[t] # "wait"
      /\ \A u \in Tasks \ {t} : pc'[u] = "idle" /\ pc[u] # "wait"
      /\ pc[t] # "wait"
    BY DEF SetNonblocking, NetconnRecv, NetconnAccept, RecvTimeout, AcceptTimeout, Accepted,
           Serial, Inv, OneCaller, TypeOK
<1>2. /\ nc'.recvmbox = nc.recvmbox /\ nc'.acceptmbox = nc.acceptmbox /\ nc'.state = nc.state
      /\ nc'.sem = nc.sem /\ (Fatal(nc.lastErr) => Fatal(nc'.lastErr))
      /\ nc'.mem # "free" => nc.mem # "free"
    BY DEF SetNonblocking, NetconnRecv, NetconnAccept, RecvTimeout, AcceptTimeout, Accepted,
           SafeErr, Inv, TypeOK, NcType
<1>3. /\ nc.state # "CLOSE" /\ nc.sem = 0
      /\ pcb.state = "NULL" /\ nc.mem # "free" => Fatal(nc.lastErr) \/ Drained(nc)
    BY <1>1, IdleBox
<1>4. EofInv'
    BY <1>1, <1>2 DEF BoxInv, EofInv, EofOf
<1>5. /\ pc'[t] = "fetch" => nc.recvmbox.valid /\ ~Fatal(nc.lastErr) /\ nc.mem = "alloc"
      /\ pc'[t] = "acceptFetch" => nc.acceptmbox.valid /\ ~Fatal(nc.lastErr) /\ nc.mem = "alloc"
    BY DEF SetNonblocking, NetconnRecv, NetconnAccept, RecvTimeout, AcceptTimeout, Accepted,
           Serial, Inv, TypeOK
<1> QED
    BY <1>1, <1>2, <1>3, <1>4, <1>5, AppBox DEF Drained

\* A segment or the end of the stream taken from recvmbox.
LEMMA RecvFetchedBox == ASSUME Inv, BoxInv, NEW t \in Tasks, RecvFetched(t) PROVE BoxInv'
<1>1. pc[t] = "fetch" /\ \A u \in Tasks \ {t} : pc[u] = "idle"
    BY DEF RecvFetched, Inv, OneCaller
<1>2. nc \in NcType /\ nc.recvmbox.q # <<>> /\ nc' = [nc EXCEPT !.recvmbox.q = Tail(@)]
    BY DEF RecvFetched, Inv, TypeOK
<1>3. /\ nc'.recvmbox.q = Tail(nc.recvmbox.q) /\ nc'.acceptmbox = nc.acceptmbox
      /\ nc'.state = nc.state /\ nc'.sem = nc.sem /\ nc'.mem = nc.mem
    BY <1>2, FetchType DEF SameCore
<1>4. nc'.lastErr = nc.lastErr /\ nc'.recvmbox.valid = nc.recvmbox.valid
    BY <1>2 DEF NcType, Mbox
<1>5. /\ pcb' = pcb /\ pc'[t] = "wait" /\ msg'[t].fn # "newconn"
      /\ \A u \in Tasks \ {t} : pc'[u] = "idle"
    BY <1>1 DEF RecvFetched, Post, Msg, NoMsg, Inv, TypeOK
<1>6. EofInv'
    <2>1. nc.recvmbox.q \in Queues
        BY SameNc, RecvQueue DEF Same
    <2> QED BY <1>2, <1>3, <1>5, <2>1, EofTail DEF BoxInv, EofInv, EofOf
<1>7. /\ nc.state # "CLOSE" /\ nc.sem = 0
      /\ pcb.state = "NULL" /\ nc.mem # "free" => Fatal(nc.lastErr) \/ Drained(nc)
    BY <1>1, IdleBox
<1> QED
    BY <1>3, <1>4, <1>5, <1>6, <1>7, AppBox DEF Drained

\* A connection, or the NULL, taken from acceptmbox.
LEMMA AcceptFetchedBox == ASSUME Inv, BoxInv, NEW t \in Tasks, AcceptFetched(t) PROVE BoxInv'
<1> DEFINE c == [nc EXCEPT !.acceptmbox.q = Tail(@)]
<1>1. pc[t] = "acceptFetch" /\ \A u \in Tasks \ {t} : pc[u] = "idle"
    BY DEF AcceptFetched, Inv, OneCaller
<1>2. nc \in NcType /\ nc.acceptmbox.q # <<>> /\ (nc' = c \/ nc' = SafeErr(c, "FATAL"))
    BY DEF AcceptFetched, Inv, TypeOK
<1>3. /\ c \in NcType /\ c.recvmbox = nc.recvmbox
      /\ c.state = nc.state /\ c.sem = nc.sem /\ c.mem = nc.mem
    BY <1>2, FetchType DEF SameCore
<1>4. c.lastErr = nc.lastErr /\ c.acceptmbox.valid = nc.acceptmbox.valid
    BY <1>2 DEF NcType, Mbox
<1> HIDE DEF c
<1>5. /\ nc'.recvmbox = nc.recvmbox /\ nc'.acceptmbox.valid = nc.acceptmbox.valid
      /\ nc'.state = nc.state /\ nc'.sem = nc.sem /\ nc'.mem = nc.mem
      /\ Fatal(nc.lastErr) => Fatal(nc'.lastErr)
    BY <1>2, <1>3, <1>4 DEF SafeErr, NcType
<1>6. /\ pcb' = pcb /\ pc'[t] = "idle" /\ \A u \in Tasks \ {t} : pc'[u] = "idle"
    BY <1>1 DEF AcceptFetched, Inv, TypeOK
<1>7. EofInv'
    BY <1>5, <1>6 DEF BoxInv, EofInv, EofOf
<1>8. /\ nc.state # "CLOSE" /\ nc.sem = 0
      /\ pcb.state = "NULL" /\ nc.mem # "free" => Fatal(nc.lastErr) \/ Drained(nc)
    BY <1>1, IdleBox
<1> QED
    BY <1>5, <1>6, <1>7, <1>8, AppBox DEF Drained

\* The end of a call.
LEMMA ReturnBox == ASSUME Inv, BoxInv, NEW t \in Tasks, Return(t) PROVE BoxInv'
<1> DEFINE c == [nc EXCEPT !.sem = 0]
<1>1. /\ pc[t] = "wait" /\ nc.sem = 1 /\ pcb' = pcb /\ \A u \in Tasks : pc'[u] = "idle"
      /\ nc.cur = NoTask /\ \A u \in Tasks \ {t} : pc[u] = "idle"
    BY DEF Return, Inv, OneCaller, TypeOK, OneToken, Signalled
<1>2. /\ c.recvmbox = nc.recvmbox /\ c.acceptmbox = nc.acceptmbox /\ c.lastErr = nc.lastErr
      /\ c.state = nc.state /\ c.mem = nc.mem /\ c \in NcType
    BY DEF Inv, TypeOK, NcType
<1>3. nc.state # "CLOSE"
    BY <1>1 DEF Inv, CurMsgState
<1>4. \/ nc' = FreeConn
      \/ /\ msg[t].fn = "newconn" => msg[t].err = "OK"
         /\ nc' = c \/ \E e : nc' = SafeErr(c, e)
    BY DEF Return
<1> HIDE DEF c
<1>5. CASE nc' = FreeConn
    <2>1. /\ nc'.recvmbox.q = <<>> /\ ~nc'.acceptmbox.valid /\ nc'.state = "NONE" /\ nc'.mem = "free"
        BY <1>5 DEF FreeConn, NoMbox
    <2>2. EofInv'
        BY <1>1, <2>1 DEF BoxInv, EofInv, EofOf, Eof, HasEof
    <2> QED BY <1>1, <2>1, <2>2, AppBox
<1>6. CASE /\ msg[t].fn = "newconn" => msg[t].err = "OK"
           /\ nc' = c \/ \E e : nc' = SafeErr(c, e)
    <2>1. /\ nc'.recvmbox = nc.recvmbox /\ nc'.acceptmbox = nc.acceptmbox
          /\ nc'.state = nc.state /\ nc'.mem = nc.mem
          /\ Fatal(nc.lastErr) => Fatal(nc'.lastErr)
        BY <1>2, <1>6 DEF SafeErr, NcType
    <2>2. EofInv'
        BY <1>1, <2>1 DEF BoxInv, EofInv, EofOf
    <2>3. msg[t].fn = "newconn" => pcb.state = "CLOSED"
        BY <1>1, <1>6 DEF BoxInv, MboxInv, Signalled
    <2>4. pcb.state = "NULL" /\ nc.mem # "free" => Fatal(nc.lastErr) \/ Drained(nc)
        BY <1>1, <2>3 DEF BoxInv, ReaderInv, Creating
    <2> QED BY <1>1, <1>3, <2>1, <2>2, <2>4, AppBox DEF Drained
<1> QED
    BY <1>4, <1>5, <1>6

\* Every step of an application task.
LEMMA ApplicationBox == ASSUME Inv, BoxInv, Application PROVE BoxInv'
BY NetconnNewBox, NetconnCallBox, QuietAppBox, RecvFetchedBox, AcceptFetchedBox, ReturnBox
   DEF Application

\* The mailboxes before the netconn is allocated.
LEMMA InitBox == Init => BoxInv
<1> SUFFICES ASSUME Init PROVE BoxInv
    OBVIOUS
<1>1. nc.recvmbox.q = <<>> /\ ~nc.acceptmbox.valid /\ nc.state = "NONE" /\ nc.mem = "free"
      /\ pcb.refused = "none"
    BY DEF Init, FreeConn, NoMbox, NoPcb
<1>2. EofInv
    BY <1>1 DEF EofInv, EofOf, Eof, HasEof
<1>3. MboxInv /\ ReaderInv
    BY <1>1 DEF MboxInv, ReaderInv, BlockedReaderWoken, Init
<1> QED
    BY <1>2, <1>3 DEF BoxInv

\* Every step keeps the mailboxes as they should be.
LEMMA NextBox == ASSUME Inv, BoxInv, [Next]_vars PROVE BoxInv'
<1>1. Inv'
    BY NextInv
<1>2. CASE UNCHANGED vars
    BY <1>2, SameBox DEF vars
<1> QED
    BY <1>1, <1>2, ApplicationBox, TcpipThreadBox, EventsBox DEF Next

\* The inductive invariant of the mailboxes.
THEOREM MailboxesCorrect == Spec => []BoxInv
<1>1. Init => Inv /\ BoxInv
    BY InitInv, InitBox
<1>2. Inv /\ BoxInv /\ [Next]_vars => Inv' /\ BoxInv'
    BY NextInv, NextBox
<1> QED
    BY <1>1, <1>2, PTL DEF Spec

\* A task blocked in netconn_recv or netconn_accept is woken when err_tcp takes the pcb.
THEOREM BlockedReaderWokenHolds == Spec => []BlockedReaderWoken
<1>1. BoxInv => BlockedReaderWoken
    BY DEF BoxInv, ReaderInv
<1> QED
    BY <1>1, MailboxesCorrect, PTL

\* netconn_free finds no pcb and drained mailboxes, whichever way the call ended.
THEOREM FreedCleanHolds == Spec => []FreedClean
<1>1. Inv /\ BoxInv => FreedClean
    BY DEF Inv, CallInv, Answered, BoxInv, MboxInv, FreedClean, Drained
<1> QED
    BY <1>1, Invariance, MailboxesCorrect, PTL

\* The NULL that ends the stream is behind everything recv_tcp posted or was refused.
THEOREM EofLastHolds == Spec => []EofLast
<1>1. BoxInv => EofLast
    <2> SUFFICES ASSUME BoxInv PROVE EofLast
        OBVIOUS
    <2>1. \A i, j \in 1 .. Len(nc.recvmbox.q) :
             i < j /\ nc.recvmbox.q[i] = "NULL" => nc.recvmbox.q[j] # "data"
        BY DEF BoxInv, EofInv, EofOf, Eof
    <2>2. pcb.refused # "none" => \A i \in 1 .. Len(nc.recvmbox.q) : nc.recvmbox.q[i] # "NULL"
        BY DEF BoxInv, EofInv, EofOf, Eof, HasEof
    <2> QED BY <2>1, <2>2 DEF EofLast
<1> QED
    BY <1>1, MailboxesCorrect, PTL

----------------------------------------------------------------------------
(* The API implements ApiCall: each call is answered once.                 *)

CallAt(t) == IF pc[t] # "wait" THEN "none" ELSE IF nc.sem = 1 THEN "answered" ELSE "asked"
Calls == [t \in Tasks |-> CallAt(t)]

\* The abstract state behind Api.
LEMMA ApiNext ==
    ASSUME \/ \A u \in Tasks : CallAt(u)' = CallAt(u)
           \/ \E t \in Tasks :
                 /\ \A u \in Tasks \ {t} : CallAt(u)' = CallAt(u)
                 /\ \/ CallAt(t) = "none" /\ CallAt(t)' = "asked"
                       /\ \A u \in Tasks : CallAt(u) = "none"
                    \/ CallAt(t) = "asked" /\ CallAt(t)' = "answered"
                    \/ CallAt(t) = "answered" /\ CallAt(t)' = "none"
    PROVE  Calls' = Calls \/ Api!Next
<1>0. Calls' = [t \in Tasks |-> CallAt(t)']
    BY DEF Calls
<1>1. CASE \A u \in Tasks : CallAt(u)' = CallAt(u)
    BY <1>0, <1>1 DEF Calls
<1>2. ASSUME NEW t \in Tasks, NEW x, CallAt(t)' = x, \A u \in Tasks \ {t} : CallAt(u)' = CallAt(u)
      PROVE  Calls' = [Calls EXCEPT ![t] = x]
    BY <1>0, <1>2 DEF Calls
<1>3. ASSUME NEW t \in Tasks, \A u \in Tasks \ {t} : CallAt(u)' = CallAt(u),
             \/ CallAt(t) = "none" /\ CallAt(t)' = "asked" /\ \A u \in Tasks : CallAt(u) = "none"
             \/ CallAt(t) = "asked" /\ CallAt(t)' = "answered"
             \/ CallAt(t) = "answered" /\ CallAt(t)' = "none"
      PROVE  Api!Next
    <2>1. \A u \in Tasks : Calls[u] = CallAt(u)
        BY DEF Calls
    <2>2. \/ (\A u \in Tasks : Calls[u] = "none") /\ Calls' = [Calls EXCEPT ![t] = "asked"]
          \/ Calls[t] = "asked" /\ Calls' = [Calls EXCEPT ![t] = "answered"]
          \/ Calls[t] = "answered" /\ Calls' = [Calls EXCEPT ![t] = "none"]
        BY <1>2, <1>3, <2>1
    <2>3. Api!Ask(t) \/ Api!Answer(t) \/ Api!GoOn(t)
        BY <2>2 DEF Api!Ask, Api!Answer, Api!GoOn, Calls, CallAt
    <2> QED BY <2>3 DEF Api!Next
<1> QED
    BY <1>1, <1>3

\* tcpip_thread answers the one call there is, or leaves it.
LEMMA ServeCalls ==
    ASSUME Inv, Inv', pc' = pc, nc.sem = 1 => nc'.sem = 1 \/ \A u \in Tasks : pc[u] # "wait"
    PROVE  Calls' = Calls \/ Api!Next
<1>0. nc.sem \in {0, 1} /\ nc'.sem \in {0, 1}
    BY DEF Inv, TypeOK, NcType
<1>1. CASE \A u \in Tasks : pc[u] # "wait"
    BY <1>1, ApiNext DEF CallAt
<1>2. ASSUME NEW t \in Tasks, pc[t] = "wait" PROVE Calls' = Calls \/ Api!Next
    <2>1. \A u \in Tasks \ {t} : pc[u] # "wait"
        BY <1>2 DEF Inv, OneCaller
    <2>2. \A u \in Tasks \ {t} : CallAt(u)' = CallAt(u)
        BY <2>1 DEF CallAt
    <2>3. \/ CallAt(t)' = CallAt(t)
          \/ CallAt(t) = "asked" /\ CallAt(t)' = "answered"
        BY <1>0, <1>2 DEF CallAt
    <2> QED BY <2>2, <2>3, ApiNext
<1> QED
    BY <1>1, <1>2

\* A task posts the only call.
LEMMA PostCalls ==
    ASSUME Inv, NEW t \in Tasks, NEW m, Post(t, m), \A u \in Tasks : pc[u] # "wait",
           nc'.sem = nc.sem
    PROVE  Calls' = Calls \/ Api!Next
<1>1. nc.sem = 0
    BY IdleFacts
<1>2. pc'[t] = "wait" /\ \A u \in Tasks \ {t} : pc'[u] = pc[u]
    BY DEF Post, Inv, TypeOK
<1>3. CallAt(t)' = "asked" /\ \A u \in Tasks \ {t} : CallAt(u)' = CallAt(u)
    BY <1>1, <1>2 DEF CallAt
<1>4. \A u \in Tasks : CallAt(u) = "none"
    BY DEF CallAt
<1> QED
    BY <1>3, <1>4, ApiNext

\* The steps of the application tasks.
LEMMA ApplicationCalls == ASSUME Inv, Application PROVE Calls' = Calls \/ Api!Next
<1>1. PICK t \in Tasks :
         \/ NetconnNew(t) \/ SetNonblocking(t) \/ NetconnCall(t) \/ Accepted(t)
         \/ NetconnRecv(t) \/ RecvFetched(t) \/ RecvTimeout(t)
         \/ NetconnAccept(t) \/ AcceptFetched(t) \/ AcceptTimeout(t)
         \/ Return(t)
    BY DEF Application
<1>2. CASE NetconnNew(t)
    <2>1. nc = FreeConn /\ AllocConn.sem = FreeConn.sem
        BY <1>2 DEF NetconnNew, Inv, PcbInv, AllocConn, FreeConn
    <2> QED BY <1>2, <2>1, PostCalls DEF NetconnNew, Serial
<1>3. CASE NetconnCall(t)
    <2>1. PICK m \in MsgType : Post(t, m)
        BY <1>3, RequestMsg DEF NetconnCall
    <2> QED BY <1>3, <2>1, PostCalls DEF NetconnCall, Serial
<1>4. CASE RecvFetched(t)
    <2>1. \A u \in Tasks : pc[u] # "wait"
        BY <1>4 DEF RecvFetched, Inv, OneCaller
    <2>2. nc'.sem = nc.sem
        BY <1>4 DEF RecvFetched, Inv, TypeOK, NcType
    <2>3. PICK m : m = Msg(IF Head(nc.recvmbox.q) = "NULL" THEN "recvNull" ELSE "recv")
        OBVIOUS
    <2>4. Post(t, m)
        BY <1>4, <2>3 DEF RecvFetched
    <2> QED BY <2>1, <2>2, <2>4, PostCalls
<1>5. CASE Return(t)
    <2>1. /\ pc[t] = "wait" /\ nc.sem = 1 /\ \A u \in Tasks : pc'[u] = "idle"
          /\ \A u \in Tasks \ {t} : pc[u] = "idle"
        BY <1>5 DEF Return, Inv, OneCaller, TypeOK
    <2>2. /\ CallAt(t) = "answered" /\ CallAt(t)' = "none"
          /\ \A u \in Tasks \ {t} : CallAt(u)' = CallAt(u)
        BY <2>1 DEF CallAt
    <2> QED BY <2>2, ApiNext
<1>6. CASE \/ SetNonblocking(t) \/ NetconnRecv(t) \/ NetconnAccept(t) \/ RecvTimeout(t)
           \/ AcceptTimeout(t) \/ AcceptFetched(t) \/ Accepted(t)
    <2>1. \A u \in Tasks : pc'[u] # "wait" /\ pc[u] # "wait"
        BY <1>6 DEF SetNonblocking, NetconnRecv, NetconnAccept, RecvTimeout, AcceptTimeout,
               AcceptFetched, Accepted, Serial, Inv, OneCaller, TypeOK
    <2> QED BY <2>1, ApiNext DEF CallAt
<1> QED
    BY <1>1, <1>2, <1>3, <1>4, <1>5, <1>6

\* Every step is a step of ApiCall or none.
LEMMA NextCalls == ASSUME Inv, BoxInv, [Next]_vars PROVE Calls' = Calls \/ Api!Next
<1>1. Inv'
    BY NextInv
<1>2. CASE UNCHANGED vars
    BY <1>1, <1>2, ServeCalls DEF vars
<1>3. CASE TcpipThread
    <2>1. PICK t \in Tasks : \E fn : Handle(t, fn)
        BY <1>3 DEF TcpipThread, DoNewconn, DoBind, DoConnect, DoListen, DoRecv, DoGetaddr,
               DoWrite, DoClose, DoDelconn
    <2>2. nc.sem = 0 /\ pc' = pc
        BY <2>1, HandleFacts DEF Handle
    <2> QED BY <1>1, <2>2, ServeCalls
<1>4. CASE Events
    <2>1. Effect \/ AcceptFunction \/ DropQueued \/ CallbackEnd
        BY <1>4, EventEffect DEF BoxInv
    <2>2. /\ pc' = pc
          /\ nc.sem = 1 => nc'.sem = 1 \/ \A u \in Tasks : pc[u] # "wait"
        BY <2>1 DEF Effect, AcceptFunction, DropQueued, CallbackEnd, Callback, Serial, Inv, PcbInv
    <2> QED BY <1>1, <2>2, ServeCalls
<1> QED
    BY <1>2, <1>3, <1>4, ApplicationCalls DEF Next

\* No call is in progress before the netconn is allocated.
LEMMA InitCalls == ASSUME Init PROVE Api!Init
BY DEF Init, Api!Init

\* tcpip_apimsg keeps its promise: every call on the connection is answered once, one
\* after the other, and only then does its caller go on.
THEOREM OneAnswerPerCallHolds == Spec => OneAnswerPerCall
<1>1. Init => Api!Init
    BY InitCalls
<1>2. Inv /\ BoxInv /\ [Next]_vars => Calls' = Calls \/ Api!Next
    BY NextCalls
<1>3. Calls' = Calls \/ Api!Next =>
        [Api!Next]_([t \in Tasks |-> IF pc[t] # "wait" THEN "none"
                                     ELSE IF nc.sem = 1 THEN "answered" ELSE "asked"])
    BY DEF Calls, CallAt
<1> QED
    BY <1>1, <1>2, <1>3, Invariance, MailboxesCorrect, PTL DEF Spec, OneAnswerPerCall, Api!Spec

=============================================================================
