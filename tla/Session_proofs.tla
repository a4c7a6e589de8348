--------------------------- MODULE Session_proofs ---------------------------
(***************************************************************************)
(* What TLAPS proves of a session, for any number of calls of              *)
(* simpleConnect and any sizes of buffers.                                 *)
(*                                                                         *)
(* Connecting: a session goes through the steps of SimpleConnect, whatever *)
(* is transferred in between, and so ConnectInv holds.  The invariant IInv *)
(* has to say where the message of an attempt is at each step of           *)
(* connectTask, as long as none was given up, and that err says OK only of *)
(* a connection that is there.                                             *)
(*                                                                         *)
(* Transfers: SelectTold and TransferInv, from the invariant IOInv.  It    *)
(* has to say that rcvevent is at least the number of messages it counts   *)
(* (Counted: what a task that sleeps depends on), and exactly that until   *)
(* an update is torn (Exact: why a read with data does not wait); which    *)
(* call the task is in (CallInv); and, of the bytes and of the window, the *)
(* equations of BytesKept and WindowBack in every state.  Contents is made *)
(* with FlattenSeq, a recursive function: ContentsAppend and ContentsHead  *)
(* say what it does when a message comes or goes, by induction on numbers  *)
(* (LeastElement).                                                         *)
(***************************************************************************)
EXTENDS Session, SequenceTheorems, WellFoundedInduction, TLAPS

\* Nothing is under way in tcpip_thread but what is in its mailbox.
NoCall == conn.sem = 0 /\ conn.cur = NoMsg /\ conn.pcb # "SYN_SENT"

\* The message of connectTask is in the mailbox, or with the pcb, or answered.
Pending == \/ mbox = <<call>> /\ NoCall
           \/ mbox = <<>> /\ conn.sem = 0 /\ conn.cur = call /\ conn.pcb = "SYN_SENT"
           \/ mbox = <<>> /\ conn.sem = 1 /\ conn.cur = NoMsg /\ conn.pcb # "SYN_SENT"

\* The message of netconn_delete is in the mailbox, or answered.
Closing == \/ mbox = <<Close>> /\ NoCall
           \/ mbox = <<>> /\ conn.sem = 1 /\ conn.cur = NoMsg /\ conn.pcb = "NULL"

\* One call at a time, as long as no attempt was given up.
OneCall == late = 0 =>
  /\ helper = "blocked" => Pending
  /\ user = "close" => Closing
  /\ helper # "blocked" /\ user # "close" => mbox = <<>> /\ NoCall
  /\ user = "closed" => conn.pcb = "NULL"
  /\ conn.state = "free" => user = "closed"

\* simpleConnect goes on when connectTask has ended, as long as none was given up.
Ended == late = 0 => /\ "INTERN" \in bits => helper = "done"
                     /\ user \in {"seen", "delete"} => helper = "done" /\ "INTERN" \notin bits
                     /\ user # "late"

\* netconn_delete is the last call.
CloseIsLast == \A i \in 1..Len(mbox) : mbox[i] = Close => user \in {"close", "closed"}

\* The attempts that were given up are among those that were made.
Numbers == /\ late <= call
           /\ user \in {"wait", "seen"} => late # call
           /\ user \in {"wait", "seen", "late", "delete"} => call # 0

\* A result, on its way from tcpip_thread to the caller, is that of a connection.
ErrTrue == err = "OK" /\ helper \in {"blocked", "store"} => conn.pcb = "ESTABLISHED"
RetTrue == helper \in {"notify", "done"} /\ ret = 0 => conn.pcb = "ESTABLISHED"
EndTrue == late \in {0, call} /\ user \in {"ready", "delete"} /\ ret = 0
             => conn.pcb = "ESTABLISHED"

\* What does not speak of single messages in the mailbox.
Steps == FrameInUse /\ OneCall /\ Ended /\ Numbers /\ ErrTrue /\ RetTrue /\ EndTrue

IInv == TypeOK /\ CloseIsLast /\ Steps

-----------------------------------------------------------------------------
\* Before the first call of simpleConnect nothing is under way.
LEMMA InitIInv == Init => IInv
<1> SUFFICES ASSUME Init PROVE IInv
  OBVIOUS
<1>1. TypeOK
  BY CallsAssumption DEF Init, TypeOK, Attempts, Close, NoMsg
<1>2. FrameInUse /\ OneCall /\ Ended /\ CloseIsLast /\ Numbers /\ ErrTrue /\ RetTrue /\ EndTrue
  BY DEF Init, FrameInUse, OneCall, NoCall, Ended, CloseIsLast, Numbers, ErrTrue, RetTrue, EndTrue
<1> QED
  BY <1>1, <1>2 DEF IInv, Steps

-----------------------------------------------------------------------------
(* Records and sequences                                                   *)

Pcbs == {"CLOSED", "SYN_SENT", "ESTABLISHED", "NULL"}
Conns == [state : {"NONE", "CONNECT", "free"}, pcb : Pcbs, cur : {NoMsg} \cup Attempts,
          sem : 0..1]

\* conn, field by field.
LEMMA ConnIs ==
  ASSUME conn \in Conns
  PROVE  /\ conn = [state |-> conn.state, pcb |-> conn.pcb, cur |-> conn.cur, sem |-> conn.sem]
         /\ conn.state \in {"NONE", "CONNECT", "free"} /\ conn.pcb \in Pcbs
         /\ conn.cur \in {NoMsg} \cup Attempts
BY DEF Conns

\* An answer keeps the type of conn.
LEMMA AnswerType ==
  ASSUME conn \in Conns, NEW b \in Pcbs, NEW m, NEW e, Answer(b, m, e)
  PROVE  conn' \in Conns
<1> DEFINE c == IF m \in {conn.cur, Close} THEN NoMsg ELSE conn.cur
           s == IF m \in {conn.cur, Close} /\ conn.state # "free" THEN "NONE" ELSE conn.state
<1>1. conn' = [state |-> s, pcb |-> b, cur |-> c, sem |-> 1]
  BY ConnIs DEF Answer
<1>2. c \in {NoMsg} \cup Attempts /\ s \in {"NONE", "CONNECT", "free"}
  BY ConnIs
<1> QED
  BY <1>1, <1>2, 1 \in 0..1 DEF Conns

\* A message at the end of the mailbox, or one less at its front, keeps
\* CloseIsLast, unless it is that of netconn_delete.
LEMMA Posted ==
  ASSUME TypeOK, CloseIsLast, NEW m \in Attempts \cup {Close}, mbox' = Append(mbox, m),
         user \in {"close", "closed"} => user' \in {"close", "closed"},
         m = Close => user' \in {"close", "closed"}
  PROVE  CloseIsLast' /\ mbox' \in Seq(Attempts \cup {Close})
<1>1. mbox \in Seq(Attempts \cup {Close})
  BY DEF TypeOK
<1>2. /\ mbox' \in Seq(Attempts \cup {Close}) /\ Len(mbox') = Len(mbox) + 1
      /\ \A i \in 1..Len(mbox) : mbox'[i] = mbox[i]
      /\ mbox'[Len(mbox) + 1] = m
  BY <1>1
<1>3. \A i \in 1..Len(mbox') : i \in 1..Len(mbox) \/ i = Len(mbox) + 1
  BY <1>1, <1>2
<1> QED
  BY <1>2, <1>3 DEF CloseIsLast

\* The same for a message that is fetched from the front.
LEMMA Fetched ==
  ASSUME TypeOK, CloseIsLast, mbox # <<>>, mbox' = Tail(mbox), user' = user
  PROVE  CloseIsLast' /\ mbox' \in Seq(Attempts \cup {Close})
<1>1. mbox \in Seq(Attempts \cup {Close})
  BY DEF TypeOK
<1>2. /\ mbox' \in Seq(Attempts \cup {Close}) /\ Len(mbox') = Len(mbox) - 1
      /\ \A i \in 1..Len(mbox') : mbox'[i] = mbox[i + 1]
  BY <1>1
<1>3. \A i \in 1..Len(mbox') : i + 1 \in 1..Len(mbox)
  BY <1>1, <1>2
<1> QED
  BY <1>2, <1>3 DEF CloseIsLast

-----------------------------------------------------------------------------
\* Each step keeps the invariant.
LEMMA NextIInv == IInv /\ [Next]_vars => IInv'
<1> SUFFICES ASSUME IInv, [Next]_vars PROVE IInv'
  OBVIOUS
<1> USE CallsAssumption DEF IInv, Attempts, Close, NoMsg, TypeOK, CloseIsLast, Steps, FrameInUse,
        OneCall, NoCall, Pending, Closing, Ended, Numbers, ErrTrue, RetTrue, EndTrue
<1>a. TypeOK <=> /\ user \in {"ready", "wait", "seen", "late", "delete", "close", "closed"}
                 /\ helper \in {"none", "start", "blocked", "return", "store", "notify", "done"}
                 /\ call \in 0..MaxCalls /\ ret \in {0, -1} /\ err \in {"OK", "ERROR"}
                 /\ bits \subseteq {"INTERN", "CONNECTED", "DISCONNECTED", "TIMEOUT"}
                 /\ mbox \in Seq(Attempts \cup {Close}) /\ conn \in Conns /\ late \in 0..MaxCalls
  BY DEF Conns, Pcbs
<1>1. CASE Start
  BY <1>1 DEF Start
<1>2. CASE Seen
  BY <1>2 DEF Seen
<1>3. CASE TimeLimit
  BY <1>3 DEF TimeLimit
<1>4. CASE MarkConnected
  BY <1>4 DEF MarkConnected
<1>5. CASE MarkTimeout
  BY <1>5 DEF MarkTimeout
<1>6. CASE Delete
  BY <1>6 DEF Delete
<1>7. CASE Post
  <2>1. call \in Attempts \cup {Close} /\ (call = Close => user' \in {"close", "closed"})
    BY <1>7 DEF Post
  <2>2. CloseIsLast' /\ mbox' \in Seq(Attempts \cup {Close})
    BY <1>7, <2>1, Posted DEF Post
  <2>3. TypeOK'
    BY <1>7, <2>2 DEF Post
  <2>4. mbox = <<>> => mbox' = <<call>>
    BY <1>7 DEF Post
  <2>5. Steps'
    BY <1>7, <2>4 DEF Post
  <2> QED
    BY <2>2, <2>3, <2>5
<1>8. CASE Woken
  BY <1>8 DEF Woken
<1>9. CASE Store
  BY <1>9 DEF Store
<1>10. CASE Notify
  BY <1>10 DEF Notify
<1>11. CASE PostClose
  <2>1. Close \in Attempts \cup {Close} /\ (Close = Close => user' \in {"close", "closed"})
    BY <1>11 DEF PostClose
  <2>2. CloseIsLast' /\ mbox' \in Seq(Attempts \cup {Close})
    BY <1>11, <2>1, Posted DEF PostClose
  <2>3. TypeOK'
    BY <1>11, <2>2 DEF PostClose
  <2>4. mbox = <<>> => mbox' = <<Close>>
    BY <1>11 DEF PostClose
  <2>5. Steps'
    BY <1>11, <2>4 DEF PostClose
  <2> QED
    BY <2>2, <2>3, <2>5
<1>12. CASE Closed
  <2>1. conn' = [state |-> "free", pcb |-> conn.pcb, cur |-> conn.cur, sem |-> 0]
    BY <1>12 DEF Closed
  <2>2. TypeOK'
    BY <1>12, <2>1 DEF Closed
  <2>3. Steps' /\ CloseIsLast'
    BY <1>12 DEF Closed
  <2> QED
    BY <2>2, <2>3
<1>13. CASE DoConnect
  <2>1. CloseIsLast' /\ mbox' \in Seq(Attempts \cup {Close})
    BY <1>13, Fetched DEF DoConnect, Answer, Thread
  <2>2. Head(mbox) \in Attempts /\ (late = 0 => mbox = <<call>> /\ mbox' = <<>> /\ Pending)
    BY <1>13 DEF DoConnect, Thread
  <2>3. CASE Answer(conn.pcb, Head(mbox), "ERROR")
    <3>1. TypeOK'
      BY <1>13, <2>1, <2>3, <1>a, AnswerType, ConnIs DEF DoConnect, Answer, Thread, Conns
    <3>2. Steps'
      BY <1>13, <2>2, <2>3 DEF DoConnect, Answer, Thread
    <3> QED
      BY <2>1, <3>1, <3>2
  <2>4. CASE /\ conn.state = "NONE" /\ conn.pcb = "CLOSED"
             /\ conn' = [conn EXCEPT !.state = "CONNECT", !.pcb = "SYN_SENT", !.cur = Head(mbox)]
             /\ UNCHANGED err
    <3>1. TypeOK'
      BY <1>13, <2>1, <2>2, <2>4 DEF DoConnect, Thread
    <3>2. Steps'
      BY <1>13, <2>2, <2>4 DEF DoConnect, Thread
    <3> QED
      BY <2>1, <3>1, <3>2
  <2> QED
    BY <1>13, <2>3, <2>4 DEF DoConnect
<1>14. CASE DoConnected
  <2>1. TypeOK'
    BY <1>14, <1>a, AnswerType DEF DoConnected, Answer, Thread, Conns, Pcbs
  <2>2. Steps' /\ CloseIsLast'
    BY <1>14 DEF DoConnected, Answer, Thread
  <2> QED
    BY <2>1, <2>2
<1>15. CASE ErrTcp
  <2>1. TypeOK'
    BY <1>15, <1>a, AnswerType DEF ErrTcp, Answer, Thread, Conns, Pcbs
  <2>2. Steps' /\ CloseIsLast'
    BY <1>15 DEF ErrTcp, Answer, Thread
  <2> QED
    BY <2>1, <2>2
<1>16. CASE DoDelconn
  <2>1. CloseIsLast' /\ mbox' \in Seq(Attempts \cup {Close})
    BY <1>16, Fetched DEF DoDelconn, Answer, Thread
  <2>2. TypeOK'
    BY <1>16, <2>1, <1>a, AnswerType DEF DoDelconn, Answer, Thread, Conns, Pcbs
  <2>3. Steps'
    BY <1>16 DEF DoDelconn, Answer, Thread
  <2> QED
    BY <2>1, <2>2, <2>3
<1>17. CASE UNCHANGED vars
  BY <1>17 DEF vars
<1> QED
  BY <1>1, <1>2, <1>3, <1>4, <1>5, <1>6, <1>7, <1>8, <1>9, <1>10, <1>11,
     <1>12, <1>13, <1>14, <1>15, <1>16, <1>17 DEF Next, Caller, Helper, Tcpip

-----------------------------------------------------------------------------
\* A step of a session is one of SimpleConnect, or leaves its variables alone.
LEMMA StepSimulation == [SessionNext]_allVars => [Next]_vars
<1> SUFFICES ASSUME [SessionNext]_allVars PROVE [Next]_vars
  OBVIOUS
<1>1. CASE Use
  BY <1>1 DEF Use, Transfer
<1>2. CASE Serve
  BY <1>2 DEF Serve, Transfer
<1>3. CASE Connect
  BY <1>3 DEF Connect, Next, Caller, Helper, Tcpip
<1>4. CASE CloseIt
  BY <1>4 DEF CloseIt, Next, Caller, Tcpip
<1>5. CASE UNCHANGED allVars
  BY <1>5 DEF allVars, vars
<1> QED
  BY <1>1, <1>2, <1>3, <1>4, <1>5 DEF SessionNext

\* A session, with its transfers, implements SimpleConnect: the reads, writes and
\* callbacks on a connected socket never disturb the attempts and the close
\* (lwip.c 565-604, 688-699).
THEOREM ImplementsConnect == SessionSpec => Spec
<1>1. SessionInit => Init
  BY DEF SessionInit
<1> QED
  BY <1>1, StepSimulation, PTL DEF SessionSpec, Spec

\* The inductive invariant holds of every session.
LEMMA Invariance == SessionSpec => []IInv
BY InitIInv, NextIInv, ImplementsConnect, PTL DEF Spec

\* Every variable of SimpleConnect has its type.
THEOREM TypeCorrect == SessionSpec => []TypeOK
<1>1. IInv => TypeOK
  BY DEF IInv
<1> QED
  BY <1>1, Invariance, PTL

\* For any number of calls, connectTask has ended when simpleConnect returns, the
\* netconn is freed after it was closed, and 0 is the result of a connection, as
\* ConnectInv says (lwip.c 565-604).
THEOREM ConnectInvHolds == SessionSpec => []ConnectInv
<1>1. IInv => FreedAfterClose
  BY DEF IInv, Steps, OneCall, FrameInUse, FreedAfterClose
<1>2. IInv => ResultTrue
  BY DEF IInv, Steps, EndTrue, ResultTrue
<1>3. IInv => ConnectInv
  BY <1>1, <1>2 DEF IInv, Steps, Inv, ConnectInv
<1> QED
  BY <1>3, Invariance, PTL

-----------------------------------------------------------------------------
(* SocketIO: types                                                         *)

\* What is in a pbuf, and the messages of recvmbox.
Data == {s \in Seq(Nat \ {0}) : Len(s) \in 1..MaxPbuf}
Pbuf == [data : Data, push : BOOLEAN]
Kept == Pbuf \cup {IO!None}
Messages == Pbuf \cup {IO!Null}

\* The steps of the reader and writer, and the errors it sees.
Places == {"idle", "top", "wait", "fin", "recved", "write", "blocked", "sockopt", "closed"}
Errors == {"OK", "WOULDBLOCK", "CLSD", "RST"}

\* The types of the variables of SocketIO.
TaskType == [pc : Places, call : {"none", "recv", "send"}, left : Nat, off : Nat,
             count : Nat, errno : Errors, ret : Int]
SockType == [rcvevent : Int, waiting : Int, last : Kept, offset : Nat]
NcType == [mbox : Seq(Messages), err : {"OK", "CLSD", "RST"}, writing : BOOLEAN,
           offset : 0..SendLength]
PcbType == [open : BOOLEAN, wnd : 0..Wnd, buf : 0..SndBuf, refused : Kept, fin : BOOLEAN]
CbType == [pc : {"loop", "load", "store", "scan", "signal", "then"}, n : Int,
           then : {"none", "fin", "reset"}]
SelType == [pc : {"out", "listed", "counted", "sleep"}, signalled : BOOLEAN, sem : 0..1]
SeenType == [arrived : Nat, got : Seq(Nat), out : Seq(Nat), fin : BOOLEAN, torn : BOOLEAN,
             partial : BOOLEAN]

\* The part of lastdata that is left.
LastOK == IF sock.last = IO!None THEN sock.offset = 0 ELSE sock.offset < Len(sock.last.data)

\* Types, and what they leave out: recvmbox has its size, and netconn_recv is entered
\* without lastdata.
IOTypes == /\ task \in TaskType /\ sock \in SockType /\ nc \in NcType /\ pcb \in PcbType
           /\ cb \in CbType /\ sel \in SelType /\ seen \in SeenType
           /\ Len(nc.mbox) <= MboxSize /\ LastOK
           /\ task.pc = "wait" => sock.last = IO!None

\* The steps of SocketIO that a session makes.
IONext == \/ IO!Calls \/ IO!Select \/ IO!Reader \/ IO!TimedOut \/ IO!Tcpip \/ IO!Network
          \/ IO!SocketClose

\* The sizes are positive numbers.
LEMMA Sizes == /\ Bytes \in Nat /\ MaxPbuf \in Nat /\ MboxSize \in Nat /\ MaxLength \in Nat
               /\ SendLength \in Nat /\ SndBuf \in Nat /\ Wnd \in Nat
               /\ MaxPbuf >= 1 /\ SendLength >= 1
BY SizesAssumption

\* No pbuf, and the NULL message, are no pbufs.
LEMMA NotPbufs == IO!None \notin Pbuf /\ IO!Null \notin Pbuf /\ IO!None # IO!Null
BY DEF Pbuf, Data, IO!None, IO!Null

\* The bytes from a on.
LEMMA FromIs ==
  ASSUME NEW a \in Nat, a >= 1, NEW n \in Nat
  PROVE  /\ IO!From(a, n) \in Seq(Nat \ {0}) /\ Len(IO!From(a, n)) = n
         /\ \A i \in 1..n : IO!From(a, n)[i] = a + i - 1
BY DEF IO!From

\* The connected socket has its types.
LEMMA InitTypes == IO!Init => IOTypes
BY Sizes DEF IO!Init, IOTypes, TaskType, SockType, NcType, PcbType, CbType, SelType, SeenType,
   Kept, LastOK, Places, Errors


\* The actions that write in the connection.
Writing == IO!DoWrite \/ IO!SentTcp \/ IO!PollTcp

\* What each variable is changed by.
LEMMA Changes ==
  ASSUME IONext
  PROVE  /\ \/ task' = task
            \/ IO!SimpleRecv \/ IO!SimpleSend \/ IO!Enter \/ IO!Take \/ IO!TimedOut \/ IO!Fin
            \/ IO!Copy \/ IO!Recved \/ Writing \/ IO!GetSockOpt \/ IO!Then \/ IO!SocketClose
         /\ \/ sock' = sock
            \/ IO!Take \/ IO!Fin \/ IO!Copy \/ IO!Store \/ IO!Count \/ IO!Rescan \/ IO!Wake
            \/ IO!SocketClose
         /\ \/ nc' = nc
            \/ IO!Take \/ IO!Fin \/ Writing \/ IO!RecvTcp \/ IO!Again \/ IO!GotFin \/ IO!ErrTcp
            \/ IO!Then \/ IO!SocketClose
         /\ \/ pcb' = pcb
            \/ IO!Fin \/ IO!Recved \/ Writing \/ IO!RecvTcp \/ IO!Again \/ IO!GotFin
            \/ IO!ErrTcp \/ IO!SocketClose
         /\ \/ cb' = cb
            \/ IO!RecvTcp \/ IO!Again \/ IO!GotFin \/ IO!ErrTcp
            \/ IO!Load \/ IO!Store \/ IO!Scan \/ IO!Signal \/ IO!Then
         /\ sel' = sel \/ IO!Enlist \/ IO!Count \/ IO!Rescan \/ IO!Wake \/ IO!Signal
         /\ seen' = seen \/ IO!Copy \/ IO!SimpleSend \/ Writing \/ IO!RecvTcp \/ IO!GotFin
              \/ IO!Store
<1>1. CASE IO!Calls \/ IO!Select
  BY <1>1 DEF IO!Calls, IO!Select, IO!SimpleRecv, IO!SimpleSend, IO!Enlist, IO!Count, IO!Rescan, IO!Wake
<1>2. CASE IO!Reader \/ IO!TimedOut
  BY <1>2 DEF IO!Reader, IO!Enter, IO!Take, IO!Copy, IO!TimedOut
<1>3. CASE IO!Tcpip
  <2>1. CASE IO!Fin \/ IO!Recved \/ IO!DoWrite \/ IO!GetSockOpt \/ IO!Again
    BY <2>1 DEF Writing, IO!Fin, IO!Recved, IO!DoWrite, IO!GetSockOpt, IO!Again
  <2>2. CASE IO!Load \/ IO!Store \/ IO!Scan \/ IO!Signal \/ IO!Then
    BY <2>2 DEF IO!Load, IO!Store, IO!Scan, IO!Signal, IO!Then, IO!Callback
  <2> QED
    BY <1>3, <2>1, <2>2 DEF IO!Tcpip
<1>4. CASE IO!Network
  BY <1>4 DEF IO!Network, Writing, IO!SentTcp, IO!PollTcp, IO!RecvTcp, IO!GotFin, IO!ErrTcp
<1>5. CASE IO!SocketClose
  BY <1>5 DEF IO!SocketClose
<1> QED
  BY <1>1, <1>2, <1>3, <1>4, <1>5 DEF IONext

\* What returns to the caller, or fails.
LEMMA ResultType ==
  ASSUME task \in TaskType
  PROVE  /\ \A r \in Int : IO!Returns(r) \in TaskType
         /\ \A e \in Errors : IO!Failed(e) \in TaskType /\ IO!NoData(e) \in TaskType
         /\ \A n \in Nat : IO!Wrote(n) \in TaskType
<1>1. \A r \in Int : IO!Returns(r) \in TaskType
  BY DEF IO!Returns, TaskType, Places, Errors
<1>2. \A e \in Errors : IO!Failed(e) \in TaskType
  BY DEF IO!Failed, TaskType, Places, Errors
<1>3. \A e \in Errors : IO!NoData(e) \in TaskType
  <2> TAKE e \in Errors
  <2>1. task.off \in Int
    BY DEF TaskType
  <2>2. IO!Returns(task.off) \in TaskType /\ IO!Returns(0) \in TaskType
    BY <1>1, <2>1
  <2>3. [task EXCEPT !.pc = "recved"] \in TaskType
    BY DEF TaskType, Places
  <2>4. [task EXCEPT !.pc = "sockopt", !.errno = e] \in TaskType
    BY DEF TaskType, Places
  <2> QED
    BY <2>2, <2>3, <2>4 DEF IO!NoData
<1>4. \A n \in Nat : IO!Wrote(n) \in TaskType
  <2> TAKE n \in Nat
  <2>0. n \in Int
    OBVIOUS
  <2>1. IO!Returns(n) \in TaskType /\ task.count + n \in Nat
    <3>1. task.count + n \in Nat
      BY DEF TaskType
    <3> QED
      BY <1>1, <2>0, <3>1
  <2>2. [task EXCEPT !.count = task.count + n, !.pc = "write"] \in TaskType
    BY <2>1 DEF TaskType, Places
  <2> QED
    BY <2>1, <2>2 DEF IO!Wrote
<1> QED
  BY <1>1, <1>2, <1>3, <1>4

\* A window that is opened by n.
LEMMA OpenedType ==
  ASSUME pcb \in PcbType, NEW n \in Nat
  PROVE  /\ IO!Opened(n) \in PcbType
         /\ \A f \in {"open", "buf", "refused", "fin"} : IO!Opened(n)[f] = pcb[f]
         /\ IO!Opened(n).wnd = IF pcb.open THEN IO!Least(Wnd, pcb.wnd + n) ELSE pcb.wnd
<1>1. IO!Least(Wnd, pcb.wnd + n) \in 0..Wnd
  BY Sizes DEF PcbType, IO!Least
<1>2. pcb.wnd \in 0..Wnd
  BY DEF PcbType
<1> QED
  BY <1>1, <1>2 DEF PcbType, IO!Opened

\* The task keeps its type.
LEMMA TaskTyped == ASSUME IOTypes, IONext PROVE task' \in TaskType
<1>0. task \in TaskType
  BY DEF IOTypes
<1>1. CASE IO!SimpleRecv
  <2>1. PICK n \in 1..MaxLength :
          task' = [task EXCEPT !.pc = "top", !.call = "recv", !.left = n]
    BY <1>1 DEF IO!SimpleRecv
  <2>2. n \in Nat
    BY Sizes
  <2> QED
    BY <1>0, <2>1, <2>2 DEF TaskType, Places
<1>2. CASE IO!SimpleSend
  BY <1>0, <1>2 DEF IO!SimpleSend, TaskType, Places
<1>3. CASE IO!Enter \/ IO!TimedOut
  <2>1. nc.err \in Errors /\ "WOULDBLOCK" \in Errors
    BY DEF IOTypes, NcType, Errors
  <2>2. [task EXCEPT !.pc = "wait"] \in TaskType
    BY <1>0 DEF TaskType, Places
  <2> QED
    BY <1>0, <1>3, <2>1, <2>2, ResultType DEF IO!Enter, IO!TimedOut
<1>4. CASE IO!Take
  BY <1>0, <1>4 DEF IO!Take, TaskType, Places
<1>5. CASE IO!Fin
  BY <1>0, <1>5, ResultType, "CLSD" \in Errors DEF IO!Fin, Errors
<1>6. CASE IO!Copy
  <2> DEFINE rest == Len(sock.last.data) - sock.offset
             n == IO!Least(task.left, rest)
  <2>1. sock.last # IO!None /\ sock.last \in Pbuf /\ rest \in Nat /\ task.left \in Nat
    BY <1>0, <1>6 DEF IO!Copy, IOTypes, SockType, Kept, LastOK, Pbuf, Data, TaskType
  <2>2. task.left - n \in Nat /\ n \in Nat
    BY <2>1 DEF IO!Least
  <2>3. PICK p \in {"recved", "top"} :
          task' = [task EXCEPT !.left = task.left - n, !.off = @ + n, !.pc = p]
    BY <1>6 DEF IO!Copy
  <2> HIDE DEF n
  <2>4. task.off + n \in Nat /\ p \in Places
    BY <1>0, <2>2 DEF TaskType, Places
  <2> QED
    BY <1>0, <2>2, <2>3, <2>4 DEF TaskType
<1>7. CASE IO!Recved
  BY <1>0, <1>7, ResultType DEF IO!Recved, TaskType
<1>8. CASE Writing
  <2>1. nc.err \in Errors /\ nc.offset \in Nat /\ SendLength \in Nat /\ "WOULDBLOCK" \in Errors
    BY Sizes DEF IOTypes, NcType, Errors
  <2>2. [task EXCEPT !.pc = "blocked"] \in TaskType
    BY <1>0 DEF TaskType, Places
  <2>3. ASSUME NEW n, NEW p, IO!WriteMore(n, p), n.offset \in Nat
        PROVE  task' \in TaskType
    BY <1>0, <2>1, <2>2, <2>3, ResultType DEF IO!WriteMore, IO!TimeUp, IO!WriteSome
  <2>4. CASE IO!DoWrite
    <3>1. [nc EXCEPT !.writing = TRUE, !.offset = 0].offset \in Nat
      BY DEF IOTypes, NcType
    <3> QED
      BY <1>0, <2>1, <2>3, <2>4, <3>1, ResultType DEF IO!DoWrite
  <2>5. CASE IO!SentTcp \/ IO!PollTcp
    BY <1>0, <2>1, <2>3, <2>5 DEF IO!SentTcp, IO!PollTcp
  <2> QED
    BY <1>8, <2>4, <2>5 DEF Writing
<1>9. CASE IO!GetSockOpt
  <2>1. -1 \in Int
    OBVIOUS
  <2>2. IO!Returns(-1) \in TaskType
    BY <1>0, <2>1, ResultType
  <2>3. PICK p \in {"write", "top"} :
          task' = IF task.errno # "WOULDBLOCK" THEN IO!Returns(-1)
                  ELSE [task EXCEPT !.errno = "OK", !.pc = p]
    BY <1>9 DEF IO!GetSockOpt
  <2>4. [task EXCEPT !.errno = "OK", !.pc = p] \in TaskType
    BY <1>0 DEF TaskType, Places, Errors
  <2> QED
    BY <2>2, <2>3, <2>4
<1>10. CASE IO!Then
  BY <1>0, <1>10, ResultType, "RST" \in Errors DEF IO!Then, Errors
<1>11. CASE IO!SocketClose
  BY <1>0, <1>11 DEF IO!SocketClose, TaskType, Places
<1> QED
  BY <1>0, <1>1, <1>2, <1>3, <1>4, <1>5, <1>6, <1>7, <1>8, <1>9, <1>10, <1>11, Changes

\* A copy of n of the bytes that are left in lastdata.
LEMMA KeepType ==
  ASSUME sock \in SockType, NEW n \in Nat, NEW rest \in Nat,
         rest = Len(sock.last.data) - sock.offset, n <= rest, sock.last # IO!None
  PROVE  LET s == IO!Keep(n, rest)
         IN /\ s \in SockType /\ s.rcvevent = sock.rcvevent /\ s.waiting = sock.waiting
            /\ IF n = rest THEN s.last = IO!None /\ s.offset = 0
               ELSE s.last = sock.last /\ s.offset = sock.offset + n
<1>1. sock.offset + n \in Nat
  BY DEF SockType
<1> QED
  BY <1>1 DEF SockType, Kept, IO!Keep

\* Where a write leaves the task.
LEMMA WriteTask ==
  ASSUME task \in TaskType, Writing
  PROVE  task' = task \/ task'.pc \in {"idle", "write", "blocked", "sockopt"}
<1>1. \A r : IO!Returns(r).pc = "idle"
  BY DEF IO!Returns, TaskType
<1>2. \A e : IO!Failed(e).pc = "sockopt"
  BY DEF IO!Failed, TaskType
<1>3. \A n : IO!Wrote(n).pc \in {"idle", "write"}
  BY <1>1 DEF IO!Wrote, TaskType
<1>4. [task EXCEPT !.pc = "blocked"].pc = "blocked"
  BY DEF TaskType
<1>5. ASSUME NEW n, NEW p, IO!WriteMore(n, p)
      PROVE  task'.pc \in {"idle", "write", "blocked", "sockopt"}
  <2>1. CASE IO!TimeUp(n, p)
    BY <1>2, <1>3, <2>1 DEF IO!TimeUp
  <2>2. CASE IO!WriteSome(n, p)
    <3>1. \/ task' = IO!Wrote(SendLength)
          \/ task' = [task EXCEPT !.pc = "blocked"]
      BY <2>2 DEF IO!WriteSome
    <3> QED
      BY <1>3, <1>4, <3>1
  <2> QED
    BY <1>5, <2>1, <2>2 DEF IO!WriteMore
<1> QED
  BY <1>2, <1>5 DEF Writing, IO!DoWrite, IO!SentTcp, IO!PollTcp

\* The socket keeps its type, and no more of lastdata is read than there is.
LEMMA SockTyped ==
  ASSUME IOTypes, IONext
  PROVE  sock' \in SockType /\ LastOK' /\ (task.pc = "wait" => sock.last = IO!None)'
<1>0. sock \in SockType /\ LastOK /\ (task.pc = "wait" => sock.last = IO!None)
  BY DEF IOTypes
<1>m. nc.mbox \in Seq(Messages) /\ task \in TaskType
  BY DEF IOTypes, NcType
<1>1. CASE IO!Take
  <2>1. Head(nc.mbox) \in Messages
    BY <1>1, <1>m DEF IO!Take
  <2>2. CASE Head(nc.mbox) = IO!Null
    BY <1>0, <1>1, <1>m, <2>2 DEF IO!Take, LastOK, TaskType
  <2>3. CASE Head(nc.mbox) # IO!Null
    <3>0. PICK m \in Pbuf : m = Head(nc.mbox)
      BY <2>1, <2>3 DEF Messages
    <3>1. task'.pc = "top" /\ sock' = [sock EXCEPT !.rcvevent = @ - 1, !.last = m]
      BY <1>1, <1>m, <2>3, <3>0 DEF IO!Take, TaskType
    <3>2. sock.offset = 0 /\ sock.rcvevent - 1 \in Int
      BY <1>0, <1>1 DEF IO!Take, LastOK, SockType
    <3>3. sock' \in SockType /\ sock'.last = m /\ sock'.offset = 0
      BY <1>0, <3>1, <3>2 DEF SockType, Kept
    <3>4. Len(m.data) \in Nat /\ Len(m.data) >= 1 /\ m # IO!None
      BY NotPbufs DEF Pbuf, Data
    <3> QED
      BY <3>1, <3>3, <3>4 DEF LastOK
  <2> QED
    BY <2>2, <2>3
<1>2. CASE IO!Fin
  <2>1. task'.pc # "wait"
    BY <1>2, <1>m DEF IO!Fin, IO!NoData, IO!Returns, TaskType
  <2> QED
    BY <1>0, <1>2, <2>1 DEF IO!Fin, SockType, LastOK
<1>3. CASE IO!Copy
  <2> DEFINE rest == Len(sock.last.data) - sock.offset
             n == IO!Least(task.left, rest)
  <2>1. sock.last # IO!None /\ sock.last \in Pbuf /\ rest \in Nat /\ task.left \in Nat
    BY <1>0, <1>3, <1>m DEF IO!Copy, SockType, Kept, LastOK, Pbuf, Data, TaskType
  <2>2. n \in Nat /\ n <= rest
    BY <2>1 DEF IO!Least
  <2>3. sock' = IO!Keep(n, rest) /\ task'.pc # "wait"
    BY <1>3, <1>m DEF IO!Copy, TaskType
  <2>4. PICK k \in Nat, r \in Nat : k = n /\ r = rest
    BY <2>1, <2>2
  <2>5. /\ sock' \in SockType
        /\ IF k = r THEN sock'.last = IO!None /\ sock'.offset = 0
           ELSE sock'.last = sock.last /\ sock'.offset = sock.offset + k
    <3> HIDE DEF n, rest
    <3>1. k <= r /\ sock' = IO!Keep(k, r)
      BY <2>2, <2>3, <2>4
    <3>2. r = Len(sock.last.data) - sock.offset
      BY <2>4 DEF rest
    <3> QED
      BY <1>0, <2>1, <3>1, <3>2, KeepType
  <2>6. sock.offset \in Nat /\ Len(sock.last.data) \in Nat
    BY <1>0, <2>1 DEF SockType, Pbuf, Data
  <2>7. k < r => sock.offset + k < Len(sock.last.data)
    BY <2>4, <2>6
  <2> QED
    BY <2>1, <2>2, <2>3, <2>4, <2>5, <2>7 DEF LastOK
<1>4. CASE IO!Store
  BY <1>0, <1>4 DEF IO!Store, IO!Callback, SockType, LastOK, IOTypes, CbType
<1>5. CASE IO!Count
  BY <1>0, <1>5 DEF IO!Count, SockType, LastOK
<1>6. CASE IO!Rescan \/ IO!Wake
  <2>1. [sock EXCEPT !.waiting = @ - 1] \in SockType
    BY <1>0 DEF SockType
  <2> QED
    BY <1>0, <1>6, <2>1 DEF IO!Rescan, IO!Wake, IO!Leaves, SockType, LastOK
<1>7. CASE IO!SocketClose
  BY <1>0, <1>7 DEF IO!SocketClose, SockType, LastOK, Kept
<1>8. ASSUME sock' = sock PROVE (task.pc = "wait" => sock.last = IO!None)'
  <2>1. task'.pc = "wait" => task.pc = "wait" \/ IO!Enter
    <3>1. CASE IO!SimpleRecv \/ IO!SimpleSend \/ IO!TimedOut \/ IO!Recved \/ IO!GetSockOpt
      BY <1>m, <3>1 DEF TaskType, IO!SimpleRecv, IO!SimpleSend, IO!TimedOut, IO!NoData, IO!Returns,
         IO!Recved, IO!GetSockOpt
    <3>2. CASE Writing
      BY <1>m, <3>2, WriteTask
    <3>3. CASE IO!Then
      BY <1>m, <3>3 DEF TaskType, IO!Then, IO!Failed
    <3>4. CASE IO!Take \/ IO!Fin \/ IO!Copy \/ IO!SocketClose
      BY <1>m, <3>4 DEF TaskType, IO!Take, IO!Fin, IO!Copy, IO!SocketClose, IO!NoData, IO!Returns
    <3> QED
      BY <3>1, <3>2, <3>3, <3>4, Changes
  <2>2. IO!Enter => sock.last = IO!None
    BY DEF IO!Enter
  <2> QED
    BY <1>0, <1>8, <2>1, <2>2
<1>9. CASE sock' = sock
  BY <1>0, <1>8, <1>9 DEF LastOK
<1> QED
  BY <1>1, <1>2, <1>3, <1>4, <1>5, <1>6, <1>7, <1>9, Changes

\* What a write does to the netconn, the pcb and what was seen.
LEMMA WriteKeeps ==
  ASSUME IOTypes, Writing
  PROVE  /\ nc' \in NcType /\ nc'.mbox = nc.mbox /\ nc'.err = nc.err
         /\ pcb' \in PcbType /\ seen' \in SeenType
         /\ \A f \in {"open", "wnd", "refused", "fin"} : pcb'[f] = pcb[f]
         /\ \A f \in {"arrived", "got", "fin", "torn"} : seen'[f] = seen[f]
         /\ sock' = sock /\ cb' = cb /\ sel' = sel
<1>0. nc \in NcType /\ pcb \in PcbType /\ seen \in SeenType
  BY DEF IOTypes
<1> DEFINE P == /\ nc' \in NcType /\ nc'.mbox = nc.mbox /\ nc'.err = nc.err
                /\ pcb' \in PcbType /\ seen' \in SeenType
                /\ \A f \in {"open", "wnd", "refused", "fin"} : pcb'[f] = pcb[f]
                /\ \A f \in {"arrived", "got", "fin", "torn"} : seen'[f] = seen[f]
<1>1. ASSUME NEW n \in NcType, NEW p \in PcbType, IO!WriteMore(n, p),
             n.mbox = nc.mbox, n.err = nc.err,
             \A f \in {"open", "wnd", "refused", "fin"} : p[f] = pcb[f]
      PROVE  P
  <2>1. CASE IO!TimeUp(n, p)
    <3>1. nc' = [n EXCEPT !.writing = FALSE] /\ pcb' = p
      BY <2>1 DEF IO!TimeUp
    <3>2. nc' \in NcType /\ nc'.mbox = nc.mbox /\ nc'.err = nc.err
      BY <1>1, <3>1 DEF NcType
    <3>3. PICK q \in BOOLEAN : seen' = [seen EXCEPT !.partial = q]
      BY <1>0, <2>1 DEF IO!TimeUp, SeenType
    <3>4. seen' \in SeenType /\ \A f \in {"arrived", "got", "fin", "torn"} : seen'[f] = seen[f]
      BY <1>0, <3>3 DEF SeenType
    <3> QED
      BY <1>1, <3>1, <3>2, <3>4
  <2>2. CASE nc' = n /\ pcb' = p /\ UNCHANGED seen
    BY <1>0, <1>1, <2>2
  <2>3. CASE ~IO!TimeUp(n, p) /\ ~(nc' = n /\ pcb' = p /\ UNCHANGED seen)
    <3> DEFINE len == IO!Least(p.buf, SendLength - n.offset)
               all == n.offset + len = SendLength
    <3>1. /\ nc' = [n EXCEPT !.writing = ~all, !.offset = IF all THEN 0 ELSE @ + len]
          /\ pcb' = [p EXCEPT !.buf = @ - len]
          /\ seen' = [seen EXCEPT !.out = @ \o IO!From(n.offset + 1, len)]
      BY <1>1, <2>3 DEF IO!WriteMore, IO!WriteSome
    <3>2. n.offset \in 0..SendLength /\ p.buf \in 0..SndBuf
      BY DEF NcType, PcbType
    <3>3. len \in Nat /\ len <= p.buf /\ n.offset + len <= SendLength
      BY <3>2, Sizes DEF IO!Least
    <3>4. PICK k \in Nat : k = len
      BY <3>3
    <3>5. nc' \in NcType /\ nc'.mbox = nc.mbox /\ nc'.err = nc.err
      <4>1. PICK w \in BOOLEAN, o \in 0..SendLength : nc' = [n EXCEPT !.writing = w, !.offset = o]
        <5>1. (IF all THEN 0 ELSE n.offset + len) \in 0..SendLength /\ (~all) \in BOOLEAN
          BY <3>2, <3>3, Sizes
        <5> HIDE DEF all, len
        <5> QED
          BY <3>1, <5>1
      <4> QED
        BY <1>1, <4>1 DEF NcType
    <3>6. pcb' \in PcbType /\ \A f \in {"open", "wnd", "refused", "fin"} : pcb'[f] = pcb[f]
      <4>1. p.buf - len \in 0..SndBuf
        BY <3>2, <3>3, Sizes
      <4>2. PICK b \in 0..SndBuf : pcb' = [p EXCEPT !.buf = b]
        BY <3>1, <4>1
      <4> QED
        BY <1>1, <4>2 DEF PcbType
    <3>7. seen' \in SeenType /\ \A f \in {"arrived", "got", "fin", "torn"} : seen'[f] = seen[f]
      <4>1. IO!From(n.offset + 1, k) \in Seq(Nat)
        <5>1. n.offset + 1 \in Nat /\ n.offset + 1 >= 1
          BY <3>2, Sizes
        <5>2. IO!From(n.offset + 1, k) \in Seq(Nat \ {0})
          BY <5>1, FromIs
        <5> QED
          BY <5>2, SeqMonotonic, Nat \ {0} \subseteq Nat
      <4>2. seen.out \in Seq(Nat)
        BY <1>0 DEF SeenType
      <4>3. PICK o \in Seq(Nat) : seen' = [seen EXCEPT !.out = o]
        BY <3>1, <3>4, <4>1, <4>2, ConcatProperties
      <4> QED
        BY <1>0, <4>3 DEF SeenType
    <3> QED
      BY <3>5, <3>6, <3>7
  <2> QED
    BY <2>1, <2>2, <2>3
<1>2. ASSUME IO!DoWrite PROVE P
  <2>1. PICK n : n = [nc EXCEPT !.writing = TRUE, !.offset = 0]
    OBVIOUS
  <2>0. 0 \in 0..SendLength
    BY Sizes
  <2>2. n \in NcType /\ n.mbox = nc.mbox /\ n.err = nc.err
    BY <1>0, <2>0, <2>1 DEF NcType
  <2>3. UNCHANGED <<nc, pcb, seen>> \/ IO!WriteMore(n, pcb)
    BY <1>2, <2>1 DEF IO!DoWrite
  <2> QED
    BY <1>0, <1>1, <1>2, <2>2, <2>3 DEF IO!DoWrite
<1>3. ASSUME IO!SentTcp PROVE P
  <2>1. PICK n \in 1..(SndBuf - pcb.buf) :
          LET p == [pcb EXCEPT !.buf = @ + n]
          IN IF nc.writing THEN IO!WriteMore(nc, p) ELSE pcb' = p /\ UNCHANGED <<task, nc, seen>>
    BY <1>3 DEF IO!SentTcp
  <2>2. pcb.buf \in 0..SndBuf
    BY <1>0 DEF PcbType
  <2>3. pcb.buf + n \in 0..SndBuf
    BY <2>2, Sizes
  <2>4. PICK p : p = [pcb EXCEPT !.buf = @ + n]
    OBVIOUS
  <2>5. p \in PcbType /\ \A f \in {"open", "wnd", "refused", "fin"} : p[f] = pcb[f]
    BY <1>0, <2>3, <2>4 DEF PcbType
  <2> QED
    <3>1. CASE nc.writing
      <4>1. IO!WriteMore(nc, p)
        BY <2>1, <2>4, <3>1
      <4> QED
        BY <1>0, <1>1, <2>5, <4>1
    <3>2. CASE ~nc.writing
      <4>1. pcb' = p /\ UNCHANGED <<task, nc, seen>>
        BY <2>1, <2>4, <3>2
      <4> QED
        BY <1>0, <2>5, <4>1
    <3> QED
      BY <3>1, <3>2
<1>4. ASSUME IO!PollTcp PROVE P
  BY <1>0, <1>1, <1>4 DEF IO!PollTcp
<1> QED
  <2>1. P
    BY <1>2, <1>3, <1>4 DEF Writing
  <2>2. sock' = sock /\ cb' = cb /\ sel' = sel
    BY DEF Writing, IO!DoWrite, IO!SentTcp, IO!PollTcp
  <2> QED
    BY <2>1, <2>2

\* The data that may arrive.
LEMMA Arriving ==
  ASSUME IOTypes,
         NEW n \in 1..IO!Least(MaxPbuf, IO!Least(pcb.wnd, Bytes - seen.arrived)), NEW push \in BOOLEAN
  PROVE  /\ n \in Nat /\ n >= 1 /\ pcb.wnd - n \in 0..Wnd
         /\ [data |-> IO!From(seen.arrived + 1, n), push |-> push] \in Pbuf
<1>1. pcb.wnd \in Nat /\ pcb.wnd <= Wnd /\ seen.arrived \in Nat
  BY Sizes DEF IOTypes, PcbType, SeenType
<1>2. n \in Nat /\ n >= 1 /\ n <= MaxPbuf /\ n <= pcb.wnd
  BY <1>1, Sizes DEF IO!Least
<1>3. seen.arrived + 1 \in Nat /\ seen.arrived + 1 >= 1
  BY <1>1
<1>4. IO!From(seen.arrived + 1, n) \in Data
  <2>1. PICK a \in Nat, k \in Nat : a = seen.arrived + 1 /\ k = n /\ a >= 1 /\ k \in 1..MaxPbuf
    BY <1>2, <1>3, Sizes
  <2>2. IO!From(a, k) \in Seq(Nat \ {0}) /\ Len(IO!From(a, k)) = k
    BY <2>1, FromIs
  <2> QED
    BY <2>1, <2>2 DEF Data
<1> QED
  BY <1>1, <1>2, <1>4, Sizes DEF Pbuf

\* What a copy takes from lastdata.
LEMMA CopyIs ==
  ASSUME IOTypes, IO!Copy
  PROVE  LET rest == Len(sock.last.data) - sock.offset
             n == IO!Least(task.left, rest)
         IN /\ sock.last \in Pbuf /\ sock.last.data \in Seq(Nat) /\ Len(sock.last.data) \in Nat
            /\ sock.offset \in Nat /\ rest \in Nat /\ rest >= 1 /\ n \in Nat /\ n <= rest
            /\ n <= task.left /\ task.left \in Nat
            /\ SubSeq(sock.last.data, sock.offset + 1, sock.offset + n) \in Seq(Nat)
            /\ Len(SubSeq(sock.last.data, sock.offset + 1, sock.offset + n)) = n
<1> DEFINE rest == Len(sock.last.data) - sock.offset
           n == IO!Least(task.left, rest)
<1>1. /\ sock.last \in Pbuf /\ sock.offset \in Nat /\ rest \in Nat /\ rest >= 1
      /\ task.left \in Nat
  BY DEF IOTypes, TaskType, SockType, Kept, LastOK, Pbuf, Data, IO!Copy
<1>2. PICK d \in Seq(Nat) : d = sock.last.data
  <2>1. sock.last.data \in Seq(Nat \ {0})
    BY <1>1 DEF Pbuf, Data
  <2> QED
    BY <2>1, SeqMonotonic, Nat \ {0} \subseteq Nat
<1>3. n \in Nat /\ n <= rest /\ n <= task.left
  BY <1>1 DEF IO!Least
<1>4. PICK o \in Nat, k \in Nat : o = sock.offset /\ k = n
  BY <1>1, <1>3
<1>5. Len(d) \in Nat /\ o + k <= Len(d)
  BY <1>1, <1>2, <1>3, <1>4
<1>6. \A i \in o + 1..o + k : d[i] \in Nat
  BY <1>5
<1>7. SubSeq(d, o + 1, o + k) \in Seq(Nat) /\ Len(SubSeq(d, o + 1, o + k)) = k
  BY <1>6, SubSeqProperties
<1> QED
  BY <1>1, <1>2, <1>3, <1>4, <1>5, <1>7

\* A message at the end of recvmbox.
LEMMA PostType ==
  ASSUME nc \in NcType, NEW m \in Messages
  PROVE  LET c == [nc EXCEPT !.mbox = Append(@, m)]
         IN /\ c \in NcType /\ c.mbox = Append(nc.mbox, m) /\ Len(c.mbox) = Len(nc.mbox) + 1
            /\ c.err = nc.err /\ c.writing = nc.writing /\ c.offset = nc.offset
<1>1. nc.mbox \in Seq(Messages)
  BY DEF NcType
<1>2. PICK q : q = Append(nc.mbox, m)
  OBVIOUS
<1>3. q \in Seq(Messages) /\ Len(q) = Len(nc.mbox) + 1
  BY <1>1, <1>2, AppendProperties
<1>4. [nc EXCEPT !.mbox = q] \in NcType
  BY <1>3 DEF NcType
<1> QED
  BY <1>2, <1>3, <1>4 DEF NcType

\* A first message that is fetched.
LEMMA TakeType ==
  ASSUME nc \in NcType, nc.mbox # <<>>
  PROVE  LET c == [nc EXCEPT !.mbox = Tail(@)]
         IN /\ c \in NcType /\ c.mbox = Tail(nc.mbox) /\ Len(c.mbox) = Len(nc.mbox) - 1
            /\ Head(nc.mbox) \in Messages /\ Len(nc.mbox) >= 1
            /\ c.err = nc.err /\ c.writing = nc.writing /\ c.offset = nc.offset
<1>1. nc.mbox \in Seq(Messages)
  BY DEF NcType
<1>2. PICK q : q = Tail(nc.mbox)
  OBVIOUS
<1>3. /\ q \in Seq(Messages) /\ Len(q) = Len(nc.mbox) - 1
      /\ Head(nc.mbox) \in Messages /\ Len(nc.mbox) >= 1
  BY <1>1, <1>2, HeadTailProperties, EmptySeq
<1>4. [nc EXCEPT !.mbox = q] \in NcType
  BY <1>3 DEF NcType
<1> QED
  BY <1>2, <1>3, <1>4 DEF NcType

\* What may be posted.
LEMMA Postable ==
  /\ IO!Null \in Messages
  /\ IOTypes /\ pcb.refused # IO!None => pcb.refused \in Messages
BY DEF Messages, Kept, IOTypes, PcbType

\* The netconn keeps its type, and recvmbox its size.
LEMMA NcTyped == ASSUME IOTypes, IONext PROVE nc' \in NcType /\ Len(nc'.mbox) <= MboxSize
<1>0. nc \in NcType /\ Len(nc.mbox) <= MboxSize /\ nc.mbox \in Seq(Messages)
  BY DEF IOTypes, NcType
<1>1. ASSUME NEW m \in Messages, IO!Room, nc' = [nc EXCEPT !.mbox = Append(@, m)]
      PROVE  nc' \in NcType /\ Len(nc'.mbox) <= MboxSize
  <2>1. nc' \in NcType /\ Len(nc'.mbox) = Len(nc.mbox) + 1
    BY <1>0, <1>1, PostType
  <2>2. Len(nc.mbox) \in Nat /\ Len(nc.mbox) < MboxSize
    BY <1>0, <1>1, LenProperties DEF IO!Room
  <2> QED
    BY <2>1, <2>2, Sizes
<1>2. CASE IO!Take
  BY <1>0, <1>2, TakeType, Sizes DEF IO!Take
<1>3. CASE IO!Fin
  BY <1>0, <1>3 DEF IO!Fin, NcType
<1>4. CASE Writing
  BY <1>0, <1>4, WriteKeeps
<1>5. CASE IO!RecvTcp
  <2>1. PICK n \in 1..IO!Least(MaxPbuf, IO!Least(pcb.wnd, Bytes - seen.arrived)), push \in BOOLEAN :
          LET p == [data |-> IO!From(seen.arrived + 1, n), push |-> push]
          IN IF IO!Room THEN nc' = [nc EXCEPT !.mbox = Append(@, p)] ELSE nc' = nc
    BY <1>5 DEF IO!RecvTcp, IO!Post
  <2>2. PICK p : p = [data |-> IO!From(seen.arrived + 1, n), push |-> push]
    OBVIOUS
  <2>3. p \in Messages
    BY <2>1, <2>2, Arriving DEF Messages
  <2> QED
    BY <1>0, <1>1, <2>1, <2>2, <2>3
<1>6. CASE IO!Again
  BY <1>0, <1>1, <1>6, Postable DEF IO!Again, IO!Post
<1>7. CASE IO!GotFin
  BY <1>0, <1>1, <1>7, Postable DEF IO!GotFin, IO!Post
<1>8. CASE IO!ErrTcp
  BY <1>0, <1>8 DEF IO!ErrTcp, NcType
<1>9. CASE IO!Then
  BY <1>0, <1>1, <1>9, Postable DEF IO!Then, IO!Post
<1>10. CASE IO!SocketClose
  <2>1. <<>> \in Seq(Messages) /\ Len(<<>>) = 0
    OBVIOUS
  <2>2. PICK q \in Seq(Messages) : nc' = [nc EXCEPT !.mbox = q] /\ Len(q) = 0
    BY <1>10, <2>1 DEF IO!SocketClose
  <2>3. nc' \in NcType /\ nc'.mbox = q
    BY <1>0, <2>2 DEF NcType
  <2> QED
    BY <2>2, <2>3, Sizes
<1> QED
  BY <1>0, <1>2, <1>3, <1>4, <1>5, <1>6, <1>7, <1>8, <1>9, <1>10, Changes

\* The pcb keeps its type: neither window grows over its size, or below 0.
LEMMA PcbTyped == ASSUME IOTypes, IONext PROVE pcb' \in PcbType
<1>0. pcb \in PcbType
  BY DEF IOTypes
<1>1. CASE IO!Fin
  BY <1>0, <1>1, OpenedType, 1 \in Nat DEF IO!Fin
<1>2. CASE IO!Recved
  BY <1>0, <1>2, OpenedType DEF IO!Recved, IOTypes, TaskType
<1>3. CASE Writing
  BY <1>3, WriteKeeps
<1>4. CASE IO!RecvTcp
  <2>1. PICK n \in 1..IO!Least(MaxPbuf, IO!Least(pcb.wnd, Bytes - seen.arrived)), push \in BOOLEAN :
          LET p == [data |-> IO!From(seen.arrived + 1, n), push |-> push]
          IN pcb' = [pcb EXCEPT !.wnd = @ - n] \/ pcb' = [pcb EXCEPT !.wnd = @ - n, !.refused = p]
    BY <1>4 DEF IO!RecvTcp
  <2>2. PICK p : p = [data |-> IO!From(seen.arrived + 1, n), push |-> push]
    OBVIOUS
  <2>3. p \in Kept /\ pcb.wnd - n \in 0..Wnd
    BY <2>1, <2>2, Arriving DEF Kept
  <2>4. PICK w \in 0..Wnd : w = pcb.wnd - n
    BY <2>3
  <2>5. pcb' = [pcb EXCEPT !.wnd = w] \/ pcb' = [pcb EXCEPT !.wnd = w, !.refused = p]
    BY <2>1, <2>2, <2>4
  <2> QED
    BY <1>0, <2>3, <2>5 DEF PcbType
<1>5. CASE IO!Again \/ IO!GotFin \/ IO!ErrTcp \/ IO!SocketClose
  BY <1>0, <1>5 DEF IO!Again, IO!GotFin, IO!ErrTcp, IO!SocketClose, PcbType, Kept
<1> QED
  BY <1>0, <1>1, <1>2, <1>3, <1>4, <1>5, Changes

\* event_callback keeps its type.
LEMMA CbTyped == ASSUME IOTypes, IONext PROVE cb' \in CbType
<1>0. cb \in CbType /\ sock.rcvevent \in Int
  BY DEF IOTypes, SockType
<1>1. \A th \in {"none", "fin", "reset"} : IO!Plus(th) => cb' \in CbType
  BY <1>0 DEF IO!Plus, CbType
<1>2. CASE IO!RecvTcp \/ IO!Again \/ IO!GotFin \/ IO!ErrTcp
  <2>1. cb' = cb \/ \E th \in {"none", "fin", "reset"} : IO!Plus(th)
    BY <1>2 DEF IO!RecvTcp, IO!Again, IO!GotFin, IO!ErrTcp, IO!Post
  <2> QED
    BY <1>0, <1>1, <2>1
<1>3. CASE IO!Load \/ IO!Store \/ IO!Scan \/ IO!Signal
  <2>1. CASE IO!Load
    BY <1>0, <2>1 DEF IO!Load, CbType
  <2>2. CASE IO!Store
    <3>1. cb' = [cb EXCEPT !.pc = "scan", !.n = 0] /\ 0 \in Int
      BY <2>2 DEF IO!Store
    <3> QED
      BY <1>0, <3>1 DEF CbType
  <2>3. CASE IO!Scan \/ IO!Signal
    <3>1. PICK q \in {"signal", "then"} : cb' = [cb EXCEPT !.pc = q]
      BY <2>3 DEF IO!Scan, IO!Signal
    <3> QED
      BY <1>0, <3>1 DEF CbType
  <2> QED
    BY <1>3, <2>1, <2>2, <2>3
<1>4. CASE IO!Then
  <2>1. IO!Plus("none") \/ cb' = [cb EXCEPT !.pc = "loop", !.then = "none"]
    BY <1>4 DEF IO!Then, IO!Post
  <2>2. [cb EXCEPT !.pc = "loop", !.then = "none"] \in CbType
    BY <1>0 DEF CbType
  <2> QED
    BY <1>1, <2>1, <2>2
<1> QED
  BY <1>0, <1>2, <1>3, <1>4, Changes

\* The task that selects keeps its type.
LEMMA SelTyped == ASSUME IOTypes, IONext PROVE sel' \in SelType
<1>0. sel \in SelType
  BY DEF IOTypes
<1>1. CASE IO!Enlist \/ IO!Count \/ IO!Rescan \/ IO!Wake \/ IO!Signal
  <2>1. \/ sel' \in SelType
        \/ sel' = [sel EXCEPT !.pc = "counted"]
        \/ sel' = [sel EXCEPT !.pc = "sleep"]
        \/ sel' = [sel EXCEPT !.signalled = TRUE, !.sem = 1]
    <3>1. \A q \in {"listed", "out"} : [pc |-> q, signalled |-> FALSE, sem |-> 0] \in SelType
      BY DEF SelType
    <3> QED
      BY <1>0, <1>1, <3>1 DEF IO!Enlist, IO!Count, IO!Rescan, IO!Wake, IO!Signal, IO!Leaves
  <2>2. /\ [sel EXCEPT !.pc = "counted"] \in SelType
        /\ [sel EXCEPT !.pc = "sleep"] \in SelType
        /\ [sel EXCEPT !.signalled = TRUE, !.sem = 1] \in SelType
    <3>1. 1 \in 0..1
      OBVIOUS
    <3> QED
      BY <1>0, <3>1 DEF SelType
  <2> QED
    BY <2>1, <2>2
<1> QED
  BY <1>0, <1>1, Changes

\* What went over the connection keeps its type.
LEMMA SeenTyped == ASSUME IOTypes, IONext PROVE seen' \in SeenType
<1>0. seen \in SeenType
  BY DEF IOTypes
<1>1. CASE IO!Copy
  <2>1. PICK r : seen' = [seen EXCEPT !.got = r] /\ r \in Seq(Nat)
    <3> DEFINE n == IO!Least(task.left, Len(sock.last.data) - sock.offset)
               r == SubSeq(sock.last.data, sock.offset + 1, sock.offset + n)
    <3>1. seen' = [seen EXCEPT !.got = @ \o r]
      BY <1>1 DEF IO!Copy
    <3>2. r \in Seq(Nat)
      BY <1>1, CopyIs
    <3>3. seen.got \in Seq(Nat)
      BY <1>0 DEF SeenType
    <3> HIDE DEF r
    <3>4. seen.got \o r \in Seq(Nat)
      BY <3>2, <3>3, ConcatProperties
    <3> QED
      BY <3>1, <3>4
  <2> QED
    BY <1>0, <2>1 DEF SeenType
<1>2. CASE IO!SimpleSend \/ IO!GotFin
  <2>1. <<>> \in Seq(Nat)
    OBVIOUS
  <2> QED
    BY <1>0, <1>2, <2>1 DEF IO!SimpleSend, IO!GotFin, SeenType
<1>3. CASE Writing
  BY <1>3, WriteKeeps
<1>4. CASE IO!RecvTcp
  <2>1. PICK n \in 1..IO!Least(MaxPbuf, IO!Least(pcb.wnd, Bytes - seen.arrived)) :
          seen' = [seen EXCEPT !.arrived = @ + n]
    BY <1>4 DEF IO!RecvTcp
  <2>2. n \in Nat /\ seen.arrived + n \in Nat
    BY <1>0, <2>1, Arriving DEF SeenType
  <2> QED
    BY <1>0, <2>1, <2>2 DEF SeenType
<1>5. CASE IO!Store
  <2>1. PICK q \in BOOLEAN : seen' = [seen EXCEPT !.torn = q]
    BY <1>0, <1>5 DEF IO!Store, SeenType
  <2> QED
    BY <1>0, <2>1 DEF SeenType
<1> QED
  BY <1>0, <1>1, <1>2, <1>3, <1>4, <1>5, Changes

\* Every step keeps the types.
LEMMA TypesStep == ASSUME IOTypes, IONext PROVE IOTypes'
BY TaskTyped, SockTyped, NcTyped, PcbTyped, CbTyped, SelTyped, SeenTyped DEF IOTypes

-----------------------------------------------------------------------------
(* rcvevent and lwip_select                                                *)

\* The messages in recvmbox, the NULL message whose count is yet to be taken off, and
\* the event of a reset, which comes before its message.
FetchedNull(t) == IF t = "fin" THEN 1 ELSE 0
Early(h) == IF h = "reset" THEN 1 ELSE 0
Owed == Len(nc.mbox) + FetchedNull(task.pc) + Early(cb.then)

\* rcvevent is never below what it counts, but for the event that is being counted.
Counted ==
  /\ cb.pc \in {"loop", "scan", "signal", "then"} => sock.rcvevent >= Owed
  /\ cb.pc = "load" => sock.rcvevent + 1 >= Owed
  /\ cb.pc = "store" => cb.n + 1 >= Owed
  /\ cb.pc = "loop" => cb.then = "none"

\* lwip_select sleeps when there was nothing, and is woken once.
Sleeping ==
  /\ sel.pc \in {"counted", "sleep"} => sock.waiting = 1
  /\ sel.pc \notin {"counted", "sleep"} => sock.waiting = 0
  /\ sel.signalled => sel.sem = 1
  /\ sel.pc = "sleep" /\ sel.sem = 0 /\ Owed > 0 => cb.pc \in {"load", "store", "scan", "signal"}

\* Data or a FIN: nothing yet, or a message is posted and event_callback called.
LEMMA Posts ==
  ASSUME IOTypes, IO!RecvTcp \/ IO!Again \/ IO!GotFin
  PROVE  \/ nc' = nc /\ cb' = cb
         \/ /\ Len(nc'.mbox) = Len(nc.mbox) + 1 /\ nc'.err = nc.err /\ nc'.mbox # <<>>
            /\ cb'.pc = "load" /\ cb'.then # "reset"
<1>0. nc \in NcType /\ cb \in CbType
  BY DEF IOTypes
<1>1. ASSUME NEW m, NEW h \in {"none", "fin"}, IO!Post(m, h)
      PROVE  /\ Len(nc'.mbox) = Len(nc.mbox) + 1 /\ nc'.err = nc.err /\ nc'.mbox # <<>>
             /\ cb'.pc = "load" /\ cb'.then # "reset"
  <2>1. cb'.pc = "load" /\ cb'.then = h
    BY <1>0, <1>1 DEF IO!Post, IO!Plus, CbType
  <2>2. nc'.mbox = Append(nc.mbox, m) /\ nc'.err = nc.err
    BY <1>0, <1>1 DEF IO!Post, NcType
  <2>3. nc.mbox \in Seq(Messages \cup {m})
    BY <1>0, SeqMonotonic, Messages \subseteq Messages \cup {m} DEF NcType
  <2>4. Len(nc'.mbox) = Len(nc.mbox) + 1 /\ nc'.mbox # <<>>
    BY <2>2, <2>3, AppendProperties
  <2> QED
    BY <2>1, <2>2, <2>4
<1> QED
  BY <1>1 DEF IO!RecvTcp, IO!Again, IO!GotFin

\* What follows a callback: the NULL message after refused data, or that of a reset.
LEMMA ThenPosts ==
  ASSUME IOTypes, IO!Then
  PROVE  \/ /\ Len(nc'.mbox) = Len(nc.mbox) + 1 /\ nc'.mbox # <<>> /\ nc'.err = nc.err
            /\ cb'.pc = "load" /\ cb'.then = "none" /\ cb.then = "fin"
         \/ /\ cb'.pc = "loop" /\ cb'.then = "none" /\ nc'.err = nc.err
            /\ \/ nc' = nc
               \/ cb.then = "reset" /\ Len(nc'.mbox) = Len(nc.mbox) + 1
<1>0. nc \in NcType /\ cb \in CbType
  BY DEF IOTypes
<1>1. CASE cb.then = "fin" /\ IO!Room
  <2>1. /\ nc' = [nc EXCEPT !.mbox = Append(@, IO!Null)]
        /\ cb' = [cb EXCEPT !.pc = "load", !.then = "none"]
    BY <1>1 DEF IO!Then, IO!Post, IO!Plus
  <2>2. cb'.pc = "load" /\ cb'.then = "none"
    BY <1>0, <2>1 DEF CbType
  <2>3. Len(nc'.mbox) = Len(nc.mbox) + 1 /\ nc'.err = nc.err /\ nc'.mbox # <<>>
    BY <1>0, <2>1, PostType, Postable, AppendProperties DEF NcType
  <2> QED
    BY <1>1, <2>2, <2>3
<1>2. CASE ~(cb.then = "fin" /\ IO!Room)
  <2>1. /\ cb' = [cb EXCEPT !.pc = "loop", !.then = "none"]
        /\ \/ nc' = nc
           \/ cb.then = "reset" /\ nc' = [nc EXCEPT !.mbox = Append(@, IO!Null)]
    BY <1>2 DEF IO!Then
  <2>2. cb'.pc = "loop" /\ cb'.then = "none"
    BY <1>0, <2>1 DEF CbType
  <2> QED
    BY <1>0, <2>1, <2>2, PostType, Postable
<1> QED
  BY <1>1, <1>2

\* The parts of what is owed are numbers.
LEMMA FetchedOne == \A t : /\ FetchedNull(t) \in 0..1
                           /\ IF t = "fin" THEN FetchedNull(t) = 1 ELSE FetchedNull(t) = 0
BY DEF FetchedNull

LEMMA EarlyOne == \A h : /\ Early(h) \in 0..1
                         /\ IF h = "reset" THEN Early(h) = 1 ELSE Early(h) = 0
BY DEF Early

\* What a step does to rcvevent and to what it owes.
Same(op) == sock'.rcvevent = sock.rcvevent /\ op
Quiet == Same(cb' = cb /\ Owed' <= Owed /\ (Owed' = Owed \/ Writing \/ task'.pc = "closed"))
Minus == sock'.rcvevent = sock.rcvevent - 1 /\ cb' = cb /\ Owed' = Owed - 1
Called == Same(cb.pc \in {"loop", "then"} /\ cb'.pc = "load" /\ Owed' = Owed + 1)
Loaded == Same(cb.pc = "load" /\ cb'.pc = "store" /\ cb'.n = sock.rcvevent /\ Owed' = Owed)
Stored == sock'.rcvevent = cb.n + 1 /\ cb.pc = "store" /\ cb'.pc = "scan" /\ Owed' = Owed
Looked == Same(cb.pc \in {"scan", "signal"} /\ cb'.pc \in {"signal", "then"} /\ Owed' = Owed)
Left == Same(/\ cb.pc = "then" /\ cb'.pc = "loop" /\ cb'.then = "none" /\ Owed' <= Owed
             /\ cb.then # "reset" => Owed' = Owed)

\* Every step is of one of these kinds.
LEMMA EventStep ==
  ASSUME IOTypes, Counted, IONext
  PROVE  Quiet \/ Minus \/ Called \/ Loaded \/ Stored \/ Looked \/ Left
<1>0. task \in TaskType /\ sock \in SockType /\ nc \in NcType /\ cb \in CbType
  BY DEF IOTypes
<1>i. sock.rcvevent \in Int /\ cb.n \in Int
  BY DEF IOTypes, SockType, CbType
<1> DEFINE k == Len(nc.mbox)
           f == FetchedNull(task.pc)
           e == Early(cb.then)
<1>n. k \in Nat /\ k' \in Nat
  BY TypesStep DEF IOTypes, NcType
<1>f. /\ f \in 0..1 /\ f' \in 0..1
      /\ task.pc = "fin" => f = 1
      /\ task.pc # "fin" => f = 0
      /\ task'.pc = "fin" => f' = 1
      /\ task'.pc # "fin" => f' = 0
  BY FetchedOne
<1>e. /\ e \in 0..1 /\ e' \in 0..1
      /\ cb.then = "reset" => e = 1
      /\ cb.then # "reset" => e = 0
      /\ cb'.then = "reset" => e' = 1
      /\ cb'.then # "reset" => e' = 0
  BY EarlyOne
<1>p. /\ k \in Nat /\ f \in 0..1 /\ e \in 0..1 /\ Owed = k + f + e /\ Owed \in Nat
      /\ k' \in Nat /\ f' \in 0..1 /\ e' \in 0..1 /\ Owed' = k' + f' + e' /\ Owed' \in Nat
  BY <1>n, <1>f, <1>e DEF Owed
<1>1. CASE IO!Take
  <2>1. Len(nc'.mbox) = Len(nc.mbox) - 1
    BY <1>0, <1>1, TakeType DEF IO!Take
  <2>2. CASE Head(nc.mbox) = IO!Null
    <3>1. task'.pc = "fin" /\ task.pc = "wait" /\ sock' = sock /\ cb' = cb
      BY <1>0, <1>1, <2>2 DEF IO!Take, TaskType
    <3>2. f = 0 /\ f' = 1 /\ e' = e
      BY <1>f, <3>1
    <3> QED
      BY <1>p, <2>1, <3>1, <3>2 DEF Quiet, Same
  <2>3. CASE Head(nc.mbox) # IO!Null
    <3>1. task'.pc = "top" /\ task.pc = "wait" /\ sock'.rcvevent = sock.rcvevent - 1 /\ cb' = cb
      BY <1>0, <1>1, <2>3 DEF IO!Take, TaskType, SockType
    <3>2. f = 0 /\ f' = 0 /\ e' = e
      BY <1>f, <3>1
    <3> QED
      BY <1>p, <2>1, <3>1, <3>2 DEF Minus
  <2> QED
    BY <2>2, <2>3
<1>2. CASE IO!Fin
  <2>1. /\ task'.pc # "fin" /\ task.pc = "fin" /\ sock'.rcvevent = sock.rcvevent - 1
        /\ cb' = cb /\ nc'.mbox = nc.mbox
    BY <1>0, <1>2 DEF IO!Fin, IO!NoData, IO!Returns, TaskType, SockType, NcType
  <2>2. f = 1 /\ f' = 0 /\ e' = e /\ k' = k
    BY <1>f, <2>1
  <2> QED
    BY <1>p, <2>1, <2>2 DEF Minus
<1>3. CASE IO!Copy
  <2>1. sock'.rcvevent = sock.rcvevent
    BY <1>0, <1>3, CopyIs, KeepType DEF IO!Copy
  <2>2. task'.pc \in {"recved", "top"} /\ task.pc = "top" /\ cb' = cb /\ nc' = nc
    BY <1>0, <1>3 DEF IO!Copy, TaskType
  <2>3. f = 0 /\ f' = 0 /\ e' = e /\ k' = k
    BY <1>f, <2>2
  <2> QED
    BY <1>p, <2>1, <2>2, <2>3 DEF Quiet, Same
<1>4. CASE IO!RecvTcp \/ IO!Again \/ IO!GotFin
  <2>1. sock' = sock /\ task' = task /\ cb.pc = "loop" /\ cb.then = "none"
    BY <1>4 DEF IO!RecvTcp, IO!Again, IO!GotFin, IO!Loop, Counted
  <2>2. \/ nc' = nc /\ cb' = cb
        \/ Len(nc'.mbox) = Len(nc.mbox) + 1 /\ cb'.pc = "load" /\ cb'.then # "reset"
    BY <1>0, <1>4, Posts
  <2>3. CASE nc' = nc /\ cb' = cb
    <3>1. Owed' = Owed
      BY <2>1, <2>3 DEF Owed
    <3> QED
      BY <1>p, <2>1, <2>3, <3>1 DEF Quiet, Same
  <2>4. CASE Len(nc'.mbox) = Len(nc.mbox) + 1 /\ cb'.pc = "load" /\ cb'.then # "reset"
    <3>1. k' = k + 1 /\ f' = f /\ e' = 0 /\ e = 0
      BY <1>e, <2>1, <2>4
    <3> QED
      BY <1>p, <2>1, <2>4, <3>1 DEF Called, Same
  <2> QED
    BY <2>2, <2>3, <2>4
<1>5. CASE IO!ErrTcp
  <2>1. /\ sock' = sock /\ task' = task /\ cb.pc = "loop" /\ cb.then = "none" /\ nc'.mbox = nc.mbox
        /\ cb'.pc = "load" /\ cb'.then = "reset"
    BY <1>0, <1>5 DEF IO!ErrTcp, IO!Loop, IO!Plus, NcType, CbType, Counted
  <2>2. k' = k /\ f' = f /\ e' = 1 /\ e = 0
    BY <1>e, <2>1
  <2> QED
    BY <1>p, <2>1, <2>2 DEF Called, Same
<1>6. CASE IO!Load
  <2>1. /\ sock' = sock /\ task' = task /\ nc' = nc /\ cb.pc = "load" /\ cb'.pc = "store"
        /\ cb'.n = sock.rcvevent /\ cb'.then = cb.then
    BY <1>0, <1>6 DEF IO!Load, IO!Callback, CbType
  <2>2. Owed' = Owed
    BY <2>1 DEF Owed
  <2> QED
    BY <2>1, <2>2 DEF Loaded, Same
<1>7. CASE IO!Store
  <2>1. /\ sock'.rcvevent = cb.n + 1 /\ task' = task /\ nc' = nc /\ cb.pc = "store" /\ cb'.pc = "scan"
        /\ cb'.then = cb.then
    BY <1>0, <1>7 DEF IO!Store, IO!Callback, CbType, SockType
  <2>2. Owed' = Owed
    BY <2>1 DEF Owed
  <2> QED
    BY <2>1, <2>2 DEF Stored
<1>8. CASE IO!Scan \/ IO!Signal
  <2>1. /\ sock' = sock /\ task' = task /\ nc' = nc /\ cb.pc \in {"scan", "signal"}
        /\ cb'.pc \in {"signal", "then"} /\ cb'.then = cb.then
    BY <1>0, <1>8 DEF IO!Scan, IO!Signal, IO!Callback, CbType
  <2>2. Owed' = Owed
    BY <2>1 DEF Owed
  <2> QED
    BY <2>1, <2>2 DEF Looked, Same
<1>9. CASE IO!Then
  <2>1. sock' = sock /\ cb.pc = "then" /\ (task'.pc = "fin" <=> task.pc = "fin")
    BY <1>0, <1>9 DEF IO!Then, IO!Failed, TaskType
  <2>2. f' = f
    BY <1>f, <2>1
  <2>3. CASE cb'.pc = "load" /\ k' = k + 1 /\ cb'.then = "none" /\ cb.then = "fin"
    <3>1. e' = 0 /\ e = 0
      BY <1>e, <2>3
    <3> QED
      BY <1>p, <2>1, <2>2, <2>3, <3>1 DEF Called, Same
  <2>4. CASE cb'.pc = "loop" /\ cb'.then = "none" /\ (k' = k \/ (e = 1 /\ k' = k + 1))
    <3>1. e' = 0 /\ (cb.then # "reset" => e = 0)
      BY <1>e, <2>4
    <3>2. Owed' <= Owed /\ (cb.then # "reset" => Owed' = Owed)
      BY <1>p, <2>2, <2>4, <3>1
    <3> QED
      BY <2>1, <2>4, <3>2 DEF Left, Same
  <2> QED
    BY <1>e, <1>p, <1>9, <2>3, <2>4, ThenPosts
<1>10. CASE IO!Count \/ IO!Rescan \/ IO!Wake
  <2>1. sock'.rcvevent = sock.rcvevent /\ task' = task /\ nc' = nc /\ cb' = cb
    BY <1>0, <1>10 DEF IO!Count, IO!Rescan, IO!Wake, IO!Leaves, SockType
  <2>2. Owed' = Owed
    BY <2>1 DEF Owed
  <2> QED
    BY <1>p, <2>1, <2>2 DEF Quiet, Same
<1>11. CASE IO!SocketClose
  <2>1. /\ sock'.rcvevent = sock.rcvevent /\ task'.pc = "closed" /\ Len(nc'.mbox) = 0 /\ cb' = cb
    BY <1>0, <1>11 DEF IO!SocketClose, TaskType, SockType, NcType
  <2>2. f' = 0 /\ e' = e
    BY <1>f, <2>1
  <2> QED
    BY <1>p, <2>1, <2>2 DEF Quiet, Same
<1>12. CASE \/ IO!SimpleRecv \/ IO!SimpleSend \/ IO!Enter \/ IO!TimedOut \/ IO!Recved
            \/ IO!GetSockOpt
  <2>1. sock' = sock /\ cb' = cb /\ nc' = nc
    BY <1>12 DEF IO!SimpleRecv, IO!SimpleSend, IO!Enter, IO!TimedOut, IO!Recved, IO!GetSockOpt
  <2>2. task'.pc # "fin" /\ task.pc # "fin"
    BY <1>0, <1>12 DEF IO!SimpleRecv, IO!SimpleSend, IO!Enter, IO!TimedOut, IO!Recved,
       IO!GetSockOpt, IO!NoData, IO!Returns, TaskType
  <2>3. f' = f /\ e' = e /\ k' = k
    BY <1>f, <2>1, <2>2
  <2> QED
    BY <1>p, <2>1, <2>3 DEF Quiet, Same
<1>13. CASE Writing
  <2>1. sock' = sock /\ cb' = cb /\ nc'.mbox = nc.mbox
    BY <1>13, WriteKeeps
  <2>2. task'.pc = "fin" => task.pc = "fin"
    BY <1>0, <1>13, WriteTask
  <2>3. f' <= f /\ e' = e /\ k' = k
    BY <1>f, <1>p, <2>1, <2>2
  <2> QED
    BY <1>p, <1>13, <2>1, <2>3 DEF Quiet, Same
<1>14. CASE task' = task /\ sock' = sock /\ nc' = nc /\ cb' = cb
  <2>1. Owed' = Owed
    BY <1>14 DEF Owed
  <2> QED
    BY <1>p, <1>14, <2>1 DEF Quiet, Same
<1> QED
  BY <1>1, <1>2, <1>3, <1>4, <1>5, <1>6, <1>7, <1>8, <1>9, <1>10, <1>11, <1>12, <1>13, <1>14, Changes

\* Every step keeps rcvevent as high as what it counts.
LEMMA CountedStep == ASSUME IOTypes, Counted, IONext PROVE Counted'
<1>i. sock.rcvevent \in Int /\ cb.n \in Int /\ Owed \in Int /\ Owed' \in Int
  <2>1. sock.rcvevent \in Int /\ cb.n \in Int /\ Len(nc.mbox) \in Nat /\ Len(nc'.mbox) \in Nat
    BY TypesStep DEF IOTypes, SockType, CbType, NcType
  <2>2. /\ FetchedNull(task.pc) \in 0..1 /\ FetchedNull(task'.pc) \in 0..1
        /\ Early(cb.then) \in 0..1 /\ Early(cb'.then) \in 0..1
    BY FetchedOne, EarlyOne
  <2> QED
    BY <2>1, <2>2 DEF Owed
<1>1. CASE Quiet
  BY <1>i, <1>1 DEF Counted, Quiet, Same
<1>2. CASE Minus
  BY <1>i, <1>2 DEF Counted, Minus
<1>3. CASE Called
  BY <1>i, <1>3 DEF Counted, Called, Same
<1>4. CASE Loaded
  BY <1>i, <1>4 DEF Counted, Loaded, Same
<1>5. CASE Stored
  BY <1>i, <1>5 DEF Counted, Stored
<1>6. CASE Looked
  BY <1>i, <1>6 DEF Counted, Looked, Same
<1>7. CASE Left
  BY <1>i, <1>7 DEF Counted, Left, Same
<1> QED
  BY <1>1, <1>2, <1>3, <1>4, <1>5, <1>6, <1>7, EventStep

\* Every step keeps what is known of a task that sleeps in lwip_select.
LEMMA SleepingStep == ASSUME IOTypes, Counted, Sleeping, IONext PROVE Sleeping'
<1>0. sel \in SelType /\ sock \in SockType /\ cb \in CbType
  BY DEF IOTypes
<1>i. sock.rcvevent \in Int /\ Owed \in Int /\ Owed' \in Int
  <2>1. sock.rcvevent \in Int /\ Len(nc.mbox) \in Nat /\ Len(nc'.mbox) \in Nat
    BY TypesStep DEF IOTypes, SockType, NcType
  <2>2. /\ FetchedNull(task.pc) \in 0..1 /\ FetchedNull(task'.pc) \in 0..1
        /\ Early(cb.then) \in 0..1 /\ Early(cb'.then) \in 0..1
    BY FetchedOne, EarlyOne
  <2> QED
    BY <2>1, <2>2 DEF Owed
<1>1. CASE IO!Enlist
  BY <1>0, <1>1 DEF IO!Enlist, Sleeping, SelType
<1>2. CASE IO!Count
  <2>1. /\ sel.pc = "listed" /\ sel'.pc = "counted" /\ sock'.waiting = sock.waiting + 1
        /\ sel'.signalled = sel.signalled /\ sel'.sem = sel.sem
    BY <1>0, <1>2 DEF IO!Count, SelType, SockType
  <2> QED
    BY <2>1 DEF Sleeping
<1>3. ASSUME IO!Leaves, sel.pc \in {"counted", "sleep"} PROVE Sleeping'
  <2>1. sel'.pc = "out" /\ sel'.signalled = FALSE /\ sock'.waiting = sock.waiting - 1
    BY <1>0, <1>3 DEF IO!Leaves, SelType, SockType
  <2> QED
    BY <1>3, <2>1 DEF Sleeping
<1>4. CASE IO!Rescan
  <2>1. CASE IO!Readable
    BY <1>3, <1>4, <2>1 DEF IO!Rescan
  <2>2. CASE ~IO!Readable
    <3>1. /\ sel.pc = "counted" /\ sel'.pc = "sleep" /\ sock' = sock /\ cb' = cb
          /\ sel'.signalled = sel.signalled /\ sel'.sem = sel.sem /\ task' = task /\ nc' = nc
      BY <1>0, <1>4, <2>2 DEF IO!Rescan, SelType
    <3>2. sock.rcvevent <= 0
      BY <1>i, <2>2 DEF IO!Readable
    <3>3. Owed' = Owed
      BY <3>1 DEF Owed
    <3>4. cb.pc \in {"loop", "load", "store", "scan", "signal", "then"}
      BY <1>0 DEF CbType
    <3>5. cb.pc \in {"loop", "then"} => Owed <= 0
      BY <1>i, <3>2 DEF Counted
    <3> QED
      BY <1>i, <3>1, <3>3, <3>4, <3>5 DEF Sleeping
  <2> QED
    BY <2>1, <2>2
<1>5. CASE IO!Wake
  BY <1>3, <1>5 DEF IO!Wake
<1>6. CASE IO!Signal
  <2>1. CASE sel.pc = "out"
    BY <1>6, <2>1 DEF IO!Signal, Sleeping
  <2>2. CASE sel.pc # "out"
    <3>1. sel'.pc = sel.pc /\ sel'.sem = 1 /\ sock' = sock
      BY <1>0, <1>6, <2>2 DEF IO!Signal, SelType
    <3> QED
      BY <3>1 DEF Sleeping
  <2> QED
    BY <2>1, <2>2
<1>7. CASE IO!Scan
  <2>1. /\ sel' = sel /\ sock' = sock /\ task' = task /\ nc' = nc /\ cb.pc = "scan"
        /\ cb'.then = cb.then /\ cb'.pc = IF IO!Wants THEN "signal" ELSE "then"
    BY <1>0, <1>7 DEF IO!Scan, IO!Callback, CbType
  <2>2. Owed' = Owed
    BY <2>1 DEF Owed
  <2>3. sel.pc = "sleep" /\ sel.sem = 0 /\ Owed > 0 => IO!Wants
    BY <1>i, <2>1 DEF Sleeping, Counted, IO!Wants
  <2> QED
    BY <2>1, <2>2, <2>3 DEF Sleeping
<1>8. ASSUME sel' = sel, sock'.waiting = sock.waiting, ~IO!Scan PROVE Sleeping'
  <2>1. \/ cb'.pc \in {"load", "store", "scan"}
        \/ Owed' <= Owed /\ (cb'.pc = cb.pc \/ cb.pc = "then" \/ IO!Signal)
    <3>1. Looked => cb'.pc = cb.pc \/ IO!Scan \/ IO!Signal
      BY Changes DEF Looked, Same, IO!RecvTcp, IO!Again, IO!GotFin, IO!ErrTcp, IO!Loop, IO!Load,
         IO!Store, IO!Then, IO!Callback
    <3> QED
      BY <1>i, <1>8, <3>1, EventStep DEF Quiet, Minus, Called, Loaded, Stored, Looked, Left, Same
  <2> QED
    BY <1>i, <1>6, <1>8, <2>1 DEF Sleeping
<1>9. CASE IO!Take \/ IO!Fin \/ IO!Copy \/ IO!Store \/ IO!SocketClose
  <2>1. sel' = sel
    BY <1>9 DEF IO!Take, IO!Fin, IO!Copy, IO!Store, IO!SocketClose
  <2>2. CASE IO!Copy
    BY <1>0, <1>7, <1>8, <2>1, <2>2, CopyIs, KeepType DEF IO!Copy
  <2>3. CASE ~IO!Copy
    <3>1. sock'.waiting = sock.waiting
      BY <1>0, <1>9, <2>3 DEF IO!Take, IO!Fin, IO!Store, IO!SocketClose, SockType
    <3> QED
      BY <1>7, <1>8, <2>1, <3>1
  <2> QED
    BY <2>2, <2>3
<1>10. CASE sel' = sel /\ sock' = sock
  BY <1>7, <1>8, <1>10
<1> QED
  BY <1>1, <1>2, <1>4, <1>5, <1>6, <1>7, <1>9, <1>10, Changes

-----------------------------------------------------------------------------
(* The calls of the task, and what simpleSend gave to TCP                  *)

\* The task is in lwip_recvfrom.
Reading == {"top", "wait", "fin", "recved"}

\* The task is in simpleSend or in simpleRecv, and only a write that waits for the send
\* buffer is one of the netconn; after a reset its answer is on the way.
CallInv ==
  /\ task.pc \in {"write", "blocked"} => task.call = "send"
  /\ task.pc \in Reading => task.call = "recv"
  /\ task.pc = "sockopt" => task.call # "none"
  /\ task.pc \notin Reading => task.off = 0
  /\ nc.writing => task.pc = "blocked" /\ cb.then # "reset"
  /\ task.pc = "blocked" /\ ~nc.writing => cb.then = "reset"

\* A task that returns, fails, or writes on, field by field.
LEMMA Ends ==
  ASSUME task \in TaskType
  PROVE  /\ \A r : LET t == IO!Returns(r)
                   IN t.pc = "idle" /\ t.off = 0 /\ t.call = task.call /\ t.ret = r
         /\ \A e : LET t == IO!Failed(e)
                   IN t.pc = "sockopt" /\ t.off = task.off /\ t.call = task.call /\ t.errno = e
         /\ LET t == [task EXCEPT !.pc = "blocked"]
            IN t.pc = "blocked" /\ t.off = task.off /\ t.call = task.call
         /\ \A n \in Nat : LET t == IO!Wrote(n)
              IN /\ t.pc \in {"idle", "write"} /\ t.off \in {0, task.off} /\ t.call = task.call
                 /\ n >= SendLength => t.pc = "idle" /\ t.ret = n
<1>1. \A r : LET t == IO!Returns(r)
             IN t.pc = "idle" /\ t.off = 0 /\ t.call = task.call /\ t.ret = r
  BY DEF IO!Returns, TaskType
<1>2. \A e : LET t == IO!Failed(e)
             IN t.pc = "sockopt" /\ t.off = task.off /\ t.call = task.call /\ t.errno = e
  BY DEF IO!Failed, TaskType
<1>3. LET t == [task EXCEPT !.pc = "blocked"]
      IN t.pc = "blocked" /\ t.off = task.off /\ t.call = task.call
  BY DEF TaskType
<1>4. ASSUME NEW n \in Nat
      PROVE  LET t == IO!Wrote(n)
             IN /\ t.pc \in {"idle", "write"} /\ t.off \in {0, task.off} /\ t.call = task.call
                /\ n >= SendLength => t.pc = "idle" /\ t.ret = n
  <2>1. PICK c \in Nat : c = task.count + n /\ c >= n
    BY DEF TaskType
  <2>2. LET t == [task EXCEPT !.count = c, !.pc = "write"]
        IN t.pc = "write" /\ t.off = task.off /\ t.call = task.call
    BY DEF TaskType
  <2>3. IO!Wrote(n) = IF c < SendLength THEN [task EXCEPT !.count = c, !.pc = "write"]
                      ELSE IO!Returns(n)
    BY <2>1 DEF IO!Wrote
  <2> QED
    BY <1>1, <2>1, <2>2, <2>3, Sizes
<1> QED
  BY <1>1, <1>2, <1>3, <1>4

\* What do_writemore makes of a write that has reached o: the send timeout elapses, it
\* goes on, or all is written.
Expires(o) == /\ ~nc'.writing /\ seen'.out = seen.out
              /\ IF o = 0 THEN /\ task'.pc = "sockopt" /\ task'.errno = "WOULDBLOCK"
                               /\ seen'.partial = seen.partial
                 ELSE task'.pc \in {"idle", "write"} /\ seen'.partial
Continues(o) == /\ nc'.writing /\ nc'.offset \in o..SendLength /\ task'.pc = "blocked"
                /\ seen'.partial = seen.partial
                /\ seen'.out = seen.out \o IO!From(o + 1, nc'.offset - o)
Completes(o) == /\ ~nc'.writing /\ task'.pc = "idle" /\ task'.ret = SendLength
                /\ seen'.partial = seen.partial
                /\ seen'.out = seen.out \o IO!From(o + 1, SendLength - o)

LEMMA WriteCases ==
  ASSUME IOTypes, CallInv, Writing
  PROVE  /\ task'.call = task.call /\ task'.off = task.off
         /\ \/ task' = task /\ nc' = nc /\ seen' = seen
            \/ /\ task.pc = "write" /\ nc' = nc /\ seen' = seen
               /\ task'.pc = "sockopt" /\ task'.errno # "WOULDBLOCK"
            \/ /\ task.pc \in {"write", "blocked"}
               /\ \E o \in 0..SendLength :
                    /\ (task.pc = "write" /\ o = 0) \/ (nc.writing /\ o = nc.offset)
                    /\ Expires(o) \/ Continues(o) \/ Completes(o)
<1>0. task \in TaskType /\ nc \in NcType /\ seen \in SeenType
  BY DEF IOTypes
<1>1. ASSUME NEW n \in NcType, NEW p, p.buf \in Nat, IO!WriteMore(n, p), n.writing,
             task.pc \in {"write", "blocked"}
      PROVE  /\ task'.call = task.call /\ task'.off = task.off
             /\ Expires(n.offset) \/ Continues(n.offset) \/ Completes(n.offset)
  <2>0. task.off = 0 /\ n.offset \in 0..SendLength /\ n.offset \in Nat
    BY <1>1, Sizes DEF CallInv, Reading, NcType
  <2>1. CASE IO!TimeUp(n, p)
    <3>1. nc'.writing = FALSE
      BY <2>1 DEF IO!TimeUp, NcType
    <3>2. seen'.out = seen.out /\ seen'.partial = (seen.partial \/ n.offset > 0)
      BY <1>0, <2>1 DEF IO!TimeUp, SeenType
    <3>3. seen.partial \in BOOLEAN
      BY <1>0 DEF SeenType
    <3>4. CASE n.offset = 0
      <4>1. task' = IO!Failed("WOULDBLOCK")
        BY <2>1, <3>4 DEF IO!TimeUp
      <4> QED
        BY <1>0, <3>1, <3>2, <3>3, <3>4, <4>1, Ends DEF Expires
    <3>5. CASE n.offset # 0
      <4>1. task' = IO!Wrote(n.offset)
        BY <2>1, <3>5 DEF IO!TimeUp
      <4>2. task'.pc \in {"idle", "write"} /\ task'.off = 0 /\ task'.call = task.call
        BY <1>0, <2>0, <4>1, Ends
      <4> QED
        <5>1. n.offset > 0
          BY <2>0, <3>5
        <5>2. seen'.partial
          BY <3>2, <3>3, <5>1
        <5>3. Expires(n.offset)
          BY <3>1, <3>2, <3>5, <4>2, <5>2 DEF Expires
        <5> QED
          BY <2>0, <4>2, <5>3
    <3> QED
      BY <3>4, <3>5
  <2>2. CASE nc' = n /\ task' = [task EXCEPT !.pc = "blocked"] /\ UNCHANGED seen
    <3>1. IO!From(n.offset + 1, n.offset - n.offset) = <<>>
      <4>1. PICK a \in Nat : a = n.offset + 1 /\ a >= 1
        BY <2>0
      <4>2. IO!From(a, 0) = <<>>
        BY DEF IO!From
      <4> QED
        BY <2>0, <4>1, <4>2
    <3>2. seen.out \o <<>> = seen.out
      BY <1>0, ConcatEmptySeq DEF SeenType
    <3>3. n.offset \in n.offset..SendLength
      BY <2>0, Sizes
    <3> QED
      BY <1>0, <1>1, <2>0, <2>2, <3>1, <3>2, <3>3, Ends DEF Continues
  <2>3. CASE ~IO!TimeUp(n, p) /\ ~(nc' = n /\ task' = [task EXCEPT !.pc = "blocked"] /\ UNCHANGED seen)
    <3> DEFINE len == IO!Least(p.buf, SendLength - n.offset)
               all == n.offset + len = SendLength
    <3>1. /\ nc' = [n EXCEPT !.writing = ~all, !.offset = IF all THEN 0 ELSE @ + len]
          /\ seen' = [seen EXCEPT !.out = @ \o IO!From(n.offset + 1, len)]
          /\ task' = IF all THEN IO!Wrote(SendLength) ELSE [task EXCEPT !.pc = "blocked"]
      BY <1>1, <2>3 DEF IO!WriteMore, IO!WriteSome
    <3>2. seen'.out = seen.out \o IO!From(n.offset + 1, len) /\ seen'.partial = seen.partial
      BY <1>0, <3>1 DEF SeenType
    <3>3. CASE all
      <4>1. len = SendLength - n.offset
        <5>1. p.buf \in Nat
          BY <1>1
        <5>2. len \in Nat
          BY <2>0, <5>1, Sizes DEF IO!Least
        <5> HIDE DEF len
        <5> QED
          BY <2>0, <3>3, <5>2, Sizes
      <4>2. nc'.writing = FALSE
        BY <3>1, <3>3 DEF NcType
      <4>3. task' = IO!Wrote(SendLength)
        BY <3>1, <3>3
      <4>4. /\ task'.pc = "idle" /\ task'.ret = SendLength /\ task'.off = 0
            /\ task'.call = task.call
        BY <1>0, <2>0, <4>3, Ends, Sizes
      <4> QED
        BY <2>0, <3>2, <4>1, <4>2, <4>4 DEF Completes
    <3>4. CASE ~all
      <4>1. nc'.writing = TRUE /\ nc'.offset = n.offset + len
        BY <3>1, <3>4 DEF NcType
      <4>2. nc'.offset - n.offset = len /\ nc'.offset \in n.offset..SendLength
        <5>1. p.buf \in Nat
          BY <1>1
        <5> QED
          BY <2>0, <4>1, <5>1, Sizes DEF IO!Least
      <4>3. task' = [task EXCEPT !.pc = "blocked"]
        BY <3>1, <3>4
      <4> QED
        BY <1>0, <2>0, <3>2, <4>1, <4>2, <4>3, Ends DEF Continues
    <3> QED
      BY <3>3, <3>4
  <2> QED
    BY <2>1, <2>2, <2>3
<1>2. pcb.buf \in 0..SndBuf /\ pcb.buf \in Nat /\ nc.offset \in 0..SendLength
  BY Sizes DEF IOTypes, PcbType, NcType
<1>3. CASE IO!DoWrite
  <2>1. CASE nc.err # "OK"
    <3>1. task' = IO!Failed(nc.err) /\ nc' = nc /\ seen' = seen /\ task.pc = "write"
      BY <1>3, <2>1 DEF IO!DoWrite
    <3>2. nc.err # "WOULDBLOCK"
      BY <1>0 DEF NcType
    <3> QED
      BY <1>0, <3>1, <3>2, Ends
  <2>2. CASE nc.err = "OK"
    <3>1. PICK n : n = [nc EXCEPT !.writing = TRUE, !.offset = 0]
      OBVIOUS
    <3>2. 0 \in 0..SendLength
      BY Sizes
    <3>3. n \in NcType /\ n.writing /\ n.offset = 0
      BY <1>0, <3>1, <3>2 DEF NcType
    <3>4. IO!WriteMore(n, pcb) /\ task.pc = "write"
      BY <1>3, <2>2, <3>1 DEF IO!DoWrite
    <3> QED
      BY <1>1, <1>2, <3>2, <3>3, <3>4
  <2> QED
    BY <2>1, <2>2
<1>4. ASSUME NEW p, p.buf \in Nat, IO!WriteMore(nc, p), nc.writing
      PROVE  /\ task'.call = task.call /\ task'.off = task.off /\ task.pc = "blocked"
             /\ Expires(nc.offset) \/ Continues(nc.offset) \/ Completes(nc.offset)
  BY <1>0, <1>1, <1>4 DEF CallInv
<1>5. CASE IO!PollTcp
  BY <1>2, <1>4, <1>5 DEF IO!PollTcp
<1>6. CASE IO!SentTcp
  <2>1. PICK n \in 1..(SndBuf - pcb.buf) :
          LET p == [pcb EXCEPT !.buf = @ + n]
          IN IF nc.writing THEN IO!WriteMore(nc, p) ELSE pcb' = p /\ UNCHANGED <<task, nc, seen>>
    BY <1>6 DEF IO!SentTcp
  <2>2. PICK p : p = [pcb EXCEPT !.buf = @ + n]
    OBVIOUS
  <2>3. p.buf \in Nat
    <3>1. pcb \in PcbType
      BY DEF IOTypes
    <3>2. p.buf = pcb.buf + n
      BY <2>2, <3>1 DEF PcbType
    <3> QED
      BY <1>2, <3>2, Sizes
  <2>4. CASE nc.writing
    <3>1. IO!WriteMore(nc, p)
      BY <2>1, <2>2, <2>4
    <3> QED
      BY <1>2, <1>4, <2>3, <2>4, <3>1
  <2>5. CASE ~nc.writing
    BY <2>1, <2>5
  <2> QED
    BY <2>4, <2>5
<1> QED
  BY <1>3, <1>5, <1>6 DEF Writing

\* Every step keeps what is known of the calls.
LEMMA CallStep == ASSUME IOTypes, Counted, CallInv, IONext PROVE CallInv'
<1>0. task \in TaskType /\ nc \in NcType /\ cb \in CbType
  BY DEF IOTypes
<1>1. CASE IO!SimpleRecv \/ IO!SimpleSend
  <2>1. /\ task.pc = "idle" /\ task'.off = task.off /\ nc' = nc /\ cb' = cb
        /\ \/ task'.pc = "top" /\ task'.call = "recv"
           \/ task'.pc = "write" /\ task'.call = "send"
    BY <1>0, <1>1 DEF IO!SimpleRecv, IO!SimpleSend, TaskType
  <2> QED
    BY <2>1 DEF CallInv, Reading
<1>2. CASE IO!Enter \/ IO!TimedOut \/ IO!Fin
  <2>1. task.pc \in {"top", "wait", "fin"} /\ cb' = cb /\ nc'.writing = nc.writing
    BY <1>0, <1>2 DEF IO!Enter, IO!TimedOut, IO!Fin, NcType
  <2>2. \/ task'.pc \in {"wait", "recved"} /\ task'.call = task.call
        \/ task'.pc = "idle" /\ task'.off = 0
        \/ task'.pc = "sockopt" /\ task'.off = 0 /\ task'.call = task.call
    <3>1. \A e : \/ IO!NoData(e).pc = "recved" /\ IO!NoData(e).call = task.call
                 \/ IO!NoData(e).pc = "idle" /\ IO!NoData(e).off = 0
                 \/ /\ IO!NoData(e).pc = "sockopt" /\ IO!NoData(e).off = 0
                    /\ IO!NoData(e).call = task.call
      <4>1. task.off \in Nat
        BY <1>0 DEF TaskType
      <4>2. [task EXCEPT !.pc = "recved"].pc = "recved" /\ [task EXCEPT !.pc = "recved"].call = task.call
        BY <1>0 DEF TaskType
      <4>3. \A e : LET t == [task EXCEPT !.pc = "sockopt", !.errno = e]
                   IN t.pc = "sockopt" /\ t.off = task.off /\ t.call = task.call
        BY <1>0 DEF TaskType
      <4>4. IO!Returns(0).pc = "idle" /\ IO!Returns(0).off = 0
        BY <1>0, Ends
      <4> QED
        BY <4>1, <4>2, <4>3, <4>4 DEF IO!NoData
    <3>2. [task EXCEPT !.pc = "wait"].pc = "wait" /\ [task EXCEPT !.pc = "wait"].call = task.call
      BY <1>0 DEF TaskType
    <3>3. task' = [task EXCEPT !.pc = "wait"] \/ \E e : task' = IO!NoData(e)
      BY <1>2 DEF IO!Enter, IO!TimedOut, IO!Fin
    <3> QED
      BY <3>1, <3>2, <3>3
  <2> QED
    BY <2>1, <2>2 DEF CallInv, Reading
<1>3. CASE IO!Take
  <2>1. /\ task.pc = "wait" /\ task'.pc \in {"fin", "top"} /\ task'.call = task.call /\ cb' = cb
        /\ nc'.writing = nc.writing
    <3>1. nc'.writing = nc.writing
      BY <1>0, <1>3, TakeType DEF IO!Take
    <3>2. task' = [task EXCEPT !.pc = "fin"] \/ task' = [task EXCEPT !.pc = "top"]
      BY <1>3 DEF IO!Take
    <3> QED
      BY <1>0, <1>3, <3>1, <3>2 DEF IO!Take, TaskType
  <2> QED
    BY <2>1 DEF CallInv, Reading
<1>4. CASE IO!Copy
  <2>1. /\ task.pc = "top" /\ task'.pc \in {"recved", "top"} /\ task'.call = task.call /\ cb' = cb
        /\ nc' = nc
    BY <1>0, <1>4 DEF IO!Copy, TaskType
  <2> QED
    BY <2>1 DEF CallInv, Reading
<1>5. CASE IO!Recved
  <2>1. task.pc = "recved" /\ task'.pc = "idle" /\ task'.off = 0 /\ cb' = cb /\ nc' = nc
    BY <1>0, <1>5, Ends DEF IO!Recved
  <2> QED
    BY <2>1 DEF CallInv, Reading
<1>6. CASE Writing
  <2>1. cb' = cb
    BY <1>6, WriteKeeps
  <2>2. CASE task' = task /\ nc' = nc
    BY <2>1, <2>2 DEF CallInv
  <2>3. CASE task.pc = "write" /\ nc' = nc /\ task'.pc = "sockopt"
    BY <1>6, <2>1, <2>3, WriteCases DEF CallInv, Reading
  <2>4. CASE /\ task.pc \in {"write", "blocked"}
             /\ \E o \in 0..SendLength :
                  /\ (task.pc = "write" /\ o = 0) \/ (nc.writing /\ o = nc.offset)
                  /\ Expires(o) \/ Continues(o) \/ Completes(o)
    <3>1. /\ task'.call = "send" /\ task'.off = 0 /\ (nc'.writing => task'.pc = "blocked")
          /\ task'.pc \in {"sockopt", "idle", "write", "blocked"}
          /\ task'.pc = "blocked" => nc'.writing
      BY <1>6, <2>4, WriteCases DEF CallInv, Reading, Expires, Continues, Completes
    <3>2. cb.then # "reset"
      BY <1>6 DEF Writing, IO!DoWrite, IO!SentTcp, IO!PollTcp, IO!Loop, Counted
    <3> QED
      BY <2>1, <3>1, <3>2 DEF CallInv, Reading
  <2> QED
    BY <1>6, <2>2, <2>3, <2>4, WriteCases
<1>7. CASE IO!GetSockOpt
  <2>1. /\ task.pc = "sockopt" /\ (task'.off = task.off \/ task'.off = 0)
        /\ cb' = cb /\ nc' = nc /\ task'.call = task.call
        /\ \/ task'.pc = "idle" /\ task'.off = 0
           \/ task'.pc = "write" /\ task.call = "send"
           \/ task'.pc = "top" /\ task.call # "send"
    BY <1>0, <1>7, Ends DEF IO!GetSockOpt, TaskType
  <2> QED
    BY <1>0, <2>1 DEF CallInv, Reading, TaskType
<1>8. ASSUME task' = task, nc'.writing = nc.writing, (cb'.then = "reset") = (cb.then = "reset")
      PROVE  CallInv'
  BY <1>8 DEF CallInv, Reading
<1>9. CASE IO!RecvTcp \/ IO!Again \/ IO!GotFin
  <2>1. task' = task /\ cb.then # "reset"
    BY <1>9 DEF IO!RecvTcp, IO!Again, IO!GotFin, IO!Loop, Counted
  <2>2. nc'.writing = nc.writing
    BY <1>0, <1>9 DEF IO!RecvTcp, IO!Again, IO!GotFin, IO!Post, NcType
  <2>3. cb'.then # "reset"
    BY <1>9, <2>1, Posts
  <2> QED
    BY <1>8, <2>1, <2>2, <2>3
<1>10. CASE IO!ErrTcp
  <2>1. task' = task /\ cb'.then = "reset" /\ ~nc'.writing
    BY <1>0, <1>10 DEF IO!ErrTcp, IO!Plus, CbType, NcType
  <2> QED
    BY <2>1 DEF CallInv, Reading
<1>11. CASE IO!Load \/ IO!Store \/ IO!Scan \/ IO!Signal
  <2>1. task' = task /\ nc' = nc /\ cb'.then = cb.then
    BY <1>0, <1>11 DEF IO!Load, IO!Store, IO!Scan, IO!Signal, IO!Callback, CbType
  <2> QED
    BY <1>8, <2>1
<1>12. CASE IO!Then
  <2>1. cb'.then = "none" /\ nc'.writing = nc.writing
    BY <1>0, <1>12 DEF IO!Then, IO!Post, IO!Plus, CbType, NcType
  <2>2. CASE cb.then = "reset" /\ task.pc = "blocked"
    <3>1. task'.pc = "sockopt" /\ task'.off = task.off /\ task'.call = task.call
      BY <1>0, <1>12, <2>2, Ends DEF IO!Then
    <3> QED
      BY <2>1, <2>2, <3>1 DEF CallInv, Reading
  <2>3. CASE ~(cb.then = "reset" /\ task.pc = "blocked")
    BY <1>12, <2>1, <2>3 DEF IO!Then, CallInv, Reading
  <2> QED
    BY <2>2, <2>3
<1>13. CASE IO!SocketClose
  <2>1. /\ task.pc = "idle" /\ task'.pc = "closed" /\ task'.off = task.off /\ cb' = cb
        /\ nc'.writing = nc.writing
    BY <1>0, <1>13 DEF IO!SocketClose, TaskType, NcType
  <2> QED
    BY <2>1 DEF CallInv, Reading
<1>14. CASE task' = task /\ nc' = nc /\ cb' = cb
  BY <1>8, <1>14
<1> QED
  BY <1>1, <1>2, <1>3, <1>4, <1>5, <1>6, <1>7, <1>9, <1>10, <1>11, <1>12, <1>13, <1>14, Changes

\* What do not write leaves a write that waits alone, or ends it, and an error stays.
LEMMA NcMoves ==
  ASSUME IOTypes, IONext
  PROVE  /\ nc'.err = "OK" => nc.err = "OK"
         /\ ~Writing /\ nc'.writing => nc.writing /\ nc'.offset = nc.offset
<1>0. nc \in NcType
  BY DEF IOTypes
<1>1. CASE IO!Take \/ IO!Fin \/ IO!ErrTcp \/ IO!SocketClose
  BY <1>0, <1>1 DEF IO!Take, IO!Fin, IO!ErrTcp, IO!SocketClose, NcType
<1>2. CASE IO!RecvTcp \/ IO!Again \/ IO!GotFin \/ IO!Then
  BY <1>0, <1>2 DEF IO!RecvTcp, IO!Again, IO!GotFin, IO!Then, IO!Post, NcType
<1>3. CASE Writing
  BY <1>3, WriteKeeps
<1>4. CASE nc' = nc
  BY <1>4
<1> QED
  BY <1>1, <1>2, <1>3, <1>4, Changes

\* Where netconn_recv_data without data leaves the task.
LEMMA NoDataIs ==
  ASSUME task \in TaskType, NEW e
  PROVE  LET t == IO!NoData(e)
         IN /\ t.call = task.call
            /\ \/ t.pc = "recved" /\ t.off = task.off
               \/ t.pc \in {"idle", "sockopt"} /\ t.off = 0 /\ task.off = 0
<1>1. task.off \in Nat
  BY DEF TaskType
<1>2. LET t == [task EXCEPT !.pc = "recved"]
      IN t.pc = "recved" /\ t.off = task.off /\ t.call = task.call
  BY DEF TaskType
<1>3. LET t == [task EXCEPT !.pc = "sockopt", !.errno = e]
      IN t.pc = "sockopt" /\ t.off = task.off /\ t.call = task.call
  BY DEF TaskType
<1>4. LET t == IO!Returns(0) IN t.pc = "idle" /\ t.off = 0 /\ t.call = task.call
  BY Ends
<1> QED
  BY <1>1, <1>2, <1>3, <1>4 DEF IO!NoData

\* What else than a write moves a task that sends.
LEMMA SenderMoves ==
  ASSUME IOTypes, CallInv, IONext, ~Writing, ~IO!SimpleSend, task'.call = "send"
  PROVE  \/ task' = task
         \/ task'.pc = "closed"
         \/ /\ task.pc = "sockopt" /\ task.call = "send"
            /\ \/ task'.pc = "write" /\ task.errno = "WOULDBLOCK"
               \/ task'.pc = "idle" /\ task'.ret = -1
         \/ task'.pc = "sockopt" /\ task'.errno = "RST" /\ task.call = "send"
<1>0. task \in TaskType
  BY DEF IOTypes
<1>1. ~IO!SimpleRecv
  BY <1>0 DEF IO!SimpleRecv, TaskType
<1>2. CASE \/ IO!Enter \/ IO!Take \/ IO!TimedOut \/ IO!Fin \/ IO!Copy \/ IO!Recved
  <2>1. task.call = "recv"
    BY <1>2 DEF IO!Enter, IO!Take, IO!TimedOut, IO!Fin, IO!Copy, IO!Recved, CallInv, Reading
  <2>2. task'.call = task.call
    <3>1. CASE IO!Enter \/ IO!TimedOut \/ IO!Fin
      BY <1>0, <3>1, NoDataIs DEF IO!Enter, IO!TimedOut, IO!Fin, TaskType
    <3>2. CASE IO!Take \/ IO!Copy
      BY <1>0, <3>2 DEF IO!Take, IO!Copy, TaskType
    <3>3. CASE IO!Recved
      BY <1>0, <3>3, Ends DEF IO!Recved
    <3> QED
      BY <1>2, <3>1, <3>2, <3>3
  <2> QED
    BY <2>1, <2>2
<1>3. CASE IO!GetSockOpt
  <2>1. CASE task.errno # "WOULDBLOCK"
    <3>1. task' = IO!Returns(-1) /\ task.pc = "sockopt"
      BY <1>3, <2>1 DEF IO!GetSockOpt
    <3> QED
      BY <1>0, <3>1, Ends
  <2>2. CASE task.errno = "WOULDBLOCK"
    <3>1. PICK p \in {"write", "top"} :
            task' = [task EXCEPT !.errno = "OK", !.pc = p] /\ (task.call = "send" => p = "write")
      BY <1>3, <2>2 DEF IO!GetSockOpt
    <3>2. task'.pc = p /\ task'.call = task.call
      BY <1>0, <3>1 DEF TaskType
    <3> QED
      BY <1>3, <2>2, <3>1, <3>2 DEF IO!GetSockOpt
  <2> QED
    BY <2>1, <2>2
<1>4. CASE IO!Then
  BY <1>0, <1>4, Ends DEF IO!Then
<1>5. CASE IO!SocketClose
  BY <1>0, <1>5 DEF IO!SocketClose, TaskType
<1> QED
  BY <1>1, <1>2, <1>3, <1>4, <1>5, Changes

\* The bytes from a on, in two parts.
LEMMA FromJoins ==
  ASSUME NEW a \in Nat, a >= 1, NEW m \in Nat, NEW n \in Nat
  PROVE  IO!From(a, m) \o IO!From(a + m, n) = IO!From(a, m + n)
<1> DEFINE s == IO!From(a, m)
           t == IO!From(a + m, n)
           u == IO!From(a, m + n)
<1>1. /\ s \in Seq(Nat \ {0}) /\ Len(s) = m
      /\ t \in Seq(Nat \ {0}) /\ Len(t) = n
      /\ u \in Seq(Nat \ {0}) /\ Len(u) = m + n
  <2>1. PICK b \in Nat, k \in Nat : b = a + m /\ k = m + n /\ b >= 1
    OBVIOUS
  <2>2. s \in Seq(Nat \ {0}) /\ Len(s) = m
    BY FromIs
  <2>3. IO!From(b, n) \in Seq(Nat \ {0}) /\ Len(IO!From(b, n)) = n
    BY <2>1, FromIs
  <2>4. IO!From(a, k) \in Seq(Nat \ {0}) /\ Len(IO!From(a, k)) = k
    BY <2>1, FromIs
  <2> QED
    BY <2>1, <2>2, <2>3, <2>4
<1>2. /\ \A i \in 1..m : s[i] = a + i - 1
      /\ \A i \in 1..n : t[i] = a + m + i - 1
      /\ \A i \in 1..(m + n) : u[i] = a + i - 1
  BY DEF IO!From
<1> HIDE DEF s, t, u
<1>3. /\ s \o t \in Seq(Nat \ {0}) /\ Len(s \o t) = m + n
      /\ \A i \in 1..(m + n) : (s \o t)[i] = IF i <= m THEN s[i] ELSE t[i - m]
  BY <1>1, ConcatProperties
<1>4. ASSUME NEW i \in 1..(m + n) PROVE (s \o t)[i] = u[i]
  <2>1. i \in Nat /\ u[i] = a + i - 1
    BY <1>2, <1>4
  <2>2. CASE i <= m
    <3>1. (s \o t)[i] = s[i] /\ s[i] = a + i - 1
      BY <1>2, <1>3, <1>4, <2>2
    <3> QED
      BY <2>1, <3>1
  <2>3. CASE ~(i <= m)
    <3>1. PICK j \in 1..n : j = i - m
      BY <1>4, <2>3
    <3>2. (s \o t)[i] = t[j] /\ t[j] = a + m + j - 1
      BY <1>2, <1>3, <1>4, <2>3, <3>1
    <3> QED
      BY <2>1, <3>1, <3>2
  <2> QED
    BY <2>2, <2>3
<1>5. s \o t = u
  BY <1>1, <1>3, <1>4, SeqEqual
<1> QED
  BY <1>5 DEF s, t, u

\* No byte.
LEMMA FromNone == \A a : IO!From(a, 0) = <<>>
BY DEF IO!From

\* What simpleSend gave to TCP, as long as no write timed out after a part.
SendInv ==
  ~seen.partial /\ task.call = "send" =>
    /\ \/ task.pc = "write"
       \/ task.pc = "sockopt" /\ task.errno = "WOULDBLOCK"
       => seen.out = <<>>
    /\ nc.writing => seen.out = IO!From(1, nc.offset)
    /\ task.pc = "idle" /\ task.ret > 0 => seen.out = IO!From(1, SendLength)

\* Every step keeps what is known of the bytes that were written.
LEMMA SendStep == ASSUME IOTypes, Counted, CallInv, SendInv, IONext PROVE SendInv'
<1>0. task \in TaskType /\ nc \in NcType /\ seen \in SeenType
  BY DEF IOTypes
<1>1. CallInv'
  BY CallStep
<1>2. CASE Writing
  <2>1. CASE task' = task /\ nc' = nc /\ seen' = seen
    BY <2>1 DEF SendInv
  <2>2. CASE /\ task.pc = "write" /\ nc' = nc /\ seen' = seen
             /\ task'.pc = "sockopt" /\ task'.errno # "WOULDBLOCK"
    BY <1>1, <2>2 DEF SendInv, CallInv
  <2>3. CASE /\ task.pc \in {"write", "blocked"}
             /\ \E o \in 0..SendLength :
                  /\ (task.pc = "write" /\ o = 0) \/ (nc.writing /\ o = nc.offset)
                  /\ Expires(o) \/ Continues(o) \/ Completes(o)
    <3>1. PICK o \in 0..SendLength :
            /\ (task.pc = "write" /\ o = 0) \/ (nc.writing /\ o = nc.offset)
            /\ Expires(o) \/ Continues(o) \/ Completes(o)
      BY <2>3
    <3>2. task.call = "send" /\ o \in Nat /\ SendLength \in Nat
      BY <2>3, Sizes DEF CallInv
    <3>3. ~seen.partial => seen.out = IO!From(1, o)
      BY <3>1, <3>2, FromNone DEF SendInv
    <3>4. ASSUME NEW k \in Nat, k >= o PROVE IO!From(1, o) \o IO!From(o + 1, k - o) = IO!From(1, k)
      <4>1. k - o \in Nat /\ o + (k - o) = k /\ 1 + o = o + 1
        BY <3>2, <3>4
      <4>2. PICK d \in Nat : d = k - o
        BY <4>1
      <4>3. IO!From(1, o) \o IO!From(1 + o, d) = IO!From(1, o + d)
        <5>1. PICK a \in Nat : a = 1 /\ a >= 1
          OBVIOUS
        <5>2. PICK m \in Nat : m = o
          BY <3>2
        <5>3. IO!From(a, m) \o IO!From(a + m, d) = IO!From(a, m + d)
          BY <5>1, FromJoins
        <5> QED
          BY <5>1, <5>2, <5>3
      <4> QED
        BY <4>1, <4>2, <4>3
    <3>5. CASE Expires(o)
      <4>1. CASE o = 0
        BY <3>3, <3>5, <4>1, FromNone DEF Expires, SendInv
      <4>2. CASE o # 0
        BY <3>5, <4>2 DEF Expires, SendInv
      <4> QED
        BY <4>1, <4>2
    <3>6. CASE Continues(o)
      <4>1. nc'.offset \in Nat /\ nc'.offset >= o
        BY <3>2, <3>6 DEF Continues
      <4>2. ~seen.partial => seen'.out = IO!From(1, nc'.offset)
        BY <3>3, <3>4, <3>6, <4>1 DEF Continues
      <4> QED
        BY <3>6, <4>2 DEF Continues, SendInv
    <3>7. CASE Completes(o)
      <4>1. SendLength >= o
        BY <3>1, <3>2
      <4>2. IO!From(1, o) \o IO!From(o + 1, SendLength - o) = IO!From(1, SendLength)
        BY <3>2, <3>4, <4>1
      <4>3. ~seen.partial => seen'.out = IO!From(1, SendLength)
        BY <3>3, <3>7, <4>2 DEF Completes
      <4> QED
        BY <3>7, <4>3 DEF Completes, SendInv
    <3> QED
      BY <3>1, <3>5, <3>6, <3>7
  <2> QED
    BY <1>2, <2>1, <2>2, <2>3, WriteCases
<1>3. CASE IO!SimpleSend
  <2>1. seen'.out = <<>> /\ task'.pc = "write"
    BY <1>0, <1>3 DEF IO!SimpleSend, SeenType, TaskType
  <2> QED
    BY <1>1, <2>1 DEF SendInv, CallInv
<1>4. CASE ~Writing /\ ~IO!SimpleSend
  <2>1. seen'.out = seen.out /\ seen'.partial = seen.partial
    BY <1>0, <1>4, Changes DEF IO!Copy, IO!RecvTcp, IO!GotFin, IO!Store, SeenType
  <2>2. nc'.writing => nc.writing /\ nc'.offset = nc.offset
    BY <1>4, NcMoves
  <2> SUFFICES ASSUME ~seen.partial, task'.call = "send" PROVE SendInv'
    BY <2>1 DEF SendInv
  <2>3. CASE task' = task
    BY <2>1, <2>2, <2>3 DEF SendInv
  <2>4. CASE task'.pc = "closed"
    BY <1>1, <2>4 DEF SendInv, CallInv
  <2>5. CASE /\ task.pc = "sockopt" /\ task.call = "send"
             /\ \/ task'.pc = "write" /\ task.errno = "WOULDBLOCK"
                \/ task'.pc = "idle" /\ task'.ret = -1
    BY <1>1, <2>1, <2>5 DEF SendInv, CallInv
  <2>6. CASE task'.pc = "sockopt" /\ task'.errno = "RST" /\ task.call = "send"
    BY <1>1, <2>1, <2>6 DEF SendInv, CallInv
  <2> QED
    BY <1>4, <2>3, <2>4, <2>5, <2>6, SenderMoves
<1> QED
  BY <1>2, <1>3, <1>4

-----------------------------------------------------------------------------
(* rcvevent is exact until an update is torn                               *)

\* The increment that is under way.
UnderWay(p) == IF p \in {"load", "store"} THEN 1 ELSE 0

\* rcvevent is what it counts, unless an update was torn or a reset was seen.
Exact ==
  /\ task.pc # "closed" /\ nc.err = "OK" /\ ~seen.torn => sock.rcvevent = Owed - UnderWay(cb.pc)
  /\ nc.err = "OK" => cb.then # "reset"

\* A read that has data goes on without a message only if an update was torn.
Starved ==
  /\ task.pc = "top" /\ sock.last = IO!None /\ task.off > 0 /\ nc.err = "OK" /\ nc.mbox = <<>>
       => seen.torn
  /\ IO!Prompt

\* A torn update is not repaired; only the store makes one.
LEMMA TornStays ==
  ASSUME IOTypes, IONext
  PROVE  /\ seen.torn => seen'.torn
         /\ ~IO!Store => seen'.torn = seen.torn
         /\ IO!Store /\ ~seen'.torn => sock.rcvevent = cb.n
<1>0. seen \in SeenType
  BY DEF IOTypes
<1>1. CASE IO!Store
  <2>1. seen'.torn = (seen.torn \/ sock.rcvevent # cb.n) /\ seen.torn \in BOOLEAN
    BY <1>0, <1>1 DEF IO!Store, SeenType
  <2> QED
    BY <1>1, <2>1
<1>2. CASE ~IO!Store
  <2>1. CASE Writing
    BY <1>2, <2>1, WriteKeeps
  <2>2. CASE IO!Copy \/ IO!SimpleSend \/ IO!RecvTcp \/ IO!GotFin
    BY <1>0, <1>2, <2>2 DEF IO!Copy, IO!SimpleSend, IO!RecvTcp, IO!GotFin, SeenType
  <2>3. CASE seen' = seen
    BY <1>2, <2>3
  <2> QED
    BY <1>2, <2>1, <2>2, <2>3, Changes
<1> QED
  BY <1>1, <1>2

\* A write leaves what is owed as it is.
LEMMA WriteOwes == ASSUME IOTypes, CallInv, Writing PROVE Owed' = Owed
<1>1. nc'.mbox = nc.mbox /\ cb' = cb
  BY WriteKeeps
<1>2. task'.pc = "fin" <=> task.pc = "fin"
  BY WriteCases, WriteTask DEF IOTypes
<1>3. FetchedNull(task'.pc) = FetchedNull(task.pc)
  BY <1>2 DEF FetchedNull
<1> QED
  BY <1>1, <1>3 DEF Owed

\* A socket stays closed.
LEMMA ClosedStays ==
  ASSUME IOTypes, CallInv, IONext, task.pc = "closed"
  PROVE  task'.pc = "closed"
<1>1. CASE Writing
  BY <1>1, WriteCases
<1>2. CASE task' = task
  BY <1>2
<1> QED
  BY <1>1, <1>2, Changes DEF IO!SimpleRecv, IO!SimpleSend, IO!Enter, IO!Take, IO!TimedOut, IO!Fin,
     IO!Copy, IO!Recved, IO!GetSockOpt, IO!Then, IO!SocketClose

\* Every step keeps rcvevent exact.
LEMMA ExactStep == ASSUME IOTypes, Counted, CallInv, Exact, IONext PROVE Exact'
<1>0. nc \in NcType /\ cb \in CbType
  BY DEF IOTypes
<1>i. sock.rcvevent \in Int /\ cb.n \in Int /\ Owed \in Int /\ Owed' \in Int
  <2>1. sock.rcvevent \in Int /\ cb.n \in Int /\ Len(nc.mbox) \in Nat /\ Len(nc'.mbox) \in Nat
    BY TypesStep DEF IOTypes, SockType, CbType, NcType
  <2>2. /\ FetchedNull(task.pc) \in 0..1 /\ FetchedNull(task'.pc) \in 0..1
        /\ Early(cb.then) \in 0..1 /\ Early(cb'.then) \in 0..1
    BY FetchedOne, EarlyOne
  <2> QED
    BY <2>1, <2>2 DEF Owed
<1>u. \A p : UnderWay(p) \in 0..1 /\ (UnderWay(p) = 1 <=> p \in {"load", "store"})
  BY DEF UnderWay
<1>1. nc'.err = "OK" => nc.err = "OK" /\ cb'.then # "reset"
  <2> SUFFICES ASSUME nc'.err = "OK" PROVE nc.err = "OK" /\ cb'.then # "reset"
    OBVIOUS
  <2>1. nc.err = "OK" /\ cb.then # "reset"
    BY NcMoves DEF Exact
  <2>2. ~IO!ErrTcp
    BY <1>0 DEF IO!ErrTcp, NcType
  <2>3. CASE IO!RecvTcp \/ IO!Again \/ IO!GotFin
    BY <2>1, <2>3, Posts
  <2>4. CASE IO!Load \/ IO!Store \/ IO!Scan \/ IO!Signal
    BY <1>0, <2>1, <2>4 DEF IO!Load, IO!Store, IO!Scan, IO!Signal, CbType
  <2>5. CASE IO!Then
    BY <2>1, <2>5, ThenPosts
  <2>6. CASE cb' = cb
    BY <2>1, <2>6
  <2> QED
    BY <2>1, <2>2, <2>3, <2>4, <2>5, <2>6, Changes
<1>2. ASSUME task'.pc # "closed", nc'.err = "OK", ~seen'.torn
      PROVE  sock'.rcvevent = Owed' - UnderWay(cb'.pc)
  <2>1. sock.rcvevent = Owed - UnderWay(cb.pc) /\ cb.then # "reset"
    BY <1>1, <1>2, ClosedStays, TornStays DEF Exact
  <2>2. CASE Quiet
    <3>1. Owed' = Owed
      BY <1>2, <2>2, WriteOwes DEF Quiet, Same
    <3> QED
      BY <2>1, <2>2, <3>1 DEF Quiet, Same
  <2>3. CASE Minus
    BY <1>i, <1>u, <2>1, <2>3 DEF Minus
  <2>4. CASE Called
    <3>1. UnderWay(cb.pc) = 0 /\ UnderWay(cb'.pc) = 1
      BY <2>4 DEF Called, Same, UnderWay
    <3> QED
      BY <1>i, <2>1, <2>4, <3>1 DEF Called, Same
  <2>5. CASE Loaded
    <3>1. UnderWay(cb.pc) = 1 /\ UnderWay(cb'.pc) = 1
      BY <2>5 DEF Loaded, Same, UnderWay
    <3> QED
      BY <1>i, <2>1, <2>5, <3>1 DEF Loaded, Same
  <2>6. CASE Stored
    <3>1. UnderWay(cb.pc) = 1 /\ UnderWay(cb'.pc) = 0
      BY <2>6 DEF Stored, UnderWay
    <3>2. IO!Store
      BY <2>6, Changes DEF Stored, IO!RecvTcp, IO!Again, IO!GotFin, IO!ErrTcp, IO!Loop, IO!Load,
         IO!Scan, IO!Signal, IO!Then, IO!Callback
    <3>3. sock.rcvevent = cb.n
      BY <1>2, <3>2, TornStays
    <3> QED
      BY <1>i, <2>1, <2>6, <3>1, <3>3 DEF Stored
  <2>7. CASE Looked
    <3>1. UnderWay(cb.pc) = 0 /\ UnderWay(cb'.pc) = 0
      BY <2>7 DEF Looked, Same, UnderWay
    <3> QED
      BY <2>1, <2>7, <3>1 DEF Looked, Same
  <2>8. CASE Left
    <3>1. UnderWay(cb.pc) = 0 /\ UnderWay(cb'.pc) = 0
      BY <2>8 DEF Left, Same, UnderWay
    <3> QED
      BY <2>1, <2>8, <3>1 DEF Left, Same
  <2> QED
    BY <2>2, <2>3, <2>4, <2>5, <2>6, <2>7, <2>8, EventStep
<1> QED
  BY <1>1, <1>2 DEF Exact

\* lastdata changes by what reads it, or frees it, and recvmbox is emptied by that too.
LEMMA LastStays ==
  ASSUME IOTypes, IONext, ~IO!Take, ~IO!Copy, ~IO!SocketClose
  PROVE  sock'.last = sock.last /\ sock'.offset = sock.offset
<1>0. sock \in SockType
  BY DEF IOTypes
<1>1. CASE IO!Fin \/ IO!Store \/ IO!Count \/ IO!Rescan \/ IO!Wake
  BY <1>0, <1>1 DEF IO!Fin, IO!Store, IO!Count, IO!Rescan, IO!Wake, IO!Leaves, SockType
<1>2. CASE sock' = sock
  BY <1>2
<1> QED
  BY <1>1, <1>2, Changes

\* Only Take, and the close, take from recvmbox: else it is empty before it is after.
LEMMA MboxFills ==
  ASSUME IOTypes, IONext, ~IO!Take, ~IO!SocketClose, nc'.mbox = <<>>
  PROVE  nc.mbox = <<>>
<1>0. nc \in NcType
  BY DEF IOTypes
<1>1. CASE IO!RecvTcp \/ IO!Again \/ IO!GotFin
  BY <1>1, Posts
<1>2. CASE IO!Then
  <2>1. Len(nc.mbox) \in Nat /\ (Len(nc'.mbox) # Len(nc.mbox) + 1)
    <3>1. Len(nc.mbox) \in Nat /\ Len(nc'.mbox) = 0
      BY <1>0, EmptySeq DEF NcType
    <3> QED
      BY <3>1
  <2> QED
    BY <1>2, <2>1, ThenPosts
<1>3. CASE IO!Fin \/ IO!ErrTcp
  BY <1>0, <1>3 DEF IO!Fin, IO!ErrTcp, NcType
<1>4. CASE Writing
  BY <1>4, WriteKeeps
<1>5. CASE nc' = nc
  BY <1>5
<1> QED
  BY <1>1, <1>2, <1>3, <1>4, <1>5, Changes

\* Every step keeps a read that has data from waiting without a reason.
LEMMA StarvedStep ==
  ASSUME IOTypes, CallInv, Exact, Starved, IONext
  PROVE  Starved'
<1>0. task \in TaskType /\ sock \in SockType /\ nc \in NcType
  BY DEF IOTypes
<1>1. nc'.err = "OK" => nc.err = "OK"
  BY NcMoves
<1>2. seen.torn => seen'.torn
  BY TornStays
<1>3. CASE IO!Take
  <2>1. CASE Head(nc.mbox) = IO!Null
    <3>1. task'.pc = "fin"
      BY <1>0, <1>3, <2>1 DEF IO!Take, TaskType
    <3> QED
      BY <3>1 DEF Starved, IO!Prompt
  <2>2. CASE Head(nc.mbox) # IO!Null
    <3>1. task'.pc = "top" /\ sock'.last = Head(nc.mbox)
      BY <1>0, <1>3, <2>2 DEF IO!Take, TaskType, SockType
    <3>2. Head(nc.mbox) # IO!None
      BY <1>0, <1>3, <2>2, TakeType, NotPbufs DEF IO!Take, Messages
    <3> QED
      BY <3>1, <3>2 DEF Starved, IO!Prompt
  <2> QED
    BY <2>1, <2>2
<1>4. CASE IO!Copy
  <2>1. task'.pc \in {"recved", "top"} /\ nc' = nc /\ cb' = cb /\ seen'.torn = seen.torn
    <3>1. ~IO!Store
      BY <1>0, <1>4 DEF IO!Copy, IO!Store, IO!Callback, IO!ThreadRuns, IO!TaskBlocked
    <3>2. seen'.torn = seen.torn
      BY <3>1, TornStays
    <3> QED
      BY <1>0, <1>4, <3>2 DEF IO!Copy, TaskType
  <2>2. ASSUME task'.pc = "top", nc.err = "OK", nc.mbox = <<>>, ~seen.torn PROVE FALSE
    <3>1. task.pc = "top" /\ sock.rcvevent > 0
      BY <1>0, <1>4, <2>2 DEF IO!Copy, IO!Done, TaskType, SockType
    <3>2. FetchedNull(task.pc) = 0 /\ Early(cb.then) = 0 /\ Len(nc.mbox) = 0
      BY <2>2, <3>1 DEF FetchedNull, Early, Exact
    <3>3. sock.rcvevent = 0 - UnderWay(cb.pc) /\ UnderWay(cb.pc) \in 0..1
      BY <2>2, <3>1, <3>2 DEF Exact, Owed, UnderWay
    <3> QED
      BY <3>1, <3>3
  <2> QED
    BY <2>1, <2>2 DEF Starved, IO!Prompt
<1>5. CASE IO!SocketClose
  BY <1>0, <1>5 DEF IO!SocketClose, TaskType, Starved, IO!Prompt
<1>6. CASE ~IO!Take /\ ~IO!Copy /\ ~IO!SocketClose
  <2>1. sock'.last = sock.last /\ (nc'.mbox = <<>> => nc.mbox = <<>>)
    BY <1>6, LastStays, MboxFills
  <2>2. CASE task' = task
    BY <1>1, <1>2, <2>1, <2>2 DEF Starved, IO!Prompt
  <2>3. CASE IO!SimpleRecv \/ IO!GetSockOpt
    <3>1. task'.off = 0 /\ task.off = 0
      <4>1. task.off = 0
        BY <2>3 DEF IO!SimpleRecv, IO!GetSockOpt, CallInv, Reading
      <4>2. task'.off = task.off \/ task'.off = 0
        <5>1. CASE IO!SimpleRecv
          BY <1>0, <5>1 DEF IO!SimpleRecv, TaskType
        <5>2. CASE IO!GetSockOpt
          <6>1. CASE task.errno # "WOULDBLOCK"
            <7>1. task' = IO!Returns(-1)
              BY <5>2, <6>1 DEF IO!GetSockOpt
            <7> QED
              BY <1>0, <7>1, Ends
          <6>2. CASE task.errno = "WOULDBLOCK"
            <7>1. PICK p : task' = [task EXCEPT !.errno = "OK", !.pc = p]
              BY <5>2, <6>2 DEF IO!GetSockOpt
            <7> QED
              BY <1>0, <7>1 DEF TaskType
          <6> QED
            BY <6>1, <6>2
        <5> QED
          BY <2>3, <5>1, <5>2
      <4> QED
        BY <4>1, <4>2
    <3> QED
      BY <3>1 DEF Starved, IO!Prompt
  <2>4. CASE IO!Enter
    <3>1. task'.pc \notin {"top", "wait"} \/ (nc.err = "OK" /\ task'.pc = "wait" /\ task'.off = task.off)
      BY <1>0, <2>4, NoDataIs DEF IO!Enter, TaskType
    <3>2. task.pc = "top" /\ sock.last = IO!None /\ nc' = nc /\ seen' = seen
      BY <2>4 DEF IO!Enter
    <3> QED
      BY <3>1, <3>2 DEF Starved, IO!Prompt
  <2>5. CASE IO!TimedOut \/ IO!Fin \/ IO!SimpleSend \/ IO!Recved \/ IO!Then \/ Writing
    <3>1. task' = task \/ task'.pc \notin {"top", "wait"}
      <4>1. CASE IO!TimedOut \/ IO!Fin
        <5>1. \E e : task' = IO!NoData(e)
          BY <4>1 DEF IO!TimedOut, IO!Fin
        <5>2. \A e : IO!NoData(e).pc \in {"recved", "idle", "sockopt"}
          BY <1>0, NoDataIs
        <5> QED
          BY <5>1, <5>2
      <4>2. CASE IO!SimpleSend
        BY <1>0, <4>2 DEF IO!SimpleSend, TaskType
      <4>3. CASE IO!Recved \/ IO!Then
        <5>1. task' = task \/ (\E r : task' = IO!Returns(r)) \/ (\E e : task' = IO!Failed(e))
          BY <4>3 DEF IO!Recved, IO!Then
        <5>2. (\A r : IO!Returns(r).pc = "idle") /\ (\A e : IO!Failed(e).pc = "sockopt")
          BY <1>0, Ends
        <5> QED
          BY <5>1, <5>2
      <4>4. CASE Writing
        BY <1>0, <4>4, WriteTask
      <4> QED
        BY <2>5, <4>1, <4>2, <4>3, <4>4
    <3> QED
      BY <2>2, <3>1 DEF Starved, IO!Prompt
  <2> QED
    BY <1>6, <2>2, <2>3, <2>4, <2>5, Changes
<1> QED
  BY <1>3, <1>4, <1>5, <1>6

-----------------------------------------------------------------------------
(* FlattenSeq, and what is in recvmbox                                     *)

\* Concatenation, of sequences of numbers.
LEMMA Assoc ==
  ASSUME NEW a \in Seq(Nat), NEW b \in Seq(Nat), NEW c \in Seq(Nat)
  PROVE  (a \o b) \o c = a \o (b \o c)
BY ConcatAssociative

\* Concatenation adds lengths, is associative, and has a neutral element.
LEMMA Joins ==
  \A a, b, c \in Seq(Nat) : /\ a \o b \in Seq(Nat) /\ Len(a \o b) = Len(a) + Len(b)
                            /\ (a \o b) \o c = a \o (b \o c)
                            /\ a \o <<>> = a /\ <<>> \o a = a /\ Len(a) \in Nat
<1> SUFFICES ASSUME NEW a \in Seq(Nat), NEW b \in Seq(Nat), NEW c \in Seq(Nat)
             PROVE  /\ a \o b \in Seq(Nat) /\ Len(a \o b) = Len(a) + Len(b)
                    /\ (a \o b) \o c = a \o (b \o c)
                    /\ a \o <<>> = a /\ <<>> \o a = a /\ Len(a) \in Nat
  OBVIOUS
<1>1. a \o b \in Seq(Nat) /\ Len(a \o b) = Len(a) + Len(b)
  BY ConcatProperties
<1>2. (a \o b) \o c = a \o (b \o c)
  BY ConcatAssociative
<1>3. a \o <<>> = a /\ <<>> \o a = a /\ Len(a) \in Nat
  BY ConcatEmptySeq
<1> QED
  BY <1>1, <1>2, <1>3

\* The pairs in order: a well-founded relation stands for induction.
Below == {ss \in Nat \X Nat : ss[1] < ss[2]}

\* Induction over the numbers: a set of counterexamples has a least one.
LEMMA LeastElement ==
  ASSUME NEW T, T \subseteq Nat, T # {}
  PROVE  \E m \in T : \A k \in T : m <= k
<1>1. IsWellFoundedOn(Below, Nat)
  BY NatLessThanWellFounded DEF OpToRel, Below
<1>2. PICK x \in T : \A y \in T : ~ (<<y, x>> \in Below)
  BY <1>1, WFMin
<1>3. ASSUME NEW y \in T PROVE x <= y
  <2>1. x \in Nat /\ y \in Nat
    OBVIOUS
  <2>2. ~ (y < x)
    BY <1>2, <2>1 DEF Below
  <2> QED
    BY <2>1, <2>2
<1> QED
  BY <1>3

\* f is the function that the definition of FlattenSeq names.
IsFlat(f, q, n) == f = [i \in 1..n |-> IF i = 1 THEN q[i] ELSE f[i - 1] \o q[i]]

\* The function of FlattenSeq for the first n sequences of q, and its last value.
TheFlat(q, n) == CHOOSE f : IsFlat(f, q, n)
Joined(q, n) == TheFlat(q, n)[n]

\* FlattenSeq is the last value of that function.
LEMMA FlattenIs == \A q : Len(q) # 0 => IO!FlattenSeq(q) = Joined(q, Len(q))
BY DEF IO!FlattenSeq, Joined, TheFlat, IsFlat

\* One step of the function.
LEMMA FlatAt ==
  ASSUME NEW q, NEW n \in Nat, NEW f, IsFlat(f, q, n), NEW i \in 1..n
  PROVE  f[i] = IF i = 1 THEN q[i] ELSE f[i - 1] \o q[i]
BY DEF IsFlat

\* There is a function that satisfies the recursion of FlattenSeq.
LEMMA FlatExists == ASSUME NEW q, NEW n \in Nat PROVE \E f : IsFlat(f, q, n)
<1> DEFINE T == {k \in Nat : ~ \E f : IsFlat(f, q, k)}
<1>1. SUFFICES ASSUME T # {} PROVE FALSE
  OBVIOUS
<1>2. PICK m \in T : \A k \in T : m <= k
  BY <1>1, LeastElement
<1>3. IsFlat([i \in 1..0 |-> <<>>], q, 0)
  BY DEF IsFlat
<1>4. m \in Nat /\ m # 0
  BY <1>3
<1>5. PICK f : IsFlat(f, q, m - 1)
  BY <1>2, <1>4
<1> DEFINE g == [i \in 1..m |-> IF i = m THEN (IF m = 1 THEN q[1] ELSE f[m - 1] \o q[m]) ELSE f[i]]
<1>6. ASSUME NEW i \in 1..m PROVE g[i] = IF i = 1 THEN q[i] ELSE g[i - 1] \o q[i]
  <2>1. CASE i = m
    <3>1. m # 1 => m - 1 \in 1..m /\ m - 1 # m
      BY <1>4
    <3> QED
      BY <1>4, <2>1, <3>1
  <2>2. CASE i # m
    <3>1. i \in 1..(m - 1) /\ (i # 1 => i - 1 \in 1..m /\ i - 1 # m)
      BY <1>4, <2>2
    <3>2. f[i] = IF i = 1 THEN q[i] ELSE f[i - 1] \o q[i]
      BY <1>5, <3>1 DEF IsFlat
    <3> QED
      BY <2>2, <3>1, <3>2
  <2> QED
    BY <2>1, <2>2
<1>7. IsFlat(g, q, m)
  BY <1>6 DEF IsFlat
<1> QED
  BY <1>2, <1>7

\* Two such functions agree where both are defined, if the sequences do.
LEMMA FlatUnique ==
  ASSUME NEW q, NEW r, NEW n \in Nat, NEW k \in Nat, NEW f, NEW g, IsFlat(f, q, n), IsFlat(g, r, k),
         NEW i \in Nat, 1 <= i, i <= n, i <= k, \A j \in 1..i : q[j] = r[j]
  PROVE  f[i] = g[i]
<1> DEFINE T == {j \in Nat : 1 <= j /\ j <= i /\ f[j] # g[j]}
<1>1. SUFFICES ASSUME T # {} PROVE FALSE
  OBVIOUS
<1>2. PICK m \in T : \A j \in T : m <= j
  BY <1>1, LeastElement
<1>3. m \in Nat /\ 1 <= m /\ m <= i /\ f[m] # g[m] /\ q[m] = r[m]
  BY <1>2
<1>4. m # 1
  BY <1>3 DEF IsFlat
<1>5. m - 1 \in Nat /\ 1 <= m - 1 /\ m - 1 <= i /\ m - 1 \notin T
  BY <1>2, <1>3, <1>4
<1>6. f[m - 1] = g[m - 1]
  BY <1>5
<1>7. f[m] = f[m - 1] \o q[m] /\ g[m] = g[m - 1] \o r[m]
  <2>1. m \in 1..n /\ m \in 1..k
    BY <1>3
  <2>2. f[m] = IF m = 1 THEN q[m] ELSE f[m - 1] \o q[m]
    BY <2>1, FlatAt
  <2>3. g[m] = IF m = 1 THEN r[m] ELSE g[m - 1] \o r[m]
    BY <2>1, FlatAt
  <2> QED
    BY <1>4, <2>2, <2>3
<1> QED
  BY <1>3, <1>6, <1>7

\* What is joined is that of the parts that are joined, whatever follows.
LEMMA JoinedSame ==
  ASSUME NEW q, NEW r, NEW n \in Nat, 1 <= n, \A j \in 1..n : q[j] = r[j]
  PROVE  Joined(q, n) = Joined(r, n)
<1>1. IsFlat(TheFlat(q, n), q, n) /\ IsFlat(TheFlat(r, n), r, n)
  BY FlatExists DEF TheFlat
<1> QED
  BY <1>1, FlatUnique DEF Joined

\* The recursion that FlattenSeq stands for.
LEMMA JoinedStep ==
  ASSUME NEW q, NEW n \in Nat, 1 <= n
  PROVE  Joined(q, n) = IF n = 1 THEN q[1] ELSE Joined(q, n - 1) \o q[n]
<1>1. IsFlat(TheFlat(q, n), q, n)
  BY FlatExists DEF TheFlat
<1>2. CASE n = 1
  BY <1>1, <1>2 DEF IsFlat, Joined
<1>3. CASE n # 1
  <2>1. PICK k \in Nat : k = n - 1 /\ 1 <= k /\ k <= n
    BY <1>3
  <2>2. IsFlat(TheFlat(q, k), q, k)
    BY FlatExists DEF TheFlat
  <2>3. TheFlat(q, n)[k] = TheFlat(q, k)[k]
    BY <1>1, <2>1, <2>2, FlatUnique
  <2>4. TheFlat(q, n)[n] = TheFlat(q, n)[n - 1] \o q[n]
    <3>1. PICK f : f = TheFlat(q, n)
      OBVIOUS
    <3>2. PICK i \in 1..n : i = n
      OBVIOUS
    <3>3. f[i] = IF i = 1 THEN q[i] ELSE f[i - 1] \o q[i]
      BY <1>1, <3>1, FlatAt
    <3> QED
      BY <1>3, <3>1, <3>2, <3>3
  <2> QED
    BY <1>3, <2>1, <2>3, <2>4 DEF Joined
<1> QED
  BY <1>2, <1>3

\* Sequences of numbers, joined, are one.
LEMMA JoinedType ==
  ASSUME NEW q, NEW n \in Nat, 1 <= n, \A i \in 1..n : q[i] \in Seq(Nat)
  PROVE  Joined(q, n) \in Seq(Nat)
<1> DEFINE T == {k \in Nat : 1 <= k /\ k <= n /\ Joined(q, k) \notin Seq(Nat)}
<1>1. SUFFICES ASSUME T # {} PROVE FALSE
  OBVIOUS
<1>2. PICK m \in T : \A k \in T : m <= k
  BY <1>1, LeastElement
<1>3. m \in Nat /\ 1 <= m /\ m <= n /\ Joined(q, m) \notin Seq(Nat) /\ q[m] \in Seq(Nat)
  BY <1>2
<1>4. m # 1
  BY <1>3, JoinedStep
<1>5. m - 1 \in Nat /\ 1 <= m - 1 /\ m - 1 <= n /\ m - 1 \notin T
  BY <1>2, <1>3, <1>4
<1>6. Joined(q, m - 1) \in Seq(Nat)
  BY <1>5
<1>7. Joined(q, m - 1) \o q[m] \in Seq(Nat)
  BY <1>3, <1>6, ConcatProperties
<1> QED
  BY <1>3, <1>4, <1>7, JoinedStep

\* The first part can be joined last.
LEMMA JoinedShift ==
  ASSUME NEW q, NEW r, NEW n \in Nat, 1 <= n, \A i \in 1..(n + 1) : q[i] \in Seq(Nat),
         \A i \in 1..n : r[i] = q[i + 1]
  PROVE  Joined(q, n + 1) = q[1] \o Joined(r, n)
<1> DEFINE T == {k \in Nat : 1 <= k /\ k <= n /\ Joined(q, k + 1) # q[1] \o Joined(r, k)}
<1>1. SUFFICES ASSUME Joined(q, n + 1) # q[1] \o Joined(r, n) PROVE FALSE
  OBVIOUS
<1>2. n \in T
  BY <1>1
<1>3. PICK m \in T : \A k \in T : m <= k
  BY <1>2, LeastElement
<1>4. m \in Nat /\ 1 <= m /\ m <= n /\ Joined(q, m + 1) # q[1] \o Joined(r, m)
  BY <1>3
<1>5. /\ r[m] = q[m + 1] /\ q[1] \in Seq(Nat)
      /\ \A i \in 1..n : r[i] \in Seq(Nat)
  <2>1. m \in 1..n /\ 1 \in 1..(n + 1)
    BY <1>4
  <2>2. ASSUME NEW i \in 1..n PROVE r[i] \in Seq(Nat)
    <3>1. i + 1 \in 1..(n + 1)
      OBVIOUS
    <3> QED
      BY <3>1
  <2> QED
    BY <2>1, <2>2
<1>6. PICK l \in Nat : l = m + 1 /\ 1 <= l /\ l # 1 /\ l - 1 = m
  BY <1>4
<1>7. Joined(q, l) = Joined(q, m) \o q[l]
  BY <1>6, JoinedStep
<1>8. CASE m = 1
  <2>1. Joined(q, m) = q[1] /\ Joined(r, m) = r[m]
    BY <1>8, JoinedStep
  <2> QED
    BY <1>4, <1>5, <1>6, <1>7, <2>1
<1>9. CASE m # 1
  <2>1. PICK j \in Nat : j = m - 1 /\ 1 <= j /\ j <= n /\ j + 1 = m /\ j < m
    BY <1>4, <1>9
  <2>2. j \notin T
    BY <1>3, <1>4, <2>1
  <2>3. Joined(q, m) = q[1] \o Joined(r, j)
    BY <2>1, <2>2
  <2>4. Joined(r, m) = Joined(r, j) \o r[m]
    BY <1>4, <1>9, <2>1, JoinedStep
  <2>5. Joined(r, j) \in Seq(Nat) /\ r[m] \in Seq(Nat)
    <3>1. \A i \in 1..j : r[i] \in Seq(Nat)
      BY <1>5, <2>1
    <3>2. m \in 1..n
      BY <1>4
    <3> QED
      BY <1>5, <2>1, <3>1, <3>2, JoinedType
  <2>6. (q[1] \o Joined(r, j)) \o r[m] = q[1] \o (Joined(r, j) \o r[m])
    <3>1. q[1] \in Seq(Nat) /\ Joined(r, j) \in Seq(Nat) /\ r[m] \in Seq(Nat)
      BY <1>5, <2>5
    <3> HIDE DEF T
    <3>2. PICK a \in Seq(Nat) : a = q[1]
      BY <3>1
    <3>3. PICK b \in Seq(Nat) : b = Joined(r, j)
      BY <3>1
    <3>4. PICK c \in Seq(Nat) : c = r[m]
      BY <3>1
    <3>5. (a \o b) \o c = a \o (b \o c)
      BY ConcatAssociative
    <3> QED
      BY <3>2, <3>3, <3>4, <3>5
  <2>7. q[l] = r[m] /\ Joined(q, m + 1) = Joined(q, l)
    <3>1. m + 1 = l /\ r[m] = q[m + 1]
      BY <1>4, <1>5, <1>6
    <3> QED
      BY <3>1
  <2>8. Joined(q, l) = (q[1] \o Joined(r, j)) \o r[m]
    BY <1>7, <2>3, <2>7
  <2>9. Joined(q, l) = q[1] \o Joined(r, m)
    BY <2>4, <2>6, <2>8
  <2> QED
    BY <1>4, <2>7, <2>9
<1> QED
  BY <1>8, <1>9

\* The bytes of a message.
DataOf(m) == IF m = IO!Null THEN <<>> ELSE m.data

\* What is in a message is a sequence of numbers.
LEMMA DataOfType ==
  /\ \A m \in Messages : DataOf(m) \in Seq(Nat)
  /\ \A p \in Kept : p.data \in Seq(Nat)
  /\ IO!None.data = <<>> /\ DataOf(IO!Null) = <<>>
  /\ \A p \in Pbuf : DataOf(p) = p.data
<1>1. Seq(Nat \ {0}) \subseteq Seq(Nat)
  BY SeqMonotonic, Nat \ {0} \subseteq Nat
<1>2. \A p \in Pbuf : p.data \in Seq(Nat)
  BY <1>1 DEF Pbuf, Data
<1>3. IO!None.data = <<>>
  BY DEF IO!None
<1> QED
  BY <1>2, <1>3, NotPbufs, EmptySeq DEF Messages, Kept, DataOf

\* The bytes of each message.
Parts(s) == [i \in DOMAIN s |-> DataOf(s[i])]

\* What is in recvmbox: of no message, of one more at the end, of one less at the front.
LEMMA PartsAre ==
  ASSUME NEW s \in Seq(Messages)
  PROVE  /\ IO!Contents(s) = IO!FlattenSeq(Parts(s)) /\ Len(Parts(s)) = Len(s)
         /\ \A i \in 1..Len(s) : Parts(s)[i] = DataOf(s[i]) /\ Parts(s)[i] \in Seq(Nat)
<1>1. IO!Contents(s) = IO!FlattenSeq(Parts(s))
  BY DEF IO!Contents, Parts, DataOf
<1>2. \A i \in 1..Len(s) : DataOf(s[i]) \in Seq(Nat)
  BY DataOfType
<1> QED
  BY <1>1, <1>2 DEF Parts

\* What is in recvmbox, one message at a time.
LEMMA ContentsIs ==
  ASSUME NEW s \in Seq(Messages)
  PROVE  IO!Contents(s) = IF s = <<>> THEN <<>> ELSE Joined(Parts(s), Len(s))
<1>1. CASE s = <<>>
  <2>1. Parts(s) = <<>>
    BY <1>1 DEF Parts
  <2>2. IO!FlattenSeq(<<>>) = <<>>
    BY DEF IO!FlattenSeq
  <2> QED
    BY <1>1, <2>1, <2>2, PartsAre
<1>2. CASE s # <<>>
  <2>1. Len(Parts(s)) = Len(s) /\ Len(s) # 0
    BY <1>2, PartsAre, EmptySeq
  <2> QED
    BY <1>2, <2>1, PartsAre, FlattenIs
<1> QED
  BY <1>1, <1>2

\* It is a sequence of numbers.
LEMMA ContentsType == ASSUME NEW s \in Seq(Messages) PROVE IO!Contents(s) \in Seq(Nat)
<1>1. s # <<>> => 1 <= Len(s) /\ Len(s) \in Nat
  BY EmptySeq
<1> QED
  BY <1>1, ContentsIs, PartsAre, JoinedType, EmptySeq

\* A message at the end adds its bytes at the end.
LEMMA ContentsAppend ==
  ASSUME NEW s \in Seq(Messages), NEW m \in Messages
  PROVE  IO!Contents(Append(s, m)) = IO!Contents(s) \o DataOf(m)
<1>1. PICK t : t = Append(s, m)
  OBVIOUS
<1>2. PICK n \in Nat : n = Len(s)
  BY LenProperties
<1>3. /\ t \in Seq(Messages) /\ Len(t) = n + 1 /\ t # <<>>
      /\ \A i \in 1..n : t[i] = s[i]
      /\ t[n + 1] = m
  BY <1>1, <1>2, AppendProperties
<1>4. IO!Contents(t) = Joined(Parts(t), n + 1)
  BY <1>3, ContentsIs
<1>5. \A i \in 1..(n + 1) : Parts(t)[i] = DataOf(t[i])
  BY <1>3, PartsAre
<1>6. Parts(t)[n + 1] = DataOf(m)
  BY <1>3, <1>5
<1>7. CASE s = <<>>
  <2>1. n = 0 /\ IO!Contents(s) = <<>>
    BY <1>2, <1>7, ContentsIs
  <2>2. Joined(Parts(t), 1) = Parts(t)[1]
    <3>1. PICK k \in Nat : k = 1 /\ 1 <= k
      OBVIOUS
    <3> QED
      BY <3>1, JoinedStep
  <2>3. <<>> \o DataOf(m) = DataOf(m)
    BY DataOfType, ConcatEmptySeq
  <2> QED
    BY <1>1, <1>4, <1>6, <2>1, <2>2, <2>3
<1>8. CASE s # <<>>
  <2>1. 1 <= n
    BY <1>2, <1>8, EmptySeq
  <2>2. PICK k \in Nat : k = n + 1 /\ 1 <= k /\ k # 1 /\ k - 1 = n
    BY <2>1
  <2>3. Joined(Parts(t), k) = Joined(Parts(t), n) \o Parts(t)[k]
    BY <2>2, JoinedStep
  <2>4. \A i \in 1..n : Parts(t)[i] = Parts(s)[i]
    <3>1. \A i \in 1..n : Parts(s)[i] = DataOf(s[i])
      BY <1>2, PartsAre
    <3> QED
      BY <1>3, <1>5, <3>1
  <2>5. Joined(Parts(t), n) = Joined(Parts(s), n)
    BY <2>1, <2>4, JoinedSame
  <2>6. IO!Contents(s) = Joined(Parts(s), n)
    BY <1>2, <1>8, ContentsIs
  <2> QED
    BY <1>1, <1>4, <1>6, <2>2, <2>3, <2>5, <2>6
<1> QED
  BY <1>7, <1>8

\* A message at the front has the first bytes.
LEMMA ContentsHead ==
  ASSUME NEW s \in Seq(Messages), s # <<>>
  PROVE  IO!Contents(s) = DataOf(Head(s)) \o IO!Contents(Tail(s))
<1>1. PICK t : t = Tail(s)
  OBVIOUS
<1>2. PICK n \in Nat : n = Len(s) - 1 /\ Len(s) = n + 1
  <2>1. Len(s) \in Nat /\ Len(s) # 0
    BY EmptySeq, LenProperties
  <2> QED
    BY <2>1
<1>3. t \in Seq(Messages) /\ Len(t) = n /\ \A i \in 1..n : t[i] = s[i + 1]
  BY <1>1, <1>2, HeadTailProperties
<1>4. Head(s) = s[1] /\ Head(s) \in Messages
  BY HeadTailProperties
<1>5. \A i \in 1..(n + 1) : Parts(s)[i] = DataOf(s[i]) /\ Parts(s)[i] \in Seq(Nat)
  BY <1>2, PartsAre
<1>6. Parts(s)[1] = DataOf(Head(s)) /\ DataOf(Head(s)) \in Seq(Nat)
  BY <1>4, <1>5, DataOfType
<1>7. IO!Contents(s) = Joined(Parts(s), n + 1)
  BY <1>2, ContentsIs
<1>8. CASE n = 0
  <2>1. t = <<>> /\ IO!Contents(t) = <<>>
    BY <1>3, <1>8, EmptySeq, ContentsIs
  <2>2. Joined(Parts(s), 1) = Parts(s)[1]
    <3>1. PICK k \in Nat : k = 1 /\ 1 <= k
      OBVIOUS
    <3> QED
      BY <3>1, JoinedStep
  <2>3. DataOf(Head(s)) \o <<>> = DataOf(Head(s))
    BY <1>6, ConcatEmptySeq
  <2> QED
    BY <1>1, <1>6, <1>7, <1>8, <2>1, <2>2, <2>3
<1>9. CASE n # 0
  <2>1. 1 <= n /\ t # <<>>
    BY <1>3, <1>9, EmptySeq
  <2>2. \A i \in 1..n : Parts(t)[i] = Parts(s)[i + 1]
    <3>1. \A i \in 1..n : Parts(t)[i] = DataOf(t[i])
      BY <1>3, PartsAre
    <3>2. \A i \in 1..n : i + 1 \in 1..(n + 1)
      OBVIOUS
    <3> QED
      BY <1>3, <1>5, <3>1, <3>2
  <2>3. Joined(Parts(s), n + 1) = Parts(s)[1] \o Joined(Parts(t), n)
    BY <1>5, <2>1, <2>2, JoinedShift
  <2>4. IO!Contents(t) = Joined(Parts(t), n)
    BY <1>3, <2>1, ContentsIs
  <2> QED
    BY <1>1, <1>6, <1>7, <2>3, <2>4
<1> QED
  BY <1>8, <1>9

-----------------------------------------------------------------------------
(* Bytes and the receive window                                            *)

\* The bytes that are left in lastdata.
HeldIn(s) == SubSeq(s.last.data, s.offset + 1, Len(s.last.data))

\* The three parts of what is unread are sequences of numbers.
LEMMA UnreadParts ==
  /\ \A s \in SockType : HeldIn(s) \in Seq(Nat)
  /\ \A c \in NcType : IO!Contents(c.mbox) \in Seq(Nat)
  /\ \A p \in PcbType : p.refused.data \in Seq(Nat)
<1>1. ASSUME NEW s \in SockType PROVE HeldIn(s) \in Seq(Nat)
  <2>1. PICK d \in Seq(Nat) : d = s.last.data
    BY DataOfType DEF SockType
  <2>2. PICK o \in Nat : o = s.offset
    BY DEF SockType
  <2>3. \A i \in (o + 1)..Len(d) : d[i] \in Nat
    OBVIOUS
  <2>4. SubSeq(d, o + 1, Len(d)) \in Seq(Nat)
    BY <2>3, SubSeqProperties
  <2> QED
    BY <2>1, <2>2, <2>4 DEF HeldIn
<1>2. ASSUME NEW c \in NcType PROVE IO!Contents(c.mbox) \in Seq(Nat)
  <2>1. c.mbox \in Seq(Messages)
    BY DEF NcType
  <2> QED
    BY <2>1, ContentsType
<1>3. ASSUME NEW p \in PcbType PROVE p.refused.data \in Seq(Nat)
  BY DataOfType DEF PcbType
<1> QED
  BY <1>1, <1>2, <1>3

\* Without a pbuf in lastdata nothing is left, of a fresh one everything.
LEMMA HeldFresh ==
  /\ \A s : s.last = IO!None /\ s.offset = 0 => HeldIn(s) = <<>>
  /\ \A s \in SockType : s.offset = 0 => HeldIn(s) = s.last.data
<1>1. ASSUME NEW s, s.last = IO!None, s.offset = 0 PROVE HeldIn(s) = <<>>
  <2>1. SubSeq(<<>>, 0 + 1, Len(<<>>)) = <<>>
    OBVIOUS
  <2> QED
    BY <1>1, <2>1, DataOfType DEF HeldIn
<1>2. ASSUME NEW s \in SockType, s.offset = 0 PROVE HeldIn(s) = s.last.data
  <2>1. PICK d \in Seq(Nat) : d = s.last.data
    BY DataOfType DEF SockType
  <2>2. SubSeq(d, 1, Len(d)) = d
    BY SubSeqFull
  <2>3. 0 + 1 = 1
    OBVIOUS
  <2> QED
    BY <1>2, <2>1, <2>2, <2>3 DEF HeldIn
<1> QED
  BY <1>1, <1>2

\* A copy takes from the front of what is left.
LEMMA CopyTakes ==
  ASSUME IOTypes, IO!Copy
  PROVE  \E x \in Seq(Nat) : /\ HeldIn(sock) = x \o HeldIn(sock') /\ seen'.got = seen.got \o x
                             /\ task'.off = task.off + Len(x)
<1>0. task \in TaskType /\ sock \in SockType /\ seen \in SeenType
  BY DEF IOTypes
<1> DEFINE rest == Len(sock.last.data) - sock.offset
           n == IO!Least(task.left, rest)
           x == SubSeq(sock.last.data, sock.offset + 1, sock.offset + n)
<1>1. /\ sock.last \in Pbuf /\ sock.last.data \in Seq(Nat) /\ Len(sock.last.data) \in Nat
      /\ sock.offset \in Nat /\ rest \in Nat /\ rest >= 1 /\ n \in Nat /\ n <= rest
      /\ x \in Seq(Nat) /\ Len(x) = n
  BY CopyIs
<1>2. /\ seen' = [seen EXCEPT !.got = @ \o x] /\ sock' = IO!Keep(n, rest)
      /\ sock.last # IO!None
  BY DEF IO!Copy
<1>3. task'.off = task.off + n
  BY <1>0 DEF IO!Copy, TaskType
<1>4. seen'.got = seen.got \o x
  BY <1>0, <1>2 DEF SeenType
<1>5. HeldIn(sock) = x \o HeldIn(sock')
  <2>1. PICK d \in Seq(Nat), o \in Nat, k \in Nat, r \in Nat :
          d = sock.last.data /\ o = sock.offset /\ k = n /\ r = rest
    BY <1>1
  <2>2. o + r = Len(d) /\ k <= r /\ r >= 1 /\ Len(d) \in Nat
    <3>1. PICK l \in Nat : l = Len(sock.last.data)
      BY <1>1
    <3>2. l = Len(d) /\ r = l - o
      BY <2>1, <3>1
    <3>3. k <= r /\ r >= 1
      BY <1>1, <2>1
    <3> QED
      BY <3>1, <3>2, <3>3
  <2>3. SubSeq(d, o + 1, o + k) \o SubSeq(d, (o + k) + 1, Len(d)) = SubSeq(d, o + 1, Len(d))
    <3>1. o + 1 \in 1..Len(d) + 1 /\ o + k \in (o + 1) - 1..Len(d) /\ Len(d) \in o + k..Len(d)
      BY <2>2
    <3> QED
      BY <3>1, ConcatAdjacentSubSeq
  <2>4. HeldIn(sock) = SubSeq(d, o + 1, Len(d)) /\ x = SubSeq(d, o + 1, o + k)
    BY <2>1 DEF HeldIn
  <2>5. /\ sock' = IO!Keep(k, r) /\ k <= r /\ r = Len(sock.last.data) - sock.offset
        /\ sock.last # IO!None
    BY <1>2, <2>1, <2>2
  <2>6. IF k = r THEN sock'.last = IO!None /\ sock'.offset = 0
        ELSE sock'.last = sock.last /\ sock'.offset = sock.offset + k
    BY <1>0, <2>5, KeepType
  <2>7. CASE k = r
    <3>1. HeldIn(sock') = <<>>
      BY <2>6, <2>7, HeldFresh
    <3>2. SubSeq(d, (o + k) + 1, Len(d)) = <<>>
      BY <2>2, <2>7, SubSeqEmpty
    <3> QED
      BY <2>3, <2>4, <3>1, <3>2
  <2>8. CASE k # r
    <3>1. HeldIn(sock') = SubSeq(d, (o + k) + 1, Len(d))
      BY <2>1, <2>6, <2>8 DEF HeldIn
    <3> QED
      BY <2>3, <2>4, <3>1
  <2> QED
    BY <2>7, <2>8
<1> HIDE DEF x, n, rest
<1> QED
  BY <1>1, <1>3, <1>4, <1>5

\* What only a read, a write, or the peer changes.
LEMMA GotStays ==
  ASSUME IOTypes, IONext, ~IO!Copy, ~IO!RecvTcp
  PROVE  seen'.got = seen.got /\ seen'.arrived = seen.arrived
<1>0. seen \in SeenType
  BY DEF IOTypes
<1>1. CASE IO!SimpleSend \/ IO!GotFin \/ IO!Store
  BY <1>0, <1>1 DEF IO!SimpleSend, IO!GotFin, IO!Store, SeenType
<1>2. CASE Writing
  BY <1>2, WriteKeeps
<1>3. CASE seen' = seen
  BY <1>3
<1> QED
  BY <1>1, <1>2, <1>3, Changes

\* Without a read and without new data, what is not read yet moves from the refused data
\* to recvmbox and from there to lastdata.
LEMMA UnreadStays ==
  ASSUME IOTypes, IONext, ~IO!Copy, ~IO!RecvTcp, pcb'.open
  PROVE  IO!Unread' = IO!Unread /\ pcb.open
<1>0. task \in TaskType /\ sock \in SockType /\ nc \in NcType /\ pcb \in PcbType
  BY DEF IOTypes
<1> DEFINE a == HeldIn(sock)
           b == IO!Contents(nc.mbox)
           c == pcb.refused.data
<1>1. /\ IO!Unread = a \o b \o c
      /\ a \in Seq(Nat) /\ b \in Seq(Nat) /\ c \in Seq(Nat)
  BY <1>0, UnreadParts DEF IO!Unread, IO!Held, HeldIn
<1>2. IO!Unread' = HeldIn(sock') \o IO!Contents(nc'.mbox) \o pcb'.refused.data
  BY DEF IO!Unread, IO!Held, HeldIn
<1>n. ASSUME nc' = [nc EXCEPT !.mbox = Append(@, IO!Null)] PROVE IO!Contents(nc'.mbox) = b
  <2>1. nc.mbox \in Seq(Messages) /\ nc'.mbox = Append(nc.mbox, IO!Null) /\ IO!Null \in Messages
    BY <1>0, <1>n DEF NcType, Messages
  <2>2. IO!Contents(Append(nc.mbox, IO!Null)) = b \o DataOf(IO!Null)
    BY <2>1, ContentsAppend
  <2>3. b \o <<>> = b
    BY <1>1, Joins
  <2> QED
    BY <2>1, <2>2, <2>3, DataOfType
<1> HIDE DEF a, b, c
<1>3. CASE IO!Take
  <2>1. /\ nc.mbox \in Seq(Messages) /\ nc.mbox # <<>> /\ nc'.mbox = Tail(nc.mbox)
        /\ Head(nc.mbox) \in Messages /\ pcb' = pcb /\ task.pc = "wait"
    BY <1>0, <1>3, TakeType DEF IO!Take, NcType
  <2>2. b = DataOf(Head(nc.mbox)) \o IO!Contents(nc'.mbox)
    BY <2>1, ContentsHead DEF b
  <2>3. IO!Contents(nc'.mbox) \in Seq(Nat) /\ DataOf(Head(nc.mbox)) \in Seq(Nat)
    <3>1. nc' \in NcType
      BY NcTyped
    <3> QED
      BY <2>1, <3>1, UnreadParts, DataOfType
  <2>4. a = <<>>
    <3>1. sock.last = IO!None /\ sock.offset = 0
      BY <2>1 DEF IOTypes, LastOK
    <3> QED
      BY <3>1, HeldFresh DEF a
  <2>5. HeldIn(sock') = DataOf(Head(nc.mbox))
    <3>1. CASE Head(nc.mbox) = IO!Null
      <4>1. sock' = sock
        BY <1>3, <3>1 DEF IO!Take
      <4> QED
        BY <2>4, <3>1, <4>1, DataOfType DEF a
    <3>2. CASE Head(nc.mbox) # IO!Null
      <4>1. sock'.last = Head(nc.mbox) /\ sock'.offset = sock.offset
        BY <1>0, <1>3, <3>2 DEF IO!Take, SockType
      <4>2. sock' \in SockType /\ sock.offset = 0
        BY <2>1, SockTyped DEF IOTypes, LastOK
      <4>3. Head(nc.mbox) \in Pbuf
        BY <2>1, <3>2 DEF Messages
      <4> QED
        BY <4>1, <4>2, <4>3, HeldFresh, DataOfType
    <3> QED
      BY <3>1, <3>2
  <2>6. a \o b = HeldIn(sock') \o IO!Contents(nc'.mbox)
    <3>1. <<>> \o b = b
      BY <1>1, Joins
    <3> QED
      BY <2>2, <2>4, <2>5, <3>1
  <2> QED
    BY <1>1, <1>2, <2>1, <2>6 DEF c
<1>4. CASE IO!Again
  <2>1. PICK m \in Messages : m = pcb.refused /\ m # IO!Null /\ m \in Pbuf
    <3>1. pcb.refused \in Pbuf
      BY <1>0, <1>4 DEF IO!Again, PcbType, Kept
    <3> QED
      BY <3>1, NotPbufs DEF Messages
  <2>2. /\ nc'.mbox = Append(nc.mbox, m) /\ nc.mbox \in Seq(Messages) /\ sock' = sock
        /\ pcb'.refused = IO!None /\ pcb'.open = pcb.open
    BY <1>0, <1>4, <2>1 DEF IO!Again, IO!Post, NcType, PcbType
  <2>3. IO!Contents(nc'.mbox) = b \o c
    <3>1. DataOf(m) = c
      BY <2>1, DataOfType DEF c
    <3>2. IO!Contents(Append(nc.mbox, m)) = IO!Contents(nc.mbox) \o DataOf(m)
      BY <2>2, ContentsAppend
    <3> QED
      BY <2>2, <3>1, <3>2 DEF b
  <2>4. IO!Unread' = a \o (b \o c) \o <<>>
    BY <1>2, <2>2, <2>3, DataOfType DEF a
  <2>5. a \o (b \o c) \o <<>> = a \o b \o c
    <3>1. b \o c \in Seq(Nat)
      BY <1>1, ConcatProperties
    <3>2. a \o (b \o c) \in Seq(Nat)
      BY <1>1, <3>1, ConcatProperties
    <3>3. a \o (b \o c) \o <<>> = a \o (b \o c)
      BY <3>2, ConcatEmptySeq
    <3>4. (a \o b) \o c = a \o (b \o c)
      <4>1. a \in Seq(Nat) /\ b \in Seq(Nat) /\ c \in Seq(Nat)
        BY <1>1
      <4> QED
        BY <4>1, Assoc
    <3> QED
      BY <3>3, <3>4
  <2> QED
    BY <1>1, <2>2, <2>4, <2>5
<1>5. CASE IO!GotFin \/ IO!Then
  <2>1. /\ sock' = sock /\ pcb'.refused = pcb.refused /\ pcb'.open = pcb.open
        /\ nc' = nc \/ nc' = [nc EXCEPT !.mbox = Append(@, IO!Null)]
    BY <1>0, <1>5 DEF IO!GotFin, IO!Then, IO!Post, PcbType
  <2>2. IO!Contents(nc'.mbox) = b
    BY <1>n, <2>1 DEF b
  <2> QED
    BY <1>1, <1>2, <2>1, <2>2 DEF a, c
<1>6. ASSUME nc'.mbox = nc.mbox, pcb'.refused = pcb.refused, pcb'.open = pcb.open, ~IO!Take,
             ~IO!SocketClose
      PROVE  IO!Unread' = IO!Unread /\ pcb.open
  <2>1. sock'.last = sock.last /\ sock'.offset = sock.offset
    BY <1>6, LastStays
  <2> QED
    BY <1>6, <2>1 DEF IO!Unread, IO!Held
<1>7. CASE IO!ErrTcp \/ IO!SocketClose
  <2>1. pcb'.open = FALSE
    BY <1>0, <1>7 DEF IO!ErrTcp, IO!SocketClose, PcbType
  <2> QED
    BY <2>1
<1>8. CASE IO!Fin \/ IO!Recved
  <2>1. 1 \in Nat /\ task.off \in Nat
    BY <1>0 DEF TaskType
  <2>2. pcb'.refused = pcb.refused /\ pcb'.open = pcb.open
    BY <1>0, <1>8, <2>1, OpenedType DEF IO!Fin, IO!Recved
  <2>3. nc'.mbox = nc.mbox
    BY <1>0, <1>8 DEF IO!Fin, IO!Recved, NcType
  <2>4. ~IO!Take /\ ~IO!SocketClose
    BY <1>8 DEF IO!Fin, IO!Recved, IO!Take, IO!SocketClose
  <2> QED
    BY <1>6, <2>2, <2>3, <2>4
<1>9. CASE Writing
  <2>1. nc'.mbox = nc.mbox /\ pcb'.refused = pcb.refused /\ pcb'.open = pcb.open /\ sock' = sock
    BY <1>9, WriteKeeps
  <2> QED
    BY <2>1 DEF IO!Unread, IO!Held
<1>10. CASE nc' = nc /\ pcb' = pcb
  BY <1>3, <1>6, <1>7, <1>10
<1> QED
  BY <1>3, <1>4, <1>5, <1>7, <1>8, <1>9, <1>10, Changes

\* New data is unread data, and takes from the window.
LEMMA UnreadArrives ==
  ASSUME IOTypes, IO!RecvTcp
  PROVE  \E n \in Nat :
           /\ seen'.arrived = seen.arrived + n /\ seen'.got = seen.got
           /\ IO!Unread' = IO!Unread \o IO!From(seen.arrived + 1, n)
           /\ IO!From(seen.arrived + 1, n) \in Seq(Nat) /\ Len(IO!From(seen.arrived + 1, n)) = n
           /\ pcb'.wnd = pcb.wnd - n /\ pcb.open /\ nc'.err = nc.err /\ task' = task
<1>0. sock \in SockType /\ nc \in NcType /\ pcb \in PcbType /\ seen \in SeenType
  BY DEF IOTypes
<1> DEFINE a == HeldIn(sock)
           b == IO!Contents(nc.mbox)
<1>1. PICK n \in 1..IO!Least(MaxPbuf, IO!Least(pcb.wnd, Bytes - seen.arrived)), push \in BOOLEAN :
        LET p == [data |-> IO!From(seen.arrived + 1, n), push |-> push]
        IN /\ seen' = [seen EXCEPT !.arrived = @ + n]
           /\ IF IO!Room THEN IO!Post(p, "none") /\ pcb' = [pcb EXCEPT !.wnd = @ - n]
              ELSE /\ pcb' = [pcb EXCEPT !.wnd = @ - n, !.refused = p]
                   /\ UNCHANGED <<nc, cb>>
  BY DEF IO!RecvTcp
<1>2. PICK p : p = [data |-> IO!From(seen.arrived + 1, n), push |-> push]
  OBVIOUS
<1>3. n \in Nat /\ p \in Pbuf
  BY <1>1, <1>2, Arriving
<1>4. PICK x \in Seq(Nat) : x = IO!From(seen.arrived + 1, n) /\ x = p.data /\ x = DataOf(p) /\ Len(x) = n
  <2>1. p.data = IO!From(seen.arrived + 1, n)
    BY <1>2
  <2>2. p.data \in Seq(Nat) /\ DataOf(p) = p.data
    BY <1>3, DataOfType DEF Kept
  <2>3. PICK f \in Nat : f = seen.arrived + 1 /\ f >= 1
    <3>1. seen.arrived \in Nat
      BY <1>0 DEF SeenType
    <3> QED
      BY <3>1
  <2>4. Len(IO!From(f, n)) = n
    BY <1>3, <2>3, FromIs
  <2> QED
    BY <2>1, <2>2, <2>3, <2>4
<1>5. /\ IO!Unread = a \o b \o pcb.refused.data
      /\ IO!Unread' = HeldIn(sock') \o IO!Contents(nc'.mbox) \o pcb'.refused.data
      /\ a \in Seq(Nat) /\ b \in Seq(Nat) /\ pcb.refused.data = <<>> /\ sock' = sock
  <2>1. IO!Unread = a \o b \o pcb.refused.data
    BY DEF IO!Unread, IO!Held, HeldIn
  <2>2. IO!Unread' = HeldIn(sock') \o IO!Contents(nc'.mbox) \o pcb'.refused.data
    BY DEF IO!Unread, IO!Held, HeldIn
  <2> QED
    BY <1>0, <2>1, <2>2, UnreadParts, DataOfType DEF IO!RecvTcp
<1> HIDE DEF a, b
<1>6. IO!Unread = a \o b /\ a \o b \in Seq(Nat) /\ HeldIn(sock') = a
  <2>1. a \o b \in Seq(Nat)
    BY <1>5, ConcatProperties
  <2>2. a \o b \o <<>> = a \o b
    BY <2>1, ConcatEmptySeq
  <2> QED
    BY <1>5, <2>1, <2>2 DEF a
<1>7. IO!Unread' = IO!Unread \o x /\ pcb'.wnd = pcb.wnd - n /\ nc'.err = nc.err
  <2>1. CASE IO!Room
    <3>1. PICK m \in Messages : m = p
      BY <1>3 DEF Messages
    <3>2. nc' = [nc EXCEPT !.mbox = Append(@, m)] /\ pcb' = [pcb EXCEPT !.wnd = @ - n]
      BY <1>1, <1>2, <2>1, <3>1 DEF IO!Post
    <3>3. /\ nc'.mbox = Append(nc.mbox, m) /\ nc.mbox \in Seq(Messages) /\ nc'.err = nc.err
          /\ pcb'.refused = pcb.refused /\ pcb'.wnd = pcb.wnd - n
      BY <1>0, <3>2 DEF NcType, PcbType
    <3>4. IO!Contents(Append(nc.mbox, m)) = IO!Contents(nc.mbox) \o DataOf(m)
      BY <3>3, ContentsAppend
    <3>5. IO!Contents(nc'.mbox) = b \o x
      BY <1>4, <3>1, <3>3, <3>4 DEF b
    <3>6. b \o x \in Seq(Nat)
      BY <1>5, ConcatProperties
    <3>7. a \o (b \o x) \in Seq(Nat)
      BY <1>5, <3>6, ConcatProperties
    <3>8. a \o (b \o x) \o <<>> = a \o (b \o x)
      BY <3>7, ConcatEmptySeq
    <3>9. (a \o b) \o x = a \o (b \o x)
      <4>1. a \in Seq(Nat) /\ b \in Seq(Nat)
        BY <1>5
      <4> QED
        BY <4>1, Assoc
    <3> QED
      BY <1>5, <1>6, <3>3, <3>5, <3>8, <3>9
  <2>2. CASE ~IO!Room
    <3>1. pcb' = [pcb EXCEPT !.wnd = @ - n, !.refused = p] /\ nc' = nc
      BY <1>1, <1>2, <2>2
    <3>2. pcb'.refused = p /\ pcb'.wnd = pcb.wnd - n
      BY <1>0, <3>1 DEF PcbType
    <3> QED
      BY <1>4, <1>5, <1>6, <3>1, <3>2 DEF b
  <2> QED
    BY <2>1, <2>2
<1>8. seen'.arrived = seen.arrived + n /\ seen'.got = seen.got /\ pcb.open /\ task' = task
  BY <1>0, <1>1 DEF SeenType, IO!RecvTcp
<1> QED
  BY <1>3, <1>4, <1>7, <1>8

\* No byte is lost, and every one is counted in the window once.
BytesInv == pcb.open => seen.got \o IO!Unread = IO!From(1, seen.arrived)
\* The window, what is unread and what the current read has make the whole window.
WndInv == pcb.open /\ nc.err = "OK" => pcb.wnd + Len(IO!Unread) + task.off = Wnd

\* What is unread is a sequence of numbers.
LEMMA UnreadType ==
  \A s \in SockType, c \in NcType, p \in PcbType :
    HeldIn(s) \o IO!Contents(c.mbox) \o p.refused.data \in Seq(Nat)
<1> TAKE s \in SockType, c \in NcType, p \in PcbType
<1> DEFINE x == HeldIn(s)
           y == IO!Contents(c.mbox)
           z == p.refused.data
<1>1. x \in Seq(Nat) /\ y \in Seq(Nat) /\ z \in Seq(Nat)
  BY UnreadParts
<1> HIDE DEF x, y, z
<1>2. x \o y \in Seq(Nat)
  BY <1>1, ConcatProperties
<1>3. x \o y \o z \in Seq(Nat)
  BY <1>1, <1>2, ConcatProperties
<1> QED
  BY <1>3 DEF x, y, z

\* A copy takes what it reads from what is not read yet.
LEMMA UnreadTaken ==
  ASSUME IOTypes, IO!Copy
  PROVE  \E x \in Seq(Nat) : /\ IO!Unread = x \o IO!Unread' /\ seen'.got = seen.got \o x
                             /\ task'.off = task.off + Len(x)
<1>1. PICK x \in Seq(Nat) : /\ HeldIn(sock) = x \o HeldIn(sock') /\ seen'.got = seen.got \o x
                            /\ task'.off = task.off + Len(x)
  BY CopyTakes
<1>2. nc' = nc /\ pcb' = pcb /\ IOTypes'
  <2>1. IONext
    BY DEF IONext, IO!Reader
  <2> QED
    BY <2>1, TypesStep DEF IO!Copy
<1> DEFINE h == HeldIn(sock')
           y == IO!Contents(nc.mbox)
           z == pcb.refused.data
<1>3. h \in Seq(Nat) /\ y \in Seq(Nat) /\ z \in Seq(Nat)
  BY <1>2, UnreadParts DEF IOTypes
<1>4. IO!Unread = HeldIn(sock) \o y \o z /\ IO!Unread' = h \o y \o z
  BY <1>2 DEF IO!Unread, IO!Held, HeldIn
<1>5. HeldIn(sock) = x \o h
  BY <1>1
<1> HIDE DEF h, y, z
<1>6. (x \o h) \o y = x \o (h \o y) /\ h \o y \in Seq(Nat)
  BY <1>3, Assoc, ConcatProperties
<1>7. (x \o (h \o y)) \o z = x \o ((h \o y) \o z)
  BY <1>3, <1>6, Assoc
<1>8. IO!Unread = x \o IO!Unread'
  BY <1>4, <1>5, <1>6, <1>7
<1> QED
  BY <1>1, <1>8

\* Every step keeps the bytes together.
LEMMA BytesStep == ASSUME IOTypes, BytesInv, IONext PROVE BytesInv'
<1> SUFFICES ASSUME pcb'.open
             PROVE  seen'.got \o IO!Unread' = IO!From(1, seen'.arrived)
  BY DEF BytesInv
<1>0. /\ seen.got \in Seq(Nat) /\ seen.arrived \in Nat
      /\ IO!Unread \in Seq(Nat) /\ IO!Unread' \in Seq(Nat)
  BY UnreadType, TypesStep DEF IOTypes, SeenType, IO!Unread, IO!Held, HeldIn
<1>1. CASE IO!Copy
  <2>1. PICK x \in Seq(Nat) : IO!Unread = x \o IO!Unread' /\ seen'.got = seen.got \o x
    BY <1>1, UnreadTaken
  <2>2. (seen.got \o x) \o IO!Unread' = seen.got \o (x \o IO!Unread')
    BY <1>0, Assoc
  <2>3. pcb.open /\ seen'.arrived = seen.arrived
    BY <1>1 DEF IO!Copy, IOTypes, SeenType
  <2> QED
    BY <2>1, <2>2, <2>3 DEF BytesInv
<1>2. CASE IO!RecvTcp
  <2>1. PICK n \in Nat :
           /\ seen'.arrived = seen.arrived + n /\ seen'.got = seen.got
           /\ IO!Unread' = IO!Unread \o IO!From(seen.arrived + 1, n)
           /\ IO!From(seen.arrived + 1, n) \in Seq(Nat) /\ pcb.open
    BY <1>2, UnreadArrives
  <2>2. PICK k \in Nat : k = seen.arrived /\ k + 1 = 1 + k
    BY <1>0
  <2>3. IO!From(1, k) \o IO!From(1 + k, n) = IO!From(1, k + n)
    <3>1. PICK b \in Nat : b = 1 /\ b >= 1
      OBVIOUS
    <3>2. IO!From(b, k) \o IO!From(b + k, n) = IO!From(b, k + n)
      BY <3>1, FromJoins
    <3> QED
      BY <3>1, <3>2
  <2>4. (seen.got \o IO!Unread) \o IO!From(seen.arrived + 1, n)
           = seen.got \o (IO!Unread \o IO!From(seen.arrived + 1, n))
    BY <1>0, <2>1, Assoc
  <2>5. seen.got \o IO!Unread = IO!From(1, k)
    BY <2>1, <2>2 DEF BytesInv
  <2>6. seen'.got \o IO!Unread' = IO!From(1, k) \o IO!From(1 + k, n)
    BY <2>1, <2>2, <2>4, <2>5
  <2> QED
    BY <2>1, <2>2, <2>3, <2>6
<1>3. CASE ~IO!Copy /\ ~IO!RecvTcp
  BY <1>3, GotStays, UnreadStays DEF BytesInv
<1> QED
  BY <1>1, <1>2, <1>3

\* What lwip_recvfrom has to give back changes by a copy, and when it is given back.
LEMMA OffMoves ==
  ASSUME IOTypes, CallInv, IONext, nc'.err = "OK", ~IO!Copy, ~IO!Recved
  PROVE  task'.off = task.off
<1>0. task \in TaskType
  BY DEF IOTypes
<1>1. CASE IO!SimpleRecv \/ IO!SimpleSend \/ IO!Take \/ IO!SocketClose
  BY <1>0, <1>1 DEF IO!SimpleRecv, IO!SimpleSend, IO!Take, IO!SocketClose, TaskType
<1>2. CASE IO!Enter \/ IO!TimedOut
  <2>1. task' = [task EXCEPT !.pc = "wait"] \/ \E e : task' = IO!NoData(e)
    BY <1>2 DEF IO!Enter, IO!TimedOut
  <2>2. [task EXCEPT !.pc = "wait"].off = task.off
    BY <1>0 DEF TaskType
  <2>3. \A e : IO!NoData(e).off = task.off
    BY <1>0, NoDataIs
  <2> QED
    BY <2>1, <2>2, <2>3
<1>3. CASE IO!Fin
  BY <1>3 DEF IO!Fin, IOTypes, NcType
<1>4. CASE Writing
  BY <1>4, WriteCases
<1>5. CASE IO!GetSockOpt
  <2>1. task.off = 0
    BY <1>5 DEF IO!GetSockOpt, CallInv, Reading
  <2>2. CASE task.errno # "WOULDBLOCK"
    <3>1. task' = IO!Returns(-1)
      BY <1>5, <2>2 DEF IO!GetSockOpt
    <3> QED
      BY <1>0, <2>1, <3>1, Ends
  <2>3. CASE task.errno = "WOULDBLOCK"
    <3>1. PICK p : task' = [task EXCEPT !.errno = "OK", !.pc = p]
      BY <1>5, <2>3 DEF IO!GetSockOpt
    <3> QED
      BY <1>0, <3>1 DEF TaskType
  <2> QED
    BY <2>2, <2>3
<1>6. CASE IO!Then
  BY <1>0, <1>6, Ends DEF IO!Then
<1>7. CASE task' = task
  BY <1>7
<1> QED
  BY <1>1, <1>2, <1>3, <1>4, <1>5, <1>6, <1>7, Changes

\* The window changes by data that arrives, and by tcp_recved.
LEMMA WndMoves ==
  ASSUME IOTypes, IONext, nc'.err = "OK", ~IO!RecvTcp, ~IO!Recved
  PROVE  pcb'.wnd = pcb.wnd
<1>0. pcb \in PcbType
  BY DEF IOTypes
<1>1. CASE IO!Fin
  BY <1>1 DEF IO!Fin, IOTypes, NcType
<1>2. CASE Writing
  BY <1>2, WriteKeeps
<1>3. CASE IO!Again \/ IO!GotFin \/ IO!ErrTcp \/ IO!SocketClose
  BY <1>0, <1>3 DEF IO!Again, IO!GotFin, IO!ErrTcp, IO!SocketClose, PcbType
<1>4. CASE pcb' = pcb
  BY <1>4
<1> QED
  BY <1>1, <1>2, <1>3, <1>4, Changes

\* Every step keeps the window whole.
LEMMA WndStep == ASSUME IOTypes, CallInv, WndInv, IONext PROVE WndInv'
<1> SUFFICES ASSUME pcb'.open, nc'.err = "OK"
             PROVE  pcb'.wnd + Len(IO!Unread') + task'.off = Wnd
  BY DEF WndInv
<1>0. /\ IO!Unread \in Seq(Nat) /\ IO!Unread' \in Seq(Nat)
      /\ Len(IO!Unread) \in Nat /\ Len(IO!Unread') \in Nat
      /\ pcb.wnd \in Nat /\ pcb'.wnd \in Nat /\ task.off \in Nat /\ task'.off \in Nat
  <2>1. IO!Unread \in Seq(Nat) /\ IO!Unread' \in Seq(Nat)
    BY UnreadType, TypesStep DEF IOTypes, IO!Unread, IO!Held, HeldIn
  <2>2. pcb.wnd \in Nat /\ pcb'.wnd \in Nat /\ task.off \in Nat /\ task'.off \in Nat
    BY TypesStep, Sizes DEF IOTypes, PcbType, TaskType
  <2> QED
    BY <2>1, <2>2
<1>e. nc.err = "OK"
  BY NcMoves
<1>1. CASE IO!Copy
  <2>1. PICK x \in Seq(Nat) : IO!Unread = x \o IO!Unread' /\ task'.off = task.off + Len(x)
    BY <1>1, UnreadTaken
  <2>2. Len(IO!Unread) = Len(x) + Len(IO!Unread') /\ Len(x) \in Nat
    BY <1>0, <2>1, ConcatProperties
  <2>3. pcb' = pcb
    BY <1>1 DEF IO!Copy
  <2> QED
    BY <1>0, <1>e, <2>1, <2>2, <2>3 DEF WndInv
<1>2. CASE IO!RecvTcp
  <2>1. PICK n \in Nat :
           /\ IO!Unread' = IO!Unread \o IO!From(seen.arrived + 1, n)
           /\ IO!From(seen.arrived + 1, n) \in Seq(Nat) /\ Len(IO!From(seen.arrived + 1, n)) = n
           /\ pcb'.wnd = pcb.wnd - n /\ pcb.open /\ task' = task
    BY <1>2, UnreadArrives
  <2>2. PICK x \in Seq(Nat) : x = IO!From(seen.arrived + 1, n)
    BY <2>1
  <2>3. Len(IO!Unread \o x) = Len(IO!Unread) + Len(x)
    BY <1>0, ConcatProperties
  <2>4. Len(IO!Unread') = Len(IO!Unread) + n
    BY <2>1, <2>2, <2>3
  <2> QED
    BY <1>0, <1>e, <2>1, <2>4 DEF WndInv
<1>3. CASE IO!Recved
  <2>1. IO!Unread' = IO!Unread /\ pcb.open
    <3>1. task.pc = "recved" /\ task' = IO!Returns(task.off)
      BY <1>3 DEF IO!Recved
    <3>2. task'.pc = "idle"
      BY <3>1, Ends DEF IOTypes
    <3>3. ~IO!Copy
      BY <3>1 DEF IO!Copy
    <3>4. ~IO!RecvTcp
      BY <3>1, <3>2 DEF IO!RecvTcp
    <3> QED
      BY <3>3, <3>4, UnreadStays
  <2>2. pcb'.wnd = IO!Least(Wnd, pcb.wnd + task.off) /\ task'.off = 0
    <3>1. PICK n \in Nat : n = task.off
      BY <1>0
    <3>2. pcb' = IO!Opened(n) /\ task' = IO!Returns(n)
      BY <1>3, <3>1 DEF IO!Recved
    <3>3. pcb'.wnd = IO!Least(Wnd, pcb.wnd + n)
      BY <2>1, <3>2, OpenedType DEF IOTypes
    <3>4. task'.off = 0
      BY <3>2, Ends DEF IOTypes
    <3> QED
      BY <3>1, <3>3, <3>4
  <2>3. pcb.wnd + Len(IO!Unread) + task.off = Wnd
    BY <1>e, <2>1 DEF WndInv
  <2>4. pcb'.wnd = pcb.wnd + task.off
    BY <1>0, <2>2, <2>3, Sizes DEF IO!Least
  <2> QED
    BY <1>0, <2>1, <2>2, <2>3, <2>4
<1>4. CASE ~IO!Copy /\ ~IO!RecvTcp /\ ~IO!Recved
  <2>1. IO!Unread' = IO!Unread /\ pcb.open /\ pcb'.wnd = pcb.wnd /\ task'.off = task.off
    BY <1>4, UnreadStays, OffMoves, WndMoves
  <2> QED
    BY <1>e, <2>1 DEF WndInv
<1> QED
  BY <1>1, <1>2, <1>3, <1>4

-----------------------------------------------------------------------------
(* The invariant of a session                                              *)

\* A session makes the steps of SocketIO, or leaves its variables alone.
LEMMA Transfers == [SessionNext]_allVars => IONext \/ UNCHANGED ioVars
<1> SUFFICES ASSUME [SessionNext]_allVars PROVE IONext \/ UNCHANGED ioVars
  OBVIOUS
<1>1. CASE Use
  BY <1>1 DEF Use, Transfer, IONext
<1>2. CASE Serve
  BY <1>2 DEF Serve, Transfer, IONext
<1>3. CASE Connect
  BY <1>3 DEF Connect
<1>4. CASE CloseIt
  BY <1>4 DEF CloseIt, IONext
<1>5. CASE UNCHANGED allVars
  BY <1>5 DEF allVars
<1> QED
  BY <1>1, <1>2, <1>3, <1>4, <1>5 DEF SessionNext

\* The inductive invariant of a connected socket.
IOInv == /\ IOTypes /\ Counted /\ Sleeping /\ CallInv
         /\ SendInv /\ Exact /\ Starved /\ BytesInv /\ WndInv

\* Nothing has arrived, and nothing is kept, when the socket is connected.
LEMMA InitIOInv == IO!Init => IOInv
<1> SUFFICES ASSUME IO!Init PROVE IOInv
  OBVIOUS
<1>1. Counted /\ Sleeping
  BY DEF IO!Init, Counted, Sleeping, Owed, FetchedNull, Early
<1>2. CallInv
  BY DEF IO!Init, CallInv, Reading
<1>3. SendInv /\ Exact /\ Starved
  BY DEF IO!Init, SendInv, Exact, Starved, IO!Prompt, Owed, FetchedNull, Early, UnderWay
<1>4. IO!Unread = <<>>
  <2>1. IO!Held = <<>>
    <3>1. sock.last.data = <<>> /\ sock.offset = 0
      BY DataOfType DEF IO!Init
    <3>2. SubSeq(<<>>, 0 + 1, Len(<<>>)) = <<>>
      OBVIOUS
    <3> QED
      BY <3>1, <3>2 DEF IO!Held
  <2>2. IO!Contents(nc.mbox) = <<>>
    <3>1. nc.mbox = <<>> /\ nc.mbox \in Seq(Messages)
      BY DEF IO!Init
    <3> QED
      BY <3>1, ContentsIs
  <2>3. pcb.refused.data = <<>>
    BY DataOfType DEF IO!Init
  <2> QED
    BY <2>1, <2>2, <2>3 DEF IO!Unread
<1>5. BytesInv
  <2>1. seen.got = <<>> /\ seen.arrived = 0
    BY DEF IO!Init
  <2>2. <<>> \o <<>> = <<>>
    OBVIOUS
  <2> QED
    BY <1>4, <2>1, <2>2, FromNone DEF BytesInv
<1>6. WndInv
  BY <1>4, Sizes DEF WndInv, IO!Init
<1> QED
  BY <1>1, <1>2, <1>3, <1>5, <1>6, InitTypes DEF IOInv

\* Every step of a session keeps it.
LEMMA NextIOInv == IOInv /\ [SessionNext]_allVars => IOInv'
<1> SUFFICES ASSUME IOInv, [SessionNext]_allVars PROVE IOInv'
  OBVIOUS
<1>1. CASE IONext
  <2>1. IOTypes' /\ Counted' /\ Sleeping' /\ CallInv'
    BY <1>1, TypesStep, CountedStep, SleepingStep, CallStep DEF IOInv
  <2>2. SendInv' /\ Exact' /\ Starved'
    BY <1>1, SendStep, ExactStep, StarvedStep DEF IOInv
  <2>3. BytesInv' /\ WndInv'
    BY <1>1, BytesStep, WndStep DEF IOInv
  <2> QED
    BY <2>1, <2>2, <2>3 DEF IOInv
<1>2. CASE UNCHANGED ioVars
  <2>0. task' = task /\ sock' = sock /\ nc' = nc /\ pcb' = pcb /\ cb' = cb /\ sel' = sel /\ seen' = seen
    BY <1>2 DEF ioVars
  <2>1. IOTypes' /\ Counted' /\ Sleeping' /\ CallInv'
    BY <2>0 DEF IOInv, IOTypes, LastOK, Counted, Sleeping, CallInv, Owed
  <2>2. SendInv' /\ Exact' /\ Starved'
    BY <2>0 DEF IOInv, SendInv, Exact, Starved, IO!Prompt, Owed
  <2>3. BytesInv' /\ WndInv'
    BY <2>0 DEF IOInv, BytesInv, WndInv, IO!Unread, IO!Held
  <2> QED
    BY <2>1, <2>2, <2>3 DEF IOInv
<1> QED
  BY <1>1, <1>2, Transfers

\* The inductive invariant holds in every state of a session.
LEMMA IOInvariance == SessionSpec => []IOInv
<1>1. SessionInit => IOInv
  BY InitIOInv DEF SessionInit
<1> QED
  BY <1>1, NextIOInv, PTL DEF SessionSpec

\* For any sizes, and any interleaving of the tasks with tcpip_thread: a task does not
\* sleep in lwip_select over a message in recvmbox, unless event_callback is on its way
\* to signal it (sockets.c lwip_select, event_callback).
THEOREM SelectToldHolds == SessionSpec => []SelectTold
<1>1. IOInv => SelectTold
  <2> SUFFICES ASSUME IOInv, sel.pc = "sleep", sel.sem = 0, nc.mbox # <<>>
               PROVE  cb.pc \in {"load", "store", "scan", "signal"}
    BY DEF SelectTold, IO!SelectTold
  <2>1. Len(nc.mbox) \in Nat /\ Len(nc.mbox) > 0
    BY EmptySeq, LenProperties DEF IOInv, IOTypes, NcType
  <2>2. Owed > 0
    BY <2>1, FetchedOne, EarlyOne DEF Owed
  <2> QED
    BY <2>2 DEF IOInv, Sleeping
<1> QED
  BY <1>1, IOInvariance, PTL

\* For any sizes of pbufs, mailbox, buffers and windows: no byte that arrived is lost,
\* read twice or out of order; every byte that was read is given back to the window
\* once; a send that reports success has given TCP its data once, but after a partial
\* timeout; a read with data waits for more only after a torn update of rcvevent
\* (sockets.c lwip_recvfrom and event_callback, api_msg.c recv_tcp and do_writemore,
\* lwip.c simpleSend).
THEOREM TransferInvHolds == SessionSpec => []TransferInv
<1>1. IOInv => TransferInv
  <2> SUFFICES ASSUME IOInv PROVE TransferInv
    OBVIOUS
  <2>1. IO!TypeOK
    <3>1. sock.waiting \in 0..1
      BY DEF IOInv, Sleeping
    <3>2. sock.offset \in 0..MaxPbuf
      <4>1. sock.offset \in Nat /\ sock.last \in Kept
        BY DEF IOInv, IOTypes, SockType
      <4>2. CASE sock.last = IO!None
        BY <4>2, Sizes DEF IOInv, IOTypes, LastOK
      <4>3. CASE sock.last # IO!None
        <5>1. sock.last.data \in Data
          BY <4>1, <4>3 DEF Kept, Pbuf
        <5>2. PICK k \in Nat : k = Len(sock.last.data) /\ k <= MaxPbuf
          BY <5>1, Sizes DEF Data
        <5>3. sock.offset < k
          BY <4>3, <5>2 DEF IOInv, IOTypes, LastOK
        <5> QED
          BY <4>1, <5>2, <5>3, Sizes
      <4> QED
        BY <4>2, <4>3
    <3> QED
      BY <3>1, <3>2 DEF IO!TypeOK, IOInv, IOTypes, TaskType, SockType, NcType, PcbType, CbType,
                        SelType, Places
  <2>2. IO!BytesKept
    BY DEF IOInv, BytesInv, IO!BytesKept
  <2>3. IO!WindowBack
    <3> SUFFICES ASSUME pcb.open, nc.err = "OK"
                 PROVE  pcb.wnd + Len(IO!Unread) + (IF task.pc \in Reading THEN task.off ELSE 0) = Wnd
      BY DEF IO!WindowBack, Reading
    <3>1. pcb.wnd + Len(IO!Unread) + task.off = Wnd
      BY DEF IOInv, WndInv
    <3>2. task.pc \notin Reading => task.off = 0
      BY DEF IOInv, CallInv
    <3> QED
      BY <3>1, <3>2
  <2>4. IO!SentOnce
    BY DEF IOInv, SendInv, IO!SentOnce
  <2>5. IO!Prompt
    BY DEF IOInv, Starved
  <2> QED
    BY <2>1, <2>2, <2>3, <2>4, <2>5 DEF TransferInv
<1> QED
  BY <1>1, IOInvariance, PTL

=============================================================================
