------------------------------ MODULE SocketIO ------------------------------
(***************************************************************************)
(* A connected TCP socket (api/sockets.c) between the task that reads and  *)
(* writes it with simpleRecv and simpleSend (lwip.c), a second task that   *)
(* waits in lwip_select until it can be read, and tcpip_thread, which      *)
(* calls recv_tcp, sent_tcp, poll_tcp and err_tcp (api_msg.c) and, from    *)
(* them, event_callback.                                                   *)
(*                                                                         *)
(* SYS_LIGHTWEIGHT_PROT is 0: SYS_ARCH_PROTECT does nothing.  The tasks of *)
(* the applications have the priority 3 (main.c) and tcpip_thread 2, so it *)
(* makes a step when both tasks are blocked, and a task may come between   *)
(* any two of its steps, the load and the store of rcvevent++ among them.  *)
(* A call through the mailbox of tcpip_thread is a single action, when the *)
(* thread is not in a callback.  Bytes are numbered from 1.                *)
(***************************************************************************)
EXTENDS Integers, Sequences, SequencesExt

CONSTANTS Bytes,        \* bound: bytes that the peer sends
          MaxPbuf,      \* bound: bytes in a pbuf
          MboxSize,     \* the size of recvmbox
          MaxLength,    \* bound: maxLength of simpleRecv
          SendLength,   \* length of simpleSend
          SndBuf,       \* TCP_SND_BUF
          Wnd           \* TCP_WND; all are positive, as module Session assumes

VARIABLES
  task,    \* the reader and writer: its step, the room left and the bytes read in
           \* lwip_recvfrom, the bytes that simpleSend counts, errno, ret
  sock,    \* struct lwip_sock: rcvevent, select_waiting, lastdata, lastoffset
  nc,      \* struct netconn: recvmbox, last_err if fatal, state, write_offset
  pcb,     \* what TCP has: rcv_wnd, snd_buf, refused data with its FIN
  cb,      \* tcpip_thread in event_callback: step, value loaded, what follows
  sel,     \* the task in lwip_select, with its select_cb
  seen     \* what went over the connection: bytes that arrived, were read and
           \* written, the end of the stream, torn updates, partial writes

ioVars == <<task, sock, nc, pcb, cb, sel, seen>>

None == [data |-> <<>>, push |-> FALSE]      \* no pbuf
Null == [data |-> <<0>>, push |-> FALSE]     \* the NULL message: the end

Least(a, b) == IF a < b THEN a ELSE b
From(first, n) == [i \in 1..n |-> first + i - 1]

TypeOK ==
  /\ task.pc \in {"idle", "top", "wait", "fin", "recved", "write", "blocked",
                  "sockopt", "closed"}
  /\ sock.rcvevent \in Int /\ sock.waiting \in 0..1 /\ sock.offset \in 0..MaxPbuf
  /\ Len(nc.mbox) <= MboxSize /\ nc.err \in {"OK", "CLSD", "RST"}
  /\ nc.offset \in 0..SendLength
  /\ pcb.wnd \in 0..Wnd /\ pcb.buf \in 0..SndBuf
  /\ cb.pc \in {"loop", "load", "store", "scan", "signal", "then"}
  /\ sel.pc \in {"out", "listed", "counted", "sleep"}

Init ==
  /\ task = [pc |-> "idle", call |-> "none", left |-> 0, off |-> 0,
             count |-> 0, errno |-> "OK", ret |-> 0]
  /\ sock = [rcvevent |-> 0, waiting |-> 0, last |-> None, offset |-> 0]
  /\ nc = [mbox |-> <<>>, err |-> "OK", writing |-> FALSE, offset |-> 0]
  /\ pcb = [open |-> TRUE, wnd |-> Wnd, buf |-> SndBuf, refused |-> None, fin |-> FALSE]
  /\ cb = [pc |-> "loop", n |-> 0, then |-> "none"]
  /\ sel = [pc |-> "out", signalled |-> FALSE, sem |-> 0]
  /\ seen = [arrived |-> 0, got |-> <<>>, out |-> <<>>, fin |-> FALSE,
             torn |-> FALSE, partial |-> FALSE]

\* tcpip_thread runs when no task of an application can.
TaskBlocked == \/ task.pc \in {"idle", "fin", "recved", "write", "blocked", "sockopt", "closed"}
               \/ task.pc = "wait" /\ nc.mbox = <<>>
SelectBlocked == sel.pc = "out" \/ (sel.pc = "sleep" /\ sel.sem = 0)
ThreadRuns == TaskBlocked /\ SelectBlocked
Loop == ThreadRuns /\ cb.pc = "loop"

-----------------------------------------------------------------------------
(* simpleRecv and lwip_recvfrom                                            *)

SimpleRecv ==
  /\ task.pc = "idle"
  /\ \E n \in 1..MaxLength :
       task' = [task EXCEPT !.pc = "top", !.call = "recv", !.left = n]
  /\ UNCHANGED <<sock, nc, pcb, cb, sel, seen>>

\* simpleRecv and simpleSend return r.
Returns(r) == [task EXCEPT !.pc = "idle", !.left = 0, !.off = 0, !.count = 0,
                           !.errno = "OK", !.ret = r]

\* Mutant of NoData: what was read is returned without netconn_recved.
NoDataKeeps(e) ==
  IF task.off > 0 THEN Returns(task.off)
  ELSE IF e = "CLSD" THEN Returns(0)
  ELSE [task EXCEPT !.pc = "sockopt", !.errno = e]

\* netconn_recv_data found no data: lwip_recvfrom returns what it has, 0 at the end
\* of the stream, or -1.
NoData(e) ==
  IF task.off > 0 THEN [task EXCEPT !.pc = "recved"]
  ELSE IF e = "CLSD" THEN Returns(0)
  ELSE [task EXCEPT !.pc = "sockopt", !.errno = e]

\* A fatal error keeps netconn_recv_data from recvmbox; without one it waits there.
Enter ==
  /\ task.pc = "top" /\ sock.last = None
  /\ task' = IF nc.err = "OK" THEN [task EXCEPT !.pc = "wait"] ELSE NoData(nc.err)
  /\ UNCHANGED <<sock, nc, pcb, cb, sel, seen>>

Take ==
  /\ task.pc = "wait" /\ nc.mbox # <<>>
  /\ nc' = [nc EXCEPT !.mbox = Tail(@)]
  /\ IF Head(nc.mbox) = Null
     THEN task' = [task EXCEPT !.pc = "fin"] /\ UNCHANGED sock
     ELSE /\ task' = [task EXCEPT !.pc = "top"]
          /\ sock' = [sock EXCEPT !.rcvevent = @ - 1, !.last = Head(nc.mbox)]
  /\ UNCHANGED <<pcb, cb, sel, seen>>

\* recv_timeout: ERR_TIMEOUT, which is EWOULDBLOCK as errno.
TimedOut ==
  /\ task.pc = "wait" /\ nc.mbox = <<>>
  /\ task' = NoData("WOULDBLOCK")
  /\ UNCHANGED <<sock, nc, pcb, cb, sel, seen>>

\* tcp_recved
Opened(n) == [pcb EXCEPT !.wnd = IF pcb.open THEN Least(Wnd, @ + n) ELSE @]

\* The NULL message was fetched: do_recv for one byte, RCVMINUS, ERR_CLSD.
Fin ==
  /\ Loop /\ task.pc = "fin"
  /\ pcb' = Opened(1)
  /\ sock' = [sock EXCEPT !.rcvevent = @ - 1]
  /\ nc' = [nc EXCEPT !.err = IF @ = "OK" THEN "CLSD" ELSE @]
  /\ task' = NoData("CLSD")
  /\ UNCHANGED <<cb, sel, seen>>

\* What a copy of n of the remaining bytes leaves in lastdata.
Keep(n, rest) == IF rest = n THEN [sock EXCEPT !.last = None, !.offset = 0]
                 ELSE [sock EXCEPT !.offset = @ + n]

Done(left, p) == left = 0 \/ p.push \/ sock.rcvevent <= 0

Copy ==
  LET p == sock.last
      rest == Len(p.data) - sock.offset
      n == Least(task.left, rest)
      left == task.left - n
  IN /\ task.pc = "top" /\ p # None
     /\ seen' = [seen EXCEPT !.got = @ \o SubSeq(p.data, sock.offset + 1, sock.offset + n)]
     /\ sock' = Keep(n, rest)
     /\ task' = [task EXCEPT !.left = left, !.off = @ + n,
                             !.pc = IF Done(left, p) THEN "recved" ELSE "top"]
     /\ UNCHANGED <<nc, pcb, cb, sel>>

\* netconn_recved, and lwip_recvfrom returns.
Recved ==
  /\ Loop /\ task.pc = "recved"
  /\ pcb' = Opened(task.off)
  /\ task' = Returns(task.off)
  /\ UNCHANGED <<sock, nc, cb, sel, seen>>

-----------------------------------------------------------------------------
(* simpleSend, lwip_send and do_write                                      *)

SimpleSend ==
  /\ task.pc = "idle"
  /\ task' = [task EXCEPT !.pc = "write", !.call = "send"]
  /\ seen' = [seen EXCEPT !.out = <<>>, !.partial = FALSE]
  /\ UNCHANGED <<sock, nc, pcb, cb, sel>>

\* lwip_send returns n bytes; simpleSend goes on from the start of its data.
Wrote(n) == LET c == task.count + n
            IN IF c < SendLength THEN [task EXCEPT !.count = c, !.pc = "write"] ELSE Returns(n)

Failed(e) == [task EXCEPT !.pc = "sockopt", !.errno = e]

\* do_writemore, when the netconn is n and the pcb p: send_timeout elapsed ...
TimeUp(n, p) ==
  /\ nc' = [n EXCEPT !.writing = FALSE] /\ pcb' = p
  /\ task' = IF n.offset = 0 THEN Failed("WOULDBLOCK") ELSE Wrote(n.offset)
  /\ seen' = [seen EXCEPT !.partial = @ \/ n.offset > 0]

\* ... or tcp_write takes what the send buffer has room for, or is out of memory.
WriteSome(n, p) ==
  LET len == Least(p.buf, SendLength - n.offset)
      all == n.offset + len = SendLength
  IN \/ /\ nc' = [n EXCEPT !.writing = ~all, !.offset = IF all THEN 0 ELSE @ + len]
        /\ pcb' = [p EXCEPT !.buf = @ - len]
        /\ seen' = [seen EXCEPT !.out = @ \o From(n.offset + 1, len)]
        /\ task' = IF all THEN Wrote(SendLength) ELSE [task EXCEPT !.pc = "blocked"]
     \/ /\ nc' = n /\ pcb' = p
        /\ task' = [task EXCEPT !.pc = "blocked"] /\ UNCHANGED seen

WriteMore(n, p) == TimeUp(n, p) \/ WriteSome(n, p)

DoWrite ==
  /\ Loop /\ task.pc = "write"
  /\ IF nc.err # "OK"
     THEN task' = Failed(nc.err) /\ UNCHANGED <<nc, pcb, seen>>
     ELSE WriteMore([nc EXCEPT !.writing = TRUE, !.offset = 0], pcb)
  /\ UNCHANGED <<sock, cb, sel>>

\* The peer acknowledges bytes: sent_tcp.
SentTcp ==
  /\ Loop /\ pcb.open
  /\ \E n \in 1..(SndBuf - pcb.buf) :
       LET p == [pcb EXCEPT !.buf = @ + n]
       IN IF nc.writing THEN WriteMore(nc, p)
          ELSE pcb' = p /\ UNCHANGED <<task, nc, seen>>
  /\ UNCHANGED <<sock, cb, sel>>

PollTcp ==
  /\ Loop /\ pcb.open /\ nc.writing
  /\ WriteMore(nc, pcb)
  /\ UNCHANGED <<sock, cb, sel>>

\* A call failed: simpleSend and simpleRecv read SO_ERROR, and try again after a timeout.
GetSockOpt ==
  /\ Loop /\ task.pc = "sockopt"
  /\ task' = IF task.errno # "WOULDBLOCK" THEN Returns(-1)
             ELSE [task EXCEPT !.errno = "OK",
                               !.pc = IF task.call = "send" THEN "write" ELSE "top"]
  /\ UNCHANGED <<sock, nc, pcb, cb, sel, seen>>

-----------------------------------------------------------------------------
(* tcpip_thread: recv_tcp and err_tcp, and event_callback for RCVPLUS      *)

Plus(then) == cb' = [cb EXCEPT !.pc = "load", !.then = then]

\* recv_tcp; what finds no room is kept by TCP, but for the NULL message.
Post(m, then) == nc' = [nc EXCEPT !.mbox = Append(@, m)] /\ Plus(then)
Room == Len(nc.mbox) < MboxSize

RecvTcp ==
  /\ Loop /\ pcb.open /\ pcb.refused = None /\ ~seen.fin
  /\ \E n \in 1..Least(MaxPbuf, Least(pcb.wnd, Bytes - seen.arrived)), push \in BOOLEAN :
       LET p == [data |-> From(seen.arrived + 1, n), push |-> push]
       IN /\ seen' = [seen EXCEPT !.arrived = @ + n]
          /\ IF Room THEN Post(p, "none") /\ pcb' = [pcb EXCEPT !.wnd = @ - n]
             ELSE /\ pcb' = [pcb EXCEPT !.wnd = @ - n, !.refused = p]
                  /\ UNCHANGED <<nc, cb>>
  /\ UNCHANGED <<task, sock, sel>>

\* tcp_process_refused_data
Again ==
  /\ Loop /\ pcb.open /\ pcb.refused # None /\ Room
  /\ Post(pcb.refused, IF pcb.fin THEN "fin" ELSE "none")
  /\ pcb' = [pcb EXCEPT !.refused = None, !.fin = FALSE]
  /\ UNCHANGED <<task, sock, sel, seen>>

\* The peer has closed its side.
GotFin ==
  /\ Loop /\ pcb.open /\ ~seen.fin
  /\ seen' = [seen EXCEPT !.fin = TRUE]
  /\ IF pcb.refused # None THEN pcb' = [pcb EXCEPT !.fin = TRUE] /\ UNCHANGED <<nc, cb>>
     ELSE /\ UNCHANGED pcb
          /\ IF Room THEN Post(Null, "none") ELSE UNCHANGED <<nc, cb>>
  /\ UNCHANGED <<task, sock, sel>>

\* err_tcp: the events come first, then the NULL message and the answer to a write.
ErrTcp ==
  /\ Loop /\ pcb.open
  /\ pcb' = [pcb EXCEPT !.open = FALSE, !.refused = None, !.fin = FALSE]
  /\ nc' = [nc EXCEPT !.err = "RST", !.writing = FALSE]
  /\ Plus("reset")
  /\ UNCHANGED <<task, sock, sel, seen>>

Callback(pc) == ThreadRuns /\ cb.pc = pc /\ UNCHANGED <<task, pcb>>

Load ==
  /\ Callback("load")
  /\ cb' = [cb EXCEPT !.pc = "store", !.n = sock.rcvevent]
  /\ UNCHANGED <<sock, nc, sel, seen>>

Store ==
  /\ Callback("store")
  /\ sock' = [sock EXCEPT !.rcvevent = cb.n + 1]
  /\ seen' = [seen EXCEPT !.torn = @ \/ sock.rcvevent # cb.n]
  /\ cb' = [cb EXCEPT !.pc = "scan", !.n = 0]
  /\ UNCHANGED <<nc, sel>>

\* Mutant of Wants: the first message does not count.
WantsMore == sock.waiting > 0 /\ sel.pc # "out" /\ ~sel.signalled /\ sock.rcvevent > 1

\* select_waiting, then select_cb_list
Wants == sock.waiting > 0 /\ sel.pc # "out" /\ ~sel.signalled /\ sock.rcvevent > 0

Scan ==
  /\ Callback("scan")
  /\ cb' = [cb EXCEPT !.pc = IF Wants THEN "signal" ELSE "then"]
  /\ UNCHANGED <<sock, nc, sel, seen>>

\* The select may have returned since: its select_cb is gone, and so is the semaphore.
Signal ==
  /\ Callback("signal")
  /\ sel' = IF sel.pc = "out" THEN sel ELSE [sel EXCEPT !.signalled = TRUE, !.sem = 1]
  /\ cb' = [cb EXCEPT !.pc = "then"]
  /\ UNCHANGED <<sock, nc, seen>>

\* Mutant of Then: a task that is blocked in a write is left there.
ThenQuiet ==
  /\ ThreadRuns /\ cb.pc = "then"
  /\ IF cb.then = "fin" /\ Room THEN Post(Null, "none")
     ELSE /\ nc' = IF cb.then = "reset" /\ Room THEN [nc EXCEPT !.mbox = Append(@, Null)] ELSE nc
          /\ cb' = [cb EXCEPT !.pc = "loop", !.then = "none"]
  /\ UNCHANGED <<task, sock, pcb, sel, seen>>

\* What the caller of event_callback does next.
Then ==
  /\ ThreadRuns /\ cb.pc = "then"
  /\ IF cb.then = "fin" /\ Room THEN Post(Null, "none")
     ELSE /\ nc' = IF cb.then = "reset" /\ Room THEN [nc EXCEPT !.mbox = Append(@, Null)] ELSE nc
          /\ cb' = [cb EXCEPT !.pc = "loop", !.then = "none"]
  /\ task' = IF cb.then = "reset" /\ task.pc = "blocked" THEN Failed("RST") ELSE task
  /\ UNCHANGED <<sock, pcb, sel, seen>>

-----------------------------------------------------------------------------
(* lwip_select for reading, by the other task                              *)

Readable == sock.last # None \/ sock.rcvevent > 0

\* No event yet: the select_cb goes on the list ...
Enlist ==
  /\ sel.pc = "out" /\ task.pc # "closed" /\ ~Readable
  /\ sel' = [pc |-> "listed", signalled |-> FALSE, sem |-> 0]
  /\ UNCHANGED <<task, sock, nc, pcb, cb, seen>>

\* ... the socket counts it ...
Count ==
  /\ sel.pc = "listed"
  /\ sel' = [sel EXCEPT !.pc = "counted"]
  /\ sock' = [sock EXCEPT !.waiting = @ + 1]
  /\ UNCHANGED <<task, nc, pcb, cb, seen>>

Leaves == /\ sel' = [pc |-> "out", signalled |-> FALSE, sem |-> 0]
          /\ sock' = [sock EXCEPT !.waiting = @ - 1]

\* ... and it looks again before it sleeps.
Rescan ==
  /\ sel.pc = "counted"
  /\ IF Readable THEN Leaves ELSE sel' = [sel EXCEPT !.pc = "sleep"] /\ UNCHANGED sock
  /\ UNCHANGED <<task, nc, pcb, cb, seen>>

\* Woken by the semaphore, or by its timeout.
Wake ==
  /\ sel.pc = "sleep"
  /\ Leaves
  /\ UNCHANGED <<task, nc, pcb, cb, seen>>

-----------------------------------------------------------------------------
\* lwip_close: do_delconn drains recvmbox and closes the pcb, free_socket frees
\* lastdata.  Bound: no task selects on a socket that is closed.
SocketClose ==
  /\ Loop /\ task.pc = "idle" /\ sel.pc = "out"
  /\ task' = [task EXCEPT !.pc = "closed"]
  /\ nc' = [nc EXCEPT !.mbox = <<>>]
  /\ pcb' = [pcb EXCEPT !.open = FALSE, !.refused = None, !.fin = FALSE]
  /\ sock' = [sock EXCEPT !.last = None, !.offset = 0]
  /\ UNCHANGED <<cb, sel, seen>>

Calls == SimpleRecv \/ SimpleSend
Reader == Enter \/ Take \/ Copy
Tcpip == \/ Fin \/ Recved \/ DoWrite \/ GetSockOpt
         \/ Load \/ Store \/ Scan \/ Signal \/ Then \/ Again
Network == SentTcp \/ PollTcp \/ RecvTcp \/ GotFin \/ ErrTcp
Resumes == Count \/ Rescan \/ (sel.sem = 1 /\ Wake)
Select == Enlist \/ Count \/ Rescan \/ Wake

-----------------------------------------------------------------------------
(* Properties                                                              *)

Contents(s) == FlattenSeq([i \in DOMAIN s |-> IF s[i] = Null THEN <<>> ELSE s[i].data])
Held == SubSeq(sock.last.data, sock.offset + 1, Len(sock.last.data))
Unread == Held \o Contents(nc.mbox) \o pcb.refused.data

\* Every byte that arrived is read once and in order, or is still kept, across
\* reads that take a part of a pbuf, or several (lwip_recvfrom, lastoffset).
BytesKept == pcb.open => seen.got \o Unread = From(1, seen.arrived)

\* Every byte that was read is given back to the receive window once, on all the
\* ways out of lwip_recvfrom (netconn_recved).
WindowBack ==
  pcb.open /\ nc.err = "OK" =>
    pcb.wnd + Len(Unread) + (IF task.pc \in {"top", "wait", "fin", "recved"}
                             THEN task.off ELSE 0) = Wnd

\* simpleSend that did not fail has given its data to TCP once, unless a send timed
\* out after a part of it: then it starts again and counts both.
SentOnce ==
  task.pc = "idle" /\ task.call = "send" /\ task.ret > 0 /\ ~seen.partial =>
    seen.out = From(1, SendLength)

\* A read that has data waits for more only if an increment of rcvevent was made on
\* a value that was not the last: the counter is then too high for good.
Prompt == task.pc = "wait" /\ task.off > 0 /\ nc.mbox = <<>> => seen.torn

\* lwip_select does not sleep over a message in recvmbox, unless tcpip_thread is
\* about to tell it.
SelectTold ==
  sel.pc = "sleep" /\ sel.sem = 0 /\ nc.mbox # <<>>
    => cb.pc \in {"load", "store", "scan", "signal"}

=============================================================================
