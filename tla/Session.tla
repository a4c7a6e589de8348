------------------------------ MODULE Session -------------------------------
(***************************************************************************)
(* The life of a client's socket: simpleConnect (module SimpleConnect),    *)
(* then simpleRecv and simpleSend while another task selects on the socket *)
(* (module SocketIO), then simpleClose.                                    *)
(*                                                                         *)
(* The transfer is modelled for a connection none of whose attempts was    *)
(* given up at the time limit: the answer to such an attempt may end any   *)
(* later call, as the properties of SimpleConnect say.  conn.pcb is what   *)
(* the attempt made of the pcb; what becomes of it later is in SocketIO.   *)
(***************************************************************************)
EXTENDS SimpleConnect

CONSTANTS Bytes, MaxPbuf, MboxSize, MaxLength, SendLength, SndBuf, Wnd

ASSUME SizesAssumption ==
  {Bytes, MaxPbuf, MboxSize, MaxLength, SendLength, SndBuf, Wnd} \subseteq Nat \ {0}

VARIABLES task, sock, nc, pcb, cb, sel, seen

IO == INSTANCE SocketIO

ioVars == <<task, sock, nc, pcb, cb, sel, seen>>
allVars == <<vars, ioVars>>

SessionInit == Init /\ IO!Init

\* simpleConnect reported the connection, and tcpip_thread has not closed it yet.
Connected == user \in {"ready", "close"} /\ ret = 0 /\ late = 0 /\ conn.pcb = "ESTABLISHED"

Transfer(step) == Connected /\ step /\ UNCHANGED vars

\* The task and the one that selects use the socket until it is closed.
Use == user = "ready" /\ Transfer(IO!Calls \/ IO!Select)
Serve == Transfer(IO!Reader \/ IO!TimedOut \/ IO!Tcpip \/ IO!Network)

\* A socket that carried something is not connected again.
Connect == (Start \/ Seen \/ TimeLimit \/ MarkConnected \/ MarkTimeout \/ Delete \/ Helper
              \/ DoConnect \/ DoConnected \/ ErrTcp) /\ IO!Init /\ UNCHANGED ioVars

\* The socket is closed between two calls, and while nobody selects on it.
CloseIt == \/ PostClose /\ task.pc = "idle" /\ sel.pc = "out" /\ UNCHANGED ioVars
           \/ DoDelconn /\ IO!SocketClose
           \/ Closed /\ UNCHANGED ioVars

SessionNext == Use \/ Serve \/ Connect \/ CloseIt

\* The tasks run when they can.  tcpip_thread has the lower priority, so it may be
\* kept from running again and again, but not for ever: a task that selects sleeps
\* until its timeout.  Timeouts and the peer promise nothing.
Fairness == /\ WF_allVars(Transfer(IO!Reader))
            /\ SF_allVars(Transfer(IO!Tcpip))
            /\ WF_allVars(Transfer(IO!Resumes))

SessionSpec == SessionInit /\ [][SessionNext]_allVars /\ Fairness

-----------------------------------------------------------------------------
(* Properties                                                              *)

\* See SimpleConnect: the attempts, and the close, of a socket that is used too.
ConnectInv == Inv /\ ResultTrue

\* See SocketIO: no byte and no part of the window is lost, and no read waits
\* without a reason.
TransferInv == IO!TypeOK /\ IO!BytesKept /\ IO!WindowBack /\ IO!SentOnce /\ IO!Prompt

\* See SocketIO: the task that selects does not sleep over what has arrived.
SelectTold == IO!SelectTold

\* A read that waits returns when there is something for it, unless rcvevent is
\* wrong; a read and a write return when the connection was reset; the task that
\* selects comes back when it was told (recv_tcp, err_tcp, event_callback).
CallsReturn ==
  /\ (task.pc = "wait" /\ nc.mbox # <<>>) ~> (task.pc = "idle" \/ seen.torn)
  /\ (~pcb.open /\ task.pc # "closed") ~> (task.pc \in {"idle", "closed"})
  /\ (sel.pc = "sleep" /\ sel.signalled) ~> (sel.pc = "out")

=============================================================================
