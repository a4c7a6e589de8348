---------------------------- MODULE SimpleConnect ----------------------------
(***************************************************************************)
(* simpleConnect (lwip.c): the caller starts connectTask, which blocks in  *)
(* lwip_connect, and waits CONNECT_TIMEOUT_VAL for the event that ends it. *)
(* Either way it deletes that task, although tcpip_thread may still have   *)
(* the task's message, which lies on the task's stack.  Afterwards the     *)
(* caller connects again, or closes the socket (simpleClose).              *)
(*                                                                         *)
(* Both tasks have one priority and preempt each other at any point.  The  *)
(* heap is assumed to have room for connectTask: the result of xTaskCreate *)
(* is not looked at.  Of the netconn only what a connection attempt and    *)
(* the close make of it is kept (module NetConn has the rest), and of a    *)
(* message whose attempt it belongs to.                                    *)
(***************************************************************************)
EXTENDS Integers, Sequences

CONSTANT MaxCalls          \* bound: calls of simpleConnect on the socket

ASSUME CallsAssumption == MaxCalls \in Nat \ {0}

Attempts == 1..MaxCalls
Close == MaxCalls + 1      \* the message of netconn_delete
NoMsg == 0

VARIABLES
  user,      \* the next step of the caller
  helper,    \* the next step of connectTask
  call,      \* the number of the attempt
  ret,       \* ret of simpleConnect, which connectTask writes through params
  err,       \* msg.err of the message of this attempt
  bits,      \* the event group of the socket
  mbox,      \* messages for tcpip_thread
  conn,      \* [state, pcb, cur, sem]: state, pcb, current_msg and op_completed;
             \* "free" is the state of a netconn that was freed
  late       \* the first attempt that was given up at its time limit, or 0

vars == <<user, helper, call, ret, err, bits, mbox, conn, late>>

TypeOK ==
  /\ user \in {"ready", "wait", "seen", "late", "delete", "close", "closed"}
  /\ helper \in {"none", "start", "blocked", "return", "store", "notify", "done"}
  /\ call \in 0..MaxCalls /\ ret \in {0, -1} /\ err \in {"OK", "ERROR"}
  /\ bits \subseteq {"INTERN", "CONNECTED", "DISCONNECTED", "TIMEOUT"}
  /\ mbox \in Seq(Attempts \cup {Close})
  /\ conn \in [state : {"NONE", "CONNECT", "free"},
               pcb : {"CLOSED", "SYN_SENT", "ESTABLISHED", "NULL"},
               cur : {NoMsg} \cup Attempts, sem : 0..1]
  /\ late \in 0..MaxCalls

Init ==
  /\ user = "ready" /\ helper = "none" /\ call = 0 /\ ret = -1 /\ err = "ERROR"
  /\ bits = {"DISCONNECTED"} /\ mbox = <<>> /\ late = 0
  /\ conn = [state |-> "NONE", pcb |-> "CLOSED", cur |-> NoMsg, sem |-> 0]

(***************************************************************************)
(* simpleConnect.                                                          *)
(***************************************************************************)

Start ==
  /\ user = "ready" /\ call < MaxCalls
  /\ user' = "wait" /\ helper' = "start"
  /\ call' = call + 1 /\ ret' = 0
  /\ UNCHANGED <<err, bits, mbox, conn, late>>

\* Mutant of Seen: the event is not cleared (xClearOnExit is pdFALSE).
SeenKeeps ==
  /\ user = "wait" /\ "INTERN" \in bits
  /\ user' = "seen"
  /\ UNCHANGED <<helper, call, ret, err, bits, mbox, conn, late>>

\* xEventGroupWaitBits finds the event ...
Seen ==
  /\ user = "wait" /\ "INTERN" \in bits
  /\ bits' = bits \ {"INTERN"}
  /\ user' = "seen"
  /\ UNCHANGED <<helper, call, ret, err, mbox, conn, late>>

\* ... or the time limit passes.
TimeLimit ==
  /\ user = "wait" /\ "INTERN" \notin bits
  /\ user' = "late" /\ late' = IF late = 0 THEN call ELSE late
  /\ UNCHANGED <<helper, call, ret, err, bits, mbox, conn>>

\* The socket is marked as connected, whatever lwip_connect returned.
MarkConnected ==
  /\ user = "seen"
  /\ bits' = (bits \ {"DISCONNECTED"}) \cup {"CONNECTED"}
  /\ user' = "delete"
  /\ UNCHANGED <<helper, call, ret, err, mbox, conn, late>>

MarkTimeout ==
  /\ user = "late"
  /\ bits' = (bits \ {"CONNECTED"}) \cup {"TIMEOUT", "DISCONNECTED"}
  /\ ret' = -1
  /\ user' = "delete"
  /\ UNCHANGED <<helper, call, err, mbox, conn, late>>

\* Mutant of Delete: connectTask is left alone.
DeleteForgets ==
  /\ user = "delete" /\ user' = "ready"
  /\ UNCHANGED <<helper, call, ret, err, bits, mbox, conn, late>>

\* vTaskDelete, return ret
Delete ==
  /\ user = "delete"
  /\ helper' = "none" /\ user' = "ready"
  /\ UNCHANGED <<call, ret, err, bits, mbox, conn, late>>

(***************************************************************************)
(* connectTask.                                                            *)
(***************************************************************************)

\* tcpip_apimsg sets err, and posts the message.
Post ==
  /\ helper = "start"
  /\ err' = "ERROR" /\ mbox' = Append(mbox, call)
  /\ helper' = "blocked"
  /\ UNCHANGED <<user, call, ret, bits, conn, late>>

Woken ==
  /\ helper = "blocked" /\ conn.sem = 1
  /\ conn' = [conn EXCEPT !.sem = 0]
  /\ helper' = "store"
  /\ UNCHANGED <<user, call, ret, err, bits, mbox, late>>

Store ==
  /\ helper = "store"
  /\ ret' = IF err = "OK" THEN 0 ELSE -1
  /\ helper' = "notify"
  /\ UNCHANGED <<user, call, err, bits, mbox, conn, late>>

Notify ==
  /\ helper = "notify"
  /\ bits' = bits \cup {"INTERN"}
  /\ helper' = "done"
  /\ UNCHANGED <<user, call, ret, err, mbox, conn, late>>

(***************************************************************************)
(* simpleClose, that is netconn_delete.                                    *)
(***************************************************************************)

PostClose ==
  /\ user = "ready"
  /\ mbox' = Append(mbox, Close)
  /\ user' = "close"
  /\ UNCHANGED <<helper, call, ret, err, bits, conn, late>>

\* The call is answered, and the netconn freed.
Closed ==
  /\ user = "close" /\ conn.sem = 1
  /\ conn' = [conn EXCEPT !.sem = 0, !.state = "free"]
  /\ user' = "closed"
  /\ UNCHANGED <<helper, call, ret, err, bits, mbox, late>>

(***************************************************************************)
(* tcpip_thread.  It writes the result into the message of an attempt; if  *)
(* the task is gone, into memory that is somebody else's by now.           *)
(***************************************************************************)

Answer(pcb, m, e) ==
  /\ conn' = [conn EXCEPT !.sem = 1, !.pcb = pcb,
                          !.cur = IF m \in {@, Close} THEN NoMsg ELSE @,
                          !.state = IF m \in {conn.cur, Close} /\ @ # "free" THEN "NONE" ELSE @]
  /\ err' = IF m = call /\ helper # "none" THEN e ELSE err

Thread == UNCHANGED <<user, helper, call, ret, bits, late>>

\* A connection attempt that is not refused at once is answered later.
DoConnect ==
  /\ mbox # <<>> /\ Head(mbox) # Close
  /\ mbox' = Tail(mbox)
  /\ \/ /\ conn.state = "NONE" /\ conn.pcb = "CLOSED"
        /\ conn' = [conn EXCEPT !.state = "CONNECT", !.pcb = "SYN_SENT", !.cur = Head(mbox)]
        /\ UNCHANGED err
     \/ Answer(conn.pcb, Head(mbox), "ERROR")        \* ERR_CLSD, ERR_ISCONN, ERR_MEM
  /\ Thread

\* do_connected
DoConnected ==
  /\ conn.pcb = "SYN_SENT"
  /\ Answer("ESTABLISHED", conn.cur, "OK")
  /\ UNCHANGED mbox /\ Thread

\* err_tcp: the attempt is refused, or given up.
ErrTcp ==
  /\ conn.pcb = "SYN_SENT"
  /\ Answer("NULL", conn.cur, "ERROR")
  /\ UNCHANGED mbox /\ Thread

\* do_delconn and do_close_internal: the message takes the place of one that is
\* still current.  A netconn that has been freed is closed all the same.
DoDelconn ==
  /\ mbox # <<>> /\ Head(mbox) = Close
  /\ mbox' = Tail(mbox)
  /\ Answer("NULL", Close, "OK")
  /\ Thread

Caller == Start \/ Seen \/ TimeLimit \/ MarkConnected \/ MarkTimeout \/ Delete
            \/ PostClose \/ Closed
Helper == Post \/ Woken \/ Store \/ Notify
Tcpip == DoConnect \/ DoConnected \/ ErrTcp \/ DoDelconn

Next == Caller \/ Helper \/ Tcpip

Spec == Init /\ [][Next]_vars

(***************************************************************************)
(* Properties.                                                             *)
(***************************************************************************)

\* connectTask reads its parameters and writes its result in the stack frame of
\* simpleConnect: it is gone when that returns.
FrameInUse == helper # "none" => user \in {"wait", "seen", "late", "delete"}

\* As long as no attempt was given up, netconn_delete frees the netconn after
\* tcpip_thread has closed it, and is not woken by the answer of another call.
\* After an attempt that was given up this does not hold.
FreedAfterClose == conn.state = "free" /\ late = 0 => mbox = <<>> /\ conn.pcb = "NULL"

Inv == TypeOK /\ FrameInUse /\ FreedAfterClose

\* simpleConnect returns 0 for a socket that is connected only, also when
\* connectTask ends at the time limit itself; but not after an earlier attempt
\* was given up, the event of which may have come too late.
ResultTrue ==
  user = "ready" /\ ret = 0 /\ (late = 0 \/ late = call) => conn.pcb = "ESTABLISHED"

=============================================================================
