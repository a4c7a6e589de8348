---------------------------- MODULE SimpleSocket ----------------------------
(***************************************************************************)
(* The descriptors of the simple sockets (lwip.c) on top of the socket     *)
(* table of api/sockets.c.  A task that opens sockets scans the table for  *)
(* a free entry, claims it, gives it an event group and marks it as a      *)
(* socket; it may hand the descriptor to another task, as demos/server.c   *)
(* does.  The task that has the descriptor closes it.                      *)
(*                                                                         *)
(* Tasks preempt each other between any two statements: SYS_ARCH_PROTECT   *)
(* is empty in this port.  The table Sock of lwip.c is shorter than that   *)
(* of sockets.c, and is indexed by the same descriptors; what lies around  *)
(* it is modelled as the two entries -1 and MaxSocket.                     *)
(***************************************************************************)
EXTENDS Integers, FiniteSets

CONSTANTS Openers,      \* tasks that call simpleSocket or simpleAccept
          Closers,      \* tasks that are given a descriptor (server_thread)
          NumSockets,   \* NUM_SOCKETS
          MaxSocket     \* MAX_SOCKET_NB

Tasks == Openers \cup Closers
Groups == 1..(Cardinality(Tasks) + NumSockets)

ASSUME SizesAssumption ==
  /\ NumSockets \in Nat /\ MaxSocket \in Nat \ {0} /\ MaxSocket <= NumSockets
  /\ IsFiniteSet(Tasks) /\ Openers \cap Closers = {}

VARIABLES
  conn,      \* is sockets[i].conn set
  isSocket,  \* Sock[i].isSocket
  events,    \* Sock[i].events, 0 is none yet
  alive,     \* the event groups that exist
  pc,        \* what each task does next
  fd,        \* the descriptor it works on
  accepts    \* is it in simpleAccept, else in simpleSocket

vars == <<conn, isSocket, events, alive, pc, fd, accepts>>

Entries == -1..MaxSocket

Goto(t, l) == pc' = [pc EXCEPT ![t] = l] /\ UNCHANGED <<fd, accepts>>

\* The call returns; the task has no descriptor.
Return(t) ==
  /\ pc' = [pc EXCEPT ![t] = "idle"]
  /\ fd' = [fd EXCEPT ![t] = 0]
  /\ accepts' = [accepts EXCEPT ![t] = FALSE]

Init ==
  /\ conn = [i \in 0..(NumSockets - 1) |-> FALSE]
  /\ isSocket = [i \in Entries |-> FALSE]
  /\ events = [i \in Entries |-> 0]
  /\ alive = {}
  /\ pc = [t \in Tasks |-> "idle"]
  /\ fd = [t \in Tasks |-> 0]
  /\ accepts = [t \in Tasks |-> FALSE]

(***************************************************************************)
(* simpleSocket and simpleAccept.                                          *)
(***************************************************************************)

\* lwip_socket made a netconn, or netconn_accept returned one.
Begin(t) ==
  /\ t \in Openers /\ pc[t] = "idle"
  /\ \E a \in BOOLEAN : accepts' = [accepts EXCEPT ![t] = a]
  /\ pc' = [pc EXCEPT ![t] = "scan"]
  /\ UNCHANGED <<conn, isSocket, events, alive, fd>>

\* There is none: the call ends with -1, but simpleAccept marks Sock[-1].
NoDescriptor(t) ==
  /\ Return(t)
  /\ isSocket' = IF accepts[t] THEN [isSocket EXCEPT ![-1] = TRUE] ELSE isSocket
  /\ UNCHANGED <<conn, events, alive>>

Refused(t) == pc[t] = "scan" /\ fd[t] = 0 /\ NoDescriptor(t)

\* alloc_socket looks at one entry.
Scan(t) ==
  /\ pc[t] = "scan"
  /\ \/ fd[t] = NumSockets /\ NoDescriptor(t)
     \/ /\ fd[t] < NumSockets
        /\ IF conn[fd[t]] THEN fd' = [fd EXCEPT ![t] = @ + 1] /\ UNCHANGED <<pc, accepts>>
                          ELSE Goto(t, "claim")
        /\ UNCHANGED <<conn, isSocket, events, alive>>

\* ... and takes it.
Claim(t) ==
  /\ pc[t] = "claim"
  /\ conn' = [conn EXCEPT ![fd[t]] = TRUE]
  /\ Goto(t, "check")
  /\ UNCHANGED <<isSocket, events, alive>>

\* A descriptor that is too large: simpleSocket compares with ">" and forgets
\* the socket, simpleAccept compares with ">=" and closes it.
Check(t) ==
  /\ pc[t] = "check"
  /\ IF accepts[t] /\ fd[t] >= MaxSocket THEN Goto(t, "reject")
     ELSE IF fd[t] > MaxSocket THEN Return(t) ELSE Goto(t, "group")
  /\ UNCHANGED <<conn, isSocket, events, alive>>

\* Mutant of Reject: the socket is not closed.
RejectForgets(t) ==
  /\ pc[t] = "reject"
  /\ Return(t)
  /\ UNCHANGED <<conn, isSocket, events, alive>>

Reject(t) ==
  /\ pc[t] = "reject"
  /\ conn' = [conn EXCEPT ![fd[t]] = FALSE]
  /\ Return(t)
  /\ UNCHANGED <<isSocket, events, alive>>

\* xEventGroupCreate; the heap may give memory back that was freed before.
Group(t) ==
  /\ pc[t] = "group"
  /\ \E g \in Groups \ alive :
        /\ \A h \in Groups \ alive : g <= h
        /\ events' = [events EXCEPT ![fd[t]] = g]
        /\ alive' = alive \cup {g}
  /\ Goto(t, "mark")
  /\ UNCHANGED <<conn, isSocket>>

Mark(t) ==
  /\ pc[t] = "mark"
  /\ isSocket' = [isSocket EXCEPT ![fd[t]] = TRUE]
  /\ Goto(t, "use")
  /\ UNCHANGED <<conn, events, alive>>

\* The server starts a task for the descriptor.
HandOver(t, c) ==
  /\ pc[t] = "use" /\ t \in Openers
  /\ c \in Closers /\ pc[c] = "idle"
  /\ fd' = [fd EXCEPT ![c] = fd[t], ![t] = 0]
  /\ pc' = [pc EXCEPT ![t] = "idle", ![c] = "use"]
  /\ accepts' = [accepts EXCEPT ![t] = FALSE]
  /\ UNCHANGED <<conn, isSocket, events, alive>>

(***************************************************************************)
(* simpleClose: the event group goes first; lwip_close may take long.      *)
(***************************************************************************)

\* Mutant of DeleteGroup: the entry of the table is freed first.
DeleteGroupFrees(t) ==
  /\ pc[t] = "use"
  /\ alive' = alive \ {events[fd[t]]}
  /\ conn' = [conn EXCEPT ![fd[t]] = FALSE]
  /\ Goto(t, "close")
  /\ UNCHANGED <<isSocket, events>>

DeleteGroup(t) ==
  /\ pc[t] = "use"
  /\ alive' = alive \ {events[fd[t]]}
  /\ Goto(t, "close")
  /\ UNCHANGED <<conn, isSocket, events>>

\* free_socket, at the end of lwip_close.
Free(t) ==
  /\ pc[t] = "close"
  /\ conn' = [conn EXCEPT ![fd[t]] = FALSE]
  /\ Goto(t, "unmark")
  /\ UNCHANGED <<isSocket, events, alive>>

\* Mutant of Unmark: whatever group the entry has by now is deleted.
UnmarkDeletes(t) ==
  /\ pc[t] = "unmark"
  /\ isSocket' = [isSocket EXCEPT ![fd[t]] = FALSE]
  /\ alive' = alive \ {events[fd[t]]}
  /\ Return(t)
  /\ UNCHANGED <<conn, events>>

Unmark(t) ==
  /\ pc[t] = "unmark"
  /\ isSocket' = [isSocket EXCEPT ![fd[t]] = FALSE]
  /\ Return(t)
  /\ UNCHANGED <<conn, events, alive>>

Step(t) ==
  \/ Begin(t) \/ Refused(t) \/ Scan(t) \/ Claim(t) \/ Check(t) \/ Reject(t)
  \/ Group(t) \/ Mark(t) \/ DeleteGroup(t) \/ Free(t) \/ Unmark(t)
  \/ \E c \in Closers : HandOver(t, c)

Next == \E t \in Tasks : Step(t)

Spec == Init /\ [][Next]_vars

(***************************************************************************)
(* Properties.                                                             *)
(***************************************************************************)

\* The descriptor is the task's, between the claim and free_socket.
Owns(t) == pc[t] \in {"check", "reject", "group", "mark", "use", "close"}

\* Every variable has its type.
TypeOK ==
  /\ conn \in [0..(NumSockets - 1) -> BOOLEAN]
  /\ isSocket \in [Entries -> BOOLEAN]
  /\ events \in [Entries -> Groups \cup {0}]
  /\ alive \subseteq Groups
  /\ pc \in [Tasks -> {"idle", "scan", "claim", "check", "reject", "group", "mark",
                       "use", "close", "unmark"}]
  /\ fd \in [Tasks -> 0..NumSockets]
  /\ accepts \in [Tasks -> BOOLEAN]

\* No two tasks have the same descriptor, although one that is being closed
\* may be taken again before simpleClose has returned (alloc_socket and
\* free_socket).
OneOwner == \A t, u \in Tasks : t # u /\ Owns(t) /\ Owns(u) => fd[t] # fd[u]

\* The event group of a socket in use exists and is no other socket's: a late
\* simpleClose of the old owner never deletes that of the new one.
OwnGroup ==
  \A t \in Tasks : pc[t] \in {"mark", "use"} =>
     /\ events[fd[t]] \in alive
     /\ \A u \in Tasks \ {t} : pc[u] \in {"mark", "use"} => events[fd[u]] # events[fd[t]]

\* No event group is lost: each that exists is that of a socket in use.
NoGroupLost ==
  \A g \in alive : \E t \in Tasks : pc[t] \in {"mark", "use"} /\ events[fd[t]] = g

\* The mark of a descriptor does not outlive its close: it is set only while
\* some task uses or closes the descriptor.
MarkIsOwned ==
  \A s \in 0..MaxSocket : isSocket[s] =>
     \E t \in Tasks : fd[t] = s /\ pc[t] \in {"use", "close", "unmark"}

\* No descriptor is lost, up to the one that simpleSocket lets pass.
NoDescriptorLost ==
  \A s \in 0..(NumSockets - 1) : conn[s] /\ s <= MaxSocket =>
     \E t \in Tasks : fd[t] = s /\ Owns(t)

\* Neither event groups nor descriptors are lost, and no mark stays behind.
NothingLost == NoGroupLost /\ NoDescriptorLost /\ MarkIsOwned

=============================================================================
