-------------------------------- MODULE Dhcp --------------------------------
(***************************************************************************)
(* The DHCP client (core/dhcp.c), the task that supervises its first       *)
(* address (dhcp_task, lwip.c), and the servers.                           *)
(*                                                                         *)
(* Messages and ARP replies are handled in tcpip_thread.  The two timers   *)
(* of the client are run twice: by tcpip_thread (core/timers.c) and by     *)
(* dhcp_task, which has a higher priority, that of the main task, and no   *)
(* lock.  So tcpip_thread makes a step for each test of a timer, of the    *)
(* transaction id and of the state, and one for each handler, and          *)
(* dhcp_task comes between any two; what tcpip_thread found is by then no  *)
(* longer so.  dhcp_task itself runs through from one delay to the next:   *)
(* where it waits, for memory or for the transmitter, the holder only gets *)
(* to give that back.                                                      *)
(*                                                                         *)
(* A handler (dhcp_discover, dhcp_select, ..., dhcp_bind) is one step, and *)
(* so are the tests of one if-chain.  Left out is that dhcp_task comes     *)
(* inside one, as between dhcp_set_state, dhcp_create_msg and tries++:     *)
(* there both tasks would write one message (p_out, msg_out), which        *)
(* dhcp_create_msg asserts they do not.                                    *)
(*                                                                         *)
(* Nothing in the repository reports a change of the link to the stack, so *)
(* dhcp_network_changed and the state REBOOTING are never reached.         *)
(***************************************************************************)
EXTENDS Integers, FiniteSets

CONSTANTS Addrs, NoIp,
          GiveUp,        \* MAX_DHCP_TRIES
          RequestTries,  \* tries in REQUESTING before discovery starts over
          CheckTries,    \* tries in CHECKING before the address is taken
          RebindTries,   \* tries in REBINDING before the lease is released
          TriesMod,      \* the width of tries, a u8_t
          TimerMod,      \* the width of request_timeout, t1 and t2, each a u16_t
          Wait,          \* fine ticks that a message waits for its answer
          CheckWait,     \* fine ticks that an ARP request waits
          Leases,        \* what a server grants: [t1, t2], in coarse ticks
          MaxLead,       \* fine ticks of tcpip_thread between two of dhcp_task
          MaxNet,        \* bound: answers in flight or in hand, one in flight that is not stale
          MaxFails,      \* bound: messages that find no memory
          MaxRefused     \* bound: NAKs, and ARP replies for an offered address

ASSUME DhcpAssumption ==
  /\ NoIp \notin Addrs
  /\ {GiveUp, RequestTries, CheckTries, RebindTries, TriesMod, TimerMod, Wait, CheckWait}
        \subseteq Nat \ {0}
  /\ GiveUp < RequestTries /\ RequestTries < RebindTries /\ RebindTries < TriesMod
  /\ Wait < TimerMod /\ CheckWait < TimerMod
  /\ Leases \subseteq [t1 : 1..(TimerMod - 1), t2 : 1..(TimerMod - 1)] /\ Leases # {}
  /\ {MaxLead, MaxNet, MaxFails, MaxRefused} \subseteq Nat

Ips == Addrs \cup {NoIp}
NoLease == [t1 |-> 0, t2 |-> 0]

VARIABLES
  c,        \* the client, struct dhcp and the address of the interface;
            \* "asked": the messages sent with its xid, "net": the answers in flight,
            \* "acked": the address of the last ACK, for a REQUEST since the discovery
  thread,   \* tcpip_thread: the next step in a timer or for a message
  msg_in,   \* the message that this step is about, or none
  task,     \* dhcp_task: its next step
  dstate,   \* dhcp_state
  event,    \* which of IP_ASSIGNED and DHCP_FAILED is set
  lead,     \* fine ticks of tcpip_thread since the last one of dhcp_task
  fails, refused,
  overtaken \* history: since the client last started over, dhcp_task has changed its state
            \* between a test of it in tcpip_thread and the handler

vars == <<c, thread, msg_in, task, dstate, event, lead, fails, refused, overtaken>>

Message == [kind : {"DISCOVER", "REQUEST"}, ip : Ips, fresh : BOOLEAN]
Reply == [kind : {"OFFER", "ACK", "NAK"}, ip : Ips, sid : BOOLEAN, fresh : BOOLEAN, cur : BOOLEAN]

States == {"OFF", "SELECTING", "REQUESTING", "CHECKING", "BACKING_OFF", "BOUND",
           "RENEWING", "REBINDING"}

\* What tcpip_thread may have decided on, with a test of the state.
Handlers == {"discover", "select", "check", "bind", "renew", "rebind", "release",
             "decline", "nak", "ack", "offer"}

Client ==
  [state : States, pcb : BOOLEAN, tries : 0..(TriesMod - 1),
   timeout : 0..(TimerMod - 1), t1 : 0..(TimerMod - 1), t2 : 0..(TimerMod - 1),
   offered : Ips, lease : Leases \cup {NoLease}, ip : Ips,
   asked : SUBSET Message, net : SUBSET Reply, acked : Ips]

TypeOK ==
  /\ c \in Client
  /\ thread \in {"idle", "count", "last", "timeout", "t1", "t2", "reply"} \cup Handlers
  /\ msg_in \in SUBSET Reply
  /\ task \in {"poll", "fine", "coarse", "deleted"}
  /\ dstate \in {"START", "WAIT", "ASSIGNED", "TIMEOUT"}
  /\ event \in {"none", "IP_ASSIGNED", "DHCP_FAILED"}
  /\ lead \in 0..MaxLead /\ fails \in 0..MaxFails /\ refused \in 0..MaxRefused
  /\ overtaken \in BOOLEAN

Init ==
  /\ c = [state |-> "OFF", pcb |-> FALSE, tries |-> 0, timeout |-> 0, t1 |-> 0, t2 |-> 0,
          offered |-> NoIp, lease |-> NoLease, ip |-> NoIp,
          asked |-> {}, net |-> {}, acked |-> NoIp]
  /\ thread = "idle" /\ msg_in = {} /\ task = "poll" /\ dstate = "START" /\ event = "none"
  /\ lead = 0 /\ fails = 0 /\ refused = 0 /\ overtaken = FALSE

(***************************************************************************)
(* What the operations of the client make of it.  ok says whether there is *)
(* memory for the message; only a message that was made changes the xid.   *)
(***************************************************************************)

SetState(s, new) ==
  IF s.state = new THEN s ELSE [s EXCEPT !.state = new, !.tries = 0, !.timeout = 0]

\* A retransmission keeps the xid; answers to an earlier one do not match any more.
\* Without its pcb, after dhcp_stop, the client sends nothing that is answered.
CreateMsg(s, kind, ip, ok) ==
  LET sent == [kind |-> kind, ip |-> ip, fresh |-> TRUE] IN
  IF ~ok \/ ~s.pcb THEN s
  ELSE [s EXCEPT !.asked = ({sent} \cap Message) \cup (IF s.tries = 0 THEN {} ELSE @),
                 !.net = IF s.tries = 0 THEN {[m EXCEPT !.cur = FALSE] : m \in @} ELSE @]

\* Mutant: a retry that does not count.
SentUncounted(s, kind, ip, ok) == [CreateMsg(s, kind, ip, ok) EXCEPT !.timeout = Wait]

\* The tail of every send: it counts, and waits for an answer, whether or not it sent.
Sent(s, kind, ip, ok) ==
  [CreateMsg(s, kind, ip, ok) EXCEPT !.tries = (@ + 1) % TriesMod, !.timeout = Wait]

Discover(s, ok) ==
  LET stale(M) == {[m EXCEPT !.fresh = FALSE] : m \in M} IN
  Sent(SetState([s EXCEPT !.offered = NoIp, !.acked = NoIp,
                          !.asked = stale(@), !.net = stale(@)], "SELECTING"),
       "DISCOVER", NoIp, ok)

Select(s, ok) == Sent(SetState(s, "REQUESTING"), "REQUEST", s.offered, ok)

Renew(s, ok) == Sent(SetState(s, "RENEWING"), "REQUEST", s.ip, ok)

Rebind(s, ok) == Sent(SetState(s, "REBINDING"), "REQUEST", s.ip, ok)

Decline(s, ok) == Sent(SetState(s, "BACKING_OFF"), "DECLINE", s.offered, ok)

Release(s, ok) ==
  [Sent(SetState(s, "OFF"), "RELEASE", NoIp, ok) EXCEPT
     !.offered = NoIp, !.lease = NoLease, !.ip = NoIp]

\* dhcp_handle_nak, up to dhcp_discover.
HandleNak(s) == SetState([s EXCEPT !.ip = NoIp], "BACKING_OFF")

Check(s) ==
  [SetState(s, "CHECKING") EXCEPT !.tries = (@ + 1) % TriesMod, !.timeout = CheckWait]

\* A time of 0, as dhcp_release leaves it, is taken for one tick.
Bind(s) ==
  LET tick(t) == IF t = 0 THEN 1 ELSE t IN
  SetState([s EXCEPT !.t1 = IF tick(s.lease.t1) >= tick(s.lease.t2) THEN 0 ELSE tick(s.lease.t1),
                     !.t2 = tick(s.lease.t2), !.ip = s.offered], "BOUND")

\* Mutant: dhcp_stop that leaves the state.
StopKeeps(s) == [s EXCEPT !.pcb = FALSE, !.net = {}, !.asked = {}]

Stop(s) == [SetState(s, "OFF") EXCEPT !.pcb = FALSE, !.net = {}, !.asked = {}]

\* dhcp_handle_ack, with the lease l, and dhcp_handle_offer up to dhcp_select.
HandleAck(s, m, l) ==
  [s EXCEPT !.offered = m.ip, !.lease = l, !.acked = IF m.fresh THEN m.ip ELSE NoIp]
HandleOffer(s, m) == [s EXCEPT !.timeout = 0, !.offered = IF m.sid THEN m.ip ELSE @]

\* The other handlers.
Handled(s, h, ok) ==
  CASE h = "discover" -> Discover(s, ok)
    [] h = "select" -> Select(s, ok)
    [] h = "renew" -> Renew(s, ok)
    [] h = "rebind" -> Rebind(s, ok)
    [] h = "release" -> Release(s, ok)
    [] h = "decline" -> Decline(s, ok)
    [] h = "nak" -> HandleNak(s)
    [] h = "check" -> Check(s)
    [] h = "bind" -> Bind(s)
    [] OTHER -> s

(***************************************************************************)
(* The tests of the state: the handler that each decides on, or "idle".    *)
(***************************************************************************)

\* dhcp_timeout
Timeout(s) ==
  CASE s.state \in {"BACKING_OFF", "SELECTING"} -> "discover"
    [] s.state = "REQUESTING" /\ s.tries <= RequestTries -> "select"
    [] s.state = "CHECKING" /\ s.tries <= CheckTries -> "check"
    [] s.state = "CHECKING" /\ s.tries > CheckTries -> "bind"
    [] s.state = "RENEWING" -> "renew"
    [] s.state = "REBINDING" /\ s.tries <= RebindTries -> "rebind"
    [] \/ s.state = "REQUESTING" /\ s.tries > RequestTries
       \/ s.state = "REBINDING" /\ s.tries > RebindTries -> "release"
    [] OTHER -> "idle"

Renewable(s) == s.state \in {"REQUESTING", "BOUND", "RENEWING"}

Expired(s, found) ==
  CASE found = "timeout" -> Timeout(s)
    [] found = "t1" /\ Renewable(s) -> "renew"
    [] found = "t2" /\ Renewable(s) -> "rebind"
    [] OTHER -> "idle"

\* The state machine of dhcp_recv.
Replied(s, m) ==
  CASE m.kind = "ACK" /\ s.state = "REQUESTING" -> "ack"
    [] m.kind = "ACK" /\ s.state \in {"RENEWING", "REBINDING"} -> "bind"
    [] m.kind = "NAK" /\ s.state \in {"REQUESTING", "RENEWING", "REBINDING"} -> "nak"
    [] m.kind = "OFFER" /\ s.state = "SELECTING" -> "offer"
    [] OTHER -> "idle"

\* The handler that follows the handler h.
Follow(h) == IF h \in {"release", "nak"} THEN "discover" ELSE "idle"

\* A u16_t that is counted down: from 0 it starts over.
Less(n) == (n + TimerMod - 1) % TimerMod

\* dhcp_fine_tmr: what its tests find.
FineFound(s) ==
  IF s.timeout > 1 THEN "count" ELSE IF s.timeout = 1 THEN "last" ELSE "idle"

\* dhcp_coarse_tmr up to the handler: what it found, and the client with its timers.
CoarseFound(s) ==
  IF s.t2 = 1 THEN "t2" ELSE IF s.t1 = 1 THEN "t1" ELSE "idle"
CoarseCount(s) ==
  [s EXCEPT !.t2 = Less(@), !.t1 = IF s.t2 = 1 THEN @ ELSE Less(@)]

\* The handlers that send a message, for which there may be no memory while the bound allows.
Sends == {"discover", "select", "renew", "rebind", "release", "decline"}
Memory(h) == IF h \in Sends /\ fails < MaxFails THEN BOOLEAN ELSE {TRUE}
Used(ok) == fails' = IF ok THEN fails ELSE fails + 1

(***************************************************************************)
(* tcpip_thread: its timers and what it receives, test by test.            *)
(***************************************************************************)

\* The two tasks have the same period.  Before dhcp_start the timers find no client.
InStep == dstate # "START" /\ (lead < MaxLead \/ task = "deleted")

\* The client starts over: nothing that was decided before has a consequence any more.
Anew(s) == s.pcb /\ s.state = "SELECTING" /\ s.ip = NoIp

FineTest ==
  /\ thread = "idle" /\ InStep
  /\ lead' = IF task = "deleted" THEN lead ELSE lead + 1
  /\ thread' = FineFound(c)
  /\ UNCHANGED <<c, msg_in, task, dstate, event, fails, refused, overtaken>>

CoarseTest ==
  /\ thread = "idle" /\ InStep
  /\ thread' = CoarseFound(c) /\ c' = CoarseCount(c)
  /\ UNCHANGED <<msg_in, task, dstate, event, lead, fails, refused, overtaken>>

CountDown ==
  /\ thread \in {"count", "last"}
  /\ c' = [c EXCEPT !.timeout = Less(@)]
  /\ thread' = IF thread = "last" THEN "timeout" ELSE "idle"
  /\ UNCHANGED <<msg_in, task, dstate, event, lead, fails, refused, overtaken>>

FireTimer ==
  /\ thread \in {"timeout", "t1", "t2"}
  /\ thread' = Expired(c, thread)
  /\ UNCHANGED <<c, msg_in, task, dstate, event, lead, fails, refused, overtaken>>

\* Mutant: dhcp_recv without the test of the transaction id.
AcceptsAny(m) == TRUE

Accepts(m) == m.cur

Recv ==
  /\ thread = "idle" /\ c.pcb
  /\ \E m \in c.net :
       /\ c' = [c EXCEPT !.net = @ \ {m}]
       /\ thread' = IF Accepts(m) THEN "reply" ELSE "idle"
       /\ msg_in' = IF Accepts(m) THEN {m} ELSE {}
  /\ UNCHANGED <<task, dstate, event, lead, fails, refused, overtaken>>

\* An ACK in RENEWING or REBINDING confirms the address that dhcp_bind is to use.
Received ==
  /\ thread = "reply"
  /\ \E m \in msg_in :
       LET h == Replied(c, m) IN
       /\ thread' = h
       /\ msg_in' = IF h \in {"ack", "offer"} THEN {m} ELSE {}
       /\ c' = IF h = "bind" THEN [c EXCEPT !.acked = IF m.fresh THEN m.ip ELSE NoIp] ELSE c
  /\ UNCHANGED <<task, dstate, event, lead, fails, refused, overtaken>>

TakeReply ==
  /\ thread \in {"ack", "offer"}
  /\ \E m \in msg_in :
       \/ /\ thread = "ack" /\ thread' = "check"
          /\ \E l \in Leases : c' = HandleAck(c, m, l)
       \/ /\ thread = "offer" /\ thread' = IF m.sid THEN "select" ELSE "idle"
          /\ c' = HandleOffer(c, m)
  /\ msg_in' = {}
  /\ UNCHANGED <<task, dstate, event, lead, fails, refused, overtaken>>

\* dhcp_arp_reply, for the offered address.
ArpReply ==
  /\ thread = "idle" /\ c.state = "CHECKING"
  /\ refused < MaxRefused
  /\ refused' = refused + 1 /\ thread' = "decline"
  /\ UNCHANGED <<c, msg_in, task, dstate, event, lead, fails, overtaken>>

Handle ==
  /\ thread \in Handlers \ {"ack", "offer"}
  /\ thread' = Follow(thread)
  /\ \E ok \in Memory(thread) : c' = Handled(c, thread, ok) /\ Used(ok)
  /\ overtaken' = (overtaken /\ ~Anew(c'))
  /\ UNCHANGED <<msg_in, task, dstate, event, lead, refused>>

(***************************************************************************)
(* The servers (external): they answer a message that is not lost, as      *)
(* often as they see it, and grant only the address that was asked for.    *)
(***************************************************************************)

Answers(m) ==
  LET reply(kind, ips, sids) ==
        [kind : {kind}, ip : ips, sid : sids, fresh : {m.fresh}, cur : {TRUE}]
  IN  IF m.kind = "DISCOVER" THEN reply("OFFER", Addrs, BOOLEAN)
      ELSE reply("ACK", {m.ip} \cap Addrs, {TRUE}) \cup reply("NAK", {NoIp}, {TRUE})

Server ==
  /\ \E m \in c.asked : \E r \in Answers(m) :
       /\ c' = [c EXCEPT !.net = @ \cup {r}]
       /\ IF r.kind = "NAK" THEN refused < MaxRefused /\ refused' = refused + 1
          ELSE UNCHANGED refused
  /\ Cardinality(c.net \cup msg_in) < MaxNet /\ ~\E m \in c.net : m.cur
  /\ UNCHANGED <<thread, msg_in, task, dstate, event, lead, fails, overtaken>>

Lost ==
  /\ \E m \in c.net : c' = [c EXCEPT !.net = @ \ {m}]
  /\ UNCHANGED <<thread, msg_in, task, dstate, event, lead, fails, refused, overtaken>>

(***************************************************************************)
(* dhcp_task: one look at dhcp_state, then the delay and both timers.      *)
(***************************************************************************)

\* What a step of dhcp_task is to tcpip_thread.
Overtakes ==
  overtaken' = IF thread \in Handlers THEN overtaken \/ c'.state # c.state
               ELSE overtaken /\ ~Anew(c')

\* dhcp_start: when the first message cannot be made it stops, and dhcp_task, which
\* does not look at the result, goes on.
TaskStart ==
  /\ task = "poll" /\ dstate = "START"
  /\ dstate' = "WAIT" /\ task' = "fine"
  /\ \E ok \in Memory("discover") :
       /\ LET d == Discover([c EXCEPT !.pcb = TRUE], ok) IN c' = IF ok THEN d ELSE Stop(d)
       /\ Used(ok)
  /\ UNCHANGED <<thread, msg_in, event, lead, refused, overtaken>>

TaskAssigned ==
  /\ task = "poll" /\ dstate = "WAIT"
  /\ c.ip # NoIp
  /\ dstate' = "ASSIGNED" /\ event' = "IP_ASSIGNED" /\ task' = "fine"
  /\ UNCHANGED <<c, thread, msg_in, lead, fails, refused, overtaken>>

TaskFailed ==
  /\ task = "poll" /\ dstate = "WAIT"
  /\ c.ip = NoIp /\ c.tries > GiveUp
  /\ dstate' = "TIMEOUT" /\ event' = "DHCP_FAILED" /\ task' = "deleted"
  /\ c' = Stop(c)
  /\ overtaken' = (thread \in Handlers)
  /\ UNCHANGED <<thread, msg_in, lead, fails, refused>>

TaskLook ==
  /\ task = "poll"
  /\ \/ dstate = "WAIT" /\ c.ip = NoIp /\ c.tries <= GiveUp
     \/ dstate \in {"ASSIGNED", "TIMEOUT"}
  /\ task' = "fine"
  /\ UNCHANGED <<c, thread, msg_in, dstate, event, lead, fails, refused, overtaken>>

\* What dhcp_task makes of the client when its test has decided on h.
TaskHandled(s, h, ok) ==
  IF h = "release" THEN Discover(Release(s, ok), ok) ELSE Handled(s, h, ok)

TaskFine ==
  /\ task = "fine" /\ task' \in {"poll", "coarse"}
  /\ LET found == FineFound(c)
         s == IF found = "idle" THEN c ELSE [c EXCEPT !.timeout = Less(@)]
         h == IF found = "last" THEN Timeout(s) ELSE "idle"
     IN  \E ok \in Memory(h) : c' = TaskHandled(s, h, ok) /\ Used(ok)
  /\ Overtakes
  /\ lead' = 0
  /\ UNCHANGED <<thread, msg_in, dstate, event, refused>>

TaskCoarse ==
  /\ task = "coarse" /\ task' = "poll"
  /\ LET h == Expired(CoarseCount(c), CoarseFound(c))
     IN  \E ok \in Memory(h) : c' = TaskHandled(CoarseCount(c), h, ok) /\ Used(ok)
  /\ Overtakes
  /\ UNCHANGED <<thread, msg_in, dstate, event, lead, refused>>

Task == TaskStart \/ TaskAssigned \/ TaskFailed \/ TaskLook \/ TaskFine \/ TaskCoarse

\* tcpip_thread has the lower priority: it runs while dhcp_task waits out its delay.
Waiting == task \in {"fine", "deleted"}

Step == Waiting /\ (CountDown \/ FireTimer \/ Received \/ TakeReply \/ Handle)

Thread == Step \/ (Waiting /\ (FineTest \/ CoarseTest \/ Recv \/ ArpReply))

Next == Task \/ Thread \/ Server \/ Lost

Spec == Init /\ [][Next]_vars

\* Both tasks run; servers and the network owe nothing.
FairSpec == Spec /\ WF_vars(Task) /\ SF_vars(Step)

-----------------------------------------------------------------------------
(***************************************************************************)
(* Properties.                                                             *)
(***************************************************************************)

\* A client that says it is bound uses the address it was offered.  Not so when dhcp_task
\* released it after dhcp_recv or dhcp_timeout had decided to bind: dhcp_bind then sets
\* the state BOUND and no address.
BoundUses == ~overtaken /\ c.state = "BOUND" => c.ip = c.offered /\ c.ip # NoIp

\* After DHCP_FAILED the client stays off, whatever timer had run out or message had come
\* in, as long as the state was not yet tested for it: dhcp_stop does not stop a handler
\* that tcpip_thread has decided on, and that starts the client again.
FailedIsFinal == ~overtaken /\ event = "DHCP_FAILED" => c.state = "OFF" /\ c.ip = NoIp

Inv == TypeOK /\ BoundUses /\ FailedIsFinal

\* The interface has an address only while the last word of a server about it is an ACK
\* for a request sent since the last discovery: no late, repeated or lost message, no
\* NAK, and no timer of the other task before the state was tested, leaves it with another
\* one.  It takes that no two messages found no memory: the xid changes with the first
\* message of an exchange only when that message is made, and after a discovery and a
\* request that both start without it, an answer to the request before them still matches.
AddressAcked == ~overtaken /\ fails <= 1 /\ c.ip # NoIp => c.acked = c.ip

Retrying == c.state \in {"SELECTING", "REQUESTING", "CHECKING", "BACKING_OFF", "RENEWING",
                         "REBINDING"}

\* The client has nothing left that could wake it: it waits without a timeout, or it did
\* not start.
Asleep ==
  /\ thread = "idle" /\ dstate # "START"
  /\ c.state = "OFF" \/ (Retrying /\ c.timeout = 0)

\* dhcp_task changes the state between a test of tcpip_thread and its handler.
Overtaking == thread \in Handlers /\ thread' = thread /\ c'.state # c.state

\* Who waits for the address (lwip_init_DHCP) is told IP_ASSIGNED or DHCP_FAILED, unless
\* the client fell asleep, or dhcp_task overtakes tcpip_thread again and again: each time
\* the tries may start over.
Reported == <>(event # "none" \/ Asleep) \/ []<><<Overtaking>>_vars

=============================================================================
