---------------------------- MODULE Dhcp_proofs ----------------------------
(***************************************************************************)
(* Proofs about Dhcp, for every set of addresses, every lease, every limit *)
(* of the retries and every number of messages that find no memory.        *)
(*                                                                         *)
(* What the client says it is and the address of its interface go together *)
(* (Uses); with at most one message that found no memory, what is asked    *)
(* and what is in flight with the current transaction id is about the      *)
(* offer the client goes by (Asks), and so an ACK it accepts is too.  What *)
(* tcpip_thread found by a test is still so when its handler comes (Ready, *)
(* Heard), whatever dhcp_task did meanwhile short of changing the state.   *)
(* Where dhcp_task did change it, only Base is left, and from there a      *)
(* discovery makes all of it true again.                                   *)
(***************************************************************************)
EXTENDS Dhcp, TLAPS

\* The states in which the client goes by an offer.
Holding == {"REQUESTING", "CHECKING", "BOUND", "RENEWING", "REBINDING"}

\* The states in which the interface may have an address.
Leased == {"BOUND", "RENEWING", "REBINDING"}

\* An offer and an ACK name an address.
NamedIn(M) == \A m \in M : m.kind # "NAK" => m.ip \in Addrs

\* Without its pcb the client has asked nothing and hears nothing.
Named(s) == NamedIn(s.net) /\ (~s.pcb => s.net = {} /\ s.asked = {})

Uses(s) ==
  /\ s.state \in Holding => s.offered # NoIp
  /\ s.state \notin Leased => s.ip = NoIp
  /\ s.state = "BOUND" => s.ip = s.offered
  /\ s.ip \in {NoIp, s.offered}

\* What the servers may answer with the current transaction id, and what they answered,
\* is about the offer.
Asks(s) ==
  /\ \A m \in s.asked : m.kind = "REQUEST" => m.fresh /\ m.ip \in {NoIp, s.offered}
  /\ \A r \in s.net : r.cur /\ r.kind = "ACK" => r.fresh /\ r.ip = s.offered

\* No request is on its way.
AsksNone(s) ==
  /\ \A m \in s.asked : m.kind = "DISCOVER"
  /\ \A r \in s.net : r.cur => r.kind # "ACK"

Confirmed(s) ==
  /\ s.ip # NoIp => s.acked = s.ip
  /\ s.state = "CHECKING" => s.acked = s.offered

\* The client after n messages that found no memory, whatever dhcp_task did.
Base(s, n) == s \in Client /\ Named(s) /\ (n = 0 /\ s.state = "SELECTING" => AsksNone(s))

\* The client as long as dhcp_task has not overtaken tcpip_thread.
Good(s, n) ==
  /\ Base(s, n) /\ Uses(s)
  /\ n <= 1 => Confirmed(s) /\ (s.state \in Holding => Asks(s))

\* The message in hand, if it is an ACK, is about the offer.
Fits(s, n, m) ==
  n <= 1 /\ m.kind = "ACK" /\ s.state \in Holding => m.fresh /\ m.ip = s.offered

\* The client is as the handler h expects it.
Ready(s, n, h) ==
  /\ h = "discover" => s.state \in {"SELECTING", "BACKING_OFF", "OFF"}
  /\ h = "select" => \/ s.state = "REQUESTING"
                     \/ s.state = "SELECTING" /\ s.timeout = 0 /\ s.offered # NoIp
  /\ h = "check" => s.state \in {"REQUESTING", "CHECKING"}
  /\ h = "bind" => s.state \in {"CHECKING", "RENEWING", "REBINDING"}
  /\ h \in {"check", "bind"} /\ n <= 1 => s.acked = s.offered
  /\ h \in {"renew", "rebind"} => s.state \in Holding \ {"CHECKING"}
  /\ h \in {"release", "nak"} => s.state \in {"REQUESTING", "RENEWING", "REBINDING"}
  /\ h = "decline" => s.state = "CHECKING"

\* The message in hand is as tcpip_thread found it.
Heard(s, n, h, M) ==
  /\ h = "ack" => s.state = "REQUESTING" /\ \A m \in M : m.kind = "ACK"
  /\ h = "offer" => s.state = "SELECTING" /\ \A m \in M : m.kind = "OFFER"
  /\ h \in {"reply", "ack"} => \A m \in M : Fits(s, n, m)

\* The client, and what tcpip_thread has decided on.
InOrder(s, n, h, M) == Good(s, n) /\ Ready(s, n, h) /\ Heard(s, n, h, M)

IInv ==
  /\ TypeOK
  /\ Base(c, fails) /\ NamedIn(msg_in)
  /\ dstate = "START" => /\ c.state = "OFF" /\ ~c.pcb
                         /\ thread = "idle" /\ task = "poll" /\ ~overtaken
  /\ event = "DHCP_FAILED" => task = "deleted" /\ ~c.pcb
  /\ ~overtaken =>
       /\ InOrder(c, fails, thread, msg_in)
       /\ event = "DHCP_FAILED" => c.state = "OFF" /\ thread \notin Handlers

-----------------------------------------------------------------------------
(***************************************************************************)
(* The operations of the client.                                           *)
(***************************************************************************)

\* A remainder is a value of the counter's type.
LEMMA Wraps ==
  ASSUME NEW a \in Int, NEW w \in Nat \ {0}
  PROVE  a % w \in 0..(w - 1)
  BY SMT

\* The bounds of the counters are what the types ask for.
LEMMA Bounds ==
  /\ TriesMod \in Nat \ {0} /\ TimerMod \in Nat \ {0}
  /\ Wait \in 0..(TimerMod - 1) /\ CheckWait \in 0..(TimerMod - 1)
  /\ \A l \in Leases : l.t1 \in 1..(TimerMod - 1) /\ l.t2 \in 1..(TimerMod - 1)
  /\ 1 \in 0..(TimerMod - 1)
  BY DhcpAssumption, SMT

\* Counting down a timer, whatever it holds, leaves a timer.
LEMMA LessType ==
  ASSUME NEW a \in 0..(TimerMod - 1)
  PROVE  Less(a) \in 0..(TimerMod - 1)
<1>1. a + TimerMod - 1 \in Int
  BY Bounds
<1> QED
  BY <1>1, Bounds, Wraps DEF Less

\* The names of the states and of no address.
LEMMA Names ==
  /\ States = {"OFF", "SELECTING", "REQUESTING", "CHECKING", "BACKING_OFF", "BOUND",
               "RENEWING", "REBINDING"}
  /\ NoIp \in Ips
  BY DEF States, Ips

\* dhcp_set_state starts over with the retries, and touches nothing that was said.
LEMMA SetStateFields ==
  ASSUME NEW s \in Client, NEW new \in States, NEW r, r = SetState(s, new)
  PROVE  /\ r \in Client
         /\ r.state = new /\ r.pcb = s.pcb
         /\ r.offered = s.offered /\ r.ip = s.ip /\ r.acked = s.acked
         /\ r.asked = s.asked /\ r.net = s.net
         /\ s.state # new => r.tries = 0
<1>1. 0 \in 0..(TriesMod - 1) /\ 0 \in 0..(TimerMod - 1)
  BY Bounds
<1>2. CASE s.state = new
  BY <1>2 DEF SetState
<1>3. CASE s.state # new
  <2>1. r = [s EXCEPT !.state = new, !.tries = 0, !.timeout = 0]
    BY <1>3 DEF SetState
  <2> QED
    BY <2>1, <1>1 DEF Client
<1> QED
  BY <1>2, <1>3

\* dhcp_create_msg and the tail of a send: a first message that is made makes the answers
\* to what was asked before void; one that is not made leaves them as they were.
LEMMA SentFields ==
  ASSUME NEW s \in Client, NEW kind, NEW ip \in Ips, NEW ok \in BOOLEAN, Named(s),
         NEW r, r = Sent(s, kind, ip, ok)
  PROVE  /\ r \in Client
         /\ r.state = s.state /\ r.pcb = s.pcb
         /\ r.offered = s.offered /\ r.ip = s.ip /\ r.acked = s.acked
         /\ \A m \in r.asked :
              \/ m \in s.asked /\ (ok => s.tries # 0)
              \/ ok /\ m.kind = kind /\ m.ip = ip /\ m.fresh
         /\ \A m \in r.net : m.cur => m \in s.net /\ (ok => s.tries # 0)
         /\ Named(r)
<1> DEFINE sent == [kind |-> kind, ip |-> ip, fresh |-> TRUE]
           void == {[m EXCEPT !.cur = FALSE] : m \in s.net}
           q == CreateMsg(s, kind, ip, ok)
<1>1. \A m \in void : m \in Reply /\ ~m.cur
  BY DEF Client, Reply
<1>2. \A m \in void : m.kind # "NAK" => m.ip \in Addrs
  BY DEF Named, NamedIn, Client, Reply
<1>p. s.pcb \in BOOLEAN /\ (~s.pcb => s.net = {} /\ s.asked = {})
  BY DEF Named, Client
<1> HIDE DEF void
<1>3. /\ q \in Client
      /\ q.state = s.state /\ q.tries = s.tries /\ q.pcb = s.pcb
      /\ q.offered = s.offered /\ q.ip = s.ip /\ q.acked = s.acked
      /\ \A m \in q.asked : (m \in s.asked /\ (ok => s.tries # 0)) \/ (ok /\ m = sent)
      /\ \/ q.net = void /\ ok /\ s.pcb
         \/ q.net = s.net /\ (ok /\ s.pcb => s.tries # 0)
      /\ ~s.pcb => q.asked = {}
  <2>1. CASE ~ok \/ ~s.pcb
    <3>1. q = s
      BY <2>1 DEF CreateMsg
    <3> HIDE DEF q
    <3> QED
      BY <2>1, <3>1, <1>p
  <2>2. CASE ok /\ s.pcb
    <3> DEFINE asked2 == ({sent} \cap Message) \cup (IF s.tries = 0 THEN {} ELSE s.asked)
               net2 == IF s.tries = 0 THEN void ELSE s.net
    <3>1. q = [s EXCEPT !.asked = asked2, !.net = net2]
      BY <2>2 DEF CreateMsg, void
    <3>2. asked2 \in SUBSET Message /\ net2 \in SUBSET Reply
      BY <1>1, Zenon DEF Client
    <3>3. \A m \in asked2 : (m \in s.asked /\ s.tries # 0) \/ m = sent
      OBVIOUS
    <3> HIDE DEF asked2
    <3>4. q.asked = asked2 /\ q.net = net2
      BY <3>1 DEF Client
    <3>6. net2 = void \/ (net2 = s.net /\ s.tries # 0)
      OBVIOUS
    <3> HIDE DEF net2
    <3>5. /\ q \in Client
          /\ q.state = s.state /\ q.tries = s.tries /\ q.pcb = s.pcb
          /\ q.offered = s.offered /\ q.ip = s.ip /\ q.acked = s.acked
      BY <3>1, <3>2 DEF Client
    <3> HIDE DEF q, sent
    <3> QED
      BY <2>2, <3>3, <3>4, <3>5, <3>6
  <2> QED
    BY <2>1, <2>2
<1>9. sent.kind = kind /\ sent.ip = ip /\ sent.fresh
  BY Zenon
<1> HIDE DEF q, sent
<1>4. r = [q EXCEPT !.tries = (q.tries + 1) % TriesMod, !.timeout = Wait]
  BY DEF Sent, q
<1>5. (q.tries + 1) % TriesMod \in 0..(TriesMod - 1) /\ Wait \in 0..(TimerMod - 1)
  <2>1. q.tries + 1 \in Int
    BY <1>3, Bounds DEF Client
  <2> QED
    BY <2>1, Wraps, Bounds
<1>6. /\ r \in Client
      /\ r.state = q.state /\ r.offered = q.offered /\ r.ip = q.ip /\ r.acked = q.acked
      /\ r.asked = q.asked /\ r.net = q.net /\ r.pcb = q.pcb
  BY <1>3, <1>4, <1>5 DEF Client
<1>7. \A m \in r.net : m.cur => m \in s.net /\ (ok => s.tries # 0)
  <2>1. CASE q.net = void
    BY <2>1, <1>1, <1>6
  <2>2. CASE q.net = s.net /\ (ok /\ s.pcb => s.tries # 0)
    BY <2>2, <1>6, <1>p
  <2> QED
    BY <2>1, <2>2, <1>3
<1>8. Named(r)
  <2>1. NamedIn(r.net)
    BY <1>2, <1>3, <1>6 DEF Named, NamedIn
  <2>2. ~r.pcb => r.net = {} /\ r.asked = {}
    BY <1>3, <1>6, <1>p
  <2> QED
    BY <2>1, <2>2 DEF Named
<1>10. \A m \in r.asked :
          \/ m \in s.asked /\ (ok => s.tries # 0)
          \/ ok /\ m.kind = kind /\ m.ip = ip /\ m.fresh
  BY <1>3, <1>6, <1>9
<1> QED
  BY <1>3, <1>6, <1>7, <1>8, <1>10

\* A send in a new state: the answers to what was asked in another one are void.
LEMMA SendFields ==
  ASSUME NEW s \in Client, NEW new \in States, NEW kind, NEW ip \in Ips,
         NEW ok \in BOOLEAN, Named(s), NEW r, r = Sent(SetState(s, new), kind, ip, ok)
  PROVE  /\ r \in Client
         /\ r.state = new /\ r.pcb = s.pcb
         /\ r.offered = s.offered /\ r.ip = s.ip /\ r.acked = s.acked
         /\ \A m \in r.asked :
              \/ m \in s.asked /\ (ok => s.state = new)
              \/ ok /\ m.kind = kind /\ m.ip = ip /\ m.fresh
         /\ \A m \in r.net : m.cur => m \in s.net /\ (ok => s.state = new)
         /\ Named(r)
<1> PICK q : q = SetState(s, new)
  OBVIOUS
<1>1. /\ q \in Client /\ q.state = new /\ q.pcb = s.pcb
      /\ q.offered = s.offered /\ q.ip = s.ip /\ q.acked = s.acked
      /\ q.asked = s.asked /\ q.net = s.net
      /\ s.state # new => q.tries = 0
  BY SetStateFields
<1>2. r = Sent(q, kind, ip, ok)
  OBVIOUS
<1>3. Named(q)
  BY <1>1 DEF Named
<1> QED
  BY <1>1, <1>2, <1>3, SentFields

\* What of a message that found no memory is left to say.
LEMMA MoreFails ==
  ASSUME NEW s, NEW n \in Nat, NEW ok \in BOOLEAN
  PROVE  /\ Base(s, n) => Base(s, IF ok THEN n ELSE n + 1)
         /\ Good(s, n) => Good(s, IF ok THEN n ELSE n + 1)
  BY DEF Base, Good

\* dhcp_discover: unless it could not be sent, no request of an earlier exchange is
\* answered; without an address nothing else is left of it.
LEMMA DiscoverGood ==
  ASSUME NEW s \in Client, NEW n \in Nat, NEW ok \in BOOLEAN, NEW r, r = Discover(s, ok),
         Base(s, n)
  PROVE  /\ Base(r, IF ok THEN n ELSE n + 1) /\ r.state = "SELECTING" /\ r.pcb = s.pcb
         /\ s.ip = NoIp => Good(r, IF ok THEN n ELSE n + 1)
<1> DEFINE stale(M) == {[m EXCEPT !.fresh = FALSE] : m \in M}
<1>0. PICK q : q = [s EXCEPT !.offered = NoIp, !.acked = NoIp,
                             !.asked = stale(s.asked), !.net = stale(s.net)]
  OBVIOUS
<1>1. stale(s.asked) \in SUBSET Message /\ stale(s.net) \in SUBSET Reply
  <2>1. \A m \in s.asked : [m EXCEPT !.fresh = FALSE] \in Message
    BY DEF Client, Message
  <2>2. \A m \in s.net : [m EXCEPT !.fresh = FALSE] \in Reply
    BY DEF Client, Reply
  <2> QED
    BY <2>1, <2>2, Zenon
<1>2. \A m \in stale(s.asked) : \E k \in s.asked : m.kind = k.kind
  BY DEF Client, Message
<1>3. \A m \in stale(s.net) : \E k \in s.net : m.kind = k.kind /\ m.ip = k.ip /\ m.cur = k.cur
  BY DEF Client, Reply
<1>e. (s.asked = {} => stale(s.asked) = {}) /\ (s.net = {} => stale(s.net) = {})
  BY Zenon
<1>4. r = Sent(SetState(q, "SELECTING"), "DISCOVER", NoIp, ok)
  BY <1>0 DEF Discover
<1> HIDE DEF stale
<1>b. Named(s) /\ (n = 0 /\ s.state = "SELECTING" => AsksNone(s))
  BY DEF Base
<1>5. /\ q \in Client /\ q.state = s.state /\ q.ip = s.ip /\ q.offered = NoIp
      /\ q.asked = stale(s.asked) /\ q.net = stale(s.net) /\ q.pcb = s.pcb
  BY <1>0, <1>1 DEF Client, Ips
<1>5a. q \in Client
  BY <1>5
<1>6. Named(q)
  BY <1>3, <1>5, <1>b, <1>e DEF Named, NamedIn
<1>7. "SELECTING" \in States /\ NoIp \in Ips
  BY Names
<1>8. /\ r \in Client /\ r.state = "SELECTING" /\ r.offered = NoIp /\ r.ip = s.ip
      /\ \A m \in r.asked :
           \/ m \in q.asked /\ (ok => q.state = "SELECTING")
           \/ m.kind = "DISCOVER"
      /\ \A m \in r.net : m.cur => m \in q.net /\ (ok => q.state = "SELECTING")
      /\ Named(r) /\ r.pcb = s.pcb
  <2>1. /\ r \in Client /\ r.state = "SELECTING" /\ r.offered = q.offered /\ r.ip = q.ip
        /\ \A m \in r.asked :
             \/ m \in q.asked /\ (ok => q.state = "SELECTING")
             \/ m.kind = "DISCOVER"
        /\ \A m \in r.net : m.cur => m \in q.net /\ (ok => q.state = "SELECTING")
        /\ Named(r) /\ r.pcb = q.pcb
    BY <1>4, <1>6, <1>7, <1>5a, SendFields
  <2> QED
    BY <2>1, <1>5
<1>9. s.ip = NoIp => Uses(r) /\ Confirmed(r)
  BY <1>8 DEF Uses, Confirmed, Holding
<1>10. ASSUME ok, n = 0 PROVE AsksNone(r)
  <2>1. s.state = "SELECTING" => AsksNone(q)
    BY <1>2, <1>3, <1>5, <1>10, <1>b DEF AsksNone
  <2> QED
    BY <2>1, <1>5, <1>8, <1>10 DEF AsksNone
<1>11. Base(r, IF ok THEN n ELSE n + 1)
  BY <1>8, <1>10 DEF Base
<1> QED
  BY <1>8, <1>9, <1>11 DEF Good, Holding

\* dhcp_select: the request is for the offer.
LEMMA SelectGood ==
  ASSUME NEW s \in Client, NEW n \in Nat, NEW ok \in BOOLEAN, NEW r, r = Select(s, ok),
         Base(s, n), s.ip = NoIp, s.offered # NoIp,
         s.state \in {"SELECTING", "REQUESTING"},
         n <= 1 /\ s.state = "REQUESTING" => Asks(s)
  PROVE  Good(r, IF ok THEN n ELSE n + 1)
<1>1. "REQUESTING" \in States /\ s.offered \in Ips
  BY Names DEF Client
<1>b. Named(s) /\ (n = 0 /\ s.state = "SELECTING" => AsksNone(s))
  BY DEF Base
<1>2. /\ r \in Client /\ r.state = "REQUESTING" /\ r.offered = s.offered /\ r.ip = NoIp
      /\ \A m \in r.asked :
           \/ m \in s.asked /\ (ok => s.state = "REQUESTING")
           \/ ok /\ m.kind = "REQUEST" /\ m.ip = s.offered /\ m.fresh
      /\ \A m \in r.net : m.cur => m \in s.net /\ (ok => s.state = "REQUESTING")
      /\ Named(r)
  BY <1>1, <1>b, SendFields DEF Select
<1>3. Uses(r) /\ Confirmed(r) /\ Base(r, IF ok THEN n ELSE n + 1)
  BY <1>2 DEF Uses, Confirmed, Leased, Base
<1>4. CASE ok /\ s.state = "SELECTING"
  <2>1. Asks(r)
    BY <1>2, <1>4 DEF Asks
  <2> QED
    BY <2>1, <1>2, <1>3 DEF Good
<1>5. CASE ~ok /\ s.state = "SELECTING"
  <2>1. n = 0 => Asks(r)
    BY <1>2, <1>5, <1>b DEF Asks, AsksNone
  <2> QED
    BY <2>1, <1>2, <1>3, <1>5 DEF Good
<1>6. CASE s.state = "REQUESTING"
  <2>1. n <= 1 => Asks(r)
    BY <1>2, <1>6 DEF Asks
  <2> QED
    BY <2>1, <1>2, <1>3 DEF Good
<1> QED
  BY <1>4, <1>5, <1>6

\* dhcp_renew and dhcp_rebind: the request is for the address of the interface, or for none.
LEMMA RenewGood ==
  ASSUME NEW s, NEW n \in Nat, NEW ok \in BOOLEAN, NEW new \in {"RENEWING", "REBINDING"},
         NEW r, r = Sent(SetState(s, new), "REQUEST", s.ip, ok),
         Good(s, n), s.state \in Holding \ {"CHECKING"}
  PROVE  Good(r, IF ok THEN n ELSE n + 1)
<1>1. new \in States /\ s \in Client /\ s.ip \in Ips /\ Named(s)
  BY DEF States, Client, Good, Base
<1>2. /\ r \in Client /\ r.state = new
      /\ r.offered = s.offered /\ r.ip = s.ip /\ r.acked = s.acked
      /\ \A m \in r.asked :
           \/ m \in s.asked /\ (ok => s.state = new)
           \/ ok /\ m.kind = "REQUEST" /\ m.ip = s.ip /\ m.fresh
      /\ \A m \in r.net : m.cur => m \in s.net /\ (ok => s.state = new)
      /\ Named(r)
  <2>1. PICK ip \in Ips : ip = s.ip
    BY <1>1
  <2>2. r = Sent(SetState(s, new), "REQUEST", ip, ok)
    BY <2>1
  <2>3. PICK t \in States : t = new
    BY <1>1
  <2>4. r = Sent(SetState(s, t), "REQUEST", ip, ok)
    BY <2>2, <2>3
  <2>5. /\ r \in Client /\ r.state = t
        /\ r.offered = s.offered /\ r.ip = s.ip /\ r.acked = s.acked
        /\ \A m \in r.asked :
             \/ m \in s.asked /\ (ok => s.state = t)
             \/ ok /\ m.kind = "REQUEST" /\ m.ip = ip /\ m.fresh
        /\ \A m \in r.net : m.cur => m \in s.net /\ (ok => s.state = t)
        /\ Named(r)
    BY <1>1, <2>4, SendFields
  <2> QED
    BY <2>1, <2>3, <2>5
<1>3. Uses(s) /\ (n <= 1 => Confirmed(s) /\ Asks(s))
  BY DEF Good
<1>4. Uses(r) /\ (n <= 1 => Confirmed(r))
  BY <1>2, <1>3 DEF Uses, Confirmed, Holding, Leased
<1>5. n <= 1 => Asks(r)
  BY <1>2, <1>3 DEF Asks, Uses
<1>6. Base(r, IF ok THEN n ELSE n + 1)
  BY <1>2 DEF Base
<1> QED
  BY <1>2, <1>4, <1>5, <1>6 DEF Good

\* dhcp_decline, of an address that somebody has.
LEMMA DeclineGood ==
  ASSUME NEW s, NEW n \in Nat, NEW ok \in BOOLEAN, NEW r, r = Decline(s, ok),
         Good(s, n), s.state = "CHECKING"
  PROVE  Good(r, IF ok THEN n ELSE n + 1)
<1>1. "BACKING_OFF" \in States /\ s \in Client /\ s.offered \in Ips /\ Named(s)
  BY DEF States, Client, Good, Base
<1>2. /\ r \in Client /\ r.state = "BACKING_OFF"
      /\ r.offered = s.offered /\ r.ip = s.ip /\ r.acked = s.acked /\ Named(r)
  BY <1>1, SendFields DEF Decline
<1>3. s.ip = NoIp
  BY DEF Good, Uses, Leased
<1> QED
  BY <1>2, <1>3 DEF Good, Base, Uses, Confirmed, Holding

\* dhcp_release, which takes the address from the interface.
LEMMA ReleaseFields ==
  ASSUME NEW s \in Client, NEW n \in Nat, NEW ok \in BOOLEAN, NEW r, r = Release(s, ok),
         Named(s)
  PROVE  Good(r, n) /\ r.ip = NoIp /\ r.state = "OFF" /\ r.pcb = s.pcb
<1>0. PICK q : q = Sent(SetState(s, "OFF"), "RELEASE", NoIp, ok)
  OBVIOUS
<1>1. "OFF" \in States /\ NoIp \in Ips
  BY DEF States, Ips
<1>2. q \in Client /\ q.state = "OFF" /\ Named(q) /\ q.pcb = s.pcb
  BY <1>0, <1>1, SendFields
<1>3. r = [q EXCEPT !.offered = NoIp, !.lease = NoLease, !.ip = NoIp]
  BY <1>0 DEF Release
<1>4. /\ r \in Client /\ r.state = "OFF" /\ r.ip = NoIp /\ r.net = q.net
      /\ r.asked = q.asked /\ r.pcb = q.pcb
  BY <1>1, <1>2, <1>3 DEF Client
<1>5. Named(r)
  BY <1>2, <1>4 DEF Named
<1> QED
  BY <1>2, <1>4, <1>5 DEF Good, Base, Uses, Confirmed, Holding

\* dhcp_handle_nak takes the address from the interface.
LEMMA NakFields ==
  ASSUME NEW s \in Client, NEW n \in Nat, NEW r, r = HandleNak(s), Named(s)
  PROVE  Good(r, n) /\ r.state = "BACKING_OFF" /\ r.pcb = s.pcb
<1>p. PICK p : p = [s EXCEPT !.ip = NoIp]
  OBVIOUS
<1>1. "BACKING_OFF" \in States /\ NoIp \in Ips
  BY Names
<1>2. /\ p \in Client /\ p.ip = NoIp /\ p.net = s.net /\ p.asked = s.asked
      /\ p.pcb = s.pcb
  BY <1>p, <1>1 DEF Client
<1>3. r = SetState(p, "BACKING_OFF")
  BY <1>p DEF HandleNak
<1>4. /\ r \in Client /\ r.state = "BACKING_OFF" /\ r.ip = p.ip /\ r.net = p.net
      /\ r.asked = p.asked /\ r.pcb = p.pcb
  BY <1>1, <1>2, <1>3, SetStateFields
<1>5. Named(r)
  BY <1>2, <1>4 DEF Named
<1> QED
  BY <1>2, <1>4, <1>5 DEF Good, Base, Uses, Confirmed, Holding

\* What only touches the timers, the lease, and what is in flight.
LEMMA SameGood ==
  ASSUME NEW s, NEW n \in Nat, NEW r \in Client,
         r.state = s.state, r.offered = s.offered, r.ip = s.ip, r.acked = s.acked,
         r.asked = s.asked, r.net \subseteq s.net, r.pcb = s.pcb
  PROVE  (Base(s, n) => Base(r, n)) /\ (Good(s, n) => Good(r, n))
<1>1. (Named(s) => Named(r)) /\ (Uses(s) => Uses(r))
  BY DEF Named, NamedIn, Uses
<1>2. (Confirmed(s) => Confirmed(r)) /\ (Asks(s) => Asks(r)) /\ (AsksNone(s) => AsksNone(r))
  BY DEF Confirmed, Asks, AsksNone
<1> QED
  BY <1>1, <1>2 DEF Good, Base

\* dhcp_check: the address the ACK named is tried out.
LEMMA CheckFields ==
  ASSUME NEW s \in Client, NEW r, r = Check(s)
  PROVE  /\ r \in Client /\ r.state = "CHECKING" /\ r.pcb = s.pcb
         /\ r.offered = s.offered /\ r.ip = s.ip /\ r.acked = s.acked
         /\ r.asked = s.asked /\ r.net = s.net
<1>q. PICK q : q = SetState(s, "CHECKING")
  OBVIOUS
<1>1. "CHECKING" \in States
  BY Names
<1>2. /\ q \in Client /\ q.state = "CHECKING" /\ q.pcb = s.pcb
      /\ q.offered = s.offered /\ q.ip = s.ip /\ q.acked = s.acked
      /\ q.asked = s.asked /\ q.net = s.net
  BY <1>q, <1>1, SetStateFields
<1>3. r = [q EXCEPT !.tries = (q.tries + 1) % TriesMod, !.timeout = CheckWait]
  BY <1>q DEF Check
<1>4. (q.tries + 1) % TriesMod \in 0..(TriesMod - 1) /\ CheckWait \in 0..(TimerMod - 1)
  <2>1. q.tries + 1 \in Int
    BY <1>2, Bounds DEF Client
  <2> QED
    BY <2>1, Wraps, Bounds
<1> QED
  BY <1>2, <1>3, <1>4 DEF Client

\* dhcp_bind: the interface gets the address that is offered.
LEMMA BindFields ==
  ASSUME NEW s \in Client, NEW r, r = Bind(s)
  PROVE  /\ r \in Client /\ r.state = "BOUND" /\ r.pcb = s.pcb
         /\ r.offered = s.offered /\ r.ip = s.offered /\ r.acked = s.acked
         /\ r.asked = s.asked /\ r.net = s.net
<1> DEFINE tick(t) == IF t = 0 THEN 1 ELSE t
           t1 == IF tick(s.lease.t1) >= tick(s.lease.t2) THEN 0 ELSE tick(s.lease.t1)
           t2 == tick(s.lease.t2)
<1>q. PICK q : q = [s EXCEPT !.t1 = t1, !.t2 = t2, !.ip = s.offered]
  OBVIOUS
<1>1. t1 \in 0..(TimerMod - 1) /\ t2 \in 0..(TimerMod - 1)
  <2>1. s.lease \in Leases \/ s.lease = NoLease
    BY DEF Client
  <2> QED
    BY <2>1, Bounds DEF NoLease
<1>2. r = SetState(q, "BOUND")
  BY <1>q DEF Bind
<1> HIDE DEF t1, t2
<1>3. /\ q \in Client /\ q.state = s.state /\ q.ip = s.offered /\ q.pcb = s.pcb
      /\ q.offered = s.offered /\ q.acked = s.acked /\ q.asked = s.asked /\ q.net = s.net
  BY <1>q, <1>1 DEF Client
<1>4. "BOUND" \in States
  BY Names
<1> QED
  BY <1>2, <1>3, <1>4, SetStateFields

\* With the address that was acknowledged, both keep what the client goes by.
LEMMA TakenGood ==
  ASSUME NEW s, NEW n \in Nat, NEW r, Good(s, n), s.state \in Holding \ {"BOUND"},
         n <= 1 => s.acked = s.offered,
         (r = Check(s) /\ s.state \notin Leased) \/ r = Bind(s)
  PROVE  Good(r, n)
<1>1. s \in Client /\ Named(s) /\ Uses(s)
  BY DEF Good, Base
<1>2. /\ r \in Client /\ r.pcb = s.pcb /\ r.offered = s.offered /\ r.acked = s.acked
      /\ r.asked = s.asked /\ r.net = s.net
      /\ \/ r.state = "CHECKING" /\ r.ip = s.ip /\ s.ip = NoIp
         \/ r.state = "BOUND" /\ r.ip = s.offered
  BY <1>1, CheckFields, BindFields DEF Uses
<1>3. Base(r, n)
  BY <1>1, <1>2 DEF Base, Named
<1>4. Uses(r)
  BY <1>1, <1>2 DEF Uses, Holding, Leased
<1>5. n <= 1 => Confirmed(r) /\ Asks(r)
  BY <1>2 DEF Confirmed, Asks, Good
<1> QED
  BY <1>3, <1>4, <1>5 DEF Good

-----------------------------------------------------------------------------
(***************************************************************************)
(* The handlers, and the tests that decide on them.                        *)
(***************************************************************************)

\* The handlers that send a request, or that they decline an address, keep the offer.
LEMMA SendsFields ==
  ASSUME NEW s \in Client, NEW ok \in BOOLEAN, NEW h \in {"select", "renew", "rebind", "decline"},
         Named(s), NEW r, r = Handled(s, h, ok)
  PROVE  /\ r \in Client /\ Named(r) /\ r.state # "SELECTING" /\ r.pcb = s.pcb
         /\ r.offered = s.offered /\ r.acked = s.acked
<1>1. s.offered \in Ips /\ s.ip \in Ips
  BY DEF Client
<1>2. CASE h = "select"
  <2>1. r = Sent(SetState(s, "REQUESTING"), "REQUEST", s.offered, ok) /\ "REQUESTING" \in States
    BY <1>2, Names DEF Handled, Select
  <2> QED
    BY <1>1, <2>1, SendFields
<1>3. CASE h = "renew"
  <2>p. PICK ip \in Ips : ip = s.ip
    BY <1>1
  <2>1. r = Sent(SetState(s, "RENEWING"), "REQUEST", ip, ok) /\ "RENEWING" \in States
    BY <1>3, <2>p, Names DEF Handled, Renew
  <2> QED
    BY <2>1, SendFields
<1>4. CASE h = "rebind"
  <2>p. PICK ip \in Ips : ip = s.ip
    BY <1>1
  <2>1. r = Sent(SetState(s, "REBINDING"), "REQUEST", ip, ok) /\ "REBINDING" \in States
    BY <1>4, <2>p, Names DEF Handled, Rebind
  <2> QED
    BY <2>1, SendFields
<1>5. CASE h = "decline"
  <2>1. r = Sent(SetState(s, "BACKING_OFF"), "DECLINE", s.offered, ok) /\ "BACKING_OFF" \in States
    BY <1>5, Names DEF Handled, Decline
  <2> QED
    BY <1>1, <2>1, SendFields
<1> QED
  BY <1>2, <1>3, <1>4, <1>5

\* Whatever the client is, a handler leaves it of its type, and with no more of an earlier
\* exchange than before.
LEMMA HandledBase ==
  ASSUME NEW s, NEW n \in Nat, NEW ok \in BOOLEAN, NEW h, NEW r, r = Handled(s, h, ok),
         Base(s, n)
  PROVE  Base(r, IF ok THEN n ELSE n + 1) /\ r.pcb = s.pcb
<1>1. s \in Client /\ Named(s) /\ s.offered \in Ips /\ s.ip \in Ips
  BY DEF Base, Client
<1>2. CASE h = "discover"
  <2>1. r = Discover(s, ok)
    BY <1>2 DEF Handled
  <2> QED
    BY <1>1, <2>1, DiscoverGood
<1>3. CASE h \in {"select", "renew", "rebind", "decline"}
  <2>1. r \in Client /\ r.state # "SELECTING" /\ Named(r) /\ r.pcb = s.pcb
    BY <1>1, <1>3, SendsFields
  <2> QED
    BY <2>1 DEF Base
<1>4. CASE h = "release"
  <2>1. r = Release(s, ok)
    BY <1>4 DEF Handled
  <2>2. Good(r, n) /\ r.pcb = s.pcb
    BY <1>1, <2>1, ReleaseFields
  <2> QED
    BY <2>2, MoreFails DEF Good
<1>5. CASE h = "nak"
  <2>1. r = HandleNak(s)
    BY <1>5 DEF Handled
  <2>2. Good(r, n) /\ r.pcb = s.pcb
    BY <1>1, <2>1, NakFields
  <2> QED
    BY <2>2, MoreFails DEF Good
<1>6. CASE h \in {"check", "bind"}
  <2>1. r = Check(s) \/ r = Bind(s)
    BY <1>6 DEF Handled
  <2>2. /\ r \in Client /\ r.state # "SELECTING" /\ r.pcb = s.pcb
        /\ r.asked = s.asked /\ r.net = s.net
    BY <1>1, <2>1, CheckFields, BindFields
  <2> QED
    BY <1>1, <2>2 DEF Base, Named
<1>7. CASE h \notin {"discover", "select", "renew", "rebind", "decline", "release", "nak",
                     "check", "bind"}
  <2>1. r = s
    BY <1>7 DEF Handled
  <2> QED
    BY <2>1, MoreFails
<1> QED
  BY <1>2, <1>3, <1>4, <1>5, <1>6, <1>7

\* A handler that finds the client as it was decided leaves it in order, and as the
\* handler that follows expects it.
LEMMA HandledGood ==
  ASSUME NEW s, NEW n \in Nat, NEW ok \in BOOLEAN, NEW h, NEW r, r = Handled(s, h, ok),
         Good(s, n), Ready(s, n, h)
  PROVE  /\ Good(r, IF ok THEN n ELSE n + 1)
         /\ h \in {"release", "nak"} => r.state \in {"OFF", "BACKING_OFF"}
<1>1. s \in Client /\ Base(s, n) /\ Named(s) /\ Uses(s)
  BY DEF Good, Base
<1>2. CASE h = "discover"
  <2>1. r = Discover(s, ok) /\ s.ip = NoIp
    BY <1>1, <1>2 DEF Handled, Ready, Uses, Leased
  <2> QED
    BY <1>1, <1>2, <2>1, DiscoverGood
<1>3. CASE h = "select"
  <2>1. r = Select(s, ok) /\ s.ip = NoIp /\ s.offered # NoIp
        /\ s.state \in {"SELECTING", "REQUESTING"}
    BY <1>1, <1>3 DEF Handled, Ready, Uses, Leased, Holding
  <2>2. n <= 1 /\ s.state = "REQUESTING" => Asks(s)
    BY DEF Good, Holding
  <2> QED
    BY <1>1, <1>3, <2>1, <2>2, SelectGood
<1>4. CASE h \in {"renew", "rebind"}
  <2>1. \E new \in {"RENEWING", "REBINDING"} : r = Sent(SetState(s, new), "REQUEST", s.ip, ok)
    BY <1>4 DEF Handled, Renew, Rebind
  <2>2. s.state \in Holding \ {"CHECKING"}
    BY <1>4 DEF Ready
  <2> QED
    BY <1>4, <2>1, <2>2, RenewGood
<1>5. CASE h = "decline"
  <2>1. r = Decline(s, ok) /\ s.state = "CHECKING"
    BY <1>5 DEF Handled, Ready
  <2> QED
    BY <1>5, <2>1, DeclineGood
<1>6. CASE h \in {"check", "bind"}
  <2>1. (r = Check(s) /\ h = "check") \/ (r = Bind(s) /\ h = "bind")
    BY <1>6 DEF Handled
  <2>2. s.state \in Holding \ {"BOUND"} /\ (h = "check" => s.state \notin Leased)
    BY <1>6 DEF Ready, Holding, Leased
  <2>3. n <= 1 => s.acked = s.offered
    BY <1>6 DEF Ready
  <2>4. Good(r, n)
    BY <2>1, <2>2, <2>3, TakenGood
  <2> QED
    BY <1>6, <2>4, MoreFails
<1>7. CASE h = "release"
  <2>1. r = Release(s, ok)
    BY <1>7 DEF Handled
  <2>2. Good(r, n) /\ r.state = "OFF"
    BY <1>1, <2>1, ReleaseFields
  <2> QED
    BY <2>2, MoreFails
<1>8. CASE h = "nak"
  <2>1. r = HandleNak(s)
    BY <1>8 DEF Handled
  <2>2. Good(r, n) /\ r.state = "BACKING_OFF"
    BY <1>1, <2>1, NakFields
  <2> QED
    BY <2>2, MoreFails
<1>9. CASE h \notin {"discover", "select", "renew", "rebind", "decline", "release", "nak",
                     "check", "bind"}
  <2>1. r = s
    BY <1>9 DEF Handled
  <2> QED
    BY <1>9, <2>1, MoreFails
<1> QED
  BY <1>2, <1>3, <1>4, <1>5, <1>6, <1>7, <1>8, <1>9

\* What a timer can decide on.
ByTimer == {"idle", "discover", "select", "check", "bind", "renew", "rebind", "release"}

\* What a test of the state decides on is right for that state: without an offer there is
\* nothing but discovery, and nothing at all when the client is off.
LEMMA TestedReady ==
  ASSUME NEW s, NEW n \in Nat, NEW found, Base(s, n), NEW h, h = Expired(s, found)
  PROVE  /\ h \in ByTimer
         /\ s.state \notin Holding => h \in {"idle", "discover"}
         /\ s.state = "OFF" => h = "idle"
         /\ s.state = "SELECTING" /\ found # "timeout" => h = "idle"
         /\ Good(s, n) => Ready(s, n, h)
<1>1. s \in Client /\ s.state \in States
  BY DEF Base, Client
<1>2. s.tries \in Int /\ RequestTries \in Int /\ RebindTries \in Int /\ CheckTries \in Int
  BY <1>1, DhcpAssumption DEF Client
<1>3. Good(s, n) /\ s.state = "CHECKING" /\ n <= 1 => s.acked = s.offered
  BY DEF Good, Confirmed
<1>4. CASE found = "timeout"
  <2>1. h = Timeout(s)
    BY <1>4 DEF Expired
  <2>2. CASE s.state \in {"BACKING_OFF", "SELECTING"}
    <3>1. h = "discover"
      BY <2>1, <2>2 DEF Timeout
    <3> QED
      BY <1>4, <2>2, <3>1 DEF Ready, ByTimer, Holding
  <2>3. CASE s.state = "REQUESTING"
    <3>1. h \in {"select", "release"}
      BY <1>2, <2>1, <2>3 DEF Timeout
    <3> QED
      BY <1>4, <2>3, <3>1 DEF Ready, ByTimer, Holding
  <2>4. CASE s.state = "CHECKING"
    <3>1. h \in {"check", "bind"}
      BY <1>2, <2>1, <2>4 DEF Timeout
    <3> QED
      BY <1>3, <1>4, <2>4, <3>1 DEF Ready, ByTimer, Holding
  <2>5. CASE s.state \in {"RENEWING", "REBINDING"}
    <3>1. h \in {"renew", "rebind"} \/ (h = "release" /\ s.state = "REBINDING")
      BY <1>2, <2>1, <2>5 DEF Timeout
    <3> QED
      BY <1>4, <2>5, <3>1 DEF Ready, ByTimer, Holding
  <2>6. CASE s.state \in {"OFF", "BOUND"}
    <3>1. h = "idle"
      BY <2>1, <2>6 DEF Timeout
    <3> QED
      BY <3>1 DEF Ready, ByTimer
  <2> QED
    BY <1>1, <2>2, <2>3, <2>4, <2>5, <2>6 DEF States
<1>5. CASE found # "timeout"
  <2>1. h = "idle" \/ (h \in {"renew", "rebind"} /\ Renewable(s))
    BY <1>5 DEF Expired
  <2>2. CASE h = "idle"
    BY <2>2 DEF Ready, ByTimer
  <2>3. CASE h \in {"renew", "rebind"} /\ s.state \in {"REQUESTING", "BOUND", "RENEWING"}
    BY <2>3 DEF Ready, ByTimer, Holding
  <2> QED
    BY <2>1, <2>2, <2>3 DEF Renewable
<1> QED
  BY <1>4, <1>5

\* What dhcp_task makes of the client by a timer: it keeps the offer, and what was
\* acknowledged, or starts over.
LEMMA TaskMoves ==
  ASSUME NEW s, NEW n \in Nat, NEW ok \in BOOLEAN, NEW found, Base(s, n),
         NEW r, r = TaskHandled(s, Expired(s, found), ok)
  PROVE  /\ Base(r, IF ok THEN n ELSE n + 1) /\ r.pcb = s.pcb
         /\ Good(s, n) => Good(r, IF ok THEN n ELSE n + 1)
         /\ r.state = "SELECTING" \/ (r.offered = s.offered /\ r.acked = s.acked)
         /\ r.state \in Holding => s.state \in Holding
         /\ s.state = "OFF" \/ (s.state = "SELECTING" /\ found # "timeout") => r = s
<1> PICK h : h = Expired(s, found)
  OBVIOUS
<1>1. /\ h \in ByTimer
      /\ s.state \notin Holding => h \in {"idle", "discover"}
      /\ s.state = "OFF" => h = "idle"
      /\ s.state = "SELECTING" /\ found # "timeout" => h = "idle"
      /\ Good(s, n) => Ready(s, n, h)
  BY TestedReady
<1>2. s \in Client /\ Named(s) /\ s.offered \in Ips /\ s.ip \in Ips
  BY DEF Base, Client
<1>3. CASE h = "release"
  <2>1. PICK q : q = Release(s, ok)
    OBVIOUS
  <2>2. Good(q, n) /\ q.ip = NoIp /\ q.pcb = s.pcb
    BY <1>2, <2>1, ReleaseFields
  <2>3. r = Discover(q, ok) /\ q \in Client /\ Base(q, n)
    BY <1>3, <2>1, <2>2 DEF TaskHandled, Good, Base
  <2>4. Good(r, IF ok THEN n ELSE n + 1) /\ r.state = "SELECTING" /\ r.pcb = s.pcb
    BY <2>2, <2>3, DiscoverGood
  <2> QED
    BY <1>1, <1>3, <2>4 DEF Good, Holding
<1>4. CASE h # "release"
  <2>1. r = Handled(s, h, ok)
    BY <1>4 DEF TaskHandled
  <2>2. Base(r, IF ok THEN n ELSE n + 1) /\ r.pcb = s.pcb
    BY <2>1, HandledBase
  <2>3. Good(s, n) => Good(r, IF ok THEN n ELSE n + 1)
    BY <1>1, <2>1, HandledGood
  <2>4. CASE h = "idle"
    <3>1. r = s
      BY <2>1, <2>4 DEF Handled
    <3> QED
      BY <2>2, <2>3, <3>1
  <2>5. CASE h = "discover"
    <3>1. r = Discover(s, ok)
      BY <2>1, <2>5 DEF Handled
    <3>2. r.state = "SELECTING"
      BY <1>2, <3>1, DiscoverGood
    <3> QED
      BY <1>1, <2>2, <2>3, <2>5, <3>2 DEF Holding
  <2>6. CASE h \in {"select", "check", "bind", "renew", "rebind"}
    <3>1. r = Check(s) \/ r = Bind(s) \/ h \in {"select", "renew", "rebind"}
      BY <2>1, <2>6 DEF Handled
    <3>3. r.offered = s.offered /\ r.acked = s.acked
      BY <1>2, <2>1, <3>1, SendsFields, CheckFields, BindFields
    <3> QED
      BY <1>1, <2>2, <2>3, <2>6, <3>3
  <2> QED
    BY <1>1, <1>4, <2>4, <2>5, <2>6 DEF ByTimer
<1> QED
  BY <1>3, <1>4

\* The counters of the two timers.
LEMMA CountGood ==
  ASSUME NEW s, NEW n \in Nat, Base(s, n),
         NEW r, r \in {s, [s EXCEPT !.timeout = Less(@)], CoarseCount(s)}
  PROVE  /\ Base(r, n) /\ (Good(s, n) => Good(r, n))
         /\ r.state = s.state /\ r.pcb = s.pcb
         /\ r.offered = s.offered /\ r.ip = s.ip /\ r.acked = s.acked
<1> DEFINE t1 == IF s.t2 = 1 THEN s.t1 ELSE Less(s.t1)
<1>1. s \in Client
  BY DEF Base
<1>2. Less(s.t2) \in 0..(TimerMod - 1) /\ t1 \in 0..(TimerMod - 1)
      /\ Less(s.timeout) \in 0..(TimerMod - 1)
  BY <1>1, LessType DEF Client
<1>3. \/ r = s
      \/ r = [s EXCEPT !.timeout = Less(s.timeout)]
      \/ r = [s EXCEPT !.t2 = Less(s.t2), !.t1 = t1]
  BY DEF CoarseCount
<1> HIDE DEF t1
<1>4. /\ r \in Client /\ r.state = s.state /\ r.offered = s.offered /\ r.ip = s.ip
      /\ r.acked = s.acked /\ r.asked = s.asked /\ r.net = s.net /\ r.pcb = s.pcb
  BY <1>1, <1>2, <1>3 DEF Client
<1>5. r.net \subseteq s.net
  BY <1>4
<1> QED
  BY <1>3, <1>4, <1>5, SameGood

-----------------------------------------------------------------------------
(***************************************************************************)
(* The steps.                                                              *)
(***************************************************************************)

\* What a step is to leave, but for the types.
After ==
  /\ Base(c', fails') /\ NamedIn(msg_in')
  /\ dstate' = "START" => /\ c'.state = "OFF" /\ ~c'.pcb
                          /\ thread' = "idle" /\ task' = "poll" /\ ~overtaken'
  /\ event' = "DHCP_FAILED" => task' = "deleted" /\ ~c'.pcb
  /\ ~overtaken' =>
       /\ InOrder(c', fails', thread', msg_in')
       /\ event' = "DHCP_FAILED" => c'.state = "OFF" /\ thread' \notin Handlers

\* A client that starts over goes by nothing.
LEMMA AnewGood ==
  ASSUME NEW s, NEW n \in Nat, Base(s, n), Anew(s)
  PROVE  Good(s, n)
  BY DEF Anew, Good, Base, Uses, Confirmed, Holding

\* Between its decisions tcpip_thread expects nothing of the client.
LEMMA PlainReady ==
  ASSUME NEW s, NEW n, NEW h, NEW M, h \notin Handlers
  PROVE  /\ Ready(s, n, h)
         /\ h # "reply" \/ s.state \notin Holding => Heard(s, n, h, M)
  BY DEF Ready, Heard, Handlers, Fits

\* What tcpip_thread expects is about the state, the timeout, and the offer.
LEMMA ReadySame ==
  ASSUME NEW s, NEW r, NEW n, NEW h, NEW M,
         r.state = s.state, r.timeout = s.timeout, r.offered = s.offered, r.acked = s.acked
  PROVE  /\ Ready(s, n, h) => Ready(r, n, h)
         /\ Heard(s, n, h, M) => Heard(r, n, h, M)
<1>1. Ready(s, n, h) => Ready(r, n, h)
  BY DEF Ready
<1>2. Heard(s, n, h, M) => Heard(r, n, h, M)
  BY DEF Heard, Fits
<1> QED
  BY <1>1, <1>2

\* Base is not about the offer, the address, or the timers.
LEMMA SameBase ==
  ASSUME NEW s, NEW n, NEW r \in Client, Base(s, n),
         r.state = s.state, r.asked = s.asked, r.net = s.net, r.pcb = s.pcb
  PROVE  Base(r, n)
  BY DEF Base, Named, AsksNone

\* The memory for a message is there or not, and the bound holds.
LEMMA UsedType ==
  ASSUME fails \in 0..MaxFails, NEW h, NEW ok \in Memory(h), Used(ok)
  PROVE  /\ ok \in BOOLEAN /\ fails' \in 0..MaxFails
         /\ fails' = IF ok THEN fails ELSE fails + 1
<1>1. MaxFails \in Nat
  BY DhcpAssumption
<1>2. ok \in BOOLEAN /\ (fails < MaxFails \/ ok = TRUE)
  BY DEF Memory
<1> QED
  BY <1>1, <1>2 DEF Used

\* What the invariant says of the present state.
LEMMA Now ==
  ASSUME IInv
  PROVE  /\ c \in Client /\ fails \in 0..MaxFails /\ fails \in Nat /\ overtaken \in BOOLEAN
         /\ msg_in \in SUBSET Reply
         /\ Base(c, fails) /\ NamedIn(msg_in) /\ Named(c)
         /\ ~overtaken => /\ Good(c, fails) /\ Ready(c, fails, thread)
                          /\ Heard(c, fails, thread, msg_in)
         /\ ~overtaken /\ event = "DHCP_FAILED" => c.state = "OFF" /\ thread \notin Handlers
  BY DhcpAssumption DEF IInv, TypeOK, InOrder, Base

\* The timers of tcpip_thread: they change counters only, and a test finds what it needs.
LEMMA TimerStep ==
  ASSUME IInv, FineTest \/ CoarseTest \/ CountDown \/ FireTimer
  PROVE  After
<1>1. /\ c' \in {c, [c EXCEPT !.timeout = Less(@)], CoarseCount(c)}
      /\ UNCHANGED <<msg_in, task, dstate, event, fails, overtaken>>
  BY DEF FineTest, CoarseTest, CountDown, FireTimer
<1>2. /\ Base(c', fails) /\ (Good(c, fails) => Good(c', fails))
      /\ c'.state = c.state /\ c'.pcb = c.pcb
  BY <1>1, Now, CountGood
<1>3. dstate # "START"
  BY DEF FineTest, CoarseTest, CountDown, FireTimer, InStep, IInv
<1>4. /\ ~overtaken => Ready(c', fails, thread') /\ Heard(c', fails, thread', msg_in)
      /\ c.state = "OFF" => thread' \notin Handlers
  <2>1. CASE FineTest \/ CoarseTest \/ CountDown
    <3>1. thread' \notin Handlers /\ thread' # "reply"
      BY <2>1 DEF FineTest, CoarseTest, CountDown, FineFound, CoarseFound, Handlers
    <3> QED
      BY <3>1, PlainReady
  <2>2. CASE FireTimer
    <3>1. c' = c /\ thread' = Expired(c, thread)
      BY <2>2 DEF FireTimer
    <3>2. PICK h : h = Expired(c, thread)
      OBVIOUS
    <3>3. /\ h \in ByTimer /\ (c.state = "OFF" => h = "idle")
          /\ Good(c, fails) => Ready(c, fails, h)
      BY <3>2, Now, TestedReady
    <3>4. Heard(c, fails, h, msg_in)
      BY <3>3 DEF Heard, ByTimer
    <3>5. h = "idle" => h \notin Handlers
      BY DEF Handlers
    <3> QED
      BY <3>1, <3>2, <3>3, <3>4, <3>5, Now
  <2> QED
    BY <2>1, <2>2
<1> QED
  BY <1>1, <1>2, <1>3, <1>4, Now DEF After, InOrder, IInv

\* A message comes in: an ACK with the current transaction id is about the offer.
LEMMA RecvStep ==
  ASSUME IInv, Recv
  PROVE  After
<1>1. PICK m \in c.net :
        /\ c' = [c EXCEPT !.net = @ \ {m}]
        /\ thread' = IF Accepts(m) THEN "reply" ELSE "idle"
        /\ msg_in' = IF Accepts(m) THEN {m} ELSE {}
  BY DEF Recv
<1>2. UNCHANGED <<task, dstate, event, fails, overtaken>> /\ c.pcb
  BY DEF Recv
<1>3. /\ c' \in Client /\ c'.state = c.state /\ c'.offered = c.offered /\ c'.ip = c.ip
      /\ c'.acked = c.acked /\ c'.asked = c.asked /\ c'.net \subseteq c.net /\ c'.pcb = c.pcb
  BY <1>1, Now DEF Client
<1>4. Base(c', fails) /\ (Good(c, fails) => Good(c', fails))
  BY <1>3, Now, SameGood
<1>5. NamedIn(msg_in')
  BY <1>1, Now DEF Named, NamedIn
<1>6. dstate # "START" /\ event # "DHCP_FAILED"
  BY <1>2 DEF IInv
<1>7. ASSUME ~overtaken
      PROVE  Ready(c', fails, thread') /\ Heard(c', fails, thread', msg_in')
  <2>1. thread' \in {"reply", "idle"} /\ thread' \notin Handlers
    BY <1>1 DEF Handlers
  <2>2. \A q \in msg_in' : Fits(c', fails, q)
    BY <1>1, <1>3, <1>7, Now DEF Good, Asks, Fits, Accepts
  <2> QED
    BY <2>1, <2>2 DEF Ready, Heard, Handlers
<1> QED
  BY <1>2, <1>4, <1>5, <1>6, <1>7, Now DEF After, InOrder

\* The state is tested for the message in hand: an ACK confirms the offer.
LEMMA ReceivedStep ==
  ASSUME IInv, Received
  PROVE  After
<1>1. PICK m \in msg_in : \E h : h = Replied(c, m) /\
        /\ thread' = h
        /\ msg_in' = IF h \in {"ack", "offer"} THEN {m} ELSE {}
        /\ c' = IF h = "bind" THEN [c EXCEPT !.acked = IF m.fresh THEN m.ip ELSE NoIp] ELSE c
  BY DEF Received
<1>2. PICK h : /\ h = Replied(c, m) /\ thread' = h
               /\ msg_in' = IF h \in {"ack", "offer"} THEN {m} ELSE {}
               /\ c' = IF h = "bind" THEN [c EXCEPT !.acked = IF m.fresh THEN m.ip ELSE NoIp]
                       ELSE c
  BY <1>1
<1>3. UNCHANGED <<task, dstate, event, fails, overtaken>> /\ thread = "reply"
  BY DEF Received
<1>4. /\ h = "ack" => m.kind = "ACK" /\ c.state = "REQUESTING"
      /\ h = "bind" => m.kind = "ACK" /\ c.state \in {"RENEWING", "REBINDING"}
      /\ h = "nak" => c.state \in {"REQUESTING", "RENEWING", "REBINDING"}
      /\ h = "offer" => m.kind = "OFFER" /\ c.state = "SELECTING"
      /\ h \in {"ack", "bind", "nak", "offer", "idle"}
  BY <1>2 DEF Replied
<1>5. m \in Reply /\ m.ip \in Ips /\ NoIp \in Ips /\ m.fresh \in BOOLEAN
  BY Now, Names DEF Reply
<1>6. /\ c' \in Client /\ c'.state = c.state /\ c'.offered = c.offered /\ c'.ip = c.ip
      /\ c'.asked = c.asked /\ c'.net = c.net /\ c'.pcb = c.pcb
      /\ h # "bind" => c' = c
      /\ h = "bind" /\ m.fresh => c'.acked = m.ip
  BY <1>2, <1>5, Now DEF Client
<1>7. Base(c', fails)
  BY <1>6, Now, SameBase
<1>8. NamedIn(msg_in')
  BY <1>2, Now DEF NamedIn
<1>9. dstate # "START"
  BY <1>3 DEF IInv
<1>10. ASSUME ~overtaken
       PROVE  /\ InOrder(c', fails, thread', msg_in')
              /\ event = "DHCP_FAILED" => c'.state = "OFF" /\ thread' \notin Handlers
  <2>1. Good(c, fails) /\ Fits(c, fails, m)
    BY <1>3, <1>10, Now DEF Heard
  <2>2. event = "DHCP_FAILED" => c'.state = "OFF" /\ h = "idle"
    BY <1>4, <1>6, <1>10, Now
  <2>3. CASE h = "bind"
    <3>1. fails <= 1 => m.fresh /\ m.ip = c.offered
      BY <1>4, <2>1, <2>3 DEF Fits, Holding
    <3>2. fails <= 1 => c'.acked = c'.offered
      BY <1>6, <2>3, <3>1
    <3>3. Uses(c') /\ (fails <= 1 => Confirmed(c') /\ Asks(c'))
      BY <1>4, <1>6, <2>1, <2>3, <3>2 DEF Good, Uses, Confirmed, Asks, Holding
    <3>4. Good(c', fails)
      BY <1>7, <3>3 DEF Good
    <3> QED
      BY <1>2, <1>4, <1>6, <2>2, <2>3, <3>2, <3>4 DEF InOrder, Ready, Heard
  <2>4. CASE h # "bind"
    <3>1. c' = c
      BY <1>6, <2>4
    <3>2. Ready(c, fails, h)
      BY <1>4, <2>4 DEF Ready
    <3>3. Heard(c, fails, h, msg_in')
      BY <1>2, <1>4, <2>1, <2>4 DEF Heard
    <3>4. h = "idle" => h \notin Handlers
      BY DEF Handlers
    <3> QED
      BY <1>2, <2>1, <2>2, <3>1, <3>2, <3>3, <3>4 DEF InOrder
  <2> QED
    BY <2>3, <2>4
<1> QED
  BY <1>3, <1>6, <1>7, <1>8, <1>9, <1>10, Now DEF After, IInv

\* An ACK in REQUESTING, and an offer, are taken over.
LEMMA TakeReplyStep ==
  ASSUME IInv, TakeReply
  PROVE  After
<1>1. PICK m \in msg_in :
        \/ /\ thread = "ack" /\ thread' = "check"
           /\ \E l \in Leases : c' = HandleAck(c, m, l)
        \/ /\ thread = "offer" /\ thread' = IF m.sid THEN "select" ELSE "idle"
           /\ c' = HandleOffer(c, m)
  BY DEF TakeReply
<1>2. UNCHANGED <<task, dstate, event, fails, overtaken>> /\ msg_in' = {}
  BY DEF TakeReply
<1>3. m \in Reply /\ m.ip \in Ips /\ NoIp \in Ips /\ (m.kind # "NAK" => m.ip \in Addrs)
  BY Now, Names DEF Reply, NamedIn
<1>4. dstate # "START"
  BY <1>1 DEF IInv
<1>5. NamedIn(msg_in')
  BY <1>2 DEF NamedIn
<1>6. thread \in Handlers /\ (~overtaken => event # "DHCP_FAILED")
  BY <1>1, Now DEF Handlers
<1>7. CASE thread = "ack"
  <2>1. PICK l \in Leases : c' = HandleAck(c, m, l)
    BY <1>1, <1>7
  <2>2. c' = [c EXCEPT !.offered = m.ip, !.lease = l, !.acked = IF m.fresh THEN m.ip ELSE NoIp]
    BY <2>1 DEF HandleAck
  <2>3. /\ c' \in Client /\ c'.state = c.state /\ c'.offered = m.ip /\ c'.ip = c.ip
        /\ c'.asked = c.asked /\ c'.net = c.net /\ c'.pcb = c.pcb
        /\ m.fresh => c'.acked = m.ip
    BY <1>3, <2>2, Now DEF Client
  <2>4. Base(c', fails)
    BY <2>3, Now, SameBase
  <2>5. ASSUME ~overtaken PROVE InOrder(c', fails, thread', msg_in')
    <3>1. Good(c, fails) /\ Fits(c, fails, m) /\ c.state = "REQUESTING" /\ m.kind = "ACK"
      BY <1>7, <2>5, Now DEF Heard
    <3>2. m.ip # NoIp /\ c.ip = NoIp
      BY <1>3, <3>1, DhcpAssumption DEF Good, Uses, Leased
    <3>3. fails <= 1 => m.fresh /\ m.ip = c.offered
      BY <3>1 DEF Fits, Holding
    <3>4. Uses(c')
      BY <2>3, <3>1, <3>2 DEF Uses
    <3>5. fails <= 1 => Confirmed(c') /\ Asks(c')
      BY <2>3, <3>1, <3>2, <3>3 DEF Confirmed, Asks, Good, Holding
    <3>6. Good(c', fails)
      BY <2>4, <3>4, <3>5 DEF Good
    <3>7. thread' = "check" /\ (fails <= 1 => c'.acked = c'.offered) /\ c'.state = "REQUESTING"
      BY <1>1, <1>7, <2>3, <3>1, <3>3
    <3> QED
      BY <3>6, <3>7 DEF InOrder, Ready, Heard
  <2> QED
    BY <1>2, <1>4, <1>5, <1>6, <2>3, <2>4, <2>5, Now DEF After, IInv
<1>8. CASE thread = "offer"
  <2>o. PICK ip \in Ips : ip = IF m.sid THEN m.ip ELSE c.offered
    BY <1>3, Now DEF Client
  <2>1. c' = [c EXCEPT !.timeout = 0, !.offered = ip]
    BY <1>1, <1>8, <2>o DEF HandleOffer
  <2>t. 0 \in 0..(TimerMod - 1)
    BY Bounds
  <2>2. thread' = IF m.sid THEN "select" ELSE "idle"
    BY <1>1, <1>8
  <2>3. /\ c' \in Client /\ c'.state = c.state /\ c'.timeout = 0 /\ c'.ip = c.ip
        /\ c'.asked = c.asked /\ c'.net = c.net /\ c'.pcb = c.pcb
        /\ m.sid => c'.offered = m.ip
    BY <2>1, <2>o, <2>t, Now DEF Client
  <2>4. Base(c', fails)
    BY <2>3, Now, SameBase
  <2>5. ASSUME ~overtaken PROVE InOrder(c', fails, thread', msg_in')
    <3>1. Good(c, fails) /\ c.state = "SELECTING" /\ m.kind = "OFFER"
      BY <1>8, <2>5, Now DEF Heard
    <3>2. m.ip # NoIp /\ c.ip = NoIp
      BY <1>3, <3>1, DhcpAssumption DEF Good, Uses, Leased
    <3>3. Good(c', fails)
      BY <2>3, <2>4, <3>1, <3>2 DEF Good, Uses, Confirmed, Holding
    <3>4. Ready(c', fails, thread')
      BY <2>2, <2>3, <3>1, <3>2 DEF Ready
    <3>5. Heard(c', fails, thread', msg_in')
      BY <2>2 DEF Heard
    <3> QED
      BY <3>3, <3>4, <3>5 DEF InOrder
  <2> QED
    BY <1>2, <1>4, <1>5, <1>6, <2>3, <2>4, <2>5, Now DEF After, IInv
<1> QED
  BY <1>1, <1>7, <1>8

\* An ARP reply for the offered address is to be declined.
LEMMA ArpReplyStep ==
  ASSUME IInv, ArpReply
  PROVE  After
<1>1. /\ c.state = "CHECKING" /\ thread' = "decline"
      /\ UNCHANGED <<c, msg_in, task, dstate, event, fails, overtaken>>
  BY DEF ArpReply
<1>2. dstate # "START" /\ (~overtaken => event # "DHCP_FAILED")
  BY <1>1, Now DEF IInv
<1>3. Ready(c, fails, "decline") /\ Heard(c, fails, "decline", msg_in)
  BY <1>1 DEF Ready, Heard
<1> QED
  BY <1>1, <1>2, <1>3, Now DEF After, InOrder, IInv

\* A handler comes: as it was decided, or on a client that dhcp_task has changed.
LEMMA HandleStep ==
  ASSUME IInv, Handle
  PROVE  After
<1>1. PICK ok \in Memory(thread) : c' = Handled(c, thread, ok) /\ Used(ok)
  BY DEF Handle
<1>2. /\ thread \in Handlers \ {"ack", "offer"} /\ thread' = Follow(thread)
      /\ overtaken' = (overtaken /\ ~Anew(c'))
      /\ UNCHANGED <<msg_in, task, dstate, event>>
  BY DEF Handle
<1>3. /\ ok \in BOOLEAN /\ fails' \in 0..MaxFails
      /\ fails' = IF ok THEN fails ELSE fails + 1
  BY <1>1, Now, UsedType
<1>n. fails' \in Nat
  BY <1>3, DhcpAssumption
<1>4. PICK r : r = Handled(c, thread, ok)
  OBVIOUS
<1>5. Base(r, IF ok THEN fails ELSE fails + 1) /\ r.pcb = c.pcb
  BY <1>3, <1>4, Now, HandledBase
<1>6. c' = r /\ Base(c', fails') /\ c'.pcb = c.pcb
  BY <1>1, <1>3, <1>4, <1>5
<1>7. dstate # "START"
  BY <1>2 DEF IInv, Handlers
<1>8. /\ thread' \in {"idle", "discover"}
      /\ thread' = "discover" => thread \in {"release", "nak"}
  BY <1>2 DEF Follow
<1>9. Heard(c', fails', thread', msg_in')
  BY <1>8 DEF Heard
<1>10. ASSUME ~overtaken
       PROVE  InOrder(c', fails', thread', msg_in') /\ event # "DHCP_FAILED"
  <2>1. Good(c, fails) /\ Ready(c, fails, thread) /\ event # "DHCP_FAILED"
    BY <1>2, <1>10, Now
  <2>2. /\ Good(r, IF ok THEN fails ELSE fails + 1)
        /\ thread \in {"release", "nak"} => r.state \in {"OFF", "BACKING_OFF"}
    BY <1>3, <1>4, <2>1, Now, HandledGood
  <2>3. Ready(c', fails', thread')
    BY <1>6, <1>8, <2>2 DEF Ready
  <2>4. Good(c', fails')
    BY <1>3, <1>6, <2>2
  <2> QED
    BY <1>9, <2>1, <2>3, <2>4 DEF InOrder
<1>11. ASSUME overtaken, ~overtaken'
       PROVE  InOrder(c', fails', thread', msg_in') /\ event # "DHCP_FAILED"
  <2>1. Anew(c')
    BY <1>2, <1>11
  <2>2. Good(c', fails')
    BY <1>6, <1>n, <2>1, AnewGood
  <2>3. c'.state = "SELECTING" /\ c'.pcb
    BY <2>1 DEF Anew
  <2>4. Ready(c', fails', thread')
    BY <1>8, <2>3 DEF Ready
  <2>5. event # "DHCP_FAILED"
    BY <1>6, <2>3 DEF IInv
  <2> QED
    BY <1>9, <2>2, <2>4, <2>5 DEF InOrder
<1> QED
  BY <1>2, <1>6, <1>7, <1>10, <1>11, Now DEF After, IInv
\* A server answers what the client asked with its transaction id.
LEMMA ServerStep ==
  ASSUME IInv, Server
  PROVE  After
<1>1. PICK m \in c.asked : \E r \in Answers(m) : c' = [c EXCEPT !.net = @ \cup {r}]
  BY DEF Server
<1>2. PICK r \in Answers(m) : c' = [c EXCEPT !.net = @ \cup {r}]
  BY <1>1
<1>3. UNCHANGED <<thread, msg_in, task, dstate, event, fails, overtaken>>
  BY DEF Server
<1>4. m \in Message
  BY Now DEF Client
<1>5. /\ r \in Reply /\ (r.kind # "NAK" => r.ip \in Addrs)
      /\ r.kind = "ACK" => m.kind = "REQUEST" /\ r.ip = m.ip
      /\ r.fresh = m.fresh
  BY <1>4 DEF Answers, Reply, Message, Ips
<1>6. /\ c' \in Client /\ c'.state = c.state /\ c'.offered = c.offered /\ c'.ip = c.ip
      /\ c'.acked = c.acked /\ c'.asked = c.asked /\ c'.net = c.net \cup {r}
      /\ c'.pcb = c.pcb /\ c'.timeout = c.timeout
  BY <1>2, <1>5, Now DEF Client
<1>7. c.pcb
  BY Now DEF Named
<1>8. Named(c')
  BY <1>5, <1>6, <1>7, Now DEF Named, NamedIn
<1>9. AsksNone(c) => AsksNone(c')
  BY <1>5, <1>6 DEF AsksNone
<1>10. Base(c', fails)
  BY <1>6, <1>8, <1>9, Now DEF Base
<1>11. Asks(c) => Asks(c')
  <2> SUFFICES ASSUME Asks(c) PROVE Asks(c')
    OBVIOUS
  <2>1. r.kind = "ACK" => r.fresh /\ r.ip = c.offered
    BY <1>5, DhcpAssumption DEF Asks
  <2> QED
    BY <1>6, <2>1 DEF Asks
<1>12. Good(c, fails) => Good(c', fails)
  BY <1>6, <1>10, <1>11 DEF Good, Uses, Confirmed
<1>13. ~overtaken => Ready(c', fails, thread) /\ Heard(c', fails, thread, msg_in)
  BY <1>6, Now, ReadySame
<1> QED
  BY <1>3, <1>6, <1>7, <1>10, <1>12, <1>13, Now DEF After, InOrder, IInv

\* An answer is lost.
LEMMA LostStep ==
  ASSUME IInv, Lost
  PROVE  After
<1>1. PICK m \in c.net : c' = [c EXCEPT !.net = @ \ {m}]
  BY DEF Lost
<1>2. UNCHANGED <<thread, msg_in, task, dstate, event, fails, overtaken>>
  BY DEF Lost
<1>3. /\ c' \in Client /\ c'.state = c.state /\ c'.offered = c.offered /\ c'.ip = c.ip
      /\ c'.acked = c.acked /\ c'.asked = c.asked /\ c'.net \subseteq c.net
      /\ c'.pcb = c.pcb /\ c'.timeout = c.timeout
  BY <1>1, Now DEF Client
<1>4. Base(c', fails) /\ (Good(c, fails) => Good(c', fails))
  BY <1>3, Now, SameGood
<1>5. ~overtaken => Ready(c', fails, thread) /\ Heard(c', fails, thread, msg_in)
  BY <1>3, Now, ReadySame
<1> QED
  BY <1>2, <1>3, <1>4, <1>5, Now DEF After, InOrder, IInv

\* dhcp_stop: nothing is in flight for a client without its pcb.
LEMMA StopGood ==
  ASSUME NEW s \in Client, NEW n, s.ip = NoIp, NEW r, r = Stop(s)
  PROVE  Good(r, n) /\ r.state = "OFF" /\ ~r.pcb
<1>q. PICK q : q = SetState(s, "OFF")
  OBVIOUS
<1>1. "OFF" \in States
  BY Names
<1>2. q \in Client /\ q.state = "OFF" /\ q.ip = s.ip
  BY <1>q, <1>1, SetStateFields
<1>3. r = [q EXCEPT !.pcb = FALSE, !.net = {}, !.asked = {}]
  BY <1>q DEF Stop
<1>4. /\ r \in Client /\ r.state = "OFF" /\ r.ip = NoIp /\ ~r.pcb
      /\ r.net = {} /\ r.asked = {}
  BY <1>2, <1>3 DEF Client
<1> QED
  BY <1>4 DEF Good, Base, Named, NamedIn, Uses, Confirmed, Holding

\* dhcp_task starts the client.
LEMMA StartStep ==
  ASSUME IInv, TaskStart
  PROVE  After
<1>1. PICK ok \in Memory("discover") :
        /\ c' = IF ok THEN Discover([c EXCEPT !.pcb = TRUE], ok)
                ELSE Stop(Discover([c EXCEPT !.pcb = TRUE], ok))
        /\ Used(ok)
  BY DEF TaskStart
<1>2. /\ dstate' = "WAIT" /\ event # "DHCP_FAILED" /\ thread = "idle" /\ ~overtaken
      /\ UNCHANGED <<thread, msg_in, event, overtaken>>
  BY DEF TaskStart, IInv
<1>3. /\ ok \in BOOLEAN /\ fails' \in 0..MaxFails
      /\ fails' = IF ok THEN fails ELSE fails + 1
  BY <1>1, Now, UsedType
<1>4. c.state = "OFF" /\ c.ip = NoIp
  BY <1>2, Now DEF TaskStart, IInv, Good, Uses, Leased
<1>s. PICK s : s = [c EXCEPT !.pcb = TRUE]
  OBVIOUS
<1>5. /\ s \in Client /\ s.state = "OFF" /\ s.ip = NoIp /\ s.pcb
      /\ s.net = c.net
  BY <1>4, <1>s, Now DEF Client
<1>6. Base(s, fails)
  BY <1>5, Now DEF Base, Named
<1>d. PICK d : d = Discover(s, ok)
  OBVIOUS
<1>7. Good(d, IF ok THEN fails ELSE fails + 1) /\ d.state = "SELECTING"
  BY <1>3, <1>5, <1>6, <1>d, Now, DiscoverGood
<1>8. d.ip = NoIp /\ d \in Client
  BY <1>7 DEF Good, Base, Uses, Leased
<1>9. Good(c', fails')
  <2>1. CASE ok
    BY <1>1, <1>3, <1>7, <1>d, <1>s, <2>1
  <2>2. CASE ~ok
    <3>1. c' = Stop(d)
      BY <1>1, <1>d, <1>s, <2>2
    <3> QED
      BY <1>8, <3>1, StopGood
  <2> QED
    BY <2>1, <2>2
<1>10. thread \notin Handlers /\ thread # "reply"
  BY <1>2 DEF Handlers
<1>11. Ready(c', fails', thread) /\ Heard(c', fails', thread, msg_in)
  BY <1>10, PlainReady
<1>12. Base(c', fails')
  BY <1>9 DEF Good
<1> QED
  BY <1>2, <1>9, <1>11, <1>12, Now DEF After, InOrder

\* dhcp_task reports the failure, and stops the client.
LEMMA FailStep ==
  ASSUME IInv, TaskFailed
  PROVE  After
<1>1. /\ c' = Stop(c) /\ c.ip = NoIp /\ dstate' = "TIMEOUT" /\ task' = "deleted"
      /\ overtaken' = (thread \in Handlers)
      /\ UNCHANGED <<thread, msg_in, fails>>
  BY DEF TaskFailed
<1>2. Good(c', fails) /\ c'.state = "OFF" /\ ~c'.pcb
  BY <1>1, Now, StopGood
<1>3. c'.state \notin Holding
  BY <1>2 DEF Holding
<1>4. thread \notin Handlers => Ready(c', fails, thread) /\ Heard(c', fails, thread, msg_in)
  BY <1>3, PlainReady
<1> QED
  BY <1>1, <1>2, <1>4, Now DEF After, InOrder, Good

\* A timer of dhcp_task, whatever tcpip_thread has decided on: where that still stands,
\* the offer does.
LEMMA TaskTimerStep ==
  ASSUME IInv, NEW s, s \in {c, [c EXCEPT !.timeout = Less(@)], CoarseCount(c)},
         NEW found, NEW ok \in BOOLEAN, NEW h,
         c.timeout = 0 => found # "timeout" /\ s.timeout = 0,
         c' = TaskHandled(s, Expired(s, found), ok), Used(ok), Overtakes,
         dstate # "START", event # "DHCP_FAILED",
         fails' = IF ok THEN fails ELSE fails + 1, fails' \in 0..MaxFails,
         UNCHANGED <<thread, msg_in, dstate, event>>
  PROVE  After
<1>1. /\ Base(s, fails) /\ (Good(c, fails) => Good(s, fails))
      /\ s.state = c.state /\ s.pcb = c.pcb
      /\ s.offered = c.offered /\ s.acked = c.acked
  BY Now, CountGood
<1>r. PICK r : r = TaskHandled(s, Expired(s, found), ok)
  OBVIOUS
<1>2. /\ Base(r, IF ok THEN fails ELSE fails + 1)
      /\ Good(s, fails) => Good(r, IF ok THEN fails ELSE fails + 1)
      /\ r.state = "SELECTING" \/ (r.offered = s.offered /\ r.acked = s.acked)
      /\ r.state \in Holding => s.state \in Holding
      /\ s.state = "SELECTING" /\ found # "timeout" => r = s
  BY <1>1, <1>r, Now, TaskMoves
<1>n. fails' \in Nat /\ (fails' <= 1 => fails <= 1)
  BY DhcpAssumption, Now
<1>3. /\ Base(c', fails') /\ (Good(c, fails) => Good(c', fails'))
      /\ c'.state = "SELECTING" \/ (c'.offered = c.offered /\ c'.acked = c.acked)
      /\ c'.state \in Holding => c.state \in Holding
      /\ c.state = "SELECTING" /\ c.timeout = 0
            => c'.offered = c.offered /\ c'.timeout = 0 /\ c'.state = c.state
  BY <1>1, <1>2, <1>r
<1>4. ASSUME ~overtaken, thread \in Handlers, c'.state = c.state
      PROVE  InOrder(c', fails', thread, msg_in)
  <2>1. Good(c, fails) /\ Ready(c, fails, thread) /\ Heard(c, fails, thread, msg_in)
    BY <1>4, Now
  <2>2. Ready(c', fails', thread)
    BY <1>3, <1>4, <1>n, <2>1 DEF Ready
  <2>3. Heard(c', fails', thread, msg_in)
    BY <1>3, <1>4, <1>n, <2>1 DEF Heard, Fits, Holding
  <2> QED
    BY <1>3, <2>1, <2>2, <2>3 DEF InOrder
<1>5. ASSUME ~overtaken, thread \notin Handlers
      PROVE  InOrder(c', fails', thread, msg_in)
  <2>1. Good(c, fails) /\ Heard(c, fails, thread, msg_in)
    BY <1>5, Now
  <2>2. Ready(c', fails', thread)
    BY <1>5, PlainReady
  <2>3. CASE thread = "reply"
    <3>1. \A m \in msg_in : Fits(c', fails', m)
      BY <1>3, <1>n, <2>1, <2>3 DEF Heard, Fits, Holding
    <3> QED
      BY <1>3, <2>1, <2>2, <2>3, <3>1 DEF InOrder, Heard
  <2>4. CASE thread # "reply"
    BY <1>3, <1>5, <2>1, <2>2, <2>4, PlainReady DEF InOrder
  <2> QED
    BY <2>3, <2>4
<1>6. ASSUME overtaken, Anew(c'), thread \notin Handlers
      PROVE  InOrder(c', fails', thread, msg_in)
  <2>1. Good(c', fails')
    BY <1>3, <1>6, <1>n, AnewGood
  <2>2. c'.state \notin Holding
    BY <1>6 DEF Anew, Holding
  <2>3. Ready(c', fails', thread) /\ Heard(c', fails', thread, msg_in)
    BY <1>6, <2>2, PlainReady
  <2> QED
    BY <2>1, <2>3 DEF InOrder
<1>7. ~overtaken' => InOrder(c', fails', thread, msg_in)
  <2>1. CASE thread \in Handlers
    BY <1>4, <2>1, Now DEF Overtakes
  <2>2. CASE thread \notin Handlers
    BY <1>5, <1>6, <2>2, Now DEF Overtakes
  <2> QED
    BY <2>1, <2>2
<1> QED
  BY <1>3, <1>7, Now DEF After

\* The fine and the coarse timer of dhcp_task.
LEMMA TaskStep ==
  ASSUME IInv, TaskFine \/ TaskCoarse
  PROVE  After
<1>1. /\ dstate # "START" /\ event # "DHCP_FAILED"
      /\ Overtakes /\ UNCHANGED <<thread, msg_in, dstate, event>>
  BY DEF TaskFine, TaskCoarse, IInv
<1>2. c.timeout \in Nat
  BY Now DEF Client
<1>3. CASE TaskFine
  <2> DEFINE s == IF FineFound(c) = "idle" THEN c ELSE [c EXCEPT !.timeout = Less(@)]
             h == IF FineFound(c) = "last" THEN Timeout(s) ELSE "idle"
             found == IF FineFound(c) = "last" THEN "timeout" ELSE "idle"
  <2>1. PICK ok \in Memory(h) : c' = TaskHandled(s, h, ok) /\ Used(ok)
    BY <1>3 DEF TaskFine
  <2>2. h = Expired(s, found)
    BY DEF Expired
  <2>3. c.timeout = 0 => found # "timeout" /\ s = c
    BY DEF FineFound
  <2>4. s \in {c, [c EXCEPT !.timeout = Less(@)], CoarseCount(c)}
    OBVIOUS
  <2>5. /\ ok \in BOOLEAN /\ fails' = IF ok THEN fails ELSE fails + 1
        /\ fails' \in 0..MaxFails
    BY <2>1, Now, UsedType
  <2> HIDE DEF s, h, found
  <2>6. c' = TaskHandled(s, Expired(s, found), ok)
    BY <2>1, <2>2
  <2> QED
    BY <1>1, <2>1, <2>3, <2>4, <2>5, <2>6, TaskTimerStep
<1>4. CASE TaskCoarse
  <2> DEFINE s == CoarseCount(c)
             found == CoarseFound(c)
             h == Expired(s, found)
  <2>1. PICK ok \in Memory(h) : c' = TaskHandled(s, h, ok) /\ Used(ok)
    BY <1>4 DEF TaskCoarse
  <2>3. c.timeout = 0 => found # "timeout" /\ s.timeout = 0
    BY Now DEF CoarseFound, CoarseCount, Client
  <2>4. s \in {c, [c EXCEPT !.timeout = Less(@)], CoarseCount(c)}
    OBVIOUS
  <2>5. /\ ok \in BOOLEAN /\ fails' = IF ok THEN fails ELSE fails + 1
        /\ fails' \in 0..MaxFails
    BY <2>1, Now, UsedType
  <2>6. c' = TaskHandled(s, Expired(s, found), ok)
    BY <2>1
  <2> HIDE DEF s, h, found
  <2> QED
    BY <1>1, <2>1, <2>3, <2>4, <2>5, <2>6, TaskTimerStep
<1> QED
  BY <1>3, <1>4

\* dhcp_task looks at the client.
LEMMA LookStep ==
  ASSUME IInv, TaskAssigned \/ TaskLook \/ UNCHANGED vars
  PROVE  After
<1>1. UNCHANGED <<c, thread, msg_in, fails, overtaken>>
  BY DEF TaskAssigned, TaskLook, vars
<1>2. dstate' = "START" => dstate = "START" /\ UNCHANGED vars
  BY DEF TaskAssigned, TaskLook, vars
<1>3. event' = "DHCP_FAILED" => event = "DHCP_FAILED" /\ UNCHANGED vars
  BY DEF TaskAssigned, TaskLook, IInv, vars
<1> QED
  BY <1>1, <1>2, <1>3, Now DEF After, InOrder, IInv, vars

\* The tasks and the bounds.
LEMMA StepTypes ==
  ASSUME IInv, [Next]_vars
  PROVE  /\ thread' \in {"idle", "count", "last", "timeout", "t1", "t2", "reply"} \cup Handlers
         /\ msg_in' \in SUBSET Reply
         /\ task' \in {"poll", "fine", "coarse", "deleted"}
         /\ dstate' \in {"START", "WAIT", "ASSIGNED", "TIMEOUT"}
         /\ event' \in {"none", "IP_ASSIGNED", "DHCP_FAILED"}
         /\ lead' \in 0..MaxLead /\ fails' \in 0..MaxFails /\ refused' \in 0..MaxRefused
         /\ overtaken' \in BOOLEAN
<1>t. TypeOK
  BY DEF IInv
<1> USE DEF TypeOK
<1>1. MaxLead \in Nat /\ MaxRefused \in Nat
  BY DhcpAssumption
<1>2. CASE FineTest
  BY <1>1, <1>2, <1>t DEF FineTest, InStep, FineFound
<1>3. CASE CoarseTest \/ CountDown \/ Lost
  BY <1>3, <1>t DEF CoarseTest, CoarseFound, CountDown, Lost
<1>4. CASE FireTimer
  <2>1. Expired(c, thread) \in {"idle"} \cup Handlers
    BY DEF Expired, Timeout, Handlers
  <2> QED
    BY <1>4, <1>t, <2>1 DEF FireTimer
<1>5. CASE Recv
  BY <1>5, <1>t DEF Recv, Client
<1>6. CASE Received
  <2>1. \A m \in msg_in : Replied(c, m) \in {"idle"} \cup Handlers
    BY DEF Replied, Handlers
  <2>2. PICK m \in msg_in : thread' = Replied(c, m) /\ msg_in' \in {{m}, {}}
    BY <1>6 DEF Received
  <2> QED
    BY <1>6, <1>t, <2>1, <2>2 DEF Received
<1>7. CASE TakeReply \/ ArpReply
  BY <1>1, <1>7, <1>t DEF TakeReply, ArpReply, Handlers
<1>8. CASE Handle
  <2>1. fails' \in 0..MaxFails
    BY <1>8, <1>t, UsedType DEF Handle
  <2> QED
    BY <1>8, <1>t, <2>1 DEF Handle, Follow, Handlers
<1>9. CASE Server
  BY <1>1, <1>9, <1>t DEF Server
<1>10. CASE TaskStart
  <2>1. fails' \in 0..MaxFails
    BY <1>10, <1>t, UsedType DEF TaskStart
  <2>2. /\ dstate' = "WAIT" /\ task' = "fine"
        /\ UNCHANGED <<thread, msg_in, event, lead, refused, overtaken>>
    BY <1>10 DEF TaskStart
  <2> QED
    BY <1>t, <2>1, <2>2
<1>11. CASE TaskAssigned \/ TaskLook
  BY <1>11, <1>t DEF TaskAssigned, TaskLook
<1>12. CASE TaskFailed
  <2>1. /\ dstate' = "TIMEOUT" /\ event' = "DHCP_FAILED" /\ task' = "deleted"
        /\ UNCHANGED <<thread, msg_in, lead, fails, refused>>
    BY <1>12 DEF TaskFailed
  <2>2. overtaken' \in BOOLEAN
    BY <1>12 DEF TaskFailed
  <2> QED
    BY <1>t, <2>1, <2>2
<1>13. CASE TaskFine \/ TaskCoarse
  <2>1. fails' \in 0..MaxFails
    BY <1>13, <1>t, UsedType DEF TaskFine, TaskCoarse
  <2>2. /\ task' \in {"poll", "coarse"} /\ (lead' = 0 \/ lead' = lead) /\ Overtakes
        /\ UNCHANGED <<thread, msg_in, dstate, event, refused>>
    BY <1>13 DEF TaskFine, TaskCoarse
  <2>3. overtaken' \in BOOLEAN
    BY <2>2 DEF Overtakes
  <2> QED
    BY <1>1, <1>t, <2>1, <2>2, <2>3
<1>14. CASE UNCHANGED vars
  BY <1>14, <1>t DEF vars
<1> QED
  BY <1>2, <1>3, <1>4, <1>5, <1>6, <1>7, <1>8, <1>9, <1>10, <1>11, <1>12, <1>13,
     <1>14
  DEF Next, Task, Thread, Step

\* The client is off, and nothing was decided.
LEMMA InitIInv == Init => IInv
<1> SUFFICES ASSUME Init PROVE IInv
  OBVIOUS
<1>1. NoIp \in Ips /\ NoLease \in Leases \cup {NoLease} /\ "OFF" \in States
      /\ 0 \in 0..(TriesMod - 1) /\ 0 \in 0..(TimerMod - 1)
  BY Names, Bounds
<1>2. /\ c \in Client /\ c.state = "OFF" /\ c.ip = NoIp /\ ~c.pcb
      /\ c.net = {} /\ c.asked = {}
  BY <1>1 DEF Init, Client
<1>3. Good(c, fails) /\ Base(c, fails)
  BY <1>2 DEF Good, Base, Named, NamedIn, Uses, Confirmed, Holding
<1>4. thread \notin Handlers /\ thread # "reply"
  BY DEF Init, Handlers
<1>5. Ready(c, fails, thread) /\ Heard(c, fails, thread, msg_in)
  BY <1>4, PlainReady
<1>6. TypeOK
  <2>1. 0 \in 0..MaxLead /\ 0 \in 0..MaxFails /\ 0 \in 0..MaxRefused
    BY DhcpAssumption
  <2> QED
    BY <1>2, <2>1 DEF Init, TypeOK
<1>7. NamedIn(msg_in)
  BY DEF Init, NamedIn
<1> QED
  BY <1>2, <1>3, <1>5, <1>6, <1>7 DEF Init, IInv, InOrder

\* The invariant is inductive.
LEMMA NextIInv == IInv /\ [Next]_vars => IInv'
<1> SUFFICES ASSUME IInv, [Next]_vars PROVE IInv'
  OBVIOUS
<1>1. After
  BY TimerStep, RecvStep, ReceivedStep, TakeReplyStep, ArpReplyStep, HandleStep, ServerStep,
     LostStep, StartStep, FailStep, TaskStep, LookStep
  DEF Next, Task, Thread, Step
<1>2. TypeOK'
  BY <1>1, StepTypes DEF TypeOK, After, Base
<1> QED
  BY <1>1, <1>2 DEF After, IInv, InOrder, Good, Base, Ready, Heard

\* The invariant holds throughout.
LEMMA SpecIInv == Spec => []IInv
  BY InitIInv, NextIInv, PTL DEF Spec

-----------------------------------------------------------------------------

\* A client that is bound uses the address it was offered, and a failure that dhcp_task
\* reported is final: with any number of addresses, leases and retries, and dhcp_task
\* between any two steps of tcpip_thread, as long as it has not changed the state that
\* tcpip_thread had already tested (dhcp_bind, dhcp_stop, dhcp_task).  After such a change
\* all holds again from the next discovery on.
THEOREM LeaseCorrect == Spec => []Inv
<1>1. IInv => Inv
  BY DEF IInv, InOrder, Inv, BoundUses, FailedIsFinal, Good, Uses, Holding, Leased
<1> QED
  BY <1>1, SpecIInv, PTL

\* The address of the interface is the one the last word of a server about it confirmed, for
\* a request since the last discovery, with any number of late and repeated answers, while
\* at most one message has found no memory, and, as above, while dhcp_task has not changed a
\* state that tcpip_thread had tested (dhcp_recv, dhcp_create_msg, dhcp_discover, dhcp_bind).
THEOREM AddressAckedHolds == Spec => []AddressAcked
<1>1. IInv => AddressAcked
  BY DEF IInv, InOrder, AddressAcked, Good, Confirmed
<1> QED
  BY <1>1, SpecIInv, PTL

=============================================================================
