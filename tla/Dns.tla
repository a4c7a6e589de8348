-------------------------------- MODULE Dns --------------------------------
(***************************************************************************)
(* The DNS client (core/dns.c) and its blocking call, netconn_gethostbyname *)
(* (api/api_lib.c, api/api_msg.c).                                         *)
(*                                                                         *)
(* A caller posts a message that lies on its stack and sleeps on the       *)
(* semaphore in it.  tcpip_thread looks the name up in dns_table, or takes *)
(* an entry for it and sends a query whose id is the index of the entry.   *)
(* The network keeps queries it was given: an answer may come late, twice, *)
(* or never.  An address is represented by the name it belongs to.         *)
(***************************************************************************)
EXTENDS Integers, FiniteSets, Sequences, SequencesExt

CONSTANTS Tasks,        \* tasks that call netconn_gethostbyname
          Names,        \* host names, as sequences of labels
          TableSize,    \* DNS_TABLE_SIZE
          MaxServers,   \* DNS_MAX_SERVERS
          MaxRetries,   \* DNS_MAX_RETRIES
          SeqnoMod,     \* 2^8: dns_seqno is an u8_t
          MaxTtl,       \* DNS_MAX_TTL
          TtlMod,       \* 2^32: ttl is an u32_t
          Kept          \* bound: queries that the network keeps at a time

ASSUME DnsAssumption ==
  /\ TableSize \in Nat \ {0} /\ MaxServers \in Nat \ {0} /\ MaxRetries \in Nat \ {0}
  /\ SeqnoMod \in Nat \ {0} /\ MaxTtl \in Nat /\ TtlMod \in Nat /\ MaxTtl < TtlMod
  /\ Kept \in Nat
  /\ \A n \in Names : n \in Seq(ToSet(n)) /\ n # <<>>

Entries == 0..(TableSize - 1)
Servers == 0..(MaxServers - 1)
Failed == <<>>         \* no address: NULL and an error

VARIABLES
  caller,    \* netconn_gethostbyname: [pc, name, sem, result] of each task
  mbox,      \* do_gethostbyname messages in the mailbox of tcpip_thread
  table,     \* dns_table; "given" and "age": the ttl of the answer, and its age
  text,      \* labels in the name array of each entry, those beyond its end too
  seqno,     \* dns_seqno
  servers,   \* indices of dns_servers that are set
  peer,      \* the server that dns_pcb is connected to
  sent       \* queries the network was given: <<id, name, server>>

vars == <<caller, mbox, table, text, seqno, servers, peer, sent>>

Unused == [st |-> "unused"]

Asking(t, n, q) == [st |-> "asking", name |-> n, found |-> t, seq |-> q,
                    num |-> 0, tmr |-> 1, retries |-> 0]

Done(e, n, ttl) == [st |-> "done", name |-> e.name, found |-> e.found, seq |-> e.seq,
                    addr |-> n, ttl |-> ttl, given |-> ttl, age |-> 0]

TypeOK ==
  /\ caller \in [Tasks -> [pc : {"idle", "posted", "lost", "waiting"},
                           name : Names \cup {<<>>}, sem : 0..1,
                           result : Names \cup {Failed}]]
  /\ mbox \in Seq(Tasks)
  /\ DOMAIN table = Entries
  /\ \A i \in Entries : LET e == table[i] IN
        \/ e = Unused
        \/ /\ e.st = "asking" /\ e.name \in Names /\ e.found \in Tasks
           /\ e.seq \in 0..(SeqnoMod - 1) /\ e.num \in Servers
           /\ e.tmr \in 1..MaxRetries /\ e.retries \in 0..(MaxRetries - 1)
        \/ /\ e.st = "done" /\ e.name \in Names /\ e.addr \in Names /\ e.found \in Tasks
           /\ e.seq \in 0..(SeqnoMod - 1) /\ e.ttl \in 0..(TtlMod - 1)
           /\ e.given \in 0..MaxTtl /\ e.age \in 0..MaxTtl
  /\ \A i \in Entries : \A k \in DOMAIN text[i] : \E n \in Names : text[i][k] \in ToSet(n)
  /\ seqno \in 0..(SeqnoMod - 1) /\ peer \in Servers
  /\ servers \subseteq Servers /\ sent \subseteq Entries \X Names \X Servers

Init ==
  /\ caller = [t \in Tasks |-> [pc |-> "idle", name |-> <<>>, sem |-> 0, result |-> Failed]]
  /\ mbox = <<>>
  /\ table = [i \in Entries |-> Unused]
  /\ text = [i \in Entries |-> <<>>]
  /\ seqno = 0 /\ servers = {0} /\ peer = 0 /\ sent = {}

(***************************************************************************)
(* The calling task.                                                       *)
(***************************************************************************)

\* netconn_gethostbyname: the result of tcpip_callback is not looked at, so a
\* call whose message found no room in the pool waits all the same.
Gethostbyname(t) ==
  /\ caller[t].pc = "idle"
  /\ \E n \in Names, room \in BOOLEAN :
       /\ caller' = [caller EXCEPT ![t] = [pc |-> IF room THEN "posted" ELSE "lost",
                                           name |-> n, sem |-> 0, result |-> Failed]]
       /\ mbox' = IF room THEN Append(mbox, t) ELSE mbox
  /\ UNCHANGED <<table, text, seqno, servers, peer, sent>>

\* sys_sem_wait, sys_sem_free, return: the message is gone from the stack.
Return(t) ==
  /\ caller[t].pc \in {"posted", "waiting"} /\ caller[t].sem = 1
  /\ caller' = [caller EXCEPT ![t] = [pc |-> "idle", name |-> <<>>, sem |-> 0,
                                      result |-> Failed]]
  /\ UNCHANGED <<mbox, table, text, seqno, servers, peer, sent>>

(***************************************************************************)
(* tcpip_thread.                                                           *)
(***************************************************************************)

\* do_dns_found, for the callers T: the result r, and the signal.
DnsFound(T, r) ==
  [t \in Tasks |-> IF t \in T THEN [caller[t] EXCEPT !.result = r, !.sem = @ + 1]
                   ELSE caller[t]]

\* The network loses queries as it likes.
Remembered(S) == {T \in SUBSET S : Cardinality(T) <= Kept}

\* dns_send for the entries I of the table tb: without memory nothing is sent.
\* udp_connect leaves the pcb connected to the server of the last one.
DnsSend(tb, I) ==
  \E ok \in SUBSET I :
    /\ sent' \in Remembered(sent \cup {<<i, tb[i].name, tb[i].num>> : i \in ok})
    /\ peer' = IF ok = {} THEN peer
               ELSE tb[CHOOSE i \in ok : \A j \in ok : j <= i].num

\* dns_lookup
Cached(n) == {i \in Entries : table[i].st = "done" /\ table[i].name = n}

First(I) == CHOOSE i \in I : \A j \in I : i <= j

\* Mutant of Reusable: the oldest entry, also when its query is under way.
ReusableAny ==
  {i \in Entries : table[i].st # "unused" /\
      \A j \in Entries : table[j].st # "unused" => seqno - table[j].seq <= seqno - table[i].seq}

\* dns_enqueue: the completed entry with the largest age; a difference that is
\* negative, as dns_seqno has wrapped, does not count, and entry 0 is the default.
Reusable ==
  LET age(i) == seqno - table[i].seq
      old == {i \in Entries : table[i].st = "done" /\ age(i) > 0}
  IN  IF old # {} THEN {First({i \in old : \A j \in old : age(j) <= age(i)})}
      ELSE {i \in {0} : table[i].st = "done"}

Free == {i \in Entries : table[i].st = "unused"}

\* The name array when n is copied over what it held; labels of one length.
Overwritten(old, n) == n \o SubSeq(old, Len(n) + 1, Len(old))

\* dns_enqueue for task t: the entry is filled, dns_check_entry sends the query.
Enqueue(t, n) ==
  LET free == IF Free # {} THEN {First(Free)} ELSE Reusable
  IN  IF free = {}
      THEN /\ caller' = DnsFound({t}, Failed)             \* ERR_MEM
           /\ UNCHANGED <<table, text, seqno, sent, peer>>
      ELSE LET i == First(free)
               tb == [table EXCEPT ![i] = Asking(t, n, seqno)]
           IN  /\ table' = tb
               /\ text' = [text EXCEPT ![i] = Overwritten(@, n)]
               /\ seqno' = (seqno + 1) % SeqnoMod
               /\ caller' = [caller EXCEPT ![t].pc = "waiting"]
               /\ DnsSend(tb, {i})

\* do_gethostbyname, dns_gethostbyname
DoGethostbyname ==
  /\ mbox # <<>>
  /\ mbox' = Tail(mbox)
  /\ UNCHANGED servers
  /\ LET t == Head(mbox)  n == caller[t].name
     IN  IF Cached(n) # {}
         THEN /\ caller' = DnsFound({t}, table[First(Cached(n))].addr)
              /\ UNCHANGED <<table, text, seqno, sent, peer>>
         ELSE Enqueue(t, n)

\* dns_check_entry of an entry whose query is under way, when its time is over:
\* the last retry goes to the next server, or ends the query.
NextServer(e) == e.num + 1 < MaxServers /\ e.num + 1 \in servers
LastRetry(e) == e.st = "asking" /\ e.tmr = 1 /\ e.retries + 1 = MaxRetries
GivesUp(e) == LastRetry(e) /\ ~NextServer(e)
Resends(e) == e.st = "asking" /\ e.tmr = 1 /\ ~LastRetry(e)

\* Mutant of Checked: the time to the next retry is not set again.
CheckedNoTime(e) ==
  CASE GivesUp(e) -> Unused
    [] LastRetry(e) /\ NextServer(e) -> [e EXCEPT !.num = @ + 1, !.tmr = 1, !.retries = 0]
    [] OTHER -> e

\* dns_check_entry
Checked(e) ==
  CASE GivesUp(e) -> Unused
    [] LastRetry(e) /\ NextServer(e) -> [e EXCEPT !.num = @ + 1, !.tmr = 1, !.retries = 0]
    [] Resends(e) -> [e EXCEPT !.retries = @ + 1, !.tmr = e.retries + 1]
    [] e.st = "asking" /\ e.tmr > 1 -> [e EXCEPT !.tmr = @ - 1]
    [] e.st = "done" /\ e.ttl = 1 -> Unused
    [] e.st = "done" /\ e.ttl # 1 ->
         [e EXCEPT !.ttl = (@ - 1) % TtlMod, !.age = IF @ < e.given THEN @ + 1 ELSE @]
    [] OTHER -> e

\* dns_tmr, dns_check_entries: the callbacks of the queries that end are called.
DnsTmr ==
  LET over == {i \in Entries : GivesUp(table[i])}
      tb == [i \in Entries |-> Checked(table[i])]
  IN  /\ table' = tb
      /\ caller' = DnsFound({table[i].found : i \in over}, Failed)
      /\ DnsSend(tb, {i \in Entries : Resends(table[i])})
      /\ UNCHANGED <<mbox, text, seqno, servers>>

\* Mutant of SameName: DNS_DOES_NAME_CHECK off.
AnyName(array, answered) == TRUE

\* dns_compare_name: label by label until the name in the response ends, the
\* end of the name in the array is not looked for.
SameName(array, answered) == IsPrefix(answered, array)

\* dns_recv looks at an answer when the entry of its id waits for one.
Accepts(i) == table[i].st = "asking"

\* The outcome of dns_recv: an answer with an address, which the table keeps, or
\* an error, a name that differs or no address, which end the query.
Recv(i, n, good, ttl) ==
  LET e == table[i]
      match == good /\ SameName(text[i], n)
  IN  /\ caller' = DnsFound({e.found}, IF match THEN n ELSE Failed)
      /\ table' = [table EXCEPT ![i] = IF match THEN Done(e, n, ttl) ELSE Unused]

\* dns_recv: a datagram of the server that the pcb is connected to.
DnsRecv ==
  /\ \E q \in sent : LET i == q[1] IN
        /\ q[3] = peer /\ Accepts(i)
        /\ \E good \in BOOLEAN, ttl \in 0..MaxTtl : Recv(i, q[2], good, ttl)
  /\ UNCHANGED <<mbox, text, seqno, servers, peer, sent>>

\* dns_setserver, from dhcp_handle_ack.
SetServer(s) ==
  /\ s \notin servers
  /\ servers' = servers \cup {s}
  /\ UNCHANGED <<caller, mbox, table, text, seqno, peer, sent>>

Thread == DoGethostbyname \/ DnsTmr \/ DnsRecv \/ \E s \in Servers : SetServer(s)

Next == Thread \/ \E t \in Tasks : Gethostbyname(t) \/ Return(t)

Spec == Init /\ [][Next]_vars

\* tcpip_thread takes its messages and runs dns_timer, the callers are scheduled.
\* Nothing is asked of the network.
FairSpec == /\ Spec
            /\ WF_vars(DoGethostbyname) /\ WF_vars(DnsTmr)
            /\ \A t \in Tasks : WF_vars(Return(t))

(***************************************************************************)
(* Properties.                                                             *)
(***************************************************************************)

\* A query under way calls back into the stack frame of a caller that still waits
\* for just this name, and a caller that waits is the business of one entry, or
\* its message is in the mailbox: no callback comes late, twice or never.
PendingOwned ==
  /\ \A i \in Entries : table[i].st = "asking" =>
        LET c == caller[table[i].found]
        IN  c.pc = "waiting" /\ c.sem = 0 /\ c.name = table[i].name
  /\ \A t \in Tasks : caller[t].pc = "waiting" /\ caller[t].sem = 0 =>
        Cardinality({i \in Entries : table[i].st = "asking" /\ table[i].found = t}) = 1
  /\ \A t \in Tasks : caller[t].pc = "posted" /\ caller[t].sem = 0 =>
        Cardinality({k \in DOMAIN mbox : mbox[k] = t}) = 1

\* The cache forgets an address when the time that came with it is over; not
\* so an address that came with no time at all (ttl wraps).
Fresh == \A i \in Entries :
  table[i].st = "done" /\ table[i].given > 0 => table[i].age < table[i].given

\* Types, and the two above.
Inv == TypeOK /\ PendingOwned /\ Fresh

\* Each call is told once, a failure or the address of the name it asked for:
\* whatever the network keeps back, an answer to an earlier query that had the
\* same id is not taken for the answer of this one, if none of the names begins
\* with the labels of another.
R == INSTANCE Resolver WITH
       query <- [t \in Tasks |->
                   LET c == caller[t]
                   IN  CASE c.pc = "idle" -> [st |-> "idle"]
                         [] c.pc # "idle" /\ c.sem = 0 -> [st |-> "asked", name |-> c.name]
                         [] OTHER -> [st |-> "told", name |-> c.name, result |-> c.result]]
Resolves == R!Spec

\* Every call whose message was taken returns, also when no server ever answers.
CallsReturn == \A t \in Tasks : caller[t].pc = "posted" ~> caller[t].pc = "idle"

=============================================================================
