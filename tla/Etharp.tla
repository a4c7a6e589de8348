------------------------------- MODULE Etharp -------------------------------
(***************************************************************************)
(* The ARP table (netif/etharp.c): which Ethernet address an IP packet is  *)
(* sent to, and the packet that waits while the address is not known.      *)
(*                                                                         *)
(* The configuration of the repository queues one packet for each entry    *)
(* (ARP_QUEUEING 0), has no static entries and learns from ARP messages    *)
(* only (ETHARP_TRUST_IP_MAC 0).  It defines LWIP_DEBUG                    *)
(* (config/lwip_opt.h:41), so that a freed entry loses its netif and all   *)
(* else that was in it (etharp.c:192-198).  etharp_tmr is called at any    *)
(* moment: two timers call it, the one of core/timers.c and the one of     *)
(* arch/FreeRTOS/ethernetif.c, each once in an interval.                   *)
(***************************************************************************)
EXTENDS Integers, FiniteSets

CONSTANTS Hosts,        \* next hops: hosts of the local network, the gateway
          Macs,         \* Ethernet addresses
          NoHost, NoMac,
          TableSize,    \* ARP_TABLE_SIZE
          MaxAge,       \* ARP_MAXAGE
          Rerequest,    \* ARP_AGE_REREQUEST_USED
          MaxPending    \* ARP_MAXPENDING

ASSUME EtharpAssumption ==
  /\ NoHost \notin Hosts /\ NoMac \notin Macs /\ Macs # {}
  /\ {TableSize, MaxPending} \subseteq Nat \ {0}
  /\ MaxAge \in Nat /\ Rerequest \in Nat /\ MaxPending < MaxAge /\ Rerequest < MaxAge

Entries == 0..(TableSize - 1)

VARIABLES
  table,     \* arp_table; "q": a packet waits, "netif": the field is set;
             \* since the timer last ran: "used" (with memory for a request) and the
             \* requests "asked" for it
  hint,      \* etharp_cached_entry
  held,      \* packet buffers that ARP has a reference to
  frames,    \* what the last step sent: IP packets for a host, to an Ethernet address
  heard      \* the address in the last ARP message of each host

arpVars == <<table, hint, held, frames, heard>>

Empty == [st |-> "empty", ip |-> NoHost, mac |-> NoMac, q |-> FALSE, netif |-> FALSE,
          ctime |-> 0, used |-> FALSE, asked |-> 0]

Stable(e) == e.st \in {"stable", "rerequesting"}

ArpTypeOK ==
  /\ table \in [Entries ->
        [st : {"empty", "pending", "stable", "rerequesting"}, ip : Hosts \cup {NoHost},
         mac : Macs \cup {NoMac}, q : BOOLEAN, netif : BOOLEAN, ctime : 0..(MaxAge - 1),
         used : BOOLEAN, asked : 0..2]]
  /\ hint \in Entries /\ held \in Nat
  /\ frames \subseteq [ip : Hosts, mac : Macs]
  /\ heard \in [Hosts -> Macs \cup {NoMac}]

ArpInit ==
  /\ table = [i \in Entries |-> Empty]
  /\ hint = 0 /\ held = 0 /\ frames = {}
  /\ heard = [h \in Hosts |-> NoMac]

(***************************************************************************)
(* etharp_find_entry and etharp_free_entry.                                *)
(***************************************************************************)

With(st, h) == {i \in Entries : table[i].st = st /\ table[i].ip = h}
Match(h) == {i \in Entries : table[i].st # "empty" /\ table[i].ip = h}

\* Of the entries I the oldest, the last of them.
Oldest(I) == CHOOSE i \in I : \A j \in I : \/ table[j].ctime < table[i].ctime
                                           \/ table[j].ctime = table[i].ctime /\ j <= i

First(I) == CHOOSE i \in I : \A j \in I : i <= j

\* The entry to use for a host that has none: an empty one, the oldest stable one,
\* the oldest pending one without, then with a packet that waits.
Victim ==
  LET empty  == {i \in Entries : table[i].st = "empty"}
      stable == {i \in Entries : Stable(table[i])}
      quiet  == {i \in Entries : table[i].st = "pending" /\ ~table[i].q}
  IN  CASE empty # {} -> First(empty)
        [] empty = {} /\ stable # {} -> Oldest(stable)
        [] empty = {} /\ stable = {} /\ quiet # {} -> Oldest(quiet)
        [] OTHER -> Oldest(Entries)

\* References that are given back when the entries I are freed.
Waiting(I) == Cardinality({i \in I : table[i].q})

(***************************************************************************)
(* Output.                                                                 *)
(***************************************************************************)

\* etharp_query for the host h, with a packet or, from dhcp_check, without.
\* The request may fail for memory, and so may the copy of the packet.
Query(h, packet, copy) ==
  LET found == Match(h)
      i == IF found # {} THEN First(found) ELSE Victim
      e == IF found # {} THEN table[i] ELSE [Empty EXCEPT !.st = "pending", !.ip = h]
      queued == packet /\ copy /\ e.st = "pending"
  IN  /\ table' = [table EXCEPT ![i] = IF queued THEN [e EXCEPT !.q = TRUE] ELSE e]
      /\ held' = held + (IF queued THEN 1 ELSE 0)
                      - (IF queued \/ found = {} THEN Waiting({i}) ELSE 0)
      /\ frames' = {}
      /\ UNCHANGED <<hint, heard>>

\* Mutant of AsksAgain: the age alone counts.
AsksAlways(e) == e.ctime >= Rerequest

\* etharp_output_to_arp_index: an entry that is about to expire is asked for.
AsksAgain(e) == e.st = "stable" /\ e.ctime >= Rerequest

\* ... and the packet for h is sent to its address.  "sent": the request was.
SendTo(i, h, sent) ==
  LET e == table[i]
  IN  /\ table' = [table EXCEPT ![i] =
            [e EXCEPT !.used = @ \/ sent,
                      !.asked = IF AsksAgain(e) /\ sent /\ e.asked < 2 THEN @ + 1 ELSE @,
                      !.st = IF AsksAgain(e) /\ sent THEN "rerequesting" ELSE @]]
      /\ frames' = {[ip |-> h, mac |-> e.mac]}
      /\ UNCHANGED <<held, heard>>

\* Mutant of Hit: the hint is taken for the entry of any host.
HitAny(h) == Stable(table[hint])

Hit(h) == Stable(table[hint]) /\ table[hint].ip = h

\* etharp_output, for a next hop on the local network.
Output(h) ==
  LET stable == {i \in Entries : Stable(table[i]) /\ table[i].ip = h}
  IN  \E ok \in BOOLEAN :
        IF Hit(h) THEN SendTo(hint, h, ok) /\ UNCHANGED hint
        ELSE IF stable # {} THEN SendTo(First(stable), h, ok) /\ hint' = First(stable)
        ELSE Query(h, TRUE, ok)

\* dhcp_check asks whether the offered address is in use.
DhcpCheck(h) == Query(h, FALSE, FALSE)

(***************************************************************************)
(* Input.                                                                  *)
(***************************************************************************)

\* Mutant of Updated: the packet is sent, and stays in the entry.
UpdatedKeeps(e, h, m) == [Empty EXCEPT !.st = "stable", !.ip = h, !.mac = m,
                                       !.netif = TRUE, !.q = e.q]

\* etharp_update_arp_entry: the entry after an ARP message from the host h.
Updated(e, h, m) == [Empty EXCEPT !.st = "stable", !.ip = h, !.mac = m, !.netif = TRUE]

\* etharp_arp_input: an ARP message that gives the address m for the host h.  One
\* for us makes a new entry, others only refresh one that is there; the packet
\* that waits is sent.
ArpInput(h, m, forUs) ==
  LET found == Match(h)
      i == IF found # {} THEN First(found) ELSE Victim
  IN  /\ heard' = [heard EXCEPT ![h] = m]
      /\ UNCHANGED hint
      /\ IF found = {} /\ ~forUs
         THEN frames' = {} /\ UNCHANGED <<table, held>>
         ELSE /\ table' = [table EXCEPT ![i] = Updated(@, h, m)]
              /\ held' = held - Waiting({i})
              /\ frames' = IF found # {} /\ table[i].q THEN {[ip |-> h, mac |-> m]} ELSE {}

(***************************************************************************)
(* The timer, and an interface that goes down.                             *)
(***************************************************************************)

Expires(e) ==
  \/ e.st # "empty" /\ e.ctime + 1 >= MaxAge
  \/ e.st = "pending" /\ e.ctime + 1 >= MaxPending

\* Mutant of Aged: only entries that are complete grow older.
AgedStable(e) ==
  CASE ~Stable(e) -> e
    [] Stable(e) /\ Expires(e) -> Empty
    [] OTHER -> [e EXCEPT !.ctime = @ + 1, !.used = FALSE, !.asked = 0,
                          !.st = IF @ = "rerequesting" THEN "stable" ELSE @]

\* etharp_tmr, for one entry.
Aged(e) ==
  CASE e.st = "empty" \/ Expires(e) -> Empty
    [] OTHER -> [e EXCEPT !.ctime = @ + 1, !.used = FALSE, !.asked = 0,
                          !.st = IF @ = "rerequesting" THEN "stable" ELSE @]

\* arp_timer of timers.c or of ethernetif.c.
Timer ==
  /\ table' = [i \in Entries |-> Aged(table[i])]
  /\ held' = held - Waiting({i \in Entries : Expires(table[i])})
  /\ frames' = {}
  /\ UNCHANGED <<hint, heard>>

\* etharp_cleanup_netif, from netif_set_down: a pending entry is not yet marked
\* as one of the interface.
CleanupNetif ==
  LET gone == {i \in Entries : table[i].netif}
  IN  /\ gone # {}
      /\ table' = [i \in Entries |-> IF i \in gone THEN Empty ELSE table[i]]
      /\ held' = held - Waiting(gone)
      /\ frames' = {}
      /\ UNCHANGED <<hint, heard>>

ArpNext ==
  \/ \E h \in Hosts : Output(h) \/ DhcpCheck(h)
  \/ \E h \in Hosts, m \in Macs, forUs \in BOOLEAN : ArpInput(h, m, forUs)
  \/ Timer
  \/ CleanupNetif

ArpSpec == ArpInit /\ [][ArpNext]_arpVars

\* tcpip_thread runs its timers.
ArpFairSpec == ArpSpec /\ WF_arpVars(Timer)

(***************************************************************************)
(* Properties.                                                             *)
(***************************************************************************)

\* A host has one entry at most: what an ARP message updates is what output finds.
OneEntry == \A h \in Hosts : Cardinality(Match(h)) <= 1

\* Packets wait in pending entries only, and every reference that was taken to a
\* buffer is in the table: none is leaked or given back twice when a packet is
\* replaced, sent, expires, or its entry is taken for another host.
Buffers == /\ held = Waiting(Entries)
           /\ \A i \in Entries : table[i].q => table[i].st = "pending"

\* An entry that is used shortly before its end is asked for, and once between two
\* runs of the timer, however often it is used, as long as there is memory.
AskedOnce == \A i \in Entries : LET e == table[i] IN
  /\ e.asked <= 1
  /\ e.used /\ Stable(e) /\ e.ctime >= Rerequest => e.asked = 1

ArpInv == ArpTypeOK /\ OneEntry /\ Buffers

\* A packet is sent to the address that its own next hop last gave, by whatever
\* way the entry was found: the hint, the table or the end of its wait.
RightAddress == \A f \in frames : f.mac = heard[f.ip]

\* No entry stays pending: the address arrives, or the packet is given up.
PendingEnds == \A h \in Hosts : With("pending", h) # {} ~> With("pending", h) = {}

=============================================================================
