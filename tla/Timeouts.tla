------------------------------ MODULE Timeouts ------------------------------
(***************************************************************************)
(* The timers of the stack (core/timers.c) and the loop of tcpip_thread    *)
(* that runs them while it waits for messages (api/tcpip.c).               *)
(*                                                                         *)
(* next_timeout is a list of differences: each entry waits its "time" once *)
(* the entry before it has expired.  The thread gives the time of the      *)
(* first entry to sys_arch_mbox_fetch; a message takes the time waited off *)
(* that entry, a timeout expires it.  lwip_init arms the cyclic timers     *)
(* before the thread exists, ethernetif_init arms one more from the task   *)
(* of the caller, at any moment.  A tick is the unit of time.              *)
(***************************************************************************)
EXTENDS Integers, Sequences, FiniteSets, SequencesExt

CONSTANTS Boot,         \* timers of sys_timeouts_init, in their order
          Eth,          \* arp_timer of ethernetif.c
          Tcp,          \* tcpip_tcp_timer
          App,          \* a handler that users of tcpip_timeout pass
          Period,       \* interval of each cyclic timer, in ticks
          Delays,       \* what users of tcpip_timeout ask for
          Pools         \* sizes of MEMP_SYS_TIMEOUT that are looked at

System == ToSet(Boot) \cup {Eth, Tcp}
Handlers == System \cup {App}

None == "none"

ASSUME TimersAssumption ==
  /\ Boot \in Seq(ToSet(Boot)) /\ None \notin Handlers
  /\ Eth # Tcp /\ {Eth, Tcp} \cap ToSet(Boot) = {} /\ App \notin System
  /\ Period \in [System -> Nat \ {0}]
  /\ Delays \subseteq Nat \ {0} /\ IsFiniteSet(Delays)
  /\ Pools \subseteq {n \in Nat : n > Len(Boot)}     \* checked by core/init.c

VARIABLES
  pool,      \* entries of MEMP_SYS_TIMEOUT, fixed
  list,      \* next_timeout: [h, time], and what is really left of the time
             \* asked for: "left" (none: the entry was armed by another task)
  at,        \* where the thread is
  cur,       \* the handler it runs
  wait,      \* time given to sys_arch_mbox_fetch, 0 is forever
  slept,     \* time waited in sys_arch_mbox_fetch
  ethUp,     \* ethernetif_init has run
  pcbs,      \* tcp_active_pcbs || tcp_tw_pcbs
  active     \* tcpip_tcp_timer_active

vars == <<pool, list, at, cur, wait, slept, ethUp, pcbs, active>>

Monus(a, b) == IF a < b THEN 0 ELSE a - b
Times == Delays \cup {Period[h] : h \in System}
LongestDelay == CHOOSE m \in Times : \A d \in Times : d <= m

\* Sum of the first n differences.
Sum(l, n) == LET s[i \in 0..n] == IF i = 0 THEN 0 ELSE s[i - 1] + l[i].time
             IN  s[n]

(***************************************************************************)
(* The list.                                                               *)
(***************************************************************************)

\* Mutant of Place: in front of the entries that are due at the same time.
PlaceFirst(l, ms) ==
  CHOOSE p \in 0..Len(l) :
     /\ p = Len(l) \/ l[p + 1].time >= ms - Sum(l, p)
     /\ \A q \in 0..(p - 1) : l[q + 1].time < ms - Sum(l, q)

\* How many entries the new one is put behind.
Place(l, ms) ==
  CHOOSE p \in 0..Len(l) :
     /\ p = Len(l) \/ l[p + 1].time > ms - Sum(l, p)
     /\ \A q \in 0..(p - 1) : l[q + 1].time <= ms - Sum(l, q)

\* sys_timeout: the new entry's difference comes off the entry behind it.
Insert(l, h, ms, left) ==
  LET p == Place(l, ms)
      rest == ms - Sum(l, p)
  IN  InsertAt([i \in DOMAIN l |-> IF i = p + 1 THEN [l[i] EXCEPT !.time = @ - rest]
                                                ELSE l[i]],
               p + 1, [h |-> h, time |-> rest, left |-> left])

\* With the pool empty sys_timeout returns and says nothing.
Armed(h, ms, left) == IF Len(list) < pool THEN Insert(list, h, ms, left) ELSE list

\* Mutant of Without: the difference is lost.
WithoutTime(l, h) ==
  IF \A i \in DOMAIN l : l[i].h # h THEN l
  ELSE RemoveAt(l, CHOOSE i \in DOMAIN l : l[i].h = h /\ \A j \in 1..(i - 1) : l[j].h # h)

\* sys_untimeout: the first match goes, its difference to the entry behind it.
Without(l, h) ==
  IF \A i \in DOMAIN l : l[i].h # h THEN l
  ELSE LET p == CHOOSE i \in DOMAIN l : l[i].h = h /\ \A j \in 1..(i - 1) : l[j].h # h
       IN  RemoveAt([i \in DOMAIN l |-> IF i = p + 1 THEN [l[i] EXCEPT !.time = @ + l[p].time]
                                                     ELSE l[i]], p)

(***************************************************************************)
(* tcpip_thread.                                                           *)
(***************************************************************************)

Init ==
  /\ pool \in Pools
  /\ list = <<>> /\ at = "boot" /\ cur = None
  /\ wait = 0 /\ slept = 0
  /\ ethUp = FALSE /\ pcbs = FALSE /\ active = FALSE

\* sys_timeouts_init, one sys_timeout per timer; then the thread is created.
BootStep ==
  /\ at = "boot"
  /\ IF Len(list) < Len(Boot)
       THEN LET h == Boot[Len(list) + 1]
            IN  list' = Armed(h, Period[h], Period[h]) /\ UNCHANGED at
       ELSE at' = "top" /\ UNCHANGED list
  /\ UNCHANGED <<pool, cur, wait, slept, ethUp, pcbs, active>>

\* sys_timeouts_mbox_fetch: wait for a message, for the time of the first entry.
Fetch ==
  /\ at = "top"
  /\ list = <<>> \/ Head(list).time > 0
  /\ at' = "asleep" /\ slept' = 0
  /\ wait' = IF list = <<>> THEN 0 ELSE Head(list).time
  /\ UNCHANGED <<pool, list, cur, ethUp, pcbs, active>>

\* The first entry, which may have become the first only since, is removed
\* and freed before its handler is called.
Expire ==
  /\ \/ at = "top" /\ list # <<>> /\ Head(list).time = 0
     \/ at = "asleep" /\ wait > 0 /\ slept = wait
  /\ list' = Tail(list) /\ cur' = Head(list).h /\ at' = "handler"
  /\ UNCHANGED <<pool, wait, slept, ethUp, pcbs, active>>

\* A message came; the time waited comes off the first entry, unless the
\* thread found no entry when it began to wait.
Receive ==
  /\ at = "asleep"
  /\ at' = "message"
  /\ list' = IF wait = 0 THEN list
             ELSE [list EXCEPT ![1].time = Monus(@, slept)]
  /\ UNCHANGED <<pool, cur, wait, slept, ethUp, pcbs, active>>

\* Mutant of TimerNeeded: tcpip_tcp_timer_active is not looked at.
TimerNeededAgain(some) ==
  /\ active' = (active \/ some)
  /\ list' = IF some THEN Armed(Tcp, Period[Tcp], Period[Tcp]) ELSE list

\* tcp_timer_needed, called for each PCB that TCP_REG puts on a list; "some"
\* is whether there are active or time-wait PCBs now.
TimerNeeded(some) ==
  /\ active' = (active \/ some)
  /\ list' = IF some /\ ~active THEN Armed(Tcp, Period[Tcp], Period[Tcp]) ELSE list

\* A PCB becomes active (or waits in time-wait); one is bound or listens.
Register == pcbs' = TRUE /\ TimerNeeded(TRUE)
RegisterBound == TimerNeeded(pcbs) /\ UNCHANGED pcbs

\* The last PCB is aborted or freed; the timer goes on until it expires.
LastPcbGone == pcbs' = FALSE /\ UNCHANGED <<active, list>>

\* tcpip_timeout and tcpip_untimeout of another task.
AppTimeout(ms) == list' = Armed(App, ms, ms) /\ UNCHANGED <<pcbs, active>>
AppUntimeout == list' = Without(list, App) /\ UNCHANGED <<pcbs, active>>
OtherMessage == UNCHANGED <<list, pcbs, active>>

Process ==
  /\ at = "message" /\ at' = "top"
  /\ \/ Register \/ RegisterBound \/ LastPcbGone \/ AppUntimeout \/ OtherMessage
     \/ \E ms \in Delays : AppTimeout(ms)
  /\ UNCHANGED <<pool, cur, wait, slept, ethUp>>

\* Mutant of Rearm: the flag is not reset when the TCP timer ends.
RearmFlagStays(h) ==
  IF h = App THEN UNCHANGED <<list, pcbs, active>>
  ELSE IF h # Tcp THEN list' = Armed(h, Period[h], Period[h]) /\ UNCHANGED <<pcbs, active>>
  ELSE /\ pcbs' \in {pcbs, FALSE}
       /\ active' = active
       /\ list' = IF pcbs' THEN Armed(Tcp, Period[Tcp], Period[Tcp]) ELSE list

\* A cyclic handler arms itself again when it has done its work; the TCP
\* timer only while there are PCBs, the last of which tcp_tmr may remove.
Rearm(h) ==
  IF h = App THEN UNCHANGED <<list, pcbs, active>>
  ELSE IF h # Tcp THEN list' = Armed(h, Period[h], Period[h]) /\ UNCHANGED <<pcbs, active>>
  ELSE /\ pcbs' \in {pcbs, FALSE}
       /\ active' = (active /\ pcbs')
       /\ list' = IF pcbs' THEN Armed(Tcp, Period[Tcp], Period[Tcp]) ELSE list

Handle ==
  /\ at = "handler" /\ at' = "top" /\ cur' = None
  /\ Rearm(cur)
  /\ UNCHANGED <<pool, wait, slept, ethUp>>

(***************************************************************************)
(* The other task and time.                                                *)
(***************************************************************************)

\* ethernetif_init, which lwip_init_common calls after tcpip_init.
EthInit ==
  /\ at # "boot" /\ ~ethUp
  /\ ethUp' = TRUE
  /\ list' = Armed(Eth, Period[Eth], 0)
  /\ UNCHANGED <<pool, at, cur, wait, slept, pcbs, active>>

\* Time passes for every entry, but the thread counts it only while it waits.
Tick ==
  /\ at \notin {"boot", "top"}
  /\ list' = [i \in DOMAIN list |-> [list[i] EXCEPT !.left = Monus(@, 1)]]
  /\ slept' = IF at = "asleep" /\ slept < wait THEN slept + 1 ELSE slept
  /\ UNCHANGED <<pool, at, cur, wait, ethUp, pcbs, active>>

Thread == BootStep \/ Fetch \/ Expire \/ Process \/ Handle

Next == Thread \/ Receive \/ EthInit \/ Tick

(***************************************************************************)
(* The thread runs when it can; an interface is brought up.  The load of   *)
(* messages leaves it asleep for a whole tick again and again: without     *)
(* this, a message that is always there when the thread comes back costs   *)
(* no time that is counted, and no timer ever expires.                     *)
(***************************************************************************)
Spec == /\ Init /\ [][Next]_vars
        /\ WF_vars(Thread) /\ WF_vars(EthInit)
        /\ SF_vars(Tick /\ at = "asleep")

(***************************************************************************)
(* Properties.                                                             *)
(***************************************************************************)

Entries(h) == {i \in DOMAIN list : list[i].h = h}

\* Every variable has its type, and the list never outgrows its pool.
TypeOK ==
  /\ pool \in Pools
  /\ list \in Seq([h : Handlers, time : 0..LongestDelay, left : 0..LongestDelay])
  /\ Len(list) <= pool
  /\ at \in {"boot", "top", "asleep", "message", "handler"}
  /\ cur \in Handlers \cup {None} /\ (cur # None <=> at = "handler")
  /\ wait \in 0..LongestDelay /\ slept \in 0..wait
  /\ {ethUp, pcbs, active} \subseteq BOOLEAN

\* The differences of next_timeout amount to a queue in the order of expiry:
\* sys_timeout, sys_untimeout, the time taken off for a message and the
\* removal of the first entry are its operations, and timers that are due
\* together run in the order in which they were armed.
Queue == INSTANCE TimerQueue WITH
           MaxDelay <- LongestDelay,
           queue <- [i \in DOMAIN list |-> [h |-> list[i].h, due |-> Sum(list, i)]]
DueOrder == Queue!Spec

\* No handler that tcpip_thread armed runs before the time asked for has
\* passed, whatever messages interrupt the wait and whatever ethernetif_init
\* puts on the list during it.
NotEarly == [][cur = None /\ cur' # None => Head(list).left = 0]_vars

\* tcpip_tcp_timer_active tells whether the TCP timer is needed: it is set
\* while there are PCBs, and the timer is armed once at most, and never
\* without it (tcp_timer_needed, tcpip_tcp_timer).
OneTcpTimer ==
  /\ pcbs => active
  /\ Cardinality(Entries(Tcp)) + (IF cur = Tcp THEN 1 ELSE 0) <= (IF active THEN 1 ELSE 0)

\* Types, and the timer's flag.
Inv == TypeOK /\ OneTcpTimer

\* If the pool never runs empty, every timer of sys_timeouts_init runs again
\* and again, and the TCP timer runs whenever there is a PCB.
TimersRun ==
  [](at # "boot" => Len(list) < pool) =>
     /\ \A h \in ToSet(Boot) : []<>(cur = h)
     /\ pcbs ~> (cur = Tcp)

=============================================================================
