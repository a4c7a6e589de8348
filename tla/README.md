# TLA+ models of lwIP 1.4 on FreeRTOS

This directory holds the verification project kept beside the code in `src/`:
an lwIP 1.4 stack (`src/src/lwip`), its FreeRTOS port (`src/src/lwip/arch/FreeRTOS`),
the Ethernet driver of the STM32F4 (`ethernetif.c`), a wrapper with a small socket
API for applications (`src/src/lwip/lwip.c`, `src/include/lwip/lwip.h`), and
demos. Paths below are relative to the repository, `src/` being its root.

## 1. The system

Threads: the application tasks (priority 3 for the main task), `tcpip_thread`
(priority 2), the Ethernet input task (`configMAX_PRIORITIES - 2`), the DHCP
task, one `connectTask` for each `simpleConnect` in progress, and the Ethernet interrupt.
`NO_SYS` is 0, `SYS_LIGHTWEIGHT_PROT` is 0 (so `SYS_ARCH_PROTECT` does nothing)
and `LWIP_TCPIP_CORE_LOCKING` is 0 (so all protocol work is done by
`tcpip_thread`, reached through its mailbox).

| Component | State | Operations | Interacts with | What makes it correct |
|---|---|---|---|---|
| Netconn, `api/api_lib.c`, `api/api_msg.c` | `struct netconn`: state, `current_msg`, `write_offset`, `last_err`, `op_completed`, `recvmbox`, `acceptmbox`, flags; the `api_msg` on the caller's stack | new, bind, connect, listen, accept, recv, write, close, shutdown, delete, getaddr; callbacks `recv_tcp`, `sent_tcp`, `poll_tcp`, `err_tcp`, `do_connected`, `accept_function` | posts to the mailbox of `tcpip_thread`, sleeps on `op_completed`; TCP calls back | every call is answered once; `current_msg` is set exactly while an operation is pending; the mailboxes are drained before the conn is freed; errors and the end of the stream reach the reader; calls return |
| TCP pcbs, `core/tcp*.c` | lists of pcbs, their states, refused data, send buffer, timers | input, output, slow and fast timer, close, shutdown, abort | callbacks into netconn | a pcb is not used after it is freed; refused data is presented again, in order |
| Mailbox of `tcpip_thread`, `api/tcpip.c`, and the pools it needs, `core/memp.c` | mailbox (4 entries), pools TCPIP_MSG_API (10), TCPIP_MSG_INPKT (8) | `tcpip_apimsg`, `tcpip_input`, `tcpip_callback`, `tcpip_trycallback`, the loop | every component | no message lost without its sender noticing, nobody waits for everybody |
| Timeouts, `core/timers.c` | the delta list `next_timeout`, `tcpip_tcp_timer_active`, the pool SYS_TIMEOUT | `sys_timeout`, `sys_untimeout`, `sys_timeouts_mbox_fetch`, `tcp_timer_needed` | `tcpip_thread` waits through it; `lwip_init` arms the cyclic timers in the context of its caller, `ethernetif_init` one more from another task while the thread runs | handlers run in order of their due times, none early, none lost |
| Port, `arch/FreeRTOS/sys_arch.c` | semaphores, mailboxes (queues), mutexes | `sys_sem_new`, `sys_arch_mbox_fetch`, ... | FreeRTOS | a semaphore starts with the count it is given; a timeout is reported as one |
| Ethernet driver, `arch/FreeRTOS/ethernetif.c` | DMA descriptor rings, RX semaphore, TX semaphore, link state | `low_level_output`, `low_level_input`, `ethernetif_input` task, interrupt handler | `tcpip_input`, pbufs | one transmission at a time uses the descriptors; every received frame is delivered or dropped on purpose, and its descriptor returned |
| Sockets, `api/sockets.c` | the table of sockets, `rcvevent`, `sendevent`, `errevent`, the select list | `lwip_socket`, `lwip_accept`, `lwip_close`, `lwip_recv`, `lwip_select`, `event_callback` | netconn, application | a descriptor names one connection; its counters agree with the mailboxes; a waiting select is woken |
| Simple sockets, `lwip.c` 385-760 | `Sock[]`, event groups, watcher and connect tasks | `simpleSocket`, `simpleAccept`, `simpleConnect`, `simpleSend`, `simpleRecv`, `simpleClose` | sockets, FreeRTOS event groups | a descriptor in use has its event group; the events say what happened; a send delivers the bytes once, in order |
| Network initialisation, `lwip.c` 100-380 | the `netif`, its address, the DHCP task and `dhcp_state` | `lwip_init_static`, `lwip_init_dhcp`, `dhcp_task`, link callbacks | driver, DHCP client, `tcpip_thread` | one netif, freed once and not in use; the events say when an address is there |
| ARP, `netif/etharp.c` | the ARP table with its queues and ages | query, input, output, timer | IP output, timers | an entry's queue is sent or freed; an entry ends |
| DHCP client, `core/dhcp.c` | client state, timers, retries | start, receive, timers, release | UDP, netif, ARP | the address is only bound as the server acknowledged it; leases are renewed or given up in time |
| DNS client, `core/dns.c` | table and retry counters | query, receive, timer | UDP, callers | every query is answered once, found or not |
| UDP, IP, ICMP, pbuf, mem | pcbs, fragments, buffers | input, output, allocation | everything | buffers are freed once |
| Applications, `main.c`, `demos/` | client tables, an LCD queue | the demo servers and clients | simple sockets | a table slot has one owner; a queued pointer is freed once |
| mbedtls, PPP, SNMP, IPv6, AutoIP, IGMP | | | | vendored or compiled out |

What is hard to test here: two threads on one connection or one descriptor
(interleavings after a semaphore is given), mailboxes and pools at their limits,
a close, a reset or a timeout racing with an operation, deallocation by the
stack while the application still holds a pointer, callbacks that change the list
that is being walked, restarts of the network while its tasks run, and calls that
never return. `PROJECT.json` lists each with its line under `hazards`.

## 2. The modules

In order of how much the rest of the program relies on it. Each row but the last two is
modelled and model-checked.

| | Module | Composes, refines | Proved |
|---|---|---|---|
| 1 | `NetConn` | implements `ApiCall` | done: two inductive invariants, the six safety invariants, the refinement of `ApiCall` |
| 2 | `EthTx`, `EthRx` | | done: every safety property of both |
| 3 | `Timeouts` | implements `TimerQueue` | done: `Inv`, `NotEarly`, the refinement of `TimerQueue` |
| 4 | `SimpleSocket` | | done for one opener, in parts for any |
| 5 | `SimpleConnect`, `SocketIO`, `Session` | `Session` is the two others on one socket | done: `ConnectInv`, `TransferInv`, `SelectTold` |
| 6 | `TcpStream` | implements `ByteStream` | done, for numbers that do not wrap: `Inv`, `AcksHeld`, `EdgeGrows`, the refinement of `ByteStream` |
| 7 | `Dns` | implements `Resolver` | done: `Inv`, the refinement of `Resolver` for unlike names |
| 8 | `Dhcp` | the client, its two timers in two threads, and `dhcp_task` | done: `Inv`, `AddressAcked`, both but after an overtaken handler (section 11) |
| 9 | `Etharp` | | done: `ArpInv`, `AskedOnce`, `RightAddress` |
| 10 | mailbox of `tcpip_thread` and the pools API and INPKT | loop of `Timeouts`, calls of `NetConn` | not modelled |
| 11 | the walks of `tcp_fasttmr` and `tcp_slowtmr` over the lists of pcbs; the re-initialisation in `lwip.c` | | not modelled |

Every module is written to be proved about: parameters are constants with named
assumptions, one action stands for one operation, invariants are conjunctions of
named parts, and sums over a list are recursive functions or folds.  Abstract
specifications (`ApiCall`, `TimerQueue`, `ByteStream`, `Resolver`) say what a caller relies
on without the mechanism, and the detailed ones are checked to implement them.

## 3. NetConn: one connection and its API calls

`NetConn.tla` models one TCP netconn: the tasks that call the sequential API on it
(`api_lib.c`), the message each call posts (`tcpip_apimsg`), the `do_*` handlers
and the TCP callbacks of `api_msg.c`, and as much of the pcb as these look at
(`tcp.c`, `tcp_in.c`, `tcp_out.c`).

| Model | Code |
|---|---|
| `nc` | `struct netconn`; `sem` is `op_completed`, `cur` is `current_msg`, `off` is `write_offset` |
| `pcb` | the `tcp_pcb`: state, whether callbacks are set, `refused_data`, free send buffer |
| `mbox`, `msg[t]` | the mailbox of `tcpip_thread` and the `api_msg` on the stack of task `t` |
| `NetconnNew` .. `NetconnAccept`, `Return` | `netconn_*` before and after `TCPIP_APIMSG` |
| `DoNewconn` .. `DoDelconn` | the handler of the same name, with `do_writemore` (`WriteMore`) and `do_close_internal` (`CloseInternal`) |
| `Segment`, `Acked`, `Poll`, `Abort`, `RefusedRetry`, `DoConnected`, `AcceptFunction`, `NewConnection` | what `tcp_input`, `tcp_slowtmr` and `tcp_fasttmr` call: `recv_tcp`, `sent_tcp`, `poll_tcp`, `err_tcp`, `do_connected`, `accept_function` |

A handler or callback is one step, as only `tcpip_thread` touches the pcb.  The
exception is the end of `poll_tcp` and `sent_tcp`, which still read the conn after
the caller was released: `thr = "tail"`, and the task may run in between
(`CallbackEnd`).  Abstracted: lengths are units of the send buffer; errors are OK,
not fatal, fatal (`ERR_IS_FATAL`); the receive window and UDP are left out; a SYN
that is not attached to a netconn is left out; FIN_WAIT_1 and FIN_WAIT_2 are one
state; the memory of a freed pcb is taken to be intact, as the pool leaves it;
a failed `LWIP_ASSERT` does not stop the code, as the macro tests the message (`include/lwip/arch/cc.h:93`).

Runs:

- `netconn_all`: two tasks, every call, a send timeout as `simpleSocket` sets it; `MaxLen` 2
  over a send buffer of 1 makes a write block and go on, mailboxes of 2 and 1 fill up.  The
  safety invariants, the refinement of `ApiCall` (each call is answered once, calls follow
  each other), and that every call returns (`CallsReturn`).  Longer mailboxes or writes
  repeat the same steps.  Deadlock is not checked, as a half close of a connection that
  is not connected really hangs.  Fairness: `tcpip_thread` and the tasks run when they
  can, and the timers of TCP end what they end in the code: a SYN (`TCP_SYNMAXRTX`), a
  write with a send timeout (`poll_tcp`), a FIN without memory (`TCP_MAXRTX`).  Receiving
  and accepting end by data or by their timeout.

What the model shows and no property claims, because the code does not keep it:

- With `recvmbox` full the NULL of a FIN is refused; `tcp_input` (`tcp_in.c:378`) ignores that, and
  the end of the stream never reaches the reader.  The comment at `api_msg.c:254` says that
  what is refused is presented again.  `EofLast` therefore says where the NULL may
  stand, not that it comes.
- `SHUT_WR` of a pcb that is not connected gets ERR_CONN from `tcp_shutdown`, keeps the caller as
  `current_msg`, and nothing calls `do_close_internal` again (`api_msg.c:820`): `HalfCloseStuck`, the
  exception of `CallsReturn`.
- `poll_tcp` (293) and `sent_tcp` (329) read the conn after they released the task of
  `netconn_delete`, which frees it (`thr = "tail"` with `nc.mem = "free"` is reachable).
- `write_offset` is not reset by a write whose send timeout passed, against three assertions.
- The stack frees a pcb in TIME_WAIT, or in LAST_ACK after a receive shutdown, without telling the
  conn that points to it (`tcp_in.c:321`, `tcp_slowtmr`).

Proved in `NetConn_proofs`, for any tasks and capacities:

- `Inv` is inductive, hence `TypeOK`, `OneToken`, `CurMsgState`, `WriteReports`.  `OneToken` is not
  inductive alone: that the signal answers *this* call needs that `current_msg` is set exactly
  while `state` is WRITE, CLOSE or a blocking CONNECT (`CurMsgState`), which needs that a
  connect in progress has its pcb in SYN_SENT (`PcbInv`) and that a call just posted has
  done nothing (`CallInv`).
- `BoxInv`, inductive on top of `Inv`, says what the two mailboxes hold.  `EofInv`: the NULL of a FIN
  is the last message and nothing is refused behind it.  `MboxInv`: a
  close that shuts the receive side has drained the mailboxes, also when its answer waits
  for a callback, and only a listener has an `acceptmbox`.  `ReaderInv`: once the pcb is gone there
  is a fatal error for the next reader, or the mailboxes are drained.  From these follow `EofLast`, `FreedClean`, `BlockedReaderWoken`.
- `NetConn` implements `ApiCall`: each action either posts, answers or returns one call
  or leaves all calls as they were.

Only model-checked: the liveness (`CallsReturn`).

The callers' rule "one call at a time on a connection" (`Serial`) is assumed by the code.  The
callers in the repository keep it, but for `simpleConnect`: after its time limit it closes the
socket while its task may still be inside `lwip_connect` (section 7).  No run of `NetConn` has that.

## 4. EthTx and EthRx: the Ethernet driver

The descriptor functions of the STM32 library
(`ETH_Prepare_Transmit_Descriptors`, `ETH_Get_Received_Frame_interrupt`) and the DMA
are not in the repository; they are modelled as the driver uses them.

`EthTx.tla` models `low_level_output`: the semaphore its first caller creates, the
sleep on it, the copy of each pbuf, the hand-over to the DMA, the give.  One
action is one step that another task can see, so calls interleave everywhere.

- `eth_tx`: two tasks, two descriptors, chains of up to two pbufs, three calls: the
  ring wraps and a task meets a descriptor the DMA still has.  `created` starts both
  ways: TRUE when an earlier call has created the semaphore, FALSE when the first calls
  race to do it.  `Exclusive` and `WholeFrames` are claimed for the first case only:
  two first calls that race create two semaphores and do enter together.  `NotLost`
  and `CallsReturn` hold in both.  Calls are bounded, so the system stops
  (`CHECK_DEADLOCK FALSE`).  Fairness: each task in a call is scheduled; the take has a
  block time, so nothing is asked of the DMA.
- Proved in `Ethernet_proofs`: `Exclusive`, `WholeFrames` and `NoOverwrite` (a buffer that the DMA has
  is not written) for any tasks, ring and chains.  The invariant joins the count of
  the semaphore to the number of tasks inside (`SemInv`), and what a task has copied to
  its descriptor (`CopyInv`) to what the DMA is given (`DmaFrames`).  `NotLost` however the first
  calls race: an empty semaphore has a call that is about to give it (`Kept`), which
  needs that the handle never runs past the semaphores there are, a count over the
  calls that still create one (`Bounded`).

What the caller is told is not a property here: `low_level_output` reports ERR_OK for
a frame it drops.

`EthRx.tla` models the DMA ring, `ETH_IRQ_Handler` with the moment between its give and
its clearing of the flags, and the input task with `low_level_input`.  `faults` says what
may go wrong in a behaviour: no pbuf, a refusal by `netif->input`, a frame of
another type.

- `eth_rx`: two descriptors, five frames: the ring is filled, wrapped and filled again.
  Packets go up in order, none is overwritten, a full ring always has a wakeup
  pending, the copy reads no buffer of the DMA, and without faults every frame is
  served.  After a frame of another type the task stops to look, so the rest of the
  ring waits for the next interrupt; that is why `Served` is claimed without faults.
  Arrivals are bounded (`CHECK_DEADLOCK FALSE`).  Fairness: the interrupt
  and the task run when they can.  The code starts one input task, so does the model.
- `eth_rx_stall`: finding. Each failure of `pbuf_alloc` leaves a descriptor behind; after
  as many failures as descriptors the DMA stops, the interrupt clears RBU without
  giving the semaphore, and nobody resumes the reception.
- Proved in `Ethernet_proofs`: `ReceiveInv` for a ring of any size and any number of frames.
  The inductive invariant describes the ring: from the next descriptor on lie the frames that arrived last, one
  each, behind them the DMA's (`RingInv`, as long as no pbuf was missing); the segments that were not
  given back lie in one piece or fill the ring (`SegInv`, whatever failed); once a
  descriptor is given back only a frame that wakes the task fills the ring (`WakeInv`).
  That every frame is served (`Served`) is only model-checked.

## 5. Timeouts: the timer list and the loop of tcpip_thread

`TimerQueue.tla` is the promise: timers with the time they have yet to wait,
expiring in that order, in the order of arming when equal.  `Timeouts.tla` is
`core/timers.c` with `sys_timeouts_mbox_fetch`: `list` is `next_timeout` (differences),
`wait` the time given to `sys_arch_mbox_fetch`, `slept` the time it counted; `left` is
history, what is really left of the time asked for.  `Insert` and `Without` are the
list walks of `sys_timeout` and `sys_untimeout`; `TimerNeeded` and `Rearm` the switching
on and off of the TCP timer; `EthInit` is the `sys_timeout` of `ethernetif_init`, at any
moment of the thread's wait.  A `sys_timeout` is one step: a preemption inside it,
which nothing in this port prevents, is listed as a hazard and not modelled.

- `timeouts`: one cyclic timer of the stack stands for arp, the two of dhcp and dns (they
  differ in nothing but their number and interval), intervals 2 and 3, TCP 1, and
  `tcpip_timeout` with 1 or 3: ties and all orders occur.  Pools of 3, one entry for
  each of these timers, so that those of `tcpip_timeout` exhaust it, and of 4.  The list
  implements the queue (`DueOrder`), no handler is early whatever interrupts the
  wait, one TCP timer, and as long as the pool never runs empty every timer keeps running.
  Fairness: the thread and the start of the interface; and the thread stays
  asleep for a whole tick again and again.  Without the last, a message that is always
  there takes 0 off the list each time and no timer expires; the code has no defence
  against such a load.
The pool is smaller in the code than its users need, which is why `TimersRun` is about
behaviours in which it does not run empty: `lwip_opt.h:354-358` computes five entries, for
arp, two of dhcp, dns and TCP, and does not count the timer that `ethernetif.c:475` arms.  That one
takes the last; `tcp_timer_needed` (`timers.c:108`) then marks the TCP timer as active,
arms nothing, and never tries again.

`Timeouts_proofs`: `Inv`, `NotEarly` and `DueOrder`, for any timers, intervals, delays and pool sizes that
`TimersAssumption` admits: the handlers differ, intervals are positive and finitely many,
and the pool has an entry for each timer of `sys_timeouts_init` (as `init.c` checks) and one more,
the TCP timer.  A delay of 0 is left out, as nobody asks for one.  What expires when is a statement about
sums of differences.  These are proved by induction: a claim about sums that fails has a
least length for which it fails (`LeastElement`).  The invariant `IInv` says that no timer has
more left than its sum, less the time the thread has slept and not yet taken off
(`ListOK`), that the thread sleeps for no longer than the first difference (`Waiting`), and where the
TCP timer is (`TimerOK`).  For the refinement, each list walk is shown to do to the sums
what the operation of `TimerQueue` does.  Only model-checked: `TimersRun`, which is liveness.

## 6. SimpleSocket: the descriptors of the application's API

`SimpleSocket.tla` models the two tables that one descriptor indexes: `sockets[]` of
`sockets.c` (`conn`) and the shorter `Sock[]` of `lwip.c` (`isSocket`, `events`), the event
groups, `simpleSocket` and `simpleAccept` (`Begin` .. `Mark`), the hand-over of
`demos/server.c`, and `simpleClose` (`DeleteGroup`, `Free`, `Unmark`).  A step is
one access to what tasks share, since nothing protects it.  The entries -1 and `MaxSocket` of `Sock` stand for the memory around it, which the code
writes for a refused accept and for the first descriptor too large.

- `simple_socket`: one opener as in `server.c`, three closers, four entries of `sockets`,
  two of `Sock`: descriptors of every kind (in `Sock`, one beyond it, forgotten) and a
  full table.  No fairness: only safety is claimed.  `OneOwner`, `OwnGroup` (a late close
  never deletes the group of the next owner), and no group, mark or descriptor is lost
  (`NothingLost`).

The readers of the tables are not in the model.  They find a socket valid (`socketValid`)
while `simpleClose` has deleted its event group and is still in `lwip_close`: `watcher_task`
(`main.c:337`) then reads a deleted group, against `lwip.h:238`.

`SimpleSocket_proofs`: types without assumption; `OneOwner`, `OwnGroup`, `NoGroupLost`
for any tables and tasks under `SoleOpener`, one task opens all sockets.  Two openers
may claim the same entry, because `SYS_ARCH_PROTECT` is empty, so the assumption is needed.
The invariant adds which tasks may be where (`Roles`), that an owned descriptor is
taken (`Taken`) and within `Sock` where it is indexed (`InSock`).  `NothingLost` is proved under the same
assumption; its parts `MarkIsOwned` and `NoDescriptorLost` without it (`DescriptorsKept`), as a
group alone can be lost by two openers of one descriptor.  That an open socket stays marked is *not*
claimed: a late close may take the mark of the new owner back (listed as a hazard).

## 7. Session: the life of a client's socket

`SimpleConnect.tla` models `simpleConnect`, which starts `connectTask`, waits 5 s for the event that
ends it, and deletes that task in either case; `tcpip_thread`, which may still have the
message on the stack of the deleted task; and the `simpleClose` that follows.  `user` and
`helper` are the next steps of the two tasks, `conn` is what an attempt and the close make
of the netconn (`NetConn` has the rest), `late` remembers the first attempt that was given up.

`SocketIO.tla` models a connected socket: a task in `simpleRecv` and `simpleSend` (`task`), a second
one in `lwip_select` (`sel`), and `tcpip_thread` in the callbacks of the netconn (`cb`).

| Model | Code |
|---|---|
| `Enter`, `Take`, `TimedOut`, `Fin` | `netconn_recv_data`: the fatal error, the message, the timeout, the NULL message |
| `Copy` with `Keep` and `Done`, `NoData`, `Recved` | the loop of `lwip_recvfrom` with `lastdata`, and its ways out |
| `DoWrite`, `SentTcp`, `PollTcp` with `TimeUp`, `WriteSome` | `do_write` and `do_writemore` |
| `RecvTcp`, `Again`, `GotFin`, `ErrTcp`, `Then` | `recv_tcp`, refused data, the FIN, `err_tcp` before and after its events |
| `Load`, `Store`, `Scan`, `Signal` | `event_callback`, `rcvevent++` in two steps |
| `Enlist`, `Count`, `Rescan`, `Wake` | `lwip_select` for reading |

The applications have a higher priority than `tcpip_thread`: it makes a step when both tasks are
blocked (`ThreadRuns`), and either comes between two of its steps.  Nothing else protects `rcvevent`,
since `SYS_ARCH_PROTECT` does nothing.  Bytes are numbered, so that their order shows.
`Session.tla` puts the two together: a socket that an attempt connected is used, and then
closed, which drains `recvmbox`.  The data of a peer that is faster than the return of `simpleConnect`
is taken as arriving after it, and nobody selects on a socket that is being closed.

- `session`: two calls of `simpleConnect` (a late answer needs no more to meet a call that is not
  its own), three bytes in pbufs of one or two, a mailbox of two, sends of two bytes through a buffer of
  one.  So reads take parts of pbufs and several of them, data and the FIN are refused and dropped,
  sends are partial, and the counter is torn.  Named parts:
  - `ConnectInv`: `connectTask`, which writes into the stack frame of `simpleConnect`, is gone
    when that returns (`FrameInUse`); the netconn is freed after `tcpip_thread` closed it
    (`FreedAfterClose`); 0 is returned for a connected socket only, also when the answer comes at
    the time limit itself (`ResultTrue`).
  - `TransferInv`: each byte is read once and in order or is still kept (`BytesKept`), and given back
    to the receive window once on every way out of `lwip_recvfrom` (`WindowBack`); a send that
    succeeded gave its data to TCP once (`SentOnce`); a read that has data waits only if
    `rcvevent` was torn (`Prompt`).
  - `SelectTold`: `lwip_select` does not sleep over a message, unless it is about to be told.
  - `CallsReturn`: a read with something to fetch, any call on a connection that was reset, and a
    select that was told all return.
- Fairness of `CallsReturn`: the tasks run when they can; `tcpip_thread`, which they keep from running
  again and again, gets its turn whenever it could run infinitely often, because a task in
  `lwip_select` sleeps.  The peer, acknowledgements and timeouts owe nothing.  The system ends with the
  close, so `CHECK_DEADLOCK FALSE`.

Left out of these properties because the code does not keep them.  `Prompt`, and with it the first part of
`CallsReturn`: a reader that comes between the load and the store of `rcvevent++` (`sockets.c:1292`)
takes one off that is lost, the counter stays one too high, and a later `lwip_recvfrom` with data in
hand waits for more.  `SentOnce`: when `send_timeout` passes after a part was queued, `simpleSend` sends
from the first byte again, and counts both (`lwip.c:637-650`).  A reset that finds a waiting read ends
it with 0, as the end of the stream does.  And `Signal` may find that `lwip_select` has returned (`sockets.c:1348`,
whose comment says that protection prevents it).

`FreedAfterClose` and `ResultTrue` leave out what follows an attempt that was given up, and
need to.  Without `late = 0` the late answer of that attempt wakes `netconn_delete`, which frees the
netconn before `do_delconn` ran; without the other condition the event that came too late ends the
next `simpleConnect` at once, with 0, on a socket that is not connected.  The bit CONNECTED is set
whenever `lwip_connect` returned, whatever its result.  That the heap has room for
`connectTask` is assumed: its handle is not initialised, and `xTaskCreate` is not checked.

`Session_proofs`: a session implements `SimpleConnect`, and so `ConnectInv` holds, for any number
of calls and any sizes (`SizesAssumption` is not needed).  `ConnectInv` is not inductive.  `OneCall`
adds where the message of the attempt or of the close is: in the mailbox, with the pcb, or
answered; `Ended` that the event was set by `connectTask` as its last step; both only as
long as no attempt was given up.  `ErrTrue`, `RetTrue` and `EndTrue` follow a result from `msg.err` over `ret`
to the return, and `Numbers` tells the attempt that was given up from those after it.

The same module proves `TransferInv` and `SelectTold`, for any sizes of pbufs, mailbox, buffers and windows
(positive, `SizesAssumption`).  None of their parts is inductive.  The invariant `IOInv` adds:

- `Counted`: `rcvevent` is at least the messages it counts, less the one whose increment is under
  way.  An update that is torn loses a decrement, never an increment, so the counter errs upwards only;
  that is why a task that looked twice (`Sleeping`) does not sleep over a message.
- `Exact`: without a torn update and without a reset the counter is exactly that.  A read with data in
  hand waits only when `rcvevent > 0`, so there is a message, or an update was torn (`Starved`, `Prompt`).
- `CallInv`: what call the task is in, and that only a read that is under way has bytes it has not
  given back, so `WindowBack` is an equation in all states.
- `SendInv`: what TCP was given is the part up to `write_offset` while `do_write` waits, and nothing
  when `simpleSend` is about to write.
- `BytesInv`, `WndInv`: the equations of `BytesKept` and `WindowBack`.  A step moves bytes from one end of
  what is unread, so the proof needs what a message at either end does to `Contents`
  (`ContentsAppend`, `ContentsHead`); these are proved of the recursive function in `FlattenSeq` by a
  least counterexample.

Only model-checked: `CallsReturn`.

## 8. TcpStream: data over one TCP connection

`ByteStream.tla` is the promise: the reader is given what was written, in order, each byte once,
the end of the stream behind the last byte, and nothing after a reset.  `TcpStream.tla` has both ends
of an established connection as this stack runs them: `snd` is the pcb that writes, `rcv` the one
that reads, `net` what is on its way.  The byte at a position of the stream is the position, so that
what is delivered can be compared with what was written.  Sequence numbers wrap at `SeqWidth` and
windows at `WndWidth`, and `Lt`, `Leq`, `Between` are the macros of `tcp_impl.h` on them.

| Model | Code |
|---|---|
| `Write`, `Close` | `tcp_write` with its filling of the last segment, `tcp_close`, `tcp_send_fin` |
| `Sendable`, `Output`, `Nagle` | the loop of `tcp_output` |
| `AckIn`: `Window`, `NewAck`, `Duplicate`, `DropUnsent`, `NextState` | the first half of `tcp_receive`, the states of `tcp_process` |
| `Rexmit`, `FastRexmit`, `Probe`, `FinWaitTimeout` | `tcp_rexmit_rto`, `tcp_rexmit_fast`, `tcp_zero_window_probe`, the rest of `tcp_slowtmr` |
| `SegIn`: `FirstEdge`, `Trimmed`, `Following`, `InSequence`, `OutOfSequence`, `OosInsert` | the second half of `tcp_receive`, `tcp_oos_insert_segment` |
| `Upward`, `Again`, `FastTmr`, `Recved`, `UpdateAnnWnd` | the end of `tcp_input`, `tcp_process_refused_data`, `tcp_fasttmr`, `tcp_recved`, `tcp_update_rcv_ann_wnd` |

- `tcp`: five bytes in segments of two, a window and a send buffer of two segments as in the
  configuration's proportions, an initial sequence number two before the wrap, one fault (a loss, a
  repetition, an overtaking, or a retransmission that comes too early) and one refusal by the mailbox.
  So segments are filled, sent again, overlap, arrive out of sequence, and the window closes and
  opens.  `Inv` joins the books of the two ends: the queues of the sender hold each byte that is not
  acknowledged once and in order (`SendBook`), the receive window is the room that is left
  (`WindowFree`), the sender keeps to the window it was announced (`InsideWindow`).  `AcksHeld`: what
  is acknowledged was delivered or is kept.  `EdgeGrows`: the announced edge never moves back.
  `Refines`: the two ends implement `ByteStream`.  `AllArrive`: everything arrives.
- Fairness of `AllArrive`: the timers run, what is on its way comes in unless it is lost, the
  reader reads and the writer closes.  Each conjunct of `Fairness` is the weak fairness of an action
  with its guard written out, as []<>(~guard) \/ []<><<A>>_vars: TLC's ENABLED of these actions
  takes long.  Faults are bounded below `TCP_MAXRTX`, so no connection is given up.
- `tcp_wrap`: finding.  `tcp_in.c:1473` compares `seqno + tcplen` with the right edge as plain
  numbers.  When the edge has wrapped and the segment has not, a segment that lies in the window is
  "cut" to a length larger than its data, and bytes that never arrived are acknowledged.

Left out: the other direction has ended or never begins.  Where it has, the writer is in CLOSE_WAIT (`Init`
has that) and the reader would be in FIN_WAIT_2, but is treated as one in ESTABLISHED.  A reader
in FIN_WAIT_2 goes to TIME_WAIT on the FIN, and `tcp_pcb_purge` (`tcp_in.c:764-773`) drops refused data
that was acknowledged: `AllArrive` does not claim anything of such a reader.  `Timers` has neither the end
of a pcb in LAST_ACK that hears nothing for two MSL (`tcp.c:941-946`; what it still holds is freed with it,
so `AllArrive` is about peers that are not silent for that long), nor the drop of data that waits out of sequence for long (923-928): that data was never acknowledged
and is sent again.

`AllArrive` names three exceptions.  A reset.  `CutOff`: `tcp_process` (760, 787) takes an ACK of
`snd_nxt` for that of the FIN although data and the FIN are still unsent, and the pcb is freed with
them.  `Stalled`: the window is open but smaller than the next segment; the persist timer runs for
a window of 0 only.  Two more observations that no property covers: a FIN that is one past the
window and waits out of sequence makes `rcv_wnd` wrap (1340); a RST drops refused data that
was acknowledged.

Proved in `TcpStream_proofs`, for any sizes of segments, windows, buffers, of the stream and of the
counters as `TcpAssumption` has them, and any number of faults and refusals: `Inv`, `AcksHeld`, `EdgeGrows` and
`Refines`.  All have the hypothesis `NoWrap` (`Iss + Bytes + 1 + TCP_WND < SeqWidth`): no number that the
connection uses lies beyond the wrap.  Without it they are false, as `tcp_wrap` shows;
the fault is the one comparison of plain numbers in `Overruns`, and only what calls it needs the
hypothesis.  The run `tcp` has `Iss` two before the wrap, a case that the theorems
leave out and the run has for one size: with two segments in the window and one fault nothing
goes wrong there.

The argument: nothing here is inductive by itself.  That the reader gets the stream depends on what
every message carries, on what waits out of sequence, on what the sender keeps to send again; that an edge never
moves back depends on every window ever announced that is still on its way.  The
invariant `IInv` says it in positions of the stream (`Pos`).  All positions in use are less than
half a round of the sequence numbers apart (`TcpAssumption`), so `Lt`, `Leq` and `Between` of
numbers are the comparisons of positions (`Compare`, `PosCompare`), and from there on the proof is about
intervals.  Its parts:

- `SndOK`: each segment is a piece of the stream (`Piece`), and `unacked` with `unsent` behind it is a chain
  from `lastack` to the last byte written and the FIN (`Holds`).  A retransmission breaks that order for
  a moment, until `tcp_output` has sorted the segments in (`Ready`, `OutputOK`).
- `RcvOK`, `Kept`: the counts of what is delivered, refused and unread give `rcv.nxt` and the window, and what
  waits out of sequence are pieces between `rcv.nxt` and the edge, in order, as the trimming
  and the merging of `tcp_receive` leave them (`Oos`, `Merge`, `TrimmedOK`, `OutOfSequenceOK`).
- `DataOK`: what is on its way was sent, and lies inside the window announced when it was sent, but
  for the byte of a probe.
- `AcksOK`: of the ACKs on their way and the one the sender used last, a later one does not take back what an
  earlier one announced, and none exceeds `rcv.edge`.

Most lemmas are about one function of `tcp_in.c` or `tcp_out.c` with the pcb and the segment as
parameters (`OutputOK`, `InSequenceOK`, `SendAckOK`); the last part takes them to the steps (`NextIInv`).
`IInv` was model-checked on instances of `TcpStream` before it was proved.  To be reasoned
about, the walks over a queue are recursive functions (`AllInOrder`, `Joined`) or count what they
pass (`Prefix`), and the assumption says that a window
is as wide as six segments (`WndWidth >= 6 * MSS`; `WndWidth` is 65536 in the code), so that
`ssthresh + 3 * mss` of `tcp_rexmit_fast`, which the code does not test for overflow, fits into `cwnd`.

Only model-checked: `AllArrive`.

## 9. Dns: the resolver and its blocking call

`Resolver.tla` is the promise: who asks is told once, the address of the name asked for or a failure.
`Dns.tla` has `netconn_gethostbyname` with the message and the semaphore on the caller's stack,
`dns_table`, `dns_seqno`, retries and the change of server, and a network that keeps queries and
answers them late, twice or never.  An address is represented by the name it belongs to; `text`
keeps what lies in the array of a name behind its end, since `dns_compare_name` reads it.

- `dns`: two tasks, two names, two entries, two servers, two retries, `dns_seqno` modulo 2, ttl up to 1:
  full tables, entries that are given away, late answers for an id that now stands for another
  name, and the wrap of the number.  `Inv`: every query under way points to the frame of a caller that
  waits for that name, and a caller that waits has one query (`PendingOwned`); an address
  leaves the cache in time (`Fresh`).  `Resolves`: the refinement of `Resolver`.  `CallsReturn`: a call
  whose message was taken returns although no server ever answers.  Fairness: `tcpip_thread`, its
  timer, and the caller.

Not kept by the code, and left out by the properties: a call whose message finds no room waits for ever, as
`netconn_gethostbyname` does not look at the result of `tcpip_callback` (`api_lib.c:774`); an answer with ttl
0 stays for 2^32 s (`dns.c:699`); the answer for a name passes for that of a name that
begins with the same labels (`dns.c:495-520`), so the names of the run are unlike.

Proved in `Dns_proofs`, for any tasks, names, table, servers, retries and times:

- `Inv`.  The inductive invariant says both ways who owns what: an entry that asks has a caller that waits for its
  name and two entries never ask for one caller, whoever waits untold asks through an entry (`Waiters`); the
  messages are those of the callers that are posted, one each (`Messages`).  It is kept since an entry that
  asks is never given away (`ReusableIs`: the search looks at completed entries only), and since an entry
  stops asking only in the step that tells its caller (`CheckedIs`, `OverIs`, `RecvIs`).  `Fresh` needs the exact time that
  is left (`Left`: ttl = given - age).
- `Resolves`, from the hypothesis `Unlike`: no name begins with the labels of another.  It is what
  `dns_compare_name` needs, and the names of the run fulfil it.  The array of an entry that asks begins
  with its name, whatever was there before (`Arrays`, `ArrayIs`), and of two names that an array begins with
  one begins with the other (`PrefixesMeet`); so an answer that is accepted is for the right name
  (`MatchIs`), although its id may be that of an earlier query.  Without `Unlike` the theorem is false: the
  answer for a.b passes for a.b.c.
- Assumed of the constants: a name is a sequence of labels and not empty (`dns_gethostbyname` refuses an
  empty one, `dns.c:945`), `DNS_MAX_TTL` is less than 2^32.

## 10. Etharp: addresses of the local network

`Etharp.tla` has `arp_table` with the hint `etharp_cached_entry`, the packet that waits in an entry, the
requests of an entry in use, ageing, and the choice of an entry to give away.  `held` counts
the buffers that ARP has a reference to, `heard` is the address in the last ARP message of a host.
The timer is an action at any moment: two timers call `etharp_tmr` (`timers.c:137`, `ethernetif.c`).

- `etharp`: three hosts, two entries, two addresses, ages up to 4.  `ArpInv`: one entry for a host
  (`OneEntry`), and every reference to a buffer is in the table, in a pending entry (`Buffers`).
  `RightAddress`: a packet goes to the address that its own next hop last gave.  `AskedOnce`: an entry in
  use near its end is asked for, once between two runs of the timer.  `PendingEnds`: under fairness of the timer.

Because two timers run, an entry lives half as long as `ARP_MAXAGE` says (`etharp.c:90`), and a
pending one may go within an instant.  `etharp_cleanup_netif` passes over pending entries, whose
`netif` is not set yet (587).  An entry that is freed loses its `netif` (`etharp.c:192-198`), as
`config/lwip_opt.h:41` defines `LWIP_DEBUG`; without it, an entry in use again after it was freed would
keep the old one while it is pending.

`Ethernet_proofs`: `ArpInv`, `AskedOnce` and `RightAddress`, for any hosts, addresses, ages and table size.  The
invariant says of each entry what its state implies (`EntryOK`: a complete one has the
address its host last gave, and only an entry that asks was asked for), that no two entries are
of one host (`Unique`), and that the references to buffers are those of the table.  That
the choice of the entry to give away finds one when the table is full needs that a finite set has an
oldest member (`OldestIn`).  Only model-checked: `PendingEnds`.

## 11. Dhcp: the lease, two threads and dhcp_task

`Dhcp.tla` has the client (`c`), the messages it sent and the answers in flight; `tcpip_thread`, which runs
the two timers and takes messages and ARP replies (`thread`, `msg_in`); and `dhcp_task` with
`dhcp_state`, its events, the `dhcp_stop` of a client that failed, and the same two timers.
Servers answer what was sent, as often as they saw it, or not; answers are lost and late.

| Model | Code |
|---|---|
| `FineTest`, `CountDown`, `CoarseTest`, `FireTimer` | `dhcp_fine_tmr` and `dhcp_coarse_tmr` in `tcpip_thread`: the test of the counter, the decrement, the test of the state in `dhcp_timeout`, `dhcp_t1_timeout`, `dhcp_t2_timeout` |
| `Recv`, `Received`, `TakeReply` | `dhcp_recv`: the test of the transaction id, of the state, then `dhcp_handle_ack` or `dhcp_handle_offer` |
| `ArpReply` | the tests of `dhcp_arp_reply` |
| `Handle` | what such a test decides on: `dhcp_discover`, `dhcp_select`, `dhcp_renew`, `dhcp_rebind`, `dhcp_release`, `dhcp_decline`, `dhcp_handle_nak`, `dhcp_check`, `dhcp_bind` (`Handled`) |
| `TaskFine`, `TaskCoarse` | the same timers in `dhcp_task`, each in one step |

`dhcp_task` has the priority of the main task (3), `tcpip_thread` has 2, and there is no lock.  So `dhcp_task` may
come between any two steps of `tcpip_thread`, and `tcpip_thread` makes a step only while `dhcp_task` waits out its
delay (`Waiting`).  A step of `tcpip_thread` is one if-chain of tests, or one handler.  Finer
preemption is left out: `dhcp_task` inside a handler, as between `dhcp_set_state`, `dhcp_create_msg` and
`tries++`, where both tasks would write one message (`p_out`, `msg_out`); inside one if-chain; and between the
test of a coarse counter and its decrement, which are one expression (`dhcp.c:348`).  A message that a
client without its pcb sends, after `dhcp_stop`, counts as not sent.  The assertions that
preemption makes false (`dhcp.c:1244`: a message in hand at `dhcp_stop`; 1664: inside a send) do not stop
the code, as in section 3.

What the model shows and the properties leave out.  `overtaken` says that `dhcp_task` changed the
state between a test in `tcpip_thread` and the handler it had decided on.  Then:

- `dhcp_task` reports DHCP_FAILED and stops the client, and the handler (of a timer, an answer, an
  ARP reply) starts it again: the failure is not final.
- `dhcp_task` releases the lease and discovers, and the ACK that was accepted before makes
  `dhcp_bind` set the state BOUND with no address, or `dhcp_check` try out an old one.
- `dhcp_task` binds an address that an ARP reply is about to decline.

`Inv` (but for the types) and `AddressAcked` claim nothing while `overtaken`; it ends when the client
starts over, with the state SELECTING and no address.  From there on both hold again.

- `dhcp`: one address, one lease, tries of 1 to 3 and timers modulo 3, one answer in flight or in hand, one
  message that finds no memory, one refusal, one fine tick of `tcpip_thread` ahead of `dhcp_task`.  That is
  enough for each handler to be decided on in each state, and to be overtaken there; an answer
  is repeated, or late, when the one before it was taken or lost.  `Inv`: a bound client uses the address it was
  offered (`BoundUses`), and after DHCP_FAILED it stays off, with whatever timer or message on its
  way that the state was not yet tested for (`FailedIsFinal`).  `AddressAcked`: the interface
  only has an address that the last word of a server acknowledged, for a request since the last
  discovery.  `Reported`: who waits is told IP_ASSIGNED or DHCP_FAILED.
- Fairness of `Reported`: `dhcp_task` runs (weak), and `tcpip_thread` goes on with what it has begun (strong, as
  it only runs during the delays of `dhcp_task`, which come again and again).  It need not begin anything;
  servers and the network owe nothing.

`Reported` excuses a client that fell asleep (`Asleep`): an OFFER without a server id clears the timeout and
sends nothing (`dhcp.c:1626`), and `dhcp_task` does not look at the result of `dhcp_start`.  It also excuses
`dhcp_task` overtaking `tcpip_thread` again and again, as each time the tries may start over.
`AddressAcked` holds with one message that finds no memory, not with two in a row: the first REQUEST of a
new exchange then carries the transaction id of the one before.  The end of a lease is not
enforced by this client, and IP_ASSIGNED is never cleared; no property says otherwise.

`Dhcp_proofs`: `Inv` and `AddressAcked`, for any addresses, leases, tries, counter widths, answers in flight and
number of messages that find no memory.  They have the same hypothesis as the properties, that no handler was
overtaken since the client last started over.  The inductive invariant `IInv`:

- `Good`: what the state says of the offer and the address (`Uses`), and, while at most one message found no
  memory, that whatever is asked or in flight with the current transaction id is about the offer
  (`Asks`), so that an accepted ACK is too (`Confirmed`).  A second failure breaks exactly `Asks`.
- `Ready`, `Heard`: what `tcpip_thread` found by a test is still so when its handler comes.  `dhcp_task` keeps
  that as long as it keeps the state, since a handler that keeps the state keeps the offer, and
  what was acknowledged (`TaskTimerStep`).
- `Base`: what is left after a handler was overtaken.  It is enough for a discovery to make `Good` true
  again (`AnewGood`).

`FailedIsFinal` follows since `dhcp_task` is deleted, the client off and without its pcb once DHCP_FAILED is
set, and a test of the state decides on nothing for a client that is off (`TestedReady`).
Only model-checked: `Reported`.

## 12. What is not modelled

- Rows 10 and 11 of section 2: the bounded mailbox of `tcpip_thread` with its pools (so
  `lwip_setsockopt`, which waits for a callback that was refused, `sockets.c:2064`, and the unprotected
  free lists of `memp.c:407`), the lists of pcbs that the TCP timers walk, and the
  re-initialisation of the network.
- `low_level_output` reports ERR_OK for a frame that it drops, and after a frame of another type the input task leaves
  the rest of the ring to the next interrupt: seen, and no property.
- UDP, raw, IP and ICMP, pbufs and the heap: sequential code on one packet at a time.
- Preemption finer than a step: `dhcp_task` inside a handler of the DHCP client (section 11).
- The TCP timers' end of a silent pcb in LAST_ACK and their drop of stale out-of-sequence data, and a
  reader in FIN_WAIT_2 (section 8).
- Parsing and formatting of packets, options and names, checksums, the display and audio
  demos (I/O).
- Vendored or compiled out: mbedTLS (56 000 lines of the repository), PPP (14 000), SNMP (9 000),
  IPv6, AutoIP, IGMP, SLIP and the port without an OS.  They are most of the lines under `src/`, so
  the share of lines that the models cover stays small; of the core, `api_msg.c`, `timers.c`, `etharp.c`, `dhcp.c`,
  `dns.c`, `tcp_in.c` and `tcp_out.c` are covered for the greater part.

`LWIP_NETIF_LOOPBACK` is 0, so `tcpip_thread` does not post to itself.  `PROJECT.json` gives the
reason for each component, and for each hazard the properties that cover it or why none does.

Only model-checked, and why:

- Liveness: `CallsReturn` of `NetConnAll`, `EthTx`, `Session` and `Dns`, `Served`, `TimersRun`, `AllArrive`,
  `PendingEnds`, `Reported`.  The prover has no rule for fairness and ENABLED.
- `TcpStream` when its sequence numbers wrap: the run `tcp` covers one case (section 8).
- Operators that take operators, as the folds do, cannot be used with the library's
  theorems about them; sums are recursive functions for that reason, and claims about them
  are proved from a least counterexample.

## 13. Running it

`tlc -config X.cfg M` for each entry of `runs` in `PROJECT.json` (`M` its module, `X.cfg`
its configuration): each takes seconds to three minutes (`session` and `dhcp` are the
longest).  A run that expects a violation ends with the counterexample of a finding.  `tlapm
M_proofs.tla` checks the proofs of a module from nothing: half a minute, two for `NetConn_proofs` and
`Timeouts_proofs`, four for `Session_proofs`, eleven for `TcpStream_proofs`.  The definitions
marked as mutants or bugs change one definition the way a plausible bug would; put in its
place, each makes TLC report the property named in `mutants`.
