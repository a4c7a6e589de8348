------------------------------ MODULE TcpStream ------------------------------
(***************************************************************************)
(* The transfer of data over one TCP connection that is established, both  *)
(* ends of which run this stack (core/tcp_in.c, core/tcp_out.c,            *)
(* core/tcp.c): segmentation, windows on both sides, retransmission by     *)
(* timer and by duplicate ACKs, zero-window probes, the out-of-sequence    *)
(* queue, refused data, delayed ACKs, and the closing of the sending end.  *)
(*                                                                         *)
(* Only the bytes of one direction are followed: "snd" is the protocol     *)
(* control block of the end that writes, "rcv" that of the end that reads, *)
(* and the ACKs of "rcv" carry no data.  The network loses, repeats and    *)
(* reorders.  The byte at a position of the stream is represented by the   *)
(* position, so that what is delivered can be compared with what was       *)
(* written; sequence numbers, windows and congestion windows keep a width. *)
(*                                                                         *)
(* The other direction has ended or never begins.  Where it has, the end   *)
(* that writes is in CLOSE_WAIT and the one that reads would be in         *)
(* FIN_WAIT_2; it is treated as one in ESTABLISHED, whose receiving side   *)
(* is the same up to the FIN.  On the FIN it goes on to TIME_WAIT, and     *)
(* tcp_pcb_purge (tcp_in.c:764-773) then drops data that the mailbox       *)
(* refused: that is left out.  Of tcp_slowtmr two things are left out:     *)
(* the end of a pcb that stays in LAST_ACK (tcp.c:941-946), and the drop   *)
(* of data that waits out of sequence for long (923-928), which was never  *)
(* acknowledged and is sent again.                                         *)
(***************************************************************************)
EXTENDS Integers, SequencesExt

CONSTANTS
  MSS,           \* pcb->mss, the same at both ends
  TCP_WND,       \* the receive window
  TCP_SND_BUF,   \* the send buffer
  SeqWidth,        \* 2^32
  WndWidth,        \* 2^16
  Iss,           \* sequence number of the first byte
  Bytes,         \* bound: bytes the sending application writes
  MaxFaults,     \* bound: segments that the network loses, repeats, or delivers before one
                 \* sent earlier, and retransmission timeouts while something is on its
                 \* way; below TCP_MAXRTX, so that no connection is given up
  MaxRefused     \* bound: buffers that the application's mailbox has no room for

ASSUME TcpAssumption ==
  /\ MSS \in Nat \ {0} /\ TCP_WND \in Nat /\ TCP_WND >= 2 * MSS
  /\ WndWidth >= 6 * MSS            \* ssthresh + 3 * mss fits into the u16_t cwnd
  /\ TCP_SND_BUF \in Nat \ {0} /\ WndWidth \in Nat /\ TCP_WND < WndWidth
  /\ SeqWidth \in Nat /\ SeqWidth > 2 * (Bytes + TCP_WND + 2) /\ Iss \in 0..(SeqWidth - 1)
  /\ Bytes \in Nat /\ {MaxFaults, MaxRefused} \subseteq Nat

VARIABLES
  snd,       \* the pcb that sends
  rcv,       \* the pcb that receives
  net,       \* segments on their way, in the order in which they were sent: "data" to
             \* the receiving end, "acks" to the sending end
  app,       \* written: bytes handed to tcp_write; out: bytes that the receiving
             \* application was given; unread: of them, those without tcp_recved;
             \* ended: it was given the end of the stream
  left       \* what is left of the last two bounds

vars == <<snd, rcv, net, app, left>>

Smaller(a, b) == IF a <= b THEN a ELSE b
Larger(a, b) == IF a >= b THEN a ELSE b

-----------------------------------------------------------------------------
(* Arithmetic on sequence numbers, and segments                            *)

Plus(a, n) == (a + n) % SeqWidth
Minus(a, b) == (a - b) % SeqWidth          \* as a number without sign
Lt(a, b) == Minus(a, b) >= SeqWidth \div 2
Leq(a, b) == a = b \/ Lt(a, b)
Between(a, b, c) == Leq(b, a) /\ Leq(a, c)

\* "len" is seg->len, "data" what is in the pbuf.
Seg(s, bytes, fin) == [seq |-> s, len |-> Len(bytes), data |-> bytes, fin |-> fin]
TcpLen(s) == s.len + IF s.fin THEN 1 ELSE 0
End(s) == Plus(s.seq, TcpLen(s))

\* pbuf_realloc cannot lengthen a pbuf.
Cut(s, n) == [s EXCEPT !.len = n, !.data = SubSeq(s.data, 1, Smaller(n, Len(s.data)))]

SegMsg(s) == [kind |-> "seg", seq |-> s.seq, data |-> s.data, fin |-> s.fin]
AckMsg(a, w) == [ack |-> a, wnd |-> w]
RstMsg(s) == [kind |-> "rst", seq |-> s]

\* What is left of the bounds when the i-th segment of a direction comes in first.
CanOvertake(i) == i = 1 \/ left.faults > 0
Overtaking(i) == IF i = 1 THEN left ELSE [left EXCEPT !.faults = @ - 1]

SendData(n, msgs) == [n EXCEPT !.data = @ \o msgs]
SendAcks(n, msgs) == [n EXCEPT !.acks = @ \o msgs]

\* The longest prefix of s all of whose positions are among "passing".
Prefix(s, passing) == SubSeq(s, 1, Cardinality({i \in DOMAIN s : 1..i \subseteq passing}))
Rest(s, prefix) == SubSeq(s, Len(prefix) + 1, Len(s))

\* A queue is walked up to the first segment that does not begin before s.
InOrder(q, s) ==
  LET before == Prefix(q, {i \in DOMAIN q : Lt(q[i].seq, s.seq)})
  IN before \o <<s>> \o Rest(q, before)

\* The segments of "new", put one after the other into q
AllInOrder(q, new) ==
  LET upto[i \in 0..Len(new)] == IF i = 0 THEN q ELSE InOrder(upto[i - 1], new[i])
  IN upto[Len(new)]

-----------------------------------------------------------------------------
Init ==
  /\ \E st \in {"ESTABLISHED", "CLOSE_WAIT"} :
       snd = [state |-> st, unacked |-> <<>>, unsent |-> <<>>, lastack |-> Iss,
              nxt |-> Iss, lbb |-> Iss, wnd |-> TCP_WND, wl2 |-> Iss,
              cwnd |-> 2 * MSS, ssthresh |-> TCP_WND, buf |-> TCP_SND_BUF,
              timer |-> FALSE, persist |-> FALSE, dupacks |-> 0, infr |-> FALSE,
              fin |-> FALSE]
  /\ rcv = [state |-> "ESTABLISHED", nxt |-> Iss, wnd |-> TCP_WND, annwnd |-> TCP_WND,
            edge |-> Plus(Iss, TCP_WND), ooseq |-> <<>>, refused |-> <<>>,
            refusedFin |-> FALSE, flags |-> {}]
  /\ net = [data |-> <<>>, acks |-> <<>>]
  /\ app = [written |-> 0, out |-> <<>>, unread |-> 0, ended |-> FALSE]
  /\ left = [faults |-> MaxFaults, refused |-> MaxRefused]

-----------------------------------------------------------------------------
(* tcp_output                                                              *)

\* tcp_do_output_nagle, when the segments before the i-th have been sent
Nagle(p, i) ==
  \/ p.unacked = <<>> /\ i = 1
  \/ p.infr
  \/ i < Len(p.unsent) \/ p.unsent[i].len >= MSS
  \/ p.buf = 0

Sendable(p) ==
  LET Fits(i) == /\ Minus(Plus(p.unsent[i].seq, p.unsent[i].len), p.lastack)
                      <= Smaller(p.wnd, p.cwnd)
                 /\ Nagle(p, i) \/ p.fin
  IN Prefix(p.unsent, {i \in DOMAIN p.unsent : Fits(i)})

Output(p) ==
  LET now == Sendable(p)
      end == End(Last(now))
  IN IF now = <<>> THEN p
     ELSE [p EXCEPT !.unsent = Rest(@, now),
                    !.unacked = AllInOrder(@, now),
                    !.nxt = IF Lt(@, end) THEN end ELSE @,
                    !.timer = TRUE]

\* The end of a handler at the sending end.
Sends(p, n) ==
  LET now == Sendable(p)
  IN /\ snd' = Output(p)
     /\ net' = SendData(n, [i \in DOMAIN now |-> SegMsg(now[i])])

-----------------------------------------------------------------------------
(* The sending application: tcp_write and tcp_close                        *)

\* Segments of at most m bytes for the bytes "first" to "last".
Segments(s, first, last, m) ==
  LET From(i) == first + m * (i - 1)
      Part(i) == [j \in 1..Smaller(m, last - From(i) + 1) |-> From(i) + j - 1]
  IN [i \in 1..((last - first + m) \div m) |-> Seg(Plus(s, m * (i - 1)), Part(i), FALSE)]

\* n bytes from "first" on are added to a segment.
Longer(t, first, n) ==
  [t EXCEPT !.len = @ + n, !.data = @ \o [i \in 1..n |-> first + i - 1]]

\* tcp_write of the next n bytes
Enqueued(p, n) ==
  LET m == Smaller(MSS, TCP_WND \div 2)            \* snd_wnd_max is TCP_WND
      from == app.written + 1
      tail == Last(p.unsent)
      space == IF p.unsent = <<>> THEN 0 ELSE Smaller(m - tail.len, n)
      grown == IF space = 0 THEN p.unsent
               ELSE Append(Front(p.unsent), Longer(tail, from, space))
  IN [p EXCEPT !.unsent = grown \o Segments(Plus(p.lbb, space), from + space,
                                            app.written + n, m),
               !.lbb = Plus(@, n), !.buf = @ - n]

Write ==
  \E n \in 1..Smaller(Bytes - app.written, snd.buf) :
    LET p == Enqueued(snd, n)
    IN /\ snd.state \in {"ESTABLISHED", "CLOSE_WAIT"}
       /\ app' = [app EXCEPT !.written = @ + n]
       /\ IF Nagle(p, 1) THEN Sends(p, net) ELSE snd' = p /\ UNCHANGED net
       /\ UNCHANGED <<rcv, left>>

\* tcp_send_fin: the FIN joins the last segment, which bumps neither snd_lbb nor
\* takes from snd_buf, or has a segment of its own.
Finished(p) ==
  IF p.unsent # <<>>
  THEN [p EXCEPT !.unsent = Append(Front(@), [Last(@) EXCEPT !.fin = TRUE]), !.fin = TRUE]
  ELSE [p EXCEPT !.unsent = <<Seg(p.lbb, <<>>, TRUE)>>, !.fin = TRUE,
                 !.lbb = Plus(@, 1), !.buf = @ - 1]

Close ==
  /\ snd.state \in {"ESTABLISHED", "CLOSE_WAIT"}
  /\ snd.unsent # <<>> \/ snd.buf > 0          \* otherwise ERR_MEM, and a later try
  /\ Sends([Finished(snd) EXCEPT !.state = IF @ = "ESTABLISHED" THEN "FIN_WAIT_1"
                                           ELSE "LAST_ACK"], net)
  /\ UNCHANGED <<rcv, app, left>>

-----------------------------------------------------------------------------
(* tcp_receive and tcp_process: an ACK at the sending end                  *)

\* A bug: a window that closes does not start the persist timer.
WindowNoPersist(p, a) ==
  IF Lt(p.wl2, a.ack) \/ (p.wl2 = a.ack /\ a.wnd > p.wnd)
  THEN [p EXCEPT !.wnd = a.wnd, !.wl2 = a.ack] ELSE p

\* The window that the ACK announces, and the persist timer with it.
Window(p, a) ==
  IF Lt(p.wl2, a.ack) \/ (p.wl2 = a.ack /\ a.wnd > p.wnd)
  THEN [p EXCEPT !.wnd = a.wnd, !.wl2 = a.ack, !.persist = a.wnd = 0]
  ELSE p

\* An addition to the congestion window that does not overflow it.
Grow(c, n) == Larger(c, (c + n) % WndWidth)

\* A bug: the segment is sent again and kept for the timer, too.
FastRexmitKeeps(p) ==
  IF p.unacked = <<>> \/ p.infr THEN p
  ELSE [p EXCEPT !.unsent = InOrder(@, Head(p.unacked)), !.infr = TRUE]

FastRexmit(p) ==
  LET half == Larger(Smaller(p.cwnd, p.wnd) \div 2, 2 * MSS)
  IN IF p.unacked = <<>> \/ p.infr THEN p
     ELSE [p EXCEPT !.unacked = Tail(@), !.unsent = InOrder(@, Head(p.unacked)),
                    !.ssthresh = half, !.cwnd = half + 3 * MSS, !.infr = TRUE]

\* old: the pcb before the window was updated
IsDuplicate(old, p, a) ==
  /\ Plus(p.wl2, p.wnd) = Plus(old.wl2, old.wnd)
  /\ p.timer
  /\ p.lastack = a.ack

Duplicate(p) ==
  LET q == [p EXCEPT !.dupacks = Smaller(@ + 1, 4)]      \* only > 3 matters
  IN IF q.dupacks > 3 THEN [q EXCEPT !.cwnd = Grow(@, MSS)]
     ELSE IF q.dupacks = 3 THEN FastRexmit(q) ELSE q

NewAck(p, a) ==
  LET c == IF p.infr THEN p.ssthresh ELSE p.cwnd
      acked == {i \in DOMAIN p.unacked : Leq(End(p.unacked[i]), a.ack)}
      q == [p EXCEPT !.unacked = Rest(@, Prefix(@, acked))]
  IN [q EXCEPT !.infr = FALSE,
               !.cwnd = Grow(c, IF c < p.ssthresh THEN MSS ELSE (MSS * MSS) \div c),
               !.buf = @ + Minus(a.ack, p.lastack),
               !.dupacks = 0, !.lastack = a.ack,
               !.timer = q.unacked # <<>>]

\* What is put back for retransmission may have been acknowledged since.
DropUnsent(p, a) ==
  LET acked == {i \in DOMAIN p.unsent : Between(a.ack, End(p.unsent[i]), p.nxt)}
  IN [p EXCEPT !.unsent = Rest(@, Prefix(@, acked))]

Acknowledged(old, a) ==
  LET p == Window(old, a)
      q == IF Leq(a.ack, p.lastack)
           THEN IF IsDuplicate(old, p, a) THEN Duplicate(p) ELSE [p EXCEPT !.dupacks = 0]
           ELSE IF Between(a.ack, Plus(p.lastack, 1), p.nxt) THEN NewAck(p, a) ELSE p
  IN DropUnsent(q, a)

\* tcp_process compares the ACK with snd_nxt alone; on TF_CLOSED tcp_input frees the pcb.
NextState(st, all) ==
  CASE st = "FIN_WAIT_1" /\ all -> "FIN_WAIT_2"
    [] st = "LAST_ACK" /\ all -> "CLOSED"
    [] OTHER -> st

AckIn ==
  \E i \in DOMAIN net.acks :
    LET m == net.acks[i]
        p == Acknowledged(snd, m)
        q == [p EXCEPT !.state = NextState(@, m.ack = p.nxt)]
        n == [net EXCEPT !.acks = RemoveAt(@, i)]
    IN /\ CanOvertake(i)
       /\ IF snd.state = "CLOSED"                      \* no pcb: tcp_rst
          THEN net' = SendData(n, <<RstMsg(m.ack)>>) /\ UNCHANGED snd
          ELSE IF q.state = "CLOSED" THEN snd' = q /\ net' = n
          ELSE Sends(q, n)
       /\ left' = Overtaking(i)
       /\ UNCHANGED <<rcv, app>>

-----------------------------------------------------------------------------
(* tcp_slowtmr at the sending end                                          *)

Quiet == net.data = <<>> /\ net.acks = <<>> /\ rcv.flags = {}

\* tcp_rexmit_rto, after the congestion window was cut to one segment
Rexmit ==
  /\ snd.state # "CLOSED" /\ ~snd.persist /\ snd.timer /\ snd.unacked # <<>>
  /\ Sends([snd EXCEPT !.ssthresh = Larger(Smaller(snd.cwnd, snd.wnd) \div 2, 2 * MSS),
                       !.cwnd = MSS,
                       !.unsent = snd.unacked \o @, !.unacked = <<>>], net)
  /\ Quiet \/ left.faults > 0
  /\ left' = IF Quiet THEN left ELSE [left EXCEPT !.faults = @ - 1]
  /\ UNCHANGED <<rcv, app>>

\* tcp_zero_window_probe; bound: not while the answer to another is on its way
Probe ==
  LET queue == snd.unacked \o snd.unsent
      s == Head(queue)
  IN /\ snd.state # "CLOSED" /\ snd.persist /\ queue # <<>> /\ Quiet
     /\ net' = SendData(net, <<SegMsg(IF s.len = 0 THEN s
                                       ELSE Seg(s.seq, <<Head(s.data)>>, FALSE))>>)
     /\ UNCHANGED <<snd, rcv, app, left>>

\* The poll timer of the pcb calls tcp_output as well, and finds nothing: each
\* handler has left nothing that could be sent.
\* 20 s in FIN_WAIT_2 after tcp_close: the pcb is freed.
FinWaitTimeout ==
  /\ snd.state = "FIN_WAIT_2"
  /\ snd' = [snd EXCEPT !.state = "CLOSED"]
  /\ UNCHANGED <<rcv, net, app, left>>

-----------------------------------------------------------------------------
(* The receiving end.  A handler works on [p: its pcb, tx: what it sends,  *)
(* app: the application, can: buffers the mailbox may still refuse].       *)

SendAck(r) ==
  [r EXCEPT !.p.flags = {}, !.p.edge = Plus(r.p.nxt, r.p.annwnd),
            !.tx = Append(@, AckMsg(r.p.nxt, r.p.annwnd))]

AckNow(r) == [r EXCEPT !.p.flags = @ \cup {"NOW"}]

\* The macro tcp_ack: every second one at once.
Ack(r) == [r EXCEPT !.p.flags = IF "DELAY" \in @ THEN (@ \ {"DELAY"}) \cup {"NOW"}
                                ELSE @ \cup {"DELAY"}]

OutputAck(r) == IF "NOW" \in r.p.flags THEN SendAck(r) ELSE r

\* tcp_update_rcv_ann_wnd: the right edge moves by a segment or not at all.
Announces(p) == Leq(Plus(p.edge, Smaller(TCP_WND \div 2, MSS)), Plus(p.nxt, p.wnd))
\* A bug: no window is announced until it can grow by a segment.
UpdateAnnWndSilly(p) == [p EXCEPT !.annwnd = IF Announces(p) THEN p.wnd ELSE 0]

UpdateAnnWnd(p) ==
  [p EXCEPT !.annwnd = IF Announces(p) THEN p.wnd
                       ELSE IF Lt(p.edge, p.nxt) THEN 0 ELSE Minus(p.edge, p.nxt)]

\* tcp_oos_insert_segment: s before the segments "next"
OosInsert(s, next) ==
  LET end == Plus(s.seq, s.len)
      covered == {i \in DOMAIN next : Leq(Plus(next[i].seq, next[i].len), end)}
      gone == Prefix(next, covered)
      rest == Rest(next, gone)
      whole == [s EXCEPT !.fin = \E t \in ToSet(gone) : t.fin]
  IN IF s.fin THEN <<s>>
     ELSE <<IF rest # <<>> /\ Lt(Head(rest).seq, end)
            THEN Cut(whole, Minus(Head(rest).seq, s.seq)) ELSE whole>> \o rest

\* The last segment of the queue ends where s begins, if not before.
Ending(q, s) ==
  LET t == Last(q)
  IN IF q # <<>> /\ Lt(s.seq, Plus(t.seq, t.len))
     THEN Append(Front(q), Cut(t, Minus(s.seq, t.seq))) ELSE q

\* The test of the right edge is on plain numbers, and not on sequence numbers.
Overruns(p, s) == Plus(s.seq, TcpLen(s)) > Plus(p.nxt, p.wnd)
InWindow(p, s) ==
  IF Overruns(p, s)
  THEN Cut([s EXCEPT !.fin = FALSE], Minus(Plus(p.nxt, p.wnd), s.seq) % WndWidth)
  ELSE s

OutOfSequence(p, s) ==
  LET q == p.ooseq
      n == Len(q)
      same == {i \in 1..n : q[i].seq = s.seq}
      before == {i \in 1..n : Lt(s.seq, q[i].seq)}
      i == IF same # {} THEN CHOOSE k \in same : TRUE
           ELSE IF before # {} THEN Min(before) ELSE n + 1
  IN IF n = 0 THEN <<s>>
     ELSE IF same # {}
     THEN IF s.len > q[i].len
          THEN SubSeq(q, 1, i - 1) \o OosInsert(s, SubSeq(q, i, n)) ELSE q
     ELSE IF before # {}
     THEN Ending(SubSeq(q, 1, i - 1), s) \o OosInsert(s, SubSeq(q, i, n))
     ELSE IF Last(q).fin THEN q
     ELSE Append(Ending(q, s), InWindow(p, s))

\* s is next in sequence: trimmed to the window and to what is queued behind it.
Trimmed(p, s) ==
  LET t == IF TcpLen(s) > p.wnd THEN Cut([s EXCEPT !.fin = FALSE], p.wnd) ELSE s
      covered == {i \in DOMAIN p.ooseq : Leq(Plus(p.ooseq[i].seq, p.ooseq[i].len), End(t))}
      gone == Prefix(p.ooseq, covered)
      rest == Rest(p.ooseq, gone)
      whole == [t EXCEPT !.fin = \E u \in ToSet(gone) : u.fin]
  IN IF t.fin THEN [seg |-> t, ooseq |-> <<>>]
     ELSE [seg |-> IF rest # <<>> /\ Lt(Head(rest).seq, End(whole))
                   THEN Cut(whole, Minus(Head(rest).seq, s.seq)) ELSE whole,
           ooseq |-> rest]

\* What of the queue is in sequence behind s.
Following(s, ooseq) ==
  Prefix(ooseq, {i \in DOMAIN ooseq : ooseq[i].seq = End(IF i = 1 THEN s ELSE ooseq[i - 1])})

\* The sequence numbers that the segments of "all" take together, and their data
Joined(all) ==
  LET upto[i \in 0..Len(all)] ==
        IF i = 0 THEN [len |-> 0, data |-> <<>>]
        ELSE [len |-> upto[i - 1].len + TcpLen(all[i]),
              data |-> upto[i - 1].data \o all[i].data]
  IN upto[Len(all)]

InSequence(p, s) ==
  LET t == Trimmed(p, s)
      all == <<t.seg>> \o Following(t.seg, t.ooseq)
      got == Joined(all)
  IN [p |-> UpdateAnnWnd([p EXCEPT !.nxt = Plus(@, got.len), !.wnd = (@ - got.len) % WndWidth,
                                   !.ooseq = Rest(t.ooseq, Tail(all))]),
      data |-> got.data,
      fin |-> \E u \in ToSet(all) : u.fin]

\* A bug: a segment that begins before rcv_nxt is taken as a whole.
FirstEdgeKept(p, s) ==
  IF Between(p.nxt, Plus(s.seq, 1), Plus(s.seq, TcpLen(s) - 1))
  THEN [s EXCEPT !.seq = p.nxt] ELSE s

\* The first edge: what was received before is cut off.
FirstEdge(p, s) ==
  LET off == Minus(p.nxt, s.seq)
  IN IF Between(p.nxt, Plus(s.seq, 1), Plus(s.seq, TcpLen(s) - 1))
     THEN [s EXCEPT !.seq = p.nxt, !.len = @ - off, !.data = SubSeq(@, off + 1, s.len)]
     ELSE s

\* The end of the stream is handed over; nobody calls tcp_recved for the FIN.
Ended(r) ==
  [r EXCEPT !.p.wnd = IF @ # TCP_WND THEN (@ + 1) % WndWidth ELSE @, !.app.ended = TRUE]

\* The recv callback, which takes the bytes or refuses them.
Takes(r, data) ==
  [r EXCEPT !.app.out = @ \o data, !.app.unread = @ + Len(data)]

\* A bug: what the callback refuses is freed, and a FIN with it handed over.
UpwardDrops(r, data, fin, refuse) ==
  IF data # <<>> /\ refuse THEN [r EXCEPT !.can = @ - 1]
  ELSE LET t == Takes(r, data) IN IF fin THEN Ended(t) ELSE t

Upward(r, data, fin, refuse) ==
  IF data # <<>> /\ refuse
  THEN [r EXCEPT !.p.refused = data, !.p.refusedFin = fin, !.can = @ - 1]
  ELSE LET t == Takes(r, data) IN IF fin THEN Ended(t) ELSE t

Inside(p, seq) == Between(seq, p.nxt, Plus(p.nxt, p.wnd - 1))

\* tcp_receive and tcp_process of a segment with data or a FIN
Receive(r, m, refuse) ==
  LET p == r.p
      s == FirstEdge(p, Seg(m.seq, m.data, m.fin))
      got == InSequence(p, s)
      next == Ack([r EXCEPT !.p = got.p])
      ended == AckNow([next EXCEPT !.p.state = "CLOSE_WAIT"])
  IN IF p.state # "ESTABLISHED" THEN IF Inside(p, m.seq) THEN r ELSE AckNow(r)
     ELSE IF ~Inside(p, s.seq) THEN SendAck(r)
     ELSE IF s.seq # p.nxt THEN [SendAck(r) EXCEPT !.p.ooseq = OutOfSequence(p, s)]
     ELSE Upward(IF got.fin THEN ended ELSE next, got.data, got.fin, refuse)

\* tcp_process_refused_data
Again(r, refuse) ==
  IF r.p.refused = <<>> THEN r
  ELSE Upward([r EXCEPT !.p.refused = <<>>, !.p.refusedFin = FALSE],
              r.p.refused, r.p.refusedFin, refuse)

Handler == [p |-> rcv, tx |-> <<>>, app |-> app, can |-> left.refused]

\* The end of a handler at the receiving end.
Commit(r, n, bounds) ==
  /\ r.can >= 0
  /\ rcv' = r.p /\ app' = r.app /\ net' = SendAcks(n, r.tx)
  /\ left' = [bounds EXCEPT !.refused = r.can]
  /\ UNCHANGED snd

\* tcp_input: data that is still refused keeps out the segments behind it.
Input(r, m, refuse) ==
  IF r.p.refused # <<>> THEN r ELSE OutputAck(Receive(r, m, refuse))

\* A reset frees the pcb, and what is queued in it.
ResetIn(r, m) ==
  IF Between(m.seq, r.p.nxt, Plus(r.p.nxt, r.p.wnd))
  THEN [r EXCEPT !.p.state = "RESET", !.p.flags = {}, !.p.ooseq = <<>>,
                 !.p.refused = <<>>, !.p.refusedFin = FALSE]
  ELSE OutputAck(r)

\* A segment for a pcb that is gone is answered with a reset, to nobody.
SegIn ==
  \E i \in DOMAIN net.data, again, refuse \in BOOLEAN :
    LET m == net.data[i]
        n == [net EXCEPT !.data = RemoveAt(@, i)]
        r == Again(Handler, again)
    IN /\ CanOvertake(i)
       /\ again => rcv.refused # <<>>
       /\ Commit(IF rcv.state = "RESET" THEN Handler
                 ELSE IF m.kind = "rst" THEN ResetIn(r, m) ELSE Input(r, m, refuse),
                 n, Overtaking(i))

\* tcp_fasttmr
FastTmr ==
  \E again \in BOOLEAN :
    /\ rcv.state # "RESET"
    /\ "DELAY" \in rcv.flags \/ (rcv.refused # <<>> /\ ~again)
    /\ again => rcv.refused # <<>>
    /\ LET r == IF "DELAY" \in rcv.flags THEN SendAck(Handler) ELSE Handler
       IN Commit(Again(r, again), net, left)

\* tcp_recved, when the application has read n bytes
Recved ==
  \E n \in 1..app.unread :
    LET p == [rcv EXCEPT !.wnd = Smaller((@ + n) % WndWidth, TCP_WND)]
        more == IF Announces(p) THEN Minus(Plus(p.nxt, p.wnd), p.edge) ELSE 0
        r == [Handler EXCEPT !.p = UpdateAnnWnd(p), !.app.unread = @ - n]
    IN /\ rcv.state # "RESET"
       /\ Commit(IF more >= TCP_WND \div 4 THEN OutputAck(AckNow(r)) ELSE r, net, left)

-----------------------------------------------------------------------------
(* The network                                                             *)

Lose ==
  /\ left.faults > 0
  /\ \/ \E i \in DOMAIN net.data : net' = [net EXCEPT !.data = RemoveAt(@, i)]
     \/ \E i \in DOMAIN net.acks : net' = [net EXCEPT !.acks = RemoveAt(@, i)]
  /\ left' = [left EXCEPT !.faults = @ - 1]
  /\ UNCHANGED <<snd, rcv, app>>

Repeat ==
  /\ left.faults > 0
  /\ \/ \E m \in ToSet(net.data) : net' = SendData(net, <<m>>)
     \/ \E m \in ToSet(net.acks) : net' = SendAcks(net, <<m>>)
  /\ left' = [left EXCEPT !.faults = @ - 1]
  /\ UNCHANGED <<snd, rcv, app>>

Timers == Rexmit \/ Probe \/ FinWaitTimeout \/ FastTmr
Next == Write \/ Close \/ Recved \/ Timers
          \/ AckIn \/ SegIn \/ Lose \/ Repeat

Spec == Init /\ [][Next]_vars

-----------------------------------------------------------------------------
(* Fairness: the timers run, what was sent comes in unless it is lost, and *)
(* the applications read and close.  Writing is up to the application.     *)
(* These are the formulas WF_vars(Close), WF_vars(Recved) and so on with   *)
(* what enables each action in place of ENABLED, which TLC evaluates       *)
(* slowly for actions built from such definitions.                         *)

CanClose == /\ snd.state \in {"ESTABLISHED", "CLOSE_WAIT"}
            /\ snd.unsent # <<>> \/ snd.buf > 0
CanRecved == rcv.state # "RESET" /\ app.unread > 0
CanRexmit == /\ snd.state # "CLOSED" /\ ~snd.persist /\ snd.timer /\ snd.unacked # <<>>
             /\ Quiet
CanProbe == /\ snd.state # "CLOSED" /\ snd.persist /\ snd.unacked \o snd.unsent # <<>>
            /\ Quiet
CanFastTmr == rcv.state # "RESET" /\ ("DELAY" \in rcv.flags \/ rcv.refused # <<>>)

Fairness ==
  /\ []<>(~CanClose) \/ []<><<Close>>_vars
  /\ []<>(~CanRecved) \/ []<><<Recved>>_vars
  /\ []<>(~CanRexmit) \/ []<><<Rexmit>>_vars
  /\ []<>(~CanProbe) \/ []<><<Probe>>_vars
  /\ []<>(~CanFastTmr) \/ []<><<FastTmr>>_vars
  /\ []<>(net.acks = <<>>) \/ []<><<AckIn>>_vars
  /\ []<>(net.data = <<>>) \/ []<><<SegIn>>_vars

FairSpec == Spec /\ Fairness

-----------------------------------------------------------------------------
(* Properties                                                              *)

TypeOK ==
  /\ \A s \in ToSet(snd.unacked) \cup ToSet(snd.unsent) : TcpLen(s) > 0 /\ s.len = Len(s.data)
  /\ snd.cwnd \in 1..(WndWidth - 1) /\ snd.wnd \in 0..(WndWidth - 1)
  /\ rcv.wnd \in 0..(WndWidth - 1) /\ rcv.flags \subseteq {"DELAY", "NOW"}

\* The two queues of the sender, one behind the other, hold every byte from the first
\* one that is not acknowledged, in order, none twice and none left out, whatever the
\* retransmissions move between them (tcp_rexmit, tcp_rexmit_rto, tcp_output).
SendBook ==
  LET q == snd.unacked \o snd.unsent
  IN /\ \A i \in 2..Len(q) : q[i].seq = End(q[i - 1])
     /\ q # <<>> => Leq(q[1].seq, snd.lastack) /\ Lt(snd.lastack, End(q[1]))
     /\ q = <<>> => snd.lastack = snd.nxt

\* The receive window is the room that is left: bytes the application has not
\* read, refused ones among them, take it up, and nothing else does (tcp_receive,
\* tcp_recved, tcp_process_refused_data).
WindowFree ==
  rcv.state = "ESTABLISHED" => rcv.wnd + app.unread + Len(rcv.refused) = TCP_WND

\* The sender keeps to the window that was announced to it, but for the one byte
\* of a zero-window probe (tcp_output, tcp_zero_window_probe).
InsideWindow ==
  rcv.state = "ESTABLISHED" =>
    \A m \in ToSet(net.data) :
      m.kind = "seg" => Leq(Plus(m.seq, Len(m.data)), Plus(rcv.edge, 1))

\* The books of both ends hold at once.
Inv == TypeOK /\ SendBook /\ WindowFree /\ InsideWindow

\* rcv_nxt, which every ACK carries, is the number of the next byte expected: what
\* is acknowledged was handed to the application or is kept for it, and the sender
\* may forget it (tcp_receive, the out-of-sequence queue).
GotFin == rcv.refusedFin \/ app.ended
AcksHeld ==
  rcv.state # "RESET" =>
    rcv.nxt = Plus(Iss, Len(app.out) + Len(rcv.refused) + IF GotFin THEN 1 ELSE 0)

\* The right edge of the window that was announced never moves back: the sender may
\* have used it already (tcp_update_rcv_ann_wnd, tcp_send_empty_ack).
EdgeGrows == [][rcv'.state = "ESTABLISHED" => Leq(rcv.edge, rcv'.edge)]_vars

\* The two ends and the network between them are a byte stream.
Stream == INSTANCE ByteStream
  WITH written <- app.written, closed <- snd.fin, delivered <- app.out,
       ended <- app.ended, reset <- rcv.state = "RESET"
Refines == Stream!Spec

\* The sender waits with nothing on its way and no timer: the window is open, but
\* not wide enough for its next segment.
Stalled == /\ snd.unacked = <<>> /\ snd.unsent # <<>> /\ Sendable(snd) = <<>>
           /\ snd.wnd > 0 /\ ~snd.persist

\* Its pcb was freed before the receiver had everything.
CutOff == snd.state = "CLOSED" /\ ~GotFin

\* Everything written arrives, and the end of the stream behind it, unless the
\* connection is lost, cut off, or stalls for good (tcp_slowtmr, tcp_fasttmr,
\* tcp_zero_window_probe, tcp_rexmit_fast).
AllArrive == <>(app.ended \/ rcv.state = "RESET" \/ CutOff \/ []Stalled)

=============================================================================
