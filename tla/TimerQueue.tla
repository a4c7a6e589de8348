----------------------------- MODULE TimerQueue -----------------------------
(***************************************************************************)
(* What the timer list of timers.c promises to tcpip_thread: each armed    *)
(* timer has the time it has yet to wait, the timers expire in the order   *)
(* of these times, and those that expire together in the order in which    *)
(* they were armed.  The list of the code keeps differences only; Timeouts *)
(* is shown to implement this specification.                               *)
(***************************************************************************)
EXTENDS Integers, Sequences, SequencesExt

CONSTANTS Handlers,     \* the callback functions
          MaxDelay      \* bound: no timer is armed for longer

VARIABLE queue          \* [h |-> callback, due |-> time yet to wait], in order

Waits == 1..MaxDelay

Init == queue = <<>>

Later(d) == [i \in DOMAIN queue |-> [queue[i] EXCEPT !.due = @ - d]]

\* A timer is armed: behind the timers that expire no later than it does.
Arm(h, ms) ==
  \E p \in 0..Len(queue) :
     /\ \A i \in 1..p : queue[i].due <= ms
     /\ \A i \in (p + 1)..Len(queue) : queue[i].due > ms
     /\ queue' = InsertAt(queue, p + 1, [h |-> h, due |-> ms])

\* A timer is cancelled: the first of its callback.
Cancel(h) ==
  \E p \in DOMAIN queue :
     /\ queue[p].h = h
     /\ \A i \in 1..(p - 1) : queue[i].h # h
     /\ queue' = RemoveAt(queue, p)

\* Time was waited, no more than the first timer has yet to wait.
Elapse ==
  /\ queue # <<>>
  /\ \E d \in 1..Head(queue).due : queue' = Later(d)

\* The first timer expires; what it had to wait, every timer has waited.
Expire ==
  /\ queue # <<>>
  /\ queue' = Tail(Later(Head(queue).due))

Next == \/ Elapse \/ Expire
        \/ \E h \in Handlers : Cancel(h) \/ \E ms \in Waits : Arm(h, ms)

Spec == Init /\ [][Next]_queue
=============================================================================
