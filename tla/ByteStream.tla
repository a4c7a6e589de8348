----------------------------- MODULE ByteStream -----------------------------
(***************************************************************************)
(* What one direction of a TCP connection promises: the receiving          *)
(* application is given what the sending one wrote, in order, each byte    *)
(* once, and the end of the stream only behind the last byte.  Either end  *)
(* may lose the connection, and nothing is given after that.  The byte at  *)
(* a position of the stream is represented by the position.                *)
(***************************************************************************)
EXTENDS Integers, Sequences

VARIABLES written,    \* bytes the sending application has written
          closed,     \* it has closed its end
          delivered,  \* bytes given to the receiving application
          ended,      \* it was told that the stream is at its end
          reset       \* it was told that the connection is lost

streamVars == <<written, closed, delivered, ended, reset>>

Init == written = 0 /\ closed = FALSE /\ delivered = <<>> /\ ended = FALSE /\ reset = FALSE

Write == /\ ~closed
         /\ written' \in Nat /\ written' > written
         /\ UNCHANGED <<closed, delivered, ended, reset>>

Close == /\ ~closed
         /\ closed' = TRUE
         /\ UNCHANGED <<written, delivered, ended, reset>>

Given(n) == [i \in 1..n |-> i]

\* Bytes are given, or the end is, or both at once: the last bytes and their end.
\* A reset that finds bytes kept back hands them over before it takes effect.
Deliver == /\ ~ended /\ ~reset
           /\ Len(delivered') \in Len(delivered)..written
           /\ delivered' = Given(Len(delivered'))
           /\ ended' \in BOOLEAN
           /\ ended' => closed /\ Len(delivered') = written
           /\ reset' \in BOOLEAN
           /\ UNCHANGED <<written, closed>>

Reset == /\ reset' = TRUE
         /\ UNCHANGED <<written, closed, delivered, ended>>

Next == Write \/ Close \/ Deliver \/ Reset

Spec == Init /\ [][Next]_streamVars

=============================================================================
