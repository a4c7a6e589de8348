------------------------------ MODULE ApiCall ------------------------------
(***************************************************************************)
(* The promise of tcpip_apimsg: a task asks tcpip_thread for an operation  *)
(* and sleeps on op_completed until it is answered.  The calls on one      *)
(* connection follow each other; each is answered once, and only then does *)
(* its caller go on.                                                       *)
(***************************************************************************)
CONSTANT Tasks
VARIABLE call       \* call[t] \in {"none", "asked", "answered"}

Init == call = [t \in Tasks |-> "none"]

Ask(t) == /\ \A u \in Tasks : call[u] = "none"
          /\ call' = [call EXCEPT ![t] = "asked"]

Answer(t) == /\ call[t] = "asked"
             /\ call' = [call EXCEPT ![t] = "answered"]

GoOn(t) == /\ call[t] = "answered"
           /\ call' = [call EXCEPT ![t] = "none"]

Next == \E t \in Tasks : Ask(t) \/ Answer(t) \/ GoOn(t)

Spec == Init /\ [][Next]_call

=============================================================================
