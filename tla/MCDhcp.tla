------------------------------- MODULE MCDhcp -------------------------------
(* Instances of Dhcp for TLC.                                              *)
EXTENDS Dhcp

CONSTANT a1

\* What the servers grant: rebinding starts after the renewal.
OneLease == {[t1 |-> 1, t2 |-> 2]}

=============================================================================
