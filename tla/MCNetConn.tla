----------------------------- MODULE MCNetConn -----------------------------
(* Instances of NetConn for TLC: t1 and t2 are model values.               *)
EXTENDS NetConn
CONSTANTS t1, t2

=============================================================================
