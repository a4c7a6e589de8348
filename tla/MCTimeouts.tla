----------------------------- MODULE MCTimeouts -----------------------------
(* Instances of Timeouts for TLC: one cyclic timer of the stack besides    *)
(* those of the interface and of TCP; the proportions of the intervals are *)
(* kept as far as small numbers can.                                       *)
EXTENDS Timeouts

MCBoot == <<"dns">>
MCPeriod == [h \in {"dns", "eth", "tcp"} |->
               CASE h = "dns" -> 2 [] h = "eth" -> 3 [] h = "tcp" -> 1]

=============================================================================
