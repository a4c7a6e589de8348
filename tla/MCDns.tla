------------------------------- MODULE MCDns -------------------------------
(* Two names, neither of which begins with the labels of the other.         *)
EXTENDS Dns

CONSTANTS t1, t2

UnlikeNames == {<<"a">>, <<"b">>}
=============================================================================
