--------------------------- MODULE MCSimpleSocket ---------------------------
(* Instances of SimpleSocket for TLC.                                      *)
EXTENDS SimpleSocket, TLC

Symmetry == Permutations(Closers)

=============================================================================
