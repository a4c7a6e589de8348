------------------------------ MODULE MCEtharp ------------------------------
(* Instances of Etharp for TLC.                                            *)
EXTENDS Etharp

CONSTANTS h1, h2, h3, m1, m2

=============================================================================
