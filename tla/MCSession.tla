----------------------------- MODULE MCSession ------------------------------
(* Instances of the session for TLC.                                          *)
EXTENDS Session, TLC
Symmetry == Permutations(Hosts) \cup Permutations(Clients)
=============================================================================
