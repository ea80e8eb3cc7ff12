----------------------------- MODULE MCNodePool -----------------------------
(* Instances of NodePool for TLC.                                          *)
EXTENDS NodePool, TLC

(* Calls are interchangeable, and so are sockets.                          *)
Symmetry == Permutations(Call) \cup Permutations(Sock)
=============================================================================
