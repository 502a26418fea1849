----------------------------- MODULE MCRemoteHub -----------------------------
(* TLC instances of RemoteHub. *)
EXTENDS RemoteHub, TLC

CONSTANTS c1, c2

MCClients == {c1, c2}
ClientSymmetry == Permutations(MCClients)
==============================================================================
