---------------------------- MODULE MCProxyGates ----------------------------
(* ProxyGates on two requests. *)
EXTENDS ProxyGates, TLC

Symmetric == Permutations(Requests)
=============================================================================
