---------------------------- MODULE MCDrainBarrier ----------------------------
(* Instances of DrainBarrier for TLC. *)
EXTENDS DrainBarrier, TLC

\* Proxies are interchangeable.
Symmetric == Permutations(Proxies)
=============================================================================
