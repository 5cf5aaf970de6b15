----------------------------- MODULE MCWorkers ------------------------------
(* Workers for TLC: two runs of the mover, so that one can still be        *)
(* copying, or its heartbeats on their way, when the next one starts.      *)
EXTENDS Workers, TLC

CONSTANTS m1, m2

(* The first renews its lease once, the second only enrolls.               *)
Beats == (m1 :> 2) @@ (m2 :> 1)

=============================================================================
