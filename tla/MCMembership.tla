---------------------------- MODULE MCMembership ----------------------------
(* Membership for TLC: two control nodes and one host that joins them, so  *)
(* that an owner can be lost and replaced and either node be removed.      *)
EXTENDS Membership

=============================================================================
