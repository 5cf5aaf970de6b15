------------------------- MODULE MCOperationRecords -------------------------
(* Instances of OperationRecords for TLC: a placement whose bucket is on one cluster. *)
EXTENDS OperationRecords, TLC

\* A ramp and an adopt of the placement, and the removal of its cluster.
MCScope == [o \in {"ramp", "adopt", "remove"} |-> IF o = "remove" THEN "cluster" ELSE "placement"]
MCClusters == [o \in {"ramp", "adopt", "remove"} |-> IF o = "remove" THEN {} ELSE {"cluster"}]
MCKey == [o \in {"ramp", "adopt", "remove"} |-> o]
NodeSymmetry == Permutations(Nodes)
=============================================================================
