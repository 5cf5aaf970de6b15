----------------------------- MODULE MCDataPath -----------------------------
(* TLC instances of the requests clients send while a bucket moves.  The initial state chooses what
   runs: the migration of a key with its clients, a listing, a DeleteObjects of a spread bucket, or
   a copy between clusters; the others stay where they began. *)
EXTENDS Migration, Listing, SpreadDelete, CrossCopy, TLC

CONSTANT Requests

VARIABLE request

mcVars == <<vars, listVars, deleteVars, copyVars, request>>

\* Three names in turn on the two legs and a prefix on both; a leftover of an earlier move on the
\* leg that does not own it; a bucket on one leg alone.
Some == {[a |-> {1, 2, 4}, b |-> {2, 3}], [a |-> {1, 3, 4}, b |-> {3}], [a |-> {1, 4}, b |-> {}]}
Tables == {<<"a", "a", "b", "a">>}

\* A spread bucket of three legs: x and y are the first leg's and x moves to the second.
ThreeLegs == <<"a", "b", "c">>
LegOf == [x |-> "a", y |-> "a", z |-> "b", w |-> "c"]

\* The source object and what overwrites it, in one part or in two.
SomeLayouts == {<<2, 1>>, <<1, 2>>, <<1, 1>>}

OpSymmetry == Permutations(Ops)

PathInit ==
    /\ request \in Requests
    /\ Init /\ ListInit /\ DeleteInit /\ CopyInit
    /\ request # "migrate" => first = Absent
    /\ request # "list" => /\ kind = "merge" /\ held = CHOOSE h \in Contents : TRUE
    /\ request # "delete" => ~moving /\ situation = "clear"
    /\ request # "copy" => /\ layout = CHOOSE l \in Layouts : TRUE
                           /\ copyOp = "copy" /\ cond = "none" /\ src.primary = 0

PathNext ==
    \/ request = "migrate" /\ Next /\ UNCHANGED <<listVars, deleteVars, copyVars, request>>
    \/ request = "list" /\ ListNext /\ UNCHANGED <<vars, deleteVars, copyVars, request>>
    \/ request = "delete" /\ DeleteNext /\ UNCHANGED <<vars, listVars, copyVars, request>>
    \/ request = "copy" /\ CopyNext /\ UNCHANGED <<vars, listVars, deleteVars, request>>

PathSpec == PathInit /\ [][PathNext]_mcVars
=============================================================================
