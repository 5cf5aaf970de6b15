---------------------------- MODULE MCPlacements ----------------------------
(* Placements on two clusters of two leg ids each, two bucket names, a hash space of four points   *)
(* and one or two nested prefixes.  The steps asked for: whole-bucket steps with and without a     *)
(* target and name, ramps by ratio and by prefix, moves by range, by leg, by scope and by share.   *)
EXTENDS Placements

CONSTANTS MaxShare,        \* the shares of a plain bucket asked for: halves
          PartOfRename     \* a step to the same cluster may name part of the bucket

MCLegIds == ("A" :> <<"A", "A-2">>) @@ ("B" :> <<"B", "B-2">>)
MCLegOrder == <<"A", "A-2", "B", "B-2">>
MCTaken == {<<"B", "y">>}

Tos == {[Step EXCEPT !.to = "MIGRATING"], [Step EXCEPT !.pres = {1}], [Step EXCEPT !.ratio = 1],
        [Step EXCEPT !.ratio = 2]}
Where == {[target |-> None, name |-> None], [target |-> "A", name |-> "y"],
          [target |-> "B", name |-> None]}
What == {[ranged |-> FALSE, range |-> FullRange, leg |-> None, scope |-> 0, share |-> 0],
         [ranged |-> TRUE, range |-> Span(1, 2), leg |-> None, scope |-> 0, share |-> 0],
         [ranged |-> FALSE, range |-> FullRange, leg |-> "A", scope |-> 0, share |-> 1],
         [ranged |-> FALSE, range |-> FullRange, leg |-> None, scope |-> 1, share |-> 0]}
        \cup {[ranged |-> FALSE, range |-> FullRange, leg |-> None, scope |-> 0, share |-> s] : s \in 1 .. MaxShare}
Asks == {wq \in Where \X What : PartOfRename \/ wq[1].target # "A" \/ (~wq[2].ranged /\ wq[2].share = 0)}
MCRequests ==
    {[t EXCEPT !.target = a[1].target, !.name = a[1].name, !.ranged = a[2].ranged, !.range = a[2].range,
               !.leg = a[2].leg, !.scope = a[2].scope, !.share = a[2].share] :
        t \in Tos, a \in Asks}
=============================================================================
