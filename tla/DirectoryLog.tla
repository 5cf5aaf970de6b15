--------------------------- MODULE DirectoryLog ---------------------------
(***************************************************************************)
(* What a directory backend promises (directory.Store): the directory is   *)
(* one sequence of versions; every version is the change one writer was    *)
(* asked for, applied to the version before it; a change comes into force  *)
(* at most once; a request answered with success is in force, one answered *)
(* with a refusal is not and never will be.                                *)
(***************************************************************************)
EXTENDS DirectoryContent

Commit(n) ==
    /\ req[n].ask # NoAsk /\ ~req[n].done
    /\ ~Refused(Newest, req[n].ask) /\ ~Unchanged(Newest, req[n].ask)
    /\ \E id \in Nodes : log' = Append(log, Changed(Newest, req[n].ask, id))
    /\ req' = Requests(n, [req[n] EXCEPT !.done = TRUE])

\* The change behind an "unknown" answer comes into force after the answer.
CommitLate(n) ==
    /\ req[n].late # NoAsk
    /\ ~Refused(Newest, req[n].late) /\ ~Unchanged(Newest, req[n].late)
    /\ \E id \in Nodes : log' = Append(log, Changed(Newest, req[n].late, id))
    /\ req' = Requests(n, [req[n] EXCEPT !.late = NoAsk])

\* ... or is lost for good.
Lose(n) == req' = Requests(n, [req[n] EXCEPT !.late = NoAsk]) /\ UNCHANGED log

Receive(n) ==
    /\ req'[n].ask \in AllAsks /\ Ask(n, req'[n].ask)
    /\ UNCHANGED log

\* "unchanged" is the success of a change that some version of the directory already shows.
Reply(n) ==
    /\ req[n].ask # NoAsk
    /\ \/ Answer(n, "ok") /\ req[n].done
       \/ Answer(n, "unchanged") /\ ~req[n].done /\ \E v \in Versions : Unchanged(At(v), req[n].ask)
       \/ Answer(n, "refused") /\ ~req[n].done
       \/ Answer(n, "unknown")
       \/ AnswerOpen(n) /\ ~req[n].done
    /\ UNCHANGED log

\* A writer that stops loses its request, not the versions it made nor what it has sent.
Stop(n) ==
    /\ \E late \in {req[n].late} \cup (IF req[n].late = NoAsk /\ ~req[n].done THEN {req[n].ask} ELSE {}) :
           req' = Requests(n, [NoReq EXCEPT !.late = late])
    /\ UNCHANGED log

Next == \E n \in Nodes :
    Commit(n) \/ CommitLate(n) \/ Lose(n) \/ Receive(n) \/ Reply(n) \/ Stop(n)

Spec == ContentInit /\ [][Next]_<<log, req>>
=============================================================================
