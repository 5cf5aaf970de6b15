---------------------------- MODULE Incarnations ----------------------------
(***************************************************************************)
(* The processes of one proxy and the evidence of how each ended.  A       *)
(* process writes a marker beside its cache before it serves; the next one *)
(* reads it and tells the control plane, which keeps a member record.  A   *)
(* process that ended with backend outcomes it never learned must stay on  *)
(* record until an operator resolves it: every barrier waits on it.        *)
(*                                                                         *)
(*   internal/member/incarnation.go   the marker, retirement               *)
(*   internal/cp/fleet.go             the member record                    *)
(*                                                                         *)
(* Answers are lost, heartbeats and retirements arrive late and out of     *)
(* order, the control plane is out of reach, a write of the marker fails.  *)
(* Incarnations are numbered in the order they start.                      *)
(***************************************************************************)
EXTENDS Integers, Sequences, FiniteSets, SequencesExt

CONSTANTS
    MaxIncarnations,    \* bound on the processes
    MaxUnresolved,      \* MaxUnresolvedIncarnations; also what one heartbeat carries
    MaxPredecessors,    \* what a marker keeps
    MaxResolvedKept,    \* the resolutions a member record keeps
    MaxPosts            \* bound on the messages on their way

VARIABLES
    marker,     \* the marker file: the process that wrote it, its state, its predecessors
    process,    \* the running process, pc "down" between two
    ended,      \* how each process really ended
    member,     \* the member record
    forgotten,  \* the incarnations the last forget proved ended
    posts       \* heartbeats and retirements on their way

incarnationVars == <<marker, process, ended, member, forgotten, posts>>

Incarnation == 1..MaxIncarnations

NoMember == [current |-> 0, state |-> "none", unresolved |-> {}, resolved |-> <<>>]
Down(n) == [id |-> n, pc |-> "down", predecessors |-> <<>>, registered |-> FALSE,
            uncertain |-> FALSE, sent |-> <<>>, waits |-> FALSE]

-----------------------------------------------------------------------------
(* The marker.                                                             *)

WriteMarker(p, state) == [id |-> p.id, state |-> state, registered |-> p.registered,
                          predecessors |-> p.predecessors]

(* readPredecessors: those the previous process could not hand over, then  *)
(* that process, unless it retired cleanly and was never registered.       *)
ReadPredecessors ==
    IF marker.state = "none" THEN <<>>
    ELSE marker.predecessors \o
         IF marker.state # "retired" \/ marker.registered
           THEN <<[id |-> marker.id, clean |-> marker.state = "retired"]>> ELSE <<>>

(* Load: too many predecessors keep the process from starting, as does a   *)
(* marker that cannot be written.                                          *)
LoadMarker ==
    /\ process.pc = "down"
    /\ process.id < MaxIncarnations
    /\ Len(ReadPredecessors) <= MaxPredecessors
    /\ LET p == [Down(process.id + 1) EXCEPT !.pc = "serving", !.predecessors = ReadPredecessors] IN
       /\ process' = p
       /\ marker' = WriteMarker(p, "active")
       /\ ended' = [ended EXCEPT ![p.id] = "running"]
    /\ UNCHANGED <<member, forgotten, posts>>

(* A backend outcome the process never learns.                             *)
LoseOutcome ==
    /\ process.pc = "serving" /\ ~process.uncertain
    /\ process' = [process EXCEPT !.uncertain = TRUE]
    /\ UNCHANGED <<marker, ended, member, forgotten, posts>>

PredecessorsToReport ==
    SubSeq(process.predecessors, 1,
           IF Len(process.predecessors) < MaxUnresolved THEN Len(process.predecessors) ELSE MaxUnresolved)

(* A heartbeat; the one before it was answered, or its time is up.         *)
SendHeartbeat ==
    /\ process.pc = "serving"
    /\ Cardinality(posts) < MaxPosts
    /\ process' = [process EXCEPT !.sent = PredecessorsToReport, !.waits = TRUE]
    /\ posts' = posts \cup {[kind |-> "heartbeat", id |-> process.id, previous |-> PredecessorsToReport,
                             uncertain |-> FALSE]}
    /\ UNCHANGED <<marker, ended, member, forgotten>>

AnsweredAll(p) == [p EXCEPT !.registered = TRUE, !.waits = FALSE, !.predecessors = <<>>]

(* answered: the process is registered, and what it sent is recorded.      *)
Answered(p) == [p EXCEPT !.registered = TRUE, !.waits = FALSE,
    !.predecessors = SelectSeq(@, LAMBDA q : \A i \in DOMAIN p.sent : p.sent[i].id # q.id)]

(* Retire: drained.  The marker first, which may fail; then the control    *)
(* plane is told.                                                          *)
Retire ==
    /\ process.pc = "serving"
    /\ process' = Down(process.id)
    /\ marker' \in {marker, WriteMarker(process, IF process.uncertain THEN "unclean" ELSE "retired")}
    /\ ended' = [ended EXCEPT ![process.id] = IF process.uncertain THEN "dirty" ELSE "clean"]
    /\ posts' = posts \cup {[kind |-> "retire", id |-> process.id, previous |-> <<>>,
                             uncertain |-> process.uncertain]}
    /\ UNCHANGED <<member, forgotten>>

CrashProcess ==
    /\ process.pc = "serving"
    /\ process' = Down(process.id)
    /\ ended' = [ended EXCEPT ![process.id] = "dirty"]
    /\ UNCHANGED <<marker, member, forgotten, posts>>

-----------------------------------------------------------------------------
(* The member record: every change is a compare-and-swap of the whole.     *)

Resolved(r) == Range(r.resolved)
Knows(r, i) == i = r.current \/ i \in r.unresolved \/ i \in Resolved(r)
Fits(r) == Cardinality(r.unresolved) <= MaxUnresolved

(* Only a clean marker with nothing uncertain retires a predecessor.       *)
Clean(q) == q.clean

(* The markers of the earlier processes, before the current one is         *)
(* replaced.                                                               *)
AfterMarkers(r, previous) ==
    LET clean == {previous[i].id : i \in {j \in DOMAIN previous : Clean(previous[j])}} IN
    [r EXCEPT !.state = IF r.current \in clean /\ @ = "active" THEN "retired" ELSE @,
              !.unresolved = @ \ (clean \ (IF r.state = "active" THEN {r.current} ELSE {}))]

(* A process takes the place of the current one, which is unresolved if it *)
(* did not retire.                                                         *)
Replaced(r, i) ==
    IF r.current = i THEN r
    ELSE [r EXCEPT !.current = i, !.state = "active",
                   !.unresolved = @ \cup IF r.state = "active" THEN {r.current} ELSE {}]

(* What only the proxy knew: an unclean predecessor the record does not    *)
(* hold, and no forget has proved ended.                                   *)
WithUnclean(r, previous) ==
    [r EXCEPT !.unresolved = @ \cup
        {previous[j].id : j \in {k \in DOMAIN previous :
            ~previous[k].clean /\ ~Knows(r, previous[k].id) /\ previous[k].id \notin forgotten}}]

Registered(b) == WithUnclean(Replaced(AfterMarkers(member, b.previous), b.id), b.previous)

(* Fleet.Heartbeat: refused whole at the bound of unresolved processes.    *)
(* The answer, unless it is lost, finds the process that waits for it; the *)
(* marker is rewritten, or the write fails.                                *)
FleetHeartbeat(b) ==
    /\ b.kind = "heartbeat"
    /\ posts' = posts \ {b}
    /\ IF Fits(Registered(b))
         THEN /\ member' = Registered(b)
              /\ \/ /\ process.pc = "serving" /\ process.waits
                    /\ process.id = b.id /\ process.sent = b.previous
                    /\ process' = Answered(process)
                    /\ marker' \in {marker, WriteMarker(Answered(process), "active")}
                 \/ UNCHANGED <<process, marker>>
         ELSE UNCHANGED <<member, process, marker>>
    /\ UNCHANGED <<ended, forgotten>>

(* Fleet.Retire: of the current process; late, of one already replaced.  A *)
(* clean one discharges the record, an unclean one stays unresolved.  The  *)
(* request may arrive again.                                               *)
FleetRetire(b) ==
    /\ b.kind = "retire"
    /\ posts' \in {posts, posts \ {b}}
    /\ LET current == member.current = b.id /\ member.state = "active"
           new == CASE current /\ b.uncertain ->
                         [member EXCEPT !.current = 0, !.state = "none", !.unresolved = @ \cup {b.id}]
                    [] current /\ ~b.uncertain -> [member EXCEPT !.state = "retired"]
                    [] member.current # b.id /\ ~b.uncertain -> [member EXCEPT !.unresolved = @ \ {b.id}]
                    [] OTHER -> member IN
       member' = IF Fits(new) THEN new ELSE member
    /\ UNCHANGED <<marker, process, ended, forgotten>>

(* The operator attests that process i has stopped and its backend work    *)
(* has ended: of an unresolved process, or of a current one whose row has  *)
(* expired.                                                                *)
ResolveIncarnation(i) ==
    /\ ended[i] \in {"clean", "dirty"}
    /\ LET kept == member.resolved \o <<i>>
           tail == IF Len(kept) > MaxResolvedKept THEN Tail(kept) ELSE kept IN
       \/ /\ i \in member.unresolved
          /\ member' = [member EXCEPT !.unresolved = @ \ {i}, !.resolved = tail]
       \/ /\ i \notin member.unresolved
          /\ member.current = i /\ member.state = "active"
          /\ member' = [member EXCEPT !.current = 0, !.state = "none", !.resolved = tail]
    /\ ended' = [ended EXCEPT ![i] = "resolved"]
    /\ UNCHANGED <<marker, process, forgotten, posts>>

(* Forget: refused with a process that did not retire.                     *)
ForgetMember ==
    /\ member # NoMember
    /\ member.state # "active" /\ member.unresolved = {}
    /\ member' = NoMember
    /\ forgotten' = Resolved(member) \cup (IF member.current = 0 THEN {} ELSE {member.current})
    /\ UNCHANGED <<marker, process, ended, posts>>

(* A message is lost.                                                      *)
LosePost(b) ==
    /\ posts' = posts \ {b}
    /\ UNCHANGED <<marker, process, ended, member, forgotten>>

-----------------------------------------------------------------------------
IncarnationInit ==
    /\ marker = [id |-> 0, state |-> "none", registered |-> FALSE, predecessors |-> <<>>]
    /\ process = Down(0)
    /\ ended = [i \in Incarnation |-> "none"]
    /\ member = NoMember
    /\ forgotten = {}
    /\ posts = {}

IncarnationNext ==
    \/ LoadMarker
    \/ LoseOutcome
    \/ SendHeartbeat
    \/ Retire
    \/ CrashProcess
    \/ \E b \in posts : FleetHeartbeat(b)
    \/ \E b \in posts : FleetRetire(b)
    \/ \E i \in Incarnation : ResolveIncarnation(i)
    \/ ForgetMember
    \/ \E b \in posts : LosePost(b)

-----------------------------------------------------------------------------
(* A process that ended with work of unknown outcome is never dropped: it  *)
(* is on the member record, or in the marker its successor reads, until an *)
(* operator resolves it.                                                   *)
EvidenceKept ==
    \A i \in Incarnation : ended[i] = "dirty" =>
        \/ i \in member.unresolved
        \/ member.current = i /\ member.state = "active"
        \/ marker.id = i /\ marker.state # "retired"
        \/ \E j \in DOMAIN marker.predecessors :
             marker.predecessors[j].id = i /\ ~marker.predecessors[j].clean

=============================================================================
