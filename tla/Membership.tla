----------------------------- MODULE Membership -----------------------------
(***************************************************************************)
(* Changes of the control plane's own membership: a node joins the etcd    *)
(* cluster as a learner and is promoted to a voter, a join is canceled, a  *)
(* member is removed by its ID.                                            *)
(*                                                                         *)
(*   internal/control/join.go          the join operation and its cancel   *)
(*   internal/control/memberremove.go  the removal operation               *)
(*   cmd/shunt-control/join.go         the joining node and its join.json  *)
(*   internal/cp/etcd.go               the requests sent to etcd           *)
(*                                                                         *)
(* A membership operation is a record in the store and a loop (a tracker)  *)
(* on the control node that owns it.  Every membership request to etcd may *)
(* go unanswered, with its effect done, never done, or done later.  etcd   *)
(* itself is external: it gives each member a fresh ID, and refuses a      *)
(* second member with a peer URL, a second learner, and the promotion of a *)
(* learner that has not caught up.                                         *)
(***************************************************************************)
EXTENDS Integers, FiniteSets, Sequences, SequencesExt

CONSTANTS
    Controls,       \* the control nodes of the cluster before any join
    Joiners,        \* the hosts that join; a host has one name and peer URL
    MaxMembers,     \* bound on the members etcd ever has
    MaxRecords,     \* bound on the operations ever asked
    MaxTerms,       \* bound on the owner terms of a record
    MaxLost,        \* bound on the requests that go unanswered
    MaxCrashes,     \* bound on the crashes of control nodes and joiners
    MemberFaults    \* the faults of the instance: "lapse", "late_add",
                    \* "restart", "late_remove"

VARIABLES
    members,        \* etcd's members, by ID
    wire,           \* requests that went unanswered and have yet to land
    records,        \* the operation records, in the order they were made
    tracker,        \* what each control node runs
    dir,            \* join.json of each joiner
    proc,           \* the joiner's process
    token,          \* the confirmation the last removal dry run answered
    lostLeft, crashesLeft

memberVars == <<members, wire, records, tracker, dir, proc, token, lostLeft, crashesLeft>>

Ids == 1..MaxMembers
Hosts == Controls \cup Joiners
NoMember == 0

In(i) == members[i].role \in {"learner", "voter"}
MemberList == {i \in Ids : In(i)}
Voters == {i \in Ids : members[i].role = "voter"}
OfHost(h) == {i \in MemberList : members[i].host = h}
Idle == [op |-> 0, term |-> 0, pc |-> "idle", phase |-> "queued", member |-> NoMember,
         cancel |-> FALSE, blocker |-> "none", unsettled |-> FALSE]
NoFile == [phase |-> "none", request |-> 0, op |-> 0, member |-> NoMember]

(* A control node serves while its own member is in the cluster.           *)
Serves(n) == \E i \in Voters : members[i].host = n

(***************************************************************************)
(* The records and their owners.                                           *)
(***************************************************************************)
Terminal(o) == records[o].status # "open"
Unfinished == {o \in DOMAIN records : ~Terminal(o)}

(* The stored record is still this tracker's to write.                     *)
Owns(n) ==
    LET t == tracker[n] IN
    /\ ~Terminal(t.op)
    /\ records[t.op].node = n
    /\ records[t.op].term = t.term

(* tracker.put: the owner's fields over the stored ones, a cancellation    *)
(* asked meanwhile taken from the record.  A record that has another owner *)
(* or has ended marks the tracker lost, and the next check ends the run.   *)
(* A field that did not change is not written at all.                      *)
Put(n, t) ==
    LET was == tracker[n]
        same == t.phase = was.phase /\ t.member = was.member /\ t.blocker = was.blocker
    IN IF same
       THEN tracker' = [tracker EXCEPT ![n] = t] /\ UNCHANGED records
       ELSE IF Owns(n)
       THEN /\ records' = [records EXCEPT ![t.op].phase = t.phase, ![t.op].member = t.member]
            /\ tracker' = [tracker EXCEPT ![n] =
                             [t EXCEPT !.cancel = t.cancel \/ records[t.op].cancel]]
       ELSE /\ tracker' = [tracker EXCEPT ![n] = Idle]
            /\ UNCHANGED records

(* The end of a run: written only by the record's owner.                   *)
End(n, status) ==
    /\ tracker' = [tracker EXCEPT ![n] = Idle]
    /\ records' = IF Owns(n) THEN [records EXCEPT ![tracker[n].op].status = status]
                             ELSE records

(* The owner's liveness: a node is gone when it no longer runs the         *)
(* operation.  With the fault "lapse" a running owner is also taken for    *)
(* gone.  The liveness outlasts a promotion that did not answer.           *)
OwnerGone(o) ==
    LET n == records[o].node IN
    \/ tracker[n].op # o
    \/ "lapse" \in MemberFaults

PromotionsSettled == \A w \in wire : w.what # "promote"

(***************************************************************************)
(* etcd, external.  A request is answered, or goes unanswered with its     *)
(* effect done, never done, or on the wire.                                *)
(***************************************************************************)
CanAdd(h) == OfHost(h) = {} /\ \A i \in MemberList : members[i].role = "voter"
CanPromote(i) == members[i].role = "learner" /\ members[i].caught
FreshId == CHOOSE i \in Ids : members[i].role = "free" /\ \A k \in Ids : k < i => members[k].role # "free"

AfterAdd(h) == [members EXCEPT ![FreshId] =
                  [host |-> h, role |-> "learner", started |-> FALSE, caught |-> FALSE]]
AfterPromote(i) == [members EXCEPT ![i].role = "voter"]
AfterRemove(i) == [members EXCEPT ![i].role = "removed"]

(* A request went unanswered: how it ended, and what is still on the wire. *)
Unanswered(w, done, able) ==
    /\ lostLeft > 0
    /\ lostLeft' = lostLeft - 1
    /\ \/ members' = members /\ wire' = wire
       \/ able /\ members' = done /\ wire' = wire
       \/ /\ w.what = "add" => "late_add" \in MemberFaults
          /\ members' = members /\ wire' = wire \cup {w}

(* A request that went unanswered lands.                                   *)
Land(w) ==
    /\ wire' = wire \ {w}
    /\ members' = CASE w.what = "add" /\ CanAdd(w.host) /\ (\E i \in Ids : members[i].role = "free")
                         -> AfterAdd(w.host)
                    [] w.what = "promote" /\ CanPromote(w.id) -> AfterPromote(w.id)
                    [] w.what = "remove" /\ In(w.id) -> AfterRemove(w.id)
                    [] OTHER -> members
    /\ UNCHANGED <<records, tracker, dir, proc, token, lostLeft, crashesLeft>>

(* A started learner catches up with the leader.                           *)
CatchUp(i) ==
    /\ members[i].role = "learner" /\ members[i].started /\ ~members[i].caught
    /\ proc[members[i].host] = "member"
    /\ members' = [members EXCEPT ![i].caught = TRUE]
    /\ UNCHANGED <<wire, records, tracker, dir, proc, token, lostLeft, crashesLeft>>

(***************************************************************************)
(* runJoin: one round reads the member list and decides; the membership    *)
(* change it decided on is sent in the next step of the same run.          *)
(***************************************************************************)
InRound(n, kind) ==
    /\ Serves(n)
    /\ tracker[n].pc = "round"
    /\ records[tracker[n].op].kind = kind

(* joinCancelRequest: on the tracker's copy, or on the stored record while *)
(* this node still owns it.                                                *)
CancelRequest(n) ==
    LET t == tracker[n]  r == records[t.op] IN
    t.cancel \/ (r.cancel /\ r.node = n /\ r.term = t.term)

(* addLearner: the join's learner is in the list already, the join is      *)
(* refused, or the phase is written before the add is sent.                *)
AddLearner(n) ==
    LET t == tracker[n]
        h == records[t.op].host
        mine == OfHost(h)
    IN
    /\ InRound(n, "join")
    /\ ~CancelRequest(n)
    /\ t.member = NoMember
    /\ \/ /\ mine # {} /\ t.phase = "learner_add"
          /\ \E i \in mine : Put(n, [t EXCEPT !.member = i])
       \/ /\ mine # {} /\ t.phase # "learner_add"
          /\ End(n, "failed")
       \/ /\ mine = {} /\ \E i \in MemberList : members[i].role = "learner"
          /\ End(n, "failed")
       \/ /\ mine = {} /\ \A i \in MemberList : members[i].role # "learner"
          /\ Put(n, [t EXCEPT !.phase = "learner_add", !.pc = "add"])
    /\ UNCHANGED <<members, wire, dir, proc, token, lostLeft, crashesLeft>>

SendAdd(n) ==
    LET t == tracker[n]
        h == records[t.op].host
        unanswered == [t EXCEPT !.pc = "round", !.blocker = "quorum"]
    IN
    /\ Serves(n) /\ t.pc = "add"
    /\ \E i \in Ids : members[i].role = "free"
    /\ \/ /\ CanAdd(h)
          /\ members' = AfterAdd(h)
          /\ Put(n, [t EXCEPT !.pc = "round", !.member = FreshId, !.phase = "learner_added"])
          /\ UNCHANGED <<wire, lostLeft>>
       \/ /\ ~CanAdd(h)
          /\ Put(n, unanswered)
          /\ UNCHANGED <<members, wire, lostLeft>>
       \/ /\ Unanswered([what |-> "add", host |-> h], AfterAdd(h), CanAdd(h))
          /\ Put(n, unanswered)
    /\ UNCHANGED <<dir, proc, token, crashesLeft>>

(* The join's learner is followed until its node has started and caught    *)
(* up; a member that votes ends the join.                                  *)
FollowLearner(n) ==
    LET t == tracker[n] IN
    /\ InRound(n, "join")
    /\ ~CancelRequest(n)
    /\ t.member # NoMember
    /\ \/ ~In(t.member) /\ End(n, "failed")
       \/ /\ In(t.member) /\ ~members[t.member].started
          /\ Put(n, [t EXCEPT !.phase = "learner_added", !.blocker = "not_started"])
       \/ /\ members[t.member].role = "learner" /\ members[t.member].started
          /\ Put(n, [t EXCEPT !.phase = "catching_up", !.pc = "promote"])
       \/ /\ members[t.member].role = "voter" /\ members[t.member].started
          /\ End(n, "succeeded")
    /\ UNCHANGED <<members, wire, dir, proc, token, lostLeft, crashesLeft>>

SendPromoteTrusted(n) ==
    LET t == tracker[n] IN
    /\ Serves(n) /\ t.pc = "promote"
    /\ \/ /\ CanPromote(t.member)
          /\ members' = AfterPromote(t.member)
          /\ Put(n, [t EXCEPT !.pc = "round"])
          /\ UNCHANGED <<wire, lostLeft>>
       \/ /\ ~CanPromote(t.member)
          /\ Put(n, [t EXCEPT !.pc = "round", !.blocker = "catching_up"])
          /\ UNCHANGED <<members, wire, lostLeft>>
       \/ /\ Unanswered([what |-> "promote", id |-> t.member], AfterPromote(t.member),
                        CanPromote(t.member))
          /\ End(n, "succeeded")
    /\ UNCHANGED <<dir, proc, token, crashesLeft>>

SendPromote(n) ==
    LET t == tracker[n] IN
    /\ Serves(n) /\ t.pc = "promote"
    /\ \/ /\ CanPromote(t.member)
          /\ members' = AfterPromote(t.member)
          /\ Put(n, [t EXCEPT !.pc = "round"])
          /\ UNCHANGED <<wire, lostLeft>>
       \/ /\ members[t.member].role = "learner" /\ ~members[t.member].caught
          /\ Put(n, [t EXCEPT !.pc = "round", !.blocker = "catching_up"])
          /\ UNCHANGED <<members, wire, lostLeft>>
       \/ /\ members[t.member].role # "learner"
          /\ Put(n, [t EXCEPT !.pc = "round", !.blocker = "unknown", !.unsettled = TRUE])
          /\ UNCHANGED <<members, wire, lostLeft>>
       \/ /\ Unanswered([what |-> "promote", id |-> t.member], AfterPromote(t.member),
                        CanPromote(t.member))
          /\ Put(n, [t EXCEPT !.pc = "round", !.blocker = "unknown", !.unsettled = TRUE])
    /\ UNCHANGED <<dir, proc, token, crashesLeft>>

(* promoteSettle has passed since a promotion went unanswered: what could  *)
(* land has landed.                                                        *)
Settled(n) ==
    /\ tracker[n].unsettled
    /\ PromotionsSettled
    /\ tracker' = [tracker EXCEPT ![n].unsettled = FALSE]
    /\ UNCHANGED <<members, wire, records, dir, proc, token, lostLeft, crashesLeft>>

MineById(t) == IF t.member # NoMember THEN {t.member} \cap MemberList ELSE {}

(* The join's member, as cancelJoin finds it: by the ID on the record, or  *)
(* by the peer URL after an add that did not answer.                       *)
Mine(t) ==
    IF t.member # NoMember THEN {t.member} \cap MemberList
    ELSE IF t.phase = "learner_add" THEN OfHost(records[t.op].host)
    ELSE {}

CancelJoinUnsettled(n) ==
    LET t == [tracker[n] EXCEPT !.cancel = TRUE]  mine == Mine(t) IN
    /\ InRound(n, "join")
    /\ CancelRequest(n)
    /\ \/ mine = {} /\ End(n, "canceled")
       \/ (\E i \in mine : members[i].role = "voter") /\ End(n, "succeeded")
       \/ \E i \in mine :
            /\ members[i].role = "learner"
            /\ Put(n, [t EXCEPT !.phase = "learner_remove", !.member = i, !.pc = "remove"])
    /\ UNCHANGED <<members, wire, dir, proc, token, lostLeft, crashesLeft>>

(* cancelJoin: no member of the join, a member that votes already, or the  *)
(* learner, removed once no promotion can land any more.                   *)
CancelJoin(n) ==
    LET t == [tracker[n] EXCEPT !.cancel = TRUE]  mine == Mine(t) IN
    /\ InRound(n, "join")
    /\ CancelRequest(n)
    /\ \/ mine = {} /\ End(n, "canceled")
       \/ (\E i \in mine : members[i].role = "voter") /\ End(n, "succeeded")
       \/ \E i \in mine :
            /\ members[i].role = "learner" /\ t.unsettled
            /\ Put(n, [t EXCEPT !.member = i, !.blocker = "unknown"])
       \/ \E i \in mine :
            /\ members[i].role = "learner" /\ ~t.unsettled
            /\ Put(n, [t EXCEPT !.phase = "learner_remove", !.member = i, !.pc = "remove"])
    /\ UNCHANGED <<members, wire, dir, proc, token, lostLeft, crashesLeft>>

SendRemove(n) ==
    LET t == tracker[n] IN
    /\ Serves(n) /\ t.pc = "remove"
    /\ \/ /\ In(t.member)
          /\ members' = AfterRemove(t.member)
          /\ End(n, "canceled")
          /\ UNCHANGED <<wire, lostLeft>>
       \/ /\ ~In(t.member)
          /\ Put(n, [t EXCEPT !.pc = "round", !.blocker = "unknown"])
          /\ UNCHANGED <<members, wire, lostLeft>>
       \/ /\ Unanswered([what |-> "remove", id |-> t.member], AfterRemove(t.member),
                        In(t.member))
          /\ Put(n, [t EXCEPT !.pc = "round", !.blocker = "unknown"])
    /\ UNCHANGED <<dir, proc, token, crashesLeft>>

(***************************************************************************)
(* Removal by ID.  A dry run shows the operator the member list and        *)
(* answers a token bound to it; the removal checks the token against the   *)
(* list as it is when it runs.                                             *)
(***************************************************************************)
MemberBinding(i) ==
    [id |-> i, list |-> {<<k, members[k].role, members[k].started>> : k \in MemberList}]

ShownVoters(t) == {k \in Ids : \E started \in BOOLEAN : <<k, "voter", started>> \in t.list}

NoToken == [id |-> NoMember, list |-> {}]

(* memberRemoveChecks: no member, the node that answers, the only voter.   *)
RemoveChecks(n, i) ==
    /\ In(i)
    /\ members[i].host # n
    /\ members[i].role = "voter" => Voters # {i}

RecordsOf(j) ==
    {o \in DOMAIN records : records[o].kind = "join" /\ records[o].host = j
                            /\ records[o].request = dir[j].request}

(* Operations asked of the cluster: recorded, confirmed or prepared.       *)
Asked ==
    Len(records) + Cardinality({j \in Joiners : dir[j].phase = "prepared" /\ RecordsOf(j) = {}})
      + IF token = NoToken THEN 0 ELSE 1

DryRun(n, i) ==
    /\ Serves(n)
    /\ RemoveChecks(n, i)
    /\ token = NoToken
    /\ Asked < MaxRecords
    /\ token' = MemberBinding(i)
    /\ UNCHANGED <<members, wire, records, tracker, dir, proc, lostLeft, crashesLeft>>

(* A record is launched: one membership operation at a time.               *)
Launch(n, r) ==
    /\ Unfinished = {}
    /\ tracker[n] = Idle
    /\ records' = Append(records, r)
    /\ tracker' = [tracker EXCEPT ![n] = [Idle EXCEPT !.op = Len(records) + 1, !.term = 1, !.pc = "round"]]

NewRecord(kind, n, host, request, bound) ==
    [kind |-> kind, host |-> host, request |-> request, bound |-> bound, status |-> "open",
     phase |-> "queued", member |-> NoMember, node |-> n, term |-> 1, cancel |-> FALSE]

ServeMemberRemove(n) ==
    /\ Serves(n)
    /\ token # NoToken
    /\ Launch(n, NewRecord("remove", n, "", 0, token))
    /\ token' = NoToken
    /\ UNCHANGED <<members, wire, dir, proc, lostLeft, crashesLeft>>

(* runMemberRemove, one round: before the intent is on the record, the     *)
(* checks and the token; after it, the removal is reconciled by ID.        *)
RunMemberRemove(n) ==
    LET t == tracker[n]  b == records[t.op].bound  i == b.id IN
    /\ InRound(n, "remove")
    /\ \/ t.phase = "member_remove" /\ ~In(i) /\ End(n, "succeeded")
       \/ /\ t.phase = "member_remove" /\ In(i)
          /\ Put(n, [t EXCEPT !.pc = "unmember"])
       \/ /\ t.phase # "member_remove"
          /\ RemoveChecks(n, i) /\ b = MemberBinding(i)
          /\ Put(n, [t EXCEPT !.phase = "member_remove", !.member = i, !.pc = "unmember"])
       \/ /\ t.phase # "member_remove"
          /\ ~(RemoveChecks(n, i) /\ b = MemberBinding(i))
          /\ End(n, "failed")
    /\ UNCHANGED <<members, wire, dir, proc, token, lostLeft, crashesLeft>>

(* The removal is sent: done, refused because quorum would be at risk,     *)
(* refused because the member is gone, or unanswered.  The refusal ends    *)
(* the operation, whatever an earlier request of its own may still do:     *)
(* with the fault "late_remove" one is in flight.                          *)
SendMemberRemove(n) ==
    LET t == tracker[n]  again == [t EXCEPT !.pc = "round", !.blocker = "unknown"] IN
    /\ Serves(n) /\ t.pc = "unmember"
    /\ \/ /\ In(t.member)
          /\ members' = AfterRemove(t.member)
          /\ End(n, "succeeded")
          /\ UNCHANGED <<wire, lostLeft>>
       \/ /\ In(t.member)
          /\ "late_remove" \in MemberFaults \/ \A w \in wire : w.what # "remove"
          /\ End(n, "failed")
          /\ UNCHANGED <<members, wire, lostLeft>>
       \/ /\ ~In(t.member)
          /\ Put(n, again)
          /\ UNCHANGED <<members, wire, lostLeft>>
       \/ /\ Unanswered([what |-> "remove", id |-> t.member], AfterRemove(t.member),
                        In(t.member))
          /\ Put(n, again)
    /\ UNCHANGED <<dir, proc, token, crashesLeft>>

(***************************************************************************)
(* Cancellation, crashes of the owner, and taking a record over.           *)
(***************************************************************************)
TakeOver(n, o, cancel) ==
    /\ tracker[n] = Idle \/ records[o].node = n
    /\ records[o].term < MaxTerms
    /\ PromotionsSettled \/ (records[o].node = n /\ "restart" \in MemberFaults)
    /\ records' = [records EXCEPT ![o].node = n, ![o].term = @ + 1, ![o].cancel = cancel]
    /\ tracker' = [tracker EXCEPT ![n] =
                     [Idle EXCEPT !.op = o, !.term = records[o].term + 1, !.pc = "round",
                                  !.phase = records[o].phase, !.member = records[o].member,
                                  !.cancel = cancel]]

(* cancelJoinRequest: the request is written on the record; a join whose   *)
(* owner is gone is taken over by the node the request reaches.            *)
CancelJoinRequest(n, o) ==
    /\ Serves(n)
    /\ ~Terminal(o) /\ records[o].kind = "join"
    /\ \/ /\ ~records[o].cancel
          /\ tracker[records[o].node].op = o
          /\ records' = [records EXCEPT ![o].cancel = TRUE]
          /\ UNCHANGED tracker
       \/ /\ OwnerGone(o) /\ tracker[n].op # o
          /\ TakeOver(n, o, TRUE)
    /\ UNCHANGED <<members, wire, dir, proc, token, lostLeft, crashesLeft>>

(* resumeOperation, and ResumeOwn when n is the owner, restarted.          *)
ResumeOperation(n, o) ==
    /\ Serves(n)
    /\ ~Terminal(o)
    /\ OwnerGone(o) /\ tracker[n].op # o
    /\ TakeOver(n, o, records[o].cancel)
    /\ UNCHANGED <<members, wire, dir, proc, token, lostLeft, crashesLeft>>

(* A control node stops between two steps of its run; a request it had     *)
(* sent is one that went unanswered (SendPromote) before the crash.        *)
CrashControl(n) ==
    /\ crashesLeft > 0
    /\ tracker[n] # Idle
    /\ crashesLeft' = crashesLeft - 1
    /\ tracker' = [tracker EXCEPT ![n] = Idle]
    /\ UNCHANGED <<members, wire, records, dir, proc, token, lostLeft>>

(* A node removed from the cluster stops.                                  *)
Removed(n) ==
    /\ ~Serves(n)
    /\ tracker[n] # Idle
    /\ tracker' = [tracker EXCEPT ![n] = Idle]
    /\ UNCHANGED <<members, wire, records, dir, proc, token, lostLeft, crashesLeft>>

(***************************************************************************)
(* The joining node.  join.json is saved before each step that the next    *)
(* start resumes from.                                                     *)
(***************************************************************************)
(* preflightJoin and the first save: a request ID, before anything is      *)
(* asked of the cluster.                                                   *)
PrepareJoin(j, request) ==
    /\ proc[j] = "down" /\ dir[j].phase = "none"
    /\ OfHost(j) = {}
    /\ request = 1 + Cardinality({o \in DOMAIN records : records[o].host = j})
    /\ Asked < MaxRecords
    /\ dir' = [dir EXCEPT ![j] = [NoFile EXCEPT !.phase = "prepared", !.request = request]]
    /\ proc' = [proc EXCEPT ![j] = "asking"]
    /\ UNCHANGED <<members, wire, records, tracker, token, lostLeft, crashesLeft>>

ServeJoinUnkeyed(j, n) ==
    /\ Serves(n)
    /\ proc[j] = "asking" /\ dir[j].phase = "prepared"
    /\ Launch(n, NewRecord("join", n, j, dir[j].request, NoToken))
    /\ UNCHANGED <<members, wire, dir, proc, token, lostLeft, crashesLeft>>

(* ServeJoin: the request makes a record, unless one carries its key.      *)
ServeJoin(j, n) ==
    /\ Serves(n)
    /\ proc[j] = "asking" /\ dir[j].phase = "prepared"
    /\ RecordsOf(j) = {}
    /\ Launch(n, NewRecord("join", n, j, dir[j].request, NoToken))
    /\ UNCHANGED <<members, wire, dir, proc, token, lostLeft, crashesLeft>>

(* requestJoin's answer, saved: the record of this request.                *)
RequestJoin(j) ==
    /\ proc[j] = "asking" /\ dir[j].phase = "prepared"
    /\ \E o \in RecordsOf(j) :
         \/ /\ records[o].status = "failed"
            /\ proc' = [proc EXCEPT ![j] = "stopped"]
            /\ UNCHANGED dir
         \/ /\ records[o].status # "failed"
            /\ dir' = [dir EXCEPT ![j].phase = "requested", ![j].op = o]
            /\ UNCHANGED proc
    /\ UNCHANGED <<members, wire, records, tracker, token, lostLeft, crashesLeft>>

(* ServeJoinBootstrap refuses a join that ended other than succeeded, and  *)
(* asks for a retry while there is no learner, or while another member of  *)
(* the initial cluster has not started.                                    *)
BootstrapRefused(j) ==
    LET o == dir[j].op IN
    \/ Terminal(o) /\ records[o].status # "succeeded"
    \/ records[o].member # NoMember /\ ~In(records[o].member)

BootstrapReady(j) ==
    LET i == records[dir[j].op].member IN
    /\ i # NoMember
    /\ \A k \in MemberList : k # i => members[k].started

FetchBootstrap(j) ==
    /\ proc[j] = "asking" /\ dir[j].phase = "requested"
    /\ \/ /\ BootstrapRefused(j)
          /\ proc' = [proc EXCEPT ![j] = "stopped"]
          /\ UNCHANGED dir
       \/ /\ ~BootstrapRefused(j) /\ BootstrapReady(j)
          /\ dir' = [dir EXCEPT ![j].phase = "saved", ![j].member = records[dir[j].op].member]
          /\ UNCHANGED proc
    /\ UNCHANGED <<members, wire, records, tracker, token, lostLeft, crashesLeft>>

(* The member starts, unless its join is seen to have ended otherwise.     *)
StartMember(j) ==
    LET o == dir[j].op  i == dir[j].member IN
    /\ proc[j] = "asking" /\ dir[j].phase \in {"saved", "promoted"}
    /\ \/ /\ dir[j].phase = "saved" /\ Terminal(o) /\ records[o].status # "succeeded"
          /\ proc' = [proc EXCEPT ![j] = "stopped"]
          /\ UNCHANGED members
       \/ /\ proc' = [proc EXCEPT ![j] = "member"]
          /\ members' = IF In(i) THEN [members EXCEPT ![i].started = TRUE] ELSE members
    /\ UNCHANGED <<wire, records, tracker, dir, token, lostLeft, crashesLeft>>

FollowJoinBlind(j) ==
    LET o == dir[j].op IN
    /\ proc[j] = "member" /\ dir[j].phase = "saved"
    /\ records[o].status = "succeeded"
    /\ dir' = [dir EXCEPT ![j].phase = "promoted"]
    /\ UNCHANGED <<members, wire, records, tracker, proc, token, lostLeft, crashesLeft>>

(* followJoin: promoted once the join succeeded, stopped once it ended     *)
(* otherwise; a join whose owner is gone is resumed (ResumeOperation).     *)
FollowJoin(j) ==
    LET o == dir[j].op IN
    /\ proc[j] = "member" /\ dir[j].phase = "saved"
    /\ Terminal(o)
    /\ \/ /\ records[o].status = "succeeded"
          /\ dir' = [dir EXCEPT ![j].phase = "promoted"]
          /\ UNCHANGED proc
       \/ /\ records[o].status # "succeeded"
          /\ proc' = [proc EXCEPT ![j] = "stopped"]
          /\ UNCHANGED dir
    /\ UNCHANGED <<members, wire, records, tracker, token, lostLeft, crashesLeft>>

CrashJoiner(j) ==
    /\ crashesLeft > 0
    /\ proc[j] \in {"asking", "member"}
    /\ crashesLeft' = crashesLeft - 1
    /\ proc' = [proc EXCEPT ![j] = "down"]
    /\ UNCHANGED <<members, wire, records, tracker, dir, token, lostLeft>>

RestartJoiner(j) ==
    /\ proc[j] = "down" /\ dir[j].phase # "none"
    /\ proc' = [proc EXCEPT ![j] = "asking"]
    /\ UNCHANGED <<members, wire, records, tracker, dir, token, lostLeft, crashesLeft>>

(* The operator removes the data directory of a join that ended.           *)
RemoveDirectory(j) ==
    /\ proc[j] = "stopped"
    /\ Asked < MaxRecords
    /\ dir' = [dir EXCEPT ![j] = NoFile]
    /\ proc' = [proc EXCEPT ![j] = "down"]
    /\ UNCHANGED <<members, wire, records, tracker, token, lostLeft, crashesLeft>>

-----------------------------------------------------------------------------
(* The cluster as it was formed: one member for each control node.         *)
Formed == SetToSeq(Controls)

MemberInit ==
    /\ members = [i \in Ids |->
         IF i \in DOMAIN Formed
         THEN [host |-> Formed[i], role |-> "voter", started |-> TRUE, caught |-> TRUE]
         ELSE [host |-> "", role |-> "free", started |-> FALSE, caught |-> FALSE]]
    /\ wire = {}
    /\ records = <<>>
    /\ tracker = [n \in Controls |-> Idle]
    /\ dir = [j \in Joiners |-> NoFile]
    /\ proc = [j \in Joiners |-> "down"]
    /\ token = NoToken
    /\ lostLeft = MaxLost
    /\ crashesLeft = MaxCrashes

OwnerStep(n) ==
    \/ AddLearner(n) \/ SendAdd(n) \/ FollowLearner(n) \/ SendPromote(n)
    \/ CancelJoin(n) \/ SendRemove(n) \/ Settled(n)
    \/ RunMemberRemove(n) \/ SendMemberRemove(n)

JoinerStep(j) ==
    \/ RequestJoin(j) \/ FetchBootstrap(j) \/ StartMember(j) \/ FollowJoin(j)
    \/ RestartJoiner(j)

MemberNext ==
    \/ \E n \in Controls : AddLearner(n)
    \/ \E n \in Controls : SendAdd(n)
    \/ \E n \in Controls : FollowLearner(n)
    \/ \E n \in Controls : SendPromote(n)
    \/ \E n \in Controls : CancelJoin(n)
    \/ \E n \in Controls : SendRemove(n)
    \/ \E n \in Controls : Settled(n)
    \/ \E n \in Controls : RunMemberRemove(n)
    \/ \E n \in Controls : SendMemberRemove(n)
    \/ \E n \in Controls, i \in Ids : DryRun(n, i)
    \/ \E n \in Controls : ServeMemberRemove(n)
    \/ \E n \in Controls, o \in DOMAIN records : CancelJoinRequest(n, o)
    \/ \E n \in Controls, o \in DOMAIN records : ResumeOperation(n, o)
    \/ \E n \in Controls : CrashControl(n)
    \/ \E n \in Controls : Removed(n)
    \/ \E w \in wire : Land(w)
    \/ \E i \in Ids : CatchUp(i)
    \/ \E j \in Joiners, request \in 1..MaxRecords : PrepareJoin(j, request)
    \/ \E j \in Joiners, n \in Controls : ServeJoin(j, n)
    \/ \E j \in Joiners : RequestJoin(j)
    \/ \E j \in Joiners : FetchBootstrap(j)
    \/ \E j \in Joiners : StartMember(j)
    \/ \E j \in Joiners : FollowJoin(j)
    \/ \E j \in Joiners : CrashJoiner(j)
    \/ \E j \in Joiners : RestartJoiner(j)
    \/ \E j \in Joiners : RemoveDirectory(j)

(***************************************************************************)
(* Fairness.  A running owner's loop and the joining process go on; an     *)
(* unanswered request lands within etcd's request timeout; a started       *)
(* learner catches up; an operation whose owner is gone is resumed, by the *)
(* node that follows its join, by the restarted owner, or by the operator  *)
(* (nothing else resumes a join whose learner was not added yet).  The     *)
(* operator's own requests and the crashes are not fair.                   *)
(***************************************************************************)
MemberFair ==
    /\ \A n \in Controls : WF_memberVars(OwnerStep(n))
    /\ \A n \in Controls : WF_memberVars(Removed(n))
    /\ \A j \in Joiners : WF_memberVars(JoinerStep(j))
    /\ \A j \in Joiners : WF_memberVars(\E n \in Controls : ServeJoin(j, n))
    /\ WF_memberVars(\E w \in wire : Land(w))
    /\ \A i \in Ids : WF_memberVars(CatchUp(i))
    /\ WF_memberVars(\E n \in Controls, o \in DOMAIN records : ResumeOperation(n, o))

MemberSpec == MemberInit /\ [][MemberNext]_memberVars /\ MemberFair

-----------------------------------------------------------------------------
NamedBy(i, kind) == {o \in DOMAIN records : records[o].kind = kind /\ records[o].member = i}

(* No learner outlives the operation that added it: every learner in etcd  *)
(* is the learner of an unfinished join of its host, named on the record   *)
(* or found by its peer URL while the record says learner_add.             *)
LearnerAccounted ==
    \A i \in MemberList : members[i].role = "learner" =>
        \E o \in Unfinished :
            /\ records[o].kind = "join"
            /\ records[o].host = members[i].host
            /\ \/ records[o].member = i
               \/ records[o].member = NoMember /\ records[o].phase = "learner_add"

(* The end a join's record states is true of etcd: the member of a         *)
(* canceled join is gone, and the member of one that succeeded votes,      *)
(* until a removal names it.                                               *)
JoinEndTrue ==
    \A o \in DOMAIN records : records[o].kind = "join" =>
        /\ records[o].status = "canceled" /\ records[o].member # NoMember
             => ~In(records[o].member)
        /\ records[o].status = "succeeded"
             => \/ records[o].member \in Voters
                \/ NamedBy(records[o].member, "remove") # {}

(* A joining node asks once: its retries after crashes, on any control     *)
(* node, never make a second record for the request in its join.json, and  *)
(* the host never has two members.                                         *)
JoinedOnce ==
    \A j \in Joiners :
        /\ Cardinality(OfHost(j)) <= 1
        /\ \A o, p \in DOMAIN records :
             records[o].host = j /\ records[p].host = j
               /\ records[o].request = records[p].request => o = p

(* A voter leaves the cluster only by a removal that names it, and the     *)
(* voters are then the ones its dry run showed the operator.  No           *)
(* cancellation removes a voter, whatever promotion is still in flight.    *)
VoterLeavesAsShown ==
    [][\A i \in Ids : members[i].role = "voter" /\ members'[i].role # "voter" =>
          \E o \in NamedBy(i, "remove") : ShownVoters(records[o].bound) = Voters]_memberVars

(* A node that has begun to join ends up a member that knows it votes, or  *)
(* stopped: it never serves on as a learner of a join that has ended, and  *)
(* never waits for ever on one that goes on.                               *)
JoinSettles ==
    \A j \in Joiners :
        (dir[j].phase # "none") ~> (dir[j].phase = "promoted" \/ proc[j] = "stopped")

(* What the records say of the members is true of etcd, before and after   *)
(* an operation ends.                                                      *)
JoinTrue == LearnerAccounted /\ JoinEndTrue /\ JoinedOnce

=============================================================================
