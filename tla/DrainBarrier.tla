----------------------------- MODULE DrainBarrier -----------------------------
(***************************************************************************)
(* A drain barrier on one placement, across the fleet.                     *)
(*                                                                         *)
(* An operation changes the rule by which a placement's mutations are      *)
(* routed (a ramp or migrate step, a cutover, a read-only switch).  It     *)
(* writes a hold into the directory, waits until every proxy that could    *)
(* route by the old rule has proved its gate closed and drained, then      *)
(* commits (internal/control: runBarrier, fencedStep, runCutover,          *)
(* runReadOnly, cancelOperation, resumeOperation).  The proofs come in     *)
(* heartbeats (internal/member), which the control plane keeps per member  *)
(* and per process, an "incarnation" (internal/cp/fleet.go).               *)
(*                                                                         *)
(* A proxy's own machinery is ProxyGates; here it is reduced to the        *)
(* version it has installed, its gate and its restart cache.  Requests     *)
(* may route by an older version than the installed one, and the gate      *)
(* opens later then: ProxyGates admits no more than the gate does here.    *)
(* Version 0 is the empty directory a proxy without a cache starts from.   *)
(* A rule is named by the operation that committed it, 0 the first.        *)
(***************************************************************************)
EXTENDS Integers, FiniteSets

CONSTANTS Proxies,     \* proxy ids
          Members,     \* those that are members when the model starts
          Kinds,       \* the operations that run
          Faults,      \* what goes wrong in this instance
          MaxVersion,  \* bound: directory versions
          MaxOps,      \* bound: operations
          MaxInc,      \* bound: processes per proxy
          MaxDelayed   \* bound: heartbeats of a proxy on their way

\* "stop": a process crashes or is stopped; "expire": a live member's lease expires;
\* "owner": an operation loses its owner;
\* "lapse": the owner is only taken for gone, while its directory write is on its way;
\* "join": a new member's first heartbeat is recorded after the directory has moved past the version
\*   it is answered with (docs/design/distributed-correctness.md says that the registration checks it);
\* "offline": a starting proxy loses the control plane, and has retired, or has no directory as new as
\*   the one it joined on.
ASSUME MembersKnown == Members \subseteq Proxies
ASSUME KindsKnown == Kinds \subseteq {"step", "cutover", "readonly"}
ASSUME FaultsKnown == Faults \subseteq {"stop", "expire", "owner", "lapse", "join", "offline"}
ASSUME BoundsPositive == /\ MaxVersion \in Nat \ {0} /\ MaxOps \in Nat
                         /\ MaxInc \in Nat \ {0} /\ MaxDelayed \in Nat \ {0}

Versions == 0 .. MaxVersion
Operations == 1 .. MaxOps
Rules == 0 .. MaxOps
Incs == 1 .. MaxInc
NoBarrier == 0

VARIABLES
    \* the directory, as etcd holds it
    cur,      \* the current version
    rule,     \* rule[v]: the rule mutations are routed by at version v
    bar,      \* bar[v]: the operation whose barrier version v carries
    \* the operations and their records
    ops,      \* operations begun
    kind,     \* their kinds
    status,   \* their records' status
    pc,       \* where the owner is; the record's phase follows it
    need,     \* the version the precondition waits for
    wrote,    \* the version the owner's hold() returned
    hold,     \* the record's HoldVersion
    late,     \* directory writes of owners taken for gone, still on their way
    \* the proxies' processes
    proc,     \* down, joining, asked, answered or up
    inc,      \* the process's incarnation
    mark,     \* what the marker file says of each incarnation
    inst,     \* Client.snap
    closed,   \* the placement's gate
    from,     \* the version the gate reopened at, or the process began to serve on
    durable,  \* the version the restart cache holds
    flight,   \* flight[p][i]: the rules by which incarnation i's outstanding mutations were routed
    answer,   \* the version the proxy was answered with when it joined
    hb,       \* heartbeats on their way
    \* the fleet's records
    mState,   \* Current's state; none: Current is nil, unknown: no record
    mInc,     \* Current's incarnation, or the last one
    unres,    \* Unresolved
    resolved, \* Resolved, and what forget proved ended
    live,     \* the proxies key holds
    rep       \* what it says

directory == <<cur, rule, bar>>
records == <<ops, kind, status, pc, need, wrote, hold, late>>
gate == <<closed, from>>
process == <<proc, inc, mark, inst, closed, from, durable, flight, answer, hb>>
fleet == <<mState, mInc, unres, resolved, live, rep>>
vars == <<cur, rule, bar, ops, kind, status, pc, need, wrote, hold, late,
          proc, inc, mark, inst, closed, from, durable, flight, answer, hb,
          mState, mInc, unres, resolved, live, rep>>

Reports == [inc : Incs, applied : Versions, durable : Versions, ack : Rules]
NoReport == [inc |-> 1, applied |-> 0, durable |-> 0, ack |-> NoBarrier]
Stages == {"none", "precondition", "hold", "held", "drain", "commit", "write", "committed", "cancel"}
Statuses == {"none", "running", "lost", "cancelled", "corrected", "failed", "succeeded"}
Terminal == {"cancelled", "corrected", "failed", "succeeded"}
Marks == {"none", "active", "retired", "unclean"}

\* The members have settled on version 1 in their first process; the others never started.
At(p) == IF p \in Members THEN 1 ELSE 0

Init ==
    /\ cur = 1
    /\ rule = [v \in Versions |-> 0] /\ bar = [v \in Versions |-> NoBarrier]
    /\ ops = 0
    /\ kind = [o \in Operations |-> "step"]
    /\ status = [o \in Operations |-> "none"]
    /\ pc = [o \in Operations |-> "none"]
    /\ need = 0 /\ wrote = 0
    /\ hold = [o \in Operations |-> 0]
    /\ late = {}
    /\ proc = [p \in Proxies |-> IF p \in Members THEN "up" ELSE "down"]
    /\ inc = [p \in Proxies |-> At(p)]
    /\ mark = [p \in Proxies |-> [i \in Incs |-> IF i <= At(p) THEN "active" ELSE "none"]]
    /\ inst = [p \in Proxies |-> At(p)] /\ durable = [p \in Proxies |-> At(p)]
    /\ from = [p \in Proxies |-> At(p)]
    /\ mState = [p \in Proxies |-> IF p \in Members THEN "active" ELSE "unknown"]
    /\ live = [p \in Proxies |-> p \in Members]
    /\ rep = [p \in Proxies |-> [inc |-> 1, applied |-> At(p), durable |-> At(p), ack |-> NoBarrier]]
    /\ closed = [p \in Proxies |-> NoBarrier]
    /\ flight = [p \in Proxies |-> [i \in Incs |-> {}]]
    /\ answer = [p \in Proxies |-> 0]
    /\ hb = [p \in Proxies |-> {}]
    /\ mInc = [p \in Proxies |-> At(p)]
    /\ unres = [p \in Proxies |-> {}]
    /\ resolved = [p \in Proxies |-> {}]
-----------------------------------------------------------------------------
(* The directory.  Every write is a new version.                           *)

Write(r, b) ==
    /\ cur < MaxVersion
    /\ cur' = cur + 1
    /\ rule' = [rule EXCEPT ![cur + 1] = r]
    /\ bar' = [bar EXCEPT ![cur + 1] = b]

\* A change of something else than the placement.
Touch ==
    /\ Write(rule[cur], bar[cur])
    /\ UNCHANGED <<records, process, fleet>>
-----------------------------------------------------------------------------
(* What keeps an operation waiting, by member.                             *)

Counted(p) == mState[p] # "unknown"
Retired(p) == mState[p] = "retired"

versionBlocked(p, v) ==
    /\ Counted(p)
    /\ \/ unres[p] # {}
       \/ ~Retired(p) /\ (~live[p] \/ rep[p].applied < v)

\* Mutated forms of drainBlocked: earlier processes are forgotten; versions need not be durable.
drainBlockedForgets(p, o) ==
    Counted(p) /\ ~Retired(p) /\ (~live[p] \/ rep[p].ack # o \/ rep[p].durable < hold[o])

drainBlockedInMemory(p, o) ==
    /\ Counted(p)
    /\ \/ unres[p] # {}
       \/ ~Retired(p) /\ (~live[p] \/ rep[p].ack # o \/ rep[p].applied < hold[o])

drainBlocked(p, o) ==
    /\ Counted(p)
    /\ \/ unres[p] # {}
       \/ ~Retired(p) /\ (~live[p] \/ rep[p].ack # o \/ rep[p].durable < hold[o])
-----------------------------------------------------------------------------
(* The operations.  `pc' is a run's place in runBarrier; a run that lost   *)
(* its record stops at its next check, so only "running" ones step.        *)

Running(o, place) == status[o] = "running" /\ pc[o] = place
Goto(o, place) == pc' = [pc EXCEPT ![o] = place]
Become(o, state) == status' = [status EXCEPT ![o] = state]

\* The run ends, and what it had in memory goes.
End(o, outcome) == Become(o, outcome) /\ Goto(o, "none") /\ need' = 0 /\ wrote' = 0
Stay == UNCHANGED <<status, need>>

\* One unfinished operation reserves the placement.  Read-only is switched on without a precondition.
begin(k) ==
    /\ ops < MaxOps
    /\ \A o \in Operations : o <= ops => status[o] \in Terminal
    /\ ops' = ops + 1
    /\ kind' = [kind EXCEPT ![ops + 1] = k]
    /\ Become(ops + 1, "running")
    /\ Goto(ops + 1, IF k = "readonly" THEN "hold" ELSE "precondition")
    /\ need' = IF k = "readonly" THEN 0 ELSE cur
    /\ UNCHANGED <<directory, wrote, hold, late, process, fleet>>

precondition(o) ==
    /\ Running(o, "precondition")
    /\ \A p \in Proxies : ~versionBlocked(p, need)
    /\ Goto(o, "hold") /\ need' = 0
    /\ UNCHANGED <<directory, ops, kind, status, wrote, hold, late, process, fleet>>

\* What the directory requires of a hold.  A step is refused only over a held step; the barrier a
\* read-only change left behind is replaced (a cutover's is on a placement no step starts from).
Holdable(o) == bar[cur] # NoBarrier => kind[o] = "step" /\ kind[bar[cur]] = "readonly"

\* hold(): finds its own hold, or writes it, or is refused by another operation's.
writeHold(o) ==
    /\ Running(o, "hold")
    /\ \/ bar[cur] # o /\ Holdable(o) /\ Write(rule[cur], o) /\ wrote' = cur + 1 /\ Goto(o, "held") /\ Stay
       \/ bar[cur] = o /\ UNCHANGED directory /\ wrote' = cur /\ Goto(o, "held") /\ Stay
       \/ bar[cur] # o /\ ~Holdable(o) /\ UNCHANGED directory /\ End(o, "failed")
    /\ UNCHANGED <<ops, kind, hold, late, process, fleet>>

\* Mutated form of recordHold: the version after the hold's is recorded.
recordHoldOffByOne(o) ==
    /\ Running(o, "held")
    /\ hold' = [hold EXCEPT ![o] = wrote + 1] /\ wrote' = 0
    /\ Goto(o, "drain")
    /\ UNCHANGED <<directory, ops, kind, status, need, late, process, fleet>>

recordHold(o) ==
    /\ Running(o, "held")
    /\ hold' = [hold EXCEPT ![o] = wrote] /\ wrote' = 0
    /\ Goto(o, "drain")
    /\ UNCHANGED <<directory, ops, kind, status, need, late, process, fleet>>

\* A scope that no longer carries the barrier is not drained: the commit reconciles.
drain(o) ==
    /\ Running(o, "drain")
    /\ bar[cur] = o => \A p \in Proxies : ~drainBlocked(p, o)
    /\ Goto(o, "commit")
    /\ UNCHANGED <<directory, ops, kind, status, need, wrote, hold, late, process, fleet>>

\* commit() reads the directory first.
commitRead(o) ==
    /\ Running(o, "commit")
    /\ \/ bar[cur] = o /\ Goto(o, "write") /\ Stay /\ UNCHANGED wrote
       \/ bar[cur] # o /\ rule[cur] = o /\ Goto(o, "committed") /\ Stay /\ UNCHANGED wrote
       \/ bar[cur] # o /\ rule[cur] # o /\ End(o, "cancelled")
    /\ UNCHANGED <<directory, ops, kind, hold, late, process, fleet>>

\* Mutated form of Completes: the barrier's id is not compared.
CompletesAny(o) == bar[cur] # NoBarrier

\* What the directory requires of the write: a step completes whatever step is held,
\* the others name their barrier.
Completes(o) == IF kind[o] = "step" THEN bar[cur] # NoBarrier /\ kind[bar[cur]] = "step"
                                    ELSE bar[cur] = o

commitWrite(o) ==
    /\ Running(o, "write")
    /\ \/ Completes(o) /\ Write(o, NoBarrier) /\ Goto(o, "committed") /\ Stay /\ UNCHANGED wrote
       \/ ~Completes(o) /\ UNCHANGED directory /\ End(o, "failed")
    /\ UNCHANGED <<ops, kind, hold, late, process, fleet>>

\* A backend or the control plane fails while the commit is prepared.
commitFails(o) ==
    /\ Running(o, "commit") \/ Running(o, "write")
    /\ End(o, "failed")
    /\ UNCHANGED <<directory, ops, kind, hold, late, process, fleet>>

recordCommit(o) ==
    /\ Running(o, "committed")
    /\ End(o, "succeeded")
    /\ UNCHANGED <<directory, ops, kind, hold, late, process, fleet>>
-----------------------------------------------------------------------------
(* Owners lost, operations resumed and cancelled.                          *)

\* The owner's node stops, or only its liveness key lapses and the write it is making goes on.
\* Without a barrier on its record the operation ends.
ownerLost(o) ==
    /\ "owner" \in Faults /\ status[o] = "running"
    /\ End(o, IF pc[o] = "precondition" THEN "failed" ELSE "lost")
    /\ \/ late' = late
       \/ /\ pc[o] \in {"hold", "write"}
          /\ "lapse" \in Faults \/ (kind[o] # "step" /\ pc[o] = "write")
          /\ late' = late \cup {[op |-> o, what |-> pc[o]]}
    /\ UNCHANGED <<directory, ops, kind, hold, process, fleet>>

\* The write of an owner taken for gone reaches the directory.
lateWrite(w) ==
    /\ w \in late
    /\ late' = late \ {w}
    /\ IF w.what = "hold"
       THEN IF Holdable(w.op) THEN Write(rule[cur], w.op) ELSE UNCHANGED directory
       ELSE IF Completes(w.op) THEN Write(w.op, NoBarrier) ELSE UNCHANGED directory
    /\ UNCHANGED <<ops, kind, status, pc, need, wrote, hold, process, fleet>>

\* Mutated form of resumeOperation: a recorded hold is taken for a drained one.
resumeOperationDrained(o) ==
    /\ status[o] = "lost"
    /\ Become(o, "running")
    /\ Goto(o, IF hold[o] = 0 THEN "hold" ELSE "commit")
    /\ UNCHANGED <<directory, ops, kind, need, wrote, hold, late, process, fleet>>

resumeOperation(o) ==
    /\ status[o] = "lost"
    /\ Become(o, "running")
    /\ Goto(o, IF hold[o] = 0 THEN "hold" ELSE "drain")
    /\ UNCHANGED <<directory, ops, kind, need, wrote, hold, late, process, fleet>>

notCancellable(o) == status[o] = "running" /\ pc[o] \notin {"precondition", "drain"}

\* The record ends first; the owner finds its next write of it stale.
cancelOperation(o) ==
    /\ status[o] \in {"running", "lost"}
    /\ ~notCancellable(o)
    /\ Become(o, "cancelled") /\ Goto(o, "cancel") /\ need' = 0 /\ wrote' = 0
    /\ UNCHANGED <<directory, ops, kind, hold, late, process, fleet>>

\* Mutated form of releaseHold: what was in force at the hold is restored, whatever is held now.
releaseHoldUncompared(o) ==
    /\ status[o] = "cancelled" /\ pc[o] = "cancel" /\ hold[o] > 0
    /\ Goto(o, "none")
    /\ Write(rule[hold[o]], NoBarrier)
    /\ UNCHANGED <<status, ops, kind, need, wrote, hold, late, process, fleet>>

\* Then the hold is released, compared on its id.  A recorded hold that is gone is taken for
\* committed, and the record corrected; or the canceling node fails before any of it.
releaseHold(o) ==
    /\ status[o] = "cancelled" /\ pc[o] = "cancel"
    /\ Goto(o, "none")
    /\ \/ bar[cur] = o /\ Write(rule[cur], NoBarrier) /\ UNCHANGED status
       \/ bar[cur] # o /\ hold[o] > 0 /\ UNCHANGED directory /\ Become(o, "corrected")
       \/ UNCHANGED <<directory, status>>
    /\ UNCHANGED <<ops, kind, need, wrote, hold, late, process, fleet>>

\* A repeated cancellation releases a hold that is still there.
releaseCanceled(o) ==
    /\ status[o] = "cancelled" /\ bar[cur] = o
    /\ Write(rule[cur], NoBarrier)
    /\ UNCHANGED <<records, process, fleet>>
-----------------------------------------------------------------------------
(* The proxies.                                                            *)

\* A fetch, from any control node, so of any version; the gate follows it (GateKeeper).
install(p) ==
    /\ proc[p] \notin {"down", "asked"}
    /\ \E v \in Versions :
        /\ inst[p] < v /\ v <= cur
        /\ inst' = [inst EXCEPT ![p] = v]
        /\ closed' = [closed EXCEPT ![p] = bar[v]]
        /\ from' = [from EXCEPT ![p] = IF closed[p] # NoBarrier /\ bar[v] = NoBarrier THEN v ELSE @]
    /\ UNCHANGED <<directory, records, proc, inc, mark, durable, flight, answer, hb, fleet>>

persist(p) ==
    /\ proc[p] # "down" /\ durable[p] < inst[p]
    /\ durable' = [durable EXCEPT ![p] = inst[p]]
    /\ UNCHANGED <<directory, records, proc, inc, mark, inst, gate, flight, answer, hb, fleet>>

\* A mutation enters the gate with the version it routes by, which it may have taken long ago.
Enter(p, v) ==
    /\ proc[p] = "up"
    /\ closed[p] = NoBarrier
    /\ from[p] <= v /\ v <= inst[p] /\ v > 0
    /\ flight' = [flight EXCEPT ![p][inc[p]] = @ \cup {rule[v]}]
    /\ UNCHANGED <<directory, records, proc, inc, mark, inst, gate, durable, answer, hb, fleet>>

\* A backend is done with the mutations of incarnation i routed by r.
Release(p, i, r) ==
    /\ r \in flight[p][i]
    /\ flight' = [flight EXCEPT ![p][i] = @ \ {r}]
    /\ UNCHANGED <<directory, records, proc, inc, mark, inst, gate, durable, answer, hb, fleet>>
-----------------------------------------------------------------------------
(* Processes start, join, retire and crash.                                *)

\* Load: the marker, then the cache; a write of the cache whose sync failed may be found.
Load(p) ==
    /\ proc[p] = "down" /\ inc[p] < MaxInc
    /\ proc' = [proc EXCEPT ![p] = "joining"]
    /\ inc' = [inc EXCEPT ![p] = @ + 1]
    /\ mark' = [mark EXCEPT ![p][inc[p] + 1] = "active"]
    /\ \E v \in Versions :
        /\ durable[p] <= v /\ v <= inst[p] /\ (durable[p] = 0 => v = 0)
        /\ inst' = [inst EXCEPT ![p] = v]
        /\ durable' = [durable EXCEPT ![p] = v]
        /\ closed' = [closed EXCEPT ![p] = bar[v]] /\ from' = [from EXCEPT ![p] = v]
    /\ UNCHANGED <<directory, records, flight, answer, hb, fleet>>

\* The process and its gate are gone; the version last installed may be found in the cache.
Exit(p) ==
    /\ proc' = [proc EXCEPT ![p] = "down"]
    /\ closed' = [closed EXCEPT ![p] = NoBarrier] /\ from' = [from EXCEPT ![p] = 0]

crash(p) ==
    /\ "stop" \in Faults /\ proc[p] # "down"
    /\ Exit(p)
    /\ UNCHANGED <<directory, records, inc, mark, inst, durable, flight, answer, hb, fleet>>

\* The process stops admitting, drains, and marks its end; what it cannot drain makes it unclean.
Retire(p) ==
    /\ "stop" \in Faults /\ proc[p] = "up"
    /\ Exit(p)
    /\ mark' = [mark EXCEPT ![p][inc[p]] = IF flight[p][inc[p]] = {} THEN "retired" ELSE "unclean"]
    /\ UNCHANGED <<directory, records, inc, inst, durable, flight, answer, hb, fleet>>

\* beat: what the process says of itself, on its way to a control node.
Report(p) == [inc |-> inc[p], applied |-> inst[p], durable |-> durable[p],
              ack |-> IF flight[p][inc[p]] = {} THEN bar[inst[p]] ELSE NoBarrier]

beat(p) ==
    /\ proc[p] = "up"
    /\ \E kept \in SUBSET hb[p] :
        /\ Cardinality(kept) < MaxDelayed
        /\ hb' = [hb EXCEPT ![p] = kept \cup {Report(p)}]
    /\ UNCHANGED <<directory, records, proc, inc, mark, inst, gate, durable, flight, answer, fleet>>
-----------------------------------------------------------------------------
(* The fleet's records.                                                    *)

\* Fleet.Heartbeat with report m: the earlier processes of the proxy are on it, as their markers
\* left them.  A clean one is retired; every other one that has not been resolved is unresolved.
Heartbeat(p, m) ==
    LET clean == {i \in Incs : i < m.inc /\ mark[p][i] = "retired"}
        replaced == IF mState[p] = "active" /\ mInc[p] # m.inc THEN {mInc[p]} ELSE {}
        previous == {i \in Incs : i < m.inc /\ i \notin clean \cup resolved[p]}
    IN  /\ unres' = [unres EXCEPT ![p] = ((@ \cup replaced) \ clean) \cup previous]
        /\ mState' = [mState EXCEPT ![p] = IF mInc[p] = m.inc /\ @ = "retired" THEN @ ELSE "active"]
        /\ mInc' = [mInc EXCEPT ![p] = m.inc]
        /\ live' = [live EXCEPT ![p] = TRUE]
        /\ rep' = [rep EXCEPT ![p] = m]
        /\ UNCHANGED resolved

\* A heartbeat arrives, perhaps late, perhaps again.
heartbeat(p) ==
    /\ \E m \in hb[p] : Heartbeat(p, m)
    /\ UNCHANGED <<directory, records, process>>

\* The proxies key goes.
Vanishes(p) == live' = [live EXCEPT ![p] = FALSE] /\ rep' = [rep EXCEPT ![p] = NoReport]

\* Mutated form of fleetRetire: the retirement ends whatever process is current.
fleetRetireCurrent(p, i) ==
    /\ mark[p][i] \in {"retired", "unclean"} /\ mState[p] = "active"
    /\ mState' = [mState EXCEPT ![p] = IF mark[p][i] = "retired" THEN "retired" ELSE "none"]
    /\ Vanishes(p)
    /\ UNCHANGED <<directory, records, process, mInc, unres, resolved>>

\* The retirement of incarnation i arrives, perhaps late, perhaps again.
fleetRetire(p, i) ==
    /\ mark[p][i] \in {"retired", "unclean"}
    /\ LET clean == mark[p][i] = "retired" IN
       \/ /\ mState[p] = "active" /\ mInc[p] = i
          /\ mState' = [mState EXCEPT ![p] = IF clean THEN "retired" ELSE "none"]
          /\ unres' = [unres EXCEPT ![p] = IF clean THEN @ ELSE @ \cup {i}]
          /\ Vanishes(p)
       \/ /\ ~(mState[p] \in {"active", "retired"} /\ mInc[p] = i)
          /\ clean /\ i \in unres[p]
          /\ unres' = [unres EXCEPT ![p] = @ \ {i}]
          /\ UNCHANGED <<mState, live, rep>>
    /\ UNCHANGED <<directory, records, process, mInc, resolved>>

leaseExpires(p) ==
    /\ live[p] /\ ("expire" \in Faults \/ proc[p] # "up")
    /\ Vanishes(p)
    /\ UNCHANGED <<directory, records, process, mState, mInc, unres, resolved>>

\* What the operator attests: the proxy's ended processes have nothing left that may reach a backend,
\* those after i nothing that may reach the control plane, and no process of it runs unregistered.
Attested(p, i) ==
    /\ \A j \in Incs : j < inc[p] \/ proc[p] # "up" => flight[p][j] = {}
    /\ \A m \in hb[p] : m.inc <= i \/ (m.inc = inc[p] /\ proc[p] = "up")
    /\ proc[p] \notin {"up", "answered"} \/ (mState[p] = "active" /\ mInc[p] = inc[p] /\ i # inc[p])

Resolve(p, i) ==
    /\ Attested(p, i)
    /\ \/ /\ i \in unres[p]
          /\ unres' = [unres EXCEPT ![p] = @ \ {i}]
          /\ mState' = mState
       \/ /\ i \notin unres[p]
          /\ mState[p] = "active" /\ mInc[p] = i /\ ~live[p]
          /\ mState' = [mState EXCEPT ![p] = "none"]
          /\ unres' = unres
    /\ resolved' = [resolved EXCEPT ![p] = @ \cup {i}]
    /\ UNCHANGED <<directory, records, process, mInc, live, rep>>

\* The operator stops the proxy first.
Forget(p) ==
    /\ ~live[p] /\ mState[p] \in {"retired", "none"} /\ unres[p] = {}
    /\ proc[p] \notin {"up", "answered"}
    /\ mState' = [mState EXCEPT ![p] = "unknown"]
    /\ resolved' = [resolved EXCEPT ![p] = @ \cup (IF Retired(p) THEN {mInc[p]} ELSE {})]
    /\ UNCHANGED <<directory, records, process, mInc, unres, live, rep>>
-----------------------------------------------------------------------------
(* Register: the directory is fetched, then the first heartbeat sent; its  *)
(* handler reads the version to answer before it records the member.       *)

\* A proxy whose last process did not retire, and of which every barrier waits.
Unretired(p) == /\ mState[p] = "active"
                /\ \A i \in Incs : mInc[p] <= i /\ i < inc[p]
                                        => mark[p][i] # "retired" /\ i \notin resolved[p]

registerRead(p) ==
    /\ proc[p] = "joining" /\ inst[p] > 0
    /\ proc' = [proc EXCEPT ![p] = "asked"]
    /\ answer' = [answer EXCEPT ![p] = IF Unretired(p) THEN @ ELSE cur]
    /\ UNCHANGED <<directory, records, inc, mark, inst, gate, durable, flight, hb, fleet>>

\* Nothing compares the version answered with the current one: see "join".
registerRecord(p) ==
    /\ proc[p] = "asked"
    /\ "join" \in Faults \/ Unretired(p) \/ answer[p] = cur
    /\ Heartbeat(p, Report(p))
    /\ proc' = [proc EXCEPT ![p] = "answered"]
    /\ UNCHANGED <<directory, records, inc, mark, inst, gate, durable, flight, answer, hb>>

\* Joined and on the version answered; or the control plane was not reached, and the process
\* serves the directory it has, whatever that is: see "offline".
serve(p) ==
    /\ inst[p] > 0 /\ proc[p] \in {"joining", "asked", "answered"}
    /\ \/ inst[p] >= answer[p] /\ (proc[p] = "answered" \/ Unretired(p))
       \/ "offline" \in Faults
    /\ proc' = [proc EXCEPT ![p] = "up"]
    /\ from' = [from EXCEPT ![p] = inst[p]]
    /\ UNCHANGED <<directory, records, inc, mark, inst, closed, durable, flight, answer, hb, fleet>>
-----------------------------------------------------------------------------
Operation(o) ==
    \/ precondition(o) \/ writeHold(o) \/ recordHold(o) \/ drain(o)
    \/ commitRead(o) \/ commitWrite(o) \/ commitFails(o) \/ recordCommit(o)
    \/ ownerLost(o) \/ resumeOperation(o) \/ cancelOperation(o)
    \/ releaseHold(o) \/ releaseCanceled(o)

Proxy(p) ==
    \/ install(p) \/ persist(p)
    \/ \E v \in Versions : Enter(p, v)
    \/ \E r \in Rules, i \in Incs : Release(p, i, r)
    \/ Load(p) \/ crash(p) \/ Retire(p) \/ beat(p)
    \/ registerRead(p) \/ registerRecord(p) \/ serve(p)

Fleet(p) ==
    \/ heartbeat(p) \/ leaseExpires(p) \/ Forget(p)
    \/ \E i \in Incs : fleetRetire(p, i) \/ Resolve(p, i)

Next ==
    \/ Touch
    \/ \E k \in Kinds : begin(k)
    \/ \E o \in Operations : Operation(o)
    \/ \E w \in late : lateWrite(w)
    \/ \E p \in Proxies : Proxy(p) \/ Fleet(p)

Spec == Init /\ [][Next]_vars
-----------------------------------------------------------------------------
TypeOK ==
    /\ cur \in Versions /\ rule \in [Versions -> Rules] /\ bar \in [Versions -> Rules]
    /\ ops \in Rules /\ kind \in [Operations -> {"step", "cutover", "readonly"}]
    /\ status \in [Operations -> Statuses] /\ pc \in [Operations -> Stages]
    /\ need \in Versions /\ wrote \in Versions /\ hold \in [Operations -> Versions]
    /\ late \subseteq [op : Operations, what : {"hold", "write"}]
    /\ proc \in [Proxies -> {"down", "joining", "asked", "answered", "up"}]
    /\ inc \in [Proxies -> 0 .. MaxInc] /\ mark \in [Proxies -> [Incs -> Marks]]
    /\ inst \in [Proxies -> Versions]
    /\ closed \in [Proxies -> Rules] /\ from \in [Proxies -> Versions]
    /\ durable \in [Proxies -> Versions]
    /\ flight \in [Proxies -> [Incs -> SUBSET Rules]]
    /\ answer \in [Proxies -> Versions] /\ hb \in [Proxies -> SUBSET Reports]
    /\ mState \in [Proxies -> {"unknown", "active", "retired", "none"}]
    /\ mInc \in [Proxies -> 0 .. MaxInc] /\ unres \in [Proxies -> SUBSET Incs]
    /\ resolved \in [Proxies -> SUBSET Incs] /\ live \in [Proxies -> BOOLEAN]
    /\ rep \in [Proxies -> Reports]

\* Every mutation that may still reach a backend, of whatever process, was routed by the rule the
\* directory holds: a commit never leaves work of the rule it replaces behind (runBarrier).
OneRule == \A p \in Proxies, i \in Incs : flight[p][i] \subseteq {rule[cur]}

\* No process serves by a version older than the hold of the change in force, not even one that
\* restarted from its cache or joined since: drainBlockers counts durable versions, and a starting
\* proxy joins before it serves.
NoneBehindHold ==
    \A p \in Proxies, o \in Operations : proc[p] = "up" /\ rule[cur] = o => inst[p] >= hold[o]

\* Every process that serves keeps barriers waiting: its proxy is a member that has not retired, or
\* has a process that is not accounted for, however heartbeats, retirements and restarts cross.
ServerBlocks ==
    \A p \in Proxies : proc[p] = "up" => Counted(p) /\ (unres[p] # {} \/ ~Retired(p))

\* A hold goes only with its own commit, or after its operation was canceled, or when it was left by
\* an operation that ended (Transition.Complete's comment: a hold released concurrently must not be completed).
HoldStands ==
    [][\A o \in Operations : bar[cur] = o /\ bar'[cur'] # o =>
            rule'[cur'] = o \/ (rule'[cur'] = rule[cur] /\ status[o] \in Terminal)]_vars

\* A rule that was replaced never comes back, whichever owners' commits are still on their way.
NoRuleReturns == \A v \in 1 .. cur - 1 : rule[v] <= rule[v + 1]

\* A hold in the directory belongs to an operation that can still be resumed or canceled
\* (fencedStep's refusal: "resume or cancel that operation").
HoldOwned == \A o \in Operations : bar[cur] = o => status[o] \in {"running", "lost", "cancelled"}
=============================================================================
