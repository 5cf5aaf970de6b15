------------------------- MODULE DrainBarrierProofs -------------------------
(***************************************************************************)
(* DrainBarrier keeps one rule.  Every step keeps FleetOK, the part of the *)
(* invariant about the proxies' processes and their records; OpsOK, the    *)
(* part about the directory and the operations' records; DrainOK, what a   *)
(* drain proves; and RouteOK, who may serve.  The theorems follow.         *)
(***************************************************************************)
EXTENDS DrainProcessProofs

\* First-order leaves are Zenon's; a leaf that needs arithmetic or records names SMT.
USE ZenonT(30)

USE BoundsPositive DEF Versions, Operations, Rules, Incs, NoBarrier
-----------------------------------------------------------------------------
(* The proxies and the fleet's records of them. *)

\* A proxy's lease expires.
LEMMA LeaseLocal ==
    ASSUME TypeOK, NEW p \in Proxies, Local(p), leaseExpires(p)
    PROVE  Local(p)'
<1>1. live'[p] = FALSE
    <2>1. FleetType BY TypeParts
    <2> QED BY <2>1 DEF leaseExpires, Vanishes, FleetType
<1>2. UNCHANGED <<directory, process, mState, mInc, unres, resolved>> BY DEF leaseExpires
<1>3. ProcessOK(p)' BY <1>2 DEF Local, ProcessOK, directory, process
<1>4. RecordOK(p)' BY <1>1, <1>2 DEF Local, RecordOK, process
<1>5. ClearedEmpty(p)' BY <1>2 DEF Local, ClearedEmpty, Cleared, process
<1>6. Covered(p)' BY <1>2, CoversFrame DEF Local, Covered, Heard, process
<1>7. ReportsTrue(p)'
    BY <1>1, <1>2 DEF Local, ReportsTrue, True, Carried, directory, process
<1> QED BY <1>3, <1>4, <1>5, <1>6, <1>7 DEF Local

\* An operator retires an incarnation.
LEMMA FleetRetireLocal ==
    ASSUME TypeOK, NEW p \in Proxies, Local(p), NEW i \in Incs, fleetRetire(p, i)
    PROVE  Local(p)'
<1>t. FleetType BY TypeParts
<1>1. UNCHANGED <<directory, process, mInc, resolved>> BY DEF fleetRetire
<1>2. \/ /\ mState[p] = "active" /\ mInc[p] = i /\ live'[p] = FALSE
         /\ mark[p][i] = "retired" /\ mState'[p] = "retired" /\ unres'[p] = unres[p]
      \/ /\ mState[p] = "active" /\ mInc[p] = i /\ live'[p] = FALSE
         /\ mark[p][i] # "retired" /\ mState'[p] = "none" /\ unres'[p] = unres[p] \cup {i}
      \/ /\ mark[p][i] = "retired" /\ unres'[p] = unres[p] \ {i}
         /\ mState' = mState /\ live' = live /\ rep' = rep
    BY <1>t DEF fleetRetire, Vanishes, FleetType
<1>3. ProcessOK(p)' BY <1>1 DEF Local, ProcessOK, directory, process
<1>4. \A j : Cleared(p, j)' = Cleared(p, j) BY <1>1 DEF Cleared, process
<1>5. RecordOK(p)'
    <2>1. i <= inc[p] \/ unres'[p] \subseteq unres[p] BY <1>2, Order
    <2>2. mInc[p] = i /\ mState[p] = "active" /\ proc[p] \in {"joining", "asked"} => i # inc[p]
        <3>1. proc[p] \in {"joining", "asked"} => mInc[p] < inc[p] BY DEF Local, RecordOK
        <3> QED BY <3>1, IncTypes
    <2>3. i > 0 BY SMTT(30)
    <2> USE <1>1 DEF RecordOK, process
    <2>k. RecordOK(p) BY DEF Local
    <2>4. CASE mState'[p] = "retired" /\ mState[p] = "active"
        BY <1>2, <2>3, <2>4, <2>k
    <2>5. CASE mState'[p] = "none" /\ mState[p] = "active"
        <3>1. unres'[p] = unres[p] \cup {i} /\ live'[p] = FALSE /\ mInc[p] = i BY <1>2, <2>5
        <3>2. i <= inc[p] BY <3>1, Order
        <3>3. \A j \in unres'[p] \cup resolved[p] : j <= inc[p] BY <3>1, <3>2, <2>k
        <3> QED BY <2>5, <3>1, <3>3, <2>2, <2>k
    <2>6. CASE mState' = mState /\ live' = live /\ rep' = rep /\ unres'[p] = unres[p] \ {i}
        <3>1. \A j \in unres'[p] : j \in unres[p] BY <2>6
        <3>2. unres[p] = {} => unres'[p] = {} BY <2>6
        <3> QED BY <2>6, <2>k, <3>1, <3>2
    <2> QED BY <1>2, <2>4, <2>5, <2>6
<1>6. ClearedEmpty(p)' BY <1>1, <1>4 DEF Local, ClearedEmpty, process
<1>7. Covered(p)'
    <2>1. \A k \in Incs : Tracked(p, k) /\ ~Cleared(p, k) => Tracked(p, k)'
        <3>1. \A k \in Incs : ~Cleared(p, k) => mark[p][k] # "retired" BY DEF Cleared
        <3> QED BY <1>1, <1>2, <3>1 DEF Tracked
    <2>2. \A j \in Incs : Heard(p, j)' = Heard(p, j) BY <1>1 DEF Heard, process
    <2>3. \A j \in Incs : Covers(p, j) => Covers(p, j)' BY <1>4, <2>1, CoversKept
    <2> QED BY <1>4, <2>2, <2>3 DEF Local, Covered
<1>8. ReportsTrue(p)'
    <2>1. \A m : True(p, m)' = True(p, m) BY <1>1 DEF True, Carried, directory, process
    <2>2. hb' = hb /\ flight' = flight BY <1>1 DEF process
    <2>3. CASE live'[p] = FALSE BY <2>1, <2>2, <2>3 DEF Local, ReportsTrue
    <2>4. CASE mark[p][i] = "retired" /\ unres'[p] = unres[p] \ {i} /\ live' = live /\ rep' = rep
        <3>1. flight[p][i] = {} BY <2>4 DEF Local, ClearedEmpty, Cleared
        <3>2. \A j \in Incs : j \in unres[p] /\ flight[p][j] # {} => j \in unres'[p] BY <2>4, <3>1
        <3> QED BY <2>1, <2>2, <2>4, <3>2 DEF Local, ReportsTrue
    <2> QED BY <1>2, <2>3, <2>4
<1> QED BY <1>3, <1>5, <1>6, <1>7, <1>8 DEF Local

\* What the operator resolves has nothing left, and no process that may be heard of relied on it.
LEMMA ResolveLocal ==
    ASSUME TypeOK, NEW p \in Proxies, Local(p), NEW i \in Incs, Resolve(p, i)
    PROVE  Local(p)'
<1>t. FleetType BY TypeParts
<1>1. UNCHANGED <<directory, process, mInc, live, rep>> BY DEF Resolve
<1>2. /\ resolved'[p] = resolved[p] \cup {i}
      /\ \/ i \in unres[p] /\ unres'[p] = unres[p] \ {i} /\ mState'[p] = mState[p]
         \/ /\ i \notin unres[p] /\ mState[p] = "active" /\ mInc[p] = i /\ ~live[p]
            /\ mState'[p] = "none" /\ unres'[p] = unres[p]
    BY <1>t DEF Resolve, FleetType
<1>a. Attested(p, i) BY DEF Resolve
<1>3. i <= inc[p]
    <2>1. i \in unres[p] => i <= inc[p] BY DEF Local, RecordOK
    <2> QED BY <1>2, <2>1, Order
<1>4. flight[p][i] = {}
    <2>1. proc[p] = "up" => i # inc[p] BY <1>a DEF Attested
    <2>2. proc[p] = "up" => i < inc[p] BY SMTT(30), <1>3, <2>1, Types
    <2> QED BY <1>a, <2>2 DEF Attested
<1>5. \A j \in Incs : Cleared(p, j)' <=> Cleared(p, j) \/ j = i
    <2>1. mark' = mark BY <1>1 DEF process
    <2> QED BY <1>2, <2>1 DEF Cleared
<1>6. ProcessOK(p)' BY <1>1 DEF Local, ProcessOK, directory, process
<1>7. RecordOK(p)'
    <2>k. RecordOK(p) BY DEF Local
    <2>1. \A j \in unres'[p] \cup resolved'[p] : j <= inc[p]
        <3>1. \A j \in unres'[p] \cup resolved'[p] : j \in unres[p] \cup resolved[p] \/ j = i BY <1>2
        <3> QED BY <1>3, <2>k, <3>1 DEF RecordOK
    <2>2. proc[p] \in {"joining", "asked"} => inc[p] # i
        <3>1. proc[p] \in {"joining", "asked"} => mInc[p] < inc[p] /\ inc[p] \notin unres[p]
            BY <2>k DEF RecordOK
        <3> QED BY <1>2, <3>1, IncTypes
    <2>3. proc[p] \in {"joining", "asked"} => inc[p] \notin unres'[p] \cup resolved'[p]
        BY <1>2, <2>2, <2>k DEF RecordOK
    <2>4. proc[p] \in {"up", "answered"} => inc[p] \notin resolved'[p]
        BY <1>2, <1>a, <2>k DEF RecordOK, Attested
    <2>5. unres[p] = {} => unres'[p] = {} BY <1>2
    <2> QED BY <1>1, <1>2, <2>k, <2>1, <2>3, <2>4, <2>5 DEF RecordOK, process
<1>8. ClearedEmpty(p)' BY <1>1, <1>4, <1>5 DEF Local, ClearedEmpty, process
<1>9. Covered(p)'
    <2> SUFFICES ASSUME NEW j \in Incs, Heard(p, j)', ~Cleared(p, j)'
                 PROVE  Covers(p, j)'
        BY DEF Covered
    <2>r. j \in 0 .. MaxInc /\ i \in 0 .. MaxInc BY SMT
    <2>1. Heard(p, j) /\ ~Cleared(p, j) /\ j # i BY <1>1, <1>5 DEF Heard, process
    <2>2. CASE j < i
        <3>1. Covers(p, j) BY <2>1 DEF Local, Covered
        <3>2. \A k \in Incs : k <= j => k # i BY SMTT(30), <2>2
        <3>3. \A k \in Incs : k # i /\ Tracked(p, k) => Tracked(p, k)' BY <1>1, <1>2 DEF Tracked
        <3> QED BY <3>1, <3>2, <3>3, <1>5, CoversKept
    <2>3. CASE j > i
        <3>1. j = inc[p] /\ proc[p] \in {"up", "answered"}
            <4>1. ASSUME flight[p][j] # {} PROVE j = inc[p] /\ proc[p] = "up"
                <5>1. ~(j < inc[p]) /\ proc[p] = "up" BY <1>a, <4>1 DEF Attested
                <5>2. ~(j > inc[p]) BY <4>1 DEF Local, ProcessOK
                <5> QED BY <5>1, <5>2, IncTypes, <2>r, IncOrder
            <4>2. ASSUME NEW m \in hb[p], m.inc = j PROVE j = inc[p] /\ proc[p] = "up"
                <5>1. ~(j <= i) BY <2>3, <2>r, IncOrder
                <5> QED BY <1>a, <4>2, <5>1 DEF Attested
            <4> QED BY <2>1, <4>1, <4>2 DEF Heard
        <3>2. mState[p] = "active" /\ mInc[p] = inc[p] /\ i # inc[p] BY <1>a, <3>1 DEF Attested
        <3>3. Tracked(p, j)' BY <1>1, <1>2, <3>1, <3>2 DEF Tracked
        <3>4. \A k \in j .. j : k = j BY SMT
        <3>5. j <= j BY SMT
        <3> QED BY <3>3, <3>4, <3>5 DEF Covers
    <2> QED BY SMT, <2>1, <2>2, <2>3
<1>10. ReportsTrue(p)'
    <2>1. \A m : True(p, m)' = True(p, m) BY <1>1 DEF True, Carried, directory, process
    <2>2. hb' = hb /\ flight' = flight BY <1>1 DEF process
    <2>3. \A j \in Incs : j \in unres[p] /\ flight[p][j] # {} => j \in unres'[p] BY <1>2, <1>4
    <2> QED BY <1>1, <2>1, <2>2, <2>3 DEF Local, ReportsTrue
<1> QED BY <1>6, <1>7, <1>8, <1>9, <1>10 DEF Local

\* Nothing of a forgotten proxy was tracked.
LEMMA ForgetLocal ==
    ASSUME TypeOK, NEW p \in Proxies, Local(p), Forget(p)
    PROVE  Local(p)'
<1>t. FleetType BY TypeParts
<1>1. UNCHANGED <<directory, process, mInc, unres, live, rep>> BY DEF Forget
<1>2. /\ ~live[p] /\ mState[p] \in {"retired", "none"} /\ unres[p] = {}
      /\ proc[p] \notin {"up", "answered"} /\ mState'[p] = "unknown"
      /\ resolved'[p] = resolved[p] \cup (IF mState[p] = "retired" THEN {mInc[p]} ELSE {})
    BY <1>t DEF Forget, Retired, FleetType
<1>3. mState[p] = "retired" => mark[p][mInc[p]] = "retired" BY DEF Local, RecordOK
<1>4. \A j : Cleared(p, j)' = Cleared(p, j)
    <2>1. mark' = mark BY <1>1 DEF process
    <2> QED BY <1>2, <1>3, <2>1 DEF Cleared
<1>5. ProcessOK(p)' BY <1>1 DEF Local, ProcessOK, directory, process
<1>6. RecordOK(p)'
    <2>k. RecordOK(p) BY DEF Local
    <2>1. \A j \in resolved'[p] : j \in resolved[p] \/ j = mInc[p] BY <1>2
    <2>2. proc[p] \in {"joining", "asked"} => inc[p] # mInc[p] BY SMTT(30), <2>k, Types DEF RecordOK
    <2> QED BY <1>1, <1>2, <2>k, <2>1, <2>2 DEF RecordOK, process
<1>7. ClearedEmpty(p)' BY <1>1, <1>4 DEF Local, ClearedEmpty, process
<1>8. Covered(p)'
    <2>1. \A j \in Incs : Heard(p, j)' = Heard(p, j) BY <1>1 DEF Heard, process
    <2>2. \A j : ~Covers(p, j) BY <1>2 DEF Covers, Tracked
    <2> QED BY <1>4, <2>1, <2>2 DEF Local, Covered
<1>9. ReportsTrue(p)'
    BY <1>1, <1>2 DEF Local, ReportsTrue, True, Carried, directory, process
<1> QED BY <1>5, <1>6, <1>7, <1>8, <1>9 DEF Local
-----------------------------------------------------------------------------
\* The part about the fleet holds at the start.
LEMMA FleetInit == Init => FleetOK
<1> SUFFICES ASSUME Init, NEW p \in Proxies PROVE Local(p) BY DEF FleetOK
<1>1. /\ cur = 1 /\ bar = [v \in Versions |-> NoBarrier]
      /\ inc[p] = At(p) /\ inst[p] = At(p) /\ durable[p] = At(p) /\ from[p] = At(p) /\ mInc[p] = At(p)
    BY DEF Init
<1>2. /\ proc[p] = IF p \in Members THEN "up" ELSE "down"
      /\ mState[p] = IF p \in Members THEN "active" ELSE "unknown"
      /\ closed[p] = NoBarrier
    BY DEF Init
<1>3. /\ mark[p] = [i \in Incs |-> IF i <= At(p) THEN "active" ELSE "none"]
      /\ flight[p] = [i \in Incs |-> {}] /\ hb[p] = {} /\ unres[p] = {} /\ resolved[p] = {}
    BY DEF Init
<1>4. rep[p] = [inc |-> 1, applied |-> At(p), durable |-> At(p), ack |-> NoBarrier] BY DEF Init
<1>5. live[p] <=> p \in Members BY DEF Init
<1>6. (p \in Members /\ At(p) = 1) \/ (p \notin Members /\ At(p) = 0) BY DEF At
<1>7. \A i \in Incs : mark[p][i] # "retired" /\ flight[p][i] = {} BY <1>3
<1>8. ProcessOK(p)
    <2>1. CASE p \in Members BY SMTT(30), <1>1, <1>2, <1>3, <1>6, <2>1 DEF ProcessOK
    <2>2. CASE p \notin Members BY SMTT(30), <1>1, <1>2, <1>3, <1>6, <2>2 DEF ProcessOK
    <2> QED BY <2>1, <2>2
<1>9. RecordOK(p)
    <2>1. CASE p \in Members BY SMTT(30), <1>1, <1>2, <1>3, <1>4, <1>6, <2>1 DEF RecordOK
    <2>2. CASE p \notin Members BY SMT, <1>1, <1>2, <1>3, <1>5, <1>6, <2>2 DEF RecordOK
    <2> QED BY <2>1, <2>2
<1>10. ClearedEmpty(p) BY <1>7 DEF ClearedEmpty
<1>11. Covered(p)
    <2> SUFFICES ASSUME NEW i \in Incs, Heard(p, i) PROVE Covers(p, i) BY DEF Covered
    <2>1. p \in Members /\ i = 1 /\ i = mInc[p] BY <1>1, <1>2, <1>3, <1>6, <1>7 DEF Heard
    <2>2. Tracked(p, i) BY <1>2, <2>1 DEF Tracked
    <2>3. ~Cleared(p, i) BY <1>3, <1>7 DEF Cleared
    <2>4. i <= i /\ \A j \in i .. i : j = i BY SMT
    <2> QED BY <2>2, <2>3, <2>4 DEF Covers
<1>12. ReportsTrue(p) BY <1>3, <1>7 DEF ReportsTrue, True
<1> QED BY <1>8, <1>9, <1>10, <1>11, <1>12 DEF Local

\* An operation leaves the proxies alone, and writes at most one version.
LEMMA OperationFrame ==
    ASSUME TypeOK, NEW o \in Operations, Operation(o)
    PROVE  /\ UNCHANGED <<process, fleet>>
           /\ UNCHANGED directory \/ \E r, b \in Rules : Write(r, b)
<1>1. UNCHANGED <<process, fleet>>
    BY DEF Operation, precondition, writeHold, recordHold, drain, commitRead, commitWrite,
                 commitFails, recordCommit, ownerLost, resumeOperation, cancelOperation,
                 releaseHold, releaseCanceled
<1>2. rule[cur] \in Rules /\ o \in Rules /\ NoBarrier \in Rules BY SMT, TypeParts, InDirectory
<1>3. UNCHANGED directory \/ Write(rule[cur], o) \/ Write(o, NoBarrier) \/ Write(rule[cur], NoBarrier)
    BY DEF Operation, precondition, writeHold, recordHold, drain, commitRead, commitWrite,
                 commitFails, recordCommit, ownerLost, resumeOperation, cancelOperation,
                 releaseHold, releaseCanceled
<1> QED BY <1>1, <1>2, <1>3

\* A late write touches the directory alone.
LEMMA LateFrame ==
    ASSUME TypeOK, NEW w \in late, lateWrite(w)
    PROVE  /\ UNCHANGED <<process, fleet>>
           /\ UNCHANGED directory \/ \E r, b \in Rules : Write(r, b)
<1>1. rule[cur] \in Rules /\ w.op \in Rules /\ NoBarrier \in Rules
    BY SMT, TypeParts, InDirectory DEF RecordsType
<1> QED BY <1>1 DEF lateWrite

\* A step of one proxy leaves the others alone.
LEMMA ProxyFrame ==
    ASSUME TypeOK, NEW p \in Proxies, Proxy(p) \/ Fleet(p), NEW q \in Proxies, q # p
    PROVE  SameProcess(q) /\ SameRecord(q)
<1>t. ProcessType /\ FleetType BY TypeParts
<1>1. SameProcess(q)
    <2> USE <1>t DEF ProcessType, SameProcess, process, gate
    <2>1. CASE install(p) BY <2>1 DEF install
    <2>2. CASE persist(p) BY <2>2 DEF persist
    <2>3. CASE \E v \in Versions : Enter(p, v) BY <2>3 DEF Enter
    <2>4. CASE \E r \in Rules, i \in Incs : Release(p, i, r) BY <2>4 DEF Release
    <2>5. CASE Load(p) BY ZenonT(40), <2>5 DEF Load
    <2>6. CASE crash(p) BY <2>6 DEF crash, Exit
    <2>7. CASE Retire(p) BY <2>7 DEF Retire, Exit
    <2>8. CASE beat(p) BY <2>8 DEF beat
    <2>9. CASE registerRead(p) BY <2>9 DEF registerRead
    <2>10. CASE registerRecord(p) BY <2>10 DEF registerRecord
    <2>11. CASE serve(p) BY <2>11 DEF serve
    <2>12. CASE Fleet(p)
        BY <2>12 DEF Fleet, heartbeat, leaseExpires, Forget, fleetRetire, Resolve
    <2> QED BY <2>1, <2>2, <2>3, <2>4, <2>5, <2>6, <2>7, <2>8, <2>9, <2>10, <2>11, <2>12 DEF Proxy
<1>2. SameRecord(q)
    <2> USE <1>t DEF FleetType, SameRecord, fleet, Heartbeat, Vanishes
    <2>1. CASE heartbeat(p) BY ZenonT(40), <2>1 DEF heartbeat
    <2>2. CASE registerRecord(p) BY <2>2 DEF registerRecord
    <2>3. CASE leaseExpires(p) BY <2>3 DEF leaseExpires
    <2>4. CASE Forget(p) BY <2>4 DEF Forget
    <2>5. CASE \E i \in Incs : fleetRetire(p, i) BY ZenonT(40), <2>5 DEF fleetRetire
    <2>6. CASE \E i \in Incs : Resolve(p, i) BY <2>6 DEF Resolve
    <2>7. CASE Proxy(p) /\ ~registerRecord(p)
        BY <2>7 DEF Proxy, install, persist, Enter, Release, Load, crash, Retire, beat,
                     registerRead, serve
    <2> QED BY <2>1, <2>2, <2>3, <2>4, <2>5, <2>6, <2>7 DEF Fleet
<1> QED BY <1>1, <1>2

\* Every step keeps what is said of the proxies and their records.
LEMMA FleetStep ==
    ASSUME Sheltered, TypeOK, FleetOK, [Next]_vars
    PROVE  FleetOK'
<1> SUFFICES ASSUME NEW q \in Proxies PROVE Local(q)' BY DEF FleetOK
<1>q. Local(q) BY DEF FleetOK
<1>s. UNCHANGED <<process, fleet>> => SameProcess(q) /\ SameRecord(q)
    BY DEF process, fleet, SameProcess, SameRecord
<1>w. ASSUME UNCHANGED <<process, fleet>>, UNCHANGED directory \/ \E r, b \in Rules : Write(r, b)
      PROVE  Local(q)'
    BY <1>w, <1>q, <1>s, LocalFrame, LocalWrite
<1>1. CASE Touch
    <2>1. rule[cur] \in Rules /\ bar[cur] \in Rules BY TypeParts, InDirectory
    <2> QED BY <1>1, <1>w, <2>1 DEF Touch
<1>2. CASE \E k \in Kinds : begin(k) BY <1>2, <1>w DEF begin
<1>3. CASE \E o \in Operations : Operation(o) BY <1>3, <1>w, OperationFrame
<1>4. CASE \E w \in late : lateWrite(w) BY <1>4, <1>w, LateFrame
<1>5. ASSUME NEW p \in Proxies, Proxy(p) \/ Fleet(p) PROVE Local(q)'
    <2>1. UNCHANGED directory
        BY <1>5 DEF Proxy, install, persist, Enter, Release, Load, crash, Retire, beat,
                     registerRead, registerRecord, serve,
                     Fleet, heartbeat, leaseExpires, Forget, fleetRetire, Resolve
    <2>2. CASE q # p BY <1>5, <1>q, <2>1, <2>2, ProxyFrame, LocalFrame
    <2>3. CASE q = p
        BY <1>5, <1>q, <2>3, InstallLocal, PersistLocal, EnterLocal, ReleaseLocal, LoadLocal,
           CrashLocal, RetireLocal, BeatLocal, RegisterReadLocal, RegisterRecordLocal, ServeLocal,
           HeartbeatLocal, LeaseLocal, ForgetLocal, FleetRetireLocal, ResolveLocal
           DEF Proxy, Fleet
    <2> QED BY <2>2, <2>3
<1>6. CASE UNCHANGED vars
    BY <1>6, <1>w DEF vars, directory, process, fleet
<1> QED BY <1>1, <1>2, <1>3, <1>4, <1>5, <1>6 DEF Next
-----------------------------------------------------------------------------
(* Who may serve. *)

\* A step that tracks no new incarnation and loses no clearance waits for none it did not wait for.
LEMMA CoversBack ==
    ASSUME NEW p \in Proxies, NEW i, Covers(p, i)',
           \A k \in Incs : Tracked(p, k)' => Tracked(p, k),
           \A j \in Incs : Cleared(p, j) => Cleared(p, j)', i \in 0 .. MaxInc
    PROVE  Covers(p, i)
<1>1. \A k \in Incs : \A j \in k .. i : j \in Incs BY SMT
<1> QED BY <1>1 DEF Covers

\* A proxy that joined, or serves, is tracked.
LEMMA ServingCovered ==
    ASSUME TypeOK, NEW p \in Proxies, Local(p), proc[p] \in {"up", "answered"}
    PROVE  Covers(p, inc[p])
<1>1. inc[p] \in Incs BY SMTT(30), Types DEF Local, ProcessOK
<1>2. ~Cleared(p, inc[p]) BY DEF Local, ProcessOK, RecordOK, Cleared
<1> QED BY <1>1, <1>2 DEF Local, Covered, Heard

\* The fence of one proxy at version h.
FenceAt(p, h) ==
    /\ Covers(p, inc[p]) => durable[p] >= h \/ answer[p] >= h
    /\ proc[p] = "up" => inst[p] >= h

\* A proxy that a step does not touch stays behind a fence.
LEMMA FenceFrame ==
    ASSUME NEW p \in Proxies, NEW h \in Versions, FenceAt(p, h), SameProcess(p), SameRecord(p)
    PROVE  FenceAt(p, h)'
<1>1. Covers(p, inc[p])' = Covers(p, inc[p])
    BY CoversFrame DEF SameProcess, SameRecord
<1> QED BY <1>1 DEF FenceAt, SameProcess

\* A late heartbeat makes no proxy tracked that was not.
LEMMA HeartbeatBack ==
    ASSUME TypeOK, NEW p \in Proxies, Local(p), NEW m \in hb[p], Heartbeat(p, m),
           mark' = mark, inc' = inc, Covers(p, inc[p])'
    PROVE  Covers(p, inc[p])
<1>m. m \in Reports /\ m.inc \in Incs /\ m.inc <= inc[p] /\ inc[p] \in 0 .. MaxInc BY Types, Order
<1>c. \A i : Cleared(p, i)' = Cleared(p, i) BY <1>m, HeartbeatTracks
<1>1. PICK k \in Incs : k <= inc[p] /\ Tracked(p, k)' /\ \A j \in k .. inc[p] : ~Cleared(p, j)
    BY <1>c DEF Covers
<1>2. CASE Tracked(p, k) BY <1>1, <1>2 DEF Covers
<1>3. CASE ~Tracked(p, k)
    <2>1. k < m.inc \/ k = m.inc
        <3>1. CASE k \in unres'[p]
            <4>1. k < m.inc \/ k \in unres[p] \/ (mState[p] = "active" /\ k = mInc[p])
                BY <1>m, <3>1, HeartbeatFacts
            <4> QED BY <1>3, <4>1 DEF Tracked
        <3>2. CASE k = mInc'[p] BY <1>m, <3>2, HeartbeatFacts
        <3> QED BY <1>1, <3>1, <3>2 DEF Tracked
    <2>2. m.inc \in k .. inc[p] BY SMTT(30), <1>m, <2>1
    <2>3. Covers(p, m.inc)
        <3>1. Heard(p, m.inc) BY DEF Heard
        <3> QED BY <1>1, <1>m, <2>2, <3>1 DEF Local, Covered
    <2>4. PICK n \in Incs : n <= m.inc /\ Tracked(p, n) /\ \A j \in n .. m.inc : ~Cleared(p, j)
        BY <2>3 DEF Covers
    <2>5. n <= inc[p] /\ \A j \in n .. inc[p] : j \in n .. m.inc \/ j \in k .. inc[p]
        BY SMTT(40), <1>m, <2>1, <2>4
    <2>6. \A j \in n .. inc[p] : ~Cleared(p, j) BY <1>1, <2>4, <2>5
    <2> QED BY <2>4, <2>5, <2>6 DEF Covers
<1> QED BY <1>2, <1>3

\* The processes of a proxy that starts anew: what covers the new one covered the last one.
LEMMA LoadBack ==
    ASSUME TypeOK, NEW p \in Proxies, Local(p), Load(p), Covers(p, inc[p])'
    PROVE  Covers(p, inc[p])
<1>t. ProcessType BY TypeParts
<1>1. inc'[p] = inc[p] + 1 /\ inc[p] \in 0 .. MaxInc /\ mark'[p] = [mark[p] EXCEPT ![inc[p] + 1] = "active"]
    BY <1>t DEF Load, ProcessType
<1>2. UNCHANGED fleet BY DEF Load
<1>3. PICK k \in Incs : Tracked(p, k) /\ \A j \in k .. inc'[p] : ~Cleared(p, j)'
    BY <1>2 DEF Covers, Tracked, fleet
<1>4. k <= inc[p]
    <2>1. k \in unres[p] => k <= inc[p] BY DEF Local, RecordOK
    <2> QED BY <1>3, <2>1, Order DEF Tracked
<1>5. \A j \in k .. inc[p] : j \in Incs /\ j \in k .. inc'[p] /\ j # inc[p] + 1 BY SMTT(30), <1>1, <1>4
<1>6. \A j \in Incs : j # inc[p] + 1 => mark'[p][j] = mark[p][j] BY <1>1, Types
<1>7. \A j \in k .. inc[p] : ~Cleared(p, j) BY <1>2, <1>3, <1>5, <1>6 DEF Cleared, fleet
<1> QED BY <1>3, <1>4, <1>7 DEF Covers

\* A step of a proxy, or of the fleet about it, does not bring it back before a fence.
LEMMA FenceProxy ==
    ASSUME Sheltered, TypeOK, NEW p \in Proxies, Local(p), Proxy(p) \/ Fleet(p),
           NEW h \in Versions, h <= cur, FenceAt(p, h)
    PROVE  FenceAt(p, h)'
<1>t. ProcessType /\ FleetType BY TypeParts
<1>v. /\ cur \in Versions /\ inst[p] \in Versions /\ durable[p] \in Versions /\ answer[p] \in Versions
      /\ durable[p] <= inst[p]
    BY <1>t, Types, Order DEF ProcessType
<1>f. UNCHANGED fleet /\ mark' = mark /\ inc' = inc => (Covers(p, inc[p])' = Covers(p, inc[p]))
    BY CoversFrame DEF fleet
<1> USE DEF gate
<1>1. CASE install(p)
    <2>1. Covers(p, inc[p])' = Covers(p, inc[p]) BY <1>1, <1>f DEF install
    <2>2. durable' = durable /\ answer' = answer /\ proc' = proc BY <1>1 DEF install
    <2>3. PICK v \in Versions : inst[p] < v /\ inst'[p] = v BY <1>1, <1>t DEF install, ProcessType
    <2>4. inst[p] >= h => inst'[p] >= h BY SMT, <1>v, <2>3
    <2> QED BY <2>1, <2>2, <2>4 DEF FenceAt
<1>2. CASE persist(p)
    <2>1. Covers(p, inc[p])' = Covers(p, inc[p]) BY <1>2, <1>f DEF persist
    <2>2. inst' = inst /\ answer' = answer /\ proc' = proc BY <1>2 DEF persist
    <2>3. durable'[p] = inst[p] BY <1>2, <1>t DEF persist, ProcessType
    <2>4. durable[p] >= h => durable'[p] >= h BY SMT, <1>v, <2>3
    <2> QED BY <2>1, <2>2, <2>4 DEF FenceAt
<1>3. CASE \/ \E v \in Versions : Enter(p, v)
           \/ \E r \in Rules, i \in Incs : Release(p, i, r)
           \/ beat(p)
    <2>1. UNCHANGED fleet /\ mark' = mark /\ inc' = inc /\ durable' = durable /\ answer' = answer
          /\ proc' = proc /\ inst' = inst
        BY <1>3 DEF Enter, Release, beat
    <2> QED BY <1>f, <2>1 DEF FenceAt
<1>4. CASE Load(p)
    <2>1. proc'[p] # "up" BY <1>4, <1>t DEF Load, ProcessType
    <2>2. answer' = answer BY <1>4 DEF Load
    <2>3. durable[p] >= h => durable'[p] >= h
        <3>1. PICK v \in Versions : durable[p] <= v /\ durable'[p] = v
            BY <1>4, <1>t DEF Load, ProcessType
        <3> QED BY SMT, <1>v, <3>1
    <2> QED BY <1>4, <2>1, <2>2, <2>3, LoadBack DEF FenceAt
<1>5. CASE crash(p)
    <2>1. proc'[p] # "up" BY <1>5, <1>t DEF crash, Exit, ProcessType
    <2>2. UNCHANGED fleet /\ mark' = mark /\ inc' = inc /\ durable' = durable /\ answer' = answer
        BY <1>5 DEF crash
    <2> QED BY <1>f, <2>1, <2>2 DEF FenceAt
<1>6. CASE Retire(p)
    <2>1. proc'[p] # "up" /\ mark[p][inc[p]] = "active"
        BY <1>6, <1>t DEF Retire, Exit, ProcessType, Local, ProcessOK
    <2>2. UNCHANGED fleet /\ inc' = inc /\ durable' = durable /\ answer' = answer
        BY <1>6 DEF Retire
    <2>3. \A j \in Incs : mark[p][j] = "retired" => mark'[p][j] = "retired"
        <3>1. mark'[p] = [mark[p] EXCEPT ![inc[p]] =
                            IF flight[p][inc[p]] = {} THEN "retired" ELSE "unclean"]
            BY <1>6, <1>t DEF Retire, ProcessType
        <3>2. mark[p] \in [Incs -> Marks] BY Types
        <3> QED BY <2>1, <3>1, <3>2
    <2>4. \A k : Tracked(p, k)' => Tracked(p, k) BY <2>2 DEF Tracked, fleet
    <2>5. \A j \in Incs : Cleared(p, j) => Cleared(p, j)' BY <2>2, <2>3 DEF Cleared, fleet
    <2>6. Covers(p, inc[p])' => Covers(p, inc[p]) BY <2>2, <2>4, <2>5, Types, CoversBack
    <2> QED BY <2>1, <2>2, <2>6 DEF FenceAt
<1>7. CASE registerRead(p)
    <2>1. proc'[p] # "up" /\ answer'[p] \in {answer[p], cur}
        BY <1>7, <1>t DEF registerRead, ProcessType
    <2>2. UNCHANGED fleet /\ mark' = mark /\ inc' = inc /\ durable' = durable
        BY <1>7 DEF registerRead
    <2>3. answer[p] >= h => answer'[p] >= h BY <1>v, <2>1
    <2> QED BY <1>f, <2>1, <2>2, <2>3 DEF FenceAt
<1>8. CASE registerRecord(p)
    <2>1. proc[p] = "asked" /\ proc'[p] # "up" BY <1>8, <1>t DEF registerRecord, ProcessType
    <2>2. durable' = durable /\ answer' = answer BY <1>8 DEF registerRecord
    <2>3. CASE Unretired(p) BY <2>1, <2>2, <2>3, UnretiredCovered DEF FenceAt
    <2>4. CASE answer[p] = cur BY <2>1, <2>2, <2>4 DEF FenceAt
    <2> QED BY <1>8, <2>3, <2>4 DEF registerRecord, Sheltered
<1>9. CASE serve(p)
    <2>1. /\ proc[p] \in {"joining", "asked", "answered"} /\ inst[p] >= answer[p]
          /\ proc[p] = "answered" \/ Unretired(p)
        BY <1>9 DEF serve, Sheltered
    <2>2. /\ UNCHANGED fleet /\ mark' = mark /\ inc' = inc /\ durable' = durable /\ inst' = inst
          /\ answer' = answer
        BY <1>9 DEF serve
    <2>3. Covers(p, inc[p]) BY <2>1, UnretiredCovered, ServingCovered
    <2>4. durable[p] >= h \/ answer[p] >= h BY <2>3 DEF FenceAt
    <2>5. inst[p] >= h BY SMT, <1>v, <2>1, <2>4
    <2> QED BY <2>2, <2>4, <2>5 DEF FenceAt
<1>p. UNCHANGED process => proc' = proc /\ inc' = inc /\ mark' = mark /\ durable' = durable
                           /\ answer' = answer /\ inst' = inst
    BY DEF process
<1>10. CASE heartbeat(p)
    <2>1. UNCHANGED process BY <1>10 DEF heartbeat
    <2>2. Covers(p, inc[p])' => Covers(p, inc[p])
        BY <1>10, <1>p, <2>1, HeartbeatBack DEF heartbeat
    <2> QED BY <1>p, <2>1, <2>2 DEF FenceAt
<1>b. ASSUME UNCHANGED process, \A k \in Incs : Tracked(p, k)' => Tracked(p, k),
             resolved[p] \subseteq resolved'[p]
      PROVE  FenceAt(p, h)'
    <2>1. \A j \in Incs : Cleared(p, j) => Cleared(p, j)' BY <1>b, <1>p DEF Cleared
    <2>2. Covers(p, inc[p])' => Covers(p, inc[p]) BY <1>b, <1>p, <2>1, Types, CoversBack
    <2> QED BY <1>b, <1>p, <2>2 DEF FenceAt
<1>11. CASE leaseExpires(p)
    BY <1>11, <1>b DEF leaseExpires, Tracked
<1>12. CASE Forget(p)
    <2>1. UNCHANGED process /\ unres' = unres /\ mState'[p] # "active" /\ resolved[p] \subseteq resolved'[p]
        BY <1>12, <1>t DEF Forget, FleetType
    <2> QED BY <1>b, <2>1 DEF Tracked
<1>13. ASSUME NEW i \in Incs, fleetRetire(p, i) PROVE FenceAt(p, h)'
    <2>1. UNCHANGED process /\ resolved' = resolved /\ mInc' = mInc BY <1>13 DEF fleetRetire
    <2>2. CASE /\ mState[p] = "active" /\ mInc[p] = i /\ mState'[p] # "active"
               /\ unres'[p] \subseteq unres[p] \cup {i}
        <3>1. \A k \in Incs : Tracked(p, k)' => Tracked(p, k) BY <2>1, <2>2 DEF Tracked
        <3> QED BY <1>b, <2>1, <3>1
    <2>3. CASE mState' = mState /\ unres'[p] \subseteq unres[p]
        <3>1. \A k \in Incs : Tracked(p, k)' => Tracked(p, k) BY <2>1, <2>3 DEF Tracked
        <3> QED BY <1>b, <2>1, <3>1
    <2> QED BY <1>13, <1>t, <2>2, <2>3 DEF fleetRetire, FleetType
<1>14. ASSUME NEW i \in Incs, Resolve(p, i) PROVE FenceAt(p, h)'
    <2>1. /\ UNCHANGED process /\ mInc' = mInc
          /\ mState'[p] = "active" => mState[p] = "active"
          /\ unres'[p] \subseteq unres[p] /\ resolved[p] \subseteq resolved'[p]
        BY <1>14, <1>t DEF Resolve, FleetType
    <2>2. \A k \in Incs : Tracked(p, k)' => Tracked(p, k) BY <2>1 DEF Tracked
    <2> QED BY <1>b, <2>1, <2>2
<1> QED BY <1>1, <1>2, <1>3, <1>4, <1>5, <1>6, <1>7, <1>8, <1>9, <1>10, <1>11, <1>12, <1>13, <1>14
        DEF Proxy, Fleet

\* Nor does it bring any other.
LEMMA FenceStep ==
    ASSUME Sheltered, TypeOK, FleetOK, NEW p \in Proxies, Proxy(p) \/ Fleet(p),
           NEW h \in Versions, h <= cur, Fence(h)
    PROVE  Fence(h)'
<1> SUFFICES ASSUME NEW q \in Proxies PROVE FenceAt(q, h)' BY DEF Fence, FenceAt
<1>1. FenceAt(q, h) /\ Local(q) BY DEF Fence, FenceAt, FleetOK
<1>2. CASE q = p BY <1>1, <1>2, FenceProxy
<1>3. CASE q # p BY <1>1, <1>3, ProxyFrame, FenceFrame
<1> QED BY <1>2, <1>3
-----------------------------------------------------------------------------
(* The directory and the operations' records. *)

\* The types of the directory.
LEMMA DirTypes ==
    ASSUME TypeOK
    PROVE  cur \in Versions /\ rule \in [Versions -> Rules] /\ bar \in [Versions -> Rules] /\ ops \in Rules
BY TypeParts DEF DirectoryType, RecordsType

\* The types of the operations' records.
LEMMA OpsTypes ==
    ASSUME TypeOK
    PROVE  /\ hold \in [Operations -> Versions] /\ wrote \in Versions
           /\ status \in [Operations -> Statuses] /\ pc \in [Operations -> Stages]
           /\ \A w \in late : w.op \in Operations
<1>1. RecordsType BY TypeParts
<1>2. \A w \in late : w.op \in Operations BY <1>1 DEF RecordsType
<1> QED BY <1>1, <1>2 DEF RecordsType

\* What a write of the directory leaves at every version.
LEMMA WriteFacts ==
    ASSUME TypeOK, NEW r \in Rules, NEW b \in Rules, Write(r, b)
    PROVE  /\ cur \in Versions /\ cur + 1 \in Versions /\ cur' = cur + 1
           /\ rule'[cur'] = r /\ bar'[cur'] = b
           /\ \A v \in Versions : v <= cur => rule'[v] = rule[v] /\ bar'[v] = bar[v]
<1>1. cur \in Versions /\ cur + 1 \in Versions /\ cur' = cur + 1 BY SMTT(30), DirTypes DEF Write
<1>2. rule' = [rule EXCEPT ![cur + 1] = r] /\ bar' = [bar EXCEPT ![cur + 1] = b] BY DEF Write
<1>3. rule \in [Versions -> Rules] /\ bar \in [Versions -> Rules] BY DirTypes
<1>4. rule'[cur'] = r /\ bar'[cur'] = b BY <1>1, <1>2, <1>3
<1>5. \A v \in Versions : v <= cur => v # cur + 1 BY SMT, <1>1
<1>6. \A v \in Versions : v <= cur => rule'[v] = rule[v] /\ bar'[v] = bar[v] BY <1>2, <1>3, <1>5
<1> QED BY <1>1, <1>4, <1>6

\* The operation that has not ended is the last one.
LEMMA Last ==
    ASSUME TypeOK, OpsOK, NEW o \in Operations, status[o] \in {"running", "lost"}
    PROVE  o = ops
<1>1. ~(o < ops) /\ ~(o > ops) BY DEF OpsOK, OperationOK, Terminal
<1> QED BY SMT, <1>1, DirTypes

\* A write keeps the directory in order if its rule is the current one or that of a hold that lasted.
LEMMA DirectoryWrite ==
    ASSUME TypeOK, DirectoryOK, UNCHANGED <<ops, hold>>, NEW r \in Rules, NEW b \in Rules, Write(r, b),
           rule[cur] <= r, r <= ops, b <= ops, b # NoBarrier => r < b,
           r # rule[cur] => /\ hold[r] > 0 /\ hold[r] <= cur
                            /\ \A v \in hold[r] .. cur : bar[v] = r
    PROVE  DirectoryOK'
<1>1. \A v, w \in Versions : v <= w /\ w <= cur' => rule'[v] <= rule'[w]
    <2> SUFFICES ASSUME NEW v \in Versions, NEW w \in Versions, v <= w, w <= cur'
                 PROVE  rule'[v] <= rule'[w]
        OBVIOUS
    <2>1. CASE w <= cur
        <3>1. rule[v] <= rule[w] BY <2>1 DEF DirectoryOK
        <3>2. v <= cur BY SMT, <2>1, DirTypes
        <3> QED BY <2>1, <3>1, <3>2, WriteFacts
    <2>2. CASE w = cur + 1 /\ v <= cur
        <3>1. cur \in Versions /\ cur <= cur BY SMT, DirTypes
        <3>3. rule[v] <= rule[cur] BY <2>2, <3>1 DEF DirectoryOK
        <3>2. rule'[v] = rule[v] /\ rule'[w] = r BY <2>2, WriteFacts
        <3>4. rule[v] \in Rules /\ rule[cur] \in Rules BY DirTypes
        <3> QED BY SMT, <3>2, <3>3, <3>4
    <2>3. CASE w = cur + 1 /\ v = cur + 1
        <3>1. rule'[v] = r /\ rule'[w] = r BY <2>3, WriteFacts
        <3> QED BY SMT, <3>1
    <2>4. cur \in Versions /\ cur' = cur + 1 BY WriteFacts
    <2> QED BY SMT, <2>1, <2>2, <2>3, <2>4
<1>2. \A o \in Operations : rule'[cur'] = o =>
            /\ hold'[o] > 0 /\ hold'[o] <= cur'
            /\ \A v \in hold'[o] .. cur' : rule'[v] = o \/ bar'[v] = o
    <2> SUFFICES ASSUME NEW o \in Operations, rule'[cur'] = o
                 PROVE  /\ hold[o] > 0 /\ hold[o] <= cur'
                        /\ \A v \in hold[o] .. cur' : rule'[v] = o \/ bar'[v] = o
        OBVIOUS
    <2>1. r = o BY WriteFacts
    <2>2. /\ hold[o] \in Versions /\ hold[o] > 0 /\ hold[o] <= cur
          /\ \A v \in hold[o] .. cur : rule[v] = o \/ bar[v] = o
        <3>1. CASE r = rule[cur] BY <2>1, <3>1, OpsTypes DEF DirectoryOK
        <3>2. CASE r # rule[cur] BY <2>1, <3>2, OpsTypes
        <3> QED BY <3>1, <3>2
    <2>3. hold[o] <= cur'
        <3>1. cur \in Versions /\ cur' = cur + 1 BY WriteFacts
        <3> QED BY SMT, <2>2, <3>1
    <2>4. ASSUME NEW v \in hold[o] .. cur' PROVE rule'[v] = o \/ bar'[v] = o
        <3>1. CASE v = cur' BY <3>1, <2>1, WriteFacts
        <3>2. CASE v # cur'
            <4>1. v \in hold[o] .. cur /\ v \in Versions /\ v <= cur
                <5>1. cur \in Versions /\ cur' = cur + 1 BY WriteFacts
                <5> QED BY SMT, <2>2, <2>4, <3>2, <5>1
            <4> QED BY <2>2, <4>1, WriteFacts
        <3> QED BY <3>1, <3>2
    <2> QED BY <2>2, <2>3, <2>4
<1>3. cur' > 0
    <2>1. cur \in Versions /\ cur' = cur + 1 BY WriteFacts
    <2> QED BY SMT, <2>1
<1> QED BY <1>1, <1>2, <1>3, WriteFacts DEF DirectoryOK

\* An operation whose record is left alone, while versions are written of which none is its own.
LEMMA OperationKept ==
    ASSUME TypeOK, NEW o \in Operations, OperationOK(o),
           status'[o] = status[o], pc'[o] = pc[o], hold'[o] = hold[o], kind'[o] = kind[o], ops' = ops,
           pc[o] = "held" => wrote' = wrote,
           \/ UNCHANGED directory
           \/ \E r, b \in Rules : /\ Write(r, b)
                                  /\ b = bar[cur] \/ (b # o /\ ~(pc[o] = "write" /\ kind[o] = "step"))
    PROVE  OperationOK(o)'
<1>1. CASE UNCHANGED directory BY <1>1 DEF OperationOK, directory
<1>2. ASSUME NEW r \in Rules, NEW b \in Rules, Write(r, b),
             b = bar[cur] \/ (b # o /\ ~(pc[o] = "write" /\ kind[o] = "step"))
      PROVE  OperationOK(o)'
    <2>c. cur \in Versions /\ cur' = cur + 1 BY <1>2, WriteFacts
    <2>1. hold[o] <= cur'
        <3>1. hold[o] <= cur /\ hold[o] \in Versions BY OpsTypes DEF OperationOK
        <3> QED BY SMTT(30), <2>c, <3>1
    <2>2. pc[o] = "held" => wrote <= cur'
        <3>1. wrote \in Versions /\ (pc[o] = "held" => wrote <= cur) BY OpsTypes DEF OperationOK
        <3> QED BY SMT, <2>c, <3>1
    <2>3. ASSUME bar'[cur'] = o, NEW h \in Versions, \A v \in h .. cur : bar[v] = o
          PROVE  \A v \in h .. cur' : bar'[v] = o
        <3>1. \A v \in h .. cur' : v = cur' \/ (v \in h .. cur /\ v \in Versions /\ v <= cur)
            <4>1. cur \in Versions /\ cur' = cur + 1 BY <1>2, WriteFacts
            <4> QED BY SMTT(30), <4>1
        <3> QED BY ZenonT(40), <1>2, <2>3, <3>1, WriteFacts
    <2>4. bar'[cur'] = o => bar[cur] = o BY <1>2, WriteFacts
    <2>5. hold[o] > 0 /\ bar'[cur'] = o => \A v \in hold[o] .. cur' : bar'[v] = o
        BY <2>3, <2>4, OpsTypes DEF OperationOK
    <2>6. pc[o] = "held" /\ bar'[cur'] = o => \A v \in wrote .. cur' : bar'[v] = o
        BY <2>3, <2>4, OpsTypes DEF OperationOK
    <2>7. pc[o] = "write" /\ kind[o] = "step" => bar'[cur'] = o
        BY ZenonT(40), <1>2, WriteFacts DEF OperationOK
    <2> QED BY <2>1, <2>2, <2>5, <2>6, <2>7 DEF OperationOK
<1> QED BY <1>1, <1>2

\* What a step of operation a leaves of the records of the others.
LEMMA OthersFrame ==
    ASSUME TypeOK, NEW a \in Operations, Operation(a), NEW o \in Operations, o # a
    PROVE  status'[o] = status[o] /\ pc'[o] = pc[o] /\ hold'[o] = hold[o] /\ kind' = kind /\ ops' = ops
<1>t. RecordsType BY TypeParts
<1> USE <1>t DEF RecordsType, records, Goto, Become, End, Stay
<1>1. CASE precondition(a) BY <1>1 DEF precondition
<1>2. CASE writeHold(a) BY <1>2 DEF writeHold
<1>3. CASE recordHold(a) BY <1>3 DEF recordHold
<1>4. CASE drain(a) BY <1>4 DEF drain
<1>5. CASE commitRead(a) BY <1>5 DEF commitRead
<1>6. CASE commitWrite(a) BY <1>6 DEF commitWrite
<1>7. CASE commitFails(a) BY <1>7 DEF commitFails
<1>8. CASE recordCommit(a) BY <1>8 DEF recordCommit
<1>9. CASE ownerLost(a) BY <1>9 DEF ownerLost
<1>10. CASE resumeOperation(a) BY <1>10 DEF resumeOperation
<1>11. CASE cancelOperation(a) BY <1>11 DEF cancelOperation
<1>12. CASE releaseHold(a) BY <1>12 DEF releaseHold
<1>13. CASE releaseCanceled(a) BY <1>13 DEF releaseCanceled
<1> QED BY <1>1, <1>2, <1>3, <1>4, <1>5, <1>6, <1>7, <1>8, <1>9, <1>10, <1>11, <1>12, <1>13
        DEF Operation

\* An operation's step keeps what is said of the others.
LEMMA OthersKept ==
    ASSUME TypeOK, OpsOK, NEW a \in Operations, Operation(a), NEW o \in Operations, o # a
    PROVE  OperationOK(o)'
<1>k. OperationOK(o) /\ OperationOK(a) BY DEF OpsOK
<1>f. /\ status'[o] = status[o] /\ pc'[o] = pc[o] /\ hold'[o] = hold[o] /\ kind'[o] = kind[o]
      /\ ops' = ops
    BY OthersFrame
<1>r. rule[cur] \in Rules /\ a \in Rules /\ NoBarrier \in Rules /\ NoBarrier # o
    BY SMTT(30), TypeParts, InDirectory
<1>1. CASE status[a] \in {"running", "lost"}
    <2>1. status[o] # "running" BY <1>1, Last
    <2>2. pc[o] \notin {"held", "write"} BY <1>k, <2>1 DEF OperationOK
    <2>3. UNCHANGED directory \/ Write(rule[cur], a) \/ Write(a, NoBarrier) \/ Write(rule[cur], NoBarrier)
        BY DEF Operation, precondition, writeHold, recordHold, drain, commitRead, commitWrite,
                     commitFails, recordCommit, ownerLost, resumeOperation, cancelOperation,
                     releaseHold, releaseCanceled
    <2>4. \/ UNCHANGED directory
          \/ \E r, b \in Rules : /\ Write(r, b)
                                 /\ b = bar[cur] \/ (b # o /\ ~(pc[o] = "write" /\ kind[o] = "step"))
        BY <1>r, <2>2, <2>3
    <2> QED BY <1>k, <1>f, <2>2, <2>4, OperationKept
<1>2. CASE status[a] \notin {"running", "lost"}
    <2>1. releaseHold(a) \/ releaseCanceled(a)
        BY <1>2 DEF Operation, Running, precondition, writeHold, recordHold, drain, commitRead,
                    commitWrite, commitFails, recordCommit, ownerLost, resumeOperation, cancelOperation
    <2>2. wrote' = wrote BY <2>1 DEF releaseHold, releaseCanceled, records
    <2>3. UNCHANGED directory \/ (bar[cur] = a /\ Write(rule[cur], NoBarrier))
        BY <2>1 DEF releaseHold, releaseCanceled
    <2>4. bar[cur] = a => ~(pc[o] = "write" /\ kind[o] = "step") BY <1>k DEF OperationOK
    <2>5. \/ UNCHANGED directory
          \/ \E r, b \in Rules : /\ Write(r, b)
                                 /\ b = bar[cur] \/ (b # o /\ ~(pc[o] = "write" /\ kind[o] = "step"))
        BY <1>r, <2>3, <2>4
    <2> QED BY <1>k, <1>f, <2>2, <2>5, OperationKept
<1> QED BY <1>1, <1>2

\* And what is said of it.
LEMMA SelfKept ==
    ASSUME TypeOK, OpsOK, NEW a \in Operations, Operation(a)
    PROVE  OperationOK(a)'
<1>t. RecordsType BY TypeParts
<1>k. OperationOK(a) BY DEF OpsOK
<1>r. rule[cur] \in Rules /\ a \in Rules /\ NoBarrier \in Rules /\ NoBarrier # a
    BY SMT, TypeParts, InDirectory
<1>c. cur \in Versions /\ cur > 0 /\ hold[a] \in Versions /\ wrote \in Versions
    BY DirTypes, OpsTypes DEF OpsOK, DirectoryOK
<1>l. status[a] = "running" => a = ops BY Last
<1> USE DEF Running
\* Steps that leave the directory and the hold alone.
<1>q. ASSUME UNCHANGED directory, hold' = hold, kind' = kind, ops' = ops, NEW s, NEW x,
             status'[a] = s, pc'[a] = x,
             a < ops => s \in Terminal, a > ops => s = "none", s # "none",
             x # "none" <=> s = "running" \/ (s = "cancelled" /\ x = "cancel"),
             x \in {"precondition", "hold"} => hold[a] = 0, x # "held",
             x \in {"drain", "commit", "write"} => hold[a] > 0,
             x = "cancel" => s = "cancelled",
             x = "write" /\ kind[a] = "step" => bar[cur] = a
      PROVE  OperationOK(a)'
    BY <1>q, <1>k DEF OperationOK, directory
<1>o. status[a] \in {"running", "lost"} => ~(a < ops) /\ ~(a > ops)
    <2>1. status[a] \in {"running", "lost"} => a = ops BY Last
    <2> QED BY SMT, <2>1
<1>e. ASSUME UNCHANGED directory, hold' = hold, kind' = kind, ops' = ops, status[a] \in {"running", "lost"},
             NEW s \in Statuses \ {"none", "running"}, status'[a] = s, pc'[a] = "none"
      PROVE  OperationOK(a)'
    <2> DEFINE x == "none"
    <2>1. x \notin {"precondition", "hold", "held", "drain", "commit", "write", "cancel"} OBVIOUS
    <2>2. pc'[a] = x BY <1>e
    <2>3. s # "none" /\ s # "running" BY <1>e
    <2>4. x = "none" OBVIOUS
    <2> HIDE DEF x
    <2> QED BY <1>e, <1>o, <1>q, <2>1, <2>2, <2>3, <2>4
<1> USE <1>t DEF RecordsType
<1>1. CASE precondition(a)
    <2>1. status'[a] = "running" /\ pc'[a] = "hold" BY <1>1 DEF precondition, Goto
    <2>2. hold[a] = 0 /\ status[a] = "running" BY <1>1, <1>k DEF precondition, OperationOK
    <2>3. UNCHANGED directory /\ hold' = hold /\ kind' = kind /\ ops' = ops BY <1>1 DEF precondition
    <2> QED BY <1>o, <1>q, <2>1, <2>2, <2>3
<1>2. CASE writeHold(a)
    <2>1. status[a] = "running" /\ hold[a] = 0 /\ hold' = hold /\ kind' = kind /\ ops' = ops
        BY <1>2, <1>k DEF writeHold, OperationOK
    <2>2. CASE bar[cur] # a /\ Write(rule[cur], a) /\ wrote' = cur + 1 /\ Goto(a, "held") /\ Stay
        <3>1. status'[a] = "running" /\ pc'[a] = "held" BY <2>1, <2>2 DEF Goto, Stay
        <3>2. cur' = cur + 1 /\ bar'[cur'] = a BY <1>r, <2>2, WriteFacts
        <3>3. wrote' = cur' /\ wrote' > 0 /\ wrote' <= cur' /\ \A v \in cur' .. cur' : v = cur'
            BY SMT, <1>c, <2>2, <3>2
        <3>4. hold[a] <= cur' BY SMT, <1>c, <2>1, <3>2
        <3>5. ~(hold[a] > 0) BY SMT, <2>1
        <3>6. wrote' > 0 /\ wrote' <= cur' /\ \A v \in wrote' .. cur' : bar'[v] = a BY <3>2, <3>3
        <3> QED BY <1>o, <2>1, <3>1, <3>2, <3>4, <3>5, <3>6 DEF OperationOK
    <2>3. CASE bar[cur] = a /\ UNCHANGED directory /\ wrote' = cur /\ Goto(a, "held") /\ Stay
        <3>1. status'[a] = "running" /\ pc'[a] = "held" BY <2>1, <2>3 DEF Goto, Stay
        <3>2. cur' = cur /\ bar' = bar BY <2>3 DEF directory
        <3>3. wrote' > 0 /\ wrote' <= cur /\ \A v \in wrote' .. cur : bar[v] = a BY SMT, <1>c, <2>3
        <3>4. hold[a] <= cur /\ ~(hold[a] > 0) BY SMT, <1>c, <2>1
        <3> QED BY <1>o, <2>1, <3>1, <3>2, <3>3, <3>4 DEF OperationOK
    <2>4. CASE UNCHANGED directory /\ End(a, "failed")
        <3>1. status'[a] = "failed" /\ pc'[a] = "none" BY <2>4 DEF End, Become, Goto
        <3> QED BY <1>e, <2>1, <2>4, <3>1 DEF Statuses
    <2> QED BY <1>2, <2>2, <2>3, <2>4 DEF writeHold
<1>3. CASE recordHold(a)
    <2>1. /\ status[a] = "running" /\ pc[a] = "held" /\ status'[a] = "running" /\ pc'[a] = "drain"
          /\ hold'[a] = wrote /\ kind' = kind /\ ops' = ops /\ cur' = cur /\ bar' = bar
        BY <1>3 DEF recordHold, Goto, directory
    <2>2. /\ wrote > 0 /\ wrote <= cur /\ (bar[cur] = a => \A v \in wrote .. cur : bar[v] = a)
        BY <1>k, <2>1 DEF OperationOK
    <2> QED BY <1>o, <2>1, <2>2 DEF OperationOK
<1>4. CASE drain(a)
    <2>1. /\ status[a] = "running" /\ status'[a] = "running" /\ pc'[a] = "commit"
          /\ hold' = hold /\ kind' = kind /\ ops' = ops /\ UNCHANGED directory
        BY <1>4 DEF drain, Goto
    <2>2. hold[a] > 0 BY <1>4, <1>k DEF drain, OperationOK
    <2> QED BY <1>o, <1>q, <2>1, <2>2
<1>5. CASE commitRead(a)
    <2>1. status[a] = "running" /\ hold' = hold /\ kind' = kind /\ ops' = ops /\ UNCHANGED directory
        BY <1>5 DEF commitRead
    <2>2. hold[a] > 0 BY <1>5, <1>k DEF commitRead, OperationOK
    <2>3. CASE bar[cur] = a /\ Goto(a, "write") /\ Stay
        <3>1. status'[a] = "running" /\ pc'[a] = "write" BY <2>1, <2>3 DEF Goto, Stay
        <3> QED BY <1>o, <1>q, <2>1, <2>2, <2>3, <3>1
    <2>4. CASE Goto(a, "committed") /\ Stay
        <3>1. status'[a] = "running" /\ pc'[a] = "committed" BY <2>1, <2>4 DEF Goto, Stay
        <3> QED BY <1>o, <1>q, <2>1, <2>2, <3>1
    <2>5. CASE End(a, "cancelled")
        <3>1. status'[a] = "cancelled" /\ pc'[a] = "none" BY <2>5 DEF End, Become, Goto
        <3> QED BY <1>e, <2>1, <3>1 DEF Statuses
    <2> QED BY <1>5, <2>3, <2>4, <2>5 DEF commitRead
<1>6. CASE commitWrite(a)
    <2>1. status[a] = "running" /\ hold' = hold /\ kind' = kind /\ ops' = ops
        BY <1>6 DEF commitWrite
    <2>2. CASE Write(a, NoBarrier) /\ Goto(a, "committed") /\ Stay
        <3>1. status'[a] = "running" /\ pc'[a] = "committed" BY <2>1, <2>2 DEF Goto, Stay
        <3>2. cur' = cur + 1 /\ bar'[cur'] = NoBarrier BY <1>r, <2>2, WriteFacts
        <3>3. hold[a] <= cur BY <1>k DEF OperationOK
        <3>4. hold[a] <= cur' BY SMTT(30), <1>c, <3>2, <3>3
        <3> QED BY <1>o, <1>r, <2>1, <3>1, <3>2, <3>4 DEF OperationOK
    <2>3. CASE UNCHANGED directory /\ End(a, "failed")
        <3>1. status'[a] = "failed" /\ pc'[a] = "none" BY <2>3 DEF End, Become, Goto
        <3> QED BY <1>e, <2>1, <2>3, <3>1 DEF Statuses
    <2> QED BY <1>6, <2>2, <2>3 DEF commitWrite
<1>7. CASE commitFails(a)
    <2>1. /\ status[a] = "running" /\ hold' = hold /\ kind' = kind /\ ops' = ops /\ UNCHANGED directory
          /\ status'[a] = "failed" /\ pc'[a] = "none"
        BY <1>7 DEF commitFails, End, Become, Goto
    <2> QED BY <1>e, <2>1 DEF Statuses
<1>8. CASE recordCommit(a)
    <2>1. /\ status[a] = "running" /\ hold' = hold /\ kind' = kind /\ ops' = ops /\ UNCHANGED directory
          /\ status'[a] = "succeeded" /\ pc'[a] = "none"
        BY <1>8 DEF recordCommit, End, Become, Goto
    <2> QED BY <1>e, <2>1 DEF Statuses
<1>9. CASE ownerLost(a)
    <2>1. /\ status[a] = "running" /\ hold' = hold /\ kind' = kind /\ ops' = ops /\ UNCHANGED directory
          /\ status'[a] \in {"failed", "lost"} /\ pc'[a] = "none"
        BY <1>9 DEF ownerLost, End, Become, Goto
    <2> QED BY <1>e, <2>1 DEF Statuses
<1>10. CASE resumeOperation(a)
    <2>1. /\ status[a] = "lost" /\ hold' = hold /\ kind' = kind /\ ops' = ops /\ UNCHANGED directory
          /\ status'[a] = "running" /\ pc'[a] = IF hold[a] = 0 THEN "hold" ELSE "drain"
        BY <1>10 DEF resumeOperation, Become, Goto
    <2>2. CASE hold[a] = 0
        <3>1. pc'[a] = "hold" BY <2>1, <2>2
        <3> QED BY <1>o, <1>q, <2>1, <2>2, <3>1
    <2>3. CASE hold[a] # 0
        <3>1. pc'[a] = "drain" /\ hold[a] > 0 BY SMTT(30), <1>c, <2>1, <2>3
        <3> QED BY <1>o, <1>q, <2>1, <3>1
    <2> QED BY <2>2, <2>3
<1>11. CASE cancelOperation(a)
    <2>1. /\ status[a] \in {"running", "lost"} /\ hold' = hold /\ kind' = kind /\ ops' = ops
          /\ UNCHANGED directory /\ status'[a] = "cancelled" /\ pc'[a] = "cancel"
        BY <1>11 DEF cancelOperation, Become, Goto
    <2> QED BY <1>o, <1>q, <2>1
<1>12. CASE releaseHold(a)
    <2>1. /\ status[a] = "cancelled" /\ pc[a] = "cancel" /\ hold' = hold /\ kind' = kind /\ ops' = ops
          /\ pc'[a] = "none"
        BY <1>12 DEF releaseHold, Goto
    <2>2. ~(a > ops) BY <1>k, <2>1 DEF OperationOK
    <2>3. CASE Write(rule[cur], NoBarrier) /\ UNCHANGED status
        <3>1. cur' = cur + 1 /\ bar'[cur'] = NoBarrier BY <1>r, <2>3, WriteFacts
        <3>2. hold[a] <= cur BY <1>k DEF OperationOK
        <3>3. hold[a] <= cur' BY SMT, <1>c, <3>1, <3>2
        <3> QED BY <1>r, <2>1, <2>2, <2>3, <3>1, <3>3 DEF OperationOK, Terminal
    <2>4. CASE UNCHANGED directory /\ Become(a, "corrected")
        <3>1. status'[a] = "corrected" BY <2>4 DEF Become
        <3> QED BY <1>k, <2>1, <2>2, <2>4, <3>1 DEF OperationOK, Terminal, directory
    <2>5. CASE UNCHANGED directory /\ UNCHANGED status
        BY <1>k, <2>1, <2>2, <2>5 DEF OperationOK, Terminal, directory
    <2> QED BY <1>12, <2>3, <2>4, <2>5 DEF releaseHold
<1>13. CASE releaseCanceled(a)
    <2>1. /\ status[a] = "cancelled" /\ hold' = hold /\ kind' = kind /\ ops' = ops
          /\ pc' = pc /\ status' = status /\ wrote' = wrote /\ Write(rule[cur], NoBarrier)
        BY <1>13 DEF releaseCanceled, records
    <2>2. pc[a] \in {"none", "cancel"} BY <1>k, <2>1 DEF OperationOK
    <2>3. ~(pc[a] = "write" /\ kind[a] = "step") BY <2>2
    <2>4. \E r, b \in Rules : /\ Write(r, b)
                              /\ b = bar[cur] \/ (b # a /\ ~(pc[a] = "write" /\ kind[a] = "step"))
        BY <1>r, <2>1, <2>3
    <2> QED BY <1>k, <2>1, <2>4, OperationKept
<1> QED BY <1>1, <1>2, <1>3, <1>4, <1>5, <1>6, <1>7, <1>8, <1>9, <1>10, <1>11, <1>12, <1>13
        DEF Operation

\* A recorded hold in the directory: its versions, and the rule before it.
LEMMA Held ==
    ASSUME TypeOK, OpsOK, NEW o \in Operations, hold[o] > 0, bar[cur] = o
    PROVE  /\ rule[cur] < o /\ rule[cur] <= o /\ o <= ops /\ hold[o] <= cur /\ hold[o] \in Versions
           /\ \A v \in hold[o] .. cur : bar[v] = o
<1>1. /\ o <= ops /\ hold[o] <= cur /\ \A v \in hold[o] .. cur : bar[v] = o
    BY ZenonT(40) DEF OpsOK, DirectoryOK, OperationOK
<1>2. rule[cur] < o BY SMT DEF OpsOK, DirectoryOK
<1>3. rule[cur] \in Rules /\ hold[o] \in Versions BY DirTypes, OpsTypes
<1> QED BY SMTT(30), <1>1, <1>2, <1>3

\* Whatever completes, its own barrier is in the directory.
LEMMA CommitHeld ==
    ASSUME Sheltered, TypeOK, OpsOK, NEW o \in Operations, Completes(o),
           Running(o, "write") \/ \E w \in late : w.op = o
    PROVE  bar[cur] = o /\ hold[o] > 0
<1>1. OperationOK(o) /\ LateOK BY DEF OpsOK
<1>2. CASE Running(o, "write")
    <2>1. hold[o] > 0 /\ (kind[o] = "step" => bar[cur] = o) BY <1>1, <1>2 DEF OperationOK, Running
    <2> QED BY <2>1 DEF Completes
<1>3. CASE \E w \in late : w.op = o
    <2>1. hold[o] > 0 /\ kind[o] # "step" BY <1>1, <1>3 DEF LateOK
    <2> QED BY <2>1 DEF Completes
<1> QED BY <1>2, <1>3

\* The directory is in order as long as nothing of it changes.
LEMMA DirectorySame ==
    ASSUME DirectoryOK, UNCHANGED <<directory, ops, hold>>
    PROVE  DirectoryOK'
BY DEF DirectoryOK, directory

\* A new version of the rule in force.
LEMMA DirectorySameRule ==
    ASSUME TypeOK, OpsOK, UNCHANGED <<ops, hold>>, NEW b \in Rules, Write(rule[cur], b), b <= ops,
           b # NoBarrier => rule[cur] < b
    PROVE  DirectoryOK'
<1>1. rule[cur] \in Rules /\ rule[cur] <= ops /\ rule[cur] <= rule[cur]
    BY SMTT(30), DirTypes DEF OpsOK, DirectoryOK
<1> QED BY <1>1, DirectoryWrite DEF OpsOK

\* The commit of a held operation.
LEMMA DirectoryCommit ==
    ASSUME TypeOK, OpsOK, UNCHANGED <<ops, hold>>, NEW o \in Operations, bar[cur] = o, hold[o] > 0,
           Write(o, NoBarrier)
    PROVE  DirectoryOK'
<1>1. o \in Rules /\ NoBarrier \in Rules /\ NoBarrier <= ops BY SMTT(30), DirTypes
<1> QED BY <1>1, Held, DirectoryWrite DEF OpsOK

\* Every step keeps the directory in order.
LEMMA DirectoryStep ==
    ASSUME Sheltered, TypeOK, OpsOK, [Next]_vars
    PROVE  DirectoryOK'
<1>d. DirectoryOK BY DEF OpsOK
<1>n. NoBarrier \in Rules /\ NoBarrier <= ops BY SMTT(30), DirTypes
<1>1. CASE Touch
    <2>1. UNCHANGED <<ops, hold>> BY <1>1 DEF Touch, records
    <2>2. bar[cur] \in Rules /\ bar[cur] <= ops /\ (bar[cur] # NoBarrier => rule[cur] < bar[cur])
        BY <1>d, DirTypes DEF DirectoryOK
    <2> QED BY <1>1, <2>1, <2>2, DirectorySameRule DEF Touch
<1>2. ASSUME NEW k \in Kinds, begin(k) PROVE DirectoryOK'
    <2>1. UNCHANGED <<directory, hold>> /\ ops' = ops + 1 BY <1>2 DEF begin
    <2>2. rule[cur] <= ops /\ bar[cur] <= ops BY <1>d DEF DirectoryOK
    <2>3. rule[cur] <= ops' /\ bar[cur] <= ops'
        <3>1. rule[cur] \in Rules /\ bar[cur] \in Rules /\ ops \in Rules BY DirTypes
        <3> QED BY SMT, <2>1, <2>2, <3>1
    <2> QED BY <1>d, <2>1, <2>3 DEF DirectoryOK, directory
<1>3. ASSUME NEW o \in Operations, Operation(o) PROVE DirectoryOK'
    <2>1. CASE recordHold(o)
        <3>1. pc[o] = "held" /\ UNCHANGED <<directory, ops>> BY <2>1 DEF recordHold, Running
        <3>2. rule[cur] # o
            <4>1. hold[o] = 0 BY <3>1 DEF OpsOK, OperationOK
            <4> QED BY SMTT(30), <4>1, <1>d DEF DirectoryOK
        <3>3. \A x \in Operations : x # o => hold'[x] = hold[x] BY <1>3, OthersFrame
        <3> QED BY <1>d, <3>1, <3>2, <3>3 DEF DirectoryOK, directory
    <2>2. CASE writeHold(o) /\ ~UNCHANGED directory
        <3>1. Write(rule[cur], o) /\ UNCHANGED <<ops, hold>> /\ pc[o] = "hold" /\ status[o] = "running"
            BY <2>2 DEF writeHold, Running
        <3>2. o = ops BY <3>1, Last
        <3>3. hold[o] = 0 BY <3>1 DEF OpsOK, OperationOK
        <3>4. rule[cur] # o /\ rule[cur] <= ops BY SMT, <1>d, <3>3 DEF DirectoryOK
        <3>5. rule[cur] < o /\ o <= ops /\ o \in Rules
            <4>1. rule[cur] \in Rules /\ ops \in Rules BY DirTypes
            <4> QED BY SMT, <3>2, <3>4, <4>1
        <3> QED BY <3>1, <3>5, DirectorySameRule
    <2>3. CASE commitWrite(o) /\ ~UNCHANGED directory
        <3>1. Write(o, NoBarrier) /\ UNCHANGED <<ops, hold>> /\ Completes(o) /\ Running(o, "write")
            BY <2>3 DEF commitWrite
        <3> QED BY <3>1, CommitHeld, DirectoryCommit
    <2>4. CASE (releaseHold(o) \/ releaseCanceled(o)) /\ ~UNCHANGED directory
        <3>1. Write(rule[cur], NoBarrier) /\ UNCHANGED <<ops, hold>>
            BY <2>4 DEF releaseHold, releaseCanceled, records
        <3> QED BY <1>n, <3>1, DirectorySameRule
    <2>5. CASE UNCHANGED directory /\ ~recordHold(o)
        <3>1. UNCHANGED <<ops, hold>>
            BY <1>3, <2>5 DEF Operation, precondition, writeHold, drain, commitRead, commitWrite,
               commitFails, recordCommit, ownerLost, resumeOperation, cancelOperation,
               releaseHold, releaseCanceled, records
        <3> QED BY <1>d, <2>5, <3>1, DirectorySame
    <2>6. \/ recordHold(o) \/ UNCHANGED directory \/ writeHold(o) \/ commitWrite(o)
          \/ releaseHold(o) \/ releaseCanceled(o)
        BY <1>3 DEF Operation, precondition, drain, commitRead,
               commitFails, recordCommit, ownerLost, resumeOperation, cancelOperation
    <2> QED BY <2>1, <2>2, <2>3, <2>4, <2>5, <2>6
<1>4. ASSUME NEW w \in late, lateWrite(w) PROVE DirectoryOK'
    <2>1. w.op \in Operations /\ w.what = "write" BY OpsTypes DEF OpsOK, LateOK
    <2>2. UNCHANGED <<ops, hold>> BY <1>4 DEF lateWrite
    <2>3. CASE Completes(w.op)
        <3>1. Write(w.op, NoBarrier) BY <1>4, <2>1, <2>3 DEF lateWrite
        <3> QED BY <2>1, <2>2, <2>3, <3>1, CommitHeld, DirectoryCommit
    <2>4. CASE ~Completes(w.op)
        <3>1. UNCHANGED directory BY <1>4, <2>1, <2>4 DEF lateWrite
        <3> QED BY <1>d, <2>2, <3>1, DirectorySame
    <2> QED BY <2>3, <2>4
<1>5. ASSUME NEW p \in Proxies, Proxy(p) \/ Fleet(p) PROVE DirectoryOK'
    <2>1. UNCHANGED <<directory, ops, hold>>
        BY <1>5 DEF Proxy, install, persist, Enter, Release, Load, crash, Retire, beat,
                     registerRead, registerRecord, serve, records,
                     Fleet, heartbeat, leaseExpires, Forget, fleetRetire, Resolve
    <2> QED BY <1>d, <2>1, DirectorySame
<1>6. CASE UNCHANGED vars
    <2>1. UNCHANGED <<directory, ops, hold>> BY <1>6 DEF vars, directory
    <2> QED BY <1>d, <2>1, DirectorySame
<1> QED BY <1>1, <1>2, <1>3, <1>4, <1>5, <1>6 DEF Next

\* Every step keeps what is said of the directory and the operations.
LEMMA OpsStep ==
    ASSUME Sheltered, TypeOK, OpsOK, [Next]_vars
    PROVE  OpsOK'
<1>t. RecordsType BY TypeParts
<1>1. LateOK'
    <2>1. CASE UNCHANGED <<late, kind, hold>> BY <2>1 DEF OpsOK, LateOK
    <2>2. ASSUME NEW k \in Kinds, begin(k) PROVE LateOK'
        <3>1. late' = late /\ hold' = hold BY <2>2 DEF begin
        <3>2. \A w \in late : w.op # ops + 1
            <4> SUFFICES ASSUME NEW w \in late, w.op = ops + 1 PROVE FALSE OBVIOUS
            <4>1. w.op \in Operations /\ w.op > ops BY SMTT(30), OpsTypes, DirTypes
            <4>2. status[w.op] = "none" BY <4>1 DEF OpsOK, OperationOK
            <4>3. hold[w.op] = 0 BY <4>1, <4>2 DEF OpsOK, OperationOK
            <4> QED BY SMT, <4>3 DEF OpsOK, LateOK
        <3>3. \A x \in Operations : x # ops + 1 => kind'[x] = kind[x] BY <1>t, <2>2 DEF begin, RecordsType
        <3> QED BY <3>1, <3>2, <3>3, OpsTypes DEF OpsOK, LateOK
    <2>3. ASSUME NEW o \in Operations, ownerLost(o) PROVE LateOK'
        <3>1. kind' = kind /\ hold' = hold BY <2>3 DEF ownerLost
        <3>2. \/ late' = late
              \/ /\ kind[o] # "step" /\ pc[o] = "write"
                 /\ late' = late \cup {[op |-> o, what |-> pc[o]]}
            BY <2>3 DEF ownerLost, Sheltered
        <3>3. pc[o] = "write" => hold[o] > 0 BY DEF OpsOK, OperationOK
        <3> QED BY SMT, <3>1, <3>2, <3>3 DEF OpsOK, LateOK
    <2>4. ASSUME NEW o \in Operations, recordHold(o) PROVE LateOK'
        <3>1. late' = late /\ kind' = kind /\ hold'[o] = wrote /\ pc[o] = "held"
            BY <1>t, <2>4 DEF recordHold, Running, RecordsType
        <3>2. wrote > 0 BY <3>1 DEF OpsOK, OperationOK
        <3>3. \A x \in Operations : x # o => hold'[x] = hold[x]
            BY <2>4, OthersFrame DEF Operation
        <3> QED BY <3>1, <3>2, <3>3, OpsTypes DEF OpsOK, LateOK
    <2>5. ASSUME NEW w \in late, lateWrite(w) PROVE LateOK'
        BY <2>5 DEF lateWrite, OpsOK, LateOK
    <2>6. CASE Touch BY <2>1, <2>6 DEF Touch, records
    <2>7. ASSUME NEW o \in Operations, Operation(o), ~ownerLost(o), ~recordHold(o) PROVE LateOK'
        BY <2>1, <2>7 DEF Operation, precondition, writeHold, drain, commitRead, commitWrite,
               commitFails, recordCommit, resumeOperation, cancelOperation,
               releaseHold, releaseCanceled, records
    <2>8. ASSUME NEW p \in Proxies, Proxy(p) \/ Fleet(p) PROVE LateOK'
        BY <2>1, <2>8 DEF Proxy, install, persist, Enter, Release, Load, crash, Retire, beat,
                     registerRead, registerRecord, serve, records,
                     Fleet, heartbeat, leaseExpires, Forget, fleetRetire, Resolve
    <2>9. CASE UNCHANGED vars BY <2>1, <2>9 DEF vars
    <2> QED BY <2>2, <2>3, <2>4, <2>5, <2>6, <2>7, <2>8, <2>9 DEF Next
<1>2. ASSUME NEW x \in Operations PROVE OperationOK(x)'
    <2>k. OperationOK(x) BY DEF OpsOK
    <2>1. CASE UNCHANGED <<directory, ops, kind, status, pc, wrote, hold>>
        BY <2>1, <2>k DEF OperationOK, directory
    <2>2. CASE Touch
        <3>1. UNCHANGED <<ops, kind, status, pc, wrote, hold>> BY <2>2 DEF Touch, records
        <3>2. rule[cur] \in Rules /\ bar[cur] \in Rules BY TypeParts, InDirectory
        <3> QED BY <2>2, <2>k, <3>1, <3>2, OperationKept DEF Touch
    <2>3. ASSUME NEW k \in Kinds, begin(k) PROVE OperationOK(x)'
        <3>1. UNCHANGED <<directory, wrote, hold>> /\ ops' = ops + 1 BY <2>3 DEF begin
        <3>t. ops \in Rules /\ ops + 1 \in Operations BY SMTT(30), <1>t, <2>3 DEF RecordsType, begin
        <3>2. CASE x = ops + 1
            <4>1. /\ status'[x] = "running" /\ pc'[x] \in {"hold", "precondition"}
                BY <1>t, <2>3, <3>2 DEF begin, Become, Goto, RecordsType
            <4>2. status[x] = "none" /\ hold[x] = 0 /\ ~(x < ops') /\ ~(x > ops')
                BY SMTT(30), <2>k, <3>1, <3>2, <3>t DEF OperationOK
            <4>3. hold[x] <= cur /\ ~(hold[x] > 0) BY SMT, <4>2, DirTypes
            <4> QED BY <3>1, <4>1, <4>2, <4>3 DEF OperationOK, directory
        <3>3. CASE x # ops + 1
            <4>1. status'[x] = status[x] /\ pc'[x] = pc[x] /\ kind'[x] = kind[x]
                BY <1>t, <2>3, <3>3 DEF begin, Become, Goto, RecordsType
            <4>2. x < ops' => status[x] \in Terminal
                <5>1. x < ops' => x <= ops BY SMTT(30), <3>1, <3>t
                <5> QED BY <2>3, <5>1 DEF begin
            <4>3. x > ops' => status[x] = "none"
                <5>1. x > ops' => x > ops BY SMT, <3>1, <3>t
                <5> QED BY <2>k, <5>1 DEF OperationOK
            <4> QED BY <2>k, <3>1, <4>1, <4>2, <4>3 DEF OperationOK, directory
        <3> QED BY <3>2, <3>3
    <2>4. ASSUME NEW o \in Operations, Operation(o) PROVE OperationOK(x)'
        BY <2>4, SelfKept, OthersKept
    <2>5. ASSUME NEW w \in late, lateWrite(w) PROVE OperationOK(x)'
        <3>1. UNCHANGED <<ops, kind, status, pc, wrote, hold>> BY <2>5 DEF lateWrite
        <3>2. w.op \in Operations /\ w.what = "write" /\ kind[w.op] # "step"
            BY OpsTypes DEF OpsOK, LateOK
        <3>3. CASE Completes(w.op)
            <4>1. Write(w.op, NoBarrier) BY <2>5, <3>2, <3>3 DEF lateWrite
            <4>2. bar[cur] = w.op BY <3>2, <3>3 DEF Completes
            <4>3. ~(pc[x] = "write" /\ kind[x] = "step") BY <2>k, <3>2, <4>2 DEF OperationOK
            <4>4. w.op \in Rules /\ NoBarrier \in Rules /\ NoBarrier # x BY SMT, <3>2
            <4> QED BY <2>k, <3>1, <4>1, <4>3, <4>4, OperationKept
        <3>4. CASE ~Completes(w.op)
            <4>1. UNCHANGED directory BY <2>5, <3>2, <3>4 DEF lateWrite
            <4> QED BY <2>1, <3>1, <4>1
        <3> QED BY <3>3, <3>4
    <2>6. ASSUME NEW p \in Proxies, Proxy(p) \/ Fleet(p) PROVE OperationOK(x)'
        BY <2>1, <2>6 DEF Proxy, install, persist, Enter, Release, Load, crash, Retire, beat,
                     registerRead, registerRecord, serve, records,
                     Fleet, heartbeat, leaseExpires, Forget, fleetRetire, Resolve
    <2>7. CASE UNCHANGED vars BY <2>1, <2>7 DEF vars, directory
    <2> QED BY <2>2, <2>3, <2>4, <2>5, <2>6, <2>7 DEF Next
<1> QED BY <1>1, <1>2, DirectoryStep DEF OpsOK
-----------------------------------------------------------------------------
(* What a drain proves. *)

\* A member that no longer blocks has nothing left, and will not serve by a version before the hold.
LEMMA DrainedProxy ==
    ASSUME TypeOK, OpsOK, NEW o \in Operations, hold[o] > 0, bar[cur] = o,
           NEW p \in Proxies, Local(p), ~drainBlocked(p, o)
    PROVE  /\ \A i \in Incs : flight[p][i] = {}
           /\ Covers(p, inc[p]) => durable[p] >= hold[o]
           /\ proc[p] = "up" => inst[p] >= hold[o]
<1>1. unres[p] = {} BY DEF Local, RecordOK, drainBlocked, Counted
<1>2. CASE mState[p] # "active" /\ (Retired(p) \/ ~Counted(p))
    <2>1. \A i : ~Covers(p, i) BY <1>1, <1>2 DEF Covers, Tracked
    <2>2. \A i \in Incs : flight[p][i] = {}
        BY <2>1 DEF Local, Covered, Heard, ClearedEmpty
    <2>3. proc[p] # "up"
        <3> SUFFICES ASSUME proc[p] = "up" PROVE FALSE OBVIOUS
        <3>1. inc[p] \in Incs BY SMTT(30), Types DEF Local, ProcessOK
        <3>2. ~Cleared(p, inc[p]) BY DEF Local, ProcessOK, RecordOK, Cleared
        <3> QED BY <2>1, <3>1, <3>2 DEF Local, Covered, Heard
    <2> QED BY <2>1, <2>2, <2>3
<1>3. CASE ~Retired(p) /\ Counted(p)
    <2>1. live[p] /\ rep[p].ack = o /\ ~(rep[p].durable < hold[o])
        BY <1>3 DEF drainBlocked
    <2>2. /\ rep[p] \in Reports /\ rep[p].inc \in Incs /\ rep[p].durable \in Versions
          /\ durable[p] \in Versions /\ inst[p] \in Versions
        BY Types
    <2>3. rep[p].durable <= durable[p] /\ durable[p] <= inst[p] BY <2>1, Order
    <2>4. hold[o] \in Versions /\ \A v \in hold[o] .. cur : bar[v] = o BY Held
    <2>5. durable[p] >= hold[o] /\ inst[p] >= hold[o] BY SMTT(30), <2>1, <2>2, <2>3, <2>4
    <2>6. Carried(rep[p].durable)
        <3>1. \A v \in rep[p].durable .. cur : v \in hold[o] .. cur
            <4>1. cur \in Versions BY DirTypes
            <4> QED BY SMT, <2>1, <2>2, <2>4, <4>1
        <3> QED BY <2>4, <3>1 DEF Carried
    <2>7. \A i \in Incs : i >= rep[p].inc => flight[p][i] = {}
        <3>1. bar[cur] # NoBarrier BY SMT
        <3> QED BY <2>1, <2>6, <3>1 DEF Local, ReportsTrue, True
    <2>8. \A i \in Incs : i < rep[p].inc => flight[p][i] = {}
        BY <1>1, <2>1 DEF Local, ReportsTrue
    <2>9. \A i \in Incs : i < rep[p].inc \/ i >= rep[p].inc BY SMT, <2>2
    <2> QED BY <2>5, <2>7, <2>8, <2>9
<1> QED BY <1>2, <1>3 DEF Retired, Counted

\* The steps of the operations and of the directory: no proxy and no member's record changes.
Central == \/ Touch \/ UNCHANGED vars
           \/ \E k \in Kinds : begin(k)
           \/ \E o \in Operations : Operation(o)
           \/ \E w \in late : lateWrite(w)

\* A step of the control plane leaves the proxies and their fences alone.
LEMMA CentralFrame ==
    ASSUME TypeOK, Central
    PROVE  /\ UNCHANGED <<process, fleet>>
           /\ \A h : Fence(h) => Fence(h)'
           /\ Quiet => Quiet'
<1>1. UNCHANGED <<process, fleet>>
    <2>1. CASE Touch BY <2>1 DEF Touch
    <2>2. CASE UNCHANGED vars BY <2>2 DEF vars, process, fleet
    <2>3. CASE \E k \in Kinds : begin(k) BY <2>3 DEF begin
    <2>4. CASE \E o \in Operations : Operation(o) BY <2>4, OperationFrame
    <2>5. CASE \E w \in late : lateWrite(w) BY <2>5, LateFrame
    <2> QED BY <2>1, <2>2, <2>3, <2>4, <2>5 DEF Central
<1>2. \A p \in Proxies : \A i : Covers(p, i)' = Covers(p, i) BY <1>1, CoversFrame DEF process, fleet
<1>3. ASSUME NEW h, Fence(h) PROVE Fence(h)' BY <1>1, <1>2, <1>3 DEF Fence, process
<1>4. Quiet => Quiet' BY <1>1 DEF Quiet, process
<1> QED BY <1>1, <1>3, <1>4

\* A recorded hold is never replaced.
LEMMA HoldKept ==
    ASSUME TypeOK, OpsOK, Central, NEW x \in Operations, hold[x] > 0
    PROVE  hold'[x] = hold[x]
<1>1. CASE hold' = hold BY <1>1
<1>2. ASSUME NEW o \in Operations, Operation(o), x # o PROVE hold'[x] = hold[x] BY <1>2, OthersFrame
<1>3. ASSUME Operation(x) PROVE hold'[x] = hold[x]
    <2>1. CASE recordHold(x)
        <3>1. hold[x] = 0 BY <2>1 DEF recordHold, Running, OpsOK, OperationOK
        <3> QED BY SMTT(40), <3>1
    <2>2. CASE ~recordHold(x)
        BY <1>1, <1>3, <2>2 DEF Operation, precondition, writeHold, drain, commitRead, commitWrite,
           commitFails, recordCommit, ownerLost, resumeOperation, cancelOperation,
           releaseHold, releaseCanceled, records
    <2> QED BY <2>1, <2>2
<1>4. CASE Touch BY <1>1, <1>4 DEF Touch, records
<1>5. CASE UNCHANGED vars BY <1>1, <1>5 DEF vars
<1>6. CASE \E k \in Kinds : begin(k) BY <1>1, <1>6 DEF begin
<1>7. CASE \E w \in late : lateWrite(w) BY <1>1, <1>7 DEF lateWrite
<1> QED BY <1>2, <1>3, <1>4, <1>5, <1>6, <1>7 DEF Central

\* A commit, with every proof seen.
Commits(o) == bar[cur] = o /\ hold[o] > 0 /\ Proved(o) /\ Write(o, NoBarrier)

\* Every other step of the directory keeps the rule.
KeepsRule == UNCHANGED directory \/ \E b \in Rules : Write(rule[cur], b)

\* A step of the control plane keeps the rule, or is the commit of a drained operation.
LEMMA CentralWrites ==
    ASSUME Sheltered, TypeOK, OpsOK, Central
    PROVE  KeepsRule \/ \E o \in Operations : Commits(o)
<1>b. bar[cur] \in Rules /\ NoBarrier \in Rules BY SMT, DirTypes
<1>1. CASE Touch BY <1>1, <1>b DEF Touch, KeepsRule
<1>2. CASE UNCHANGED vars BY <1>2 DEF vars, KeepsRule, directory
<1>3. CASE \E k \in Kinds : begin(k) BY <1>3 DEF begin, KeepsRule
<1>4. ASSUME NEW o \in Operations, Operation(o)
      PROVE  KeepsRule \/ Commits(o)
    <2>1. o \in Rules BY SMT
    <2>2. CASE commitWrite(o) /\ ~UNCHANGED directory
        <3>1. Write(o, NoBarrier) /\ Completes(o) /\ Running(o, "write") BY <2>2 DEF commitWrite
        <3>2. Proved(o) BY <3>1 DEF Proved, Running
        <3> QED BY <3>1, <3>2, CommitHeld DEF Commits
    <2>3. CASE ~commitWrite(o)
        BY <1>4, <1>b, <2>1, <2>3 DEF Operation, precondition, writeHold, recordHold, drain,
           commitRead, commitFails, recordCommit, ownerLost, resumeOperation, cancelOperation,
           releaseHold, releaseCanceled, KeepsRule
    <2> QED BY <2>2, <2>3 DEF KeepsRule
<1>5. ASSUME NEW w \in late, lateWrite(w)
      PROVE  KeepsRule \/ \E o \in Operations : Commits(o)
    <2>1. w.op \in Operations /\ w.what = "write" BY OpsTypes DEF OpsOK, LateOK
    <2>2. CASE Completes(w.op)
        <3>1. Write(w.op, NoBarrier) BY <1>5, <2>1, <2>2 DEF lateWrite
        <3>2. Proved(w.op) BY DEF Proved
        <3>3. Commits(w.op) BY <2>1, <2>2, <3>1, <3>2, CommitHeld DEF Commits
        <3> QED BY <2>1, <3>3
    <2>3. CASE ~Completes(w.op) BY <1>5, <2>1, <2>3 DEF lateWrite, KeepsRule
    <2> QED BY <2>2, <2>3
<1> QED BY <1>1, <1>2, <1>3, <1>4, <1>5 DEF Central

\* Who has proved its drain has a hold.
LEMMA ProvedHold ==
    ASSUME OpsOK, NEW x \in Operations, Proved(x)
    PROVE  hold[x] > 0
<1>1. CASE pc[x] \in {"commit", "write"} BY <1>1 DEF OpsOK, OperationOK
<1>2. CASE \E w \in late : w.op = x BY <1>2 DEF OpsOK, LateOK
<1> QED BY <1>1, <1>2 DEF Proved

\* Only a drain brings an operation to where every proof has been seen.
LEMMA ProvedBack ==
    ASSUME Sheltered, TypeOK, OpsOK, Central, NEW x \in Operations, Proved(x)'
    PROVE  Proved(x) \/ drain(x)
<1>t. RecordsType BY TypeParts
<1>1. CASE late' = late /\ pc'[x] = pc[x] BY <1>1 DEF Proved
<1>2. CASE Touch BY <1>1, <1>2 DEF Touch, records
<1>3. CASE UNCHANGED vars BY <1>1, <1>3 DEF vars
<1>4. ASSUME NEW k \in Kinds, begin(k) PROVE Proved(x)
    <2>1. late' = late /\ (pc'[x] = pc[x] \/ pc'[x] \in {"hold", "precondition"})
        BY <1>t, <1>4 DEF begin, Goto, RecordsType
    <2> QED BY <2>1 DEF Proved
<1>5. ASSUME NEW w \in late, lateWrite(w) PROVE Proved(x)
    <2>1. late' \subseteq late /\ pc' = pc BY <1>5 DEF lateWrite
    <2> QED BY <2>1 DEF Proved
<1>6. ASSUME NEW o \in Operations, Operation(o) PROVE Proved(x) \/ drain(x)
    <2>1. CASE ownerLost(o)
        <3>1. pc'[x] \in {pc[x], "none"} BY <1>t, <2>1 DEF ownerLost, End, Goto, RecordsType
        <3>2. late' = late \/ (pc[o] = "write" /\ late' = late \cup {[op |-> o, what |-> pc[o]]})
            BY <2>1 DEF ownerLost, Sheltered
        <3> QED BY SMTT(40), <3>1, <3>2 DEF Proved
    <2>2. CASE ~ownerLost(o)
        <3>1. late' = late
            BY <1>6, <2>2 DEF Operation, precondition, writeHold, recordHold, drain, commitRead,
               commitWrite, commitFails, recordCommit, resumeOperation, cancelOperation,
               releaseHold, releaseCanceled, records
        <3>2. CASE o # x
            <4>1. pc'[x] = pc[x] BY <1>6, <3>2, OthersFrame
            <4> QED BY <1>1, <3>1, <4>1
        <3>3. CASE o = x /\ ~drain(x)
            <4>1. CASE commitRead(x) BY <4>1 DEF commitRead, Running, Proved
            <4>2. CASE ~commitRead(x)
                <5> USE <1>t, <3>3 DEF RecordsType, Goto, End
                <5>1. CASE precondition(x) BY <5>1, <3>1 DEF precondition, Proved
                <5>2. CASE writeHold(x) BY <5>2, <3>1 DEF writeHold, Proved
                <5>3. CASE recordHold(x) BY <5>3, <3>1 DEF recordHold, Proved
                <5>4. CASE commitWrite(x) BY <5>4, <3>1 DEF commitWrite, Running, Proved
                <5>5. CASE commitFails(x) BY <5>5, <3>1 DEF commitFails, Proved
                <5>6. CASE recordCommit(x) BY <5>6, <3>1 DEF recordCommit, Proved
                <5>7. CASE resumeOperation(x) BY <5>7, <3>1 DEF resumeOperation, Proved
                <5>8. CASE cancelOperation(x) BY <5>8, <3>1 DEF cancelOperation, Proved
                <5>9. CASE releaseHold(x) BY <5>9, <3>1 DEF releaseHold, Proved
                <5>10. CASE releaseCanceled(x) BY <5>10, <3>1 DEF releaseCanceled, records, Proved
                <5> QED BY ZenonT(40), <1>6, <2>2, <3>3, <4>2, <5>1, <5>2, <5>3, <5>4, <5>5, <5>6, <5>7, <5>8,
                           <5>9, <5>10 DEF Operation
            <4> QED BY <4>1, <4>2
        <3> QED BY <3>2, <3>3
    <2> QED BY <2>1, <2>2
<1> QED BY <1>2, <1>3, <1>4, <1>5, <1>6, <1>1 DEF Central

\* A recorded hold does not appear anew.
LEMMA HoldBack ==
    ASSUME Sheltered, TypeOK, OpsOK, Central, NEW x \in Operations, hold[x] > 0, bar'[cur'] = x
    PROVE  bar[cur] = x
<1>b. NoBarrier \in Rules /\ NoBarrier # x /\ rule[cur] \in Rules /\ bar[cur] \in Rules BY SMT, DirTypes
<1>1. CASE UNCHANGED directory BY <1>1 DEF directory
<1>2. CASE Touch BY <1>2, <1>b, WriteFacts DEF Touch
<1>3. ASSUME NEW r \in Rules, Write(r, NoBarrier) PROVE FALSE BY <1>3, <1>b, WriteFacts
<1>4. ASSUME NEW o \in Operations, Operation(o) PROVE bar[cur] = x
    <2>1. CASE writeHold(o) /\ ~UNCHANGED directory
        <3>1. Write(rule[cur], o) /\ pc[o] = "hold" BY <2>1 DEF writeHold, Running
        <3>2. hold[o] = 0 BY <3>1 DEF OpsOK, OperationOK
        <3>3. o \in Rules BY SMT
        <3>4. bar'[cur'] = o BY <1>b, <3>1, <3>3, WriteFacts
        <3> QED BY SMT, <3>2, <3>4
    <2>2. CASE ~writeHold(o)
        <3>1. UNCHANGED directory \/ \E r \in Rules : Write(r, NoBarrier)
            <4>1. o \in Rules BY SMT
            <4> QED BY <1>4, <1>b, <2>2, <4>1 DEF Operation, precondition, recordHold, drain,
                   commitRead, commitWrite, commitFails, recordCommit, ownerLost, resumeOperation,
                   cancelOperation, releaseHold, releaseCanceled
        <3> QED BY <1>1, <1>3, <3>1
    <2> QED BY <1>1, <2>1, <2>2
<1>5. ASSUME NEW w \in late, lateWrite(w) PROVE bar[cur] = x
    <2>1. w.op \in Rules /\ w.what = "write" BY SMT, OpsTypes DEF OpsOK, LateOK
    <2> QED BY <1>1, <1>3, <1>5, <2>1 DEF lateWrite
<1>6. CASE UNCHANGED vars BY <1>1, <1>6 DEF vars, directory
<1>7. CASE \E k \in Kinds : begin(k) BY <1>1, <1>7 DEF begin
<1> QED BY <1>2, <1>4, <1>5, <1>6, <1>7 DEF Central

\* A drain that passes finds the fleet quiet, and fenced at the hold.
LEMMA Drained ==
    ASSUME TypeOK, FleetOK, OpsOK, NEW o \in Operations, drain(o), bar[cur] = o
    PROVE  Quiet /\ Fence(hold[o])
<1>1. hold[o] > 0 BY DEF drain, Running, OpsOK, OperationOK
<1>2. \A p \in Proxies : Local(p) /\ ~drainBlocked(p, o) BY DEF drain, FleetOK
<1> QED BY <1>1, <1>2, DrainedProxy DEF Quiet, Fence

\* A step of the control plane keeps what a drain proved.
LEMMA DrainCentral ==
    ASSUME Sheltered, TypeOK, FleetOK, OpsOK, DrainOK, Central
    PROVE  DrainOK'
<1> SUFFICES ASSUME NEW x \in Operations, Proved(x)', bar'[cur'] = x
             PROVE  Quiet' /\ Fence(hold[x])'
    BY DEF DrainOK
<1>1. Proved(x) \/ drain(x) BY ProvedBack
<1>2. hold[x] > 0 BY <1>1, ProvedHold DEF drain, Running, OpsOK, OperationOK
<1>3. bar[cur] = x /\ hold'[x] = hold[x] BY <1>2, HoldBack, HoldKept
<1>4. Quiet /\ Fence(hold[x]) BY <1>1, <1>3, Drained DEF DrainOK
<1>5. \A h : Fence(h) => Fence(h)' BY CentralFrame
<1>6. Quiet' BY <1>4, CentralFrame
<1>7. \A h : h = hold'[x] => (Fence(h)' => Fence(hold[x])') BY DEF Fence
<1> QED BY <1>3, <1>4, <1>5, <1>6, <1>7

\* The version the rule in force has been held since.
LEMMA FloorType ==
    ASSUME TypeOK, OpsOK
    PROVE  Floor \in Versions /\ Floor <= cur /\ (rule[cur] # 0 => rule[cur] \in Operations /\ Floor > 0)
<1>1. cur \in Versions /\ rule[cur] \in Rules BY DirTypes
<1>2. CASE rule[cur] = 0 BY SMT, <1>1, <1>2 DEF Floor
<1>3. CASE rule[cur] # 0
    <2>1. rule[cur] \in Operations BY SMT, <1>1, <1>3
    <2>2. hold[rule[cur]] > 0 /\ hold[rule[cur]] <= cur BY <2>1 DEF OpsOK, DirectoryOK
    <2>3. hold[rule[cur]] \in Versions BY <2>1, OpsTypes
    <2> QED BY <1>3, <2>1, <2>2, <2>3 DEF Floor
<1> QED BY <1>2, <1>3

\* From the hold of the change in force on, a version without a barrier is of its rule.
LEMMA RuleAt ==
    ASSUME TypeOK, OpsOK, NEW v \in Versions, Floor <= v, v <= cur, bar[v] = NoBarrier
    PROVE  rule[v] = rule[cur]
<1>1. cur \in Versions /\ rule[cur] \in Rules /\ rule[v] \in Rules BY DirTypes
<1>2. CASE rule[cur] = 0
    <2>1. cur <= cur BY SMT, <1>1
    <2>2. rule[v] <= rule[cur] BY <1>1, <2>1 DEF OpsOK, DirectoryOK
    <2> QED BY SMTT(40), <1>1, <1>2, <2>2
<1>3. CASE rule[cur] # 0
    <2>1. rule[cur] \in Operations /\ Floor = hold[rule[cur]] /\ Floor \in Versions
        BY <1>3, FloorType DEF Floor
    <2>2. v \in hold[rule[cur]] .. cur BY SMTT(30), <1>1, <2>1
    <2>3. rule[v] = rule[cur] \/ bar[v] = rule[cur] BY <2>1, <2>2 DEF OpsOK, DirectoryOK
    <2> QED BY <1>3, <2>3
<1> QED BY <1>2, <1>3

\* A step of the control plane keeps who may serve by what, and one rule.
LEMMA RouteCentral ==
    ASSUME Sheltered, TypeOK, FleetOK, OpsOK, DrainOK, RouteOK, OneRule, Central
    PROVE  RouteOK' /\ OneRule'
<1>f. /\ proc' = proc /\ closed' = closed /\ from' = from /\ flight' = flight
    BY CentralFrame DEF process
<1>h. \A h : Fence(h) => Fence(h)' BY CentralFrame
<1>r. rule[cur] \in Rules /\ NoBarrier \in Rules BY SMT, DirTypes
<1>1. CASE KeepsRule
    <2>1. rule'[cur'] = rule[cur] /\ \A v \in Versions : v <= cur => rule'[v] = rule[v]
        <3>1. CASE UNCHANGED directory BY <3>1 DEF directory
        <3>2. CASE \E b \in Rules : Write(rule[cur], b) BY <1>r, <3>2, WriteFacts
        <3> QED BY <1>1, <3>1, <3>2 DEF KeepsRule
    <2>2. Floor' = Floor
        <3>1. CASE rule[cur] = 0 BY <2>1, <3>1 DEF Floor
        <3>2. CASE rule[cur] # 0
            <4>1. rule[cur] \in Operations /\ hold[rule[cur]] > 0 BY <3>2, FloorType DEF Floor
            <4>2. hold'[rule[cur]] = hold[rule[cur]] BY <4>1, HoldKept
            <4> QED BY <2>1, <3>2, <4>2 DEF Floor
        <3> QED BY <3>1, <3>2
    <2>3. Fence(Floor)'
        <3>1. \A h : Fence(h)' /\ h = Floor' => Fence(Floor)' BY DEF Fence
        <3>2. Fence(Floor) BY DEF RouteOK
        <3> QED BY <1>h, <2>2, <3>1, <3>2
    <2>4. ASSUME NEW p \in Proxies, proc[p] = "up", closed[p] = NoBarrier
          PROVE  rule'[from[p]] = rule'[cur']
        <3>1. from[p] \in Versions /\ from[p] <= cur
            <4>1. Local(p) BY DEF FleetOK
            <4>2. from[p] <= inst[p] /\ inst[p] <= cur BY <2>4, <4>1, Order
            <4>3. from[p] \in Versions /\ inst[p] \in Versions /\ cur \in Versions BY Types
            <4> QED BY SMTT(30), <4>2, <4>3
        <3>2. rule[from[p]] = rule[cur] BY <2>4 DEF RouteOK
        <3> QED BY <2>1, <3>1, <3>2
    <2>5. OneRule' BY <1>f, <2>1 DEF OneRule
    <2> QED BY <1>f, <2>3, <2>4, <2>5 DEF RouteOK
<1>2. ASSUME NEW o \in Operations, Commits(o) PROVE RouteOK' /\ OneRule'
    <2>1. bar[cur] = o /\ hold[o] > 0 /\ Proved(o) /\ Write(o, NoBarrier) BY <1>2 DEF Commits
    <2>2. Quiet /\ Fence(hold[o]) BY <2>1 DEF DrainOK
    <2>3. rule'[cur'] = o /\ hold'[o] = hold[o] /\ o # 0
        <3>1. o \in Rules /\ o # 0 BY SMT
        <3> QED BY <1>r, <2>1, <3>1, WriteFacts, HoldKept
    <2>4. Floor' = hold[o] BY <2>3 DEF Floor
    <2>5. Fence(Floor)'
        <3>1. \A h : Fence(h)' /\ h = Floor' => Fence(Floor)' BY DEF Fence
        <3> QED BY <1>h, <2>2, <2>4, <3>1
    <2>6. ASSUME NEW p \in Proxies, proc[p] = "up", closed[p] = NoBarrier PROVE FALSE
        <3>1. inst[p] >= hold[o] BY <2>2, <2>6 DEF Fence
        <3>2. closed[p] = bar[inst[p]] /\ inst[p] <= cur BY <2>6 DEF FleetOK, Local, ProcessOK
        <3>3. hold[o] \in Versions /\ \A v \in hold[o] .. cur : bar[v] = o BY <2>1, Held
        <3>4. inst[p] \in hold[o] .. cur
            <4>1. inst[p] \in Versions /\ cur \in Versions BY Types
            <4> QED BY SMTT(40), <3>1, <3>2, <3>3, <4>1
        <3> QED BY <2>3, <2>6, <3>2, <3>3, <3>4
    <2>7. OneRule' BY <1>f, <2>2 DEF OneRule, Quiet
    <2> QED BY <1>f, <2>5, <2>6, <2>7 DEF RouteOK
<1> QED BY <1>1, <1>2, CentralWrites
-----------------------------------------------------------------------------
(* The steps of one proxy.                                                 *)

\* A step of a proxy or of the fleet leaves the directory and the operations alone.
LEMMA ProxyFrames ==
    ASSUME NEW p \in Proxies, Proxy(p) \/ Fleet(p)
    PROVE  UNCHANGED directory /\ pc' = pc /\ hold' = hold /\ late' = late
BY DEF Proxy, install, persist, Enter, Release, Load, crash, Retire, beat,
             registerRead, registerRecord, serve, records,
             Fleet, heartbeat, leaseExpires, Forget, fleetRetire, Resolve

\* Mutations are admitted one at a time.
LEMMA FlightStep ==
    ASSUME TypeOK, NEW p \in Proxies, Proxy(p) \/ Fleet(p),
           NEW q \in Proxies, NEW i \in Incs, NEW r \in flight'[q][i]
    PROVE  r \in flight[q][i] \/ (q = p /\ \E v \in Versions : Enter(p, v) /\ r = rule[v])
<1>t. ProcessType BY TypeParts
<1>1. CASE flight' = flight BY <1>1
<1>2. ASSUME NEW v \in Versions, Enter(p, v)
      PROVE  r \in flight[q][i] \/ (q = p /\ r = rule[v])
    BY <1>t, <1>2 DEF Enter, ProcessType
<1>3. ASSUME NEW x \in Rules, NEW j \in Incs, Release(p, j, x) PROVE r \in flight[q][i]
    BY <1>t, <1>3 DEF Release, ProcessType
<1>4. \/ flight' = flight
      \/ \E v \in Versions : Enter(p, v)
      \/ \E x \in Rules, j \in Incs : Release(p, j, x)
    BY DEF Proxy, install, persist, Load, crash, Retire, beat, registerRead, registerRecord, serve,
                 Fleet, heartbeat, leaseExpires, Forget, fleetRetire, Resolve, process
<1> QED BY <1>1, <1>2, <1>3, <1>4

\* A step of a proxy keeps what a drain proved.
LEMMA DrainProxy ==
    ASSUME Sheltered, TypeOK, FleetOK, OpsOK, DrainOK, NEW p \in Proxies, Proxy(p) \/ Fleet(p)
    PROVE  DrainOK'
<1>f. UNCHANGED directory /\ pc' = pc /\ hold' = hold /\ late' = late BY ProxyFrames
<1> SUFFICES ASSUME NEW x \in Operations, Proved(x), bar[cur] = x
             PROVE  Quiet' /\ Fence(hold[x])'
    BY <1>f DEF DrainOK, Proved, directory
<1>1. Quiet /\ Fence(hold[x]) BY DEF DrainOK
<1>2. hold[x] > 0 BY ProvedHold
<1>3. hold[x] \in Versions /\ hold[x] <= cur /\ \A v \in hold[x] .. cur : bar[v] = x BY <1>2, Held
<1>4. Fence(hold[x])'
    <2>1. \A h \in Versions : h <= cur /\ Fence(h) => Fence(h)' BY FenceStep
    <2>2. \A h : h = hold'[x] => (Fence(h)' => Fence(hold[x])') BY DEF Fence
    <2> QED BY <1>1, <1>3, <1>f, <2>1, <2>2
<1>5. ASSUME NEW v \in Versions, Enter(p, v) PROVE FALSE
    <2>1. proc[p] = "up" /\ closed[p] = NoBarrier BY <1>5 DEF Enter
    <2>2. inst[p] >= hold[x] BY <1>1, <2>1 DEF Fence
    <2>3. closed[p] = bar[inst[p]] /\ inst[p] <= cur BY <2>1 DEF FleetOK, Local, ProcessOK
    <2>4. inst[p] \in hold[x] .. cur
        <3>1. inst[p] \in Versions /\ cur \in Versions BY Types
        <3> QED BY SMTT(40), <1>3, <2>2, <2>3, <3>1
    <2> QED BY SMTT(40), <1>3, <2>1, <2>3, <2>4
<1>6. Quiet' BY SMTT(30), <1>1, <1>5, FlightStep DEF Quiet
<1> QED BY <1>4, <1>6

\* A step of a proxy keeps who may serve by what.
LEMMA RouteProxy ==
    ASSUME Sheltered, TypeOK, FleetOK, OpsOK, RouteOK, NEW p \in Proxies, Proxy(p) \/ Fleet(p)
    PROVE  RouteOK'
<1>f. UNCHANGED directory /\ hold' = hold BY ProxyFrames
<1>t. ProcessType BY TypeParts
<1>1. Floor' = Floor BY <1>f DEF Floor, directory
<1>2. Fence(Floor)'
    <2>1. \A h \in Versions : h <= cur /\ Fence(h) => Fence(h)' BY FenceStep
    <2>2. \A h : Fence(h)' /\ h = Floor' => Fence(Floor)' BY DEF Fence
    <2>3. Fence(Floor) BY DEF RouteOK
    <2> QED BY <1>1, <2>1, <2>2, <2>3, FloorType
<1>3. ASSUME NEW q \in Proxies, proc'[q] = "up", closed'[q] = NoBarrier
      PROVE  rule[from'[q]] = rule[cur]
    <2>o. proc[q] = "up" /\ closed[q] = NoBarrier => rule[from[q]] = rule[cur] BY DEF RouteOK
    <2>1. CASE q # p
        <3>1. SameProcess(q) BY <2>1, ProxyFrame
        <3> QED BY <1>3, <2>o, <3>1 DEF SameProcess
    <2>2. CASE q = p
        <3>c. Local(p) /\ Local(p)'
            BY FleetStep DEF FleetOK, Next
        <3>r. ASSUME NEW v \in Versions, inst'[p] = v, bar[v] = NoBarrier PROVE rule[v] = rule[cur]
            <4>1. Floor <= v
                <5>1. inst'[p] >= Floor' BY <1>2, <1>3, <2>2 DEF Fence
                <5> QED BY <1>1, <3>r, <5>1, FloorType
            <4>2. v <= cur
                <5>1. inst'[p] <= cur' BY <3>c DEF Local, ProcessOK
                <5> QED BY <1>f, <3>r, <5>1 DEF directory
            <4> QED BY <3>r, <4>1, <4>2, RuleAt
        <3>1. CASE install(p)
            <4>1. PICK v \in Versions :
                    /\ inst'[p] = v /\ closed'[p] = bar[v]
                    /\ from'[p] = IF closed[p] # NoBarrier /\ bar[v] = NoBarrier THEN v ELSE from[p]
                BY <1>t, <3>1 DEF install, ProcessType
            <4>2. proc' = proc BY <3>1 DEF install
            <4>3. CASE closed[p] = NoBarrier BY <1>3, <2>2, <2>o, <4>1, <4>2, <4>3
            <4>4. CASE closed[p] # NoBarrier
                <5>1. bar[v] = NoBarrier BY <1>3, <2>2, <4>1
                <5>2. rule[v] = rule[cur] BY <3>r, <4>1, <5>1
                <5> QED BY <2>2, <4>1, <4>4, <5>1, <5>2
            <4> QED BY <4>3, <4>4
        <3>2. CASE serve(p)
            <4>1. from'[p] = inst[p] /\ inst' = inst /\ closed' = closed BY <1>t, <3>2 DEF serve, ProcessType
            <4>2. proc[p] # "down" BY <3>2 DEF serve
            <4>3. closed[p] = bar[inst[p]] BY <3>c, <4>2 DEF Local, ProcessOK
            <4>4. inst[p] \in Versions BY Types
            <4> QED BY <1>3, <2>2, <3>r, <4>1, <4>3, <4>4
        <3>3. CASE proc' = proc /\ closed' = closed /\ from' = from BY <1>3, <2>2, <2>o, <3>3
        <3>4. CASE Load(p) BY <1>3, <1>t, <2>2, <3>4 DEF Load, ProcessType
        <3>5. CASE crash(p) \/ Retire(p) BY <1>3, <1>t, <2>2, <3>5 DEF crash, Retire, Exit, ProcessType
        <3>6. CASE registerRead(p) \/ registerRecord(p)
            BY <1>3, <1>t, <2>2, <3>6 DEF registerRead, registerRecord, ProcessType
        <3>7. \/ install(p) \/ serve(p) \/ Load(p) \/ crash(p) \/ Retire(p)
              \/ registerRead(p) \/ registerRecord(p)
              \/ proc' = proc /\ closed' = closed /\ from' = from
            BY DEF Proxy, persist, Enter, Release, beat, gate,
                         Fleet, heartbeat, leaseExpires, Forget, fleetRetire, Resolve, process
        <3> QED BY <3>1, <3>2, <3>3, <3>4, <3>5, <3>6, <3>7
    <2> QED BY <2>1, <2>2
<1> QED BY <1>2, <1>3, <1>f DEF RouteOK, directory

\* A step of a proxy keeps one rule.
LEMMA OneRuleProxy ==
    ASSUME TypeOK, FleetOK, OpsOK, RouteOK, OneRule, NEW p \in Proxies, Proxy(p) \/ Fleet(p)
    PROVE  OneRule'
<1>f. UNCHANGED directory BY ProxyFrames
<1>1. ASSUME NEW v \in Versions, Enter(p, v) PROVE rule[v] = rule[cur]
    <2>1. /\ proc[p] = "up" /\ closed[p] = NoBarrier /\ from[p] <= v /\ v <= inst[p]
        BY <1>1 DEF Enter
    <2>2. rule[from[p]] = rule[cur] BY <2>1 DEF RouteOK
    <2>3. from[p] \in Versions /\ inst[p] \in Versions /\ cur \in Versions BY Types
    <2>4. inst[p] <= cur BY Order DEF FleetOK
    <2>5. v <= cur /\ cur <= cur BY SMTT(30), <2>1, <2>3, <2>4
    <2>6. rule[from[p]] <= rule[v] /\ rule[v] <= rule[cur]
        BY <2>1, <2>3, <2>5 DEF OpsOK, DirectoryOK
    <2>7. rule[v] \in Rules /\ rule[cur] \in Rules BY DirTypes
    <2> QED BY SMTT(40), <2>2, <2>6, <2>7
<1>2. ASSUME NEW q \in Proxies, NEW i \in Incs, NEW r \in flight'[q][i] PROVE r = rule[cur]
    <2>1. CASE r \in flight[q][i] BY <2>1 DEF OneRule
    <2>2. CASE \E v \in Versions : Enter(p, v) /\ r = rule[v] BY <1>1, <2>2
    <2> QED BY SMTT(30), <1>2, <2>1, <2>2, FlightStep
<1> QED BY <1>2, <1>f DEF OneRule, directory
-----------------------------------------------------------------------------
\* The inductive invariant holds at the start.
LEMMA InitIInv == Init => IInv
<1> SUFFICES ASSUME Init PROVE IInv OBVIOUS
<1>1. TypeOK /\ FleetOK BY TypeInit, FleetInit
<1>2. /\ cur = 1 /\ cur \in Versions /\ ops = 0 /\ late = {}
      /\ rule = [v \in Versions |-> 0] /\ bar = [v \in Versions |-> 0]
      /\ hold = [o \in Operations |-> 0] /\ pc = [o \in Operations |-> "none"]
      /\ status = [o \in Operations |-> "none"]
    BY SMT DEF Init
<1>3. rule[cur] = 0 /\ bar[cur] = 0 BY <1>2
<1>4. DirectoryOK BY SMTT(30), <1>2, <1>3 DEF DirectoryOK
<1>5. ASSUME NEW o \in Operations PROVE OperationOK(o)
    <2>1. pc[o] = "none" /\ status[o] = "none" /\ hold[o] = 0 /\ bar[cur] # o BY SMTT(30), <1>2, <1>3
    <2> QED BY SMTT(30), <1>2, <2>1 DEF OperationOK
<1>6. LateOK BY <1>2 DEF LateOK
<1>7. DrainOK BY SMTT(30), <1>3 DEF DrainOK
<1>8. RouteOK
    <2>1. Floor = 0 BY <1>3 DEF Floor
    <2>2. \A p \in Proxies : durable[p] >= 0 /\ inst[p] >= 0 /\ from[p] \in Versions BY SMTT(30), <1>1, Types
    <2>3. Fence(Floor) BY <2>1, <2>2 DEF Fence
    <2> QED BY <1>2, <1>3, <2>2, <2>3 DEF RouteOK
<1>9. OneRule BY DEF Init, OneRule
<1> QED BY <1>1, <1>4, <1>5, <1>6, <1>7, <1>8, <1>9 DEF IInv, OpsOK

\* Every step keeps it.
LEMMA StepIInv ==
    ASSUME Sheltered, IInv, [Next]_vars
    PROVE  IInv'
<1>1. TypeOK /\ FleetOK /\ OpsOK /\ DrainOK /\ RouteOK /\ OneRule BY DEF IInv
<1>2. TypeOK' /\ FleetOK' /\ OpsOK' BY <1>1, TypeStep, FleetStep, OpsStep
<1>3. CASE Central BY <1>1, <1>2, <1>3, DrainCentral, RouteCentral DEF IInv
<1>4. ASSUME NEW p \in Proxies, Proxy(p) \/ Fleet(p) PROVE IInv'
    BY <1>1, <1>2, <1>4, DrainProxy, RouteProxy, OneRuleProxy DEF IInv
<1> QED BY <1>3, <1>4 DEF Next, Central

\* The inductive invariant holds of every behaviour in which none of the events happens that the
\* documents exclude: runBarrier's hold, drain and commit, whatever the heartbeats, restarts,
\* retirements and lost owners around it, for any number of proxies, operations and processes.
THEOREM BarrierInvariant ==
    ASSUME Sheltered
    PROVE  Spec => []IInv
<1>1. Init => IInv BY InitIInv
<1>2. IInv /\ [Next]_vars => IInv' BY StepIInv
<1> QED BY <1>1, <1>2, PTL DEF Spec

\* Type correctness: of the directory, the operations' records, the processes and the members.
THEOREM BarrierTypes ==
    ASSUME Sheltered
    PROVE  Spec => []TypeOK
<1>1. IInv => TypeOK BY DEF IInv
<1> QED BY <1>1, BarrierInvariant, PTL

\* runBarrier's promise: no commit leaves work of the rule it replaces on its way to a backend,
\* in any process of any proxy, ended ones included.
THEOREM BarrierOneRule ==
    ASSUME Sheltered
    PROVE  Spec => []OneRule
<1>1. IInv => OneRule BY DEF IInv
<1> QED BY <1>1, BarrierInvariant, PTL

\* drainBlockers counts versions that survive a restart, so no process, restarted or joined since,
\* serves by a version before the hold of the change in force.
THEOREM BarrierNoneBehindHold ==
    ASSUME Sheltered
    PROVE  Spec => []NoneBehindHold
<1>1. ASSUME IInv PROVE NoneBehindHold
    <2> SUFFICES ASSUME NEW p \in Proxies, NEW o \in Operations, proc[p] = "up", rule[cur] = o
                 PROVE  inst[p] >= hold[o]
        BY DEF NoneBehindHold
    <2>1. Floor = hold[o] BY SMTT(30) DEF Floor
    <2>2. Fence(Floor) BY <1>1 DEF IInv, RouteOK
    <2> QED BY <2>1, <2>2 DEF Fence
<1>2. IInv => NoneBehindHold BY <1>1
<1> QED BY <1>2, BarrierInvariant, PTL

\* Fleet's records never lose a process that serves: a barrier waits for its proxy, however
\* heartbeats, retirements, resolutions and restarts cross.
THEOREM BarrierServerBlocks ==
    ASSUME Sheltered
    PROVE  Spec => []ServerBlocks
<1>1. ASSUME IInv PROVE ServerBlocks
    <2> SUFFICES ASSUME NEW p \in Proxies, proc[p] = "up"
                 PROVE  Counted(p) /\ (unres[p] # {} \/ ~Retired(p))
        BY DEF ServerBlocks
    <2>1. TypeOK /\ Local(p) BY <1>1 DEF IInv, FleetOK
    <2>2. Covers(p, inc[p]) BY <2>1, ServingCovered
    <2>3. PICK k \in Incs : Tracked(p, k) BY <2>2 DEF Covers
    <2>4. CASE k \in unres[p]
        <3>1. mState[p] # "unknown" BY <2>1, <2>4 DEF Local, RecordOK
        <3> QED BY <2>4, <3>1 DEF Counted
    <2>5. CASE mState[p] = "active" BY <2>5 DEF Counted, Retired
    <2> QED BY <2>3, <2>4, <2>5 DEF Tracked
<1>2. IInv => ServerBlocks BY <1>1
<1> QED BY <1>2, BarrierInvariant, PTL

\* The directory's rules only move forward: a commit that is late, or made by an owner that was
\* taken for gone, never brings a replaced rule back.
THEOREM BarrierNoRuleReturns ==
    ASSUME Sheltered
    PROVE  Spec => []NoRuleReturns
<1>1. ASSUME IInv PROVE NoRuleReturns
    <2> SUFFICES ASSUME NEW v \in 1 .. cur - 1 PROVE rule[v] <= rule[v + 1]
        BY DEF NoRuleReturns
    <2>1. cur \in Versions BY <1>1, DirTypes DEF IInv
    <2>2. v \in Versions /\ v + 1 \in Versions /\ v <= v + 1 /\ v + 1 <= cur BY SMT, <2>1
    <2> QED BY <1>1, <2>2 DEF IInv, OpsOK, DirectoryOK
<1>2. IInv => NoRuleReturns BY <1>1
<1> QED BY <1>2, BarrierInvariant, PTL

\* A hold leaves the directory only with its own commit, or when its operation has ended: of the
\* writes of writeHold, commitWrite, releaseHold and a late owner, each is compared with it.
THEOREM BarrierHoldStands ==
    ASSUME Sheltered
    PROVE  Spec => HoldStands
<1> DEFINE Stands == \A o \in Operations : bar[cur] = o /\ bar'[cur'] # o =>
                        rule'[cur'] = o \/ (rule'[cur'] = rule[cur] /\ status[o] \in Terminal)
<1>1. ASSUME IInv, Next PROVE Stands
    <2> SUFFICES ASSUME NEW o \in Operations, bar[cur] = o, bar'[cur'] # o
                 PROVE  rule'[cur'] = o \/ (rule'[cur'] = rule[cur] /\ status[o] \in Terminal)
        OBVIOUS
    <2>i. TypeOK /\ OpsOK BY <1>1 DEF IInv
    <2>b. rule[cur] \in Rules /\ bar[cur] \in Rules /\ NoBarrier \in Rules BY SMTT(30), <2>i, DirTypes
    <2>u. ~UNCHANGED directory BY DEF directory
    <2>c. Central
        <3>1. \A p \in Proxies : Proxy(p) \/ Fleet(p) => UNCHANGED directory BY ProxyFrames
        <3> QED BY <1>1, <2>u, <3>1 DEF Next, Central
    <2>1. CASE \E x \in Operations : Commits(x) BY <2>1, <2>i, <2>b, WriteFacts DEF Commits
    <2>2. CASE \E b \in Rules : Write(rule[cur], b)
        <3>1. rule'[cur'] = rule[cur] BY <2>2, <2>i, <2>b, WriteFacts
        <3>2. ~Touch BY <2>i, <2>b, WriteFacts DEF Touch
        <3>3. ASSUME NEW a \in Operations, Operation(a) PROVE rule'[cur'] = o \/ status[o] \in Terminal
            <4>1. CASE writeHold(a)
                <5>1. bar[cur] # a /\ status[a] = "running" BY <2>u, <4>1 DEF writeHold, Running
                <5>2. a = ops BY <2>i, <5>1, Last
                <5>3. bar[cur] <= ops BY <2>i DEF OpsOK, DirectoryOK
                <5>4. o < ops BY SMTT(30), <2>i, <2>b, <5>1, <5>2, <5>3, DirTypes
                <5> QED BY <2>i, <5>4 DEF OpsOK, OperationOK
            <4>2. CASE releaseHold(a) \/ releaseCanceled(a)
                BY <2>u, <4>2 DEF releaseHold, releaseCanceled, Terminal
            <4>3. CASE commitWrite(a)
                <5>1. Completes(a) /\ Running(a, "write") /\ Write(a, NoBarrier)
                    BY <2>u, <4>3 DEF commitWrite
                <5>2. bar[cur] = a BY <2>i, <5>1, CommitHeld
                <5> QED BY <2>i, <2>b, <5>1, <5>2, WriteFacts
            <4> QED BY <2>u, <3>3, <4>1, <4>2, <4>3 DEF Operation, precondition, recordHold, drain,
                   commitRead, commitFails, recordCommit, ownerLost, resumeOperation, cancelOperation
        <3>4. ASSUME NEW w \in late, lateWrite(w) PROVE rule'[cur'] = o
            <4>1. w.op \in Operations /\ w.what = "write" BY <2>i, OpsTypes DEF OpsOK, LateOK
            <4>2. Completes(w.op) /\ Write(w.op, NoBarrier) BY <2>u, <3>4, <4>1 DEF lateWrite
            <4>3. bar[cur] = w.op BY <2>i, <4>1, <4>2, CommitHeld
            <4> QED BY <2>i, <2>b, <4>1, <4>2, <4>3, WriteFacts
        <3>5. ~UNCHANGED vars /\ \A k \in Kinds : ~begin(k) BY <2>u DEF vars, directory, begin
        <3> QED BY <2>c, <3>1, <3>2, <3>3, <3>4, <3>5 DEF Central
    <2> QED BY <2>1, <2>2, <2>c, <2>i, <2>u, CentralWrites DEF KeepsRule
<1>2. IInv /\ [Next]_vars => [Stands]_vars BY <1>1
<1> QED BY <1>2, BarrierInvariant, PTL DEF Spec, HoldStands
=============================================================================
