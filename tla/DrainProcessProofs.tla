------------------------ MODULE DrainProcessProofs ------------------------
(***************************************************************************)
(* DrainBarrier: type correctness, and that the steps of one proxy's       *)
(* process and the heartbeats the fleet takes from it keep Local, the      *)
(* invariant about one proxy.                                              *)
(***************************************************************************)
EXTENDS DrainBarrierInv, TLAPS

\* First-order leaves are Zenon's; a leaf that needs arithmetic or records names SMT.
USE ZenonT(30)

USE BoundsPositive DEF Versions, Operations, Rules, Incs, NoBarrier
-----------------------------------------------------------------------------
(* The type invariant, by part of the state. *)

DirectoryType == cur \in Versions /\ rule \in [Versions -> Rules] /\ bar \in [Versions -> Rules]

RecordsType ==
    /\ ops \in Rules /\ kind \in [Operations -> {"step", "cutover", "readonly"}]
    /\ status \in [Operations -> Statuses] /\ pc \in [Operations -> Stages]
    /\ need \in Versions /\ wrote \in Versions /\ hold \in [Operations -> Versions]
    /\ late \subseteq [op : Operations, what : {"hold", "write"}]

ProcessType ==
    /\ proc \in [Proxies -> {"down", "joining", "asked", "answered", "up"}]
    /\ inc \in [Proxies -> 0 .. MaxInc] /\ mark \in [Proxies -> [Incs -> Marks]]
    /\ inst \in [Proxies -> Versions]
    /\ closed \in [Proxies -> Rules] /\ from \in [Proxies -> Versions]
    /\ durable \in [Proxies -> Versions]
    /\ flight \in [Proxies -> [Incs -> SUBSET Rules]]
    /\ answer \in [Proxies -> Versions] /\ hb \in [Proxies -> SUBSET Reports]

FleetType ==
    /\ mState \in [Proxies -> {"unknown", "active", "retired", "none"}]
    /\ mInc \in [Proxies -> 0 .. MaxInc] /\ unres \in [Proxies -> SUBSET Incs]
    /\ resolved \in [Proxies -> SUBSET Incs] /\ live \in [Proxies -> BOOLEAN]
    /\ rep \in [Proxies -> Reports]

\* The type invariant is the conjunction of its parts.
LEMMA TypeParts == TypeOK <=> DirectoryType /\ RecordsType /\ ProcessType /\ FleetType
BY DEF TypeOK, DirectoryType, RecordsType, ProcessType, FleetType

\* And so it is after a step.
LEMMA TypePartsNext == TypeOK' <=> DirectoryType' /\ RecordsType' /\ ProcessType' /\ FleetType'
BY TypeParts, PTL

\* A part of the state that does not change keeps its type.
LEMMA TypeFrame ==
    /\ DirectoryType /\ UNCHANGED directory => DirectoryType'
    /\ RecordsType /\ UNCHANGED records => RecordsType'
    /\ ProcessType /\ UNCHANGED process => ProcessType'
    /\ FleetType /\ UNCHANGED fleet => FleetType'
<1>1. DirectoryType /\ UNCHANGED directory => DirectoryType'
    BY DEF DirectoryType, directory
<1>2. RecordsType /\ UNCHANGED records => RecordsType'
    BY DEF RecordsType, records
<1>3. ProcessType /\ UNCHANGED process => ProcessType'
    BY DEF ProcessType, process
<1>4. FleetType /\ UNCHANGED fleet => FleetType'
    BY DEF FleetType, fleet
<1> QED BY <1>1, <1>2, <1>3, <1>4

\* The types hold at the start.
LEMMA TypeInit == Init => TypeOK
<1>1. ASSUME Init PROVE DirectoryType
    <2>1. cur = 1 /\ rule = [v \in Versions |-> 0] /\ bar = [v \in Versions |-> NoBarrier]
        BY <1>1 DEF Init
    <2> QED BY SMT, <2>1 DEF DirectoryType
<1>2. ASSUME Init PROVE RecordsType
    <2>1. /\ ops = 0 /\ kind = [o \in Operations |-> "step"]
          /\ status = [o \in Operations |-> "none"] /\ pc = [o \in Operations |-> "none"]
          /\ need = 0 /\ wrote = 0 /\ hold = [o \in Operations |-> 0] /\ late = {}
        BY <1>2 DEF Init
    <2> QED BY SMT, <2>1 DEF RecordsType, Statuses, Stages
<1>3. ASSUME Init PROVE ProcessType
    <2>1. /\ proc = [p \in Proxies |-> IF p \in Members THEN "up" ELSE "down"]
          /\ inc = [p \in Proxies |-> At(p)]
          /\ mark = [p \in Proxies |-> [i \in Incs |-> IF i <= At(p) THEN "active" ELSE "none"]]
        BY <1>3 DEF Init
    <2>2. /\ inst = [p \in Proxies |-> At(p)] /\ durable = [p \in Proxies |-> At(p)]
          /\ from = [p \in Proxies |-> At(p)] /\ closed = [p \in Proxies |-> NoBarrier]
          /\ answer = [p \in Proxies |-> 0]
        BY <1>3 DEF Init
    <2>3. flight = [p \in Proxies |-> [i \in Incs |-> {}]] /\ hb = [p \in Proxies |-> {}]
        BY <1>3 DEF Init
    <2>4. \A p \in Proxies : At(p) \in 0 .. MaxInc /\ At(p) \in Versions
        BY SMT DEF At
    <2> QED BY SMT, <2>1, <2>2, <2>3, <2>4 DEF ProcessType, Marks
<1>4. ASSUME Init PROVE FleetType
    <2>1. /\ mState = [p \in Proxies |-> IF p \in Members THEN "active" ELSE "unknown"]
          /\ live = [p \in Proxies |-> p \in Members]
          /\ rep = [p \in Proxies |-> [inc |-> 1, applied |-> At(p), durable |-> At(p), ack |-> NoBarrier]]
          /\ mInc = [p \in Proxies |-> At(p)]
          /\ unres = [p \in Proxies |-> {}] /\ resolved = [p \in Proxies |-> {}]
        BY <1>4 DEF Init
    <2>2. \A p \in Proxies : At(p) \in 0 .. MaxInc /\ At(p) \in Versions
        BY SMT DEF At
    <2>3. rep \in [Proxies -> Reports]
        BY SMT, <2>1, <2>2 DEF Reports
    <2>4. live \in [Proxies -> BOOLEAN]
        <3>1. \A p \in Proxies : (p \in Members) \in BOOLEAN BY SMT
        <3> QED BY <2>1, <3>1
    <2> QED BY <2>1, <2>2, <2>3, <2>4 DEF FleetType
<1> QED BY <1>1, <1>2, <1>3, <1>4, TypeParts

\* A write of the directory keeps its types.
LEMMA WriteType ==
    ASSUME DirectoryType, NEW r \in Rules, NEW b \in Rules, Write(r, b)
    PROVE  DirectoryType'
BY SMT DEF Write, DirectoryType

\* The current version's rule and barrier.
LEMMA InDirectory == DirectoryType => rule[cur] \in Rules /\ bar[cur] \in Rules
BY DEF DirectoryType

\* The steps of an operation keep the types.
LEMMA TypeOperation ==
    ASSUME TypeOK, NEW o \in Operations, Operation(o)
    PROVE  TypeOK'
<1>t. DirectoryType /\ RecordsType /\ ProcessType /\ FleetType BY TypeParts
<1>r. o \in Rules /\ rule[cur] \in Rules /\ bar[cur] \in Rules /\ NoBarrier \in Rules
    BY SMT, <1>t, InDirectory
<1>p. UNCHANGED process /\ UNCHANGED fleet
    BY DEF Operation, precondition, writeHold, recordHold, drain, commitRead, commitWrite,
           commitFails, recordCommit, ownerLost, resumeOperation, cancelOperation, releaseHold, releaseCanceled
<1>d. DirectoryType'
    BY <1>t, <1>r, TypeFrame, WriteType
        DEF Operation, precondition, writeHold, recordHold, drain, commitRead, commitWrite,
            commitFails, recordCommit, ownerLost, resumeOperation, cancelOperation, releaseHold, releaseCanceled
<1>s. RecordsType'
    <2>w. cur < MaxVersion => cur + 1 \in Versions BY SMT, <1>t DEF DirectoryType
    <2>c. cur \in Versions BY <1>t DEF DirectoryType
    <2> USE <1>t DEF RecordsType, Running, Goto, Become, End, Stay, Statuses, Stages
    <2>1. CASE precondition(o)
        BY SMT, <2>1 DEF precondition
    <2>2. CASE writeHold(o)
        <3>1. wrote' \in Versions BY SMTT(30), <2>2, <2>w, <2>c DEF writeHold, Write
        <3>2. need' \in Versions BY SMT, <2>2 DEF writeHold
        <3>3. status' \in [Operations -> Statuses] /\ pc' \in [Operations -> Stages]
            BY ZenonT(40), <2>2 DEF writeHold
        <3> QED BY <2>2, <3>1, <3>2, <3>3 DEF writeHold
    <2>3. CASE recordHold(o)
        BY SMT, <2>3 DEF recordHold
    <2>4. CASE drain(o)
        BY <2>4 DEF drain
    <2>5. CASE commitRead(o)
        BY SMTT(40), <2>5 DEF commitRead
    <2>6. CASE commitWrite(o)
        BY SMTT(40), <2>6 DEF commitWrite
    <2>7. CASE commitFails(o)
        BY SMT, <2>7 DEF commitFails
    <2>8. CASE recordCommit(o)
        BY SMT, <2>8 DEF recordCommit
    <2>9. CASE ownerLost(o)
        BY SMT, <2>9 DEF ownerLost
    <2>10. CASE resumeOperation(o)
        BY <2>10 DEF resumeOperation
    <2>11. CASE cancelOperation(o)
        BY SMT, <2>11 DEF cancelOperation
    <2>12. CASE releaseHold(o)
        BY <2>12 DEF releaseHold
    <2>13. CASE releaseCanceled(o)
        BY <2>13, TypeFrame DEF releaseCanceled
    <2> QED BY <2>1, <2>2, <2>3, <2>4, <2>5, <2>6, <2>7, <2>8, <2>9, <2>10, <2>11, <2>12, <2>13 DEF Operation
<1> QED BY <1>t, <1>p, <1>d, <1>s, TypeFrame, TypePartsNext

\* So does a new operation.
LEMMA TypeBegin ==
    ASSUME TypeOK, NEW k \in Kinds, begin(k)
    PROVE  TypeOK'
<1>t. DirectoryType /\ RecordsType /\ ProcessType /\ FleetType BY TypeParts
<1>1. UNCHANGED <<directory, process, fleet>> BY DEF begin
<1>2. RecordsType'
    <2>1. ops + 1 \in Operations BY SMT, <1>t DEF begin, RecordsType
    <2>2. cur \in Versions /\ k \in {"step", "cutover", "readonly"}
        BY <1>t, KindsKnown DEF DirectoryType
    <2> QED BY SMT, <1>t, <2>1, <2>2 DEF begin, RecordsType, Become, Goto, Statuses, Stages
<1> QED BY <1>t, <1>1, <1>2, TypeFrame, TypePartsNext

\* So does a late write of a former owner.
LEMMA TypeLate ==
    ASSUME TypeOK, NEW w \in late, lateWrite(w)
    PROVE  TypeOK'
<1>t. DirectoryType /\ RecordsType /\ ProcessType /\ FleetType BY TypeParts
<1>1. UNCHANGED <<process, fleet>> BY DEF lateWrite
<1>2. RecordsType' BY <1>t DEF RecordsType, lateWrite
<1>3. DirectoryType'
    <2>1. w.op \in Rules /\ NoBarrier \in Rules /\ rule[cur] \in Rules
        BY SMT, <1>t, InDirectory DEF RecordsType
    <2> QED BY <1>t, <2>1, TypeFrame, WriteType DEF lateWrite
<1> QED BY <1>t, <1>1, <1>2, <1>3, TypeFrame, TypePartsNext

\* What a running proxy reports is a report.
LEMMA ReportType ==
    ASSUME DirectoryType, ProcessType, NEW p \in Proxies, ProcessOK(p), proc[p] # "down"
    PROVE  Report(p) \in Reports
<1>1. inc[p] \in Incs BY SMT DEF ProcessType, ProcessOK
<1>2. inst[p] \in Versions /\ durable[p] \in Versions /\ bar[inst[p]] \in Rules
    BY DEF ProcessType, DirectoryType
<1> QED BY SMT, <1>1, <1>2 DEF Report, Reports

\* A heartbeat keeps the types of the fleet's records.
LEMMA HeartbeatType ==
    ASSUME FleetType, NEW p \in Proxies, RecordOK(p), NEW m \in Reports, Heartbeat(p, m)
    PROVE  FleetType'
<1>1. unres' \in [Proxies -> SUBSET Incs]
    <2>1. mState[p] = "active" => mInc[p] \in Incs
        BY SMT DEF FleetType, RecordOK
    <2> QED BY <2>1 DEF FleetType, Heartbeat
<1>2. m.inc \in 0 .. MaxInc BY SMT DEF Reports
<1>3. mState' \in [Proxies -> {"unknown", "active", "retired", "none"}]
    BY DEF Heartbeat, FleetType
<1>4. mInc' \in [Proxies -> 0 .. MaxInc] /\ rep' \in [Proxies -> Reports]
    BY <1>2 DEF Heartbeat, FleetType
<1>5. resolved' \in [Proxies -> SUBSET Incs] /\ live' \in [Proxies -> BOOLEAN]
    BY DEF Heartbeat, FleetType
<1> QED BY <1>1, <1>3, <1>4, <1>5 DEF FleetType

\* The steps of a proxy keep the types.
LEMMA TypeProxy ==
    ASSUME TypeOK, FleetOK, NEW p \in Proxies, Proxy(p)
    PROVE  TypeOK'
<1>t. DirectoryType /\ RecordsType /\ ProcessType /\ FleetType BY TypeParts
<1>k. ProcessOK(p) /\ RecordOK(p) BY DEF FleetOK, Local
<1>1. UNCHANGED <<directory, records>>
    BY DEF Proxy, install, persist, Enter, Release, Load, crash, Retire, beat,
                 registerRead, registerRecord, serve
<1>2. FleetType'
    <2>1. CASE registerRecord(p)
        BY <2>1, <1>t, <1>k, ReportType, HeartbeatType DEF registerRecord
    <2>2. CASE ~registerRecord(p)
        <3>1. UNCHANGED fleet
            BY <2>2 DEF Proxy, install, persist, Enter, Release, Load, crash, Retire, beat,
                         registerRead, serve
        <3> QED BY <3>1, <1>t, TypeFrame
    <2> QED BY <2>1, <2>2
<1>3. ProcessType'
    <2> USE <1>t DEF ProcessType, gate
    <2>1. CASE install(p)
        <3>1. \A v \in Versions : bar[v] \in Rules BY DEF DirectoryType
        <3> QED BY SMTT(40), <2>1, <3>1 DEF install
    <2>2. CASE persist(p) BY <2>2 DEF persist
    <2>3. ASSUME NEW v \in Versions, Enter(p, v) PROVE ProcessType'
        <3>1. rule[v] \in Rules BY DEF DirectoryType
        <3>2. inc[p] \in Incs BY SMT, <2>3, <1>k DEF Enter, ProcessOK
        <3>3. flight[p] \in [Incs -> SUBSET Rules] OBVIOUS
        <3>4. [flight[p] EXCEPT ![inc[p]] = @ \cup {rule[v]}] \in [Incs -> SUBSET Rules]
            BY <3>1, <3>2, <3>3
        <3>5. flight' \in [Proxies -> [Incs -> SUBSET Rules]]
            BY <2>3, <3>4 DEF Enter
        <3> QED BY <2>3, <3>5 DEF Enter
    <2>4. ASSUME NEW r \in Rules, NEW i \in Incs, Release(p, i, r) PROVE ProcessType'
        <3>1. flight' \in [Proxies -> [Incs -> SUBSET Rules]] BY <2>4 DEF Release
        <3> QED BY <2>4, <3>1 DEF Release
    <2>5. CASE Load(p)
        <3>1. \A v \in Versions : bar[v] \in Rules BY DEF DirectoryType
        <3>2. mark' \in [Proxies -> [Incs -> Marks]] BY <2>5 DEF Load, Marks
        <3>3. inst' \in [Proxies -> Versions] /\ durable' \in [Proxies -> Versions]
            BY SMT, <2>5 DEF Load
        <3>4. closed' \in [Proxies -> Rules] /\ from' \in [Proxies -> Versions]
            BY SMTT(30), <2>5, <3>1 DEF Load
        <3>5. proc' \in [Proxies -> {"down", "joining", "asked", "answered", "up"}]
            BY <2>5 DEF Load
        <3>6. inc' \in [Proxies -> 0 .. MaxInc] BY SMTT(30), <2>5 DEF Load
        <3> QED BY <2>5, <3>2, <3>3, <3>4, <3>5, <3>6 DEF Load
    <2>6. CASE crash(p) BY SMTT(30), <2>6 DEF crash, Exit
    <2>7. CASE Retire(p)
        <3>1. mark' \in [Proxies -> [Incs -> Marks]] BY <2>7 DEF Retire, Marks
        <3> QED BY SMTT(40), <2>7, <3>1 DEF Retire, Exit
    <2>8. CASE beat(p)
        <3>1. Report(p) \in Reports BY <2>8, <1>k, ReportType DEF beat
        <3>2. hb' \in [Proxies -> SUBSET Reports] BY SMTT(30), <2>8, <3>1 DEF beat
        <3> QED BY <2>8, <3>2 DEF beat
    <2>9. CASE registerRead(p)
        <3>1. cur \in Versions BY DEF DirectoryType
        <3> QED BY <2>9, <3>1 DEF registerRead
    <2>10. CASE registerRecord(p) BY <2>10 DEF registerRecord
    <2>11. CASE serve(p) BY <2>11 DEF serve
    <2> QED BY <2>1, <2>2, <2>3, <2>4, <2>5, <2>6, <2>7, <2>8, <2>9, <2>10, <2>11 DEF Proxy
<1> QED BY <1>t, <1>1, <1>2, <1>3, TypeFrame, TypePartsNext

\* So do the fleet's.
LEMMA TypeFleet ==
    ASSUME TypeOK, FleetOK, NEW p \in Proxies, Fleet(p)
    PROVE  TypeOK'
<1>t. DirectoryType /\ RecordsType /\ ProcessType /\ FleetType BY TypeParts
<1>k. ProcessOK(p) /\ RecordOK(p) BY DEF FleetOK, Local
<1>1. UNCHANGED <<directory, records, process>>
    BY DEF Fleet, heartbeat, leaseExpires, Forget, fleetRetire, Resolve
<1>2. FleetType'
    <2>1. CASE heartbeat(p)
        <3>1. \A m \in hb[p] : m \in Reports BY <1>t DEF ProcessType
        <3> QED BY <2>1, <1>t, <1>k, <3>1, HeartbeatType DEF heartbeat
    <2> USE <1>t DEF FleetType, Vanishes
    <2>n. NoReport \in Reports BY SMT DEF NoReport, Reports
    <2>2. CASE leaseExpires(p) BY <2>2, <2>n DEF leaseExpires
    <2>3. CASE Forget(p)
        <3>1. Retired(p) => mInc[p] > 0 BY <1>k DEF RecordOK, Retired
        <3>2. Retired(p) => mInc[p] \in Incs BY SMT, <3>1
        <3> QED BY <2>3, <3>2 DEF Forget
    <2>4. ASSUME NEW i \in Incs, fleetRetire(p, i) PROVE FleetType'
        <3>1. mState' \in [Proxies -> {"unknown", "active", "retired", "none"}]
            BY <2>4 DEF fleetRetire
        <3>2. unres' \in [Proxies -> SUBSET Incs] BY SMT, <2>4 DEF fleetRetire
        <3>3. live' \in [Proxies -> BOOLEAN]
            BY <2>4 DEF fleetRetire
        <3>4. rep' \in [Proxies -> Reports]
            BY <2>4, <2>n DEF fleetRetire
        <3> QED BY <2>4, <3>1, <3>2, <3>3, <3>4 DEF fleetRetire
    <2>5. ASSUME NEW i \in Incs, Resolve(p, i) PROVE FleetType'
        BY ZenonT(40), <2>5 DEF Resolve
    <2> QED BY <2>1, <2>2, <2>3, <2>4, <2>5 DEF Fleet
<1> QED BY <1>t, <1>1, <1>2, TypeFrame, TypePartsNext

\* Every step keeps the types.
LEMMA TypeStep ==
    ASSUME TypeOK, FleetOK, [Next]_vars
    PROVE  TypeOK'
<1>t. DirectoryType /\ RecordsType /\ ProcessType /\ FleetType BY TypeParts
<1>1. CASE Touch
    <2>1. DirectoryType' BY <1>1, <1>t, InDirectory, WriteType DEF Touch
    <2> QED BY <1>1, <1>t, <2>1, TypeFrame, TypePartsNext DEF Touch
<1>2. CASE UNCHANGED vars
    <2>1. UNCHANGED <<directory, records, process, fleet>>
        BY <1>2 DEF vars, directory, records, process, fleet
    <2> QED BY <1>t, <2>1, TypeFrame, TypePartsNext
<1> QED BY <1>1, <1>2, TypeBegin, TypeOperation, TypeLate, TypeProxy, TypeFleet DEF Next
-----------------------------------------------------------------------------
(* The proxies and their records. *)

\* Nothing of proxy p changes.
SameProcess(p) ==
    /\ proc'[p] = proc[p] /\ inc'[p] = inc[p] /\ mark'[p] = mark[p] /\ inst'[p] = inst[p]
    /\ closed'[p] = closed[p] /\ from'[p] = from[p] /\ durable'[p] = durable[p]
    /\ flight'[p] = flight[p] /\ answer'[p] = answer[p] /\ hb'[p] = hb[p]
SameRecord(p) ==
    /\ mState'[p] = mState[p] /\ mInc'[p] = mInc[p] /\ unres'[p] = unres[p]
    /\ resolved'[p] = resolved[p] /\ live'[p] = live[p] /\ rep'[p] = rep[p]

\* Which incarnations the fleet still waits for depends on the proxy's record alone.
LEMMA CoversFrame ==
    ASSUME NEW p \in Proxies, mark'[p] = mark[p], mState'[p] = mState[p], mInc'[p] = mInc[p],
           unres'[p] = unres[p], resolved'[p] = resolved[p], NEW i
    PROVE  Cleared(p, i)' = Cleared(p, i) /\ Covers(p, i)' = Covers(p, i)
BY DEF Cleared, Covers, Tracked

\* A step that does not touch a proxy keeps what is said of it.
LEMMA LocalFrame ==
    ASSUME NEW p \in Proxies, Local(p), SameProcess(p), SameRecord(p), UNCHANGED directory
    PROVE  Local(p)'
<1>1. ProcessOK(p)' BY DEF Local, ProcessOK, SameProcess, directory
<1>2. RecordOK(p)' BY DEF Local, RecordOK, SameProcess, SameRecord
<1>3. ClearedEmpty(p)' BY CoversFrame DEF Local, ClearedEmpty, SameProcess, SameRecord
<1>4. Covered(p)' BY CoversFrame DEF Local, Covered, Heard, SameProcess, SameRecord
<1>5. ReportsTrue(p)'
    BY DEF Local, ReportsTrue, True, Carried, SameProcess, SameRecord, directory
<1> QED BY <1>1, <1>2, <1>3, <1>4, <1>5 DEF Local

\* A new version says nothing new of the barriers reported.
LEMMA LocalWrite ==
    ASSUME TypeOK, NEW p \in Proxies, Local(p), SameProcess(p), SameRecord(p),
           NEW r \in Rules, NEW b \in Rules, Write(r, b)
    PROVE  Local(p)'
<1>t. DirectoryType /\ ProcessType /\ FleetType BY TypeParts
<1>v. /\ cur \in Versions /\ inst[p] \in Versions /\ durable[p] \in Versions
      /\ durable[p] <= inst[p] /\ inst[p] <= cur
    BY <1>t DEF Local, ProcessOK, DirectoryType, ProcessType
<1>w. cur' = cur + 1 /\ \A v \in Versions : v <= cur => bar'[v] = bar[v]
    BY SMT, <1>t DEF Write, DirectoryType
<1>1. ProcessOK(p)'
    <2>1. inst[p] <= cur' /\ bar'[inst[p]] = bar[inst[p]] BY SMT, <1>v, <1>w
    <2> QED BY <2>1 DEF Local, ProcessOK, SameProcess
<1>2. RecordOK(p)' BY DEF Local, RecordOK, SameProcess, SameRecord
<1>3. ClearedEmpty(p)' BY CoversFrame DEF Local, ClearedEmpty, SameProcess, SameRecord
<1>4. Covered(p)' BY CoversFrame DEF Local, Covered, Heard, SameProcess, SameRecord
<1>5. ASSUME NEW m \in Reports, m.durable <= durable[p], True(p, m)
      PROVE  True(p, m)'
    <2> SUFFICES ASSUME bar'[cur'] # NoBarrier, m.ack = bar'[cur'], Carried(m.durable)'
                 PROVE  \A i \in Incs : i >= m.inc => flight[p][i] = {}
        BY DEF True, SameProcess
    <2>1. m.durable \in Versions /\ m.durable <= cur /\ cur \in Versions
        BY SMT, <1>v, <1>5 DEF Reports
    <2>3. bar'[cur] = bar'[cur'] /\ \A v \in m.durable .. cur : bar'[v] = bar'[cur']
        BY SMT, <2>1, <1>w DEF Carried
    <2>4. Carried(m.durable) /\ m.ack = bar[cur] /\ bar[cur] # NoBarrier
        BY SMT, <2>1, <1>w, <2>3 DEF Carried
    <2> QED BY <1>5, <2>4 DEF True
<1>6. ReportsTrue(p)'
    <2>1. \A m \in hb[p] : m \in Reports /\ m.durable <= durable[p]
        BY <1>t DEF Local, ProcessOK, ProcessType
    <2>2. rep[p] \in Reports /\ (live[p] => rep[p].durable <= durable[p])
        BY <1>t DEF Local, RecordOK, FleetType
    <2>3. \A m \in hb[p] : True(p, m)' BY <2>1, <1>5 DEF Local, ReportsTrue
    <2>4. ASSUME live[p] PROVE True(p, rep[p])'
        <3> DEFINE m == rep[p]
        <3>1. m \in Reports /\ m.durable <= durable[p] /\ True(p, m)
            BY <2>2, <2>4 DEF Local, ReportsTrue
        <3>2. \A x \in Reports : x.durable <= durable[p] /\ True(p, x) => True(p, x)' BY <1>5
        <3>3. rep'[p] = rep[p] BY DEF SameRecord
        <3> QED BY <3>1, <3>2, <3>3
    <2> QED BY <2>3, <2>4 DEF Local, ReportsTrue, SameProcess, SameRecord
<1> QED BY <1>1, <1>2, <1>3, <1>4, <1>6 DEF Local
-----------------------------------------------------------------------------
(* The steps of one proxy. *)

\* The types of what belongs to one proxy.
LEMMA Types ==
    ASSUME TypeOK, NEW p \in Proxies
    PROVE  /\ cur \in Versions /\ bar \in [Versions -> Rules]
           /\ inc[p] \in 0 .. MaxInc /\ mark[p] \in [Incs -> Marks]
           /\ inst[p] \in Versions /\ durable[p] \in Versions /\ from[p] \in Versions
           /\ flight[p] \in [Incs -> SUBSET Rules] /\ \A m \in hb[p] : m \in Reports
           /\ mInc[p] \in 0 .. MaxInc /\ unres[p] \subseteq Incs /\ resolved[p] \subseteq Incs
           /\ rep[p] \in Reports
           /\ \A m \in Reports : m.inc \in Incs /\ m.durable \in Versions
<1>1. DirectoryType /\ ProcessType /\ FleetType BY TypeParts
<1>2. cur \in Versions /\ bar \in [Versions -> Rules] BY <1>1 DEF DirectoryType
<1>3. /\ inc[p] \in 0 .. MaxInc /\ mark[p] \in [Incs -> Marks]
      /\ inst[p] \in Versions /\ durable[p] \in Versions /\ from[p] \in Versions
    BY <1>1 DEF ProcessType
<1>4. flight[p] \in [Incs -> SUBSET Rules] /\ \A m \in hb[p] : m \in Reports
    BY <1>1 DEF ProcessType
<1>5. /\ mInc[p] \in 0 .. MaxInc /\ unres[p] \subseteq Incs /\ resolved[p] \subseteq Incs
      /\ rep[p] \in Reports
    BY <1>1 DEF FleetType
<1>6. \A m \in Reports : m.inc \in Incs /\ m.durable \in Versions BY DEF Reports
<1> QED BY <1>2, <1>3, <1>4, <1>5, <1>6

\* The incarnations of one proxy.
LEMMA IncTypes ==
    ASSUME TypeOK, NEW p \in Proxies
    PROVE  /\ inc[p] \in 0 .. MaxInc /\ mInc[p] \in 0 .. MaxInc
           /\ mInc[p] < inc[p] => mInc[p] # inc[p] /\ inc[p] \in Incs
<1>1. inc[p] \in 0 .. MaxInc /\ mInc[p] \in 0 .. MaxInc BY Types
<1> QED BY SMT, <1>1

\* The order of incarnations.
LEMMA IncOrder ==
    \A a, b \in 0 .. MaxInc : /\ a > b => ~(a <= b) /\ a # b
                              /\ ~(a < b) /\ ~(a > b) => a = b
BY SMT

\* How they are ordered.
LEMMA Order ==
    ASSUME NEW p \in Proxies, Local(p)
    PROVE  /\ inst[p] <= cur /\ durable[p] <= inst[p] /\ (proc[p] = "up" => from[p] <= inst[p])
           /\ mInc[p] <= inc[p]
           /\ \A m \in hb[p] : m.inc <= inc[p] /\ m.durable <= durable[p]
           /\ live[p] => rep[p].inc = mInc[p] /\ rep[p].durable <= durable[p]
BY DEF Local, ProcessOK, RecordOK

\* A proxy installs the current version.
LEMMA InstallLocal ==
    ASSUME TypeOK, NEW p \in Proxies, Local(p), install(p)
    PROVE  Local(p)'
<1>1. PICK v \in Versions :
        /\ inst[p] < v /\ v <= cur /\ inst'[p] = v /\ closed'[p] = bar[v]
        /\ from'[p] = from[p] \/ from'[p] = v
    <2>1. ProcessType BY TypeParts
    <2> QED BY <2>1 DEF install, ProcessType
<1>2. /\ proc' = proc /\ inc' = inc /\ mark' = mark /\ durable' = durable /\ flight' = flight
      /\ hb' = hb /\ UNCHANGED directory /\ UNCHANGED fleet
    BY DEF install
<1>3. ProcessOK(p)'
    <2>1. ProcessOK(p) BY DEF Local
    <2>2. inst'[p] <= cur /\ durable[p] <= inst'[p] /\ (proc[p] = "up" => from'[p] <= inst'[p])
        BY SMTT(40), <1>1, Order, Types
    <2>3. proc[p] # "down" BY DEF install
    <2> QED BY <1>1, <1>2, <2>1, <2>2, <2>3 DEF ProcessOK, directory
<1>4. RecordOK(p)' BY <1>2 DEF Local, RecordOK, fleet
<1>5. ClearedEmpty(p)' BY <1>2 DEF Local, ClearedEmpty, Cleared, fleet
<1>6. Covered(p)' BY <1>2, CoversFrame DEF Local, Covered, Heard, fleet
<1>7. ReportsTrue(p)' BY <1>2 DEF Local, ReportsTrue, True, Carried, directory, fleet
<1> QED BY <1>3, <1>4, <1>5, <1>6, <1>7 DEF Local

\* A proxy makes what it installed durable.
LEMMA PersistLocal ==
    ASSUME TypeOK, NEW p \in Proxies, Local(p), persist(p)
    PROVE  Local(p)'
<1>1. durable'[p] = inst[p] /\ durable[p] < inst[p]
    <2>1. ProcessType BY TypeParts
    <2> QED BY <2>1 DEF persist, ProcessType
<1>2. /\ proc' = proc /\ inc' = inc /\ mark' = mark /\ inst' = inst /\ closed' = closed
      /\ from' = from /\ flight' = flight /\ hb' = hb /\ UNCHANGED directory /\ UNCHANGED fleet
    BY DEF persist, gate
<1>3. ProcessOK(p)'
    <2>1. ProcessOK(p) BY DEF Local
    <2>2. \A m \in hb[p] : m.durable <= inst[p] BY SMTT(30), <1>1, <2>1, Types DEF ProcessOK
    <2>3. inst[p] <= inst[p] BY SMT, Types
    <2> QED BY <1>1, <1>2, <2>1, <2>2, <2>3 DEF ProcessOK, directory
<1>4. RecordOK(p)'
    <2>1. RecordOK(p) BY DEF Local
    <2>2. live[p] => rep[p].durable <= inst[p] BY SMTT(30), <1>1, <2>1, Types DEF RecordOK
    <2> QED BY <1>1, <1>2, <2>1, <2>2 DEF RecordOK, fleet
<1>5. ClearedEmpty(p)' BY <1>2 DEF Local, ClearedEmpty, Cleared, fleet
<1>6. Covered(p)' BY <1>2, CoversFrame DEF Local, Covered, Heard, fleet
<1>7. ReportsTrue(p)' BY <1>2 DEF Local, ReportsTrue, True, Carried, directory, fleet
<1> QED BY <1>3, <1>4, <1>5, <1>6, <1>7 DEF Local

\* The gate is open only while the version installed carries no barrier: nobody has reported it.
LEMMA EnterLocal ==
    ASSUME TypeOK, NEW p \in Proxies, Local(p), NEW v \in Versions, Enter(p, v)
    PROVE  Local(p)'
<1>1. /\ proc' = proc /\ inc' = inc /\ mark' = mark /\ inst' = inst /\ closed' = closed
      /\ from' = from /\ durable' = durable /\ hb' = hb /\ UNCHANGED directory /\ UNCHANGED fleet
    BY DEF Enter, gate
<1>2. inc[p] \in Incs /\ mark[p][inc[p]] = "active" /\ inc[p] \notin resolved[p]
    BY SMTT(40), Types DEF Enter, Local, ProcessOK, RecordOK
<1>3. \A i \in Incs : i # inc[p] => flight'[p][i] = flight[p][i]
    <2>1. ProcessType BY TypeParts
    <2> QED BY <1>2, <2>1 DEF Enter, ProcessType
<1>u. proc[p] = "up" /\ closed[p] = NoBarrier BY DEF Enter
<1>4. ProcessOK(p)'
    <2>1. ProcessOK(p) BY DEF Local
    <2>2. \A i \in Incs : i > inc[p] => flight'[p][i] = flight[p][i] BY SMT, <1>2, <1>3
    <2> QED BY <1>1, <2>1, <2>2 DEF ProcessOK, directory
<1>5. RecordOK(p)' BY <1>1, <1>u DEF Local, RecordOK, fleet
<1>6. ClearedEmpty(p)' BY <1>1, <1>2, <1>3 DEF Local, ClearedEmpty, Cleared, fleet
<1>7. Covered(p)'
    <2>1. \A i \in Incs : Heard(p, i)' => Heard(p, i) BY <1>1, <1>3, <1>u DEF Heard
    <2> QED BY <1>1, <2>1, CoversFrame DEF Local, Covered, fleet
<1>8. ReportsTrue(p)'
    <2>1. ASSUME NEW m \in Reports, m.inc <= inc[p], m.durable <= durable[p], True(p, m)
          PROVE  True(p, m)'
        <3> SUFFICES ASSUME bar[cur] # NoBarrier, m.ack = bar[cur], Carried(m.durable)
                     PROVE  FALSE
            BY <1>1 DEF True, directory, Carried
        <3>1. m.durable <= inst[p] /\ inst[p] <= cur
            BY SMTT(30), <2>1, Order, Types
        <3>2. bar[inst[p]] = bar[cur] BY SMTT(30), <3>1, <2>1, Types DEF Carried
        <3> QED BY <3>2, <1>u DEF Local, ProcessOK
    <2>2. \A m \in hb[p] : True(p, m)'
        BY <2>1, Types DEF Local, ProcessOK, ReportsTrue
    <2>3. ASSUME live[p] PROVE True(p, rep[p])'
        <3>1. rep[p].inc <= inc[p] /\ rep[p].durable <= durable[p] /\ True(p, rep[p])
            BY <2>3, Order DEF Local, ReportsTrue
        <3>2. \A m \in Reports : m.inc <= inc[p] /\ m.durable <= durable[p] /\ True(p, m) => True(p, m)'
            BY <2>1
        <3>3. rep'[p] = rep[p] BY <1>1 DEF fleet
        <3> QED BY <3>1, <3>2, <3>3, Types
    <2>4. live[p] => \A i \in Incs : i < rep[p].inc /\ flight'[p][i] # {} => i \in unres[p]
        <3>1. live[p] => \A i \in Incs : i < rep[p].inc => i # inc[p] BY SMTT(30), Order, Types
        <3> QED BY <1>3, <3>1 DEF Local, ReportsTrue
    <2> QED BY <1>1, <2>2, <2>3, <2>4 DEF ReportsTrue, fleet
<1> QED BY <1>4, <1>5, <1>6, <1>7, <1>8 DEF Local

\* A request ends.
LEMMA ReleaseLocal ==
    ASSUME TypeOK, NEW p \in Proxies, Local(p), NEW r \in Rules, NEW i \in Incs, Release(p, i, r)
    PROVE  Local(p)'
<1>1. /\ proc' = proc /\ inc' = inc /\ mark' = mark /\ inst' = inst /\ closed' = closed
      /\ from' = from /\ durable' = durable /\ hb' = hb /\ UNCHANGED directory /\ UNCHANGED fleet
    BY DEF Release, gate
<1>2. \A j \in Incs : flight[p][j] = {} => flight'[p][j] = {}
    <2>1. ProcessType BY TypeParts
    <2> QED BY <2>1 DEF Release, ProcessType
<1>3. ProcessOK(p)' BY <1>1, <1>2 DEF Local, ProcessOK, directory
<1>4. RecordOK(p)'
    <2>1. inc[p] > 0 => inc[p] \in Incs BY SMT, Types
    <2>2. proc[p] # "down" => inc[p] > 0 BY DEF Local, ProcessOK
    <2> QED BY <1>1, <1>2, <2>1, <2>2 DEF Local, RecordOK, fleet
<1>5. ClearedEmpty(p)' BY <1>1, <1>2 DEF Local, ClearedEmpty, Cleared, fleet
<1>6. Covered(p)'
    <2>1. \A j \in Incs : Heard(p, j)' => Heard(p, j) BY <1>1, <1>2 DEF Heard
    <2> QED BY <1>1, <2>1, CoversFrame DEF Local, Covered, fleet
<1>7. ReportsTrue(p)'
    BY <1>1, <1>2 DEF Local, ReportsTrue, True, Carried, directory, fleet
<1> QED BY <1>3, <1>4, <1>5, <1>6, <1>7 DEF Local

\* A chain of uncleared processes from a tracked one stays as long as its start is tracked.
LEMMA CoversKept ==
    ASSUME NEW p \in Proxies, NEW i \in Incs, Covers(p, i),
           \A k \in Incs : k <= i /\ Tracked(p, k) /\ ~Cleared(p, k) => Tracked(p, k)',
           \A j \in Incs : j <= i /\ ~Cleared(p, j) => ~Cleared(p, j)'
    PROVE  Covers(p, i)'
<1>1. PICK k \in Incs : k <= i /\ Tracked(p, k) /\ \A j \in k .. i : ~Cleared(p, j)
    BY DEF Covers
<1>2. k \in k .. i /\ \A j \in k .. i : j \in Incs /\ j <= i BY SMT, <1>1
<1>3. Tracked(p, k)' BY <1>1, <1>2
<1>4. \A j \in k .. i : ~Cleared(p, j)' BY <1>1, <1>2
<1> QED BY <1>1, <1>3, <1>4 DEF Covers

\* A proxy starts from what it made durable.
LEMMA LoadLocal ==
    ASSUME TypeOK, NEW p \in Proxies, Local(p), Load(p)
    PROVE  Local(p)'
<1>t. ProcessType BY TypeParts
<1>1. PICK v \in Versions :
        /\ durable[p] <= v /\ v <= inst[p] /\ inst'[p] = v /\ durable'[p] = v /\ closed'[p] = bar[v]
        /\ from'[p] = v
    BY ZenonT(40), <1>t DEF Load, ProcessType
<1>2. /\ proc[p] = "down" /\ proc'[p] = "joining" /\ inc[p] < MaxInc /\ inc'[p] = inc[p] + 1
      /\ mark'[p] = [mark[p] EXCEPT ![inc[p] + 1] = "active"]
    BY <1>t DEF Load, ProcessType
<1>3. flight' = flight /\ hb' = hb /\ UNCHANGED directory /\ UNCHANGED fleet BY DEF Load
<1>4. /\ inc'[p] \in Incs /\ mark'[p][inc'[p]] = "active"
      /\ \A i \in Incs : i # inc'[p] => mark'[p][i] = mark[p][i]
    BY SMTT(30), <1>2, Types
<1>5. \A i \in Incs : i <= inc[p] => i # inc'[p] BY SMTT(30), <1>2, Types
<1>6. inc'[p] > inc[p] /\ \A i \in Incs : i > inc'[p] => i > inc[p] BY SMTT(30), <1>2, Types
<1>7. flight[p][inc'[p]] = {} BY <1>4, <1>6 DEF Local, ProcessOK
<1>8. \A i \in unres[p] \cup resolved[p] : i <= inc[p] BY DEF Local, RecordOK
<1>m. \A m \in hb[p] : m \in Reports /\ m.inc < inc'[p] /\ m.durable <= v
    <2> SUFFICES ASSUME NEW m \in hb[p] PROVE m \in Reports /\ m.inc < inc'[p] /\ m.durable <= v
        OBVIOUS
    <2>1. m \in Reports /\ m.inc \in Incs /\ m.durable \in Versions BY Types
    <2>2. m.inc <= inc[p] /\ m.durable <= durable[p] BY Order
    <2>3. inc[p] \in 0 .. MaxInc /\ durable[p] \in Versions BY Types
    <2>4. m.inc < inc'[p] BY SMT, <1>2, <2>1, <2>2, <2>3
    <2> QED BY SMT, <1>1, <2>1, <2>2, <2>3, <2>4
<1>9. ProcessOK(p)'
    <2>1. v <= cur /\ v <= v BY SMT, <1>1, Types, Order
    <2>2. \A i \in Incs : i > inc'[p] => flight[p][i] = {} /\ mark'[p][i] # "retired"
        BY <1>4, <1>6 DEF Local, ProcessOK
    <2>3. \A m \in hb[p] : m.inc <= inc'[p] BY SMTT(30), <1>m, <1>4, Types
    <2>4. inc'[p] > 0 BY SMT, <1>4
    <2> QED BY <1>1, <1>2, <1>3, <1>4, <1>m, <2>1, <2>2, <2>3, <2>4 DEF ProcessOK, directory
<1>10. RecordOK(p)'
    <2>1. mInc[p] < inc'[p] /\ mInc[p] <= inc'[p] BY SMTT(30), <1>2, Order, Types
    <2>2. \A i \in unres[p] \cup resolved[p] : i <= inc'[p] /\ i # inc'[p] BY SMTT(30), <1>2, <1>8, Types
    <2>3. live[p] => rep[p].durable <= v BY SMTT(30), <1>1, Order, Types
    <2>4. mState[p] = "retired" => mInc[p] > 0 /\ mark'[p][mInc[p]] = "retired"
        <3>1. mState[p] = "retired" => mInc[p] > 0 /\ mark[p][mInc[p]] = "retired"
            BY DEF Local, RecordOK
        <3>2. mState[p] = "retired" => mInc[p] \in Incs /\ mInc[p] # inc'[p] BY SMTT(30), <3>1, <2>1, <1>4, Types
        <3> QED BY <3>1, <3>2, <1>4
    <2> QED BY <1>1, <1>2, <1>3, <1>7, <1>m, <2>1, <2>2, <2>3, <2>4 DEF Local, RecordOK, fleet
<1>11. \A i \in Incs : i # inc'[p] => Cleared(p, i)' = Cleared(p, i)
    BY <1>3, <1>4 DEF Cleared, fleet
<1>12. ClearedEmpty(p)' BY <1>3, <1>7, <1>11 DEF Local, ClearedEmpty
<1>13. Covered(p)'
    <2> SUFFICES ASSUME NEW i \in Incs, Heard(p, i)', ~Cleared(p, i)'
                 PROVE  Covers(p, i)'
        BY DEF Covered
    <2>1. Heard(p, i) BY <1>2, <1>3 DEF Heard
    <2>2. i < inc'[p]
        <3>1. CASE flight[p][i] # {}
            <4>1. ~(i > inc[p]) BY <3>1 DEF Local, ProcessOK
            <4> QED BY SMTT(30), <4>1, <1>2, Types
        <3>2. CASE \E m \in hb[p] : m.inc = i BY <3>2, <1>m
        <3> QED BY <3>1, <3>2, <2>1, <1>2 DEF Heard
    <2>3. \A j \in Incs : j <= i => Cleared(p, j)' = Cleared(p, j) BY SMT, <1>4, <1>11, <2>2
    <2>4. Covers(p, i) BY SMT, <2>1, <2>2, <2>3 DEF Local, Covered
    <2>5. \A k \in Incs : Tracked(p, k)' = Tracked(p, k) BY <1>3 DEF Tracked, fleet
    <2> QED BY <2>3, <2>4, <2>5, CoversKept
<1>14. ReportsTrue(p)' BY <1>3 DEF Local, ReportsTrue, True, Carried, directory, fleet
<1> QED BY <1>9, <1>10, <1>12, <1>13, <1>14 DEF Local

\* A proxy crashes with its requests unaccounted for.
LEMMA CrashLocal ==
    ASSUME TypeOK, NEW p \in Proxies, Local(p), crash(p)
    PROVE  Local(p)'
<1>t. ProcessType BY TypeParts
<1>1. proc'[p] = "down" BY <1>t DEF crash, Exit, ProcessType
<1>2. /\ inc' = inc /\ mark' = mark /\ inst' = inst /\ durable' = durable /\ flight' = flight
      /\ hb' = hb /\ UNCHANGED directory /\ UNCHANGED fleet
    BY DEF crash
<1>3. ProcessOK(p)' BY <1>1, <1>2 DEF Local, ProcessOK, directory
<1>4. RecordOK(p)' BY <1>1, <1>2 DEF Local, RecordOK, fleet
<1>5. ClearedEmpty(p)' BY <1>2 DEF Local, ClearedEmpty, Cleared, fleet
<1>6. Covered(p)' BY <1>1, <1>2, CoversFrame DEF Local, Covered, Heard, fleet
<1>7. ReportsTrue(p)' BY <1>2 DEF Local, ReportsTrue, True, Carried, directory, fleet
<1> QED BY <1>3, <1>4, <1>5, <1>6, <1>7 DEF Local

\* A process marks itself retired only with nothing left.
LEMMA RetireLocal ==
    ASSUME TypeOK, NEW p \in Proxies, Local(p), Retire(p)
    PROVE  Local(p)'
<1>t. ProcessType BY TypeParts
<1>1. proc[p] = "up" /\ proc'[p] = "down" BY <1>t DEF Retire, Exit, ProcessType
<1>2. /\ inc' = inc /\ inst' = inst /\ durable' = durable /\ flight' = flight
      /\ hb' = hb /\ UNCHANGED directory /\ UNCHANGED fleet
    BY DEF Retire
<1>3. inc[p] \in Incs /\ mark[p][inc[p]] = "active" BY SMTT(30), <1>1, Types DEF Local, ProcessOK
<1>4. /\ mark'[p][inc[p]] = "retired" => flight[p][inc[p]] = {}
      /\ \A i \in Incs : i # inc[p] => mark'[p][i] = mark[p][i]
    BY <1>t, <1>3 DEF Retire, ProcessType
<1>5. ProcessOK(p)'
    <2>1. \A i \in Incs : i > inc[p] => i # inc[p] BY SMT, <1>3
    <2> QED BY <1>1, <1>2, <1>4, <2>1 DEF Local, ProcessOK, directory
<1>6. RecordOK(p)'
    <2>1. mState[p] = "retired" => mInc[p] > 0 /\ mark[p][mInc[p]] = "retired"
        BY DEF Local, RecordOK
    <2>2. mState[p] = "retired" => mark'[p][mInc[p]] = "retired"
        <3>1. mState[p] = "retired" => mInc[p] \in Incs BY SMTT(30), <2>1, Types
        <3> QED BY <1>3, <1>4, <2>1, <3>1
    <2> QED BY <1>1, <1>2, <2>1, <2>2 DEF Local, RecordOK, fleet
<1>7. \A i \in Incs : i # inc[p] => Cleared(p, i)' = Cleared(p, i)
    BY <1>2, <1>4 DEF Cleared, fleet
<1>8. ClearedEmpty(p)'
    BY <1>2, <1>3, <1>4, <1>7 DEF Local, ClearedEmpty, Cleared, fleet
<1>9. Covered(p)'
    <2> SUFFICES ASSUME NEW i \in Incs, Heard(p, i)', ~Cleared(p, i)'
                 PROVE  Covers(p, i)'
        BY DEF Covered
    <2>1. Heard(p, i) BY <1>1, <1>2 DEF Heard
    <2>2. i <= inc[p]
        <3>1. CASE flight[p][i] # {}
            <4>1. ~(i > inc[p]) BY <3>1 DEF Local, ProcessOK
            <4> QED BY SMT, <4>1, Types
        <3>2. CASE \E m \in hb[p] : m.inc = i BY <3>2, Order
        <3>3. CASE i = inc[p] BY SMT, <3>3, Types
        <3> QED BY <3>1, <3>2, <3>3, <2>1 DEF Heard
    <2>3. ~Cleared(p, inc[p])
        BY <1>1, <1>3 DEF Local, RecordOK, Cleared
    <2>4. \A j \in Incs : j <= i /\ ~Cleared(p, j) => ~Cleared(p, j)'
        <3>1. \A j \in Incs : j <= i /\ j = inc[p] => j = i BY SMTT(30), <2>2, Types
        <3> QED BY <3>1, <1>7
    <2>5. Covers(p, i) BY <2>1, <2>3, <1>7 DEF Local, Covered
    <2>6. \A k \in Incs : Tracked(p, k)' = Tracked(p, k) BY <1>2 DEF Tracked, fleet
    <2> QED BY <2>4, <2>5, <2>6, CoversKept
<1>10. ReportsTrue(p)' BY <1>2 DEF Local, ReportsTrue, True, Carried, directory, fleet
<1> QED BY <1>5, <1>6, <1>8, <1>9, <1>10 DEF Local

\* What a process says of itself is true of it and of all later ones.
LEMMA ReportTrue ==
    ASSUME TypeOK, NEW p \in Proxies, Local(p), proc[p] # "down"
    PROVE  True(p, Report(p))
<1>1. CASE flight[p][inc[p]] = {}
    <2>1. \A i \in Incs : i > inc[p] => flight[p][i] = {} BY DEF Local, ProcessOK
    <2>2. \A i \in Incs : i >= inc[p] => i > inc[p] \/ i = inc[p] BY SMTT(30), Types
    <2> QED BY <1>1, <2>1, <2>2 DEF True, Report
<1>2. CASE flight[p][inc[p]] # {}
    BY <1>2 DEF True, Report
<1> QED BY <1>1, <1>2

\* A proxy sends a heartbeat.
LEMMA BeatLocal ==
    ASSUME TypeOK, NEW p \in Proxies, Local(p), beat(p)
    PROVE  Local(p)'
<1>t. ProcessType BY TypeParts
<1>1. /\ proc' = proc /\ inc' = inc /\ mark' = mark /\ inst' = inst /\ closed' = closed /\ from' = from
      /\ durable' = durable /\ flight' = flight /\ UNCHANGED directory /\ UNCHANGED fleet
    BY DEF beat, gate
<1>2. proc[p] = "up" BY DEF beat
<1>3. \A m \in hb'[p] : m \in hb[p] \/ m = Report(p) BY ZenonT(40), <1>t DEF beat, ProcessType
<1>4. Report(p).inc = inc[p] /\ Report(p).durable = durable[p] BY DEF Report
<1>5. ProcessOK(p)'
    <2>1. inc[p] <= inc[p] /\ durable[p] <= durable[p] BY SMT, Types
    <2>2. \A m \in hb'[p] : m.inc <= inc[p] /\ m.durable <= durable[p]
        BY <1>3, <1>4, <2>1, Order
    <2> QED BY <1>1, <2>2 DEF Local, ProcessOK, directory
<1>6. RecordOK(p)' BY <1>1, <1>2 DEF Local, RecordOK, fleet
<1>7. ClearedEmpty(p)' BY <1>1 DEF Local, ClearedEmpty, Cleared, fleet
<1>8. Covered(p)'
    <2>1. \A i \in Incs : Heard(p, i)' => Heard(p, i)
        BY <1>1, <1>2, <1>3, <1>4 DEF Heard
    <2> QED BY <1>1, <2>1, CoversFrame DEF Local, Covered, fleet
<1>9. ReportsTrue(p)'
    <2>1. \A m : True(p, m)' = True(p, m) BY <1>1 DEF True, Carried, directory
    <2>2. \A m \in hb'[p] : True(p, m)
        <3>1. True(p, Report(p)) BY <1>2, ReportTrue
        <3> QED BY <1>3, <3>1 DEF Local, ReportsTrue
    <2> QED BY <1>1, <2>1, <2>2 DEF Local, ReportsTrue, fleet
<1> QED BY <1>5, <1>6, <1>7, <1>8, <1>9 DEF Local

\* A proxy's registration reads its record.
LEMMA RegisterReadLocal ==
    ASSUME TypeOK, NEW p \in Proxies, Local(p), registerRead(p)
    PROVE  Local(p)'
<1>t. ProcessType BY TypeParts
<1>1. proc[p] = "joining" /\ proc'[p] = "asked" BY <1>t DEF registerRead, ProcessType
<1>2. /\ inc' = inc /\ mark' = mark /\ inst' = inst /\ durable' = durable /\ flight' = flight
      /\ closed' = closed /\ hb' = hb /\ UNCHANGED directory /\ UNCHANGED fleet
    BY DEF registerRead, gate
<1>3. ProcessOK(p)' BY <1>1, <1>2 DEF Local, ProcessOK, directory
<1>4. RecordOK(p)' BY <1>1, <1>2 DEF Local, RecordOK, fleet
<1>5. ClearedEmpty(p)' BY <1>2 DEF Local, ClearedEmpty, Cleared, fleet
<1>6. Covered(p)' BY <1>1, <1>2, CoversFrame DEF Local, Covered, Heard, fleet
<1>7. ReportsTrue(p)' BY <1>2 DEF Local, ReportsTrue, True, Carried, directory, fleet
<1> QED BY <1>3, <1>4, <1>5, <1>6, <1>7 DEF Local

\* A proxy that may start on its cache is tracked, by a process after which none was cleared.
LEMMA UnretiredCovered ==
    ASSUME TypeOK, NEW p \in Proxies, Local(p), Unretired(p), proc[p] \in {"joining", "asked"}
    PROVE  Covers(p, inc[p])
<1>1. inc[p] \in Incs /\ mInc[p] \in Incs /\ mInc[p] < inc[p] /\ mState[p] = "active"
    <2>1. /\ mState[p] = "active" /\ mInc[p] > 0 /\ mInc[p] < inc[p]
        BY DEF Local, RecordOK, Unretired
    <2> QED BY SMTT(40), <2>1, Types
<1>2. ~Cleared(p, inc[p]) BY DEF Local, ProcessOK, RecordOK, Cleared
<1>3. \A j \in mInc[p] .. inc[p] : j = inc[p] \/ (j \in Incs /\ mInc[p] <= j /\ j < inc[p])
    BY SMT, <1>1
<1>4. \A j \in mInc[p] .. inc[p] : ~Cleared(p, j)
    BY <1>2, <1>3 DEF Unretired, Cleared
<1>5. mInc[p] <= inc[p] BY SMT, <1>1
<1> QED BY <1>1, <1>4, <1>5 DEF Covers, Tracked

\* A registered proxy begins to serve.
LEMMA ServeLocal ==
    ASSUME Sheltered, TypeOK, NEW p \in Proxies, Local(p), serve(p)
    PROVE  Local(p)'
<1>t. ProcessType BY TypeParts
<1>1. /\ proc[p] \in {"joining", "asked", "answered"} /\ proc'[p] = "up"
      /\ from'[p] = inst[p] /\ (proc[p] = "answered" \/ Unretired(p))
    BY <1>t DEF serve, ProcessType, Sheltered
<1>2. /\ inc' = inc /\ mark' = mark /\ inst' = inst /\ durable' = durable /\ flight' = flight
      /\ closed' = closed /\ hb' = hb /\ UNCHANGED directory /\ UNCHANGED fleet
    BY DEF serve
<1>3. ProcessOK(p)'
    <2>1. inst[p] <= inst[p] BY SMT, Types
    <2> QED BY <1>1, <1>2, <2>1 DEF Local, ProcessOK, directory
<1>4. RecordOK(p)' BY <1>1, <1>2 DEF Local, RecordOK, fleet
<1>5. ClearedEmpty(p)' BY <1>2 DEF Local, ClearedEmpty, Cleared, fleet
<1>6. Covered(p)'
    <2>1. \A i : Covers(p, i)' = Covers(p, i) /\ Cleared(p, i)' = Cleared(p, i)
        BY <1>2, CoversFrame DEF fleet
    <2>2. \A i \in Incs : Heard(p, i)' => Heard(p, i) \/ i = inc[p]
        BY <1>2 DEF Heard
    <2>3. proc[p] = "answered" => Heard(p, inc[p]) BY DEF Heard
    <2>4. proc[p] # "answered" => Covers(p, inc[p]) BY <1>1, UnretiredCovered
    <2> QED BY <2>1, <2>2, <2>3, <2>4 DEF Local, Covered
<1>7. ReportsTrue(p)' BY <1>2 DEF Local, ReportsTrue, True, Carried, directory, fleet
<1> QED BY <1>3, <1>4, <1>5, <1>6, <1>7 DEF Local

\* What Fleet.Heartbeat makes of the proxy's record.
LEMMA HeartbeatFacts ==
    ASSUME TypeOK, NEW p \in Proxies, NEW m \in Reports, Heartbeat(p, m)
    PROVE  /\ mInc'[p] = m.inc /\ live'[p] = TRUE /\ rep'[p] = m /\ resolved' = resolved
           /\ mState'[p] = IF mInc[p] = m.inc /\ mState[p] = "retired" THEN "retired" ELSE "active"
           /\ \A i \in Incs : i \in unres'[p] <=>
                \/ /\ i \in unres[p] \/ (mState[p] = "active" /\ mInc[p] # m.inc /\ i = mInc[p])
                   /\ ~(i < m.inc /\ mark[p][i] = "retired")
                \/ i < m.inc /\ ~Cleared(p, i)
<1>t. FleetType BY TypeParts
<1>1. /\ mInc'[p] = m.inc /\ live'[p] = TRUE /\ rep'[p] = m /\ resolved' = resolved
      /\ mState'[p] = IF mInc[p] = m.inc /\ mState[p] = "retired" THEN "retired" ELSE "active"
    BY <1>t DEF FleetType, Heartbeat
<1> DEFINE clean == {i \in Incs : i < m.inc /\ mark[p][i] = "retired"}
           replaced == IF mState[p] = "active" /\ mInc[p] # m.inc THEN {mInc[p]} ELSE {}
           previous == {i \in Incs : i < m.inc /\ i \notin clean \cup resolved[p]}
<1>2. unres'[p] = ((unres[p] \cup replaced) \ clean) \cup previous
    BY <1>t DEF FleetType, Heartbeat
<1>3. \A i \in Incs : i \in previous <=> i < m.inc /\ ~Cleared(p, i) BY DEF Cleared
<1>4. \A i : i \in replaced <=> mState[p] = "active" /\ mInc[p] # m.inc /\ i = mInc[p] OBVIOUS
<1>5. \A i \in Incs : i \in clean <=> i < m.inc /\ mark[p][i] = "retired" OBVIOUS
<1> HIDE DEF clean, replaced, previous
<1>6. \A i \in Incs : i \in unres'[p] <=>
                \/ /\ i \in unres[p] \/ (mState[p] = "active" /\ mInc[p] # m.inc /\ i = mInc[p])
                   /\ ~(i < m.inc /\ mark[p][i] = "retired")
                \/ i < m.inc /\ ~Cleared(p, i)
    BY <1>2, <1>3, <1>4, <1>5
<1> QED BY <1>1, <1>6

\* A heartbeat leaves everything uncleared tracked.
LEMMA HeartbeatTracks ==
    ASSUME TypeOK, NEW p \in Proxies, NEW m \in Reports, Heartbeat(p, m), mark'[p] = mark[p]
    PROVE  /\ \A i : Cleared(p, i)' = Cleared(p, i)
           /\ \A k \in Incs : Tracked(p, k) /\ ~Cleared(p, k) => Tracked(p, k)'
           /\ \A i \in Incs : Covers(p, i) => Covers(p, i)'
<1>1. \A i : Cleared(p, i)' = Cleared(p, i) BY HeartbeatFacts DEF Cleared
<1>2. ASSUME NEW k \in Incs, Tracked(p, k), ~Cleared(p, k) PROVE Tracked(p, k)'
    <2>1. mark[p][k] # "retired" BY <1>2 DEF Cleared
    <2>2. CASE k \in unres[p] BY <2>1, <2>2, HeartbeatFacts DEF Tracked
    <2>3. CASE mState[p] = "active" /\ k = mInc[p] /\ mInc[p] # m.inc
        BY <2>1, <2>3, HeartbeatFacts DEF Tracked
    <2>4. CASE mState[p] = "active" /\ k = mInc[p] /\ mInc[p] = m.inc
        BY <2>4, HeartbeatFacts DEF Tracked
    <2> QED BY <1>2, <2>2, <2>3, <2>4 DEF Tracked
<1>3. ASSUME NEW i \in Incs, Covers(p, i) PROVE Covers(p, i)'
    BY <1>1, <1>2, <1>3, CoversKept
<1> QED BY <1>1, <1>2, <1>3

\* What a heartbeat leaves on the proxy's record is true of the proxy.
LEMMA HeartbeatRecords ==
    ASSUME TypeOK, NEW p \in Proxies, Local(p), NEW m \in Reports, Heartbeat(p, m),
           inc' = inc, mark' = mark, durable' = durable, flight' = flight, hb' = hb, UNCHANGED directory,
           m.inc <= inc[p], m.durable <= durable[p], True(p, m),
           proc'[p] \in {"joining", "asked"} => proc'[p] = proc[p] /\ m.inc < inc[p],
           proc'[p] \in {"up", "answered"} => proc[p] # "down"
    PROVE  RecordOK(p)' /\ ClearedEmpty(p)' /\ ReportsTrue(p)'
<1>1. RecordOK(p)'
    <2>1. mInc'[p] <= inc[p] /\ mInc'[p] > 0
        <3>1. mInc'[p] = m.inc BY HeartbeatFacts
        <3>2. m.inc \in Incs BY Types
        <3> QED BY SMT, <3>1, <3>2
    <2>2. \A i \in resolved'[p] : i <= inc[p] BY HeartbeatFacts DEF Local, RecordOK
    <2>3. ASSUME NEW i \in unres'[p] PROVE i <= inc[p]
        <3>1. i \in Incs
            <4>1. FleetType /\ RecordOK(p) BY TypeParts DEF Local
            <4>2. FleetType' BY <4>1, HeartbeatType
            <4> QED BY <4>2 DEF FleetType
        <3>2. i \in unres[p] \/ i = mInc[p] \/ i < m.inc BY <3>1, HeartbeatFacts
        <3>3. i \in unres[p] => i <= inc[p] BY DEF Local, RecordOK
        <3> QED BY SMTT(40), <3>1, <3>2, <3>3, Order, Types
    <2>4. mState'[p] = "retired" => mark[p][mInc'[p]] = "retired"
        BY HeartbeatFacts DEF Local, RecordOK
    <2>5. mState'[p] \in {"active", "retired"} BY HeartbeatFacts
    <2>6. proc'[p] \in {"joining", "asked"} => mInc'[p] < inc[p] /\ inc[p] \notin unres'[p]
        <3> SUFFICES ASSUME proc[p] \in {"joining", "asked"}, m.inc < inc[p]
                     PROVE  mInc'[p] < inc[p] /\ inc[p] \notin unres'[p]
            OBVIOUS
        <3>1. mInc[p] < inc[p] /\ inc[p] \notin unres[p] BY DEF Local, RecordOK
        <3>2. inc[p] \in Incs BY <3>1, IncTypes
        <3>3. inc[p] # mInc[p] /\ ~(inc[p] < m.inc) BY SMTT(30), <3>1, <3>2, Types
        <3> QED BY <3>1, <3>2, <3>3, HeartbeatFacts
    <2>7. rep'[p].inc = mInc'[p] /\ rep'[p].durable <= durable[p] BY HeartbeatFacts
    <2>8. resolved' = resolved BY HeartbeatFacts
    <2>9. proc'[p] \in {"joining", "asked"} =>
            /\ inc[p] \notin resolved[p] /\ flight[p][inc[p]] = {} /\ \A x \in hb[p] : x.inc < inc[p]
        BY DEF Local, RecordOK
    <2>10. proc'[p] \in {"up", "answered"} => inc[p] \notin resolved[p]
        <3>1. proc[p] \in {"down", "joining", "asked", "answered", "up"} BY TypeParts DEF ProcessType
        <3> QED BY <3>1 DEF Local, RecordOK
    <2> QED BY <2>1, <2>2, <2>3, <2>4, <2>5, <2>6, <2>7, <2>8, <2>9, <2>10 DEF RecordOK
<1>2. ClearedEmpty(p)' BY HeartbeatTracks DEF Local, ClearedEmpty
<1>3. ReportsTrue(p)'
    <2>1. \A x : True(p, x)' = True(p, x) BY DEF True, Carried, directory
    <2>2. rep'[p] = m BY HeartbeatFacts
    <2>3. \A i \in Incs : i < m.inc /\ flight[p][i] # {} => i \in unres'[p]
        BY HeartbeatFacts DEF Local, ClearedEmpty
    <2>4. True(p, rep[p])' BY <2>1, <2>2
    <2> QED BY <2>1, <2>2, <2>3, <2>4 DEF Local, ReportsTrue
<1> QED BY <1>1, <1>2, <1>3

\* The fleet takes a heartbeat, however late.
LEMMA HeartbeatLocal ==
    ASSUME TypeOK, NEW p \in Proxies, Local(p), heartbeat(p)
    PROVE  Local(p)'
<1>1. PICK m \in hb[p] : Heartbeat(p, m) BY DEF heartbeat
<1>2. /\ proc' = proc /\ inc' = inc /\ mark' = mark /\ inst' = inst /\ closed' = closed /\ from' = from
      /\ durable' = durable /\ flight' = flight /\ hb' = hb /\ UNCHANGED directory
    BY DEF heartbeat, process
<1>3. m \in Reports /\ m.inc <= inc[p] /\ m.durable <= durable[p] /\ True(p, m)
    BY Types, Order DEF Local, ReportsTrue
<1>4. proc[p] \in {"joining", "asked"} => m.inc < inc[p] BY DEF Local, RecordOK
<1>5. ProcessOK(p)' BY <1>2 DEF Local, ProcessOK, directory
<1>6. RecordOK(p)' /\ ClearedEmpty(p)' /\ ReportsTrue(p)'
    BY <1>1, <1>2, <1>3, <1>4, HeartbeatRecords
<1>7. Covered(p)'
    <2>1. \A i \in Incs : Heard(p, i)' = Heard(p, i) BY <1>2 DEF Heard
    <2>2. /\ \A i : Cleared(p, i)' = Cleared(p, i)
          /\ \A i \in Incs : Covers(p, i) => Covers(p, i)'
        BY <1>1, <1>2, <1>3, HeartbeatTracks
    <2> QED BY <2>1, <2>2 DEF Local, Covered
<1> QED BY <1>5, <1>6, <1>7 DEF Local

\* A registration writes the proxy's record.
LEMMA RegisterRecordLocal ==
    ASSUME TypeOK, NEW p \in Proxies, Local(p), registerRecord(p)
    PROVE  Local(p)'
<1> DEFINE m == Report(p)
<1>t. ProcessType /\ DirectoryType BY TypeParts
<1>1. proc[p] = "asked" /\ proc'[p] = "answered" /\ Heartbeat(p, m)
    BY <1>t DEF registerRecord, ProcessType
<1>2. /\ inc' = inc /\ mark' = mark /\ inst' = inst /\ closed' = closed /\ from' = from
      /\ durable' = durable /\ flight' = flight /\ hb' = hb /\ UNCHANGED directory
    BY DEF registerRecord, gate
<1>3. m \in Reports /\ m.inc = inc[p] /\ m.durable = durable[p] /\ True(p, m)
    <2>1. m \in Reports BY <1>1, <1>t, ReportType DEF Local
    <2>2. True(p, m) BY <1>1, ReportTrue
    <2> QED BY <2>1, <2>2 DEF Report
<1>4. inc[p] <= inc[p] /\ durable[p] <= durable[p] /\ inc[p] \in Incs BY SMTT(30), <1>3, Types
<1> HIDE DEF m
<1>5. ProcessOK(p)' BY <1>1, <1>2 DEF Local, ProcessOK, directory
<1>6. RecordOK(p)' /\ ClearedEmpty(p)' /\ ReportsTrue(p)'
    <2>1. m.inc <= inc[p] /\ m.durable <= durable[p] BY <1>3, <1>4
    <2> QED BY <1>1, <1>2, <1>3, <2>1, HeartbeatRecords
<1>7. Covered(p)'
    <2>1. \A i \in Incs : Heard(p, i)' => Heard(p, i) \/ i = inc[p] BY <1>2 DEF Heard
    <2>2. /\ \A i : Cleared(p, i)' = Cleared(p, i)
          /\ \A i \in Incs : Covers(p, i) => Covers(p, i)'
        BY <1>1, <1>2, <1>3, HeartbeatTracks
    <2>3. mInc[p] # inc[p] BY SMTT(30), <1>1, <1>4, Types DEF Local, RecordOK
    <2>4. Tracked(p, inc[p])' BY <1>1, <1>2, <1>3, <2>3, HeartbeatFacts DEF Tracked
    <2>5. ~Cleared(p, inc[p]) BY <1>1 DEF Local, ProcessOK, RecordOK, Cleared
    <2>6. \A j \in inc[p] .. inc[p] : j = inc[p] BY SMT, <1>4
    <2>7. Covers(p, inc[p])' BY <1>2, <1>4, <2>2, <2>4, <2>5, <2>6 DEF Covers
    <2> QED BY <1>2, <2>1, <2>2, <2>7 DEF Local, Covered
<1> QED BY <1>5, <1>6, <1>7 DEF Local
=============================================================================
