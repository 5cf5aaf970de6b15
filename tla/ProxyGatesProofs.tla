--------------------------- MODULE ProxyGatesProofs ---------------------------
(***************************************************************************)
(* Proofs about ProxyGates, for any number of requests, any bound on the   *)
(* retired bundles and any number of directory versions: the types, the    *)
(* exactness of the gates' counts, and the promise a drain proof makes.    *)
(* First the inductive invariant and the lemmas about its parts (the lists *)
(* of calls, the publisher, the gate keeper, tokens and counts), then the  *)
(* steps one by one.                                                       *)
(***************************************************************************)
EXTENDS ProxyGates, FiniteSetTheorems, TLAPS

\* First-order leaves are Zenon's; a leaf that needs arithmetic or records names SMT.
USE ZenonT(30)

(* The inductive invariant, in parts. *)

\* No version in use anywhere in the process is newer than the snapshot, and
\* the cache holds a version the gates already follow.
VersionsBounded ==
    /\ durable <= installed
    /\ installed <= snap
    /\ served <= snap
    /\ from <= snap
    /\ cur <= snap
    /\ pending <= snap
    /\ \A r \in Requests : ver[r] <= snap
    /\ \A t \in Threads : \A i \in 1 .. Len(todo[t]) : todo[t][i].v <= snap

\* Only the installer tells the keeper of an install, and of the newest one.
InstallerOnly ==
    \A t \in Threads : \A i \in 1 .. Len(todo[t]) :
        todo[t][i].op = "installed" => t = Installer /\ todo[t][i].v = snap

\* A barrier stands from its hold on, without a gap, until it is cleared.
BarriersContiguous ==
    \A v \in Versions, k \in Kinds :
        closures[v][k] # Open =>
            /\ v <= snap
            /\ closures[v][k] <= v
            /\ \A u \in closures[v][k] .. v : closures[u][k] = closures[v][k]

\* A request that has not reached a gate holds no token of it.
NoTokenYet ==
    \A r \in Requests :
        /\ stage[r] \in {"idle", "loaded", "mutation"} => tok[r] = {}
        /\ stage[r] = "source" => "source" \notin tok[r]

\* A barrier proved drained stays shut, or the gate reopened at a version past
\* every one that carries it.
ShutOrPast ==
    \A k \in Kinds : drained[k] # Open =>
        /\ drained[k] <= installed
        /\ closures[drained[k]][k] = drained[k]
        /\ closed[k] # Open \/ \A v \in Versions :
              v >= from => v > drained[k] /\ closures[v][k] # drained[k]

IInv ==
    /\ TypeOK
    /\ VersionsBounded
    /\ InstallerOnly
    /\ BarriersContiguous
    /\ NoTokenYet
    /\ CountsExact
    /\ ShutOrPast
    /\ DrainedStaysDrained
-----------------------------------------------------------------------------
(* The sequences of calls a goroutine still has to make. *)

\* What every call on a goroutine's list satisfies.
CallOK(t, c) == c.v <= snap /\ (c.op = "installed" => t = Installer /\ c.v = snap)
ListOK(t, s) == s \in Seq(Calls) /\ \A i \in 1 .. Len(s) : CallOK(t, s[i])
TodoOK == \A t \in Threads : ListOK(t, todo[t])

\* TodoOK is what TypeOK, VersionsBounded and InstallerOnly say of the lists
\* the publisher's methods leave behind (todo).
LEMMA TodoOKFromIInv == IInv => TodoOK
  BY DEF IInv, TypeOK, VersionsBounded, InstallerOnly, TodoOK, ListOK, CallOK

\* Taking the next call off a list (Rest) leaves a list of the same calls.
LEMMA RestOK ==
    ASSUME NEW t, NEW s, ListOK(t, s), s # <<>>
    PROVE  ListOK(t, Tail(s)) /\ Head(s) \in Calls /\ CallOK(t, Head(s))
<1>1. s \in Seq(Calls) /\ Len(s) \in Nat /\ Len(s) > 0
  BY SMT DEF ListOK
<1>2. Head(s) = s[1] /\ s[1] \in Calls
  BY SMT, <1>1
<1>3. Tail(s) \in Seq(Calls) /\ Len(Tail(s)) = Len(s) - 1
  BY SMT, <1>1
<1>4. \A i \in 1 .. Len(Tail(s)) : Tail(s)[i] = s[i + 1]
  BY SMT, <1>1
<1>5. \A i \in 1 .. Len(Tail(s)) : i + 1 \in 1 .. Len(s)
  BY SMT, <1>1, <1>3
<1>6. \A i \in 1 .. Len(Tail(s)) : CallOK(t, Tail(s)[i])
  BY <1>4, <1>5 DEF ListOK
<1> QED
  BY SMT, <1>1, <1>2, <1>3, <1>6 DEF ListOK

\* Putting a call in front of a list (Publish, ReleaseOwned).
LEMMA ConsOK ==
    ASSUME NEW t, NEW s, ListOK(t, s), NEW c \in Calls, CallOK(t, c)
    PROVE  ListOK(t, <<c>> \o s)
<1>1. s \in Seq(Calls) /\ <<c>> \in Seq(Calls) /\ Len(s) \in Nat
  BY SMT DEF ListOK
<1>2. <<c>> \o s \in Seq(Calls) /\ Len(<<c>> \o s) = Len(s) + 1
  BY SMT, <1>1
<1>3. \A i \in 1 .. Len(<<c>> \o s) :
        (<<c>> \o s)[i] = c \/ (i - 1 \in 1 .. Len(s) /\ (<<c>> \o s)[i] = s[i - 1])
  BY SMT, <1>1, <1>2
<1> QED
  BY <1>2, <1>3 DEF ListOK

\* Putting two calls in front of a list (SwapLocked).
LEMMA ConsTwoOK ==
    ASSUME NEW t, NEW s, ListOK(t, s), NEW c \in Calls, CallOK(t, c), NEW d \in Calls, CallOK(t, d)
    PROVE  ListOK(t, <<c, d>> \o s)
<1>1. s \in Seq(Calls) /\ <<c, d>> \in Seq(Calls) /\ Len(s) \in Nat
  BY SMT DEF ListOK
<1>2. <<c, d>> \o s \in Seq(Calls) /\ Len(<<c, d>> \o s) = Len(s) + 2
  BY SMT, <1>1
<1>3. \A i \in 1 .. Len(<<c, d>> \o s) :
        \/ (<<c, d>> \o s)[i] = c
        \/ (<<c, d>> \o s)[i] = d
        \/ (i - 2 \in 1 .. Len(s) /\ (<<c, d>> \o s)[i] = s[i - 2])
  BY SMT, <1>1, <1>2
<1> QED
  BY <1>2, <1>3 DEF ListOK

\* A step that changes one list and no snapshot keeps what is said of all.
LEMMA OneListOK ==
    ASSUME TypeOK, TodoOK, NEW t \in Threads, NEW s, ListOK(t, s),
           todo' = [todo EXCEPT ![t] = s], snap' = snap
    PROVE  TodoOK' /\ todo' \in [Threads -> Seq(Calls)]
  BY DEF TypeOK, TodoOK, ListOK, CallOK
-----------------------------------------------------------------------------
(* The publisher's steps leave the gates and the requests alone. *)

\* A step of the publisher that keeps its own types and bounds keeps the rest.
LEMMA PublisherFrame ==
    ASSUME IInv, UNCHANGED <<member, keeper, gate, requests, drained>>,
           cur' \in Versions, cur' <= snap, held' \subseteq Versions,
           pending' \in Versions \cup {None}, pending' <= snap,
           owned' \subseteq Versions,
           todo' \in [Threads -> Seq(Calls)], TodoOK'
    PROVE  IInv'
<1>1. TypeOK'
  BY DEF IInv, TypeOK, member, keeper, gate, requests
<1>2. VersionsBounded' /\ InstallerOnly'
  BY DEF IInv, VersionsBounded, InstallerOnly, TodoOK, ListOK, CallOK, member, keeper, gate, requests
<1>3. BarriersContiguous' /\ NoTokenYet' /\ CountsExact' /\ ShutOrPast' /\ DrainedStaysDrained'
  BY SMT DEF IInv, BarriersContiguous, NoTokenYet, CountsExact, ShutOrPast, DrainedStaysDrained,
         member, keeper, gate, requests
<1> QED
  BY <1>1, <1>2, <1>3 DEF IInv

\* A call made of an operation and a version in use may be put on a list.
LEMMA CallTyped ==
    ASSUME NEW t, NEW op \in Ops, NEW v \in Versions, v <= snap, op # "installed"
    PROVE  Call(op, v) \in Calls /\ CallOK(t, Call(op, v))
  BY DEF Call, Calls, CallOK

\* SwapLocked, for a bundle no newer than the snapshot.
LEMMA SwapLockedOK ==
    ASSUME IInv, UNCHANGED <<member, keeper, gate, requests, drained>>,
           NEW t \in Threads, NEW b \in Versions, b <= snap,
           NEW stillHeld \in SUBSET Versions, NEW rest, ListOK(t, rest),
           owned' \subseteq Versions,
           SwapLocked(t, b, stillHeld, rest)
    PROVE  IInv'
<1> USE DEF IInv
<1>1. TypeOK /\ TodoOK /\ snap' = snap
  BY TodoOKFromIInv DEF member
<1>2. cur \in Versions /\ cur <= snap /\ -1 <= snap
  BY SMTT(30) DEF TypeOK, VersionsBounded, Versions
<1>3. CASE Cardinality(stillHeld) >= Limit
  <2>1. /\ pending' = b /\ held' = stillHeld /\ cur' = cur
        /\ todo' = [todo EXCEPT ![t] = rest]
    BY <1>3 DEF SwapLocked
  <2>2. TodoOK' /\ todo' \in [Threads -> Seq(Calls)]
    BY <1>1, <2>1, OneListOK
  <2> QED
    BY <1>2, <2>1, <2>2, PublisherFrame
<1>4. CASE ~(Cardinality(stillHeld) >= Limit)
  <2>1. /\ pending' = None /\ held' = stillHeld \cup {cur} /\ cur' = b
        /\ todo' = [todo EXCEPT ![t] = <<Call("release", cur), Call("hook", b)>> \o rest]
    BY <1>4 DEF SwapLocked
  <2>2. /\ Call("release", cur) \in Calls /\ CallOK(t, Call("release", cur))
        /\ Call("hook", b) \in Calls /\ CallOK(t, Call("hook", b))
    BY <1>2, CallTyped DEF Ops
  <2>3. ListOK(t, <<Call("release", cur), Call("hook", b)>> \o rest)
    BY <2>2, ConsTwoOK
  <2>4. TodoOK' /\ todo' \in [Threads -> Seq(Calls)]
    BY <1>1, <2>1, <2>3, OneListOK
  <2>5. pending' \in Versions \cup {None} /\ pending' <= snap
    BY <1>2, <2>1 DEF None
  <2> QED
    BY <1>2, <2>1, <2>4, <2>5, PublisherFrame
<1> QED
  BY <1>3, <1>4

\* Publisher.Publish keeps the invariant.
LEMMA PublishStepKeeps ==
    ASSUME IInv, NEW t \in Threads, PublishStep(t)
    PROVE  IInv'
<1>1. TodoOK /\ TypeOK /\ ListOK(t, todo[t]) /\ todo[t] # <<>>
  BY TodoOKFromIInv DEF IInv, TodoOK, PublishStep
<1>2. ListOK(t, Rest(t)) /\ Next1(t) \in Calls /\ CallOK(t, Next1(t))
  BY <1>1, RestOK DEF Rest, Next1
<1> DEFINE b == Next1(t).v
<1>3. b \in Versions /\ b <= snap
  BY <1>2 DEF Calls, CallOK
<1>4. UNCHANGED <<member, keeper, gate, requests, drained>>
  BY DEF PublishStep
<1>5. CASE todo' = [todo EXCEPT ![t] = Rest(t)] /\ UNCHANGED <<cur, held, pending, owned>>
  <2>1. TodoOK' /\ todo' \in [Threads -> Seq(Calls)]
    BY <1>1, <1>2, <1>4, <1>5, OneListOK DEF member
  <2> QED
    BY <1>4, <1>5, <2>1, PublisherFrame DEF IInv, TypeOK, VersionsBounded
<1>6. CASE owned' = (owned \ {pending}) \cup {b} /\ SwapLocked(t, b, held, Rest(t))
  <2>1. owned' \subseteq Versions /\ held \in SUBSET Versions
    BY <1>1, <1>3, <1>6 DEF TypeOK
  <2> QED
    BY <1>2, <1>3, <1>4, <1>6, <2>1, SwapLockedOK
<1> QED
  BY <1>5, <1>6 DEF PublishStep, Publish

\* Publisher.drained keeps the invariant.
LEMMA DrainedStepKeeps ==
    ASSUME IInv, NEW t \in Threads, DrainedStep(t)
    PROVE  IInv'
<1>1. TodoOK /\ TypeOK /\ ListOK(t, todo[t]) /\ todo[t] # <<>>
  BY TodoOKFromIInv DEF IInv, TodoOK, DrainedStep
<1>2. ListOK(t, Rest(t))
  BY <1>1, RestOK DEF Rest
<1> DEFINE b == Next1(t).v
<1>3. UNCHANGED <<member, keeper, gate, requests, drained>> /\ owned' = owned
  BY DEF DrainedStep, Drained
<1>4. owned' \subseteq Versions /\ held \ {b} \in SUBSET Versions
  BY <1>1, <1>3 DEF TypeOK
<1>5. CASE pending # None
  <2>1. pending \in Versions /\ pending <= snap
    BY <1>1, <1>5 DEF IInv, TypeOK, VersionsBounded
  <2>2. SwapLocked(t, pending, held \ {b}, Rest(t))
    BY <1>5 DEF DrainedStep, Drained
  <2> QED
    BY <1>2, <1>3, <1>4, <2>1, <2>2, SwapLockedOK
<1>6. CASE pending = None
  <2>1. /\ held' = held \ {b} /\ UNCHANGED <<cur, pending>>
        /\ todo' = [todo EXCEPT ![t] = Rest(t)]
    BY <1>6 DEF DrainedStep, Drained
  <2>2. TodoOK' /\ todo' \in [Threads -> Seq(Calls)]
    BY <1>1, <1>2, <1>3, <2>1, OneListOK DEF member
  <2> QED
    BY <1>3, <1>4, <2>1, <2>2, PublisherFrame DEF IInv, TypeOK, VersionsBounded
<1> QED
  BY <1>5, <1>6

\* The release of the publisher's own reference keeps the invariant.
LEMMA ReleaseStepKeeps ==
    ASSUME IInv, NEW t \in Threads, ReleaseStep(t)
    PROVE  IInv'
<1>1. TodoOK /\ TypeOK /\ ListOK(t, todo[t]) /\ todo[t] # <<>>
  BY TodoOKFromIInv DEF IInv, TodoOK, ReleaseStep
<1>2. ListOK(t, Rest(t)) /\ Next1(t) \in Calls /\ CallOK(t, Next1(t))
  BY <1>1, RestOK DEF Rest, Next1
<1> DEFINE b == Next1(t).v
<1>3. b \in Versions /\ b <= snap
  BY <1>2 DEF Calls, CallOK
<1>4. UNCHANGED <<member, keeper, gate, requests, drained>>
  BY DEF ReleaseStep
<1>5. /\ owned' = owned \ {b} /\ UNCHANGED <<cur, held, pending>>
      /\ todo' = [todo EXCEPT ![t] =
            IF Holders(b, Installer) = {} THEN <<Call("drained", b)>> \o Rest(t) ELSE Rest(t)]
  BY DEF ReleaseStep, ReleaseOwned
<1>6. ListOK(t, <<Call("drained", b)>> \o Rest(t))
  BY <1>2, <1>3, CallTyped, ConsOK DEF Ops
<1>7. ListOK(t, IF Holders(b, Installer) = {} THEN <<Call("drained", b)>> \o Rest(t) ELSE Rest(t))
  BY <1>2, <1>6
<1>8. TodoOK' /\ todo' \in [Threads -> Seq(Calls)]
  BY <1>1, <1>4, <1>5, <1>7, OneListOK DEF member
<1> QED
  BY <1>4, <1>5, <1>8, PublisherFrame DEF IInv, TypeOK, VersionsBounded
-----------------------------------------------------------------------------
(* The keeper's steps: Served and Installed, both ApplyGates. *)

\* The keeper applies the barriers of versions i (installed, never older than
\* before) and s (served): types and bounds, and a barrier proved drained stays
\* shut or is reopened at a version past it.
LEMMA ApplyGatesOK ==
    ASSUME IInv, NEW i \in Versions, NEW s \in Versions,
           installed <= i, i <= snap, s <= snap, ApplyGates(i, s)
    PROVE  /\ closed' \in Closures
           /\ from' \in Versions /\ from' <= snap /\ from <= from'
           /\ \A k \in Kinds : drained[k] # Open =>
                 \/ closed'[k] # Open
                 \/ \A v \in Versions :
                      v >= from' => v > drained[k] /\ closures[v][k] # drained[k]
<1> DEFINE listed == Union(i, s)
           sticky == s < i
           version == IF s > i THEN s ELSE i
           opens == {k \in Kinds : closed[k] # Open /\ listed[k] = Open /\ ~sticky}
<1>1. /\ closed' = [k \in Kinds |-> IF listed[k] # Open \/ ~sticky THEN listed[k] ELSE closed[k]]
      /\ from' = IF opens # {} /\ version > from THEN version ELSE from
  BY DEF ApplyGates
<1>2. listed \in Closures
  BY SMT DEF IInv, TypeOK, Union, Closures
<1>3. closed' \in Closures
  BY <1>1, <1>2 DEF IInv, TypeOK, Closures
<1>4. version \in Versions /\ version <= snap /\ i <= version /\ snap \in Int /\ from \in Int
  BY SMT DEF IInv, TypeOK, Versions
<1>5. from' \in Versions /\ from' <= snap /\ from <= from'
  BY SMTT(30), <1>1, <1>4 DEF IInv, TypeOK, VersionsBounded, Versions
<1>6. ASSUME NEW k \in Kinds, drained[k] # Open, closed'[k] = Open,
             NEW v \in Versions, v >= from'
      PROVE  v > drained[k] /\ closures[v][k] # drained[k]
  <2>1. /\ drained[k] <= installed /\ closures[drained[k]][k] = drained[k]
        /\ drained[k] \in Versions /\ installed \in Versions
    BY <1>6 DEF IInv, ShutOrPast, TypeOK, Closures
  <2>2. CASE closed[k] = Open
    <3>1. v >= from
      BY SMTT(30), <1>5, <1>6 DEF IInv, TypeOK, Versions
    <3> QED
      BY <1>6, <2>2, <3>1 DEF IInv, ShutOrPast
  <2>3. CASE closed[k] # Open
    <3>1. listed[k] = Open /\ ~sticky
      BY <1>1, <1>6, <2>3
    <3>2. k \in opens
      BY <1>6, <2>3, <3>1
    <3>3. from' >= version
      <4>1. opens # {}
        BY <3>2
      <4>2. from' = IF version > from THEN version ELSE from
        BY <1>1, <4>1
      <4> HIDE DEF opens, version
      <4> QED
        BY SMT, <1>4, <4>2 DEF Versions
    <3>4. v >= i
      BY SMT, <1>4, <1>5, <1>6, <3>3 DEF Versions
    <3>5. closures[i][k] = Open
      BY <1>6, <3>1 DEF Union, IInv, TypeOK, Closures
    <3>6. i # drained[k] /\ v > drained[k]
      BY SMT, <1>6, <2>1, <3>4, <3>5 DEF Versions
    <3>7. ASSUME closures[v][k] = drained[k] PROVE FALSE
      <4>1. \A u \in drained[k] .. v : closures[u][k] = drained[k]
        BY <1>6, <3>7 DEF IInv, BarriersContiguous
      <4>2. i \in drained[k] .. v
        BY SMT, <2>1, <3>4 DEF Versions
      <4> QED
        BY <1>6, <3>5, <4>1, <4>2
    <3> QED
      BY <3>6, <3>7
  <2> QED
    BY <2>2, <2>3
<1> QED
  BY <1>3, <1>5, <1>6

\* GateKeeper.Served keeps the invariant, in whatever order hooks arrive.
LEMMA ServedKeeps ==
    ASSUME IInv, NEW t \in Threads, Served(t)
    PROVE  IInv'
<1>1. TodoOK /\ TypeOK /\ ListOK(t, todo[t]) /\ todo[t] # <<>>
  BY TodoOKFromIInv DEF IInv, TodoOK, Served
<1>2. ListOK(t, Rest(t)) /\ Next1(t) \in Calls /\ CallOK(t, Next1(t))
  BY <1>1, RestOK DEF Rest, Next1
<1> DEFINE b == Next1(t).v
<1>3. b \in Versions /\ b <= snap
  BY <1>2 DEF Calls, CallOK
<1>4. /\ UNCHANGED <<member, publisher, installed, requests, drained, inflight, uncertain>>
      /\ served' = b /\ todo' = [todo EXCEPT ![t] = Rest(t)]
  BY DEF Served, ApplyGates
<1>5. TodoOK' /\ todo' \in [Threads -> Seq(Calls)]
  BY <1>1, <1>2, <1>4, OneListOK DEF member
<1>6. ApplyGates(installed, b)
  BY DEF Served
<1>7. installed \in Versions /\ installed <= snap
  BY DEF IInv, TypeOK, VersionsBounded
<1>8. /\ closed' \in Closures /\ from' \in Versions /\ from' <= snap
      /\ \A k \in Kinds : drained[k] # Open =>
            \/ closed'[k] # Open
            \/ \A v \in Versions :
                 v >= from' => v > drained[k] /\ closures[v][k] # drained[k]
  <2>1. installed <= installed
    BY SMT, <1>7 DEF Versions
  <2> QED
    BY <1>3, <1>6, <1>7, <2>1, ApplyGatesOK
<1>9. TypeOK'
  BY <1>3, <1>4, <1>5, <1>8 DEF IInv, TypeOK, member, publisher, requests
<1>10. VersionsBounded' /\ InstallerOnly'
  BY <1>3, <1>4, <1>5, <1>8 DEF IInv, VersionsBounded, InstallerOnly, TodoOK, ListOK, CallOK,
     member, publisher, requests
<1>11. BarriersContiguous' /\ NoTokenYet' /\ CountsExact' /\ DrainedStaysDrained'
  BY <1>4 DEF IInv, BarriersContiguous, NoTokenYet, CountsExact, DrainedStaysDrained, member, requests
<1>12. ShutOrPast'
  BY <1>4, <1>8 DEF IInv, ShutOrPast, member
<1> QED
  BY <1>9, <1>10, <1>11, <1>12 DEF IInv

\* GateKeeper.Installed keeps the invariant.
LEMMA InstalledKeeps ==
    ASSUME IInv, NEW t \in Threads, Installed(t)
    PROVE  IInv'
<1>1. TodoOK /\ TypeOK /\ ListOK(t, todo[t]) /\ todo[t] # <<>>
  BY TodoOKFromIInv DEF IInv, TodoOK, Installed
<1>2. ListOK(t, Rest(t)) /\ Next1(t) \in Calls /\ CallOK(t, Next1(t)) /\ Next1(t).op = "installed"
  BY <1>1, RestOK DEF Rest, Next1, Installed
<1> DEFINE b == Next1(t).v
<1>3. b \in Versions /\ b = snap
  BY <1>2 DEF Calls, CallOK
<1>4. /\ UNCHANGED <<member, publisher, served, requests, drained, inflight, uncertain>>
      /\ installed' = b /\ todo' = [todo EXCEPT ![t] = Rest(t)]
  BY DEF Installed, ApplyGates
<1>5. TodoOK' /\ todo' \in [Threads -> Seq(Calls)]
  BY <1>1, <1>2, <1>4, OneListOK DEF member
<1>6. ApplyGates(b, served)
  BY DEF Installed
<1>7. installed \in Versions /\ installed <= b /\ b <= snap /\ served \in Versions /\ served <= snap
  BY SMT, <1>3 DEF IInv, TypeOK, VersionsBounded, Versions
<1>8. /\ closed' \in Closures /\ from' \in Versions /\ from' <= snap
      /\ \A k \in Kinds : drained[k] # Open =>
            \/ closed'[k] # Open
            \/ \A v \in Versions :
                 v >= from' => v > drained[k] /\ closures[v][k] # drained[k]
  BY <1>3, <1>6, <1>7, ApplyGatesOK
<1>9. TypeOK'
  BY <1>3, <1>4, <1>5, <1>8 DEF IInv, TypeOK, member, publisher, requests
<1>10. VersionsBounded' /\ InstallerOnly'
  <2>1. durable \in Int /\ installed \in Int /\ b \in Int /\ durable <= installed
    BY SMT, <1>3 DEF IInv, TypeOK, VersionsBounded, Versions
  <2>2. durable' <= installed'
    BY SMTT(30), <1>4, <1>7, <2>1 DEF member
  <2> QED
    BY <1>3, <1>4, <1>5, <1>7, <1>8, <2>2 DEF IInv, VersionsBounded, InstallerOnly, TodoOK, ListOK, CallOK,
       member, publisher, requests
<1>11. BarriersContiguous' /\ NoTokenYet' /\ CountsExact' /\ DrainedStaysDrained'
  BY <1>4 DEF IInv, BarriersContiguous, NoTokenYet, CountsExact, DrainedStaysDrained, member, requests
<1>12. ShutOrPast'
  <2>1. \A k \in Kinds : drained[k] # Open => drained[k] <= b
    BY SMT, <1>3, <1>7 DEF IInv, ShutOrPast, TypeOK, Closures, Versions
  <2> QED
    BY <1>4, <1>8, <2>1 DEF IInv, ShutOrPast, member
<1> QED
  BY <1>9, <1>10, <1>11, <1>12 DEF IInv
-----------------------------------------------------------------------------
(* Tokens and their counts. *)

TokensOf(k) == {r \in Requests : k \in tok[r]}

\* A count is zero only when no request holds a token of the kind.
LEMMA ZeroMeansNone ==
    ASSUME CountsExact, NEW k \in Kinds, inflight[k] = 0
    PROVE  \A r \in Requests : k \notin tok[r]
<1>1. IsFiniteSet(TokensOf(k))
  BY RequestsFinite, FS_Subset DEF TokensOf
<1>2. Cardinality(TokensOf(k)) = 0
  BY DEF CountsExact, TokensOf
<1>3. TokensOf(k) = {}
  BY <1>1, <1>2, FS_EmptySet
<1> QED
  BY <1>3 DEF TokensOf

\* Gates.Enter: one token more, one count more.
LEMMA EnterCounts ==
    ASSUME CountsExact, tok \in [Requests -> SUBSET Kinds], inflight \in [Kinds -> Nat],
           NEW r \in Requests, NEW k \in Kinds, k \notin tok[r], Enter(r, k)
    PROVE  /\ CountsExact' /\ tok' \in [Requests -> SUBSET Kinds]
           /\ inflight' \in [Kinds -> Nat]
<1>1. /\ tok' = [tok EXCEPT ![r] = @ \cup {k}]
      /\ inflight' = [inflight EXCEPT ![k] = @ + 1]
  BY DEF Enter
<1>2. tok' \in [Requests -> SUBSET Kinds] /\ inflight' \in [Kinds -> Nat]
  BY SMT, <1>1
<1>3. ASSUME NEW j \in Kinds
      PROVE  inflight'[j] = Cardinality(TokensOf(j)')
  <2>1. IsFiniteSet(TokensOf(j)) /\ inflight[j] = Cardinality(TokensOf(j))
    BY RequestsFinite, FS_Subset DEF TokensOf, CountsExact
  <2>2. CASE j = k
    <3>1. TokensOf(j)' = TokensOf(j) \cup {r} /\ r \notin TokensOf(j)
      BY <1>1, <2>2 DEF TokensOf
    <3>2. Cardinality(TokensOf(j)') = Cardinality(TokensOf(j)) + 1
      BY <2>1, <3>1, FS_AddElement
    <3> QED
      BY <1>1, <2>1, <2>2, <3>2
  <2>3. CASE j # k
    <3>1. TokensOf(j)' = TokensOf(j)
      BY <1>1, <2>3 DEF TokensOf
    <3> QED
      BY <1>1, <2>1, <2>3, <3>1
  <2> QED
    BY <2>2, <2>3
<1> QED
  BY <1>2, <1>3 DEF CountsExact, TokensOf

\* Token.Release of every token of a request: its counts go with them.
LEMMA ReleaseCounts ==
    ASSUME CountsExact, tok \in [Requests -> SUBSET Kinds], inflight \in [Kinds -> Nat],
           NEW r \in Requests, tok' = [tok EXCEPT ![r] = {}],
           inflight' = [k \in Kinds |-> inflight[k] - (IF k \in tok[r] THEN 1 ELSE 0)]
    PROVE  /\ CountsExact' /\ tok' \in [Requests -> SUBSET Kinds]
           /\ inflight' \in [Kinds -> Nat]
<1>1. ASSUME NEW j \in Kinds
      PROVE  inflight'[j] = Cardinality(TokensOf(j)') /\ inflight'[j] \in Nat
  <2>1. IsFiniteSet(TokensOf(j)) /\ inflight[j] = Cardinality(TokensOf(j))
    BY RequestsFinite, FS_Subset DEF TokensOf, CountsExact
  <2>2. CASE j \in tok[r]
    <3>1. TokensOf(j)' = TokensOf(j) \ {r} /\ r \in TokensOf(j)
      BY <2>2 DEF TokensOf
    <3>2. /\ IsFiniteSet(TokensOf(j)')
          /\ Cardinality(TokensOf(j)') = Cardinality(TokensOf(j)) - 1
      BY SMT, <2>1, <3>1, FS_RemoveElement
    <3>3. Cardinality(TokensOf(j)') \in Nat
      BY <3>2, FS_CardinalityType
    <3> QED
      BY <2>1, <2>2, <3>2, <3>3
  <2>3. CASE j \notin tok[r]
    <3>1. TokensOf(j)' = TokensOf(j)
      BY <2>3 DEF TokensOf
    <3> QED
      BY SMT, <2>1, <2>3, <3>1
  <2> QED
    BY <2>2, <2>3
<1>2. tok' \in [Requests -> SUBSET Kinds] /\ inflight' \in [Kinds -> Nat]
  BY <1>1
<1> QED
  BY <1>1, <1>2 DEF CountsExact, TokensOf

\* A request admitted through an open gate routes by a version past every
\* barrier that was proved drained there.
LEMMA AdmittedPast ==
    ASSUME IInv, NEW r \in Requests, NEW k \in Kinds, closed[k] = Open, ver[r] >= from,
           drained[k] # Open
    PROVE  ver[r] > drained[k] /\ closures[ver[r]][k] # drained[k]
  BY DEF IInv, TypeOK, ShutOrPast

\* A step of a request that changes no version in use keeps what the invariant
\* says of versions and barriers.
LEMMA RequestFrame ==
    ASSUME IInv, UNCHANGED <<member, publisher, keeper, closed, from, drained>>,
           \A r \in Requests : ver'[r] <= snap,
           TodoOK'
    PROVE  VersionsBounded' /\ InstallerOnly' /\ BarriersContiguous' /\ ShutOrPast'
<1>1. VersionsBounded' /\ InstallerOnly'
  BY DEF IInv, VersionsBounded, InstallerOnly, TodoOK, ListOK, CallOK, member, publisher, keeper
<1>2. BarriersContiguous' /\ ShutOrPast'
  BY ZenonT(40) DEF IInv, BarriersContiguous, ShutOrPast, member, keeper
<1> QED
  BY <1>1, <1>2

(* The steps of a request. *)

\* Taking a bundle (Publisher.Acquire) touches no gate and no token.
LEMMA AcquiringKeeps ==
    ASSUME IInv, NEW r \in Requests, Load(r) \/ Acquire(r) \/ Reload(r)
    PROVE  IInv'
<1>1. /\ UNCHANGED <<member, publisher, todo, keeper, gate, tok, drained>>
      /\ stage[r] \in {"idle", "loaded"}
      /\ \E x \in {"loaded", "done", "mutation", "source"} : stage' = [stage EXCEPT ![r] = x]
      /\ class' \in [Requests -> Classes \cup {"read"}]
      /\ ver' = ver \/ ver' = [ver EXCEPT ![r] = cur]
  <2>1. CASE Load(r)
    BY <2>1 DEF Load, IInv, TypeOK
  <2>2. CASE Acquire(r)
    <3>1. stage' = [stage EXCEPT ![r] = "done"] \/ stage' = [stage EXCEPT ![r] = "mutation"]
            \/ stage' = [stage EXCEPT ![r] = "source"]
      BY <2>2 DEF Acquire
    <3> QED
      BY <2>2, <3>1 DEF Acquire, IInv, TypeOK
  <2>3. CASE Reload(r)
    <3>1. stage' = [stage EXCEPT ![r] = "loaded"]
      BY <2>3 DEF Reload, IInv, TypeOK
    <3> QED
      BY <2>3, <3>1 DEF Reload, IInv, TypeOK
  <2> QED
    BY <2>1, <2>2, <2>3
<1>2. tok[r] = {}
  BY <1>1 DEF IInv, NoTokenYet
<1>3. ver' \in [Requests -> Versions] /\ \A q \in Requests : ver'[q] <= snap
  BY ZenonT(40), <1>1 DEF IInv, TypeOK, VersionsBounded
<1>4. stage' \in [Requests -> Stages]
  BY <1>1 DEF IInv, TypeOK, Stages
<1>5. TodoOK'
  BY <1>1, TodoOKFromIInv DEF TodoOK, ListOK, CallOK, member
<1>6. TypeOK'
  BY <1>1, <1>3, <1>4 DEF IInv, TypeOK, member, publisher, keeper, gate
<1>7. VersionsBounded' /\ InstallerOnly' /\ BarriersContiguous' /\ ShutOrPast'
  BY <1>1, <1>3, <1>5, RequestFrame DEF gate
<1>8. CountsExact'
  BY <1>1 DEF IInv, CountsExact, gate
<1>9. NoTokenYet'
  BY <1>1, <1>2 DEF IInv, NoTokenYet, TypeOK
<1>10. DrainedStaysDrained'
  <2>1. \A q \in Requests, k \in Kinds : k \in tok'[q] => k \in tok[q] /\ ver'[q] = ver[q]
    BY <1>1, <1>2 DEF IInv, TypeOK
  <2> QED
    BY SMT, <1>1, <2>1 DEF IInv, DrainedStaysDrained, member
<1> QED
  BY <1>6, <1>7, <1>8, <1>9, <1>10 DEF IInv

\* Passing a gate: the types, the counts and the promise, for a request that
\* takes the token of kind k.
LEMMA PassKeeps ==
    ASSUME IInv, NEW r \in Requests, NEW k \in Kinds, k \notin tok[r],
           closed[k] = Open, ver[r] >= from, Enter(r, k),
           NEW x \in {"source", "out"}, stage' = [stage EXCEPT ![r] = x],
           x = "source" => k # "source" /\ "source" \notin tok[r],
           UNCHANGED <<member, publisher, todo, keeper, class, ver, drained>>
    PROVE  IInv'
<1>1. TypeOK /\ CountsExact /\ NoTokenYet
  BY DEF IInv
<1>2. CountsExact' /\ tok' \in [Requests -> SUBSET Kinds] /\ inflight' \in [Kinds -> Nat]
  BY <1>1, EnterCounts DEF TypeOK
<1>3. UNCHANGED <<closed, from, uncertain>> /\ tok' = [tok EXCEPT ![r] = @ \cup {k}]
  BY DEF Enter
<1>4. stage' \in [Requests -> Stages]
  BY <1>1 DEF TypeOK, Stages
<1>5. TodoOK'
  BY TodoOKFromIInv DEF TodoOK, ListOK, CallOK, member
<1>6. TypeOK'
  BY <1>1, <1>2, <1>3, <1>4 DEF TypeOK, member, publisher, keeper
<1>7. VersionsBounded' /\ InstallerOnly' /\ BarriersContiguous' /\ ShutOrPast'
  BY <1>3, <1>5, RequestFrame DEF IInv, VersionsBounded
<1>8. NoTokenYet'
  BY <1>1, <1>3 DEF NoTokenYet, TypeOK
<1>9. DrainedStaysDrained'
  <2> SUFFICES ASSUME NEW q \in Requests, NEW j \in Kinds, j \in tok'[q], drained[j] # Open
               PROVE  ver[q] > drained[j] /\ closures[ver[q]][j] # drained[j]
    BY DEF DrainedStaysDrained, member
  <2>1. CASE j \in tok[q]
    BY <2>1 DEF IInv, DrainedStaysDrained
  <2>2. CASE j \notin tok[q]
    <3>1. q = r /\ j = k
      BY <1>1, <1>3, <2>2 DEF TypeOK
    <3> QED
      BY <3>1, AdmittedPast
  <2> QED
    BY <2>1, <2>2
<1> QED
  BY <1>2, <1>6, <1>7, <1>8, <1>9 DEF IInv

\* Giving back every token of a request, or none of them, without taking one.
LEMMA LeaveKeeps ==
    ASSUME IInv, NEW r \in Requests,
           UNCHANGED <<member, publisher, keeper, closed, from, drained>>,
           \/ UNCHANGED <<tok, inflight, uncertain>>
           \/ /\ tok' = [tok EXCEPT ![r] = {}]
              /\ inflight' = [k \in Kinds |-> inflight[k] - (IF k \in tok[r] THEN 1 ELSE 0)],
           uncertain' \in [Kinds -> Nat],
           ver' = ver \/ (tok'[r] = {} /\ ver' = [ver EXCEPT ![r] = 0]),
           class' \in [Requests -> Classes \cup {"read"}],
           NEW x \in Stages, stage' = [stage EXCEPT ![r] = x],
           x \in {"idle", "loaded", "mutation", "source"} => tok'[r] = {},
           TodoOK', todo' \in [Threads -> Seq(Calls)]
    PROVE  IInv'
<1>1. TypeOK /\ CountsExact /\ NoTokenYet
  BY DEF IInv
<1>2. CountsExact' /\ tok' \in [Requests -> SUBSET Kinds] /\ inflight' \in [Kinds -> Nat]
  <2>1. CASE UNCHANGED <<tok, inflight, uncertain>>
    BY SMT, <1>1, <2>1 DEF TypeOK, CountsExact
  <2>2. CASE /\ tok' = [tok EXCEPT ![r] = {}]
             /\ inflight' = [k \in Kinds |-> inflight[k] - (IF k \in tok[r] THEN 1 ELSE 0)]
    BY <1>1, <2>2, ReleaseCounts DEF TypeOK
  <2> QED
    BY <2>1, <2>2
<1>3. /\ ver' \in [Requests -> Versions] /\ \A q \in Requests : ver'[q] <= snap
      /\ stage' \in [Requests -> Stages]
  <2>1. 0 \in Versions /\ 0 <= snap
    BY SMT, BoundsNat DEF IInv, TypeOK, Versions
  <2>2. ver' \in [Requests -> Versions]
    BY <2>1 DEF IInv, TypeOK
  <2>3. \A q \in Requests : ver'[q] = ver[q] \/ ver'[q] = 0
    BY DEF IInv, TypeOK
  <2>4. \A q \in Requests : ver'[q] <= snap
    BY <2>1, <2>3 DEF IInv, VersionsBounded
  <2>5. stage' \in [Requests -> Stages]
    BY DEF IInv, TypeOK
  <2> QED
    BY <2>2, <2>4, <2>5
<1>4. \A q \in Requests, k \in Kinds : k \in tok'[q] => k \in tok[q] /\ ver'[q] = ver[q]
  BY <1>1 DEF TypeOK
<1>5. TypeOK'
  BY <1>1, <1>2, <1>3 DEF TypeOK, member, publisher, keeper
<1>6. VersionsBounded' /\ InstallerOnly' /\ BarriersContiguous' /\ ShutOrPast'
  BY <1>3, RequestFrame
<1>7. NoTokenYet'
  <2>1. \A q \in Requests : q # r => stage'[q] = stage[q] /\ tok'[q] = tok[q]
    BY <1>1 DEF TypeOK
  <2>2. stage'[r] = x
    BY <1>1 DEF TypeOK
  <2> QED
    BY <1>1, <2>1, <2>2 DEF NoTokenYet
<1>8. DrainedStaysDrained'
  BY SMT, <1>4 DEF IInv, DrainedStaysDrained, member
<1> QED
  BY <1>2, <1>5, <1>6, <1>7, <1>8 DEF IInv

\* The mutations gate (Gates.Enter in prepareResign) keeps the invariant.
LEMMA EnterMutationsKeeps ==
    ASSUME IInv, NEW r \in Requests, EnterMutations(r)
    PROVE  IInv'
<1>1. stage[r] = "mutation" /\ tok[r] = {}
      /\ UNCHANGED <<member, publisher, todo, keeper, class, ver, drained>>
  BY DEF EnterMutations, IInv, NoTokenYet
<1>2. CASE Admits("mutations", ver[r])
  <2>1. closed["mutations"] = Open /\ ver[r] >= from /\ Enter(r, "mutations")
    BY <1>2 DEF EnterMutations, Admits
  <2>2. PICK x \in {"source", "out"} : stage' = [stage EXCEPT ![r] = x]
    BY <1>2 DEF EnterMutations
  <2> QED
    BY <1>1, <2>1, <2>2, PassKeeps DEF Kinds
<1>3. CASE ~Admits("mutations", ver[r])
  <2>1. stage' = [stage EXCEPT ![r] = "done"] /\ UNCHANGED <<gate, tok>>
    BY <1>3 DEF EnterMutations
  <2>2. TodoOK' /\ todo' \in [Threads -> Seq(Calls)] /\ class' \in [Requests -> Classes \cup {"read"}]
        /\ uncertain' \in [Kinds -> Nat]
    BY <1>1, <2>1, TodoOKFromIInv DEF TodoOK, ListOK, CallOK, member, gate, IInv, TypeOK
  <2>3. "done" \in Stages /\ "done" \notin {"idle", "loaded", "mutation", "source"}
    BY DEF Stages
  <2> QED
    BY <1>1, <2>1, <2>2, <2>3, LeaveKeeps DEF gate
<1> QED
  BY <1>2, <1>3

\* The source gate keeps the invariant, on its three ways out.
LEMMA EnterSourceKeeps ==
    ASSUME IInv, NEW r \in Requests, EnterSource(r)
    PROVE  IInv'
<1> DEFINE sourceClosed == closures[ver[r]]["source"] # Open \/ closed["source"] # Open
           superseded == ~sourceClosed /\ ver[r] < from
<1>1. stage[r] = "source" /\ "source" \notin tok[r]
      /\ UNCHANGED <<member, publisher, todo, keeper, class, ver, drained>>
  BY DEF EnterSource, IInv, NoTokenYet
<1>2. TodoOK' /\ todo' \in [Threads -> Seq(Calls)] /\ class' \in [Requests -> Classes \cup {"read"}]
  BY <1>1, TodoOKFromIInv DEF TodoOK, ListOK, CallOK, member, IInv, TypeOK
<1>3. CASE superseded
  <2>1. /\ stage' = [stage EXCEPT ![r] = "done"]
        /\ tok' = [tok EXCEPT ![r] = {}]
        /\ inflight' = [k \in Kinds |-> inflight[k] - (IF k \in tok[r] THEN 1 ELSE 0)]
        /\ UNCHANGED <<closed, from, uncertain>>
    BY <1>3 DEF EnterSource
  <2>2. "done" \in Stages /\ "done" \notin {"idle", "loaded", "mutation", "source"}
        /\ uncertain' \in [Kinds -> Nat]
    BY <2>1 DEF Stages, IInv, TypeOK
  <2> QED
    BY <1>1, <1>2, <2>1, <2>2, LeaveKeeps
<1>4. CASE ~superseded /\ sourceClosed
  <2>1. UNCHANGED <<gate, tok>>
    BY <1>4 DEF EnterSource
  <2>2. PICK x \in {"out", "done"} : stage' = [stage EXCEPT ![r] = x]
    BY DEF EnterSource
  <2>3. x \in Stages /\ x \notin {"idle", "loaded", "mutation", "source"}
        /\ uncertain' \in [Kinds -> Nat]
    BY <2>1, <2>2 DEF Stages, IInv, TypeOK, gate
  <2> QED
    BY <1>1, <1>2, <2>1, <2>2, <2>3, LeaveKeeps DEF gate
<1>5. CASE ~superseded /\ ~sourceClosed
  <2>1. stage' = [stage EXCEPT ![r] = "out"] /\ Enter(r, "source")
    BY <1>5 DEF EnterSource
  <2>2. closed["source"] = Open /\ ver[r] >= from
    BY SMT, <1>5 DEF IInv, TypeOK, Versions
  <2> QED
    BY <1>1, <2>1, <2>2, PassKeeps DEF Kinds
<1> QED
  BY <1>3, <1>4, <1>5

\* Bundle.Release at the end of a handler keeps the invariant.
LEMMA ReleaseBundleKeeps ==
    ASSUME IInv, NEW r \in Requests, ReleaseBundle(r)
    PROVE  IInv'
<1>1. /\ stage' = [stage EXCEPT ![r] = "tokens"]
      /\ UNCHANGED <<member, publisher, keeper, gate, class, ver, tok, drained>>
  BY DEF ReleaseBundle
<1>2. ver[r] \in Versions /\ ver[r] <= snap /\ TypeOK /\ TodoOK
  BY TodoOKFromIInv DEF IInv, TypeOK, VersionsBounded
<1>3. ListOK(r, <<>>)
  BY SMT DEF ListOK
<1>4. ListOK(r, <<Call("drained", ver[r])>>)
  <2>1. Call("drained", ver[r]) \in Calls /\ CallOK(r, Call("drained", ver[r]))
    BY <1>2, CallTyped DEF Ops
  <2>2. /\ <<Call("drained", ver[r])>> \in Seq(Calls)
        /\ Len(<<Call("drained", ver[r])>>) = 1
        /\ <<Call("drained", ver[r])>>[1] = Call("drained", ver[r])
    BY SMTT(30), <2>1
  <2> QED
    BY SMT, <2>1, <2>2 DEF ListOK
<1>5. PICK s : ListOK(r, s) /\ todo' = [todo EXCEPT ![r] = s]
  BY <1>3, <1>4 DEF ReleaseBundle
<1>6. TodoOK' /\ todo' \in [Threads -> Seq(Calls)]
  BY <1>1, <1>2, <1>5, OneListOK DEF member, Threads
<1>7. "tokens" \in Stages /\ "tokens" \notin {"idle", "loaded", "mutation", "source"}
      /\ uncertain' \in [Kinds -> Nat] /\ class' \in [Requests -> Classes \cup {"read"}]
  BY <1>1, <1>2 DEF Stages, TypeOK, gate
<1> QED
  BY <1>1, <1>6, <1>7, LeaveKeeps DEF gate

\* releaseTokens keeps the invariant, whichever outcomes were not learned.
LEMMA ReleaseTokensKeeps ==
    ASSUME IInv, NEW r \in Requests, ReleaseTokens(r)
    PROVE  IInv'
<1>1. /\ stage' = [stage EXCEPT ![r] = "idle"]
      /\ tok' = [tok EXCEPT ![r] = {}] /\ ver' = [ver EXCEPT ![r] = 0]
      /\ class' = [class EXCEPT ![r] = "read"]
      /\ inflight' = [k \in Kinds |-> inflight[k] - (IF k \in tok[r] THEN 1 ELSE 0)]
      /\ UNCHANGED <<member, publisher, todo, keeper, closed, from, drained>>
  BY DEF ReleaseTokens
<1>2. uncertain' \in [Kinds -> Nat]
  BY SMTT(30) DEF ReleaseTokens, IInv, TypeOK
<1>3. tok'[r] = {} /\ "idle" \in Stages /\ class' \in [Requests -> Classes \cup {"read"}]
  BY <1>1 DEF IInv, TypeOK, Stages
<1>4. TodoOK' /\ todo' \in [Threads -> Seq(Calls)]
  BY <1>1, TodoOKFromIInv DEF TodoOK, ListOK, CallOK, member, IInv, TypeOK
<1> QED
  BY <1>1, <1>2, <1>3, <1>4, LeaveKeeps
-----------------------------------------------------------------------------
(* The member's steps: an install, the restart cache, an acknowledgement. *)

\* Client.apply keeps the invariant: the new version carries a barrier of its
\* own, the one before it, or none.
LEMMA InstallKeeps ==
    ASSUME IInv, Install
    PROVE  IInv'
<1> DEFINE v == snap + 1
<1>1. PICK c \in Closures :
        /\ \A k \in Kinds : c[k] \in {Open, closures[snap][k], v}
        /\ closures' = [closures EXCEPT ![v] = c]
  BY DEF Install
<1>2. /\ snap \in Versions /\ v \in Versions /\ snap' = v
      /\ UNCHANGED <<durable, publisher, keeper, gate, requests, drained>>
      /\ todo[Installer] = <<>>
      /\ todo' = [todo EXCEPT ![Installer] = <<Call("publish", v), Call("installed", v)>>]
  BY SMTT(30), BoundsNat DEF Install, IInv, TypeOK, Versions
<1>3. /\ closures' \in [Versions -> Closures] /\ closures'[v] = c
      /\ \A u \in Versions : u # v => closures'[u] = closures[u]
  BY <1>1, <1>2 DEF IInv, TypeOK
<1>4. TodoOK' /\ todo' \in [Threads -> Seq(Calls)]
  <2> DEFINE s == <<Call("publish", v), Call("installed", v)>>
  <2>1. Call("publish", v) \in Calls /\ Call("installed", v) \in Calls
    BY <1>2 DEF Call, Calls, Ops
  <2>2. s \in Seq(Calls) /\ Len(s) = 2 /\ s[1] = Call("publish", v) /\ s[2] = Call("installed", v)
    BY SMTT(30), <2>1
  <2>3. todo' \in [Threads -> Seq(Calls)] /\ \A t \in Threads : todo'[t] = todo[t] \/ todo'[t] = s
    BY <1>2, <2>2 DEF IInv, TypeOK, Threads
  <2>4. \A i \in 1 .. Len(s) : s[i].v = v
    BY SMT, <2>2 DEF Call
  <2>5. ASSUME NEW t \in Threads, NEW i \in 1 .. Len(todo'[t])
        PROVE  todo'[t][i].v <= v /\ (todo'[t][i].op = "installed" => t = Installer /\ todo'[t][i].v = v)
    <3>1. CASE t = Installer
      <4>1. todo'[t] = s
        BY <1>2, <3>1 DEF IInv, TypeOK, Threads
      <4> QED
        BY SMTT(30), <1>2, <2>4, <2>5, <3>1, <4>1 DEF Versions
    <3>2. CASE t # Installer
      <4>1. todo'[t] = todo[t]
        BY <1>2, <3>2 DEF IInv, TypeOK
      <4>2. todo[t][i].v <= snap /\ todo[t][i] \in Calls /\ todo[t][i].op # "installed"
        BY SMTT(30), <2>5, <3>2, <4>1 DEF IInv, VersionsBounded, TypeOK, InstallerOnly
      <4> QED
        BY SMTT(30), <1>2, <4>1, <4>2 DEF Versions, Calls
    <3> QED
      BY <3>1, <3>2
  <2> QED
    BY <1>2, <2>3, <2>5 DEF TodoOK, ListOK, CallOK
<1>5. TypeOK'
  BY <1>2, <1>3, <1>4 DEF IInv, TypeOK, publisher, keeper, gate, requests
<1>6. VersionsBounded' /\ InstallerOnly'
  <2>1. \A x \in Versions \cup {None} : x <= snap => x <= v
    BY SMTT(30), <1>2 DEF Versions, None
  <2>2. /\ durable' <= installed' /\ installed' <= snap' /\ served' <= snap' /\ from' <= snap'
        /\ cur' <= snap' /\ pending' <= snap' /\ \A r \in Requests : ver'[r] <= snap'
    BY <1>2, <2>1 DEF IInv, TypeOK, VersionsBounded, publisher, keeper, gate, requests
  <2> QED
    BY <1>4, <2>2 DEF VersionsBounded, InstallerOnly, TodoOK, ListOK, CallOK
<1>7. BarriersContiguous'
  <2> SUFFICES ASSUME NEW w \in Versions, NEW k \in Kinds, closures'[w][k] # Open
               PROVE  /\ w <= v /\ closures'[w][k] <= w
                      /\ \A u \in closures'[w][k] .. w : closures'[u][k] = closures'[w][k]
    BY <1>2 DEF BarriersContiguous
  <2>1. CASE w # v
    <3>1. closures'[w] = closures[w] /\ w <= snap /\ closures[w][k] <= w
          /\ \A u \in closures[w][k] .. w : closures[u][k] = closures[w][k]
      BY <1>3, <2>1 DEF IInv, BarriersContiguous
    <3>2. \A u \in closures[w][k] .. w : closures'[u] = closures[u]
      <4>1. closures[w][k] \in Versions
        BY SMTT(30) DEF IInv, TypeOK, Closures
      <4>2. \A u \in closures[w][k] .. w : u \in Versions /\ u # v
        BY SMTT(30), <1>2, <3>1, <4>1, BoundsNat DEF Versions
      <4> QED
        BY <1>3, <4>2
    <3> QED
      BY SMTT(30), <1>2, <3>1, <3>2 DEF Versions
  <2>2. CASE w = v /\ c[k] = v
    BY SMTT(30), <1>2, <1>3, <2>2 DEF Versions
  <2>3. CASE w = v /\ c[k] = closures[snap][k]
    <3>1. closures[snap][k] <= snap /\ closures[snap][k] \in Versions
          /\ \A u \in closures[snap][k] .. snap : closures[u][k] = closures[snap][k]
      BY <1>2, <1>3, <2>3 DEF IInv, BarriersContiguous, TypeOK, Closures
    <3>2. \A u \in closures[snap][k] .. snap : closures'[u] = closures[u]
      <4>1. \A u \in closures[snap][k] .. snap : u \in Versions /\ u # v
        BY SMTT(30), <1>2, <3>1, BoundsNat DEF Versions
      <4> QED
        BY <1>3, <4>1
    <3>3. \A u \in closures[snap][k] .. v : u = v \/ u \in closures[snap][k] .. snap
      BY SMTT(30), <1>2, <3>1 DEF Versions
    <3> QED
      BY SMTT(30), <1>2, <1>3, <2>3, <3>1, <3>2, <3>3 DEF Versions
  <2> QED
    BY <1>1, <1>3, <2>1, <2>2, <2>3
<1>8. NoTokenYet' /\ CountsExact'
  BY <1>2 DEF IInv, NoTokenYet, CountsExact, requests, gate
<1>9. \A u \in Versions : u <= snap => closures'[u] = closures[u]
  BY SMTT(30), <1>2, <1>3 DEF Versions
<1>10. ShutOrPast'
  <2> SUFFICES ASSUME NEW k \in Kinds, drained[k] # Open
               PROVE  /\ drained[k] <= installed
                      /\ closures'[drained[k]][k] = drained[k]
                      /\ closed[k] # Open \/ \A w \in Versions :
                           w >= from => w > drained[k] /\ closures'[w][k] # drained[k]
    BY <1>2 DEF ShutOrPast, keeper, gate
  <2>1. /\ drained[k] <= installed /\ closures[drained[k]][k] = drained[k]
        /\ drained[k] \in Versions /\ installed <= snap /\ installed \in Versions
        /\ from <= snap /\ from \in Versions
    BY DEF IInv, ShutOrPast, TypeOK, Closures, VersionsBounded
  <2>2. drained[k] <= snap
    BY SMT, <1>2, <2>1 DEF Versions
  <2>3. closures'[drained[k]][k] = drained[k]
    BY <1>9, <2>1, <2>2
  <2>4. ASSUME closed[k] = Open, NEW w \in Versions, w >= from
        PROVE  w > drained[k] /\ closures'[w][k] # drained[k]
    <3>1. \A x \in Versions : x >= from => x > drained[k] /\ closures[x][k] # drained[k]
      BY <2>4 DEF IInv, ShutOrPast
    <3>2. CASE w # v
      BY <1>3, <2>4, <3>1, <3>2
    <3>3. CASE w = v
      <4>1. closures[snap][k] # drained[k]
        BY <1>2, <2>1, <3>1
      <4>2. v # drained[k]
        BY SMTT(30), <1>2, <2>1, <2>2 DEF Versions
      <4> QED
        BY <1>1, <1>3, <2>4, <3>1, <3>3, <4>1, <4>2
    <3> QED
      BY <3>2, <3>3
  <2> QED
    BY <2>1, <2>3, <2>4
<1>11. DrainedStaysDrained'
  BY ZenonT(40), <1>2, <1>9 DEF IInv, DrainedStaysDrained, TypeOK, VersionsBounded, requests
<1> QED
  BY <1>5, <1>6, <1>7, <1>8, <1>10, <1>11 DEF IInv

\* Writing the restart cache keeps the invariant.
LEMMA PersistKeeps ==
    ASSUME IInv, Persist
    PROVE  IInv'
<1>1. /\ durable' \in (durable + 1) .. installed
      /\ UNCHANGED <<closures, snap, publisher, todo, keeper, gate, requests, drained>>
  BY DEF Persist
<1>2. durable' \in Versions /\ durable' <= installed
  BY SMTT(30), <1>1, BoundsNat DEF IInv, TypeOK, Versions
<1>3. TypeOK'
  BY <1>1, <1>2 DEF IInv, TypeOK, publisher, keeper, gate, requests
<1>4. VersionsBounded' /\ InstallerOnly'
  BY <1>1, <1>2 DEF IInv, VersionsBounded, InstallerOnly, publisher, keeper, gate, requests
<1>5. BarriersContiguous' /\ NoTokenYet' /\ CountsExact' /\ ShutOrPast' /\ DrainedStaysDrained'
  BY SMT, <1>1 DEF IInv, BarriersContiguous, NoTokenYet, CountsExact, ShutOrPast, DrainedStaysDrained,
     keeper, gate, requests
<1> QED
  BY <1>3, <1>4, <1>5 DEF IInv

\* An acknowledgement the control node accepts: nothing is out through the
\* gate, and the hold is at or below the version the keeper follows.
LEMMA AckKeeps ==
    ASSUME IInv, NEW k \in Kinds, Ack(k)
    PROVE  IInv'
<1> DEFINE h == closures[snap][k]
<1>1. /\ h # Open /\ closed[k] = h /\ inflight[k] = 0 /\ durable >= h
      /\ drained' = [drained EXCEPT ![k] = h]
      /\ UNCHANGED <<member, publisher, todo, keeper, gate, requests>>
  BY DEF Ack, Acked
<1>2. h \in Versions /\ drained \in Closures /\ snap \in Versions
  BY SMTT(30) DEF IInv, TypeOK, Closures
<1>3. drained' \in Closures /\ drained'[k] = h /\ \A j \in Kinds : j # k => drained'[j] = drained[j]
  BY <1>1, <1>2 DEF Closures
<1>4. h <= installed
  BY SMTT(30), <1>1, <1>2 DEF IInv, TypeOK, VersionsBounded, Versions
<1>5. closures[h][k] = h
  <2>1. h <= snap /\ \A u \in h .. snap : closures[u][k] = h
    BY <1>1, <1>2 DEF IInv, BarriersContiguous
  <2> QED
    BY SMT, <1>2, <2>1 DEF Versions
<1>6. \A r \in Requests : k \notin tok[r]
  BY <1>1, ZeroMeansNone DEF IInv
<1>7. TypeOK'
  BY <1>1, <1>3 DEF IInv, TypeOK, member, publisher, keeper, gate, requests
<1>8. VersionsBounded' /\ InstallerOnly'
  BY <1>1 DEF IInv, VersionsBounded, InstallerOnly, member, publisher, keeper, gate, requests
<1>9. BarriersContiguous' /\ NoTokenYet' /\ CountsExact'
  BY <1>1 DEF IInv, BarriersContiguous, NoTokenYet, CountsExact, member, gate, requests
<1>10. ShutOrPast'
  <2>1. UNCHANGED <<closures, installed, closed, from>>
    BY <1>1 DEF member, keeper, gate
  <2> SUFFICES ASSUME NEW j \in Kinds, drained'[j] # Open
               PROVE  /\ drained'[j] <= installed
                      /\ closures[drained'[j]][j] = drained'[j]
                      /\ closed[j] # Open \/ \A v \in Versions :
                           v >= from => v > drained'[j] /\ closures[v][j] # drained'[j]
    BY <2>1 DEF ShutOrPast
  <2>2. CASE j = k
    BY <1>1, <1>3, <1>4, <1>5, <2>2
  <2>3. CASE j # k
    BY <1>3, <2>3 DEF IInv, ShutOrPast
  <2> QED
    BY <2>2, <2>3
<1>11. DrainedStaysDrained'
  BY <1>1, <1>3, <1>6 DEF IInv, DrainedStaysDrained, member, requests
<1> QED
  BY <1>7, <1>8, <1>9, <1>10, <1>11 DEF IInv
-----------------------------------------------------------------------------
\* A proxy that has just started satisfies the invariant.
LEMMA InitIInv == Init => IInv
<1> SUFFICES ASSUME Init PROVE IInv
  OBVIOUS
<1>1. 0 \in Versions /\ NoClosures \in Closures
  BY SMT, BoundsNat DEF Versions, NoClosures, Closures, Open
<1>2. TypeOK
  <2>1. todo \in [Threads -> Seq(Calls)]
    BY SMT DEF Init
  <2>2. /\ stage \in [Requests -> Stages] /\ class \in [Requests -> Classes \cup {"read"}]
        /\ tok \in [Requests -> SUBSET Kinds]
    BY DEF Init, Stages
  <2>3. drained \in Closures /\ closed \in Closures
    BY <1>1 DEF Init, Closures, NoClosures
  <2> QED
    BY <1>1, <2>1, <2>2, <2>3 DEF Init, TypeOK
<1>3. VersionsBounded /\ InstallerOnly
  BY SMTT(30) DEF Init, VersionsBounded, InstallerOnly, None
<1>4. BarriersContiguous /\ NoTokenYet /\ ShutOrPast /\ DrainedStaysDrained
  BY DEF Init, BarriersContiguous, NoTokenYet, ShutOrPast, DrainedStaysDrained, NoClosures, Open
<1>5. CountsExact
  <2>1. \A k \in Kinds : {r \in Requests : k \in tok[r]} = {}
    BY DEF Init
  <2> QED
    BY <2>1, FS_EmptySet DEF Init, CountsExact
<1> QED
  BY <1>2, <1>3, <1>4, <1>5 DEF IInv

\* Every step of the proxy keeps the invariant.
LEMMA NextIInv == IInv /\ [Next]_vars => IInv'
<1> SUFFICES ASSUME IInv, [Next]_vars PROVE IInv'
  OBVIOUS
<1>1. CASE Install
  BY <1>1, InstallKeeps
<1>2. CASE Persist
  BY <1>2, PersistKeeps
<1>3. ASSUME NEW t \in Threads, Thread(t) PROVE IInv'
  BY <1>3, PublishStepKeeps, ReleaseStepKeeps, DrainedStepKeeps, ServedKeeps, InstalledKeeps DEF Thread
<1>4. ASSUME NEW r \in Requests, Load(r) \/ Handler(r) PROVE IInv'
  BY <1>4, AcquiringKeeps, EnterMutationsKeeps, EnterSourceKeeps, ReleaseBundleKeeps, ReleaseTokensKeeps
     DEF Handler
<1>5. ASSUME NEW k \in Kinds, Ack(k) PROVE IInv'
  BY <1>5, AckKeeps
<1>6. CASE UNCHANGED vars
  <2>1. TypeOK'
    BY <1>6 DEF IInv, TypeOK, vars
  <2>2. VersionsBounded' /\ InstallerOnly'
    BY <1>6 DEF IInv, VersionsBounded, InstallerOnly, vars
  <2>3. BarriersContiguous' /\ NoTokenYet' /\ CountsExact'
    BY <1>6 DEF IInv, BarriersContiguous, NoTokenYet, CountsExact, vars
  <2>4. ShutOrPast' /\ DrainedStaysDrained'
    BY <1>6 DEF IInv, ShutOrPast, DrainedStaysDrained, vars
  <2> QED
    BY <2>1, <2>2, <2>3, <2>4 DEF IInv
<1> QED
  BY <1>1, <1>2, <1>3, <1>4, <1>5, <1>6 DEF Next

\* The invariant holds of every behaviour of the proxy.
THEOREM Invariance == Spec => []IInv
  BY InitIInv, NextIInv, PTL DEF Spec

\* Types: every variable of the proxy's serving state keeps its type.
THEOREM TypeCorrect == Spec => []TypeOK
<1>1. IInv => TypeOK
  BY DEF IInv
<1> QED
  BY <1>1, Invariance, PTL

\* A gate's count is exactly the tokens out, on every path of a handler.
THEOREM CountsAreExact == Spec => []CountsExact
<1>1. IInv => CountsExact
  BY DEF IInv
<1> QED
  BY <1>1, Invariance, PTL

\* A drain proof is lasting: after an accepted acknowledgement no request that
\* routes by a version from before or during the barrier holds a token again.
THEOREM DrainProofLasts == Spec => []DrainedStaysDrained
<1>1. IInv => DrainedStaysDrained
  BY DEF IInv
<1> QED
  BY <1>1, Invariance, PTL
=============================================================================
