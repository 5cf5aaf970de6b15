--------------------------- MODULE PublisherProofs ---------------------------
(***************************************************************************)
(* Proofs about the publisher of runtime bundles in ProxyGates, for any    *)
(* number of requests and any bound on the retired bundles: a bundle in    *)
(* use is never drained, a parked install is never forgotten, and the      *)
(* version new requests route by never goes back.                          *)
(*                                                                         *)
(* The argument.  A bundle is referenced by the publisher (owned) until    *)
(* the call that lets it go, and by its requests; nobody can take a new    *)
(* reference to one that nobody references.  So the call that drains a     *)
(* bundle, once on a goroutine's list, is true of it for ever, although    *)
(* the goroutine may be slow to make it.                                   *)
(***************************************************************************)
EXTENDS ProxyGatesProofs

\* First-order leaves are Zenon's; a leaf that needs arithmetic or records names SMT.
USE ZenonT(30)

-----------------------------------------------------------------------------
(* The inductive invariant, in parts. *)

HeldBy(r, b) == Holding(r) /\ ver[r] = b

\* The publisher references the current and the parked bundle, and else only retired ones.
OwnedOK ==
    /\ cur \in owned /\ owned \subseteq held \cup {cur, pending}
    /\ pending # None => pending \in owned /\ pending > cur
    /\ \A b \in held : b < cur

\* Requests route by bundles the publisher has published; those they hold are not drained.
RequestsOK ==
    \A r \in Requests :
        /\ ver[r] <= cur
        /\ Holding(r) => ver[r] \in held \cup {cur}
        /\ stage[r] # "tokens" => todo[r] = <<>>

\* What a call on a list still promises: a bundle to let go was replaced, and a bundle to drain has
\* no reference left.
CallGood(c) ==
    /\ c.op = "release" => c.v < cur
    /\ c.op = "drained" => c.v < cur /\ c.v \notin owned /\ \A r \in Requests : ~HeldBy(r, c.v)

\* An install that the installer is about to publish is newer than all published before.
Fresh(v) == v > cur /\ v > pending
Promises ==
    \A t \in Threads : \A i \in 1 .. Len(todo[t]) :
        /\ CallGood(todo[t][i])
        /\ todo[t][i].op = "publish" => t = Installer /\ i = 1 /\ Fresh(todo[t][i].v)

\* Somebody will drain the retired bundle b.
Waking(b) ==
    /\ b \in owned => OnItsWay(Call("release", b))
    /\ b \in owned \/ (\E r \in Requests : HeldBy(r, b)) \/ OnItsWay(Call("drained", b))
Backpressure ==
    /\ Cardinality(held) <= Limit
    /\ pending # None => Cardinality(held) = Limit
    /\ \A b \in held : Waking(b)

BInv == OwnedOK /\ RequestsOK /\ Promises /\ Backpressure

-----------------------------------------------------------------------------
(* The lists of calls. *)

\* A goroutine t makes its first call, which leaves the calls pre in its place.
Made(t, pre) == pre \in Seq(Calls) /\ todo[t] # <<>> /\ todo' = [todo EXCEPT ![t] = pre \o Rest(t)]

\* Every call on a list after that was on it before, past the first, or is one of pre, and none
\* of the others is gone.
LEMMA CallsMove ==
    ASSUME TypeOK, NEW t \in Threads, NEW pre, Made(t, pre)
    PROVE  /\ \A u \in Threads : u # t => todo'[u] = todo[u]
           /\ \A i \in 1 .. Len(todo'[t]) :
                 \/ \E k \in 1 .. Len(pre) : todo'[t][i] = pre[k]
                 \/ \E j \in 1 .. Len(todo[t]) : j # 1 /\ todo'[t][i] = todo[t][j]
           /\ \A k \in 1 .. Len(pre) : \E i \in 1 .. Len(todo'[t]) : todo'[t][i] = pre[k]
           /\ \A j \in 1 .. Len(todo[t]) : j # 1 => \E i \in 1 .. Len(todo'[t]) : todo'[t][i] = todo[t][j]
           /\ Len(todo[t]) \in Nat /\ 1 \in 1 .. Len(todo[t]) /\ Next1(t) = todo[t][1] /\ Next1(t) \in Calls
<1>s. PICK s : s = todo[t]  OBVIOUS
<1>n. PICK n : n = todo'[t]  OBVIOUS
<1>1. s \in Seq(Calls) /\ s # <<>> /\ pre \in Seq(Calls) /\ n = pre \o Tail(s)
  BY <1>s, <1>n DEF Made, TypeOK, Rest
<1>2. \A u \in Threads : u # t => todo'[u] = todo[u]
  BY DEF Made, TypeOK
<1>3. Len(s) \in Nat /\ 1 \in 1 .. Len(s) /\ Head(s) = s[1] /\ s[1] \in Calls
  BY SMT, <1>1
<1>4. Len(pre) \in Nat
  BY SMT, <1>1
<1>5. /\ Tail(s) \in Seq(Calls) /\ Len(Tail(s)) = Len(s) - 1
      /\ \A i \in 1 .. Len(Tail(s)) : Tail(s)[i] = s[i + 1]
  BY SMT, <1>1, <1>3
<1>6. Len(n) = Len(pre) + Len(s) - 1
  BY SMT, <1>1, <1>3, <1>4, <1>5
<1>7. \A k \in 1 .. Len(pre) : k \in 1 .. Len(n) /\ n[k] = pre[k]
  BY SMTT(30), <1>1, <1>3, <1>4, <1>5, <1>6
<1>8. \A i \in 1 .. Len(n) : i > Len(pre) => n[i] = Tail(s)[i - Len(pre)]
  BY SMTT(30), <1>1, <1>3, <1>4, <1>5, <1>6
<1>9. ASSUME NEW i \in 1 .. Len(n), ~(i \in 1 .. Len(pre))
      PROVE  \E j \in 1 .. Len(s) : j # 1 /\ n[i] = s[j]
  <2>1. i - Len(pre) \in 1 .. Len(Tail(s)) /\ i > Len(pre)
        /\ i - Len(pre) + 1 \in 1 .. Len(s) /\ i - Len(pre) + 1 # 1
    BY SMTT(30), <1>3, <1>4, <1>5, <1>6, <1>9
  <2>2. n[i] = s[i - Len(pre) + 1]
    BY <1>5, <1>8, <2>1
  <2> QED
    BY <2>1, <2>2
<1>10. ASSUME NEW j \in 1 .. Len(s), j # 1
       PROVE  \E i \in 1 .. Len(n) : n[i] = s[j]
  <2>1. j - 1 \in 1 .. Len(Tail(s)) /\ Len(pre) + j - 1 \in 1 .. Len(n) /\ Len(pre) + j - 1 > Len(pre)
        /\ (Len(pre) + j - 1) - Len(pre) = j - 1 /\ (j - 1) + 1 = j
    BY SMTT(30), <1>3, <1>4, <1>5, <1>6, <1>10
  <2>2. n[Len(pre) + j - 1] = s[j]
    BY <1>5, <1>8, <2>1
  <2> QED
    BY <2>1, <2>2
<1>11. \A i \in 1 .. Len(n) :
          \/ \E k \in 1 .. Len(pre) : n[i] = pre[k]
          \/ \E j \in 1 .. Len(s) : j # 1 /\ n[i] = s[j]
  BY <1>7, <1>9
<1>12. \A k \in 1 .. Len(pre) : \E i \in 1 .. Len(n) : n[i] = pre[k]
  BY <1>7
<1> QED
  BY SMTT(30), <1>s, <1>n, <1>2, <1>3, <1>10, <1>11, <1>12 DEF Next1

\* A call that was on its way still is, unless it is the one just made; those of pre are.
LEMMA CallsStay ==
    ASSUME TypeOK, NEW t \in Threads, NEW pre, Made(t, pre)
    PROVE  /\ \A c : OnItsWay(c) /\ c # Next1(t) => OnItsWay(c)'
           /\ \A k \in 1 .. Len(pre) : OnItsWay(pre[k])'
<1>1. ASSUME NEW c, NEW u \in Threads, NEW j \in 1 .. Len(todo[u]), todo[u][j] = c, c # Next1(t)
      PROVE  OnItsWay(c)'
  <2>1. CASE u # t
    BY ZenonT(40), <1>1, <2>1, CallsMove DEF OnItsWay
  <2>2. CASE u = t
    BY ZenonT(40), <1>1, <2>2, CallsMove DEF OnItsWay
  <2> QED BY <2>1, <2>2
<1>2. \A k \in 1 .. Len(pre) : OnItsWay(pre[k])'
  <2>1. \A k \in 1 .. Len(pre) : \E i \in 1 .. Len(todo'[t]) : todo'[t][i] = pre[k]
    BY SMTT(60), CallsMove
  <2> QED BY <2>1 DEF OnItsWay
<1> QED
  BY <1>1, <1>2 DEF OnItsWay

\* The promises of the calls are kept when those of the calls before are, and pre keeps its own.
LEMMA PromisesKept ==
    ASSUME TypeOK, Promises, NEW t \in Threads, NEW pre, Made(t, pre),
           \A c \in Calls : CallGood(c) => CallGood(c)',
           \A k \in 1 .. Len(pre) : CallGood(pre[k])' /\ pre[k].op # "publish",
           Next1(t).op = "publish" \/ \A v \in Versions : Fresh(v) => Fresh(v)'
    PROVE  Promises'
<1>1. ASSUME NEW u \in Threads, u # t, NEW i \in 1 .. Len(todo'[u])
      PROVE  /\ CallGood(todo[u][i])'
             /\ todo'[u][i].op = "publish" => u = Installer /\ i = 1 /\ Fresh(todo[u][i].v)'
  <2>1. todo'[u] = todo[u] /\ i \in 1 .. Len(todo[u])
    BY <1>1, CallsMove
  <2>2. todo[u][i] \in Calls /\ todo[u][i].v \in Versions
    <3>1. todo[u] \in Seq(Calls)  BY DEF TypeOK
    <3>2. todo[u][i] \in Calls  BY SMT, <2>1, <3>1
    <3> QED BY <3>2 DEF Calls
  <2>3. CallGood(todo[u][i]) /\ (todo[u][i].op = "publish" => u = Installer /\ i = 1 /\ Fresh(todo[u][i].v))
    BY <2>1 DEF Promises
  <2>4. ASSUME todo[u][i].op = "publish" PROVE Next1(t).op # "publish"
    BY SMTT(30), <1>1, <2>3, <2>4, CallsMove DEF Promises
  <2> QED BY <2>1, <2>2, <2>3, <2>4
<1>2. ASSUME NEW i \in 1 .. Len(todo'[t])
      PROVE  CallGood(todo[t][i])' /\ todo'[t][i].op # "publish"
  <2>1. CASE \E k \in 1 .. Len(pre) : todo'[t][i] = pre[k]
    BY <2>1
  <2>2. CASE \E j \in 1 .. Len(todo[t]) : j # 1 /\ todo'[t][i] = todo[t][j]
    <3>1. PICK j \in 1 .. Len(todo[t]) : j # 1 /\ todo'[t][i] = todo[t][j]
      BY <2>2
    <3>2. todo[t][j] \in Calls
      BY SMT DEF TypeOK
    <3>3. CallGood(todo[t][j]) /\ todo[t][j].op # "publish"
      BY <3>1 DEF Promises
    <3> QED BY <3>1, <3>2, <3>3
  <2> QED BY SMT, <2>1, <2>2, CallsMove
<1> QED
  BY <1>1, <1>2 DEF Promises

\* A retired bundle that somebody will drain still is one after a call that is not its own.
LEMMA WakingKept ==
    ASSUME TypeOK, NEW t \in Threads, NEW pre, Made(t, pre), NEW b, Waking(b),
           Next1(t) # Call("drained", b),
           Next1(t) # Call("release", b), b \in owned <=> b \in owned',
           \A r \in Requests : HeldBy(r, b) => HeldBy(r, b)'
    PROVE  Waking(b)'
<1>1. \A c : OnItsWay(c) /\ c # Next1(t) => OnItsWay(c)'
  BY CallsStay
<1> QED
  BY <1>1 DEF Waking

\* Sets of versions are finite.
LEMMA VersionsFinite ==
    ASSUME NEW S \in SUBSET Versions
    PROVE  IsFiniteSet(S) /\ Cardinality(S) \in Nat
<1>1. IsFiniteSet(Versions)
  BY SMT, BoundsNat, FS_Interval DEF Versions
<1>2. IsFiniteSet(S)
  BY <1>1, FS_Subset
<1> QED
  BY <1>2, FS_CardinalityType

-----------------------------------------------------------------------------
(* The publisher's steps. *)

\* What every step of a goroutine's list leaves alone, and the call it makes.
LEMMA StepFrame ==
    ASSUME IInv, BInv, NEW t \in Threads, todo[t] # <<>>, UNCHANGED requests
    PROVE  /\ TypeOK /\ Next1(t) \in Calls /\ Next1(t).v \in Versions /\ Rest(t) = <<>> \o Rest(t)
           /\ CallGood(Next1(t))
           /\ Next1(t).op = "publish" => t = Installer /\ Fresh(Next1(t).v)
           /\ \A r \in Requests : \A b : HeldBy(r, b)' <=> HeldBy(r, b)
           /\ Next1(t) = Call(Next1(t).op, Next1(t).v)
           /\ cur \in Versions /\ pending \in Versions \cup {None} /\ held \subseteq Versions
           /\ owned \subseteq Versions /\ Cardinality(held) \in Nat
<1>1. TypeOK /\ todo[t] \in Seq(Calls) /\ todo[t] # <<>>
  BY DEF IInv, TypeOK
<1>2. Next1(t) = todo[t][1] /\ 1 \in 1 .. Len(todo[t]) /\ Next1(t) \in Calls
  BY SMT, <1>1 DEF Next1
<1>3. Next1(t).v \in Versions /\ Next1(t) = Call(Next1(t).op, Next1(t).v)
  BY <1>2 DEF Calls, Call
<1>4. Rest(t) = <<>> \o Rest(t)
  <2>1. Rest(t) \in Seq(Calls)  BY SMT, <1>1 DEF Rest
  <2> QED BY SMT, <2>1
<1>5. CallGood(Next1(t)) /\ (Next1(t).op = "publish" => t = Installer /\ Fresh(Next1(t).v))
  BY ZenonT(40), <1>2 DEF BInv, Promises
<1>6. \A r \in Requests : \A b : HeldBy(r, b)' <=> HeldBy(r, b)
  BY DEF HeldBy, Holding, requests
<1>7. cur \in Versions /\ pending \in Versions \cup {None} /\ held \subseteq Versions /\ owned \subseteq Versions
  BY <1>1 DEF TypeOK
<1>8. Cardinality(held) \in Nat
  BY <1>7, VersionsFinite
<1> QED
  BY <1>1, <1>2, <1>3, <1>4, <1>5, <1>6, <1>7, <1>8

\* The handlers of requests keep their bundles, and their own lists empty, through such a step.
LEMMA RequestsKept ==
    ASSUME IInv, BInv, NEW t \in Threads, todo[t] # <<>>, UNCHANGED requests, NEW pre, Made(t, pre),
           cur <= cur', cur' \in Versions,
           \A b \in held \cup {cur} : b \in held' \cup {cur'} \/ \A r \in Requests : ~HeldBy(r, b)
    PROVE  RequestsOK'
<1>1. \A r \in Requests : ver[r] \in Versions /\ cur \in Versions /\ ver[r] <= cur
  BY DEF IInv, TypeOK, BInv, RequestsOK
<1>2. \A r \in Requests : ver'[r] <= cur'
  BY SMT, <1>1 DEF requests, Versions
<1>3. \A r \in Requests : Holding(r)' => ver'[r] \in held' \cup {cur'}
  BY DEF BInv, RequestsOK, HeldBy, Holding, requests
<1>4. \A r \in Requests : stage'[r] # "tokens" => todo'[r] = <<>>
  <2> SUFFICES ASSUME NEW r \in Requests, stage[r] # "tokens" PROVE todo'[r] = <<>>
    BY DEF requests
  <2>1. todo[r] = <<>> /\ r # t
    BY DEF BInv, RequestsOK
  <2> QED
    BY <2>1 DEF Made, IInv, TypeOK, Threads
<1> QED
  BY <1>2, <1>3, <1>4 DEF RequestsOK

\* A call that leaves the publisher alone: GateKeeper.Served and Installed.
LEMMA KeeperKeeps ==
    ASSUME IInv, BInv, NEW t \in Threads, Served(t) \/ Installed(t)
    PROVE  BInv'
<1>1. /\ todo[t] # <<>> /\ UNCHANGED requests /\ Next1(t).op \in {"hook", "installed"}
      /\ UNCHANGED <<cur, held, pending, owned>> /\ todo' = [todo EXCEPT ![t] = Rest(t)]
  BY DEF Served, Installed, publisher
<1>2. TypeOK /\ Made(t, <<>>)
  BY SMT, <1>1, StepFrame DEF Made
<1>3. OwnedOK'
  BY <1>1 DEF BInv, OwnedOK
<1>4. RequestsOK'
  <2>1. cur <= cur' /\ cur' \in Versions  BY SMT, <1>1, <1>2 DEF TypeOK, Versions
  <2> QED BY <1>1, <1>2, <2>1, RequestsKept
<1>5. Promises'
  <2>1. \A c \in Calls : CallGood(c) => CallGood(c)'
    BY <1>1, StepFrame DEF CallGood
  <2>2. \A v \in Versions : Fresh(v) => Fresh(v)'
    BY <1>1 DEF Fresh
  <2> QED BY SMT, <1>2, <2>1, <2>2, PromisesKept DEF BInv
<1>6. Backpressure'
  <2>1. \A b : Next1(t) # Call("drained", b) /\ Next1(t) # Call("release", b)
    BY SMT, <1>1 DEF Call
  <2>2. \A b \in held : Waking(b)'
    BY <1>1, <1>2, <2>1, StepFrame, WakingKept DEF BInv, Backpressure
  <2> QED BY <1>1, <2>2 DEF BInv, Backpressure
<1> QED
  BY <1>3, <1>4, <1>5, <1>6 DEF BInv

\* Letting the publisher's reference to a replaced bundle go keeps the invariant: either a request
\* still holds it, or the call that drains it is put on the list at once.
LEMMA ReleaseKeeps ==
    ASSUME IInv, BInv, NEW t \in Threads, ReleaseStep(t)
    PROVE  BInv'
<1>0. PICK b : b = Next1(t).v
  OBVIOUS
<1>1. /\ todo[t] # <<>> /\ UNCHANGED requests /\ Next1(t).op = "release"
      /\ owned' = owned \ {b} /\ UNCHANGED <<cur, held, pending>>
  BY <1>0 DEF ReleaseStep, ReleaseOwned
<1>2. /\ TypeOK /\ b \in Versions /\ b < cur /\ cur \in Versions /\ pending \in Versions \cup {None}
      /\ Next1(t) = Call("release", b)
      /\ \A r \in Requests : \A x : HeldBy(r, x)' <=> HeldBy(r, x)
  BY <1>0, <1>1, StepFrame DEF CallGood
<1>3. PICK pre : /\ Made(t, pre)
                 /\ \/ pre = <<>> /\ \E r \in Requests : HeldBy(r, b)
                    \/ pre = <<Call("drained", b)>> /\ \A r \in Requests : ~HeldBy(r, b)
  <2>1. Call("drained", b) \in Calls  BY <1>2 DEF Calls, Call, Ops
  <2>2. <<>> \in Seq(Calls) /\ <<Call("drained", b)>> \in Seq(Calls)  BY SMT, <2>1
  <2>3. Holders(b, Installer) = {} <=> \A r \in Requests : ~HeldBy(r, b)
    BY InstallerApart DEF Holders, HeldBy
  <2>4. CASE Holders(b, Installer) = {}
    <3>1. todo' = [todo EXCEPT ![t] = <<Call("drained", b)>> \o Rest(t)]
      BY <1>0, <2>4 DEF ReleaseStep, ReleaseOwned
    <3> QED BY <1>1, <2>2, <2>3, <2>4, <3>1 DEF Made
  <2>5. CASE Holders(b, Installer) # {}
    <3>1. todo' = [todo EXCEPT ![t] = Rest(t)]
      BY <1>0, <2>5 DEF ReleaseStep, ReleaseOwned
    <3>2. todo' = [todo EXCEPT ![t] = <<>> \o Rest(t)]
      BY <1>1, <3>1, StepFrame
    <3> QED BY <1>1, <2>2, <2>3, <2>5, <3>2 DEF Made
  <2> QED BY <2>4, <2>5
<1>4. OwnedOK'
  <2>1. b # cur /\ (pending # None => b # pending)
    BY SMT, <1>2 DEF BInv, OwnedOK, Versions
  <2> QED BY <1>1, <2>1 DEF BInv, OwnedOK
<1>5. RequestsOK'
  <2>1. cur <= cur' /\ cur' \in Versions  BY SMT, <1>1, <1>2 DEF Versions
  <2> QED BY <1>1, <1>3, <2>1, RequestsKept
<1>6. Promises'
  <2>1. \A c \in Calls : CallGood(c) => CallGood(c)'
    BY <1>1, <1>2 DEF CallGood
  <2>2. \A v \in Versions : Fresh(v) => Fresh(v)'
    BY <1>1 DEF Fresh
  <2>3. \A k \in 1 .. Len(pre) : pre[k] = Call("drained", b) /\ \A r \in Requests : ~HeldBy(r, b)
    BY SMT, <1>3
  <2>4. \A k \in 1 .. Len(pre) : CallGood(pre[k])' /\ pre[k].op # "publish"
    BY SMT, <1>1, <1>2, <2>3 DEF CallGood, Call
  <2> QED BY <1>2, <1>3, <2>1, <2>2, <2>4, PromisesKept DEF BInv
<1>7. Backpressure'
  <2>1. ASSUME NEW x \in held, x # b PROVE Waking(x)'
    <3>1. Next1(t) # Call("drained", x) /\ Next1(t) # Call("release", x) /\ (x \in owned <=> x \in owned')
      BY SMTT(30), <1>1, <1>2, <2>1 DEF Call
    <3>2. Waking(x)
      BY DEF BInv, Backpressure
    <3> QED BY <1>2, <1>3, <3>1, <3>2, WakingKept
  <2>2. Waking(b)'
    <3>1. CASE \E r \in Requests : HeldBy(r, b)
      BY <1>1, <1>2, <3>1 DEF Waking
    <3>2. CASE pre = <<Call("drained", b)>>
      <4>1. 1 \in 1 .. Len(pre) /\ pre[1] = Call("drained", b)  BY SMT, <3>2
      <4>2. OnItsWay(pre[1])'  BY <1>2, <1>3, <4>1, CallsStay
      <4> QED BY <1>1, <4>1, <4>2 DEF Waking
    <3> QED BY <1>3, <3>1, <3>2
  <2> QED BY <1>1, <2>1, <2>2 DEF BInv, Backpressure
<1> QED
  BY <1>4, <1>5, <1>6, <1>7 DEF BInv

\* The first half of swapLocked: the bundle p waits for the bound, or there is none to wait.  S is
\* what is still held.
LEMMA ParkKeeps ==
    ASSUME IInv, BInv, NEW t \in Threads, todo[t] # <<>>, UNCHANGED requests,
           NEW S \in SUBSET held, NEW p \in Versions \cup {None},
           cur' = cur, held' = S, pending' = p, todo' = [todo EXCEPT ![t] = Rest(t)],
           p # None => Cardinality(S) >= Limit /\ p > cur /\ p \in owned',
           cur \in owned', owned' \subseteq S \cup {cur, p}, \A x \in owned' : x \in owned \/ x > cur,
           \A x \in S : x \in owned => x \in owned',
           \A x \in held : x \in S \/ \A r \in Requests : ~HeldBy(r, x),
           Next1(t).op \in {"publish", "drained"}, Next1(t).op = "drained" => Next1(t).v \notin S,
           Next1(t).op = "publish" \/ p <= pending
    PROVE  BInv'
<1>1. /\ TypeOK /\ cur \in Versions /\ pending \in Versions \cup {None} /\ held \subseteq Versions
      /\ \A r \in Requests : \A x : HeldBy(r, x)' <=> HeldBy(r, x)
      /\ Cardinality(held) \in Nat
  BY StepFrame
<1>2. Made(t, <<>>)
  BY SMT, StepFrame DEF Made
<1>3. OwnedOK'
  BY DEF BInv, OwnedOK
<1>4. RequestsOK'
  <2>1. cur <= cur' /\ cur' \in Versions  BY SMT, <1>1 DEF Versions
  <2> QED BY <1>2, <2>1, RequestsKept
<1>5. Promises'
  <2>1. \A c \in Calls : CallGood(c) => CallGood(c)'
    BY SMTT(30), <1>1 DEF CallGood, Calls, Versions
  <2>2. Next1(t).op = "publish" \/ \A v \in Versions : Fresh(v) => Fresh(v)'
    BY SMT, <1>1 DEF Fresh, Versions, None
  <2> QED BY SMTT(30), <1>1, <1>2, <2>1, <2>2, PromisesKept DEF BInv
<1>6. Cardinality(S) \in Nat /\ Cardinality(S) <= Cardinality(held)
  BY <1>1, VersionsFinite, FS_Subset
<1>7. Backpressure'
  <2>1. ASSUME NEW x \in S PROVE Waking(x)'
    <3>1. Next1(t) # Call("drained", x) /\ Next1(t) # Call("release", x)
      BY SMTT(30) DEF Call
    <3>3. x \in owned <=> x \in owned'
      BY SMT, <1>1 DEF BInv, OwnedOK, Versions
    <3>2. Waking(x)
      BY DEF BInv, Backpressure
    <3> QED BY <1>1, <1>2, <3>1, <3>2, <3>3, WakingKept
  <2>2. Cardinality(S) <= Limit /\ (p # None => Cardinality(S) = Limit)
    BY SMTT(30), <1>1, <1>6, LimitPositive DEF BInv, Backpressure
  <2> QED BY <2>1, <2>2 DEF Backpressure
<1> QED
  BY <1>3, <1>4, <1>5, <1>7 DEF BInv

\* The second half of swapLocked: b replaces the current bundle, which is retired.
LEMMA SwapKeeps ==
    ASSUME IInv, BInv, NEW t \in Threads, todo[t] # <<>>, UNCHANGED requests,
           NEW S \in SUBSET held, NEW b \in Versions, b > cur, ~(Cardinality(S) >= Limit),
           cur' = b, held' = S \cup {cur}, pending' = None,
           todo' = [todo EXCEPT ![t] = <<Call("release", cur), Call("hook", b)>> \o Rest(t)],
           cur \in owned', b \in owned', owned' \subseteq S \cup {cur, b}, \A x \in owned' : x \in owned \/ x > cur,
           \A x \in S : x \in owned => x \in owned',
           \A x \in held : x \in S \/ \A r \in Requests : ~HeldBy(r, x),
           Next1(t).op \in {"publish", "drained"}, Next1(t).op = "drained" => Next1(t).v \notin S,
           Next1(t).op = "publish" \/ b <= pending
    PROVE  BInv'
<1>1. /\ TypeOK /\ cur \in Versions /\ pending \in Versions \cup {None} /\ held \subseteq Versions
      /\ \A r \in Requests : \A x : HeldBy(r, x)' <=> HeldBy(r, x)
  BY StepFrame
<1>2. PICK o : o = cur
  OBVIOUS
<1>3. PICK pre : pre = <<Call("release", o), Call("hook", b)>>
  OBVIOUS
<1>4. Made(t, pre) /\ Len(pre) = 2 /\ pre[1] = Call("release", o) /\ pre[2] = Call("hook", b)
  <2>1. Call("release", o) \in Calls /\ Call("hook", b) \in Calls  BY <1>1, <1>2 DEF Calls, Call, Ops
  <2>2. pre \in Seq(Calls) /\ Len(pre) = 2 /\ pre[1] = Call("release", o) /\ pre[2] = Call("hook", b)
    BY SMTT(30), <1>3, <2>1
  <2> QED BY <1>2, <1>3, <2>2 DEF Made
<1>5. OwnedOK'
  BY SMT, <1>1 DEF BInv, OwnedOK, Versions
<1>6. RequestsOK'
  <2>1. cur <= cur' /\ cur' \in Versions  BY SMTT(30), <1>1 DEF Versions
  <2> QED BY <1>4, <2>1, RequestsKept
<1>7. Promises'
  <2>1. \A c \in Calls : CallGood(c) => CallGood(c)'
    BY SMTT(30), <1>1 DEF CallGood, Calls, Versions
  <2>2. Next1(t).op = "publish" \/ \A v \in Versions : Fresh(v) => Fresh(v)'
    BY SMTT(30), <1>1 DEF Fresh, Versions, None
  <2>3. \A k \in 1 .. Len(pre) : CallGood(pre[k])' /\ pre[k].op # "publish"
    <3>1. CallGood(Call("release", o))' /\ CallGood(Call("hook", b))'
      BY <1>2 DEF CallGood, Call
    <3>2. Call("release", o).op # "publish" /\ Call("hook", b).op # "publish"
      BY DEF Call
    <3>3. \A k \in 1 .. Len(pre) : k = 1 \/ k = 2  BY SMT, <1>4
    <3> QED BY <1>4, <3>1, <3>2, <3>3
  <2> QED BY <1>1, <1>4, <2>1, <2>2, <2>3, PromisesKept DEF BInv
<1>8. Cardinality(S \cup {cur}) <= Limit
  <2>1. IsFiniteSet(S) /\ Cardinality(S) \in Nat  BY <1>1, VersionsFinite
  <2>2. cur \notin S  BY SMT, <1>1 DEF BInv, OwnedOK, Versions
  <2>3. Cardinality(S \cup {cur}) = Cardinality(S) + 1  BY <2>1, <2>2, FS_AddElement
  <2> QED BY SMTT(30), <2>1, <2>3, LimitPositive
<1>9. Backpressure'
  <2>1. ASSUME NEW x \in S PROVE Waking(x)'
    <3>1. Next1(t) # Call("drained", x) /\ Next1(t) # Call("release", x)
      BY SMTT(30) DEF Call
    <3>3. x \in owned <=> x \in owned'
      BY SMT, <1>1 DEF BInv, OwnedOK, Versions
    <3>2. Waking(x)
      BY DEF BInv, Backpressure
    <3> QED BY <1>1, <1>4, <3>1, <3>2, <3>3, WakingKept
  <2>2. Waking(o)'
    <3>1. OnItsWay(pre[1])'  BY SMTT(30), <1>1, <1>4, CallsStay
    <3> QED BY <1>2, <1>4, <3>1 DEF Waking
  <2>3. \A x \in held' : x \in S \/ x = o
    BY <1>2
  <2> QED BY <1>8, <2>1, <2>2, <2>3 DEF Backpressure
<1> QED
  BY <1>5, <1>6, <1>7, <1>9 DEF BInv

\* Publisher.Publish keeps the invariant: the install is newer than all published before, and
\* takes the place of the one that waits.
LEMMA PublishKeeps ==
    ASSUME IInv, BInv, NEW t \in Threads, PublishStep(t)
    PROVE  BInv'
<1>0. PICK b : b = Next1(t).v
  OBVIOUS
<1>1. todo[t] # <<>> /\ UNCHANGED requests /\ Next1(t).op = "publish"
  BY DEF PublishStep
<1>2. /\ TypeOK /\ cur \in Versions /\ pending \in Versions \cup {None} /\ b \in Versions /\ held \subseteq Versions
      /\ b > cur /\ b > pending
  BY <1>0, <1>1, StepFrame DEF Fresh
<1>3. owned' = (owned \ {pending}) \cup {b} /\ SwapLocked(t, b, held, Rest(t))
  <2>1. ~(b < (IF pending # None THEN pending ELSE cur))
    BY SMT, <1>2 DEF Versions, None
  <2> QED BY <1>0, <2>1 DEF PublishStep, Publish
<1>4. cur # pending /\ \A x \in held : x # pending
  BY SMT, <1>2 DEF BInv, OwnedOK, Versions, None
<1>5. /\ cur \in owned' /\ b \in owned' /\ owned' \subseteq held \cup {cur, b}
      /\ \A x \in owned' : x \in owned \/ x > cur
      /\ \A x \in held : x \in owned => x \in owned'
  BY <1>2, <1>3, <1>4 DEF BInv, OwnedOK
<1>6. PICK S : S = held
  OBVIOUS
<1>7. CASE Cardinality(held) >= Limit
  <2>1. pending' = b /\ held' = held /\ cur' = cur /\ todo' = [todo EXCEPT ![t] = Rest(t)]
    BY <1>3, <1>7 DEF SwapLocked
  <2> QED BY <1>1, <1>2, <1>5, <1>6, <1>7, <2>1, ParkKeeps
<1>8. CASE ~(Cardinality(held) >= Limit)
  <2>1. /\ pending' = None /\ held' = held \cup {cur} /\ cur' = b
        /\ todo' = [todo EXCEPT ![t] = <<Call("release", cur), Call("hook", b)>> \o Rest(t)]
    BY <1>3, <1>8 DEF SwapLocked
  <2> QED BY <1>1, <1>2, <1>5, <1>6, <1>8, <2>1, SwapKeeps
<1> QED
  BY <1>7, <1>8

\* Publisher.drained keeps the invariant: the bundle has no reference, and the install that waits
\* is published in the same critical section.
LEMMA DrainedKeeps ==
    ASSUME IInv, BInv, NEW t \in Threads, DrainedStep(t)
    PROVE  BInv'
<1>0. PICK b : b = Next1(t).v
  OBVIOUS
<1>1. todo[t] # <<>> /\ UNCHANGED requests /\ Next1(t).op = "drained" /\ owned' = owned
  BY DEF DrainedStep, Drained
<1>2. /\ TypeOK /\ cur \in Versions /\ pending \in Versions \cup {None} /\ b \in Versions /\ held \subseteq Versions
      /\ b \notin owned /\ \A r \in Requests : ~HeldBy(r, b)
  BY <1>0, <1>1, StepFrame DEF CallGood
<1>3. PICK S : S = held \ {b}
  OBVIOUS
<1>4. PICK p : p = pending
  OBVIOUS
<1>5. /\ S \in SUBSET held /\ Next1(t).v \notin S /\ p \in Versions \cup {None}
      /\ cur \in owned' /\ owned' \subseteq S \cup {cur, p}
      /\ (p # None => p \in owned' /\ p > cur)
      /\ \A x \in held : x \in S \/ \A r \in Requests : ~HeldBy(r, x)
  BY <1>0, <1>1, <1>2, <1>3, <1>4 DEF BInv, OwnedOK
<1>6. p <= pending
  BY SMT, <1>2, <1>4 DEF Versions, None
<1>7. CASE pending = None
  <2>1. held' = S /\ pending' = p /\ cur' = cur /\ todo' = [todo EXCEPT ![t] = Rest(t)] /\ p = None
    BY <1>0, <1>3, <1>4, <1>7 DEF DrainedStep, Drained
  <2> QED BY <1>1, <1>5, <1>6, <2>1, ParkKeeps
<1>8. CASE pending # None
  <2>0. SwapLocked(t, p, S, Rest(t))
    BY <1>0, <1>3, <1>4, <1>8 DEF DrainedStep, Drained
  <2>1. CASE Cardinality(S) >= Limit
    <3>1. pending' = p /\ held' = S /\ cur' = cur /\ todo' = [todo EXCEPT ![t] = Rest(t)]
      BY <2>0, <2>1 DEF SwapLocked
    <3> QED BY <1>1, <1>5, <1>6, <2>1, <3>1, ParkKeeps
  <2>2. CASE ~(Cardinality(S) >= Limit)
    <3>1. /\ pending' = None /\ held' = S \cup {cur} /\ cur' = p
          /\ todo' = [todo EXCEPT ![t] = <<Call("release", cur), Call("hook", p)>> \o Rest(t)]
      BY <2>0, <2>2 DEF SwapLocked
    <3>2. p \in Versions /\ p > cur /\ p \in owned'
      BY <1>4, <1>5, <1>8
    <3> QED BY <1>1, <1>5, <1>6, <2>2, <3>1, <3>2, SwapKeeps
  <2> QED BY <2>1, <2>2
<1> QED
  BY <1>7, <1>8

-----------------------------------------------------------------------------
(* The other steps. *)

\* A new version is newer than every bundle published or parked (Client.apply).
LEMMA InstallBundle ==
    ASSUME IInv, BInv, Install
    PROVE  BInv'
<1>1. PICK v : v = snap + 1
  OBVIOUS
<1>2. PICK s : s = <<Call("publish", v), Call("installed", v)>>
  OBVIOUS
<1>3. /\ todo[Installer] = <<>> /\ todo' = [todo EXCEPT ![Installer] = s]
      /\ UNCHANGED <<cur, held, pending, owned, stage, ver>>
  BY <1>1, <1>2 DEF Install, publisher, requests
<1>4. /\ Len(s) = 2 /\ s[1] = Call("publish", v) /\ s[2] = Call("installed", v)
  BY <1>2
<1>5. /\ todo'[Installer] = s /\ \A t \in Threads : t # Installer => todo'[t] = todo[t]
  BY <1>3 DEF IInv, TypeOK, Threads
<1>6. v > cur /\ v > pending
  BY SMT, <1>1 DEF IInv, TypeOK, VersionsBounded, Versions, None
<1>7. OwnedOK'
  BY <1>3 DEF BInv, OwnedOK
<1>8. RequestsOK'
  BY <1>3, <1>5, InstallerApart DEF BInv, RequestsOK, Holding, Threads
<1>9. \A r \in Requests : \A b : HeldBy(r, b)' <=> HeldBy(r, b)
  BY <1>3 DEF HeldBy, Holding
<1>10. Promises'
  <2>1. ASSUME NEW t \in Threads, t # Installer, NEW i \in 1 .. Len(todo'[t])
        PROVE  CallGood(todo[t][i])' /\ todo'[t][i].op # "publish"
    BY SMTT(30), <1>3, <1>5, <1>9, <2>1 DEF BInv, Promises, CallGood
  <2>2. ASSUME NEW i \in 1 .. Len(s)
        PROVE  /\ CallGood(s[i])'
               /\ s[i].op = "publish" => i = 1 /\ Fresh(s[i].v)'
    <3>1. i = 1 \/ i = 2  BY SMTT(30), <1>4, <2>2
    <3>2. CASE i = 1  BY SMTT(30), <1>3, <1>4, <1>6, <3>2 DEF CallGood, Call, Fresh
    <3>3. CASE i = 2  BY SMT, <1>4, <3>3 DEF CallGood, Call
    <3> QED BY <3>1, <3>2, <3>3
  <2> QED BY <1>5, <2>1, <2>2 DEF Promises
<1>11. Backpressure'
  <2>1. \A c : OnItsWay(c) => OnItsWay(c)'
    <3> SUFFICES ASSUME NEW c, NEW t \in Threads, NEW i \in 1 .. Len(todo[t]), todo[t][i] = c
                 PROVE  OnItsWay(c)'
      BY DEF OnItsWay
    <3>1. t # Installer  BY SMT, <1>3
    <3> QED BY <1>5, <3>1 DEF OnItsWay
  <2>2. \A b : Waking(b) => Waking(b)'
    BY <1>3, <1>9, <2>1 DEF Waking
  <2> QED BY <1>3, <2>2 DEF BInv, Backpressure
<1> QED
  BY <1>7, <1>8, <1>10, <1>11 DEF BInv

\* A step of a request that takes and gives back no bundle.
LEMMA HoldersKept ==
    ASSUME IInv, BInv, UNCHANGED <<cur, held, pending, owned, todo>>,
           \A r \in Requests : /\ Holding(r)' <=> Holding(r)
                               /\ Holding(r) => ver'[r] = ver[r]
                               /\ ver'[r] <= cur
                               /\ stage'[r] # "tokens" => todo[r] = <<>>
    PROVE  BInv'
<1>1. \A r \in Requests : \A b : HeldBy(r, b)' <=> HeldBy(r, b)
  BY DEF HeldBy
<1>2. OwnedOK' /\ RequestsOK'
  BY DEF BInv, OwnedOK, RequestsOK
<1>3. Promises'
  BY ZenonT(40), <1>1 DEF BInv, Promises, CallGood, Fresh
<1>4. Backpressure'
  <2>1. \A b : Waking(b) => Waking(b)'
    BY <1>1 DEF Waking, OnItsWay
  <2> QED BY <2>1 DEF BInv, Backpressure
<1> QED
  BY <1>2, <1>3, <1>4 DEF BInv

\* The steps of a request at the gates, its load of the current bundle and its end are such steps.
LEMMA RequestBundle ==
    ASSUME IInv, BInv, NEW r \in Requests,
           Load(r) \/ Reload(r) \/ EnterMutations(r) \/ EnterSource(r) \/ ReleaseTokens(r)
    PROVE  BInv'
<1>1. UNCHANGED <<cur, held, pending, owned, todo>>
  BY DEF Load, Reload, EnterMutations, EnterSource, ReleaseTokens, publisher
<1>2. TypeOK /\ cur \in Versions /\ 0 <= cur /\ cur <= cur
  BY SMTT(30) DEF IInv, TypeOK, Versions
<1>3. \A q \in Requests : q # r => stage'[q] = stage[q] /\ ver'[q] = ver[q]
  BY <1>2 DEF Load, Reload, EnterMutations, EnterSource, ReleaseTokens, TypeOK
<1>4. \A q \in Requests : ver[q] <= cur /\ (stage[q] # "tokens" => todo[q] = <<>>)
  BY DEF BInv, RequestsOK
<1>5. /\ Holding(r)' <=> Holding(r)
      /\ Holding(r) => ver'[r] = ver[r]
      /\ ver'[r] <= cur
      /\ todo[r] = <<>>
  <2>1. CASE Load(r) \/ Reload(r)
    <3>1. stage[r] \in {"idle", "loaded"} /\ stage'[r] = "loaded" /\ ver'[r] = cur
      BY <1>2, <2>1 DEF Load, Reload, TypeOK
    <3> QED BY <1>2, <1>4, <3>1 DEF Holding
  <2>2. CASE EnterMutations(r) \/ EnterSource(r)
    <3>1. stage[r] \in {"mutation", "source"} /\ ver' = ver
      BY <2>2 DEF EnterMutations, EnterSource
    <3>2. stage'[r] \in {"source", "out", "done"}
      <4>1. CASE EnterMutations(r)  BY <1>2, <4>1 DEF EnterMutations, TypeOK
      <4>2. CASE EnterSource(r)  BY <1>2, <4>2 DEF EnterSource, TypeOK
      <4> QED BY <2>2, <4>1, <4>2
    <3> QED BY <1>4, <3>1, <3>2 DEF Holding
  <2>3. CASE ReleaseTokens(r)
    <3>1. stage[r] = "tokens" /\ stage'[r] = "idle" /\ ver'[r] = 0 /\ todo[r] = <<>>
      BY <1>2, <2>3 DEF ReleaseTokens, TypeOK
    <3> QED BY <1>2, <3>1 DEF Holding
  <2> QED BY <2>1, <2>2, <2>3
<1>6. \A q \in Requests : /\ Holding(q)' <=> Holding(q)
                          /\ Holding(q) => ver'[q] = ver[q]
                          /\ ver'[q] <= cur
                          /\ stage'[q] # "tokens" => todo[q] = <<>>
  BY <1>3, <1>4, <1>5 DEF Holding
<1> QED
  BY <1>1, <1>6, HoldersKept

\* Bundle.Acquire keeps the invariant: a bundle without a reference is not taken.
LEMMA AcquireBundle ==
    ASSUME IInv, BInv, NEW r \in Requests, Acquire(r)
    PROVE  BInv'
<1>1. /\ UNCHANGED <<cur, held, pending, owned, todo, ver>> /\ stage[r] = "loaded" /\ Referenced(ver[r])
  BY DEF Acquire, publisher
<1>2. TypeOK /\ cur \in Versions
  BY DEF IInv, TypeOK
<1>3. stage'[r] \in {"source", "mutation", "done"} /\ \A q \in Requests : q # r => stage'[q] = stage[q]
  BY <1>2 DEF Acquire, TypeOK
<1>4. ver[r] \in owned \/ \E q \in Requests : q # r /\ HeldBy(q, ver[r])
  BY <1>1 DEF Referenced, Holders, HeldBy, Holding
<1>5. ver[r] <= cur /\ ver[r] \in Versions /\ todo[r] = <<>>
  BY <1>1, <1>2 DEF BInv, RequestsOK, TypeOK
<1>6. ver[r] \in held \cup {cur}
  <2>1. CASE ver[r] \in owned
    BY SMTT(30), <1>2, <1>5, <2>1 DEF BInv, OwnedOK, Versions, None
  <2>2. CASE \E q \in Requests : q # r /\ HeldBy(q, ver[r])
    BY <2>2 DEF BInv, RequestsOK, HeldBy
  <2> QED BY <1>4, <2>1, <2>2
<1>7. \A q \in Requests : \A b : /\ HeldBy(q, b) => HeldBy(q, b)'
                                 /\ HeldBy(q, b)' => HeldBy(q, b) \/ (q = r /\ b = ver[r])
  BY <1>1, <1>3 DEF HeldBy, Holding
<1>8. OwnedOK'
  BY <1>1 DEF BInv, OwnedOK
<1>9. RequestsOK'
  BY <1>1, <1>3, <1>5, <1>6 DEF BInv, RequestsOK, Holding
<1>10. Promises'
  <2>1. \A c \in Calls : CallGood(c) => CallGood(c)'
    BY <1>1, <1>4, <1>7 DEF CallGood
  <2>2. \A t \in Threads : \A i \in 1 .. Len(todo[t]) : todo[t][i] \in Calls
    BY SMTT(30), <1>2 DEF TypeOK
  <2> QED BY <1>1, <2>1, <2>2 DEF BInv, Promises, Fresh
<1>11. Backpressure'
  <2>1. \A b : Waking(b) => Waking(b)'
    BY <1>1, <1>7 DEF Waking, OnItsWay
  <2> QED BY <1>1, <2>1 DEF BInv, Backpressure
<1> QED
  BY <1>8, <1>9, <1>10, <1>11 DEF BInv

\* Bundle.Release keeps the invariant: the last reference to go leaves the call that drains.
LEMMA ReleaseBundleBundle ==
    ASSUME IInv, BInv, NEW r \in Requests, ReleaseBundle(r)
    PROVE  BInv'
<1>1. PICK b : b = ver[r]
  OBVIOUS
<1>2. PICK s : /\ todo' = [todo EXCEPT ![r] = s]
               /\ \/ /\ s = <<Call("drained", b)>> /\ b \notin owned
                     /\ \A q \in Requests : q # r => ~HeldBy(q, b)
                  \/ s = <<>> /\ (b \in owned \/ \E q \in Requests : q # r /\ HeldBy(q, b))
  <2>1. Holders(b, r) = {} <=> \A q \in Requests : q # r => ~HeldBy(q, b)
    BY DEF Holders, HeldBy
  <2>2. CASE b \notin owned /\ Holders(b, r) = {}
    BY <1>1, <2>1, <2>2 DEF ReleaseBundle
  <2>3. CASE ~(b \notin owned /\ Holders(b, r) = {})
    BY <1>1, <2>1, <2>3 DEF ReleaseBundle
  <2> QED BY <2>2, <2>3
<1>3. /\ UNCHANGED <<cur, held, pending, owned, ver>> /\ stage[r] \in {"out", "done"}
      /\ stage' = [stage EXCEPT ![r] = "tokens"]
  BY DEF ReleaseBundle, publisher
<1>4. TypeOK /\ cur \in Versions /\ b \in Versions /\ r \in Threads /\ r # Installer
  BY <1>1, InstallerApart DEF IInv, TypeOK, Threads
<1>5. b <= cur /\ todo[r] = <<>> /\ (b \notin owned => b < cur)
  BY SMTT(30), <1>1, <1>3, <1>4 DEF BInv, RequestsOK, OwnedOK, Versions
<1>6. todo'[r] = s /\ \A t \in Threads : t # r => todo'[t] = todo[t]
  BY <1>2, <1>4 DEF TypeOK
<1>7. /\ stage'[r] = "tokens" /\ \A q \in Requests : q # r => stage'[q] = stage[q]
  BY <1>3, <1>4 DEF TypeOK
<1>8. \A q \in Requests : \A x : HeldBy(q, x)' <=> HeldBy(q, x) /\ q # r
  BY <1>3, <1>7 DEF HeldBy, Holding
<1>9. OwnedOK'
  BY <1>3 DEF BInv, OwnedOK
<1>10. RequestsOK'
  BY <1>3, <1>6, <1>7 DEF BInv, RequestsOK, Holding, Threads
<1>11. Promises'
  <2>1. ASSUME NEW t \in Threads, t # r, NEW i \in 1 .. Len(todo'[t])
        PROVE  /\ CallGood(todo[t][i])'
               /\ todo'[t][i].op = "publish" => t = Installer /\ i = 1 /\ Fresh(todo[t][i].v)'
    BY SMTT(60), <1>3, <1>6, <1>8, <2>1 DEF BInv, Promises, CallGood, Fresh
  <2>2. ASSUME NEW i \in 1 .. Len(s)
        PROVE  CallGood(s[i])' /\ s[i].op # "publish"
    <3>1. s[i] = Call("drained", b) /\ b \notin owned /\ \A q \in Requests : q # r => ~HeldBy(q, b)
      BY SMT, <1>2, <2>2
    <3> QED BY SMTT(30), <1>3, <1>5, <1>8, <3>1 DEF CallGood, Call
  <2> QED BY <1>6, <2>1, <2>2 DEF Promises
<1>12. Backpressure'
  <2>1. \A c : OnItsWay(c) => OnItsWay(c)'
    <3> SUFFICES ASSUME NEW c, NEW t \in Threads, NEW i \in 1 .. Len(todo[t]), todo[t][i] = c
                 PROVE  OnItsWay(c)'
      BY DEF OnItsWay
    <3>1. t # r  BY SMTT(30), <1>5
    <3> QED BY <1>6, <3>1 DEF OnItsWay
  <2>2. \A x : x # b /\ Waking(x) => Waking(x)'
    BY <1>1, <1>3, <1>8, <2>1 DEF Waking, HeldBy
  <2>3. b \in held => Waking(b)'
    <3>1. CASE s = <<Call("drained", b)>>
      <4>1. 1 \in 1 .. Len(s) /\ s[1] = Call("drained", b)  BY SMT, <3>1
      <4> QED BY SMTT(30), <1>2, <1>3, <1>4, <1>6, <4>1 DEF Waking, OnItsWay
    <3>3. CASE s = <<>> /\ b \in owned /\ b \in held
      BY <1>3, <2>1, <3>3 DEF BInv, Backpressure, Waking
    <3>4. CASE s = <<>> /\ b \notin owned
      BY <1>2, <1>3, <1>8, <3>4 DEF Waking
    <3> QED BY <1>2, <3>1, <3>3, <3>4
  <2> QED BY <1>3, <2>2, <2>3 DEF BInv, Backpressure
<1> QED
  BY <1>9, <1>10, <1>11, <1>12 DEF BInv

-----------------------------------------------------------------------------
(* The theorems. *)

\* A publisher that has just started satisfies the invariant.
LEMMA InitBundle == Init => BInv
<1> SUFFICES ASSUME Init PROVE BInv
  OBVIOUS
<1>1. OwnedOK
  BY DEF Init, OwnedOK
<1>2. \A t \in Threads : todo[t] = <<>>
  BY DEF Init
<1>3. RequestsOK
  BY SMTT(30), <1>2 DEF Init, RequestsOK, Holding, Threads
<1>4. Promises
  BY SMT, <1>2 DEF Promises
<1>5. Backpressure
  <2>1. Cardinality({}) = 0  BY FS_EmptySet
  <2> QED BY SMT, <2>1, LimitPositive DEF Init, Backpressure
<1> QED
  BY <1>1, <1>3, <1>4, <1>5 DEF BInv

\* Every step of the proxy keeps the publisher's invariant.
LEMMA NextBundle == IInv /\ BInv /\ [Next]_vars => BInv'
<1> SUFFICES ASSUME IInv, BInv, [Next]_vars PROVE BInv'
  OBVIOUS
<1>1. CASE Install
  BY <1>1, InstallBundle
<1>2. ASSUME NEW t \in Threads, Thread(t) PROVE BInv'
  BY <1>2, PublishKeeps, ReleaseKeeps, DrainedKeeps, KeeperKeeps DEF Thread
<1>3. ASSUME NEW r \in Requests, Load(r) \/ Handler(r) PROVE BInv'
  BY <1>3, RequestBundle, AcquireBundle, ReleaseBundleBundle DEF Handler
<1>4. ASSUME UNCHANGED <<cur, held, pending, owned, todo, stage, ver>> PROVE BInv'
  <2>1. \A r \in Requests : /\ Holding(r)' <=> Holding(r)
                            /\ Holding(r) => ver'[r] = ver[r]
                            /\ ver'[r] <= cur
                            /\ stage'[r] # "tokens" => todo[r] = <<>>
    BY <1>4 DEF BInv, RequestsOK, Holding
  <2> QED BY <1>4, <2>1, HoldersKept
<1>5. CASE Persist \/ \E k \in Kinds : Ack(k)
  BY <1>4, <1>5 DEF Persist, Ack, publisher, requests
<1>6. CASE UNCHANGED vars
  BY <1>4, <1>6 DEF vars
<1> QED
  BY <1>1, <1>2, <1>3, <1>5, <1>6 DEF Next

\* The publisher's invariant holds of every behaviour of the proxy.
THEOREM BundleInvariant == Spec => []BInv
  BY Invariance, InitBundle, NextBundle, PTL DEF Spec

\* A bundle that a request holds is never drained under it (Bundle.Release, Publisher.drained): it is
\* current or retired, and no goroutine is about to drain it, however many requests there are.
THEOREM BundlesStayOpen == Spec => []HeldBundleOpen
<1>1. BInv => HeldBundleOpen
  <2> SUFFICES ASSUME BInv, NEW r \in Requests, Holding(r)
               PROVE  /\ ver[r] \in held \cup {cur}
                      /\ \A t \in Threads : \A i \in 1 .. Len(todo[t]) : todo[t][i] # Call("drained", ver[r])
    BY DEF HeldBundleOpen
  <2>1. ver[r] \in held \cup {cur}
    BY DEF BInv, RequestsOK
  <2>2. ASSUME NEW t \in Threads, NEW i \in 1 .. Len(todo[t]), todo[t][i] = Call("drained", ver[r])
        PROVE  FALSE
    <3>1. CallGood(Call("drained", ver[r]))
      BY <2>2 DEF BInv, Promises
    <3> QED BY <3>1 DEF CallGood, Call, HeldBy
  <2> QED BY <2>1, <2>2
<1> QED
  BY <1>1, BundleInvariant, PTL

\* The bound on retired bundles is never passed, an install waits only while it is reached, and each
\* retired bundle that fills it will still be drained: publishing never stalls for want of a wakeup.
THEOREM WakeupsKept == Spec => []NoLostWakeup
<1>1. BInv => NoLostWakeup
  BY DEF BInv, OwnedOK, Backpressure, Waking, HeldBy, NoLostWakeup
<1> QED
  BY <1>1, BundleInvariant, PTL

\* The version new requests route by never goes back, whichever goroutine publishes.
THEOREM VersionsForward == Spec => NeverGoesBack
<1>1. IInv /\ BInv /\ [Next]_vars => [cur' >= cur]_vars
  <2> SUFFICES ASSUME IInv, BInv, Next PROVE cur' >= cur
    OBVIOUS
  <2>0. cur \in Versions /\ pending \in Versions \cup {None} /\ cur \in Int
    BY SMTT(30) DEF IInv, TypeOK, Versions
  <2>1. ASSUME NEW t \in Threads, PublishStep(t) PROVE cur' >= cur
    <3>1. todo[t] # <<>> /\ UNCHANGED requests /\ Next1(t).op = "publish"
      BY <2>1 DEF PublishStep
    <3>2. Next1(t).v > cur /\ Next1(t).v \in Versions
      BY <3>1, StepFrame DEF Fresh
    <3>3. cur' = cur \/ cur' = Next1(t).v
      BY <2>1 DEF PublishStep, Publish, SwapLocked
    <3> QED BY SMTT(30), <2>0, <3>2, <3>3 DEF Versions
  <2>2. ASSUME NEW t \in Threads, DrainedStep(t) PROVE cur' >= cur
    <3>1. cur' = cur \/ (pending # None /\ cur' = pending)
      BY <2>2 DEF DrainedStep, Drained, SwapLocked
    <3> QED BY SMTT(30), <2>0, <3>1 DEF BInv, OwnedOK, Versions
  <2>3. ASSUME cur' = cur PROVE cur' >= cur
    BY SMTT(30), <2>0, <2>3
  <2>4. ASSUME NEW t \in Threads, ReleaseStep(t) \/ Served(t) \/ Installed(t) PROVE cur' = cur
    BY <2>4 DEF ReleaseStep, ReleaseOwned, Served, Installed, publisher
  <2>5. ASSUME NEW r \in Requests, Load(r) \/ Handler(r) PROVE cur' = cur
    BY <2>5 DEF Load, Handler, Acquire, Reload, EnterMutations, EnterSource, ReleaseBundle, ReleaseTokens, publisher
  <2>6. CASE Install \/ Persist \/ \E k \in Kinds : Ack(k)
    BY <2>3, <2>6 DEF Install, Persist, Ack, publisher
  <2> QED BY <2>1, <2>2, <2>3, <2>4, <2>5, <2>6 DEF Next, Thread
<1> QED
  BY <1>1, Invariance, BundleInvariant, PTL DEF Spec, NeverGoesBack
=============================================================================
