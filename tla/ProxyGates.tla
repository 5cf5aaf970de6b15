------------------------------ MODULE ProxyGates ------------------------------
(***************************************************************************)
(* One proxy's serving state, for one placement.                           *)
(*                                                                         *)
(*  - internal/member: an installed directory version (snap), its restart  *)
(*    cache (durable);                                                     *)
(*  - internal/runtimecfg: the Publisher of runtime bundles: the current   *)
(*    bundle, the retired ones requests still hold, the one pending        *)
(*    install that waits on the bound, and the reference counts;           *)
(*  - internal/proxy: the GateKeeper, which turns the barriers of the      *)
(*    installed and of the served version into closed gates, and the       *)
(*    requests, which take a bundle, then tokens, then dispatch;           *)
(*  - internal/admission: the placement's two gates.                       *)
(*                                                                         *)
(* A bundle is identified by its directory version: a member publishes one *)
(* bundle per version.  A barrier is identified by the version of its      *)
(* hold, so ids are unique and 0 says "no barrier".                        *)
(***************************************************************************)
EXTENDS Integers, Sequences, FiniteSets

CONSTANTS Requests,      \* request goroutines
          Classes,       \* the kinds of request that arrive
          BarrierKinds,  \* the kinds of barrier operations set on the placement
          Limit,         \* Publisher.limit, MaxRetired in the code
          MaxVersion,    \* bound: directory versions installed
          MaxUncertain   \* bound: outcomes never learned, per kind

ASSUME RequestsFinite == IsFiniteSet(Requests)
ASSUME ClassesKnown == Classes \subseteq {"read", "write", "delete"}
ASSUME BarrierKindsKnown == BarrierKinds \subseteq {"mutations", "source"}
ASSUME LimitPositive == Limit \in Nat \ {0}
ASSUME BoundsNat == MaxVersion \in Nat /\ MaxUncertain \in Nat

Kinds == {"mutations", "source"}
Open == 0
None == -1
Versions == 0 .. MaxVersion
Installer == "installer"
Threads == Requests \cup {Installer}
ASSUME InstallerApart == Installer \notin Requests
Closures == [Kinds -> Versions]
NoClosures == [k \in Kinds |-> Open]
Ops == {"publish", "release", "drained", "hook", "installed"}
Calls == [op : Ops, v : Versions]
Call(op, v) == [op |-> op, v |-> v]

VARIABLES
    closures,   \* closures[v]: what each barrier of directory version v closes
    snap,       \* Client.snap: the installed version
    durable,    \* Client.durable: the version the restart cache holds
    cur,        \* Publisher.cur
    held,       \* Publisher.held: replaced bundles not drained yet; retired is its size
    pending,    \* Publisher.pending, or None
    owned,      \* bundles the publisher's own reference keeps
    todo,       \* per goroutine, the calls it still has to make, in order
    installed,  \* GateKeeper.installed
    served,     \* GateKeeper.served
    closed,     \* gate.closed
    from,       \* gate.from
    inflight,   \* gate.inflight
    uncertain,  \* gate.uncertain
    stage,      \* where each request's handler is
    class,      \* what it is: it decides which tokens it takes
    ver,        \* the version of the bundle it loaded
    tok,        \* the kinds it holds a token of
    drained     \* history: the last barrier of each kind this proxy proved drained

member == <<closures, snap, durable>>
publisher == <<cur, held, pending, owned>>
gate == <<closed, from, inflight, uncertain>>
keeper == <<installed, served>>
requests == <<stage, class, ver, tok>>
vars == <<closures, snap, durable, cur, held, pending, owned, todo,
          installed, served, closed, from, inflight, uncertain,
          stage, class, ver, tok, drained>>

Stages == {"idle", "loaded", "mutation", "source", "out", "done", "tokens"}
Mutating(r) == class[r] \in {"write", "delete"}
UsesSource(r) == class[r] \in {"read", "delete"}
\* The stages in which a handler holds its bundle.
Holding(r) == stage[r] \in {"mutation", "source", "out", "done"}

Init ==
    /\ closures = [v \in Versions |-> NoClosures]
    /\ snap = 0 /\ durable = 0
    /\ cur = 0 /\ held = {} /\ pending = None /\ owned = {0}
    /\ todo = [t \in Threads |-> <<>>]
    /\ installed = 0 /\ served = 0
    /\ closed = NoClosures /\ from = 0
    /\ inflight = [k \in Kinds |-> 0] /\ uncertain = [k \in Kinds |-> 0]
    /\ stage = [r \in Requests |-> "idle"]
    /\ class = [r \in Requests |-> "read"]
    /\ ver = [r \in Requests |-> 0]
    /\ tok = [r \in Requests |-> {}]
    /\ drained = [k \in Kinds |-> 0]
-----------------------------------------------------------------------------
(* The gates.  Apply makes them match a set of closures at a version: what *)
(* is listed is closed, what is not is opened unless sticky, and a gate    *)
(* that reopens remembers the version it reopened at.                      *)

Union(i, s) == [k \in Kinds |-> IF closures[i][k] # Open THEN closures[i][k] ELSE closures[s][k]]

ApplyGates(i, s) ==
    LET listed == Union(i, s)
        sticky == s < i
        version == IF s > i THEN s ELSE i
        opens == {k \in Kinds : closed[k] # Open /\ listed[k] = Open /\ ~sticky}
    IN  /\ closed' = [k \in Kinds |-> IF listed[k] # Open \/ ~sticky THEN listed[k] ELSE closed[k]]
        /\ from' = IF opens # {} /\ version > from THEN version ELSE from
        /\ UNCHANGED <<inflight, uncertain>>

\* Mutated Admits: the version of the route is not compared.
AdmitsAnyVersion(k, v) == closed[k] = Open

Admits(k, v) == closed[k] = Open /\ v >= from
-----------------------------------------------------------------------------
(* The publisher.  SwapLocked makes b current, or parks it at the bound;   *)
(* `rest' is what the calling goroutine does next.                         *)

\* Mutated SwapLocked: the replaced bundle is left where the waiting one was.
SwapLockedParksCurrent(t, b, stillHeld, rest) ==
    IF Cardinality(stillHeld) >= Limit
    THEN /\ pending' = b
         /\ held' = stillHeld
         /\ cur' = cur
         /\ todo' = [todo EXCEPT ![t] = rest]
    ELSE /\ pending' = cur
         /\ held' = stillHeld \cup {cur}
         /\ cur' = b
         /\ todo' = [todo EXCEPT ![t] = <<Call("release", cur), Call("hook", b)>> \o rest]

SwapLocked(t, b, stillHeld, rest) ==
    IF Cardinality(stillHeld) >= Limit
    THEN /\ pending' = b
         /\ held' = stillHeld
         /\ cur' = cur
         /\ todo' = [todo EXCEPT ![t] = rest]
    ELSE /\ pending' = None
         /\ held' = stillHeld \cup {cur}
         /\ cur' = b
         /\ todo' = [todo EXCEPT ![t] = <<Call("release", cur), Call("hook", b)>> \o rest]

\* A bundle older than the newest one published or parked is refused.
Publish(t, b, rest) ==
    LET latest == IF pending # None THEN pending ELSE cur
    IN  IF b < latest
        THEN /\ todo' = [todo EXCEPT ![t] = rest]
             /\ UNCHANGED <<cur, held, pending, owned>>
        ELSE /\ owned' = (owned \ {pending}) \cup {b}
             /\ SwapLocked(t, b, held, rest)

\* Mutated Drained: the install that waits on the bound is not looked at.
DrainedForgetsPending(t, b, rest) ==
    /\ held' = held \ {b}
    /\ todo' = [todo EXCEPT ![t] = rest]
    /\ UNCHANGED <<cur, pending, owned>>

Drained(t, b, rest) ==
    /\ owned' = owned
    /\ IF pending # None
       THEN SwapLocked(t, pending, held \ {b}, rest)
       ELSE /\ held' = held \ {b}
            /\ todo' = [todo EXCEPT ![t] = rest]
            /\ UNCHANGED <<cur, pending>>

\* The holders of bundle b among the requests, r excepted.
Holders(b, r) == {q \in Requests \ {r} : Holding(q) /\ ver[q] = b}

ReleaseOwned(t, b, rest) ==
    /\ owned' = owned \ {b}
    /\ todo' = [todo EXCEPT ![t] =
                  IF Holders(b, Installer) = {} THEN <<Call("drained", b)>> \o rest ELSE rest]
    /\ UNCHANGED <<cur, held, pending>>
-----------------------------------------------------------------------------
(* An install: the snapshot is stored, the bundle published and the keeper *)
(* told, in this order, by one goroutine that holds the install lock.      *)

Install ==
    /\ todo[Installer] = <<>>
    /\ snap < MaxVersion
    /\ LET v == snap + 1 IN
       /\ snap' = v
       /\ \E c \in Closures :
            /\ \A k \in Kinds : c[k] \in {Open, closures[snap][k]} \cup (IF k \in BarrierKinds THEN {v} ELSE {})
            /\ \E k \in Kinds : c[k] = Open   \* a placement carries one barrier
            /\ closures' = [closures EXCEPT ![v] = c]
       /\ todo' = [todo EXCEPT ![Installer] =
                     <<Call("publish", v), Call("installed", v)>>]
    /\ UNCHANGED <<durable, publisher, keeper, gate, requests, drained>>

\* The next call goroutine t has to make.
Next1(t) == Head(todo[t])
Rest(t) == Tail(todo[t])

PublishStep(t) ==
    /\ todo[t] # <<>> /\ Next1(t).op = "publish"
    /\ Publish(t, Next1(t).v, Rest(t))
    /\ UNCHANGED <<member, keeper, gate, requests, drained>>

ReleaseStep(t) ==
    /\ todo[t] # <<>> /\ Next1(t).op = "release"
    /\ ReleaseOwned(t, Next1(t).v, Rest(t))
    /\ UNCHANGED <<member, keeper, gate, requests, drained>>

DrainedStep(t) ==
    /\ todo[t] # <<>> /\ Next1(t).op = "drained"
    /\ Drained(t, Next1(t).v, Rest(t))
    /\ UNCHANGED <<member, keeper, gate, requests, drained>>

\* Publisher.Published: the keeper learns the version new requests route by.
Served(t) ==
    /\ todo[t] # <<>> /\ Next1(t).op = "hook"
    /\ served' = Next1(t).v
    /\ ApplyGates(installed, Next1(t).v)
    /\ todo' = [todo EXCEPT ![t] = Rest(t)]
    /\ UNCHANGED <<member, publisher, installed, requests, drained>>

Installed(t) ==
    /\ todo[t] # <<>> /\ Next1(t).op = "installed"
    /\ installed' = Next1(t).v
    /\ ApplyGates(Next1(t).v, served)
    /\ todo' = [todo EXCEPT ![t] = Rest(t)]
    /\ UNCHANGED <<member, publisher, served, requests, drained>>

\* The restart cache is written after the install, with the install lock let
\* go.  A write that fails is tried again on a later heartbeat (retryCache), by
\* when newer versions may have been installed; the cache never goes back.
\* Which of the installed versions that are newer than the cache gets written
\* depends on what failed before, and is left open.
Persist ==
    /\ durable' \in (durable + 1) .. installed
    /\ UNCHANGED <<closures, snap, publisher, todo, keeper, gate, requests, drained>>
-----------------------------------------------------------------------------
(* A request.  Acquire is a load and then a compare-and-swap on the count, *)
(* so a bundle that was replaced in between is still taken while another   *)
(* request, or the publisher, keeps it.                                    *)

Load(r) ==
    /\ stage[r] = "idle"
    /\ \E c \in Classes : class' = [class EXCEPT ![r] = c]
    /\ ver' = [ver EXCEPT ![r] = cur]
    /\ stage' = [stage EXCEPT ![r] = "loaded"]
    /\ UNCHANGED <<member, publisher, todo, keeper, gate, tok, drained>>

Referenced(b) == b \in owned \/ Holders(b, Installer) # {}

\* Mutated Acquire: the count is raised without looking at what it was.
AcquireUnchecked(r) ==
    /\ stage[r] = "loaded"
    /\ stage' = [stage EXCEPT ![r] = IF Mutating(r) THEN "mutation" ELSE "source"]
    /\ UNCHANGED <<member, publisher, todo, keeper, gate, class, ver, tok, drained>>

Acquire(r) ==
    /\ stage[r] = "loaded"
    /\ Referenced(ver[r])
    /\ stage' = [stage EXCEPT ![r] =
         IF ~Mutating(r) THEN "source"
         ELSE IF closures[ver[r]]["mutations"] = Open THEN "mutation" ELSE "done"]
    /\ UNCHANGED <<member, publisher, todo, keeper, gate, class, ver, tok, drained>>

Reload(r) ==
    /\ stage[r] = "loaded"
    /\ ~Referenced(ver[r])
    /\ ver' = [ver EXCEPT ![r] = cur]
    /\ UNCHANGED <<member, publisher, todo, keeper, gate, stage, class, tok, drained>>

Enter(r, k) ==
    /\ tok' = [tok EXCEPT ![r] = @ \cup {k}]
    /\ inflight' = [inflight EXCEPT ![k] = @ + 1]
    /\ UNCHANGED <<closed, from, uncertain>>

\* Mutated EnterMutations: the gate counts before it looks whether it is closed.
EnterMutationsCountsFirst(r) ==
    /\ stage[r] = "mutation"
    /\ inflight' = [inflight EXCEPT !["mutations"] = @ + 1]
    /\ IF Admits("mutations", ver[r])
       THEN /\ tok' = [tok EXCEPT ![r] = @ \cup {"mutations"}]
            /\ stage' = [stage EXCEPT ![r] = IF UsesSource(r) THEN "source" ELSE "out"]
       ELSE /\ stage' = [stage EXCEPT ![r] = "done"]
            /\ UNCHANGED tok
    /\ UNCHANGED <<closed, from, uncertain>>
    /\ UNCHANGED <<member, publisher, todo, keeper, class, ver, drained>>

EnterMutations(r) ==
    /\ stage[r] = "mutation"
    /\ IF Admits("mutations", ver[r])
       THEN /\ Enter(r, "mutations")
            /\ stage' = [stage EXCEPT ![r] = IF UsesSource(r) THEN "source" ELSE "out"]
       ELSE /\ stage' = [stage EXCEPT ![r] = "done"]
            /\ UNCHANGED <<gate, tok>>
    /\ UNCHANGED <<member, publisher, todo, keeper, class, ver, drained>>

\* Mutated EnterSource: the token a superseded route gives back is not forgotten.
EnterSourceKeepsToken(r) ==
    /\ stage[r] = "source"
    /\ LET sourceClosed == closures[ver[r]]["source"] # Open \/ closed["source"] # Open
           superseded == ~sourceClosed /\ ver[r] < from
       IN  /\ stage' = [stage EXCEPT ![r] =
                          IF superseded \/ (sourceClosed /\ Mutating(r)) THEN "done" ELSE "out"]
           /\ superseded =>
                 /\ UNCHANGED tok
                 /\ inflight' = [k \in Kinds |-> inflight[k] - (IF k \in tok[r] THEN 1 ELSE 0)]
                 /\ UNCHANGED <<closed, from, uncertain>>
           /\ sourceClosed => UNCHANGED <<gate, tok>>
           /\ ~superseded /\ ~sourceClosed => Enter(r, "source")
    /\ UNCHANGED <<member, publisher, todo, keeper, class, ver, drained>>

\* The source is closed by the bundle's own barrier or at the gate: a read
\* goes on without it, a delete is refused and gives its token back at the end.
\* A route the gate has superseded gives its mutation token back at once.
EnterSource(r) ==
    /\ stage[r] = "source"
    /\ LET sourceClosed == closures[ver[r]]["source"] # Open \/ closed["source"] # Open
           superseded == ~sourceClosed /\ ver[r] < from
       IN  /\ stage' = [stage EXCEPT ![r] =
                          IF superseded \/ (sourceClosed /\ Mutating(r)) THEN "done" ELSE "out"]
           /\ superseded =>
                 /\ tok' = [tok EXCEPT ![r] = {}]
                 /\ inflight' = [k \in Kinds |-> inflight[k] - (IF k \in tok[r] THEN 1 ELSE 0)]
                 /\ UNCHANGED <<closed, from, uncertain>>
           /\ sourceClosed => UNCHANGED <<gate, tok>>
           /\ ~superseded /\ ~sourceClosed => Enter(r, "source")
    /\ UNCHANGED <<member, publisher, todo, keeper, class, ver, drained>>

\* The deferred Bundle.Release runs before the deferred releaseTokens.
ReleaseBundle(r) ==
    /\ stage[r] \in {"out", "done"}
    /\ stage' = [stage EXCEPT ![r] = "tokens"]
    /\ todo' = [todo EXCEPT ![r] =
         IF ver[r] \notin owned /\ Holders(ver[r], r) = {}
         THEN <<Call("drained", ver[r])>> ELSE <<>>]
    /\ UNCHANGED <<member, publisher, keeper, gate, class, ver, tok, drained>>

\* Whether the request went upstream: a delete refused at the source gate did not.
Dispatched(r) == class[r] = "delete" => "source" \in tok[r]

ReleaseTokens(r) ==
    /\ stage[r] = "tokens" /\ todo[r] = <<>>
    /\ stage' = [stage EXCEPT ![r] = "idle"]
    /\ class' = [class EXCEPT ![r] = "read"]
    /\ ver' = [ver EXCEPT ![r] = 0]
    /\ tok' = [tok EXCEPT ![r] = {}]
    /\ inflight' = [k \in Kinds |-> inflight[k] - (IF k \in tok[r] THEN 1 ELSE 0)]
    /\ \E lost \in SUBSET tok[r] :
         /\ \A k \in lost : Dispatched(r) /\ uncertain[k] < MaxUncertain
         /\ uncertain' = [k \in Kinds |-> uncertain[k] + (IF k \in lost THEN 1 ELSE 0)]
    /\ UNCHANGED <<member, publisher, todo, keeper, closed, from, drained>>
-----------------------------------------------------------------------------
(* A heartbeat's acknowledgement of the installed version's barrier, as    *)
(* memberBlockers accepts it on the control node.                          *)

Acked(k) ==
    /\ closures[snap][k] # Open
    /\ closed[k] = closures[snap][k]
    /\ inflight[k] = 0
    /\ uncertain[k] = 0
    /\ durable >= closures[snap][k]

Ack(k) ==
    /\ Acked(k)
    /\ drained' = [drained EXCEPT ![k] = closures[snap][k]]
    /\ UNCHANGED <<member, publisher, todo, keeper, gate, requests>>

Thread(t) ==
    \/ PublishStep(t)
    \/ ReleaseStep(t)
    \/ DrainedStep(t)
    \/ Served(t)
    \/ Installed(t)

Handler(r) ==
    \/ Acquire(r)
    \/ Reload(r)
    \/ EnterMutations(r)
    \/ EnterSource(r)
    \/ ReleaseBundle(r)
    \/ ReleaseTokens(r)

Next ==
    \/ Install
    \/ Persist
    \/ \E t \in Threads : Thread(t)
    \/ \E r \in Requests : Load(r) \/ Handler(r)
    \/ \E k \in Kinds : Ack(k)

Spec == Init /\ [][Next]_vars

\* Goroutines are scheduled, and a handler ends: metadata requests run under
\* a deadline and data requests under the idle watchdog.
Fairness ==
    /\ \A t \in Threads : WF_vars(Thread(t))
    /\ \A r \in Requests : WF_vars(Handler(r))

FairSpec == Spec /\ Fairness
-----------------------------------------------------------------------------
TypeOK ==
    /\ closures \in [Versions -> Closures]
    /\ snap \in Versions /\ durable \in Versions
    /\ cur \in Versions /\ held \subseteq Versions
    /\ pending \in Versions \cup {None} /\ owned \subseteq Versions
    /\ todo \in [Threads -> Seq(Calls)]
    /\ installed \in Versions /\ served \in Versions
    /\ closed \in Closures /\ from \in Versions
    /\ inflight \in [Kinds -> Nat] /\ uncertain \in [Kinds -> Nat]
    /\ stage \in [Requests -> Stages] /\ class \in [Requests -> Classes \cup {"read"}]
    /\ ver \in [Requests -> Versions] /\ tok \in [Requests -> SUBSET Kinds]
    /\ drained \in Closures

\* A gate's count is exactly the tokens out, whatever path gave them back: a
\* request that ended, a delete refused at the source gate, a superseded route
\* (Enter and Token.Release).  A count that drifted would block every later
\* barrier for the life of the process, or let one pass early.
CountsExact ==
    \A k \in Kinds : inflight[k] = Cardinality({r \in Requests : k \in tok[r]})

\* What a drain proof promises the control node: once this proxy's
\* acknowledgement of a barrier was accepted (closed, nothing out, no outcome
\* unknown, the hold in the restart cache), no request that routes by a
\* version from before or during that barrier holds a token of its kind again,
\* through any order of installs, publishes, late hooks and reopenings.
DrainedStaysDrained ==
    \A r \in Requests, k \in Kinds :
        k \in tok[r] /\ drained[k] # Open =>
            ver[r] > drained[k] /\ closures[ver[r]][k] # drained[k]

\* A bundle that a request holds is never drained under it: its cluster set,
\* and so its transports, stay open to the end of the handler (Bundle.Release).
HeldBundleOpen ==
    \A r \in Requests : Holding(r) =>
        /\ ver[r] \in held \cup {cur}
        /\ \A t \in Threads : \A i \in 1 .. Len(todo[t]) : todo[t][i] # Call("drained", ver[r])

\* Backpressure is never forgotten: an install waits (pending) only while the
\* bound is reached, the bound is never passed, and every retired bundle that
\* fills it will still be drained by somebody: the publisher is about to let
\* it go, a request holds it, or the call that drains it is on its way.
OnItsWay(c) == \E t \in Threads : \E i \in 1 .. Len(todo[t]) : todo[t][i] = c
NoLostWakeup ==
    /\ Cardinality(held) <= Limit
    /\ pending # None => Cardinality(held) = Limit /\ pending > cur
    /\ \A b \in held :
         \/ b \in owned /\ OnItsWay(Call("release", b))
         \/ \E r \in Requests : Holding(r) /\ ver[r] = b
         \/ OnItsWay(Call("drained", b))

\* The version new requests route by never goes back, although installs and
\* the draining of retired bundles both publish (Publish, drained).
NeverGoesBack == [][cur' >= cur]_vars

\* A parked install is published once enough requests have ended.
PendingPublished == \A v \in Versions : pending = v ~> cur >= v

\* The gate keeper's contract: once the directory is quiet, a gate is closed
\* only if the installed version or the one requests route by carries a
\* barrier for it.
GatesInStep ==
    <>[](\A k \in Kinds : closed[k] # Open =>
            closures[snap][k] # Open \/ closures[cur][k] # Open)
=============================================================================
