--------------------------- MODULE RuntimeBundles ---------------------------
(***************************************************************************)
(* What a proxy serves with: the directory snapshot, the client keys and   *)
(* the cluster set, published as one bundle, and the transports under the  *)
(* cluster sets, whose connections are closed when the last set that uses  *)
(* them is let go.                                                         *)
(*                                                                         *)
(*   internal/upstream/registry.go, cluster.go     Registry, Set, pool     *)
(*   internal/runtimecfg/runtimecfg.go             Publisher, Bundle       *)
(*   internal/directory/file.go, internal/member/member.go    install      *)
(*   cmd/shunt/serve.go                            OnInstall, OnChange     *)
(*                                                                         *)
(* One cluster.  A set is the version it was built for, the transport the  *)
(* cluster has in it and its count.  What a thread still has to do after   *)
(* it let go of a lock is its todo; ProxyGates models the same publisher   *)
(* with its admission gates.                                               *)
(***************************************************************************)
EXTENDS Integers, Sequences, FiniteSets

CONSTANTS
    Requests,               \* requests in flight
    MaxHeld,                \* MaxRetired
    MaxInstalls, MaxKeys,   \* bounds
    RuntimeFaults           \* "stalekeys", "mixed"

VARIABLES
    lab,        \* a lab proxy, with a key file of its own, or a member
    snap,       \* the directory version installed
    keys,       \* the key table
    sets, reg,  \* the sets committed, the one the registry holds
    pools,      \* per transport: how many sets count on it
    bundles,    \* the bundles published or parked
    current, parked, held,  \* the publisher
    thread      \* the installer, the key store, the requests

runtimeVars == <<lab, snap, keys, sets, reg, pools, bundles, current, parked, held, thread>>

Threads == {"install", "keys"} \cup Requests
Idle == [pc |-> "idle", version |-> 0, pool |-> 0, bundle |-> 0,
         refresh |-> [snap |-> 0, keys |-> 0, set |-> 0], todo |-> <<>>]
NoPool == 0
NoBundle == 0

(* retainPools, and the transport's share of Set.Release.                  *)
RetainPool(p) == [q \in DOMAIN pools |-> IF q = p THEN pools[q] + 1 ELSE pools[q]]
ReleasePool(p) == [q \in DOMAIN pools |-> IF q = p THEN pools[q] - 1 ELSE pools[q]]

Moves(t, pc, todo) == thread' = [thread EXCEPT ![t].pc = pc, ![t].todo = todo]

-----------------------------------------------------------------------------
(* An install.  PrepareWith takes the live set's transport for a cluster   *)
(* whose definition did not change, its secret may have; it builds another *)
(* one otherwise.  Nothing is counted yet.                                 *)
PrepareWith(share) ==
    LET old == sets[reg].pool
    IN  /\ thread["install"].pc = "idle" /\ snap < MaxInstalls
        /\ share => old # NoPool
        /\ thread' = [thread EXCEPT !["install"].pc = "prepared", !["install"].version = snap + 1,
                        !["install"].pool = IF share THEN old ELSE Len(pools) + 1]
        /\ UNCHANGED <<lab, snap, keys, sets, reg, pools, bundles, current, parked, held>>

(* The candidate has the cluster no more.                                  *)
PrepareWithout ==
    /\ thread["install"].pc = "idle" /\ snap < MaxInstalls
    /\ thread' = [thread EXCEPT !["install"].pc = "prepared", !["install"].version = snap + 1,
                                !["install"].pool = NoPool]
    /\ UNCHANGED <<lab, snap, keys, sets, reg, pools, bundles, current, parked, held>>

(* A candidate that is never committed is dropped: the write failed.       *)
Dropped ==
    /\ thread["install"].pc = "prepared"
    /\ thread' = [thread EXCEPT !["install"] = Idle]
    /\ UNCHANGED <<lab, snap, keys, sets, reg, pools, bundles, current, parked, held>>

Commit ==
    LET i == thread["install"]
    IN  /\ i.pc = "prepared"
        /\ sets' = Append(sets, [version |-> i.version, pool |-> i.pool, refs |-> 1])
        /\ reg' = Len(sets) + 1
        /\ pools' = IF i.pool = Len(pools) + 1 THEN Append(pools, 1) ELSE RetainPool(i.pool)
        /\ Moves("install", "committed", <<<<"set", reg>>>>)
        /\ UNCHANGED <<lab, snap, keys, bundles, current, parked, held>>

(* FileDir.install, Client.install: the snapshot, and a member's keys with *)
(* it.                                                                     *)
Install ==
    LET i == thread["install"]
    IN  /\ i.pc = "committed" /\ i.todo = <<>>
        /\ snap' = i.version
        /\ keys' = IF lab THEN keys ELSE i.version
        /\ Moves("install", "installed", <<>>)
        /\ UNCHANGED <<lab, sets, reg, pools, bundles, current, parked, held>>

(* Static.Add, Remove, Replace: the table is swapped, then OnChange runs.  *)
(* Without "stalekeys" no install has read the table it replaces and not   *)
(* published it yet.                                                       *)
ChangeKeys ==
    /\ lab /\ keys < MaxKeys
    /\ thread["keys"].pc = "idle"
    /\ "stalekeys" \in RuntimeFaults \/ thread["install"].pc # "publish"
    /\ keys' = keys + 1
    /\ Moves("keys", "installed", <<>>)
    /\ UNCHANGED <<lab, snap, sets, reg, pools, bundles, current, parked, held>>

(* republish reads the parts of a bundle; without "mixed" a key change     *)
(* does not between the commit of the clusters and the install.            *)
RepublishCached(t) ==
    /\ t \in {"install", "keys"} /\ thread[t].pc = "installed"
    /\ "mixed" \in RuntimeFaults \/ thread["install"].pc # "committed"
    /\ thread' = [thread EXCEPT ![t].pc = "publish", ![t].refresh = [snap |-> snap, keys |-> keys, set |-> bundles[current].set]]
    /\ UNCHANGED <<lab, snap, keys, sets, reg, pools, bundles, current, parked, held>>

Republish(t) ==
    /\ t \in {"install", "keys"} /\ thread[t].pc = "installed"
    /\ "mixed" \in RuntimeFaults \/ thread["install"].pc # "committed"
    /\ thread' = [thread EXCEPT ![t].pc = "publish", ![t].refresh = [snap |-> snap, keys |-> keys, set |-> reg]]
    /\ UNCHANGED <<lab, snap, keys, sets, reg, pools, bundles, current, parked, held>>

-----------------------------------------------------------------------------
(* The publisher.                                                          *)

Latest == IF parked = NoBundle THEN current ELSE parked

(* swapLocked of bundle b, by thread t, its todo then being todo: b is     *)
(* parked while the bound is reached.                                      *)
SwapLocked(b, t, pc, holding, todo) ==
    IF Cardinality(holding) >= MaxHeld
    THEN /\ parked' = b /\ held' = holding /\ UNCHANGED current
         /\ Moves(t, pc, todo)
    ELSE /\ current' = b /\ held' = holding \cup {current} /\ parked' = NoBundle
         /\ Moves(t, pc, todo \o <<<<"bundle", current>>>>)

RefusedEqual(r) ==
    \/ r.snap <= bundles[Latest].snap
    \/ sets[r.set].refs = 0

Refused(r) ==
    \/ r.snap < bundles[Latest].snap
    \/ sets[r.set].refs = 0

(* Publisher.Publish: the set is retained, and that of a parked bundle     *)
(* that b replaces is released.                                            *)
PublishUnretained(t) ==
    LET r == thread[t].refresh
        b == Len(bundles) + 1
    IN  /\ thread[t].pc = "publish" /\ ~Refused(r)
        /\ bundles' = Append(bundles, [snap |-> r.snap, keys |-> r.keys, set |-> r.set, refs |-> 1])
        /\ SwapLocked(b, t, "published", held, IF parked = NoBundle THEN <<>> ELSE <<<<"set", bundles[parked].set>>>>)
        /\ UNCHANGED <<lab, snap, keys, sets, reg, pools>>

PublishKeepsParked(t) ==
    LET r == thread[t].refresh
        b == Len(bundles) + 1
    IN  /\ thread[t].pc = "publish" /\ ~Refused(r)
        /\ bundles' = Append(bundles, [snap |-> r.snap, keys |-> r.keys, set |-> r.set, refs |-> 1])
        /\ sets' = [sets EXCEPT ![r.set].refs = @ + 1]
        /\ SwapLocked(b, t, "published", held, <<>>)
        /\ UNCHANGED <<lab, snap, keys, reg, pools>>

Publish(t) ==
    LET r == thread[t].refresh
        b == Len(bundles) + 1
    IN  /\ thread[t].pc = "publish" /\ ~Refused(r)
        /\ bundles' = Append(bundles, [snap |-> r.snap, keys |-> r.keys, set |-> r.set, refs |-> 1])
        /\ sets' = [sets EXCEPT ![r.set].refs = @ + 1]
        /\ SwapLocked(b, t, "published", held, IF parked = NoBundle THEN <<>> ELSE <<<<"set", bundles[parked].set>>>>)
        /\ UNCHANGED <<lab, snap, keys, reg, pools>>

PublishRefused(t) ==
    /\ thread[t].pc = "publish" /\ Refused(thread[t].refresh)
    /\ Moves(t, "published", <<>>)
    /\ UNCHANGED <<lab, snap, keys, sets, reg, pools, bundles, current, parked, held>>

Return(t) ==
    /\ thread[t].pc = "published" /\ thread[t].todo = <<>>
    /\ thread' = [thread EXCEPT ![t] = Idle]
    /\ UNCHANGED <<lab, snap, keys, sets, reg, pools, bundles, current, parked, held>>

-----------------------------------------------------------------------------
(* The next thing a thread has to do.                                      *)

Rest(t) == Tail(thread[t].todo)

(* Set.Release: with the last reference the transport is let go, and its   *)
(* idle connections are closed when no other set counts on it.             *)
ReleaseSet(t) ==
    /\ thread[t].todo # <<>> /\ Head(thread[t].todo)[1] = "set"
    /\ LET n == Head(thread[t].todo)[2]
       IN  /\ sets' = [sets EXCEPT ![n].refs = @ - 1]
           /\ pools' = IF sets[n].refs = 1 THEN ReleasePool(sets[n].pool) ELSE pools
    /\ Moves(t, thread[t].pc, Rest(t))
    /\ UNCHANGED <<lab, snap, keys, reg, bundles, current, parked, held>>

(* Bundle.Release: the last one drains it, the set first.                  *)
ReleaseBundle(t) ==
    /\ thread[t].todo # <<>> /\ Head(thread[t].todo)[1] = "bundle"
    /\ LET b == Head(thread[t].todo)[2]
       IN  /\ bundles' = [bundles EXCEPT ![b].refs = @ - 1]
           /\ Moves(t, thread[t].pc,
                    IF bundles[b].refs = 1
                    THEN <<<<"set", bundles[b].set>>, <<"drained", b>>>> \o Rest(t) ELSE Rest(t))
    /\ UNCHANGED <<lab, snap, keys, sets, reg, pools, current, parked, held>>

(* Publisher.drained, under the lock: a parked bundle is published.        *)
Drained(t) ==
    /\ thread[t].todo # <<>> /\ Head(thread[t].todo)[1] = "drained"
    /\ LET rest == held \ {Head(thread[t].todo)[2]}
       IN  IF parked = NoBundle
           THEN held' = rest /\ Moves(t, thread[t].pc, Rest(t)) /\ UNCHANGED <<current, parked>>
           ELSE SwapLocked(parked, t, thread[t].pc, rest, Rest(t))
    /\ UNCHANGED <<lab, snap, keys, sets, reg, pools, bundles>>

(* Publisher.Acquire: the load, and the compare-and-swap, which fails on a *)
(* bundle whose count reached zero.                                        *)
AcquireLoad(r) ==
    /\ thread[r].pc = "idle" /\ thread[r].todo = <<>>
    /\ thread' = [thread EXCEPT ![r].pc = "loaded", ![r].bundle = current]
    /\ UNCHANGED <<lab, snap, keys, sets, reg, pools, bundles, current, parked, held>>

AcquireSwap(r) ==
    /\ thread[r].pc = "loaded"
    /\ LET b == thread[r].bundle
       IN  IF bundles[b].refs > 0
           THEN /\ bundles' = [bundles EXCEPT ![b].refs = @ + 1]
                /\ thread' = [thread EXCEPT ![r].pc = "serving"]
           ELSE /\ thread' = [thread EXCEPT ![r] = Idle]
                /\ UNCHANGED bundles
    /\ UNCHANGED <<lab, snap, keys, sets, reg, pools, current, parked, held>>

EndRequest(r) ==
    /\ thread[r].pc = "serving"
    /\ thread' = [thread EXCEPT ![r] = [Idle EXCEPT !.todo = <<<<"bundle", thread[r].bundle>>>>]]
    /\ UNCHANGED <<lab, snap, keys, sets, reg, pools, bundles, current, parked, held>>

-----------------------------------------------------------------------------
RuntimeInit ==
    /\ lab \in BOOLEAN
    /\ snap = 1 /\ keys = 1
    /\ sets = <<[version |-> 1, pool |-> 1, refs |-> 2]>> /\ reg = 1
    /\ pools = <<1>>
    /\ bundles = <<[snap |-> 1, keys |-> 1, set |-> 1, refs |-> 1]>>
    /\ current = 1 /\ parked = NoBundle /\ held = {}
    /\ thread = [t \in Threads |-> Idle]

RuntimeNext ==
    \/ \E share \in BOOLEAN : PrepareWith(share)
    \/ PrepareWithout \/ Dropped \/ Commit \/ Install \/ ChangeKeys
    \/ \E t \in {"install", "keys"} : Republish(t) \/ Publish(t) \/ PublishRefused(t) \/ Return(t)
    \/ \E t \in Threads : ReleaseSet(t) \/ ReleaseBundle(t) \/ Drained(t)
    \/ \E r \in Requests : AcquireLoad(r) \/ AcquireSwap(r) \/ EndRequest(r)

RuntimeSpec == RuntimeInit /\ [][RuntimeNext]_runtimeVars

-----------------------------------------------------------------------------
(* The bundles that may still be used: current, parked, or held.           *)
InUse == ({current, parked} \ {NoBundle}) \cup {thread[r].bundle : r \in {q \in Requests : thread[q].pc = "serving"}}

(* A transport that may still carry a request is counted: the registry's   *)
(* set and the set of every bundle that is current, waits to be or serves  *)
(* a request have their references, and so has their transport, whatever   *)
(* order the installs, the requests' ends and the key changes come in.     *)
TransportsHeld ==
    \A n \in {reg} \cup {bundles[b].set : b \in InUse} :
        sets[n].refs > 0 /\ (sets[n].pool # NoPool => pools[sets[n].pool] > 0)

(* A bundle pairs the routes of a version with that version's signers      *)
(* (runtimecfg.go: "an install that lands mid-request can never pair one   *)
(* version's routes with another version's keys or signers"), for a member *)
(* its client keys as well.                                                *)
BundleWhole ==
    \A b \in InUse : /\ sets[bundles[b].set].version = bundles[b].snap
                     /\ lab \/ bundles[b].keys = bundles[b].snap

AtRest == \A t \in Threads : thread[t].todo = <<>> /\ thread[t].pc \in {"idle", "serving"}

(* At rest the newest bundle is made of the installed snapshot, the key    *)
(* table and the registry's set (serve.go: "The runtime bundle follows the *)
(* directory, the key file and the registry"): no install or key change    *)
(* was overtaken by an older one.                                          *)
BundleFollows ==
    AtRest => /\ bundles[Latest].snap = snap /\ bundles[Latest].keys = keys
              /\ bundles[Latest].set = reg

(* At rest only the transports of sets in use are still counted: a parked  *)
(* bundle that was replaced, a set that was swapped out and a bundle whose *)
(* last request ended let go of theirs, exactly once.                      *)
NothingLeaks ==
    AtRest => \A p \in DOMAIN pools : pools[p] > 0 =>
                p \in {sets[n].pool : n \in {reg} \cup {bundles[b].set : b \in InUse}}

(* A request is served from one bundle, whole, current when it was taken, and its transports last as
   long as the request and no longer. *)
BundlesSound == TransportsHeld /\ BundleWhole /\ BundleFollows /\ NothingLeaks

=============================================================================
