-------------------------- MODULE OperationRecords --------------------------
(***************************************************************************)
(* The operation records of the control plane (internal/cp/ops.go and      *)
(* internal/control: operation.go, scope.go, idempotency.go, barrier.go).  *)
(*                                                                         *)
(* A request becomes a record in etcd and reserves its scope in the same   *)
(* transaction.  The node that took it runs it, and writes every step to   *)
(* the record by compare-and-swap; another node may orphan, resume or      *)
(* cancel it once the owner's liveness key is gone.  The directory is      *)
(* reduced to the barrier a scope carries, the scope's generation and the  *)
(* set of operations whose change is in force.                             *)
(***************************************************************************)
EXTENDS Integers, FiniteSets, FiniteSetsExt

CONSTANTS
    Nodes,       \* control nodes
    Operations,  \* the requests' operation ids
    Scope,       \* the resource each operation reserves
    Clusters,    \* the cluster resources a placement operation touches
    Fenced,      \* the operations of a resumable kind: they run a drain barrier
    Key,         \* each request's Idempotency-Key
    Aged,        \* the operations whose records may outlive IdempotencyRetention
    Capacity,    \* the limit on unfinished operations
    Retention,   \* the records trim keeps
    MaxSeq,      \* bound: the sequence at which a blocked run stops writing
    MaxTerm,     \* bound: owner terms of a record
    MaxCrashes,  \* bound: crashes of control nodes
    Faults       \* what may go wrong beyond a crash: see the actions that name them

None == "none"
Resources == {Scope[o] : o \in Operations} \cup UNION {Clusters[o] : o \in Operations}
ClusterScopes == UNION {Clusters[o] : o \in Operations}
IsCluster(o) == Scope[o] \in ClusterScopes
Keys == {Key[o] : o \in Operations}

ASSUME OperationsKnown ==
    /\ Fenced \subseteq Operations /\ Aged \subseteq Operations /\ None \notin Operations
    /\ \A o \in Operations : IsCluster(o) => Clusters[o] = {}
ASSUME FaultsKnown == Faults \subseteq {"lapse", "unwritten", "early", "cancels", "cancelcrash", "commit"}

VARIABLES
    rec,       \* the stored records: absent before the create and after a trim
    resv,      \* scopePrefix: the operation that reserves each resource
    idem,      \* idemPrefix: the operation each idempotency key names
    scopeRev,  \* the revision of scopeRev: counts placement reservations
    version,   \* the directory's version: every directory write moves it
    gen,       \* each resource's generation in the directory
    bar,       \* the barrier each resource carries
    inForce,   \* operations whose change is written
    up,        \* each node's process: down, boot (API serving, records not looked at yet) or up
    alive,     \* each node's liveness key (ops-owner/<node>)
    crashes,
    creating,  \* per operation: the create request in progress
    run,       \* per node and operation: the tracker running it
    cancel,    \* per operation: the cancellation in progress
    taking,    \* per node: the resume request in progress
    seen,      \* per node: the record its Sweep read
    dropping   \* per node: the records its trim chose
store == <<rec, resv, idem, scopeRev>>
directory == <<version, gen, bar, inForce>>
nodes == <<up, alive, crashes>>
requests == <<creating, cancel, taking, seen, dropping>>
vars == <<store, directory, nodes, run, requests>>

NoRecord == [status |-> "absent", phase |-> "none", effect |-> "none", barrier |-> "none",
             node |-> None, term |-> 0, seq |-> 0]
Idle == [pc |-> "idle", term |-> 0, lost |-> FALSE, barrier |-> "none", start |-> 0]
NoCreate == [stage |-> "none", node |-> None, rev |-> 0, want |-> 0]
NoCancel == [stage |-> "none", node |-> None, gone |-> FALSE, from |-> None, term |-> 0, held |-> FALSE]
NoTake == [op |-> None, from |-> None, term |-> 0]
NoSeen == [op |-> None, rec |-> NoRecord]

Exists(o) == rec[o].status # "absent"
Terminal(r) == r.status \in {"succeeded", "failed", "cancelled"}
Unfinished(o) == Exists(o) /\ ~Terminal(rec[o])
OwnerLost(r) == r.status = "blocked"
\* A directory write to resource r.
Writes(r) == version' = version + 1 /\ gen' = [gen EXCEPT ![r] = @ + 1]

(* Scopes. *)

Conflict(o, p) == Scope[o] = Scope[p] \/ Scope[o] \in Clusters[p] \/ Scope[p] \in Clusters[o]

(* The record as its writers leave it. *)

Prunable(o) == Exists(o) /\ Terminal(rec[o]) /\ rec[o].effect # "uncertain" /\ o \in Aged
carriesOn(o, r) == o \in Fenced /\ r.barrier # "none"
beforeFirstWrite(r) == r.barrier = "none" /\ r.phase \in {"queued", "precondition"}

\* Why an unfinished operation cannot be canceled now.
notCancellable(o, r, gone) ==
    \/ o \notin Fenced
    \/ r.barrier = "none" /\ r.phase \notin {"queued", "precondition"}
    \/ r.barrier = "committed"
    \/ r.barrier = "intent" /\ ~gone
    \/ r.barrier = "held" /\ r.phase = "commit" /\ ~gone

orphan(o, r) ==
    IF carriesOn(o, r)
    THEN [r EXCEPT !.seq = @ + 1, !.status = "blocked"]
    ELSE [r EXCEPT !.seq = @ + 1, !.status = "failed", !.phase = "done",
                   !.effect = IF @ # "none" THEN @
                              ELSE IF r.status = "pending" \/ beforeFirstWrite(r) THEN "none" ELSE "uncertain"]

UpdateNoRelease(o, r) == rec' = [rec EXCEPT ![o] = r] /\ UNCHANGED <<resv, idem, scopeRev>>

\* Update: the record, and with a terminal status the release of its scope.
UpdateRecord(o, r) ==
    /\ rec' = [rec EXCEPT ![o] = r]
    /\ resv' = IF Terminal(r) /\ resv[Scope[o]] = o THEN [resv EXCEPT ![Scope[o]] = None] ELSE resv
    /\ UNCHANGED <<idem, scopeRev>>

OwnerLive(n, m) == m = n \/ alive[m]
Runs(n, o) == run[n][o].pc # "idle"
\* reap: orphan an unfinished record whose node is no longer live.
Reapable(n, o) == Unfinished(o) /\ ~OwnerLive(n, rec[o].node) /\ ~OwnerLost(rec[o])
Serving(n) == up[n] = "up" \/ (up[n] = "boot" /\ "early" \in Faults)
-----------------------------------------------------------------------------
(* Create: a request's record, its reservation and its idempotency key. *)

\* Placement reservations whose unfinished owner touches cluster operation o's cluster.
TouchingOwners(o) ==
    IF ~IsCluster(o) THEN {}
    ELSE {x \in Operations : resv[Scope[x]] = x /\ Unfinished(x) /\ Scope[o] \in Clusters[x]}

Answer(o, stage) == creating' = [creating EXCEPT ![o] = [NoCreate EXCEPT !.stage = stage]]
Refuse(o) == Answer(o, "refused")
Retry(o) == creating' = [creating EXCEPT ![o].stage = "asked"]

\* A request reaches node n: its scope is read at the generation the directory has.  A client whose
\* node stopped sends it again, with the same key and within the retention.
CreateAsk(n, o) ==
    /\ Serving(n) /\ creating[o].stage \in {"none", "done"}
    /\ creating[o].stage = "done" => up[creating[o].node] = "down" /\ o \notin Aged
    /\ creating' = [creating EXCEPT ![o] = [NoCreate EXCEPT !.stage = "asked", !.node = n, !.want = gen[Scope[o]]]]
    /\ UNCHANGED <<store, directory, nodes, run, cancel, taking, seen, dropping>>

\* One attempt's reads: the capacity, and for a cluster operation the placement reservations.
CreateRead(o) ==
    /\ creating[o].stage = "asked"
    /\ \/ /\ Cardinality({r \in Resources : resv[r] # None}) >= Capacity
          /\ Refuse(o) /\ UNCHANGED store
       \/ /\ Cardinality({r \in Resources : resv[r] # None}) < Capacity
          /\ IF TouchingOwners(o) = {}
             THEN creating' = [creating EXCEPT ![o].stage = "read", ![o].rev = IF IsCluster(o) THEN scopeRev ELSE 0] /\ UNCHANGED store
             ELSE \E x \in TouchingOwners(o) :
                    IF Reapable(creating[o].node, x)
                    THEN /\ UpdateRecord(x, orphan(x, rec[x]))
                         /\ IF Terminal(orphan(x, rec[x])) THEN UNCHANGED creating ELSE Refuse(o)
                    ELSE Refuse(o) /\ UNCHANGED store
    /\ UNCHANGED <<directory, nodes, run, cancel, taking, seen, dropping>>

ComparesNoRev(o) ==
    /\ idem[Key[o]] = None /\ resv[Scope[o]] = None /\ gen[Scope[o]] = creating[o].want
    /\ IsCluster(o) \/ \A c \in Clusters[o] : resv[c] = None

ComparesNoKey(o) ==
    /\ resv[Scope[o]] = None /\ gen[Scope[o]] = creating[o].want
    /\ IF IsCluster(o) THEN scopeRev = creating[o].rev ELSE \A c \in Clusters[o] : resv[c] = None

\* The compares of the create's transaction.
Compares(o) ==
    /\ idem[Key[o]] = None
    /\ resv[Scope[o]] = None
    /\ gen[Scope[o]] = creating[o].want
    /\ IF IsCluster(o) THEN scopeRev = creating[o].rev ELSE \A c \in Clusters[o] : resv[c] = None

CreateCommit(o) ==
    LET n == creating[o].node IN
    /\ creating[o].stage = "read" /\ Compares(o)
    /\ rec' = [rec EXCEPT ![o] = [status |-> "pending", phase |-> "queued", effect |-> "none",
                                  barrier |-> "none", node |-> n, term |-> 0, seq |-> 1]]
    /\ resv' = [resv EXCEPT ![Scope[o]] = o]
    /\ idem' = [idem EXCEPT ![Key[o]] = o]
    /\ scopeRev' = IF IsCluster(o) THEN scopeRev ELSE scopeRev + 1
    /\ run' = [run EXCEPT ![n][o] = [Idle EXCEPT !.pc = "start", !.start = version]]
    /\ creating' = [creating EXCEPT ![o] = [NoCreate EXCEPT !.stage = "done", !.node = n]]
    /\ \E d \in SUBSET {x \in Operations : Prunable(x)} :     \* trim: what it drops, by the index
        /\ Cardinality(d) = Min({Cardinality({x \in Operations : Prunable(x)}),
                                 Max({0, Cardinality({x \in Operations : Exists(x)}) + 1 - Retention})})
        /\ dropping' = [dropping EXCEPT ![n] = @ \cup d]
    /\ UNCHANGED <<directory, nodes, cancel, taking, seen>>

\* The reservation that refused the create: the scope's own, or a touched cluster's.
Holder(o) ==
    IF resv[Scope[o]] # None THEN {resv[Scope[o]]}
    ELSE IF gen[Scope[o]] # creating[o].want THEN {}
    ELSE {resv[c] : c \in Clusters[o]} \ {None}

\* The request's idempotency key names a record: replayed answers with it.
Known(o) == idem[Key[o]] # None /\ Exists(idem[Key[o]])

\* refusal and busy: the transaction failed; say why, or reap a lost holder and retry.
CreateRefused(o) ==
    /\ creating[o].stage = "read" /\ ~Compares(o)
    /\ \/ /\ Known(o)
          /\ Answer(o, "replayed") /\ UNCHANGED store
       \/ /\ ~Known(o)
          /\ \/ \E x \in Holder(o) :
                  \/ /\ ~Unfinished(x)
                     /\ resv' = [r \in Resources |-> IF resv[r] = x THEN None ELSE resv[r]]
                     /\ UNCHANGED <<rec, idem, scopeRev>>
                     /\ Retry(o)
                  \/ /\ Unfinished(x) /\ Reapable(creating[o].node, x)
                     /\ UpdateRecord(x, orphan(x, rec[x]))
                     /\ IF Terminal(orphan(x, rec[x])) THEN Retry(o) ELSE Refuse(o)
                  \/ /\ Unfinished(x) /\ ~Reapable(creating[o].node, x)
                     /\ Refuse(o) /\ UNCHANGED store
             \/ /\ Holder(o) = {} /\ UNCHANGED store
                /\ IF gen[Scope[o]] # creating[o].want THEN Refuse(o) ELSE Retry(o)
    /\ UNCHANGED <<directory, nodes, run, cancel, taking, seen, dropping>>

\* trim's deletes, in a transaction of their own after the create.
Trim(n) ==
    /\ dropping[n] # {}
    /\ rec' = [o \in Operations |-> IF o \in dropping[n] THEN NoRecord ELSE rec[o]]
    /\ idem' = [k \in Keys |-> IF \E o \in dropping[n] : Key[o] = k THEN None ELSE idem[k]]
    /\ dropping' = [dropping EXCEPT ![n] = {}]
    /\ UNCHANGED <<resv, scopeRev, directory, nodes, run, creating, cancel, taking, seen>>
-----------------------------------------------------------------------------
(* The run: a tracker writes its record by compare-and-swap. *)

\* put writes over the stored sequence while the record is unfinished and of this node and term;
\* anything else is a takeover.  A write that etcd did not take is only logged.
Owns(n, o) == Unfinished(o) /\ rec[o].node = n /\ rec[o].term = run[n][o].term
put(n, o, r, next) ==
    \/ /\ ~run[n][o].lost /\ Owns(n, o)
       /\ UpdateRecord(o, [r EXCEPT !.seq = rec[o].seq + 1])
       /\ run' = [run EXCEPT ![n][o] = next]
    \/ /\ run[n][o].lost \/ ~Owns(n, o)
       /\ run' = [run EXCEPT ![n][o] = IF next.pc = "idle" THEN Idle ELSE [next EXCEPT !.lost = TRUE]]
       /\ UNCHANGED store
    \/ /\ "unwritten" \in Faults /\ run' = [run EXCEPT ![n][o] = next]
       /\ UNCHANGED store

\* The tracker's copy of the record, as it writes it.
Mine(n, o) == [rec[o] EXCEPT !.status = "running", !.barrier = run[n][o].barrier]
At(n, o, pc) == run[n][o].pc = pc /\ up[n] # "down"
Goto(n, o, pc) == [run[n][o] EXCEPT !.pc = pc]
\* check: a run whose record another request ended or took over stops.
Stops(n, o) == run' = [run EXCEPT ![n][o] = Idle] /\ UNCHANGED store
Quiet == UNCHANGED <<nodes, requests>>

\* A barrier operation waits in its precondition; a recorded route stays in the phase it was made in.
running(n, o) ==
    /\ At(n, o, "start")
    /\ IF o \in Fenced
       THEN put(n, o, [Mine(n, o) EXCEPT !.phase = "precondition"], Goto(n, o, "precondition"))
       ELSE put(n, o, Mine(n, o), Goto(n, o, "handler"))
    /\ Quiet /\ UNCHANGED directory

\* A short operation's handler: its directory write, or an error before it.
Handler(n, o) ==
    /\ At(n, o, "handler")
    /\ \/ /\ Writes(Scope[o]) /\ inForce' = inForce \cup {o}
          /\ run' = [run EXCEPT ![n][o] = Goto(n, o, "succeed")]
       \/ run' = [run EXCEPT ![n][o] = Goto(n, o, "fail")] /\ UNCHANGED <<version, gen, inForce>>
    /\ Quiet /\ UNCHANGED <<store, bar>>

IntentUnwritten(n, o) ==
    /\ At(n, o, "precondition") /\ run' = [run EXCEPT ![n][o] = [Goto(n, o, "hold") EXCEPT !.barrier = "intent"]]
    /\ Quiet /\ UNCHANGED <<store, directory>>

\* The barrier's intent and the hold's phase are on the record before the hold is written.
Intent(n, o) ==
    /\ At(n, o, "precondition")
    /\ put(n, o, [Mine(n, o) EXCEPT !.barrier = "intent", !.phase = "hold"],
           [Goto(n, o, "hold") EXCEPT !.barrier = "intent"])
    /\ Quiet /\ UNCHANGED directory

Hold(n, o) ==
    /\ At(n, o, "hold")
    /\ \/ run[n][o].lost /\ Stops(n, o) /\ UNCHANGED directory
       \/ /\ ~run[n][o].lost /\ bar[Scope[o]] \in {None, o} /\ o \notin inForce
          /\ bar' = [bar EXCEPT ![Scope[o]] = o]
          /\ IF bar[Scope[o]] = o THEN UNCHANGED <<version, gen>> ELSE Writes(Scope[o])
          /\ run' = [run EXCEPT ![n][o] = [Goto(n, o, "held") EXCEPT !.barrier = "held"]]
          /\ UNCHANGED <<store, inForce>>
       \/ /\ ~run[n][o].lost /\ (bar[Scope[o]] \notin {None, o} \/ o \in inForce)
          /\ run' = [run EXCEPT ![n][o] = Goto(n, o, "fail")]
          /\ UNCHANGED <<store, directory>>
    /\ Quiet

Held(n, o) ==
    /\ At(n, o, "held")
    /\ put(n, o, Mine(n, o), Goto(n, o, "carried"))
    /\ Quiet /\ UNCHANGED directory

\* Only a scope that still carries the barrier is drained.
Carried(n, o) ==
    /\ At(n, o, "carried")
    /\ IF bar[Scope[o]] = o
       THEN put(n, o, [Mine(n, o) EXCEPT !.phase = "drain"], Goto(n, o, "drain"))
       ELSE put(n, o, [Mine(n, o) EXCEPT !.phase = "commit"], Goto(n, o, "commit"))
    /\ Quiet /\ UNCHANGED directory

\* blockUntil: a look that finds the same blockers writes nothing, and reads no record either.
Blocked(n, o) ==
    /\ At(n, o, "drain")
    /\ \/ run[n][o].lost /\ Stops(n, o)
       \/ ~run[n][o].lost /\ UNCHANGED <<run, store>>
       \/ ~run[n][o].lost /\ Exists(o) /\ rec[o].seq < MaxSeq /\ put(n, o, Mine(n, o), run[n][o])
    /\ Quiet /\ UNCHANGED directory

Drained(n, o) ==
    /\ At(n, o, "drain") /\ bar[Scope[o]] = o
    /\ \/ run[n][o].lost /\ Stops(n, o)
       \/ ~run[n][o].lost /\ put(n, o, [Mine(n, o) EXCEPT !.phase = "commit"], Goto(n, o, "commit"))
    /\ Quiet /\ UNCHANGED directory

\* The commit: the change and the barrier's end in one directory write, or what it finds instead.
Commit(n, o) ==
    /\ At(n, o, "commit")
    /\ \/ run[n][o].lost /\ Stops(n, o) /\ UNCHANGED directory
       \/ /\ ~run[n][o].lost /\ bar[Scope[o]] = o
          /\ bar' = [bar EXCEPT ![Scope[o]] = None] /\ inForce' = inForce \cup {o}
          /\ Writes(Scope[o])
          /\ run' = [run EXCEPT ![n][o] = [Goto(n, o, "committed") EXCEPT !.barrier = "committed"]]
          /\ UNCHANGED store
       \/ /\ ~run[n][o].lost /\ bar[Scope[o]] # o /\ o \in inForce
          /\ run' = [run EXCEPT ![n][o] = [Goto(n, o, "committed") EXCEPT !.barrier = "committed"]]
          /\ UNCHANGED <<store, directory>>
       \/ /\ ~run[n][o].lost /\ bar[Scope[o]] # o /\ o \notin inForce     \* errBarrierGone
          /\ run' = [run EXCEPT ![n][o] = Goto(n, o, "canceled")]
          /\ UNCHANGED <<store, directory>>
       \/ /\ "commit" \in Faults /\ ~run[n][o].lost
          /\ run' = [run EXCEPT ![n][o] = Goto(n, o, "fail")]
          /\ UNCHANGED <<store, directory>>
    /\ Quiet

Committed(n, o) ==
    /\ At(n, o, "committed")
    /\ put(n, o, Mine(n, o), Goto(n, o, "succeed"))
    /\ Quiet /\ UNCHANGED directory

\* finish, with settleEffect: a result names a version, or the directory moved while it ran.
finish(n, o) ==
    LET end(s) == [Mine(n, o) EXCEPT !.status = s, !.phase = "done",
            !.effect = IF s = "cancelled" /\ run[n][o].barrier # "committed" THEN "none"
                       ELSE IF @ = "none" /\ (s = "succeeded" \/ version > run[n][o].start) THEN "committed" ELSE @]
    IN  /\ \/ At(n, o, "succeed") /\ put(n, o, end("succeeded"), Idle)
           \/ At(n, o, "fail") /\ put(n, o, end("failed"), Idle)
           \/ At(n, o, "canceled") /\ put(n, o, end("cancelled"), Idle)
        /\ Quiet /\ UNCHANGED directory
-----------------------------------------------------------------------------
(* Cancellation: the record ends first, then the hold is released. *)

ownerGone(n, r) == (r.node = n /\ \A o \in Operations : rec[o] = r => ~Runs(n, o)) \/ (r.node # n /\ ~alive[r.node])
SetCancel(o, stage) == cancel' = [cancel EXCEPT ![o].stage = stage]
EndCancel(o) == cancel' = [cancel EXCEPT ![o] = NoCancel]

CancelAsk(n, o) ==
    /\ Serving(n) /\ cancel[o].stage = "none" /\ Unfinished(o)
    /\ ~notCancellable(o, rec[o], ownerGone(n, rec[o]))
    /\ cancel' = [cancel EXCEPT ![o] = [NoCancel EXCEPT !.stage = "asked", !.node = n,
            !.gone = ownerGone(n, rec[o]), !.from = rec[o].node, !.term = rec[o].term]]
    /\ UNCHANGED <<store, directory, nodes, run, creating, taking, seen, dropping>>

\* The compare-and-swap that ends the record, unless it ended, moved on or was taken over.
CancelEnd(o) ==
    LET c == cancel[o] r == rec[o] IN
    /\ c.stage = "asked"
    /\ IF Unfinished(o) /\ r.node = c.from /\ r.term = c.term /\ ~notCancellable(o, r, c.gone)
       THEN /\ UpdateRecord(o, [r EXCEPT !.status = "cancelled", !.phase = "done", !.effect = "none", !.seq = @ + 1])
            /\ run' = IF Runs(c.node, o) THEN [run EXCEPT ![c.node][o].lost = TRUE] ELSE run   \* markLost
            /\ IF r.barrier = "none" THEN EndCancel(o)
               ELSE cancel' = [cancel EXCEPT ![o].stage = "ended", ![o].held = r.barrier = "held"]
       ELSE EndCancel(o) /\ UNCHANGED <<store, run>>
    /\ UNCHANGED <<directory, nodes, creating, taking, seen, dropping>>

CancelNoCorrection(o) ==
    /\ cancel[o].stage = "ended"
    /\ IF bar[Scope[o]] = o THEN SetCancel(o, "release") ELSE EndCancel(o)
    /\ UNCHANGED <<store, directory, nodes, run, creating, taking, seen, dropping>>

CancelCorrectsIntent(o) ==
    /\ cancel[o].stage = "ended"
    /\ SetCancel(o, IF bar[Scope[o]] = o THEN "release" ELSE "correct")
    /\ UNCHANGED <<store, directory, nodes, run, creating, taking, seen, dropping>>

\* carriesBarrier, read from the authoritative directory.
CancelCarried(o) ==
    /\ cancel[o].stage = "ended"
    /\ IF bar[Scope[o]] = o THEN SetCancel(o, "release")
       ELSE IF cancel[o].held THEN SetCancel(o, "correct") ELSE EndCancel(o)
    /\ UNCHANGED <<store, directory, nodes, run, creating, taking, seen, dropping>>

\* releaseHold, compared on the barrier's id.
releaseHold(o) ==
    /\ cancel[o].stage = "release"
    /\ IF bar[Scope[o]] = o
       THEN /\ bar' = [bar EXCEPT ![Scope[o]] = None] /\ Writes(Scope[o])
            /\ EndCancel(o) /\ UNCHANGED inForce
       ELSE /\ IF cancel[o].held THEN SetCancel(o, "correct") ELSE EndCancel(o)
            /\ UNCHANGED directory
    /\ UNCHANGED <<store, nodes, run, creating, taking, seen, dropping>>

correctCommitted(o) ==
    /\ cancel[o].stage = "correct"
    /\ IF Exists(o)
       THEN UpdateRecord(o, [rec[o] EXCEPT !.status = "failed", !.effect = "committed",
                                           !.barrier = "committed", !.seq = @ + 1])
       ELSE UNCHANGED store
    /\ EndCancel(o)
    /\ UNCHANGED <<directory, nodes, run, creating, taking, seen, dropping>>

\* A repeated cancellation releases a hold the canceled record still carries.
releaseCanceled(n, o) ==
    /\ Serving(n) /\ Exists(o) /\ rec[o].status = "cancelled" /\ bar[Scope[o]] = o
    /\ cancel[o].stage = "none" \/ "cancels" \in Faults
    /\ bar' = [bar EXCEPT ![Scope[o]] = None] /\ Writes(Scope[o])
    /\ UNCHANGED <<inForce, store, nodes, run, requests>>
-----------------------------------------------------------------------------
(* Owner loss: the sweep, a resume on another node, a restart. *)

SweepReadHeld(n, o) ==
    /\ up[n] # "down" /\ seen[n] = NoSeen /\ Unfinished(o) /\ rec[o].node # n /\ ~OwnerLost(rec[o])
    /\ ~OwnerLive(n, rec[o].node) /\ carriesOn(o, rec[o])
    /\ seen' = [seen EXCEPT ![n] = [op |-> o, rec |-> rec[o]]]
    /\ UNCHANGED <<store, directory, nodes, run, creating, cancel, taking, dropping>>

SweepRead(n, o) ==
    /\ up[n] # "down" /\ seen[n] = NoSeen /\ Unfinished(o) /\ rec[o].node # n /\ ~OwnerLost(rec[o])
    /\ ~OwnerLive(n, rec[o].node)
    /\ seen' = [seen EXCEPT ![n] = [op |-> o, rec |-> rec[o]]]
    /\ UNCHANGED <<store, directory, nodes, run, creating, cancel, taking, dropping>>

SweepWrite(n) ==
    LET o == seen[n].op IN
    /\ o # None
    /\ IF Exists(o) /\ rec[o].seq = seen[n].rec.seq
       THEN UpdateRecord(o, orphan(o, seen[n].rec)) ELSE UNCHANGED store
    /\ seen' = [seen EXCEPT ![n] = NoSeen]
    /\ UNCHANGED <<directory, nodes, run, creating, cancel, taking, dropping>>

TakeOverUnnamed(n, o) ==
    /\ UpdateRecord(o, [rec[o] EXCEPT !.node = None, !.term = @ + 1, !.status = "running", !.seq = @ + 1])
    /\ run' = [run EXCEPT ![n][o] = [Idle EXCEPT !.pc = "succeed", !.term = rec[o].term + 1]]

\* A new owner's term, and the run it starts: from the barrier its record shows.
TakeOver(n, o) ==
    /\ UpdateRecord(o, [rec[o] EXCEPT !.node = n, !.term = @ + 1, !.status = "running", !.seq = @ + 1])
    /\ run' = [run EXCEPT ![n][o] =
            [pc |-> CASE rec[o].barrier = "intent" -> "hold" [] rec[o].barrier = "held" -> "carried"
                      [] OTHER -> "succeed",
             term |-> rec[o].term + 1, lost |-> FALSE, barrier |-> rec[o].barrier, start |-> version]]

Resumable(n, o) == Unfinished(o) /\ carriesOn(o, rec[o]) /\ ~Runs(n, o) /\ rec[o].term < MaxTerm

ResumeLive(n, o) ==
    /\ Serving(n) /\ taking[n] = NoTake /\ Resumable(n, o)
    /\ taking' = [taking EXCEPT ![n] = [op |-> o, from |-> rec[o].node, term |-> rec[o].term]]
    /\ UNCHANGED <<store, directory, nodes, run, creating, cancel, seen, dropping>>

ResumeAsk(n, o) ==
    /\ Serving(n) /\ taking[n] = NoTake /\ Resumable(n, o)
    /\ rec[o].node = n \/ ~alive[rec[o].node]
    /\ taking' = [taking EXCEPT ![n] = [op |-> o, from |-> rec[o].node, term |-> rec[o].term]]
    /\ UNCHANGED <<store, directory, nodes, run, creating, cancel, seen, dropping>>

ResumeTake(n) ==
    LET t == taking[n] o == t.op IN
    /\ o # None
    /\ IF Unfinished(o) /\ rec[o].node = t.from /\ rec[o].term = t.term THEN TakeOver(n, o)
       ELSE UNCHANGED <<store, run>>
    /\ taking' = [taking EXCEPT ![n] = NoTake]
    /\ UNCHANGED <<directory, nodes, creating, cancel, seen, dropping>>

\* The process stops: its runs, requests and sweeps with it.
Crash(n) ==
    /\ up[n] # "down" /\ crashes < MaxCrashes
    /\ \A o \in Operations : cancel[o].node = n => cancel[o].stage = "asked" \/ "cancelcrash" \in Faults
    /\ up' = [up EXCEPT ![n] = "down"] /\ crashes' = crashes + 1
    /\ run' = [run EXCEPT ![n] = [o \in Operations |-> Idle]]
    /\ creating' = [o \in Operations |->
            IF creating[o].node = n /\ creating[o].stage \in {"asked", "read"} THEN NoCreate ELSE creating[o]]
    /\ cancel' = [o \in Operations |-> IF cancel[o].node = n THEN NoCancel ELSE cancel[o]]
    /\ taking' = [taking EXCEPT ![n] = NoTake] /\ seen' = [seen EXCEPT ![n] = NoSeen]
    /\ dropping' = [dropping EXCEPT ![n] = {}]
    /\ UNCHANGED <<store, directory, alive>>

\* The liveness lease runs out: of a stopped node, or (a fault) of one cut off; it is not granted again.
Lapse(n) ==
    /\ alive[n] /\ (up[n] = "down" \/ "lapse" \in Faults)
    /\ alive' = [alive EXCEPT ![n] = FALSE]
    /\ UNCHANGED <<store, directory, up, crashes, run, requests>>

Restart(n) ==
    /\ up[n] = "down"
    /\ up' = [up EXCEPT ![n] = "boot"] /\ alive' = [alive EXCEPT ![n] = TRUE]
    /\ UNCHANGED <<store, directory, crashes, run, requests>>

\* At its start a node looks at its own unfinished records; FailOrphans does not ask whether one runs.
Left(n) == {o \in Operations : Unfinished(o) /\ rec[o].node = n}
FailOrphans(n, o) ==
    /\ up[n] = "boot" /\ o \in Left(n) /\ ~carriesOn(o, rec[o])
    /\ UpdateRecord(o, orphan(o, rec[o]))
    /\ UNCHANGED <<directory, nodes, run, requests>>

ResumeOwn(n, o) ==
    /\ up[n] = "boot" /\ o \in Left(n) /\ Resumable(n, o)
    /\ \A x \in Left(n) : carriesOn(x, rec[x])
    /\ TakeOver(n, o)
    /\ UNCHANGED <<directory, nodes, requests>>

Started(n) ==
    /\ up[n] = "boot" /\ \A o \in Left(n) : Runs(n, o) \/ (carriesOn(o, rec[o]) /\ ~Resumable(n, o))
    /\ up' = [up EXCEPT ![n] = "up"]
    /\ UNCHANGED <<store, directory, alive, crashes, run, requests>>
-----------------------------------------------------------------------------
Init ==
    /\ rec = [o \in Operations |-> NoRecord] /\ resv = [r \in Resources |-> None]
    /\ idem = [k \in Keys |-> None] /\ scopeRev = 0
    /\ version = 0 /\ gen = [r \in Resources |-> 0] /\ bar = [r \in Resources |-> None] /\ inForce = {}
    /\ up = [n \in Nodes |-> "up"] /\ alive = [n \in Nodes |-> TRUE] /\ crashes = 0
    /\ creating = [o \in Operations |-> NoCreate]
    /\ run = [n \in Nodes |-> [o \in Operations |-> Idle]]
    /\ cancel = [o \in Operations |-> NoCancel]
    /\ taking = [n \in Nodes |-> NoTake] /\ seen = [n \in Nodes |-> NoSeen]
    /\ dropping = [n \in Nodes |-> {}]

Request(o) ==
    \/ CreateRead(o) \/ CreateCommit(o) \/ CreateRefused(o)
    \/ CancelEnd(o) \/ CancelCarried(o) \/ releaseHold(o) \/ correctCommitted(o)
Step(n, o) ==
    \/ running(n, o) \/ Handler(n, o) \/ Intent(n, o) \/ Hold(n, o) \/ Held(n, o) \/ Carried(n, o)
    \/ Blocked(n, o) \/ Drained(n, o) \/ Commit(n, o) \/ Committed(n, o) \/ finish(n, o)
Node(n) == Trim(n) \/ SweepWrite(n) \/ ResumeTake(n) \/ Crash(n) \/ Lapse(n) \/ Restart(n) \/ Started(n)
Care(n, o) == SweepRead(n, o) \/ FailOrphans(n, o) \/ ResumeOwn(n, o)
Ask(n, o) == CreateAsk(n, o) \/ CancelAsk(n, o) \/ ResumeAsk(n, o) \/ releaseCanceled(n, o)

Next ==
    \/ \E o \in Operations : Request(o)
    \/ \E n \in Nodes : Node(n)
    \/ \E n \in Nodes, o \in Operations : Step(n, o) \/ Care(n, o) \/ Ask(n, o)

\* The scheduler runs every goroutine; the sweep comes every second; a lease runs out.
Fairness ==
    /\ \A o \in Operations : WF_vars(Request(o))
    /\ \A n \in Nodes, o \in Operations : WF_vars(Step(n, o)) /\ WF_vars(Care(n, o))
    /\ \A n \in Nodes : WF_vars(SweepWrite(n)) /\ WF_vars(ResumeTake(n)) /\ WF_vars(Lapse(n) /\ up[n] = "down")

Spec == Init /\ [][Next]_vars
FairSpec == Spec /\ Fairness
-----------------------------------------------------------------------------
(* Properties. *)

Statuses == {"pending", "running", "blocked", "succeeded", "failed", "cancelled"}
Barriers == {"none", "intent", "held", "committed"}

TypeOK ==
    /\ \A o \in Operations : Exists(o) =>
        /\ rec[o].status \in Statuses /\ rec[o].barrier \in Barriers /\ rec[o].node \in Nodes
        /\ rec[o].phase \in {"queued", "precondition", "hold", "drain", "commit", "done"}
        /\ rec[o].effect \in {"none", "committed", "uncertain"}
    /\ resv \in [Resources -> Operations \cup {None}] /\ bar \in [Resources -> Operations \cup {None}]
    /\ idem \in [Keys -> Operations \cup {None}] /\ inForce \subseteq Operations
    /\ up \in [Nodes -> {"up", "boot", "down"}] /\ alive \in [Nodes -> BOOLEAN]

\* Create: however a cluster's and a placement's requests interleave on different nodes, no two
\* unfinished operations have conflicting scopes.
ScopesExclusive == \A o, p \in Operations : o # p /\ Unfinished(o) /\ Unfinished(p) => ~Conflict(o, p)

\* capacity counts reservation keys for unfinished operations: each unfinished operation holds
\* exactly its own, and no ended one leaves a key behind.
ReservationHeld ==
    /\ \A o \in Operations : Unfinished(o) => resv[Scope[o]] = o
    /\ \A r \in Resources : resv[r] # None => Unfinished(resv[r]) /\ Scope[resv[r]] = r

\* resumeOperation, ResumeOwn and FailOrphans never make an operation run on two nodes at once.
OneRunner == \A o \in Operations : \A n, m \in Nodes : Runs(n, o) /\ Runs(m, o) => n = m

\* A record that ended saying its effect is none has no change in force, except while the
\* cancellation that ended it is still to correct it: "A failed record's effect is uncertain
\* unless it had not started" (orphan), and a canceled one's routing is as it was.
EffectHonestOf(ops) ==
    \A o \in ops : Exists(o) /\ Terminal(rec[o]) /\ rec[o].effect = "none" =>
        o \notin inForce \/ cancel[o].stage \in {"ended", "release", "correct"}

\* Of the barrier operations, through owner loss, resume and cancellation.
CancelHonest == EffectHonestOf(Fenced)

\* Of every operation, the routes recorded around their handlers included.
EffectHonest == EffectHonestOf(Operations)

\* correctCommitted says a change is in force only when it is.
CorrectionTrue ==
    \A o \in Fenced : Exists(o) /\ rec[o].barrier = "committed" => o \in inForce

\* A hold in the directory always has a record that leads to its end: an unfinished one with its
\* barrier on it, or a canceled one, whose repeated cancellation releases it.
HoldOwned ==
    \A r \in Resources : bar[r] # None =>
        LET o == bar[r] IN
        Exists(o) /\ rec[o].barrier # "none" /\ (Unfinished(o) \/ rec[o].status = "cancelled")

\* An ended record changes only by a cancellation's correction, and an owner's term only grows: a
\* repeated request, a late write of a former owner or a late sweep never runs or reopens it.
EndedStays ==
    [][\A o \in Operations : Exists(o) /\ rec'[o].status # "absent" =>
        /\ rec'[o].term >= rec[o].term
        /\ Terminal(rec[o]) => rec'[o].status = rec[o].status \/ (rec[o].status = "cancelled" /\ rec'[o].status = "failed")
      ]_vars

\* Sweep and the restart's own look: a record whose owner stopped running it does not stay
\* "running" for ever while a node is up; it is resumed, marked owner_lost or ended.
LossNoticed ==
    \A o \in Operations :
        (Unfinished(o) /\ ~OwnerLost(rec[o]) /\ \A n \in Nodes : ~Runs(n, o))
        ~> (~Unfinished(o) \/ OwnerLost(rec[o]) \/ (\E n \in Nodes : Runs(n, o)) \/ \A n \in Nodes : up[n] = "down")

\* A canceled operation's run ends.
CancelStops ==
    \A o \in Operations : (Exists(o) /\ rec[o].status = "cancelled") ~> (\A n \in Nodes : ~Runs(n, o))

\* What the record of a canceled operation says of its effect is true, also when it is corrected.
CancelTrue == CancelHonest /\ CorrectionTrue

=============================================================================
