-------------------------- MODULE DirectoryStore --------------------------
(***************************************************************************)
(* The directory in etcd (internal/cp/store.go): every control node keeps  *)
(* a copy in memory that a watch moves forward, and writes with one        *)
(* transaction compared-and-swapped on the version its copy has.           *)
(*                                                                         *)
(* etcd is external: a linearizable store whose content is Newest.  A      *)
(* transaction that returns an error may have committed, may commit later, *)
(* or may never commit.  A watch delivers the transactions in order, one   *)
(* or several at a time, until it is cut.                                  *)
(***************************************************************************)
EXTENDS DirectoryContent

CONSTANTS
    StoreChanges, \* the kinds of change asked of the nodes
    MaxTries,     \* attempts of one mutate (8 in the code)
    MaxRestarts,  \* bound on the crashes of control nodes
    Unreadable    \* TRUE: a watch event may fail to apply on a node

VARIABLES
    wrote,     \* per version: the etcd keys its transaction wrote
    inst,      \* per node: the state in memory (cur)
    rev,       \* per node: the version up to which its watch has delivered
    up,        \* per node: "down", "starting" (loaded, not Ready) or "ready"
    w,         \* per node: the mutate under way
    late,      \* per node: a transaction whose outcome the node never learned
    restarts   \* crashes so far

StoreAsks == Asks(StoreChanges)

storeVars == <<wrote, inst, rev, up, w, late, restarts>>

\* pc: "idle", "txn", "applied" (committed, waiting for the watch), "behind" (lost the race)
Quiet == [pc |-> "idle", base |-> 0, next |-> Empty, keys |-> {}, tries |-> 0, buckets |-> {}]
NoTxn == [base |-> 0, next |-> Empty, keys |-> {}]

StoreInit ==
    /\ wrote = <<{}>>
    /\ inst = [n \in Nodes |-> Empty]
    /\ rev = [n \in Nodes |-> 0]
    /\ up = [n \in Nodes |-> "down"]
    /\ w = [n \in Nodes |-> Quiet]
    /\ late = [n \in Nodes |-> NoTxn]
    /\ restarts = 0

---------------------------------------------------------------------------
(* Records: one etcd key per record; the cluster's record holds its definition and its sealed
   secret. *)

\* The key of a resource's generation.
GenKey == [cluster |-> "generations/cluster", secret |-> "generations/secret",
           placement |-> "generations/placement"]

\* diff: the keys whose record differs between two states.
Diff(cur, next) ==
    {k \in {"cluster"} : next.def # cur.def \/ next.secret # cur.secret}
    \cup {k \in {"placement"} : next.placement # cur.placement}
    \cup {k \in {"key"} : next.key # cur.key}
    \cup {k \in {"identity"} : next.identity # cur.identity}
    \cup {GenKey[r] : r \in {r \in Resources : next.gen[r] # cur.gen[r]}}

\* The content of etcd after a transaction that writes next's records under keys.
Put(c, next, keys) ==
    [c EXCEPT !.version = next.version,
              !.def       = IF "cluster" \in keys THEN next.def ELSE @,
              !.secret    = IF "cluster" \in keys THEN next.secret ELSE @,
              !.placement = IF "placement" \in keys THEN next.placement ELSE @,
              !.key       = IF "key" \in keys THEN next.key ELSE @,
              !.identity  = IF "identity" \in keys THEN next.identity ELSE @,
              !.gen       = [r \in Resources |-> IF GenKey[r] \in keys THEN next.gen[r] ELSE @[r]]]

\* The watch does not follow the client keys.
ApplyNoCredentials(st, c, keys) == [Put(st, c, keys) EXCEPT !.key = st.key]

\* apply, for each event of a transaction: as Put, but a cluster record without a sealed secret
\* leaves the secret in memory as it is.
Apply(st, c, keys) ==
    [Put(st, c, keys) EXCEPT
        !.secret = IF "cluster" \in keys /\ c.def # None /\ c.secret = None THEN st.secret ELSE @]

RECURSIVE ApplyUpTo(_, _, _)
\* The events of the versions v+1..last, applied in order to st.
ApplyUpTo(st, v, last) ==
    IF v = last THEN st
    ELSE ApplyUpTo(Apply(st, At(v + 1), wrote[v + 2 - log[1].version]), v + 1, last)

---------------------------------------------------------------------------
(* mutate's attempts *)

\* n's answer ends the mutate; an upgrade that failed ends the start.
Ended(n, answer) ==
    /\ w' = [w EXCEPT ![n] = Quiet]
    /\ up' = [up EXCEPT ![n] = IF @ = "starting" THEN IF answer \in {"ok", "unchanged"} THEN "ready" ELSE "down" ELSE @]

\* fn refuses the change on this state, or the candidate does not validate.
Bad(cur, a, n) == Refused(cur, a) \/ ~Validate(Changed(cur, a, n))

\* One attempt: fn on a copy of the node's state, stamped and validated, and the difference as one
\* transaction.  The function Add passes keeps what it merged (c = merged), so a later attempt
\* asks for that.
Attempt(n, a, cur, tries) ==
    LET next == Changed(cur, a, n) IN
    /\ ~Bad(cur, a, n) /\ ~Unchanged(cur, a)
    /\ w' = [w EXCEPT ![n] = [pc |-> "txn", base |-> cur.version, next |-> next, keys |-> Diff(cur, next),
                              tries |-> tries, buckets |-> IF a.buckets = {} THEN {} ELSE next.key]]

---------------------------------------------------------------------------
(* A node's life *)

\* Start: load everything at one revision, install it and start the watch; a schema-1 directory is
\* upgraded by an ordinary write before the node is Ready.
Start(n) ==
    /\ up[n] = "down"
    /\ inst' = [inst EXCEPT ![n] = Newest]
    /\ rev' = [rev EXCEPT ![n] = Newest.version]
    /\ IF Newest.version = 0 \/ Newest.identity # None
         THEN up' = [up EXCEPT ![n] = "ready"] /\ UNCHANGED <<req, w>>
         ELSE /\ up' = [up EXCEPT ![n] = "starting"]
              /\ Ask(n, Upgrade)
              /\ Attempt(n, Upgrade, Newest, 0)
    /\ UNCHANGED <<log, wrote, late, restarts>>

\* The process stops; a transaction it has sent may still commit.
Crash(n) ==
    /\ up[n] # "down" /\ restarts < MaxRestarts
    /\ restarts' = restarts + 1
    /\ up' = [up EXCEPT ![n] = "down"]
    /\ inst' = [inst EXCEPT ![n] = Empty]
    /\ rev' = [rev EXCEPT ![n] = 0]
    /\ w' = [w EXCEPT ![n] = Quiet]
    /\ \/ /\ req' = Requests(n, [NoReq EXCEPT !.late = req[n].late])
          /\ UNCHANGED late
       \/ /\ w[n].pc = "txn"
          /\ AnswerOpen(n)
          /\ late' = [late EXCEPT ![n] = [base |-> w[n].base, next |-> w[n].next, keys |-> w[n].keys]]
    /\ UNCHANGED <<log, wrote>>

\* watch: the versions up to v are delivered at once and installed as one, or cannot be applied on
\* this node and are skipped.
Watch(n) ==
    /\ up[n] # "down"
    /\ \E v \in (rev[n] + 1)..Newest.version :
          /\ rev' = [rev EXCEPT ![n] = v]
          /\ LET st == ApplyUpTo(inst[n], rev[n], v) IN
                \/ Validate(st) /\ inst' = [inst EXCEPT ![n] = st]
                \/ ~Validate(st) /\ UNCHANGED inst
                \/ Unreadable /\ UNCHANGED inst
    /\ UNCHANGED <<log, req, wrote, up, w, late, restarts>>

\* The watch is cut: the node loads everything again.
Reload(n) ==
    /\ up[n] # "down" /\ rev[n] < Newest.version
    /\ inst' = [inst EXCEPT ![n] = Newest]
    /\ rev' = [rev EXCEPT ![n] = Newest.version]
    /\ UNCHANGED <<log, req, wrote, up, w, late, restarts>>

---------------------------------------------------------------------------
(* mutate.  The node's writes lock lets one request at a time in. *)

\* A request: one the node's state refuses, or already shows, is answered at once and changes
\* nothing.
Mutate(n) ==
    /\ up[n] = "ready" /\ w[n].pc = "idle" /\ Len(log) <= MaxWrites
    /\ \E a \in StoreAsks : Ask(n, a) /\ Attempt(n, a, inst[n], 0)
    /\ UNCHANGED <<log, wrote, inst, rev, up, late, restarts>>

\* A transaction without its comparison.
EffectBlind(base, next, keys) ==
    /\ log' = Append(log, [Put(Newest, next, keys) EXCEPT !.version = Newest.version + 1])
    /\ wrote' = Append(wrote, keys)

\* The transaction takes effect in etcd.
Effect(base, next, keys) ==
    /\ Newest.version = base
    /\ log' = Append(log, Put(Newest, next, keys))
    /\ wrote' = Append(wrote, keys)

\* The transaction, compared on the version the attempt read: committed, refused by the
\* comparison, or answered with an error that leaves its outcome open.
Txn(n) ==
    /\ w[n].pc = "txn"
    /\ \/ /\ Effect(w[n].base, w[n].next, w[n].keys)
          /\ req' = Requests(n, [req[n] EXCEPT !.done = TRUE])
          /\ w' = [w EXCEPT ![n].pc = "applied"]
          /\ UNCHANGED <<up, late>>
       \/ /\ Newest.version # w[n].base
          /\ w' = [w EXCEPT ![n].pc = "behind"]
          /\ UNCHANGED <<log, wrote, req, up, late>>
       \/ /\ Ended(n, "unknown") /\ Answer(n, "unknown")
          /\ UNCHANGED <<log, wrote, late>>
       \/ /\ Ended(n, "unknown") /\ AnswerOpen(n)
          /\ late' = [late EXCEPT ![n] = [base |-> w[n].base, next |-> w[n].next, keys |-> w[n].keys]]
          /\ UNCHANGED <<log, wrote>>
    /\ UNCHANGED <<inst, rev, restarts>>

\* The transaction behind an "unknown" answer reaches etcd after all, or never will.
LateTxn(n) ==
    /\ late[n] # NoTxn
    /\ \/ Effect(late[n].base, late[n].next, late[n].keys)
       \/ Newest.version # late[n].base /\ UNCHANGED <<log, wrote>>
    /\ late' = [late EXCEPT ![n] = NoTxn]
    /\ req' = Requests(n, [req[n] EXCEPT !.late = NoAsk])
    /\ UNCHANGED <<inst, rev, up, w, restarts>>

\* WaitVersion after a commit: the answer waits for the watch, or gives up.
Applied(n) ==
    /\ w[n].pc = "applied"
    /\ \E answer \in {"ok", "unknown"} :
          /\ answer = "ok" => inst[n].version >= w[n].next.version
          /\ Ended(n, answer) /\ Answer(n, answer)
    /\ UNCHANGED <<log, wrote, inst, rev, late, restarts>>

\* WaitVersion after a lost race, then the next attempt on the newer state; the wait may time out,
\* and the attempts run out.
Behind(n) ==
    LET a == [req[n].ask EXCEPT !.buckets = w[n].buckets]
        caughtUp == inst[n].version > w[n].base
        answer == IF caughtUp /\ Unchanged(inst[n], a) THEN "unchanged" ELSE "refused"
    IN  /\ w[n].pc = "behind"
        /\ \/ /\ caughtUp /\ w[n].tries + 1 < MaxTries
              /\ Attempt(n, a, inst[n], w[n].tries + 1)
              /\ UNCHANGED <<req, up>>
           \/ /\ caughtUp => Bad(inst[n], a, n) \/ Unchanged(inst[n], a) \/ w[n].tries + 1 = MaxTries
              /\ Ended(n, answer) /\ Answer(n, answer)
        /\ UNCHANGED <<log, wrote, inst, rev, late, restarts>>

StoreNext ==
    \E n \in Nodes :
        \/ Start(n) \/ Crash(n) \/ Watch(n) \/ Reload(n)
        \/ Mutate(n) \/ Txn(n) \/ LateTxn(n) \/ Applied(n) \/ Behind(n)

---------------------------------------------------------------------------
(* A control node never serves a mixture: what a node has in memory under a version number is that
   version as it was committed, every record of it, whichever nodes wrote, and however the node
   came to it (watch, reload, restart).  Members, tokens and fences compare version numbers and
   take the content for granted (store.go, watch and Export). *)
NodesExact ==
    \A n \in Nodes : up[n] # "down" => inst[n] = At(inst[n].version)
=============================================================================
