------------------------- MODULE DirectoryContent -------------------------
(***************************************************************************)
(* What one version of the directory holds, and what a change makes of it. *)
(* The etcd store (internal/cp/store.go), the file backend                 *)
(* (internal/directory/file.go) and the promise both keep (DirectoryLog)   *)
(* are written over these operators and over the two variables below.      *)
(*                                                                         *)
(* One cluster, one placement on it and one client key stand for the maps  *)
(* of the directory: records under different names do not meet, except     *)
(* through the checks between a placement and its cluster.                 *)
(***************************************************************************)
EXTENDS Integers, Sequences, FiniteSets

CONSTANTS
    Nodes,       \* who writes: control nodes, or processes on one file
    Held,        \* cluster definitions whose secret_ref is control:<name>
    Elsewhere,   \* cluster definitions that resolve their secret elsewhere (env:, file:)
    Secrets,     \* the secrets a request may carry
    Values,      \* what a placement may say
    Buckets,     \* the buckets a client key may be granted
    OldDefs,     \* the definitions a directory of a schema-1 build, with no identity, may hold
    MaxWrites    \* bound: no change is asked for once this many have come into force

None == "none"

\* The resources that carry a generation.
Resources == {"cluster", "secret", "placement"}

Empty == [version |-> 0, identity |-> None, def |-> None, secret |-> None,
          placement |-> None, key |-> {}, gen |-> [r \in Resources |-> 0]]

\* A directory written before identities existed: resources and no generation.
OldSchema == {[Empty EXCEPT !.version = 1, !.def = d, !.placement = v] : d \in OldDefs, v \in Values}

VARIABLES
    log,   \* the directory's versions, in the order they came into force
    req    \* per writer: the change asked of it, whether it is in force, the last answer, and
           \* the change answered "unknown" that may yet come into force

NoAsk == [op |-> None, from |-> None, to |-> None, def |-> None, secret |-> None, buckets |-> {}]
NoReq == [ask |-> NoAsk, done |-> FALSE, answer |-> None, late |-> NoAsk]

\* The changes a client of the control API can ask for, of the kinds given.
Asks(kinds) ==
    {a \in {[NoAsk EXCEPT !.op = "create", !.to = v] : v \in Values}
           \cup {[NoAsk EXCEPT !.op = "delete"]}
           \cup {[NoAsk EXCEPT !.op = "set", !.from = v, !.to = w] : v \in Values, w \in Values}
           \cup {[NoAsk EXCEPT !.op = "put", !.def = d, !.secret = s] : d \in Held, s \in Secrets}
           \cup {[NoAsk EXCEPT !.op = "redefine", !.def = d] : d \in Held}
           \cup {[NoAsk EXCEPT !.op = "point", !.def = d] : d \in Elsewhere}
           \cup {[NoAsk EXCEPT !.op = "remove"]}
           \cup {[NoAsk EXCEPT !.op = "grant", !.buckets = {b}] : b \in Buckets}
           \cup {[NoAsk EXCEPT !.op = "revoke"]} : a.op \in kinds}

Kinds == {"create", "delete", "set", "put", "redefine", "point", "remove", "grant", "revoke"}

Upgrade == [NoAsk EXCEPT !.op = "upgrade"]

AllAsks == Asks(Kinds) \cup {Upgrade}

\* References: the cluster is named by a placement.
Referenced(c) == c.placement # None

\* What each operation refuses of a version.
CreateRefused(c)        == c.placement # None \/ c.def = None
DeleteRefused(c)        == c.placement = None
SetStateRefused(c, a)   == c.placement # a.from
RedefineRefused(c)      == c.secret = None
RemoveClusterRefused(c) == c.def = None \/ Referenced(c)
RevokeRefused(c)        == c.key = {}

Refused(c, a) ==
    \/ a.op = "create"   /\ CreateRefused(c)
    \/ a.op = "delete"   /\ DeleteRefused(c)
    \/ a.op = "set"      /\ SetStateRefused(c, a)
    \/ a.op = "redefine" /\ RedefineRefused(c)
    \/ a.op = "remove"   /\ RemoveClusterRefused(c)
    \/ a.op = "revoke"   /\ RevokeRefused(c)

\* Merge: the buckets of a key granted again.
MergeKeys(held, granted) == held \cup granted

\* errUnchanged: a key that reaches the buckets already, an upgrade another node has made.
Unchanged(c, a) ==
    \/ a.op = "grant"   /\ c.key # {} /\ MergeKeys(c.key, a.buckets) = c.key
    \/ a.op = "upgrade" /\ c.identity # None

\* PutCluster: a secret given is stored with the cluster; a definition that names the stored one
\* keeps it; one that resolves its secret elsewhere drops it.
PutCluster(c, a) ==
    [c EXCEPT !.def = a.def,
              !.secret = CASE a.op = "put" -> a.secret [] a.op = "redefine" -> @ [] a.op = "point" -> None]

\* What the change does to the records.
Edit(c, a) ==
    CASE a.op \in {"create", "set"} -> [c EXCEPT !.placement = a.to]
      [] a.op = "delete"            -> [c EXCEPT !.placement = None]
      [] a.op \in {"put", "redefine", "point"} -> PutCluster(c, a)
      [] a.op = "remove" -> [c EXCEPT !.def = None, !.secret = None]
      [] a.op = "grant"  -> [c EXCEPT !.key = MergeKeys(@, a.buckets)]
      [] a.op = "revoke" -> [c EXCEPT !.key = {}]
      [] OTHER           -> c

\* A generation counted per resource instead of taken from the version.
StampCounting(prev, next, id) ==
    LET rotated == next.secret # prev.secret
        gen(r, gone, same) == IF gone THEN 0 ELSE IF same THEN prev.gen[r] ELSE prev.gen[r] + 1
    IN  [next EXCEPT
           !.identity = IF prev.identity = None THEN id ELSE prev.identity,
           !.gen = [r \in Resources |->
               CASE r = "cluster"   -> gen(r, next.def = None, prev.def = next.def /\ ~rotated)
                 [] r = "placement" -> gen(r, next.placement = None, prev.placement = next.placement)
                 [] r = "secret"    -> gen(r, next.secret = None, ~rotated)]]

\* Stamp: the identity, drawn by the first write and kept by every other, and the generation of
\* every resource the write created or changed, which is the version of the write.
Stamp(prev, next, id) ==
    LET rotated == next.secret # prev.secret
        gen(r, gone, same) == IF gone THEN 0 ELSE IF same THEN prev.gen[r] ELSE next.version
    IN  [next EXCEPT
           !.identity = IF prev.identity = None THEN id ELSE prev.identity,
           !.gen = [r \in Resources |->
               CASE r = "cluster"   -> gen(r, next.def = None, prev.def = next.def /\ ~rotated)
                 [] r = "placement" -> gen(r, next.placement = None, prev.placement = next.placement)
                 [] r = "secret"    -> gen(r, next.secret = None, ~rotated)]]

\* The version the change a makes of version c.
Changed(c, a, id) == Stamp(c, [Edit(c, a) EXCEPT !.version = @ + 1], id)

\* Validate: a placement is on a cluster the directory defines, and no generation is ahead.
Validate(c) ==
    /\ c.placement # None => c.def # None
    /\ \A r \in Resources : c.gen[r] <= c.version

Newest == log[Len(log)]

\* The version v of the history.
At(v) == log[v - log[1].version + 1]

Versions == log[1].version .. Newest.version

ContentInit ==
    /\ \E c \in {Empty} \cup OldSchema : log = <<c>>
    /\ req = [n \in Nodes |-> NoReq]

\* The requests with n's as given: an answer is seen when it is given, and not kept.
Requests(n, r) == [m \in Nodes |-> IF m = n THEN r ELSE [req[m] EXCEPT !.answer = None]]

\* A client asks n for a change.
Ask(n, a) ==
    /\ req[n].ask = NoAsk
    /\ req' = Requests(n, [NoReq EXCEPT !.ask = a, !.late = req[n].late])

\* n answers: "ok", "unchanged", "refused" (nothing written, nothing will be) or "unknown".
Answer(n, answer) ==
    req' = Requests(n, [NoReq EXCEPT !.answer = answer, !.late = req[n].late])

\* n answers "unknown", and the change may yet come into force.
AnswerOpen(n) ==
    /\ \A m \in Nodes : req[m].late = NoAsk
    /\ req' = Requests(n, [NoReq EXCEPT !.answer = "unknown", !.late = req[n].ask])

---------------------------------------------------------------------------
(* A generation names one content of a resource for ever: two versions of the directory that give
   a resource the same generation hold the same record under it, also when it was deleted and
   created again in between.  Dry-run tokens, operation records and mover reports compare
   generations and rely on it (identity.go, Stamp). *)
GenerationNames ==
    \A v, w \in Versions : LET a == At(v)  b == At(w) IN
        /\ a.gen["cluster"] # 0 /\ a.gen["cluster"] = b.gen["cluster"] => a.def = b.def /\ a.secret = b.secret
        /\ a.gen["secret"] # 0 /\ a.gen["secret"] = b.gen["secret"] => a.secret = b.secret
        /\ a.gen["placement"] # 0 /\ a.gen["placement"] = b.gen["placement"] => a.placement = b.placement
=============================================================================
