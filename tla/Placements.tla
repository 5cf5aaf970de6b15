----------------------------- MODULE Placements -----------------------------
(***************************************************************************)
(* A bucket's placement in the directory: where its keys are, and the      *)
(* changes the control plane makes to it (internal/directory, the handlers *)
(* of internal/control/ops.go), with the per-key routing the proxies       *)
(* derive from it (internal/migrate/route.go).                             *)
(*                                                                         *)
(* A plain placement names one bucket per cluster (primary, source,        *)
(* target, names).  A spread one names legs (backend buckets), a table of  *)
(* hash ranges saying which leg owns which keys, prefix rules with tables  *)
(* of their own, and at most one move of a range between two legs.         *)
(*                                                                         *)
(* Data.  A key is its hash and the longest of the nested prefixes it      *)
(* starts with; a prefix is its nesting depth, so key k starts with prefix *)
(* r iff r <= k.pre, and 0 is the empty prefix.  Ratios and shares count   *)
(* in halves.  A bucket's data is the set of keys it holds: every key of   *)
(* the bucket exists, so what a bucket holds is what routing and purging   *)
(* left there.                                                             *)
(***************************************************************************)
EXTENDS Integers, FiniteSets, SequencesExt

CONSTANTS
    LegIds,          \* cluster -> the ids newLegID tries for its legs, in order; the first is its name
    LegOrder,        \* all leg ids, sorted
    BucketNames,     \* backend bucket names
    MaxHash,         \* the hash space is 0 .. MaxHash
    MaxDepth,        \* prefixes are 1 .. MaxDepth, each nested in the one before
    MaxLegs,
    MaxPrefixRules,
    Taken,           \* the <<cluster, name>> pairs other client buckets use
    DefaultName,     \* directory.BackendName: the name a first step gives its bucket
    Requests,        \* the steps operators ask for
    Accepts          \* the values of expand's accept_existing_objects

None     == "none"
Clusters == DOMAIN LegIds
Roles    == UNION {{LegIds[c][i] : i \in 1 .. Len(LegIds[c])} : c \in Clusters}
Hashes   == 0 .. MaxHash
Keys     == [hash : Hashes, pre : 0 .. MaxDepth]
Span(f, t) == [from |-> f, to |-> t]
FullRange == Span(0, MaxHash)
Empty    == <<>>

\* The fields of directory.Placement, Ramp, RampHold and Move that routing depends on.
NoHold == [on |-> FALSE, ratio |-> 0, pres |-> {}]
NoRamp == [on |-> FALSE, ratio |-> 0, pres |-> {}, hold |-> NoHold]
NoMove == [on |-> FALSE, scope |-> 0, range |-> FullRange, from |-> None, to |-> None,
           ramp |-> NoRamp, cutover |-> FALSE]
Plain(c, b) ==
    [state |-> "ACTIVE", primary |-> c, source |-> None, target |-> None, names |-> (c :> b),
     ramp |-> NoRamp, cutover |-> FALSE, barrier |-> None, readOnly |-> FALSE,
     legs |-> Empty, owners |-> Empty, prefixes |-> Empty, move |-> NoMove]
Nothing == [Plain("", "") EXCEPT !.state = "absent", !.names = Empty]
Refused == [Nothing EXCEPT !.state = "refused"]

\* directory.Transition: the request of one step.
Step == [to |-> "RAMPING", target |-> None, name |-> None, ratio |-> 0, pres |-> {}, hold |-> FALSE,
         release |-> FALSE, complete |-> FALSE, barrier |-> None, ranged |-> FALSE,
         range |-> FullRange, leg |-> None, scope |-> 0, share |-> 0]

NoOp == [kind |-> None, step |-> Step, prior |-> FALSE]

VARIABLES
    pl,     \* the placement, or Nothing
    data,   \* <<cluster, bucket name>> -> the keys it holds
    op      \* the operation that reserved the placement: its kind, the completion of its step, and the read-only switch it replaced

vars == <<pl, data, op>>

Without(f, x) == [y \in DOMAIN f \ {x} |-> f[y]]

-----------------------------------------------------------------------------
(* Owner tables (legs.go, scopes.go, moves.go): sequences of ranges with their leg. *)

Owner(f, t, l) == [from |-> f, to |-> t, leg |-> l]

\* LeadingShare: the first s halves of a range, at least one point.
LeadingShare(rg, s) ==
    LET q == ((rg.to - rg.from + 1) * s) \div 2
    IN  IF s >= 2 THEN rg ELSE IF q = 0 THEN Span(rg.from, rg.from) ELSE Span(rg.from, rg.from + q - 1)

\* EvenOwners: the space split into ranges of equal width, the last one taking the rest.
EvenOwners(ids) ==
    LET width == MaxHash \div Len(ids)
    IN  [i \in 1 .. Len(ids) |-> Owner((i - 1) * width, IF i = Len(ids) THEN MaxHash ELSE i * width - 1, ids[i])]

\* OwnerIn: the first range that ends at or after h.
OwnerIn(table, h) == table[CHOOSE i \in 1 .. Len(table) : table[i].to >= h /\ \A j \in 1 .. i - 1 : table[j].to < h].leg

OwnsIn(table, leg) == \E i \in 1 .. Len(table) : table[i].leg = leg

\* reassign: the ranges rg cuts are split around it, and neighbours of one leg are joined.
\* Mutant: neighbours of one leg stay apart.
AddOwnerApart(out, o) == Append(out, o)
AddOwner(out, o) ==
    IF out # <<>> /\ Last(out).leg = o.leg /\ Last(out).to + 1 = o.from
    THEN [out EXCEPT ![Len(out)].to = o.to] ELSE Append(out, o)
\* Mutant: the part after the range starts at its end.
CutOverlaps(o, rg, leg) ==
    IF o.to < rg.from \/ o.from > rg.to THEN <<o>>
    ELSE (IF o.from < rg.from THEN <<Owner(o.from, rg.from - 1, o.leg)>> ELSE <<>>)
         \o (IF o.from <= rg.from THEN <<Owner(rg.from, rg.to, leg)>> ELSE <<>>)
         \o (IF o.to > rg.to THEN <<Owner(rg.to, o.to, o.leg)>> ELSE <<>>)
Cut(o, rg, leg) ==
    IF o.to < rg.from \/ o.from > rg.to THEN <<o>>
    ELSE (IF o.from < rg.from THEN <<Owner(o.from, rg.from - 1, o.leg)>> ELSE <<>>)
         \o (IF o.from <= rg.from THEN <<Owner(rg.from, rg.to, leg)>> ELSE <<>>)
         \o (IF o.to > rg.to THEN <<Owner(rg.to + 1, o.to, o.leg)>> ELSE <<>>)
Reassign(table, rg, leg) ==
    FoldLeft(AddOwner, <<>>, FoldLeft(LAMBDA out, o : out \o Cut(o, rg, leg), <<>>, table))

\* checkOwners: the ranges cover the space once, in order, each naming a leg.
CheckOwners(table, legs) ==
    /\ table # <<>>
    /\ \A i \in 1 .. Len(table) :
        /\ table[i].leg \in DOMAIN legs /\ table[i].from <= table[i].to
        /\ table[i].from = IF i = 1 THEN 0 ELSE table[i - 1].to + 1
    /\ Last(table).to = MaxHash

-----------------------------------------------------------------------------
(* Scopes (scopes.go): the placement's own table is scope 0, a prefix rule's its prefix. *)

Spread(p) == Len(p.owners) > 1 \/ p.move.on \/ p.prefixes # Empty

ScopeTable(p, s) == IF s = 0 THEN p.owners ELSE p.prefixes[s]
HasScope(p, s) == s = 0 \/ s \in DOMAIN p.prefixes
SetScopeTable(p, s, t) == IF s = 0 THEN [p EXCEPT !.owners = t] ELSE [p EXCEPT !.prefixes[s] = t]

Longest(S) == CHOOSE r \in S \cup {0} : \A q \in S : q <= r

\* Scope: the longest rule the key starts with.
ScopeOf(p, key) == Longest({r \in DOMAIN p.prefixes : r <= key.pre})

\* parentTable: the table the keys under a prefix fall to without its own rule.
ParentTable(p, pre) == ScopeTable(p, Longest({r \in DOMAIN p.prefixes : r < pre}))

OwnsKeys(p, leg) == \E s \in {0} \cup DOMAIN p.prefixes : OwnsIn(ScopeTable(p, s), leg)

OwnsBeyond(p, leg, scope, rg) ==
    \/ \E s \in ({0} \cup DOMAIN p.prefixes) \ {scope} : OwnsIn(ScopeTable(p, s), leg)
    \/ \E i \in 1 .. Len(ScopeTable(p, scope)) :
        LET o == ScopeTable(p, scope)[i] IN o.leg = leg /\ (o.from < rg.from \/ o.to > rg.to)

IdleLegs(p) == {l \in DOMAIN p.legs : ~OwnsKeys(p, l) /\ ~(p.move.on /\ l \in {p.move.from, p.move.to})}

-----------------------------------------------------------------------------
(* Routing (route.go). *)

BucketOf(p, role) == IF p.legs = Empty THEN <<role, p.names[role]>> ELSE <<p.legs[role].cluster, p.legs[role].bucket>>

BucketsOf(p) == {BucketOf(p, r) : r \in IF Spread(p) THEN DOMAIN p.legs ELSE DOMAIN p.names}

\* InRange, inRangeOf: the keys whose writes a ramp moved; rg limits a move's ramp to its range.
InRange(r, ranged, rg, key) ==
    /\ r.on
    /\ ranged => key.hash \in rg.from .. rg.to
    /\ \/ \E q \in r.pres : q <= key.pre
       \/ r.ratio >= 2
       \/ r.ratio = 1 /\ IF ranged THEN 2 * (key.hash - rg.from) < r.ratio * (rg.to - rg.from + 1)
                         ELSE key.hash < (r.ratio * MaxHash) \div 2
InHold(r, ranged, rg, key) == r.on /\ r.hold.on /\ InRange(r.hold, ranged, rg, key)

InMove(p, key) ==
    p.move.on /\ key.hash \in p.move.range.from .. p.move.range.to /\ ScopeOf(p, key) = p.move.scope

OwnerOf(p, key) == OwnerIn(ScopeTable(p, ScopeOf(p, key)), key.hash)

\* Narrow and Decide: where a write of the key goes; "held" while a step holds it back.
Home(p, key) ==
    LET side(state, src, dst, r, ranged, rg) ==
            IF src = None \/ state # "RAMPING" \/ InRange(r, ranged, rg, key) THEN BucketOf(p, dst)
            ELSE IF InHold(r, ranged, rg, key) THEN <<"held">> ELSE BucketOf(p, src)
    IN  CASE p.state = "absent" -> <<"absent">>
          [] InMove(p, key) -> side(p.state, p.move.from, p.move.to, p.move.ramp, TRUE, p.move.range)
          [] Spread(p) /\ ~InMove(p, key) -> BucketOf(p, OwnerOf(p, key))
          [] OTHER -> side(p.state, p.source, p.primary, p.ramp, FALSE, FullRange)

\* ListingLegs: the legs a listing under a prefix reads.
LegsIn(table) == {table[i].leg : i \in 1 .. Len(table)}
\* Mutant: the rules nested under the prefix are left out.
ListingLegsFlat(p, pre) ==
    LegsIn(ScopeTable(p, Longest({r \in DOMAIN p.prefixes : r <= pre})))
    \cup (IF p.move.on THEN {p.move.from, p.move.to} ELSE {})
ListingLegs(p, pre) ==
    LegsIn(ScopeTable(p, Longest({r \in DOMAIN p.prefixes : r <= pre})))
    \cup UNION {LegsIn(p.prefixes[r]) : r \in {q \in DOMAIN p.prefixes : q >= pre}}
    \cup (IF p.move.on THEN {p.move.from, p.move.to} ELSE {})

-----------------------------------------------------------------------------
(* Transitions (transition.go, moves.go). *)

Legal == {<<"ACTIVE", "RAMPING">>, <<"ACTIVE", "MIGRATING">>, <<"RAMPING", "RAMPING">>,
          <<"RAMPING", "MIGRATING">>, <<"MIGRATING", "CUTOVER">>, <<"CUTOVER", "ACTIVE">>}

Held(p) == IF p.move.on THEN p.move.ramp.on /\ p.move.ramp.hold.on ELSE p.ramp.on /\ p.ramp.hold.on

Ramp(ratio, pres) == [NoRamp EXCEPT !.on = TRUE, !.ratio = ratio, !.pres = pres]

\* release: a held step undone; from nothing in force the placement is ACTIVE again, its target recorded.
Release(p, barrier) ==
    IF p.state # "RAMPING" \/ ~p.ramp.hold.on \/ (barrier # None /\ p.barrier # barrier) THEN Refused
    ELSE IF p.ramp.ratio = 0 /\ p.ramp.pres = {}
         THEN [p EXCEPT !.state = "ACTIVE", !.primary = p.source, !.source = None, !.target = p.primary,
                        !.ramp = NoRamp, !.barrier = None]
         ELSE [p EXCEPT !.ramp.hold = NoHold, !.barrier = None]

\* The first step inherits what expand recorded.
Inherited(p, t) ==
    IF p.state # "ACTIVE" \/ p.target = None THEN t
    ELSE [t EXCEPT !.target = IF @ = None THEN p.target ELSE @,
                   !.name   = IF @ = None THEN p.names[p.target] ELSE @]

\* The ramp a RAMPING step asks for.
Grown(p, t) == Ramp(IF t.ratio # 0 THEN t.ratio ELSE p.ramp.ratio, p.ramp.pres \cup t.pres)

\* What Apply refuses of a whole-bucket step.
StepRefused(p, t0) ==
    LET t == Inherited(p, t0)
        leaving == p.state = "ACTIVE"
        growing == p.state = "RAMPING" /\ t.to = "RAMPING"
        g == Grown(p, t)
    IN  \/ t.barrier # None /\ ~t.hold /\ p.barrier # t.barrier
        \/ t.hold /\ (t.to \notin {"RAMPING", "MIGRATING"} \/ p.ramp.hold.on)
        \/ t.complete /\ ~Held(p)
        \/ <<p.state, t.to>> \notin Legal
        \/ ~leaving /\ (t.target # None \/ t.name # None)
        \/ leaving /\ p.target # None /\ (t.target # p.target \/ t.name # p.names[p.target])
        \/ t.to # "RAMPING" /\ (t.ratio # 0 \/ t.pres # {})
        \/ leaving /\ (t.target = None \/ t.name = None \/ t.target = p.primary)
        \/ leaving /\ t.to = "RAMPING" /\ t.ratio = 0 /\ t.pres = {}
        \/ growing /\ t.ratio # 0 /\ t.ratio < p.ramp.ratio
        \/ growing /\ g.ratio = p.ramp.ratio /\ g.pres = p.ramp.pres
        \/ growing /\ p.ramp.hold.on /\ ~t.hold
           /\ (~(g.pres \subseteq p.ramp.pres \cup p.ramp.hold.pres) \/ (g.ratio > p.ramp.hold.ratio /\ g.ratio > p.ramp.ratio))
        \/ p.state = "RAMPING" /\ t.to = "MIGRATING" /\ Held(p) /\ p.ramp.hold.ratio < 2 /\ ~t.hold

\* The placement a whole-bucket step that is not refused leaves, before its hold.
Stepped(p, t0) ==
    LET t == Inherited(p, t0)
    IN  CASE p.state = "ACTIVE" ->
               [p EXCEPT !.state = t.to, !.source = p.primary, !.primary = t.target, !.target = None,
                         !.names = (t.target :> t.name) @@ p.names,
                         !.ramp = IF t.to = "RAMPING" THEN Ramp(t.ratio, t.pres) ELSE NoRamp]
          [] p.state = "RAMPING" /\ t.to = "RAMPING" -> [p EXCEPT !.ramp = Grown(p, t)]
          [] t.to = "MIGRATING" /\ p.state # "ACTIVE" -> [p EXCEPT !.state = t.to, !.ramp = NoRamp]
          [] t.to = "CUTOVER" -> [p EXCEPT !.state = t.to, !.cutover = TRUE]
          [] t.to = "ACTIVE" -> [p EXCEPT !.state = t.to, !.names = Without(@, p.source), !.source = None,
                                          !.cutover = FALSE, !.barrier = None]

ApplyPlain(p, t) ==
    IF t.release THEN Release(p, t.barrier)
    ELSE IF StepRefused(p, t) THEN Refused
    ELSE LET np == Stepped(p, t)
             base == IF p.state = "RAMPING" THEN p.ramp ELSE Ramp(0, {})
             held == IF np.ramp.on THEN [on |-> TRUE, ratio |-> np.ramp.ratio, pres |-> np.ramp.pres]
                     ELSE [on |-> TRUE, ratio |-> 2, pres |-> {}]
         IN  IF t.hold THEN [np EXCEPT !.barrier = t.barrier, !.state = "RAMPING", !.ramp = [base EXCEPT !.hold = held]]
             ELSE [np EXCEPT !.barrier = IF t.complete \/ t.barrier # None THEN None ELSE @]

\* MoveView: the two-bucket placement a move is, its roles the ids of its legs.
MoveView(p) ==
    [Nothing EXCEPT !.state = p.state, !.source = p.move.from, !.primary = p.move.to,
                    !.names = [l \in {p.move.from, p.move.to} |-> p.legs[l].bucket],
                    !.ramp = p.move.ramp, !.cutover = p.move.cutover, !.barrier = p.barrier]
Moving(p) == IF p.move.on THEN MoveView(p) ELSE p
ClusterOf(p, role) == IF p.legs = Empty THEN role ELSE p.legs[role].cluster

\* The order of leg ids: by cluster, then as newLegID tries them.
IdBefore(l, q) == \E i, j \in 1 .. Len(LegOrder) : LegOrder[i] = l /\ LegOrder[j] = q /\ i <= j

\* settle: one leg owning every key with nothing moving is a plain placement again; an idle leg on
\* another cluster becomes its target.
\* Mutant: a placement stays in its legs.
SettleNever(p) == p
Settle(p) ==
    IF p.move.on \/ Len(p.owners) # 1 \/ p.prefixes # Empty THEN p
    ELSE LET owner == p.legs[p.owners[1].leg]
             others == {l \in DOMAIN p.legs : p.legs[l].cluster # owner.cluster}
             at(c) == CHOOSE l \in others : /\ p.legs[l].cluster = c
                                            /\ \A q \in others : p.legs[q].cluster = c => IdBefore(l, q)
             clusters == {p.legs[l].cluster : l \in others}
         IN  [p EXCEPT !.legs = Empty, !.owners = Empty, !.primary = owner.cluster,
                       !.names = (owner.cluster :> owner.bucket) @@ [c \in clusters |-> p.legs[at(c)].bucket],
                       !.target = IF clusters = {} THEN @
                                  ELSE p.legs[CHOOSE l \in others : \A q \in others : IdBefore(l, q)].cluster]

\* sameShare: a later step repeats the share its first step resolved to the move's range.
\* Mutant: a repeated share is compared with the whole range of the leg.
SameShareWhole(p, share) ==
    \E i \in 1 .. Len(ScopeTable(p, p.move.scope)) :
        LET o == ScopeTable(p, p.move.scope)[i]
        IN  o.leg = p.move.from /\ Span(o.from, o.to) = p.move.range
SameShare(p, share) ==
    \E i \in 1 .. Len(ScopeTable(p, p.move.scope)) :
        LET o == ScopeTable(p, p.move.scope)[i]
        IN  /\ o.leg = p.move.from /\ o.from <= p.move.range.from /\ p.move.range.to <= o.to
            /\ LeadingShare(Span(o.from, o.to), share) = p.move.range

\* applyMove: a step of the move in progress.  At its end the destination owns the range, and a
\* source left owning nothing goes.
MoveStep(p, t) ==
    LET m  == p.move
        nv == ApplyPlain(MoveView(p), [t EXCEPT !.target = None, !.name = None])
        ended == SetScopeTable([p EXCEPT !.state = "ACTIVE", !.move = NoMove, !.barrier = nv.barrier],
                               m.scope, Reassign(ScopeTable(p, m.scope), m.range, m.to))
    IN  IF \/ t.ranged /\ t.range # m.range
           \/ t.leg \notin {None, m.from}
           \/ t.scope \notin {0, m.scope}
           \/ t.share # 0 /\ ~SameShare(p, t.share)
           \/ m.scope # 0 /\ t.pres # {}
           \/ t.target \notin {None, ClusterOf(p, m.to)}
           \/ nv = Refused
        THEN Refused
        ELSE CASE nv.state = "ACTIVE" /\ t.release ->
                    Settle([p EXCEPT !.state = "ACTIVE", !.move = NoMove, !.barrier = nv.barrier])
               [] nv.state = "ACTIVE" /\ ~t.release ->
                    Settle([ended EXCEPT !.legs = IF OwnsKeys(ended, m.from) THEN @ ELSE Without(@, m.from)])
               [] OTHER -> [p EXCEPT !.state = nv.state, !.barrier = nv.barrier,
                                     !.move.ramp = nv.ramp, !.move.cutover = nv.cutover]

\* A plain placement in its v2 form, its primary the leg owning every key.
AsLegs(p) ==
    [p EXCEPT !.legs = (p.primary :> [cluster |-> p.primary, bucket |-> p.names[p.primary]]),
              !.owners = <<Owner(0, MaxHash, p.primary)>>, !.primary = None, !.names = Empty, !.target = None]

NewLegID(legs, c) == LegIds[c][CHOOSE i \in 1 .. Len(LegIds[c]) :
    LegIds[c][i] \notin DOMAIN legs /\ \A j \in 1 .. i - 1 : LegIds[c][j] \in DOMAIN legs]

\* The range a first step moves: the one it names, or the leading share of the leg's first range.
FirstRange(table, t) ==
    LET leg == IF t.leg = None THEN table[1].leg ELSE t.leg
        i   == CHOOSE j \in 1 .. Len(table) : table[j].leg = leg /\ \A q \in 1 .. j - 1 : table[q].leg # leg
        rg  == IF t.ranged THEN t.range ELSE Span(table[i].from, table[i].to)
    IN  IF t.share = 1 THEN LeadingShare(rg, t.share) ELSE rg

\* startMove: the first step of a move, out of what one leg owns, to the leg holding the named
\* bucket, the only leg on the target cluster, or a new leg.
StartMove(p, t0) ==
    LET plain == ~Spread(p)
        t     == IF plain THEN Inherited(p, t0) ELSE t0
        np    == IF plain THEN AsLegs(p) ELSE p
        table == ScopeTable(np, t.scope)
        named == IF t.leg = None /\ ~t.ranged THEN table[1].leg ELSE t.leg
        rg    == FirstRange(table, t)
        src   == {table[i].leg : i \in {j \in 1 .. Len(table) : table[j].from <= rg.from /\ rg.to <= table[j].to}}
        onTarget == {l \in DOMAIN np.legs : np.legs[l].cluster = t.target}
        match == {l \in onTarget : t.name \in {None, np.legs[l].bucket}}
        from  == CHOOSE l \in src : TRUE
        to    == IF match = {} THEN NewLegID(np.legs, t.target) ELSE CHOOSE l \in match : TRUE
        legs  == IF match = {} THEN (to :> [cluster |-> t.target, bucket |-> t.name]) @@ np.legs ELSE np.legs
        view  == [Plain(from, np.legs[from].bucket) EXCEPT !.barrier = None]
        nv    == ApplyPlain(view, [t EXCEPT !.target = to, !.name = legs[to].bucket])
    IN  IF \/ p.state # "ACTIVE"
           \/ t.scope # 0 /\ (t.scope \notin DOMAIN p.prefixes \/ t.pres # {})
           \/ ~t.ranged /\ t.leg = None /\ t.scope = 0
           \/ t.ranged /\ t.range.from > t.range.to
           \/ plain /\ p.target # None /\ t.target # p.target
           \/ t.target = None
        THEN Refused
        ELSE IF \/ ~t.ranged /\ t.leg = None /\ Len(table) # 1
                \/ ~t.ranged /\ ~OwnsIn(table, named)
        THEN Refused
        ELSE IF src = {} \/ named \notin {None, from} \/ (t.name = None /\ Cardinality(onTarget) > 1)
                \/ from \in match \/ (match = {} /\ t.name = None)
        THEN Refused
        ELSE IF Cardinality(DOMAIN legs) > MaxLegs \/ nv = Refused THEN Refused
        ELSE [np EXCEPT !.legs = legs, !.state = nv.state, !.barrier = nv.barrier,
                        !.move = [on |-> TRUE, scope |-> t.scope, range |-> rg, from |-> from, to |-> to,
                                  ramp |-> nv.ramp, cutover |-> nv.cutover]]

\* Apply: a share of a plain bucket is a range of it, another bucket on the same cluster is a move of
\* every key, and every key to another cluster is a migration of the whole bucket.
Apply(p, t0) ==
    LET plain  == ~Spread(p)
        shared == plain /\ t0.share # 0
        t1 == IF shared THEN [t0 EXCEPT !.ranged = TRUE, !.range = LeadingShare(FullRange, t0.share), !.share = 0] ELSE t0
        same == plain /\ p.state = "ACTIVE" /\ t1.target = p.primary /\ t1.name \notin {None, p.names[p.primary]}
        t2 == IF same THEN [t1 EXCEPT !.ranged = TRUE, !.range = FullRange] ELSE t1
        whole == plain /\ t2.ranged /\ t2.range = FullRange /\ t2.target # p.primary
        t3 == [t2 EXCEPT !.ranged = @ /\ ~whole, !.leg = IF plain THEN None ELSE @]
    IN  IF \/ t0.share # 0 /\ (t0.ranged \/ (plain /\ p.state # "ACTIVE"))
           \/ plain /\ t2.leg \notin {None, p.primary}
        THEN Refused
        ELSE IF plain /\ ~t3.ranged /\ t3.scope = 0 THEN ApplyPlain(p, t3)
        ELSE IF p.move.on THEN MoveStep(p, [t3 EXCEPT !.range = IF t3.ranged THEN @ ELSE FullRange])
        ELSE StartMove(p, t3)

-----------------------------------------------------------------------------
(* The two schemas (legs.go) and Validate (validate.go). *)

\* ToV2: a plain placement in schema v2, a leg per named bucket, the source the owner while it moves.
ToV2(p) ==
    IF Spread(p) THEN p
    ELSE LET moves == p.state # "ACTIVE"
         IN  [p EXCEPT !.primary = None, !.source = None, !.names = Empty, !.ramp = NoRamp, !.cutover = FALSE,
                       !.legs = [c \in DOMAIN p.names |-> [cluster |-> c, bucket |-> p.names[c]]],
                       !.owners = <<Owner(0, MaxHash, IF moves THEN p.source ELSE p.primary)>>,
                       !.move = IF moves THEN [NoMove EXCEPT !.on = TRUE, !.from = p.source, !.to = p.primary,
                                                             !.ramp = p.ramp, !.cutover = p.cutover]
                                ELSE NoMove]

CheckV2(p) ==
    /\ DOMAIN p.legs # {} /\ Cardinality(DOMAIN p.legs) <= MaxLegs
    /\ CheckOwners(p.owners, p.legs)
    /\ Cardinality(DOMAIN p.prefixes) <= MaxPrefixRules
    /\ \A r \in DOMAIN p.prefixes : CheckOwners(p.prefixes[r], p.legs)
    /\ p.move.on => /\ p.move.range.from <= p.move.range.to
                    /\ {p.move.from, p.move.to} \subseteq DOMAIN p.legs /\ p.move.from # p.move.to
    /\ p.target # None => p.target \in DOMAIN p.legs

\* checkSpread: at rest, or moving one range that its source leg owns.
CheckSpread(p) ==
    /\ p.target = None
    /\ (p.state = "ACTIVE") = ~p.move.on
    /\ p.move.on =>
        LET m == p.move IN
        /\ HasScope(p, m.scope)
        /\ \E i \in 1 .. Len(ScopeTable(p, m.scope)) :
            LET o == ScopeTable(p, m.scope)[i] IN o.leg = m.from /\ o.from <= m.range.from /\ m.range.to <= o.to
        /\ m.scope # 0 => m.ramp.pres = {} /\ m.ramp.hold.pres = {}
        /\ (p.state = "RAMPING") = m.ramp.on
        /\ m.cutover => p.state = "CUTOVER"

\* fromV2: schema v2 back to the fields this build routes by.
FromV2(p) ==
    IF p.legs = Empty /\ p.owners = Empty /\ ~p.move.on /\ p.prefixes = Empty THEN p
    ELSE IF p.primary # None \/ p.source # None \/ p.names # Empty \/ p.ramp.on \/ p.cutover \/ ~CheckV2(p) THEN Refused
    ELSE LET m == p.move
             cluster(l) == p.legs[l].cluster
         IN  IF Len(p.owners) > 1 \/ p.prefixes # Empty
                \/ (m.on /\ (m.range # FullRange \/ cluster(m.from) = cluster(m.to)))
             THEN IF CheckSpread(p) THEN p ELSE Refused
             ELSE IF \/ \E l, q \in DOMAIN p.legs : l # q /\ cluster(l) = cluster(q)
                     \/ (p.state = "ACTIVE") = m.on
                     \/ m.on /\ m.from # p.owners[1].leg
             THEN Refused
             ELSE [p EXCEPT !.legs = Empty, !.owners = Empty, !.move = NoMove,
                            !.names = [c \in {cluster(l) : l \in DOMAIN p.legs} |->
                                         p.legs[CHOOSE l \in DOMAIN p.legs : cluster(l) = c].bucket],
                            !.primary = IF m.on THEN cluster(m.to) ELSE cluster(p.owners[1].leg),
                            !.source = IF m.on THEN cluster(m.from) ELSE None,
                            !.ramp = m.ramp, !.cutover = m.cutover,
                            !.target = IF @ = None THEN None ELSE cluster(@)]

ValidateRamp(state, r) ==
    /\ r.on = (state = "RAMPING")
    /\ r.on => r.ratio # 0 \/ r.pres # {} \/ r.hold.on
    /\ r.hold.on => r.hold.ratio # 0 \/ r.hold.pres # {}

\* validatePlacement, validateSpread, validateBarrier.
ValidatePlacement(p) ==
    LET buckets == BucketsOf(p)
        moves == p.state # "ACTIVE"
    IN  /\ p.barrier = "purge" => p.state = "CUTOVER"
        /\ buckets \cap Taken = {}
        /\ IF Spread(p)
           THEN /\ CheckV2(p) /\ CheckSpread(p)
                /\ p.move.on => ValidateRamp(p.state, p.move.ramp)
                /\ p.primary = None /\ p.source = None /\ p.names = Empty /\ ~p.ramp.on /\ ~p.cutover
                /\ Cardinality(buckets) = Cardinality(DOMAIN p.legs)
           ELSE /\ p.target # None => ~moves /\ p.target # p.primary /\ p.target \in DOMAIN p.names
                /\ p.cutover => p.state = "CUTOVER"
                /\ moves = (p.source # None) /\ p.source # p.primary
                /\ ValidateRamp(p.state, p.ramp)
                /\ {p.primary} \cup ({p.source} \ {None}) \subseteq DOMAIN p.names

-----------------------------------------------------------------------------
(* The handlers (control/ops.go, readonly.go).  An operation reserves the placement until it ends, *)
(* so one with a hold under way excludes every other.                                              *)

Buckets == Clusters \X BucketNames
Idle == op.kind = None
Exists == pl.state # "absent"
KeysMoving(p) == IF p.move.on THEN {k \in Keys : InMove(p, k)} ELSE Keys

Init == pl = Nothing /\ data = [b \in Buckets |-> {}] /\ op = NoOp

\* adopt takes over a bucket that is there; createBackendPlacement makes one, then filled by its clients.
Adopt(c, b) ==
    /\ Idle /\ ~Exists /\ <<c, b>> \notin Taken
    /\ pl' = Plain(c, b) /\ data' = [data EXCEPT ![<<c, b>>] = Keys] /\ UNCHANGED op

\* File.CreateSpread: equal ranges over one leg on each cluster, named after it.
SpreadOver(ids, b) ==
    [Nothing EXCEPT !.state = "ACTIVE", !.primary = None, !.owners = EvenOwners(ids),
                    !.legs = [c \in ToSet(ids) |-> [cluster |-> c, bucket |-> b]]]

\* createSpread: one new bucket on each cluster.
CreateSpread(ids, b) ==
    /\ Idle /\ ~Exists /\ Len(ids) \in 2 .. MaxLegs
    /\ \A i \in 1 .. Len(ids) : <<ids[i], b>> \notin Taken /\ data[<<ids[i], b>>] = {}
    /\ LET np == SpreadOver(ids, b)
       IN  /\ pl' = np
           /\ data' = [x \in Buckets |-> IF x[2] = b /\ x[1] \in ToSet(ids)
                                         THEN {k \in Keys : OwnerOf(np, k) = x[1]} ELSE data[x]]
    /\ UNCHANGED op

\* File.SetTarget: where an ACTIVE plain bucket will move to.
SetTarget(p, c, b) ==
    IF p.state # "ACTIVE" \/ Spread(p) \/ p.target \notin {None, c} THEN Refused
    ELSE [p EXCEPT !.target = c, !.names = (c :> b) @@ @]

\* expand: the target's bucket is another one, empty unless the operator accepts what it holds.
Expand(c, b, accept) ==
    /\ Idle /\ Exists /\ c # pl.primary
    /\ <<c, b>> \notin Taken /\ (accept \/ data[<<c, b>>] = {})
    /\ pl' = SetTarget(pl, c, b) /\ pl' # Refused
    /\ UNCHANGED <<data, op>>

\* File.ClearTarget: the target forgotten, or a spread bucket's idle legs retired.
TargetCleared(p) ==
    IF p.state # "ACTIVE" \/ (IF Spread(p) THEN IdleLegs(p) = {} ELSE p.target = None) THEN Refused
    ELSE IF Spread(p) THEN Settle([p EXCEPT !.legs = [l \in DOMAIN @ \ IdleLegs(p) |-> @[l]]])
    ELSE [p EXCEPT !.target = None, !.names = Without(@, p.target)]

ClearTarget ==
    /\ Idle /\ Exists
    /\ pl' = TargetCleared(pl) /\ pl' # Refused
    /\ UNCHANGED <<data, op>>

\* carve: a rule for the keys under a prefix, owned as they are.
Carve(pre) ==
    /\ Idle /\ Exists /\ pl.state = "ACTIVE" /\ ~pl.move.on
    /\ Cardinality(DOMAIN pl.prefixes) < MaxPrefixRules /\ pre \notin DOMAIN pl.prefixes
    /\ Spread(pl) \/ pl.target = None
    /\ LET np == IF Spread(pl) THEN pl ELSE AsLegs(pl)
       IN  pl' = [np EXCEPT !.prefixes = (pre :> ParentTable(np, pre)) @@ @]
    /\ UNCHANGED <<data, op>>

\* merge: a rule owned as its parent is, dropped.
\* Mutant: any rule is dropped.
MergeAny(pre) ==
    /\ Idle /\ Exists /\ pre \in DOMAIN pl.prefixes /\ pl.state = "ACTIVE" /\ ~pl.move.on
    /\ pl' = Settle([pl EXCEPT !.prefixes = Without(@, pre)])
    /\ UNCHANGED <<data, op>>
Merge(pre) ==
    /\ Idle /\ Exists /\ pre \in DOMAIN pl.prefixes /\ pl.state = "ACTIVE" /\ ~pl.move.on
    /\ pl.prefixes[pre] = ParentTable(pl, pre)
    /\ pl' = Settle([pl EXCEPT !.prefixes = Without(@, pre)])
    /\ UNCHANGED <<data, op>>

\* withDefaultName.
WithDefaultName(p, t) ==
    IF p.state = "ACTIVE" /\ p.target = None /\ t.target # None /\ t.name = None
       /\ ~\E l \in DOMAIN p.legs : p.legs[l].cluster = t.target
    THEN [t EXCEPT !.name = DefaultName] ELSE t

\* transition: the step as the handler asks Apply for it, and the checks on a first step's bucket:
\* no other client bucket's, and empty unless expand prepared it or it is a leg already.
Asked(p, t) ==
    LET n == WithDefaultName(p, t)
    IN  IF p.state # "ACTIVE" /\ n.target # None THEN [n EXCEPT !.target = None, !.name = None] ELSE n
Destination(p) == LET v == Moving(p) IN IF p.move.on THEN BucketOf(p, v.primary) ELSE <<v.primary, v.names[v.primary]>>
TransitionAllowed(p, t, full) ==
    /\ p.state # "ACTIVE" /\ t.target # None => t.target = Destination(p)[1]
    /\ full # Refused
    /\ p.state = "ACTIVE" =>
        /\ Destination(full) \notin Taken
        /\ p.target = None /\ Moving(full).primary \notin DOMAIN p.legs => data[Destination(full)] = {}

\* fencedStep: a step that moves writes is held, then completed or released; migrate start on a
\* full ramp moves none and is written at once.
MovesWrites(p, t) ==
    \/ t.to = "RAMPING"
    \/ p.state # "RAMPING" \/ ~Moving(p).ramp.on \/ Moving(p).ramp.ratio < 2 \/ Held(p)

HoldOf(t) == [t EXCEPT !.hold = TRUE, !.barrier = "step"]
Completion(t) ==
    [t EXCEPT !.target = None, !.name = None, !.complete = TRUE, !.ranged = FALSE, !.leg = None, !.scope = 0]

StepHold(t) ==
    /\ Idle /\ Exists /\ MovesWrites(pl, t) /\ ~Held(pl)
    /\ Apply(pl, WithDefaultName(pl, t)) # Refused
    /\ pl' = Apply(pl, Asked(pl, HoldOf(t)))
    /\ TransitionAllowed(pl, HoldOf(t), pl')
    /\ op' = [kind |-> "step", step |-> Completion(t), prior |-> FALSE]
    /\ UNCHANGED data

StepCommit ==
    /\ op.kind = "step"
    /\ pl' = Apply(pl, op.step) /\ pl' # Refused
    /\ op' = NoOp /\ UNCHANGED data

StepRelease ==
    /\ op.kind = "step"
    /\ pl' = Apply(pl, [Step EXCEPT !.release = TRUE, !.barrier = "step"])
    /\ op' = NoOp /\ UNCHANGED data

StepDirect(t) ==
    /\ Idle /\ Exists /\ ~MovesWrites(pl, t)
    /\ pl' = Apply(pl, Asked(pl, t))
    /\ TransitionAllowed(pl, t, pl')
    /\ UNCHANGED <<data, op>>

\* SetBarrier and ClearBarrier, for cutover and purge-source.
Hold(kind) == pl.barrier = None /\ pl' = [pl EXCEPT !.barrier = kind] /\ op' = [NoOp EXCEPT !.kind = kind]

CutoverHold == Idle /\ pl.state = "MIGRATING" /\ Hold("cutover") /\ UNCHANGED data

\* runCutover commits once a converged mover has every moving key at the destination.
CutoverCommit ==
    /\ op.kind = "cutover"
    /\ pl' = Apply(pl, [Step EXCEPT !.to = "CUTOVER", !.barrier = "cutover"])
    /\ data' = [data EXCEPT ![Destination(pl)] = @ \cup KeysMoving(pl)]
    /\ op' = NoOp

BarrierRelease ==
    /\ op.kind \in {"cutover", "purge"}
    /\ pl' = [pl EXCEPT !.barrier = None] /\ op' = NoOp /\ UNCHANGED data

Origin(p) == LET v == Moving(p) IN IF p.move.on THEN BucketOf(p, v.source) ELSE <<v.source, v.names[v.source]>>

\* purge-source: the source's copies deleted once the destination has them all: a move's own keys, and the
\* bucket with them when its leg keeps nothing else.
PurgeHold == Idle /\ pl.state = "CUTOVER" /\ Moving(pl).cutover /\ Hold("purge") /\ UNCHANGED data

PurgeKeep(p) == IF p.move.on THEN {k \in Keys : ~InMove(p, k)} ELSE {}

PurgeCommit ==
    /\ op.kind = "purge"
    /\ data[Origin(pl)] \ PurgeKeep(pl) \subseteq data[Destination(pl)]
    /\ data' = [data EXCEPT ![Origin(pl)] = @ \cap PurgeKeep(pl)]
    /\ pl' = Apply(pl, [Step EXCEPT !.to = "ACTIVE", !.barrier = "purge"])
    /\ op' = NoOp

\* migrate finish: the source dropped with its copies left, unless its leg stays in the bucket.
\* Mutant: a move's source leg that stays in the bucket keeps the moved copies.
FinishAnyLeg ==
    /\ Idle /\ Exists
    /\ pl' = Apply(pl, [Step EXCEPT !.to = "ACTIVE"]) /\ pl' # Refused
    /\ UNCHANGED <<data, op>>
FinishMigration ==
    /\ Idle /\ Exists
    /\ pl.move.on => ~OwnsBeyond(pl, pl.move.from, pl.move.scope, pl.move.range)
    /\ pl' = Apply(pl, [Step EXCEPT !.to = "ACTIVE"]) /\ pl' # Refused
    /\ UNCHANGED <<data, op>>

\* runReadOnly: the switch with its hold, the commit, the release to what it replaced, and off.
ReadOnlyHold ==
    /\ Idle /\ Exists /\ pl.barrier = None
    /\ pl' = [pl EXCEPT !.readOnly = TRUE, !.barrier = "readonly"]
    /\ op' = [kind |-> "readonly", step |-> Step, prior |-> pl.readOnly] /\ UNCHANGED data
ReadOnlyCommit == op.kind = "readonly" /\ pl' = [pl EXCEPT !.barrier = None] /\ op' = NoOp /\ UNCHANGED data
ReadOnlyRelease ==
    /\ op.kind = "readonly"
    /\ pl' = [pl EXCEPT !.readOnly = op.prior, !.barrier = None] /\ op' = NoOp /\ UNCHANGED data
ReadOnlyOff ==
    /\ Idle /\ Exists /\ pl.readOnly
    /\ pl' = [pl EXCEPT !.readOnly = FALSE, !.barrier = None] /\ UNCHANGED <<data, op>>

\* deletePlacement: a proxy asks for it once the backends have deleted the bucket's own, empty by then.
DeletePlacement ==
    /\ Idle /\ pl.state = "ACTIVE"
    /\ pl' = Nothing
    /\ data' = [b \in Buckets |-> IF b \in BucketsOf(pl) THEN {} ELSE data[b]]
    /\ UNCHANGED op

Next ==
    \/ \E c \in Clusters, b \in BucketNames : Adopt(c, b)
    \/ \E ids \in SetToSeqs(Clusters), b \in BucketNames : CreateSpread(ids, b)
    \/ \E c \in Clusters, b \in BucketNames, accept \in Accepts : Expand(c, b, accept)
    \/ ClearTarget
    \/ \E pre \in 1 .. MaxDepth : Carve(pre)
    \/ \E pre \in 1 .. MaxDepth : Merge(pre)
    \/ Idle /\ \E t \in Requests : StepHold(t)
    \/ StepCommit \/ StepRelease
    \/ Idle /\ \E t \in Requests : StepDirect(t)
    \/ CutoverHold \/ CutoverCommit \/ BarrierRelease \/ PurgeHold \/ PurgeCommit \/ FinishMigration
    \/ ReadOnlyHold \/ ReadOnlyCommit \/ ReadOnlyRelease \/ ReadOnlyOff \/ DeletePlacement

Spec == Init /\ [][Next]_vars
-----------------------------------------------------------------------------
\* The record keeps its shape and every placement the handlers write passes the directory's own
\* Validate: the owner tables of every scope partition the hash space, a move's source owns the range
\* it moves, holds and barriers sit where they may, and no bucket is another client bucket's
\* (validate.go, legs.go checkV2 and checkSpread).  The store runs Validate on every write; here it
\* is not a guard, so that no handler relies on being refused there.
Valid ==
    /\ op.kind \in {None, "step", "cutover", "purge", "readonly"}
    /\ data \in [Buckets -> SUBSET Keys]
    /\ Exists => pl.state \in {"ACTIVE", "RAMPING", "MIGRATING", "CUTOVER"} /\ ValidatePlacement(pl)

\* Every stored placement decodes to itself: in the schema the build writes (fromV2 takes the record
\* as it is) and through ToV2, which "every reader round-trips" (legs.go ToV2).
RoundTrips == Exists => FromV2(pl) = pl /\ FromV2(ToV2(pl)) = pl

\* Two adjacent ranges of an owner table never name the same leg, in any scope: merge and sameShare
\* compare tables and ranges as written (scopes.go Merge, moves.go sameShare), so equal ownership
\* must have one form (moves.go reassign joins neighbours).
TablesCanonical ==
    Exists /\ Spread(pl) => \A s \in {0} \cup DOMAIN pl.prefixes :
        \A i \in 1 .. Len(ScopeTable(pl, s)) - 1 : ScopeTable(pl, s)[i].leg # ScopeTable(pl, s)[i + 1].leg

\* At rest a bucket of the placement holds exactly the keys routed to it: no key is routed to a
\* bucket without it, and no leg or target keeps strays that a later move would take for the
\* bucket's own (ops.go transition, "a leg already in the bucket holds only keys it owns", and
\* runFinish).
HomesExact ==
    pl.state = "ACTIVE" =>
        LET home == [k \in Keys |-> Home(pl, k)]
        IN  \A b \in BucketsOf(pl) : data[b] = {k \in Keys : home[k] = b}

\* A listing under a prefix reads the home of every key under it, whatever rules are nested above
\* or below the prefix and whatever is moving (scopes.go ListingLegs).
ListingCovers ==
    Exists /\ Spread(pl) => \A d \in 0 .. MaxDepth, k \in Keys :
        k.pre >= d => Home(pl, k) \in {<<"held">>} \cup {BucketOf(pl, l) : l \in ListingLegs(pl, d)}

\* What would refuse the completed step refuses before the hold is written (ops.go fencedStep: "Anything
\* that would refuse the completed step refuses before the hold is written"): a held step can always
\* be completed, and always be released.
HeldCompletes ==
    op.kind = "step" => /\ Apply(pl, op.step) # Refused
                        /\ Apply(pl, [Step EXCEPT !.release = TRUE, !.barrier = "step"]) # Refused

\* A key's writes move between buckets only through a hold: no single change of the directory takes
\* a key from one bucket to another, so carve, merge, expand, settling, finish and every step are
\* invisible to a proxy still on the version before, but for the keys a step held (ADR-0016,
\* transition.go Apply).
HomeMovesHeld ==
    [][pl # pl' /\ pl.state # "absent" /\ pl'.state # "absent" =>
        \A k \in Keys : LET was == Home(pl, k)
                            is  == Home(pl', k)
                        IN  was = is \/ <<"held">> \in {was, is}]_vars

\* The placement is one the directory accepts, stores and reads back as it is.
WellFormed == Valid /\ RoundTrips /\ TablesCanonical

\* Every key is found where routing looks for it, and by a listing.
KeysReachable == HomesExact /\ ListingCovers

=============================================================================
