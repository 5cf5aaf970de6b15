------------------------------ MODULE Listing ------------------------------
(***************************************************************************)
(* Listing a bucket that lies in more than one backend bucket, page by     *)
(* page: the merge of a migrating bucket's two sides                       *)
(* (internal/proxy/merge.go) and of a spread bucket's legs                 *)
(* (internal/proxy/spreadlist.go), while clients write and delete, the     *)
(* mover copies and the move of a range goes on.                           *)
(*                                                                         *)
(* A name is a number, in the order of the names; some names are the       *)
(* common prefixes of a delimiter.  A continuation token of a backend is   *)
(* the name it continues after, 0 for none.  Backends are external: a page *)
(* is the first PageSize names after the place asked for, as the bucket is *)
(* at that instant.                                                        *)
(***************************************************************************)
EXTENDS Integers, Sequences, FiniteSetsExt

CONSTANTS
    Legs,        \* the backend buckets
    From, To,    \* the two of them a move, or a migration, is between
    Names,       \* 1..n
    Prefixes,    \* the names that are common prefixes
    Contents,    \* what the buckets hold before the first listing: functions from Legs to sets of names
    Owners,      \* the owner tables there may be: functions from Names to Legs
    ListKinds,       \* the listings asked for: "merge" (migrating bucket), "v2", "v1" (spread bucket)
    MaxKeys,     \* keys in a page of shunt's answer
    PageSize,    \* keys in a page of a backend
    MoveEnds,    \* where a listing under way may be when a move ends: a subset of {"between", "page"}
    MaxWrites,   \* bound on the writes and deletes
    MaxFails     \* bound on the pages that fail

VARIABLES
    held,     \* per leg: the names in its bucket
    owner,    \* per name: the leg the owner tables give it to
    move,     \* "none", "moving", "cutover", "done"
    pc,       \* "idle", "between" (two pages), "page", "ended"
    kind,     \* the listing under way
    tok,      \* the token the client sends next
    view,     \* the placement this page was routed by
    side,     \* per leg: the stream of its pages
    emitted,  \* the page under way
    listed,   \* every name answered so far, in order
    stable,   \* the names in the bucket at every moment since the listing began
    ever,     \* the names in the bucket at some moment since it began
    writes, fails

listVars == <<held, owner, move, pc, kind, tok, view, side, emitted, listed, stable, ever, writes, fails>>
bucket == <<held, owner, move>>
page == <<view, side, emitted>>

NoTok  == [last |-> 0, used |-> [l \in Legs |-> 0], done |-> {}]
NoSide == [items |-> {}, used |-> 0, next |-> 0, started |-> FALSE, done |-> FALSE]

\* The names the move is about: every name of a migrating bucket, the range of a leg's otherwise.
Moving(v) == IF v.move \in {"moving", "cutover"} THEN {n \in Names : v.owner[n] = From} ELSE {}

Placement == [owner |-> owner, move |-> move]

\* The names a client finds in the bucket; a common prefix is there while any leg has it.
InBucket(h, v) ==
    {n \in Names :
        CASE n \in Prefixes -> \E l \in Legs : n \in h[l]
          [] n \in Moving(v) -> n \in h[To] \/ (v.move = "moving" /\ n \in h[From])
          [] OTHER -> n \in h[v.owner[n]]}

ListInit ==
    /\ kind \in ListKinds
    /\ held \in Contents
    /\ owner \in IF kind = "merge" THEN {[n \in Names |-> From]} ELSE Owners
    /\ move = IF kind = "merge" THEN "moving" ELSE "none"
    /\ pc = "idle" /\ tok = NoTok /\ view = Placement
    /\ side = [l \in Legs |-> NoSide] /\ emitted = {}
    /\ listed = <<>> /\ stable = {} /\ ever = {}
    /\ writes = 0 /\ fails = 0

---------------------------------------------------------------------------
(* The bucket changes *)

\* stable and ever follow the bucket.
Track ==
    LET now == InBucket(held', Placement') IN
    /\ stable' = stable \cap now
    /\ ever' = ever \cup now
    /\ UNCHANGED <<pc, kind, tok, page, listed, fails>>

Home(n) == IF n \in Moving(Placement) THEN To ELSE owner[n]

Write(n) ==
    /\ writes < MaxWrites /\ n \notin Prefixes
    /\ writes' = writes + 1
    /\ held' = [held EXCEPT ![Home(n)] = @ \cup {n}]
    /\ UNCHANGED <<owner, move>>
    /\ Track

\* A delete; of a moving key, on both legs.
Delete(n) ==
    /\ writes < MaxWrites /\ n \notin Prefixes /\ n \in InBucket(held, Placement)
    /\ writes' = writes + 1
    /\ held' = [l \in Legs |-> IF l = Home(n) \/ (l = From /\ n \in Moving(Placement)) THEN held[l] \ {n} ELSE held[l]]
    /\ UNCHANGED <<owner, move>>
    /\ Track

\* The mover copies a name.
Copy(n) ==
    /\ move = "moving" /\ n \in Moving(Placement) \cap held[From] /\ n \notin held[To]
    /\ held' = [held EXCEPT ![To] = @ \cup {n}]
    /\ UNCHANGED <<owner, move, writes>>
    /\ Track

\* The steps of a move: its start, the cutover of a converged move, and its end, which gives the
\* range to the destination and leaves the source's copies (finish) or deletes them (purge-source).
MoveStart ==
    /\ move = "none" /\ move' = "moving"
    /\ \A n \in held[To] \ Prefixes : owner[n] # From     \* the destination holds none of the range
    /\ UNCHANGED <<held, owner, writes>>
    /\ Track

Cutover ==
    /\ move = "moving" /\ kind # "merge"
    /\ (Moving(Placement) \cap held[From]) \ Prefixes \subseteq held[To]
    /\ move' = "cutover"
    /\ UNCHANGED <<held, owner, writes>>
    /\ Track

MoveEnd ==
    /\ move = "cutover" /\ pc \in {"idle", "ended"} \cup MoveEnds
    /\ move' = "done"
    /\ owner' = [n \in Names |-> IF n \in Moving(Placement) THEN To ELSE owner[n]]
    /\ \/ UNCHANGED held
       \/ held' = [held EXCEPT ![From] = @ \ Moving(Placement)]
    /\ UNCHANGED writes
    /\ Track

---------------------------------------------------------------------------
(* The listing *)

\* The client's first request.
Begin ==
    /\ pc = "idle" /\ pc' = "between"
    /\ tok' = NoTok /\ listed' = <<>>
    /\ stable' = InBucket(held, Placement) /\ ever' = InBucket(held, Placement)
    /\ UNCHANGED <<bucket, kind, page, writes, fails>>

\* A page is asked for with the token: every side resumes where the token says.
Resume ==
    /\ pc = "between" /\ pc' = "page"
    /\ view' = Placement
    /\ side' = [l \in Legs |-> [NoSide EXCEPT !.used = IF kind = "merge" THEN tok.used[l] ELSE 0,
                                              !.done = l \in tok.done]]
    /\ emitted' = {}
    /\ UNCHANGED <<bucket, kind, tok, listed, stable, ever, writes, fails>>

\* head() has to read a page of this side before it knows the side's next name.
Need(l) ==
    /\ ~side[l].done /\ side[l].items = {}
    /\ side[l].started => side[l].next # 0

\* The sides are not filtered.
OwnAny(l, items) == items

\* own: what a leg lists of its page: the names it owns, the moving ones on either of the two.
Own(l, items) ==
    {n \in items :
        \/ kind = "merge" \/ n \in Prefixes
        \/ n \in Moving(view) /\ l \in {From, To}
        \/ view.owner[n] = l}

\* fetchListPage: one page of one side, after the token of the page before it, or of the
\* continuation, or after the last name answered; a backend may list a common prefix again.
Fetch(l) ==
    LET s     == side[l]
        token == IF s.started THEN s.next ELSE s.used
        again == IF token = 0 /\ tok.last \in Prefixes THEN {{}, {tok.last}} ELSE {{}}
        place == IF token = 0 THEN tok.last ELSE token
    IN  /\ pc = "page" /\ Need(l)
        /\ \E more \in again :
             LET all == {n \in held[l] : n > place \/ n \in more}
                 got == {n \in all : Cardinality({m \in all : m < n}) < PageSize}
                 new == {n \in got : n > tok.last}
                 next == IF got # all THEN Max(got) ELSE 0
             IN  side' = [side EXCEPT ![l] = [items |-> Own(l, new), used |-> token, next |-> next,
                                              started |-> TRUE, done |-> new = {} /\ next = 0]]
        /\ UNCHANGED <<bucket, pc, kind, tok, view, emitted, listed, stable, ever, writes, fails>>

Heads == UNION {side[l].items : l \in Legs}

\* A name taken from one of the sides that have it.
EmitOne ==
    LET n == Min(Heads) IN
    /\ pc = "page" /\ \A l \in Legs : ~Need(l)
    /\ Heads # {} /\ Cardinality(emitted) < MaxKeys
    /\ emitted' = emitted \cup {n}
    /\ side' = [side EXCEPT ![CHOOSE l \in Legs : n \in side[l].items].items = @ \ {n}]
    /\ listed' = Append(listed, n)
    /\ UNCHANGED <<bucket, pc, kind, tok, view, stable, ever, writes, fails>>

\* The merge takes the least of the heads, once for all the sides that have it.
Emit ==
    LET n == Min(Heads) IN
    /\ pc = "page" /\ \A l \in Legs : ~Need(l)
    /\ Heads # {} /\ Cardinality(emitted) < MaxKeys
    /\ emitted' = emitted \cup {n}
    /\ side' = [l \in Legs |-> [side[l] EXCEPT !.items = @ \ {n}]]
    /\ listed' = Append(listed, n)
    /\ UNCHANGED <<bucket, pc, kind, tok, view, stable, ever, writes, fails>>

\* A side is done when it has nothing more.
Exhausted == {l \in Legs : side[l].items = {}}

\* A token that marks the sides whose page is used up, though they have more pages.
NextTokenEarly ==
    [last |-> Max(emitted), used |-> [l \in Legs |-> side[l].used],
     done |-> {l \in Legs : side[l].items = {} \/ Cardinality(side[l].items) < 2}]

\* The token for the next page.
NextToken ==
    [last |-> Max(emitted), used |-> [l \in Legs |-> side[l].used],
     done |-> IF kind = "v1" THEN {} ELSE Exhausted]

\* The page is full, or every side is done: it is answered, truncated when a side has more.
Answer ==
    /\ pc = "page" /\ \A l \in Legs : ~Need(l)
    /\ Heads = {} \/ Cardinality(emitted) = MaxKeys
    /\ IF Heads = {} THEN pc' = "ended" /\ UNCHANGED tok ELSE pc' = "between" /\ tok' = NextToken
    /\ UNCHANGED <<bucket, kind, page, listed, stable, ever, writes, fails>>

\* A page of a backend fails, or the answer is lost: the client asks for the page again.
FailPage ==
    /\ pc = "page" /\ fails < MaxFails
    /\ fails' = fails + 1 /\ pc' = "between"
    /\ listed' = SubSeq(listed, 1, Len(listed) - Cardinality(emitted))
    /\ UNCHANGED <<bucket, kind, tok, page, stable, ever, writes>>

Change ==
    \/ \E n \in Names : Write(n) \/ Delete(n) \/ Copy(n)
    \/ MoveStart \/ Cutover \/ MoveEnd

List == Begin \/ Resume \/ (\E l \in Legs : Fetch(l)) \/ Emit \/ Answer

ListNext == Change \/ List \/ FailPage

---------------------------------------------------------------------------
(* A listing that ends has answered every name that was in the bucket from its first page to its
   last, whatever moved, failed or was retried in between (merge.go, mergeListing; spreadlist.go,
   spreadListing). *)
ListedComplete ==
    pc = "ended" => stable \subseteq {listed[i] : i \in 1..Len(listed)}

(* Names come in order and none twice, over all the pages of a listing, also a common prefix that
   several legs hold or that a backend lists again after it was answered. *)
ListedInOrder ==
    \A i, j \in 1..Len(listed) : i < j => listed[i] < listed[j]

(* Nothing is listed that was not in the bucket at some moment of the listing: the copies a move
   leaves behind on its source are not seen. *)
ListedExisted ==
    \A i \in 1..Len(listed) : listed[i] \in Prefixes \/ listed[i] \in ever

(* What a client lists is what it holds: complete, in order, and nothing else. *)
ListingExact == ListedComplete /\ ListedInOrder /\ ListedExisted
=============================================================================
