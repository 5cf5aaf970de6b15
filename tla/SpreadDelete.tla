---------------------------- MODULE SpreadDelete ----------------------------
(***************************************************************************)
(* DeleteObjects on a spread bucket (internal/proxy/spreaddelete.go): one  *)
(* request that names many keys goes to every leg of the bucket, the       *)
(* source of a move first, and each key is answered by the leg that owns   *)
(* it.  Legs fail independently, whole or for a key; a request that was    *)
(* dispatched and not answered may still land later.                       *)
(*                                                                         *)
(* The backends are external: a leg answers, refuses, is not reached, or   *)
(* takes the request and says nothing.                                     *)
(***************************************************************************)
EXTENDS Integers, Sequences, FiniteSetsExt

CONSTANTS
    DeleteLegs,   \* the legs in the order the code reads their answers, a move's source first
    MoveTo,       \* the destination of the move
    Objects,      \* the keys of the bucket
    OwnedBy,      \* per key: the leg the owner tables give it to
    Moved,        \* the keys the move is about; owned by the first leg
    Situations,   \* what the placement and the gates may say of the request, see RefusedFor
    MaxBadLegs    \* bound on the legs that fail one request

VARIABLES
    moving,    \* whether a move is under way
    situation,
    stored,    \* per leg: the keys in its bucket
    delPc,     \* "idle", "admitted", "source", "rest", "answered"
    asked,     \* the keys of the request
    legRes,    \* per leg: what its delete came to
    late,      \* legs a dispatched delete may still reach
    reply,     \* what the client was told
    mutTok, srcTok  \* the admission tokens: "none", "held", "definitive", "uncertain"

deleteVars == <<moving, situation, stored, delPc, asked, legRes, late, reply, mutTok, srcTok>>

AllLegs == {DeleteLegs[i] : i \in 1..Len(DeleteLegs)}
MoveFrom == DeleteLegs[1]
IsSource(l) == moving /\ l = MoveFrom

NoRes == [how |-> "none", deleted |-> {}, errors |-> {}]
NoReply == [status |-> "none", deleted |-> {}, errors |-> {}]

DeleteInit ==
    /\ moving \in BOOLEAN
    /\ situation \in Situations
    /\ stored = [l \in AllLegs |-> {k \in Objects : OwnedBy[k] = l \/ (k \in Moved /\ l = MoveTo)}]
    /\ delPc = "idle" /\ asked = {}
    /\ legRes = [l \in AllLegs |-> NoRes]
    /\ late = {} /\ reply = NoReply
    /\ mutTok = "none" /\ srcTok = "none"

---------------------------------------------------------------------------
(* Admission *)

\* The request is refused before it takes a token: a read-only bucket or leg, a mutation barrier on
\* either, and during a move a key hash this build lacks, a held step or a stale proxy.
RefusedFor(s) ==
    \/ s \in {"read_only", "barrier_mutations", "leg_read_only", "leg_barrier", "leg_unknown", "gate_closed"}
    \/ moving /\ s \in {"key_hash", "held", "stale"}

\* It is refused with the mutation token taken: the source gate is closed or superseded, a source
\* barrier stands, or the body is not one shunt can verify.
RefusedAdmitted(s) == s = "bad_body" \/ (moving /\ s \in {"superseded", "source_closed", "barrier_source"})

Answered(r) == delPc' = "answered" /\ reply' = r

RefuseDelete ==
    /\ delPc = "idle" /\ RefusedFor(situation)
    /\ Answered([NoReply EXCEPT !.status = "refused"])
    /\ UNCHANGED <<moving, situation, stored, asked, legRes, late, mutTok, srcTok>>

Enter ==
    /\ delPc = "idle" /\ ~RefusedFor(situation)
    /\ asked' \in SUBSET Objects \ {{}}
    /\ mutTok' = "held"
    /\ srcTok' = IF moving /\ ~RefusedAdmitted(situation) THEN "held" ELSE "none"
    /\ delPc' = "admitted"
    /\ UNCHANGED <<moving, situation, stored, legRes, late, reply>>

\* The body is read; the tokens of a refused request are released as definitive.
ReadBody ==
    /\ delPc = "admitted"
    /\ IF RefusedAdmitted(situation)
       THEN /\ Answered([NoReply EXCEPT !.status = "refused"])
            /\ mutTok' = "definitive"
            /\ srcTok' = IF srcTok = "held" THEN "definitive" ELSE srcTok
       ELSE /\ delPc' = IF moving THEN "source" ELSE "rest"
            /\ UNCHANGED <<reply, mutTok, srcTok>>
    /\ UNCHANGED <<moving, situation, stored, asked, legRes, late>>

---------------------------------------------------------------------------
(* The legs *)

Bad == {l \in AllLegs : legRes[l].how \notin {"none", "ok"}}

\* One leg's request.  Its answer says per key whether it was deleted.
Answers(l, errors) ==
    /\ stored' = [stored EXCEPT ![l] = @ \ (asked \ errors)]
    /\ legRes' = [legRes EXCEPT ![l] = [how |-> "ok", deleted |-> asked \ errors, errors |-> errors]]
    /\ UNCHANGED late

\* It fails: refused whole, not reached, answered with a body that does not parse (the keys are
\* gone), or dispatched with no answer.
Fails(l, how) ==
    /\ Cardinality(Bad) < MaxBadLegs
    /\ legRes' = [legRes EXCEPT ![l].how = how]
    /\ stored' = IF how = "unread" THEN [stored EXCEPT ![l] = @ \ asked] ELSE stored
    /\ late' = IF how = "cut" THEN late \cup {l} ELSE late

\* send: the source alone and first, then the rest, in any order.
Reach(l) ==
    /\ legRes[l].how = "none"
    /\ \/ delPc = "source" /\ IsSource(l) /\ delPc' = "rest"
       \/ delPc = "rest" /\ ~IsSource(l) /\ UNCHANGED delPc
    /\ \/ \E errors \in {{}} \cup {{k} : k \in asked} : Answers(l, errors)
       \/ \E how \in {"4xx", "5xx", "unreached", "unread", "cut"} : Fails(l, how)
    /\ UNCHANGED <<moving, situation, asked, reply, mutTok, srcTok>>

\* A dispatched delete lands after all, or never does.
Land(l) ==
    /\ l \in late /\ late' = late \ {l}
    /\ \/ stored' = [stored EXCEPT ![l] = @ \ asked]
       \/ UNCHANGED stored
    /\ UNCHANGED <<moving, situation, delPc, asked, legRes, reply, mutTok, srcTok>>

---------------------------------------------------------------------------
(* The answer *)

\* The owner by the tables alone.
OwnerLegOfTable(k) == OwnedBy[k]

\* owner: the leg whose answer speaks for a key.
OwnerLeg(k) == IF moving /\ k \in Moved THEN MoveTo ELSE OwnedBy[k]

\* The legs the loop over the answers reads: it returns at the first that failed, the source apart.
ReadTo ==
    LET failed == {i \in 1..Len(DeleteLegs) : DeleteLegs[i] \in Bad /\ ~IsSource(DeleteLegs[i])}
    IN  IF failed = {} THEN Len(DeleteLegs) ELSE Min(failed)

WholeFailure == \E i \in 1..ReadTo : DeleteLegs[i] \in Bad /\ ~IsSource(DeleteLegs[i])

SourceFailed == moving /\ MoveFrom \in Bad

\* No leg marks the request.
UncertainNever == FALSE

\* A leg the loop read was dispatched and did not answer.
Uncertain == \E i \in 1..ReadTo : legRes[DeleteLegs[i]].how = "cut" /\ ~IsSource(DeleteLegs[i])

SourceUncertain == moving /\ legRes[MoveFrom].how = "cut"

\* The keys nobody answers for when the source failed: those it still owns.
Unanswered == IF SourceFailed THEN {k \in asked : OwnerLeg(k) = MoveFrom} ELSE {}

\* A failed source is left out of the answer, as for the keys that move.
EntriesSilent ==
    [status  |-> "ok",
     deleted |-> {k \in asked : k \in legRes[OwnerLeg(k)].deleted},
     errors  |-> {k \in asked : k \in legRes[OwnerLeg(k)].errors}]

\* Each key's entry from the leg that owns it, an error when that is the failed source.
Entries ==
    [status  |-> "ok",
     deleted |-> {k \in asked : k \in legRes[OwnerLeg(k)].deleted},
     errors  |-> {k \in asked : k \in legRes[OwnerLeg(k)].errors} \cup Unanswered]

\* The answers are read, the client is answered, and the tokens go back with what is known.
AnswerDelete ==
    /\ delPc = "rest" /\ \A l \in AllLegs : legRes[l].how # "none"
    /\ Answered(IF WholeFailure THEN [NoReply EXCEPT !.status = "error"] ELSE Entries)
    /\ mutTok' = IF Uncertain \/ (~WholeFailure /\ SourceUncertain /\ Unanswered # {})
                 THEN "uncertain" ELSE "definitive"
    /\ srcTok' = CASE ~moving -> srcTok
                   [] SourceUncertain -> "uncertain"
                   [] OTHER -> "definitive"
    /\ UNCHANGED <<moving, situation, stored, asked, legRes, late>>

DeleteNext ==
    \/ RefuseDelete \/ Enter \/ ReadBody
    \/ \E l \in AllLegs : Reach(l) \/ Land(l)
    \/ AnswerDelete

---------------------------------------------------------------------------
(* A request answered with a result has exactly one entry for every key it named, also when the
   source of a move failed (spreaddelete.go, "it is an error, never silence"). *)
EntryPerKey ==
    reply.status = "ok" => reply.deleted \cap reply.errors = {} /\ reply.deleted \cup reply.errors = asked

(* A key answered as deleted is gone from the leg that serves it, and from the source of the move
   too unless the source failed whole or for that key (ADR-0004, the dual delete). *)
DeletedGone ==
    \A k \in reply.deleted :
        /\ k \notin stored[IF moving /\ k \in Moved THEN MoveTo ELSE OwnedBy[k]]
        /\ moving /\ k \in Moved => \/ k \notin stored[MoveFrom]
                                    \/ SourceFailed \/ k \in legRes[MoveFrom].errors

(* While a delete that was dispatched may still land, no token of the request has been given back
   as definitive on its account: the source's token is uncertain for the source's delete, and the
   mutation token for any other leg's and for keys the source still owns.  A drain that counts
   these tokens would otherwise pass a mutation that is still on its way
   (docs/design/distributed-correctness.md, "marks that scope/generation uncertain"). *)
LateIsUncertain ==
    delPc = "answered" =>
        \A l \in late :
            /\ IsSource(l) => srcTok = "uncertain"
            /\ (~IsSource(l) \/ \E k \in asked : OwnerLeg(k) = l) => mutTok = "uncertain"

(* The answer to a DeleteObjects of a spread bucket says what became of every key, and the gates'
   counts what may still happen to it (spreaddelete.go, spreadDeleteObjects). *)
DeleteAnswered == EntryPerKey /\ DeletedGone /\ LateIsUncertain
=============================================================================
