----------------------------- MODULE CrossCopy -----------------------------
(***************************************************************************)
(* A copy whose source object is on another cluster, or in a bucket that   *)
(* is migrating (internal/proxy/crosscopy.go): shunt reads the object from *)
(* the side that has it and writes it itself, whole or part by part, while *)
(* the source bucket migrates, is cut over and purged, and clients change  *)
(* both objects.                                                           *)
(*                                                                         *)
(* An object is its version, a number; 0 is no object.  Backends are       *)
(* external: each request to one is an atomic step, and a write that was   *)
(* dispatched and not answered may land later.                             *)
(***************************************************************************)
EXTENDS Integers, Sequences, FiniteSetsExt

CONSTANTS
    Layouts,      \* per version the number of its parts: a set of tuples
    CopyOps,          \* what is asked for: a subset of {"copy", "part"}
    Conds,        \* conditions on the destination: a subset of {"none", "create"}
    CondParts,    \* whether a conditional copy may be of an object with several parts
    CopyFaults,   \* what backends do: a subset of {"unreached", "refused", "cut", "error200"}
    MaxFaults, MaxChanges

VARIABLES
    layout,   \* the number of parts of each version
    phase,    \* of the source bucket: 1 migrating, 2 cut over, 3 source gate closing, 4 purged
    seen,     \* the phase this proxy's snapshot shows
    src,      \* [primary, source]: the version on each side of the source bucket
    dst,      \* the destination object: [meta, parts], parts is <<>> for none
    copyPc, copyOp, cond,
    plan,     \* where the source is read: [side, fallback], decided by the snapshot
    token,    \* whether the copy holds a token of the source gate
    meta,     \* the version copySourceHead answered
    body,     \* the versions of the parts read so far
    upload,   \* the multipart upload on the destination: "none", "open", "ended"
    pending,  \* the write that may still land: [meta, parts], parts is <<>> for none
    result,   \* the answer: "none", "ok", "NoSuchKey", "error", "precondition"
    unsure,   \* o.uncertain: the outcome on the destination is not known
    changed,  \* a client changed the source object since the copy began
    absent,   \* the source object was not there at some moment since it began
    clobbered,\* the copy's write replaced an object
    faults, changes

copyVars == <<layout, phase, seen, src, dst, copyPc, copyOp, cond, plan, token, meta, body, upload, pending,
              result, unsure, changed, absent, clobbered, faults, changes>>
sourceVars == <<layout, phase, seen, src, changed, absent, changes>>

NoObj == [meta |-> 0, parts |-> <<>>]
Current(s) == IF s.primary # 0 THEN s.primary ELSE s.source
MaxVersion == Len(layout)

CopyInit ==
    /\ layout \in Layouts
    /\ phase = 1 /\ seen = 1
    /\ src \in {[primary |-> 0, source |-> 1], [primary |-> 1, source |-> 1]}
    /\ dst = NoObj /\ copyPc = "idle" /\ copyOp \in CopyOps /\ cond \in Conds
    /\ ~CondParts /\ cond = "create" => \A v \in 1..MaxVersion : layout[v] = 1
    /\ plan = [side |-> "primary", fallback |-> FALSE] /\ token = FALSE
    /\ meta = 0 /\ body = <<>> /\ upload = "none" /\ pending = NoObj
    /\ result = "none" /\ unsure = FALSE
    /\ changed = FALSE /\ absent = FALSE /\ clobbered = FALSE /\ faults = 0 /\ changes = 0

---------------------------------------------------------------------------
(* The source bucket and other clients *)

SourceMoves(s) ==
    /\ src' = s
    /\ absent' = (absent \/ Current(s) = 0)

RestOfCopy == <<layout, dst, copyPc, copyOp, cond, plan, token, meta, body, upload, pending, result, unsure, clobbered, faults>>

\* Clients overwrite the source object (on the primary) or delete it (on both sides).
ClientPut ==
    /\ changes < MaxChanges /\ changes' = changes + 1
    /\ Max({src.primary, src.source}) < MaxVersion
    /\ SourceMoves([src EXCEPT !.primary = Max({src.primary, src.source}) + 1])
    /\ changed' = TRUE
    /\ UNCHANGED <<phase, seen, RestOfCopy>>

ClientDelete ==
    /\ changes < MaxChanges /\ changes' = changes + 1
    /\ SourceMoves([primary |-> 0, source |-> 0])
    /\ changed' = TRUE
    /\ UNCHANGED <<phase, seen, RestOfCopy>>

\* The mover copies the object, the converged bucket is cut over, its source gate closes, and once
\* this proxy has closed it and holds no token the source side is purged.
MoverCopies ==
    /\ phase = 1 /\ src.primary = 0 /\ src.source # 0
    /\ SourceMoves([src EXCEPT !.primary = src.source])
    /\ UNCHANGED <<phase, seen, changed, changes, RestOfCopy>>

SourceStep ==
    /\ phase < 4 /\ phase' = phase + 1
    /\ phase = 1 => (src.source # 0 => src.primary # 0)
    /\ phase = 2 => seen = 2
    /\ phase = 3 => seen = 3 /\ ~token
    /\ SourceMoves(IF phase = 3 THEN [src EXCEPT !.source = 0] ELSE src)
    /\ UNCHANGED <<seen, changed, changes, RestOfCopy>>

Install ==
    /\ seen < phase /\ seen' = seen + 1
    /\ UNCHANGED <<phase, src, changed, absent, changes, RestOfCopy>>

\* Another client creates the destination object.
DestPut ==
    /\ changes < MaxChanges /\ changes' = changes + 1 /\ dst.parts = <<>>
    /\ dst' = [meta |-> MaxVersion + 1, parts |-> <<MaxVersion + 1>>]
    /\ UNCHANGED <<layout, phase, seen, src, changed, absent, copyPc, copyOp, cond, plan, token, meta, body, upload,
                   pending, result, unsure, clobbered, faults>>

---------------------------------------------------------------------------
(* The copy *)

\* resolveCopySource: the snapshot decides where the object is read.  Reads fall back to the source
\* only while the bucket migrates, and only such a copy depends on the source.
Resolve ==
    /\ copyPc = "idle" /\ copyPc' = "resolved"
    /\ plan' = [side |-> "primary", fallback |-> seen = 1]
    /\ changed' = FALSE /\ absent' = (Current(src) = 0)
    /\ UNCHANGED <<layout, phase, seen, src, changes, dst, copyOp, cond, token, meta, body, upload, pending,
                   result, unsure, clobbered, faults>>

\* The request ends: the answer, and the tokens go back.
EndCopy(answer) == copyPc' = "done" /\ result' = answer /\ token' = FALSE

\* The copy goes on with what the snapshot said, and takes no token.
CopyEnterUncounted ==
    /\ copyPc = "resolved" /\ copyPc' = "head" /\ UNCHANGED <<token, result>>
    /\ UNCHANGED <<sourceVars, dst, copyOp, cond, plan, meta, body, upload, pending, unsure, clobbered, faults>>

\* A copy that depends on the source takes a token of its gate, and is refused where the proxy has
\* closed the gate since the snapshot.
CopyEnter ==
    /\ copyPc = "resolved"
    /\ IF plan.fallback /\ seen >= 3 THEN EndCopy("error")
       ELSE copyPc' = "head" /\ token' = plan.fallback /\ UNCHANGED result
    /\ UNCHANGED <<sourceVars, dst, copyOp, cond, plan, meta, body, upload, pending, unsure, clobbered, faults>>

Fault(f) == f \in CopyFaults /\ faults < MaxFaults /\ faults' = faults + 1

\* A read of the source that cannot be made fails the copy, and its open upload with it.
ReadFails ==
    /\ copyPc \in {"head", "head2", "get", "parts"}
    /\ Fault("unreached")
    /\ IF upload = "open"
       THEN copyPc' = "abort" /\ result' = "error" /\ UNCHANGED token
       ELSE EndCopy("error")
    /\ UNCHANGED <<sourceVars, dst, copyOp, cond, plan, meta, body, upload, pending, unsure, clobbered>>

\* copySourceHead; on 404 the other side of a migrating bucket is asked.
CopySourceHead ==
    /\ copyPc \in {"head", "head2"}
    /\ LET v == src[plan.side] IN
       CASE v # 0 -> /\ copyPc' = "get" /\ meta' = v /\ UNCHANGED <<plan, result, token>>
         [] v = 0 /\ copyPc = "head" /\ plan.fallback ->
                     /\ copyPc' = "head2" /\ plan' = [plan EXCEPT !.side = "source"]
                     /\ UNCHANGED <<meta, result, token>>
         [] OTHER -> EndCopy("NoSuchKey") /\ UNCHANGED <<plan, meta>>
    /\ UNCHANGED <<sourceVars, dst, copyOp, cond, body, upload, pending, unsure, clobbered, faults>>

ByParts == copyOp = "copy" /\ layout[meta] > 1

\* copySourceBody: the read of the object, or of a range of it for a part.
GetBody ==
    /\ copyPc = "get" /\ ~ByParts
    /\ LET v == src[plan.side] IN
       IF v = 0 THEN EndCopy("NoSuchKey") /\ UNCHANGED body
       ELSE copyPc' = "put" /\ body' = <<v>> /\ UNCHANGED <<result, token>>
    /\ UNCHANGED <<sourceVars, dst, copyOp, cond, plan, meta, upload, pending, unsure, clobbered, faults>>

\* createUpload.
CreateUpload ==
    /\ copyPc = "get" /\ ByParts
    /\ copyPc' = "parts" /\ upload' = "open"
    /\ UNCHANGED <<sourceVars, dst, copyOp, cond, plan, token, meta, body, pending, result, unsure, clobbered, faults>>

\* copyOnePart: the next part, read from the source as it is now, written to the upload.
CopyOnePart ==
    /\ copyPc = "parts" /\ Len(body) < layout[meta]
    /\ LET v == src[plan.side]
           has == v # 0 /\ Len(body) < layout[v]
       IN  IF has THEN body' = Append(body, v) /\ UNCHANGED <<copyPc, result>>
                  ELSE copyPc' = "abort" /\ result' = "error" /\ UNCHANGED body
    /\ UNCHANGED <<sourceVars, dst, copyOp, cond, plan, token, meta, upload, pending, unsure, clobbered, faults>>

\* What the write puts on the destination; a part of a client's own upload makes no object.
Written == [meta |-> meta, parts |-> body]

Store(obj) ==
    IF copyOp = "part" THEN UNCHANGED <<dst, clobbered>>
    ELSE dst' = obj /\ clobbered' = (clobbered \/ dst.parts # <<>>)

\* applyCondAction: the condition goes with the one PUT of a copy and the backend judges it there.
ConditionFails == copyOp = "copy" /\ cond = "create" /\ dst.parts # <<>>

\* The PUT without the condition.
PutAlways ==
    /\ copyPc = "put"
    /\ EndCopy("ok") /\ Store(Written)
    /\ UNCHANGED <<sourceVars, copyOp, cond, plan, meta, body, upload, pending, unsure, faults>>

\* The one PUT of copyWhole or copyPart, under the client's condition.
Put ==
    /\ copyPc = "put"
    /\ IF ConditionFails
       THEN EndCopy("precondition") /\ UNCHANGED <<dst, clobbered>>
       ELSE EndCopy("ok") /\ Store(Written)
    /\ UNCHANGED <<sourceVars, copyOp, cond, plan, meta, body, upload, pending, unsure, faults>>

\* A part fewer than the object has.
CompleteEarly ==
    /\ copyPc = "parts" /\ Len(body) >= layout[meta] - 1
    /\ EndCopy("ok") /\ upload' = "ended" /\ Store(Written)
    /\ UNCHANGED <<sourceVars, copyOp, cond, plan, meta, body, pending, unsure, faults>>

\* completeUpload; the client's condition is not on it, and a 200 with an error in its body counts
\* as done.
Complete ==
    /\ copyPc = "parts" /\ Len(body) = layout[meta]
    /\ EndCopy("ok")
    /\ \/ upload' = "ended" /\ Store(Written) /\ UNCHANGED faults
       \/ Fault("error200") /\ UNCHANGED <<upload, dst, clobbered>>
    /\ UNCHANGED <<sourceVars, copyOp, cond, plan, meta, body, pending, unsure>>

\* Whether the next request of the copy writes to the destination.
Writes == copyPc \in {"put", "parts"} \/ (copyPc = "get" /\ ByParts)

\* It would make the object.
Commits == copyPc = "put" \/ (copyPc = "parts" /\ Len(body) = layout[meta])

\* A failed write is a definitive one.
WriteFailsDefinitive ==
    /\ Writes
    /\ \/ Fault("unreached") /\ UNCHANGED pending
       \/ Fault("refused") /\ UNCHANGED pending
       \/ Fault("cut") /\ pending' = IF Commits /\ copyOp = "copy" THEN Written ELSE pending
    /\ IF upload = "open" THEN copyPc' = "abort" /\ result' = "error" /\ UNCHANGED token
                          ELSE EndCopy("error")
    /\ UNCHANGED <<sourceVars, dst, copyOp, cond, plan, meta, body, upload, unsure, clobbered>>

\* The destination refuses a write, is not reached, or takes it and does not answer.
WriteFails ==
    /\ Writes
    /\ \/ Fault("unreached") /\ UNCHANGED <<pending, unsure>>
       \/ Fault("refused") /\ UNCHANGED <<pending, unsure>>
       \/ Fault("cut") /\ unsure' = TRUE /\ pending' = IF Commits /\ copyOp = "copy" THEN Written ELSE pending
    /\ IF upload = "open" THEN copyPc' = "abort" /\ result' = "error" /\ UNCHANGED token
                          ELSE EndCopy("error")
    /\ UNCHANGED <<sourceVars, dst, copyOp, cond, plan, meta, body, upload, clobbered>>

\* abortUpload, whose own failure only marks the outcome: an answer that was cut off is unsure.
Abort ==
    /\ copyPc = "abort"
    /\ EndCopy(result)
    /\ \/ upload' = "ended" /\ pending' = NoObj /\ UNCHANGED <<unsure, faults>>
       \/ Fault("unreached") /\ UNCHANGED <<upload, pending, unsure>>
       \/ Fault("cut") /\ unsure' = TRUE /\ UNCHANGED <<upload, pending>>
    /\ UNCHANGED <<sourceVars, dst, copyOp, cond, plan, meta, body, clobbered>>

\* A write that was dispatched lands, or never does; a conditional one still meets its condition.
CopyLands ==
    /\ pending.parts # <<>> /\ pending' = NoObj
    /\ \/ UNCHANGED <<dst, clobbered>>
       \/ ~(upload = "none" /\ ConditionFails) /\ Store(pending)
    /\ UNCHANGED <<sourceVars, copyPc, copyOp, cond, plan, token, meta, body, upload, result, unsure, faults>>

CopyNext ==
    \/ ClientPut \/ ClientDelete \/ MoverCopies \/ SourceStep \/ Install \/ DestPut
    \/ Resolve \/ CopyEnter \/ ReadFails \/ CopySourceHead \/ GetBody \/ CreateUpload \/ CopyOnePart
    \/ Put \/ Complete \/ WriteFails \/ Abort \/ CopyLands

---------------------------------------------------------------------------
(* A copy answered NoSuchKey: its source object was absent at some moment of the copy.  Between the
   404 of one side and the read of the other the object may be copied, the bucket cut over and the
   source purged, but for the token of the source gate (resign.go, Gates.Enter; crosscopy.go,
   copySourceHead). *)
CopyFinds == result = "NoSuchKey" => absent

(* A copy answered as done left the whole source object on the destination, metadata and every part
   of one version, unless a client changed the source object while it was read or the destination
   after (crosscopy.go, copyWhole, copyByParts). *)
CopyDone ==
    result = "ok" /\ copyOp = "copy" /\ ~changed =>
        \/ dst.meta > MaxVersion
        \/ dst.meta \in 1..MaxVersion /\ dst.parts = [i \in 1..layout[dst.meta] |-> dst.meta]

(* A copy answered as failed, and not counted as uncertain, has changed nothing and nothing of it
   lands later: "a half-copied object never appears" (docs/adr/0014). *)
CopyFailedClean ==
    copyPc = "done" /\ result # "ok" /\ ~unsure => dst.meta \in {0, MaxVersion + 1} /\ pending = NoObj

(* A copy that asked to create the object never replaces one, now or when it lands late ("create-once
   and update-if-current mean the same on a copy as on a PUT", docs/adr/0014). *)
CopyCreatesOnce == cond = "create" => ~clobbered

(* The answer to a copy between clusters says what the copy did (crosscopy.go, streamCopy). *)
CopyAnswered == CopyFinds /\ CopyDone /\ CopyFailedClean /\ CopyCreatesOnce
=============================================================================
