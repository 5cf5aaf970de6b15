----------------------------- MODULE Migration -----------------------------
(***************************************************************************)
(* The data plane of a live migration, for one object key: what clients,   *)
(* the mover and the control plane's steps do to the key's two copies, one *)
(* on the source bucket and one on the target ("primary") bucket.          *)
(*                                                                         *)
(* A client request is routed by the rule its key has under the placement  *)
(* (internal/migrate/route.go, Decide) and takes one step per backend      *)
(* request.  The mover (internal/mover/mover.go) copies the key with the   *)
(* guard the target's capabilities allow.  The control plane's steps       *)
(* (internal/control/ops.go) hold, wait for the mutations in flight, and   *)
(* commit; that the drain really empties the fleet is the subject of       *)
(* DrainBarrier, here it is the guard "no mutation in flight".             *)
(*                                                                         *)
(* Backends are external: a bucket holds at most one value per key, an     *)
(* object request is atomic there, and a value is named by the request     *)
(* that wrote it.                                                          *)
(***************************************************************************)
EXTENDS Naturals, FiniteSets

CONSTANTS
    Ops,          \* the client mutations: each is sent at most once
    Kinds,        \* the kinds of mutation they may be
    CondWrite,    \* the target honours If-None-Match: * (capabilities.conditional_write)
    CondDelete,   \* the target honours If-Match on DELETE (capabilities.conditional_delete)
    MaxPasses,    \* bound on the mover's passes
    Faults        \* the failures the documentation lists as open windows

Absent == "absent"
Orig   == "orig"
Sides  == {"src", "dst"}
Values == Ops \cup {Orig, Absent}

\* A mutation's name is no other value's, and the kinds are the ones modelled.
ASSUME OpsNamed == Orig \notin Ops /\ Absent \notin Ops
ASSUME KindsKnown == Kinds \subseteq {"put", "create", "update", "delete", "upload"}

\* The key's rule: the row of Decide's table that its placement and ramp put it in.
\*   active    ACTIVE on the source           out        RAMPING, the key outside the range
\*   held      RAMPING, the key in the hold   in         RAMPING, the key inside the range
\*   migrating MIGRATING                      cutover    CUTOVER
\*   done      ACTIVE on the target
Rules == {"active", "out", "held", "in", "migrating", "cutover", "done"}

VARIABLES
    obj,        \* [Sides -> Values]: the key's value in each bucket
    rule,       \* the rule in force for the key
    bar,        \* the placement's barrier: "none", "mutations" or "source"
    step,       \* the held step [from, to] behind the barrier
    op,         \* per mutation: its kind, the route it was admitted with, and how far it is
    legal,      \* the mutations whose value may be the key's value (see NoLostWrite)
    completed,  \* the mutations answered with success
    reader,     \* one client read
    mover,      \* the mover: where in the key's copy it is
    converged,  \* the mover's last report, as the control node holds it for this generation
    fell,       \* a read fell back to the source since the quiet window began
    first       \* the key's value before the migration

vars == <<obj, rule, bar, step, op, legal, completed, reader, mover, converged, fell, first>>

Idle == [pc |-> "idle", kind |-> "put", side |-> "src", mode |-> "plain", before |-> {}]
NoRead == [pc |-> "idle", side |-> "src", fallback |-> FALSE, acc |-> {}, moved |-> FALSE, val |-> Absent]
NoStep == [from |-> "active", to |-> "active"]
MoverIdle == [pc |-> "idle", copy |-> Absent, result |-> "none", past |-> FALSE, passes |-> 0]

Init ==
    /\ first \in {Orig, Absent}
    /\ obj = [s \in Sides |-> IF s = "src" THEN first ELSE Absent]
    /\ rule = "active" /\ bar = "none" /\ step = NoStep
    /\ op = [x \in Ops |-> Idle]
    /\ legal = {Orig} /\ completed = {Orig}
    /\ reader = NoRead /\ mover = MoverIdle
    /\ converged = FALSE /\ fell = FALSE

-----------------------------------------------------------------------------
(* Routing. *)

\* Decide for writes: the bucket a write of the key goes to.
WriteSide == IF rule \in {"active", "out"} THEN "src" ELSE "dst"

\* Decide for deletes: both buckets while the placement has a source.
DeleteBoth == rule \notin {"active", "done"}
DeleteSide == IF rule = "active" THEN "src" ELSE "dst"

\* Decide for reads: the bucket asked first, and whether a 404 falls back to the source.
ReadSide == IF rule \in {"active", "out"} THEN "src" ELSE "dst"
\* (a mutation of ReadFallback: a held key is read on the target alone)
ReadFallbackNotHeld == rule \in {"in", "migrating"}

ReadFallback == rule \in {"held", "in", "migrating"}

\* What a read under the rule in force would answer.
Visible == IF ReadFallback /\ obj.dst = Absent THEN obj.src ELSE obj[ReadSide]

Other(s) == IF s = "src" THEN "dst" ELSE "src"

\* The placement's other bucket is asked about a precondition only mid-migration.
OtherMatters == rule \in {"out", "held", "in", "migrating"}

InFlight(x) == op[x].pc \in {"other", "dest", "send", "srcleg", "primleg"}
Drained == \A x \in Ops : ~InFlight(x)
UsesSource(x) == op[x].kind = "delete" /\ op[x].pc \in {"srcleg", "primleg"}

ValueOf(x) == IF x = Orig THEN first ELSE IF op[x].kind = "delete" THEN Absent ELSE x

-----------------------------------------------------------------------------
(* Client mutations (internal/proxy/resign.go, conditional.go, handler.go). *)

\* x is on its way: from here on its value may be the key's value.
Invoke(x, k, s, m, p) ==
    /\ op' = [op EXCEPT ![x] = [pc |-> p, kind |-> k, side |-> s, mode |-> m, before |-> completed]]
    /\ legal' = legal \cup {x}
    /\ reader' = IF reader.pc = "idle" THEN reader ELSE [reader EXCEPT !.acc = @ \cup {x}]

\* x was answered with success: what had been answered before x was sent is overwritten.
Finish(x) ==
    /\ op' = [op EXCEPT ![x].pc = "done"]
    /\ legal' = legal \ op[x].before
    /\ completed' = completed \cup {x}

\* x was answered with an error before anything was written: it changed nothing.
Refuse(x) ==
    /\ op' = [op EXCEPT ![x].pc = "refused"]
    /\ legal' = legal \ {x}
    /\ UNCHANGED completed

\* prepareResign: the closed mutations gate refuses everything, the closed source gate the deletes
\* that need the source; otherwise the request is routed and keeps its route until it ends.
Admit(x, k) ==
    /\ op[x].pc = "idle" /\ k \in Kinds
    /\ bar # "mutations"
    /\ k = "delete" => ~(bar = "source" /\ DeleteBoth)
    /\ \/ k = "delete" /\ DeleteBoth /\ Invoke(x, k, "dst", "both", "srcleg")
       \/ k = "delete" /\ ~DeleteBoth /\ Invoke(x, k, DeleteSide, "plain", "primleg")
       \/ k = "put" /\ Invoke(x, k, WriteSide, "plain", "send")
       \/ /\ k = "upload" /\ UNCHANGED <<legal, reader>>
          /\ op' = [op EXCEPT ![x] = [pc |-> "open", kind |-> k, side |-> WriteSide, mode |-> "plain", before |-> {}]]
       \/ k = "create" /\ Invoke(x, k, WriteSide, "absent",
                                 IF OtherMatters THEN "other" ELSE IF CondWrite THEN "send" ELSE "dest")
       \/ k = "update" /\ Invoke(x, k, WriteSide, "match", IF OtherMatters THEN "other" ELSE "send")
    /\ UNCHANGED <<obj, rule, bar, step, completed, mover, converged, fell, first>>

\* A completion names its upload, whose id is bound to the bucket it was created on: it goes there
\* whatever the key's rule has become (uploadRole).
CompleteUpload(x) ==
    /\ op[x].pc = "open" /\ bar # "mutations"
    /\ op[x].side # WriteSide => "upload" \in Faults
    /\ ~(op[x].side = "src" /\ rule = "done")
    /\ Invoke(x, op[x].kind, op[x].side, op[x].mode, "send")
    /\ UNCHANGED <<obj, rule, bar, step, completed, mover, converged, fell, first>>

AbortUpload(x) ==
    /\ op[x].pc = "open" /\ bar # "mutations"
    /\ op' = [op EXCEPT ![x].pc = "refused"]
    /\ UNCHANGED <<obj, rule, bar, step, legal, completed, reader, mover, converged, fell, first>>

\* (a mutation of HeadOther: the other bucket is not asked)
HeadOtherBlind(x) ==
    /\ op[x].pc = "other"
    /\ op' = [op EXCEPT ![x].pc = IF op[x].mode = "absent" /\ CondWrite THEN "send" ELSE "dest"]
    /\ UNCHANGED <<obj, rule, bar, step, legal, completed, reader, mover, converged, fell, first>>

\* headKey, etagMatches: the bucket's copy is the version the client's If-Match names.
Matches(there) == there = Orig

\* conditionalWrite, the HEAD of the other bucket: If-None-Match fails if the key is there; an
\* If-Match needs the version the client holds, there or on the destination.
HeadOther(x) ==
    /\ op[x].pc = "other"
    /\ LET there == obj[Other(op[x].side)]
       IN  \/ /\ op[x].mode = "absent" /\ there # Absent
              /\ Refuse(x)
           \/ /\ op[x].mode = "absent" /\ there = Absent
              /\ op' = [op EXCEPT ![x].pc = IF CondWrite THEN "send" ELSE "dest"]
              /\ UNCHANGED <<legal, completed>>
           \/ /\ op[x].mode = "match"
              /\ op' = [op EXCEPT ![x].pc = "dest", ![x].mode = IF Matches(there) THEN "matched" ELSE "match"]
              /\ UNCHANGED <<legal, completed>>
    /\ UNCHANGED <<obj, rule, bar, step, reader, mover, converged, fell, first>>

\* conditionalWrite, the HEAD of the destination.  With a copy there its backend judges If-Match;
\* without one the other bucket's copy must have matched, and the write goes out as create-only
\* where the destination can refuse it.
HeadDest(x) ==
    /\ op[x].pc = "dest"
    /\ LET there == obj[op[x].side]
       IN  \/ /\ op[x].mode = "absent" /\ there # Absent
              /\ Refuse(x)
           \/ /\ op[x].mode = "absent" /\ there = Absent
              /\ op' = [op EXCEPT ![x].pc = "send", ![x].mode = "plain"]
              /\ UNCHANGED <<legal, completed>>
           \/ /\ op[x].mode \in {"match", "matched"} /\ there # Absent
              /\ op' = [op EXCEPT ![x].pc = "send", ![x].mode = "match"]
              /\ UNCHANGED <<legal, completed>>
           \/ /\ op[x].mode = "match" /\ there = Absent
              /\ Refuse(x)
           \/ /\ op[x].mode = "matched" /\ there = Absent
              /\ op' = [op EXCEPT ![x].pc = "send", ![x].mode = IF CondWrite THEN "absent" ELSE "plain"]
              /\ UNCHANGED <<legal, completed>>
    /\ UNCHANGED <<obj, rule, bar, step, reader, mover, converged, fell, first>>

\* The backend judges the precondition the request still carries.
Holds(x) == CASE op[x].mode = "plain"  -> TRUE
              [] op[x].mode = "absent" -> obj[op[x].side] = Absent
              [] OTHER                 -> obj[op[x].side] = Orig

\* roundTrip and relay for a write: the backend applies it or answers 412.
Send(x) ==
    /\ op[x].pc = "send"
    /\ \/ Holds(x) /\ obj' = [obj EXCEPT ![op[x].side] = x] /\ Finish(x)
       \/ ~Holds(x) /\ obj' = obj /\ Refuse(x)
    /\ UNCHANGED <<rule, bar, step, reader, mover, converged, fell, first>>

\* deleteOnSource: the source leg of a delete, before the primary's.  Its failure does not stop
\* the primary leg.
DeleteOnSource(x) ==
    /\ op[x].pc = "srcleg"
    /\ op' = [op EXCEPT ![x].pc = "primleg"]
    /\ \/ obj' = [obj EXCEPT !.src = Absent]
       \/ "sourceleg" \in Faults /\ obj' = obj
    /\ UNCHANGED <<rule, bar, step, legal, completed, reader, mover, converged, fell, first>>

\* ServeHTTP: the delete's own bucket, and the answer.  An error leaves the client not knowing
\* whether the key is gone.
DeleteOnPrimary(x) ==
    /\ op[x].pc = "primleg"
    /\ \/ obj' = [obj EXCEPT ![op[x].side] = Absent] /\ Finish(x)
       \/ obj' = obj /\ op' = [op EXCEPT ![x].pc = "failed"] /\ UNCHANGED <<legal, completed>>
    /\ UNCHANGED <<rule, bar, step, reader, mover, converged, fell, first>>

-----------------------------------------------------------------------------
(* A client read (handler.go relay, buckets.go fallbackRead). *)

ReadAdmit ==
    /\ reader.pc = "idle"
    /\ reader' = [NoRead EXCEPT !.pc = "first", !.side = ReadSide, !.fallback = ReadFallback,
                  !.acc = legal, !.moved = (mover.pc # "idle")]
    /\ UNCHANGED <<obj, rule, bar, step, op, legal, completed, mover, converged, fell, first>>

ReadFirst ==
    /\ reader.pc = "first"
    /\ reader' = IF reader.fallback /\ obj[reader.side] = Absent
                 THEN [reader EXCEPT !.pc = "fallback"]
                 ELSE [reader EXCEPT !.pc = "done", !.val = obj[reader.side]]
    /\ UNCHANGED <<obj, rule, bar, step, op, legal, completed, mover, converged, fell, first>>

\* A source that fails or has nothing leaves the primary's 404; a hit is counted for cutover.
FallbackRead ==
    /\ reader.pc = "fallback"
    /\ reader' = [reader EXCEPT !.pc = "done", !.val = obj.src]
    /\ fell' = (fell \/ obj.src # Absent)
    /\ UNCHANGED <<obj, rule, bar, step, op, legal, completed, mover, converged, first>>

-----------------------------------------------------------------------------
(* The mover (internal/mover/mover.go): one pass at a time over the source's listing. *)

\* selectPlacements and move: every client write must go to the target already, and the operation
\* reserves the placement.  A pass starts after the cursor an interrupted one left.
MoverStart ==
    /\ mover.pc = "idle" /\ mover.passes < MaxPasses
    /\ rule \in {"in", "migrating"} /\ bar = "none"
    /\ mover' = [mover EXCEPT !.passes = @ + 1, !.copy = Absent,
                 !.pc = IF mover.past \/ obj.src = Absent THEN "end" ELSE "head",
                 !.result = "none"]
    /\ reader' = IF reader.pc \in {"first", "fallback"} THEN [reader EXCEPT !.moved = TRUE] ELSE reader
    /\ UNCHANGED <<obj, rule, bar, step, op, legal, completed, converged, fell, first>>

\* The key's copy is over with the given result, and the cursor moves past the key: whatever the
\* result.
Copied(r) == mover' = [mover EXCEPT !.pc = "end", !.result = r, !.past = TRUE]

\* copyOne: HEAD of the source, HEAD of the target.
HeadBoth ==
    /\ mover.pc = "head"
    /\ \/ obj.src = Absent /\ Copied("vanished")
       \/ obj.src # Absent /\ obj.dst # Absent /\ Copied("skipped")
       \/ obj.src # Absent /\ obj.dst = Absent /\ mover' = [mover EXCEPT !.pc = "get"]
       \/ Copied("error")
    /\ UNCHANGED <<obj, rule, bar, step, op, legal, completed, reader, converged, fell, first>>

\* copySingle, copyMultipart: the object is read from the source ...
GetSource ==
    /\ mover.pc = "get"
    /\ \/ obj.src = Absent /\ Copied("vanished")
       \/ obj.src # Absent /\ mover' = [mover EXCEPT !.pc = "put", !.copy = obj.src]
       \/ Copied("error")
    /\ UNCHANGED <<obj, rule, bar, step, op, legal, completed, reader, converged, fell, first>>

\* ... and written to the target, with If-None-Match: * where it is honoured.
PutTarget ==
    /\ mover.pc = "put"
    /\ \/ /\ CondWrite => obj.dst = Absent
          /\ obj' = [obj EXCEPT !.dst = mover.copy]
          /\ mover' = [mover EXCEPT !.pc = "recheck"]
       \/ CondWrite /\ obj.dst # Absent /\ obj' = obj /\ Copied("skipped")
       \/ obj' = obj /\ Copied("error")
    /\ UNCHANGED <<rule, bar, step, op, legal, completed, reader, converged, fell, first>>

\* (a mutation of Recheck: the copy stands whatever became of the source)
RecheckNothing ==
    /\ mover.pc = "recheck"
    /\ Copied("copied")
    /\ UNCHANGED <<obj, rule, bar, step, op, legal, completed, reader, converged, fell, first>>

\* copyOne: HEAD of the source again; only a 404 there makes the copy a resurrection.
Recheck ==
    /\ mover.pc = "recheck"
    /\ \/ obj.src = Absent /\ mover' = [mover EXCEPT !.pc = IF CondDelete THEN "withdraw" ELSE "own"]
       \/ obj.src # Absent /\ Copied("copied")
       \/ "recheck" \in Faults /\ Copied("copied")
    /\ UNCHANGED <<obj, rule, bar, step, op, legal, completed, reader, converged, fell, first>>

\* withdraw: DELETE with If-Match on the copy's ETag; without conditional_delete a HEAD that must
\* show the mover's own copy (ownCopy), then an unconditional DELETE.
Withdraw ==
    /\ \/ /\ mover.pc = "own" /\ obj' = obj
          /\ IF obj.dst = mover.copy THEN mover' = [mover EXCEPT !.pc = "delete"] ELSE Copied("vanished")
       \/ /\ mover.pc = "withdraw"
          /\ obj' = IF obj.dst = mover.copy THEN [obj EXCEPT !.dst = Absent] ELSE obj
          /\ Copied("vanished")
       \/ /\ mover.pc = "delete" /\ obj' = [obj EXCEPT !.dst = Absent]
          /\ Copied("vanished")
       \/ /\ mover.pc \in {"own", "withdraw", "delete"} /\ "recheck" \in Faults
          /\ obj' = obj /\ Copied("error")
    /\ UNCHANGED <<rule, bar, step, op, legal, completed, reader, converged, fell, first>>

\* reportPass: the pass copied nothing and failed nothing.
Converged(result) == result \notin {"copied", "error"}

\* (a mutation of MoverEnd: a failed copy does not stop convergence)
MoverEndIgnoresErrors ==
    /\ mover.pc = "end"
    /\ converged' = (mover.result # "copied")
    /\ mover' = [mover EXCEPT !.pc = "idle", !.past = FALSE]
    /\ UNCHANGED <<obj, rule, bar, step, op, legal, completed, reader, fell, first>>

\* move, Run and moverProgress: the pass reached the end of the bucket, its cursor is removed, and
\* it converged if it copied nothing and failed nothing.  The report is for the placement's
\* generation, so every step below discards it.
MoverEnd ==
    /\ mover.pc = "end"
    /\ converged' = Converged(mover.result)
    /\ mover' = [mover EXCEPT !.pc = "idle", !.past = FALSE]
    /\ UNCHANGED <<obj, rule, bar, step, op, legal, completed, reader, fell, first>>

\* The mover is interrupted after the key; its cursor stays.  The control node keeps no report.
MoverStopped ==
    /\ mover.pc = "end"
    /\ mover.result = "error" => "resume" \in Faults
    /\ mover' = [mover EXCEPT !.pc = "idle"]
    /\ converged' = FALSE
    /\ UNCHANGED <<obj, rule, bar, step, op, legal, completed, reader, fell, first>>

-----------------------------------------------------------------------------
(* The control plane's steps (internal/control/ops.go).  Each reserves the placement, so none runs
   beside another or beside the mover, and each changes the placement's generation. *)

Reserved == bar # "none" \/ mover.pc # "idle"

Unreported == converged' = FALSE /\ UNCHANGED <<op, legal, completed, reader, mover, first>>

\* fencedStep's hold: a ramp step that takes the key in or leaves it out, or migrate start.  While
\* the step is held the key's writes have no home.
StepHold ==
    \E to \in {"out", "in", "migrating"} :
        /\ ~Reserved
        /\ \/ rule \in {"active", "out"}
           \/ rule = "in" /\ to = "migrating"
        /\ step' = [from |-> rule, to |-> to]
        /\ rule' = CASE to = "out" -> "out" [] rule = "in" -> "in" [] OTHER -> "held"
        /\ bar' = "mutations"
        /\ Unreported
        /\ UNCHANGED <<obj, fell>>

\* fencedStep's commit, once every mutation admitted before the hold has ended.
StepCommit ==
    /\ bar = "mutations" /\ rule \in {"out", "held", "in"}
    /\ Drained
    /\ rule' = step.to /\ bar' = "none" /\ step' = NoStep
    /\ Unreported
    /\ UNCHANGED <<obj, fell>>

\* (a mutation of StepRelease: the barrier ends and the hold stays)
StepReleaseKeepsHold ==
    /\ bar = "mutations" /\ rule \in {"out", "held", "in"}
    /\ bar' = "none" /\ step' = NoStep
    /\ Unreported
    /\ UNCHANGED <<obj, rule, fell>>

\* release: the operation is cancelled before its commit.
StepRelease ==
    /\ bar = "mutations" /\ rule \in {"out", "held", "in"}
    /\ rule' = step.from /\ bar' = "none" /\ step' = NoStep
    /\ Unreported
    /\ UNCHANGED <<obj, fell>>

\* fencedStep for a ramp already at ratio 1: migrate start moves no write and needs no hold.
MigrateStep ==
    /\ ~Reserved /\ rule = "in"
    /\ rule' = "migrating"
    /\ Unreported
    /\ UNCHANGED <<obj, bar, step, fell>>

\* (a mutation of CutoverHold: a report of any outcome will do)
CutoverHoldUnconverged ==
    /\ ~Reserved /\ rule = "migrating" /\ mover.passes > 0
    /\ bar' = "mutations" /\ step' = [from |-> "migrating", to |-> "cutover"]
    /\ fell' = FALSE
    /\ Unreported
    /\ UNCHANGED <<obj, rule>>

\* runCutover up to its hold: a converged report of this generation, then watchQuiet's window.
CutoverHold ==
    /\ ~Reserved /\ rule = "migrating" /\ converged
    /\ bar' = "mutations" /\ step' = [from |-> "migrating", to |-> "cutover"]
    /\ fell' = FALSE
    /\ Unreported
    /\ UNCHANGED <<obj, rule>>

\* runCutover's commit: drained, no upload open on the source, and stillQuiet.
CutoverCommit ==
    /\ bar = "mutations" /\ rule = "migrating"
    /\ Drained /\ ~fell
    /\ \A x \in Ops : ~(op[x].pc = "open" /\ op[x].side = "src")
    /\ rule' = "cutover" /\ bar' = "none" /\ step' = NoStep
    /\ Unreported
    /\ UNCHANGED <<obj, fell>>

CutoverRelease ==
    /\ bar = "mutations" /\ rule = "migrating"
    /\ bar' = "none" /\ step' = NoStep
    /\ Unreported
    /\ UNCHANGED <<obj, rule, fell>>

\* purgeChecks' listing diff: the source holds nothing the primary does not.
SourceSubset == obj.src # Absent => obj.dst # Absent

\* runPurge's hold: the first diff, then the source gate closes.
PurgeHold ==
    /\ ~Reserved /\ rule = "cutover" /\ SourceSubset
    /\ bar' = "source"
    /\ Unreported
    /\ UNCHANGED <<obj, rule, step, fell>>

\* Nothing is dispatched: a non-empty second diff or the operator ends the purge.
PurgeRelease ==
    /\ bar = "source" /\ step = NoStep
    /\ bar' = "none"
    /\ Unreported
    /\ UNCHANGED <<obj, rule, step, fell>>

SourceDrained == (\A x \in Ops : ~UsesSource(x)) /\ ~(reader.pc \in {"first", "fallback"} /\ reader.fallback)

\* runPurge's commit: drained, the diff taken again, the source emptied and its bucket deleted
\* (DispatchStarted: from here it can only be carried on) ...
PurgeDispatch ==
    /\ bar = "source" /\ step = NoStep
    /\ SourceDrained /\ SourceSubset
    /\ obj' = [obj EXCEPT !.src = Absent]
    /\ step' = [from |-> "cutover", to |-> "done"]
    /\ Unreported
    /\ UNCHANGED <<rule, bar, fell>>

\* ... and the placement committed to ACTIVE on the target.
PurgeCommit ==
    /\ bar = "source" /\ step.to = "done"
    /\ rule' = "done" /\ bar' = "none" /\ step' = NoStep
    /\ Unreported
    /\ UNCHANGED <<obj, fell>>

\* runFinish: the source is dropped from the placement and its data left alone.
FinishMigration ==
    /\ ~Reserved /\ rule = "cutover"
    /\ rule' = "done"
    /\ Unreported
    /\ UNCHANGED <<obj, bar, step, fell>>

-----------------------------------------------------------------------------

Next ==
    \/ \E x \in Ops, k \in Kinds : Admit(x, k)
    \/ \E x \in Ops : CompleteUpload(x)
    \/ \E x \in Ops : AbortUpload(x)
    \/ \E x \in Ops : HeadOther(x)
    \/ \E x \in Ops : HeadDest(x)
    \/ \E x \in Ops : Send(x)
    \/ \E x \in Ops : DeleteOnSource(x)
    \/ \E x \in Ops : DeleteOnPrimary(x)
    \/ ReadAdmit \/ ReadFirst \/ FallbackRead
    \/ MoverStart \/ HeadBoth \/ GetSource \/ PutTarget \/ Recheck \/ Withdraw
    \/ MoverEnd \/ MoverStopped
    \/ StepHold \/ StepCommit \/ StepRelease \/ MigrateStep
    \/ CutoverHold \/ CutoverCommit \/ CutoverRelease
    \/ PurgeHold \/ PurgeRelease \/ PurgeDispatch \/ PurgeCommit \/ FinishMigration

Spec == Init /\ [][Next]_vars

-----------------------------------------------------------------------------
(* Properties. *)

\* Every variable stays in its domain; in particular a held key's step always names a rule the
\* code's transition table lets the placement leave.
TypeOK ==
    /\ obj \in [Sides -> Values] /\ rule \in Rules /\ bar \in {"none", "mutations", "source"}
    /\ step.from \in Rules /\ step.to \in Rules
    /\ legal \subseteq Ops \cup {Orig} /\ completed \subseteq Ops \cup {Orig}
    /\ converged \in BOOLEAN /\ fell \in BOOLEAN
    /\ rule = "held" => bar = "mutations" /\ step.from \in {"active", "out"}

\* "After CUTOVER ... every key written and not deleted is readable with the last-written content;
\* every deleted key is absent" (docs/DESIGN.md): with nothing in flight, a read under the rule in
\* force answers the value of a mutation that no later acknowledged mutation replaced.  A lost
\* acknowledged write and a deleted object coming back both break it.
NoLostWrite ==
    Drained /\ mover.pc = "idle" => \E x \in legal : Visible = ValueOf(x)

\* A read that no copy of the mover overlapped answers a value that was current at some moment of
\* the read: routing a read by a rule that is replaced under it, or falling back to the source
\* while a delete or a write is between its legs, never shows an older value.  Excepted is a read
\* with a fallback still running when migrate finish drops the source: finish drains nothing, and
\* deletes then leave the source's copy alone.
ReadCurrent ==
    reader.pc = "done" /\ ~reader.moved /\ ~(reader.fallback /\ rule = "done") => \E x \in reader.acc : reader.val = ValueOf(x)

\* The create-once and compare-and-swap idioms survive the migration (ADR-0013): of the writes
\* that were conditional on the same state of the key (absent, or the original version) at most
\* one succeeds, unless a delete was sent that had not been answered before both were.
Winners(k) == {x \in completed \cap Ops : op[x].kind = k}
Deletes == {x \in Ops : op[x].kind = "delete" /\ op[x].pc \notin {"idle", "refused"}}
ConditionalOnce ==
    \A k \in {"create", "update"} : \A x, y \in Winners(k) :
        x # y => \E d \in Deletes : d \notin op[x].before \/ d \notin op[y].before

\* A converged report is true of the whole bucket: with no delete between its legs, the target
\* holds the key if the source does, so cutting over cannot hide it.
ConvergedCovers ==
    converged /\ rule = "migrating" /\ (\A x \in Ops : ~UsesSource(x)) => SourceSubset

\* After the cutover the source only shrinks, and stays a subset of the primary while no delete is
\* between its legs and none failed there: what purge-source compares before it deletes.
CutoverCovers ==
    rule = "cutover" /\ (\A x \in Ops : ~UsesSource(x)) => SourceSubset

\* Both proofs a cutover rests on: what convergence says before it and what the diff finds after.
SourceCovered == ConvergedCovers /\ CutoverCovers
=============================================================================
