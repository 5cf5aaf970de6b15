-------------------------- MODULE MigrationProofs ---------------------------
(***************************************************************************)
(* Proofs about the data plane of a migration, for any set of client       *)
(* mutations: no acknowledged write is lost and no deleted object returns, *)
(* reads are current, conditional writes succeed once, and a cutover hides *)
(* nothing.                                                                *)
(*                                                                         *)
(* The argument.  The rule in force splits a migration in two.  Under the  *)
(* early rules only the source is written, the target is empty and the     *)
(* mover idle, so the source's value must be current.  Under the late      *)
(* rules clients write the target only and the source never gains a value: *)
(* that the target holds the key if the source does is therefore stable    *)
(* once reached, and the mover's copy is the one value on the target that  *)
(* can be stale, until its recheck withdraws it.  The barrier's drain is   *)
(* what keeps a mutation admitted under an early rule out of a late one.   *)
(***************************************************************************)
EXTENDS Migration, TLAPS

\* First-order leaves are Zenon's; a leaf that needs arithmetic or records names SMT.
USE ZenonT(30)

-----------------------------------------------------------------------------
(* The inductive invariant. *)

\* Where a mutation sent to a backend can be, before and after the rule hands the key to the target.
Flight == {"other", "dest", "send", "srcleg", "primleg"}
Early == {"active", "out", "held"}
Late == {"in", "migrating", "cutover", "done"}
Names == Ops \cup {Orig}

OpRec == [pc : Flight \cup {"idle", "open", "done", "failed", "refused"},
          kind : {"put", "create", "update", "delete", "upload"},
          side : Sides, mode : {"plain", "absent", "match", "matched", "both"}, before : SUBSET Names]
ReadRec == [pc : {"idle", "first", "fallback", "done"}, side : Sides, fallback : BOOLEAN,
            acc : SUBSET Names, moved : BOOLEAN, val : Values]
MoverRec == [pc : {"idle", "head", "get", "put", "recheck", "withdraw", "end"}, copy : Values,
             result : {"none", "vanished", "skipped", "copied", "error"}, past : BOOLEAN, passes : Nat]

Types ==
    /\ op \in [Ops -> OpRec] /\ obj \in [Sides -> Values]
    /\ legal \in SUBSET Names /\ completed \in SUBSET Names
    /\ reader \in ReadRec /\ mover \in MoverRec
    /\ rule \in Rules /\ bar \in {"none", "mutations", "source"} /\ step \in [from : Rules, to : Rules]
    /\ converged \in BOOLEAN /\ fell \in BOOLEAN /\ first \in {Orig, Absent}

\* The bookkeeping of the mutations: what a request in flight was sent for, and that an answered
\* one is finished.
OpsOK ==
    \A x \in Ops :
        /\ op[x].before \subseteq completed
        /\ op[x].pc \in Flight => x \in legal /\ x \notin completed
        /\ x \in completed => op[x].pc = "done"
        /\ x \in legal => op[x].pc \in Flight \cup {"done", "failed"}
        /\ op[x].pc \in {"srcleg", "primleg", "failed"} => op[x].kind = "delete"
        /\ op[x].pc \in {"other", "dest", "send", "open", "refused"} => op[x].kind # "delete"
        /\ op[x].pc = "srcleg" => op[x].mode = "both"
        /\ op[x].pc = "open" => op[x].kind = "upload" /\ op[x].mode = "plain"

\* A mutation in flight goes where the rule in force sends it: the barrier drains the others before
\* the rule changes.  The second leg of a delete under a late rule leaves no source copy behind.
RouteOK ==
    \A x \in Ops : op[x].pc \in Flight =>
        /\ rule \in Early => op[x].side = "src" \/ (op[x].mode = "both" /\ op[x].kind = "delete")
        /\ rule \in Late => op[x].side = "dst"
        /\ op[x].mode = "both" => op[x].side = "dst" /\ op[x].kind = "delete"
        /\ rule \in Late /\ op[x].pc = "primleg" => obj.src = Absent \/ rule = "done"

\* The buckets, and the mover's copy, hold values of answered writes only.
Kept(v) == v \in Ops => v \in completed /\ op[v].kind # "delete"
ValuesOK ==
    /\ Kept(obj.src) /\ Kept(obj.dst) /\ Kept(mover.copy)
    /\ Orig \in {obj.src, obj.dst, mover.copy} => first = Orig

\* Which barrier, report and mover each rule can have; before the hand-over the target is empty.
StageOK ==
    /\ rule \in Early => obj.dst = Absent /\ mover.pc = "idle" /\ ~mover.past /\ ~converged
    /\ mover.pc # "idle" => rule \in {"in", "migrating"} /\ bar = "none"
    /\ converged => rule \in {"in", "migrating"}
    /\ rule = "held" => bar = "mutations"
    /\ bar = "source" => rule = "cutover"
    /\ bar = "mutations" =>
          \/ rule = "out" /\ step.from \in {"active", "out"} /\ step.to = "out"
          \/ rule = "held" /\ step.from \in {"active", "out"} /\ step.to \in {"in", "migrating"}
          \/ rule = "in" /\ step.from = "in" /\ step.to = "migrating"
          \/ rule = "migrating"

\* From the mover's GET on, the source holds what it read or nothing: no client writes there.
CopyOK ==
    /\ mover.pc \in {"put", "recheck", "withdraw"} => mover.copy # Absent /\ obj.src \in {mover.copy, Absent}
    /\ mover.pc = "withdraw" => obj.src = Absent

\* The moments at which the target must hold the key if the source does.  Once true under a late
\* rule this is stable, the source being never written again.
CoverDue ==
    \/ rule = "cutover"
    \/ converged
    \/ bar = "mutations" /\ rule = "migrating"
    \/ mover.pc \in {"recheck", "withdraw"}
    \/ mover.pc = "end" /\ mover.result # "error"
    \/ mover.pc = "idle" /\ mover.past /\ rule # "done"
CoverOK == CoverDue => SourceSubset

\* The mover's copy landed after a delete took the source's: its recheck will withdraw it.
Revived == mover.pc \in {"recheck", "withdraw"} /\ obj.dst = mover.copy /\ obj.src = Absent
\* v is a value the key may have now.
Current(v) == \E w \in legal : v = ValueOf(w)
\* Before the hand-over the source's value is current, and remains so when a delete that passed the
\* source completes: the write came after that delete's send.
EarlyKey ==
    \E w \in legal : /\ obj.src = ValueOf(w)
                     /\ \A x \in Ops : op[x].pc = "primleg" /\ op[x].mode = "both" => w \notin op[x].before
\* What a read under the rule in force would find is current, unless the mover is about to withdraw it.
KeyOK ==
    /\ rule \in Early => EarlyKey
    /\ rule \in Late /\ obj.dst # Absent => Current(obj.dst) \/ Revived
    /\ rule \in {"in", "migrating"} /\ obj.dst = Absent /\ obj.src # Absent => Current(obj.src)
    /\ rule \in Late /\ (obj.dst = Absent \/ Revived) /\ (obj.src = Absent \/ rule \in {"cutover", "done"})
          => Current(Absent)

\* v was the key's value at some moment of the read.
Seen(v) == \E w \in reader.acc : v = ValueOf(w)
\* The read knows the mutations that were in flight during it.
ReadBase ==
    /\ reader.pc # "idle" => \A x \in Ops : /\ op[x].pc \in Flight => x \in reader.acc
                                            /\ x \in reader.acc => op[x].pc \notin {"idle", "open"}
    /\ reader.pc \in {"first", "fallback"} /\ ~reader.moved => mover.pc = "idle"
    /\ reader.side = "src" => ~reader.fallback
    /\ reader.pc = "fallback" => reader.fallback
\* A read sent to the source alone: the key stays there until it is answered or the mover starts.
ReadSource ==
    reader.pc = "first" /\ reader.side = "src" /\ ~reader.moved =>
        /\ rule \notin {"cutover", "done"} /\ ~converged /\ ~(bar = "mutations" /\ rule = "migrating")
        /\ Seen(obj.src)
\* A read sent to the target alone.
ReadTarget ==
    reader.pc = "first" /\ reader.side = "dst" /\ ~reader.fallback => rule \in {"cutover", "done"} /\ Seen(obj.dst)
\* A read that asks the target first: whichever bucket answers, the value was current.
ReadThrough ==
    reader.pc = "first" /\ reader.fallback /\ ~reader.moved /\ rule # "done" =>
        Seen(IF obj.dst = Absent THEN obj.src ELSE obj.dst)
\* A read that got a 404 from the target and now asks the source.
ReadBehind ==
    reader.pc = "fallback" /\ ~reader.moved /\ rule # "done" => Seen(obj.src)
ReadOK == ReadBase /\ ReadSource /\ ReadTarget /\ ReadThrough /\ ReadBehind /\ ReadCurrent

\* A delete was sent that had not been answered before x was sent.
Doubted(x) == \E d \in Deletes : d \notin op[x].before
\* The key exists under the rule in force, so that a second create-once is refused.
Present ==
    \/ rule \in Early \cup {"in", "migrating"} /\ obj.src # Absent
    \/ rule \in Late /\ obj.dst # Absent /\ ~Revived
\* The original version is gone, so that a second compare-and-swap on it is refused.
Superseded ==
    \/ obj.src \notin {Orig, Absent} /\ obj.dst # Orig
    \/ obj.dst \notin {Orig, Absent} /\ ~Revived
\* What a conditional write learnt from the other bucket still holds when it is sent.
CondRoute ==
    \A y \in Ops :
        /\ op[y].kind = "create" /\ op[y].pc \in Flight => op[y].pc \in {"other", "send"} /\ op[y].mode = "absent"
        /\ op[y].kind = "create" /\ op[y].pc = "send" /\ rule \in {"in", "migrating"} => obj.src = Absent
        /\ op[y].kind = "update" /\ op[y].pc = "other" => op[y].mode = "match"
        /\ op[y].kind = "update" /\ op[y].pc = "dest" => op[y].mode \in {"match", "matched"}
        /\ op[y].kind = "update" /\ op[y].pc = "send" => op[y].mode \in {"match", "absent"}
        /\ op[y].kind = "update" /\ op[y].pc \in {"dest", "send"} /\ op[y].mode # "match" =>
              rule \in Late /\ obj.src \in {Orig, Absent}
\* A create-once that succeeded keeps the others out until a delete intervenes; likewise an update.
CreateOK == \A x \in Winners("create") : Doubted(x) \/ Present
UpdateOK == \A x \in Winners("update") : Doubted(x) \/ Superseded
CondOK == CondRoute /\ CreateOK /\ UpdateOK /\ ConditionalOnce

\* The inductive invariant.
IInv ==
    Types /\ OpsOK /\ RouteOK /\ ValuesOK /\ StageOK /\ CopyOK /\ CoverOK /\ KeyOK /\ ReadOK /\ CondOK

\* Both capabilities, and none of the documented windows.
Capable == CondWrite = TRUE /\ CondDelete = TRUE /\ Faults = {}

USE DEF Sides, Values, Names, Rules

-----------------------------------------------------------------------------
(* Types. *)

\* The names of the values are told apart.
LEMMA Distinct == Absent # Orig /\ Orig \notin Ops /\ Absent \notin Ops
  BY OpsNamed DEF Absent, Orig

\* The first state is well typed.
LEMMA InitTypes == Init => Types
  <1> SUFFICES ASSUME Init PROVE Types
    OBVIOUS
  <1>1. Idle \in OpRec  BY DEF Idle, OpRec
  <1>2. NoRead \in ReadRec  BY DEF NoRead, ReadRec
  <1>3. MoverIdle \in MoverRec  BY DEF MoverIdle, MoverRec
  <1>4. NoStep \in [from : Rules, to : Rules]  BY DEF NoStep
  <1>5. obj \in [Sides -> Values] /\ first \in {Orig, Absent}  BY DEF Init
  <1> QED BY <1>1, <1>2, <1>3, <1>4, <1>5 DEF Init, Types


\* Sending a mutation keeps the records of the mutations and of the read well typed.
LEMMA InvokeTypes ==
    ASSUME Types, NEW x \in Ops, NEW k \in {"put", "create", "update", "delete", "upload"}, NEW s \in Sides,
           NEW m \in {"plain", "absent", "match", "matched", "both"}, NEW p \in Flight, Invoke(x, k, s, m, p)
    PROVE  op' \in [Ops -> OpRec] /\ legal' \in SUBSET Names /\ reader' \in ReadRec
  <1> DEFINE o == [pc |-> p, kind |-> k, side |-> s, mode |-> m, before |-> completed]
             acc2 == reader.acc \cup {x}
  <1>1. o \in OpRec
    BY DEF Types, OpRec
  <1>2. acc2 \in SUBSET Names
    BY DEF Types, ReadRec
  <1>3. reader' \in ReadRec
    <2>1. reader' = IF reader.pc = "idle" THEN reader ELSE [reader EXCEPT !.acc = acc2]
      BY DEF Invoke
    <2> HIDE DEF acc2
    <2> QED BY <2>1, <1>2 DEF Types, ReadRec
  <1>4. op' = [op EXCEPT ![x] = o]
    BY DEF Invoke
  <1> HIDE DEF o
  <1>5. op' \in [Ops -> OpRec]
    BY <1>1, <1>4 DEF Types
  <1> QED
    BY <1>3, <1>5 DEF Types, Invoke

\* Every route of Decide names a bucket.
LEMMA SideType == DeleteSide \in Sides /\ WriteSide \in Sides /\ ReadSide \in Sides
  BY DEF DeleteSide, WriteSide, ReadSide

\* Admitting a mutation keeps the types.
LEMMA AdmitTypes == ASSUME Capable, Types, NEW x \in Ops, NEW k \in Kinds, Admit(x, k) PROVE Types'
  <1>1. ASSUME NEW s \in Sides, NEW m \in {"plain", "absent", "match", "matched", "both"}, NEW p \in Flight,
               Invoke(x, k, s, m, p)
        PROVE  op' \in [Ops -> OpRec] /\ legal' \in SUBSET Names /\ reader' \in ReadRec
    BY ZenonT(40), <1>1, InvokeTypes, KindsKnown
  <1>2. ASSUME k = "upload", Admit(x, k)
        PROVE  op' \in [Ops -> OpRec]
    <2> DEFINE r == [pc |-> "open", kind |-> k, side |-> WriteSide, mode |-> "plain", before |-> {}]
    <2>1. r \in OpRec  BY <1>2, SideType DEF OpRec
    <2>2. op' = [op EXCEPT ![x] = r]  BY <1>2 DEF Admit
    <2> HIDE DEF r
    <2> QED BY <2>1, <2>2 DEF Types
  <1>3. op' \in [Ops -> OpRec] /\ legal' \in SUBSET Names /\ reader' \in ReadRec
    <2>1. CASE k = "delete"  BY <2>1, <1>1, SideType DEF Admit, Flight
    <2>2. CASE k = "put"  BY <2>2, <1>1, SideType DEF Admit, Flight
    <2>3. CASE k = "upload"  BY <2>3, <1>2 DEF Admit, Types
    <2>4. CASE k = "create"  BY <2>4, <1>1, SideType DEF Admit, Flight
    <2>5. CASE k = "update"  BY <2>5, <1>1, SideType DEF Admit, Flight
    <2> QED BY <2>1, <2>2, <2>3, <2>4, <2>5, KindsKnown
  <1> QED BY SMT, <1>3 DEF Types, Admit

\* A mutation that moves on remains a mutation.
LEMMA OpTypes ==
    ASSUME Types, NEW x \in Ops, NEW p \in Flight \cup {"idle", "open", "done", "failed", "refused"},
           NEW m \in {"plain", "absent", "match", "matched", "both"}
    PROVE  /\ [op EXCEPT ![x].pc = p] \in [Ops -> OpRec]
           /\ [op EXCEPT ![x].pc = p, ![x].mode = m] \in [Ops -> OpRec]
  <1>1. [op EXCEPT ![x].pc = p] \in [Ops -> OpRec]
    BY SMT DEF Types, OpRec
  <1>2. [op EXCEPT ![x].pc = p, ![x].mode = m] \in [Ops -> OpRec]
    <2> DEFINE r == [op[x] EXCEPT !.pc = p, !.mode = m]
    <2>3. op[x] \in OpRec  BY DEF Types
    <2>1. r \in OpRec  BY <2>3 DEF OpRec
    <2>2. [op EXCEPT ![x].pc = p, ![x].mode = m] = [op EXCEPT ![x] = r]  BY DEF Types
    <2> HIDE DEF r
    <2> QED BY <2>1, <2>2 DEF Types
  <1> QED BY <1>1, <1>2

\* The later steps of a mutation keep the types.
LEMMA ClientTypes ==
    ASSUME Capable, Types, NEW x \in Ops,
           \/ CompleteUpload(x) \/ AbortUpload(x) \/ HeadOther(x) \/ HeadDest(x) \/ Send(x)
           \/ DeleteOnSource(x) \/ DeleteOnPrimary(x)
    PROVE  Types'
  <1>1. CASE CompleteUpload(x)
    <2>1. /\ op[x].kind \in {"put", "create", "update", "delete", "upload"} /\ op[x].side \in Sides
          /\ op[x].mode \in {"plain", "absent", "match", "matched", "both"} /\ "send" \in Flight
      BY DEF Types, OpRec, Flight
    <2>2. op' \in [Ops -> OpRec] /\ legal' \in SUBSET Names /\ reader' \in ReadRec
      BY ZenonT(40), <1>1, <2>1, InvokeTypes DEF CompleteUpload
    <2> QED BY SMT, <1>1, <2>2 DEF CompleteUpload, Types
  <1>a. ASSUME NEW p \in {"refused", "done", "failed", "primleg", "send", "dest"}, op' = [op EXCEPT ![x].pc = p]
        PROVE  op' \in [Ops -> OpRec]
    BY <1>a, OpTypes DEF Flight
  <1>b. ASSUME NEW p \in {"send", "dest"}, NEW m \in {"plain", "absent", "match", "matched"},
               op' = [op EXCEPT ![x].pc = p, ![x].mode = m]
        PROVE  op' \in [Ops -> OpRec]
    BY <1>b, OpTypes DEF Flight
  <1>2. CASE AbortUpload(x)
    <2>1. op' \in [Ops -> OpRec]  BY <1>2, <1>a DEF AbortUpload
    <2> QED BY SMT, <1>2, <2>1 DEF AbortUpload, Types
  <1>3. CASE HeadOther(x)
    <2>1. op' \in [Ops -> OpRec]  BY <1>3, <1>a, <1>b DEF HeadOther, Refuse
    <2> QED BY SMT, <1>3, <2>1 DEF HeadOther, Refuse, Types
  <1>4. CASE HeadDest(x)
    <2>1. op' \in [Ops -> OpRec]  BY <1>4, <1>a, <1>b DEF HeadDest, Refuse
    <2> QED BY SMTT(30), <1>4, <2>1 DEF HeadDest, Refuse, Types
  <1>5. CASE Send(x)
    <2>1. op' \in [Ops -> OpRec]  BY <1>5, <1>a DEF Send, Refuse, Finish
    <2> QED BY SMT, <1>5, <2>1 DEF Send, Refuse, Finish, Types
  <1>6. CASE DeleteOnSource(x)
    <2>1. op' \in [Ops -> OpRec]  BY <1>6, <1>a DEF DeleteOnSource
    <2> QED BY SMT, <1>6, <2>1 DEF DeleteOnSource, Types
  <1>7. CASE DeleteOnPrimary(x)
    <2>1. op' \in [Ops -> OpRec]  BY <1>7, <1>a DEF DeleteOnPrimary, Finish
    <2> QED BY SMT, <1>7, <2>1 DEF DeleteOnPrimary, Finish, Types
  <1> QED BY <1>1, <1>2, <1>3, <1>4, <1>5, <1>6, <1>7

\* The steps of a read keep the types.
LEMMA ReaderTypes == ASSUME Types, ReadAdmit \/ ReadFirst \/ FallbackRead PROVE Types'
  <1>1. CASE ReadAdmit
    <2>1. reader' = [pc |-> "first", side |-> ReadSide, fallback |-> ReadFallback, acc |-> legal,
                     moved |-> (mover.pc # "idle"), val |-> Absent]
      BY <1>1 DEF ReadAdmit, NoRead
    <2>2. ReadFallback \in BOOLEAN  BY SMT DEF ReadFallback
    <2>3. reader' \in ReadRec  BY <2>1, <2>2, SideType DEF ReadRec, Types
    <2> QED BY SMT, <1>1, <2>3 DEF ReadAdmit, Types
  <1>2. CASE ReadFirst
    <2>1. obj[reader.side] \in Values  BY DEF Types, ReadRec
    <2>2. reader' \in ReadRec  BY <1>2, <2>1 DEF ReadFirst, Types, ReadRec
    <2> QED BY SMT, <1>2, <2>2 DEF ReadFirst, Types
  <1>3. CASE FallbackRead
    <2>1. obj.src \in Values  BY DEF Types
    <2>2. reader' \in ReadRec  BY <1>3, <2>1 DEF FallbackRead, Types, ReadRec
    <2> QED BY ZenonT(40), <1>3, <2>2 DEF FallbackRead, Types
  <1> QED BY <1>1, <1>2, <1>3

\* Ending a key's copy keeps the mover's record well typed.
LEMMA CopiedTypes ==
    ASSUME Types, NEW r \in {"vanished", "skipped", "copied", "error"}, Copied(r)
    PROVE  mover' \in MoverRec
  BY DEF Copied, Types, MoverRec

\* The mover's steps keep the types.
LEMMA MoverTypes ==
    ASSUME Capable, Types,
           \/ MoverStart \/ HeadBoth \/ GetSource \/ PutTarget \/ Recheck \/ Withdraw
           \/ MoverEnd \/ MoverStopped
    PROVE  Types'
  <1>a. obj.src \in Values /\ mover.copy \in Values  BY DEF Types, MoverRec
  <1>1. CASE MoverStart
    <2> DEFINE n == mover.passes + 1
    <2>3. n \in Nat  BY SMT DEF Types, MoverRec
    <2>4. PICK p \in {"head", "end"} :
              mover' = [mover EXCEPT !.passes = n, !.copy = Absent, !.pc = p, !.result = "none"]
      BY <1>1 DEF MoverStart
    <2> HIDE DEF n
    <2>1. mover' \in MoverRec  BY <2>3, <2>4 DEF Types, MoverRec
    <2>2. reader' \in ReadRec  BY <1>1 DEF MoverStart, Types, ReadRec
    <2> QED BY ZenonT(40), <1>1, <2>1, <2>2 DEF MoverStart, Types
  <1>b. ASSUME NEW p \in {"idle", "get", "put", "recheck", "withdraw"},
               \/ mover' = [mover EXCEPT !.pc = p]
               \/ mover' = [mover EXCEPT !.pc = p, !.copy = obj.src]
               \/ mover' = [mover EXCEPT !.pc = p, !.past = FALSE]
        PROVE  mover' \in MoverRec
    <2>1. CASE mover' = [mover EXCEPT !.pc = p]  BY <2>1 DEF Types, MoverRec
    <2>2. CASE mover' = [mover EXCEPT !.pc = p, !.copy = obj.src]  BY <2>2, <1>a DEF Types, MoverRec
    <2>3. CASE mover' = [mover EXCEPT !.pc = p, !.past = FALSE]  BY <2>3 DEF Types, MoverRec
    <2> QED BY <1>b, <2>1, <2>2, <2>3
  <1>2. CASE HeadBoth
    <2>1. mover' \in MoverRec  BY <1>2, <1>b, CopiedTypes DEF HeadBoth
    <2> QED BY SMT, <1>2, <2>1 DEF HeadBoth, Types
  <1>3. CASE GetSource
    <2>1. mover' \in MoverRec  BY <1>3, <1>b, CopiedTypes DEF GetSource
    <2> QED BY SMT, <1>3, <2>1 DEF GetSource, Types
  <1>4. CASE PutTarget
    <2>1. mover' \in MoverRec  BY <1>4, <1>b, CopiedTypes DEF PutTarget
    <2> QED BY SMT, <1>4, <1>a, <2>1 DEF PutTarget, Types
  <1>5. CASE Recheck
    <2>1. mover' \in MoverRec  BY <1>5, <1>b, CopiedTypes DEF Recheck, Capable
    <2> QED BY SMT, <1>5, <2>1 DEF Recheck, Types
  <1>6. CASE Withdraw
    <2>1. mover.pc = "withdraw" /\ Copied("vanished")  BY <1>6 DEF Withdraw, Capable, Types, MoverRec
    <2>2. mover' \in MoverRec  BY <2>1, CopiedTypes
    <2> QED BY SMT, <1>6, <2>2 DEF Withdraw, Types
  <1>7. CASE MoverEnd
    <2>1. mover' \in MoverRec  BY <1>7, <1>b DEF MoverEnd
    <2> QED BY ZenonT(40), <1>7, <2>1 DEF MoverEnd, Converged, Types
  <1>8. CASE MoverStopped
    <2>1. mover' \in MoverRec  BY <1>8, <1>b DEF MoverStopped
    <2>2. converged' \in BOOLEAN  BY <1>8 DEF MoverStopped
    <2> QED BY ZenonT(40), <1>8, <2>1, <2>2 DEF MoverStopped, Types
  <1> QED BY <1>1, <1>2, <1>3, <1>4, <1>5, <1>6, <1>7, <1>8

\* The actions of the control plane.
ControlStep ==
    \/ StepHold \/ StepCommit \/ StepRelease \/ MigrateStep
    \/ CutoverHold \/ CutoverCommit \/ CutoverRelease
    \/ PurgeHold \/ PurgeRelease \/ PurgeDispatch \/ PurgeCommit \/ FinishMigration

\* The control plane's steps keep the types.
LEMMA ControlTypes == ASSUME Types, ControlStep PROVE Types'
  <1>1. CASE StepHold
    <2>1. PICK to \in {"out", "in", "migrating"} :
              /\ step' = [from |-> rule, to |-> to] /\ bar' = "mutations"
              /\ rule' = CASE to = "out" -> "out" [] rule = "in" -> "in" [] OTHER -> "held"
      BY <1>1 DEF StepHold
    <2>2. rule' \in Rules /\ step' \in [from : Rules, to : Rules]  BY <2>1 DEF Types
    <2> QED BY <1>1, <2>1, <2>2 DEF StepHold, Types, Unreported
  <1>2. CASE StepCommit  BY <1>2 DEF StepCommit, Types, Unreported, NoStep
  <1>3. CASE StepRelease  BY <1>3 DEF StepRelease, Types, Unreported, NoStep
  <1>4. CASE MigrateStep  BY <1>4 DEF MigrateStep, Types, Unreported
  <1>5. CASE CutoverHold  BY <1>5 DEF CutoverHold, Types, Unreported
  <1>6. CASE CutoverCommit  BY <1>6 DEF CutoverCommit, Types, Unreported, NoStep
  <1>7. CASE CutoverRelease  BY <1>7 DEF CutoverRelease, Types, Unreported, NoStep
  <1>8. CASE PurgeHold \/ PurgeRelease  BY <1>8 DEF PurgeHold, PurgeRelease, Types, Unreported
  <1>9. CASE PurgeDispatch  BY <1>9 DEF PurgeDispatch, Types, Unreported
  <1>10. CASE PurgeCommit  BY <1>10 DEF PurgeCommit, Types, Unreported, NoStep
  <1>11. CASE FinishMigration  BY <1>11 DEF FinishMigration, Types, Unreported
  <1> QED BY <1>1, <1>2, <1>3, <1>4, <1>5, <1>6, <1>7, <1>8, <1>9, <1>10, <1>11 DEF ControlStep

-----------------------------------------------------------------------------
(* What a step does to the mutations, field by field. *)

\* The mutations other than x are left alone.
Same(x) == \A y \in Ops : y # x => op'[y] = op[y]
\* x keeps what it was admitted with.
KeepsRoute(x) == op'[x].kind = op[x].kind /\ op'[x].side = op[x].side /\ op'[x].before = op[x].before

\* (a read under way notes the mutations sent meanwhile)
LEMMA InvokedReader ==
    ASSUME Types, NEW x \in Ops,
           reader' = IF reader.pc = "idle" THEN reader ELSE [reader EXCEPT !.acc = @ \cup {x}]
    PROVE  /\ reader'.pc = reader.pc /\ reader'.side = reader.side /\ reader'.fallback = reader.fallback
           /\ reader'.moved = reader.moved /\ reader'.val = reader.val
           /\ reader'.acc = IF reader.pc = "idle" THEN reader.acc ELSE reader.acc \cup {x}
  BY DEF Types, ReadRec

\* A mutation that moves on keeps everything else; so do the other mutations.
LEMMA PcEffect ==
    ASSUME Types, NEW x \in Ops, NEW p, op' = [op EXCEPT ![x].pc = p]
    PROVE  op'[x].pc = p /\ op'[x].mode = op[x].mode /\ KeepsRoute(x) /\ Same(x)
  BY ZenonT(40) DEF Types, OpRec, Same, KeepsRoute

\* The same, when its precondition changes as it moves on.
LEMMA PcModeEffect ==
    ASSUME Types, NEW x \in Ops, NEW p, NEW m, op' = [op EXCEPT ![x].pc = p, ![x].mode = m]
    PROVE  op'[x].pc = p /\ op'[x].mode = m /\ KeepsRoute(x) /\ Same(x)
  <1>1. op'[x].pc = p /\ op'[x].mode = m  BY DEF Types, OpRec
  <1>2. KeepsRoute(x)  BY ZenonT(40) DEF Types, OpRec, KeepsRoute
  <1>3. Same(x)  BY DEF Types, Same
  <1> QED BY <1>1, <1>2, <1>3

-----------------------------------------------------------------------------
(* A write that succeeds. *)

\* x's write was stored and answered.
Written(x) ==
    /\ op[x].pc = "send" /\ Holds(x)
    /\ obj' = [obj EXCEPT ![op[x].side] = x]
    /\ op'[x].pc = "done" /\ op'[x].mode = op[x].mode /\ KeepsRoute(x) /\ Same(x)
    /\ legal' = legal \ op[x].before /\ completed' = completed \cup {x}
    /\ UNCHANGED <<rule, bar, step, reader, mover, converged, fell, first>>

\* A stored write keeps the invariant: it goes to the bucket the rule in force reads first, its value
\* is the key's from then on, and a conditional one finds no earlier success.
LEMMA WrittenKeeps == ASSUME Capable, IInv, NEW x \in Ops, Written(x), Types' PROVE IInv'
  <1> USE Distinct
  <1>0. op[x].kind # "delete" /\ x \in legal /\ x \notin completed /\ x \notin op[x].before
    BY DEF IInv, OpsOK, Written, Flight
  <1>1. \/ rule \in Early /\ op[x].side = "src" /\ obj'.src = x /\ obj'.dst = obj.dst
        \/ rule \in Late /\ op[x].side = "dst" /\ obj'.dst = x /\ obj'.src = obj.src
    BY <1>0 DEF IInv, RouteOK, Written, Flight, Types, Early, Late
  <1>2. OpsOK'
    BY SMT, <1>0 DEF IInv, OpsOK, Written, Same, KeepsRoute, Flight, Types
  <1>3. RouteOK'
    BY SMT, <1>1 DEF IInv, RouteOK, Written, Same, KeepsRoute, Early, Late, Flight, Types
  <1>4. ValuesOK'
    BY <1>0, <1>1 DEF IInv, ValuesOK, Kept, Written, Same, KeepsRoute, Types
  <1>5. StageOK'
    BY <1>1 DEF IInv, StageOK, Written, Early, Late
  <1>6. CopyOK'
    BY <1>1 DEF IInv, CopyOK, StageOK, Written, Early, Late
  <1>7. CoverOK'
    BY <1>1 DEF IInv, CoverOK, CoverDue, SourceSubset, StageOK, Written, Early, Late
  <1>8. KeyOK'
    <2>1. ValueOf(x)' = x /\ x \in legal'
      BY <1>0 DEF ValueOf, Written, KeepsRoute
    <2>2. ~Revived' \/ rule \in Early
      BY <1>0, <1>1 DEF Revived, Written, IInv, ValuesOK, Kept
    <2>3. CASE rule \in Early
      <3>1. \A y \in Ops : op'[y].pc = "primleg" /\ op'[y].mode = "both" => x \notin op'[y].before
        BY ZenonT(40), <1>0 DEF IInv, OpsOK, Written, Same
      <3>2. EarlyKey'
        BY <1>1, <2>1, <2>3, <3>1 DEF EarlyKey, Early, Late
      <3> QED BY <3>2, <2>3 DEF KeyOK, Written, Early, Late
    <2>4. CASE rule \in Late
      BY <1>1, <2>1, <2>2, <2>4 DEF KeyOK, Current, Written, Early, Late
    <2> QED BY <2>3, <2>4 DEF IInv, Types, Early, Late
  <1>9. ReadOK'
    <2>1. \A w \in Names : ValueOf(w)' = ValueOf(w)
      BY DEF ValueOf, Written, KeepsRoute, Same
    <2>2. ReadBase'
      BY DEF IInv, ReadOK, ReadBase, Written, Same, Flight
    <2>3. reader.acc \subseteq Names /\ ValueOf(x)' = x /\ (reader.pc # "idle" => x \in reader.acc)
      BY <1>0 DEF IInv, Types, ReadRec, ReadOK, ReadBase, Written, Flight, ValueOf, KeepsRoute
    <2>4. ReadSource'
      BY <1>1, <2>1, <2>3 DEF IInv, ReadOK, ReadSource, Seen, Written
    <2>5. ReadTarget'
      BY <1>1, <2>1, <2>3 DEF IInv, ReadOK, ReadTarget, Seen, Written, Early
    <2>6. ReadThrough'
      BY <1>0, <1>1, <2>1, <2>3 DEF IInv, ReadOK, ReadThrough, Seen, Written, StageOK
    <2>7. ReadBehind'
      BY <1>1, <2>1, <2>3 DEF IInv, ReadOK, ReadBehind, Seen, Written
    <2>8. ReadCurrent'
      BY <2>1, <2>3 DEF IInv, ReadOK, ReadCurrent, Written
    <2> QED BY <2>2, <2>4, <2>5, <2>6, <2>7, <2>8 DEF ReadOK
  <1>10. CondOK'
    <2>1. CondRoute'
      BY SMT, <1>1 DEF IInv, CondOK, CondRoute, Written, Same, KeepsRoute, Flight, Early, Late
    <2>2. \A y \in Ops \cap completed : Doubted(y) => Doubted(y)'
      BY ZenonT(40) DEF Doubted, Deletes, Written, Same, KeepsRoute
    <2>3. ~Revived' \/ rule \in Early
      BY <1>0, <1>1 DEF Revived, Written, IInv, ValuesOK, Kept
    <2>4. Present' /\ Superseded'
      BY <1>1, <2>3 DEF Present, Superseded, Written, IInv, StageOK, Early, Late
    <2>5. CreateOK' /\ UpdateOK'
      BY <2>4 DEF CreateOK, UpdateOK
    <2>6. ConditionalOnce'
      <3>1. ASSUME NEW y \in Ops, y # x, y \in completed, op[y].kind = op[x].kind, op[x].kind \in {"create", "update"}
            PROVE  Doubted(y)
        <4>1. CASE op[x].kind = "create"
          BY <1>1, <3>1, <4>1 DEF IInv, CondOK, CreateOK, CondRoute, Winners, Present, Written, Holds, Flight, Early, Late
        <4>2. CASE op[x].kind = "update"
          BY ZenonT(40), <1>1, <3>1, <4>2 DEF IInv, CondOK, UpdateOK, CondRoute, Winners, Superseded, Written, Holds, StageOK, Early, Late
        <4> QED BY <3>1, <4>1, <4>2
      <3>2. ASSUME NEW y \in Ops, y # x, y \in completed, op[y].kind = op[x].kind, op[x].kind \in {"create", "update"}
            PROVE  Doubted(y)'
        BY <3>1, <3>2, <2>2
      <3>3. ASSUME NEW k \in {"create", "update"}, NEW y \in Ops, NEW z \in Ops, y # z, y \in completed', z \in completed',
                   op'[y].kind = k, op'[z].kind = k
            PROVE  Doubted(y)' \/ Doubted(z)'
        <4>1. CASE y # x /\ z # x
          BY <2>2, <3>3, <4>1 DEF IInv, CondOK, ConditionalOnce, Winners, Doubted, Written, Same
        <4>2. CASE z = x
          BY <3>2, <3>3, <4>2 DEF Written, Same, KeepsRoute
        <4>3. CASE y = x
          BY <3>2, <3>3, <4>3 DEF Written, Same, KeepsRoute
        <4> QED BY <4>1, <4>2, <4>3
      <3> QED BY <3>3 DEF ConditionalOnce, Winners, Doubted
    <2> QED BY <2>1, <2>5, <2>6 DEF CondOK
  <1> QED BY <1>2, <1>3, <1>4, <1>5, <1>6, <1>7, <1>8, <1>9, <1>10 DEF IInv

-----------------------------------------------------------------------------
(* What a step that leaves the buckets, the placement and the mover alone cannot disturb. *)

\* Such a step keeps what is known of the buckets, the placement and the mover.
LEMMA QuietKeeps ==
    ASSUME IInv, UNCHANGED <<obj, rule, bar, step, mover, converged, first>>,
           completed' = completed, \A y \in completed \cap Ops : op'[y].kind = op[y].kind
    PROVE  ValuesOK' /\ StageOK' /\ CopyOK' /\ CoverOK'
  <1>1. ValuesOK'  BY DEF IInv, ValuesOK, Kept
  <1>2. StageOK'  BY DEF IInv, StageOK
  <1>3. CopyOK'  BY DEF IInv, CopyOK
  <1>4. CoverOK'  BY DEF IInv, CoverOK, CoverDue, SourceSubset
  <1> QED BY <1>1, <1>2, <1>3, <1>4

\* (and the reader's part, when the mutations keep what the reader knows of them)
LEMMA QuietReads ==
    ASSUME IInv, UNCHANGED <<obj, rule, bar, mover, converged>>, ReadBase',
           reader'.pc = reader.pc, reader'.side = reader.side, reader'.fallback = reader.fallback,
           reader'.moved = reader.moved, reader'.val = reader.val,
           reader.pc # "idle" => \A w \in reader.acc : w \in reader'.acc /\ ValueOf(w)' = ValueOf(w)
    PROVE  ReadOK'
  <1>1. ReadSource'  BY DEF IInv, ReadOK, ReadSource, Seen
  <1>2. ReadTarget'  BY DEF IInv, ReadOK, ReadTarget, Seen
  <1>3. ReadThrough'  BY DEF IInv, ReadOK, ReadThrough, Seen
  <1>4. ReadBehind'  BY DEF IInv, ReadOK, ReadBehind, Seen
  <1>5. ReadCurrent'  BY DEF IInv, ReadOK, ReadCurrent
  <1> QED BY <1>1, <1>2, <1>3, <1>4, <1>5 DEF ReadOK

\* (and what is known of the conditional writes that succeeded)
LEMMA QuietWinners ==
    ASSUME IInv, UNCHANGED <<obj, rule, mover, completed>>,
           \A y \in completed \cap Ops : op'[y] = op[y],
           \A y \in Ops : y \in Deletes => y \in Deletes'
    PROVE  CreateOK' /\ UpdateOK' /\ ConditionalOnce'
  <1>1. \A y \in completed \cap Ops : Doubted(y) => Doubted(y)'
    BY DEF Doubted, Deletes
  <1>2. Present' = Present /\ Superseded' = Superseded
    BY DEF Present, Superseded, Revived
  <1>3. CreateOK'  BY <1>1, <1>2 DEF IInv, CondOK, CreateOK, Winners
  <1>4. UpdateOK'  BY <1>1, <1>2 DEF IInv, CondOK, UpdateOK, Winners
  <1>5. ConditionalOnce'
    BY SMT, <1>1 DEF IInv, CondOK, ConditionalOnce, Winners, Doubted
  <1> QED BY <1>3, <1>4, <1>5

\* (a delete in flight puts every earlier success in doubt)
LEMMA DeleteDoubts ==
    ASSUME IInv, NEW x \in Ops, op[x].pc \in {"srcleg", "primleg"}, KeepsRoute(x), Same(x),
           op'[x].pc \in {"primleg", "done", "failed"}, completed' \subseteq completed \cup {x}
    PROVE  CreateOK' /\ UpdateOK' /\ ConditionalOnce'
  <1>1. op[x].kind = "delete" /\ x \notin completed
    BY DEF IInv, OpsOK, Flight
  <1>2. x \in Deletes'
    BY <1>1 DEF Deletes, KeepsRoute
  <1>3. \A y \in completed \cap Ops : Doubted(y)'
    BY ZenonT(40), <1>1, <1>2 DEF IInv, OpsOK, Doubted, Same
  <1>4. \A k \in {"create", "update"} : \A y \in Winners(k)' : y \in completed \cap Ops
    BY <1>1 DEF Winners, KeepsRoute
  <1>5. CreateOK' /\ UpdateOK'
    BY <1>3, <1>4 DEF CreateOK, UpdateOK
  <1>6. ConditionalOnce'
    BY <1>3, <1>4 DEF ConditionalOnce, Doubted
  <1> QED BY <1>5, <1>6

-----------------------------------------------------------------------------
(* A write that is refused, and one that moves on. *)

\* x is answered with a failed precondition, or its upload is aborted.
Refused(x) ==
    /\ op[x].pc \in {"other", "dest", "send"}
    /\ op'[x].pc = "refused" /\ op'[x].mode = op[x].mode /\ KeepsRoute(x) /\ Same(x)
    /\ legal' = legal \ {x}
    /\ UNCHANGED <<obj, rule, bar, step, completed, reader, mover, converged, fell, first>>

\* A refused write keeps the invariant: it never was the key's value, nor will be.
LEMMA RefusedKeeps == ASSUME Capable, IInv, NEW x \in Ops, Refused(x), Types' PROVE IInv'
  <1> USE Distinct
  <1>0. op[x].kind # "delete" /\ x \notin completed /\ ValueOf(x) = x
    BY DEF IInv, OpsOK, Refused, Flight, ValueOf
  <1>1. \A w \in Names : ValueOf(w)' = ValueOf(w)
    BY DEF ValueOf, Refused, KeepsRoute, Same
  <1>2. OpsOK'
    BY SMTT(30), <1>0 DEF IInv, OpsOK, Refused, Same, KeepsRoute, Flight
  <1>3. RouteOK'
    BY ZenonT(40) DEF IInv, RouteOK, Refused, Same, KeepsRoute, Flight
  <1>4. ValuesOK' /\ StageOK' /\ CopyOK' /\ CoverOK'
    BY QuietKeeps DEF Refused, Same, KeepsRoute
  <1>5. KeyOK'
    <2>1. legal \subseteq Names /\ obj.src # x /\ obj.dst # x
      BY <1>0 DEF IInv, Types, ValuesOK, Kept
    <2>2. rule \in Early => EarlyKey'
      BY ZenonT(40), <1>0, <1>1, <2>1 DEF IInv, KeyOK, EarlyKey, Refused, Same
    <2>3. /\ Current(obj.dst) => Current(obj.dst)'
          /\ Current(obj.src) => Current(obj.src)'
          /\ Current(Absent) => Current(Absent)'
      BY <1>0, <1>1, <2>1 DEF Current, Refused
    <2> QED BY <2>2, <2>3 DEF IInv, KeyOK, Revived, Refused
  <1>6. ReadOK'
    <2>1. ReadBase'  BY DEF IInv, ReadOK, ReadBase, Refused, Same, Flight
    <2> QED BY <1>1, <2>1, QuietReads DEF Refused, IInv, Types, ReadRec
  <1>7. CondOK'
    <2>1. CondRoute'
      BY SMTT(30) DEF IInv, CondOK, CondRoute, Refused, Same, KeepsRoute, Flight
    <2>2. CreateOK' /\ UpdateOK' /\ ConditionalOnce'
      BY <1>0, QuietWinners DEF Refused, Same, KeepsRoute, Deletes
    <2> QED BY <2>1, <2>2 DEF CondOK
  <1> QED BY <1>2, <1>3, <1>4, <1>5, <1>6, <1>7 DEF IInv

\* x goes on to its next backend request.
Progressed(x) ==
    /\ op[x].pc \in {"other", "dest"} /\ op'[x].pc \in {"dest", "send"} /\ KeepsRoute(x) /\ Same(x)
    /\ op'[x].mode # "both"
    /\ UNCHANGED <<obj, rule, bar, step, legal, completed, reader, mover, converged, fell, first>>

\* A conditional write that has asked the other bucket keeps the invariant, given what it learnt.
LEMMA ProgressedKeeps ==
    ASSUME Capable, IInv, NEW x \in Ops, Progressed(x), Types', CondRoute' PROVE IInv'
  <1>1. \A w \in Names : ValueOf(w)' = ValueOf(w)
    BY DEF ValueOf, Progressed, KeepsRoute, Same
  <1>2. OpsOK'
    BY SMT DEF IInv, OpsOK, Progressed, Same, KeepsRoute, Flight
  <1>3. RouteOK'
    BY SMT DEF IInv, RouteOK, Progressed, Same, KeepsRoute, Flight, OpsOK
  <1>4. ValuesOK' /\ StageOK' /\ CopyOK' /\ CoverOK'
    BY QuietKeeps DEF Progressed, Same, KeepsRoute
  <1>5. KeyOK'
    <2>1. legal \subseteq Names  BY DEF IInv, Types
    <2>2. rule \in Early => EarlyKey'
      BY ZenonT(40), <1>1, <2>1 DEF IInv, KeyOK, EarlyKey, Progressed, Same
    <2>3. /\ Current(obj.dst) => Current(obj.dst)'
          /\ Current(obj.src) => Current(obj.src)'
          /\ Current(Absent) => Current(Absent)'
      BY <1>1, <2>1 DEF Current, Progressed
    <2> QED BY <2>2, <2>3 DEF IInv, KeyOK, Revived, Progressed
  <1>6. ReadOK'
    <2>1. ReadBase'  BY DEF IInv, ReadOK, ReadBase, Progressed, Same, Flight
    <2> QED BY <1>1, <2>1, QuietReads DEF Progressed, IInv, Types, ReadRec
  <1>7. CreateOK' /\ UpdateOK' /\ ConditionalOnce'
    <2>1. x \notin completed  BY DEF IInv, OpsOK, Progressed, Flight
    <2> QED BY <2>1, QuietWinners DEF Progressed, Same, KeepsRoute, Deletes
  <1> QED BY <1>2, <1>3, <1>4, <1>5, <1>6, <1>7 DEF IInv, CondOK

-----------------------------------------------------------------------------
(* A mutation that is sent, and an upload that is opened or aborted. *)

\* x is sent: from here on its value may be the key's.
Sent(x) ==
    /\ op[x].pc \in {"idle", "open"} /\ op'[x].pc \in {"other", "send", "srcleg", "primleg"}
    /\ op'[x].before = completed /\ Same(x)
    /\ op'[x].kind = "delete" <=> op'[x].pc \in {"srcleg", "primleg"}
    /\ op'[x].mode = "both" <=> op'[x].pc = "srcleg"
    /\ legal' = legal \cup {x}
    /\ reader'.pc = reader.pc /\ reader'.side = reader.side /\ reader'.fallback = reader.fallback
    /\ reader'.moved = reader.moved /\ reader'.val = reader.val
    /\ reader'.acc = IF reader.pc = "idle" THEN reader.acc ELSE reader.acc \cup {x}
    /\ UNCHANGED <<obj, rule, bar, step, completed, mover, converged, fell, first>>

\* A mutation just sent keeps the invariant: it widens what the key's value may be.
LEMMA SentKeeps ==
    ASSUME Capable, IInv, NEW x \in Ops, Sent(x), Types', RouteOK', CondRoute' PROVE IInv'
  <1>0. x \notin legal /\ x \notin completed /\ (reader.pc # "idle" => x \notin reader.acc)
    BY DEF IInv, OpsOK, ReadOK, ReadBase, Sent, Flight
  <1>1. \A w \in Names : w # x => ValueOf(w)' = ValueOf(w)
    BY Distinct DEF ValueOf, Sent, Same
  <1>2. OpsOK'
    BY SMTT(30), <1>0 DEF IInv, OpsOK, Sent, Same, Flight
  <1>4. ValuesOK' /\ StageOK' /\ CopyOK' /\ CoverOK'
    BY <1>0, QuietKeeps DEF Sent, Same
  <1>5. KeyOK'
    <2>1. legal \subseteq Names  BY DEF IInv, Types
    <2>2. rule \in Early => EarlyKey'
      BY SMTT(60), <1>0, <1>1, <2>1 DEF IInv, KeyOK, EarlyKey, Sent, Same
    <2>3. /\ Current(obj.dst) => Current(obj.dst)'
          /\ Current(obj.src) => Current(obj.src)'
          /\ Current(Absent) => Current(Absent)'
      BY ZenonT(40), <1>0, <1>1, <2>1 DEF Current, Sent
    <2> QED BY <2>2, <2>3 DEF IInv, KeyOK, Revived, Sent
  <1>6. ReadOK'
    <2>1. ReadBase'  BY SMT, <1>0 DEF IInv, ReadOK, ReadBase, Sent, Same, Flight
    <2>2. reader.acc \subseteq Names  BY DEF IInv, Types, ReadRec
    <2>3. reader.pc # "idle" => \A w \in reader.acc : w \in reader'.acc /\ ValueOf(w)' = ValueOf(w)
      BY <1>0, <1>1, <2>2 DEF Sent
    <2> QED BY <2>1, <2>3, QuietReads DEF Sent
  <1>7. CreateOK' /\ UpdateOK' /\ ConditionalOnce'
    <2>1. \A y \in Ops : y \in Deletes => y \in Deletes'
      BY ZenonT(40) DEF Sent, Same, Deletes, IInv, OpsOK
    <2> QED BY <1>0, <2>1, QuietWinners DEF Sent, Same
  <1> QED BY <1>2, <1>4, <1>5, <1>6, <1>7 DEF IInv, CondOK

\* x opens a multipart upload, which nothing waits for.
Parked(x) ==
    /\ \/ op[x].pc = "idle" /\ op'[x].pc = "open" /\ op'[x].kind = "upload" /\ op'[x].mode = "plain" /\ op'[x].before = {}
       \/ op[x].pc = "open" /\ op'[x].pc = "refused" /\ KeepsRoute(x)
    /\ Same(x)
    /\ UNCHANGED <<obj, rule, bar, step, legal, completed, reader, mover, converged, fell, first>>

\* An upload being opened keeps the invariant: it changes no object.
LEMMA ParkedKeeps == ASSUME Capable, IInv, NEW x \in Ops, Parked(x), Types' PROVE IInv'
  <1>0. x \notin legal /\ x \notin completed /\ (reader.pc # "idle" => x \notin reader.acc)
    BY DEF IInv, OpsOK, ReadOK, ReadBase, Parked, Flight
  <1>1. \A w \in Names : w # x => ValueOf(w)' = ValueOf(w)
    BY Distinct DEF ValueOf, Parked, Same
  <1>2. OpsOK'
    BY SMT, <1>0 DEF IInv, OpsOK, Parked, Same, Flight, KeepsRoute
  <1>3. RouteOK'
    BY DEF IInv, RouteOK, Parked, Same, Flight
  <1>4. ValuesOK' /\ StageOK' /\ CopyOK' /\ CoverOK'
    BY <1>0, QuietKeeps DEF Parked, Same
  <1>5. KeyOK'
    <2>1. legal \subseteq Names  BY DEF IInv, Types
    <2>2. rule \in Early => EarlyKey'
      BY ZenonT(40), <1>0, <1>1, <2>1 DEF IInv, KeyOK, EarlyKey, Parked, Same
    <2>3. /\ Current(obj.dst) => Current(obj.dst)'
          /\ Current(obj.src) => Current(obj.src)'
          /\ Current(Absent) => Current(Absent)'
      BY <1>0, <1>1, <2>1 DEF Current, Parked
    <2> QED BY <2>2, <2>3 DEF IInv, KeyOK, Revived, Parked
  <1>6. ReadOK'
    <2>1. ReadBase'  BY <1>0 DEF IInv, ReadOK, ReadBase, Parked, Same, Flight
    <2>2. reader.acc \subseteq Names  BY DEF IInv, Types, ReadRec
    <2>3. reader.pc # "idle" => \A w \in reader.acc : w \in reader'.acc /\ ValueOf(w)' = ValueOf(w)
      BY <1>0, <1>1, <2>2 DEF Parked
    <2> QED BY <2>1, <2>3, QuietReads DEF Parked
  <1>7. CondOK'
    <2>1. \A y \in Ops : y \in Deletes => y \in Deletes'
      BY DEF Parked, Same, Deletes, IInv, OpsOK
    <2>2. CondRoute'
      BY ZenonT(40) DEF IInv, CondOK, CondRoute, Parked, Same, Flight
    <2> QED BY <1>0, <2>1, <2>2, QuietWinners DEF Parked, Same, CondOK
  <1> QED BY <1>2, <1>3, <1>4, <1>5, <1>6, <1>7 DEF IInv

-----------------------------------------------------------------------------
(* The two legs of a delete. *)

\* The delete x removed the source's copy.
SourceLeg(x) ==
    /\ op[x].pc = "srcleg" /\ op'[x].pc = "primleg" /\ op'[x].mode = op[x].mode /\ KeepsRoute(x) /\ Same(x)
    /\ obj'.src = Absent /\ obj'.dst = obj.dst
    /\ UNCHANGED <<rule, bar, step, legal, completed, reader, mover, converged, fell, first>>

\* The first leg of a two-legged delete keeps the invariant.
LEMMA SourceLegKeeps == ASSUME Capable, IInv, NEW x \in Ops, SourceLeg(x), Types' PROVE IInv'
  <1> USE Distinct
  <1>0. op[x].kind = "delete" /\ op[x].mode = "both" /\ x \in legal /\ x \notin completed /\ ValueOf(x)' = Absent
    BY DEF IInv, OpsOK, SourceLeg, Flight, ValueOf, KeepsRoute
  <1>1. \A w \in Names : ValueOf(w)' = ValueOf(w)
    BY DEF ValueOf, SourceLeg, KeepsRoute, Same
  <1>2. OpsOK'
    BY SMT, <1>0 DEF IInv, OpsOK, SourceLeg, Same, KeepsRoute, Flight
  <1>3. RouteOK'
    BY ZenonT(40) DEF IInv, RouteOK, SourceLeg, Same, KeepsRoute, Flight
  <1>4. ValuesOK'
    BY DEF IInv, ValuesOK, Kept, SourceLeg, Same, KeepsRoute
  <1>5. StageOK'
    BY DEF IInv, StageOK, SourceLeg
  <1>6. CopyOK' /\ CoverOK'
    BY DEF IInv, CopyOK, CoverOK, SourceSubset, SourceLeg
  <1>7. KeyOK'
    <2>1. legal \subseteq Names  BY DEF IInv, Types
    <2>2. rule \in Early => EarlyKey'
      BY SMTT(30), <1>0 DEF IInv, OpsOK, EarlyKey, SourceLeg, Same, KeepsRoute
    <2>3. Current(Absent)'
      BY <1>0 DEF Current, SourceLeg
    <2>4. Current(obj.dst) => Current(obj.dst)'
      BY <1>1, <2>1 DEF Current, SourceLeg
    <2>5. Revived => Revived'
      BY DEF Revived, SourceLeg
    <2> QED BY <2>2, <2>3, <2>4, <2>5 DEF IInv, KeyOK, SourceLeg
  <1>8. ReadOK'
    <2>1. ReadBase'  BY DEF IInv, ReadOK, ReadBase, SourceLeg, Same, Flight
    <2>2. reader.acc \subseteq Names  BY DEF IInv, Types, ReadRec
    <2>3. reader.pc # "idle" => Seen(Absent)'
      BY <1>0 DEF IInv, ReadOK, ReadBase, Seen, SourceLeg, Flight
    <2>4. Seen(obj.dst) => Seen(obj.dst)'
      BY <1>1, <2>2 DEF Seen, SourceLeg
    <2>5. ReadSource'  BY <2>3 DEF IInv, ReadOK, ReadSource, SourceLeg
    <2>6. ReadTarget'  BY <2>4 DEF IInv, ReadOK, ReadTarget, SourceLeg
    <2>7. ReadThrough'  BY <2>3, <2>4 DEF IInv, ReadOK, ReadThrough, SourceLeg
    <2>8. ReadBehind'  BY <2>3 DEF IInv, ReadOK, ReadBehind, SourceLeg
    <2>9. ReadCurrent'  BY <1>1, <2>2 DEF IInv, ReadOK, ReadCurrent, SourceLeg
    <2> QED BY <2>1, <2>5, <2>6, <2>7, <2>8, <2>9 DEF ReadOK
  <1>9. CondOK'
    <2>1. CondRoute'
      BY SMTT(30), <1>0 DEF IInv, CondOK, CondRoute, SourceLeg, Same, KeepsRoute
    <2> QED BY <2>1, DeleteDoubts DEF SourceLeg, CondOK
  <1> QED BY <1>2, <1>3, <1>4, <1>5, <1>6, <1>7, <1>8, <1>9 DEF IInv

\* The delete x removed the copy of the bucket it is answered from.
PrimaryLeg(x) ==
    /\ op[x].pc = "primleg" /\ op'[x].pc = "done" /\ op'[x].mode = op[x].mode /\ KeepsRoute(x) /\ Same(x)
    /\ obj' = [obj EXCEPT ![op[x].side] = Absent]
    /\ legal' = legal \ op[x].before /\ completed' = completed \cup {x}
    /\ UNCHANGED <<rule, bar, step, reader, mover, converged, fell, first>>

\* The last leg of a delete keeps the invariant: what remains is a write sent later, or nothing.
LEMMA PrimaryLegKeeps == ASSUME Capable, IInv, NEW x \in Ops, PrimaryLeg(x), Types' PROVE IInv'
  <1> USE Distinct
  <1>0. /\ op[x].kind = "delete" /\ x \in legal /\ x \notin completed /\ x \notin op[x].before /\ x \in legal'
        /\ ValueOf(x)' = Absent
    BY DEF IInv, OpsOK, PrimaryLeg, Flight, ValueOf, KeepsRoute
  <1>1. \A w \in Names : ValueOf(w)' = ValueOf(w)
    BY DEF ValueOf, PrimaryLeg, KeepsRoute, Same
  <1>2. \/ rule \in Early /\ op[x].mode = "both" /\ obj'.src = obj.src /\ obj'.dst = obj.dst
        \/ rule \in Early /\ obj'.src = Absent /\ obj'.dst = obj.dst
        \/ rule \in Late /\ obj'.src = obj.src /\ obj'.dst = Absent /\ (obj.src = Absent \/ rule = "done")
    BY <1>0 DEF IInv, RouteOK, StageOK, PrimaryLeg, Flight, Types, Early, Late
  <1>3. OpsOK'
    BY SMTT(60), <1>0 DEF IInv, OpsOK, PrimaryLeg, Same, KeepsRoute, Flight
  <1>4. RouteOK'
    BY SMTT(30), <1>2 DEF IInv, RouteOK, PrimaryLeg, Same, KeepsRoute, Flight, Early, Late
  <1>5. ValuesOK'
    BY SMTT(30), <1>0, <1>2 DEF IInv, ValuesOK, Kept, PrimaryLeg, Same, KeepsRoute
  <1>6. StageOK'
    BY <1>2 DEF IInv, StageOK, PrimaryLeg, Early, Late
  <1>7. CopyOK' /\ CoverOK'
    <2>1. CopyOK'
      BY <1>2 DEF IInv, CopyOK, PrimaryLeg
    <2>2. CoverOK'
      BY <1>2 DEF IInv, StageOK, CoverOK, CoverDue, SourceSubset, PrimaryLeg, Early, Late
    <2> QED BY <2>1, <2>2
  <1>8. KeyOK'
    <2>1. legal \subseteq Names  BY DEF IInv, Types
    <2>2. Current(Absent)'
      BY <1>0 DEF Current
    <2>3. ASSUME rule \in Early PROVE EarlyKey'
      <3>1. CASE op[x].mode = "both" /\ obj'.src = obj.src
        <4>1. PICK w \in legal : /\ obj.src = ValueOf(w)
                                 /\ \A y \in Ops : op[y].pc = "primleg" /\ op[y].mode = "both" => w \notin op[y].before
          BY <2>3 DEF IInv, KeyOK, EarlyKey
        <4>2. w \in legal' /\ obj'.src = ValueOf(w)'
          BY <1>1, <2>1, <3>1, <4>1 DEF PrimaryLeg
        <4> QED BY ZenonT(40), <4>1, <4>2 DEF EarlyKey, PrimaryLeg, Same
      <3>2. CASE obj'.src = Absent
        BY SMT, <1>0, <3>2 DEF EarlyKey, IInv, OpsOK, PrimaryLeg, Same
      <3> QED BY <1>2, <2>3, <3>1, <3>2 DEF Early, Late
    <2>4. CASE rule \in Early
      BY <2>3, <2>4 DEF KeyOK, PrimaryLeg, Early, Late
    <2>5. CASE rule \in Late
      BY <1>2, <2>2, <2>5 DEF KeyOK, PrimaryLeg, Early, Late
    <2> QED BY <1>2, <2>4, <2>5
  <1>9. ReadOK'
    <2>1. ReadBase'  BY DEF IInv, ReadOK, ReadBase, PrimaryLeg, Same, Flight
    <2>2. reader.acc \subseteq Names  BY DEF IInv, Types, ReadRec
    <2>3. reader.pc # "idle" => Seen(Absent)'
      BY <1>0 DEF IInv, ReadOK, ReadBase, Seen, PrimaryLeg, Flight
    <2>4. ReadSource'  BY <1>1, <1>2, <2>2, <2>3 DEF IInv, ReadOK, ReadSource, Seen, PrimaryLeg
    <2>5. ReadTarget'  BY <1>2, <2>3 DEF IInv, ReadOK, ReadTarget, PrimaryLeg, Early
    <2>6. ReadThrough'
      <3>1. CASE rule \in Early
        BY <1>1, <1>2, <2>2, <2>3, <3>1 DEF IInv, ReadOK, ReadThrough, Seen, PrimaryLeg, StageOK, Early, Late
      <3>2. CASE rule \in Late
        BY <1>2, <2>3, <3>2 DEF ReadThrough, PrimaryLeg, Early, Late
      <3> QED BY <1>2, <3>1, <3>2
    <2>7. ReadBehind'  BY <1>1, <1>2, <2>2, <2>3 DEF IInv, ReadOK, ReadBehind, Seen, PrimaryLeg
    <2>8. ReadCurrent'  BY <1>1, <2>2 DEF IInv, ReadOK, ReadCurrent, PrimaryLeg
    <2> QED BY <2>1, <2>4, <2>5, <2>6, <2>7, <2>8 DEF ReadOK
  <1>10. CondOK'
    <2>1. CondRoute'
      BY SMTT(30), <1>0, <1>2 DEF IInv, CondOK, CondRoute, PrimaryLeg, Same, KeepsRoute, Early, Late
    <2> QED BY <2>1, DeleteDoubts DEF PrimaryLeg, CondOK
  <1> QED BY <1>3, <1>4, <1>5, <1>6, <1>7, <1>8, <1>9, <1>10 DEF IInv

\* The delete x failed on the bucket it is answered from.
PrimaryFailed(x) ==
    /\ op[x].pc = "primleg" /\ op'[x].pc = "failed" /\ op'[x].mode = op[x].mode /\ KeepsRoute(x) /\ Same(x)
    /\ UNCHANGED <<obj, rule, bar, step, legal, completed, reader, mover, converged, fell, first>>

\* A delete whose last leg fails keeps the invariant: it may have been applied in part.
LEMMA PrimaryFailedKeeps == ASSUME Capable, IInv, NEW x \in Ops, PrimaryFailed(x), Types' PROVE IInv'
  <1>1. \A w \in Names : ValueOf(w)' = ValueOf(w)
    BY DEF ValueOf, PrimaryFailed, KeepsRoute, Same
  <1>2. OpsOK'
    BY SMT DEF IInv, OpsOK, PrimaryFailed, Same, KeepsRoute, Flight
  <1>3. RouteOK'
    BY ZenonT(40) DEF IInv, RouteOK, PrimaryFailed, Same, KeepsRoute, Flight
  <1>4. ValuesOK' /\ StageOK' /\ CopyOK' /\ CoverOK'
    BY QuietKeeps DEF PrimaryFailed, Same, KeepsRoute
  <1>5. KeyOK'
    <2>1. legal \subseteq Names  BY DEF IInv, Types
    <2>2. rule \in Early => EarlyKey'
      BY ZenonT(40), <1>1, <2>1 DEF IInv, KeyOK, EarlyKey, PrimaryFailed, Same
    <2>3. /\ Current(obj.dst) => Current(obj.dst)'
          /\ Current(obj.src) => Current(obj.src)'
          /\ Current(Absent) => Current(Absent)'
      BY <1>1, <2>1 DEF Current, PrimaryFailed
    <2> QED BY <2>2, <2>3 DEF IInv, KeyOK, Revived, PrimaryFailed
  <1>6. ReadOK'
    <2>1. ReadBase'  BY DEF IInv, ReadOK, ReadBase, PrimaryFailed, Same, Flight
    <2> QED BY <1>1, <2>1, QuietReads DEF PrimaryFailed, IInv, Types, ReadRec
  <1>7. CondOK'
    <2>1. op[x].kind = "delete"  BY DEF IInv, OpsOK, PrimaryFailed, Flight
    <2>2. CondRoute'
      BY ZenonT(40), <2>1 DEF IInv, CondOK, CondRoute, PrimaryFailed, Same, KeepsRoute, Flight
    <2> QED BY <2>2, DeleteDoubts DEF PrimaryFailed, CondOK
  <1> QED BY <1>2, <1>3, <1>4, <1>5, <1>6, <1>7 DEF IInv

-----------------------------------------------------------------------------
(* The clients' actions. *)

\* Admission under the rule in force (Decide, handler.go) keeps the invariant, whatever the kind.
LEMMA AdmitKeeps == ASSUME Capable, IInv, NEW x \in Ops, NEW k \in Kinds, Admit(x, k) PROVE IInv'
  <1>0. Types /\ Types' /\ op[x].pc = "idle" /\ bar # "mutations"
    BY AdmitTypes DEF IInv, Admit
  <1>1. rule # "held" /\ rule \in Rules
    BY <1>0 DEF IInv, StageOK, Types
  <1>2. ASSUME NEW s \in Sides, NEW m \in {"plain", "absent", "match", "both"},
               NEW p \in {"other", "send", "srcleg", "primleg"}, Invoke(x, k, s, m, p),
               k = "delete" <=> p \in {"srcleg", "primleg"}, m = "both" <=> p = "srcleg",
               rule \in Early /\ m # "both" => s = "src", rule \in Late \/ m = "both" => s = "dst",
               rule \in Late /\ p = "primleg" => rule = "done",
               k = "create" => p \in {"other", "send"} /\ m = "absent",
               k = "create" /\ p = "send" => rule \notin {"in", "migrating"},
               k = "update" => m = "match"
        PROVE  IInv'
    <2>0. /\ op'[x].pc = p /\ op'[x].kind = k /\ op'[x].side = s /\ op'[x].mode = m
          /\ op'[x].before = completed /\ Same(x) /\ legal' = legal \cup {x}
          /\ reader'.pc = reader.pc /\ reader'.side = reader.side /\ reader'.fallback = reader.fallback
          /\ reader'.moved = reader.moved /\ reader'.val = reader.val
          /\ reader'.acc = IF reader.pc = "idle" THEN reader.acc ELSE reader.acc \cup {x}
      <3>1. /\ op'[x].pc = p /\ op'[x].kind = k /\ op'[x].side = s /\ op'[x].mode = m
            /\ op'[x].before = completed /\ Same(x) /\ legal' = legal \cup {x}
        BY <1>0, <1>2 DEF Types, Invoke, Same
      <3>2. /\ reader'.pc = reader.pc /\ reader'.side = reader.side /\ reader'.fallback = reader.fallback
            /\ reader'.moved = reader.moved /\ reader'.val = reader.val
            /\ reader'.acc = IF reader.pc = "idle" THEN reader.acc ELSE reader.acc \cup {x}
        <4>1. reader' = IF reader.pc = "idle" THEN reader ELSE [reader EXCEPT !.acc = @ \cup {x}]
          BY <1>2 DEF Invoke
        <4> QED BY <1>0, <4>1, InvokedReader
      <3> QED BY <3>1, <3>2
    <2>1. /\ op'[x].pc = p /\ op'[x].kind = k /\ op'[x].side = s /\ op'[x].mode = m
          /\ op'[x].before = completed /\ Same(x)
      BY <2>0
    <2>2. Sent(x)
      BY <1>0, <1>2, <2>0 DEF Sent, Admit
    <2>3. RouteOK'
      BY ZenonT(40), <1>2, <2>1 DEF IInv, RouteOK, Admit, Same, Flight
    <2>4. CondRoute'
      BY SMT, <1>2, <2>1 DEF IInv, CondOK, CondRoute, Admit, Same, Flight
    <2> QED BY <1>0, <2>2, <2>3, <2>4, SentKeeps
  <1>3. /\ rule \in Early => WriteSide = "src"
        /\ rule \in Late => WriteSide = "dst"
    BY <1>1 DEF WriteSide, Early, Late
  <1>4. CASE k = "delete"
    <2>1. CASE DeleteBoth
      BY <1>0, <1>2, <1>4, <2>1 DEF Admit
    <2>2. CASE ~DeleteBoth
      <3>1. rule \in {"active", "done"} /\ DeleteSide \in Sides
        BY <2>2, <1>1 DEF DeleteBoth, DeleteSide
      <3>2. /\ rule \in Early => DeleteSide = "src"
            /\ rule \in Late => DeleteSide = "dst" /\ rule = "done"
        BY <3>1 DEF DeleteSide, Early, Late
      <3> QED BY <1>2, <1>4, <2>2, <3>1, <3>2 DEF Admit
    <2> QED BY <2>1, <2>2
  <1>5. CASE k = "put"
    BY <1>2, <1>3, <1>5, SideType DEF Admit
  <1>6. CASE k = "upload"
    <2> DEFINE r == [pc |-> "open", kind |-> k, side |-> WriteSide, mode |-> "plain", before |-> {}]
    <2>1. op' = [op EXCEPT ![x] = r] /\ UNCHANGED <<legal, reader>>
      BY <1>6 DEF Admit
    <2>2. op'[x].pc = "open" /\ op'[x].kind = "upload" /\ op'[x].mode = "plain" /\ op'[x].before = {} /\ Same(x)
      BY <1>0, <1>6, <2>1 DEF Types, Same
    <2>3. Parked(x)
      BY <1>0, <2>1, <2>2 DEF Parked, Admit
    <2> QED BY <1>0, <2>3, ParkedKeeps
  <1>7. CASE k = "create"
    <2>1. CASE OtherMatters
      BY <1>2, <1>3, <1>7, <2>1, SideType DEF Admit
    <2>2. CASE ~OtherMatters
      <3>1. rule \notin {"in", "migrating"}  BY <2>2 DEF OtherMatters
      <3> QED BY <1>2, <1>3, <1>7, <2>2, <3>1, SideType DEF Admit, Capable
    <2> QED BY <2>1, <2>2
  <1>8. CASE k = "update"
    <2>1. CASE OtherMatters
      BY <1>2, <1>3, <1>8, <2>1, SideType DEF Admit
    <2>2. CASE ~OtherMatters
      BY <1>2, <1>3, <1>8, <2>2, SideType DEF Admit
    <2> QED BY <2>1, <2>2
  <1> QED BY <1>4, <1>5, <1>6, <1>7, <1>8, KindsKnown

\* Completing an upload keeps the invariant, while the rule sends the key where it was opened: an
\* upload that outlives the hand-over is one of the documented windows.
LEMMA CompleteUploadKeeps == ASSUME Capable, IInv, NEW x \in Ops, CompleteUpload(x) PROVE IInv'
  <1>0. Types /\ Types' /\ op[x].pc = "open" /\ bar # "mutations" /\ op[x].side = WriteSide
    BY ClientTypes DEF IInv, CompleteUpload, Capable
  <1>1. op[x].kind = "upload" /\ op[x].mode = "plain"
    BY <1>0 DEF IInv, OpsOK
  <1>a. Invoke(x, "upload", WriteSide, "plain", "send")
    BY <1>0, <1>1 DEF CompleteUpload
  <1>b. /\ op'[x].pc = "send" /\ op'[x].kind = "upload" /\ op'[x].side = WriteSide /\ op'[x].mode = "plain"
        /\ op'[x].before = completed /\ Same(x) /\ legal' = legal \cup {x}
        /\ reader'.pc = reader.pc /\ reader'.side = reader.side /\ reader'.fallback = reader.fallback
        /\ reader'.moved = reader.moved /\ reader'.val = reader.val
        /\ reader'.acc = IF reader.pc = "idle" THEN reader.acc ELSE reader.acc \cup {x}
    <2>1. /\ op'[x].pc = "send" /\ op'[x].kind = "upload" /\ op'[x].side = WriteSide /\ op'[x].mode = "plain"
          /\ op'[x].before = completed /\ Same(x) /\ legal' = legal \cup {x}
      BY <1>0, <1>a DEF Types, Invoke, Same
    <2>2. /\ reader'.pc = reader.pc /\ reader'.side = reader.side /\ reader'.fallback = reader.fallback
          /\ reader'.moved = reader.moved /\ reader'.val = reader.val
          /\ reader'.acc = IF reader.pc = "idle" THEN reader.acc ELSE reader.acc \cup {x}
      <3>1. reader' = IF reader.pc = "idle" THEN reader ELSE [reader EXCEPT !.acc = @ \cup {x}]
        BY <1>a DEF Invoke
      <3> QED BY <1>0, <3>1, InvokedReader
    <2> QED BY <2>1, <2>2
  <1>2. /\ op'[x].pc = "send" /\ op'[x].kind = "upload" /\ op'[x].side = WriteSide /\ op'[x].mode = "plain"
        /\ op'[x].before = completed /\ Same(x)
    BY <1>b
  <1>3. Sent(x)
    BY <1>0, <1>1, <1>b DEF Sent, CompleteUpload
  <1>4. RouteOK'
    <2>1. rule # "held"  BY <1>0 DEF IInv, StageOK
    <2> QED BY ZenonT(40), <1>2, <2>1 DEF IInv, RouteOK, CompleteUpload, Same, Flight, WriteSide, Early, Late
  <1>5. CondRoute'
    BY ZenonT(40), <1>2 DEF IInv, CondOK, CondRoute, CompleteUpload, Same, Flight
  <1> QED BY <1>0, <1>3, <1>4, <1>5, SentKeeps

\* Aborting an upload keeps the invariant.
LEMMA AbortUploadKeeps == ASSUME Capable, IInv, NEW x \in Ops, AbortUpload(x) PROVE IInv'
  <1>1. Types /\ Types'
    BY ClientTypes DEF IInv
  <1>2. Parked(x)
    BY <1>1, PcEffect DEF AbortUpload, Parked
  <1> QED BY <1>1, <1>2, ParkedKeeps

\* The HEAD of the other bucket before a conditional write keeps the invariant.
LEMMA HeadOtherKeeps == ASSUME Capable, IInv, NEW x \in Ops, HeadOther(x) PROVE IInv'
  <1>0. Types /\ Types' /\ op[x].pc = "other" /\ op[x].kind # "delete"
    BY ClientTypes DEF IInv, HeadOther, OpsOK
  <1> DEFINE there == obj[Other(op[x].side)]
  <1>1. /\ rule \in Early => there = Absent
        /\ rule \in Late => there = obj.src
    BY <1>0 DEF IInv, RouteOK, StageOK, Flight, Other, Types, Early, Late
  <1>2. CASE Refuse(x)
    <2>1. Refused(x)
      BY <1>0, <1>2, PcEffect DEF HeadOther, Refuse, Refused
    <2> QED BY <1>0, <2>1, RefusedKeeps
  <1>3. CASE /\ op[x].mode = "absent" /\ there = Absent /\ op' = [op EXCEPT ![x].pc = "send"]
             /\ UNCHANGED <<legal, completed>>
    <2>1. op'[x].pc = "send" /\ op'[x].mode = "absent" /\ KeepsRoute(x) /\ Same(x)
      BY <1>0, <1>3, PcEffect
    <2>2. Progressed(x)
      BY <1>0, <1>3, <2>1 DEF HeadOther, Progressed
    <2>3. CondRoute'
      BY SMTT(30), <1>0, <1>1, <1>3, <2>1 DEF IInv, CondOK, CondRoute, HeadOther, Same, KeepsRoute, Flight, Late
    <2> QED BY <1>0, <2>2, <2>3, ProgressedKeeps
  <1>4. CASE /\ op[x].mode = "match"
             /\ op' = [op EXCEPT ![x].pc = "dest", ![x].mode = IF Matches(there) THEN "matched" ELSE "match"]
             /\ UNCHANGED <<legal, completed>>
    <2>1. /\ op'[x].pc = "dest" /\ op'[x].mode = (IF Matches(there) THEN "matched" ELSE "match")
          /\ KeepsRoute(x) /\ Same(x)
      BY ZenonT(40), <1>0, <1>4, PcModeEffect
    <2>2. Progressed(x)
      BY SMT, <1>0, <1>4, <2>1 DEF HeadOther, Progressed
    <2>3. Matches(there) => rule \in Late /\ obj.src = Orig
      BY <1>0, <1>1, Distinct DEF Matches, Types, Early, Late
    <2>4. op[x].kind # "create"
      BY <1>0, <1>4 DEF IInv, CondOK, CondRoute, Flight
    <2>5. CondRoute'
      BY SMT, <2>1, <2>3, <2>4 DEF IInv, CondOK, CondRoute, HeadOther, Same, KeepsRoute, Flight
    <2> QED BY <1>0, <2>2, <2>5, ProgressedKeeps
  <1> QED BY <1>2, <1>3, <1>4 DEF HeadOther, Capable

\* The HEAD of the target that follows it keeps the invariant.
LEMMA HeadDestKeeps == ASSUME Capable, IInv, NEW x \in Ops, HeadDest(x) PROVE IInv'
  <1>0. Types /\ Types' /\ op[x].pc = "dest" /\ op[x].kind \notin {"delete", "create"}
    BY ClientTypes DEF IInv, HeadDest, OpsOK, CondOK, CondRoute, Flight
  <1>1. CASE Refuse(x)
    <2>1. Refused(x)
      BY <1>0, <1>1, PcEffect DEF HeadDest, Refuse, Refused
    <2> QED BY <1>0, <2>1, RefusedKeeps
  <1>2. ASSUME NEW m \in {"plain", "match", "absent"}, op' = [op EXCEPT ![x].pc = "send", ![x].mode = m],
               UNCHANGED <<legal, completed>>,
               m = "plain" => op[x].mode = "absent",
               m = "absent" => op[x].mode = "matched"
        PROVE  IInv'
    <2>1. op'[x].pc = "send" /\ op'[x].mode = m /\ KeepsRoute(x) /\ Same(x)
      BY <1>0, <1>2, PcModeEffect
    <2>2. Progressed(x)
      BY <1>0, <1>2, <2>1 DEF HeadDest, Progressed
    <2>3. op[x].kind = "update" => m \in {"match", "absent"} /\ (m # "match" => rule \in Late /\ obj.src \in {Orig, Absent})
      BY <1>0, <1>2 DEF IInv, CondOK, CondRoute
    <2>4. UNCHANGED <<rule, obj>>  BY DEF HeadDest
    <2>5. CondRoute'
      BY SMTT(60), <1>0, <2>1, <2>3, <2>4 DEF IInv, CondOK, CondRoute, Same, KeepsRoute, Flight
    <2> QED BY <1>0, <2>2, <2>5, ProgressedKeeps
  <1> QED BY <1>1, <1>2 DEF HeadDest, Capable

\* The write's own request keeps the invariant, stored or refused by its precondition.
LEMMA SendKeeps == ASSUME Capable, IInv, NEW x \in Ops, Send(x) PROVE IInv'
  <1>0. Types /\ Types'
    BY ClientTypes DEF IInv
  <1>1. CASE Holds(x) /\ obj' = [obj EXCEPT ![op[x].side] = x] /\ Finish(x)
    <2>1. Written(x)
      BY <1>0, <1>1, PcEffect DEF Send, Finish, Written
    <2> QED BY <1>0, <2>1, WrittenKeeps
  <1>2. CASE obj' = obj /\ Refuse(x)
    <2>1. Refused(x)
      BY <1>0, <1>2, PcEffect DEF Send, Refuse, Refused
    <2> QED BY <1>0, <2>1, RefusedKeeps
  <1> QED BY <1>1, <1>2 DEF Send

\* A delete's request to the source keeps the invariant.
LEMMA DeleteOnSourceKeeps == ASSUME Capable, IInv, NEW x \in Ops, DeleteOnSource(x) PROVE IInv'
  <1>0. Types /\ Types'
    BY ClientTypes DEF IInv
  <1>1. SourceLeg(x)
    BY <1>0, PcEffect DEF DeleteOnSource, SourceLeg, Capable, Types
  <1> QED BY <1>0, <1>1, SourceLegKeeps

\* A delete's request to the primary keeps the invariant.
LEMMA DeleteOnPrimaryKeeps == ASSUME Capable, IInv, NEW x \in Ops, DeleteOnPrimary(x) PROVE IInv'
  <1>0. Types /\ Types'
    BY ClientTypes DEF IInv
  <1>1. CASE obj' = [obj EXCEPT ![op[x].side] = Absent] /\ Finish(x)
    <2>1. PrimaryLeg(x)
      BY <1>0, <1>1, PcEffect DEF DeleteOnPrimary, Finish, PrimaryLeg
    <2> QED BY <1>0, <2>1, PrimaryLegKeeps
  <1>2. CASE obj' = obj /\ op' = [op EXCEPT ![x].pc = "failed"] /\ UNCHANGED <<legal, completed>>
    <2>1. PrimaryFailed(x)
      BY <1>0, <1>2, PcEffect DEF DeleteOnPrimary, PrimaryFailed
    <2> QED BY <1>0, <2>1, PrimaryFailedKeeps
  <1> QED BY <1>1, <1>2 DEF DeleteOnPrimary

-----------------------------------------------------------------------------
(* The read's actions. *)

\* A step of the read disturbs nothing but the read.
LEMMA ReaderFrame ==
    ASSUME IInv, UNCHANGED <<obj, rule, bar, step, op, legal, completed, mover, converged, first>>
    PROVE  OpsOK' /\ RouteOK' /\ ValuesOK' /\ StageOK' /\ CopyOK' /\ CoverOK' /\ KeyOK' /\ CondOK'
  <1>1. OpsOK' /\ RouteOK'  BY DEF IInv, OpsOK, RouteOK
  <1>2. ValuesOK' /\ StageOK' /\ CopyOK' /\ CoverOK'  BY QuietKeeps
  <1>3. KeyOK'  BY DEF IInv, KeyOK, EarlyKey, Current, Revived, ValueOf
  <1>4. CondRoute'  BY DEF IInv, CondOK, CondRoute
  <1>5. CreateOK' /\ UpdateOK' /\ ConditionalOnce'  BY QuietWinners DEF Deletes
  <1> QED BY <1>1, <1>2, <1>3, <1>4, <1>5 DEF CondOK

\* Admitting a read keeps the invariant: the value the rule in force shows is current.
LEMMA ReadAdmitKeeps == ASSUME IInv, ReadAdmit PROVE IInv'
  <1>0. Types' /\ UNCHANGED <<obj, rule, bar, step, op, legal, completed, mover, converged, first>>
    BY ReaderTypes DEF IInv, ReadAdmit
  <1>1. /\ reader'.pc = "first" /\ reader'.side = ReadSide /\ reader'.fallback = ReadFallback
        /\ reader'.acc = legal /\ reader'.moved = (mover.pc # "idle")
    BY DEF ReadAdmit, NoRead
  <1>2. ReadFallback = (rule \in {"held", "in", "migrating"}) /\ ReadSide = (IF rule \in {"active", "out"} THEN "src" ELSE "dst")
    BY DEF ReadFallback, ReadSide
  <1>3. \A w : ValueOf(w)' = ValueOf(w)
    BY <1>0 DEF ValueOf
  <1>4. ReadBase'
    <2>1. \A x \in Ops : /\ op[x].pc \in Flight => x \in legal
                         /\ x \in legal => op[x].pc \notin {"idle", "open"}
      BY DEF IInv, OpsOK, Flight
    <2>2. reader'.side = "src" => ~reader'.fallback
      BY <1>1 DEF ReadSide, ReadFallback
    <2>3. ~reader'.moved => mover'.pc = "idle"
      BY <1>0, <1>1
    <2>4. reader'.pc = "first" /\ reader'.acc = legal /\ op' = op
      BY <1>0, <1>1
    <2> QED BY <2>1, <2>2, <2>3, <2>4 DEF ReadBase, Flight
  <1>5. ReadSource'
    <2>1. SUFFICES ASSUME rule \in {"active", "out"} PROVE ReadSource'
      BY <1>1, <1>2 DEF ReadSource
    <2>2. EarlyKey /\ ~converged  BY <2>1 DEF IInv, KeyOK, StageOK, Early
    <2>3. Seen(obj.src)'  BY <2>2, <1>0, <1>1, <1>3 DEF EarlyKey, Seen
    <2> QED BY <1>0, <2>1, <2>2, <2>3 DEF ReadSource
  <1>6. ReadTarget'
    <2>1. SUFFICES ASSUME ~ReadFallback, ReadSide = "dst" PROVE ReadTarget'
      BY <1>1 DEF ReadTarget
    <2>2. rule \in {"cutover", "done"}  BY <1>2, <2>1 DEF IInv, Types
    <2>3. Current(obj.dst)  BY <2>2 DEF IInv, KeyOK, StageOK, Revived, Late
    <2>4. Seen(obj.dst)'  BY <2>3, <1>0, <1>1, <1>3 DEF Current, Seen
    <2> QED BY <1>0, <2>2, <2>4 DEF ReadTarget
  <1>7. ReadThrough'
    <2>1. SUFFICES ASSUME ReadFallback, mover.pc = "idle" PROVE ReadThrough'
      BY <1>1 DEF ReadThrough
    <2>2. rule \in {"held", "in", "migrating"}  BY <1>2, <2>1
    <2>3. Current(IF obj.dst = Absent THEN obj.src ELSE obj.dst)
      <3>1. CASE rule = "held"  BY <3>1 DEF IInv, KeyOK, EarlyKey, StageOK, Current, Early
      <3>2. CASE rule \in {"in", "migrating"}  BY <2>1, <3>2 DEF IInv, KeyOK, Revived, Late
      <3> QED BY <2>2, <3>1, <3>2
    <2>4. Seen(IF obj.dst = Absent THEN obj.src ELSE obj.dst)'
      BY <2>3, <1>0, <1>1, <1>3 DEF Current, Seen
    <2> QED BY <2>4 DEF ReadThrough
  <1>8. ReadBehind' /\ ReadCurrent'
    BY <1>1 DEF ReadBehind, ReadCurrent
  <1> QED BY <1>0, <1>4, <1>5, <1>6, <1>7, <1>8, ReaderFrame DEF IInv, ReadOK

\* The read's first request keeps the invariant: its answer is current, or the source's still is.
LEMMA ReadFirstKeeps == ASSUME IInv, ReadFirst PROVE IInv'
  <1>0. Types' /\ UNCHANGED <<obj, rule, bar, step, op, legal, completed, mover, converged, first>>
    BY ReaderTypes DEF IInv, ReadFirst
  <1>1. /\ reader.pc = "first" /\ reader'.side = reader.side /\ reader'.fallback = reader.fallback
        /\ reader'.acc = reader.acc /\ reader'.moved = reader.moved
        /\ \/ reader'.pc = "fallback" /\ reader.fallback /\ obj[reader.side] = Absent
           \/ /\ reader'.pc = "done" /\ reader'.val = obj[reader.side]
              /\ ~(reader.fallback /\ obj[reader.side] = Absent)
    BY DEF ReadFirst, IInv, Types, ReadRec
  <1>2. \A w : ValueOf(w)' = ValueOf(w)
    BY <1>0 DEF ValueOf
  <1>3. ReadBase'
    BY <1>0, <1>1 DEF ReadBase, IInv, ReadOK
  <1>4. ReadSource' /\ ReadTarget' /\ ReadThrough'
    BY <1>1 DEF ReadSource, ReadTarget, ReadThrough
  <1>5. reader.side \in {"src", "dst"} /\ (reader.side = "src" => ~reader.fallback)
    BY DEF IInv, Types, ReadRec, ReadOK, ReadBase
  <1>6. ReadBehind'
    BY <1>0, <1>1, <1>2, <1>5 DEF IInv, ReadOK, ReadThrough, ReadBehind, Seen
  <1>7. ReadCurrent'
    <2>1. SUFFICES ASSUME reader'.pc = "done", ~reader.moved, ~(reader.fallback /\ rule = "done")
                   PROVE  \E w \in reader.acc : obj[reader.side] = ValueOf(w)
      BY <1>0, <1>1, <1>2 DEF ReadCurrent
    <2>2. CASE reader.side = "src"
      BY <1>1, <2>1, <2>2 DEF IInv, ReadOK, ReadSource, Seen
    <2>3. CASE reader.side = "dst" /\ ~reader.fallback
      BY <1>1, <2>1, <2>3 DEF IInv, ReadOK, ReadTarget, Seen
    <2>4. CASE reader.side = "dst" /\ reader.fallback
      BY <1>1, <2>1, <2>4 DEF IInv, ReadOK, ReadThrough, Seen
    <2> QED BY <1>5, <2>2, <2>3, <2>4
  <1> QED BY <1>0, <1>3, <1>4, <1>6, <1>7, ReaderFrame DEF IInv, ReadOK

\* The read's fallback to the source keeps the invariant.
LEMMA FallbackReadKeeps == ASSUME IInv, FallbackRead PROVE IInv'
  <1>0. Types' /\ UNCHANGED <<obj, rule, bar, step, op, legal, completed, mover, converged, first>>
    BY ReaderTypes DEF IInv, FallbackRead
  <1>1. /\ reader.pc = "fallback" /\ reader'.side = reader.side /\ reader'.fallback = reader.fallback
        /\ reader'.acc = reader.acc /\ reader'.moved = reader.moved
        /\ reader'.pc = "done" /\ reader'.val = obj.src
    BY DEF FallbackRead, IInv, Types, ReadRec
  <1>2. \A w : ValueOf(w)' = ValueOf(w)
    BY <1>0 DEF ValueOf
  <1>3. ReadBase'
    BY <1>0, <1>1 DEF ReadBase, IInv, ReadOK
  <1>4. ReadSource' /\ ReadTarget' /\ ReadThrough' /\ ReadBehind'
    BY <1>1 DEF ReadSource, ReadTarget, ReadThrough, ReadBehind
  <1>5. ReadCurrent'
    BY <1>0, <1>1, <1>2 DEF IInv, ReadOK, ReadBase, ReadBehind, Seen, ReadCurrent
  <1> QED BY <1>0, <1>3, <1>4, <1>5, ReaderFrame DEF IInv, ReadOK

-----------------------------------------------------------------------------
(* The mover's actions. *)

\* A step of the mover changes no placement and no mutation.
MoverAlone == UNCHANGED <<rule, bar, step, op, legal, completed, fell, first>>

\* Such a step leaves the mutations' bookkeeping and routes as they were.
LEMMA MoverFrame == ASSUME IInv, MoverAlone PROVE OpsOK' /\ (obj'.src = obj.src => RouteOK' /\ CondRoute')
  <1>1. OpsOK'  BY DEF IInv, OpsOK, MoverAlone
  <1>2. obj'.src = obj.src => RouteOK'  BY DEF IInv, RouteOK, MoverAlone
  <1>3. obj'.src = obj.src => CondRoute'  BY DEF IInv, CondOK, CondRoute, MoverAlone
  <1> QED BY <1>1, <1>2, <1>3

\* (a step of the mover that writes nothing)
LEMMA MoverQuiet ==
    ASSUME IInv, MoverAlone, Types', obj' = obj,
           rule \in {"in", "migrating"}, bar = "none",
           mover'.copy = mover.copy \/ mover'.copy \in {obj.src, Absent},
           Revived' <=> Revived,
           reader'.pc = reader.pc, reader'.side = reader.side, reader'.fallback = reader.fallback,
           reader'.acc = reader.acc, reader'.val = reader.val,
           reader.moved => reader'.moved,
           mover.pc = "idle" /\ reader.pc \in {"first", "fallback"} => reader'.moved,
           CopyOK', CoverOK'
    PROVE  IInv'
  <1> USE Distinct DEF MoverAlone
  <1>1. OpsOK' /\ RouteOK' /\ CondRoute'
    BY MoverFrame
  <1>2. ValuesOK'
    BY DEF IInv, ValuesOK, Kept
  <1>3. StageOK'
    BY DEF IInv, StageOK, Types, Early, Late
  <1>4. KeyOK'
    <2>1. \A v : Current(v)' = Current(v)  BY DEF Current, ValueOf
    <2>2. rule \notin Early  BY DEF Early
    <2> QED BY <2>1, <2>2 DEF IInv, KeyOK
  <1>5. \A w : ValueOf(w)' = ValueOf(w)
    BY DEF ValueOf
  <1>6. ReadOK'
    <2>0. reader.pc \in {"first", "fallback"} => reader'.moved
      BY DEF IInv, ReadOK, ReadBase
    <2>1. ReadBase'  BY <2>0 DEF IInv, ReadOK, ReadBase
    <2>2. ReadSource' /\ ReadThrough' /\ ReadBehind'  BY <2>0 DEF ReadSource, ReadThrough, ReadBehind
    <2>3. ReadTarget'  BY <1>5 DEF IInv, ReadOK, ReadTarget, Seen
    <2>4. ReadCurrent'  BY <1>5 DEF IInv, ReadOK, ReadCurrent
    <2> QED BY <2>1, <2>2, <2>3, <2>4 DEF ReadOK
  <1>7. CreateOK' /\ UpdateOK' /\ ConditionalOnce'
    <2>1. Present' = Present /\ Superseded' = Superseded  BY DEF Present, Superseded
    <2>2. \A y : Doubted(y)' = Doubted(y)  BY DEF Doubted, Deletes
    <2>3. CreateOK'  BY <2>1, <2>2 DEF IInv, CondOK, CreateOK, Winners
    <2>4. UpdateOK'  BY <2>1, <2>2 DEF IInv, CondOK, UpdateOK, Winners
    <2>5. ConditionalOnce'  BY SMT DEF IInv, CondOK, ConditionalOnce, Winners, Deletes
    <2> QED BY <2>3, <2>4, <2>5
  <1> QED BY <1>1, <1>2, <1>3, <1>4, <1>6, <1>7 DEF IInv, CondOK

\* (the end of the key's copy, field by field)
LEMMA CopiedEffect ==
    ASSUME Types, NEW r, Copied(r)
    PROVE  mover'.pc = "end" /\ mover'.result = r /\ mover'.past /\ mover'.copy = mover.copy
  BY DEF Copied, Types, MoverRec

\* The mover taking up the key keeps the invariant.
LEMMA MoverStartKeeps == ASSUME Capable, IInv, MoverStart PROVE IInv'
  <1>0. Types' /\ Types
    BY MoverTypes DEF IInv
  <1>1. /\ mover.pc = "idle" /\ rule \in {"in", "migrating"} /\ bar = "none" /\ obj' = obj /\ converged' = converged
        /\ MoverAlone
    BY DEF MoverStart, MoverAlone
  <1>2. /\ mover'.pc = (IF mover.past \/ obj.src = Absent THEN "end" ELSE "head")
        /\ mover'.copy = Absent /\ mover'.result = "none" /\ mover'.past = mover.past
    BY ZenonT(40), <1>0 DEF MoverStart, Types, MoverRec
  <1>3. /\ reader'.pc = reader.pc /\ reader'.side = reader.side /\ reader'.fallback = reader.fallback
        /\ reader'.acc = reader.acc /\ reader'.val = reader.val
        /\ reader.moved \/ reader.pc \in {"first", "fallback"} => reader'.moved
    BY <1>0 DEF MoverStart, Types, ReadRec
  <1>4. ~Revived /\ ~Revived'
    BY <1>1, <1>2 DEF Revived
  <1>5. CopyOK'
    BY <1>2 DEF CopyOK
  <1>6. CoverOK'
    BY <1>1, <1>2 DEF IInv, CoverOK, CoverDue, SourceSubset, MoverAlone
  <1> QED BY <1>0, <1>1, <1>2, <1>3, <1>4, <1>5, <1>6, MoverQuiet

\* The mover's comparison of the two copies keeps the invariant: a key it skips is covered.
LEMMA HeadBothKeeps == ASSUME Capable, IInv, HeadBoth PROVE IInv'
  <1>0. Types' /\ Types
    BY MoverTypes DEF IInv
  <1>1. mover.pc = "head" /\ obj' = obj /\ converged' = converged /\ reader' = reader /\ MoverAlone
    BY DEF HeadBoth, MoverAlone
  <1>2. rule \in {"in", "migrating"} /\ bar = "none"
    BY <1>1 DEF IInv, StageOK
  <1>3. /\ mover'.copy = mover.copy
        /\ \/ mover'.pc = "end" /\ mover'.result # "error" /\ (obj.src = Absent \/ obj.dst # Absent)
           \/ mover'.pc = "end" /\ mover'.result = "error"
           \/ mover'.pc = "get"
    <2>1. CASE \E r \in {"vanished", "skipped", "error"} : Copied(r)
      BY ZenonT(40), <1>0, <2>1, CopiedEffect DEF HeadBoth, Types, MoverRec
    <2>2. CASE mover' = [mover EXCEPT !.pc = "get"]
      BY <1>0, <2>2 DEF Types, MoverRec
    <2> QED BY <2>1, <2>2 DEF HeadBoth
  <1>4. ~Revived /\ ~Revived'
    BY <1>1, <1>3 DEF Revived
  <1>5. CopyOK'
    BY <1>3 DEF CopyOK
  <1>6. CoverOK'
    BY <1>1, <1>3 DEF IInv, CoverOK, CoverDue, SourceSubset, MoverAlone
  <1> QED BY <1>0, <1>1, <1>2, <1>3, <1>4, <1>5, <1>6, MoverQuiet

\* The mover's GET keeps the invariant.
LEMMA GetSourceKeeps == ASSUME Capable, IInv, GetSource PROVE IInv'
  <1>0. Types' /\ Types
    BY MoverTypes DEF IInv
  <1>1. mover.pc = "get" /\ obj' = obj /\ converged' = converged /\ reader' = reader /\ MoverAlone
    BY DEF GetSource, MoverAlone
  <1>2. rule \in {"in", "migrating"} /\ bar = "none"
    BY <1>1 DEF IInv, StageOK
  <1>3. \/ mover'.pc = "end" /\ mover'.result # "error" /\ obj.src = Absent /\ mover'.copy = mover.copy
        \/ mover'.pc = "end" /\ mover'.result = "error" /\ mover'.copy = mover.copy
        \/ mover'.pc = "put" /\ mover'.copy = obj.src /\ obj.src # Absent
    <2>1. CASE obj.src = Absent /\ Copied("vanished")
      BY <1>0, <2>1, CopiedEffect
    <2>2. CASE Copied("error")
      BY <1>0, <2>2, CopiedEffect
    <2>3. CASE obj.src # Absent /\ mover' = [mover EXCEPT !.pc = "put", !.copy = obj.src]
      BY ZenonT(40), <1>0, <2>3 DEF Types, MoverRec
    <2> QED BY <2>1, <2>2, <2>3 DEF GetSource
  <1>4. ~Revived /\ ~Revived'
    BY <1>1, <1>3 DEF Revived
  <1>5. CopyOK'
    BY <1>1, <1>3 DEF CopyOK
  <1>6. CoverOK'
    BY <1>1, <1>3 DEF IInv, CoverOK, CoverDue, SourceSubset, MoverAlone
  <1> QED BY <1>0, <1>1, <1>2, <1>3, <1>4, <1>5, <1>6, MoverQuiet

\* The mover's recheck of the source keeps the invariant: a copy of a deleted object is withdrawn.
LEMMA RecheckKeeps == ASSUME Capable, IInv, Recheck PROVE IInv'
  <1>0. Types' /\ Types
    BY MoverTypes DEF IInv
  <1>1. mover.pc = "recheck" /\ obj' = obj /\ converged' = converged /\ reader' = reader /\ MoverAlone
    BY DEF Recheck, MoverAlone
  <1>2. rule \in {"in", "migrating"} /\ bar = "none"
    BY <1>1 DEF IInv, StageOK
  <1>3. /\ mover'.copy = mover.copy
        /\ \/ mover'.pc = "withdraw" /\ obj.src = Absent
           \/ mover'.pc = "end" /\ obj.src # Absent
    <2>1. CASE obj.src # Absent /\ Copied("copied")
      BY <1>0, <2>1, CopiedEffect
    <2>2. CASE obj.src = Absent /\ mover' = [mover EXCEPT !.pc = "withdraw"]
      BY <1>0, <2>2 DEF Types, MoverRec
    <2> QED BY <2>1, <2>2 DEF Recheck, Capable
  <1>4. Revived' <=> Revived
    BY <1>1, <1>3 DEF Revived
  <1>5. CopyOK'
    BY <1>1, <1>3 DEF IInv, CopyOK
  <1>6. CoverOK'
    BY <1>1, <1>3 DEF IInv, CoverOK, CoverDue, SourceSubset, MoverAlone
  <1> QED BY <1>0, <1>1, <1>2, <1>3, <1>4, <1>5, <1>6, MoverQuiet

\* The end of the mover's pass keeps the invariant: a report of convergence is covered.
LEMMA MoverEndKeeps == ASSUME Capable, IInv, MoverEnd \/ MoverStopped PROVE IInv'
  <1>0. Types' /\ Types
    BY MoverTypes DEF IInv
  <1>1. mover.pc = "end" /\ obj' = obj /\ reader' = reader /\ MoverAlone
    BY DEF MoverEnd, MoverStopped, MoverAlone
  <1>2. rule \in {"in", "migrating"} /\ bar = "none"
    BY <1>1 DEF IInv, StageOK
  <1>3. /\ mover'.pc = "idle" /\ mover'.copy = mover.copy
        /\ mover'.past \/ converged' => mover.result # "error"
    <2>1. CASE MoverEnd  BY ZenonT(40), <1>0, <2>1 DEF MoverEnd, Converged, Types, MoverRec
    <2>2. CASE MoverStopped  BY <1>0, <2>2 DEF MoverStopped, Capable, Types, MoverRec
    <2> QED BY <2>1, <2>2
  <1>4. ~Revived /\ ~Revived'
    BY <1>1, <1>3 DEF Revived
  <1>5. CopyOK'
    BY <1>3 DEF CopyOK
  <1>6. CoverOK'
    BY <1>1, <1>2, <1>3 DEF IInv, CoverOK, CoverDue, SourceSubset, MoverAlone
  <1> QED BY <1>0, <1>1, <1>2, <1>3, <1>4, <1>5, <1>6, MoverQuiet

\* (a write of the mover touches the target only)
LEMMA MoverWrites ==
    ASSUME IInv, MoverAlone, Types', obj'.src = obj.src, reader' = reader, converged' = converged,
           rule \in {"in", "migrating"}, bar = "none", mover.pc # "idle", mover'.copy = mover.copy,
           obj'.dst \in {mover.copy, Absent}, CopyOK', CoverOK', KeyOK',
           Present => Present', Superseded => Superseded'
    PROVE  IInv'
  <1> USE Distinct DEF MoverAlone
  <1>1. OpsOK' /\ RouteOK' /\ CondRoute'
    BY MoverFrame
  <1>2. ValuesOK'
    BY DEF IInv, ValuesOK, Kept
  <1>3. StageOK'
    BY DEF IInv, StageOK, Types, Early, Late
  <1>4. \A w : ValueOf(w)' = ValueOf(w)
    BY DEF ValueOf
  <1>5. ReadOK'
    <2>0. reader.pc \in {"first", "fallback"} => reader.moved
      BY DEF IInv, ReadOK, ReadBase
    <2>1. ReadBase'  BY <2>0 DEF IInv, ReadOK, ReadBase
    <2>2. ReadSource' /\ ReadThrough' /\ ReadBehind'  BY <2>0 DEF ReadSource, ReadThrough, ReadBehind
    <2>3. ReadTarget'  BY DEF IInv, ReadOK, ReadTarget
    <2>4. ReadCurrent'  BY <1>4 DEF IInv, ReadOK, ReadCurrent
    <2> QED BY <2>1, <2>2, <2>3, <2>4 DEF ReadOK
  <1>6. CreateOK' /\ UpdateOK' /\ ConditionalOnce'
    <2>2. \A y : Doubted(y)' <=> Doubted(y)  BY DEF Doubted, Deletes
    <2>3. CreateOK'  BY <2>2 DEF IInv, CondOK, CreateOK, Winners
    <2>4. UpdateOK'  BY <2>2 DEF IInv, CondOK, UpdateOK, Winners
    <2>5. ConditionalOnce'  BY SMT DEF IInv, CondOK, ConditionalOnce, Winners, Deletes
    <2> QED BY <2>3, <2>4, <2>5
  <1> QED BY <1>1, <1>2, <1>3, <1>5, <1>6 DEF IInv, CondOK

\* The mover's guarded PUT keeps the invariant: it never replaces a client's write.
LEMMA PutTargetKeeps == ASSUME Capable, IInv, PutTarget PROVE IInv'
  <1>0. Types' /\ Types
    BY MoverTypes DEF IInv
  <1>1. mover.pc = "put" /\ converged' = converged /\ reader' = reader /\ MoverAlone
    BY DEF PutTarget, MoverAlone
  <1>2. rule \in {"in", "migrating"} /\ bar = "none"
    BY <1>1 DEF IInv, StageOK
  <1>3. mover.copy # Absent /\ obj.src \in {mover.copy, Absent}
    BY <1>1 DEF IInv, CopyOK
  <1> DEFINE Wrote == obj.dst = Absent /\ obj' = [obj EXCEPT !.dst = mover.copy] /\ mover' = [mover EXCEPT !.pc = "recheck"]
             Left == obj' = obj /\ (Copied("error") \/ (obj.dst # Absent /\ Copied("skipped")))
  <1>4. CASE Wrote
    <2>1. /\ obj'.src = obj.src /\ obj'.dst = mover.copy
          /\ mover'.pc = "recheck" /\ mover'.copy = mover.copy
      BY <1>0, <1>4 DEF Types, MoverRec
    <2>2. ~Revived /\ (Revived' <=> obj.src = Absent)
      BY <1>1, <2>1 DEF Revived
    <2>3. CopyOK' /\ CoverOK'
      BY <1>3, <2>1 DEF CopyOK, CoverOK, SourceSubset
    <2>4. KeyOK'
      <3>1. \A v : Current(v)' <=> Current(v)  BY DEF Current, ValueOf, MoverAlone, PutTarget
      <3>2. obj.src # Absent => Current(mover.copy)
        BY <1>2, <1>3, <1>4 DEF IInv, KeyOK
      <3>3. obj.src = Absent => Current(Absent)
        BY <1>2, <1>4 DEF IInv, KeyOK, Late
      <3>4. rule' = rule  BY DEF PutTarget
      <3>5. obj'.dst # Absent => Current(obj.dst)' \/ Revived'
        <4>1. Current(mover.copy) => Current(obj.dst)'
          BY <2>1, <3>1 DEF Current, ValueOf, PutTarget
        <4> QED BY <2>2, <3>2, <4>1
      <3>6. obj'.dst # Absent  BY <1>3, <2>1
      <3>7. (obj.src = Absent \/ rule \in {"cutover", "done"}) => Current(Absent)'
        BY <1>2, <3>1, <3>3
      <3> QED BY <1>2, <2>1, <3>4, <3>5, <3>6, <3>7 DEF KeyOK, Early
    <2>5. Present => Present'
      BY <1>4, <2>1 DEF Present, PutTarget
    <2>6. Superseded => Superseded'
      BY <1>3, <1>4, <2>1, Distinct DEF Superseded
    <2> QED BY <1>0, <1>1, <1>2, <2>1, <2>3, <2>4, <2>5, <2>6, MoverWrites
  <1>5. CASE Left
    <2>1. /\ mover'.pc = "end" /\ mover'.copy = mover.copy
          /\ mover'.result = "error" \/ obj.dst # Absent
      BY <1>0, <1>5, CopiedEffect
    <2>2. ~Revived /\ ~Revived'
      BY <1>1, <2>1 DEF Revived
    <2>3. CopyOK'
      BY <2>1 DEF CopyOK
    <2>4. CoverOK'
      BY <1>1, <1>5, <2>1 DEF IInv, CoverOK, CoverDue, SourceSubset, MoverAlone
    <2> QED BY <1>0, <1>1, <1>2, <1>5, <2>1, <2>2, <2>3, <2>4, MoverQuiet
  <1>6. Wrote \/ Left
    BY DEF PutTarget, Capable
  <1> HIDE DEF Wrote, Left
  <1> QED BY <1>4, <1>5, <1>6

\* The mover's guarded DELETE keeps the invariant: it removes its own copy and no client's write.
LEMMA WithdrawKeeps == ASSUME Capable, IInv, Withdraw PROVE IInv'
  <1>0. Types' /\ Types
    BY MoverTypes DEF IInv
  <1>1. /\ mover.pc = "withdraw" /\ converged' = converged /\ reader' = reader /\ MoverAlone
        /\ obj' = (IF obj.dst = mover.copy THEN [obj EXCEPT !.dst = Absent] ELSE obj)
        /\ Copied("vanished")
    BY <1>0 DEF Withdraw, MoverAlone, Capable, Types, MoverRec
  <1>2. rule \in {"in", "migrating"} /\ bar = "none" /\ obj.src = Absent
    BY <1>1 DEF IInv, StageOK, CopyOK
  <1>3. mover'.pc = "end" /\ mover'.copy = mover.copy
    BY <1>0, <1>1, CopiedEffect
  <1>4. CopyOK'
    BY <1>3 DEF CopyOK
  <1>5. CASE obj.dst = mover.copy
    <2>1. obj'.src = Absent /\ obj'.dst = Absent /\ Revived /\ ~Revived'
      BY <1>0, <1>1, <1>2, <1>3, <1>5 DEF Types, Revived
    <2>2. CoverOK'
      BY <2>1 DEF CoverOK, SourceSubset
    <2>3. KeyOK'
      <3>1. Current(Absent)
        BY <1>2, <2>1 DEF IInv, KeyOK, Late
      <3>2. Current(Absent)' /\ rule' = rule
        BY <1>1, <3>1 DEF Current, ValueOf, MoverAlone
      <3> QED BY <1>2, <2>1, <3>2 DEF KeyOK, Early
    <2>4. ~Present /\ ~Superseded
      BY <1>2, <2>1 DEF Present, Superseded, Early
    <2>5. mover.pc # "idle" /\ obj'.src = obj.src
      BY <1>1, <1>2, <2>1
    <2> QED BY <1>0, <1>1, <1>2, <1>3, <1>4, <2>1, <2>2, <2>3, <2>4, <2>5, MoverWrites
  <1>6. CASE obj.dst # mover.copy
    <2>1. obj' = obj /\ ~Revived /\ ~Revived'
      BY <1>1, <1>3, <1>6 DEF Revived
    <2>2. CoverOK'
      BY <1>2, <2>1 DEF CoverOK, SourceSubset
    <2>3. mover.pc # "idle"
      BY <1>1
    <2> QED BY <1>0, <1>1, <1>2, <1>3, <1>4, <2>1, <2>2, <2>3, MoverQuiet
  <1> QED BY <1>5, <1>6

-----------------------------------------------------------------------------
(* The control plane's actions. *)

\* The steps a placement's rule takes, and what each waits for.
Stepped ==
    \/ rule' = rule
    \/ rule \in Early /\ rule' \in Early
    \/ rule = "held" /\ rule' \in {"in", "migrating"} /\ Drained
    \/ rule = "in" /\ rule' = "migrating"
    \/ rule = "migrating" /\ rule' = "cutover" /\ Drained /\ SourceSubset /\ bar = "mutations"
    \/ rule = "cutover" /\ rule' = "done"

\* A step of the rule keeps the invariant, given what its barrier waited for.
LEMMA ControlKeeps ==
    ASSUME IInv, UNCHANGED <<obj, op, legal, completed, reader, mover, first>>, converged' = FALSE,
           mover.pc = "idle", Stepped, Types', StageOK', CoverOK',
           bar' = "mutations" /\ rule' = "migrating" => converged \/ (bar = "mutations" /\ rule = "migrating")
    PROVE  IInv'
  <1>1. OpsOK'
    BY DEF IInv, OpsOK
  <1>2. RouteOK'
    BY DEF IInv, RouteOK, Stepped, Drained, InFlight, Flight, Early, Late
  <1>3. ValuesOK' /\ CopyOK'
    BY DEF IInv, ValuesOK, Kept, CopyOK
  <1>4. ~Revived /\ ~Revived'
    BY DEF Revived
  <1>5. \A w : ValueOf(w)' = ValueOf(w)
    BY DEF ValueOf
  <1>6. KeyOK'
    <2>1. \A v : Current(v)' <=> Current(v)  BY <1>5 DEF Current
    <2>2. EarlyKey' <=> EarlyKey  BY <1>5 DEF EarlyKey
    <2>3. EarlyKey => Current(obj.src)  BY DEF EarlyKey, Current
    <2>4. obj' = obj  OBVIOUS
    <2>5. CASE rule' = rule \/ (rule \in Early /\ rule' \in Early) \/ (rule = "in" /\ rule' = "migrating")
      BY <1>4, <2>1, <2>2, <2>4, <2>5 DEF IInv, KeyOK, Early, Late
    <2>6. CASE rule = "held" /\ rule' \in {"in", "migrating"}
      BY <1>4, <2>1, <2>2, <2>3, <2>4, <2>6 DEF IInv, KeyOK, StageOK, Early, Late
    <2>7. CASE rule = "migrating" /\ rule' = "cutover" /\ SourceSubset
      BY <1>4, <2>1, <2>4, <2>7 DEF IInv, KeyOK, SourceSubset, Early, Late
    <2>8. CASE rule = "cutover" /\ rule' = "done"
      BY <1>4, <2>1, <2>4, <2>8 DEF IInv, KeyOK, Early, Late
    <2> QED BY <2>5, <2>6, <2>7, <2>8 DEF Stepped
  <1>7. ReadOK'
    <2>1. ReadBase'  BY DEF IInv, ReadOK, ReadBase
    <2>2. ReadSource'
      BY <1>5 DEF IInv, ReadOK, ReadSource, Seen, Stepped, Early
    <2>3. ReadTarget'
      BY <1>5 DEF IInv, ReadOK, ReadTarget, Seen, Stepped, Early
    <2>4. ReadThrough' /\ ReadBehind'
      BY <1>5 DEF IInv, ReadOK, ReadThrough, ReadBehind, Seen, Stepped, Early
    <2>5. ReadCurrent'
      BY <1>5 DEF IInv, ReadOK, ReadCurrent, Stepped, Early
    <2> QED BY <2>1, <2>2, <2>3, <2>4, <2>5 DEF ReadOK
  <1>8. CondOK'
    <2>1. CondRoute'
      BY DEF IInv, CondOK, CondRoute, Stepped, Drained, InFlight, Flight, Early, Late
    <2>2. \A y : Doubted(y)' <=> Doubted(y)
      BY DEF Doubted, Deletes
    <2>3. Present => Present'
      BY <1>4 DEF Present, Stepped, SourceSubset, Early, Late
    <2>4. Superseded => Superseded'
      BY <1>4 DEF Superseded
    <2>5. CreateOK' /\ UpdateOK'
      BY <2>2, <2>3, <2>4 DEF IInv, CondOK, CreateOK, UpdateOK, Winners
    <2>6. ConditionalOnce'
      BY SMT DEF IInv, CondOK, ConditionalOnce, Winners, Deletes
    <2> QED BY <2>1, <2>5, <2>6 DEF CondOK
  <1> QED BY <1>1, <1>2, <1>3, <1>6, <1>7, <1>8 DEF IInv

\* Holding a ramp or migrate step keeps the invariant.
LEMMA StepHoldKeeps == ASSUME IInv, StepHold PROVE IInv'
  <1>0. Types' /\ Types
    BY ControlTypes DEF IInv, ControlStep
  <1>1. PICK to \in {"out", "in", "migrating"} :
            /\ rule \in {"active", "out"} \/ (rule = "in" /\ to = "migrating")
            /\ step' = [from |-> rule, to |-> to] /\ bar' = "mutations"
            /\ rule' = CASE to = "out" -> "out" [] rule = "in" -> "in" [] OTHER -> "held"
    BY DEF StepHold
  <1>2. /\ UNCHANGED <<obj, op, legal, completed, reader, mover, first>> /\ converged' = FALSE
        /\ bar = "none" /\ mover.pc = "idle" /\ bar' = "mutations"
    BY <1>0 DEF StepHold, Reserved, Unreported, Types
  <1>3. \/ rule \in {"active", "out"} /\ rule' = "out" /\ step'.from = rule /\ step'.to = "out"
        \/ rule \in {"active", "out"} /\ rule' = "held" /\ step'.from = rule /\ step'.to \in {"in", "migrating"}
        \/ rule = "in" /\ rule' = "in" /\ step'.from = "in" /\ step'.to = "migrating"
    BY <1>1
  <1>4. Stepped
    BY <1>3 DEF Stepped, Early
  <1>5. StageOK'
    BY <1>2, <1>3 DEF IInv, StageOK, Early
  <1>6. CoverOK'
    BY <1>2, <1>3 DEF IInv, CoverOK, CoverDue, SourceSubset
  <1> QED BY <1>0, <1>2, <1>3, <1>4, <1>5, <1>6, ControlKeeps

\* Committing the held step once drained, or releasing it, keeps the invariant.
LEMMA StepEndKeeps == ASSUME IInv, StepCommit \/ StepRelease PROVE IInv'
  <1>0. Types' /\ Types
    BY ControlTypes DEF IInv, ControlStep
  <1>1. /\ UNCHANGED <<obj, op, legal, completed, reader, mover, first>> /\ converged' = FALSE
        /\ bar = "mutations" /\ bar' = "none" /\ rule \in {"out", "held", "in"}
        /\ (rule' = step.to /\ Drained) \/ rule' = step.from
    BY DEF StepCommit, StepRelease, Unreported
  <1>2. mover.pc = "idle"
    BY <1>1 DEF IInv, StageOK
  <1>3. \/ rule = "out" /\ rule' \in {"active", "out"}
        \/ rule = "held" /\ rule' \in {"active", "out"}
        \/ rule = "held" /\ rule' \in {"in", "migrating"} /\ Drained
        \/ rule = "in" /\ rule' \in {"in", "migrating"}
    BY <1>1 DEF IInv, StageOK
  <1>4. Stepped
    BY <1>3 DEF Stepped, Early
  <1>5. StageOK'
    BY <1>1, <1>2, <1>3 DEF IInv, StageOK, Early
  <1>6. CoverOK'
    BY <1>1, <1>2, <1>3 DEF IInv, StageOK, CoverOK, CoverDue, SourceSubset, Early
  <1> QED BY <1>0, <1>1, <1>2, <1>4, <1>5, <1>6, ControlKeeps

\* The step that drains nothing, from the ramp's range to MIGRATING, keeps the invariant.
LEMMA MigrateStepKeeps == ASSUME IInv, MigrateStep PROVE IInv'
  <1>0. Types' /\ Types
    BY ControlTypes DEF IInv, ControlStep
  <1>1. /\ UNCHANGED <<obj, op, legal, completed, reader, mover, first>> /\ converged' = FALSE
        /\ bar = "none" /\ bar' = "none" /\ mover.pc = "idle" /\ rule = "in" /\ rule' = "migrating"
    BY <1>0 DEF MigrateStep, Reserved, Unreported, Types
  <1>2. Stepped
    BY <1>1 DEF Stepped
  <1>3. StageOK'
    BY <1>1 DEF IInv, StageOK, Early
  <1>4. CoverOK'
    BY <1>1 DEF IInv, CoverOK, CoverDue, SourceSubset
  <1> QED BY <1>0, <1>1, <1>2, <1>3, <1>4, ControlKeeps

\* Holding, committing and releasing a cutover keep the invariant: it starts from a converged report,
\* and nothing is admitted until it ends.
LEMMA CutoverKeeps == ASSUME IInv, CutoverHold \/ CutoverCommit \/ CutoverRelease PROVE IInv'
  <1>0. Types' /\ Types
    BY ControlTypes DEF IInv, ControlStep
  <1>1. /\ UNCHANGED <<obj, op, legal, completed, reader, mover, first>> /\ converged' = FALSE /\ rule = "migrating"
    BY DEF CutoverHold, CutoverCommit, CutoverRelease, Unreported
  <1>2. \/ bar = "none" /\ mover.pc = "idle" /\ bar' = "mutations" /\ rule' = "migrating" /\ converged
        \/ bar = "mutations" /\ Drained /\ bar' = "none" /\ rule' = "cutover"
        \/ bar = "mutations" /\ bar' = "none" /\ rule' = "migrating"
    BY <1>0, <1>1 DEF CutoverHold, CutoverCommit, CutoverRelease, Reserved, Types
  <1>3. mover.pc = "idle"
    BY <1>2 DEF IInv, StageOK
  <1>4. SourceSubset
    BY <1>1, <1>2 DEF IInv, CoverOK, CoverDue
  <1>5. Stepped
    BY <1>1, <1>2, <1>4 DEF Stepped
  <1>6. StageOK'
    BY <1>1, <1>2, <1>3 DEF IInv, StageOK, Early
  <1>7. CoverOK'
    BY <1>1, <1>4 DEF CoverOK, SourceSubset
  <1> QED BY <1>0, <1>1, <1>2, <1>3, <1>5, <1>6, <1>7, ControlKeeps

\* Holding and releasing the source, the purge's commit and migrate finish keep the invariant.
LEMMA PurgeKeeps == ASSUME IInv, PurgeHold \/ PurgeRelease \/ PurgeCommit \/ FinishMigration PROVE IInv'
  <1>0. Types' /\ Types
    BY ControlTypes DEF IInv, ControlStep
  <1>1. /\ UNCHANGED <<obj, op, legal, completed, reader, mover, first>> /\ converged' = FALSE
        /\ rule = "cutover" /\ bar' \in {"none", "source"} /\ (bar' = "source" => rule' = "cutover")
        /\ rule' \in {"cutover", "done"}
    BY <1>0 DEF PurgeHold, PurgeRelease, PurgeCommit, FinishMigration, Reserved, Unreported, Types, IInv, StageOK
  <1>2. mover.pc = "idle"
    BY <1>1 DEF IInv, StageOK
  <1>3. Stepped
    BY <1>1 DEF Stepped
  <1>4. StageOK'
    BY <1>1, <1>2 DEF IInv, StageOK, Early
  <1>5. CoverOK'
    BY <1>1 DEF IInv, CoverOK, CoverDue, SourceSubset
  <1> QED BY <1>0, <1>1, <1>2, <1>3, <1>4, <1>5, ControlKeeps

\* Deleting the source's copy keeps the invariant: no request reads or deletes there, and the target
\* holds the key if the source does.
LEMMA PurgeDispatchKeeps == ASSUME IInv, PurgeDispatch PROVE IInv'
  <1> USE Distinct
  <1>0. Types' /\ Types
    BY ControlTypes DEF IInv, ControlStep
  <1>1. /\ UNCHANGED <<rule, bar, op, legal, completed, reader, mover, first>> /\ converged' = FALSE
        /\ obj'.src = Absent /\ obj'.dst = obj.dst /\ bar = "source" /\ SourceDrained /\ SourceSubset
    BY <1>0 DEF PurgeDispatch, Unreported, Types
  <1>2. rule = "cutover" /\ mover.pc = "idle"
    BY <1>1 DEF IInv, StageOK
  <1>3. OpsOK' /\ RouteOK'
    BY <1>1 DEF IInv, OpsOK, RouteOK
  <1>4. ValuesOK' /\ CopyOK'
    BY <1>1, <1>2 DEF IInv, ValuesOK, Kept, CopyOK
  <1>5. StageOK' /\ CoverOK'
    BY <1>1, <1>2 DEF IInv, StageOK, CoverOK, SourceSubset, Early
  <1>6. \A w : ValueOf(w)' = ValueOf(w)
    BY <1>1 DEF ValueOf
  <1>7. ~Revived /\ ~Revived'
    BY <1>1, <1>2 DEF Revived
  <1>8. KeyOK'
    <2>1. /\ Current(obj.dst)' <=> Current(obj.dst)
          /\ Current(Absent)' <=> Current(Absent)
      BY <1>1, <1>6 DEF Current
    <2> QED BY <1>1, <1>2, <1>7, <2>1 DEF IInv, KeyOK, Early, Late
  <1>9. ReadOK'
    <2>1. ReadBase'  BY <1>1 DEF IInv, ReadOK, ReadBase
    <2>2. ReadSource'  BY <1>1, <1>2 DEF IInv, ReadOK, ReadSource
    <2>3. ReadTarget'  BY <1>1, <1>6 DEF IInv, ReadOK, ReadTarget, Seen
    <2>4. ReadThrough'  BY <1>1 DEF IInv, ReadOK, ReadThrough, SourceDrained
    <2>5. ReadBehind'  BY <1>1 DEF IInv, ReadOK, ReadBase, ReadBehind, SourceDrained
    <2>6. ReadCurrent'  BY <1>1, <1>6 DEF IInv, ReadOK, ReadCurrent
    <2> QED BY <2>1, <2>2, <2>3, <2>4, <2>5, <2>6 DEF ReadOK
  <1>10. CondOK'
    <2>1. CondRoute'
      BY <1>1 DEF IInv, CondOK, CondRoute
    <2>2. \A y : Doubted(y)' <=> Doubted(y)
      BY <1>1 DEF Doubted, Deletes
    <2>3. Present => Present'
      BY <1>1, <1>2, <1>7 DEF Present, Early
    <2>4. Superseded => Superseded'
      BY <1>1, <1>7 DEF Superseded, SourceSubset
    <2>5. CreateOK' /\ UpdateOK'
      BY <1>1, <2>2, <2>3, <2>4 DEF IInv, CondOK, CreateOK, UpdateOK, Winners
    <2>6. ConditionalOnce'
      <3>1. \A k \in {"create", "update"} : Winners(k)' = Winners(k)  BY <1>1 DEF Winners
      <3> QED BY ZenonT(60), <1>1, <3>1 DEF IInv, CondOK, ConditionalOnce, Deletes
    <2> QED BY <2>1, <2>5, <2>6 DEF CondOK
  <1> QED BY <1>0, <1>3, <1>4, <1>5, <1>8, <1>9, <1>10 DEF IInv

-----------------------------------------------------------------------------
(* The theorems. *)

\* The first state satisfies the invariant.
LEMMA InitKeeps == Init => IInv
  <1> SUFFICES ASSUME Init PROVE IInv
    OBVIOUS
  <1> USE Distinct
  <1>0. Types
    BY InitTypes
  <1>1. /\ \A x \in Ops : op[x].pc = "idle" /\ op[x].kind = "put" /\ op[x].before = {} /\ op[x].mode = "plain"
        /\ reader.pc = "idle" /\ reader.side = "src" /\ reader.fallback = FALSE
        /\ mover.pc = "idle" /\ mover.past = FALSE /\ mover.copy = Absent
        /\ obj.src = first /\ obj.dst = Absent /\ rule = "active" /\ bar = "none"
        /\ legal = {Orig} /\ completed = {Orig} /\ converged = FALSE /\ first \in {Orig, Absent}
    BY DEF Init, Idle, NoRead, MoverIdle
  <1>2. ValueOf(Orig) = first
    BY DEF ValueOf
  <1>3. OpsOK /\ RouteOK
    BY <1>1 DEF OpsOK, RouteOK, Flight, Early, Late
  <1>4. ValuesOK /\ StageOK
    BY <1>1 DEF ValuesOK, Kept, StageOK, Early
  <1>5. CopyOK /\ CoverOK
    BY <1>1 DEF CopyOK, CoverOK, CoverDue
  <1>6. KeyOK
    BY <1>1, <1>2 DEF KeyOK, EarlyKey, Early, Late
  <1>7. ReadOK
    BY <1>1 DEF ReadOK, ReadBase, ReadSource, ReadTarget, ReadThrough, ReadBehind, ReadCurrent
  <1>8. CondOK
    <2>1. CondRoute  BY <1>1 DEF CondRoute, Flight
    <2>2. Winners("create") = {} /\ Winners("update") = {}  BY <1>1 DEF Winners
    <2> QED BY <2>1, <2>2 DEF CondOK, CreateOK, UpdateOK, ConditionalOnce
  <1> QED BY <1>0, <1>3, <1>4, <1>5, <1>6, <1>7, <1>8 DEF IInv

\* Every step keeps the invariant.
LEMMA NextKeeps == ASSUME Capable, IInv, [Next]_vars PROVE IInv'
  <1>1. CASE UNCHANGED vars
    <2> USE <1>1 DEF vars
    <2>1. /\ Types' /\ OpsOK' /\ RouteOK' /\ ValuesOK' /\ StageOK' /\ CopyOK'
      <3>1. Types'  BY SMT DEF IInv, Types
      <3>2. OpsOK' /\ RouteOK'  BY DEF IInv, OpsOK, RouteOK
      <3>3. ValuesOK' /\ StageOK' /\ CopyOK'  BY ZenonT(40) DEF IInv, ValuesOK, Kept, StageOK, CopyOK
      <3> QED BY <3>1, <3>2, <3>3
    <2>2. CoverOK' /\ KeyOK'
      BY ZenonT(40) DEF IInv, CoverOK, CoverDue, SourceSubset, KeyOK, EarlyKey, Current, Revived, ValueOf
    <2>3. ReadOK'
      BY ZenonT(40) DEF IInv, ReadOK, ReadBase, ReadSource, ReadTarget, ReadThrough, ReadBehind, ReadCurrent, Seen, ValueOf
    <2>4. CondOK'
      <3>1. CondRoute'  BY DEF IInv, CondOK, CondRoute
      <3>2. CreateOK'  BY DEF IInv, CondOK, CreateOK, Winners, Present, Revived, Doubted, Deletes
      <3>3. UpdateOK'  BY DEF IInv, CondOK, UpdateOK, Winners, Superseded, Revived, Doubted, Deletes
      <3>4. ConditionalOnce'  BY SMTT(60) DEF IInv, CondOK, ConditionalOnce, Winners, Deletes
      <3> QED BY <3>1, <3>2, <3>3, <3>4 DEF CondOK
    <2> QED BY <2>1, <2>2, <2>3, <2>4 DEF IInv
  <1>2. ASSUME NEW x \in Ops, NEW k \in Kinds, Admit(x, k) PROVE IInv'
    BY <1>2, AdmitKeeps
  <1>3. ASSUME NEW x \in Ops,
               \/ CompleteUpload(x) \/ AbortUpload(x) \/ HeadOther(x) \/ HeadDest(x) \/ Send(x)
               \/ DeleteOnSource(x) \/ DeleteOnPrimary(x)
        PROVE  IInv'
    BY <1>3, CompleteUploadKeeps, AbortUploadKeeps, HeadOtherKeeps, HeadDestKeeps, SendKeeps, DeleteOnSourceKeeps,
       DeleteOnPrimaryKeeps
  <1>4. CASE ReadAdmit \/ ReadFirst \/ FallbackRead
    BY <1>4, ReadAdmitKeeps, ReadFirstKeeps, FallbackReadKeeps
  <1>5. CASE MoverStart \/ HeadBoth \/ GetSource \/ PutTarget \/ Recheck \/ Withdraw \/ MoverEnd \/ MoverStopped
    BY <1>5, MoverStartKeeps, HeadBothKeeps, GetSourceKeeps, PutTargetKeeps, RecheckKeeps, WithdrawKeeps, MoverEndKeeps
  <1>6. CASE StepHold \/ StepCommit \/ StepRelease \/ MigrateStep
    BY <1>6, StepHoldKeeps, StepEndKeeps, MigrateStepKeeps
  <1>7. CASE CutoverHold \/ CutoverCommit \/ CutoverRelease
    BY <1>7, CutoverKeeps
  <1>8. CASE PurgeHold \/ PurgeRelease \/ PurgeDispatch \/ PurgeCommit \/ FinishMigration
    BY <1>8, PurgeKeeps, PurgeDispatchKeeps
  <1> QED BY <1>1, <1>2, <1>3, <1>4, <1>5, <1>6, <1>7, <1>8 DEF Next

\* Against a target with conditional writes and conditional deletes, and outside the documented
\* windows, the invariant holds in every state of a migration, for any number of mutations of every
\* kind and any number of passes of the mover.
THEOREM MigrationInvariant == ASSUME Capable PROVE Spec => []IInv
  BY InitKeeps, NextKeeps, PTL DEF Spec

\* No acknowledged write is lost and no deleted object comes back: with nothing in flight, a read
\* under the placement's rule (Decide, route.go) answers the value of a mutation that no later
\* acknowledged one replaced.
THEOREM WritesKept == ASSUME Capable PROVE Spec => []NoLostWrite
  <1>1. IInv => NoLostWrite
    <2> SUFFICES ASSUME IInv, mover.pc = "idle" PROVE \E x \in legal : Visible = ValueOf(x)
      BY DEF NoLostWrite
    <2>1. ~Revived
      BY DEF Revived
    <2>2. CASE rule \in Early
      <3>1. Visible = obj.src  BY <2>2 DEF IInv, StageOK, Visible, ReadSide, ReadFallback, Early
      <3> QED BY <2>2, <3>1 DEF IInv, KeyOK, EarlyKey
    <2>3. CASE rule \in Late
      BY <2>1, <2>3 DEF IInv, KeyOK, Current, Visible, ReadSide, ReadFallback, Early, Late
    <2> QED BY <2>2, <2>3 DEF IInv, Types, Early, Late
  <1> QED BY <1>1, MigrationInvariant, PTL

\* A read that the mover's copy of the key does not overlap answers a value that was current at some
\* moment of the read, whichever bucket answers it (resign.go's fallback).
THEOREM ReadsCurrent == ASSUME Capable PROVE Spec => []ReadCurrent
  <1>1. IInv => ReadCurrent
    BY DEF IInv, ReadOK
  <1> QED BY <1>1, MigrationInvariant, PTL

\* Create-once and compare-and-swap succeed at most once through the whole migration (conditional.go),
\* unless a delete was sent that had not been answered before both were.
THEOREM ConditionalsOnce == ASSUME Capable PROVE Spec => []ConditionalOnce
  <1>1. IInv => ConditionalOnce
    BY DEF IInv, CondOK
  <1> QED BY <1>1, MigrationInvariant, PTL

\* A converged report is true when the cutover relies on it, and after the cutover the source stays
\* a subset of the primary: what purge-source compares before it deletes (ops.go).
THEOREM CutoverCovered == ASSUME Capable PROVE Spec => []SourceCovered
  <1>1. IInv => SourceCovered
    BY DEF IInv, CoverOK, CoverDue, SourceCovered, ConvergedCovers, CutoverCovers
  <1> QED BY <1>1, MigrationInvariant, PTL
=============================================================================
