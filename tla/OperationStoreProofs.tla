------------------------ MODULE OperationStoreProofs ------------------------
(***************************************************************************)
(* OperationRecords: the store.  What every action does to each variable,  *)
(* as lemmas the later proofs cite instead of the actions; the invariant   *)
(* of the records, the reservations and the requests that read them; and   *)
(* that no two unfinished operations have conflicting scopes.              *)
(***************************************************************************)
EXTENDS OperationRecords, TLAPS

\* First-order leaves are Zenon's; a leaf that needs arithmetic or records names SMT.
USE ZenonT(30)

\* The values of each field, and the records built of them.
Stages == {"none", "asked", "read", "refused", "replayed", "done"}
Phases == {"none", "queued", "precondition", "hold", "drain", "commit", "done"}
Effects == {"none", "committed", "uncertain"}
Pcs == {"idle", "start", "handler", "precondition", "hold", "held", "carried", "drain", "commit",
        "committed", "succeed", "fail", "canceled"}
SomeNode == Nodes \cup {None}
SomeOperation == Operations \cup {None}

RecType == [status : Statuses \cup {"absent"}, phase : Phases, effect : Effects, barrier : Barriers,
            node : SomeNode, term : Nat, seq : Nat]
RunType == [pc : Pcs, term : Nat, lost : BOOLEAN, barrier : Barriers, start : Nat]
CreateType == [stage : Stages, node : SomeNode, rev : Nat, want : Nat]
CancelType == [stage : {"none", "asked", "ended", "release", "correct"}, node : SomeNode,
               gone : BOOLEAN, from : SomeNode, term : Nat, held : BOOLEAN]
TakeType == [op : SomeOperation, from : SomeNode, term : Nat]
SeenType == [op : SomeOperation, rec : RecType]

\* The types of the variables, by the tuples that change together.
StoreTypes ==
    /\ rec \in [Operations -> RecType]
    /\ resv \in [Resources -> SomeOperation] /\ idem \in [Keys -> SomeOperation] /\ scopeRev \in Nat
DirectoryTypes ==
    /\ version \in Nat /\ gen \in [Resources -> Nat]
    /\ bar \in [Resources -> SomeOperation] /\ inForce \subseteq Operations
NodeTypes == up \in [Nodes -> {"up", "boot", "down"}] /\ alive \in [Nodes -> BOOLEAN]
RunTypes == run \in [Nodes -> [Operations -> RunType]]
RequestTypes ==
    /\ creating \in [Operations -> CreateType] /\ cancel \in [Operations -> CancelType]
    /\ taking \in [Nodes -> TakeType] /\ seen \in [Nodes -> SeenType]
    /\ dropping \in [Nodes -> SUBSET Operations]
Types == StoreTypes /\ DirectoryTypes /\ NodeTypes /\ RunTypes /\ RequestTypes
-----------------------------------------------------------------------------
\* The empty values of each variable: their types, and the fields the proofs look at.
LEMMA Blanks ==
    /\ NoRecord \in RecType /\ NoRecord.status = "absent"
    /\ Idle \in RunType /\ Idle.pc = "idle" /\ Idle.term = 0 /\ Idle.lost = FALSE /\ Idle.barrier = "none"
    /\ NoCreate \in CreateType /\ NoCreate.stage = "none"
    /\ NoCancel \in CancelType /\ NoCancel.stage = "none" /\ NoCancel.held = FALSE
    /\ NoTake \in TakeType /\ NoTake.op = None
    /\ NoSeen \in SeenType /\ NoSeen.op = None
  <1>1. NoRecord \in RecType  BY DEF NoRecord, RecType, Phases, Effects, Barriers, SomeNode
  <1>2. Idle \in RunType  BY DEF Idle, RunType, Pcs, Barriers
  <1>3. NoCreate \in CreateType  BY DEF NoCreate, CreateType, Stages, SomeNode
  <1>4. NoCancel \in CancelType  BY DEF NoCancel, CancelType, SomeNode
  <1>5. NoTake \in TakeType  BY DEF NoTake, TakeType, SomeNode, SomeOperation
  <1>6. NoSeen \in SeenType  BY <1>1 DEF NoSeen, SeenType, SomeOperation
  <1> QED BY <1>1, <1>2, <1>3, <1>4, <1>5, <1>6 DEF NoRecord, Idle, NoCreate, NoCancel, NoTake, NoSeen

\* The resources and keys of an operation are among the ones the store is indexed by.
LEMMA InResources ==
    ASSUME NEW o \in Operations
    PROVE  Scope[o] \in Resources /\ Clusters[o] \subseteq Resources /\ Key[o] \in Keys
  BY DEF Resources, Keys

\* What orphan makes of an unfinished record.
LEMMA OrphanFacts ==
    ASSUME NEW o \in Operations, NEW r \in RecType
    PROVE  /\ orphan(o, r) \in RecType
           /\ orphan(o, r).seq = r.seq + 1 /\ orphan(o, r).node = r.node /\ orphan(o, r).term = r.term
           /\ orphan(o, r).barrier = r.barrier
           /\ carriesOn(o, r) => orphan(o, r).status = "blocked" /\ orphan(o, r).phase = r.phase
           /\ ~carriesOn(o, r) => orphan(o, r).status = "failed"
  <1>1. CASE carriesOn(o, r)
    <2> DEFINE w == [r EXCEPT !.seq = @ + 1, !.status = "blocked"]
    <2>1. orphan(o, r) = w  BY <1>1 DEF orphan
    <2>2. w \in RecType
      <3>1. r.seq + 1 \in Nat /\ "blocked" \in Statuses  BY SMT DEF RecType, Statuses
      <3> QED BY <3>1 DEF RecType
    <2>3. w.seq = r.seq + 1 /\ w.node = r.node /\ w.term = r.term /\ w.barrier = r.barrier
          /\ w.status = "blocked" /\ w.phase = r.phase  BY DEF RecType
    <2> QED BY <1>1, <2>1, <2>2, <2>3
  <1>2. CASE ~carriesOn(o, r)
    <2> DEFINE e == IF r.effect # "none" THEN r.effect
                    ELSE IF r.status = "pending" \/ beforeFirstWrite(r) THEN "none" ELSE "uncertain"
               w == [r EXCEPT !.seq = @ + 1, !.status = "failed", !.phase = "done", !.effect = e]
    <2>0. e \in Effects  BY DEF RecType, Effects
    <2>1. orphan(o, r) = w  BY <1>2 DEF orphan
    <2> HIDE DEF e
    <2>2. w \in RecType
      <3>1. r.seq + 1 \in Nat /\ "failed" \in Statuses /\ "done" \in Phases  BY SMT DEF RecType, Statuses, Phases
      <3> QED BY <2>0, <3>1 DEF RecType
    <2>3. w.seq = r.seq + 1 /\ w.node = r.node /\ w.term = r.term /\ w.barrier = r.barrier
          /\ w.status = "failed"  BY DEF RecType
    <2> QED BY <1>2, <2>1, <2>2, <2>3
  <1> QED BY <1>1, <1>2

\* updateRecord keeps the store's types and rewrites one record.
LEMMA UpdateTypes ==
    ASSUME StoreTypes, NEW o \in Operations, NEW r \in RecType, UpdateRecord(o, r)
    PROVE  /\ StoreTypes' /\ rec'[o] = r /\ \A p \in Operations \ {o} : rec'[p] = rec[p]
           /\ idem' = idem /\ scopeRev' = scopeRev
           /\ \A s \in Resources : resv'[s] # resv[s] => s = Scope[o] /\ resv[s] = o /\ resv'[s] = None /\ Terminal(r)
  <1>1. resv' \in [Resources -> SomeOperation]
    BY InResources DEF StoreTypes, UpdateRecord, SomeOperation
  <1>2. rec' \in [Operations -> RecType]  BY DEF StoreTypes, UpdateRecord
  <1>3. \A s \in Resources : resv'[s] # resv[s] => s = Scope[o] /\ resv[s] = o /\ resv'[s] = None /\ Terminal(r)
    BY InResources DEF StoreTypes, UpdateRecord
  <1>4. rec'[o] = r /\ \A p \in Operations \ {o} : rec'[p] = rec[p]  BY DEF StoreTypes, UpdateRecord
  <1> QED BY <1>1, <1>2, <1>3, <1>4 DEF StoreTypes, UpdateRecord

\* The tracker's copy of a record, and a run moved to another pc.
LEMMA MineFacts ==
    ASSUME Types, NEW n \in Nodes, NEW o \in Operations
    PROVE  /\ Mine(n, o) \in RecType
           /\ Mine(n, o).status = "running" /\ Mine(n, o).barrier = run[n][o].barrier
           /\ Mine(n, o).phase = rec[o].phase /\ Mine(n, o).effect = rec[o].effect
           /\ Mine(n, o).node = rec[o].node /\ Mine(n, o).term = rec[o].term
  <1>1. rec[o] \in RecType /\ run[n][o] \in RunType  BY DEF Types, StoreTypes, RunTypes
  <1>2. run[n][o].barrier \in Barriers /\ "running" \in Statuses  BY <1>1 DEF RunType, Statuses
  <1>3. Mine(n, o) \in RecType  BY <1>1, <1>2 DEF Mine, RecType
  <1> QED BY <1>1, <1>3 DEF Mine, RecType

\* A run moved on keeps its other fields.
LEMMA GotoFacts ==
    ASSUME Types, NEW n \in Nodes, NEW o \in Operations, NEW pc \in Pcs
    PROVE  /\ Goto(n, o, pc) \in RunType
           /\ Goto(n, o, pc).pc = pc /\ Goto(n, o, pc).term = run[n][o].term
           /\ Goto(n, o, pc).lost = run[n][o].lost /\ Goto(n, o, pc).barrier = run[n][o].barrier
           /\ Goto(n, o, pc).start = run[n][o].start
  <1>1. run[n][o] \in RunType  BY DEF Types, RunTypes
  <1>2. Goto(n, o, pc) \in RunType  BY <1>1 DEF Goto, RunType
  <1> QED BY <1>1, <1>2 DEF Goto, RunType

\* run' as an action that replaces one run leaves it.
OnlyRun(n, o) == \A m \in Nodes, p \in Operations : m # n \/ p # o => run'[m][p] = run[m][p]
\* Rewriting one node's run of one operation.
LEMMA RunAt ==
    ASSUME RunTypes, NEW n \in Nodes, NEW o \in Operations, NEW q \in RunType, run' = [run EXCEPT ![n][o] = q]
    PROVE  RunTypes' /\ OnlyRun(n, o) /\ run'[n][o] = q
  BY DEF RunTypes, OnlyRun

\* What put may do.
PutWrites(n, o, r, q) ==
    /\ ~run[n][o].lost /\ Owns(n, o)
    /\ \E w \in RecType :
        /\ UpdateRecord(o, w)
        /\ w.seq = rec[o].seq + 1 /\ w.status = r.status /\ w.phase = r.phase /\ w.effect = r.effect
        /\ w.barrier = r.barrier /\ w.node = r.node /\ w.term = r.term
    /\ run' = [run EXCEPT ![n][o] = q]
PutLoses(n, o, q) ==
    /\ run[n][o].lost \/ ~Owns(n, o)
    /\ UNCHANGED store
    /\ \E v \in RunType :
        /\ run' = [run EXCEPT ![n][o] = v]
        /\ \/ q.pc = "idle" /\ v = Idle
           \/ v.lost = TRUE /\ v.pc = q.pc /\ v.term = q.term /\ v.barrier = q.barrier
PutSkips(n, o, q) == "unwritten" \in Faults /\ UNCHANGED store /\ run' = [run EXCEPT ![n][o] = q]

\* put, whatever record and run it is given: written, refused as not the owner's, or not answered.
LEMMA PutCases ==
    ASSUME Types, NEW n \in Nodes, NEW o \in Operations, NEW r \in RecType, NEW q \in RunType, put(n, o, r, q)
    PROVE  PutWrites(n, o, r, q) \/ PutLoses(n, o, q) \/ PutSkips(n, o, q)
  <1>1. CASE /\ ~run[n][o].lost /\ Owns(n, o)
             /\ UpdateRecord(o, [r EXCEPT !.seq = rec[o].seq + 1])
             /\ run' = [run EXCEPT ![n][o] = q]
    <2>1. rec[o].seq + 1 \in Nat  BY SMT DEF Types, StoreTypes, RecType
    <2>2. PICK w : w = [r EXCEPT !.seq = rec[o].seq + 1]  OBVIOUS
    <2>3. w \in RecType  BY <2>1, <2>2 DEF RecType
    <2>4. /\ w.seq = rec[o].seq + 1 /\ w.status = r.status /\ w.phase = r.phase /\ w.effect = r.effect
          /\ w.barrier = r.barrier /\ w.node = r.node /\ w.term = r.term
      BY <2>2 DEF RecType
    <2> QED BY <1>1, <2>2, <2>3, <2>4 DEF PutWrites
  <1>2. CASE /\ run[n][o].lost \/ ~Owns(n, o)
             /\ run' = [run EXCEPT ![n][o] = IF q.pc = "idle" THEN Idle ELSE [q EXCEPT !.lost = TRUE]]
             /\ UNCHANGED store
    <2>1. PICK v : v = IF q.pc = "idle" THEN Idle ELSE [q EXCEPT !.lost = TRUE]  OBVIOUS
    <2>2. v \in RunType  BY <2>1, Blanks DEF RunType
    <2>3. \/ q.pc = "idle" /\ v = Idle
          \/ v.lost = TRUE /\ v.pc = q.pc /\ v.term = q.term /\ v.barrier = q.barrier
      BY <2>1 DEF RunType
    <2> QED BY <1>2, <2>1, <2>2, <2>3 DEF PutLoses
  <1>3. CASE "unwritten" \in Faults /\ run' = [run EXCEPT ![n][o] = q] /\ UNCHANGED store
    BY <1>3 DEF PutSkips
  <1> QED BY <1>1, <1>2, <1>3 DEF put

\* Only o's record is rewritten; its scope is released if it ends.
OnlyRec(o) ==
    /\ \A p \in Operations \ {o} : rec'[p] = rec[p]
    /\ idem' = idem /\ scopeRev' = scopeRev
    /\ \A s \in Resources : resv'[s] # resv[s] => s = Scope[o] /\ resv[s] = o /\ resv'[s] = None /\ Terminal(rec'[o])

\* A run's write of its record: taken, found taken over, or (a fault) not taken.
Wrote(n, o, status, phase, effect, barrier, pc, mine) ==
    /\ ~run[n][o].lost /\ Owns(n, o) /\ OnlyRec(o) /\ OnlyRun(n, o)
    /\ rec'[o].status = status /\ rec'[o].phase = phase /\ rec'[o].effect = effect /\ rec'[o].barrier = barrier
    /\ rec'[o].node = rec[o].node /\ rec'[o].term = rec[o].term /\ rec'[o].seq = rec[o].seq + 1
    /\ run'[n][o].pc = pc
    /\ pc # "idle" => run'[n][o].barrier = mine /\ run'[n][o].term = run[n][o].term /\ ~run'[n][o].lost
Lost(n, o, pc) ==
    /\ run[n][o].lost \/ ~Owns(n, o)
    /\ UNCHANGED store /\ OnlyRun(n, o) /\ run'[n][o].pc = pc
    /\ pc # "idle" => run'[n][o].lost /\ run'[n][o].term = run[n][o].term
Skipped(n, o, pc) ==
    /\ "unwritten" \in Faults /\ UNCHANGED store /\ OnlyRun(n, o) /\ run'[n][o].pc = pc
    /\ pc # "idle" => run'[n][o].term = run[n][o].term
Put(n, o, status, phase, effect, barrier, pc, mine) ==
    \/ Wrote(n, o, status, phase, effect, barrier, pc, mine)
    \/ Lost(n, o, pc)
    \/ Skipped(n, o, pc)

\* put in the terms of Put: what the record and the run are afterwards.
LEMMA PutEffect ==
    ASSUME Types, NEW n \in Nodes, NEW o \in Operations, NEW r \in RecType, NEW q \in RunType, put(n, o, r, q),
           r.node = rec[o].node, r.term = rec[o].term,
           q.pc # "idle" => q.term = run[n][o].term /\ q.lost = run[n][o].lost
    PROVE  /\ StoreTypes' /\ RunTypes'
           /\ Put(n, o, r.status, r.phase, r.effect, r.barrier, q.pc, q.barrier)
  <1>1. CASE PutWrites(n, o, r, q)
    <2>1. PICK w \in RecType :
            /\ UpdateRecord(o, w)
            /\ w.seq = rec[o].seq + 1 /\ w.status = r.status /\ w.phase = r.phase /\ w.effect = r.effect
            /\ w.barrier = r.barrier /\ w.node = r.node /\ w.term = r.term
      BY <1>1 DEF PutWrites
    <2>2. StoreTypes' /\ OnlyRec(o) /\ rec'[o] = w  BY SMT, <2>1, UpdateTypes DEF Types, OnlyRec
    <2>3. RunTypes' /\ OnlyRun(n, o) /\ run'[n][o] = q  BY <1>1, RunAt DEF PutWrites, Types
    <2> QED BY <1>1, <2>1, <2>2, <2>3 DEF PutWrites, Put, Wrote
  <1>2. CASE PutLoses(n, o, q)
    <2>1. StoreTypes'  BY <1>2 DEF PutLoses, Types, StoreTypes, store
    <2>2. PICK v \in RunType :
            /\ run' = [run EXCEPT ![n][o] = v]
            /\ \/ q.pc = "idle" /\ v = Idle
               \/ v.lost = TRUE /\ v.pc = q.pc /\ v.term = q.term /\ v.barrier = q.barrier
      BY <1>2 DEF PutLoses
    <2>3. RunTypes' /\ OnlyRun(n, o) /\ run'[n][o] = v  BY <2>2, RunAt DEF Types
    <2> QED BY ZenonT(40), <1>2, <2>1, <2>2, <2>3, Blanks DEF PutLoses, Put, Lost
  <1>3. CASE PutSkips(n, o, q)
    <2>1. StoreTypes'  BY <1>3 DEF PutSkips, Types, StoreTypes, store
    <2>2. RunTypes' /\ OnlyRun(n, o) /\ run'[n][o] = q  BY ZenonT(40), <1>3, RunAt DEF PutSkips, Types
    <2> QED BY <1>3, <2>1, <2>2 DEF PutSkips, Put, Skipped
  <1> QED BY <1>1, <1>2, <1>3, PutCases

-----------------------------------------------------------------------------
\* A run writes its copy of the record, in phase ph or in the phase it is in, and goes on to pc.
LEMMA PutPhase ==
    ASSUME Types, NEW n \in Nodes, NEW o \in Operations, NEW ph \in Phases, NEW pc \in Pcs,
           put(n, o, [Mine(n, o) EXCEPT !.phase = ph], Goto(n, o, pc))
    PROVE  /\ StoreTypes' /\ RunTypes'
           /\ Put(n, o, "running", ph, rec[o].effect, run[n][o].barrier, pc, run[n][o].barrier)
  <1>1. PICK r : r = [Mine(n, o) EXCEPT !.phase = ph]  OBVIOUS
  <1>2. PICK q : q = Goto(n, o, pc)  OBVIOUS
  <1>3. r \in RecType /\ r.status = "running" /\ r.phase = ph /\ r.effect = rec[o].effect
        /\ r.barrier = run[n][o].barrier /\ r.node = rec[o].node /\ r.term = rec[o].term
    BY ZenonT(40), <1>1, MineFacts DEF RecType
  <1>4. q \in RunType /\ q.pc = pc /\ q.term = run[n][o].term /\ q.lost = run[n][o].lost
        /\ q.barrier = run[n][o].barrier
    BY ZenonT(40), <1>2, GotoFacts
  <1>5. put(n, o, r, q)  BY <1>1, <1>2
  <1> QED BY <1>3, <1>4, <1>5, PutEffect

\* put without a new phase.
LEMMA PutPlain ==
    ASSUME Types, NEW n \in Nodes, NEW o \in Operations, NEW pc \in Pcs, put(n, o, Mine(n, o), Goto(n, o, pc))
    PROVE  /\ StoreTypes' /\ RunTypes'
           /\ Put(n, o, "running", rec[o].phase, rec[o].effect, run[n][o].barrier, pc, run[n][o].barrier)
  <1>1. PICK r : r = Mine(n, o)  OBVIOUS
  <1>2. PICK q : q = Goto(n, o, pc)  OBVIOUS
  <1>3. r \in RecType /\ r.status = "running" /\ r.phase = rec[o].phase /\ r.effect = rec[o].effect
        /\ r.barrier = run[n][o].barrier /\ r.node = rec[o].node /\ r.term = rec[o].term
    BY <1>1, MineFacts
  <1>4. q \in RunType /\ q.pc = pc /\ q.term = run[n][o].term /\ q.lost = run[n][o].lost
        /\ q.barrier = run[n][o].barrier
    BY <1>2, GotoFacts
  <1>5. put(n, o, r, q)  BY <1>1, <1>2
  <1> QED BY <1>3, <1>4, <1>5, PutEffect

\* A step that changes the run alone.
RunTo(n, o, pc, mine) ==
    /\ OnlyRun(n, o) /\ run'[n][o].pc = pc /\ run'[n][o].barrier = mine
    /\ run'[n][o].term = run[n][o].term /\ run'[n][o].lost = run[n][o].lost

\* A step of the run alone.
LEMMA GotoEffect ==
    ASSUME Types, NEW n \in Nodes, NEW o \in Operations, NEW pc \in Pcs, run' = [run EXCEPT ![n][o] = Goto(n, o, pc)]
    PROVE  RunTypes' /\ RunTo(n, o, pc, run[n][o].barrier)
  <1>1. PICK q : q = Goto(n, o, pc)  OBVIOUS
  <1>2. q \in RunType /\ q.pc = pc /\ q.term = run[n][o].term /\ q.lost = run[n][o].lost
        /\ q.barrier = run[n][o].barrier
    BY <1>1, GotoFacts
  <1>3. run' = [run EXCEPT ![n][o] = q]  BY <1>1
  <1>4. RunTypes  BY DEF Types
  <1>5. q \in RunType  BY <1>2
  <1>6. RunTypes' /\ OnlyRun(n, o) /\ run'[n][o] = q  BY <1>3, <1>4, <1>5, RunAt
  <1> QED BY <1>2, <1>6 DEF RunTo

\* A step of the run alone that also takes a barrier state.
LEMMA GotoWithEffect ==
    ASSUME Types, NEW n \in Nodes, NEW o \in Operations, NEW pc \in Pcs, NEW b \in Barriers,
           run' = [run EXCEPT ![n][o] = [Goto(n, o, pc) EXCEPT !.barrier = b]]
    PROVE  RunTypes' /\ RunTo(n, o, pc, b)
  <1>1. PICK q : q = [Goto(n, o, pc) EXCEPT !.barrier = b]  OBVIOUS
  <1>2. q \in RunType /\ q.pc = pc /\ q.term = run[n][o].term /\ q.lost = run[n][o].lost /\ q.barrier = b
    BY SMT, <1>1, GotoFacts DEF RunType
  <1>3. run' = [run EXCEPT ![n][o] = q]  BY <1>1
  <1>4. RunTypes  BY DEF Types
  <1>5. q \in RunType  BY <1>2
  <1>6. RunTypes' /\ OnlyRun(n, o) /\ run'[n][o] = q  BY <1>3, <1>4, <1>5, RunAt
  <1> QED BY <1>2, <1>6 DEF RunTo

\* A run that finds its record ended or taken over stops.
Stopped(n, o) == UNCHANGED store /\ OnlyRun(n, o) /\ run'[n][o] = Idle
\* A run that finds it lost its record stops.
LEMMA StopsEffect ==
    ASSUME Types, NEW n \in Nodes, NEW o \in Operations, Stops(n, o)
    PROVE  StoreTypes' /\ RunTypes' /\ Stopped(n, o)
  <1>1. StoreTypes'  BY DEF Stops, Types, StoreTypes, store
  <1>2. PICK q : q = Idle  OBVIOUS
  <1>3. RunTypes' /\ OnlyRun(n, o) /\ run'[n][o] = q
    <2>1. RunTypes /\ q \in RunType /\ run' = [run EXCEPT ![n][o] = q]  BY <1>2, Blanks DEF Stops, Types
    <2> QED BY <2>1, RunAt
  <1> QED BY <1>1, <1>2, <1>3 DEF Stops, Stopped
-----------------------------------------------------------------------------
\* What each step of a run does to its record, its tracker and the directory.
LEMMA RunningEffect ==
    ASSUME Types, NEW n \in Nodes, NEW o \in Operations, running(n, o)
    PROVE  /\ StoreTypes' /\ RunTypes' /\ UNCHANGED <<directory, nodes, requests>> /\ At(n, o, "start")
           /\ o \in Fenced => Put(n, o, "running", "precondition", rec[o].effect, run[n][o].barrier,
                                  "precondition", run[n][o].barrier)
           /\ o \notin Fenced => Put(n, o, "running", rec[o].phase, rec[o].effect, run[n][o].barrier,
                                     "handler", run[n][o].barrier)
  <1>0. "precondition" \in Phases \cap Pcs /\ "handler" \in Pcs  BY DEF Phases, Pcs
  <1>1. CASE o \in Fenced  BY <1>0, <1>1, PutPhase DEF running, Quiet
  <1>2. CASE o \notin Fenced  BY <1>0, <1>2, PutPlain DEF running, Quiet
  <1> QED BY <1>1, <1>2

\* The handler of an operation without a barrier: its change is in force, or it failed.
LEMMA HandlerEffect ==
    ASSUME Types, NEW n \in Nodes, NEW o \in Operations, Handler(n, o)
    PROVE  /\ DirectoryTypes' /\ RunTypes' /\ UNCHANGED <<store, bar, nodes, requests>> /\ At(n, o, "handler")
           /\ \/ RunTo(n, o, "succeed", run[n][o].barrier) /\ inForce' = inForce \cup {o}
              \/ RunTo(n, o, "fail", run[n][o].barrier) /\ inForce' = inForce
  <1>0. "succeed" \in Pcs /\ "fail" \in Pcs  BY DEF Pcs
  <1>1. DirectoryTypes'  BY SMT, InResources DEF Handler, Writes, Types, DirectoryTypes
  <1> QED BY <1>0, <1>1, GotoEffect DEF Handler, Quiet

\* The barrier's intent is written before the hold.
LEMMA IntentEffect ==
    ASSUME Types, NEW n \in Nodes, NEW o \in Operations, Intent(n, o)
    PROVE  /\ StoreTypes' /\ RunTypes' /\ UNCHANGED <<directory, nodes, requests>> /\ At(n, o, "precondition")
           /\ Put(n, o, "running", "hold", rec[o].effect, "intent", "hold", "intent")
  <1>1. PICK r : r = [Mine(n, o) EXCEPT !.barrier = "intent", !.phase = "hold"]  OBVIOUS
  <1>2. PICK q : q = [Goto(n, o, "hold") EXCEPT !.barrier = "intent"]  OBVIOUS
  <1>3. r \in RecType /\ r.status = "running" /\ r.phase = "hold" /\ r.effect = rec[o].effect
        /\ r.barrier = "intent" /\ r.node = rec[o].node /\ r.term = rec[o].term
    <2>1. "hold" \in Phases /\ "intent" \in Barriers  BY DEF Phases, Barriers
    <2>2. r \in RecType  BY ZenonT(40), <1>1, <2>1, MineFacts DEF RecType
    <2> QED BY ZenonT(40), <1>1, <2>2, MineFacts DEF RecType
  <1>4. "hold" \in Pcs  BY DEF Pcs
  <1>5. q \in RunType /\ q.pc = "hold" /\ q.term = run[n][o].term /\ q.lost = run[n][o].lost
        /\ q.barrier = "intent"
    BY SMT, <1>2, <1>4, GotoFacts DEF RunType, Barriers
  <1>6. put(n, o, r, q)  BY <1>1, <1>2 DEF Intent
  <1> QED BY <1>3, <1>5, <1>6, PutEffect DEF Intent, Quiet

\* The hold: refused to a lost run, to another operation's barrier and to a change in force.
LEMMA HoldEffect ==
    ASSUME Types, NEW n \in Nodes, NEW o \in Operations, Hold(n, o)
    PROVE  /\ StoreTypes' /\ RunTypes' /\ DirectoryTypes' /\ UNCHANGED <<nodes, requests, inForce>> /\ At(n, o, "hold")
           /\ \/ run[n][o].lost /\ Stopped(n, o) /\ bar' = bar
              \/ /\ ~run[n][o].lost /\ bar[Scope[o]] \in {None, o} /\ o \notin inForce
                 /\ bar' = [bar EXCEPT ![Scope[o]] = o]
                 /\ RunTo(n, o, "held", "held") /\ UNCHANGED store
              \/ /\ ~run[n][o].lost /\ (bar[Scope[o]] \notin {None, o} \/ o \in inForce)
                 /\ RunTo(n, o, "fail", run[n][o].barrier) /\ UNCHANGED <<store, bar>>
  <1>0. "held" \in Pcs /\ "fail" \in Pcs /\ "held" \in Barriers  BY DEF Pcs, Barriers
  <1>1. CASE run[n][o].lost /\ Stops(n, o) /\ UNCHANGED directory
    <2>1. DirectoryTypes'  BY <1>1 DEF Types, DirectoryTypes, directory
    <2> QED BY <1>1, <2>1, StopsEffect DEF Hold, Quiet, directory
  <1>2. CASE /\ ~run[n][o].lost /\ bar[Scope[o]] \in {None, o} /\ o \notin inForce
             /\ bar' = [bar EXCEPT ![Scope[o]] = o]
             /\ IF bar[Scope[o]] = o THEN UNCHANGED <<version, gen>> ELSE Writes(Scope[o])
             /\ run' = [run EXCEPT ![n][o] = [Goto(n, o, "held") EXCEPT !.barrier = "held"]]
             /\ UNCHANGED <<store, inForce>>
    <2>1. DirectoryTypes'
      <3>1. bar' \in [Resources -> SomeOperation] /\ inForce' \subseteq Operations
        BY <1>2, InResources DEF Types, DirectoryTypes, SomeOperation
      <3>2. version' \in Nat /\ gen' \in [Resources -> Nat]  BY SMT, <1>2, InResources DEF Types, DirectoryTypes, Writes
      <3> QED BY <3>1, <3>2 DEF DirectoryTypes
    <2>2. StoreTypes'  BY <1>2 DEF Types, StoreTypes, store
    <2>3. RunTypes' /\ RunTo(n, o, "held", "held")  BY <1>0, <1>2, GotoWithEffect
    <2> QED BY <1>2, <2>1, <2>2, <2>3 DEF Hold, Quiet
  <1>3. CASE /\ ~run[n][o].lost /\ (bar[Scope[o]] \notin {None, o} \/ o \in inForce)
             /\ run' = [run EXCEPT ![n][o] = Goto(n, o, "fail")]
             /\ UNCHANGED <<store, directory>>
    <2>1. DirectoryTypes'  BY <1>3 DEF Types, DirectoryTypes, directory
    <2>2. StoreTypes'  BY <1>3 DEF Types, StoreTypes, store
    <2> QED BY <1>0, <1>3, <2>1, <2>2, GotoEffect DEF Hold, Quiet, directory
  <1> QED BY <1>1, <1>2, <1>3 DEF Hold

\* The hold is written on the record.
LEMMA HeldEffect ==
    ASSUME Types, NEW n \in Nodes, NEW o \in Operations, Held(n, o)
    PROVE  /\ StoreTypes' /\ RunTypes' /\ UNCHANGED <<directory, nodes, requests>> /\ At(n, o, "held")
           /\ Put(n, o, "running", rec[o].phase, rec[o].effect, run[n][o].barrier, "carried", run[n][o].barrier)
  <1>0. "carried" \in Pcs  BY DEF Pcs
  <1> QED BY <1>0, PutPlain DEF Held, Quiet

\* With the hold on its scope the run drains, without it it goes to the commit.
LEMMA CarriedEffect ==
    ASSUME Types, NEW n \in Nodes, NEW o \in Operations, Carried(n, o)
    PROVE  /\ StoreTypes' /\ RunTypes' /\ UNCHANGED <<directory, nodes, requests>> /\ At(n, o, "carried")
           /\ \E p \in {"drain", "commit"} :
                Put(n, o, "running", p, rec[o].effect, run[n][o].barrier, p, run[n][o].barrier)
  <1>0. "drain" \in Phases \cap Pcs /\ "commit" \in Phases \cap Pcs  BY DEF Phases, Pcs
  <1>1. CASE bar[Scope[o]] = o  BY <1>0, <1>1, PutPhase DEF Carried, Quiet
  <1>2. CASE bar[Scope[o]] # o  BY <1>0, <1>2, PutPhase DEF Carried, Quiet
  <1> QED BY <1>1, <1>2

\* A drain that is not done yet.
LEMMA BlockedEffect ==
    ASSUME Types, NEW n \in Nodes, NEW o \in Operations, Blocked(n, o)
    PROVE  /\ StoreTypes' /\ RunTypes' /\ UNCHANGED <<directory, nodes, requests>> /\ At(n, o, "drain")
           /\ \/ run[n][o].lost /\ Stopped(n, o)
              \/ UNCHANGED <<store, run>>
              \/ /\ ~run[n][o].lost
                 /\ Put(n, o, "running", rec[o].phase, rec[o].effect, run[n][o].barrier, "drain", run[n][o].barrier)
  <1>1. CASE run[n][o].lost /\ Stops(n, o)  BY <1>1, StopsEffect DEF Blocked, Quiet
  <1>2. CASE UNCHANGED <<run, store>>
    <2>1. StoreTypes' /\ RunTypes'  BY <1>2 DEF Types, StoreTypes, RunTypes, store
    <2> QED BY <1>2, <2>1 DEF Blocked, Quiet
  <1>3. CASE ~run[n][o].lost /\ put(n, o, Mine(n, o), run[n][o])
    <2>1. PICK r : r = Mine(n, o)  OBVIOUS
    <2>2. PICK q : q = run[n][o]  OBVIOUS
    <2>3. r \in RecType /\ r.status = "running" /\ r.phase = rec[o].phase /\ r.effect = rec[o].effect
          /\ r.barrier = run[n][o].barrier /\ r.node = rec[o].node /\ r.term = rec[o].term
      BY <2>1, MineFacts
    <2>4. q \in RunType  BY <2>2 DEF Types, RunTypes
    <2>5. put(n, o, r, q)  BY <1>3, <2>1, <2>2
    <2>6. q.pc = "drain"  BY <2>2 DEF Blocked, At
    <2>7. StoreTypes' /\ RunTypes' /\ Put(n, o, r.status, r.phase, r.effect, r.barrier, q.pc, q.barrier)
      BY <2>2, <2>3, <2>4, <2>5, PutEffect
    <2> QED BY <1>3, <2>2, <2>3, <2>6, <2>7 DEF Blocked, Quiet
  <1> QED BY <1>1, <1>2, <1>3 DEF Blocked

\* The drain is done.
LEMMA DrainedEffect ==
    ASSUME Types, NEW n \in Nodes, NEW o \in Operations, Drained(n, o)
    PROVE  /\ StoreTypes' /\ RunTypes' /\ UNCHANGED <<directory, nodes, requests>> /\ At(n, o, "drain")
           /\ \/ run[n][o].lost /\ Stopped(n, o)
              \/ /\ ~run[n][o].lost
                 /\ Put(n, o, "running", "commit", rec[o].effect, run[n][o].barrier, "commit", run[n][o].barrier)
  <1>0. "commit" \in Phases /\ "commit" \in Pcs  BY DEF Phases, Pcs
  <1>1. CASE run[n][o].lost /\ Stops(n, o)  BY <1>1, StopsEffect DEF Drained, Quiet
  <1>2. CASE ~run[n][o].lost /\ put(n, o, [Mine(n, o) EXCEPT !.phase = "commit"], Goto(n, o, "commit"))
    BY <1>0, <1>2, PutPhase DEF Drained, Quiet
  <1> QED BY <1>1, <1>2 DEF Drained

\* The commit: made, found made, found released, or not answered.
LEMMA CommitEffect ==
    ASSUME Types, NEW n \in Nodes, NEW o \in Operations, Commit(n, o)
    PROVE  /\ StoreTypes' /\ RunTypes' /\ DirectoryTypes' /\ UNCHANGED <<store, nodes, requests>> /\ At(n, o, "commit")
           /\ \/ run[n][o].lost /\ Stopped(n, o) /\ UNCHANGED <<bar, inForce>>
              \/ /\ ~run[n][o].lost /\ bar[Scope[o]] = o /\ RunTo(n, o, "committed", "committed")
                 /\ bar' = [bar EXCEPT ![Scope[o]] = None] /\ inForce' = inForce \cup {o}
              \/ /\ ~run[n][o].lost /\ o \in inForce /\ RunTo(n, o, "committed", "committed")
                 /\ UNCHANGED <<bar, inForce>>
              \/ /\ ~run[n][o].lost /\ bar[Scope[o]] # o /\ o \notin inForce
                 /\ RunTo(n, o, "canceled", run[n][o].barrier) /\ UNCHANGED <<bar, inForce>>
              \/ /\ "commit" \in Faults /\ ~run[n][o].lost
                 /\ RunTo(n, o, "fail", run[n][o].barrier) /\ UNCHANGED <<bar, inForce>>
  <1>0. /\ "committed" \in Pcs /\ "canceled" \in Pcs /\ "fail" \in Pcs /\ "committed" \in Barriers
        /\ UNCHANGED <<nodes, requests>> /\ At(n, o, "commit")
    BY DEF Pcs, Barriers, Commit, Quiet
  <1>1. CASE run[n][o].lost /\ Stops(n, o) /\ UNCHANGED directory
    <2>1. DirectoryTypes'  BY <1>1 DEF Types, DirectoryTypes, directory
    <2> QED BY <1>0, <1>1, <2>1, StopsEffect DEF Stopped, directory
  <1>2. CASE /\ ~run[n][o].lost /\ bar[Scope[o]] = o
             /\ bar' = [bar EXCEPT ![Scope[o]] = None] /\ inForce' = inForce \cup {o}
             /\ Writes(Scope[o])
             /\ run' = [run EXCEPT ![n][o] = [Goto(n, o, "committed") EXCEPT !.barrier = "committed"]]
             /\ UNCHANGED store
    <2>1. DirectoryTypes'
      <3>1. bar' \in [Resources -> SomeOperation] /\ inForce' \subseteq Operations
        BY <1>2, InResources DEF Types, DirectoryTypes, SomeOperation
      <3>2. version' \in Nat /\ gen' \in [Resources -> Nat]  BY SMT, <1>2, InResources DEF Types, DirectoryTypes, Writes
      <3> QED BY <3>1, <3>2 DEF DirectoryTypes
    <2>2. StoreTypes'  BY <1>2 DEF Types, StoreTypes, store
    <2>3. RunTypes' /\ RunTo(n, o, "committed", "committed")  BY <1>0, <1>2, GotoWithEffect
    <2> QED BY <1>0, <1>2, <2>1, <2>2, <2>3
  <1>3. CASE /\ ~run[n][o].lost /\ bar[Scope[o]] # o /\ o \in inForce
             /\ run' = [run EXCEPT ![n][o] = [Goto(n, o, "committed") EXCEPT !.barrier = "committed"]]
             /\ UNCHANGED <<store, directory>>
    <2>1. DirectoryTypes'  BY <1>3 DEF Types, DirectoryTypes, directory
    <2>2. StoreTypes'  BY <1>3 DEF Types, StoreTypes, store
    <2>3. RunTypes' /\ RunTo(n, o, "committed", "committed")  BY <1>0, <1>3, GotoWithEffect
    <2> QED BY <1>0, <1>3, <2>1, <2>2, <2>3 DEF directory
  <1>4. ASSUME NEW pc \in {"canceled", "fail"}, ~run[n][o].lost,
               run' = [run EXCEPT ![n][o] = Goto(n, o, pc)], UNCHANGED <<store, directory>>
        PROVE  /\ StoreTypes' /\ RunTypes' /\ DirectoryTypes' /\ RunTo(n, o, pc, run[n][o].barrier)
               /\ UNCHANGED <<bar, inForce>>
    <2>1. DirectoryTypes' /\ UNCHANGED <<bar, inForce>>  BY <1>4 DEF Types, DirectoryTypes, directory
    <2>2. StoreTypes'  BY <1>4 DEF Types, StoreTypes, store
    <2>3. RunTypes' /\ RunTo(n, o, pc, run[n][o].barrier)  BY <1>0, <1>4, GotoEffect
    <2> QED BY <2>1, <2>2, <2>3
  <1>5. CASE /\ ~run[n][o].lost /\ bar[Scope[o]] # o /\ o \notin inForce
             /\ run' = [run EXCEPT ![n][o] = Goto(n, o, "canceled")]
             /\ UNCHANGED <<store, directory>>
    BY <1>0, <1>4, <1>5
  <1>6. CASE /\ "commit" \in Faults /\ ~run[n][o].lost
             /\ run' = [run EXCEPT ![n][o] = Goto(n, o, "fail")]
             /\ UNCHANGED <<store, directory>>
    BY <1>0, <1>4, <1>6
  <1> QED BY <1>1, <1>2, <1>3, <1>5, <1>6 DEF Commit

\* The commit is written on the record.
LEMMA CommittedEffect ==
    ASSUME Types, NEW n \in Nodes, NEW o \in Operations, Committed(n, o)
    PROVE  /\ StoreTypes' /\ RunTypes' /\ UNCHANGED <<directory, nodes, requests>> /\ At(n, o, "committed")
           /\ Put(n, o, "running", rec[o].phase, rec[o].effect, run[n][o].barrier, "succeed", run[n][o].barrier)
  <1>0. "succeed" \in Pcs  BY DEF Pcs
  <1> QED BY <1>0, PutPlain DEF Committed, Quiet

\* finish ends the record as the run ended.
LEMMA FinishEffect ==
    ASSUME Types, NEW n \in Nodes, NEW o \in Operations, finish(n, o)
    PROVE  /\ StoreTypes' /\ RunTypes' /\ UNCHANGED <<directory, nodes, requests>>
           /\ \E e \in Effects :
                \/ /\ At(n, o, "succeed") /\ e # "none"
                   /\ Put(n, o, "succeeded", "done", e, run[n][o].barrier, "idle", "none")
                \/ At(n, o, "fail") /\ Put(n, o, "failed", "done", e, run[n][o].barrier, "idle", "none")
                \/ At(n, o, "canceled") /\ Put(n, o, "cancelled", "done", e, run[n][o].barrier, "idle", "none")
  <1> DEFINE eff(s) == IF s = "cancelled" /\ run[n][o].barrier # "committed" THEN "none"
                       ELSE IF rec[o].effect = "none" /\ (s = "succeeded" \/ version > run[n][o].start)
                            THEN "committed" ELSE rec[o].effect
             end(s) == [Mine(n, o) EXCEPT !.status = s, !.phase = "done",
                !.effect = IF s = "cancelled" /\ run[n][o].barrier # "committed" THEN "none"
                       ELSE IF @ = "none" /\ (s = "succeeded" \/ version > run[n][o].start) THEN "committed" ELSE @]
  <1>1. ASSUME NEW s \in {"succeeded", "failed", "cancelled"}, put(n, o, end(s), Idle)
        PROVE  /\ StoreTypes' /\ RunTypes'
               /\ \E e \in Effects : (s = "succeeded" => e # "none") /\ Put(n, o, s, "done", e, run[n][o].barrier, "idle", "none")
    <2>1. PICK r : r = end(s)  OBVIOUS
    <2>2. PICK q : q = Idle  OBVIOUS
    <2>3. PICK e : e = eff(s)  OBVIOUS
    <2>4. e \in Effects /\ (s = "succeeded" => e # "none")
      <3>1. rec[o].effect \in Effects  BY DEF Types, StoreTypes, RecType
      <3> QED BY <2>3, <3>1 DEF Effects
    <2>5. r = [Mine(n, o) EXCEPT !.status = s, !.phase = "done", !.effect = e]  BY <2>1, <2>3, MineFacts
    <2>6. s \in Statuses /\ "done" \in Phases  BY DEF Statuses, Phases
    <2>7. r \in RecType
      <3>1. Mine(n, o) \in RecType  BY MineFacts
      <3> HIDE DEF eff, end
      <3> QED BY <2>4, <2>5, <2>6, <3>1 DEF RecType
    <2>8. r.status = s /\ r.phase = "done" /\ r.effect = e /\ r.barrier = run[n][o].barrier
          /\ r.node = rec[o].node /\ r.term = rec[o].term
      BY ZenonT(40), <2>5, <2>7, MineFacts DEF RecType
    <2>9. q \in RunType /\ q.pc = "idle" /\ q.barrier = "none"  BY <2>2, Blanks
    <2>10. put(n, o, r, q)  BY <1>1, <2>1, <2>2
    <2>11. StoreTypes' /\ RunTypes' /\ Put(n, o, r.status, r.phase, r.effect, r.barrier, q.pc, q.barrier)
      BY <2>7, <2>8, <2>9, <2>10, PutEffect
    <2> QED BY <2>4, <2>8, <2>9, <2>11
  <1>2. UNCHANGED <<directory, nodes, requests>>  BY DEF finish, Quiet
  <1>3. CASE At(n, o, "succeed") /\ put(n, o, end("succeeded"), Idle)  BY <1>1, <1>2, <1>3
  <1>4. CASE At(n, o, "fail") /\ put(n, o, end("failed"), Idle)  BY <1>1, <1>2, <1>4
  <1>5. CASE At(n, o, "canceled") /\ put(n, o, end("cancelled"), Idle)  BY <1>1, <1>2, <1>5
  <1> QED BY <1>3, <1>4, <1>5 DEF finish
-----------------------------------------------------------------------------
\* What the steps of a request to create do.
OnlyCreating(o) == \A p \in Operations \ {o} : creating'[p] = creating[p]
Reaped(n, x) == Reapable(n, x) /\ OnlyRec(x) /\ rec'[x] = orphan(x, rec[x])
Released(x) ==
    /\ ~Unfinished(x) /\ UNCHANGED <<rec, idem, scopeRev>>
    /\ \A s \in Resources : resv'[s] # resv[s] => resv[s] = x
CreateMoves(o) ==
    /\ creating[o].stage \in {"asked", "read"} /\ OnlyCreating(o)
    /\ \/ creating' = creating
       \/ creating'[o].stage \in {"refused", "replayed"}
       \/ creating'[o].stage = "asked" /\ creating'[o].node = creating[o].node
CreateReads(o) ==
    /\ creating[o].stage = "asked" /\ OnlyCreating(o) /\ TouchingOwners(o) = {}
    /\ creating'[o].stage = "read" /\ creating'[o].node = creating[o].node
    /\ creating'[o].rev = IF IsCluster(o) THEN scopeRev ELSE 0
Others == <<directory, nodes, run, cancel, taking, seen, dropping>>

\* Rewriting one request to create.
LEMMA CreatingAt ==
    ASSUME RequestTypes, NEW o \in Operations, NEW c \in CreateType, creating' = [creating EXCEPT ![o] = c],
           UNCHANGED <<cancel, taking, seen, dropping>>
    PROVE  RequestTypes' /\ OnlyCreating(o) /\ creating'[o] = c
  <1>1. creating' \in [Operations -> CreateType]  BY DEF RequestTypes
  <1>2. OnlyCreating(o) /\ creating'[o] = c  BY DEF RequestTypes, OnlyCreating
  <1> QED BY <1>1, <1>2 DEF RequestTypes

\* A request arrives at a node that serves.
LEMMA CreateAskEffect ==
    ASSUME Types, NEW n \in Nodes, NEW o \in Operations, CreateAsk(n, o)
    PROVE  /\ RequestTypes' /\ UNCHANGED <<store, directory, nodes, run, cancel, taking, seen, dropping>>
           /\ OnlyCreating(o) /\ creating'[o].stage = "asked" /\ creating'[o].node = n
           /\ creating[o].stage = "done" => o \notin Aged
           /\ Serving(n)
  <1>1. PICK c : c = [NoCreate EXCEPT !.stage = "asked", !.node = n, !.want = gen[Scope[o]]]  OBVIOUS
  <1>2. gen[Scope[o]] \in Nat /\ "asked" \in Stages /\ n \in SomeNode
    BY InResources DEF Types, DirectoryTypes, Stages, SomeNode
  <1>3. NoCreate \in CreateType  BY Blanks
  <1>4. c \in CreateType /\ c.stage = "asked" /\ c.node = n  BY <1>1, <1>2, <1>3 DEF CreateType
  <1>5. creating' = [creating EXCEPT ![o] = c]  BY <1>1 DEF CreateAsk
  <1>6. RequestTypes' /\ OnlyCreating(o) /\ creating'[o] = c  BY <1>4, <1>5, CreatingAt DEF CreateAsk, Types
  <1> QED BY <1>4, <1>6 DEF CreateAsk

\* A request is answered.
LEMMA AnswerEffect ==
    ASSUME Types, NEW o \in Operations, NEW stage \in {"refused", "replayed"}, Answer(o, stage),
           creating[o].stage \in {"asked", "read"}, UNCHANGED <<cancel, taking, seen, dropping>>
    PROVE  RequestTypes' /\ CreateMoves(o)
  <1>1. PICK c : c = [NoCreate EXCEPT !.stage = stage]  OBVIOUS
  <1>2. NoCreate \in CreateType /\ stage \in Stages  BY Blanks DEF Stages
  <1>3. c \in CreateType /\ c.stage = stage  BY <1>1, <1>2 DEF CreateType
  <1>4. creating' = [creating EXCEPT ![o] = c]  BY <1>1 DEF Answer
  <1>5. RequestTypes' /\ OnlyCreating(o) /\ creating'[o] = c  BY <1>3, <1>4, CreatingAt DEF Types
  <1> QED BY <1>3, <1>5 DEF CreateMoves

\* A request starts over.
LEMMA RetryEffect ==
    ASSUME Types, NEW o \in Operations, Retry(o),
           creating[o].stage \in {"asked", "read"}, UNCHANGED <<cancel, taking, seen, dropping>>
    PROVE  RequestTypes' /\ CreateMoves(o)
  <1>1. PICK c : c = [creating[o] EXCEPT !.stage = "asked"]  OBVIOUS
  <1>2. creating[o] \in CreateType /\ "asked" \in Stages  BY DEF Types, RequestTypes, Stages
  <1>3. c \in CreateType /\ c.stage = "asked" /\ c.node = creating[o].node  BY <1>1, <1>2 DEF CreateType
  <1>4. creating' = [creating EXCEPT ![o] = c]  BY <1>1 DEF Retry
  <1>5. RequestTypes' /\ OnlyCreating(o) /\ creating'[o] = c  BY <1>3, <1>4, CreatingAt DEF Types
  <1> QED BY <1>3, <1>5 DEF CreateMoves

\* The reservation of an operation whose owner is gone is taken from it.
LEMMA ReapEffect ==
    ASSUME Types, NEW n, NEW x \in Operations, Reapable(n, x), UpdateRecord(x, orphan(x, rec[x]))
    PROVE  StoreTypes' /\ Reaped(n, x)
  <1>1. PICK w : w = orphan(x, rec[x])  OBVIOUS
  <1>2. rec[x] \in RecType  BY DEF Types, StoreTypes
  <1>3. w \in RecType  BY <1>1, <1>2, OrphanFacts
  <1>4. UpdateRecord(x, w)  BY <1>1
  <1> QED BY SMT, <1>1, <1>3, <1>4, UpdateTypes DEF Types, Reaped, OnlyRec

\* Create looks at the reservations that touch its cluster.
LEMMA CreateReadEffect ==
    ASSUME Types, NEW o \in Operations, CreateRead(o)
    PROVE  /\ StoreTypes' /\ RequestTypes' /\ UNCHANGED Others
           /\ \/ CreateMoves(o) /\ (UNCHANGED store \/ \E x \in Operations : Reaped(creating[o].node, x))
              \/ CreateReads(o) /\ UNCHANGED store
  <1>0. UNCHANGED Others /\ creating[o].stage = "asked"  BY DEF CreateRead, Others
  <1>1. CASE Refuse(o) /\ UNCHANGED store
    <2>1. StoreTypes'  BY <1>1 DEF Types, StoreTypes, store
    <2> QED BY <1>0, <1>1, <2>1, AnswerEffect DEF Refuse, Others
  <1>2. CASE /\ creating' = [creating EXCEPT ![o].stage = "read", ![o].rev = IF IsCluster(o) THEN scopeRev ELSE 0]
             /\ UNCHANGED store /\ TouchingOwners(o) = {}
    <2>1. StoreTypes'  BY <1>2 DEF Types, StoreTypes, store
    <2>2. PICK v : v = IF IsCluster(o) THEN scopeRev ELSE 0  OBVIOUS
    <2>3. PICK c : c = [creating[o] EXCEPT !.stage = "read", !.rev = v]  OBVIOUS
    <2>4. creating[o] \in CreateType /\ "read" \in Stages /\ v \in Nat
      BY <2>2 DEF Types, RequestTypes, Stages, StoreTypes
    <2>5. c \in CreateType /\ c.stage = "read" /\ c.node = creating[o].node /\ c.rev = v
      BY <2>3, <2>4 DEF CreateType
    <2>6. creating' = [creating EXCEPT ![o] = c]
      BY <1>2, <2>2, <2>3 DEF Types, RequestTypes
    <2>7. RequestTypes' /\ OnlyCreating(o) /\ creating'[o] = c
      BY <1>0, <2>5, <2>6, CreatingAt DEF Types, Others
    <2> QED BY <1>0, <1>2, <2>1, <2>2, <2>5, <2>7 DEF CreateReads
  <1>3. ASSUME NEW x \in TouchingOwners(o),
               IF Reapable(creating[o].node, x)
               THEN /\ UpdateRecord(x, orphan(x, rec[x]))
                    /\ IF Terminal(orphan(x, rec[x])) THEN UNCHANGED creating ELSE Refuse(o)
               ELSE Refuse(o) /\ UNCHANGED store
        PROVE  /\ StoreTypes' /\ RequestTypes'
               /\ CreateMoves(o) /\ (UNCHANGED store \/ \E y \in Operations : Reaped(creating[o].node, y))
    <2>0. x \in Operations  BY DEF TouchingOwners
    <2>1. CASE Reapable(creating[o].node, x)
      <3>1. StoreTypes' /\ Reaped(creating[o].node, x)  BY <1>3, <2>0, <2>1, ReapEffect
      <3>2. CASE UNCHANGED creating
        BY <1>0, <2>0, <3>1, <3>2 DEF Types, RequestTypes, CreateMoves, OnlyCreating, Others
      <3>3. CASE Refuse(o)  BY <1>0, <2>0, <3>1, <3>3, AnswerEffect DEF Refuse, Others
      <3> QED BY <1>3, <2>1, <3>2, <3>3
    <2>2. CASE ~Reapable(creating[o].node, x)
      <3>1. Refuse(o) /\ UNCHANGED store  BY <1>3, <2>2
      <3>2. StoreTypes'  BY <3>1 DEF Types, StoreTypes, store
      <3> QED BY <1>0, <3>1, <3>2, AnswerEffect DEF Refuse, Others
    <2> QED BY <2>1, <2>2
  <1>4. \/ Refuse(o) /\ UNCHANGED store
        \/ /\ creating' = [creating EXCEPT ![o].stage = "read", ![o].rev = IF IsCluster(o) THEN scopeRev ELSE 0]
           /\ UNCHANGED store /\ TouchingOwners(o) = {}
        \/ \E x \in TouchingOwners(o) :
             IF Reapable(creating[o].node, x)
             THEN /\ UpdateRecord(x, orphan(x, rec[x]))
                  /\ IF Terminal(orphan(x, rec[x])) THEN UNCHANGED creating ELSE Refuse(o)
             ELSE Refuse(o) /\ UNCHANGED store
    BY DEF CreateRead
  <1> QED BY <1>0, <1>1, <1>2, <1>3, <1>4

\* What create finds in its way is an operation.
LEMMA HolderKnown ==
    ASSUME Types, NEW o \in Operations, NEW x \in Holder(o)
    PROVE  x \in Operations
  <1>1. resv[Scope[o]] \in SomeOperation /\ \A c \in Clusters[o] : resv[c] \in SomeOperation
    BY InResources DEF Types, StoreTypes
  <1> QED BY <1>1 DEF Holder, SomeOperation

\* The create's transaction failed: replayed, refused, or retried after clearing the way.
LEMMA CreateRefusedEffect ==
    ASSUME Types, NEW o \in Operations, CreateRefused(o)
    PROVE  /\ StoreTypes' /\ RequestTypes' /\ UNCHANGED Others
           /\ CreateMoves(o)
           /\ \/ UNCHANGED store
              \/ \E x \in Operations : Reaped(creating[o].node, x)
              \/ \E x \in Operations : Released(x)
  <1>0. UNCHANGED Others /\ creating[o].stage \in {"asked", "read"}  BY DEF CreateRefused, Others
  <1>1. CASE UNCHANGED store /\ (Answer(o, "replayed") \/ Refuse(o) \/ Retry(o))
    <2>1. StoreTypes'  BY <1>1 DEF Types, StoreTypes, store
    <2>2. RequestTypes' /\ CreateMoves(o)  BY <1>0, <1>1, AnswerEffect, RetryEffect DEF Refuse, Others
    <2> QED BY <1>0, <1>1, <2>1, <2>2
  <1>2. ASSUME NEW x \in Holder(o), ~Unfinished(x),
               resv' = [r \in Resources |-> IF resv[r] = x THEN None ELSE resv[r]],
               UNCHANGED <<rec, idem, scopeRev>>, Retry(o)
        PROVE  StoreTypes' /\ RequestTypes' /\ CreateMoves(o) /\ \E y \in Operations : Released(y)
    <2>1. x \in Operations  BY HolderKnown
    <2>2. resv' \in [Resources -> SomeOperation]  BY <1>2 DEF Types, StoreTypes, SomeOperation
    <2>3. StoreTypes'  BY <1>2, <2>2 DEF Types, StoreTypes
    <2>4. Released(x)  BY <1>2 DEF Released
    <2>5. RequestTypes' /\ CreateMoves(o)  BY <1>0, <1>2, RetryEffect DEF Others
    <2> QED BY <2>1, <2>3, <2>4, <2>5
  <1>3. ASSUME NEW x \in Holder(o), Reapable(creating[o].node, x), UpdateRecord(x, orphan(x, rec[x])),
               Retry(o) \/ Refuse(o)
        PROVE  StoreTypes' /\ RequestTypes' /\ CreateMoves(o) /\ \E y \in Operations : Reaped(creating[o].node, y)
    <2>1. x \in Operations  BY HolderKnown
    <2>2. StoreTypes' /\ Reaped(creating[o].node, x)  BY <1>3, <2>1, ReapEffect
    <2>3. RequestTypes' /\ CreateMoves(o)  BY <1>0, <1>3, RetryEffect, AnswerEffect DEF Others, Refuse
    <2> QED BY <2>1, <2>2, <2>3
  <1>4. \/ UNCHANGED store /\ (Answer(o, "replayed") \/ Refuse(o) \/ Retry(o))
        \/ \E x \in Holder(o) :
             \/ /\ ~Unfinished(x) /\ resv' = [r \in Resources |-> IF resv[r] = x THEN None ELSE resv[r]]
                /\ UNCHANGED <<rec, idem, scopeRev>> /\ Retry(o)
             \/ /\ Reapable(creating[o].node, x) /\ UpdateRecord(x, orphan(x, rec[x]))
                /\ Retry(o) \/ Refuse(o)
    BY DEF CreateRefused
  <1> QED BY <1>0, <1>1, <1>2, <1>3, <1>4

\* The create's transaction.
Created(n, o) ==
    /\ \A p \in Operations \ {o} : rec'[p] = rec[p]
    /\ rec'[o].status = "pending" /\ rec'[o].phase = "queued" /\ rec'[o].effect = "none"
    /\ rec'[o].barrier = "none" /\ rec'[o].node = n /\ rec'[o].term = 0
    /\ resv' = [resv EXCEPT ![Scope[o]] = o] /\ idem' = [idem EXCEPT ![Key[o]] = o]
    /\ scopeRev' = IF IsCluster(o) THEN scopeRev ELSE scopeRev + 1
    /\ OnlyRun(n, o) /\ run'[n][o].pc = "start" /\ run'[n][o].term = 0 /\ ~run'[n][o].lost
    /\ run'[n][o].barrier = "none"
    /\ OnlyCreating(o) /\ creating'[o].stage = "done"
    /\ \A m \in Nodes : \A x \in dropping'[m] : x \in dropping[m] \/ (x \in Operations /\ Prunable(x))

\* The create's transaction succeeded.
LEMMA CreateCommitEffect ==
    ASSUME Types, NEW o \in Operations, CreateCommit(o), creating[o].node \in Nodes
    PROVE  /\ StoreTypes' /\ RunTypes' /\ RequestTypes'
           /\ UNCHANGED <<directory, nodes, cancel, taking, seen>>
           /\ creating[o].stage = "read" /\ Compares(o) /\ Created(creating[o].node, o)
  <1> DEFINE n == creating[o].node
  <1>1. PICK w : w = [status |-> "pending", phase |-> "queued", effect |-> "none",
                      barrier |-> "none", node |-> n, term |-> 0, seq |-> 1]  OBVIOUS
  <1>2. w \in RecType  BY <1>1 DEF RecType, Statuses, Phases, Effects, Barriers, SomeNode
  <1>3. rec' = [rec EXCEPT ![o] = w]  BY <1>1 DEF CreateCommit
  <1>4. StoreTypes'
    <2>1. rec' \in [Operations -> RecType]  BY <1>2, <1>3 DEF Types, StoreTypes
    <2>2. /\ resv' = [resv EXCEPT ![Scope[o]] = o] /\ idem' = [idem EXCEPT ![Key[o]] = o]
          /\ scopeRev' = IF IsCluster(o) THEN scopeRev ELSE scopeRev + 1
      BY DEF CreateCommit
    <2>3. resv' \in [Resources -> SomeOperation]  BY <2>2 DEF Types, StoreTypes, SomeOperation
    <2>4. idem' \in [Keys -> SomeOperation]
      <3>1. o \in SomeOperation /\ idem \in [Keys -> SomeOperation]  BY DEF Types, StoreTypes, SomeOperation
      <3> QED BY <2>2, <3>1
    <2>5. scopeRev' \in Nat  BY SMT, <2>2 DEF Types, StoreTypes
    <2> QED BY <2>1, <2>3, <2>4, <2>5 DEF StoreTypes
  <1>5. PICK q : q = [Idle EXCEPT !.pc = "start", !.start = version]  OBVIOUS
  <1>6. Idle \in RunType /\ version \in Nat /\ "start" \in Pcs /\ Idle.term = 0 /\ Idle.lost = FALSE /\ Idle.barrier = "none"
    BY Blanks DEF Types, DirectoryTypes, Pcs
  <1>7. q \in RunType /\ q.pc = "start" /\ q.term = 0 /\ ~q.lost /\ q.barrier = "none"
    BY <1>5, <1>6 DEF RunType
  <1>8. PICK m \in Nodes : m = n  OBVIOUS
  <1>9. run' = [run EXCEPT ![m][o] = q]  BY <1>5, <1>8 DEF CreateCommit
  <1>10. RunTypes' /\ OnlyRun(m, o) /\ run'[m][o] = q  BY <1>7, <1>9, RunAt DEF Types
  <1>11. PICK c : c = [NoCreate EXCEPT !.stage = "done", !.node = n]  OBVIOUS
  <1>12. c \in CreateType /\ c.stage = "done"
    <2>1. NoCreate \in CreateType /\ "done" \in Stages /\ n \in SomeNode  BY Blanks DEF Stages, SomeNode
    <2> QED BY <1>11, <2>1 DEF CreateType
  <1>13. creating' = [creating EXCEPT ![o] = c]  BY <1>11 DEF CreateCommit
  <1>14. creating' \in [Operations -> CreateType] /\ OnlyCreating(o) /\ creating'[o] = c
    BY <1>12, <1>13 DEF Types, RequestTypes, OnlyCreating
  <1>15. PICK d \in SUBSET {x \in Operations : Prunable(x)} : dropping' = [dropping EXCEPT ![n] = @ \cup d]
    BY DEF CreateCommit
  <1>16. /\ dropping' \in [Nodes -> SUBSET Operations]
         /\ \A k \in Nodes : \A x \in dropping'[k] : x \in dropping[k] \/ (x \in Operations /\ Prunable(x))
    BY <1>15 DEF Types, RequestTypes
  <1>17. UNCHANGED <<directory, nodes, cancel, taking, seen>> /\ creating[o].stage = "read" /\ Compares(o)
    BY DEF CreateCommit
  <1>18. RequestTypes'  BY <1>14, <1>16, <1>17 DEF Types, RequestTypes
  <1>19. /\ \A p \in Operations \ {o} : rec'[p] = rec[p]
         /\ rec'[o].status = "pending" /\ rec'[o].phase = "queued" /\ rec'[o].effect = "none"
         /\ rec'[o].barrier = "none" /\ rec'[o].node = n /\ rec'[o].term = 0
    BY <1>1, <1>3 DEF Types, StoreTypes
  <1>20. /\ resv' = [resv EXCEPT ![Scope[o]] = o] /\ idem' = [idem EXCEPT ![Key[o]] = o]
         /\ scopeRev' = IF IsCluster(o) THEN scopeRev ELSE scopeRev + 1
    BY DEF CreateCommit
  <1>21. Created(m, o)  BY <1>7, <1>8, <1>10, <1>12, <1>14, <1>16, <1>19, <1>20 DEF Created
  <1> QED BY <1>4, <1>8, <1>10, <1>17, <1>18, <1>21

\* trim drops the records it chose, and their keys.
LEMMA TrimEffect ==
    ASSUME Types, NEW n \in Nodes, Trim(n)
    PROVE  /\ StoreTypes' /\ RequestTypes' /\ UNCHANGED <<resv, scopeRev, directory, nodes, run, creating, cancel, taking, seen>>
           /\ \A o \in Operations : rec'[o] = IF o \in dropping[n] THEN NoRecord ELSE rec[o]
           /\ \A o \in Operations : (\A x \in dropping[n] : Key[x] # Key[o]) => idem'[Key[o]] = idem[Key[o]]
           /\ \A m \in Nodes : dropping'[m] \subseteq dropping[m]
  <1>1. rec' \in [Operations -> RecType]  BY Blanks DEF Types, StoreTypes, Trim
  <1>2. idem' \in [Keys -> SomeOperation]  BY DEF Types, StoreTypes, Trim, SomeOperation
  <1>3. dropping' \in [Nodes -> SUBSET Operations] /\ \A m \in Nodes : dropping'[m] \subseteq dropping[m]
    BY DEF Types, RequestTypes, Trim
  <1>4. UNCHANGED <<resv, scopeRev, directory, nodes, run, creating, cancel, taking, seen>>  BY DEF Trim
  <1>5. StoreTypes' /\ RequestTypes'  BY <1>1, <1>2, <1>3, <1>4 DEF Types, StoreTypes, RequestTypes
  <1>6. \A o \in Operations : rec'[o] = IF o \in dropping[n] THEN NoRecord ELSE rec[o]  BY DEF Trim
  <1>7. \A o \in Operations : (\A x \in dropping[n] : Key[x] # Key[o]) => idem'[Key[o]] = idem[Key[o]]
    BY InResources DEF Trim, Types, StoreTypes
  <1> QED BY <1>3, <1>4, <1>5, <1>6, <1>7
-----------------------------------------------------------------------------
\* What the steps of a cancellation do.
OnlyCancel(o) == \A p \in Operations \ {o} : cancel'[p] = cancel[p]
\* Rewriting one cancellation.
LEMMA CancelAt ==
    ASSUME RequestTypes, NEW o \in Operations, NEW c \in CancelType, cancel' = [cancel EXCEPT ![o] = c],
           UNCHANGED <<creating, taking, seen, dropping>>
    PROVE  RequestTypes' /\ OnlyCancel(o) /\ cancel'[o] = c
  <1>1. cancel' \in [Operations -> CancelType]  BY DEF RequestTypes
  <1>2. OnlyCancel(o) /\ cancel'[o] = c  BY DEF RequestTypes, OnlyCancel
  <1> QED BY <1>1, <1>2 DEF RequestTypes

\* Cancel reads the record and its owner's liveness.
LEMMA CancelAskEffect ==
    ASSUME Types, NEW n \in Nodes, NEW o \in Operations, CancelAsk(n, o)
    PROVE  /\ RequestTypes' /\ UNCHANGED <<store, directory, nodes, run, creating, taking, seen, dropping>>
           /\ OnlyCancel(o) /\ cancel[o].stage = "none" /\ Unfinished(o)
           /\ cancel'[o].stage = "asked" /\ cancel'[o].term = rec[o].term /\ cancel'[o].from = rec[o].node
           /\ cancel'[o].node = n
           /\ cancel'[o].gone => ownerGone(n, rec[o])
  <1>2. PICK c : c = [NoCancel EXCEPT !.stage = "asked", !.node = n,
            !.gone = ownerGone(n, rec[o]), !.from = rec[o].node, !.term = rec[o].term]  OBVIOUS
  <1>3. /\ NoCancel \in CancelType /\ n \in SomeNode /\ rec[o].node \in SomeNode /\ rec[o].term \in Nat
        /\ ownerGone(n, rec[o]) \in BOOLEAN
    BY Blanks DEF Types, StoreTypes, RecType, SomeNode, ownerGone
  <1>4. /\ c \in CancelType /\ c.stage = "asked" /\ c.term = rec[o].term /\ c.from = rec[o].node
        /\ c.gone = ownerGone(n, rec[o]) /\ c.node = n
    BY <1>2, <1>3 DEF CancelType
  <1>5. cancel' = [cancel EXCEPT ![o] = c]  BY <1>2 DEF CancelAsk
  <1>6. RequestTypes' /\ OnlyCancel(o) /\ cancel'[o] = c
    BY <1>4, <1>5, CancelAt DEF CancelAsk, Types
  <1> QED BY <1>4, <1>6 DEF CancelAsk

\* A cancellation that has nothing left to do.
LEMMA EndCancelEffect ==
    ASSUME Types, NEW o \in Operations, EndCancel(o), UNCHANGED <<creating, taking, seen, dropping>>
    PROVE  RequestTypes' /\ OnlyCancel(o) /\ cancel'[o] = NoCancel
  <1>1. PICK c : c = NoCancel  OBVIOUS
  <1>2. c \in CancelType /\ cancel' = [cancel EXCEPT ![o] = c]  BY <1>1, Blanks DEF EndCancel
  <1> QED BY <1>1, <1>2, CancelAt DEF Types

\* A cancellation that goes on.
LEMMA SetCancelEffect ==
    ASSUME Types, NEW o \in Operations, NEW stage \in {"ended", "release", "correct"}, SetCancel(o, stage),
           UNCHANGED <<creating, taking, seen, dropping>>
    PROVE  RequestTypes' /\ OnlyCancel(o) /\ cancel'[o].stage = stage /\ cancel'[o].held = cancel[o].held
           /\ cancel'[o].node = cancel[o].node
  <1>1. PICK c : c = [cancel[o] EXCEPT !.stage = stage]  OBVIOUS
  <1>2. cancel[o] \in CancelType  BY DEF Types, RequestTypes
  <1>3. c \in CancelType /\ c.stage = stage /\ c.held = cancel[o].held /\ c.node = cancel[o].node
    BY <1>1, <1>2 DEF CancelType
  <1>4. cancel' = [cancel EXCEPT ![o] = c]  BY <1>1 DEF SetCancel
  <1>5. RequestTypes' /\ OnlyCancel(o) /\ cancel'[o] = c  BY <1>3, <1>4, CancelAt DEF Types
  <1> QED BY <1>3, <1>5

\* The record of a canceled operation as CancelEnd leaves it.
Cancelled(o) ==
    /\ Unfinished(o) /\ rec[o].node = cancel[o].from /\ rec[o].term = cancel[o].term
    /\ ~notCancellable(o, rec[o], cancel[o].gone)
    /\ OnlyRec(o) /\ rec'[o].status = "cancelled" /\ rec'[o].effect = "none" /\ rec'[o].barrier = rec[o].barrier
    /\ rec'[o].node = rec[o].node /\ rec'[o].term = rec[o].term /\ rec'[o].seq = rec[o].seq + 1
    /\ OnlyCancel(o)
    /\ \/ rec[o].barrier = "none" /\ cancel'[o] = NoCancel
       \/ /\ rec[o].barrier # "none" /\ cancel'[o].stage = "ended"
          /\ cancel'[o].held <=> rec[o].barrier = "held"
          /\ cancel'[o].node = cancel[o].node
\* A run may be told that it lost its record.
RunsTold(o) ==
    \A m \in Nodes, p \in Operations :
        \/ run'[m][p] = run[m][p]
        \/ /\ p = o /\ run[m][p].pc # "idle" /\ run'[m][p].pc = run[m][p].pc
           /\ run'[m][p].term = run[m][p].term /\ run'[m][p].lost

\* Cancel ends the record it read, or finds another owner or an operation past cancelling.
LEMMA CancelEndEffect ==
    ASSUME Types, NEW o \in Operations, CancelEnd(o), cancel[o].node \in Nodes
    PROVE  /\ StoreTypes' /\ RunTypes' /\ RequestTypes'
           /\ UNCHANGED <<directory, nodes, creating, taking, seen, dropping>> /\ cancel[o].stage = "asked"
           /\ \/ Cancelled(o) /\ RunsTold(o)
              \/ UNCHANGED <<store, run>> /\ OnlyCancel(o) /\ cancel'[o] = NoCancel
  <1> DEFINE c == cancel[o]
             Ends == Unfinished(o) /\ rec[o].node = c.from /\ rec[o].term = c.term /\ ~notCancellable(o, rec[o], c.gone)
  <1>0. UNCHANGED <<directory, nodes, creating, taking, seen, dropping>> /\ cancel[o].stage = "asked"
    BY DEF CancelEnd
  <1>1. CASE ~Ends
    <2>1. EndCancel(o) /\ UNCHANGED <<store, run>>  BY <1>1 DEF CancelEnd
    <2>2. StoreTypes' /\ RunTypes'  BY <2>1 DEF Types, StoreTypes, RunTypes, store
    <2> QED BY <1>0, <2>1, <2>2, EndCancelEffect
  <1>2. CASE Ends
    <2>1. /\ UpdateRecord(o, [rec[o] EXCEPT !.status = "cancelled", !.phase = "done", !.effect = "none", !.seq = @ + 1])
          /\ run' = IF Runs(c.node, o) THEN [run EXCEPT ![c.node][o].lost = TRUE] ELSE run
          /\ IF rec[o].barrier = "none" THEN EndCancel(o)
             ELSE cancel' = [cancel EXCEPT ![o].stage = "ended", ![o].held = rec[o].barrier = "held"]
      BY <1>2 DEF CancelEnd
    <2>2. PICK w : w = [rec[o] EXCEPT !.status = "cancelled", !.phase = "done", !.effect = "none", !.seq = @ + 1]  OBVIOUS
    <2>3. rec[o] \in RecType  BY DEF Types, StoreTypes
    <2>4. rec[o].seq + 1 \in Nat /\ "cancelled" \in Statuses /\ "done" \in Phases /\ "none" \in Effects
      BY SMT, <2>3 DEF RecType, Statuses, Phases, Effects
    <2>5. /\ w \in RecType /\ w.status = "cancelled" /\ w.effect = "none" /\ w.barrier = rec[o].barrier
          /\ w.node = rec[o].node /\ w.term = rec[o].term /\ w.seq = rec[o].seq + 1
      BY <2>2, <2>3, <2>4 DEF RecType
    <2>6. StoreTypes' /\ OnlyRec(o) /\ rec'[o] = w  BY SMTT(30), <2>1, <2>2, <2>5, UpdateTypes DEF Types, OnlyRec
    <2>7. RunTypes' /\ RunsTold(o)
      <3>1. CASE Runs(c.node, o)
        <4>1. PICK m \in Nodes : m = c.node  OBVIOUS
        <4>2. PICK q : q = [run[m][o] EXCEPT !.lost = TRUE]  OBVIOUS
        <4>3. run[m][o] \in RunType  BY DEF Types, RunTypes
        <4>4. q \in RunType /\ q.lost /\ q.pc = run[m][o].pc /\ q.term = run[m][o].term
          BY <4>2, <4>3 DEF RunType
        <4>5. run' = [run EXCEPT ![m][o] = q]  BY <2>1, <3>1, <4>1, <4>2 DEF Types, RunTypes
        <4>6. RunTypes' /\ OnlyRun(m, o) /\ run'[m][o] = q  BY <4>4, <4>5, RunAt DEF Types
        <4> QED BY <3>1, <4>1, <4>4, <4>6 DEF RunsTold, OnlyRun, Runs
      <3>2. CASE ~Runs(c.node, o)
        <4>1. run' = run  BY <2>1, <3>2
        <4> QED BY <4>1 DEF Types, RunTypes, RunsTold
      <3> QED BY <3>1, <3>2
    <2>8. CASE rec[o].barrier = "none"
      <3>1. RequestTypes' /\ OnlyCancel(o) /\ cancel'[o] = NoCancel  BY <1>0, <2>1, <2>8, EndCancelEffect
      <3> QED BY <1>0, <1>2, <2>5, <2>6, <2>7, <2>8, <3>1 DEF Cancelled
    <2>9. CASE rec[o].barrier # "none"
      <3>1. PICK h \in BOOLEAN : h = (rec[o].barrier = "held")  OBVIOUS
      <3>2. PICK d : d = [cancel[o] EXCEPT !.stage = "ended", !.held = h]  OBVIOUS
      <3>3. cancel[o] \in CancelType  BY DEF Types, RequestTypes
      <3>4. d \in CancelType /\ d.stage = "ended" /\ d.held = h /\ d.node = cancel[o].node
        BY <3>1, <3>2, <3>3 DEF CancelType
      <3>5. cancel' = [cancel EXCEPT ![o] = d]  BY <2>1, <2>9, <3>1, <3>2 DEF Types, RequestTypes
      <3>6. RequestTypes' /\ OnlyCancel(o) /\ cancel'[o] = d  BY <1>0, <3>4, <3>5, CancelAt DEF Types
      <3> QED BY <1>0, <1>2, <2>5, <2>6, <2>7, <2>9, <3>1, <3>4, <3>6 DEF Cancelled
    <2> QED BY <2>8, <2>9
  <1> QED BY <1>1, <1>2

\* What is left to do once the record has ended: release the hold, correct the record, nothing.
LEMMA CancelCarriedEffect ==
    ASSUME Types, NEW o \in Operations, CancelCarried(o)
    PROVE  /\ RequestTypes' /\ UNCHANGED <<store, directory, nodes, run, creating, taking, seen, dropping>>
           /\ cancel[o].stage = "ended" /\ OnlyCancel(o)
           /\ \/ /\ bar[Scope[o]] = o /\ cancel'[o].stage = "release"
                 /\ cancel'[o].held = cancel[o].held /\ cancel'[o].node = cancel[o].node
              \/ /\ bar[Scope[o]] # o /\ cancel[o].held /\ cancel'[o].stage = "correct"
                 /\ cancel'[o].held = cancel[o].held /\ cancel'[o].node = cancel[o].node
              \/ bar[Scope[o]] # o /\ ~cancel[o].held /\ cancel'[o] = NoCancel
  <1>0. /\ UNCHANGED <<store, directory, nodes, run, creating, taking, seen, dropping>>
        /\ cancel[o].stage = "ended"  BY DEF CancelCarried
  <1>1. CASE bar[Scope[o]] = o
    <2>1. SetCancel(o, "release")  BY <1>1 DEF CancelCarried
    <2> QED BY <1>0, <1>1, <2>1, SetCancelEffect
  <1>2. CASE bar[Scope[o]] # o /\ cancel[o].held
    <2>1. SetCancel(o, "correct")  BY <1>2 DEF CancelCarried
    <2> QED BY <1>0, <1>2, <2>1, SetCancelEffect
  <1>3. CASE bar[Scope[o]] # o /\ ~cancel[o].held
    <2>1. EndCancel(o)  BY <1>3 DEF CancelCarried
    <2> QED BY <1>0, <1>3, <2>1, EndCancelEffect
  <1> QED BY <1>1, <1>2, <1>3

\* The release of the hold, or the discovery that the owner committed first.
LEMMA ReleaseHoldEffect ==
    ASSUME Types, NEW o \in Operations, releaseHold(o)
    PROVE  /\ DirectoryTypes' /\ RequestTypes' /\ UNCHANGED <<store, nodes, run, creating, taking, seen, dropping, inForce>>
           /\ cancel[o].stage = "release" /\ OnlyCancel(o)
           /\ \/ bar[Scope[o]] = o /\ bar' = [bar EXCEPT ![Scope[o]] = None] /\ cancel'[o] = NoCancel
              \/ /\ bar[Scope[o]] # o /\ bar' = bar /\ cancel[o].held /\ cancel'[o].stage = "correct"
                 /\ cancel'[o].held = cancel[o].held /\ cancel'[o].node = cancel[o].node
              \/ bar[Scope[o]] # o /\ bar' = bar /\ ~cancel[o].held /\ cancel'[o] = NoCancel
  <1>0. UNCHANGED <<store, nodes, run, creating, taking, seen, dropping>> /\ cancel[o].stage = "release"
    BY DEF releaseHold
  <1>1. CASE bar[Scope[o]] = o
    <2>1. /\ bar' = [bar EXCEPT ![Scope[o]] = None] /\ Writes(Scope[o]) /\ EndCancel(o) /\ inForce' = inForce
      BY <1>1 DEF releaseHold
    <2>2. DirectoryTypes'
      <3>1. bar' \in [Resources -> SomeOperation]  BY <2>1 DEF Types, DirectoryTypes, SomeOperation
      <3>2. version' \in Nat /\ gen' \in [Resources -> Nat]  BY SMT, <2>1, InResources DEF Types, DirectoryTypes, Writes
      <3> QED BY <2>1, <3>1, <3>2 DEF Types, DirectoryTypes
    <2> QED BY <1>0, <1>1, <2>1, <2>2, EndCancelEffect
  <1>2. CASE bar[Scope[o]] # o
    <2>1. UNCHANGED directory /\ IF cancel[o].held THEN SetCancel(o, "correct") ELSE EndCancel(o)
      BY <1>2 DEF releaseHold
    <2>2. DirectoryTypes' /\ UNCHANGED <<bar, inForce>>  BY <2>1 DEF Types, DirectoryTypes, directory
    <2>3. CASE cancel[o].held  BY <1>0, <1>2, <2>1, <2>2, <2>3, SetCancelEffect
    <2>4. CASE ~cancel[o].held  BY <1>0, <1>2, <2>1, <2>2, <2>4, EndCancelEffect
    <2> QED BY <2>3, <2>4
  <1> QED BY <1>1, <1>2

\* The record of a canceled operation as the correction leaves it.
Corrected(o) ==
    /\ Exists(o) /\ OnlyRec(o) /\ rec'[o].status = "failed" /\ rec'[o].effect = "committed"
    /\ rec'[o].barrier = "committed" /\ rec'[o].node = rec[o].node /\ rec'[o].term = rec[o].term
    /\ rec'[o].seq = rec[o].seq + 1
\* The correction of a canceled record whose change is in force.
LEMMA CorrectCommittedEffect ==
    ASSUME Types, NEW o \in Operations, correctCommitted(o)
    PROVE  /\ StoreTypes' /\ RequestTypes' /\ UNCHANGED <<directory, nodes, run, creating, taking, seen, dropping>>
           /\ cancel[o].stage = "correct" /\ OnlyCancel(o) /\ cancel'[o] = NoCancel
           /\ (~Exists(o) /\ UNCHANGED store) \/ Corrected(o)
  <1>0. /\ UNCHANGED <<directory, nodes, run, creating, taking, seen, dropping>> /\ cancel[o].stage = "correct"
        /\ RequestTypes' /\ OnlyCancel(o) /\ cancel'[o] = NoCancel
    BY EndCancelEffect DEF correctCommitted
  <1>1. CASE Exists(o)
    <2>1. PICK w : w = [rec[o] EXCEPT !.status = "failed", !.effect = "committed",
                                      !.barrier = "committed", !.seq = @ + 1]  OBVIOUS
    <2>2. rec[o] \in RecType  BY DEF Types, StoreTypes
    <2>3. rec[o].seq + 1 \in Nat /\ "failed" \in Statuses /\ "committed" \in Barriers /\ "committed" \in Effects
      BY SMT, <2>2 DEF RecType, Statuses, Barriers, Effects
    <2>4. /\ w \in RecType /\ w.status = "failed" /\ w.effect = "committed" /\ w.barrier = "committed"
          /\ w.node = rec[o].node /\ w.term = rec[o].term /\ w.seq = rec[o].seq + 1
      BY <2>1, <2>2, <2>3 DEF RecType
    <2>5. UpdateRecord(o, w)  BY <1>1, <2>1 DEF correctCommitted
    <2>6. StoreTypes' /\ OnlyRec(o) /\ rec'[o] = w  BY ZenonT(40), <2>4, <2>5, UpdateTypes DEF Types, OnlyRec
    <2> QED BY <1>0, <1>1, <2>4, <2>6 DEF Corrected
  <1>2. CASE ~Exists(o)
    <2>1. UNCHANGED store  BY <1>2 DEF correctCommitted
    <2>2. StoreTypes'  BY <2>1 DEF Types, StoreTypes, store
    <2> QED BY <1>0, <1>2, <2>1, <2>2
  <1> QED BY <1>1, <1>2

\* A repeated cancellation releases the hold of a canceled record.
LEMMA ReleaseCanceledEffect ==
    ASSUME Types, NEW n \in Nodes, NEW o \in Operations, releaseCanceled(n, o)
    PROVE  /\ DirectoryTypes' /\ UNCHANGED <<inForce, store, nodes, run, requests>>
           /\ rec[o].status = "cancelled" /\ bar[Scope[o]] = o
           /\ cancel[o].stage = "none" \/ "cancels" \in Faults
           /\ bar' = [bar EXCEPT ![Scope[o]] = None]
  <1>1. bar' \in [Resources -> SomeOperation]  BY DEF releaseCanceled, Types, DirectoryTypes, SomeOperation
  <1>2. version' \in Nat /\ gen' \in [Resources -> Nat]
    BY SMT, InResources DEF releaseCanceled, Types, DirectoryTypes, Writes
  <1>3. DirectoryTypes'  BY <1>1, <1>2 DEF releaseCanceled, Types, DirectoryTypes
  <1> QED BY <1>3 DEF releaseCanceled
-----------------------------------------------------------------------------
\* What owner loss, a takeover, a crash and a restart do.
OnlySeen(n) == \A m \in Nodes \ {n} : seen'[m] = seen[m]
\* The sweep reads a record whose owner is gone.
LEMMA SweepReadEffect ==
    ASSUME Types, NEW n \in Nodes, NEW o \in Operations, SweepRead(n, o)
    PROVE  /\ RequestTypes' /\ UNCHANGED <<store, directory, nodes, run, creating, cancel, taking, dropping>>
           /\ OnlySeen(n) /\ seen'[n].op = o /\ seen'[n].rec = rec[o] /\ Unfinished(o)
  <1>1. PICK v : v = [op |-> o, rec |-> rec[o]]  OBVIOUS
  <1>2. v \in SeenType /\ v.op = o /\ v.rec = rec[o]  BY <1>1 DEF SeenType, SomeOperation, Types, StoreTypes
  <1>3. seen' = [seen EXCEPT ![n] = v]  BY <1>1 DEF SweepRead
  <1>4. seen' \in [Nodes -> SeenType] /\ OnlySeen(n) /\ seen'[n] = v
    BY <1>2, <1>3 DEF Types, RequestTypes, OnlySeen
  <1>5. UNCHANGED <<store, directory, nodes, run, creating, cancel, taking, dropping>> /\ Unfinished(o)
    BY DEF SweepRead
  <1>6. RequestTypes'  BY <1>4, <1>5 DEF Types, RequestTypes
  <1> QED BY <1>2, <1>4, <1>5, <1>6

\* A sweep's write, of the record it read.
Swept(x, r) == Exists(x) /\ rec[x].seq = r.seq /\ OnlyRec(x) /\ rec'[x] = orphan(x, r)
\* The sweep writes what it made of the record, if the record is the one it read.
LEMMA SweepWriteEffect ==
    ASSUME Types, NEW n \in Nodes, SweepWrite(n)
    PROVE  /\ StoreTypes' /\ RequestTypes' /\ UNCHANGED <<directory, nodes, run, creating, cancel, taking, dropping>>
           /\ OnlySeen(n) /\ seen'[n].op = None
           /\ seen[n].op \in Operations
           /\ UNCHANGED store \/ Swept(seen[n].op, seen[n].rec)
  <1>1. PICK v : v = NoSeen  OBVIOUS
  <1>2. v \in SeenType /\ v.op = None  BY <1>1, Blanks
  <1>3. seen' = [seen EXCEPT ![n] = v]  BY <1>1 DEF SweepWrite
  <1>4. seen' \in [Nodes -> SeenType] /\ OnlySeen(n) /\ seen'[n] = v
    BY <1>2, <1>3 DEF Types, RequestTypes, OnlySeen
  <1>5. UNCHANGED <<directory, nodes, run, creating, cancel, taking, dropping>>  BY DEF SweepWrite
  <1>6. RequestTypes'  BY <1>4, <1>5 DEF Types, RequestTypes
  <1>7. seen[n].op \in Operations /\ seen[n].rec \in RecType
    BY DEF SweepWrite, Types, RequestTypes, SeenType, SomeOperation
  <1>8. CASE Exists(seen[n].op) /\ rec[seen[n].op].seq = seen[n].rec.seq
    <2>1. PICK x \in Operations : x = seen[n].op  BY <1>7
    <2>2. PICK w : w = orphan(x, seen[n].rec)  OBVIOUS
    <2>3. w \in RecType  BY <1>7, <2>2, OrphanFacts
    <2>4. UpdateRecord(x, w)  BY <1>8, <2>1, <2>2 DEF SweepWrite
    <2>5. StoreTypes' /\ OnlyRec(x) /\ rec'[x] = w  BY SMTT(30), <2>3, <2>4, UpdateTypes DEF Types, OnlyRec
    <2> QED BY <1>2, <1>4, <1>5, <1>6, <1>7, <1>8, <2>1, <2>2, <2>5 DEF Swept
  <1>9. CASE ~(Exists(seen[n].op) /\ rec[seen[n].op].seq = seen[n].rec.seq)
    <2>1. UNCHANGED store  BY <1>9 DEF SweepWrite
    <2>2. StoreTypes'  BY <2>1 DEF Types, StoreTypes, store
    <2> QED BY <1>2, <1>4, <1>5, <1>6, <1>7, <2>1, <2>2
  <1> QED BY <1>8, <1>9

\* A record taken over by node n, which runs it from the barrier it shows.
Taken(n, o) ==
    /\ OnlyRec(o) /\ rec'[o].status = "running" /\ rec'[o].phase = rec[o].phase /\ rec'[o].effect = rec[o].effect
    /\ rec'[o].barrier = rec[o].barrier /\ rec'[o].node = n /\ rec'[o].term = rec[o].term + 1
    /\ rec'[o].seq = rec[o].seq + 1
    /\ OnlyRun(n, o) /\ run'[n][o].term = rec[o].term + 1 /\ ~run'[n][o].lost /\ run'[n][o].barrier = rec[o].barrier
    /\ run'[n][o].pc = CASE rec[o].barrier = "intent" -> "hold" [] rec[o].barrier = "held" -> "carried"
                         [] OTHER -> "succeed"
\* A takeover: the record has a new owner and term, whose run starts where its barrier stands.
LEMMA TakeOverEffect ==
    ASSUME Types, NEW n \in Nodes, NEW o \in Operations, TakeOver(n, o)
    PROVE  StoreTypes' /\ RunTypes' /\ Taken(n, o)
  <1>1. PICK w : w = [rec[o] EXCEPT !.node = n, !.term = @ + 1, !.status = "running", !.seq = @ + 1]  OBVIOUS
  <1>2. rec[o] \in RecType  BY DEF Types, StoreTypes
  <1>3. rec[o].seq + 1 \in Nat /\ rec[o].term + 1 \in Nat /\ "running" \in Statuses /\ n \in SomeNode
    BY SMT, <1>2 DEF RecType, Statuses, SomeNode
  <1>4. /\ w \in RecType /\ w.status = "running" /\ w.phase = rec[o].phase /\ w.effect = rec[o].effect
        /\ w.barrier = rec[o].barrier /\ w.node = n /\ w.term = rec[o].term + 1 /\ w.seq = rec[o].seq + 1
    BY <1>1, <1>2, <1>3 DEF RecType
  <1>5. UpdateRecord(o, w)  BY <1>1 DEF TakeOver
  <1>6. StoreTypes' /\ OnlyRec(o) /\ rec'[o] = w  BY SMT, <1>4, <1>5, UpdateTypes DEF Types, OnlyRec
  <1>7. PICK p : p = CASE rec[o].barrier = "intent" -> "hold" [] rec[o].barrier = "held" -> "carried"
                      [] OTHER -> "succeed"  OBVIOUS
  <1>8. PICK q : q = [pc |-> p, term |-> rec[o].term + 1, lost |-> FALSE, barrier |-> rec[o].barrier,
                      start |-> version]  OBVIOUS
  <1>9. p \in Pcs /\ rec[o].barrier \in Barriers /\ version \in Nat
    BY <1>2, <1>7 DEF Pcs, RecType, Types, DirectoryTypes
  <1>10. /\ q \in RunType /\ q.pc = p /\ q.term = rec[o].term + 1 /\ ~q.lost /\ q.barrier = rec[o].barrier
    BY <1>3, <1>8, <1>9 DEF RunType
  <1>11. run' = [run EXCEPT ![n][o] = q]  BY <1>7, <1>8 DEF TakeOver
  <1>12. RunTypes' /\ OnlyRun(n, o) /\ run'[n][o] = q  BY <1>10, <1>11, RunAt DEF Types
  <1> QED BY <1>4, <1>6, <1>7, <1>10, <1>12 DEF Taken

\* A resume request reads a record that no live owner runs.
LEMMA ResumeAskEffect ==
    ASSUME Types, NEW n \in Nodes, NEW o \in Operations, ResumeAsk(n, o)
    PROVE  /\ RequestTypes' /\ UNCHANGED <<store, directory, nodes, run, creating, cancel, seen, dropping>>
           /\ Serving(n) /\ Resumable(n, o) /\ (rec[o].node = n \/ ~alive[rec[o].node])
           /\ \A m \in Nodes \ {n} : taking'[m] = taking[m]
           /\ taking'[n].op = o /\ taking'[n].from = rec[o].node /\ taking'[n].term = rec[o].term
  <1>1. PICK v : v = [op |-> o, from |-> rec[o].node, term |-> rec[o].term]  OBVIOUS
  <1>2. v \in TakeType /\ v.op = o /\ v.from = rec[o].node /\ v.term = rec[o].term
    <2>1. rec[o] \in RecType  BY DEF Types, StoreTypes
    <2>2. rec[o].node \in SomeNode /\ rec[o].term \in Nat  BY <2>1 DEF RecType
    <2> QED BY <1>1, <2>2 DEF TakeType, SomeOperation
  <1>3. taking' = [taking EXCEPT ![n] = v]  BY <1>1 DEF ResumeAsk
  <1>4. taking' \in [Nodes -> TakeType] /\ taking'[n] = v /\ \A m \in Nodes \ {n} : taking'[m] = taking[m]
    BY <1>2, <1>3 DEF Types, RequestTypes
  <1>5. UNCHANGED <<store, directory, nodes, run, creating, cancel, seen, dropping>>  BY DEF ResumeAsk
  <1>6. RequestTypes'  BY <1>4, <1>5 DEF Types, RequestTypes
  <1> QED BY <1>2, <1>4, <1>5, <1>6 DEF ResumeAsk

\* The resume takes the record over if it still has the owner it read.
LEMMA ResumeTakeEffect ==
    ASSUME Types, NEW n \in Nodes, ResumeTake(n)
    PROVE  /\ StoreTypes' /\ RunTypes' /\ RequestTypes' /\ UNCHANGED <<directory, nodes, creating, cancel, seen, dropping>>
           /\ \A m \in Nodes \ {n} : taking'[m] = taking[m]
           /\ taking'[n].op = None
           /\ \/ UNCHANGED <<store, run>>
              \/ \E o \in Operations : /\ taking[n].op = o /\ Unfinished(o) /\ rec[o].node = taking[n].from
                                       /\ rec[o].term = taking[n].term /\ Taken(n, o)
  <1>1. PICK v : v = NoTake  OBVIOUS
  <1>2. v \in TakeType /\ v.op = None  BY <1>1, Blanks
  <1>3. taking' = [taking EXCEPT ![n] = v]  BY <1>1 DEF ResumeTake
  <1>4. taking' \in [Nodes -> TakeType] /\ taking'[n] = v /\ \A m \in Nodes \ {n} : taking'[m] = taking[m]
    BY <1>2, <1>3 DEF Types, RequestTypes
  <1>5. UNCHANGED <<directory, nodes, creating, cancel, seen, dropping>>  BY DEF ResumeTake
  <1>6. RequestTypes'  BY <1>4, <1>5 DEF Types, RequestTypes
  <1>7. PICK o \in Operations : o = taking[n].op  BY DEF ResumeTake, Types, RequestTypes, TakeType, SomeOperation
  <1>8. CASE Unfinished(o) /\ rec[o].node = taking[n].from /\ rec[o].term = taking[n].term
    <2>1. TakeOver(n, o)  BY <1>7, <1>8 DEF ResumeTake
    <2> QED BY <1>2, <1>4, <1>5, <1>6, <1>7, <1>8, <2>1, TakeOverEffect
  <1>9. CASE ~(Unfinished(o) /\ rec[o].node = taking[n].from /\ rec[o].term = taking[n].term)
    <2>1. UNCHANGED <<store, run>>  BY <1>7, <1>9 DEF ResumeTake
    <2>2. StoreTypes' /\ RunTypes'  BY <2>1 DEF Types, StoreTypes, RunTypes, store
    <2> QED BY <1>2, <1>4, <1>5, <1>6, <2>1, <2>2
  <1> QED BY <1>8, <1>9

\* What is left when node n's process stops.
Crashed(n) ==
    /\ up[n] # "down" /\ up'[n] = "down" /\ (\A m \in Nodes \ {n} : up'[m] = up[m]) /\ alive' = alive
    /\ \A o \in Operations : run'[n][o] = Idle
    /\ \A m \in Nodes \ {n} : \A o \in Operations : run'[m][o] = run[m][o]
    /\ \A o \in Operations :
        IF creating[o].node = n /\ creating[o].stage \in {"asked", "read"}
        THEN creating'[o] = NoCreate ELSE creating'[o] = creating[o]
    /\ \A o \in Operations : IF cancel[o].node = n THEN cancel'[o] = NoCancel ELSE cancel'[o] = cancel[o]
    /\ \A o \in Operations : cancel[o].node = n => cancel[o].stage = "asked" \/ "cancelcrash" \in Faults
    /\ taking'[n] = NoTake /\ (\A m \in Nodes \ {n} : taking'[m] = taking[m])
    /\ seen'[n] = NoSeen /\ (\A m \in Nodes \ {n} : seen'[m] = seen[m])
    /\ \A m \in Nodes : dropping'[m] \subseteq dropping[m]
\* A crash loses the runs and the requests of its node.
LEMMA CrashEffect ==
    ASSUME Types, NEW n \in Nodes, Crash(n)
    PROVE  NodeTypes' /\ RunTypes' /\ RequestTypes' /\ UNCHANGED <<store, directory>> /\ Crashed(n)
  <1>1. PICK i, c, d, t, s : i = Idle /\ c = NoCreate /\ d = NoCancel /\ t = NoTake /\ s = NoSeen  OBVIOUS
  <1>2. i \in RunType /\ c \in CreateType /\ d \in CancelType /\ t \in TakeType /\ s \in SeenType  BY <1>1, Blanks
  <1>3. /\ up' = [up EXCEPT ![n] = "down"] /\ alive' = alive /\ UNCHANGED <<store, directory>>
        /\ run' = [run EXCEPT ![n] = [o \in Operations |-> i]]
        /\ creating' = [o \in Operations |->
                IF creating[o].node = n /\ creating[o].stage \in {"asked", "read"} THEN c ELSE creating[o]]
        /\ cancel' = [o \in Operations |-> IF cancel[o].node = n THEN d ELSE cancel[o]]
        /\ taking' = [taking EXCEPT ![n] = t] /\ seen' = [seen EXCEPT ![n] = s]
        /\ dropping' = [dropping EXCEPT ![n] = {}]
        /\ up[n] # "down"
        /\ \A o \in Operations : cancel[o].node = n => cancel[o].stage = "asked" \/ "cancelcrash" \in Faults
    BY <1>1 DEF Crash
  <1>4. NodeTypes' /\ up'[n] = "down" /\ \A m \in Nodes \ {n} : up'[m] = up[m]  BY <1>3 DEF Types, NodeTypes
  <1>5. RunTypes' /\ (\A o \in Operations : run'[n][o] = i)
        /\ \A m \in Nodes \ {n} : \A o \in Operations : run'[m][o] = run[m][o]
    BY <1>2, <1>3 DEF Types, RunTypes
  <1>6. creating' \in [Operations -> CreateType]
        /\ \A o \in Operations : IF creating[o].node = n /\ creating[o].stage \in {"asked", "read"}
                                 THEN creating'[o] = c ELSE creating'[o] = creating[o]
    BY <1>2, <1>3 DEF Types, RequestTypes
  <1>7. cancel' \in [Operations -> CancelType]
        /\ \A o \in Operations : IF cancel[o].node = n THEN cancel'[o] = d ELSE cancel'[o] = cancel[o]
    BY <1>2, <1>3 DEF Types, RequestTypes
  <1>8. /\ taking' \in [Nodes -> TakeType] /\ taking'[n] = t /\ \A m \in Nodes \ {n} : taking'[m] = taking[m]
        /\ seen' \in [Nodes -> SeenType] /\ seen'[n] = s /\ \A m \in Nodes \ {n} : seen'[m] = seen[m]
    BY <1>2, <1>3 DEF Types, RequestTypes
  <1>9. dropping' \in [Nodes -> SUBSET Operations] /\ \A m \in Nodes : dropping'[m] \subseteq dropping[m]
    BY <1>3 DEF Types, RequestTypes
  <1>10. RequestTypes'  BY <1>6, <1>7, <1>8, <1>9 DEF RequestTypes
  <1> QED BY <1>1, <1>3, <1>4, <1>5, <1>6, <1>7, <1>8, <1>9, <1>10 DEF Crashed

\* A liveness key goes.
LEMMA LapseEffect ==
    ASSUME Types, NEW n \in Nodes, Lapse(n)
    PROVE  /\ NodeTypes' /\ UNCHANGED <<store, directory, up, run, requests>>
           /\ up[n] = "down" \/ "lapse" \in Faults
           /\ ~alive'[n] /\ \A m \in Nodes \ {n} : alive'[m] = alive[m]
  BY DEF Lapse, Types, NodeTypes

\* A node starts, and serves before it has looked at its records.
LEMMA RestartEffect ==
    ASSUME Types, NEW n \in Nodes, Restart(n)
    PROVE  /\ NodeTypes' /\ UNCHANGED <<store, directory, run, requests>>
           /\ up[n] = "down" /\ up'[n] = "boot" /\ \A m \in Nodes \ {n} : up'[m] = up[m]
           /\ alive'[n] /\ \A m \in Nodes \ {n} : alive'[m] = alive[m]
  BY DEF Restart, Types, NodeTypes

\* A node has looked at its records.
LEMMA StartedEffect ==
    ASSUME Types, NEW n \in Nodes, Started(n)
    PROVE  /\ NodeTypes' /\ UNCHANGED <<store, directory, alive, run, requests>>
           /\ up[n] = "boot" /\ up'[n] = "up" /\ \A m \in Nodes \ {n} : up'[m] = up[m]
  BY DEF Started, Types, NodeTypes

\* A node fails a record of its own that carries no barrier.
Failed(o) == Unfinished(o) /\ ~carriesOn(o, rec[o]) /\ OnlyRec(o) /\ rec'[o] = orphan(o, rec[o])
\* A restarted node fails its own records that carry no barrier.
LEMMA FailOrphansEffect ==
    ASSUME Types, NEW n \in Nodes, NEW o \in Operations, FailOrphans(n, o)
    PROVE  StoreTypes' /\ UNCHANGED <<directory, nodes, run, requests>> /\ Failed(o)
  <1>1. PICK w : w = orphan(o, rec[o])  OBVIOUS
  <1>2. w \in RecType  BY <1>1, OrphanFacts DEF Types, StoreTypes
  <1>3. UpdateRecord(o, w)  BY <1>1 DEF FailOrphans
  <1>4. StoreTypes' /\ OnlyRec(o) /\ rec'[o] = w  BY ZenonT(40), <1>2, <1>3, UpdateTypes DEF Types, OnlyRec
  <1> QED BY <1>1, <1>4 DEF FailOrphans, Failed, Left

\* A restarted node takes its own records with a barrier over.
LEMMA ResumeOwnEffect ==
    ASSUME Types, NEW n \in Nodes, NEW o \in Operations, ResumeOwn(n, o)
    PROVE  /\ StoreTypes' /\ RunTypes' /\ UNCHANGED <<directory, nodes, requests>>
           /\ up[n] = "boot" /\ Resumable(n, o) /\ rec[o].node = n /\ Taken(n, o)
  BY TakeOverEffect DEF ResumeOwn, Left
-----------------------------------------------------------------------------
(* The invariant of the stored records and of the requests that read them. *)

\* An operation that was created and cannot be created again: its key names its record, or, once the
\* record may be trimmed with its key, its request was answered and is not sent again.
Made(o) == IF o \in Aged THEN creating[o].stage = "done" ELSE Exists(o) /\ idem[Key[o]] = o
\* A record there is has been made, by a node.
MadeOK == \A o \in Operations : Exists(o) => Made(o) /\ rec[o].node \in Nodes
\* A request in progress is some node's.
AskedOK ==
    /\ \A o \in Operations : creating[o].stage \in {"asked", "read"} => creating[o].node \in Nodes
    /\ \A o \in Operations : cancel[o].stage # "none" => cancel[o].node \in Nodes
\* trim chooses ended records that may be dropped.
DropOK == \A n \in Nodes : \A o \in dropping[n] : o \in Aged /\ Made(o) /\ ~Unfinished(o)
\* What a sweep read is the record or older than it.
SeenOK == \A n \in Nodes : \A o \in Operations : seen[n].op = o =>
    /\ Made(o)
    /\ Exists(o) => seen[n].rec.seq <= rec[o].seq
    /\ Exists(o) /\ seen[n].rec.seq = rec[o].seq => seen[n].rec = rec[o] /\ Unfinished(o)
\* An unfinished operation holds its scope's reservation.
Reserved == \A o \in Operations : Unfinished(o) => resv[Scope[o]] = o
\* A cluster operation whose revision still stands has no unfinished placement operation in its way.
RevOK == \A o \in Operations : creating[o].stage = "read" /\ IsCluster(o) =>
    /\ creating[o].rev <= scopeRev
    /\ creating[o].rev = scopeRev => \A x \in Operations : Unfinished(x) => Scope[o] \notin Clusters[x]
\* The inductive invariant of the store.
StoreInv == Types /\ MadeOK /\ AskedOK /\ DropOK /\ SeenOK /\ Reserved /\ RevOK /\ ScopesExclusive

\* An operation whose record may be trimmed shares its idempotency key with no other.
KeysOwn == \A o \in Aged, p \in Operations : Key[o] = Key[p] => o = p

\* A record rewritten in place: an ended one stays ended.
Rewritten(x) ==
    /\ Exists(x) /\ OnlyRec(x) /\ rec'[x].status # "absent" /\ rec'[x].seq = rec[x].seq + 1
    /\ rec'[x].node \in Nodes /\ (Terminal(rec[x]) => Terminal(rec'[x]))
\* A step that creates and trims nothing.
StoreKept == UNCHANGED store \/ (\E x \in Operations : Rewritten(x)) \/ (\E x \in Operations : Released(x))
CreatingKept ==
    \A o \in Operations :
        \/ creating'[o] = creating[o]
        \/ creating'[o].stage \in {"none", "refused", "replayed"} /\ creating[o].stage # "done"
        \/ /\ creating'[o].stage = "asked" /\ creating'[o].node \in Nodes
           /\ creating[o].stage = "done" => o \notin Aged
        \/ CreateReads(o) /\ UNCHANGED store
CancelKept == \A o \in Operations : cancel'[o].stage # "none" => cancel'[o].node \in Nodes
SeenKept ==
    \A n \in Nodes :
        \/ seen'[n] = seen[n]
        \/ seen'[n].op = None
        \/ \E o \in Operations : seen'[n].op = o /\ seen'[n].rec = rec[o] /\ Unfinished(o) /\ UNCHANGED store
DroppingKept == \A n \in Nodes : dropping'[n] \subseteq dropping[n]
Mild == StoreKept /\ CreatingKept /\ CancelKept /\ SeenKept /\ DroppingKept

\* What a step that rewrites one record, or releases the reservations of an ended one, keeps.
LEMMA RecordsKept ==
    ASSUME StoreInv, Types', StoreKept
    PROVE  /\ idem' = idem /\ scopeRev' = scopeRev
           /\ \A o \in Operations : /\ Exists(o)' <=> Exists(o)
                                    /\ Unfinished(o)' => Unfinished(o) /\ resv'[Scope[o]] = resv[Scope[o]]
                                    /\ Exists(o) => rec'[o].node \in Nodes /\ rec'[o].seq \in Nat /\ rec[o].seq \in Nat
                                    /\ Exists(o) => rec'[o].seq = rec[o].seq + 1 \/ rec'[o] = rec[o]
  <1>1. CASE UNCHANGED store
    BY <1>1 DEF StoreInv, MadeOK, Types, StoreTypes, RecType, store, Exists, Unfinished
  <1>2. CASE \E x \in Operations : Rewritten(x)
    <2>1. PICK x \in Operations : Rewritten(x)  BY <1>2
    <2>2. idem' = idem /\ scopeRev' = scopeRev  BY <2>1 DEF Rewritten, OnlyRec
    <2>3. SUFFICES ASSUME NEW o \in Operations
                   PROVE  /\ Exists(o)' <=> Exists(o)
                          /\ Unfinished(o)' => Unfinished(o) /\ resv'[Scope[o]] = resv[Scope[o]]
                          /\ Exists(o) => rec'[o].node \in Nodes /\ rec'[o].seq \in Nat /\ rec[o].seq \in Nat
                          /\ Exists(o) => rec'[o].seq = rec[o].seq + 1 \/ rec'[o] = rec[o]
      BY <2>2
    <2>4. rec[o].seq \in Nat /\ rec'[o].seq \in Nat  BY DEF StoreInv, Types, StoreTypes, RecType
    <2>5. CASE o = x
      <3>1. Exists(o)' /\ Exists(o)  BY <2>1, <2>5 DEF Rewritten, Exists
      <3>2. Unfinished(o)' => Unfinished(o)  BY <2>1, <2>5, <3>1 DEF Rewritten, Unfinished
      <3>3. Unfinished(o)' => resv'[Scope[o]] = resv[Scope[o]]
        BY <2>1, <2>5, InResources DEF Rewritten, OnlyRec, Unfinished
      <3> QED BY <2>1, <2>4, <2>5, <3>1, <3>2, <3>3 DEF Rewritten
    <2>6. CASE o # x
      <3>1. rec'[o] = rec[o]  BY <2>1, <2>6 DEF Rewritten, OnlyRec
      <3>2. (Exists(o)' <=> Exists(o)) /\ (Unfinished(o)' <=> Unfinished(o))
        BY <3>1 DEF Exists, Unfinished, Terminal
      <3>3. Unfinished(o) => resv'[Scope[o]] = resv[Scope[o]]
        BY <2>1, <2>6, InResources DEF Rewritten, OnlyRec, StoreInv, Reserved
      <3> QED BY <2>4, <3>1, <3>2, <3>3 DEF StoreInv, MadeOK
    <2> QED BY <2>5, <2>6
  <1>3. CASE \E x \in Operations : Released(x)
    <2>1. PICK x \in Operations : Released(x)  BY <1>3
    <2>2. rec' = rec /\ idem' = idem /\ scopeRev' = scopeRev  BY <2>1 DEF Released
    <2>3. \A o \in Operations : (Exists(o)' <=> Exists(o)) /\ (Unfinished(o)' <=> Unfinished(o))
      BY <2>2 DEF Exists, Unfinished
    <2>4. \A o \in Operations : Unfinished(o) => resv'[Scope[o]] = resv[Scope[o]]
      BY <2>1, InResources DEF Released, StoreInv, Reserved
    <2> QED BY <2>2, <2>3, <2>4 DEF StoreInv, MadeOK, Types, StoreTypes, RecType
  <1> QED BY <1>1, <1>2, <1>3 DEF StoreKept

\* An operation once made stays made.
LEMMA MadeKept ==
    ASSUME StoreInv, Types', Mild
    PROVE  \A o \in Operations : Made(o) => Made(o)'
  <1>1. \A o \in Operations : creating[o].stage = "done" /\ o \in Aged => creating'[o].stage = "done"
    BY DEF Mild, CreatingKept, CreateReads
  <1> QED BY <1>1, RecordsKept DEF Made, Mild

\* A step that neither creates nor trims keeps the invariant.
LEMMA MildStep ==
    ASSUME StoreInv, Types', Mild
    PROVE  StoreInv'
  <1>0. StoreKept  BY DEF Mild
  <1>1. MadeOK'  BY <1>0, RecordsKept, MadeKept DEF StoreInv, MadeOK
  <1>2. AskedOK'  BY DEF StoreInv, AskedOK, Mild, CreatingKept, CancelKept, CreateReads
  <1>3. DropOK'
    <2>1. \A n \in Nodes : dropping[n] \subseteq Operations  BY DEF StoreInv, Types, RequestTypes
    <2> QED BY <1>0, <2>1, RecordsKept, MadeKept DEF StoreInv, DropOK, Mild, DroppingKept
  <1>4. SeenOK'
    <2> SUFFICES ASSUME NEW n \in Nodes, NEW o \in Operations, seen'[n].op = o
                 PROVE  /\ Made(o)'
                        /\ Exists(o)' => seen'[n].rec.seq <= rec'[o].seq
                        /\ Exists(o)' /\ seen'[n].rec.seq = rec'[o].seq => seen'[n].rec = rec'[o] /\ Unfinished(o)'
      BY DEF SeenOK
    <2>0. seen[n].rec.seq \in Nat  BY DEF StoreInv, Types, RequestTypes, SeenType, RecType
    <2>1. CASE seen'[n] = seen[n]
      <3>1. /\ Made(o)
            /\ Exists(o) => seen[n].rec.seq <= rec[o].seq
            /\ Exists(o) /\ seen[n].rec.seq = rec[o].seq => seen[n].rec = rec[o] /\ Unfinished(o)
        BY <2>1 DEF StoreInv, SeenOK
      <3>2. CASE rec'[o] = rec[o]
        <4>1. (Exists(o)' <=> Exists(o)) /\ (Unfinished(o)' <=> Unfinished(o))  BY <3>2 DEF Exists, Unfinished, Terminal
        <4> QED BY <2>1, <3>1, <3>2, <4>1, MadeKept
      <3>3. CASE rec'[o] # rec[o]
        <4>1. Exists(o) => rec'[o].seq = rec[o].seq + 1 /\ rec[o].seq \in Nat  BY <1>0, <3>3, RecordsKept
        <4>2. Exists(o)' <=> Exists(o)  BY <1>0, RecordsKept
        <4> QED BY SMTT(30), <2>0, <2>1, <3>1, <4>1, <4>2, MadeKept
      <3> QED BY <3>2, <3>3
    <2>2. CASE seen'[n].op = None  BY <2>2, OperationsKnown
    <2>3. CASE \E p \in Operations : seen'[n].op = p /\ seen'[n].rec = rec[p] /\ Unfinished(p) /\ UNCHANGED store
      <3>1. seen'[n].rec = rec[o] /\ Unfinished(o) /\ rec' = rec  BY <2>3 DEF store
      <3>2. Made(o)  BY <3>1 DEF StoreInv, MadeOK, Unfinished
      <3>3. rec[o].seq \in Nat  BY DEF StoreInv, Types, StoreTypes, RecType
      <3> QED BY SMTT(30), <3>1, <3>2, <3>3, MadeKept DEF Unfinished, Exists
    <2> QED BY <2>1, <2>2, <2>3 DEF Mild, SeenKept
  <1>5. Reserved'  BY <1>0, RecordsKept DEF StoreInv, Reserved
  <1>6. RevOK'
    <2> SUFFICES ASSUME NEW o \in Operations, creating'[o].stage = "read", IsCluster(o)
                 PROVE  /\ creating'[o].rev <= scopeRev'
                        /\ creating'[o].rev = scopeRev' => \A x \in Operations : Unfinished(x)' => Scope[o] \notin Clusters[x]
      BY DEF RevOK
    <2>1. CASE creating'[o] = creating[o]  BY <1>0, <2>1, RecordsKept DEF StoreInv, RevOK
    <2>2. CASE CreateReads(o)
      <3>1. creating'[o].rev = scopeRev /\ scopeRev \in Nat /\ scopeRev' = scopeRev
        BY <1>0, <2>2, RecordsKept DEF CreateReads, StoreInv, Types, StoreTypes
      <3>2. \A x \in Operations : Unfinished(x) => Scope[o] \notin Clusters[x]
        BY <2>2 DEF CreateReads, TouchingOwners, StoreInv, Reserved
      <3> QED BY SMTT(30), <1>0, <3>1, <3>2, RecordsKept
    <2> QED BY <2>1, <2>2 DEF Mild, CreatingKept
  <1>7. ScopesExclusive'  BY <1>0, RecordsKept DEF StoreInv, ScopesExclusive, Conflict
  <1> QED BY <1>1, <1>2, <1>3, <1>4, <1>5, <1>6, <1>7 DEF StoreInv

\* The create keeps the invariant: what it compares is what makes its scope free of conflicts.
LEMMA CreateStep ==
    ASSUME StoreInv, Types', NEW n \in Nodes, NEW o \in Operations, creating[o].stage = "read", Compares(o),
           Created(n, o), UNCHANGED <<cancel, seen>>
    PROVE  StoreInv' /\ ~Made(o) /\ \A p \in Operations \ {o} : Made(p) => Made(p)'
  <1>1. ~Made(o) /\ ~Exists(o)
    <2>1. ~Made(o)  BY OperationsKnown DEF Made, Compares
    <2> QED BY <2>1 DEF StoreInv, MadeOK
  <1>2. \A p \in Operations \ {o} : /\ rec'[p] = rec[p] /\ (Exists(p)' <=> Exists(p)) /\ (Unfinished(p)' <=> Unfinished(p))
                                    /\ creating'[p] = creating[p]
    BY DEF Created, Exists, Unfinished, Terminal, OnlyCreating
  <1>3. Exists(o)' /\ Unfinished(o)'  BY DEF Created, Exists, Unfinished, Terminal
  <1>4. \A p \in Operations \ {o} : Made(p) => Made(p)'
    <2> SUFFICES ASSUME NEW p \in Operations \ {o}, Made(p)  PROVE Made(p)'  OBVIOUS
    <2>1. CASE p \in Aged  BY <1>2, <2>1 DEF Made
    <2>2. CASE p \notin Aged
      <3>1. Exists(p) /\ idem[Key[p]] = p  BY <2>2 DEF Made
      <3>2. Key[p] # Key[o]  BY <3>1, OperationsKnown DEF Compares
      <3>3. idem'[Key[p]] = idem[Key[p]]  BY <3>2, InResources DEF Created, StoreInv, Types, StoreTypes
      <3> QED BY <1>2, <2>2, <3>1, <3>3 DEF Made
    <2> QED BY <2>1, <2>2
  <1>5. Made(o)'
    <2>1. idem'[Key[o]] = o  BY InResources DEF Created, StoreInv, Types, StoreTypes
    <2> QED BY <1>3, <2>1 DEF Made, Created
  <1>6. MadeOK'  BY <1>2, <1>4, <1>5 DEF MadeOK, StoreInv, Created
  <1>7. AskedOK'  BY <1>2 DEF AskedOK, StoreInv, Created
  <1>8. DropOK'
    <2> SUFFICES ASSUME NEW m \in Nodes, NEW x \in dropping'[m]  PROVE x \in Aged /\ Made(x)' /\ ~Unfinished(x)'
      BY DEF DropOK
    <2>1. CASE x \in dropping[m]
      <3>1. x \in Aged /\ Made(x) /\ ~Unfinished(x) /\ x \in Operations
        BY <2>1, OperationsKnown DEF StoreInv, DropOK
      <3> QED BY <1>1, <1>2, <1>4, <3>1
    <2>2. CASE x \in Operations /\ Prunable(x)
      <3>1. x \in Aged /\ Exists(x) /\ ~Unfinished(x)  BY <2>2 DEF Prunable, Unfinished
      <3>2. Made(x)  BY <2>2, <3>1 DEF StoreInv, MadeOK
      <3> QED BY ZenonT(40), <1>1, <1>2, <1>4, <2>2, <3>1, <3>2
    <2> QED BY <2>1, <2>2 DEF Created
  <1>9. SeenOK'
    <2> SUFFICES ASSUME NEW m \in Nodes, NEW x \in Operations, seen[m].op = x
                 PROVE  /\ Made(x)'
                        /\ Exists(x)' => seen[m].rec.seq <= rec'[x].seq
                        /\ Exists(x)' /\ seen[m].rec.seq = rec'[x].seq => seen[m].rec = rec'[x] /\ Unfinished(x)'
      BY DEF SeenOK
    <2>1. /\ Made(x)
          /\ Exists(x) => seen[m].rec.seq <= rec[x].seq
          /\ Exists(x) /\ seen[m].rec.seq = rec[x].seq => seen[m].rec = rec[x] /\ Unfinished(x)
      BY DEF StoreInv, SeenOK
    <2>2. x # o  BY <1>1, <2>1
    <2> QED BY <1>2, <1>4, <2>1, <2>2
  <1>10. \A p \in Operations \ {o} : Unfinished(p) => Scope[p] # Scope[o]
    BY ZenonT(40), OperationsKnown DEF StoreInv, Reserved, Compares
  <1>11. Reserved'
    <2>1. resv'[Scope[o]] = o /\ \A p \in Operations : Scope[p] # Scope[o] => resv'[Scope[p]] = resv[Scope[p]]
      BY InResources DEF Created, StoreInv, Types, StoreTypes
    <2> QED BY <1>2, <1>10, <2>1 DEF Reserved, StoreInv
  <1>12. ScopesExclusive'
    <2>1. ASSUME NEW p \in Operations \ {o}, Unfinished(p)  PROVE ~Conflict(o, p) /\ ~Conflict(p, o)
      <3>1. Scope[p] # Scope[o] /\ resv[Scope[p]] = p  BY <1>10, <2>1 DEF StoreInv, Reserved
      <3>2. CASE IsCluster(o)
        <4>1. Scope[o] \notin Clusters[p]  BY <2>1, <3>2 DEF Compares, StoreInv, RevOK
        <4>2. Clusters[o] = {}  BY <3>2, OperationsKnown
        <4> QED BY <3>1, <4>1, <4>2 DEF Conflict
      <3>3. CASE ~IsCluster(o)
        <4>1. Scope[o] \notin Clusters[p]  BY <3>3 DEF IsCluster, ClusterScopes
        <4>2. Scope[p] \notin Clusters[o]  BY <3>1, <3>3, OperationsKnown DEF Compares
        <4> QED BY <3>1, <4>1, <4>2 DEF Conflict
      <3> QED BY <3>2, <3>3
    <2> QED BY <1>2, <2>1 DEF ScopesExclusive, StoreInv
  <1>13. RevOK'
    <2> SUFFICES ASSUME NEW q \in Operations, creating'[q].stage = "read", IsCluster(q)
                 PROVE  /\ creating'[q].rev <= scopeRev'
                        /\ creating'[q].rev = scopeRev' => \A x \in Operations : Unfinished(x)' => Scope[q] \notin Clusters[x]
      BY DEF RevOK
    <2>1. q # o /\ creating'[q] = creating[q]  BY <1>2 DEF Created
    <2>2. /\ creating[q].rev <= scopeRev
          /\ creating[q].rev = scopeRev => \A x \in Operations : Unfinished(x) => Scope[q] \notin Clusters[x]
      BY <2>1 DEF StoreInv, RevOK
    <2>3. creating[q].rev \in Nat /\ scopeRev \in Nat  BY DEF StoreInv, Types, StoreTypes, RequestTypes, CreateType
    <2>4. CASE IsCluster(o)
      <3>1. scopeRev' = scopeRev /\ Clusters[o] = {}  BY <2>4, OperationsKnown DEF Created
      <3> QED BY <1>2, <2>1, <2>2, <3>1
    <2>5. CASE ~IsCluster(o)
      <3>1. scopeRev' = scopeRev + 1  BY <2>5 DEF Created
      <3> QED BY SMTT(30), <2>1, <2>2, <2>3, <3>1
    <2> QED BY <2>4, <2>5
  <1> QED BY ZenonT(40), <1>1, <1>4, <1>6, <1>7, <1>8, <1>9, <1>11, <1>12, <1>13 DEF StoreInv

\* A trim's transaction.
Trimmed(n) ==
    /\ UNCHANGED <<resv, scopeRev, creating, cancel, seen>>
    /\ \A o \in Operations : rec'[o] = IF o \in dropping[n] THEN NoRecord ELSE rec[o]
    /\ \A o \in Operations : (\A x \in dropping[n] : Key[x] # Key[o]) => idem'[Key[o]] = idem[Key[o]]
    /\ \A m \in Nodes : dropping'[m] \subseteq dropping[m]

\* A trim keeps the invariant.
LEMMA TrimStep ==
    ASSUME KeysOwn, StoreInv, Types', NEW n \in Nodes, Trimmed(n)
    PROVE  /\ StoreInv' /\ \A o \in Operations : /\ Made(o) => Made(o)'
                                                 /\ Exists(o)' => rec'[o] = rec[o]
                                                 /\ Unfinished(o) => rec'[o] = rec[o]
  <1>1. \A o \in Operations : Exists(o)' => rec'[o] = rec[o] /\ Exists(o)
    BY Blanks DEF Exists, Trimmed
  <1>2. \A o \in Operations : Unfinished(o)' => rec'[o] = rec[o] /\ Unfinished(o)
    BY <1>1 DEF Exists, Unfinished, Terminal
  <1>3. \A o \in Operations : Made(o) => Made(o)'
    <2> SUFFICES ASSUME NEW o \in Operations, Made(o)  PROVE Made(o)'  OBVIOUS
    <2>1. CASE o \in Aged  BY <2>1 DEF Made, Trimmed
    <2>2. CASE o \notin Aged
      <3>1. o \notin dropping[n] /\ \A x \in dropping[n] : Key[x] # Key[o]
        BY <2>2 DEF StoreInv, DropOK, KeysOwn
      <3>2. rec'[o] = rec[o] /\ idem'[Key[o]] = idem[Key[o]]  BY <3>1 DEF Trimmed
      <3> QED BY <2>2, <3>2 DEF Made, Exists
    <2> QED BY <2>1, <2>2
  <1>4. MadeOK'  BY <1>1, <1>3 DEF MadeOK, StoreInv
  <1>5. AskedOK'  BY DEF AskedOK, StoreInv, Trimmed
  <1>6. DropOK'
    <2>1. \A m \in Nodes : dropping[m] \subseteq Operations  BY DEF StoreInv, Types, RequestTypes
    <2> QED BY <1>2, <1>3, <2>1 DEF DropOK, StoreInv, Trimmed
  <1>7. SeenOK'
    <2> SUFFICES ASSUME NEW m \in Nodes, NEW x \in Operations, seen[m].op = x
                 PROVE  /\ Made(x)'
                        /\ Exists(x)' => seen[m].rec.seq <= rec'[x].seq
                        /\ Exists(x)' /\ seen[m].rec.seq = rec'[x].seq => seen[m].rec = rec'[x] /\ Unfinished(x)'
      BY DEF SeenOK, Trimmed
    <2>1. /\ Made(x)
          /\ Exists(x) => seen[m].rec.seq <= rec[x].seq
          /\ Exists(x) /\ seen[m].rec.seq = rec[x].seq => seen[m].rec = rec[x] /\ Unfinished(x)
      BY DEF StoreInv, SeenOK
    <2>2. Exists(x)' /\ Unfinished(x) => Unfinished(x)'  BY <1>1 DEF Exists, Unfinished, Terminal
    <2> QED BY <1>1, <1>3, <2>1, <2>2
  <1>8. Reserved'  BY <1>2 DEF Reserved, StoreInv, Trimmed
  <1>9. RevOK'  BY <1>2 DEF RevOK, StoreInv, Trimmed
  <1>10. ScopesExclusive'  BY <1>2 DEF ScopesExclusive, StoreInv
  <1>11. \A o \in Operations : Unfinished(o) => rec'[o] = rec[o]  BY DEF StoreInv, DropOK, Trimmed
  <1> QED BY ZenonT(40), <1>1, <1>3, <1>4, <1>5, <1>6, <1>7, <1>8, <1>9, <1>10, <1>11 DEF StoreInv
-----------------------------------------------------------------------------
\* Every way a record is rewritten keeps the store's invariant.
LEMMA PutKept ==
    ASSUME StoreInv, NEW n \in Nodes, NEW o \in Operations, NEW status \in Statuses, NEW phase, NEW effect,
           NEW barrier, NEW pc, NEW mine, Put(n, o, status, phase, effect, barrier, pc, mine)
    PROVE  StoreKept
  <1>1. CASE Wrote(n, o, status, phase, effect, barrier, pc, mine)
    <2>1. Unfinished(o) /\ OnlyRec(o) /\ rec'[o].status = status /\ rec'[o].node = rec[o].node
          /\ rec'[o].seq = rec[o].seq + 1
      BY <1>1 DEF Wrote, Owns
    <2>2. status # "absent" /\ rec[o].node \in Nodes  BY <2>1 DEF Statuses, StoreInv, MadeOK, Unfinished
    <2>3. Rewritten(o)  BY <2>1, <2>2 DEF Rewritten, Unfinished
    <2> QED BY <2>3 DEF StoreKept
  <1>2. CASE Lost(n, o, pc) \/ Skipped(n, o, pc)  BY <1>2 DEF Lost, Skipped, StoreKept
  <1> QED BY <1>1, <1>2 DEF Put

\* orphan rewrites one record.
LEMMA OrphanKept ==
    ASSUME StoreInv, NEW o \in Operations, Unfinished(o), OnlyRec(o), rec'[o] = orphan(o, rec[o])
    PROVE  Rewritten(o)
  <1>1. rec[o] \in RecType /\ Exists(o) /\ ~Terminal(rec[o])  BY DEF StoreInv, Types, StoreTypes, Unfinished
  <1>2. rec'[o].status \in {"blocked", "failed"} /\ rec'[o].seq = rec[o].seq + 1 /\ rec'[o].node = rec[o].node
    BY SMTT(30), <1>1, OrphanFacts
  <1> QED BY <1>1, <1>2 DEF Rewritten, StoreInv, MadeOK

\* Parts of the state a step leaves alone keep their types and their share of Mild.
LEMMA Frames ==
    ASSUME StoreInv
    PROVE  /\ UNCHANGED store => StoreTypes' /\ StoreKept
           /\ UNCHANGED directory => DirectoryTypes'
           /\ UNCHANGED nodes => NodeTypes'
           /\ UNCHANGED run => RunTypes'
           /\ UNCHANGED requests => RequestTypes' /\ CreatingKept /\ CancelKept /\ SeenKept /\ DroppingKept
           /\ UNCHANGED creating => CreatingKept
           /\ UNCHANGED cancel => CancelKept
           /\ UNCHANGED seen => SeenKept
           /\ UNCHANGED dropping => DroppingKept
  <1>1. UNCHANGED store => StoreTypes' /\ StoreKept  BY DEF StoreInv, Types, StoreTypes, store, StoreKept
  <1>2. UNCHANGED directory => DirectoryTypes'  BY DEF StoreInv, Types, DirectoryTypes, directory
  <1>3. UNCHANGED nodes => NodeTypes'  BY DEF StoreInv, Types, NodeTypes, nodes
  <1>4. UNCHANGED run => RunTypes'  BY DEF StoreInv, Types, RunTypes
  <1>5. UNCHANGED requests => RequestTypes'  BY DEF StoreInv, Types, RequestTypes, requests
  <1>6. UNCHANGED creating => CreatingKept  BY DEF CreatingKept
  <1>7. UNCHANGED cancel => CancelKept  BY DEF CancelKept, StoreInv, AskedOK
  <1>8. UNCHANGED seen => SeenKept  BY DEF SeenKept
  <1>9. UNCHANGED dropping => DroppingKept  BY DEF DroppingKept
  <1> QED BY <1>1, <1>2, <1>3, <1>4, <1>5, <1>6, <1>7, <1>8, <1>9 DEF requests

\* The steps of a run are mild.
LEMMA RunStep ==
    ASSUME StoreInv, NEW n \in Nodes, NEW o \in Operations, Step(n, o)
    PROVE  Types' /\ Mild
  <1>0. Types  BY DEF StoreInv
  <1>1. "running" \in Statuses /\ "succeeded" \in Statuses /\ "failed" \in Statuses /\ "cancelled" \in Statuses
    BY DEF Statuses
  <1>2. /\ StoreTypes' /\ RunTypes' /\ DirectoryTypes' /\ UNCHANGED <<nodes, requests>> /\ StoreKept
    <2>1. CASE running(n, o)  BY <1>0, <1>1, <2>1, RunningEffect, PutKept, Frames
    <2>2. CASE Handler(n, o)  BY <1>0, <2>2, HandlerEffect, Frames
    <2>3. CASE Intent(n, o)  BY <1>0, <1>1, <2>3, IntentEffect, PutKept, Frames
    <2>4. CASE Hold(n, o)  BY <1>0, <2>4, HoldEffect, Frames DEF Stopped
    <2>5. CASE Held(n, o)  BY ZenonT(40), <1>0, <1>1, <2>5, HeldEffect, PutKept, Frames
    <2>6. CASE Carried(n, o)  BY <1>0, <1>1, <2>6, CarriedEffect, PutKept, Frames
    <2>7. CASE Blocked(n, o)  BY <1>0, <1>1, <2>7, BlockedEffect, PutKept, Frames DEF Stopped
    <2>8. CASE Drained(n, o)  BY <1>0, <1>1, <2>8, DrainedEffect, PutKept, Frames DEF Stopped
    <2>9. CASE Commit(n, o)  BY <1>0, <2>9, CommitEffect, Frames
    <2>10. CASE Committed(n, o)  BY <1>0, <1>1, <2>10, CommittedEffect, PutKept, Frames
    <2>11. CASE finish(n, o)  BY ZenonT(40), <1>0, <1>1, <2>11, FinishEffect, PutKept, Frames
    <2> QED BY <2>1, <2>2, <2>3, <2>4, <2>5, <2>6, <2>7, <2>8, <2>9, <2>10, <2>11 DEF Step
  <1> QED BY <1>2, Frames DEF Types, Mild

\* So are a sweep's read, the restart's failing of orphans and its takeovers.
LEMMA CareStep ==
    ASSUME StoreInv, NEW n \in Nodes, NEW o \in Operations, Care(n, o)
    PROVE  Types' /\ Mild
  <1>0. Types  BY DEF StoreInv
  <1>1. CASE SweepRead(n, o)
    <2>1. /\ RequestTypes' /\ UNCHANGED <<store, directory, nodes, run, creating, cancel, taking, dropping>>
          /\ OnlySeen(n) /\ seen'[n].op = o /\ seen'[n].rec = rec[o] /\ Unfinished(o)
      BY <1>0, <1>1, SweepReadEffect
    <2>2. SeenKept  BY <2>1 DEF SeenKept, OnlySeen
    <2> QED BY <2>1, <2>2, Frames DEF Types, Mild
  <1>2. CASE FailOrphans(n, o)
    <2>1. StoreTypes' /\ UNCHANGED <<directory, nodes, run, requests>> /\ Failed(o)  BY <1>0, <1>2, FailOrphansEffect
    <2>2. StoreKept  BY <2>1, OrphanKept DEF Failed, StoreKept
    <2> QED BY <2>1, <2>2, Frames DEF Types, Mild
  <1>3. CASE ResumeOwn(n, o)
    <2>1. /\ StoreTypes' /\ RunTypes' /\ UNCHANGED <<directory, nodes, requests>>
          /\ up[n] = "boot" /\ Resumable(n, o) /\ rec[o].node = n /\ Taken(n, o)
      BY <1>0, <1>3, ResumeOwnEffect
    <2>2. Rewritten(o)  BY <2>1 DEF Rewritten, Taken, Resumable, Unfinished
    <2> QED BY <2>1, <2>2, Frames DEF Types, Mild, StoreKept
  <1> QED BY <1>1, <1>2, <1>3 DEF Care

\* So are the requests as they arrive.
LEMMA AskStep ==
    ASSUME StoreInv, NEW n \in Nodes, NEW o \in Operations, Ask(n, o)
    PROVE  Types' /\ Mild
  <1>0. Types  BY DEF StoreInv
  <1>1. CASE CreateAsk(n, o)
    <2>1. /\ RequestTypes' /\ UNCHANGED <<store, directory, nodes, run, cancel, taking, seen, dropping>>
          /\ OnlyCreating(o) /\ creating'[o].stage = "asked" /\ creating'[o].node = n
          /\ creating[o].stage = "done" => o \notin Aged
      BY <1>0, <1>1, CreateAskEffect
    <2>2. CreatingKept  BY <2>1 DEF CreatingKept, OnlyCreating
    <2> QED BY <2>1, <2>2, Frames DEF Types, Mild
  <1>2. CASE CancelAsk(n, o)
    <2>1. /\ RequestTypes' /\ UNCHANGED <<store, directory, nodes, run, creating, taking, seen, dropping>>
          /\ OnlyCancel(o) /\ cancel'[o].node = n
      BY <1>0, <1>2, CancelAskEffect
    <2>2. CancelKept  BY <2>1 DEF CancelKept, OnlyCancel, StoreInv, AskedOK
    <2> QED BY <2>1, <2>2, Frames DEF Types, Mild
  <1>3. CASE ResumeAsk(n, o)
    <2>1. RequestTypes' /\ UNCHANGED <<store, directory, nodes, run, creating, cancel, seen, dropping>>
      BY <1>0, <1>3, ResumeAskEffect
    <2> QED BY <2>1, Frames DEF Types, Mild
  <1>4. CASE releaseCanceled(n, o)
    <2>1. DirectoryTypes' /\ UNCHANGED <<store, nodes, run, requests>>  BY <1>0, <1>4, ReleaseCanceledEffect
    <2> QED BY <2>1, Frames DEF Types, Mild
  <1> QED BY <1>1, <1>2, <1>3, <1>4 DEF Ask

\* A create's attempt, or the holder it reaps or releases.
LEMMA CreateKept ==
    ASSUME StoreInv, NEW o \in Operations, CreateMoves(o) \/ (CreateReads(o) /\ UNCHANGED store)
    PROVE  CreatingKept
  <1>1. creating[o].node \in Nodes
    BY DEF CreateMoves, CreateReads, StoreInv, AskedOK
  <1> QED BY <1>1 DEF CreateMoves, CreatingKept, OnlyCreating, CreateReads

\* The steps of a request keep the invariant.
LEMMA RequestStep ==
    ASSUME StoreInv, NEW o \in Operations, Request(o)
    PROVE  Types' /\ (Mild \/ CreateCommit(o))
  <1>0. Types  BY DEF StoreInv
  <1>1. CASE CreateRead(o)
    <2>1. /\ StoreTypes' /\ RequestTypes' /\ UNCHANGED Others
          /\ \/ CreateMoves(o) /\ (UNCHANGED store \/ \E x \in Operations : Reaped(creating[o].node, x))
             \/ CreateReads(o) /\ UNCHANGED store
      BY <1>0, <1>1, CreateReadEffect
    <2>2. StoreKept  BY <2>1, OrphanKept, Frames DEF Reaped, Reapable, StoreKept
    <2>3. CreatingKept  BY <2>1, CreateKept
    <2> QED BY <2>1, <2>2, <2>3, Frames DEF Types, Mild, Others
  <1>2. CASE CreateRefused(o)
    <2>1. /\ StoreTypes' /\ RequestTypes' /\ UNCHANGED Others /\ CreateMoves(o)
          /\ \/ UNCHANGED store
             \/ \E x \in Operations : Reaped(creating[o].node, x)
             \/ \E x \in Operations : Released(x)
      BY <1>0, <1>2, CreateRefusedEffect
    <2>2. StoreKept  BY <2>1, OrphanKept, Frames DEF Reaped, Reapable, StoreKept
    <2>3. CreatingKept  BY <2>1, CreateKept
    <2> QED BY <2>1, <2>2, <2>3, Frames DEF Types, Mild, Others
  <1>3. CASE CreateCommit(o)
    <2>1. creating[o].node \in Nodes  BY <1>3 DEF CreateCommit, StoreInv, AskedOK
    <2>2. /\ StoreTypes' /\ RunTypes' /\ RequestTypes' /\ UNCHANGED <<directory, nodes, cancel, taking, seen>>
      BY <1>0, <1>3, <2>1, CreateCommitEffect
    <2> QED BY <1>3, <2>2, Frames DEF Types
  <1>4. CASE CancelEnd(o)
    <2>1. cancel[o].node \in Nodes  BY <1>4 DEF CancelEnd, StoreInv, AskedOK
    <2>2. /\ StoreTypes' /\ RunTypes' /\ RequestTypes'
          /\ UNCHANGED <<directory, nodes, creating, taking, seen, dropping>>
          /\ \/ Cancelled(o) /\ RunsTold(o)
             \/ UNCHANGED <<store, run>> /\ OnlyCancel(o) /\ cancel'[o] = NoCancel
      BY <1>0, <1>4, <2>1, CancelEndEffect
    <2>3. StoreKept
      <3>1. CASE Cancelled(o)
        <4>1. Rewritten(o)  BY <3>1 DEF Cancelled, Rewritten, Unfinished, StoreInv, MadeOK
        <4> QED BY <4>1 DEF StoreKept
      <3> QED BY <2>2, <3>1, Frames
    <2>4. CancelKept
      BY <2>1, <2>2, Blanks DEF CancelKept, Cancelled, OnlyCancel, StoreInv, AskedOK
    <2> QED BY <2>2, <2>3, <2>4, Frames DEF Types, Mild
  <1>5. CASE CancelCarried(o)
    <2>1. /\ RequestTypes' /\ UNCHANGED <<store, directory, nodes, run, creating, taking, seen, dropping>>
          /\ cancel[o].stage = "ended" /\ OnlyCancel(o) /\ (cancel'[o].node = cancel[o].node \/ cancel'[o] = NoCancel)
      BY <1>0, <1>5, CancelCarriedEffect
    <2>2. CancelKept  BY <2>1, Blanks DEF CancelKept, OnlyCancel, StoreInv, AskedOK
    <2> QED BY <2>1, <2>2, Frames DEF Types, Mild
  <1>6. CASE releaseHold(o)
    <2>1. /\ DirectoryTypes' /\ RequestTypes' /\ UNCHANGED <<store, nodes, run, creating, taking, seen, dropping>>
          /\ cancel[o].stage = "release" /\ OnlyCancel(o) /\ (cancel'[o].node = cancel[o].node \/ cancel'[o] = NoCancel)
      BY <1>0, <1>6, ReleaseHoldEffect
    <2>2. CancelKept  BY <2>1, Blanks DEF CancelKept, OnlyCancel, StoreInv, AskedOK
    <2> QED BY <2>1, <2>2, Frames DEF Types, Mild
  <1>7. CASE correctCommitted(o)
    <2>1. /\ StoreTypes' /\ RequestTypes' /\ UNCHANGED <<directory, nodes, run, creating, taking, seen, dropping>>
          /\ OnlyCancel(o) /\ cancel'[o] = NoCancel /\ (UNCHANGED store \/ Corrected(o))
      BY <1>0, <1>7, CorrectCommittedEffect
    <2>2. CancelKept  BY <2>1, Blanks DEF CancelKept, OnlyCancel, StoreInv, AskedOK
    <2>3. StoreKept
      <3>1. CASE Corrected(o)
        <4>1. Rewritten(o)  BY <3>1 DEF Corrected, Rewritten, Terminal, StoreInv, MadeOK
        <4> QED BY <4>1 DEF StoreKept
      <3> QED BY <2>1, <3>1, Frames
    <2> QED BY <2>1, <2>2, <2>3, Frames DEF Types, Mild
  <1> QED BY <1>1, <1>2, <1>3, <1>4, <1>5, <1>6, <1>7 DEF Request

\* The steps of a node keep the invariant.
LEMMA NodeStep ==
    ASSUME StoreInv, NEW n \in Nodes, Node(n)
    PROVE  Types' /\ (Mild \/ Trim(n))
  <1>0. Types  BY DEF StoreInv
  <1>1. CASE Trim(n)
    <2>1. StoreTypes' /\ RequestTypes' /\ UNCHANGED <<directory, nodes, run>>  BY <1>0, <1>1, TrimEffect
    <2> QED BY <1>1, <2>1, Frames DEF Types
  <1>2. CASE SweepWrite(n)
    <2>1. /\ StoreTypes' /\ RequestTypes' /\ UNCHANGED <<directory, nodes, run, creating, cancel, taking, dropping>>
          /\ OnlySeen(n) /\ seen'[n].op = None /\ seen[n].op \in Operations
          /\ UNCHANGED store \/ Swept(seen[n].op, seen[n].rec)
      BY <1>0, <1>2, SweepWriteEffect
    <2>2. SeenKept  BY <2>1 DEF SeenKept, OnlySeen
    <2>3. StoreKept
      <3>1. CASE Swept(seen[n].op, seen[n].rec)
        <4>1. PICK x \in Operations : x = seen[n].op  BY <2>1
        <4>2. seen[n].rec = rec[x] /\ Unfinished(x)  BY <3>1, <4>1 DEF Swept, StoreInv, SeenOK
        <4>3. Rewritten(x)  BY <3>1, <4>1, <4>2, OrphanKept DEF Swept
        <4> QED BY <4>3 DEF StoreKept
      <3> QED BY <2>1, <3>1, Frames
    <2> QED BY <2>1, <2>2, <2>3, Frames DEF Types, Mild
  <1>3. CASE ResumeTake(n)
    <2>1. /\ StoreTypes' /\ RunTypes' /\ RequestTypes' /\ UNCHANGED <<directory, nodes, creating, cancel, seen, dropping>>
          /\ UNCHANGED store \/ \E o \in Operations : Unfinished(o) /\ Taken(n, o)
      BY <1>0, <1>3, ResumeTakeEffect
    <2>2. \A o \in Operations : Unfinished(o) /\ Taken(n, o) => Rewritten(o)  BY DEF Rewritten, Taken, Unfinished
    <2>3. StoreKept  BY <2>1, <2>2, Frames DEF StoreKept
    <2> QED BY <2>1, <2>3, Frames DEF Types, Mild
  <1>4. CASE Crash(n)
    <2>1. NodeTypes' /\ RunTypes' /\ RequestTypes' /\ UNCHANGED <<store, directory>> /\ Crashed(n)
      BY <1>0, <1>4, CrashEffect
    <2>2. CreatingKept  BY <2>1, Blanks DEF Crashed, CreatingKept
    <2>3. CancelKept  BY <2>1, Blanks DEF Crashed, CancelKept, StoreInv, AskedOK
    <2>4. SeenKept  BY <2>1, Blanks DEF Crashed, SeenKept
    <2>5. DroppingKept  BY <2>1 DEF Crashed, DroppingKept
    <2> QED BY <2>1, <2>2, <2>3, <2>4, <2>5, Frames DEF Types, Mild
  <1>5. CASE Lapse(n)
    <2>1. NodeTypes' /\ UNCHANGED <<store, directory, run, requests>>  BY <1>0, <1>5, LapseEffect
    <2> QED BY <2>1, Frames DEF Types, Mild
  <1>6. CASE Restart(n)
    <2>1. NodeTypes' /\ UNCHANGED <<store, directory, run, requests>>  BY <1>0, <1>6, RestartEffect
    <2> QED BY <2>1, Frames DEF Types, Mild
  <1>7. CASE Started(n)
    <2>1. NodeTypes' /\ UNCHANGED <<store, directory, run, requests>>  BY <1>0, <1>7, StartedEffect
    <2> QED BY <2>1, Frames DEF Types, Mild
  <1> QED BY <1>1, <1>2, <1>3, <1>4, <1>5, <1>6, <1>7 DEF Node

\* The invariant holds at the start.
LEMMA StoreInit ==
    ASSUME Init
    PROVE  StoreInv
  <1>1. PICK r, i, c, d, t, s : /\ r = NoRecord /\ i = Idle /\ c = NoCreate /\ d = NoCancel /\ t = NoTake /\ s = NoSeen
    OBVIOUS
  <1>2. /\ r \in RecType /\ r.status = "absent" /\ i \in RunType /\ c \in CreateType /\ c.stage = "none"
        /\ d \in CancelType /\ d.stage = "none" /\ t \in TakeType /\ s \in SeenType /\ s.op = None
    BY <1>1, Blanks
  <1>3. /\ rec = [o \in Operations |-> r] /\ resv = [x \in Resources |-> None]
        /\ idem = [k \in Keys |-> None] /\ scopeRev = 0
        /\ version = 0 /\ gen = [x \in Resources |-> 0] /\ bar = [x \in Resources |-> None] /\ inForce = {}
        /\ up = [n \in Nodes |-> "up"] /\ alive = [n \in Nodes |-> TRUE]
        /\ creating = [o \in Operations |-> c] /\ run = [n \in Nodes |-> [o \in Operations |-> i]]
        /\ cancel = [o \in Operations |-> d]
        /\ taking = [n \in Nodes |-> t] /\ seen = [n \in Nodes |-> s] /\ dropping = [n \in Nodes |-> {}]
    BY <1>1 DEF Init
  <1>4. StoreTypes  BY <1>2, <1>3 DEF StoreTypes, SomeOperation
  <1>5. DirectoryTypes  BY <1>3 DEF DirectoryTypes, SomeOperation
  <1>6. NodeTypes /\ RunTypes  BY <1>2, <1>3 DEF NodeTypes, RunTypes
  <1>7. RequestTypes  BY <1>2, <1>3 DEF RequestTypes
  <1>8. \A o \in Operations : ~Exists(o) /\ ~Unfinished(o) /\ creating[o].stage = "none" /\ cancel[o].stage = "none"
    BY <1>2, <1>3 DEF Exists, Unfinished
  <1>9. MadeOK /\ AskedOK /\ Reserved /\ RevOK /\ ScopesExclusive
    BY <1>8 DEF MadeOK, AskedOK, Reserved, RevOK, ScopesExclusive
  <1>10. DropOK /\ SeenOK  BY <1>2, <1>3, OperationsKnown DEF DropOK, SeenOK
  <1> QED BY <1>4, <1>5, <1>6, <1>7, <1>9, <1>10 DEF StoreInv, Types

\* Every step keeps the invariant, and what was made stays made.
LEMMA StoreStep ==
    ASSUME KeysOwn, StoreInv, [Next]_vars
    PROVE  /\ StoreInv'
           /\ \A o \in Operations : Made(o) => Made(o)'
  <1>1. CASE UNCHANGED vars
    <2>1. Types' /\ Mild  BY <1>1, Frames DEF vars, Types, Mild, StoreInv
    <2> QED BY <2>1, MildStep, MadeKept
  <1>2. ASSUME NEW o \in Operations, Request(o)  PROVE StoreInv' /\ \A p \in Operations : Made(p) => Made(p)'
    <2>1. Types' /\ (Mild \/ CreateCommit(o))  BY <1>2, RequestStep
    <2>2. CASE Mild  BY <2>1, <2>2, MildStep, MadeKept
    <2>3. CASE CreateCommit(o)
      <3>1. creating[o].node \in Nodes  BY <2>3 DEF CreateCommit, StoreInv, AskedOK
      <3>2. creating[o].stage = "read" /\ Compares(o) /\ Created(creating[o].node, o) /\ UNCHANGED <<cancel, seen>>
        BY <2>3, <3>1, CreateCommitEffect DEF StoreInv
      <3> QED BY <2>1, <3>1, <3>2, CreateStep
    <2> QED BY <2>1, <2>2, <2>3
  <1>3. ASSUME NEW n \in Nodes, Node(n)  PROVE StoreInv' /\ \A p \in Operations : Made(p) => Made(p)'
    <2>1. Types' /\ (Mild \/ Trim(n))  BY <1>3, NodeStep
    <2>2. CASE Mild  BY <2>1, <2>2, MildStep, MadeKept
    <2>3. CASE Trim(n)
      <3>1. Trimmed(n)  BY <2>3, TrimEffect DEF Trimmed, StoreInv
      <3> QED BY <2>1, <3>1, TrimStep
    <2> QED BY <2>1, <2>2, <2>3
  <1>4. ASSUME NEW n \in Nodes, NEW o \in Operations, Step(n, o) \/ Care(n, o) \/ Ask(n, o)
        PROVE  StoreInv' /\ \A p \in Operations : Made(p) => Made(p)'
    <2>1. Types' /\ Mild  BY <1>4, RunStep, CareStep, AskStep
    <2> QED BY <2>1, MildStep, MadeKept
  <1> QED BY <1>1, <1>2, <1>3, <1>4 DEF Next
-----------------------------------------------------------------------------
\* The store's invariant holds throughout, whatever faults are allowed.
THEOREM RecordsSound == KeysOwn => (Spec => []StoreInv)
  <1> SUFFICES ASSUME KeysOwn  PROVE Spec => []StoreInv  OBVIOUS
  <1>1. Init => StoreInv  BY StoreInit
  <1>2. StoreInv /\ [Next]_vars => StoreInv'  BY StoreStep
  <1> QED BY <1>1, <1>2, PTL DEF Spec

\* However requests interleave, and whatever crashes, reaps, trims and takeovers come between them,
\* no two unfinished operations have conflicting scopes: Create's compares are enough.
THEOREM ScopesStayExclusive == KeysOwn => (Spec => []ScopesExclusive)
  <1>1. StoreInv => ScopesExclusive  BY DEF StoreInv
  <1> QED BY <1>1, RecordsSound, PTL
=============================================================================
