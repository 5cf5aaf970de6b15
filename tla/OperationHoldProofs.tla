------------------------- MODULE OperationHoldProofs ------------------------
(***************************************************************************)
(* OperationRecords: the barriers.  Where a run stands, what its record    *)
(* says, whether its hold is on and its change in force, and how far its   *)
(* cancellation came, kept together through owner loss and takeovers.      *)
(***************************************************************************)
EXTENDS OperationRunProofs

\* First-order leaves are Zenon's; a leaf that needs arithmetic or records names SMT.
USE ZenonT(30)

\* The stages of a cancellation that has ended its record.
Ending == {"ended", "release", "correct"}
\* The directory carries o's hold.
On(o) == bar[Scope[o]] = o
\* A run that has not been told it lost its record.
Live(n, o) == Runs(n, o) /\ ~run[n][o].lost
\* The hold is on, or the commit that took it off is made.
Kept(o) == On(o) \/ o \in inForce
\* Where a run of o can stand.
PcsOf(o) == IF o \in Fenced THEN Pcs \ {"handler"} ELSE {"start", "handler", "succeed", "fail"}

\* A run at p that carries barrier b, and its record: barrier rb, phase ph, unfinished or not.
LiveAt(p, b, rb, ph, unf) ==
    /\ p \in {"start", "precondition"} => b = "none" /\ (unf => rb = "none")
    /\ p = "hold" => b = "intent" /\ rb = "intent"
    /\ p = "held" => b = "held" /\ rb = "intent"
    /\ p \in {"carried", "drain"} => b = "held" /\ (unf => rb = "held")
    /\ p = "commit" => b = "held" /\ rb = "held" /\ ph = "commit"
    /\ p = "committed" => b = "committed" /\ rb = "held" /\ ph = "commit"
    /\ p = "succeed" => b = "committed" /\ rb = "committed"
    /\ p = "fail" => b = "intent" /\ rb = "intent"
    /\ p # "canceled"
    /\ ~unf => p \in {"start", "precondition", "carried", "drain"}
\* Every live run stands where its record says.
LivePart(o) == \A n \in Nodes : Live(n, o) =>
    LiveAt(run[n][o].pc, run[n][o].barrier, rec[o].barrier, rec[o].phase, Unfinished(o))
\* A hold that is on has the record of HoldOwned, and nobody has passed its commit.
HoldPart(o) == On(o) =>
    /\ o \notin inForce /\ Exists(o) /\ rec[o].barrier \in {"intent", "held"}
    /\ Unfinished(o) \/ rec[o].status = "cancelled"
    /\ \A n \in Nodes : Live(n, o) => run[n][o].pc \notin {"committed", "succeed", "fail"}
\* A record that says held or committed is right: no release comes between.
KeptPart(o) ==
    /\ Unfinished(o) /\ rec[o].barrier = "held" => Kept(o)
    /\ \A n \in Nodes : Live(n, o) /\ run[n][o].pc = "held" => Kept(o)
    /\ \A n \in Nodes : Live(n, o) /\ run[n][o].pc = "committed" => o \in inForce
    /\ Exists(o) /\ rec[o].barrier = "committed" => o \in inForce
    /\ o \in inForce => Exists(o) /\ rec[o].barrier \in {"held", "committed"}
\* What a cancellation that ended its record remembers of the barrier.
EndPart(o) == cancel[o].stage \in Ending =>
    /\ rec[o].status = "cancelled" /\ rec[o].barrier \in {"intent", "held"}
    /\ cancel[o].held <=> rec[o].barrier = "held"
    /\ cancel[o].held => Kept(o)
    /\ cancel[o].stage = "correct" => cancel[o].held /\ ~On(o)
\* A record that ended without effect and whose change is in force is about to be corrected.
HonestPart(o) ==
    "cancelcrash" \notin Faults /\ Exists(o) /\ Terminal(rec[o]) /\ rec[o].effect = "none" /\ o \in inForce =>
        cancel[o].stage \in Ending
\* The runs of o stand in places of its kind.
PcPart(o) == \A n \in Nodes : Runs(n, o) => run[n][o].pc \in PcsOf(o)
\* An operation with a barrier.
FencedOK(o) == PcPart(o) /\ LivePart(o) /\ HoldPart(o) /\ KeptPart(o) /\ EndPart(o) /\ HonestPart(o)
\* An operation without one.
ShortOK(o) ==
    /\ PcPart(o) /\ ~On(o) /\ cancel[o].stage \notin Ending
    /\ Exists(o) => rec[o].barrier = "none"
    /\ \A n \in Nodes : Live(n, o) => run[n][o].barrier = "none"
\* A barrier is on its own operation's scope.
BarOK == \A r \in Resources : bar[r] # None => Scope[bar[r]] = r
\* The inductive invariant.
HoldInv ==
    /\ RunInv /\ BarOK
    /\ \A o \in Fenced : FencedOK(o)
    /\ \A o \in Operations \ Fenced : ShortOK(o)

\* What the theorems about barriers assume: every write of a record and every commit is answered, no
\* cancellation is repeated while one is in progress, and no record with a barrier is trimmed.
Sheltered ==
    /\ KeysOwn /\ "lapse" \notin Faults /\ "unwritten" \notin Faults /\ "commit" \notin Faults /\ "cancels" \notin Faults
    /\ Aged \cap Fenced = {}
-----------------------------------------------------------------------------
\* A step that leaves operation o's record and barrier alone, moves no run of it that is not lost, and
\* ends no cancellation of it.
OpSame(o) ==
    /\ rec'[o] = rec[o] /\ (On(o)' <=> On(o)) /\ (o \in inForce' <=> o \in inForce)
    /\ \A n \in Nodes : Live(n, o)' => /\ Live(n, o) /\ run'[n][o].pc = run[n][o].pc
                                       /\ run'[n][o].barrier = run[n][o].barrier
    /\ \A n \in Nodes : Runs(n, o)' => run'[n][o].pc \in PcsOf(o)
    /\ \/ cancel'[o] = cancel[o]
       \/ cancel'[o].stage \notin Ending /\ (cancel[o].stage \notin Ending \/ "cancelcrash" \in Faults)

\* Such a step keeps what is said of the operation.
LEMMA SameStep ==
    ASSUME NEW o \in Operations, OpSame(o)
    PROVE  /\ FencedOK(o) => FencedOK(o)'
           /\ ShortOK(o) => ShortOK(o)'
  <1>0. /\ (Exists(o)' <=> Exists(o)) /\ (Unfinished(o)' <=> Unfinished(o)) /\ (Terminal(rec'[o]) <=> Terminal(rec[o]))
        /\ (Kept(o)' <=> Kept(o)) /\ PcPart(o)'
    BY DEF OpSame, Exists, Unfinished, Terminal, Kept, PcPart, PcsOf
  <1>1. FencedOK(o) => LivePart(o)'
    <2> SUFFICES ASSUME LivePart(o), NEW n \in Nodes, Live(n, o)'
                 PROVE  LiveAt(run'[n][o].pc, run'[n][o].barrier, rec'[o].barrier, rec'[o].phase, Unfinished(o)')
      BY DEF FencedOK, LivePart
    <2>1. LiveAt(run[n][o].pc, run[n][o].barrier, rec[o].barrier, rec[o].phase, Unfinished(o))
      BY DEF LivePart, OpSame
    <2> QED BY <1>0, <2>1 DEF OpSame, LiveAt
  <1>2. FencedOK(o) => HoldPart(o)'  BY <1>0 DEF OpSame, FencedOK, HoldPart
  <1>3. FencedOK(o) => KeptPart(o)'  BY <1>0 DEF OpSame, FencedOK, KeptPart
  <1>4. FencedOK(o) => EndPart(o)'  BY <1>0 DEF OpSame, FencedOK, EndPart
  <1>5. FencedOK(o) => HonestPart(o)'  BY <1>0 DEF OpSame, FencedOK, HonestPart
  <1>6. ShortOK(o) => ShortOK(o)'  BY <1>0 DEF OpSame, ShortOK
  <1> QED BY ZenonT(40), <1>0, <1>1, <1>2, <1>3, <1>4, <1>5, <1>6 DEF FencedOK

\* Operations other than the one a step is about.
LEMMA OthersSame ==
    ASSUME HoldInv, NEW o \in Operations, NEW p \in Operations \ {o}, rec'[p] = rec[p],
           \A n \in Nodes : run'[n][p] = run[n][p], cancel'[p] = cancel[p],
           \/ bar' = bar
           \/ bar' = [bar EXCEPT ![Scope[o]] = None] /\ bar[Scope[o]] = o
           \/ bar' = [bar EXCEPT ![Scope[o]] = o] /\ bar[Scope[o]] \in {None, o},
           inForce' = inForce \/ inForce' = inForce \cup {o}
    PROVE  OpSame(p)
  <1>1. bar \in [Resources -> SomeOperation] /\ Scope[p] \in Resources /\ Scope[o] \in Resources
    BY InResources DEF HoldInv, RunInv, StoreInv, Types, DirectoryTypes
  <1>2. On(p)' <=> On(p)  BY SMTT(30), <1>1, OperationsKnown DEF On
  <1>3. PcPart(p)  BY DEF HoldInv, FencedOK, ShortOK
  <1>4. p \in inForce' <=> p \in inForce  OBVIOUS
  <1> QED BY <1>2, <1>3, <1>4 DEF OpSame, PcPart, Live, Runs

\* While an operation is unfinished no cancellation has ended it.
LEMMA NotEnding ==
    ASSUME NEW o \in Operations, FencedOK(o), Unfinished(o)
    PROVE  cancel[o].stage \notin Ending
  BY DEF FencedOK, EndPart, Unfinished, Terminal

\* What a live run may write on its unfinished record, and where it may go on.
Allowed(o, nb, ph, pc, mine) ==
    /\ LiveAt(pc, mine, nb, ph, TRUE)
    /\ On(o) => nb \in {"intent", "held"} /\ pc \notin {"committed", "succeed", "fail"}
    /\ nb = "held" \/ pc = "held" => Kept(o)
    /\ nb = "committed" \/ pc = "committed" => o \in inForce
    /\ o \in inForce => nb \in {"held", "committed"}
\* The write of a live run keeps what is said of its operation.
LEMMA WroteStep ==
    ASSUME RunInv, NEW n \in Nodes, NEW o \in Operations, FencedOK(o), o \in Fenced, Runs(n, o),
           NEW ph, NEW e, NEW nb, NEW pc \in Pcs \ {"handler", "idle"}, NEW mine,
           Wrote(n, o, "running", ph, e, nb, pc, mine), UNCHANGED <<bar, inForce, cancel>>,
           Allowed(o, nb, ph, pc, mine)
    PROVE  FencedOK(o)'
  <1>0. /\ LiveAt(pc, mine, nb, ph, TRUE)
        /\ On(o) => nb \in {"intent", "held"} /\ pc \notin {"committed", "succeed", "fail"}
        /\ nb = "held" \/ pc = "held" => Kept(o)
        /\ nb = "committed" \/ pc = "committed" => o \in inForce
        /\ o \in inForce => nb \in {"held", "committed"}
    BY DEF Allowed
  <1>1. /\ rec'[o].status = "running" /\ rec'[o].phase = ph /\ rec'[o].barrier = nb
        /\ run'[n][o].pc = pc /\ run'[n][o].barrier = mine /\ OnlyRun(n, o) /\ Unfinished(o)
    BY DEF Wrote, Owns
  <1>2. Exists(o)' /\ Unfinished(o)' /\ ~Terminal(rec'[o])  BY <1>1 DEF Exists, Unfinished, Terminal
  <1>3. (On(o)' <=> On(o)) /\ (Kept(o)' <=> Kept(o)) /\ inForce' = inForce  BY DEF On, Kept
  <1>4. \A m \in Nodes : Runs(m, o)' => m = n  BY SMTT(30), <1>1 DEF RunInv, OneRunner, OnlyRun, Runs
  <1>5. \A m \in Nodes : Live(m, o)' => run'[m][o].pc = pc /\ run'[m][o].barrier = mine
    BY <1>1, <1>4 DEF Live
  <1>6. PcPart(o)'  BY <1>1, <1>4 DEF PcPart, PcsOf
  <1>7. LivePart(o)'  BY <1>0, <1>1, <1>2, <1>5 DEF LivePart
  <1>8. HoldPart(o)'  BY <1>0, <1>1, <1>2, <1>3, <1>5 DEF HoldPart, FencedOK
  <1>9. KeptPart(o)'  BY <1>0, <1>1, <1>2, <1>3, <1>5 DEF KeptPart
  <1>10. EndPart(o)' /\ HonestPart(o)'  BY <1>1, <1>2, NotEnding DEF EndPart, HonestPart
  <1> QED BY <1>6, <1>7, <1>8, <1>9, <1>10 DEF FencedOK

\* A run that lost its record, or stops.
LEMMA LostStep ==
    ASSUME RunInv, NEW n \in Nodes, NEW o \in Operations, FencedOK(o) \/ ShortOK(o), Runs(n, o), OnlyRun(n, o),
           ~Live(n, o)', Runs(n, o)' => run'[n][o].pc \in PcsOf(o), UNCHANGED <<store, bar, inForce, cancel>>
    PROVE  OpSame(o)
  <1>1. \A m \in Nodes : Runs(m, o)' => m = n  BY SMTT(30) DEF RunInv, OneRunner, OnlyRun, Runs
  <1>2. \A m \in Nodes : ~Live(m, o)'  BY <1>1 DEF Live
  <1> QED BY <1>1, <1>2 DEF OpSame, On, store

\* What is said of an operation, by its kind.
OpOK(o) == IF o \in Fenced THEN FencedOK(o) ELSE ShortOK(o)
\* HoldInv without what earlier proofs keep.
HoldParts == BarOK /\ \A o \in Operations : OpOK(o)

\* The invariant, operation by operation.
LEMMA HoldInvParts == HoldInv <=> RunInv /\ HoldParts
  BY OperationsKnown DEF HoldInv, HoldParts, OpOK

\* An operation a step leaves alone.
LEMMA SameOK ==
    ASSUME HoldInv, NEW o \in Operations, OpSame(o)
    PROVE  OpOK(o)'
  BY SameStep, HoldInvParts DEF HoldParts, OpOK

\* A barrier operation's write: taken where the run may make it, else the run is lost.
LEMMA FencedPut ==
    ASSUME Sheltered, HoldInv, NEW n \in Nodes, NEW o \in Fenced, Runs(n, o),
           NEW ph, NEW e, NEW nb, NEW pc \in Pcs \ {"handler", "idle"}, NEW mine,
           Put(n, o, "running", ph, e, nb, pc, mine), UNCHANGED <<bar, inForce, cancel>>,
           Live(n, o) /\ Unfinished(o) => Allowed(o, nb, ph, pc, mine)
    PROVE  OpOK(o)'
  <1>0. o \in Operations /\ RunInv /\ FencedOK(o)  BY OperationsKnown DEF HoldInv
  <1>1. CASE Wrote(n, o, "running", ph, e, nb, pc, mine)
    <2>1. Live(n, o) /\ Unfinished(o)  BY <1>1 DEF Wrote, Owns, Live
    <2>2. FencedOK(o)'  BY <1>0, <1>1, <2>1, WroteStep
    <2> QED BY <2>2 DEF OpOK
  <1>2. CASE Lost(n, o, pc)
    <2>1. /\ OnlyRun(n, o) /\ ~Live(n, o)' /\ UNCHANGED store /\ run'[n][o].pc \in PcsOf(o)
      BY <1>2 DEF Lost, Live, PcsOf
    <2>2. OpSame(o)  BY <1>0, <2>1, LostStep
    <2> QED BY <1>0, <2>2, SameOK
  <1> QED BY <1>1, <1>2 DEF Put, Skipped, Sheltered

\* Where a live run stands, by its invariant.
LEMMA Stands ==
    ASSUME HoldInv, NEW n \in Nodes, NEW o \in Fenced, Live(n, o)
    PROVE  /\ LiveAt(run[n][o].pc, run[n][o].barrier, rec[o].barrier, rec[o].phase, Unfinished(o))
           /\ HoldPart(o) /\ KeptPart(o)
  BY DEF HoldInv, FencedOK, LivePart

\* The steps of a barrier's run that write its record.
LEMMA PutSteps ==
    ASSUME Sheltered, HoldInv, NEW n \in Nodes, NEW o \in Fenced,
           running(n, o) \/ Intent(n, o) \/ Held(n, o) \/ Carried(n, o) \/ Drained(n, o) \/ Committed(n, o)
    PROVE  OpOK(o)'
  <1>0. Types /\ o \in Operations /\ RunInv /\ FencedOK(o)
    BY OperationsKnown DEF HoldInv, RunInv, StoreInv
  <1> DEFINE Same == UNCHANGED <<bar, inForce, cancel>>
  <1>1. CASE running(n, o)
    <2>1. /\ Put(n, o, "running", "precondition", rec[o].effect, run[n][o].barrier, "precondition", run[n][o].barrier)
          /\ Same /\ run[n][o].pc = "start"
      BY <1>0, <1>1, RunningEffect DEF directory, requests, At
    <2>2. Live(n, o) /\ Unfinished(o) =>
            Allowed(o, run[n][o].barrier, "precondition", "precondition", run[n][o].barrier)
      BY <2>1, Stands DEF LiveAt, HoldPart, KeptPart, Allowed
    <2> QED BY ZenonT(40), <1>0, <2>1, <2>2, FencedPut DEF Runs, Pcs
  <1>2. CASE Intent(n, o)
    <2>1. /\ Put(n, o, "running", "hold", rec[o].effect, "intent", "hold", "intent")
          /\ Same /\ run[n][o].pc = "precondition"
      BY <1>0, <1>2, IntentEffect DEF directory, requests, At
    <2>2. Live(n, o) /\ Unfinished(o) => Allowed(o, "intent", "hold", "hold", "intent")
      BY <2>1, Stands DEF LiveAt, HoldPart, KeptPart, Allowed
    <2> QED BY <1>0, <2>1, <2>2, FencedPut DEF Runs, Pcs
  <1>3. CASE Held(n, o)
    <2>1. /\ Put(n, o, "running", rec[o].phase, rec[o].effect, run[n][o].barrier, "carried", run[n][o].barrier)
          /\ Same /\ run[n][o].pc = "held"
      BY ZenonT(40), <1>0, <1>3, HeldEffect DEF directory, requests, At
    <2>2. Live(n, o) /\ Unfinished(o) => Allowed(o, run[n][o].barrier, rec[o].phase, "carried", run[n][o].barrier)
      BY <2>1, Stands DEF LiveAt, HoldPart, KeptPart, Allowed
    <2> QED BY <1>0, <2>1, <2>2, FencedPut DEF Runs, Pcs
  <1>4. CASE Carried(n, o)
    <2>1. PICK p \in {"drain", "commit"} :
            Put(n, o, "running", p, rec[o].effect, run[n][o].barrier, p, run[n][o].barrier)
      BY <1>0, <1>4, CarriedEffect
    <2>2. Same /\ run[n][o].pc = "carried"  BY ZenonT(40), <1>0, <1>4, CarriedEffect DEF directory, requests, At
    <2>3. Live(n, o) /\ Unfinished(o) => Allowed(o, run[n][o].barrier, p, p, run[n][o].barrier)
      BY <2>2, Stands DEF LiveAt, HoldPart, KeptPart, Allowed
    <2> QED BY ZenonT(40), <1>0, <2>1, <2>2, <2>3, FencedPut DEF Runs, Pcs
  <1>5. CASE Drained(n, o)
    <2>1. /\ Same /\ run[n][o].pc = "drain"
          /\ \/ run[n][o].lost /\ Stopped(n, o)
             \/ Put(n, o, "running", "commit", rec[o].effect, run[n][o].barrier, "commit", run[n][o].barrier)
      BY <1>0, <1>5, DrainedEffect DEF directory, requests, At
    <2>2. Live(n, o) /\ Unfinished(o) => Allowed(o, run[n][o].barrier, "commit", "commit", run[n][o].barrier)
      BY <2>1, Stands DEF LiveAt, HoldPart, KeptPart, Allowed
    <2>3. ASSUME Stopped(n, o)  PROVE OpOK(o)'
      <3>1. OpSame(o)  BY ZenonT(40), <1>0, <2>1, <2>3, LostStep, Blanks DEF Stopped, Live, Runs
      <3> QED BY <1>0, <3>1, SameOK
    <2> QED BY ZenonT(40), <1>0, <2>1, <2>2, <2>3, FencedPut DEF Runs, Pcs
  <1>6. CASE Committed(n, o)
    <2>1. /\ Put(n, o, "running", rec[o].phase, rec[o].effect, run[n][o].barrier, "succeed", run[n][o].barrier)
          /\ Same /\ run[n][o].pc = "committed"
      BY <1>0, <1>6, CommittedEffect DEF directory, requests, At
    <2>2. Live(n, o) /\ Unfinished(o) => Allowed(o, run[n][o].barrier, rec[o].phase, "succeed", run[n][o].barrier)
      BY <2>1, Stands DEF LiveAt, HoldPart, KeptPart, Allowed
    <2> QED BY ZenonT(40), <1>0, <2>1, <2>2, FencedPut DEF Runs, Pcs
  <1> QED BY ZenonT(40), <1>1, <1>2, <1>3, <1>4, <1>5, <1>6

\* A drain that is not done yet.
LEMMA BlockedHolds ==
    ASSUME Sheltered, HoldInv, NEW n \in Nodes, NEW o \in Fenced, Blocked(n, o)
    PROVE  OpOK(o)'
  <1>0. Types /\ o \in Operations /\ RunInv /\ FencedOK(o)
    BY OperationsKnown DEF HoldInv, RunInv, StoreInv
  <1>1. /\ UNCHANGED <<bar, inForce, cancel>> /\ run[n][o].pc = "drain"
        /\ \/ run[n][o].lost /\ Stopped(n, o)
           \/ UNCHANGED <<store, run>>
           \/ Put(n, o, "running", rec[o].phase, rec[o].effect, run[n][o].barrier, "drain", run[n][o].barrier)
    BY <1>0, BlockedEffect DEF directory, requests, At
  <1>2. CASE Stopped(n, o)
    <2>1. OpSame(o)  BY ZenonT(40), <1>0, <1>1, <1>2, LostStep, Blanks DEF Stopped, Live, Runs
    <2> QED BY <1>0, <2>1, SameOK
  <1>3. CASE UNCHANGED <<store, run>>
    <2>1. OpSame(o)  BY <1>0, <1>1, <1>3 DEF OpSame, store, On, Live, Runs, FencedOK, PcPart
    <2> QED BY <1>0, <2>1, SameOK
  <1>4. CASE Put(n, o, "running", rec[o].phase, rec[o].effect, run[n][o].barrier, "drain", run[n][o].barrier)
    <2>1. Live(n, o) /\ Unfinished(o) => Allowed(o, run[n][o].barrier, rec[o].phase, "drain", run[n][o].barrier)
      BY <1>1, Stands DEF LiveAt, HoldPart, KeptPart, Allowed
    <2> QED BY ZenonT(40), <1>0, <1>1, <1>4, <2>1, FencedPut DEF Runs, Pcs
  <1> QED BY ZenonT(40), <1>1, <1>2, <1>3, <1>4

\* A live run's step in the directory: its record is as it was.
LEMMA MovedStep ==
    ASSUME RunInv, NEW n \in Nodes, NEW o \in Fenced, FencedOK(o), Live(n, o), Unfinished(o),
           NEW pc \in Pcs \ {"handler", "idle"}, NEW mine, RunTo(n, o, pc, mine), UNCHANGED <<store, cancel>>,
           LiveAt(pc, mine, rec[o].barrier, rec[o].phase, TRUE),
           On(o)' => o \notin inForce' /\ rec[o].barrier \in {"intent", "held"} /\ pc \notin {"committed", "succeed", "fail"},
           rec[o].barrier = "held" \/ pc = "held" => Kept(o)',
           rec[o].barrier = "committed" \/ pc = "committed" => o \in inForce',
           o \in inForce' => rec[o].barrier \in {"held", "committed"}
    PROVE  FencedOK(o)'
  <1>0. o \in Operations  BY OperationsKnown
  <1>1. rec' = rec /\ run'[n][o].pc = pc /\ run'[n][o].barrier = mine /\ OnlyRun(n, o)  BY DEF RunTo, store
  <1>2. Exists(o)' /\ Unfinished(o)' /\ ~Terminal(rec'[o])  BY <1>1 DEF Exists, Unfinished
  <1>3. \A m \in Nodes : Runs(m, o)' => m = n  BY SMTT(30), <1>0, <1>1 DEF RunInv, OneRunner, OnlyRun, Runs, Live
  <1>4. \A m \in Nodes : Live(m, o)' => run'[m][o].pc = pc /\ run'[m][o].barrier = mine
    BY <1>1, <1>3 DEF Live
  <1>5. PcPart(o)'  BY <1>1, <1>3 DEF PcPart, PcsOf
  <1>6. LivePart(o)'  BY <1>1, <1>2, <1>4 DEF LivePart
  <1>7. HoldPart(o)'  BY <1>1, <1>2, <1>4 DEF HoldPart
  <1>8. KeptPart(o)'  BY <1>1, <1>2, <1>4 DEF KeptPart
  <1>9. EndPart(o)' /\ HonestPart(o)'  BY ZenonT(40), <1>0, <1>1, <1>2, NotEnding DEF EndPart, HonestPart
  <1> QED BY ZenonT(40), <1>5, <1>6, <1>7, <1>8, <1>9 DEF FencedOK

\* The hold.
LEMMA HoldHolds ==
    ASSUME Sheltered, HoldInv, NEW n \in Nodes, NEW o \in Fenced, Hold(n, o)
    PROVE  OpOK(o)'
  <1>0. Types /\ o \in Operations /\ RunInv /\ FencedOK(o) /\ Scope[o] \in Resources
    BY OperationsKnown, InResources DEF HoldInv, RunInv, StoreInv
  <1>1. /\ UNCHANGED <<inForce, cancel>> /\ run[n][o].pc = "hold" /\ Runs(n, o)
        /\ \/ run[n][o].lost /\ Stopped(n, o) /\ bar' = bar
           \/ /\ ~run[n][o].lost /\ bar[Scope[o]] \in {None, o} /\ o \notin inForce
              /\ bar' = [bar EXCEPT ![Scope[o]] = o]
              /\ RunTo(n, o, "held", "held") /\ UNCHANGED store
           \/ /\ ~run[n][o].lost /\ (bar[Scope[o]] \notin {None, o} \/ o \in inForce)
              /\ RunTo(n, o, "fail", run[n][o].barrier) /\ UNCHANGED <<store, bar>>
    BY <1>0, HoldEffect DEF requests, At, Runs
  <1>2. CASE Stopped(n, o) /\ bar' = bar
    <2>1. OpSame(o)  BY ZenonT(40), <1>0, <1>1, <1>2, LostStep, Blanks DEF Stopped, Live, Runs
    <2> QED BY <1>0, <2>1, SameOK
  <1>3. CASE ~run[n][o].lost
    <2>1. Live(n, o)  BY <1>1, <1>3 DEF Live
    <2>2. run[n][o].barrier = "intent" /\ rec[o].barrier = "intent" /\ Unfinished(o) /\ o \notin inForce
      BY <1>1, <2>1, Stands DEF LiveAt, KeptPart
    <2>3. CASE /\ bar' = [bar EXCEPT ![Scope[o]] = o] /\ RunTo(n, o, "held", "held") /\ UNCHANGED store
      <3>1. On(o)' /\ Kept(o)'  BY <1>0, <2>3 DEF On, Kept, Types, DirectoryTypes
      <3>2. LiveAt("held", "held", rec[o].barrier, rec[o].phase, TRUE)  BY <2>2 DEF LiveAt
      <3>3. "held" \in Pcs \ {"handler", "idle"}  BY DEF Pcs
      <3>4. FencedOK(o)'  BY ZenonT(40), <1>0, <1>1, <2>1, <2>2, <2>3, <3>1, <3>2, <3>3, MovedStep
      <3> QED BY <3>4 DEF OpOK
    <2>4. CASE /\ bar[Scope[o]] \notin {None, o} \/ o \in inForce
               /\ RunTo(n, o, "fail", run[n][o].barrier) /\ UNCHANGED <<store, bar>>
      <3>1. ~On(o)'  BY <2>2, <2>4 DEF On
      <3>2. LiveAt("fail", run[n][o].barrier, rec[o].barrier, rec[o].phase, TRUE)  BY <2>2 DEF LiveAt
      <3>3. "fail" \in Pcs \ {"handler", "idle"}  BY DEF Pcs
      <3>4. FencedOK(o)'  BY ZenonT(40), <1>0, <1>1, <2>1, <2>2, <2>4, <3>1, <3>2, <3>3, MovedStep
      <3> QED BY <3>4 DEF OpOK
    <2> QED BY <1>1, <1>3, <2>3, <2>4
  <1> QED BY ZenonT(40), <1>1, <1>2, <1>3

\* The commit: while its record is unfinished and says held, its hold is on or its change in force.
LEMMA CommitHolds ==
    ASSUME Sheltered, HoldInv, NEW n \in Nodes, NEW o \in Fenced, Commit(n, o)
    PROVE  OpOK(o)'
  <1>0. Types /\ o \in Operations /\ RunInv /\ FencedOK(o) /\ Scope[o] \in Resources
    BY OperationsKnown, InResources DEF HoldInv, RunInv, StoreInv
  <1>1. /\ UNCHANGED <<store, cancel>> /\ run[n][o].pc = "commit" /\ Runs(n, o)
        /\ \/ run[n][o].lost /\ Stopped(n, o) /\ UNCHANGED <<bar, inForce>>
           \/ /\ ~run[n][o].lost /\ bar[Scope[o]] = o /\ RunTo(n, o, "committed", "committed")
              /\ bar' = [bar EXCEPT ![Scope[o]] = None] /\ inForce' = inForce \cup {o}
           \/ /\ ~run[n][o].lost /\ o \in inForce /\ RunTo(n, o, "committed", "committed")
              /\ UNCHANGED <<bar, inForce>>
           \/ ~run[n][o].lost /\ bar[Scope[o]] # o /\ o \notin inForce
    BY ZenonT(40), <1>0, CommitEffect DEF requests, At, Runs, Sheltered
  <1>2. CASE Stopped(n, o) /\ UNCHANGED <<bar, inForce>>
    <2>1. OpSame(o)  BY ZenonT(40), <1>0, <1>1, <1>2, LostStep, Blanks DEF Stopped, Live, Runs
    <2> QED BY <1>0, <2>1, SameOK
  <1>3. CASE ~run[n][o].lost
    <2>1. Live(n, o)  BY <1>1, <1>3 DEF Live
    <2>2. run[n][o].barrier = "held" /\ rec[o].barrier = "held" /\ rec[o].phase = "commit" /\ Unfinished(o) /\ Kept(o)
      BY ZenonT(40), <1>1, <2>1, Stands DEF LiveAt, KeptPart
    <2>3. LiveAt("committed", "committed", rec[o].barrier, rec[o].phase, TRUE)  BY <2>2 DEF LiveAt
    <2>4. "committed" \in Pcs \ {"handler", "idle"}  BY DEF Pcs
    <2>5. CASE /\ RunTo(n, o, "committed", "committed")
               /\ bar' = [bar EXCEPT ![Scope[o]] = None] /\ inForce' = inForce \cup {o}
      <3>1. ~On(o)' /\ Kept(o)' /\ o \in inForce'
        BY <1>0, <2>5, OperationsKnown DEF On, Kept, Types, DirectoryTypes
      <3>2. FencedOK(o)'  BY ZenonT(40), <1>0, <1>1, <2>1, <2>2, <2>3, <2>4, <2>5, <3>1, MovedStep
      <3> QED BY <3>2 DEF OpOK
    <2>6. CASE o \in inForce /\ RunTo(n, o, "committed", "committed") /\ UNCHANGED <<bar, inForce>>
      <3>1. ~On(o)' /\ Kept(o)' /\ o \in inForce'
        BY <2>1, <2>6, Stands DEF On, Kept, HoldPart
      <3>2. FencedOK(o)'  BY ZenonT(40), <1>0, <1>1, <2>1, <2>2, <2>3, <2>4, <2>6, <3>1, MovedStep
      <3> QED BY <3>2 DEF OpOK
    <2> QED BY ZenonT(40), <1>1, <1>3, <2>2, <2>5, <2>6 DEF Kept, On
  <1> QED BY ZenonT(40), <1>1, <1>2, <1>3

\* The end of a barrier's run.
LEMMA FinishHolds ==
    ASSUME Sheltered, HoldInv, NEW n \in Nodes, NEW o \in Fenced, finish(n, o)
    PROVE  OpOK(o)'
  <1>0. Types /\ o \in Operations /\ RunInv /\ FencedOK(o)
    BY OperationsKnown DEF HoldInv, RunInv, StoreInv
  <1>1. UNCHANGED <<bar, inForce, cancel>>  BY <1>0, FinishEffect DEF requests, directory
  <1>2. PICK e \in Effects :
            \/ /\ At(n, o, "succeed") /\ e # "none"
               /\ Put(n, o, "succeeded", "done", e, run[n][o].barrier, "idle", "none")
            \/ At(n, o, "fail") /\ Put(n, o, "failed", "done", e, run[n][o].barrier, "idle", "none")
            \/ At(n, o, "canceled") /\ Put(n, o, "cancelled", "done", e, run[n][o].barrier, "idle", "none")
    BY <1>0, FinishEffect
  <1>3. Runs(n, o)  BY <1>2 DEF At, Runs
  <1>4. CASE Lost(n, o, "idle")
    <2>1. OpSame(o)  BY ZenonT(40), <1>0, <1>1, <1>3, <1>4, LostStep DEF Lost, Live, Runs
    <2> QED BY <1>0, <2>1, SameOK
  <1>5. ASSUME NEW s \in {"succeeded", "failed", "cancelled"}, Wrote(n, o, s, "done", e, run[n][o].barrier, "idle", "none"),
               s = "succeeded" => run[n][o].pc = "succeed" /\ e # "none",
               s = "failed" => run[n][o].pc = "fail", s = "cancelled" => run[n][o].pc = "canceled"
        PROVE  OpOK(o)'
    <2>1. Live(n, o) /\ Unfinished(o)  BY <1>3, <1>5 DEF Wrote, Owns, Live
    <2>2. /\ LiveAt(run[n][o].pc, run[n][o].barrier, rec[o].barrier, rec[o].phase, Unfinished(o))
          /\ HoldPart(o) /\ KeptPart(o)
      BY <2>1, Stands
    <2>3. /\ rec'[o].status = s /\ rec'[o].barrier = run[n][o].barrier /\ rec'[o].effect = e
          /\ OnlyRun(n, o) /\ run'[n][o].pc = "idle"
      BY <1>5 DEF Wrote
    <2>4. \A m \in Nodes : ~Runs(m, o)'  BY SMTT(30), <1>0, <1>3, <2>3 DEF RunInv, OneRunner, OnlyRun, Runs
    <2>5. Exists(o)' /\ ~Unfinished(o)'  BY <2>3 DEF Exists, Unfinished, Terminal
    <2>6. ~On(o) /\ s # "cancelled" /\ cancel[o].stage \notin Ending
      BY <1>0, <1>5, <2>1, <2>2, NotEnding DEF LiveAt, HoldPart
    <2>7. \/ s = "succeeded" /\ rec'[o].barrier = "committed" /\ e # "none" /\ o \in inForce
          \/ s = "failed" /\ rec'[o].barrier = "intent" /\ o \notin inForce
      BY <1>5, <2>1, <2>2, <2>3, <2>6 DEF LiveAt, KeptPart, Unfinished
    <2>8. PcPart(o)' /\ LivePart(o)'  BY <2>4 DEF PcPart, LivePart, Live
    <2>9. HoldPart(o)'  BY <1>1, <2>6 DEF HoldPart, On
    <2>10. KeptPart(o)'  BY <1>1, <2>4, <2>5, <2>7 DEF KeptPart, Live
    <2>11. EndPart(o)'  BY <1>1, <2>6 DEF EndPart
    <2>12. HonestPart(o)'  BY ZenonT(40), <1>1, <2>3, <2>7 DEF HonestPart
    <2> QED BY ZenonT(40), <2>8, <2>9, <2>10, <2>11, <2>12 DEF FencedOK, OpOK
  <1> QED BY ZenonT(40), <1>2, <1>4, <1>5 DEF Put, Skipped, Sheltered, At

\* The run of an operation without a barrier.
LEMMA ShortHolds ==
    ASSUME Sheltered, HoldInv, NEW n \in Nodes, NEW o \in Operations \ Fenced, Step(n, o)
    PROVE  /\ OpOK(o)' /\ UNCHANGED <<bar, cancel>>
           /\ inForce' = inForce \/ inForce' = inForce \cup {o}
  <1>0. Types /\ RunInv /\ ShortOK(o)  BY DEF HoldInv, RunInv, StoreInv
  <1>1. Runs(n, o)
    BY DEF Step, running, Handler, Intent, Hold, Held, Carried, Blocked, Drained, Commit, Committed, finish, At, Runs
  <1>2. running(n, o) \/ Handler(n, o) \/ finish(n, o)
    <2>1. run[n][o].pc \in {"start", "handler", "succeed", "fail"}  BY <1>0, <1>1 DEF ShortOK, PcPart, PcsOf
    <2> QED BY <2>1 DEF Step, Intent, Hold, Held, Carried, Blocked, Drained, Commit, Committed, At
  <1>3. ASSUME NEW status, NEW ph, NEW e, NEW pc \in {"handler", "idle"}, NEW mine, mine \in {run[n][o].barrier, "none"},
               Put(n, o, status, ph, e, run[n][o].barrier, pc, mine), UNCHANGED <<bar, inForce, cancel>>
        PROVE  OpOK(o)'
    <2>1. CASE Wrote(n, o, status, ph, e, run[n][o].barrier, pc, mine)
      <3>1. Live(n, o) /\ run[n][o].barrier = "none"  BY <1>0, <1>1, <2>1 DEF Wrote, Live, ShortOK
      <3>2. /\ rec'[o].barrier = "none" /\ OnlyRun(n, o) /\ run'[n][o].pc = pc
            /\ pc # "idle" => run'[n][o].barrier = "none"
        BY <1>3, <2>1, <3>1 DEF Wrote
      <3>3. \A m \in Nodes : Runs(m, o)' => m = n /\ pc = "handler"
        BY SMTT(30), <1>0, <1>1, <1>3, <3>2 DEF RunInv, OneRunner, OnlyRun, Runs
      <3>4. PcPart(o)'  BY <3>2, <3>3 DEF PcPart, PcsOf
      <3> QED BY ZenonT(40), <1>0, <1>3, <3>2, <3>3, <3>4 DEF ShortOK, OpOK, On, Live
    <2>2. CASE Lost(n, o, pc)
      <3>1. OpSame(o)  BY <1>0, <1>1, <1>3, <2>2, LostStep DEF Lost, Live, Runs, PcsOf
      <3> QED BY <3>1, SameOK
    <2> QED BY <1>3, <2>1, <2>2 DEF Put, Skipped, Sheltered
  <1>4. CASE running(n, o)
    <2>1. /\ UNCHANGED <<bar, inForce, cancel>>
          /\ Put(n, o, "running", rec[o].phase, rec[o].effect, run[n][o].barrier, "handler", run[n][o].barrier)
      BY <1>0, <1>4, RunningEffect DEF directory, requests
    <2> QED BY <1>3, <2>1
  <1>5. CASE Handler(n, o)
    <2>1. /\ UNCHANGED <<store, bar, cancel>> /\ (inForce' = inForce \/ inForce' = inForce \cup {o})
          /\ \E pc \in {"succeed", "fail"} : RunTo(n, o, pc, run[n][o].barrier)
      BY <1>0, <1>5, HandlerEffect DEF requests
    <2>2. PICK pc \in {"succeed", "fail"} : RunTo(n, o, pc, run[n][o].barrier)  BY <2>1
    <2>3. \A m \in Nodes : Runs(m, o)' => m = n  BY SMTT(30), <1>0, <1>1, <2>2 DEF RunInv, OneRunner, RunTo, OnlyRun, Runs
    <2>4. PcPart(o)'  BY <2>2, <2>3 DEF PcPart, PcsOf, RunTo
    <2>5. \A m \in Nodes : Live(m, o)' => run'[m][o].barrier = "none"
      BY <1>0, <1>1, <2>2, <2>3 DEF ShortOK, Live, RunTo
    <2> QED BY ZenonT(40), <1>0, <2>1, <2>4, <2>5 DEF ShortOK, OpOK, On, store, Exists
  <1>6. CASE finish(n, o)
    <2>1. UNCHANGED <<bar, inForce, cancel>>  BY <1>0, <1>6, FinishEffect DEF requests, directory
    <2>2. \E s, e : Put(n, o, s, "done", e, run[n][o].barrier, "idle", "none")  BY <1>0, <1>6, FinishEffect
    <2> QED BY <1>3, <2>1, <2>2
  <1> QED BY <1>2, <1>4, <1>5, <1>6
-----------------------------------------------------------------------------
\* The steps of a request, of a cancellation and of owner loss, for the operation they are about.
LEMMA CreatedHolds ==
    ASSUME HoldInv, NEW n \in Nodes, NEW o \in Operations, Created(n, o), ~Made(o), UNCHANGED <<bar, inForce, cancel>>
    PROVE  OpOK(o)'
  <1>1. ~Exists(o) /\ Idles(o)  BY DEF HoldInv, RunInv, StoreInv, MadeOK, NodesOK, Idles
  <1>2. /\ rec'[o].status = "pending" /\ rec'[o].barrier = "none" /\ OnlyRun(n, o)
        /\ run'[n][o].pc = "start" /\ run'[n][o].barrier = "none"
    BY DEF Created
  <1>3. Exists(o)' /\ Unfinished(o)' /\ ~Terminal(rec'[o])  BY <1>2 DEF Exists, Unfinished, Terminal
  <1>4. \A m \in Nodes : Runs(m, o)' => run'[m][o].pc = "start" /\ run'[m][o].barrier = "none"
    BY <1>1, <1>2 DEF Idles, OnlyRun, Runs
  <1>5. PcPart(o)'  BY <1>4 DEF PcPart, PcsOf, Pcs
  <1>6. CASE o \in Fenced
    <2>1. ~On(o) /\ o \notin inForce /\ cancel[o].stage \notin Ending
      BY <1>1, <1>6 DEF HoldInv, FencedOK, HoldPart, KeptPart, EndPart, Exists
    <2>2. LivePart(o)'  BY <1>2, <1>4 DEF LivePart, LiveAt, Live
    <2>3. HoldPart(o)' /\ KeptPart(o)'  BY <1>2, <1>4, <2>1 DEF HoldPart, KeptPart, On, Live
    <2>4. EndPart(o)' /\ HonestPart(o)'  BY <1>3, <2>1 DEF EndPart, HonestPart
    <2> QED BY ZenonT(40), <1>5, <1>6, <2>2, <2>3, <2>4 DEF FencedOK, OpOK
  <1>7. CASE o \notin Fenced
    <2>1. ~On(o) /\ cancel[o].stage \notin Ending  BY <1>7 DEF HoldInv, ShortOK
    <2> QED BY ZenonT(40), <1>2, <1>4, <1>5, <1>7, <2>1 DEF ShortOK, OpOK, On, Live
  <1> QED BY <1>6, <1>7

\* A record that is canceled, or orphaned without a barrier, with its run in the early states of the barrier.
LEMMA EndedRuns ==
    ASSUME NEW o \in Operations, FencedOK(o), Terminal(rec'[o]),
           \A m \in Nodes : Runs(m, o)' => Runs(m, o) /\ run'[m][o].pc = run[m][o].pc,
           \A m \in Nodes : Live(m, o)' => /\ Live(m, o) /\ run'[m][o].barrier = run[m][o].barrier
                                           /\ run[m][o].pc \in {"start", "precondition", "carried", "drain"}
    PROVE  PcPart(o)' /\ LivePart(o)'
  <1>1. PcPart(o)'  BY DEF FencedOK, PcPart, PcsOf
  <1>2. Terminal(rec'[o]) => ~Unfinished(o)'  BY DEF Unfinished
  <1>3. ASSUME NEW m \in Nodes, Live(m, o)'
        PROVE  LiveAt(run'[m][o].pc, run'[m][o].barrier, rec'[o].barrier, rec'[o].phase, Unfinished(o)')
    <2>1. LiveAt(run[m][o].pc, run[m][o].barrier, rec[o].barrier, rec[o].phase, Unfinished(o))
      BY <1>3 DEF FencedOK, LivePart
    <2>2. run'[m][o].pc = run[m][o].pc /\ run'[m][o].barrier = run[m][o].barrier
      BY <1>3 DEF Live
    <2> QED BY <1>2, <1>3, <2>1, <2>2 DEF LiveAt
  <1> QED BY <1>1, <1>3 DEF LivePart

\* The end of a record by its cancellation.
LEMMA CancelledHolds ==
    ASSUME HoldInv, NEW o \in Operations, cancel[o].stage = "asked", Cancelled(o), RunsTold(o), UNCHANGED <<bar, inForce>>
    PROVE  OpOK(o)'
  <1>1. o \in Fenced /\ FencedOK(o) /\ Unfinished(o) /\ rec[o].barrier # "committed"
    BY DEF Cancelled, notCancellable, HoldInv
  <1>2. /\ rec'[o].status = "cancelled" /\ rec'[o].barrier = rec[o].barrier
        /\ \/ rec[o].barrier = "none" /\ cancel'[o] = NoCancel
           \/ /\ rec[o].barrier # "none" /\ cancel'[o].stage = "ended"
              /\ cancel'[o].held <=> rec[o].barrier = "held"
    BY DEF Cancelled
  <1>3. Exists(o)' /\ ~Unfinished(o)' /\ Terminal(rec'[o])  BY <1>2 DEF Exists, Unfinished, Terminal
  <1>4. \A m \in Nodes : Runs(m, o)' => Runs(m, o) /\ run'[m][o].pc = run[m][o].pc
    BY DEF RunsTold, Runs
  <1>5. ASSUME NEW m \in Nodes, Live(m, o)'
        PROVE  /\ Live(m, o) /\ run'[m][o].barrier = run[m][o].barrier
               /\ run[m][o].pc \in {"start", "precondition", "carried", "drain"}
    <2>1. run'[m][o] = run[m][o] /\ Live(m, o)  BY <1>5 DEF RunsTold, Live, Runs
    <2>2. ~cancel[o].gone  BY <1>1, <2>1 DEF HoldInv, RunInv, CancelOK, Cancelled, Idles, Live
    <2>3. rec[o].barrier = "none" \/ (rec[o].barrier = "held" /\ rec[o].phase # "commit")
      <3>1. rec[o].barrier \in Barriers  BY DEF HoldInv, RunInv, StoreInv, Types, StoreTypes, RecType
      <3> QED BY <2>2, <3>1 DEF Cancelled, notCancellable, Barriers
    <2>4. LiveAt(run[m][o].pc, run[m][o].barrier, rec[o].barrier, rec[o].phase, Unfinished(o))
      BY <1>1, <2>1 DEF FencedOK, LivePart
    <2>5. run[m][o].pc \in Pcs \ {"handler", "idle"}  BY <1>1, <2>1 DEF FencedOK, PcPart, PcsOf, Live, Runs
    <2> QED BY <2>1, <2>3, <2>4, <2>5 DEF LiveAt, Pcs
  <1>6. PcPart(o)' /\ LivePart(o)'  BY ZenonT(40), <1>1, <1>3, <1>4, <1>5, EndedRuns
  <1>7. HoldPart(o) /\ KeptPart(o)  BY <1>1 DEF FencedOK
  <1>8. \A m \in Nodes : Live(m, o)' => run'[m][o].pc \in {"start", "precondition", "carried", "drain"}
    BY <1>4, <1>5 DEF Live
  <1>9. HoldPart(o)'  BY <1>2, <1>3, <1>7, <1>8 DEF HoldPart, On
  <1>10. KeptPart(o)'  BY ZenonT(40), <1>1, <1>2, <1>3, <1>7, <1>8 DEF KeptPart, Unfinished
  <1>11. rec[o].barrier \in {"none", "intent", "held"}
    BY <1>1 DEF HoldInv, RunInv, StoreInv, Types, StoreTypes, RecType, Barriers
  <1>12. EndPart(o)'  BY ZenonT(40), <1>1, <1>2, <1>7, <1>11, Blanks DEF EndPart, Ending, KeptPart, Kept, On
  <1>13. HonestPart(o)'  BY <1>2, <1>7 DEF HonestPart, Ending, KeptPart
  <1> QED BY ZenonT(40), <1>1, <1>6, <1>9, <1>10, <1>12, <1>13 DEF FencedOK, OpOK

\* What follows the end of a canceled record: the hold's release, or the record's correction.
LEMMA EndingHolds ==
    ASSUME Sheltered, HoldInv, NEW o \in Operations,
           CancelCarried(o) \/ releaseHold(o) \/ correctCommitted(o) \/ (\E n \in Nodes : releaseCanceled(n, o))
    PROVE  OpOK(o)'
  <1>0. Types /\ RunInv /\ Scope[o] \in Resources  BY InResources DEF HoldInv, RunInv, StoreInv
  <1>1. o \in Fenced /\ FencedOK(o)
    <2>1. cancel[o].stage \in Ending \/ On(o)
      BY ZenonT(40), <1>0, CancelCarriedEffect, ReleaseHoldEffect, CorrectCommittedEffect, ReleaseCanceledEffect DEF Ending, On
    <2> QED BY <2>1 DEF HoldInv, ShortOK
  <1>2. rec[o].status = "cancelled" /\ ~Unfinished(o) /\ Terminal(rec[o]) /\ Exists(o)
    <2>1. rec[o].status = "cancelled"
      BY ZenonT(40), <1>0, <1>1, CancelCarriedEffect, ReleaseHoldEffect, CorrectCommittedEffect, ReleaseCanceledEffect
         DEF Ending, FencedOK, EndPart
    <2> QED BY <2>1 DEF Unfinished, Terminal, Exists
  <1>3. /\ run' = run /\ inForce' = inForce
        /\ \/ rec' = rec
           \/ rec'[o].status = "failed" /\ rec'[o].effect = "committed" /\ rec'[o].barrier = "committed"
    BY ZenonT(40), <1>0, CancelCarriedEffect, ReleaseHoldEffect, CorrectCommittedEffect, ReleaseCanceledEffect
       DEF store, directory, Corrected
  <1>4. HoldPart(o) /\ KeptPart(o) /\ EndPart(o) /\ HonestPart(o)  BY <1>1 DEF FencedOK
  <1>5. Terminal(rec'[o]) /\ Exists(o)' /\ ~Unfinished(o)'  BY <1>2, <1>3 DEF Terminal, Exists, Unfinished
  <1>6. ASSUME NEW m \in Nodes, Live(m, o)
        PROVE  run[m][o].pc \in {"start", "precondition", "carried", "drain"}
    <2>1. LiveAt(run[m][o].pc, run[m][o].barrier, rec[o].barrier, rec[o].phase, Unfinished(o))
      BY <1>1, <1>6 DEF FencedOK, LivePart
    <2> QED BY <1>2, <2>1 DEF LiveAt
  <1>7. PcPart(o)' /\ LivePart(o)'  BY ZenonT(40), <1>1, <1>3, <1>5, <1>6, EndedRuns DEF Live, Runs
  <1>8. \A m \in Nodes : Live(m, o)' => run'[m][o].pc \in {"start", "precondition", "carried", "drain"}
    BY <1>3, <1>6 DEF Live, Runs
  <1> SUFFICES HoldPart(o)' /\ KeptPart(o)' /\ EndPart(o)' /\ HonestPart(o)'
    BY <1>1, <1>7 DEF FencedOK, OpOK
  <1>9. CASE correctCommitted(o)
    <2>1. /\ bar' = bar /\ cancel'[o] = NoCancel /\ cancel[o].stage = "correct" /\ Corrected(o)
      BY <1>0, <1>2, <1>9, CorrectCommittedEffect DEF directory
    <2>2. ~On(o) /\ o \in inForce  BY <1>4, <2>1 DEF EndPart, Ending, Kept
    <2>3. ~On(o)' /\ cancel'[o].stage \notin Ending /\ rec'[o].barrier = "committed" /\ rec'[o].effect = "committed"
      BY <2>1, <2>2, Blanks DEF On, Ending, Corrected
    <2> QED BY ZenonT(40), <1>3, <1>5, <1>8, <2>2, <2>3 DEF HoldPart, KeptPart, EndPart, HonestPart
  <1>10. CASE rec' = rec /\ bar' = bar /\ (On(o)' <=> On(o)) /\ cancel[o].stage \in Ending
              /\ \/ /\ cancel'[o].stage \in Ending /\ (cancel'[o].held <=> cancel[o].held)
                    /\ cancel'[o].stage = "correct" => cancel[o].held /\ ~On(o)
                 \/ ~On(o) /\ ~cancel[o].held /\ cancel'[o].stage = "none"
    <2>1. HoldPart(o)' /\ KeptPart(o)'
      BY ZenonT(40), <1>2, <1>3, <1>4, <1>5, <1>8, <1>10 DEF HoldPart, KeptPart
    <2>2. Kept(o)' <=> Kept(o)  BY <1>3, <1>10 DEF Kept
    <2>3. EndPart(o)'  BY <1>4, <1>10, <2>2 DEF EndPart, Ending
    <2>4. HonestPart(o)'  BY <1>3, <1>4, <1>10 DEF HonestPart, EndPart, KeptPart
    <2> QED BY <2>1, <2>3, <2>4
  <1>11. CASE rec' = rec /\ bar' = [bar EXCEPT ![Scope[o]] = None] /\ On(o) /\ cancel'[o].stage = "none"
    <2>1. ~On(o)' /\ o \notin inForce
      BY ZenonT(40), <1>0, <1>4, <1>11, OperationsKnown DEF On, HoldPart, Types, DirectoryTypes
    <2> QED BY ZenonT(40), <1>2, <1>3, <1>4, <1>5, <1>8, <1>11, <2>1 DEF HoldPart, KeptPart, EndPart, HonestPart, Ending
  <1>12. CASE CancelCarried(o)
    <2>1. /\ rec' = rec /\ bar' = bar /\ cancel[o].stage = "ended"
          /\ \/ bar[Scope[o]] = o /\ cancel'[o].stage = "release" /\ cancel'[o].held = cancel[o].held
             \/ /\ bar[Scope[o]] # o /\ cancel[o].held /\ cancel'[o].stage = "correct"
                /\ cancel'[o].held = cancel[o].held
             \/ bar[Scope[o]] # o /\ ~cancel[o].held /\ cancel'[o].stage = "none"
      BY ZenonT(40), <1>0, <1>12, CancelCarriedEffect, Blanks DEF store, directory
    <2> QED BY <1>10, <2>1 DEF On, Ending
  <1>13. CASE releaseHold(o)
    <2>1. /\ rec' = rec /\ cancel[o].stage = "release"
          /\ \/ bar[Scope[o]] = o /\ bar' = [bar EXCEPT ![Scope[o]] = None] /\ cancel'[o].stage = "none"
             \/ /\ bar[Scope[o]] # o /\ bar' = bar /\ cancel[o].held /\ cancel'[o].stage = "correct"
                /\ cancel'[o].held = cancel[o].held
             \/ bar[Scope[o]] # o /\ bar' = bar /\ ~cancel[o].held /\ cancel'[o].stage = "none"
      BY ZenonT(40), <1>0, <1>13, ReleaseHoldEffect, Blanks DEF store
    <2> QED BY <1>10, <1>11, <2>1 DEF On, Ending
  <1>14. CASE \E n \in Nodes : releaseCanceled(n, o)
    <2>1. /\ rec' = rec /\ bar[Scope[o]] = o /\ bar' = [bar EXCEPT ![Scope[o]] = None]
          /\ cancel'[o].stage = "none"
      BY <1>0, <1>14, ReleaseCanceledEffect DEF store, requests, Sheltered
    <2> QED BY <1>11, <2>1 DEF On
  <1> QED BY <1>9, <1>12, <1>13, <1>14

\* A record orphaned by the sweep, by a create in its way or by the restart of its node.
LEMMA OrphanHolds ==
    ASSUME HoldInv, NEW o \in Operations, Unfinished(o), OnlyRec(o), rec'[o] = orphan(o, rec[o]),
           UNCHANGED <<run, bar, inForce, cancel>>
    PROVE  OpOK(o)'
  <1>0. rec[o] \in RecType  BY DEF HoldInv, RunInv, StoreInv, Types, StoreTypes
  <1>1. /\ rec'[o].barrier = rec[o].barrier
        /\ carriesOn(o, rec[o]) => rec'[o].status = "blocked" /\ rec'[o].phase = rec[o].phase
        /\ ~carriesOn(o, rec[o]) => rec'[o].status = "failed"
    BY SMTT(30), <1>0, OrphanFacts
  <1>2. Exists(o)'  BY <1>1 DEF Exists
  <1>3. CASE carriesOn(o, rec[o])
    <2>1. o \in Fenced /\ FencedOK(o)  BY <1>3 DEF carriesOn, HoldInv
    <2>2. Unfinished(o)' /\ ~Terminal(rec'[o])  BY <1>1, <1>2, <1>3 DEF Unfinished, Terminal
    <2>3. PcPart(o)'  BY <2>1 DEF FencedOK, PcPart, PcsOf, Runs
    <2>4. LivePart(o)'
      <3> SUFFICES ASSUME NEW m \in Nodes, Live(m, o)'
                   PROVE  LiveAt(run'[m][o].pc, run'[m][o].barrier, rec'[o].barrier, rec'[o].phase, Unfinished(o)')
        BY DEF LivePart
      <3>1. LiveAt(run[m][o].pc, run[m][o].barrier, rec[o].barrier, rec[o].phase, Unfinished(o))
        BY <2>1 DEF FencedOK, LivePart, Live, Runs
      <3> QED BY <1>1, <1>3, <2>2, <3>1 DEF LiveAt
    <2>5. HoldPart(o)' /\ KeptPart(o)'
      BY ZenonT(40), <1>1, <1>2, <2>1, <2>2 DEF FencedOK, HoldPart, KeptPart, On, Kept, Live, Runs, Unfinished
    <2>6. EndPart(o)' /\ HonestPart(o)'  BY ZenonT(40), <2>1, <2>2, NotEnding DEF EndPart, HonestPart
    <2> QED BY <2>1, <2>3, <2>4, <2>5, <2>6 DEF FencedOK, OpOK
  <1>4. CASE o \in Fenced /\ ~carriesOn(o, rec[o])
    <2>1. FencedOK(o) /\ rec[o].barrier = "none"  BY <1>4 DEF carriesOn, HoldInv
    <2>2. ~Unfinished(o)' /\ Terminal(rec'[o])  BY <1>1, <1>2, <1>4 DEF Unfinished, Terminal
    <2>3. ~On(o) /\ o \notin inForce /\ cancel[o].stage \notin Ending
      BY <2>1, NotEnding DEF FencedOK, HoldPart, KeptPart
    <2>4. ASSUME NEW m \in Nodes, Live(m, o)  PROVE run[m][o].pc \in {"start", "precondition"}
      <3>1. LiveAt(run[m][o].pc, run[m][o].barrier, rec[o].barrier, rec[o].phase, Unfinished(o))
        BY <2>1, <2>4 DEF FencedOK, LivePart
      <3>2. run[m][o].pc \in Pcs \ {"handler", "idle"}  BY <1>4, <2>1, <2>4 DEF FencedOK, PcPart, PcsOf, Live, Runs
      <3> QED BY <2>1, <3>1, <3>2 DEF LiveAt, Pcs
    <2>5. PcPart(o)' /\ LivePart(o)'  BY ZenonT(40), <2>1, <2>2, <2>4, EndedRuns DEF Live, Runs
    <2>6. HoldPart(o)' /\ KeptPart(o)'
      BY ZenonT(40), <1>1, <2>1, <2>2, <2>3, <2>4 DEF HoldPart, KeptPart, On, Live, Runs
    <2>7. EndPart(o)' /\ HonestPart(o)'  BY <2>3 DEF EndPart, HonestPart
    <2> QED BY <1>4, <2>5, <2>6, <2>7 DEF FencedOK, OpOK
  <1>5. CASE o \notin Fenced
    BY <1>1, <1>5 DEF HoldInv, ShortOK, OpOK, PcPart, PcsOf, On, Live, Runs, Exists, Unfinished
  <1> QED BY <1>3, <1>4, <1>5

\* A record taken over.
LEMMA TakenHolds ==
    ASSUME HoldInv, NEW n \in Nodes, NEW o \in Operations, Unfinished(o), Idles(o), carriesOn(o, rec[o]),
           Taken(n, o), UNCHANGED <<bar, inForce, cancel>>
    PROVE  OpOK(o)'
  <1>1. o \in Fenced /\ FencedOK(o) /\ rec[o].barrier \in {"intent", "held", "committed"}
    BY DEF carriesOn, HoldInv, RunInv, StoreInv, Types, StoreTypes, RecType, Barriers
  <1>2. /\ rec'[o].status = "running" /\ rec'[o].barrier = rec[o].barrier /\ OnlyRun(n, o)
        /\ run'[n][o].barrier = rec[o].barrier
        /\ run'[n][o].pc = CASE rec[o].barrier = "intent" -> "hold" [] rec[o].barrier = "held" -> "carried"
                             [] OTHER -> "succeed"
    BY DEF Taken
  <1>3. Exists(o)' /\ Unfinished(o)' /\ ~Terminal(rec'[o])  BY <1>2 DEF Exists, Unfinished, Terminal
  <1>4. \A m \in Nodes : Runs(m, o)' => m = n  BY <1>2 DEF Idles, OnlyRun, Runs
  <1>5. \/ rec[o].barrier = "intent" /\ run'[n][o].pc = "hold"
        \/ rec[o].barrier = "held" /\ run'[n][o].pc = "carried"
        \/ rec[o].barrier = "committed" /\ run'[n][o].pc = "succeed"
    BY <1>1, <1>2
  <1>6. PcPart(o)'  BY <1>1, <1>4, <1>5 DEF PcPart, PcsOf, Pcs
  <1>7. LivePart(o)'
    <2>1. LiveAt(run'[n][o].pc, run'[n][o].barrier, rec'[o].barrier, rec'[o].phase, Unfinished(o)')
      BY <1>2, <1>3, <1>5 DEF LiveAt
    <2> QED BY <1>4, <2>1 DEF LivePart, Live
  <1>8. HoldPart(o)'  BY ZenonT(40), <1>1, <1>2, <1>3, <1>4, <1>5 DEF FencedOK, HoldPart, On, Live
  <1>9. KeptPart(o)'  BY ZenonT(40), <1>1, <1>2, <1>3, <1>4, <1>5 DEF FencedOK, KeptPart, Kept, On, Live, Unfinished
  <1>10. EndPart(o)' /\ HonestPart(o)'  BY <1>1, <1>3, NotEnding DEF EndPart, HonestPart
  <1> QED BY ZenonT(40), <1>1, <1>6, <1>7, <1>8, <1>9, <1>10 DEF FencedOK, OpOK
-----------------------------------------------------------------------------
(* Every step keeps the invariant. *)

\* A step about one operation.
OnlyOp(o) == \A p \in Operations \ {o} : /\ rec'[p] = rec[p] /\ cancel'[p] = cancel[p]
                                         /\ \A n \in Nodes : run'[n][p] = run[n][p]
\* A step about one operation, put together: the others are as they were.
LEMMA Assemble ==
    ASSUME HoldInv, NEW o \in Operations, OnlyOp(o), OpOK(o)',
           \/ bar' = bar
           \/ bar' = [bar EXCEPT ![Scope[o]] = None] /\ bar[Scope[o]] = o
           \/ bar' = [bar EXCEPT ![Scope[o]] = o] /\ bar[Scope[o]] \in {None, o},
           inForce' = inForce \/ inForce' = inForce \cup {o}
    PROVE  HoldParts'
  <1>1. \A p \in Operations \ {o} : OpSame(p)  BY OthersSame DEF OnlyOp
  <1>2. \A p \in Operations : OpOK(p)'  BY <1>1, SameOK
  <1>3. bar \in [Resources -> SomeOperation] /\ Scope[o] \in Resources
    BY InResources DEF HoldInv, RunInv, StoreInv, Types, DirectoryTypes
  <1>4. BarOK'  BY ZenonT(40), <1>3 DEF HoldInv, BarOK
  <1> QED BY <1>2, <1>4 DEF HoldParts

\* A step that leaves the records and the directory's barriers alone.
LEMMA AssembleSame ==
    ASSUME HoldInv, UNCHANGED <<rec, bar, inForce>>,
           \A n \in Nodes, o \in Operations : run'[n][o] = run[n][o] \/ run'[n][o] = Idle,
           \A o \in Operations :
                \/ cancel'[o] = cancel[o]
                \/ cancel'[o].stage \notin Ending /\ (cancel[o].stage \notin Ending \/ "cancelcrash" \in Faults)
    PROVE  HoldParts'
  <1>1. ASSUME NEW o \in Operations  PROVE OpOK(o)'
    <2>1. PcPart(o)  BY DEF HoldInv, FencedOK, ShortOK
    <2>2. \A n \in Nodes : Runs(n, o)' => Runs(n, o) /\ run'[n][o] = run[n][o]  BY Blanks DEF Runs
    <2>3. OpSame(o)  BY <2>1, <2>2 DEF OpSame, PcPart, PcsOf, On, Live
    <2> QED BY <2>3, SameOK
  <1>2. BarOK'  BY DEF HoldInv, BarOK
  <1> QED BY <1>1, <1>2 DEF HoldParts

\* The steps of the runs.
LEMMA StepHolds ==
    ASSUME Sheltered, HoldInv, NEW n \in Nodes, NEW o \in Operations, Step(n, o)
    PROVE  HoldParts'
  <1>0. Types  BY DEF HoldInv, RunInv, StoreInv
  <1>1. OnlyRun(n, o) /\ cancel' = cancel /\ (UNCHANGED store \/ OnlyRec(o))
    <2>1. ASSUME NEW s, NEW ph, NEW e, NEW b, NEW pc, NEW mine, Put(n, o, s, ph, e, b, pc, mine)
          PROVE  OnlyRun(n, o) /\ (UNCHANGED store \/ OnlyRec(o))
      BY <2>1 DEF Put, Wrote, Lost, Skipped
    <2>2. CASE running(n, o)  BY ZenonT(40), <1>0, <2>1, <2>2, RunningEffect DEF requests
    <2>3. CASE Handler(n, o)  BY <1>0, <2>3, HandlerEffect DEF requests, RunTo
    <2>4. CASE Intent(n, o)  BY ZenonT(40), <1>0, <2>1, <2>4, IntentEffect DEF requests
    <2>5. CASE Hold(n, o)  BY <1>0, <2>5, HoldEffect DEF requests, RunTo, Stopped
    <2>6. CASE Held(n, o)  BY <1>0, <2>1, <2>6, HeldEffect DEF requests
    <2>7. CASE Carried(n, o)  BY ZenonT(40), <1>0, <2>1, <2>7, CarriedEffect DEF requests
    <2>8. CASE Blocked(n, o)  BY ZenonT(40), <1>0, <2>1, <2>8, BlockedEffect DEF requests, Stopped, OnlyRun
    <2>9. CASE Drained(n, o)  BY ZenonT(40), <1>0, <2>1, <2>9, DrainedEffect DEF requests, Stopped
    <2>10. CASE Commit(n, o)  BY ZenonT(40), <1>0, <2>10, CommitEffect DEF requests, RunTo, Stopped
    <2>11. CASE Committed(n, o)  BY ZenonT(40), <1>0, <2>1, <2>11, CommittedEffect DEF requests
    <2>12. CASE finish(n, o)  BY <1>0, <2>1, <2>12, FinishEffect DEF requests
    <2> QED BY ZenonT(40), <2>2, <2>3, <2>4, <2>5, <2>6, <2>7, <2>8, <2>9, <2>10, <2>11, <2>12 DEF Step
  <1>2. OnlyOp(o)  BY <1>1 DEF OnlyOp, OnlyRun, OnlyRec, store
  <1>3. CASE o \notin Fenced
    <2>1. OpOK(o)' /\ bar' = bar /\ (inForce' = inForce \/ inForce' = inForce \cup {o})  BY <1>3, ShortHolds
    <2> QED BY <1>2, <2>1, Assemble
  <1>4. CASE o \in Fenced
    <2>1. ~Handler(n, o)  BY <1>4 DEF HoldInv, FencedOK, PcPart, PcsOf, Handler, At, Runs
    <2>2. OpOK(o)'
      BY ZenonT(40), <1>4, <2>1, PutSteps, BlockedHolds, HoldHolds, CommitHolds, FinishHolds DEF Step
    <2>3. /\ \/ bar' = bar
             \/ bar' = [bar EXCEPT ![Scope[o]] = None] /\ bar[Scope[o]] = o
             \/ bar' = [bar EXCEPT ![Scope[o]] = o] /\ bar[Scope[o]] \in {None, o}
          /\ inForce' = inForce \/ inForce' = inForce \cup {o}
      <3>1. CASE Hold(n, o)  BY <1>0, <3>1, HoldEffect DEF directory
      <3>2. CASE Commit(n, o)  BY <1>0, <3>2, CommitEffect DEF directory
      <3>3. CASE ~Hold(n, o) /\ ~Commit(n, o)
        BY ZenonT(40), <1>0, <2>1, <3>3, RunningEffect, IntentEffect, HeldEffect, CarriedEffect, BlockedEffect, DrainedEffect,
           CommittedEffect, FinishEffect DEF Step, directory
      <3> QED BY <3>1, <3>2, <3>3
    <2> QED BY <1>2, <2>2, <2>3, Assemble
  <1> QED BY <1>3, <1>4

\* The steps of a request.
LEMMA RequestHolds ==
    ASSUME Sheltered, HoldInv, NEW o \in Operations, Request(o)
    PROVE  HoldParts'
  <1>0. Types /\ RunInv  BY DEF HoldInv, RunInv, StoreInv
  <1>1. CASE CreateRead(o) \/ CreateRefused(o)
    <2>1. /\ UNCHANGED Others
          /\ \/ UNCHANGED store
             \/ \E x \in Operations : Reaped(creating[o].node, x)
             \/ \E x \in Operations : Released(x)
      BY <1>0, <1>1, CreateReadEffect, CreateRefusedEffect
    <2>2. UNCHANGED <<run, bar, inForce, cancel>>  BY <2>1 DEF Others, directory
    <2>3. CASE rec' = rec  BY <2>2, <2>3, AssembleSame
    <2>4. ASSUME NEW x \in Operations, Reaped(creating[o].node, x)  PROVE HoldParts'
      <3>1. OpOK(x)' /\ OnlyRec(x)  BY <2>2, <2>4, OrphanHolds DEF Reaped, Reapable
      <3>2. OnlyOp(x)  BY <2>2, <3>1 DEF OnlyOp, OnlyRec
      <3> QED BY <2>2, <3>1, <3>2, Assemble
    <2> QED BY <2>1, <2>3, <2>4 DEF Released, store
  <1>2. CASE CreateCommit(o)
    <2>1. creating[o].node \in Nodes  BY <1>2 DEF CreateCommit, HoldInv, RunInv, StoreInv, AskedOK
    <2>2. /\ UNCHANGED <<directory, nodes, cancel, taking, seen>> /\ StoreTypes' /\ RunTypes' /\ RequestTypes'
          /\ creating[o].stage = "read" /\ Compares(o) /\ Created(creating[o].node, o)
      BY ZenonT(40), <1>0, <1>2, <2>1, CreateCommitEffect
    <2>3. StoreInv /\ Types'
      <3>1. DirectoryTypes' /\ NodeTypes'
        BY <1>0, <2>2 DEF Types, DirectoryTypes, NodeTypes, directory, nodes
      <3> QED BY <1>0, <2>2, <3>1 DEF Types, RunInv
    <2>4. ~Made(o)  BY ZenonT(40), <2>1, <2>2, <2>3, CreateStep DEF Sheltered
    <2>5. UNCHANGED <<bar, inForce, cancel>>  BY <2>2 DEF directory
    <2>6. OpOK(o)'  BY ZenonT(40), <2>1, <2>2, <2>4, <2>5, CreatedHolds
    <2>7. OnlyOp(o)  BY <2>2, <2>5 DEF OnlyOp, Created, OnlyRun
    <2> QED BY <2>5, <2>6, <2>7, Assemble
  <1>3. CASE CancelEnd(o)
    <2>1. cancel[o].node \in Nodes  BY <1>3 DEF CancelEnd, HoldInv, RunInv, StoreInv, AskedOK
    <2>2. /\ UNCHANGED <<directory, nodes, creating, taking, seen, dropping>> /\ cancel[o].stage = "asked"
          /\ \/ Cancelled(o) /\ RunsTold(o)
             \/ UNCHANGED <<store, run>> /\ OnlyCancel(o) /\ cancel'[o] = NoCancel
      BY ZenonT(40), <1>0, <1>3, <2>1, CancelEndEffect
    <2>3. UNCHANGED <<bar, inForce>>  BY <2>2 DEF directory
    <2>4. CASE Cancelled(o) /\ RunsTold(o)
      <3>1. OpOK(o)'  BY <2>2, <2>3, <2>4, CancelledHolds
      <3>2. OnlyOp(o)  BY <2>4 DEF OnlyOp, Cancelled, OnlyRec, OnlyCancel, RunsTold
      <3> QED BY <2>3, <3>1, <3>2, Assemble
    <2>5. CASE UNCHANGED <<store, run>> /\ OnlyCancel(o) /\ cancel'[o] = NoCancel
      <3>1. cancel[o].stage \notin Ending /\ cancel'[o].stage \notin Ending  BY <2>2, <2>5, Blanks DEF Ending
      <3> QED BY ZenonT(40), <2>3, <2>5, <3>1, AssembleSame DEF store, OnlyCancel
    <2> QED BY <2>2, <2>4, <2>5
  <1>4. CASE CancelCarried(o) \/ releaseHold(o) \/ correctCommitted(o)
    <2>1. OpOK(o)'  BY <1>4, EndingHolds
    <2>2. OnlyOp(o)
      BY SMTT(30), <1>0, <1>4, CancelCarriedEffect, ReleaseHoldEffect, CorrectCommittedEffect
         DEF OnlyOp, OnlyCancel, Corrected, OnlyRec, store
    <2>3. /\ bar' = bar \/ (bar' = [bar EXCEPT ![Scope[o]] = None] /\ bar[Scope[o]] = o)
          /\ inForce' = inForce
      BY <1>0, <1>4, CancelCarriedEffect, ReleaseHoldEffect, CorrectCommittedEffect DEF directory
    <2> QED BY ZenonT(40), <2>1, <2>2, <2>3, Assemble
  <1> QED BY ZenonT(40), <1>1, <1>2, <1>3, <1>4 DEF Request

\* The requests as they arrive.
LEMMA AskHolds ==
    ASSUME Sheltered, HoldInv, NEW n \in Nodes, NEW o \in Operations, Ask(n, o)
    PROVE  HoldParts'
  <1>0. Types /\ RunInv  BY DEF HoldInv, RunInv, StoreInv
  <1>1. CASE CreateAsk(n, o)
    <2>1. UNCHANGED <<store, directory, run, cancel>>  BY <1>0, <1>1, CreateAskEffect
    <2> QED BY <2>1, AssembleSame DEF store, directory
  <1>2. CASE CancelAsk(n, o)
    <2>1. /\ UNCHANGED <<store, directory, run>> /\ OnlyCancel(o)
          /\ cancel[o].stage \notin Ending /\ cancel'[o].stage \notin Ending
      BY ZenonT(40), <1>0, <1>2, CancelAskEffect DEF Ending
    <2> QED BY <2>1, AssembleSame DEF store, directory, OnlyCancel
  <1>3. CASE ResumeAsk(n, o)
    <2>1. UNCHANGED <<store, directory, run, cancel>>  BY ZenonT(40), <1>0, <1>3, ResumeAskEffect
    <2> QED BY <2>1, AssembleSame DEF store, directory
  <1>4. CASE releaseCanceled(n, o)
    <2>1. /\ UNCHANGED <<inForce, store, run, requests>> /\ bar[Scope[o]] = o
          /\ bar' = [bar EXCEPT ![Scope[o]] = None]
      BY <1>0, <1>4, ReleaseCanceledEffect
    <2>2. OpOK(o)'  BY <1>4, EndingHolds
    <2>3. OnlyOp(o)  BY <2>1 DEF OnlyOp, store, requests
    <2> QED BY <2>1, <2>2, <2>3, Assemble
  <1> QED BY <1>1, <1>2, <1>3, <1>4 DEF Ask

\* The takeovers.
LEMMA TakerHolds ==
    ASSUME HoldInv, NEW n \in Nodes, NEW o \in Operations,
           ResumeOwn(n, o) \/ (ResumeTake(n) /\ ~UNCHANGED <<store, run>> /\ taking[n].op = o)
    PROVE  HoldParts'
  <1>1. /\ Unfinished(o) /\ Idles(o) /\ carriesOn(o, rec[o]) /\ Taken(n, o) /\ UNCHANGED <<directory, cancel>>
    BY TakerFinds DEF HoldInv
  <1>2. UNCHANGED <<bar, inForce, cancel>>  BY <1>1 DEF directory
  <1>3. OpOK(o)'  BY <1>1, <1>2, TakenHolds
  <1>4. OnlyOp(o)  BY <1>1 DEF OnlyOp, Taken, OnlyRec, OnlyRun
  <1> QED BY <1>2, <1>3, <1>4, Assemble

\* The sweep's read and the restart's look at the node's own records.
LEMMA CareHolds ==
    ASSUME HoldInv, NEW n \in Nodes, NEW o \in Operations, Care(n, o)
    PROVE  HoldParts'
  <1>0. Types /\ RunInv  BY DEF HoldInv, RunInv, StoreInv
  <1>1. CASE SweepRead(n, o)
    <2>1. UNCHANGED <<store, directory, run, cancel>>  BY <1>0, <1>1, SweepReadEffect
    <2> QED BY <2>1, AssembleSame DEF store, directory
  <1>2. CASE FailOrphans(n, o)
    <2>1. UNCHANGED <<directory, run, requests>> /\ Failed(o)  BY ZenonT(40), <1>0, <1>2, FailOrphansEffect
    <2>2. UNCHANGED <<run, bar, inForce, cancel>>  BY <2>1 DEF directory, requests
    <2>3. OpOK(o)' /\ OnlyRec(o)  BY ZenonT(40), <2>1, <2>2, OrphanHolds DEF Failed
    <2>4. OnlyOp(o)  BY <2>2, <2>3 DEF OnlyOp, OnlyRec
    <2> QED BY ZenonT(40), <2>2, <2>3, <2>4, Assemble
  <1>3. CASE ResumeOwn(n, o)  BY <1>3, TakerHolds
  <1> QED BY ZenonT(40), <1>1, <1>2, <1>3 DEF Care

\* The steps of a node.
LEMMA NodeHolds ==
    ASSUME Sheltered, HoldInv, NEW n \in Nodes, Node(n)
    PROVE  HoldParts'
  <1>0. Types /\ RunInv  BY DEF HoldInv, RunInv, StoreInv
  <1>1. CASE Trim(n)
    <2>1. /\ UNCHANGED <<directory, run, cancel>>
          /\ \A o \in Operations : rec'[o] = IF o \in dropping[n] THEN NoRecord ELSE rec[o]
      BY <1>0, <1>1, TrimEffect
    <2>2. UNCHANGED <<bar, inForce>>  BY <2>1 DEF directory
    <2>3. \A o \in Fenced : rec'[o] = rec[o]
      BY <2>1, OperationsKnown DEF Sheltered, HoldInv, RunInv, StoreInv, DropOK
    <2>4. ASSUME NEW o \in Operations, o \in Fenced  PROVE OpOK(o)'
      <3>1. OpSame(o)
        BY ZenonT(40), <2>1, <2>2, <2>3, <2>4 DEF OpSame, On, Live, Runs, HoldInv, FencedOK, PcPart, PcsOf
      <3> QED BY <3>1, SameOK
    <2>5. ASSUME NEW o \in Operations, o \notin Fenced  PROVE OpOK(o)'
      <3>1. Exists(o)' => rec'[o] = rec[o] /\ Exists(o)  BY <2>1, Blanks DEF Exists
      <3>2. ShortOK(o)  BY <2>5 DEF HoldInv
      <3> QED BY ZenonT(40), <2>1, <2>2, <2>5, <3>1, <3>2 DEF OpOK, ShortOK, PcPart, PcsOf, On, Live, Runs
    <2>6. BarOK'  BY <2>2 DEF HoldInv, BarOK
    <2> QED BY ZenonT(40), <2>4, <2>5, <2>6 DEF HoldParts
  <1>2. CASE SweepWrite(n)
    <2>1. /\ UNCHANGED <<directory, run, cancel>> /\ seen[n].op \in Operations
          /\ UNCHANGED store \/ Swept(seen[n].op, seen[n].rec)
      BY ZenonT(40), <1>0, <1>2, SweepWriteEffect
    <2>2. UNCHANGED <<run, bar, inForce, cancel>>  BY <2>1 DEF directory
    <2>3. ASSUME Swept(seen[n].op, seen[n].rec)  PROVE HoldParts'
      <3>1. PICK x \in Operations : x = seen[n].op  BY <2>1
      <3>2. seen[n].rec = rec[x] /\ Unfinished(x)  BY <2>3, <3>1 DEF Swept, HoldInv, RunInv, StoreInv, SeenOK
      <3>3. OpOK(x)' /\ OnlyRec(x)  BY ZenonT(40), <2>2, <2>3, <3>1, <3>2, OrphanHolds DEF Swept
      <3>4. OnlyOp(x)  BY <2>2, <3>3 DEF OnlyOp, OnlyRec
      <3> QED BY <2>2, <3>3, <3>4, Assemble
    <2> QED BY ZenonT(40), <2>1, <2>2, <2>3, AssembleSame DEF store
  <1>3. CASE ResumeTake(n) /\ ~UNCHANGED <<store, run>>
    <2>1. PICK o \in Operations : taking[n].op = o  BY <1>0, <1>3, ResumeTakeEffect
    <2> QED BY <1>3, <2>1, TakerHolds
  <1>4. CASE ResumeTake(n) /\ UNCHANGED <<store, run>>
    <2>1. UNCHANGED <<directory, cancel>>  BY <1>0, <1>4, ResumeTakeEffect
    <2> QED BY <1>4, <2>1, AssembleSame DEF store, directory
  <1>5. CASE Crash(n)
    <2>1. UNCHANGED <<store, directory>> /\ Crashed(n)  BY <1>0, <1>5, CrashEffect
    <2>2. \A m \in Nodes, o \in Operations : run'[m][o] = run[m][o] \/ run'[m][o] = Idle  BY ZenonT(40), <2>1 DEF Crashed
    <2>3. \A o \in Operations :
                \/ cancel'[o] = cancel[o]
                \/ cancel'[o].stage \notin Ending /\ (cancel[o].stage \notin Ending \/ "cancelcrash" \in Faults)
      BY <2>1, Blanks DEF Crashed, Ending
    <2> QED BY <2>1, <2>2, <2>3, AssembleSame DEF store, directory
  <1>6. CASE Lapse(n) \/ Restart(n) \/ Started(n)
    <2>1. UNCHANGED <<store, directory, run, requests>>
      BY ZenonT(40), <1>0, <1>6, LapseEffect, RestartEffect, StartedEffect
    <2> QED BY <2>1, AssembleSame DEF store, directory, requests
  <1> QED BY ZenonT(40), <1>1, <1>2, <1>3, <1>4, <1>5, <1>6 DEF Node

\* The invariant holds at the start.
LEMMA HoldInit ==
    ASSUME Init
    PROVE  HoldInv
  <1>1. RunInv  BY RunInit
  <1>2. PICK i, d, e : i = Idle /\ d = NoCancel /\ e = NoRecord  OBVIOUS
  <1>3. i.pc = "idle" /\ d.stage = "none" /\ e.status = "absent"  BY <1>2, Blanks
  <1>4. /\ rec = [o \in Operations |-> e] /\ bar = [r \in Resources |-> None] /\ inForce = {}
        /\ run = [n \in Nodes |-> [o \in Operations |-> i]] /\ cancel = [o \in Operations |-> d]
    BY <1>2 DEF Init
  <1>5. ASSUME NEW o \in Operations
        PROVE  ~On(o) /\ o \notin inForce /\ ~Exists(o) /\ (\A n \in Nodes : ~Runs(n, o)) /\ cancel[o].stage \notin Ending
    BY ZenonT(40), <1>3, <1>4, InResources, OperationsKnown DEF On, Exists, Runs, Ending
  <1>6. \A o \in Operations : FencedOK(o)
    BY <1>5 DEF FencedOK, PcPart, LivePart, HoldPart, KeptPart, EndPart, HonestPart, Live, Unfinished
  <1>7. \A o \in Operations : ShortOK(o)  BY <1>5 DEF ShortOK, PcPart, Live
  <1>8. BarOK  BY <1>4 DEF BarOK
  <1> QED BY ZenonT(40), <1>1, <1>6, <1>7, <1>8, OperationsKnown DEF HoldInv

\* Every step keeps the invariant.
LEMMA HoldInvStep ==
    ASSUME Sheltered, HoldInv, [Next]_vars
    PROVE  HoldInv'
  <1>1. RunInv'  BY RunInvStep DEF Sheltered, HoldInv
  <1>2. HoldParts'
    <2>1. CASE UNCHANGED vars
      <3>1. UNCHANGED <<rec, bar, inForce, run, cancel>>  BY <2>1 DEF vars, store, directory, requests
      <3> QED BY <3>1, AssembleSame
    <2>2. CASE Next
      BY ZenonT(40), <2>2, RequestHolds, NodeHolds, StepHolds, CareHolds, AskHolds DEF Next
    <2> QED BY <2>1, <2>2
  <1> QED BY <1>1, <1>2, OperationsKnown DEF HoldInv, HoldParts, OpOK

\* The records, runs and cancellations of a drain barrier stand together as fence.go, barrier.go and
\* ops.go mean them to, in every state.
THEOREM BarrierRecords == Sheltered => (Spec => []HoldInv)
  <1> SUFFICES ASSUME Sheltered  PROVE Spec => []HoldInv  OBVIOUS
  <1>1. Init => HoldInv  BY HoldInit
  <1>2. HoldInv /\ [Next]_vars => HoldInv'  BY HoldInvStep
  <1> QED BY <1>1, <1>2, PTL DEF Spec

\* A hold in the directory always has a record that leads to its end, whatever crash, sweep, resume
\* or cancellation comes between the record's intent, the hold and the commit.
THEOREM HoldsHaveRecords == Sheltered => (Spec => []HoldOwned)
  <1> SUFFICES ASSUME Sheltered  PROVE Spec => []HoldOwned  OBVIOUS
  <1>1. HoldInv => HoldOwned
    <2> SUFFICES ASSUME HoldInv, NEW r \in Resources, bar[r] # None
                 PROVE  Exists(bar[r]) /\ rec[bar[r]].barrier # "none"
                        /\ (Unfinished(bar[r]) \/ rec[bar[r]].status = "cancelled")
      BY DEF HoldOwned
    <2>1. PICK o \in Operations : o = bar[r]
      BY DEF HoldInv, RunInv, StoreInv, Types, DirectoryTypes, SomeOperation
    <2>2. On(o)  BY <2>1 DEF HoldInv, BarOK, On
    <2>3. o \in Fenced  BY <2>2 DEF HoldInv, ShortOK
    <2> QED BY ZenonT(40), <2>1, <2>2, <2>3 DEF HoldInv, FencedOK, HoldPart
  <1> QED BY <1>1, BarrierRecords, PTL

\* What the record of a canceled barrier operation says of its effect is true: a change the owner
\* committed before the cancellation ended the record is corrected, and only such a one.
THEOREM CancelsSpeakTrue == Sheltered /\ "cancelcrash" \notin Faults => (Spec => []CancelTrue)
  <1> SUFFICES ASSUME Sheltered, "cancelcrash" \notin Faults  PROVE Spec => []CancelTrue  OBVIOUS
  <1>1. HoldInv => CancelTrue
    BY DEF HoldInv, FencedOK, HonestPart, KeptPart, CancelTrue, CancelHonest, EffectHonestOf, CorrectionTrue, Ending
  <1> QED BY <1>1, BarrierRecords, PTL

\* correctCommitted writes that a change is in force only when it is, also when cancellations crash.
THEOREM CorrectionsSpeakTrue == Sheltered => (Spec => []CorrectionTrue)
  <1> SUFFICES ASSUME Sheltered  PROVE Spec => []CorrectionTrue  OBVIOUS
  <1>1. HoldInv => CorrectionTrue  BY DEF HoldInv, FencedOK, KeptPart, CorrectionTrue
  <1> QED BY <1>1, BarrierRecords, PTL
=============================================================================
