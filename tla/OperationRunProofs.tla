------------------------- MODULE OperationRunProofs -------------------------
(***************************************************************************)
(* OperationRecords: the runs.  Who runs an operation is the owner of its  *)
(* record, and who takes a record over finds no run of it left.            *)
(***************************************************************************)
EXTENDS OperationStoreProofs

\* First-order leaves are Zenon's; a leaf that needs arithmetic or records names SMT.
USE ZenonT(30)

\* No node runs o.
Idles(o) == \A m \in Nodes : ~Runs(m, o)

\* A process that is up is seen alive, and only such a one runs operations and asks for them.
NodesOK ==
    /\ \A n \in Nodes : up[n] # "down" => alive[n]
    /\ \A n \in Nodes, o \in Operations : Runs(n, o) => up[n] # "down" /\ Made(o)
    /\ \A o \in Operations : creating[o].stage \in {"asked", "read"} => up[creating[o].node] # "down"
    /\ \A n \in Nodes : taking[n].op # None => up[n] # "down"
\* Who runs an unfinished operation is the owner its record names, in the record's term.
OwnerOK == \A n \in Nodes, o \in Operations : Runs(n, o) /\ Unfinished(o) => Owns(n, o)
\* While the record has the owner a resume or a cancellation read, the run that owner stopped is not back.
TakeOK == \A n \in Nodes : \A o \in Operations : taking[n].op = o =>
    /\ Made(o)
    /\ Exists(o) => taking[n].term <= rec[o].term
    /\ Unfinished(o) /\ rec[o].node = taking[n].from /\ rec[o].term = taking[n].term =>
            Idles(o) /\ carriesOn(o, rec[o])
CancelOK == \A o \in Operations : cancel[o].stage = "asked" =>
    /\ Made(o)
    /\ Exists(o) => cancel[o].term <= rec[o].term
    /\ cancel[o].gone /\ Unfinished(o) /\ rec[o].node = cancel[o].from /\ rec[o].term = cancel[o].term => Idles(o)
\* The inductive invariant of the runs.
RunInv == StoreInv /\ NodesOK /\ OwnerOK /\ TakeOK /\ CancelOK /\ OneRunner

\* A step that starts no run and gives no record a new owner.
RunsCalm == \A m \in Nodes, p \in Operations : Runs(m, p)' => Runs(m, p) /\ run'[m][p].term = run[m][p].term
RecsCalm == \A o \in Operations :
    /\ Exists(o)' => Exists(o) /\ rec'[o].term = rec[o].term
    /\ Unfinished(o)' => /\ Unfinished(o) /\ rec'[o].node = rec[o].node
                         /\ Idles(o) => rec'[o].barrier = rec[o].barrier
NodesCalm ==
    /\ \A n \in Nodes : up'[n] # "down" => alive'[n]
    /\ \A n \in Nodes, o \in Operations : Runs(n, o)' => up'[n] # "down"
CreatesCalm == \A o \in Operations : creating'[o].stage \in {"asked", "read"} => up'[creating'[o].node] # "down"
TakesCalm == \A n \in Nodes : taking'[n].op # None =>
    /\ up'[n] # "down"
    /\ \/ taking'[n] = taking[n]
       \/ \E o \in Operations : /\ taking'[n].op = o /\ taking'[n].from = rec[o].node /\ taking'[n].term = rec[o].term
                                /\ Unfinished(o) /\ Idles(o) /\ carriesOn(o, rec[o]) /\ UNCHANGED store
CancelsCalm == \A o \in Operations : cancel'[o].stage = "asked" =>
    \/ cancel'[o] = cancel[o]
    \/ /\ cancel'[o].from = rec[o].node /\ cancel'[o].term = rec[o].term
       /\ Unfinished(o) /\ UNCHANGED store /\ (cancel'[o].gone => Idles(o))
Calm == RunsCalm /\ RecsCalm /\ NodesCalm /\ CreatesCalm /\ TakesCalm /\ CancelsCalm

\* A step that starts no run and gives no record a new owner keeps the invariant.
LEMMA CalmStep ==
    ASSUME RunInv, StoreInv', \A o \in Operations : Made(o) => Made(o)', Calm
    PROVE  RunInv'
  <1>0. \A o \in Operations : Idles(o) => Idles(o)'  BY DEF Calm, RunsCalm, Idles
  <1>1. NodesOK'  BY DEF RunInv, NodesOK, Calm, NodesCalm, RunsCalm, CreatesCalm, TakesCalm
  <1>2. OwnerOK'
    <2> SUFFICES ASSUME NEW n \in Nodes, NEW o \in Operations, Runs(n, o)', Unfinished(o)'  PROVE Owns(n, o)'
      BY DEF OwnerOK
    <2>1. Runs(n, o) /\ run'[n][o].term = run[n][o].term  BY DEF Calm, RunsCalm
    <2>2. Unfinished(o) /\ rec'[o].node = rec[o].node /\ rec'[o].term = rec[o].term
      BY DEF Calm, RecsCalm, Unfinished
    <2>3. Owns(n, o)  BY <2>1, <2>2 DEF RunInv, OwnerOK
    <2> QED BY <2>1, <2>2, <2>3 DEF Owns
  <1>3. TakeOK'
    <2> SUFFICES ASSUME NEW n \in Nodes, NEW o \in Operations, taking'[n].op = o
                 PROVE  /\ Made(o)'
                        /\ Exists(o)' => taking'[n].term <= rec'[o].term
                        /\ Unfinished(o)' /\ rec'[o].node = taking'[n].from /\ rec'[o].term = taking'[n].term =>
                                Idles(o)' /\ carriesOn(o, rec'[o])
      BY DEF TakeOK, carriesOn
    <2>0. taking'[n].op # None  BY OperationsKnown
    <2>1. Exists(o)' => Exists(o) /\ rec'[o].term = rec[o].term  BY DEF Calm, RecsCalm
    <2>2. /\ Unfinished(o)' => /\ Unfinished(o) /\ rec'[o].node = rec[o].node /\ rec'[o].term = rec[o].term
                               /\ Idles(o) => rec'[o].barrier = rec[o].barrier
      BY <2>1 DEF Calm, RecsCalm, Unfinished
    <2>3. CASE taking'[n] = taking[n]
      <3>1. /\ Made(o)
            /\ Exists(o) => taking[n].term <= rec[o].term
            /\ Unfinished(o) /\ rec[o].node = taking[n].from /\ rec[o].term = taking[n].term =>
                    Idles(o) /\ carriesOn(o, rec[o])
        BY <2>3 DEF RunInv, TakeOK
      <3> QED BY ZenonT(40), <1>0, <2>1, <2>2, <2>3, <3>1 DEF carriesOn
    <2>4. CASE \E p \in Operations : /\ taking'[n].op = p /\ taking'[n].term = rec[p].term
                                     /\ Unfinished(p) /\ Idles(p) /\ carriesOn(p, rec[p]) /\ UNCHANGED store
      <3>1. taking'[n].term = rec[o].term /\ Unfinished(o) /\ Idles(o) /\ carriesOn(o, rec[o]) /\ rec' = rec
        BY <2>4 DEF store
      <3>2. Made(o) /\ rec[o].term \in Nat
        BY <3>1 DEF RunInv, StoreInv, MadeOK, Unfinished, Types, StoreTypes, RecType
      <3> QED BY SMTT(30), <1>0, <3>1, <3>2
    <2> QED BY <2>0, <2>3, <2>4 DEF Calm, TakesCalm
  <1>4. CancelOK'
    <2> SUFFICES ASSUME NEW o \in Operations, cancel'[o].stage = "asked"
                 PROVE  /\ Made(o)'
                        /\ Exists(o)' => cancel'[o].term <= rec'[o].term
                        /\ cancel'[o].gone /\ Unfinished(o)' /\ rec'[o].node = cancel'[o].from
                            /\ rec'[o].term = cancel'[o].term => Idles(o)'
      BY DEF CancelOK
    <2>1. Exists(o)' => Exists(o) /\ rec'[o].term = rec[o].term  BY DEF Calm, RecsCalm
    <2>2. Unfinished(o)' => Unfinished(o) /\ rec'[o].node = rec[o].node /\ rec'[o].term = rec[o].term
      BY <2>1 DEF Calm, RecsCalm, Unfinished
    <2>3. CASE cancel'[o] = cancel[o]
      <3>1. /\ Made(o)
            /\ Exists(o) => cancel[o].term <= rec[o].term
            /\ cancel[o].gone /\ Unfinished(o) /\ rec[o].node = cancel[o].from /\ rec[o].term = cancel[o].term => Idles(o)
        BY <2>3 DEF RunInv, CancelOK
      <3> QED BY ZenonT(40), <1>0, <2>1, <2>2, <2>3, <3>1
    <2>4. CASE cancel'[o].term = rec[o].term /\ Unfinished(o) /\ UNCHANGED store /\ (cancel'[o].gone => Idles(o))
      <3>1. Made(o) /\ rec[o].term \in Nat /\ rec' = rec
        BY <2>4 DEF RunInv, StoreInv, MadeOK, Unfinished, Types, StoreTypes, RecType, store
      <3> QED BY SMTT(30), <1>0, <2>4, <3>1
    <2> QED BY <2>3, <2>4 DEF Calm, CancelsCalm
  <1>5. OneRunner'  BY DEF RunInv, OneRunner, Calm, RunsCalm
  <1> QED BY ZenonT(40), <1>1, <1>2, <1>3, <1>4, <1>5 DEF RunInv

\* A new owner's run.
LEMMA TakenStep ==
    ASSUME RunInv, StoreInv', \A p \in Operations : Made(p) => Made(p)', NEW n \in Nodes, NEW o \in Operations,
           up[n] # "down", Unfinished(o), Idles(o), Taken(n, o), UNCHANGED <<nodes, creating, cancel>>,
           \A m \in Nodes : taking'[m] = taking[m] \/ taking'[m].op = None
    PROVE  RunInv'
  <1>0. Made(o)  BY DEF RunInv, StoreInv, MadeOK, Unfinished
  <1>1. /\ \A p \in Operations \ {o} : /\ rec'[p] = rec[p] /\ (Exists(p)' <=> Exists(p)) /\ (Unfinished(p)' <=> Unfinished(p))
                                       /\ \A m \in Nodes : run'[m][p] = run[m][p] /\ (Runs(m, p)' <=> Runs(m, p))
        /\ \A m \in Nodes \ {n} : ~Runs(m, o)'
    <2>1. OnlyRec(o) /\ OnlyRun(n, o)  BY DEF Taken
    <2> QED BY <2>1 DEF OnlyRec, OnlyRun, Exists, Unfinished, Terminal, Runs, Idles
  <1>2. Exists(o)' /\ Unfinished(o)' /\ Owns(n, o)'  BY DEF Taken, Exists, Unfinished, Terminal, Owns
  <1>3. rec'[o].term = rec[o].term + 1 /\ rec[o].term \in Nat
    BY DEF Taken, RunInv, StoreInv, Types, StoreTypes, RecType
  <1>4. NodesOK'
    <2>1. UNCHANGED <<up, alive, creating>>  BY DEF nodes
    <2>2. \A m \in Nodes, p \in Operations : Runs(m, p)' => up'[m] # "down" /\ Made(p)'
      BY SMTT(30), <1>0, <1>1, <2>1 DEF RunInv, NodesOK
    <2> QED BY <2>1, <2>2 DEF RunInv, NodesOK
  <1>5. OwnerOK'
    <2> SUFFICES ASSUME NEW m \in Nodes, NEW p \in Operations, Runs(m, p)', Unfinished(p)'  PROVE Owns(m, p)'
      BY DEF OwnerOK
    <2>1. CASE p = o  BY <1>1, <1>2, <2>1
    <2>2. CASE p # o
      <3>1. Owns(m, p)  BY <1>1, <2>2 DEF RunInv, OwnerOK
      <3> QED BY <1>1, <2>2, <3>1 DEF Owns
    <2> QED BY <2>1, <2>2
  <1>6. \A p \in Operations \ {o} : Idles(p) => Idles(p)'  BY <1>1 DEF Idles
  <1>7. TakeOK'
    <2> SUFFICES ASSUME NEW m \in Nodes, NEW p \in Operations, taking'[m].op = p
                 PROVE  /\ Made(p)'
                        /\ Exists(p)' => taking'[m].term <= rec'[p].term
                        /\ Unfinished(p)' /\ rec'[p].node = taking'[m].from /\ rec'[p].term = taking'[m].term =>
                                Idles(p)' /\ carriesOn(p, rec'[p])
      BY DEF TakeOK, carriesOn
    <2>1. taking'[m] = taking[m]  BY OperationsKnown
    <2>2. /\ Made(p)
          /\ Exists(p) => taking[m].term <= rec[p].term
          /\ Unfinished(p) /\ rec[p].node = taking[m].from /\ rec[p].term = taking[m].term =>
                  Idles(p) /\ carriesOn(p, rec[p])
      BY <2>1 DEF RunInv, TakeOK
    <2>3. taking[m].term \in Nat  BY DEF RunInv, StoreInv, Types, RequestTypes, TakeType
    <2>4. CASE p = o
      <3>1. taking[m].term <= rec[o].term  BY <2>2, <2>4 DEF Unfinished
      <3> QED BY SMTT(30), <1>3, <2>1, <2>2, <2>3, <2>4, <3>1
    <2>5. CASE p # o  BY <1>1, <1>6, <2>1, <2>2, <2>5
    <2> QED BY <2>4, <2>5
  <1>8. CancelOK'
    <2> SUFFICES ASSUME NEW p \in Operations, cancel[p].stage = "asked"
                 PROVE  /\ Made(p)'
                        /\ Exists(p)' => cancel[p].term <= rec'[p].term
                        /\ cancel[p].gone /\ Unfinished(p)' /\ rec'[p].node = cancel[p].from
                            /\ rec'[p].term = cancel[p].term => Idles(p)'
      BY DEF CancelOK
    <2>2. /\ Made(p)
          /\ Exists(p) => cancel[p].term <= rec[p].term
          /\ cancel[p].gone /\ Unfinished(p) /\ rec[p].node = cancel[p].from /\ rec[p].term = cancel[p].term => Idles(p)
      BY DEF RunInv, CancelOK
    <2>3. cancel[p].term \in Nat  BY DEF RunInv, StoreInv, Types, RequestTypes, CancelType
    <2>4. CASE p = o
      <3>1. cancel[p].term <= rec[o].term  BY <2>2, <2>4 DEF Unfinished
      <3> QED BY SMTT(30), <1>3, <2>2, <2>3, <2>4, <3>1
    <2>5. CASE p # o  BY <1>1, <1>6, <2>2, <2>5
    <2> QED BY <2>4, <2>5
  <1>9. OneRunner'  BY SMTT(30), <1>1 DEF RunInv, OneRunner
  <1> QED BY ZenonT(40), <1>4, <1>5, <1>7, <1>8, <1>9 DEF RunInv

\* A created operation's first run.
LEMMA CreatedStep ==
    ASSUME RunInv, StoreInv', NEW n \in Nodes, NEW o \in Operations, up[n] # "down", ~Made(o),
           \A p \in Operations \ {o} : Made(p) => Made(p)', Created(n, o), UNCHANGED <<nodes, cancel, taking>>
    PROVE  RunInv'
  <1>1. /\ \A p \in Operations \ {o} : /\ rec'[p] = rec[p] /\ (Exists(p)' <=> Exists(p)) /\ (Unfinished(p)' <=> Unfinished(p))
                                       /\ creating'[p] = creating[p]
                                       /\ \A m \in Nodes : run'[m][p] = run[m][p] /\ (Runs(m, p)' <=> Runs(m, p))
        /\ \A m \in Nodes \ {n} : run'[m][o] = run[m][o] /\ (Runs(m, o)' <=> Runs(m, o))
    BY DEF Created, OnlyCreating, OnlyRun, Exists, Unfinished, Terminal, Runs
  <1>2. \A m \in Nodes : ~Runs(m, o)  BY DEF RunInv, NodesOK
  <1>3. Exists(o)' /\ Unfinished(o)' /\ Owns(n, o)'  BY DEF Created, Exists, Unfinished, Terminal, Owns
  <1>4. Made(o)'  BY <1>3 DEF StoreInv, MadeOK
  <1>5. NodesOK'
    <2>1. UNCHANGED <<up, alive, taking>>  BY DEF nodes
    <2>2. \A m \in Nodes, p \in Operations : Runs(m, p)' => up'[m] # "down" /\ Made(p)'
      BY ZenonT(40), <1>1, <1>2, <1>4, <2>1 DEF RunInv, NodesOK
    <2>3. \A p \in Operations : creating'[p].stage \in {"asked", "read"} => up'[creating'[p].node] # "down"
      BY SMTT(30), <1>1, <2>1 DEF RunInv, NodesOK, Created
    <2> QED BY <2>1, <2>2, <2>3 DEF RunInv, NodesOK
  <1>6. OwnerOK'
    <2> SUFFICES ASSUME NEW m \in Nodes, NEW p \in Operations, Runs(m, p)', Unfinished(p)'  PROVE Owns(m, p)'
      BY DEF OwnerOK
    <2>1. CASE p = o  BY <1>1, <1>2, <1>3, <2>1
    <2>2. CASE p # o
      <3>1. Owns(m, p)  BY <1>1, <2>2 DEF RunInv, OwnerOK
      <3> QED BY <1>1, <2>2, <3>1 DEF Owns
    <2> QED BY <2>1, <2>2
  <1>7. \A p \in Operations \ {o} : Idles(p) => Idles(p)'  BY <1>1 DEF Idles
  <1>8. TakeOK'
    <2> SUFFICES ASSUME NEW m \in Nodes, NEW p \in Operations, taking[m].op = p
                 PROVE  /\ Made(p)'
                        /\ Exists(p)' => taking[m].term <= rec'[p].term
                        /\ Unfinished(p)' /\ rec'[p].node = taking[m].from /\ rec'[p].term = taking[m].term =>
                                Idles(p)' /\ carriesOn(p, rec'[p])
      BY DEF TakeOK, carriesOn
    <2>1. /\ Made(p)
          /\ Exists(p) => taking[m].term <= rec[p].term
          /\ Unfinished(p) /\ rec[p].node = taking[m].from /\ rec[p].term = taking[m].term =>
                  Idles(p) /\ carriesOn(p, rec[p])
      BY DEF RunInv, TakeOK
    <2> QED BY <1>1, <1>7, <2>1
  <1>9. CancelOK'
    <2> SUFFICES ASSUME NEW p \in Operations, cancel[p].stage = "asked"
                 PROVE  /\ Made(p)'
                        /\ Exists(p)' => cancel[p].term <= rec'[p].term
                        /\ cancel[p].gone /\ Unfinished(p)' /\ rec'[p].node = cancel[p].from
                            /\ rec'[p].term = cancel[p].term => Idles(p)'
      BY DEF CancelOK
    <2>1. /\ Made(p)
          /\ Exists(p) => cancel[p].term <= rec[p].term
          /\ cancel[p].gone /\ Unfinished(p) /\ rec[p].node = cancel[p].from /\ rec[p].term = cancel[p].term => Idles(p)
      BY DEF RunInv, CancelOK
    <2> QED BY <1>1, <1>7, <2>1
  <1>10. OneRunner'  BY <1>1, <1>2 DEF RunInv, OneRunner
  <1> QED BY <1>5, <1>6, <1>8, <1>9, <1>10 DEF RunInv
-----------------------------------------------------------------------------
\* Parts of the state a step leaves alone.
LEMMA CalmFrames ==
    ASSUME RunInv
    PROVE  /\ UNCHANGED run => RunsCalm
           /\ UNCHANGED store => RecsCalm
           /\ RunsCalm /\ UNCHANGED nodes => NodesCalm
           /\ UNCHANGED <<creating, nodes>> => CreatesCalm
           /\ UNCHANGED <<taking, nodes>> => TakesCalm
           /\ UNCHANGED cancel => CancelsCalm
           /\ UNCHANGED <<nodes, requests>> => CreatesCalm /\ TakesCalm /\ CancelsCalm
  <1>1. UNCHANGED run => RunsCalm  BY DEF RunsCalm, Runs
  <1>2. UNCHANGED store => RecsCalm  BY DEF RecsCalm, store, Exists, Unfinished, Terminal
  <1>3. RunsCalm /\ UNCHANGED nodes => NodesCalm  BY DEF RunInv, NodesOK, NodesCalm, RunsCalm, nodes
  <1>4. UNCHANGED <<creating, nodes>> => CreatesCalm  BY DEF RunInv, NodesOK, CreatesCalm, nodes
  <1>5. UNCHANGED <<taking, nodes>> => TakesCalm  BY DEF RunInv, NodesOK, TakesCalm, nodes
  <1>6. UNCHANGED cancel => CancelsCalm  BY DEF CancelsCalm
  <1> QED BY <1>1, <1>2, <1>3, <1>4, <1>5, <1>6 DEF requests

\* One record rewritten for the owner and the term it has.
LEMMA RecCalm ==
    ASSUME RunInv, NEW o \in Operations, OnlyRec(o), Exists(o), rec'[o].term = rec[o].term,
           Unfinished(o)' => /\ Unfinished(o) /\ rec'[o].node = rec[o].node
                             /\ Idles(o) => rec'[o].barrier = rec[o].barrier
    PROVE  RecsCalm
  <1>1. \A p \in Operations \ {o} : rec'[p] = rec[p] /\ (Exists(p)' <=> Exists(p)) /\ (Unfinished(p)' <=> Unfinished(p))
    BY DEF OnlyRec, Exists, Unfinished, Terminal
  <1> QED BY <1>1 DEF RecsCalm

\* One run moved, or stopped.
LEMMA RunCalm ==
    ASSUME NEW n \in Nodes, NEW o \in Operations, Runs(n, o), OnlyRun(n, o),
           Runs(n, o)' => run'[n][o].term = run[n][o].term
    PROVE  RunsCalm
  BY DEF RunsCalm, OnlyRun, Runs

\* A write of a record by its run.
LEMMA PutCalm ==
    ASSUME RunInv, NEW n \in Nodes, NEW o \in Operations, NEW status, NEW phase, NEW effect, NEW barrier,
           NEW pc, NEW mine, Runs(n, o), Put(n, o, status, phase, effect, barrier, pc, mine)
    PROVE  RunsCalm /\ RecsCalm
  <1>1. CASE Wrote(n, o, status, phase, effect, barrier, pc, mine)
    <2>1. RunsCalm  BY <1>1, RunCalm DEF Wrote, Runs
    <2>2. ~Idles(o)  BY DEF Idles
    <2>3. /\ OnlyRec(o) /\ Exists(o) /\ Unfinished(o) /\ rec'[o].term = rec[o].term /\ rec'[o].node = rec[o].node
      BY <1>1 DEF Wrote, Owns, Unfinished
    <2>4. RecsCalm  BY <2>2, <2>3, RecCalm
    <2> QED BY <2>1, <2>4
  <1>2. CASE Lost(n, o, pc) \/ Skipped(n, o, pc)
    <2>1. RunsCalm  BY SMTT(30), <1>2, RunCalm DEF Lost, Skipped, Runs
    <2> QED BY <1>2, <2>1, CalmFrames DEF Lost, Skipped
  <1> QED BY <1>1, <1>2 DEF Put

\* The steps of a run start none and take none over.
LEMMA RunStepCalm ==
    ASSUME RunInv, NEW n \in Nodes, NEW o \in Operations, Step(n, o)
    PROVE  Calm
  <1>0. Types  BY DEF RunInv, StoreInv
  <1>1. Runs(n, o)
    BY DEF Step, running, Handler, Intent, Hold, Held, Carried, Blocked, Drained, Commit, Committed, finish, At, Runs
  <1>2. ASSUME NEW pc, NEW mine, RunTo(n, o, pc, mine)  PROVE RunsCalm
    BY <1>1, <1>2, RunCalm DEF RunTo
  <1>3. ASSUME Stopped(n, o)  PROVE RunsCalm /\ RecsCalm
    BY <1>1, <1>3, RunCalm, CalmFrames, Blanks DEF Stopped, Runs
  <1>4. RunsCalm /\ RecsCalm /\ UNCHANGED <<nodes, requests>>
    <2>1. CASE running(n, o)  BY <1>0, <1>1, <2>1, RunningEffect, PutCalm
    <2>2. CASE Handler(n, o)  BY <1>0, <1>2, <2>2, HandlerEffect, CalmFrames
    <2>3. CASE Intent(n, o)  BY <1>0, <1>1, <2>3, IntentEffect, PutCalm
    <2>4. CASE Hold(n, o)  BY <1>0, <1>2, <1>3, <2>4, HoldEffect, CalmFrames
    <2>5. CASE Held(n, o)  BY <1>0, <1>1, <2>5, HeldEffect, PutCalm
    <2>6. CASE Carried(n, o)  BY <1>0, <1>1, <2>6, CarriedEffect, PutCalm
    <2>7. CASE Blocked(n, o)  BY ZenonT(40), <1>0, <1>1, <1>3, <2>7, BlockedEffect, PutCalm, CalmFrames
    <2>8. CASE Drained(n, o)  BY <1>0, <1>1, <1>3, <2>8, DrainedEffect, PutCalm
    <2>9. CASE Commit(n, o)  BY <1>0, <1>2, <1>3, <2>9, CommitEffect, CalmFrames
    <2>10. CASE Committed(n, o)  BY <1>0, <1>1, <2>10, CommittedEffect, PutCalm
    <2>11. CASE finish(n, o)  BY <1>0, <1>1, <2>11, FinishEffect, PutCalm
    <2> QED BY ZenonT(40), <2>1, <2>2, <2>3, <2>4, <2>5, <2>6, <2>7, <2>8, <2>9, <2>10, <2>11 DEF Step
  <1> QED BY <1>4, CalmFrames DEF Calm

\* An orphaned record keeps its owner and its term.
LEMMA OrphanCalm ==
    ASSUME RunInv, NEW o \in Operations, Unfinished(o), OnlyRec(o), rec'[o] = orphan(o, rec[o])
    PROVE  RecsCalm
  <1>1. rec[o] \in RecType /\ Exists(o)  BY DEF RunInv, StoreInv, Types, StoreTypes, Unfinished
  <1>2. rec'[o].term = rec[o].term /\ rec'[o].node = rec[o].node /\ rec'[o].barrier = rec[o].barrier
    BY SMTT(30), <1>1, OrphanFacts
  <1> QED BY <1>1, <1>2, RecCalm

\* The owner whose liveness key is gone, or who is asked and does not run it, has no run.
LEMMA GoneIdles ==
    ASSUME RunInv, NEW n \in Nodes, NEW o \in Operations, Unfinished(o),
           (rec[o].node = n /\ ~Runs(n, o)) \/ ~alive[rec[o].node]
    PROVE  Idles(o)
  <1> SUFFICES ASSUME NEW m \in Nodes, Runs(m, o)  PROVE FALSE  BY DEF Idles
  <1>1. rec[o].node = m  BY DEF RunInv, OwnerOK, Owns
  <1>2. alive[m]  BY DEF RunInv, NodesOK
  <1> QED BY <1>1, <1>2

\* The requests as they arrive.
LEMMA AskCalm ==
    ASSUME RunInv, NEW n \in Nodes, NEW o \in Operations, Ask(n, o)
    PROVE  Calm
  <1>0. Types  BY DEF RunInv, StoreInv
  <1>1. CASE CreateAsk(n, o)
    <2>1. /\ UNCHANGED <<store, directory, nodes, run, cancel, taking, seen, dropping>>
          /\ OnlyCreating(o) /\ creating'[o].node = n /\ up[n] # "down"
      BY <1>0, <1>1, CreateAskEffect DEF Serving
    <2>2. CreatesCalm  BY <2>1 DEF CreatesCalm, OnlyCreating, RunInv, NodesOK, nodes
    <2> QED BY <2>1, <2>2, CalmFrames DEF Calm
  <1>2. CASE CancelAsk(n, o)
    <2>1. /\ UNCHANGED <<store, directory, nodes, run, creating, taking, seen, dropping>>
          /\ OnlyCancel(o) /\ Unfinished(o) /\ cancel'[o].term = rec[o].term /\ cancel'[o].from = rec[o].node
          /\ cancel'[o].gone => ownerGone(n, rec[o])
      BY <1>0, <1>2, CancelAskEffect
    <2>2. ownerGone(n, rec[o]) => Idles(o)  BY <2>1, GoneIdles DEF ownerGone
    <2>3. CancelsCalm  BY <2>1, <2>2 DEF CancelsCalm, OnlyCancel
    <2> QED BY <2>1, <2>3, CalmFrames DEF Calm
  <1>3. CASE ResumeAsk(n, o)
    <2>1. /\ UNCHANGED <<store, directory, nodes, run, creating, cancel, seen, dropping>>
          /\ Serving(n) /\ Resumable(n, o) /\ (rec[o].node = n \/ ~alive[rec[o].node])
          /\ \A m \in Nodes \ {n} : taking'[m] = taking[m]
          /\ taking'[n].op = o /\ taking'[n].from = rec[o].node /\ taking'[n].term = rec[o].term
      BY <1>0, <1>3, ResumeAskEffect
    <2>2. Unfinished(o) /\ Idles(o) /\ carriesOn(o, rec[o]) /\ up[n] # "down"
      BY <2>1, GoneIdles DEF Resumable, Serving
    <2>3. TakesCalm  BY <2>1, <2>2 DEF TakesCalm, RunInv, NodesOK, nodes
    <2> QED BY <2>1, <2>3, CalmFrames DEF Calm
  <1>4. CASE releaseCanceled(n, o)
    <2>1. UNCHANGED <<store, nodes, run, requests>>  BY <1>0, <1>4, ReleaseCanceledEffect
    <2> QED BY <2>1, CalmFrames DEF Calm
  <1> QED BY <1>1, <1>2, <1>3, <1>4 DEF Ask

\* The steps of a request but the create's transaction.
LEMMA RequestCalm ==
    ASSUME RunInv, NEW o \in Operations, Request(o), ~CreateCommit(o)
    PROVE  Calm
  <1>0. Types  BY DEF RunInv, StoreInv
  <1>1. CASE CreateRead(o) \/ CreateRefused(o)
    <2>1. /\ UNCHANGED Others /\ (CreateMoves(o) \/ CreateReads(o))
          /\ \/ UNCHANGED store
             \/ \E x \in Operations : Reaped(creating[o].node, x)
             \/ \E x \in Operations : Released(x)
      BY <1>0, <1>1, CreateReadEffect, CreateRefusedEffect
    <2>2. RecsCalm
      <3>1. ASSUME NEW x \in Operations, Released(x)  PROVE RecsCalm
        BY <3>1 DEF Released, RecsCalm, Exists, Unfinished
      <3>2. ASSUME NEW x \in Operations, Reaped(creating[o].node, x)  PROVE RecsCalm
        BY <3>2, OrphanCalm DEF Reaped, Reapable
      <3> QED BY <2>1, <3>1, <3>2, CalmFrames
    <2>3. CreatesCalm
      BY ZenonT(40), <2>1 DEF CreateMoves, CreateReads, CreatesCalm, OnlyCreating, RunInv, NodesOK, Others, nodes
    <2> QED BY <2>1, <2>2, <2>3, CalmFrames DEF Calm, Others
  <1>2. CASE CancelEnd(o)
    <2>1. cancel[o].node \in Nodes  BY <1>2 DEF CancelEnd, RunInv, StoreInv, AskedOK
    <2>2. /\ UNCHANGED <<directory, nodes, creating, taking, seen, dropping>>
          /\ \/ Cancelled(o) /\ RunsTold(o)
             \/ UNCHANGED <<store, run>> /\ OnlyCancel(o) /\ cancel'[o] = NoCancel
      BY <1>0, <1>2, <2>1, CancelEndEffect
    <2>3. CancelsCalm  BY <2>2, Blanks DEF CancelsCalm, Cancelled, OnlyCancel
    <2>4. CASE Cancelled(o) /\ RunsTold(o)
      <3>1. RunsCalm  BY <2>4 DEF RunsCalm, RunsTold, Runs
      <3>2. ~Unfinished(o)'  BY <2>4 DEF Cancelled, Unfinished, Terminal
      <3>3. RecsCalm  BY <2>4, <3>2, RecCalm DEF Cancelled, Unfinished
      <3> QED BY <2>2, <2>3, <3>1, <3>3, CalmFrames DEF Calm
    <2> QED BY <2>2, <2>3, <2>4, CalmFrames DEF Calm
  <1>3. CASE CancelCarried(o)
    <2>1. /\ UNCHANGED <<store, directory, nodes, run, creating, taking, seen, dropping>>
          /\ OnlyCancel(o) /\ cancel'[o].stage # "asked"
      BY <1>0, <1>3, CancelCarriedEffect, Blanks
    <2>2. CancelsCalm  BY <2>1 DEF CancelsCalm, OnlyCancel
    <2> QED BY <2>1, <2>2, CalmFrames DEF Calm
  <1>4. CASE releaseHold(o)
    <2>1. /\ UNCHANGED <<store, nodes, run, creating, taking, seen, dropping>>
          /\ OnlyCancel(o) /\ cancel'[o].stage # "asked"
      BY <1>0, <1>4, ReleaseHoldEffect, Blanks
    <2>2. CancelsCalm  BY <2>1 DEF CancelsCalm, OnlyCancel
    <2> QED BY <2>1, <2>2, CalmFrames DEF Calm
  <1>5. CASE correctCommitted(o)
    <2>1. /\ UNCHANGED <<directory, nodes, run, creating, taking, seen, dropping>>
          /\ OnlyCancel(o) /\ cancel'[o].stage # "asked" /\ (UNCHANGED store \/ Corrected(o))
      BY <1>0, <1>5, CorrectCommittedEffect, Blanks
    <2>2. CancelsCalm  BY <2>1 DEF CancelsCalm, OnlyCancel
    <2>3. ASSUME Corrected(o)  PROVE RecsCalm
      <3>1. ~Unfinished(o)'  BY <2>3 DEF Corrected, Unfinished, Terminal
      <3> QED BY <2>3, <3>1, RecCalm DEF Corrected
    <2> QED BY <2>1, <2>2, <2>3, CalmFrames DEF Calm
  <1> QED BY <1>1, <1>2, <1>3, <1>4, <1>5 DEF Request

\* The steps of a node but a takeover.
LEMMA NodeCalm ==
    ASSUME KeysOwn, "lapse" \notin Faults, RunInv, NEW n \in Nodes, Node(n), ~ResumeTake(n)
    PROVE  Calm
  <1>0. Types  BY DEF RunInv, StoreInv
  <1>1. CASE Trim(n)
    <2>1. /\ Trimmed(n) /\ UNCHANGED <<nodes, run, taking, creating, cancel>>
      BY <1>0, <1>1, TrimEffect DEF Trimmed
    <2>2. RecsCalm  BY <2>1, Blanks DEF Trimmed, RecsCalm, Exists, Unfinished, Terminal
    <2> QED BY <2>1, <2>2, CalmFrames DEF Calm
  <1>2. CASE SweepWrite(n)
    <2>1. /\ UNCHANGED <<directory, nodes, run, creating, cancel, taking, dropping>> /\ seen[n].op \in Operations
          /\ UNCHANGED store \/ Swept(seen[n].op, seen[n].rec)
      BY <1>0, <1>2, SweepWriteEffect
    <2>2. ASSUME Swept(seen[n].op, seen[n].rec)  PROVE RecsCalm
      <3>1. PICK x \in Operations : x = seen[n].op  BY <2>1
      <3>2. seen[n].rec = rec[x] /\ Unfinished(x)  BY <2>2, <3>1 DEF Swept, RunInv, StoreInv, SeenOK
      <3> QED BY ZenonT(40), <2>2, <3>1, <3>2, OrphanCalm DEF Swept
    <2> QED BY <2>1, <2>2, CalmFrames DEF Calm
  <1>3. CASE Crash(n)
    <2>1. UNCHANGED <<store, directory>> /\ Crashed(n)  BY <1>0, <1>3, CrashEffect
    <2>2. RunsCalm /\ NodesCalm
      <3>1. RunsCalm /\ \A o \in Operations : ~Runs(n, o)'  BY ZenonT(40), <2>1, Blanks DEF Crashed, RunsCalm, Runs
      <3>2. \A m \in Nodes : up'[m] # "down" => m # n /\ up[m] # "down" /\ alive'[m]
        BY SMTT(30), <2>1 DEF Crashed, RunInv, NodesOK
      <3> QED BY SMTT(30), <2>1, <3>1, <3>2 DEF Crashed, NodesCalm, RunsCalm, RunInv, NodesOK
    <2>3. CreatesCalm
      <3> SUFFICES ASSUME NEW o \in Operations, creating'[o].stage \in {"asked", "read"}
                   PROVE  up'[creating'[o].node] # "down"
        BY DEF CreatesCalm
      <3>1. creating'[o] = creating[o] /\ creating[o].node # n  BY <2>1, Blanks DEF Crashed
      <3>2. creating[o].node \in Nodes /\ up[creating[o].node] # "down"
        BY <3>1 DEF RunInv, NodesOK, StoreInv, AskedOK
      <3> QED BY SMTT(30), <2>1, <3>1, <3>2 DEF Crashed
    <2>4. TakesCalm  BY ZenonT(40), <2>1, Blanks DEF Crashed, TakesCalm, RunInv, NodesOK
    <2>5. CancelsCalm  BY <2>1, Blanks DEF Crashed, CancelsCalm
    <2> QED BY ZenonT(40), <2>1, <2>2, <2>3, <2>4, <2>5, CalmFrames DEF Calm
  <1>4. CASE Lapse(n)
    <2>1. /\ UNCHANGED <<store, directory, up, run, requests>> /\ up[n] = "down"
          /\ \A m \in Nodes \ {n} : alive'[m] = alive[m]
      BY <1>0, <1>4, LapseEffect
    <2>2. NodesCalm  BY <2>1 DEF NodesCalm, RunInv, NodesOK, Runs
    <2>3. CreatesCalm /\ TakesCalm  BY <2>1 DEF CreatesCalm, TakesCalm, RunInv, NodesOK, requests
    <2> QED BY <2>1, <2>2, <2>3, CalmFrames DEF Calm, requests
  <1>5. CASE Restart(n) \/ Started(n)
    <2>1. /\ UNCHANGED <<store, directory, run, requests>>
          /\ \A m \in Nodes : up[m] # "down" => up'[m] # "down"
          /\ \A m \in Nodes : up'[m] # "down" => alive'[m]
      BY <1>0, <1>5, RestartEffect, StartedEffect DEF RunInv, NodesOK
    <2>2. NodesCalm  BY <2>1 DEF NodesCalm, RunInv, NodesOK, Runs
    <2>3. CreatesCalm
      BY <2>1 DEF CreatesCalm, RunInv, NodesOK, StoreInv, AskedOK, requests
    <2>4. TakesCalm  BY <2>1 DEF TakesCalm, RunInv, NodesOK, requests
    <2> QED BY ZenonT(40), <2>1, <2>2, <2>3, <2>4, CalmFrames DEF Calm, requests
  <1> QED BY ZenonT(40), <1>1, <1>2, <1>3, <1>4, <1>5 DEF Node

\* The invariant holds at the start.
LEMMA RunInit ==
    ASSUME Init
    PROVE  RunInv
  <1>1. StoreInv  BY StoreInit
  <1>2. PICK i, c, d, t : i = Idle /\ c = NoCreate /\ d = NoCancel /\ t = NoTake  OBVIOUS
  <1>3. i.pc = "idle" /\ c.stage = "none" /\ d.stage = "none" /\ t.op = None  BY <1>2, Blanks
  <1>4. /\ up = [n \in Nodes |-> "up"] /\ alive = [n \in Nodes |-> TRUE]
        /\ creating = [o \in Operations |-> c] /\ run = [n \in Nodes |-> [o \in Operations |-> i]]
        /\ cancel = [o \in Operations |-> d] /\ taking = [n \in Nodes |-> t]
    BY <1>2 DEF Init
  <1>5. \A n \in Nodes, o \in Operations : ~Runs(n, o)  BY <1>3, <1>4 DEF Runs
  <1>6. NodesOK /\ CancelOK  BY <1>3, <1>4, <1>5 DEF NodesOK, CancelOK
  <1>7. TakeOK  BY <1>3, <1>4, OperationsKnown DEF TakeOK
  <1> QED BY <1>1, <1>5, <1>6, <1>7 DEF RunInv, OwnerOK, OneRunner

\* The takeovers: who takes a record over finds no run of it.
LEMMA TakerFinds ==
    ASSUME RunInv, NEW n \in Nodes, NEW o \in Operations,
           ResumeOwn(n, o) \/ (ResumeTake(n) /\ ~UNCHANGED <<store, run>> /\ taking[n].op = o)
    PROVE  /\ up[n] # "down" /\ Unfinished(o) /\ Idles(o) /\ carriesOn(o, rec[o]) /\ Taken(n, o)
           /\ UNCHANGED <<directory, nodes, creating, cancel, seen, dropping>>
           /\ \A m \in Nodes : taking'[m] = taking[m] \/ taking'[m].op = None
  <1>0. Types  BY DEF RunInv, StoreInv
  <1>1. CASE ResumeOwn(n, o)
    <2>1. /\ UNCHANGED <<directory, nodes, requests>> /\ up[n] = "boot" /\ Resumable(n, o) /\ rec[o].node = n /\ Taken(n, o)
      BY <1>0, <1>1, ResumeOwnEffect
    <2>2. Idles(o)  BY <2>1, GoneIdles DEF Resumable
    <2> QED BY <2>1, <2>2 DEF Resumable, requests
  <1>2. CASE ResumeTake(n) /\ ~UNCHANGED <<store, run>> /\ taking[n].op = o
    <2>1. /\ UNCHANGED <<directory, nodes, creating, cancel, seen, dropping>>
          /\ \A m \in Nodes \ {n} : taking'[m] = taking[m]
          /\ taking'[n].op = None
          /\ Unfinished(o) /\ rec[o].node = taking[n].from /\ rec[o].term = taking[n].term /\ Taken(n, o)
      BY <1>0, <1>2, ResumeTakeEffect
    <2>2. Idles(o) /\ carriesOn(o, rec[o])  BY <1>2, <2>1 DEF RunInv, TakeOK
    <2>3. up[n] # "down"  BY <1>2, OperationsKnown DEF RunInv, NodesOK
    <2> QED BY <2>1, <2>2, <2>3
  <1> QED BY <1>1, <1>2

\* Every step keeps the invariant.
LEMMA RunInvStep ==
    ASSUME KeysOwn, "lapse" \notin Faults, RunInv, [Next]_vars
    PROVE  RunInv'
  <1>0. StoreInv' /\ (\A o \in Operations : Made(o) => Made(o)') /\ Types  BY StoreStep DEF RunInv, StoreInv
  <1>1. CASE UNCHANGED vars
    <2>1. Calm  BY <1>1, CalmFrames DEF vars, Calm
    <2> QED BY <1>0, <2>1, CalmStep
  <1>2. ASSUME NEW o \in Operations, Request(o)  PROVE RunInv'
    <2>1. CASE ~CreateCommit(o)  BY ZenonT(40), <1>0, <1>2, <2>1, RequestCalm, CalmStep
    <2>2. CASE CreateCommit(o)
      <3>1. creating[o].node \in Nodes /\ up[creating[o].node] # "down"
        BY <2>2 DEF CreateCommit, RunInv, StoreInv, AskedOK, NodesOK
      <3>2. /\ UNCHANGED <<directory, nodes, cancel, taking, seen>>
            /\ creating[o].stage = "read" /\ Compares(o) /\ Created(creating[o].node, o)
        BY <1>0, <2>2, <3>1, CreateCommitEffect
      <3>3. StoreInv /\ Types'  BY <1>0 DEF RunInv, StoreInv
      <3>4. ~Made(o)  BY <3>1, <3>2, <3>3, CreateStep
      <3> QED BY ZenonT(40), <1>0, <3>1, <3>2, <3>4, CreatedStep
    <2> QED BY <2>1, <2>2
  <1>3. ASSUME NEW n \in Nodes, Node(n)  PROVE RunInv'
    <2>1. CASE ~ResumeTake(n)  BY <1>0, <1>3, <2>1, NodeCalm, CalmStep
    <2>2. CASE ResumeTake(n) /\ ~UNCHANGED <<store, run>>
      <3>1. PICK o \in Operations : taking[n].op = o  BY <1>0, <2>2, ResumeTakeEffect
      <3>2. /\ up[n] # "down" /\ Unfinished(o) /\ Idles(o) /\ Taken(n, o) /\ UNCHANGED <<nodes, creating, cancel>>
            /\ \A m \in Nodes : taking'[m] = taking[m] \/ taking'[m].op = None
        BY <2>2, <3>1, TakerFinds
      <3> QED BY <1>0, <3>2, TakenStep
    <2>3. CASE ResumeTake(n) /\ UNCHANGED <<store, run>>
      <3>1. /\ UNCHANGED <<store, run, nodes, creating, cancel>>
            /\ \A m \in Nodes \ {n} : taking'[m] = taking[m]
            /\ taking'[n].op = None
        BY <1>0, <2>3, ResumeTakeEffect
      <3>2. TakesCalm  BY <3>1 DEF TakesCalm, RunInv, NodesOK, nodes
      <3>3. Calm  BY <3>1, <3>2, CalmFrames DEF Calm
      <3> QED BY <1>0, <3>3, CalmStep
    <2> QED BY <2>1, <2>2, <2>3
  <1>4. ASSUME NEW n \in Nodes, NEW o \in Operations, Step(n, o) \/ Ask(n, o)  PROVE RunInv'
    BY ZenonT(40), <1>0, <1>4, RunStepCalm, AskCalm, CalmStep
  <1>5. ASSUME NEW n \in Nodes, NEW o \in Operations, Care(n, o)  PROVE RunInv'
    <2>1. CASE SweepRead(n, o)
      <3>1. UNCHANGED <<store, nodes, run, creating, cancel, taking>>  BY <1>0, <2>1, SweepReadEffect
      <3>2. Calm  BY ZenonT(40), <3>1, CalmFrames DEF Calm
      <3> QED BY <1>0, <3>2, CalmStep
    <2>2. CASE FailOrphans(n, o)
      <3>1. UNCHANGED <<directory, nodes, run, requests>> /\ Failed(o)  BY <1>0, <2>2, FailOrphansEffect
      <3>2. RecsCalm  BY <3>1, OrphanCalm DEF Failed
      <3>3. Calm  BY ZenonT(40), <3>1, <3>2, CalmFrames DEF Calm
      <3> QED BY <1>0, <3>3, CalmStep
    <2>3. CASE ResumeOwn(n, o)
      <3>1. /\ up[n] # "down" /\ Unfinished(o) /\ Idles(o) /\ Taken(n, o) /\ UNCHANGED <<nodes, creating, cancel>>
            /\ \A m \in Nodes : taking'[m] = taking[m] \/ taking'[m].op = None
        BY <2>3, TakerFinds
      <3> QED BY <1>0, <3>1, TakenStep
    <2> QED BY ZenonT(40), <1>5, <2>1, <2>2, <2>3 DEF Care
  <1> QED BY ZenonT(40), <1>1, <1>2, <1>3, <1>4, <1>5 DEF Next

\* While no live node loses its lease, an operation never runs on two nodes: resumeOperation,
\* ResumeOwn and FailOrphans, however they interleave with creates, cancellations and crashes.
THEOREM RunsOnOneNode == KeysOwn /\ "lapse" \notin Faults => (Spec => []OneRunner)
  <1> SUFFICES ASSUME KeysOwn, "lapse" \notin Faults  PROVE Spec => []OneRunner  OBVIOUS
  <1>1. Init => RunInv  BY RunInit
  <1>2. RunInv /\ [Next]_vars => RunInv'  BY RunInvStep
  <1>3. RunInv => OneRunner  BY DEF RunInv
  <1> QED BY <1>1, <1>2, <1>3, PTL DEF Spec
=============================================================================
