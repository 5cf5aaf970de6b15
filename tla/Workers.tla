------------------------------ MODULE Workers -------------------------------
(***************************************************************************)
(* External movers: `shunt migrate run` copies in its own process, under   *)
(* an operation whose record carries a worker session.  The session is a   *)
(* lease the mover renews by heartbeats; the operation keeps the placement *)
(* reserved, so no other step of the move runs beside the copies.          *)
(*                                                                         *)
(*   internal/control/worker.go   the session on the record                *)
(*   internal/control/mover.go    the mover operation                      *)
(*   cmd/shunt/moverun.go         the mover's process                      *)
(*                                                                         *)
(* A heartbeat may be delayed, arrive after the mover gave it up, or never *)
(* arrive.  A copy that was dispatched ends some time later, also after    *)
(* its mover stopped or crashed.  One placement; a session is named by the *)
(* mover that drew it.                                                     *)
(***************************************************************************)
EXTENDS Integers, FiniteSets

CONSTANTS
    Movers,         \* the runs of `shunt migrate run`
    MaxGeneration,  \* bound on the generations of the placement
    MaxBeats,       \* bound on the heartbeats of each mover, the last one left out
    WorkerFaults    \* the faults of the instance: "owner"

VARIABLES
    generation,     \* the placement's generation: every step of the move adds one
    record,         \* the operation record of each mover
    owner,          \* whether the control node that owns the record runs it
    mover,          \* the mover's process
    copying,        \* a copy the mover dispatched has not ended
    mail            \* heartbeats on their way to a control node

workerVars == <<generation, record, owner, mover, copying, mail>>

NoSession == [state |-> "none", sequence |-> 0, failed |-> FALSE, resolved |-> FALSE]
NoRecord == [status |-> "none", generation |-> 0, worker |-> NoSession, expired |-> FALSE]

MoverOver(m) == record[m].status \in {"succeeded", "failed"}
OpenMovers == {m \in Movers : record[m].status = "open"}

-----------------------------------------------------------------------------
(* The control node: the session a heartbeat makes of the stored one.      *)

Beat(m, seq, complete, failed) == [session |-> m, generation |-> mover[m].generation,
    sequence |-> seq, complete |-> complete, failed |-> failed]

AcceptsAnyGeneration(b) ==
    LET r == record[b.session]  w == r.worker IN
    /\ r.status = "open"
    /\ w.state # "completed"
    /\ ~(w.state = "active" /\ r.expired)
    /\ b.sequence > w.sequence

AcceptsExpired(b) ==
    LET r == record[b.session]  w == r.worker IN
    /\ r.status = "open"
    /\ b.generation = r.generation
    /\ w.state # "completed"
    /\ b.sequence > w.sequence

(* nextWorker: refused for another generation, on an ended record, over a  *)
(* completed session, from one that expired, and out of order.             *)
NextWorkerAccepts(b) ==
    LET r == record[b.session]  w == r.worker IN
    /\ r.status = "open"
    /\ b.generation = r.generation
    /\ w.state # "completed"
    /\ ~(w.state = "active" /\ r.expired)
    /\ b.sequence > w.sequence

NextWorker(b) ==
    [state |-> IF b.complete THEN "completed" ELSE "active", sequence |-> b.sequence,
     failed |-> b.failed, resolved |-> FALSE]

(* applyWorker: the heartbeat is checked against the record as it stands   *)
(* and written by compare-and-swap.  The answer reaches a mover that still *)
(* waits for it, unless it is lost.                                        *)
WorkerHeartbeat(b) ==
    LET m == b.session  ok == NextWorkerAccepts(b) IN
    /\ mail' = mail \ {b}
    /\ record' = IF ok THEN [record EXCEPT ![m].worker = NextWorker(b), ![m].expired = FALSE]
                       ELSE record
    /\ \/ /\ mover[m].waits = b.sequence
          /\ mover' = [mover EXCEPT ![m].waits = 0,
                                    ![m].answer = IF ok THEN "ok" ELSE "refused"]
       \/ UNCHANGED mover
    /\ UNCHANGED <<generation, owner, copying>>

(* The session's last heartbeat is older than the TTL; for a session that  *)
(* never enrolled, the record is.                                          *)
Expire(m) ==
    /\ record[m].status = "open"
    /\ record[m].worker.state # "completed"
    /\ ~record[m].expired
    /\ record' = [record EXCEPT ![m].expired = TRUE]
    /\ UNCHANGED <<generation, owner, mover, copying, mail>>

WorkerResolvableEnrolled(m) ==
    /\ record[m].status = "open"
    /\ record[m].worker.state = "active"
    /\ record[m].expired

(* workerResolvable: expired, or never enrolled within the TTL.            *)
WorkerResolvable(m) ==
    /\ record[m].status = "open"
    /\ record[m].worker.state # "completed"
    /\ record[m].expired

(* resolveWorker: the operator attests that the mover has stopped and that *)
(* what it dispatched has ended.  The session is completed; a record whose *)
(* owner is gone ends here, any other at its owner's next poll.            *)
Attested(m) == mover[m].pc \in {"ended", "crashed"} /\ ~copying[m]

ResolveWorker(m) ==
    /\ WorkerResolvable(m)
    /\ Attested(m)
    /\ record' = [record EXCEPT
         ![m].worker = [state |-> "completed", sequence |-> @.sequence + 1,
                        failed |-> TRUE, resolved |-> TRUE],
         ![m].status = IF owner[m] THEN "open" ELSE "failed"]
    /\ UNCHANGED <<generation, owner, mover, copying, mail>>

(* runExternalMover: the operation waits for its session to complete.      *)
RunExternalMover(m) ==
    /\ owner[m]
    /\ record[m].status = "open"
    /\ record[m].worker.state = "completed"
    /\ record' = [record EXCEPT ![m].status =
                    IF record[m].worker.failed THEN "failed" ELSE "succeeded"]
    /\ owner' = [owner EXCEPT ![m] = FALSE]
    /\ UNCHANGED <<generation, mover, copying, mail>>

(* The control node that owns the record stops.  Without the fault "owner" *)
(* it stops only once the mover and its copies have ended.                 *)
OwnerStops(m) ==
    /\ owner[m]
    /\ "owner" \in WorkerFaults \/ Attested(m)
    /\ owner' = [owner EXCEPT ![m] = FALSE]
    /\ UNCHANGED <<generation, record, mover, copying, mail>>

(* FailOrphans at the owner's restart, Sweep on another node: a mover is   *)
(* not carried on; its record ends, and with it the reservation.           *)
FailOrphans(m) ==
    /\ record[m].status = "open"
    /\ ~owner[m]
    /\ record' = [record EXCEPT ![m].status = "failed"]
    /\ UNCHANGED <<generation, owner, mover, copying, mail>>

(* Another step of the move: its own operation, so with no mover's record  *)
(* unfinished.                                                             *)
PlacementStep ==
    /\ OpenMovers = {}
    /\ generation < MaxGeneration
    /\ generation' = generation + 1
    /\ UNCHANGED <<record, owner, mover, copying, mail>>

-----------------------------------------------------------------------------
(* The mover's process.                                                    *)

Process == [pc |-> "idle", generation |-> 0, sequence |-> 0, waits |-> 0,
            answer |-> "none", error |-> FALSE]

To(m, pc) == mover' = [mover EXCEPT ![m].pc = pc, ![m].answer = "none"]

(* The placement as the control API answers it: the move the run plans.    *)
ReadPlacement(m) ==
    /\ mover[m].pc = "idle"
    /\ mover' = [mover EXCEPT ![m].pc = "planned", ![m].generation = generation]
    /\ UNCHANGED <<generation, record, owner, copying, mail>>

(* checkMover and runMover: the mover's operation reserves the placement   *)
(* and waits for its session.                                              *)
RunMover(m) ==
    /\ OpenMovers = {}
    /\ record' = [record EXCEPT ![m] =
                    [NoRecord EXCEPT !.status = "open", !.generation = generation]]
    /\ owner' = [owner EXCEPT ![m] = TRUE]

(* startExternalMover: refused beside another operation, or because the    *)
(* placement does not move.  An answer that is lost leaves an operation no *)
(* session enrolls in.                                                     *)
StartExternalMover(m) ==
    /\ mover[m].pc = "planned"
    /\ \/ RunMover(m) /\ (To(m, "launched") \/ To(m, "ended"))
       \/ To(m, "ended") /\ UNCHANGED <<record, owner>>
    /\ UNCHANGED <<generation, copying, mail>>

Post(m, complete, failed, pc) ==
    LET seq == mover[m].sequence + 1 IN
    /\ mover[m].waits = 0 /\ mover[m].answer = "none"
    /\ mover' = [mover EXCEPT ![m].sequence = seq, ![m].waits = seq, ![m].pc = pc]
    /\ mail' = mail \cup {Beat(m, seq, complete, failed)}
    /\ UNCHANGED <<generation, record, owner, copying>>

(* heartbeatMovers, at the start and at every tick.                        *)
HeartbeatMover(m) ==
    /\ mover[m].pc \in {"launched", "running"}
    /\ mover[m].sequence < MaxBeats[m]
    /\ Post(m, FALSE, FALSE, mover[m].pc)

(* The answer, or none in time: the first heartbeat must be accepted       *)
(* before anything is copied, and a mover that loses its lease starts no   *)
(* more backend work.                                                      *)
Answered(m) ==
    /\ \/ mover[m].answer # "none" /\ UNCHANGED mail
       \/ mover[m].waits # 0 /\ UNCHANGED mail
       \/ /\ mover[m].waits # 0
          /\ mail' = {b \in mail : b.session # m}
    /\ LET ok == mover[m].answer = "ok" IN
       mover' = [mover EXCEPT ![m].waits = 0, ![m].answer = "none",
                   ![m].pc = CASE @ = "launched" /\ ok -> "running"
                               [] @ = "launched" /\ ~ok -> "ended"
                               [] @ = "running" /\ ~ok -> "canceled"
                               [] @ = "finishing" -> "ended"
                               [] OTHER -> @]
    /\ UNCHANGED <<generation, record, owner, copying>>

(* A copy is dispatched, and ends; the mover hears of it while it runs.    *)
Dispatch(m) ==
    /\ mover[m].pc = "running"
    /\ ~copying[m]
    /\ copying' = [copying EXCEPT ![m] = TRUE]
    /\ UNCHANGED <<generation, record, owner, mover, mail>>

CopyEnds(m) ==
    /\ copying[m]
    /\ copying' = [copying EXCEPT ![m] = FALSE]
    /\ \E failed \in BOOLEAN :
         mover' = [mover EXCEPT ![m].error =
                     @ \/ (failed /\ mover[m].pc \in {"running", "canceled"})]
    /\ UNCHANGED <<generation, record, owner, mail>>

(* mover.Run returns: with its passes done, converged or not, or canceled, *)
(* the outcome of a copy in flight unknown.                                *)
RunEnds(m) ==
    /\ \/ mover[m].pc = "running" /\ ~copying[m]
       \/ mover[m].pc = "canceled"
    /\ \E error \in IF copying[m] THEN {TRUE} ELSE BOOLEAN :
         mover' = [mover EXCEPT ![m].pc = "stopping", ![m].error = @ \/ error]
    /\ UNCHANGED <<generation, record, owner, copying, mail>>

FinishCompletes(m) ==
    /\ mover[m].pc = "stopping"
    /\ Post(m, TRUE, FALSE, "finishing")

(* The last heartbeat: complete after a run without an error; an error     *)
(* after dispatch is not proof that the backend did nothing.               *)
Finish(m) ==
    /\ mover[m].pc = "stopping"
    /\ Post(m, ~mover[m].error, mover[m].error, "finishing")

Crash(m) ==
    /\ mover[m].pc \in {"launched", "running", "canceled", "stopping", "finishing"}
    /\ mover' = [mover EXCEPT ![m] = [Process EXCEPT !.pc = "crashed", !.generation = mover[m].generation]]
    /\ UNCHANGED <<generation, record, owner, copying, mail>>

-----------------------------------------------------------------------------
WorkerInit ==
    /\ generation = 1
    /\ record = [m \in Movers |-> NoRecord]
    /\ owner = [m \in Movers |-> FALSE]
    /\ mover = [m \in Movers |-> Process]
    /\ copying = [m \in Movers |-> FALSE]
    /\ mail = {}

WorkerNext ==
    \/ PlacementStep
    \/ \E b \in mail : WorkerHeartbeat(b)
    \/ \E m \in Movers : Expire(m)
    \/ \E m \in Movers : ResolveWorker(m)
    \/ \E m \in Movers : RunExternalMover(m)
    \/ \E m \in Movers : OwnerStops(m)
    \/ \E m \in Movers : FailOrphans(m)
    \/ \E m \in Movers : ReadPlacement(m)
    \/ \E m \in Movers : StartExternalMover(m)
    \/ \E m \in Movers : HeartbeatMover(m)
    \/ \E m \in Movers : Answered(m)
    \/ \E m \in Movers : Dispatch(m)
    \/ \E m \in Movers : CopyEnds(m)
    \/ \E m \in Movers : RunEnds(m)
    \/ \E m \in Movers : Finish(m)
    \/ \E m \in Movers : Crash(m)

(* Fairness: time passes, a dispatched copy ends, the owner polls, an      *)
(* orphan is swept, the mover's goroutines run.  A run's passes are finite *)
(* (RunEnds), and the operator resolves an expired session once they can   *)
(* attest that its mover stopped.                                          *)
WorkerFair ==
    \A m \in Movers :
        /\ WF_workerVars(Expire(m))
        /\ WF_workerVars(ResolveWorker(m))
        /\ WF_workerVars(RunExternalMover(m))
        /\ WF_workerVars(FailOrphans(m))
        /\ WF_workerVars(HeartbeatMover(m))
        /\ WF_workerVars(Answered(m))
        /\ WF_workerVars(CopyEnds(m))
        /\ SF_workerVars(RunEnds(m))
        /\ WF_workerVars(Finish(m))

WorkerSpec == WorkerInit /\ [][WorkerNext]_workerVars /\ WorkerFair

-----------------------------------------------------------------------------
(* No step of the move runs beside a mover's copy: a copy in flight        *)
(* belongs to the placement's current generation, whatever became of the   *)
(* mover that dispatched it.                                               *)
CopyFenced ==
    \A m \in Movers : copying[m] => mover[m].generation = generation

(* A session never comes back: one that completed stays as it completed,   *)
(* one that expired is completed by a resolution only, and the sequence of *)
(* a session only grows, whatever heartbeat arrives late.                  *)
SessionForward ==
    [][\A m \in Movers :
         LET w == record[m].worker  v == record'[m].worker IN
         /\ w.state = "completed" => v = w
         /\ v.sequence >= w.sequence
         /\ record[m].expired /\ w.state = "active" /\ v # w => v.resolved]_workerVars

(* A mover operation succeeds only when the mover itself ended without an  *)
(* error and nothing it dispatched is still in flight.                     *)
SucceededClean ==
    \A m \in Movers : record[m].status = "succeeded" =>
        ~mover[m].error /\ ~copying[m] /\ ~record[m].worker.resolved

(* The placement does not stay reserved for ever: a mover's operation      *)
(* ends, although its mover crashed, lost its lease or never enrolled.     *)
MoverEnds ==
    \A m \in Movers : (record[m].status = "open") ~> MoverOver(m)

(* What the record says and what the copies do agree.                      *)
MoverTrue == CopyFenced /\ SucceededClean

=============================================================================
