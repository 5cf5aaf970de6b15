------------------------------- MODULE Leases -------------------------------
(***************************************************************************)
(* The lease of a member proxy, on a clock.  The member measures it from   *)
(* the time it sent the heartbeat that earned it; the control plane keeps  *)
(* the member's row in the fleet table a margin longer.  A change of the   *)
(* directory settles once every live row has it, so a member the table     *)
(* lost must have stopped writing to moving buckets by itself, and must    *)
(* not start again on the routing it slept through.                        *)
(*                                                                         *)
(*   internal/member/member.go    beat, renew, Stale                       *)
(*   internal/control/fleet.go    heartbeat, fenceRound                    *)
(*   internal/cp/fleet.go         the row and its etcd lease               *)
(*                                                                         *)
(* One proxy, of which one process runs at a time: the rows of the table   *)
(* are independent.  Heartbeats and answers are delayed and lost.          *)
(***************************************************************************)
EXTENDS Integers

CONSTANTS
    ControlNodes,   \* the control nodes a heartbeat may reach
    GrantTTL,       \* lease_ttl of the control plane
    OwnTTL,         \* lease_ttl of the proxy
    DropMargin,     \* how much longer the row stays
    MaxClock, MaxVersion, MaxSeq, MaxStarts,    \* bounds
    LeaseFaults     \* "lag", "backpressure", "late_delete", "late_beat"

VARIABLES
    clock,
    dirVersion,     \* the directory version in the store
    seen,           \* the version each control node's snapshot is at
    row,            \* the proxy's row in the fleet table: live until its etcd lease expires
    proc,           \* the proxy's process
    beats,          \* heartbeats on their way or being handled
    settled,        \* the version the last round that waited on nobody was for
    dropping        \* a retirement whose delete of the row has not been done

leaseVars == <<clock, dirVersion, seen, row, proc, beats, settled, dropping>>

NoRow == [live |-> FALSE, until |-> 0, applied |-> 0]
Smaller(a, b) == IF a < b THEN a ELSE b

(* A process just started, with the version its cache holds.               *)
NewProcess(n, v) == [id |-> n, up |-> TRUE, installed |-> v, serving |-> v,
    seq |-> 0, until |-> -1, leaseSeq |-> 0, waits |-> FALSE, sent |-> 0, applied |-> 0, answer |-> 0]

(* Client.Stale.                                                           *)
Stale == proc.until < clock

-----------------------------------------------------------------------------
Tick ==
    /\ clock < MaxClock
    /\ clock' = clock + 1
    /\ UNCHANGED <<dirVersion, seen, row, proc, beats, settled, dropping>>

(* A change of the directory through control node n, and the watch that    *)
(* brings it to the others.                                                *)
Change(n) ==
    /\ dirVersion < MaxVersion
    /\ dirVersion' = dirVersion + 1
    /\ seen' = [seen EXCEPT ![n] = dirVersion + 1]
    /\ UNCHANGED <<clock, row, proc, beats, settled, dropping>>

Watch(n) ==
    /\ seen[n] < dirVersion
    /\ seen' = [seen EXCEPT ![n] = dirVersion]
    /\ UNCHANGED <<clock, dirVersion, row, proc, beats, settled, dropping>>

(* fenceRound, as settle asks for it: the live rows must have version v.   *)
FenceRound(v) ==
    /\ v > settled /\ v <= dirVersion
    /\ row.live => row.applied >= v
    /\ settled' = v
    /\ UNCHANGED <<clock, dirVersion, seen, row, proc, beats, dropping>>

-----------------------------------------------------------------------------
(* The proxy.                                                              *)

(* What requests use once version v is installed: v, unless the publisher  *)
(* waits for a retired bundle.                                             *)
Published(v) == {v} \cup IF "backpressure" \in LeaseFaults THEN {proc.serving} ELSE {}

(* fetch and install: a version no newer than the installed one is dropped.*)
Poll(n) ==
    /\ proc.up
    /\ seen[n] > proc.installed
    /\ \E s \in Published(seen[n]) :
         proc' = [proc EXCEPT !.installed = seen[n], !.serving = s]
    /\ UNCHANGED <<clock, dirVersion, seen, row, beats, settled, dropping>>

(* beat: the heartbeat carries the version the requests use.               *)
SendBeat ==
    /\ proc.up /\ ~proc.waits
    /\ proc.seq < MaxSeq
    /\ proc' = [proc EXCEPT !.seq = @ + 1, !.waits = TRUE, !.sent = clock, !.applied = proc.serving]
    /\ beats' = beats \cup {[id |-> proc.id, seq |-> proc.seq + 1, applied |-> proc.serving, read |-> 0]}
    /\ UNCHANGED <<clock, dirVersion, seen, row, settled, dropping>>

(* call's time is up; the heartbeat may still arrive.                      *)
GiveUp ==
    /\ proc.waits
    /\ proc' = [proc EXCEPT !.waits = FALSE, !.answer = 0]
    /\ UNCHANGED <<clock, dirVersion, seen, row, beats, settled, dropping>>

(* Server.heartbeat: the node's snapshot is read first, and is what the    *)
(* answer names.  A caller ahead of the node is refused.                   *)
HeartbeatRead(b, n) ==
    /\ b.read = 0
    /\ beats' = (beats \ {b}) \cup
                  IF b.applied <= seen[n] THEN {[b EXCEPT !.read = seen[n]]} ELSE {}
    /\ UNCHANGED <<clock, dirVersion, seen, row, proc, settled, dropping>>

(* Fleet.Heartbeat: the row is written under a lease of the grant and the  *)
(* margin.  Unless "lag" is a fault, the snapshot read is no older than    *)
(* what has settled since; unless "late_beat" is, no heartbeat of an ended *)
(* process is written over its successor's.                                *)
HeartbeatWrite(b) ==
    /\ b.read > 0
    /\ "lag" \in LeaseFaults \/ b.read >= settled
    /\ "late_beat" \in LeaseFaults \/ b.id = proc.id
    /\ beats' = beats \ {b}
    /\ row' = [live |-> TRUE, until |-> clock + GrantTTL + DropMargin, applied |-> b.applied]
    /\ proc' = IF proc.waits /\ proc.id = b.id /\ proc.seq = b.seq
                 THEN [proc EXCEPT !.answer = b.read] ELSE proc
    /\ UNCHANGED <<clock, dirVersion, seen, settled, dropping>>

(* The etcd lease of the row expires, at its time or later.                *)
RowExpires ==
    /\ row.live /\ clock > row.until
    /\ row' = NoRow
    /\ UNCHANGED <<clock, dirVersion, seen, proc, beats, settled, dropping>>

RenewFromArrival(got, answer) == IF answer >= proc.applied /\ got >= answer
    THEN clock + Smaller(GrantTTL, OwnTTL) ELSE -1

RenewUninstalled(got, answer) ==
    LET until == proc.sent + Smaller(GrantTTL, OwnTTL) IN
    IF answer >= proc.applied /\ clock <= until THEN until ELSE -1

(* The lease an answer earns: from the send time, once the answered        *)
(* version is installed, unless it has already run out.                    *)
Granted(got, answer) ==
    LET until == proc.sent + Smaller(GrantTTL, OwnTTL) IN
    IF answer >= proc.applied /\ got >= answer /\ clock <= until THEN until ELSE -1

(* renew: a newer version is fetched first, which may fail; an older       *)
(* answer replaces no newer grant.                                         *)
Renew ==
    /\ proc.answer > 0
    /\ \E got \in {proc.installed} \cup
                    {seen[n] : n \in {c \in ControlNodes : proc.answer > proc.installed
                                                          /\ seen[c] > proc.installed}} :
       \E s \in IF got = proc.installed THEN {proc.serving} ELSE Published(got) :
         LET until == Granted(got, proc.answer)
             renewed == until >= 0 /\ proc.seq > proc.leaseSeq IN
         proc' = [proc EXCEPT !.waits = FALSE, !.answer = 0, !.installed = got, !.serving = s,
                    !.until = IF renewed THEN until ELSE @,
                    !.leaseSeq = IF renewed THEN proc.seq ELSE @]
    /\ UNCHANGED <<clock, dirVersion, seen, row, beats, settled, dropping>>

(* The process ends: it crashes, or retires, and then the control node     *)
(* deletes the row after it has recorded the retirement.                   *)
Stop ==
    /\ proc.up
    /\ proc' = [proc EXCEPT !.up = FALSE, !.waits = FALSE, !.answer = 0]
    /\ dropping' \in {dropping, TRUE}
    /\ UNCHANGED <<clock, dirVersion, seen, row, beats, settled>>

RetireDeletes ==
    /\ dropping
    /\ row' = NoRow
    /\ dropping' = FALSE
    /\ UNCHANGED <<clock, dirVersion, seen, proc, beats, settled>>

(* The next process.  Unless "late_delete" is a fault, the delete of an    *)
(* earlier retirement is done by then.                                     *)
Start ==
    /\ ~proc.up
    /\ proc.id < MaxStarts
    /\ "late_delete" \in LeaseFaults \/ ~dropping
    /\ \E v \in 1..proc.installed : proc' = NewProcess(proc.id + 1, v)
    /\ UNCHANGED <<clock, dirVersion, seen, row, beats, settled, dropping>>

-----------------------------------------------------------------------------
LeaseInit ==
    /\ clock = 0 /\ dirVersion = 1 /\ settled = 1
    /\ seen = [n \in ControlNodes |-> 1]
    /\ row = NoRow
    /\ proc = NewProcess(1, 1)
    /\ beats = {} /\ dropping = FALSE

LeaseNext ==
    \/ Tick
    \/ \E n \in ControlNodes : Change(n)
    \/ \E n \in ControlNodes : Watch(n)
    \/ \E v \in 1..MaxVersion : FenceRound(v)
    \/ \E n \in ControlNodes : Poll(n)
    \/ SendBeat
    \/ GiveUp
    \/ \E b \in beats, n \in ControlNodes : HeartbeatRead(b, n)
    \/ \E b \in beats : HeartbeatWrite(b)
    \/ RowExpires
    \/ Renew
    \/ Stop
    \/ RetireDeletes
    \/ Start

-----------------------------------------------------------------------------
(* The control plane never drops a member before the member has stopped    *)
(* itself: a process that takes its lease for valid has its row.           *)
NeverDroppedFirst == proc.up /\ ~Stale => row.live

(* A settled change is in force: a process whose lease holds routes its    *)
(* requests by the settled version or a newer one, also when it was silent *)
(* while the change settled and is back.                                   *)
SettledInForce == proc.up /\ ~Stale => proc.serving >= settled

(* Both halves of a lease: the member stops itself first, and what settled meanwhile is in force.   *)
LeaseExact == NeverDroppedFirst /\ SettledInForce

=============================================================================
