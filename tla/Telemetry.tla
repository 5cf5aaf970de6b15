------------------------------ MODULE Telemetry ------------------------------
(***************************************************************************)
(* The latency windows of the proxies and the summaries a control node     *)
(* keeps of them.  A proxy collects ten seconds at a time and carries its  *)
(* last completed window in every heartbeat; the control node merges the   *)
(* windows of one start once every live proxy sent its own, or half a      *)
(* lease after the window's end.                                           *)
(*                                                                         *)
(*   internal/telemetry/window.go     Collector, Store                     *)
(*   internal/control/telemetry.go    publishTelemetry                     *)
(*   internal/member/member.go        beat: hb.Telemetry                   *)
(*                                                                         *)
(* Time is counted in half windows, which is also half a lease (leaseTTL   *)
(* and WindowDuration are both ten seconds).  A window is the requests it  *)
(* counted: its sketches and counters are abstracted to the fact that it   *)
(* is not empty.  All clocks agree.                                        *)
(***************************************************************************)
EXTENDS Integers, Sequences, FiniteSets, SequencesExt

CONSTANTS
    Collectors,         \* the proxies
    RingWindows,        \* maxRingWindows: the windows a scope keeps
    Remembered,         \* maxRingWindows * 2, which is two hours of windows
    MaxHalves,          \* bound of the clock
    TelemetryFaults     \* "idle", "late"

VARIABLES
    half,           \* the clock, in half windows
    collector,      \* per proxy: the Collector
    sent,           \* per proxy: the window in its row of the fleet table
    pending, merged, ring,      \* the Store of the control node
    beatAt, pollAt,             \* when each proxy last sent a heartbeat, the node last polled
    observed        \* <<proxy, start>>: the requests counted by processes that still run

telemetryVars == <<half, collector, sent, pending, merged, ring, beatAt, pollAt, observed>>

None == -1

AlignedStart(t) == t \div 2
Deadline(start) == 2 * start + 3

NewCollector == [start |-> None, empty |-> TRUE, last |-> None]

(* rotateLocked: a window that counted nothing is not kept, and only the   *)
(* last completed one is.                                                  *)
Rotate(c, now) ==
    IF c.start = None THEN [c EXCEPT !.start = AlignedStart(now)]
    ELSE IF AlignedStart(now) <= c.start THEN c
    ELSE [start |-> AlignedStart(now), empty |-> TRUE, last |-> IF c.empty THEN c.last ELSE c.start]

-----------------------------------------------------------------------------
(* A request ends: Observe, ObserveBucket, ObserveMigration.               *)
Observe(p) ==
    LET c == Rotate(collector[p], half)
    IN  /\ c.empty
        /\ collector' = [collector EXCEPT ![p] = [c EXCEPT !.empty = FALSE]]
        /\ observed' = observed \cup {<<p, c.start>>}
        /\ UNCHANGED <<half, sent, pending, merged, ring, beatAt, pollAt>>

(* A heartbeat: Completed, and the row it leaves in the fleet table.       *)
Beat(p) ==
    LET c == Rotate(collector[p], half)
    IN  /\ beatAt[p] < half
        /\ collector' = [collector EXCEPT ![p] = c]
        /\ sent' = [sent EXCEPT ![p] = c.last]
        /\ beatAt' = [beatAt EXCEPT ![p] = half]
        /\ UNCHANGED <<half, pending, merged, ring, pollAt, observed>>

(* The process ends and another starts with an empty collector.            *)
RestartCollector(p) ==
    /\ collector' = [collector EXCEPT ![p] = NewCollector]
    /\ observed' = {o \in observed : o[1] # p}
    /\ UNCHANGED <<half, sent, pending, merged, ring, beatAt, pollAt>>

(* The lease runs out two half windows after the last heartbeat.           *)
RowLive(p) == half - beatAt[p] < 2

-----------------------------------------------------------------------------
(* Ingest, on the rows as PublishFleet reads them.                         *)
IngestAgain(rows) ==
    [start \in {sent[p] : p \in rows} \ {None} |-> {p \in rows : sent[p] = start}]

Ingest(rows) ==
    [start \in {sent[p] : p \in rows} \ (merged \cup {None}) |-> {p \in rows : sent[p] = start}]

With(old, new) ==
    [start \in DOMAIN old \cup DOMAIN new |->
        (IF start \in DOMAIN old THEN old[start] ELSE {}) \cup (IF start \in DOMAIN new THEN new[start] ELSE {})]

ReadyAny(windows, start, live) ==
    \/ live \cap windows[start] # {}
    \/ half >= Deadline(start)

Ready(windows, start, live) ==
    \/ live # {} /\ live \subseteq windows[start]
    \/ half >= Deadline(start)

(* mergeWindows: the summaries of one start, of every proxy whose window   *)
(* is in.                                                                  *)
MergeWindows(windows, start) == [start |-> start, of |-> windows[start]]

(* The starts that are ready, merged in order and appended to the ring of  *)
(* every scope they count for; the oldest windows of the ring leave it.    *)
AppendMerged(windows, starts) ==
    LET order == SetToSortSeq(starts, <)
        all == ring \o [i \in DOMAIN order |-> MergeWindows(windows, order[i])]
    IN  SubSeq(all, IF Len(all) > RingWindows THEN Len(all) - RingWindows + 1 ELSE 1, Len(all))

(* Once merged holds too many starts, those older than two hours are       *)
(* forgotten.                                                              *)
Prune(m) ==
    IF Cardinality(m) > Remembered
    THEN {start \in m : 2 * start >= half - 2 * Remembered} ELSE m

PublishTelemetry ==
    LET live == {p \in Collectors : RowLive(p)}
        windows == With(pending, Ingest(live))
        ready == {start \in DOMAIN windows : Ready(windows, start, live)}
    IN  /\ pollAt < half
        /\ ring' = AppendMerged(windows, ready)
        /\ merged' = Prune(merged \cup ready)
        /\ pending' = [start \in DOMAIN windows \ ready |-> windows[start]]
        /\ pollAt' = half
        /\ UNCHANGED <<half, collector, sent, beatAt, observed>>

(* Every proxy sends its heartbeats and the node polls at least once per   *)
(* half window.  Without "late" no process is silent for longer, and       *)
(* without "idle" none has had no request for as long as merged remembers. *)
Quarter ==
    /\ half < MaxHalves
    /\ pollAt = half
    /\ "late" \in TelemetryFaults \/ \A p \in Collectors : beatAt[p] = half
    /\ "idle" \in TelemetryFaults \/ \A p \in Collectors :
            collector[p].last = None \/ 2 * collector[p].last >= half - 2 * Remembered + 1
    /\ half' = half + 1
    /\ UNCHANGED <<collector, sent, pending, merged, ring, beatAt, pollAt, observed>>

-----------------------------------------------------------------------------
TelemetryInit ==
    /\ half = 1
    /\ collector = [p \in Collectors |-> NewCollector]
    /\ sent = [p \in Collectors |-> None]
    /\ pending = <<>> /\ merged = {} /\ ring = <<>>
    /\ beatAt = [p \in Collectors |-> 0]
    /\ pollAt = 0
    /\ observed = {}

TelemetryNext ==
    \/ \E p \in Collectors : Observe(p) \/ Beat(p) \/ RestartCollector(p)
    \/ PublishTelemetry
    \/ Quarter

TelemetrySpec == TelemetryInit /\ [][TelemetryNext]_telemetryVars

-----------------------------------------------------------------------------
(* Latest and Series read the rings as they are: the summaries of every    *)
(* scope are in chronological order and hold no window twice, whichever    *)
(* proxies were heard in between (window.go: "Latest returns the newest    *)
(* window for every scope", "Series returns matching points in             *)
(* chronological order").                                                  *)
Chronological ==
    \A i, j \in 1 .. Len(ring) : i < j => ring[i].start < ring[j].start

(* What a process counted reaches the summaries: once its deadline has     *)
(* passed and the node has polled again, a window is merged with that      *)
(* process's share, until the ring has moved on.  A Collector keeps one    *)
(* completed window and Ingest drops what it merged before, so a window    *)
(* that closes late or is replaced early is lost without a trace.          *)
CountedAll ==
    \A o \in observed :
        half > Deadline(o[2]) =>
            \/ \E i \in 1 .. Len(ring) : ring[i].start = o[2] /\ o[1] \in ring[i].of
            \/ Len(ring) = RingWindows /\ ring[1].start > o[2]

(* A scope's series counts every window once and in the order of time. *)
SeriesExact == Chronological /\ CountedAll

=============================================================================
