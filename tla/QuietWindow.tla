----------------------------- MODULE QuietWindow ----------------------------
(***************************************************************************)
(* Cutover's evidence that nobody reads from the source any more.  The     *)
(* proxies count the reads that fell back to the source and report their   *)
(* counters in heartbeats; cutover compares the fleet's sum over a window, *)
(* and again under the closed gate before it commits.  A counter is as old *)
(* as the heartbeat that carried it, and is lost with its process.         *)
(*                                                                         *)
(*   internal/control/fleet.go    fleetFallbackReads, awaitReports         *)
(*   internal/control/ops.go      runCutover, watchQuiet, stillQuiet       *)
(*   internal/member/member.go    beat                                     *)
(***************************************************************************)
EXTENDS Integers, FiniteSets, Functions

CONSTANTS
    Watched,        \* the proxies
    MaxReads,       \* bound on the reads of a process that fall back
    MaxReports,     \* bound on the heartbeats of a process
    MaxRestarts,    \* bound on the restarts of proxies
    MaxWindows,     \* bound on the windows cutover watches
    QuietFaults     \* "unanswered", "torn"

VARIABLES
    reader,     \* the running process of each proxy
    report,     \* its row in the fleet table
    sending,    \* heartbeats on their way
    cutover,    \* the cutover operation
    fell        \* where cutover stood when reads of a proxy it watches fell back

quietVars == <<reader, report, sending, cutover, fell>>

(* The rows are read once for the processes and once for the counters;     *)
(* without "torn", no row passes to another process or lapses between.     *)
Steady == "torn" \in QuietFaults \/ cutover.pc \notin {"reported", "final"}

(* The model begins when cutover is asked for, what the proxies counted    *)
(* and reported before being in the initial state, and ends with its last  *)
(* answer.                                                                 *)
Asked ==
    /\ cutover.pc \notin {"idle", "committed"}
    /\ cutover.pc = "again" => cutover.windows < MaxWindows

SumOver(f, S) == FoldFunctionOnSet(LAMBDA a, b : a + b, 0, f, S)

NoMarks == [p \in {} |-> <<0, 0>>]

-----------------------------------------------------------------------------
(* The proxies.                                                            *)

(* A read falls back to the source; a process serves once it is registered.*)
FallBack(p) ==
    /\ Asked
    /\ report[p].inc = reader[p].inc
    /\ reader[p].reads < MaxReads
    /\ reader' = [reader EXCEPT ![p].reads = @ + 1]
    /\ fell' = fell \cup IF p \in DOMAIN cutover.marks THEN {cutover.pc} ELSE {}
    /\ UNCHANGED <<report, sending, cutover>>

(* beat: put together after the one before was answered.  With             *)
(* "unanswered" the one before got no answer in its time and may still     *)
(* arrive, late or never.                                                  *)
Report(p) ==
    /\ Asked
    /\ reader[p].seq < MaxReports
    /\ "unanswered" \in QuietFaults \/ \A b \in sending : b.proxy # p
    /\ reader' = [reader EXCEPT ![p].seq = @ + 1]
    /\ sending' = sending \cup {[proxy |-> p, inc |-> reader[p].inc, seq |-> reader[p].seq + 1,
                                 reads |-> reader[p].reads]}
    /\ UNCHANGED <<report, cutover, fell>>

Reported(b) ==
    /\ Steady \/ report[b.proxy].inc = b.inc
    /\ sending' = sending \ {b}
    /\ report' = [report EXCEPT ![b.proxy] = [live |-> TRUE, inc |-> b.inc, seq |-> b.seq, reads |-> b.reads]]
    /\ UNCHANGED <<reader, cutover, fell>>

ReportLapses(p) ==
    /\ Asked /\ Steady
    /\ report[p].live
    /\ report' = [report EXCEPT ![p].live = FALSE]
    /\ UNCHANGED <<reader, sending, cutover, fell>>

(* The process ends, its counter and its heartbeats with it.               *)
RestartReader(p) ==
    /\ Asked
    /\ SumOver([q \in Watched |-> reader[q].inc - 1], Watched) < MaxRestarts
    /\ reader' = [reader EXCEPT ![p] = [inc |-> @.inc + 1, seq |-> 0, reads |-> 0]]
    /\ sending' = {b \in sending : b.proxy # p}
    /\ UNCHANGED <<report, cutover, fell>>

-----------------------------------------------------------------------------
(* The control node.                                                       *)

Live == {p \in Watched : report[p].live}

(* fleetFallbackReads: the sum over the live rows, and their marks.        *)
FleetFallbackReads == SumOver([p \in Watched |-> report[p].reads], Live)
Marks == [p \in Live |-> <<report[p].inc, report[p].seq>>]

ReportedOnce(since) ==
    \A p \in DOMAIN since : p \in Live /\ report[p].inc = since[p][1] /\ report[p].seq >= since[p][2] + 1

(* awaitReports: two more heartbeats of the same process.                  *)
AwaitReports(since) ==
    \A p \in DOMAIN since : p \in Live /\ report[p].inc = since[p][1] /\ report[p].seq >= since[p][2] + 2

(* watchQuiet, from the first read of the counters.  A cutover that was    *)
(* refused is asked for again.                                             *)
WatchQuiet ==
    /\ cutover.pc \in {"idle", "again"}
    /\ cutover.windows < MaxWindows
    /\ cutover' = [cutover EXCEPT !.pc = "window", !.windows = @ + 1,
                     !.reads = FleetFallbackReads, !.marks = Marks]
    /\ fell' = {}
    /\ UNCHANGED <<reader, report, sending>>

(* The window has passed; the proxies reported, or are named as missing.   *)
WindowReports ==
    /\ cutover.pc = "window"
    /\ cutover' = [cutover EXCEPT !.pc = IF AwaitReports(cutover.marks) THEN "reported" ELSE "again"]
    /\ UNCHANGED <<reader, report, sending, fell>>

WindowEnds ==
    /\ cutover.pc = "reported"
    /\ cutover' = IF FleetFallbackReads = cutover.reads
                    THEN [cutover EXCEPT !.pc = "quiet", !.marks = Marks]
                    ELSE [cutover EXCEPT !.pc = "again", !.marks = NoMarks]
    /\ UNCHANGED <<reader, report, sending, fell>>

StillQuietAnyProcess ==
    /\ cutover.pc = "quiet"
    /\ Live = Watched
    /\ cutover' = [cutover EXCEPT !.pc = "still", !.marks = Marks]
    /\ UNCHANGED <<reader, report, sending, fell>>

(* stillQuiet, once the hold is drained, which every proxy has reported:   *)
(* the processes that watched the window still run.                        *)
StillQuiet ==
    /\ cutover.pc = "quiet"
    /\ Live = Watched
    /\ cutover' = IF \A p \in DOMAIN cutover.marks : Marks[p][1] = cutover.marks[p][1]
                    THEN [cutover EXCEPT !.pc = "still", !.marks = Marks]
                    ELSE [cutover EXCEPT !.pc = "again", !.marks = NoMarks]
    /\ UNCHANGED <<reader, report, sending, fell>>

(* Their reports from after the drain; without them, and after a read that *)
(* fell back, a new window is watched under the hold.                      *)
StillReports ==
    /\ cutover.pc = "still"
    /\ cutover' = [cutover EXCEPT !.pc = IF AwaitReports(cutover.marks) THEN "final" ELSE "again"]
    /\ UNCHANGED <<reader, report, sending, fell>>

CommitCutover ==
    /\ cutover.pc = "final"
    /\ cutover' = [cutover EXCEPT !.pc = IF FleetFallbackReads = cutover.reads THEN "committed" ELSE "again"]
    /\ UNCHANGED <<reader, report, sending, fell>>

-----------------------------------------------------------------------------
QuietInit ==
    /\ \E n \in [Watched -> 0..MaxReads] :
         /\ reader = [p \in Watched |-> [inc |-> 1, seq |-> 1, reads |-> n[p]]]
         /\ report = [p \in Watched |-> [live |-> TRUE, inc |-> 1, seq |-> 1, reads |-> n[p]]]
    /\ sending = {}
    /\ cutover = [pc |-> "idle", windows |-> 0, reads |-> 0, marks |-> NoMarks]
    /\ fell = {}

QuietNext ==
    \/ \E p \in Watched : FallBack(p)
    \/ \E p \in Watched : Report(p)
    \/ \E b \in sending : Reported(b)
    \/ \E p \in Watched : ReportLapses(p)
    \/ \E p \in Watched : RestartReader(p)
    \/ WatchQuiet
    \/ WindowReports
    \/ WindowEnds
    \/ StillQuiet
    \/ StillReports
    \/ CommitCutover

-----------------------------------------------------------------------------
(* A cutover is committed only if no read of a proxy that watched fell     *)
(* back to the source from the start of the window it counts until its     *)
(* hold was drained, whichever process restarted and whichever row lapsed  *)
(* meanwhile (runCutover, "What the window saw is carried through the      *)
(* drain and checked again under the closed gate before the commit").      *)
CutoverQuiet ==
    cutover.pc = "committed" => fell \cap {"window", "reported", "quiet"} = {}

(* watchQuiet's answer, "a proxy that did not report from the same process *)
(* afterwards, or reads that fell back to the source during it": a window  *)
(* that ends quiet saw no read fall back.                                  *)
WindowQuiet ==
    cutover.pc = "quiet" => "window" \notin fell

=============================================================================
