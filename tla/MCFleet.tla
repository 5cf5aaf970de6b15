------------------------------ MODULE MCFleet ------------------------------
(* TLC instances of what a proxy and the control plane tell each other beside the routing itself.
   The initial state chooses which part runs: the lease of a member, the evidence of its processes,
   cutover's quiet window, the bundles a proxy serves with, the windows of counters it reports, or
   the events that pages follow. *)
EXTENDS Leases, Incarnations, QuietWindow, RuntimeBundles, Telemetry, Events

CONSTANT Parts

VARIABLE part

heartbeatVars == <<leaseVars, incarnationVars, quietVars>>
sideVars == <<runtimeVars, telemetryVars, eventVars>>
fleetVars == <<heartbeatVars, sideVars, part>>

FleetInit ==
    /\ part \in Parts
    /\ LeaseInit /\ IncarnationInit /\ QuietInit
    /\ RuntimeInit /\ TelemetryInit /\ EventInit
    /\ part = "quiet" \/ \A p \in Watched : reader[p].reads = 0
    /\ part = "runtime" \/ lab

FleetNext ==
    \/ part = "lease" /\ LeaseNext /\ UNCHANGED <<incarnationVars, quietVars, sideVars, part>>
    \/ part = "incarnations" /\ IncarnationNext /\ UNCHANGED <<leaseVars, quietVars, sideVars, part>>
    \/ part = "quiet" /\ QuietNext /\ UNCHANGED <<leaseVars, incarnationVars, sideVars, part>>
    \/ part = "runtime" /\ RuntimeNext /\ UNCHANGED <<heartbeatVars, telemetryVars, eventVars, part>>
    \/ part = "telemetry" /\ TelemetryNext /\ UNCHANGED <<heartbeatVars, runtimeVars, eventVars, part>>
    \/ part = "events" /\ EventNext /\ UNCHANGED <<heartbeatVars, runtimeVars, telemetryVars, part>>

FleetSpec == FleetInit /\ [][FleetNext]_fleetVars

=============================================================================
