------------------------------ MODULE Collectors ------------------------------
(***************************************************************************)
(* The services that run beside the server's handlers and share nothing    *)
(* with each other: position limits, hourly latencies and contract         *)
(* multipliers (spawned by run, src/src/server.rs) and the operations      *)
(* monitor (src/src/bin/ops_monitor.rs).  As they do not interact, only    *)
(* their own steps are explored: chosen says which one moves in a          *)
(* behaviour.                                                              *)
(***************************************************************************)
EXTENDS PositionLimits, HourlyLatency, ContractMultipliers, OpsMonitor

VARIABLE chosen

vars == <<chosen, limitVars, latencyVars, multiplierVars, monitorVars>>

Only(collector) == chosen = collector /\ UNCHANGED chosen

Init ==
    /\ LimitsInit /\ LatencyInit /\ MultipliersInit /\ MonitorInit
    /\ chosen \in {"limits", "latency", "multipliers", "monitor"}
    /\ chosen # "limits" => scene = "users"

Limits ==
    /\ Only("limits") /\ UNCHANGED <<latencyVars, multiplierVars, monitorVars>>
    /\ LimitsNext

Latency ==
    /\ Only("latency") /\ UNCHANGED <<limitVars, multiplierVars, monitorVars>>
    /\ LatencyNext

Contracts ==
    /\ Only("multipliers") /\ UNCHANGED <<limitVars, latencyVars, monitorVars>>
    /\ MultipliersNext

Monitors ==
    /\ Only("monitor") /\ UNCHANGED <<limitVars, latencyVars, multiplierVars>>
    /\ MonitorNext

Next == Limits \/ Latency \/ Contracts \/ Monitors

Spec == Init /\ [][Next]_vars
=============================================================================
