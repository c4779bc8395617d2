-------------------------- MODULE MCMonitorRuntime --------------------------
(* MonitorRuntime on a small instance: two fingerprints, one replacement
   indicator with two values, one transient error beside state_unavailable. *)
EXTENDS MonitorRuntime
=============================================================================
