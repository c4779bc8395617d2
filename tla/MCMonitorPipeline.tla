------------------------- MODULE MCMonitorPipeline -------------------------
(* MonitorPipeline with a few workflow runs of two attempts each. *)
EXTENDS MonitorPipeline
=============================================================================
