------------------------------ MODULE MCMetrics ------------------------------
(* A lazily created sketch forced and updated by several threads.          *)
EXTENDS Metrics
=============================================================================
