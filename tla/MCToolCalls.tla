----------------------------- MODULE MCToolCalls -----------------------------
(* ToolCalls on a small instance: three market-data sources, two threads. *)
EXTENDS ToolCalls

CONSTANTS bloomberg, reuters, six
=============================================================================
