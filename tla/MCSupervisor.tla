---------------------------- MODULE MCSupervisor ----------------------------
(* Constants of the Supervisor runs: the callers. *)
EXTENDS Supervisor

CONSTANTS o1
=============================================================================
