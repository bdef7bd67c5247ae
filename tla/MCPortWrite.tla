---------------------------- MODULE MCPortWrite ----------------------------
(* Model checking of PortWrite on a small port. *)
EXTENDS PortWrite
=============================================================================
