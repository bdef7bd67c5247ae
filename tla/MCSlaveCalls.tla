---------------------------- MODULE MCSlaveCalls ----------------------------
(* Model checking of SlaveCalls with the two workers of the code. *)
EXTENDS SlaveCalls
=============================================================================
