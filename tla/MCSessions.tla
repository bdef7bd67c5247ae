------------------------------ MODULE MCSessions ------------------------------
(* Model checking of Sessions: port updates, which are coalesced, value changes,
   which are not, and updates of the device, which only administrators see. *)
EXTENDS Sessions
=============================================================================
