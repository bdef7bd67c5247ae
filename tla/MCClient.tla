------------------------------ MODULE MCClient ------------------------------
(* Model checking of Client: one port; the run without restarts also loads devices. *)
EXTENDS Client
MCOnePart == [i \in Item |-> "ports"]
=============================================================================
