----------------------------- MODULE MCEvalLoop -----------------------------
(* Model checking of EvalLoop: an expression on b that depends on a's value or on one
   of its attributes. *)
EXTENDS EvalLoop
MCValues == [p \in Port |-> IF p = "a" THEN {0, 1} ELSE {0}]
MCExprs == [p \in Port |-> IF p = "b" THEN {{ValueOf("a")}, {AttrOf("a")}} ELSE {}]
=============================================================================
