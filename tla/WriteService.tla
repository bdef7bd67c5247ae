---------------------------- MODULE WriteService ----------------------------
(***************************************************************************)
(* What a port promises to those who wait for their writes, whatever its   *)
(* queue, lock and transforms do: a caller waits until it gets one answer, *)
(* the number of callers that wait is bounded, newcomers push out at most  *)
(* one of them each, and when the port stops everyone waiting is told.     *)
(***************************************************************************)
EXTENDS Integers, FiniteSets

CONSTANTS
    Request,        \* the requests that may be made
    Capacity        \* how many callers may wait at a time

VARIABLES
    fut,            \* fut[r]: "none", "pending" or an answer
    alive           \* the port serves its callers

serviceVars == <<fut, alive>>

Waiting(f) == {r \in Request : f[r] = "pending"}

\* The callers in rs are answered with a, the others keep what they have.
AnsweredWith(rs, a) == [r \in Request |-> IF r \in rs THEN a ELSE fut[r]]

Init ==
    /\ fut = [r \in Request |-> "none"]
    /\ alive = TRUE

\* A new caller waits; at most one that waited before is turned away.
Ask ==
    \E r \in Request, turned \in {{}} \cup {{s} : s \in Waiting(fut)} :
        /\ fut[r] = "none"
        /\ fut' = [AnsweredWith(turned, "cancelled") EXCEPT ![r] = "pending"]
        /\ alive => Cardinality(Waiting(fut')) <= Capacity
        /\ UNCHANGED alive

\* A caller is answered: its write was done, it failed, or it is turned away.
Reply ==
    \E r \in Waiting(fut), a \in {"result", "error", "cancelled"} :
        /\ alive
        /\ fut' = AnsweredWith({r}, a)
        /\ UNCHANGED alive

\* A port that has stopped still turns away one waiting caller for a newcomer.
TurnAway ==
    \E r \in Waiting(fut) :
        /\ fut' = AnsweredWith({r}, "cancelled")
        /\ UNCHANGED alive

\* The port stops serving: nobody who waits is forgotten.
Stop ==
    /\ alive
    /\ alive' = FALSE
    /\ fut' = AnsweredWith(Waiting(fut), "cancelled")

Next == Ask \/ Reply \/ TurnAway \/ Stop

Spec == Init /\ [][Next]_serviceVars
=============================================================================
