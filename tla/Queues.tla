------------------------------- MODULE Queues -------------------------------
(***************************************************************************)
(* What the queue of a session (Session.push() of core/sessions.py) is left *)
(* with when a new event takes the place of others.                         *)
(***************************************************************************)
EXTENDS Integers, Sequences

\* What is left of q, in its order, when only the events in S are kept.
Filtered(q, S) ==
    LET left[i \in 0..Len(q)] == IF i = 0 THEN <<>>
                                 ELSE IF q[i] \in S THEN Append(left[i - 1], q[i])
                                 ELSE left[i - 1]
    IN left[Len(q)]
=============================================================================
