------------------------------ MODULE MCPersist ------------------------------
(***************************************************************************)
(* Persistence, for TLC: the JSON driver's files (JsonPersist), what a port *)
(* saves with whatever driver (PortSave: the save loop and one kind of API  *)
(* call), and what is saved of a slave to be sent to it later               *)
(* (Provisioning).  Each is checked on its own: only one of them, `which`,  *)
(* takes steps.                                                             *)
(***************************************************************************)
EXTENDS JsonPersist, Sequences

CONSTANTS
    WriteQueueSize, MaxRequests, Transforms, Saver, SaveLoop, MaxStops,
    None, Run, RetryCount, MaxItemChanges, MaxFaults

ASSUME SaverAssumption ==
    /\ WriteQueueSize \in Nat \ {0} /\ MaxRequests \in Nat /\ Transforms \subseteq BOOLEAN
    /\ SaveLoop \in Saver /\ MaxStops \in Nat
    /\ None \notin Nat /\ Run # {} /\ {RetryCount, MaxItemChanges, MaxFaults} \subseteq Nat

VARIABLES
    which,
    \* PortSave
    submitted, queue, fut, phase, loop, cur, cancelling, holder, waiters, writing, lastWritten,
    delivered, pendingSave, disk, saver, snapshot, missed, stops,
    \* Provisioning
    mode, reachable, remote, events, online, local, values, marked, loaded, saved, failed, row,
    inbox, place, sending, did, timer, telling, itemChanges, faults, wanted, arrived, lost, stuck

S == INSTANCE PortSave WITH crashes <- stops, MaxCrashes <- MaxStops
P == INSTANCE Provisioning WITH MaxChanges <- MaxItemChanges, disk <- saved, failures <- failed,
                                pc <- place, writing <- telling, changes <- itemChanges

S0 == <<submitted, queue, fut, phase, loop, cur, cancelling, holder, waiters, writing,
        lastWritten, delivered, pendingSave, disk, saver, snapshot, missed, stops>>

P0 == <<mode, reachable, remote, events, online, local, values, marked, loaded, saved, failed, row,
        inbox, place, sending, did, timer, telling, itemChanges, faults, wanted, arrived, lost,
        stuck>>

AllVars == <<which, vars, S0, P0>>

Json(A) == which = "json" /\ A /\ UNCHANGED <<which, S0, P0>>
Port(A) == which = "port" /\ A /\ UNCHANGED <<which, vars, P0>>
Slave(A) == which = "slave" /\ A /\ UNCHANGED <<which, vars, S0>>

MCInit ==
    /\ which \in {"json", "port", "slave"}
    /\ Init /\ S!SaveInit /\ P!Init
    /\ which # "slave" => mode = "none"
MCNext == Json(Next) \/ Port(S!SaveNext) \/ Slave(P!Next)
MCSpec == MCInit /\ [][MCNext]_AllVars

-----------------------------------------------------------------------------
\* A port that asks for no save loses no queued value in a crash (PortSave).
SavesHold == S!SavesHold

\* What users change while a slave is offline waits until it is sent, and the caches of a slave
\* that is listened to come to what it has (Provisioning).
ProvisioningHolds == P!ProvisioningHolds
=============================================================================
