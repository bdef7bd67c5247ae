------------------------------ MODULE MCDevices ------------------------------
(***************************************************************************)
(* What the web application does with a device, for TLC: the forms of       *)
(* devices (DevicePages) and a firmware form (FirmwareForm).  Each is       *)
(* checked on its own: only one of them, `which`, takes steps.              *)
(***************************************************************************)
EXTENDS DevicePages

CONSTANT MaxUpdates

ASSUME DevicesAssumption ==
    /\ IsFiniteSet(Form) /\ Form \subseteq Nat \ {0} /\ MaxUpdates \in Nat \ {0}
    /\ {MaxWire, MaxUses} \subseteq Nat

VARIABLES
    which,
    \* FirmwareForm, and main
    status, begun, good, reachable, open, shown, close, updateRunning, updateFinished, patch,
    poll, answer, asked, inProgress, ignoring, accepted, overlap, told

F == INSTANCE FirmwareForm

D0 == <<name, online, mainUp, wire, bulk, cached, page, away, current, renamed, form, uses,
        claims, asserted>>
F0 == <<status, begun, good, reachable, open, shown, close, updateRunning, updateFinished, patch,
        poll, answer, asked, inProgress, ignoring, accepted, overlap, told>>

AllVars == <<which, main, D0, F0>>

DeviceStep(S) == which = "device" /\ S /\ UNCHANGED <<which, F0>>
FirmwareStep(S) == which = "firmware" /\ S /\ UNCHANGED <<which, D0>>

\* What takes no steps begins in one of its states.
MCInit ==
    /\ which \in {"device", "firmware"}
    /\ Init /\ F!Init
    /\ which # "device" => online
    /\ which # "firmware" => status = "idle"

MCNext == DeviceStep(Next) \/ FirmwareStep(F!Next)

\* Fairness is that of FirmwareForm and DevicePages.
MCFairness ==
    /\ WF_AllVars(FirmwareStep(F!Restart) \/ DeviceStep(EventTask))
    /\ SF_AllVars(FirmwareStep(\E how \in {"idle", "error"} : F!UpdateEnds(how)))
    /\ WF_AllVars(FirmwareStep(F!Patched \/ F!PatchFails))
    /\ \A c \in F!Chain :
          /\ WF_AllVars(FirmwareStep(F!Ask(c) \/ F!AskFails(c) \/ F!Answered(c)))
          /\ SF_AllVars(FirmwareStep(F!Ask(c)))
          /\ SF_AllVars(FirmwareStep(F!Answered(c)))
          /\ WF_AllVars(FirmwareStep(F!PollAgain(c))) /\ WF_AllVars(FirmwareStep(F!PollEnds(c)))
    /\ \A f \in Form : SF_AllVars(DeviceStep(Advances(f)))

MCSpec == MCInit /\ [][MCNext]_AllVars /\ MCFairness

-----------------------------------------------------------------------------
\* An update reported as done ended well (FirmwareForm, fetchAndUpdate()).
DoneIsDone == F!DoneIsDone
\* Listen errors are ignored only while the main device is updated (patchFirmware()).
IgnoredOnlyDuringUpdate == F!IgnoredOnlyDuringUpdate
\* The Close button of a main device's form comes back (poll()).
CloseComesBack == F!CloseComesBack
=============================================================================
