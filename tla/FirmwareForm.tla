----------------------------- MODULE FirmwareForm -----------------------------
(***************************************************************************)
(* The form that updates a device's firmware (common/update-firmware-form.js *)
(* over getFirmware() and patchFirmware() of api/devices.js): it asks the   *)
(* device for its status every second while an update runs, also one that   *)
(* was begun elsewhere, and after it was closed.                            *)
(*                                                                         *)
(* Each chain of such polls is one of Chain: "load", begun with the form,   *)
(* and one per update asked for.  An answer tells the status that the       *)
(* device had when it was asked, and may be long on its way: the device     *)
(* looks for the latest version first.                                      *)
(***************************************************************************)
EXTENDS Integers, FiniteSets

CONSTANTS
    MaxUpdates      \* bound on the updates asked for in the form

Chain == 0..MaxUpdates      \* 0: the one begun with the form
NONE == "none"

VARIABLES
    main,       \* the device is the main one
    status,     \* the device's status: "idle", "updating" or "error"
    begun,      \* the number of the update that ran last, 0: one begun elsewhere
    good,       \* the updates asked for here that ended well
    reachable,  \* the device answers
    \* the form
    open,
    shown,      \* the status shown: "idle", "updating", "restarting" or "error"
    close,      \* the Close button is enabled
    updateRunning, updateFinished,
    patch,      \* the number of the update whose PATCH is under way, else 0
    poll,       \* poll[c]: "none", "ask", "asked", "later" or "end"
    answer,     \* answer[c]: the status that the answer on its way tells
    asked,      \* number of updates asked for
    \* the API modules
    inProgress, \* firmwareUpdateInProgress
    ignoring,   \* ignoreListenErrors
    \* history
    accepted,   \* the number of the update accepted last
    overlap,    \* an update was accepted while another chain had its answer on the way
    told        \* the updates that were reported as done

device == <<status, begun, good, reachable>>
buttons == <<shown, close, updateRunning, updateFinished>>
api == <<inProgress, ignoring>>
history == <<accepted, overlap, told>>
vars == <<main, device, open, buttons, patch, poll, answer, asked, api, history>>

-----------------------------------------------------------------------------
(* The device *)

\* An update ends or fails; one may be begun by somebody else.
UpdateEnds(how) ==
    /\ status = "updating" /\ reachable
    /\ status' = how
    /\ good' = IF how = "idle" THEN good \cup {begun} ELSE good
    /\ UNCHANGED <<main, begun, reachable, open, buttons, patch, poll, answer, asked, api,
                   history>>

\* While updating it restarts and cannot be reached.
Restart ==
    /\ status = "updating"
    /\ reachable' = ~reachable
    /\ UNCHANGED <<main, status, begun, good, open, buttons, patch, poll, answer, asked, api,
                   history>>

-----------------------------------------------------------------------------
(* Polling *)

\* getFirmware(): the device looks at its status when the request comes in.
Ask(c) ==
    /\ poll[c] = "ask" /\ reachable
    /\ poll' = [poll EXCEPT ![c] = "asked"]
    /\ answer' = [answer EXCEPT ![c] = status]
    /\ UNCHANGED <<main, device, open, buttons, patch, asked, api, history>>

\* Mutant: an update is taken as done whatever the status it ended with.
AnsweredAlwaysDone(c) ==
    /\ poll[c] = "asked"
    /\ LET s == answer[c] IN
       /\ shown' = s
       /\ poll' = [poll EXCEPT ![c] = IF s = "updating" THEN "later" ELSE "end"]
       /\ updateRunning' = (updateRunning /\ s = "updating")
       /\ updateFinished' = (updateFinished \/ (updateRunning /\ s # "updating"))
       /\ told' = IF updateRunning /\ s # "updating" THEN told \cup {accepted} ELSE told
       /\ inProgress' = (inProgress /\ s = "updating")
    /\ answer' = [answer EXCEPT ![c] = NONE]
    /\ UNCHANGED <<main, device, open, close, patch, asked, ignoring, accepted, overlap>>

\* fetchAndUpdate(): the form shows the status; an update that ran has ended, well or not.
Answered(c) ==
    /\ poll[c] = "asked"
    /\ LET s == answer[c] IN
       /\ shown' = s
       /\ poll' = [poll EXCEPT ![c] = IF s = "updating" THEN "later" ELSE
                                      IF c = 0 /\ shown = NONE THEN "none" ELSE "end"]
       /\ updateRunning' = (updateRunning /\ s = "updating")
       /\ updateFinished' = (updateFinished \/ (updateRunning /\ s = "idle"))
       /\ told' = IF updateRunning /\ s = "idle" THEN told \cup {accepted} ELSE told
       /\ inProgress' = (inProgress /\ s = "updating")
    /\ answer' = [answer EXCEPT ![c] = NONE]
    /\ UNCHANGED <<main, device, open, close, patch, asked, ignoring, accepted, overlap>>

\* An error while polling counts as a restart; the first fetch only shows it.
AskFails(c) ==
    /\ poll[c] \in {"ask", "asked"}
    /\ IF c = 0 /\ shown = NONE
       THEN poll' = [poll EXCEPT ![c] = "none"] /\ shown' = "error"
       ELSE poll' = [poll EXCEPT ![c] = "later"] /\ shown' = "restarting"
    /\ answer' = [answer EXCEPT ![c] = NONE]
    /\ UNCHANGED <<main, device, open, close, updateRunning, updateFinished, patch, asked, api,
                   history>>

PollAgain(c) ==
    /\ poll[c] = "later"
    /\ poll' = [poll EXCEPT ![c] = "ask"]
    /\ UNCHANGED <<main, device, open, buttons, patch, answer, asked, api, history>>

\* Mutant: only an update that went well lets the form be closed.
PollEndsWhenFinished(c) ==
    /\ poll[c] = "end"
    /\ poll' = [poll EXCEPT ![c] = "none"]
    /\ close' = (close \/ (main /\ updateFinished))
    /\ UNCHANGED <<main, device, open, shown, updateRunning, updateFinished, patch, answer,
                   asked, api, history>>

\* A second after the last answer the polls end and the main device's form may be closed.
PollEnds(c) ==
    /\ poll[c] = "end"
    /\ poll' = [poll EXCEPT ![c] = "none"]
    /\ close' = (close \/ main)
    /\ UNCHANGED <<main, device, open, shown, updateRunning, updateFinished, patch, answer,
                   asked, api, history>>

-----------------------------------------------------------------------------
(* The user *)

\* applyData(): to the latest version if there is one or after an error, to a given one
\* whatever the form shows; not while the form applies its data, the first poll included.
Apply(advanced) ==
    /\ open /\ asked < MaxUpdates /\ patch = 0 /\ shown # NONE
    /\ asked = 0 \/ poll[asked] \notin {"ask", "asked", "end"}
    /\ advanced \/ shown \in {"idle", "error"}
    /\ asked' = asked + 1 /\ patch' = asked'
    /\ UNCHANGED <<main, device, open, buttons, poll, answer, api, history>>

\* patchFirmware(): accepted unless the device is busy; listen errors are ignored then.
Patched ==
    /\ patch # 0 /\ reachable /\ status # "updating"
    /\ status' = "updating" /\ begun' = patch
    /\ patch' = 0 /\ accepted' = patch
    /\ updateRunning' = TRUE
    /\ close' = (close /\ ~main)
    /\ inProgress' = (inProgress \/ main) /\ ignoring' = (ignoring \/ main)
    /\ overlap' = (overlap \/ \E c \in Chain : poll[c] = "asked")
    /\ poll' = [poll EXCEPT ![patch] = "ask"]
    /\ UNCHANGED <<main, good, reachable, open, shown, updateFinished, answer, asked, told>>

PatchFails ==
    /\ patch # 0
    /\ patch' = 0
    /\ UNCHANGED <<main, device, open, buttons, poll, answer, asked, api, history>>

\* The window is loaded again after the main device was updated.
Close ==
    /\ open /\ close /\ patch = 0
    /\ open' = FALSE
    /\ UNCHANGED <<main, device, buttons, patch, poll, answer, asked, api, history>>

Reopen ==
    /\ ~open /\ ~(main /\ updateFinished) /\ \A c \in Chain : poll[c] = "none"
    /\ open' = TRUE /\ shown' = NONE /\ close' = TRUE /\ updateRunning' = FALSE
    /\ updateFinished' = FALSE
    /\ poll' = [poll EXCEPT ![0] = "ask"]
    /\ UNCHANGED <<main, device, patch, answer, asked, api, history>>

-----------------------------------------------------------------------------
Init ==
    /\ main \in BOOLEAN /\ status \in {"idle", "updating", "error"}
    /\ begun = 0 /\ good = {} /\ reachable = TRUE
    /\ open = TRUE /\ shown = NONE /\ close = TRUE
    /\ updateRunning = FALSE /\ updateFinished = FALSE
    /\ patch = 0 /\ asked = 0
    /\ poll = [c \in Chain |-> IF c = 0 THEN "ask" ELSE "none"]
    /\ answer = [c \in Chain |-> NONE]
    /\ inProgress = FALSE /\ ignoring = FALSE /\ accepted = 0 /\ overlap = FALSE /\ told = {}

Polls(c) == Ask(c) \/ Answered(c) \/ AskFails(c) \/ PollAgain(c) \/ PollEnds(c)

Next ==
    \/ \E how \in {"idle", "error"} : UpdateEnds(how)
    \/ Restart
    \/ \E c \in Chain : Polls(c)
    \/ \E advanced \in BOOLEAN : Apply(advanced)
    \/ Patched \/ PatchFails \/ Close \/ Reopen

Spec == Init /\ [][Next]_vars

\* Timers fire, requests are answered or fail, and not always fail while the device is up;
\* an update does not last for ever.
FairSpec ==
    /\ Spec
    /\ SF_vars(\E how \in {"idle", "error"} : UpdateEnds(how)) /\ WF_vars(Restart)
    /\ WF_vars(Patched \/ PatchFails)
    /\ \A c \in Chain : /\ WF_vars(Ask(c) \/ AskFails(c) \/ Answered(c))
                        /\ SF_vars(Ask(c)) /\ SF_vars(Answered(c))
                        /\ WF_vars(PollAgain(c)) /\ WF_vars(PollEnds(c))

-----------------------------------------------------------------------------
\* An update reported as done was asked for here and ended well, unless it was asked for
\* while an older poll of the form was still under way.
DoneIsDone == overlap \/ told \subseteq good

\* The Close button of a main device's form comes back (poll()).
CloseComesBack == open /\ ~close ~> close

\* Listen errors are ignored only during an update of the main device.
IgnoredOnlyDuringUpdate == ignoring => inProgress
=============================================================================
