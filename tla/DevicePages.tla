----------------------------- MODULE DevicePages -----------------------------
(***************************************************************************)
(* The forms of devices: the form of a slave device (devices/device-form.js *)
(* with devices/devices-section.js) or the settings form of the main device *)
(* (settings/), with the mixins both share: waiting for a device to go      *)
(* offline or come online (common/wait-device-mixin.js), rebooting it       *)
(* (common/reboot-device-mixin.js) and resetting it to factory defaults     *)
(* (common/factory-reset-device-mixin.js).                                  *)
(*                                                                         *)
(* What a form does for a device is a chain of promises; pc[c] is where     *)
(* chain c of a form stands.  A form has one condition variable at a time,  *)
(* cv, which the sections fulfil from the server's events.  All events of a *)
(* bulk are handled before the chain that one of them has set free goes on. *)
(* A form is a record; operators on it are the methods of the mixins.       *)
(***************************************************************************)
EXTENDS Integers, Sequences, FiniteSets, SequencesExt, FiniteSetsExt

CONSTANTS
    Form,       \* the forms that may exist at a time, numbered from 1
    MaxWire,    \* bound on the events that are on the way when something happens at a device
    MaxUses     \* bound on the changes, reboots and resets a user asks for

NoName == "none"
Name == {"a", "b"}      \* the names the slave device may have
Other(n) == CHOOSE m \in Name : m # n
Chain == {"apply", "enable", "reboot", "reset"}
Unsettled == {"off", "on"}

VARIABLES
    main,       \* the settings form of the main device; else: forms of a slave device
    \* the master
    name,       \* the name of the slave device, NoName when there is none
    online,     \* the device is online
    mainUp,     \* the browser is connected to the main device
    wire,       \* the events on the way to the browser
    \* the browser
    bulk,       \* the events of the bulk being handled
    cached,     \* the name of the device in the cache
    page,       \* the form that is open, 0: none
    away,       \* the user is in another section
    current,    \* currentDeviceName
    renamed,    \* renamedDeviceName
    form,       \* form[f]: the forms
    uses,       \* number of changes, reboots and resets asked for
    \* history
    claims,     \* what had been told of a device when it was reported rebooted
    asserted    \* an AssertionError of the wait mixin was thrown

server == <<main, name, online, mainUp>>
vars == <<server, wire, bulk, cached, page, away, current, renamed, form, uses, claims, asserted>>

NewForm(n) ==
    [name |-> n, cv |-> "none", view |-> "normal", rebooting |-> FALSE,
     pc |-> [c \in Chain |-> "none"], what |-> {},
     told |-> "nothing", own |-> "nothing"]

-----------------------------------------------------------------------------
(* The mixins *)

Cleared(r) == [r EXCEPT !.view = IF @ = "progress" THEN "normal" ELSE @]
Errored(r) == [r EXCEPT !.view = "error"]
InProgress(r) == [r EXCEPT !.view = "progress"]
Ended(r, c) == [r EXCEPT !.pc[c] = "none", !.what = IF c = "apply" THEN {} ELSE @]

\* Mutant: the variable is forgotten without rejecting who waits.
WaitForgotten(r) == Cleared([r EXCEPT !.cv = "none"])

\* cancelWaiting(): whoever waits is rejected.
WaitCancelled(r) ==
    Cleared([r EXCEPT !.cv = "none",
                      !.pc = [c \in Chain |-> IF @[c] \in Unsettled THEN "cancelled" ELSE @[c]]])

\* The catch of a chain: waiting is cancelled, the error shown.
Failed(r, c) ==
    LET failed == Errored(WaitCancelled(Ended(r, c))) IN
    IF c = "reboot"
    THEN [failed EXCEPT !.rebooting = FALSE, !.told = "nothing", !.own = "nothing"] ELSE failed

\* waitDeviceOffline(), waitDeviceOnline(): chain c waits on a new condition variable.
MayWait(r) == r.cv = "none"
Waiting(r, c, what) == [r EXCEPT !.cv = what, !.pc[c] = what]

\* fulfillDeviceOffline(), fulfillDeviceOnline(), if that is what is waited for.
Fulfilled(r, what) ==
    IF r.cv = what
    THEN [r EXCEPT !.cv = "none",
                   !.pc = [c \in Chain |-> IF @[c] = what THEN "fulfilled " \o what ELSE @[c]]]
    ELSE r

\* History: what was told of the device, or of the main device, since a reset was accepted.
Told(s, what) == CASE s = "nothing" /\ what = "off" -> "off"
                   [] s = "off" /\ what = "on" -> "off and on"
                   [] OTHER -> s
Heard(r, what, own) ==
    IF r.pc["reboot"] \in Unsettled
    THEN [r EXCEPT !.told = Told(@, what), !.own = IF own THEN Told(@, what) ELSE @]
    ELSE r

-----------------------------------------------------------------------------
(* The browser runs one task at a time: first the events of the bulk, then the chains they  *)
(* have set free, then whatever comes next.                                                 *)
Microtask(r) == \E c \in Chain : r.pc[c] \notin
                    {"none", "confirm", "master", "attrs", "post"} \cup Unsettled
Free == bulk = <<>> /\ \A f \in Form : ~Microtask(form[f])

\* The form can be used: it is on the screen and shows no progress.
Usable(f) == uses < MaxUses /\ Free /\ page = f /\ ~away /\ form[f].view # "progress"
                  /\ form[f].pc["apply"] = "none"

Rest == <<server, wire, bulk, cached, page, away, current, renamed, claims>>
\* A form that was closed and has nothing under way is forgotten.
Kept(r, isOpen) ==
    IF isOpen \/ \E c \in Chain : r.pc[c] # "none" THEN r ELSE NewForm(NoName)
Becomes(f, r) == form' = [form EXCEPT ![f] = Kept(r, page = f)]

Spare == {f \in Form : page # f /\ \A c \in Chain : form[f].pc[c] = "none"}

-----------------------------------------------------------------------------
(* The user *)

Open ==
    /\ Free /\ page = 0 /\ ~away /\ Spare # {}
    /\ main \/ cached # NoName
    /\ LET f == Min(Spare) IN
       /\ page' = f
       /\ form' = [form EXCEPT ![f] = NewForm(cached)]
    /\ current' = cached
    /\ renamed' = NoName
    /\ UNCHANGED <<server, wire, bulk, cached, away, uses, claims, asserted>>

\* onClose() of a slave's form; the settings form has none.
Closed(f) == IF main THEN form[f] ELSE WaitCancelled(form[f])

Close ==
    /\ Free /\ page # 0
    /\ page' = 0
    /\ current' = NoName
    /\ form' = [form EXCEPT ![page] = Kept(Closed(page), FALSE)]
    /\ away' = (away \/ main)
    /\ UNCHANGED <<server, wire, bulk, cached, renamed, uses, claims, asserted>>

\* Another section is shown, or this one again.  The settings form does not stay open.
Switch ==
    /\ uses < MaxUses /\ Free /\ (main => page = 0)
    /\ away' = ~away
    /\ uses' = uses + 1
    /\ UNCHANGED <<server, wire, bulk, cached, page, current, renamed, form, claims,
                   asserted>>

\* What a user applies at a time: attributes, some of which make the device reconnect; the
\* name; the master's fields, of which enabling an offline device is waited for.
Changes ==
    IF main THEN {{"attrs"}}
    ELSE {{"master"}, {"attrs"}, {"master", "attrs", "reconnect"}, {"attrs", "name"}} \cup
         IF online THEN {} ELSE {{"master", "enabled"}}

Confirmed(what) == what \cap {"name", "reconnect"} # {}
FirstCall(what) == IF "master" \in what THEN "master" ELSE "attrs"

\* applyData(): the new name is remembered, then the user asked to confirm.
Apply(f, what) ==
    /\ Usable(f) /\ (main \/ cached = form[f].name)
    /\ Becomes(f, [form[f] EXCEPT
                      !.what = what, !.view = "normal",
                      !.pc["apply"] = IF Confirmed(what) THEN "confirm" ELSE FirstCall(what)])
    /\ renamed' = IF "name" \in what THEN Other(form[f].name) ELSE renamed
    /\ uses' = uses + 1
    /\ UNCHANGED <<server, wire, bulk, cached, page, away, current, claims, asserted>>

Answer(f) ==
    /\ Free /\ form[f].pc["apply"] = "confirm"
    /\ \/ Becomes(f, [form[f] EXCEPT !.pc["apply"] = FirstCall(form[f].what)])
       \/ Becomes(f, Ended(form[f], "apply"))
    /\ UNCHANGED <<Rest, uses, asserted>>

\* doReboot(), confirmAndFactoryReset(): POST /reset.
Reboot(f) ==
    /\ Usable(f) /\ (main \/ cached = form[f].name)
    /\ Becomes(f, [InProgress(form[f]) EXCEPT !.pc["reboot"] = "post", !.rebooting = TRUE])
    /\ uses' = uses + 1
    /\ UNCHANGED <<Rest, asserted>>
FactoryReset(f) ==
    /\ Usable(f) /\ (main \/ cached = form[f].name)
    /\ Becomes(f, [InProgress(form[f]) EXCEPT !.pc["reset"] = "post"])
    /\ uses' = uses + 1
    /\ UNCHANGED <<Rest, asserted>>

-----------------------------------------------------------------------------
(* Answers to the calls *)

\* PATCH /devices/...; a device just enabled is waited for (startWaitingDeviceOnline()).
MasterPatched(f) ==
    /\ Free /\ form[f].pc["apply"] = "master"
    /\ LET r == form[f]
           next == [r EXCEPT !.pc["apply"] = IF "attrs" \in r.what THEN "attrs" ELSE "none"] IN
       IF "enabled" \notin r.what THEN Becomes(f, next) /\ UNCHANGED asserted
       ELSE IF MayWait(r)
       THEN Becomes(f, Waiting(InProgress(next), "enable", "on")) /\ UNCHANGED asserted
       ELSE Becomes(f, Failed(InProgress(r), "apply")) /\ asserted' = TRUE
    /\ UNCHANGED <<Rest, uses>>

\* Events of the same kind for the same device replace each other in the session's queue.
Sent(events, e) == Append(SelectSeq(events, LAMBDA d : d # e /\ (d.kind # "update"
                              \/ e.kind # "update" \/ d.name # e.name)), e)
Event(kind, n, on) == [kind |-> kind, name |-> n, on |-> on]

\* PATCH /device: with the name, the master removes the device and adds it anew; with an
\* attribute that makes it reconnect, the device is waited for to go offline.
AttrsPatched(f) ==
    /\ Free /\ form[f].pc["apply"] = "attrs"
    /\ LET r == form[f] IN
       /\ IF "name" \in r.what /\ name = r.name
          THEN /\ name' = Other(r.name)
               /\ wire' = Sent(Sent(wire, Event("remove", r.name, FALSE)),
                               Event("add", Other(r.name), FALSE))
          ELSE UNCHANGED <<name, wire>>
       /\ IF "reconnect" \notin r.what THEN Becomes(f, Ended(r, "apply")) /\ UNCHANGED asserted
          ELSE IF MayWait(r)
          THEN Becomes(f, Waiting(InProgress(r), "apply", "off")) /\ UNCHANGED asserted
          ELSE Becomes(f, Failed(r, "apply")) /\ asserted' = TRUE
    /\ UNCHANGED <<main, online, mainUp, bulk, cached, page, away, current, renamed,
                   uses, claims>>

Posted(f, c) ==
    /\ Free /\ form[f].pc[c] = "post"
    /\ IF MayWait(form[f])
       THEN /\ Becomes(f, [Waiting(form[f], c, "off") EXCEPT
                              !.told = "nothing", !.own = "nothing"])
            /\ UNCHANGED asserted
       ELSE Becomes(f, Failed(form[f], c)) /\ asserted' = TRUE
    /\ UNCHANGED <<Rest, uses>>

\* A call fails: the chain's catch; a refused PATCH of attributes cancels no waiting.
CallFails(f, c) ==
    /\ Free /\ form[f].pc[c] \in {"master", "attrs", "post"}
    /\ Becomes(f, IF form[f].pc[c] = "attrs" THEN Errored(Ended(form[f], c))
                  ELSE Failed(form[f], c))
    /\ UNCHANGED <<Rest, uses, asserted>>

-----------------------------------------------------------------------------
(* Waiting *)

\* Mutant: the form is left in progress after the timeout.
TimeoutKeepsProgress(f, c) ==
    /\ Free /\ form[f].pc[c] \in Unsettled
    /\ Becomes(f, IF c = "enable" THEN Ended(form[f], c) ELSE Failed(form[f], c))
    /\ UNCHANGED <<Rest, uses, asserted>>

\* withTimeout(): waiting for an enabled device ends, but its condition variable stays.
Timeout(f, c) ==
    /\ Free /\ form[f].pc[c] \in Unsettled
    /\ Becomes(f, IF c = "enable" THEN Errored(Ended(form[f], c)) ELSE Failed(form[f], c))
    /\ UNCHANGED <<Rest, uses, asserted>>

\* Mutant: coming online is not waited for.
WentOfflineDone(f, c) ==
    /\ bulk = <<>> /\ form[f].pc[c] = "fulfilled off" /\ c # "reset"
    /\ Becomes(f, Cleared([Ended(form[f], c) EXCEPT !.rebooting = FALSE]))
    /\ claims' = IF c = "reboot" THEN claims \cup {<<form[f].told, form[f].own>>} ELSE claims
    /\ UNCHANGED <<server, wire, bulk, cached, page, away, current, renamed, uses, asserted>>

\* The device went offline: now it is waited for to come online.
WentOffline(f, c) ==
    /\ bulk = <<>> /\ form[f].pc[c] = "fulfilled off" /\ c # "reset"
    /\ IF MayWait(form[f])
       THEN Becomes(f, Waiting(form[f], c, "on")) /\ UNCHANGED asserted
       ELSE Becomes(f, Failed(form[f], c)) /\ asserted' = TRUE
    /\ UNCHANGED <<Rest, uses>>

\* A device being reset went offline: the form is closed.
ResetDone(f) ==
    /\ bulk = <<>> /\ form[f].pc["reset"] = "fulfilled off"
    /\ form' = [form EXCEPT ![f] =
                   Kept(Cleared(Ended(IF page = f THEN Closed(f) ELSE @, "reset")), FALSE)]
    /\ page' = IF page = f THEN 0 ELSE page
    /\ current' = IF page = f THEN NoName ELSE current
    /\ UNCHANGED <<server, wire, bulk, cached, away, renamed, uses, claims, asserted>>

\* The device came online; a reboot is reported as done.
CameOnline(f, c) ==
    /\ bulk = <<>> /\ form[f].pc[c] = "fulfilled on"
    /\ LET r == Cleared(Ended(form[f], c)) IN
       IF c = "reboot"
       THEN /\ Becomes(f, [r EXCEPT !.rebooting = FALSE, !.told = "nothing", !.own = "nothing"])
            /\ claims' = claims \cup {<<r.told, r.own>>}
       ELSE Becomes(f, r) /\ UNCHANGED claims
    /\ UNCHANGED <<server, wire, bulk, cached, page, away, current, renamed, uses, asserted>>

Cancelled(f, c) ==
    /\ bulk = <<>> /\ form[f].pc[c] = "cancelled"
    /\ Becomes(f, IF c = "enable" THEN Cleared(Ended(form[f], c)) ELSE Failed(form[f], c))
    /\ UNCHANGED <<Rest, uses, asserted>>

-----------------------------------------------------------------------------
(* Events *)

Deliver ==
    /\ Free /\ wire # <<>>
    /\ bulk' = wire
    /\ wire' = <<>>
    /\ UNCHANGED <<server, cached, page, away, current, renamed, form, uses, claims, asserted>>

Takes(kind) == bulk # <<>> /\ Head(bulk).kind = kind /\ bulk' = Tail(bulk)
What(e) == IF e.on THEN "on" ELSE "off"

\* slave-device-update: the current page is told, if it is the form of that device.
UpdateEvent ==
    /\ Takes("update")
    /\ LET e == Head(bulk) IN
       form' = IF page # 0 /\ current = e.name
               THEN [form EXCEPT ![page] =
                       IF away THEN Heard(@, What(e), TRUE)
                       ELSE Fulfilled(Heard(@, What(e), TRUE), What(e))]
               ELSE form
    /\ UNCHANGED <<server, wire, cached, page, away, current, renamed, uses, claims, asserted>>

\* device-update: the settings form is updated unless rebooting, which clears its progress.
AttrsEvent ==
    /\ Takes("attrs")
    /\ form' = IF page # 0 /\ ~form[page].rebooting
               THEN [form EXCEPT ![page] = Cleared(@)] ELSE form
    /\ UNCHANGED <<server, wire, cached, page, away, current, renamed, uses, claims, asserted>>

\* The main device is disconnected or reconnected: whichever form is the current page is told.
MainEvent ==
    /\ Takes("main")
    /\ LET e == Head(bulk) IN
       form' = IF page # 0
               THEN [form EXCEPT ![page] =
                       IF away THEN Heard(@, What(e), main)
                       ELSE Fulfilled(Heard(@, What(e), main), What(e))]
               ELSE form
    /\ UNCHANGED <<server, wire, cached, page, away, current, renamed, uses, claims, asserted>>

\* slave-device-add: if the name was given in a form, the device's new form replaces it and
\* waits for the device.
AddEvent ==
    /\ Takes("add")
    /\ cached' = Head(bulk).name
    /\ IF renamed = Head(bulk).name /\ Spare # {}
       THEN LET f == Min(Spare)
                new == Waiting(InProgress(NewForm(Head(bulk).name)), "enable", "on") IN
            /\ form' = [g \in Form |-> IF g = f THEN new
                                       ELSE IF g = page THEN Kept(WaitCancelled(form[g]), FALSE)
                                       ELSE form[g]]
            /\ page' = f
            /\ current' = Head(bulk).name
            /\ renamed' = NoName
       ELSE UNCHANGED <<page, current, renamed, form>>
    /\ UNCHANGED <<server, wire, away, uses, claims, asserted>>

\* Mutant: only the form on the screen is closed.
RemoveEventShown ==
    /\ Takes("remove")
    /\ cached' = IF cached = Head(bulk).name THEN NoName ELSE cached
    /\ IF page # 0 /\ current = Head(bulk).name /\ ~away /\ renamed = NoName
       THEN /\ page' = 0
            /\ current' = NoName
            /\ form' = [form EXCEPT ![page] = Kept(WaitCancelled(@), FALSE)]
       ELSE UNCHANGED <<page, current, form>>
    /\ UNCHANGED <<server, wire, away, renamed, uses, claims, asserted>>

\* slave-device-remove: the device's form is closed, unless one was renamed.
RemoveEvent ==
    /\ Takes("remove")
    /\ cached' = IF cached = Head(bulk).name THEN NoName ELSE cached
    /\ IF page # 0 /\ form[page].name = Head(bulk).name /\ renamed = NoName
       THEN /\ page' = 0
            /\ current' = NoName
            /\ form' = [form EXCEPT ![page] = Kept(WaitCancelled(@), FALSE)]
       ELSE UNCHANGED <<page, current, form>>
    /\ UNCHANGED <<server, wire, away, renamed, uses, claims, asserted>>

-----------------------------------------------------------------------------
(* Devices and master *)

\* The slave goes offline or comes online; it restarts by itself, too.
Flap ==
    /\ Free /\ ~main /\ name # NoName /\ Len(wire) < MaxWire
    /\ online' = ~online
    /\ wire' = Sent(wire, Event("update", name, ~online))
    /\ UNCHANGED <<main, name, mainUp, bulk, cached, page, away, current, renamed, form,
                   uses, claims,
                   asserted>>

\* So does the connection to the main device.
MainFlap ==
    /\ Free /\ Len(wire) < MaxWire /\ \A i \in 1..Len(wire) : wire[i].kind # "main"
    /\ mainUp' = ~mainUp
    /\ wire' = Sent(wire, Event("main", NoName, ~mainUp))
    /\ UNCHANGED <<main, name, online, bulk, cached, page, away, current, renamed, form,
                   uses, claims,
                   asserted>>

AttrsChange ==
    /\ Free /\ main /\ Len(wire) < MaxWire
    /\ wire' = Sent(wire, Event("attrs", NoName, TRUE))
    /\ wire' # wire
    /\ UNCHANGED <<server, bulk, cached, page, away, current, renamed, form, uses,
                   claims, asserted>>

\* The device is removed, in its form or by somebody else, and may be added again.
RemoveDevice ==
    /\ uses < MaxUses /\ Free /\ ~main /\ name # NoName /\ Len(wire) < MaxWire
    /\ name' = NoName /\ online' = FALSE
    /\ wire' = Sent(wire, Event("remove", name, FALSE))
    /\ uses' = uses + 1
    /\ UNCHANGED <<main, mainUp, bulk, cached, page, away, current, renamed, form,
                   claims, asserted>>
Add(n) ==
    /\ Free /\ ~main /\ name = NoName /\ wire = <<>>
    /\ name' = n
    /\ wire' = Sent(wire, Event("add", n, FALSE))
    /\ UNCHANGED <<main, online, mainUp, bulk, cached, page, away, current, renamed, form,
                   uses, claims, asserted>>

-----------------------------------------------------------------------------
Init ==
    /\ main \in BOOLEAN
    /\ name = IF main THEN NoName ELSE "a"
    /\ online \in BOOLEAN /\ mainUp = TRUE
    /\ wire = <<>> /\ bulk = <<>>
    /\ cached = name /\ page = 0 /\ away = FALSE
    /\ current = NoName /\ renamed = NoName
    /\ form = [f \in Form |-> NewForm(NoName)]
    /\ uses = 0 /\ claims = {} /\ asserted = FALSE

User == \/ Open \/ Close \/ Switch
        \/ \E f \in Form : \/ \E what \in Changes : Apply(f, what)
                           \/ Answer(f) \/ Reboot(f) \/ FactoryReset(f)
Calls == \E f \in Form : \/ MasterPatched(f) \/ AttrsPatched(f)
                         \/ \E c \in {"reboot", "reset"} : Posted(f, c)
                         \/ \E c \in Chain : CallFails(f, c)
Waits == \E f \in Form : \/ ResetDone(f)
                         \/ \E c \in Chain : \/ Timeout(f, c) \/ WentOffline(f, c)
                                             \/ CameOnline(f, c) \/ Cancelled(f, c)
Events == Deliver \/ UpdateEvent \/ AttrsEvent \/ MainEvent \/ AddEvent \/ RemoveEvent
World == Flap \/ MainFlap \/ AttrsChange \/ RemoveDevice \/ \E n \in Name : Add(n)

Next == User \/ Calls \/ Waits \/ Events \/ World

Spec == Init /\ [][Next]_vars

\* What a form has under way goes on, however many other tasks the browser has to run:
\* continuations are run; calls are answered, fail or time out, and so does waiting; the user
\* answers when asked to confirm.
Advances(f) ==
    \/ Answer(f) \/ MasterPatched(f) \/ AttrsPatched(f) \/ ResetDone(f)
    \/ \E c \in Chain : \/ Posted(f, c) \/ CallFails(f, c) \/ Timeout(f, c)
                        \/ WentOffline(f, c) \/ CameOnline(f, c) \/ Cancelled(f, c)
EventTask == UpdateEvent \/ AttrsEvent \/ MainEvent \/ AddEvent \/ RemoveEvent

FairSpec == Spec /\ WF_vars(EventTask) /\ \A f \in Form : SF_vars(Advances(f))

-----------------------------------------------------------------------------
\* A chain that waits can be fulfilled: the form's condition variable is its own.
EveryWaitHasItsVariable ==
    \A f \in Form, c \in Chain :
        form[f].pc[c] \in Unsettled =>
            /\ form[f].cv = form[f].pc[c]
            /\ \A d \in Chain \ {c} : form[f].pc[d] \notin Unsettled

\* A form in progress, and one that is not updated because its device is being rebooted, is
\* usable again some time, whatever the device does.
FormsRecover ==
    \A f \in Form : form[f].view = "progress" \/ form[f].rebooting
                    ~> form[f].view # "progress" /\ ~form[f].rebooting

\* A device is reported rebooted only after it, or else the main device, was told to have
\* gone offline and come back since the reset was accepted.
RebootedAsTold == \A c \in claims : c[1] = "off and on"

\* A removed device's form does not stay open, unless a new name was given in a form.
RemovedFormCloses ==
    ~main /\ wire = <<>> /\ bulk = <<>> /\ page # 0 =>
        cached = form[page].name \/ renamed # NoName

\* The forms follow the devices (the three above).
DevicesFollow == EveryWaitHasItsVariable /\ RebootedAsTold /\ RemovedFormCloses

\* Nobody attempts to wait while already waiting (the assertions in WaitDeviceMixin).
NeverWaitsTwice == ~asserted

\* A device reported rebooted has itself been told to have gone offline and come back.
RebootWaits == \A c \in claims : c[2] = "off and on"
=============================================================================
