---------------------------- MODULE Provisioning ----------------------------
(***************************************************************************)
(* A slave device as its master knows it: going online and offline,         *)
(* following its changes, and provisioning, which brings it the changes     *)
(* that users made while it was offline (slaves/devices.py, slaves/ports.py *)
(* and slaves/api/funcs/devices.py).                                        *)
(*                                                                         *)
(* The slave is listened to, polled, or permanently offline ("none"): then  *)
(* it posts its events, and the master turns to it a second after one.  It  *)
(* has one attribute, the parameters of its webhooks (those of reverse API  *)
(* calls are treated alike), and one port with an attribute and a value.  A *)
(* value of an item is the number of the change that set it.                *)
(*                                                                         *)
(* Events, and saves by the JSON driver, suspend nothing here, and what is  *)
(* to be saved soon (save_asap()) is saved at once: PortSave has the rest.  *)
(***************************************************************************)
EXTENDS Integers, Sequences, SequencesExt

CONSTANTS
    None,
    Run,            \* tasks that may turn to the slave at a time; a loop is one
    RetryCount,     \* settings.slaves.retry_count
    MaxChanges,     \* bound on the changes, by users and at the device
    MaxFaults       \* bound on the times the device goes, calls fail and the master restarts

Loop == CHOOSE r \in Run : TRUE

DeviceItem == {"device", "webhooks"}
PortItem == {"port", "value"}
Item == DeviceItem \cup PortItem

VARIABLES
    mode,           \* "listen", "poll" or "none"
    reachable,
    remote,         \* the device: the value of each item
    events,         \* its events that wait to be fetched or posted, with what they tell
    online,         \* _online
    local,          \* the caches: _cached_attrs, _cached_webhooks, a port's _cached_attrs, _cached_value
    values,         \* _remote_value_queue, the newest first
    marked,         \* what is to be provisioned
    loaded,         \* the port exists at the master
    disk,           \* the caches and marks as they were saved
    failures,       \* failed tries counted before the device counts as offline
    row,            \* history: those in a row
    inbox,          \* events received and not yet handled
    pc,             \* pc[r]: where the task stands
    sending,        \* what a provisioning call under way tells
    did,            \* what the task has provisioned
    timer,          \* a provisioning is scheduled
    writing,        \* the value that an online write has told the device, if no answer came yet
    changes, faults,
    wanted,         \* history: the last change made to each item while the device was offline
    arrived,        \* history: the items whose last such change the device has had
    lost, stuck     \* history: items that something below takes the change or the news of

device == <<reachable, remote, events>>
caches == <<local, values, marked, loaded>>
link == <<online, failures, row, inbox>>
tasks == <<pc, sending, did, timer>>
bounds == <<changes, faults>>
history == <<wanted, arrived, lost, stuck>>
vars == <<mode, device, caches, disk, link, tasks, writing, bounds, history>>

-----------------------------------------------------------------------------
(* The device *)

Told(of, v) == [of |-> of, attr |-> v[of], value |-> v["value"]]

\* The events that a change of an item causes: there are none of webhooks.
EventsOf(i, v) == IF i = "webhooks" THEN <<>> ELSE <<Told(i, v)>>

\* A change made at the device, or by a call that is passed on to it.
Changed(i, n) ==
    /\ remote' = [remote EXCEPT ![i] = n]
    /\ events' = events \o EventsOf(i, remote')

RemoteChange(i) ==
    /\ changes < MaxChanges /\ changes' = changes + 1 /\ Changed(i, changes')
    /\ UNCHANGED <<mode, reachable, caches, disk, link, tasks, writing, faults, history>>

Goes ==
    /\ reachable /\ faults < MaxFaults /\ faults' = faults + 1 /\ reachable' = FALSE
    /\ UNCHANGED <<mode, remote, events, caches, disk, link, tasks, writing, changes, history>>

Comes ==
    /\ ~reachable /\ reachable' = TRUE
    /\ UNCHANGED <<mode, remote, events, caches, disk, link, tasks, writing, bounds, history>>

\* The device forgets a session that nobody listens to, later than the master gives it up;
\* what it cannot post is lost.
Forgotten ==
    /\ ~reachable /\ ~online /\ events # <<>> /\ events' = <<>>
    /\ UNCHANGED <<mode, reachable, remote, caches, disk, link, tasks, writing, bounds, history>>

-----------------------------------------------------------------------------
(* What the master keeps *)

\* Slave.save() of the device's items, SlavePort.save() of the port's, both or none.
Save(items) ==
    disk' = [local |-> [i \in Item |-> IF i \in items THEN local'[i] ELSE disk.local[i]],
             marked |-> (disk.marked \ items) \cup (marked' \cap items)]

\* get_last_remote_value()
LastRemoteValue == IF values # <<>> THEN Head(values) ELSE local["value"]

\* get_provisioning_attrs(), get_provisioning_value(): what has no value is not provisioned.
Pending(i) == i \in marked /\ local[i] # None /\ (i \in PortItem => loaded)

\* A change comes too late for the provisioning under way, that will take its mark or replace it.
TooLate(i) ==
    LET after == CASE i = "device" -> {"webhooks", "port", "value", "query", "fetch"}
                   [] i = "webhooks" -> {"port", "value", "query"}
                   [] i = "port" -> {"value"}
                   [] OTHER -> {}
    IN \E r \in Run : \/ pc[r] \in after
                      \/ pc[r] = i /\ sending[r] # None

\* intercept_request(), set_attr() and write_value() while the device is offline: marked, and
\* saved before the caller is answered.
ChangeOffline(i) ==
    /\ ~online /\ changes < MaxChanges /\ changes' = changes + 1
    /\ i \in PortItem => loaded
    /\ local' = [local EXCEPT ![i] = changes'] /\ marked' = marked \cup {i}
    /\ Save(IF i \in DeviceItem THEN DeviceItem ELSE PortItem)
    /\ wanted' = [wanted EXCEPT ![i] = changes'] /\ arrived' = arrived \ {i}
    /\ lost' = IF TooLate(i) THEN lost \cup {i} ELSE lost \ {i}
    /\ UNCHANGED <<mode, device, values, loaded, link, tasks, writing, faults, stuck>>

\* While it is online they are passed on; the caches follow by events.
ChangeOnline(i) ==
    /\ online /\ reachable /\ changes < MaxChanges /\ changes' = changes + 1
    /\ i \in PortItem => loaded
    /\ Changed(i, changes')
    /\ IF i = "value" THEN writing = None /\ writing' = changes' ELSE UNCHANGED writing
    /\ UNCHANGED <<mode, reachable, caches, disk, link, tasks, faults, history>>

\* write_value() goes on: the value counts as one that the device told, though a newer one may
\* have been told before.
Written ==
    /\ writing # None /\ writing' = None
    /\ values' = <<writing>> \o values
    /\ stuck' = IF remote["value"] = writing
                   \/ \E e \in ToSet(events \o inbox) :
                          e.of # "device" /\ e.value = remote["value"]
                THEN stuck ELSE stuck \cup {"value"}
    /\ UNCHANGED <<mode, device, local, marked, loaded, disk, link, tasks, bounds, wanted, arrived,
                   lost>>

\* read_value(), in a round of the update loop.
ReadValue ==
    /\ loaded /\ values # <<>>
    /\ local' = [local EXCEPT !["value"] = Last(values)] /\ values' = Front(values)
    /\ UNCHANGED <<mode, device, marked, loaded, disk, link, tasks, writing, bounds, history>>

-----------------------------------------------------------------------------
(* Events *)

\* Mutant: it iterates over a copy, and the cache is replaced by what is left.
HandleDeviceUpdateCopied(attr) ==
    /\ local' = [local EXCEPT !["device"] = IF Pending("device") THEN None ELSE attr]
    /\ UNCHANGED <<values, lost>>

\* _handle_device_update(): while an attribute is pending it raises, for it takes the attribute out
\* of the dictionary it iterates over.
HandleDeviceUpdate(attr) ==
    /\ local' = IF Pending("device") THEN local ELSE [local EXCEPT !["device"] = attr]
    /\ UNCHANGED <<values, lost>>

\* _handle_port_update(): also a pending attribute is replaced, by update_cached_attrs(), which
\* is given the value too, or not (<<>>).
HandlePortUpdate(attr, value) ==
    /\ local' = [local EXCEPT !["port"] = attr] /\ values' = value \o values
    /\ lost' = IF Pending("port") THEN lost \cup {"port"} ELSE lost

\* _handle_value_change(): neither while a value is pending, nor of the value known.
Ignored(value) == Pending("value") \/ LastRemoteValue = value

HandleValueChange(value) ==
    /\ values' = IF Ignored(value) THEN values ELSE <<value>> \o values
    /\ UNCHANGED <<local, lost>>

Raises(e) == IF e.of = "device" THEN Pending("device") ELSE ~loaded

Handle(e) ==
    \/ e.of = "device" /\ HandleDeviceUpdate(e.attr)
    \/ e.of # "device" /\ ~loaded /\ UNCHANGED <<local, values, lost>>
    \/ e.of = "port" /\ loaded /\ HandlePortUpdate(e.attr, <<e.value>>)
    \/ e.of = "value" /\ loaded /\ HandleValueChange(e.value)

SavedBy(e) ==
    IF Raises(e) \/ (e.of = "value" /\ Ignored(e.value)) THEN {}
    ELSE IF e.of = "device" THEN DeviceItem ELSE PortItem

-----------------------------------------------------------------------------
(* Online and offline *)

At(r, place) == pc[r] = place /\ sending[r] = None
GoTo(r, place) == pc' = [pc EXCEPT ![r] = place]

\* A listen request or a poll fails.
TryFails ==
    /\ mode # "none" /\ At(Loop, "wait") /\ ~reachable
    /\ failures' = IF failures > RetryCount THEN failures ELSE failures + 1
    /\ row' = IF row > RetryCount THEN row ELSE row + 1
    /\ online' = (online /\ failures' <= RetryCount)
    /\ UNCHANGED <<mode, device, caches, disk, inbox, tasks, writing, bounds, history>>

\* A listen request is answered.
Listened ==
    /\ mode = "listen" /\ At(Loop, "wait") /\ reachable
    /\ online => events # <<>> \/ row > 0
    /\ inbox' = events /\ events' = <<>> /\ row' = 0 /\ GoTo(Loop, "events")
    /\ UNCHANGED <<mode, reachable, remote, caches, disk, online, failures, sending, did, timer,
                   writing, bounds, history>>

HandleEvent ==
    /\ At(Loop, "events") /\ inbox # <<>> /\ inbox' = Tail(inbox)
    /\ Handle(Head(inbox))
    /\ UNCHANGED <<mode, device, marked, loaded, online, failures, row, tasks, writing, bounds,
                   wanted, arrived, stuck>>
    /\ Save(SavedBy(Head(inbox)))

\* _handle_online() begins with provisioning.
GoesOnline(next) ==
    IF online THEN GoTo(Loop, next) /\ UNCHANGED <<online, failures, did>>
    ELSE /\ online' = TRUE /\ failures' = 0 /\ GoTo(Loop, "device")
         /\ did' = [did EXCEPT ![Loop] = {}]

EventsHandled ==
    /\ At(Loop, "events") /\ inbox = <<>>
    /\ GoesOnline("wait")
    /\ UNCHANGED <<mode, device, caches, disk, row, inbox, sending, timer, writing, bounds, history>>

\* _poll_once() until the ports are polled
Polled ==
    /\ mode = "poll" /\ At(Loop, "wait") /\ reachable
    /\ row' = 0 /\ events' = <<>> /\ GoesOnline("ports") /\ UNCHANGED marked
    /\ IF remote["device"] = local["device"] THEN UNCHANGED <<local, values, disk, lost>>
       ELSE /\ HandleDeviceUpdate(remote["device"])
            /\ Save(IF Pending("device") THEN {} ELSE DeviceItem)
    /\ UNCHANGED <<mode, reachable, remote, loaded, inbox, sending, timer, writing, bounds, wanted,
                   arrived, stuck>>

\* A port that is found: its marks come from the disk, its attributes from the device.
AddPort ==
    /\ loaded' = TRUE /\ marked' = marked \cup (disk.marked \cap PortItem)
    /\ local' = [local EXCEPT !["port"] = remote["port"], !["value"] = None]
    /\ values' = <<remote["value"]>> /\ Save(PortItem)
    /\ UNCHANGED lost

PolledPorts ==
    /\ At(Loop, "ports") /\ reachable /\ GoTo(Loop, "wait")
    /\ IF ~loaded THEN AddPort
       ELSE /\ UNCHANGED <<loaded, marked>>
            /\ IF remote["port"] # local["port"]
               THEN /\ HandlePortUpdate(remote["port"], IF Ignored(remote["value"]) THEN <<>>
                                                        ELSE <<remote["value"]>>)
                    /\ Save(PortItem)
               ELSE /\ HandleValueChange(remote["value"])
                    /\ Save(IF Ignored(remote["value"]) THEN {} ELSE PortItem)
    /\ UNCHANGED <<mode, device, link, sending, did, timer, writing, bounds, wanted, arrived, stuck>>

PollingPortsFails ==
    /\ At(Loop, "ports") /\ ~reachable /\ GoTo(Loop, "wait") /\ online' = FALSE
    /\ UNCHANGED <<mode, device, caches, disk, failures, row, inbox, sending, did, timer, writing,
                   bounds, history>>

\* post_slave_device_events(): if the event did not raise, the device is saved and provisioning
\* is scheduled.
Post ==
    /\ mode = "none" /\ reachable /\ events # <<>>
    /\ events' = Tail(events) /\ Handle(Head(events))
    /\ timer' = (timer \/ ~Raises(Head(events)))
    /\ UNCHANGED <<mode, reachable, remote, marked, loaded, link, pc, sending, did, writing, bounds,
                   wanted, arrived, stuck>>
    /\ Save(SavedBy(Head(events)) \cup IF Raises(Head(events)) THEN {} ELSE DeviceItem)

\* schedule_provisioning_and_update(): one that has begun is not cancelled by a later one.
Begin(r) ==
    /\ mode = "none" /\ timer /\ At(r, "wait")
    /\ timer' = FALSE /\ GoTo(r, "device") /\ did' = [did EXCEPT ![r] = {}]
    /\ UNCHANGED <<mode, device, caches, disk, link, sending, writing, bounds, history>>

-----------------------------------------------------------------------------
(* Provisioning *)

Order == <<"device", "webhooks", "port", "value", "query">>
After(i) == Order[CHOOSE k \in 2..5 : Order[k - 1] = i]

\* apply_provisioning() asks the device for what is pending.
Send(r, i) ==
    /\ At(r, i) /\ Pending(i)
    /\ sending' = [sending EXCEPT ![r] = local[i]]
    /\ UNCHANGED <<mode, device, caches, disk, link, pc, did, timer, writing, bounds, history>>

\* The marks that go after an item: of a port both at once.
Cleared(i) == IF i \in DeviceItem THEN {i} ELSE IF i = "value" /\ loaded THEN PortItem ELSE {}

\* What is saved after an item, if something was provisioned.
SaveAfter(r, i) ==
    Save(IF i = "webhooks" /\ did'[r] # {} THEN DeviceItem
         ELSE IF i = "value" /\ did'[r] \cap PortItem # {} THEN PortItem ELSE {})

Skip(r, i) ==
    /\ At(r, i) /\ ~Pending(i) /\ GoTo(r, After(i)) /\ UNCHANGED did
    /\ marked' = IF i = "value" THEN marked \ Cleared(i) ELSE marked
    /\ UNCHANGED <<mode, device, local, values, loaded, link, sending, timer, writing, bounds,
                   history>>
    /\ SaveAfter(r, i)

\* The call ends, and the mark goes: whether or not the call failed (with or without an effect at
\* the device), and also if there has been a newer change.  A value's call is made without it.
Sent(r, i, ok, effect) ==
    /\ pc[r] = i /\ sending[r] # None
    /\ ok => effect
    /\ effect => reachable
    /\ IF ok \/ ~reachable THEN UNCHANGED faults ELSE faults < MaxFaults /\ faults' = faults + 1
    /\ IF effect /\ i # "value" THEN Changed(i, sending[r]) ELSE UNCHANGED <<remote, events>>
    /\ arrived' = IF remote'[i] = wanted[i] THEN arrived \cup {i} ELSE arrived
    /\ lost' = IF ok THEN lost ELSE lost \cup {i}
    /\ sending' = [sending EXCEPT ![r] = None] /\ did' = [did EXCEPT ![r] = @ \cup {i}]
    /\ marked' = marked \ Cleared(i) /\ GoTo(r, After(i))
    /\ UNCHANGED <<mode, reachable, local, values, loaded, link, timer, writing, changes, wanted,
                   stuck>>
    /\ SaveAfter(r, i)

\* The current parameters of webhooks are asked for, if none were provisioned.
Query(r) ==
    /\ At(r, "query") /\ GoTo(r, IF mode = "poll" THEN "end" ELSE "fetch")
    /\ UNCHANGED marked
    /\ IF reachable /\ "webhooks" \notin did[r]
       THEN /\ local' = [local EXCEPT !["webhooks"] = remote["webhooks"]] /\ Save(DeviceItem)
       ELSE UNCHANGED <<local, disk>>
    /\ UNCHANGED <<mode, device, values, loaded, link, sending, did, timer, writing, bounds,
                   history>>

\* fetch_and_update_device(): what is marked in the meantime is replaced.
FetchDevice(r) ==
    /\ At(r, "fetch") /\ reachable /\ GoTo(r, "fetchPorts")
    /\ local' = [local EXCEPT !["device"] = remote["device"]]
    /\ UNCHANGED <<mode, device, values, marked, loaded, disk, link, sending, did, timer, writing,
                   bounds, history>>

\* fetch_and_update_ports()
FetchPorts(r) ==
    /\ At(r, "fetchPorts") /\ reachable /\ GoTo(r, "end")
    /\ IF loaded THEN /\ HandlePortUpdate(remote["port"], <<remote["value"]>>)
                      /\ UNCHANGED <<loaded, marked>> /\ Save(PortItem)
       ELSE AddPort
    /\ UNCHANGED <<mode, device, link, sending, did, timer, writing, bounds, wanted, arrived, stuck>>

FetchFails(r) ==
    /\ pc[r] \in {"fetch", "fetchPorts"}
    /\ ~reachable /\ GoTo(r, "wait") /\ online' = FALSE
    /\ UNCHANGED <<mode, device, caches, disk, failures, row, inbox, sending, did, timer, writing,
                   bounds, history>>

\* The device and its ports are up to date.
Ends(r) ==
    /\ At(r, "end") /\ GoTo(r, IF mode = "poll" THEN "ports" ELSE "wait")
    /\ UNCHANGED <<mode, device, caches, link, sending, did, timer, writing, bounds, history>>
    /\ Save(IF mode = "none" THEN {} ELSE DeviceItem)

-----------------------------------------------------------------------------
\* The master dies and starts again (load()); the ports of a slave that is not permanently
\* offline are loaded when it tells of them (from_persisted(), _load_ports()).
Restart ==
    /\ faults < MaxFaults /\ faults' = faults + 1
    /\ loaded' = (mode = "none")
    /\ local' = [i \in Item |-> IF i \in DeviceItem \/ (loaded' /\ i = "port") THEN disk.local[i]
                                ELSE None]
    /\ values' = IF loaded' /\ disk.local["value"] # None THEN <<disk.local["value"]>> ELSE <<>>
    /\ marked' = IF loaded' THEN disk.marked ELSE disk.marked \cap DeviceItem
    /\ online' = FALSE /\ failures' = 0 /\ row' = 0 /\ inbox' = <<>>
    /\ pc' = [r \in Run |-> "wait"] /\ sending' = [r \in Run |-> None]
    /\ did' = [r \in Run |-> {}] /\ timer' = FALSE /\ writing' = None
    /\ events' = IF mode = "listen" THEN <<>> ELSE events
    /\ lost' = IF loaded' THEN lost ELSE lost \cup (disk.marked \cap PortItem)
    /\ stuck' = IF loaded' THEN stuck ELSE stuck \cup (disk.marked \cap PortItem)
    /\ UNCHANGED <<mode, reachable, remote, disk, changes, wanted, arrived>>

Init ==
    /\ mode \in {"listen", "poll", "none"}
    /\ reachable = TRUE /\ remote = [i \in Item |-> 0] /\ events = <<>>
    /\ online = FALSE /\ failures = 0 /\ row = 0 /\ inbox = <<>>
    /\ local = remote /\ values = <<>> /\ marked = {} /\ loaded = TRUE
    /\ disk = [local |-> local, marked |-> {}]
    /\ pc = [r \in Run |-> "wait"] /\ sending = [r \in Run |-> None]
    /\ did = [r \in Run |-> {}] /\ timer = FALSE /\ writing = None
    /\ changes = 0 /\ faults = 0
    /\ wanted = [i \in Item |-> 0] /\ arrived = {} /\ lost = {} /\ stuck = {}

Next ==
    \/ \E i \in Item : RemoteChange(i) \/ ChangeOffline(i) \/ ChangeOnline(i)
    \/ Goes \/ Comes \/ Forgotten \/ Written \/ ReadValue
    \/ TryFails \/ Listened \/ HandleEvent \/ EventsHandled
    \/ Polled \/ PolledPorts \/ PollingPortsFails \/ Post
    \/ \E r \in Run : \/ Begin(r) \/ Query(r) \/ FetchDevice(r) \/ FetchPorts(r) \/ FetchFails(r)
                      \/ Ends(r)
                      \/ \E i \in Item : \/ Send(r, i) \/ Skip(r, i)
                                         \/ \E ok, effect \in BOOLEAN :
                                                Sent(r, i, ok, effect)
    \/ Restart

Spec == Init /\ [][Next]_vars

-----------------------------------------------------------------------------
(* Properties *)

\* A change made while the device is offline waits as the user made it until the device has had
\* it, whatever the device tells in the meantime, restarts and calls that cross included, unless
\* its own call fails, it comes too late for a provisioning under way, or, of a port's attribute,
\* the port is updated or the master restarts before it is sent (apply_provisioning(),
\* _handle_device_update()).
ChangesArrive ==
    \A i \in {"device", "webhooks", "port"} :
        wanted[i] # 0 /\ i \notin lost =>
            i \in arrived \/ (Pending(i) /\ local[i] = wanted[i])

\* When nothing is under way, the caches of a device that is listened to and is online hold what
\* it has, and nothing is left to be provisioned; but for a value that was marked when the master
\* restarted, or whose write was answered late (_handle_online(), _handle_value_change()).
FollowsDevice ==
    mode = "listen" /\ online /\ At(Loop, "wait") /\ events = <<>> /\ writing = None =>
        /\ loaded /\ local["device"] = remote["device"] /\ local["port"] = remote["port"]
        /\ "value" \notin stuck => LastRemoteValue = remote["value"]
        /\ marked \subseteq stuck

\* Both.
ProvisioningHolds == ChangesArrive /\ FollowsDevice

\* What is provisioned is what the user asked for (slaves/devices.py:1134: "ignoring port-update
\* attribute %s due to pending provisioning attribute").
SendsWhatWasAsked == \A r \in Run : sending[r] # None => sending[r] = wanted[pc[r]]

\* Also a value reaches the device (slaves/devices.py:1331: "Port values provisioning").
ValueArrives == wanted["value"] # 0 /\ "value" \notin lost \cup marked => "value" \in arrived

\* slaves/api/funcs/devices.py:345: "As soon as we receive event requests [..] we apply
\* provisioning values".
PostsAreFollowed == [][mode = "none" /\ events' # events /\ Len(events') < Len(events) /\ reachable
                          => timer']_vars

\* slaves/devices.py:750: "the number of failed listen retries before considering the device
\* offline", of which one that succeeds is none.
RetriesInARow == [][TryFails /\ online /\ ~online' => row' > RetryCount]_vars
=============================================================================
