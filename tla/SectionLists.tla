----------------------------- MODULE SectionLists -----------------------------
(***************************************************************************)
(* The lists of the ports and devices sections: the list of devices, the    *)
(* list of the ports of one of them with the form of a port pushed on it,   *)
(* the table of the slave devices, and the user's preferences that hide     *)
(* items (ports/devices-list.js, ports/ports-list.js, ports-section.js,     *)
(* devices/devices-table.js, devices-section.js and the parts of cache.js   *)
(* that they read; frontend/api/funcs.py of the server).                    *)
(*                                                                         *)
(* Events reach the page as soon as the server announces them while it is   *)
(* connected; Client models how they travel. Names shown, the order and the *)
(* selection of items are left out.                                         *)
(***************************************************************************)
EXTENDS Integers, Sequences, FiniteSets

CONSTANTS
    None,
    Port, Slave,
    OwnerOf,        \* the slave that a port belongs to, None for the main device's
    Virtual,        \* the ports that are virtual
    Room,           \* virtual_ports of any device
    Names,          \* names of the main device
    Hidden,         \* the preferences the user may change
    MaxUses,        \* bound on the changes, the reloads and the choices, together
    MaxFails        \* bound on what fails

PortsLists == [device : Slave \cup Names \cup {None}, items : SUBSET Port, add : BOOLEAN, due : BOOLEAN]

ListsAssumption ==
    /\ None \notin PortsLists
    /\ OwnerOf \in [Port -> Slave \cup {None}]
    /\ Virtual \subseteq Port
    /\ Room \in Nat
    /\ Hidden \subseteq {"offline devices", "offline ports", "disabled ports",
                         "offline in table", "disabled in table"}

VARIABLES
    slavesOn,       \* Config.slavesEnabled
    \* the server
    there,          \* its slave devices and ports: the state of each, None if it has none
    stored,         \* the user's preferences: what is hidden
    \* the page's cache
    slaves, ports, mainName, prefs,
    saveDue,        \* savePrefsDebouncer
    puts,           \* PUT /frontend/prefs under way, in the order sent
    connected,
    asked,          \* GETs of a reload under way
    served,         \* the answer to the one of the preferences, None until served
    \* the pages
    devicesList, portsList, portForm, table,
    fake,           \* masterFakeDevice
    \* bounds and history
    changes, reloads, choices, fails,
    unheard,        \* pages that were not told of something they show
    crossed         \* a PUT of the preferences was under way behind the answer of a reload

cache == <<slaves, ports, mainName>>
saving == <<stored, prefs, saveDue, puts, choices, fails>>
loading == <<connected, asked, served, reloads, crossed>>
pages == <<devicesList, portsList, portForm, table, fake, unheard>>
lvars == <<slavesOn, there, cache, saving, loading, pages, changes>>

Conditions == {"up", "offline", "disabled"}
Enabled(x) == x \in {"up", "offline"}
Online(x) == x = "up"
Cached(f) == {x \in DOMAIN f : f[x] # None}

\* findPortSlaveDevice
Owner(p) == IF slavesOn /\ OwnerOf[p] \in Cached(slaves) THEN OwnerOf[p] ELSE None
OfSlave(d) == d # None /\ d # mainName

OwnPorts(d) ==
    IF OfSlave(d) THEN {p \in Cached(ports) : Owner(p) = d}
    ELSE {p \in Cached(ports) : Owner(p) = None}

PortItems(d, hidden) ==
    {p \in OwnPorts(d) : /\ "offline ports" \in hidden => Online(ports[p]) \/ ~Enabled(ports[p])
                         /\ "disabled ports" \in hidden => Enabled(ports[p])}

\* enableAdd and disableAdd
CanAdd(d) ==
    IF OfSlave(d) THEN /\ d \in Cached(slaves) /\ Online(slaves[d])
                       /\ Room > Cardinality(OwnPorts(d) \cap Virtual)
    ELSE Room > Cardinality(OwnPorts(d))

MasterFakeDevice == IF fake = None THEN mainName ELSE fake

DeviceItems(hidden) ==
    {d \in Cached(slaves) : "offline devices" \in hidden => Online(slaves[d])} \cup {MasterFakeDevice}

Rows(hidden) ==
    {d \in Cached(slaves) : /\ "offline in table" \in hidden => Online(slaves[d])
                            /\ "disabled in table" \in hidden => Enabled(slaves[d])}

ShownPorts(d, hidden) == [device |-> d, items |-> PortItems(d, hidden), add |-> CanAdd(d), due |-> FALSE]
ShownDevices(hidden) == [items |-> DeviceItems(hidden), due |-> FALSE]
ShownTable(hidden) == [rows |-> Rows(hidden), due |-> FALSE]

(* --------------------------------- pages -------------------------------- *)

\* makeMainPage: the ports section begins with the devices, or with the ports if there are no slaves
Init ==
    /\ slavesOn \in BOOLEAN
    /\ there \in [slaves : [Slave -> Conditions \cup {None}], ports : [Port -> Conditions \cup {None}]]
    /\ ~slavesOn => Cached(there.slaves) = {}
    /\ \A p \in Cached(there.ports) : OwnerOf[p] # None => there.slaves[OwnerOf[p]] # None
    /\ slaves = there.slaves /\ ports = there.ports
    /\ mainName \in Names
    /\ stored = {} /\ prefs = {} /\ saveDue = FALSE /\ puts = <<>>
    /\ connected = TRUE /\ asked = {} /\ served = None
    /\ fake = (IF slavesOn THEN mainName ELSE None)
    /\ portForm = None
    /\ devicesList = IF slavesOn THEN ShownDevices({}) ELSE None
    /\ portsList = IF slavesOn THEN None ELSE ShownPorts(None, {})
    /\ table = IF slavesOn THEN ShownTable({}) ELSE None
    /\ changes = 0 /\ reloads = 0 /\ choices = 0 /\ fails = 0
    /\ unheard = {} /\ crossed = FALSE

\* A device is chosen from the list or by its path
OpenPorts(d) ==
    /\ devicesList # None /\ portsList = None
    /\ d = mainName \/ d \in Cached(slaves)
    /\ portsList' = ShownPorts(d, prefs)
    /\ unheard' = unheard \ {"ports"}
    /\ UNCHANGED <<slavesOn, there, cache, saving, loading, devicesList, portForm, table, fake, changes>>

\* A port is chosen from the list, if it is still there (or else PortForm raises), or by its path
OpenPort(p) ==
    /\ portsList # None /\ portForm = None
    /\ p \in Cached(ports)
    /\ p \in portsList.items \/ p \in OwnPorts(portsList.device)
    /\ portForm' = p
    /\ UNCHANGED <<slavesOn, there, cache, saving, loading, devicesList, portsList, table, fake, unheard,
                   changes>>

ClosePort ==
    /\ portForm # None
    /\ portForm' = None
    /\ UNCHANGED <<slavesOn, there, cache, saving, loading, devicesList, portsList, table, fake, unheard,
                   changes>>

\* Closing a list closes the form that was pushed on it
ClosePorts ==
    /\ devicesList # None /\ portsList # None
    /\ portsList' = None /\ portForm' = None
    /\ UNCHANGED <<slavesOn, there, cache, saving, loading, devicesList, table, fake, unheard, changes>>

\* The debouncers of updateUIASAP run
UpdateDevices ==
    /\ devicesList # None /\ devicesList.due
    /\ devicesList' = ShownDevices(prefs)
    /\ fake' = MasterFakeDevice
    /\ unheard' = unheard \ {"devices"}
    /\ UNCHANGED <<slavesOn, there, cache, saving, loading, portsList, portForm, table, changes>>

UpdatePorts ==
    /\ portsList # None /\ portsList.due
    /\ portsList' = ShownPorts(portsList.device, prefs)
    /\ unheard' = unheard \ {"ports"}
    /\ UNCHANGED <<slavesOn, there, cache, saving, loading, devicesList, portForm, table, fake, changes>>

UpdateTable ==
    /\ table # None /\ table.due
    /\ table' = ShownTable(prefs)
    /\ unheard' = unheard \ {"table"}
    /\ UNCHANGED <<slavesOn, there, cache, saving, loading, devicesList, portsList, portForm, fake, changes>>

(* ---------------------------- events of the server ---------------------- *)

Removed(newSlaves) == Cached(slaves) \ Cached(newSlaves)
Added(newSlaves) == Cached(newSlaves) \ Cached(slaves)

\* The list of ports is of a device that is removed
Closes(newSlaves) == portsList # None /\ portsList.device \in Removed(newSlaves)

Told(page, news) == IF page # None /\ news THEN [page EXCEPT !.due = TRUE] ELSE page

PortsListUnlessUpdated(newSlaves, newPorts) ==
    IF Closes(newSlaves) THEN None ELSE Told(portsList, newPorts # ports)

PortsListAfter(newSlaves, newPorts) ==
    LET ownUpdated == \E d \in Cached(slaves) : portsList # None /\ portsList.device = d
                                                /\ newSlaves[d] # slaves[d]
    IN IF Closes(newSlaves) THEN None ELSE Told(portsList, newPorts # ports \/ ownUpdated)

PortFormKept(newSlaves, newPorts) == IF Closes(newSlaves) THEN None ELSE portForm

PortFormAfter(newSlaves, newPorts) ==
    IF Closes(newSlaves) \/ portForm \notin Cached(newPorts) THEN None ELSE portForm

\* The sections are told that the cache became `newSlaves', `newPorts' and `newName'
OnServerEvent(newSlaves, newPorts, newName) ==
    /\ devicesList' = Told(devicesList, newSlaves # slaves \/ newName # mainName)
    /\ fake' = IF devicesList # None /\ newName # mainName THEN None ELSE fake
    /\ table' = Told(table, newSlaves # slaves)
    /\ portsList' = PortsListAfter(newSlaves, newPorts)
    /\ portForm' = PortFormAfter(newSlaves, newPorts)
    \* history: ports that were listed have become those of a device that is added, or the list's device
    \* is the one that is added, or it has become the main one or no longer is
    /\ unheard' = IF /\ portsList # None
                     /\ \/ newName # mainName
                        \/ portsList.device \in Added(newSlaves)
                        \/ \E p \in Cached(ports) : OwnerOf[p] \in Added(newSlaves)
                  THEN unheard \cup {"ports"} ELSE unheard

\* updateFromEvent, then the sections
UpdateFromEvent(newSlaves, newPorts, newName) ==
    /\ slaves' = newSlaves /\ ports' = newPorts /\ mainName' = newName
    /\ OnServerEvent(newSlaves, newPorts, newName)

\* The server's state becomes `state'; an update of a slave that is not in the cache is ignored
Announce(state) ==
    /\ changes + reloads + choices < MaxUses
    /\ changes' = changes + 1
    /\ there' = state
    /\ IF connected
       THEN UpdateFromEvent(
                [s \in Slave |-> IF state.slaves[s] = there.slaves[s] THEN slaves[s]
                                 ELSE IF there.slaves[s] # None /\ state.slaves[s] # None /\ slaves[s] = None
                                 THEN None ELSE state.slaves[s]],
                [p \in Port |-> IF state.ports[p] = there.ports[p] THEN ports[p] ELSE state.ports[p]],
                mainName)
       ELSE UNCHANGED <<cache, pages>>
    /\ UNCHANGED <<slavesOn, saving, loading>>

\* The ports of a slave are added after it, and removed before it
SlaveChange(s, x) ==
    /\ slavesOn /\ x # there.slaves[s]
    /\ x = None => \A p \in Port : OwnerOf[p] = s => there.ports[p] = None
    /\ Announce([there EXCEPT !.slaves[s] = x])

PortChange(p, x) ==
    /\ x # there.ports[p]
    /\ OwnerOf[p] # None => slavesOn /\ there.slaves[OwnerOf[p]] # None
    /\ Announce([there EXCEPT !.ports[p] = x])

\* The main device is given another name, while the page listens
Rename(n) ==
    /\ connected /\ changes + reloads + choices < MaxUses /\ n # mainName
    /\ changes' = changes + 1
    /\ UpdateFromEvent(slaves, ports, n)
    /\ UNCHANGED <<slavesOn, there, saving, loading>>

(* --------------------------------- reload ------------------------------- *)

Disconnect ==
    /\ connected /\ changes + reloads + choices < MaxUses
    /\ connected' = FALSE
    /\ reloads' = reloads + 1
    /\ UNCHANGED <<slavesOn, there, cache, saving, asked, served, crossed, pages, changes>>

Reconnect ==
    /\ ~connected
    /\ connected' = TRUE
    /\ asked' = {"ports", "prefs"} \cup (IF slavesOn THEN {"slaves"} ELSE {})
    /\ UNCHANGED <<slavesOn, there, cache, saving, served, reloads, crossed, pages, changes>>

\* loadSlaveDevices and loadPorts: what differs is told as events, in the order of the answers
LoadSlaves ==
    /\ connected /\ "slaves" \in asked
    /\ asked' = asked \ {"slaves"}
    /\ UpdateFromEvent(there.slaves, ports, mainName)
    /\ UNCHANGED <<slavesOn, there, saving, connected, served, reloads, crossed, changes>>

LoadPorts ==
    /\ connected /\ "ports" \in asked
    /\ asked' = asked \ {"ports"}
    /\ UpdateFromEvent(slaves, there.ports, mainName)
    /\ UNCHANGED <<slavesOn, there, saving, connected, served, reloads, crossed, changes>>

ServePrefs ==
    /\ "prefs" \in asked /\ served = None
    /\ served' = stored
    /\ UNCHANGED <<slavesOn, there, cache, saving, connected, asked, reloads, crossed, pages, changes>>

\* loadPrefs: nothing tells the pages
LoadPrefs ==
    /\ connected /\ served # None
    /\ prefs' = served
    /\ served' = None
    /\ asked' = asked \ {"prefs"}
    /\ unheard' = IF served # prefs THEN {"devices", "ports", "table"} ELSE unheard
    /\ crossed' = (crossed \/ puts # <<>>)
    /\ UNCHANGED <<slavesOn, there, cache, stored, saveDue, puts, choices, fails, connected, reloads, devicesList,
                   portsList, portForm, table, fake, changes>>

(* ------------------------------ preferences ----------------------------- *)

SetPrefsUnsaved(hidden) == prefs' = hidden /\ UNCHANGED saveDue

SetPrefs(hidden) == prefs' = hidden /\ saveDue' = TRUE

\* An option of one of the pages is changed: onChange, then onOptionsChange
Chosen(h) == IF h \in prefs THEN prefs \ {h} ELSE prefs \cup {h}

Choose(h) ==
    /\ h \in Hidden /\ changes + reloads + choices < MaxUses
    /\ choices' = choices + 1
    /\ SetPrefs(Chosen(h))
    /\ UNCHANGED <<slavesOn, there, cache, stored, puts, fails, loading, portForm, changes>>

DevicesOption ==
    /\ devicesList # None
    /\ Choose("offline devices")
    /\ devicesList' = [ShownDevices(Chosen("offline devices")) EXCEPT !.due = devicesList.due]
    /\ fake' = MasterFakeDevice
    /\ unheard' = unheard \ {"devices"}
    /\ UNCHANGED <<portsList, table>>

\* The option for disabled ones is visible while those offline are shown
PortsOption(h) ==
    /\ portsList # None
    /\ h = "offline ports" \/ (h = "disabled ports" /\ "offline ports" \notin prefs)
    /\ Choose(h)
    /\ portsList' = [ShownPorts(portsList.device, Chosen(h)) EXCEPT !.due = portsList.due]
    /\ unheard' = unheard \ {"ports"}
    /\ UNCHANGED <<devicesList, fake, table>>

TableOption(h) ==
    /\ table # None
    /\ h = "offline in table" \/ (h = "disabled in table" /\ "offline in table" \notin prefs)
    /\ Choose(h)
    /\ table' = [ShownTable(Chosen(h)) EXCEPT !.due = table.due]
    /\ unheard' = unheard \ {"table"}
    /\ UNCHANGED <<devicesList, portsList, fake>>

\* The debouncer runs: PUT /frontend/prefs
SavePrefs ==
    /\ saveDue
    /\ saveDue' = FALSE
    /\ puts' = Append(puts, prefs)
    /\ UNCHANGED <<slavesOn, there, cache, stored, prefs, choices, fails, loading, pages, changes>>

PutPrefs ==
    /\ puts # <<>>
    /\ stored' = Head(puts)
    /\ puts' = Tail(puts)
    /\ crossed' = (crossed \/ served # None)
    /\ UNCHANGED <<slavesOn, there, cache, prefs, saveDue, choices, fails, connected, asked, served, reloads,
                   pages, changes>>

\* Nothing handles a PUT that fails
PutFails ==
    /\ puts # <<>> /\ fails < MaxFails
    /\ fails' = fails + 1
    /\ puts' = Tail(puts)
    /\ UNCHANGED <<slavesOn, there, cache, stored, prefs, saveDue, choices, loading, pages, changes>>

Next ==
    \/ \E d \in Slave \cup Names : OpenPorts(d)
    \/ \E p \in Port : OpenPort(p)
    \/ ClosePort \/ ClosePorts
    \/ UpdateDevices \/ UpdatePorts \/ UpdateTable
    \/ \E s \in Slave, x \in Conditions \cup {None} : SlaveChange(s, x)
    \/ \E p \in Port, x \in Conditions \cup {None} : PortChange(p, x)
    \/ \E n \in Names : Rename(n)
    \/ Disconnect \/ Reconnect
    \/ LoadSlaves \/ LoadPorts \/ ServePrefs \/ LoadPrefs
    \/ DevicesOption \/ \E h \in Hidden : PortsOption(h) \/ TableOption(h)
    \/ SavePrefs \/ PutPrefs \/ PutFails

Spec == Init /\ [][Next]_lvars

(* ------------------------------- properties ----------------------------- *)

AtRest == connected /\ asked = {}

Settled(page, name) == page # None /\ ~page.due /\ name \notin unheard

\* Once events have been handled, each list shows exactly the devices or ports of the server that the
\* preferences leave, and offers to add a port when there is room: the debounced updates of
\* devices-list.js, ports-list.js and devices-table.js forget no change. Left out: a list that was not
\* told (a device that a reload adds after its ports, or that is added under the name that the list was
\* opened with, preferences that a reload brought, another name of the main device).
ListsShow ==
    AtRest =>
        /\ slaves = there.slaves /\ ports = there.ports
        /\ Settled(devicesList, "devices") => devicesList.items = DeviceItems(prefs)
        /\ Settled(devicesList, "devices") => mainName \in devicesList.items
        /\ Settled(portsList, "ports") =>
                /\ portsList.items = PortItems(portsList.device, prefs)
                /\ portsList.add = CanAdd(portsList.device)
        /\ Settled(table, "table") => table.rows = Rows(prefs)

\* The list of ports that is open is that of a device that exists, and the form on it that of a port
\* that exists: the events that remove them close the pages (ports-section.js).
OpenExist ==
    /\ portsList # None => portsList.device \in Cached(slaves) \cup Names \cup {None}
    /\ portForm # None => portsList # None /\ portForm \in Cached(ports)

\* The preferences of the page end up on the server, unless a PUT failed or was served behind the answer
\* of a reload (cache.js setPrefs and loadPrefs).
PrefsKept ==
    ~saveDue /\ puts = <<>> /\ "prefs" \notin asked /\ fails = 0 /\ ~crossed => stored = prefs

\* The three of them.
SectionsAgree == ListsShow /\ OpenExist /\ PrefsKept

(* Statements of the code that do not hold. *)

\* ports-list.js:184 "Filter out slave ports": the list of the main device holds none of a slave's
MainHoldsItsOwn ==
    AtRest /\ portsList # None /\ ~portsList.due /\ portsList.device = mainName =>
        \A p \in portsList.items : OwnerOf[p] = None

\* ports-list.js:170 "there still are virtual ports available", for the main device too
AddIfRoom ==
    AtRest /\ portsList # None /\ ~portsList.due /\ portsList.device = mainName /\ unheard = {} =>
        portsList.add = (Room > Cardinality(OwnPorts(mainName) \cap Virtual))

\* What the user chose last is what the page uses
ChoiceKept == [][prefs' # prefs => choices' # choices \/ prefs = stored]_lvars
===============================================================================
