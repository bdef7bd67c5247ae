-------------------------- MODULE MCSections_proofs --------------------------
(***************************************************************************)
(* Proofs about the sections of the web application that MCSections puts    *)
(* together: the lists of devices and ports (SectionLists), the login and   *)
(* the section shown after it (Access), the discovery of devices            *)
(* (Discovery), the list and form of peripherals (Peripherals), backup and  *)
(* restore (BackupRestore), and the form of a port (PortForm).              *)
(***************************************************************************)
EXTENDS MCSections, SequenceTheorems, FiniteSetTheorems, WellFoundedInduction, TLAPS

(* ------------------- the lists of devices and ports --------------------- *)

\* None is neither a page nor a request nor a level, and no place to go.
LEMMA NotNone ==
  /\ None \notin PortsLists
  /\ None \notin Requests /\ None \notin Levels
  /\ Login # None /\ Login \notin Path /\ Home \in Path
  BY SectionsAssumption DEF ListsAssumption

Maps(S) == [S -> Conditions \cup {None}]

\* The pages that are open are records, so that being told of something makes their update due.
ListTypes ==
    /\ slavesOn \in BOOLEAN /\ mainName \in Names
    /\ slaves \in Maps(Slave) /\ ports \in Maps(Port)
    /\ there = [slaves |-> there.slaves, ports |-> there.ports]
    /\ there.slaves \in Maps(Slave) /\ there.ports \in Maps(Port)
    /\ devicesList # None => /\ devicesList = [items |-> devicesList.items, due |-> devicesList.due]
                             /\ devicesList.due \in BOOLEAN
    /\ table # None => /\ table = [rows |-> table.rows, due |-> table.due]
                       /\ table.due \in BOOLEAN
    /\ portsList \in PortsLists \cup {None}

\* What the reload has not asked again, the cache has as the server has it.
ListCache ==
    /\ ~slavesOn => slaves = there.slaves
    /\ connected /\ "slaves" \notin asked => slaves = there.slaves
    /\ connected /\ "ports" \notin asked => ports = there.ports
    /\ \A p \in Cached(there.ports) : OwnerOf[p] # None => there.slaves[OwnerOf[p]] # None

\* Cached ports of a slave that the cache does not have: a reload is still to load one of the two.
Orphaned == {p \in Cached(ports) : OwnerOf[p] # None /\ OwnerOf[p] \notin Cached(slaves)}

ListPages ==
    /\ devicesList # None => fake \in {None, mainName}
    /\ Settled(devicesList, "devices") => devicesList.items = DeviceItems(prefs)
    /\ Settled(table, "table") => table.rows = Rows(prefs)
    /\ Settled(portsList, "ports") /\ Orphaned = {} =>
          /\ portsList.items = PortItems(portsList.device, prefs)
          /\ portsList.add = CanAdd(portsList.device)
    /\ OpenExist

\* The preferences are on their way to the server, in the order they were chosen.
ListPrefs ==
    /\ fails \in Nat
    /\ puts \in Seq(SUBSET Hidden) /\ prefs \in SUBSET Hidden /\ stored \in SUBSET Hidden
    /\ served # None => served \in SUBSET Hidden
    /\ ~crossed /\ served # None => served = stored
    /\ fails = 0 /\ ~crossed /\ ~saveDue =>
          IF puts = <<>> THEN stored = prefs ELSE puts[Len(puts)] = prefs

ListsInv == ListTypes /\ ListCache /\ ListPages /\ ListPrefs

\* The invariant says what SectionsAgree promises.
LEMMA ListsAgree ==
  ASSUME ListsInv
  PROVE  SectionsAgree
  <1>1. ListsShow
    <2>1. SUFFICES ASSUME AtRest PROVE slaves = there.slaves /\ ports = there.ports /\ Orphaned = {}
      BY DEF ListsShow, ListsInv, ListPages, DeviceItems, MasterFakeDevice, Settled
    <2>2. slaves = there.slaves /\ ports = there.ports
      BY <2>1 DEF ListsInv, ListCache, AtRest
    <2>3. Orphaned = {}
      BY <2>2, SectionsAssumption
      DEF ListsAssumption, ListsInv, ListCache, ListTypes, Maps, Orphaned, Cached
    <2> QED
      BY <2>2, <2>3
  <1>2. OpenExist
    BY DEF ListsInv, ListPages
  <1>3. PrefsKept
    BY DEF ListsInv, ListPrefs, PrefsKept
  <1> QED
    BY <1>1, <1>2, <1>3 DEF SectionsAgree

\* A list of ports as it is shown.
LEMMA ShownTypes ==
  ASSUME ports \in Maps(Port), NEW d \in Slave \cup Names \cup {None}, NEW hidden
  PROVE  /\ ShownPorts(d, hidden) \in PortsLists
         /\ \A b \in BOOLEAN : [ShownPorts(d, hidden) EXCEPT !.due = b] \in PortsLists
  <1>1. PortItems(d, hidden) \in SUBSET Port
    BY DEF PortItems, OwnPorts, Cached, Maps
  <1>2. CanAdd(d) \in BOOLEAN
    <2>1. CASE OfSlave(d)
      BY <2>1 DEF CanAdd
    <2>2. CASE ~OfSlave(d)
      BY <2>2 DEF CanAdd
    <2> QED
      BY <2>1, <2>2
  <1> QED
    BY <1>1, <1>2 DEF ShownPorts, PortsLists

LEMMA ListsInit ==
  ASSUME Init
  PROVE  ListsInv
  <1>1. ListTypes
    <2>1. portsList \in PortsLists \cup {None}
      BY ShownTypes DEF Init, Maps
    <2> QED
      BY <2>1 DEF Init, ListTypes, Maps, ShownDevices, ShownTable
  <1>2. ListCache
    BY DEF Init, ListCache
  <1>3. ListPages
    BY DEF Init, ListPages, Settled, ShownDevices, ShownTable, ShownPorts, OpenExist
  <1>4. ListPrefs
    BY EmptySeq DEF Init, ListPrefs
  <1> QED
    BY <1>1, <1>2, <1>3, <1>4 DEF ListsInv

(* The preferences. *)

\* A list of PUTs that one more is added to, and that its first is taken from.
LEMMA Putting ==
  ASSUME NEW S, NEW q \in Seq(S), NEW x \in S
  PROVE  /\ Append(q, x) \in Seq(S) /\ Append(q, x) # <<>>
         /\ Append(q, x)[Len(Append(q, x))] = x
  BY AppendProperties, EmptySeq, LenProperties

LEMMA Served ==
  ASSUME NEW S, NEW q \in Seq(S), q # <<>>
  PROVE  /\ Head(q) \in S /\ Tail(q) \in Seq(S)
         /\ Tail(q) = <<>> => Head(q) = q[Len(q)]
         /\ Tail(q) # <<>> => Tail(q)[Len(Tail(q))] = q[Len(q)]
  <1>1. /\ Head(q) \in S /\ Tail(q) \in Seq(S) /\ Len(Tail(q)) = Len(q) - 1 /\ Len(q) \in Nat
        /\ \A i \in 1..Len(Tail(q)) : Tail(q)[i] = q[i + 1]
    BY HeadTailProperties, LenProperties
  <1>2. Tail(q) = <<>> => Len(Tail(q)) = 0
    BY EmptySeq
  <1>3. Tail(q) # <<>> => Len(Tail(q)) # 0
    BY <1>1, EmptySeq
  <1>4. Head(q) = q[1]
    BY HeadTailProperties
  <1> QED
    BY <1>1, <1>2, <1>3, <1>4

LEMMA ListPrefsStep ==
  ASSUME ListPrefs, [Next]_lvars
  PROVE  ListPrefs'
  <1>1. CASE UNCHANGED saving /\ UNCHANGED <<served, crossed>>
    BY <1>1 DEF ListPrefs, saving
  <1>2. CASE ServePrefs
    BY <1>2 DEF ListPrefs, ServePrefs, saving
  <1>3. CASE LoadPrefs
    BY <1>3 DEF ListPrefs, LoadPrefs
  <1>4. ASSUME NEW h, Choose(h) PROVE ListPrefs'
    BY <1>4 DEF ListPrefs, Choose, SetPrefs, Chosen, loading
  <1>5. CASE SavePrefs
    BY <1>5, Putting DEF ListPrefs, SavePrefs, loading
  <1>6. CASE PutPrefs
    BY <1>6, Served DEF ListPrefs, PutPrefs
  <1>7. CASE PutFails
    <2>1. fails' # 0 /\ fails' \in Nat
      BY <1>7 DEF ListPrefs, PutFails
    <2>2. puts' \in Seq(SUBSET Hidden)
      BY <1>7, Served DEF ListPrefs, PutFails
    <2> QED
      BY <1>7, <2>1, <2>2 DEF ListPrefs, PutFails, loading
  <1>8. ASSUME NEW state, Announce(state) PROVE ListPrefs'
    BY <1>1, <1>8 DEF Announce, loading
  <1>9. ASSUME NEW d, OpenPorts(d) PROVE ListPrefs'
    BY <1>1, <1>9 DEF OpenPorts, loading
  <1>10. ASSUME NEW p, OpenPort(p) PROVE ListPrefs'
    BY <1>1, <1>10 DEF OpenPort, loading
  <1>11. CASE ClosePort \/ ClosePorts
    BY <1>1, <1>11 DEF ClosePort, ClosePorts, loading
  <1>12. CASE UpdateDevices \/ UpdatePorts \/ UpdateTable
    BY <1>1, <1>12 DEF UpdateDevices, UpdatePorts, UpdateTable, loading
  <1>13. ASSUME NEW n, Rename(n) PROVE ListPrefs'
    BY <1>1, <1>13 DEF Rename, loading
  <1>14. CASE Disconnect \/ Reconnect \/ LoadSlaves \/ LoadPorts
    BY <1>1, <1>14 DEF Disconnect, Reconnect, LoadSlaves, LoadPorts
  <1>15. CASE UNCHANGED lvars
    BY <1>1, <1>15 DEF lvars, loading
  <1>16. ASSUME NEW s, NEW x, SlaveChange(s, x) PROVE ListPrefs'
    BY <1>8, <1>16 DEF SlaveChange
  <1>17. ASSUME NEW p, NEW x, PortChange(p, x) PROVE ListPrefs'
    BY <1>8, <1>17 DEF PortChange
  <1>18. ASSUME NEW h, DevicesOption \/ PortsOption(h) \/ TableOption(h) PROVE ListPrefs'
    BY <1>4, <1>18 DEF DevicesOption, PortsOption, TableOption
  <1> QED
    BY <1>2, <1>3, <1>5, <1>6, <1>7, <1>9, <1>10, <1>11, <1>12, <1>13, <1>14, <1>15, <1>16, <1>17, <1>18
    DEF Next

(* The cache and the pages. *)

\* An event leaves the pages records.
LEMMA EventTypes ==
  ASSUME ListTypes, NEW ns, NEW np, NEW nn, OnServerEvent(ns, np, nn)
  PROVE  /\ devicesList' # None => /\ devicesList' = [items |-> devicesList'.items, due |-> devicesList'.due]
                                   /\ devicesList'.due \in BOOLEAN
         /\ table' # None => /\ table' = [rows |-> table'.rows, due |-> table'.due]
                             /\ table'.due \in BOOLEAN
         /\ portsList' \in PortsLists \cup {None}
  BY DEF ListTypes, OnServerEvent, Told, PortsListAfter, PortsLists

LEMMA ListTypesStep ==
  ASSUME ListTypes, [Next]_lvars
  PROVE  ListTypes'
  <1>1. CASE UNCHANGED <<slavesOn, there, cache, devicesList, portsList, table>>
    BY <1>1 DEF ListTypes, cache
  <1>2. ASSUME NEW state, Announce(state),
               state = [slaves |-> state.slaves, ports |-> state.ports],
               state.slaves \in Maps(Slave), state.ports \in Maps(Port)
        PROVE  ListTypes'
    <2>1. /\ there' = state /\ slavesOn' = slavesOn
          /\ there'.slaves \in Maps(Slave) /\ there'.ports \in Maps(Port)
          /\ there' = [slaves |-> there'.slaves, ports |-> there'.ports]
      BY <1>2 DEF Announce
    <2>2. CASE connected
      <3> DEFINE ns == [s \in Slave |-> IF state.slaves[s] = there.slaves[s] THEN slaves[s]
                                  ELSE IF there.slaves[s] # None /\ state.slaves[s] # None /\ slaves[s] = None
                                  THEN None ELSE state.slaves[s]]
                 np == [p \in Port |-> IF state.ports[p] = there.ports[p] THEN ports[p] ELSE state.ports[p]]
      <3>1. UpdateFromEvent(ns, np, mainName)
        BY <1>2, <2>2 DEF Announce
      <3>2. ns \in Maps(Slave) /\ np \in Maps(Port)
        BY <1>2 DEF Maps, ListTypes
      <3> HIDE DEF ns, np
      <3>3. slaves' \in Maps(Slave) /\ ports' \in Maps(Port)
        BY <3>1, <3>2 DEF UpdateFromEvent
      <3> QED
        BY <2>1, <3>1, <3>3, EventTypes DEF ListTypes, UpdateFromEvent
    <2>3. CASE ~connected
      BY <1>2, <2>1, <2>3 DEF Announce, ListTypes, cache, pages
    <2> QED
      BY <2>2, <2>3
  <1>3. ASSUME NEW s \in Slave, NEW x \in Conditions \cup {None}, SlaveChange(s, x) PROVE ListTypes'
    <2> DEFINE state == [there EXCEPT !.slaves[s] = x]
    <2>1. /\ state = [slaves |-> state.slaves, ports |-> state.ports]
          /\ state.slaves \in Maps(Slave) /\ state.ports \in Maps(Port)
      BY DEF ListTypes, Maps
    <2>2. Announce(state)
      BY <1>3 DEF SlaveChange
    <2> QED
      BY <1>2, <2>1, <2>2
  <1>4. ASSUME NEW p \in Port, NEW x \in Conditions \cup {None}, PortChange(p, x) PROVE ListTypes'
    <2> DEFINE state == [there EXCEPT !.ports[p] = x]
    <2>1. /\ state = [slaves |-> state.slaves, ports |-> state.ports]
          /\ state.slaves \in Maps(Slave) /\ state.ports \in Maps(Port)
      BY DEF ListTypes, Maps
    <2>2. Announce(state)
      BY <1>4 DEF PortChange
    <2> QED
      BY <1>2, <2>1, <2>2
  <1>5. ASSUME NEW n \in Names, Rename(n) PROVE ListTypes'
    BY <1>5, EventTypes DEF Rename, UpdateFromEvent, ListTypes
  <1>6. CASE LoadSlaves
    BY <1>6, EventTypes DEF LoadSlaves, UpdateFromEvent, ListTypes
  <1>7. CASE LoadPorts
    BY <1>7, EventTypes DEF LoadPorts, UpdateFromEvent, ListTypes
  <1>8. ASSUME NEW d \in Slave \cup Names, OpenPorts(d) PROVE ListTypes'
    BY <1>8, ShownTypes DEF OpenPorts, ListTypes, cache
  <1>9. CASE ClosePorts
    BY <1>9 DEF ClosePorts, ListTypes, cache
  <1>10. CASE UpdateDevices
    BY <1>10 DEF UpdateDevices, ListTypes, ShownDevices, cache
  <1>11. CASE UpdatePorts
    <2>1. portsList.device \in Slave \cup Names \cup {None}
      BY <1>11 DEF UpdatePorts, ListTypes, PortsLists
    <2> QED
      BY <1>11, <2>1, ShownTypes DEF UpdatePorts, ListTypes, cache
  <1>12. CASE UpdateTable
    BY <1>12 DEF UpdateTable, ListTypes, ShownTable, cache
  <1>13. CASE DevicesOption
    BY <1>13 DEF DevicesOption, Choose, ListTypes, ShownDevices, cache
  <1>14. ASSUME NEW h, PortsOption(h) PROVE ListTypes'
    <2>1. portsList.device \in Slave \cup Names \cup {None} /\ portsList.due \in BOOLEAN
      BY <1>14 DEF PortsOption, ListTypes, PortsLists
    <2> QED
      BY <1>14, <2>1, ShownTypes DEF PortsOption, Choose, ListTypes, cache
  <1>15. ASSUME NEW h, TableOption(h) PROVE ListTypes'
    BY <1>15 DEF TableOption, Choose, ListTypes, ShownTable, cache
  <1>16. ASSUME NEW p, OpenPort(p) PROVE ListTypes'
    BY <1>1, <1>16 DEF OpenPort, cache
  <1>17. CASE ClosePort \/ Disconnect \/ Reconnect \/ ServePrefs \/ LoadPrefs
    BY <1>1, <1>17 DEF ClosePort, Disconnect, Reconnect, ServePrefs, LoadPrefs, cache, pages
  <1>18. CASE SavePrefs \/ PutPrefs \/ PutFails \/ UNCHANGED lvars
    BY <1>1, <1>18 DEF SavePrefs, PutPrefs, PutFails, lvars, cache, pages
  <1> QED
    BY <1>3, <1>4, <1>5, <1>6, <1>7, <1>8, <1>9, <1>10, <1>11, <1>12, <1>13, <1>14, <1>15, <1>16, <1>17,
       <1>18 DEF Next

LEMMA ListCacheStep ==
  ASSUME ListTypes, ListCache, [Next]_lvars
  PROVE  ListCache'
  <1>1. CASE UNCHANGED <<slavesOn, there, slaves, ports, connected, asked>>
    BY <1>1 DEF ListCache, Cached
  <1>2. ASSUME NEW state, Announce(state), 
               state.slaves \in Maps(Slave), state.ports \in Maps(Port),
               slavesOn \/ state.slaves = there.slaves,
               \A p \in Cached(state.ports) : OwnerOf[p] # None => state.slaves[OwnerOf[p]] # None
        PROVE  ListCache'
    <2>1. there' = state /\ UNCHANGED <<slavesOn, connected, asked>>
      BY <1>2 DEF Announce, loading
    <2>2. CASE connected
      <3>1. /\ slaves' = [s \in Slave |-> IF state.slaves[s] = there.slaves[s] THEN slaves[s]
                                  ELSE IF there.slaves[s] # None /\ state.slaves[s] # None /\ slaves[s] = None
                                  THEN None ELSE state.slaves[s]]
            /\ ports' = [p \in Port |-> IF state.ports[p] = there.ports[p] THEN ports[p] ELSE state.ports[p]]
        BY <1>2, <2>2 DEF Announce, UpdateFromEvent
      <3>2. slaves = there.slaves => slaves' = state.slaves
        BY <1>2, <3>1 DEF Maps, ListTypes
      <3>3. ports = there.ports => ports' = state.ports
        BY <1>2, <3>1 DEF Maps, ListTypes
      <3>4. ~slavesOn => slaves' = state.slaves
        BY <1>2, <3>2 DEF ListCache
      <3> QED
        BY <1>2, <2>1, <2>2, <3>2, <3>3, <3>4 DEF ListCache
    <2>3. CASE ~connected
      BY <1>2, <2>1, <2>3 DEF Announce, ListCache, cache
    <2> QED
      BY <2>2, <2>3
  <1>3. ASSUME NEW s \in Slave, NEW x \in Conditions \cup {None}, SlaveChange(s, x) PROVE ListCache'
    <2> DEFINE state == [there EXCEPT !.slaves[s] = x]
    <2>1. /\ state.slaves \in Maps(Slave) /\ state.ports \in Maps(Port) /\ state.ports = there.ports
          /\ state.slaves = [there.slaves EXCEPT ![s] = x]
      BY DEF ListTypes, Maps
    <2>2. Announce(state) /\ slavesOn
      BY <1>3 DEF SlaveChange
    <2>3. ASSUME NEW p \in Cached(state.ports), OwnerOf[p] # None PROVE state.slaves[OwnerOf[p]] # None
      BY <1>3, <2>1, <2>3, SectionsAssumption
      DEF SlaveChange, ListsAssumption, ListCache, ListTypes, Cached, Maps
    <2> QED
      BY <1>2, <2>1, <2>2, <2>3
  <1>4. ASSUME NEW p \in Port, NEW x \in Conditions \cup {None}, PortChange(p, x) PROVE ListCache'
    <2> DEFINE state == [there EXCEPT !.ports[p] = x]
    <2>1. /\ state.slaves \in Maps(Slave) /\ state.ports \in Maps(Port)
          /\ state.slaves = there.slaves
          /\ state.ports = [there.ports EXCEPT ![p] = x]
      BY DEF ListTypes, Maps
    <2>2. Announce(state)
      BY <1>4 DEF PortChange
    <2>3. ASSUME NEW q \in Cached(state.ports), OwnerOf[q] # None PROVE state.slaves[OwnerOf[q]] # None
      BY <1>4, <2>1, <2>3 DEF PortChange, ListCache, ListTypes, Cached, Maps
    <2> QED
      BY <1>2, <2>1, <2>2, <2>3
  <1>5. ASSUME NEW n, Rename(n) PROVE ListCache'
    BY <1>1, <1>5 DEF Rename, UpdateFromEvent, loading
  <1>6. CASE LoadSlaves
    BY <1>6 DEF LoadSlaves, UpdateFromEvent, ListCache
  <1>7. CASE LoadPorts
    BY <1>7 DEF LoadPorts, UpdateFromEvent, ListCache
  <1>8. CASE Disconnect \/ Reconnect
    BY <1>8 DEF Disconnect, Reconnect, cache, ListCache
  <1>9. ASSUME NEW d, OpenPorts(d) \/ OpenPort(d) PROVE ListCache'
    BY <1>1, <1>9 DEF OpenPorts, OpenPort, cache, loading
  <1>10. CASE ClosePort \/ ClosePorts \/ UpdateDevices \/ UpdatePorts \/ UpdateTable
    BY <1>1, <1>10 DEF ClosePort, ClosePorts, UpdateDevices, UpdatePorts, UpdateTable, cache, loading
  <1>11. CASE ServePrefs
    BY <1>1, <1>11 DEF ServePrefs, cache
  <1>12. CASE LoadPrefs
    BY <1>12 DEF LoadPrefs, cache, ListCache
  <1>13. ASSUME NEW h, DevicesOption \/ PortsOption(h) \/ TableOption(h) PROVE ListCache'
    BY <1>1, <1>13 DEF DevicesOption, PortsOption, TableOption, Choose, cache, loading
  <1>14. CASE SavePrefs \/ PutPrefs \/ PutFails \/ UNCHANGED lvars
    BY <1>1, <1>14 DEF SavePrefs, PutPrefs, PutFails, lvars, cache, loading
  <1> QED
    BY <1>3, <1>4, <1>5, <1>6, <1>7, <1>8, <1>9, <1>10, <1>11, <1>12, <1>13, <1>14 DEF Next

\* The devices whose ports are known to be theirs: if no port is orphaned before and after, and neither
\* the ports nor the name of the main device change, a device has the ports it had.
LEMMA SamePorts ==
  ASSUME ListTypes, Orphaned = {}, Orphaned' = {}, slaves' \in Maps(Slave),
         UNCHANGED <<slavesOn, ports, mainName>>, NEW d
  PROVE  OwnPorts(d)' = OwnPorts(d)
  <1>1. ASSUME NEW p \in Cached(ports) PROVE Owner(p)' = Owner(p)
    <2>1. OwnerOf[p] # None => OwnerOf[p] \in Cached(slaves) /\ OwnerOf[p] \in Cached(slaves')
      BY <1>1 DEF Orphaned, Cached
    <2> QED
      BY <2>1 DEF Owner
  <1> QED
    BY <1>1 DEF OwnPorts, OfSlave, Cached

\* The events of the server keep what the pages show, or make the page's update due.
LEMMA EventPages ==
  ASSUME ListTypes, ListPages, NEW ns \in Maps(Slave), NEW np \in Maps(Port), NEW nn,
         UpdateFromEvent(ns, np, nn), UNCHANGED <<slavesOn, prefs>>
  PROVE  ListPages'
  <1>1. /\ slaves' = ns /\ ports' = np /\ mainName' = nn
        /\ devicesList' = Told(devicesList, ns # slaves \/ nn # mainName)
        /\ table' = Told(table, ns # slaves)
        /\ portsList' = PortsListAfter(ns, np) /\ portForm' = PortFormAfter(ns, np)
        /\ fake' = IF devicesList # None /\ nn # mainName THEN None ELSE fake
        /\ unheard \subseteq unheard'
        /\ unheard' \subseteq unheard \cup {"ports"}
    BY DEF UpdateFromEvent, OnServerEvent
  <1>2. devicesList' # None => fake' \in {None, mainName'}
    BY <1>1 DEF Told, ListPages
  <1>3. ASSUME Settled(devicesList, "devices")' PROVE (devicesList.items = DeviceItems(prefs))'
    <2>1. ns = slaves /\ nn = mainName /\ devicesList' = devicesList
      BY <1>1, <1>3 DEF Settled, Told, ListTypes
    <2>2. Settled(devicesList, "devices")
      BY <1>1, <1>3, <2>1 DEF Settled
    <2> QED
      BY <1>1, <2>1, <2>2 DEF ListPages, Cached, DeviceItems, MasterFakeDevice
  <1>4. ASSUME Settled(table, "table")' PROVE (table.rows = Rows(prefs))'
    <2>1. ns = slaves /\ table' = table
      BY <1>1, <1>4 DEF Settled, Told, ListTypes
    <2>2. Settled(table, "table")
      BY <1>1, <1>4, <2>1 DEF Settled
    <2> QED
      BY <1>1, <2>1, <2>2 DEF ListPages, Rows, Cached
  <1>5. ASSUME Settled(portsList, "ports")', Orphaned' = {}
        PROVE  (/\ portsList.items = PortItems(portsList.device, prefs)
                /\ portsList.add = CanAdd(portsList.device))'
    <2>1. /\ portsList # None /\ portsList' = portsList /\ np = ports /\ ~Closes(ns)
          /\ portsList.device \in Cached(slaves) => ns[portsList.device] = slaves[portsList.device]
      <3>1. portsList' # None /\ ~portsList'.due
        BY <1>5 DEF Settled
      <3>2. ~Closes(ns) /\ portsList # None
        BY <1>1, <3>1 DEF PortsListAfter, Told
      <3> DEFINE ownUpdated == \E d \in Cached(slaves) : portsList # None /\ portsList.device = d
                                                         /\ ns[d] # slaves[d]
      <3>3. portsList' = Told(portsList, np # ports \/ ownUpdated)
        BY <1>1, <3>2 DEF PortsListAfter
      <3>4. ~(np # ports \/ ownUpdated)
        BY <3>1, <3>2, <3>3 DEF Told, ListTypes, PortsLists
      <3> QED
        BY <3>2, <3>3, <3>4 DEF Told
    <2>2. "ports" \notin unheard' /\ "ports" \notin unheard
      BY <1>1, <1>5 DEF Settled
    <2>3. /\ nn = mainName
          /\ portsList.device \notin Added(ns)
          /\ \A p \in Cached(ports) : OwnerOf[p] \notin Added(ns)
      BY <2>1, <2>2 DEF UpdateFromEvent, OnServerEvent
    <2>4. Orphaned = {}
      BY <1>1, <1>5, <2>1, <2>3 DEF Orphaned, Added, Cached
    <2>5. \A d : OwnPorts(d)' = OwnPorts(d)
      BY <1>1, <1>5, <2>1, <2>3, <2>4, SamePorts
    <2>6. PortItems(portsList.device, prefs)' = PortItems(portsList.device, prefs)
      BY <1>1, <2>1, <2>5 DEF PortItems
    <2>7. CanAdd(portsList.device)' = CanAdd(portsList.device)
      <3>1. portsList.device \in Cached(slaves') <=> portsList.device \in Cached(slaves)
        BY <1>1, <2>1, <2>3 DEF Closes, Removed, Added
      <3>2. portsList.device \in Cached(slaves) => slaves'[portsList.device] = slaves[portsList.device]
        BY <1>1, <2>1
      <3> QED
        BY <1>1, <2>1, <2>3, <2>5, <3>1, <3>2 DEF CanAdd, OfSlave
    <2>8. Settled(portsList, "ports")
      BY <1>5, <2>1, <2>2 DEF Settled
    <2> QED
      BY <2>1, <2>4, <2>6, <2>7, <2>8 DEF ListPages
  <1>6. OpenExist'
    <2>1. ASSUME portsList' # None
          PROVE  /\ ~Closes(ns) /\ portsList # None
                 /\ portsList'.device = portsList.device
      BY <1>1, <2>1 DEF PortsListAfter, Told, ListTypes, PortsLists
    <2>2. ASSUME portsList' # None PROVE portsList'.device \in Cached(slaves') \cup Names \cup {None}
      BY <1>1, <2>1, <2>2 DEF ListPages, OpenExist, Closes, Removed
    <2>3. ASSUME portForm' # None PROVE portsList' # None /\ portForm' \in Cached(ports')
      <3>1. ~Closes(ns) /\ portForm \in Cached(np) /\ portForm' = portForm
        BY <1>1, <2>3 DEF PortFormAfter
      <3>2. portsList # None
        BY <2>3, <3>1 DEF ListPages, OpenExist
      <3>3. portsList' # None
        <4>1. portsList' \in PortsLists
          BY <1>1, <3>1, <3>2 DEF PortsListAfter, Told, ListTypes, PortsLists
        <4> QED
          BY <4>1, NotNone
      <3> QED
        BY <1>1, <3>1, <3>3
    <2> QED
      BY <2>2, <2>3 DEF OpenExist
  <1> QED
    BY <1>2, <1>3, <1>4, <1>5, <1>6 DEF ListPages

\* What there is to show depends on the cache and the preferences alone.
LEMMA SameShown ==
  ASSUME UNCHANGED <<slavesOn, slaves, ports, mainName>>
  PROVE  /\ \A d, hidden : PortItems(d, hidden)' = PortItems(d, hidden)
         /\ \A d : CanAdd(d)' = CanAdd(d)
         /\ \A hidden : Rows(hidden)' = Rows(hidden)
         /\ MasterFakeDevice' = MasterFakeDevice =>
               \A hidden : DeviceItems(hidden)' = DeviceItems(hidden)
         /\ Orphaned' = Orphaned
  <1>1. Cached(slaves') = Cached(slaves) /\ Cached(ports') = Cached(ports)
    OBVIOUS
  <1>2. \A p : Owner(p)' = Owner(p)
    BY DEF Owner
  <1>3. \A d : OwnPorts(d)' = OwnPorts(d)
    BY <1>1, <1>2 DEF OwnPorts, OfSlave
  <1>4. \A d, hidden : PortItems(d, hidden)' = PortItems(d, hidden)
    BY <1>3 DEF PortItems
  <1>5. \A d : CanAdd(d)' = CanAdd(d)
    BY <1>1, <1>3 DEF CanAdd, OfSlave
  <1>6. \A hidden : Rows(hidden)' = Rows(hidden)
    BY <1>1 DEF Rows
  <1>7. MasterFakeDevice' = MasterFakeDevice => \A hidden : DeviceItems(hidden)' = DeviceItems(hidden)
    BY <1>1 DEF DeviceItems
  <1>8. Orphaned' = Orphaned
    BY <1>1 DEF Orphaned
  <1> QED
    BY <1>4, <1>5, <1>6, <1>7, <1>8

\* Pages that are shown anew show what there is to show; those that are not told keep what they show.
LEMMA ListPagesStep ==
  ASSUME ListTypes, ListPages, ListPrefs, [Next]_lvars
  PROVE  ListPages'
  <1>1. CASE UNCHANGED <<slavesOn, cache, prefs, pages>>
    <2>1. UNCHANGED <<slavesOn, slaves, ports, mainName, prefs, devicesList, portsList, portForm, table, fake,
                      unheard>>
      BY <1>1 DEF cache, pages
    <2>2. OpenExist'
      BY <2>1 DEF ListPages, OpenExist, Cached
    <2> QED
      BY <2>1, <2>2, SameShown DEF ListPages, Settled, MasterFakeDevice
  <1>2. ASSUME NEW state, Announce(state), state.slaves \in Maps(Slave), state.ports \in Maps(Port)
        PROVE  ListPages'
    <2>1. UNCHANGED <<slavesOn, prefs>>
      BY <1>2 DEF Announce, saving
    <2>2. CASE connected
      <3> DEFINE ns == [s \in Slave |-> IF state.slaves[s] = there.slaves[s] THEN slaves[s]
                                  ELSE IF there.slaves[s] # None /\ state.slaves[s] # None /\ slaves[s] = None
                                  THEN None ELSE state.slaves[s]]
                 np == [p \in Port |-> IF state.ports[p] = there.ports[p] THEN ports[p] ELSE state.ports[p]]
      <3>1. UpdateFromEvent(ns, np, mainName)
        BY <1>2, <2>2 DEF Announce
      <3>2. ns \in Maps(Slave) /\ np \in Maps(Port)
        BY <1>2 DEF Maps, ListTypes
      <3> HIDE DEF ns, np
      <3> QED
        BY <2>1, <3>1, <3>2, EventPages
    <2>3. CASE ~connected
      BY <1>1, <1>2, <2>1, <2>3 DEF Announce
    <2> QED
      BY <2>2, <2>3
  <1>3. ASSUME NEW s \in Slave, NEW x \in Conditions \cup {None}, SlaveChange(s, x) PROVE ListPages'
    <2>1. [there EXCEPT !.slaves[s] = x].slaves \in Maps(Slave)
          /\ [there EXCEPT !.slaves[s] = x].ports \in Maps(Port)
      BY DEF ListTypes, Maps
    <2> QED
      BY <1>2, <1>3, <2>1 DEF SlaveChange
  <1>4. ASSUME NEW p \in Port, NEW x \in Conditions \cup {None}, PortChange(p, x) PROVE ListPages'
    <2>1. [there EXCEPT !.ports[p] = x].slaves \in Maps(Slave)
          /\ [there EXCEPT !.ports[p] = x].ports \in Maps(Port)
      BY DEF ListTypes, Maps
    <2> QED
      BY <1>2, <1>4, <2>1 DEF PortChange
  <1>5. ASSUME NEW n, Rename(n) PROVE ListPages'
    BY <1>5, EventPages DEF Rename, ListTypes, saving
  <1>6. CASE LoadSlaves
    BY <1>6, EventPages DEF LoadSlaves, ListTypes, saving
  <1>7. CASE LoadPorts
    BY <1>7, EventPages DEF LoadPorts, ListTypes, saving
  <1>8. ASSUME NEW d \in Slave \cup Names, OpenPorts(d) PROVE ListPages'
    <2>1. UNCHANGED <<slavesOn, slaves, ports, mainName, prefs, devicesList, table, fake, portForm>>
          /\ portsList = None /\ portsList' = ShownPorts(d, prefs) /\ unheard' = unheard \ {"ports"}
          /\ (d = mainName \/ d \in Cached(slaves)) /\ portForm = None
      BY <1>8 DEF OpenPorts, cache, saving, ListPages, OpenExist
    <2>2. d \in Cached(slaves) \cup Names
      BY <1>8, <2>1 DEF Cached, ListTypes
    <2>3. /\ portsList'.device = d /\ portsList'.items = PortItems(d, prefs) /\ portsList'.add = CanAdd(d)
      BY <2>1 DEF ShownPorts
    <2>4. OpenExist'
      BY <2>1, <2>2, <2>3 DEF OpenExist, Cached
    <2> QED
      BY <2>1, <2>3, <2>4, SameShown DEF ListPages, Settled, MasterFakeDevice
  <1>9. ASSUME NEW p, OpenPort(p) PROVE ListPages'
    <2>1. UNCHANGED <<slavesOn, slaves, ports, mainName, prefs, devicesList, table, fake, portsList, unheard>>
          /\ portForm' = p /\ portsList # None /\ p \in Cached(ports)
      BY <1>9 DEF OpenPort, cache, saving
    <2>2. OpenExist'
      BY <2>1 DEF ListPages, OpenExist, Cached
    <2> QED
      BY <2>1, <2>2, SameShown DEF ListPages, Settled, MasterFakeDevice
  <1>10. CASE ClosePort \/ ClosePorts
    <2>1. /\ UNCHANGED <<slavesOn, slaves, ports, mainName, prefs, devicesList, table, fake, unheard>>
          /\ portForm' = None /\ (portsList' = None \/ portsList' = portsList)
      BY <1>10 DEF ClosePort, ClosePorts, cache, saving
    <2>2. OpenExist'
      BY <2>1 DEF ListPages, OpenExist, Cached
    <2> QED
      BY <2>1, <2>2, SameShown DEF ListPages, Settled, MasterFakeDevice
  <1>11. CASE UpdateDevices
    <2>1. /\ devicesList' = ShownDevices(prefs) /\ fake' = mainName
          /\ unheard' = unheard \ {"devices"}
          /\ UNCHANGED <<slavesOn, slaves, ports, mainName, prefs, portsList, table, portForm>>
          /\ MasterFakeDevice = mainName
      BY <1>11 DEF UpdateDevices, MasterFakeDevice, ListPages, cache, saving
    <2>2. MasterFakeDevice' = mainName /\ devicesList'.items = DeviceItems(prefs)
      BY <2>1 DEF MasterFakeDevice, ShownDevices
    <2>3. OpenExist'
      BY <2>1 DEF ListPages, OpenExist, Cached
    <2> QED
      BY <2>1, <2>2, <2>3, SameShown DEF ListPages, Settled
  <1>12. CASE UpdatePorts
    <2>1. /\ portsList # None /\ portsList' = ShownPorts(portsList.device, prefs)
          /\ unheard' = unheard \ {"ports"}
          /\ UNCHANGED <<slavesOn, slaves, ports, mainName, prefs, devicesList, fake, table, portForm>>
      BY <1>12 DEF UpdatePorts, cache, saving
    <2>2. /\ portsList'.device = portsList.device /\ portsList'.items = PortItems(portsList.device, prefs)
          /\ portsList'.add = CanAdd(portsList.device)
      BY <2>1 DEF ShownPorts
    <2>3. portsList' # None
      <3>1. portsList.device \in Slave \cup Names \cup {None}
        BY <2>1 DEF ListTypes, PortsLists
      <3> QED
        BY <2>1, <3>1, ShownTypes, NotNone DEF ListTypes
    <2>4. OpenExist'
      BY <2>1, <2>2, <2>3 DEF ListPages, OpenExist, Cached
    <2> QED
      BY <2>1, <2>2, <2>4, SameShown DEF ListPages, Settled, MasterFakeDevice
  <1>13. CASE UpdateTable
    <2>1. /\ table' = ShownTable(prefs) /\ unheard' = unheard \ {"table"}
          /\ UNCHANGED <<slavesOn, slaves, ports, mainName, prefs, devicesList, fake, portsList, portForm>>
      BY <1>13 DEF UpdateTable, cache, saving
    <2>2. table'.rows = Rows(prefs) /\ OpenExist'
      BY <2>1 DEF ShownTable, ListPages, OpenExist, Cached
    <2> QED
      BY <2>1, <2>2, SameShown DEF ListPages, Settled, MasterFakeDevice
  <1>14. CASE LoadPrefs
    <2>1. CASE served # prefs
      BY <1>14, <2>1 DEF LoadPrefs, cache, ListPages, Settled, OpenExist, Cached
    <2>2. CASE served = prefs
      BY <1>1, <1>14, <2>2 DEF LoadPrefs, pages
    <2> QED
      BY <2>1, <2>2
  <1>15. CASE DevicesOption
    <2>1. /\ devicesList' = [ShownDevices(Chosen("offline devices")) EXCEPT !.due = devicesList.due]
          /\ prefs' = Chosen("offline devices") /\ fake' = mainName
          /\ unheard' = unheard \ {"devices"}
          /\ UNCHANGED <<slavesOn, slaves, ports, mainName, portsList, table, portForm>>
          /\ MasterFakeDevice = mainName
      BY <1>15 DEF DevicesOption, Choose, SetPrefs, MasterFakeDevice, ListPages, cache
    <2>2. ASSUME NEW h \in {"offline ports", "disabled ports", "offline in table", "disabled in table"}
          PROVE  h \in prefs' <=> h \in prefs
      BY <2>1 DEF Chosen
    <2>3. Rows(prefs') = Rows(prefs) /\ \A d : PortItems(d, prefs') = PortItems(d, prefs)
      BY <2>2 DEF Rows, PortItems
    <2>4. MasterFakeDevice' = mainName /\ devicesList'.items = DeviceItems(prefs')
      BY <2>1 DEF MasterFakeDevice, ShownDevices
    <2>5. OpenExist' /\ (devicesList' # None => fake' \in {None, mainName'})
      BY <2>1 DEF ListPages, OpenExist, Cached
    <2>6. /\ Settled(table, "table")' => Settled(table, "table")
          /\ Settled(portsList, "ports")' => Settled(portsList, "ports")
      BY <2>1 DEF Settled
    <2> QED
      BY <2>1, <2>3, <2>4, <2>5, <2>6, SameShown DEF ListPages
  <1>16. ASSUME NEW h, PortsOption(h) PROVE ListPages'
    <2>1. /\ portsList # None
          /\ portsList' = [ShownPorts(portsList.device, Chosen(h)) EXCEPT !.due = portsList.due]
          /\ prefs' = Chosen(h) /\ h \in {"offline ports", "disabled ports"}
          /\ unheard' = unheard \ {"ports"}
          /\ UNCHANGED <<slavesOn, slaves, ports, mainName, devicesList, table, fake, portForm>>
      BY <1>16 DEF PortsOption, Choose, SetPrefs, cache
    <2>2. ASSUME NEW g \in {"offline devices", "offline in table", "disabled in table"}
          PROVE  g \in prefs' <=> g \in prefs
      BY <2>1 DEF Chosen
    <2>3. Rows(prefs') = Rows(prefs) /\ DeviceItems(prefs') = DeviceItems(prefs)
      BY <2>2 DEF Rows, DeviceItems
    <2>4. /\ portsList'.device = portsList.device /\ portsList'.items = PortItems(portsList.device, prefs')
          /\ portsList'.add = CanAdd(portsList.device) /\ portsList' \in PortsLists
      <3>1. portsList.device \in Slave \cup Names \cup {None} /\ portsList.due \in BOOLEAN
        BY <2>1 DEF ListTypes, PortsLists
      <3> QED
        BY <2>1, <3>1, ShownTypes DEF ShownPorts, ListTypes
    <2>5. OpenExist'
      BY <2>1, <2>4, NotNone DEF ListPages, OpenExist, Cached
    <2>6. /\ Settled(table, "table")' => Settled(table, "table")
          /\ Settled(devicesList, "devices")' => Settled(devicesList, "devices")
          /\ MasterFakeDevice' = MasterFakeDevice
      BY <2>1 DEF Settled, MasterFakeDevice
    <2> QED
      BY <2>1, <2>3, <2>4, <2>5, <2>6, SameShown DEF ListPages
  <1>17. ASSUME NEW h, TableOption(h) PROVE ListPages'
    <2>1. /\ table' = [ShownTable(Chosen(h)) EXCEPT !.due = table.due]
          /\ prefs' = Chosen(h) /\ h \in {"offline in table", "disabled in table"}
          /\ unheard' = unheard \ {"table"}
          /\ UNCHANGED <<slavesOn, slaves, ports, mainName, devicesList, portsList, fake, portForm>>
      BY <1>17 DEF TableOption, Choose, SetPrefs, cache
    <2>2. ASSUME NEW g \in {"offline devices", "offline ports", "disabled ports"}
          PROVE  g \in prefs' <=> g \in prefs
      BY <2>1 DEF Chosen
    <2>3. DeviceItems(prefs') = DeviceItems(prefs) /\ \A d : PortItems(d, prefs') = PortItems(d, prefs)
      BY <2>2 DEF DeviceItems, PortItems
    <2>4. table'.rows = Rows(prefs') /\ OpenExist' /\ MasterFakeDevice' = MasterFakeDevice
      BY <2>1 DEF ShownTable, ListPages, OpenExist, Cached, MasterFakeDevice
    <2>5. /\ Settled(devicesList, "devices")' => Settled(devicesList, "devices")
          /\ Settled(portsList, "ports")' => Settled(portsList, "ports")
      BY <2>1 DEF Settled
    <2> QED
      BY <2>1, <2>3, <2>4, <2>5, SameShown DEF ListPages
  <1>18. CASE Disconnect \/ Reconnect \/ ServePrefs
    BY <1>1, <1>18 DEF Disconnect, Reconnect, ServePrefs, saving
  <1>19. CASE SavePrefs \/ PutPrefs \/ PutFails \/ UNCHANGED lvars
    BY <1>1, <1>19 DEF SavePrefs, PutPrefs, PutFails, lvars, saving
  <1> QED
    BY <1>3, <1>4, <1>5, <1>6, <1>7, <1>8, <1>9, <1>10, <1>11, <1>12, <1>13, <1>14, <1>15, <1>16, <1>17,
       <1>18, <1>19 DEF Next

\* Each list shows what the server has, the page that is open is that of something that exists, and what
\* the user prefers reaches the server (ports-section.js, ports-list.js, devices-list.js, cache.js).
THEOREM ListsCorrect == Spec => []SectionsAgree
  <1>1. Init => ListsInv
    BY ListsInit
  <1>2. ListsInv /\ [Next]_lvars => ListsInv'
    BY ListTypesStep, ListCacheStep, ListPagesStep, ListPrefsStep DEF ListsInv
  <1>3. ListsInv => SectionsAgree
    BY ListsAgree
  <1> QED
    BY <1>1, <1>2, <1>3, PTL DEF Spec

(* -------------------------------- the access ---------------------------- *)

Notices == {"auth", "main"} \X (Levels \cup {None}) \X Levels

AccessTypes ==
    /\ cookie \in Credentials \cup {None} /\ creds \in Credentials \cup {None}
    /\ request \in Requests \cup {None}
    /\ level \in Levels \cup {None}
    /\ queue \in Seq(Notices)
    /\ known \in BOOLEAN /\ skewed \in BOOLEAN
    /\ change # None => change = [password |-> change.password, request |-> change.request, done |-> change.done]
                        /\ change.password \in Password

\* What the login form is to keep is what it has asked for, or what the server has since been given.
AccessKept ==
    /\ A!KeptWereAccepted
    /\ request # None /\ request.stage = "served" /\ request.level > A!NoLevel => request.creds \in accepted
    /\ request # None /\ request.by = "form" => creds = request.creds \/ creds \in accepted
    /\ change # None /\ change.done => [user |-> "admin", password |-> change.password] \in accepted

\* The listeners of index.js are called last for the level there is.
AccessLoaded ==
    IF queue = <<>> THEN A!LoadedForLevel
    ELSE queue[Len(queue)][1] = "main" /\ queue[Len(queue)][3] = level

\* The path that is kept is the one that was asked for.
AccessWanted ==
    /\ A!ComesWhereWanted
    /\ ~wentOn /\ ~between /\ nextPath # None => nextPath = wanted
    /\ wentOn => final # None

\* While the initial level is not known it is asked for, or the listeners of auth.js are about to be called.
AccessInitial ==
    /\ initial = None => \/ request # None /\ level = None /\ queue = <<>>
                         \/ queue # <<>> /\ queue[1][1] = "auth" /\ queue[1][2] = None
    /\ section = Login => initial # None
    /\ request # None /\ request.by = "form" => initial # None

AccessInv == AccessTypes /\ AccessKept /\ AccessLoaded /\ AccessWanted /\ AccessInitial

LEMMA AccessAgrees ==
  ASSUME AccessInv
  PROVE  AccessHolds
  BY DEF AccessInv, AccessKept, AccessLoaded, AccessWanted, AccessInitial, AccessHolds, A!AccessHolds,
         A!LoadedForLevel, A!InitialComes

LEMMA AccessInit ==
  ASSUME A!Init
  PROVE  AccessInv
  <1>1. cookie \in Credentials \cup {None}
    BY DEF A!Init, Credentials, A!User
  <1>2. AccessTypes
    BY <1>1, EmptySeq DEF A!Init, AccessTypes, Requests, Levels, A!NoLevel
  <1>3. AccessKept
    BY DEF A!Init, AccessKept, A!KeptWereAccepted
  <1>4. AccessLoaded
    BY DEF A!Init, AccessLoaded, A!LoadedForLevel
  <1>5. AccessWanted
    BY NotNone DEF A!Init, AccessWanted, A!ComesWhereWanted
  <1>6. AccessInitial
    <2>1. CASE cookie = None
      BY <2>1, NotNone DEF A!Init, AccessInitial, A!NoLevel, Levels
    <2>2. CASE cookie # None
      <3>1. request = [by |-> "init", creds |-> cookie, timed |-> TRUE, stage |-> "asked", level |-> 0]
        BY <2>2 DEF A!Init, A!NoLevel
      <3>2. request \in Requests
        BY <1>1, <3>1 DEF Requests, Levels
      <3> QED
        <4>1. level = None /\ queue = <<>> /\ section = None /\ request.by = "init"
          BY <3>1 DEF A!Init
        <4> QED
          BY <3>2, <4>1, NotNone DEF AccessInitial
    <2> QED
      BY <2>1, <2>2
  <1> QED
    BY <1>2, <1>3, <1>4, <1>5, <1>6 DEF AccessInv

\* What the server grants is a level, and a level that it grants is that of the credentials it was asked with.
LEMMA LevelGranted ==
  ASSUME AccessTypes, request # None
  PROVE  A!Granted(request) \in Levels
  BY DEF A!Granted, A!LevelOf, A!NoLevel, Levels, AccessTypes, Requests, Credentials

LEMMA AccessTypesStep ==
  ASSUME AccessTypes, [A!Next]_(A!avars)
  PROVE  AccessTypes'
  <1>1. CASE UNCHANGED <<cookie, creds, request, level, queue, known, skewed, change>>
    BY <1>1 DEF AccessTypes
  <1>2. CASE A!Serve
    <2>1. request \in Requests /\ A!Granted(request) \in Levels
      BY <1>2, LevelGranted DEF A!Serve, AccessTypes
    <2>2. request' \in Requests
      BY <1>2, <2>1 DEF A!Serve, Requests
    <2> QED
      BY <1>2, <2>2 DEF A!Serve, AccessTypes
  <1>3. CASE A!Answered
    <2>1. request \in Requests /\ request.level \in Levels
      BY <1>3 DEF A!Answered, AccessTypes, Requests
    <2>2. queue' \in Seq(Notices)
      <3>1. <<"auth", level, request.level>> \in Notices /\ <<"main", level, request.level>> \in Notices
        BY <2>1 DEF AccessTypes, Notices
      <3>2. <<<<"auth", level, request.level>>, <<"main", level, request.level>>>> \in Seq(Notices)
        BY <3>1
      <3> QED
        BY <1>3, <3>2, ConcatProperties DEF A!Answered, AccessTypes
    <2>3. cookie' \in Credentials \cup {None}
      BY <1>3 DEF A!Answered, A!Stored, AccessTypes
    <2> QED
      BY <1>3, <2>1, <2>2, <2>3 DEF A!Answered, AccessTypes
  <1>4. CASE A!Notify
    BY <1>4, HeadTailProperties DEF A!Notify, AccessTypes
  <1>5. CASE A!RequestFails
    BY <1>5 DEF A!RequestFails, AccessTypes
  <1>6. ASSUME NEW u \in A!User, NEW p \in Password \cup {Empty}, NEW rem \in BOOLEAN, A!TryLogin(u, p, rem)
        PROVE  AccessTypes'
    <2>1. creds' \in Credentials
      BY <1>6 DEF A!TryLogin, A!User, Credentials
    <2>2. request' \in Requests
      BY <1>6, <2>1 DEF A!TryLogin, A!Request, A!Timed, A!NoLevel, Requests, Levels, AccessTypes
    <2> QED
      BY <1>6, <2>1, <2>2 DEF A!TryLogin, AccessTypes
  <1>7. ASSUME NEW p \in Password, A!ChangePassword(p) PROVE AccessTypes'
    BY <1>7 DEF A!ChangePassword, AccessTypes
  <1>8. CASE A!ServePatch
    BY <1>8 DEF A!ServePatch, AccessTypes
  <1>9. CASE A!PatchAnswered
    <2>1. creds' \in Credentials \cup {None}
      BY <1>9 DEF A!PatchAnswered, AccessTypes, Credentials
    <2> QED
      BY <1>9, <2>1 DEF A!PatchAnswered, AccessTypes
  <1>10. CASE A!PatchFails
    BY <1>10 DEF A!PatchFails, AccessTypes
  <1>11. ASSUME NEW c \in Credentials \cup {None}, NEW p, A!Loaded(c, p), cookie' \in {cookie, None},
                UNCHANGED skewed
         PROVE  AccessTypes'
    <2>1. request' \in Requests \cup {None}
      BY <1>11 DEF A!Loaded, Requests, Levels, A!NoLevel
    <2>2. queue' \in Seq(Notices)
      BY <1>11, EmptySeq DEF A!Loaded
    <2> QED
      BY <1>11, <2>1, <2>2 DEF A!Loaded, AccessTypes
  <1>12. ASSUME NEW p, A!Reload(p) PROVE AccessTypes'
    BY <1>11, <1>12 DEF A!Reload, AccessTypes
  <1>13. CASE A!Logout
    BY <1>11, <1>13 DEF A!Logout
  <1>14. CASE A!CacheReady \/ A!Show \/ A!NavigateNext
    BY <1>1, <1>14 DEF A!CacheReady, A!Show, A!NavigateNext
  <1>15. ASSUME NEW p, A!Navigate(p) PROVE AccessTypes'
    BY <1>1, <1>15 DEF A!Navigate
  <1>16. ASSUME NEW u, NEW p, A!PasswordChanged(u, p) PROVE AccessTypes'
    BY <1>1, <1>16 DEF A!PasswordChanged, A!page
  <1>17. CASE UNCHANGED A!avars
    BY <1>1, <1>17 DEF A!avars, A!page
  <1> QED
    BY <1>2, <1>3, <1>4, <1>5, <1>6, <1>7, <1>8, <1>9, <1>10, <1>12, <1>13, <1>14, <1>15, <1>16, <1>17
    DEF A!Next, A!Page

\* The new page has not asked for anything to be kept.
LEMMA AccessKeptStep ==
  ASSUME AccessTypes, AccessKept, [A!Next]_(A!avars)
  PROVE  AccessKept'
  <1>1. CASE UNCHANGED <<cookie, creds, request, change, accepted>>
    BY <1>1 DEF AccessKept, A!KeptWereAccepted
  <1>2. CASE A!Serve
    <2>1. /\ request \in Requests /\ request' = [request EXCEPT !.stage = "served", !.level = A!Granted(request)]
          /\ accepted \subseteq accepted'
          /\ A!Granted(request) > A!NoLevel => request.creds \in accepted'
          /\ UNCHANGED <<cookie, creds, change>>
      BY <1>2 DEF A!Serve, AccessTypes
    <2>2. request'.level = A!Granted(request) /\ request'.creds = request.creds /\ request'.by = request.by
      BY <2>1 DEF Requests
    <2> QED
      BY <1>2, <2>1, <2>2 DEF A!Serve, AccessKept, A!KeptWereAccepted
  <1>3. CASE A!Answered
    BY <1>3 DEF A!Answered, A!Stored, AccessKept, A!KeptWereAccepted
  <1>4. CASE A!RequestFails
    BY <1>4 DEF A!RequestFails, AccessKept, A!KeptWereAccepted
  <1>5. ASSUME NEW u, NEW p, NEW rem, A!TryLogin(u, p, rem) PROVE AccessKept'
    BY <1>5 DEF A!TryLogin, A!Request, AccessKept, A!KeptWereAccepted
  <1>6. ASSUME NEW p, A!ChangePassword(p) PROVE AccessKept'
    BY <1>6 DEF A!ChangePassword, AccessKept, A!KeptWereAccepted
  <1>7. CASE A!ServePatch
    <2>1. /\ accepted' = accepted \cup {[user |-> "admin", password |-> change.password]}
          /\ change' = [change EXCEPT !.done = TRUE] /\ change'.password = change.password
          /\ UNCHANGED <<cookie, creds, request>>
      BY <1>7 DEF A!ServePatch, AccessTypes
    <2> QED
      BY <2>1 DEF AccessKept, A!KeptWereAccepted
  <1>8. CASE A!PatchAnswered
    <2>1. /\ change # None /\ change.done /\ change' = None
          /\ creds' = IF creds # None /\ creds.user = "admin"
                      THEN [creds EXCEPT !.password = change.password] ELSE creds
          /\ UNCHANGED <<cookie, request, accepted>>
      BY <1>8 DEF A!PatchAnswered
    <2>2. creds' = creds \/ creds' = [user |-> "admin", password |-> change.password]
      BY <2>1 DEF AccessTypes, Credentials
    <2> QED
      BY <2>1, <2>2 DEF AccessKept, A!KeptWereAccepted
  <1>9. CASE A!PatchFails
    BY <1>9 DEF A!PatchFails, AccessKept, A!KeptWereAccepted
  <1>10. ASSUME NEW c, NEW p, A!Loaded(c, p), cookie' \in {cookie, None}, UNCHANGED accepted PROVE AccessKept'
    <2>1. change' = None /\ (request' = None \/ (request'.by = "init" /\ request'.stage = "asked"))
      BY <1>10 DEF A!Loaded
    <2> QED
      BY <1>10, <2>1 DEF AccessKept, A!KeptWereAccepted
  <1>11. ASSUME NEW p, A!Reload(p) PROVE AccessKept'
    BY <1>10, <1>11 DEF A!Reload
  <1>12. CASE A!Logout
    BY <1>10, <1>12 DEF A!Logout
  <1>13. CASE A!Notify \/ A!CacheReady \/ A!Show \/ A!NavigateNext
    BY <1>1, <1>13 DEF A!Notify, A!CacheReady, A!Show, A!NavigateNext
  <1>14. ASSUME NEW p, A!Navigate(p) PROVE AccessKept'
    BY <1>1, <1>14 DEF A!Navigate
  <1>15. ASSUME NEW u, NEW p, A!PasswordChanged(u, p) PROVE AccessKept'
    BY <1>1, <1>15 DEF A!PasswordChanged, A!page
  <1>16. CASE UNCHANGED A!avars
    BY <1>1, <1>16 DEF A!avars, A!page
  <1> QED
    BY <1>2, <1>3, <1>4, <1>5, <1>6, <1>7, <1>8, <1>9, <1>11, <1>12, <1>13, <1>14, <1>15, <1>16
    DEF A!Next, A!Page

\* The notices that are due: their last after two are added, and after the first is taken.
LEMMA LastNotice ==
  ASSUME NEW q \in Seq(Notices)
  PROVE  /\ \A x \in Notices, y \in Notices :
               /\ (q \o <<x, y>>)[Len(q \o <<x, y>>)] = y /\ q \o <<x, y>> # <<>>
               /\ q = <<>> => (q \o <<x, y>>)[1] = x
               /\ q # <<>> => (q \o <<x, y>>)[1] = q[1]
         /\ q # <<>> /\ Tail(q) # <<>> => Tail(q)[Len(Tail(q))] = q[Len(q)]
         /\ q # <<>> /\ Tail(q) = <<>> => Head(q) = q[Len(q)]
         /\ q # <<>> => Head(q) = q[1]
  <1>1. ASSUME NEW x \in Notices, NEW y \in Notices
        PROVE  /\ (q \o <<x, y>>)[Len(q \o <<x, y>>)] = y /\ q \o <<x, y>> # <<>>
               /\ q = <<>> => (q \o <<x, y>>)[1] = x
               /\ q # <<>> => (q \o <<x, y>>)[1] = q[1]
    <2> DEFINE two == <<x, y>>
    <2>1. two \in Seq(Notices) /\ Len(two) = 2 /\ two[1] = x /\ two[2] = y
      OBVIOUS
    <2> HIDE DEF two
    <2>2. /\ q \o two \in Seq(Notices) /\ Len(q \o two) = Len(q) + Len(two)
          /\ \A i \in 1 .. Len(q) + Len(two) :
                (q \o two)[i] = IF i <= Len(q) THEN q[i] ELSE two[i - Len(q)]
      BY <2>1, ConcatProperties
    <2>3. Len(q) \in Nat /\ (q = <<>> <=> Len(q) = 0)
      BY LenProperties, EmptySeq
    <2>4. (q \o two)[Len(q) + 2] = y
      BY <2>1, <2>2, <2>3
    <2>5. q \o two # <<>>
      BY <2>1, <2>2, <2>3, EmptySeq
    <2>6. (q \o two)[1] = IF 1 <= Len(q) THEN q[1] ELSE two[1 - Len(q)]
      BY <2>1, <2>2, <2>3
    <2> QED
      BY <2>1, <2>2, <2>3, <2>4, <2>5, <2>6 DEF two
  <1>2. q # <<>> => Head(q) = q[1]
    BY HeadTailProperties
  <1> QED
    BY <1>1, <1>2, Served

LEMMA AccessLoadedStep ==
  ASSUME AccessTypes, AccessLoaded, [A!Next]_(A!avars)
  PROVE  AccessLoaded'
  <1>1. CASE UNCHANGED <<level, queue, loaded, buttons>>
    BY <1>1 DEF AccessLoaded, A!LoadedForLevel, A!NoLevel, A!LevelOf
  <1>2. CASE A!Answered
    <2>1. request.level \in Levels
      BY <1>2 DEF A!Answered, AccessTypes, Requests
    <2>2. CASE request.level = level
      BY <1>1, <1>2, <2>2 DEF A!Answered
    <2>3. CASE request.level # level
      <3> DEFINE x == <<"auth", level, request.level>>
                 y == <<"main", level, request.level>>
      <3>1. x \in Notices /\ y \in Notices /\ y[1] = "main" /\ y[3] = request.level
        BY <2>1 DEF AccessTypes, Notices
      <3>2. queue' = queue \o <<x, y>> /\ level' = request.level
        BY <1>2, <2>3 DEF A!Answered
      <3> HIDE DEF x, y
      <3>3. queue' # <<>> /\ queue'[Len(queue')] = y
        BY <3>1, <3>2, LastNotice DEF AccessTypes
      <3> QED
        BY <3>1, <3>2, <3>3 DEF AccessLoaded
    <2> QED
      BY <2>2, <2>3
  <1>3. CASE A!Notify
    <2>1. /\ queue \in Seq(Notices) /\ queue # <<>> /\ queue' = Tail(queue) /\ level' = level
          /\ Head(queue)[1] = "main" => A!LoadAtLevel(Head(queue)[3])
      BY <1>3 DEF A!Notify, AccessTypes
    <2>2. CASE queue' # <<>>
      BY <2>1, <2>2, LastNotice DEF AccessLoaded
    <2>3. CASE queue' = <<>>
      <3>1. Head(queue) = queue[Len(queue)]
        BY <2>1, <2>3, LastNotice
      <3>2. A!LoadAtLevel(level)
        BY <2>1, <3>1 DEF AccessLoaded
      <3> QED
        BY <2>1, <2>3, <3>2 DEF AccessLoaded, A!LoadAtLevel, A!LoadedForLevel, A!NoLevel, A!LevelOf
    <2> QED
      BY <2>2, <2>3
  <1>4. ASSUME NEW c, NEW p, A!Loaded(c, p) PROVE AccessLoaded'
    BY <1>4 DEF A!Loaded, AccessLoaded, A!LoadedForLevel
  <1>5. CASE A!Serve \/ A!CacheReady \/ A!RequestFails \/ A!Show \/ A!NavigateNext
    BY <1>1, <1>5 DEF A!Serve, A!CacheReady, A!RequestFails, A!Show, A!NavigateNext
  <1>6. ASSUME NEW u, NEW p, NEW rem, A!TryLogin(u, p, rem) PROVE AccessLoaded'
    BY <1>1, <1>6 DEF A!TryLogin
  <1>7. ASSUME NEW p, A!Navigate(p) \/ A!ChangePassword(p) PROVE AccessLoaded'
    BY <1>1, <1>7 DEF A!Navigate, A!ChangePassword
  <1>8. CASE A!ServePatch \/ A!PatchAnswered \/ A!PatchFails
    BY <1>1, <1>8 DEF A!ServePatch, A!PatchAnswered, A!PatchFails
  <1>9. ASSUME NEW u, NEW p, A!PasswordChanged(u, p) PROVE AccessLoaded'
    BY <1>1, <1>9 DEF A!PasswordChanged, A!page
  <1>10. CASE UNCHANGED A!avars
    BY <1>1, <1>10 DEF A!avars, A!page
  <1>11. ASSUME NEW p, A!Reload(p) PROVE AccessLoaded'
    BY <1>4, <1>11 DEF A!Reload
  <1>12. CASE A!Logout
    BY <1>4, <1>12 DEF A!Logout
  <1> QED
    BY <1>2, <1>3, <1>5, <1>6, <1>7, <1>8, <1>9, <1>10, <1>11, <1>12 DEF A!Next, A!Page

LEMMA AccessWantedStep ==
  ASSUME AccessTypes, AccessWanted, [A!Next]_(A!avars)
  PROVE  AccessWanted'
  <1>1. CASE UNCHANGED <<wentOn, between, goal, wanted, nextPath, final>>
    BY <1>1 DEF AccessWanted, A!ComesWhereWanted
  <1>2. ASSUME NEW p \in Path \cup {Login}, A!Navigate(p) PROVE AccessWanted'
    BY <1>2 DEF A!Navigate, A!Go, AccessWanted, A!ComesWhereWanted
  <1>3. CASE A!NavigateNext
    BY <1>3 DEF A!NavigateNext, AccessWanted, A!ComesWhereWanted
  <1>4. CASE A!Notify \/ A!RequestFails
    <2>1. final # None => final' # None
      BY <1>4 DEF A!Notify, A!RequestFails, A!LevelChange
    <2> QED
      BY <1>4, <2>1 DEF A!Notify, A!RequestFails, AccessWanted, A!ComesWhereWanted
  <1>5. ASSUME NEW c, NEW p \in Path, A!Loaded(c, p) PROVE AccessWanted'
    BY <1>5 DEF A!Loaded, AccessWanted, A!ComesWhereWanted
  <1>6. CASE A!Serve \/ A!Answered \/ A!CacheReady \/ A!Show
    BY <1>1, <1>6 DEF A!Serve, A!Answered, A!CacheReady, A!Show
  <1>7. ASSUME NEW u, NEW p, NEW rem, A!TryLogin(u, p, rem) PROVE AccessWanted'
    BY <1>1, <1>7 DEF A!TryLogin
  <1>8. ASSUME NEW p, A!ChangePassword(p) PROVE AccessWanted'
    BY <1>1, <1>8 DEF A!ChangePassword
  <1>9. CASE A!ServePatch \/ A!PatchAnswered \/ A!PatchFails
    <2>1. UNCHANGED <<wentOn, between, goal, wanted, nextPath, final>>
      BY <1>9 DEF A!ServePatch, A!PatchAnswered, A!PatchFails
    <2> QED
      BY <1>1, <2>1
  <1>10. ASSUME NEW u, NEW p, A!PasswordChanged(u, p) PROVE AccessWanted'
    BY <1>1, <1>10 DEF A!PasswordChanged, A!page
  <1>11. CASE UNCHANGED A!avars
    BY <1>1, <1>11 DEF A!avars, A!page
  <1>12. ASSUME NEW p \in Path, A!Reload(p) PROVE AccessWanted'
    BY <1>5, <1>12 DEF A!Reload
  <1>13. CASE A!Logout
    BY <1>5, <1>13, NotNone DEF A!Logout
  <1> QED
    BY <1>2, <1>3, <1>4, <1>6, <1>7, <1>8, <1>9, <1>10, <1>11, <1>12, <1>13 DEF A!Next, A!Page

LEMMA AccessInitialStep ==
  ASSUME AccessTypes, AccessInitial, [A!Next]_(A!avars)
  PROVE  AccessInitial'
  <1>1. CASE UNCHANGED <<initial, request, level, queue, section>>
    BY <1>1 DEF AccessInitial
  <1>2. CASE A!Serve
    <2>1. request \in Requests /\ request' = [request EXCEPT !.stage = "served", !.level = A!Granted(request)]
          /\ UNCHANGED <<initial, level, queue, section>>
      BY <1>2 DEF A!Serve, AccessTypes
    <2>2. request' \in Requests /\ request'.by = request.by
      BY <2>1, LevelGranted, NotNone DEF Requests, AccessTypes
    <2> QED
      BY <2>1, <2>2, NotNone DEF AccessInitial
  <1>3. CASE A!Answered
    <2>1. request # None /\ request.level \in Levels
      BY <1>3 DEF A!Answered, AccessTypes, Requests
    <2>2. CASE request.level = level
      BY <1>3, <2>1, <2>2, NotNone DEF A!Answered, AccessInitial
    <2>3. CASE request.level # level
      <3> DEFINE x == <<"auth", level, request.level>>
                 y == <<"main", level, request.level>>
      <3>1. x \in Notices /\ y \in Notices /\ x[1] = "auth" /\ x[2] = level
        BY <2>1 DEF AccessTypes, Notices
      <3>2. /\ queue' = queue \o <<x, y>> /\ level' = request.level /\ request' = None
            /\ UNCHANGED <<initial, section>>
        BY <1>3, <2>3 DEF A!Answered
      <3> HIDE DEF x, y
      <3>3. /\ queue' # <<>>
            /\ queue = <<>> => queue'[1] = x
            /\ queue # <<>> => queue'[1] = queue[1]
        BY <3>1, <3>2, LastNotice DEF AccessTypes
      <3> QED
        BY <3>1, <3>2, <3>3 DEF AccessInitial
    <2> QED
      BY <2>2, <2>3
  <1>4. CASE A!Notify
    <2>1. /\ queue \in Seq(Notices) /\ queue # <<>> /\ UNCHANGED <<request, level, section>>
          /\ IF Head(queue)[1] = "auth" THEN A!LevelChange(Head(queue)[2], Head(queue)[3])
             ELSE UNCHANGED initial
          /\ Head(queue) = queue[1] /\ Head(queue) \in Notices
      BY <1>4, LastNotice, HeadTailProperties DEF A!Notify, AccessTypes
    <2>2. Head(queue)[3] # None
      BY <2>1, NotNone DEF Notices
    <2>3. initial' # None
      BY <2>1, <2>2 DEF AccessInitial, A!LevelChange
    <2> QED
      BY <2>1, <2>3 DEF AccessInitial
  <1>5. CASE A!RequestFails
    <2>1. /\ request # None /\ request' = None /\ UNCHANGED <<level, queue, section>>
          /\ IF request.by = "form" THEN UNCHANGED initial ELSE A!LevelChange(None, A!NoLevel)
      BY <1>5 DEF A!RequestFails
    <2>2. A!NoLevel # None
      BY NotNone DEF A!NoLevel, Levels
    <2>3. initial' # None
      BY <2>1, <2>2 DEF AccessInitial, A!LevelChange
    <2> QED
      BY <2>1, <2>3 DEF AccessInitial
  <1>6. CASE A!Show
    BY <1>6 DEF A!Show, AccessInitial
  <1>7. ASSUME NEW u, NEW p, NEW rem, A!TryLogin(u, p, rem) PROVE AccessInitial'
    BY <1>7 DEF A!TryLogin, AccessInitial
  <1>8. ASSUME NEW c \in Credentials \cup {None}, NEW p, A!Loaded(c, p) PROVE AccessInitial'
    <2>1. CASE c = None
      <3>1. A!NoLevel # None
        BY NotNone DEF A!NoLevel, Levels
      <3> QED
        BY <1>8, <2>1, <3>1, NotNone DEF A!Loaded, AccessInitial
    <2>2. CASE c # None
      <3>1. request' = [by |-> "init", creds |-> c, timed |-> TRUE, stage |-> "asked", level |-> 0]
        BY <1>8, <2>2 DEF A!Loaded, A!NoLevel
      <3>2. request' \in Requests /\ request'.by = "init"
        BY <1>8, <2>2, <3>1 DEF Requests, Levels
      <3>3. level' = None /\ queue' = <<>> /\ section' = None
        BY <1>8 DEF A!Loaded
      <3> QED
        BY <3>2, <3>3, NotNone DEF AccessInitial
    <2> QED
      BY <2>1, <2>2
  <1>9. CASE A!CacheReady \/ A!NavigateNext \/ A!ServePatch \/ A!PatchAnswered
    BY <1>1, <1>9 DEF A!CacheReady, A!NavigateNext, A!ServePatch, A!PatchAnswered
  <1>10. CASE A!PatchFails
    BY <1>1, <1>10 DEF A!PatchFails
  <1>11. ASSUME NEW p, A!Navigate(p) \/ A!ChangePassword(p) PROVE AccessInitial'
    BY <1>1, <1>11 DEF A!Navigate, A!ChangePassword
  <1>12. ASSUME NEW u, NEW p, A!PasswordChanged(u, p) PROVE AccessInitial'
    BY <1>1, <1>12 DEF A!PasswordChanged, A!page
  <1>13. CASE UNCHANGED A!avars
    BY <1>1, <1>13 DEF A!avars, A!page
  <1>14. ASSUME NEW p, A!Reload(p) PROVE AccessInitial'
    BY <1>8, <1>14 DEF A!Reload, AccessTypes
  <1>15. CASE A!Logout
    BY <1>8, <1>15 DEF A!Logout
  <1> QED
    BY <1>2, <1>3, <1>4, <1>5, <1>6, <1>7, <1>9, <1>10, <1>11, <1>12, <1>13, <1>14, <1>15 DEF A!Next, A!Page

\* Only credentials that the server has accepted are kept, the cache is that of the level of access, the
\* section is the one asked for, and the login can always be shown (auth.js, index.js, sections.js).
THEOREM AccessCorrect == A!Spec => []AccessHolds
  <1>1. A!Init => AccessInv
    BY AccessInit
  <1>2. AccessInv /\ [A!Next]_(A!avars) => AccessInv'
    BY AccessTypesStep, AccessKeptStep, AccessLoadedStep, AccessWantedStep, AccessInitialStep DEF AccessInv
  <1>3. AccessInv => AccessHolds
    BY AccessAgrees
  <1> QED
    BY <1>1, <1>2, <1>3, PTL DEF A!Spec

(* ------------------------- the discovery of devices --------------------- *)

Busy == {"restarting", "scanning", "querying", "cancelled"}

DiscoveryTypes ==
    /\ near \in SUBSET Device /\ discovered \in (SUBSET Device) \cup {None}
    /\ task \in Busy \cup {"none", "done", "failed"}
    /\ timer \in BOOLEAN /\ ap \in BOOLEAN /\ stale \in BOOLEAN
    /\ deletes \in [D!Origin -> {"none", "asked", "waiting", "stopping", "answered", "failed"}]
    /\ loads \in 0..MaxLoads
    /\ own # None => own \subseteq 1..loads
    /\ refreshing \in BOOLEAN /\ (refreshing => own # None)
    /\ listings \in [D!Load -> {"none", "asked", "first", "waiting", "answered", "failed", "ended"}]
    /\ list \in [D!Load -> SUBSET Device]
    /\ rows \in SUBSET D!Row
    /\ adopts \in [D!Row -> {"none", "asked", "configuring", "connecting", "configured", "failed", "ended"}]

\* While a discovery is under way the access point runs; nothing is known; and what would stop the access
\* point waits for it, or has it restart.
DiscoveryServer ==
    /\ task \in Busy => ap /\ discovered = None
    /\ task = "restarting" => timer
    /\ task = "cancelled" => \E x \in D!Origin : deletes[x] = "waiting"
    /\ \A x \in D!Origin : deletes[x] = "stopping" => ap /\ task \notin {"scanning", "querying", "cancelled"}
    /\ ap => timer \/ deletes["timer"] # "none"

\* Only what a load has brought is listed or adopted, and progress is that of a load.
DiscoveryLoads ==
    /\ \A l \in D!Load : listings[l] = "none" <=> l > loads
    /\ \A r \in D!Row : r \in rows \/ adopts[r] # "none" => listings[r[2]] = "ended"
    /\ own # None /\ view = "progress" => \E l \in D!LoadsUnderWay : D!Mine(l)

\* The table as the last load, that of the page that is open, has brought it, and as the adoptions change it.
Filled ==
    /\ discovered # None
    /\ \A r \in rows : /\ r[2] = loads
                       /\ r[1] \in discovered \/ adopts[r] \in {"connecting", "configured", "failed"}
                       /\ adopts[r] \in {"connecting", "configured"} => r[1] \notin discovered
    /\ \A d \in discovered : <<d, loads>> \in rows

Fresh ==
    /\ loads \in own
    /\ \A x \in D!Origin : deletes[x] = "none"
    /\ D!LoadsUnderWay \subseteq {loads}
    /\ \A r \in D!Row : adopts[r] \notin {"none", "ended"} => r \in rows
    /\ listings[loads] # "ended" => rows = {}
    /\ listings[loads] = "answered" => discovered # None /\ list[loads] = discovered
    /\ listings[loads] = "ended" /\ view # "error" => Filled

DiscoveryFresh == own # None /\ ~stale => Fresh

DiscoveryInv == DiscoveryTypes /\ DiscoveryServer /\ DiscoveryLoads /\ DiscoveryFresh

LEMMA FiniteDevice == IsFiniteSet(Device) /\ \A S \in SUBSET Device : S # None
  BY SectionsAssumption

LEMMA LoadNumbers == MaxLoads \in Nat /\ D!Load = 1..MaxLoads
  BY SectionsAssumption DEF D!Load

LEMMA LastLoad ==
  ASSUME DiscoveryTypes, own # None, loads \in own
  PROVE  loads \in D!Load /\ loads \in 1..loads
  <1>1. loads \in 1..loads /\ loads \in 0..MaxLoads
    BY DEF DiscoveryTypes
  <1> QED
    BY <1>1, LoadNumbers

LEMMA DiscoveryAgrees == DiscoveryInv => DiscoveryTells
  <1> SUFFICES ASSUME DiscoveryInv PROVE D!DiscoveryTells
    BY DEF DiscoveryTells
  <1>1. ASSUME D!AtRest, ~stale, view = ""
        PROVE  {r[1] : r \in rows} = discovered /\ D!Cardinality(rows) = D!Cardinality(discovered)
    <2>1. Filled
      <3>1. Fresh
        BY <1>1 DEF DiscoveryInv, DiscoveryFresh, D!AtRest
      <3>2. loads \in D!Load /\ listings[loads] # "none"
        <4>1. loads \in D!Load /\ loads \in 1..loads
          BY <3>1, <1>1, LastLoad DEF DiscoveryInv, Fresh, D!AtRest
        <4> QED
          BY <4>1 DEF DiscoveryInv, DiscoveryLoads
      <3>3. listings[loads] = "ended"
        BY <3>2, <1>1 DEF D!AtRest, D!LoadsUnderWay
      <3> QED
        BY <3>1, <3>3, <1>1 DEF Fresh
    <2>2. \A r \in rows : r = <<r[1], loads>> /\ r[1] \in discovered
      <3> TAKE r \in rows
      <3>1. r \in D!Row /\ adopts[r] = "none" /\ r[2] = loads
        BY <1>1, <2>1 DEF DiscoveryInv, DiscoveryTypes, Filled, D!AtRest
      <3> QED
        BY <3>1, <2>1 DEF Filled, D!Row
    <2>3. discovered \in SUBSET Device
      BY <2>1 DEF Filled, DiscoveryInv, DiscoveryTypes
    <2>4. {r[1] : r \in rows} = discovered
      <3>1. \A d \in discovered : <<d, loads>> \in rows /\ <<d, loads>>[1] = d
        BY <2>1 DEF Filled
      <3>2. \A d \in discovered : \E r \in rows : r[1] = d
        BY <3>1
      <3> QED
        BY <2>2, <3>2
    <2>5. rows = {<<d, loads>> : d \in discovered}
      BY <2>1, <2>2 DEF Filled
    <2>6. IsFiniteSet(discovered)
      BY <2>3, FiniteDevice, FS_Subset
    <2> DEFINE f == [d \in discovered |-> <<d, loads>>]
    <2>7. f \in Bijection(discovered, rows)
      BY <2>5 DEF Bijection, Injection, Surjection, IsInjective
    <2>8. Cardinality(rows) = Cardinality(discovered)
      <3> HIDE DEF f
      <3> QED
        BY <2>6, <2>7, FS_Bijection DEF ExistsBijection
    <2> QED
      BY <2>4, <2>8 DEF Cardinality, D!Cardinality, IsFiniteSet, D!IsFiniteSet
  <1>2. own # None /\ D!LoadsUnderWay = {} => view # "progress"
    BY DEF DiscoveryInv, DiscoveryLoads
  <1>3. ap => timer \/ deletes["timer"] # "none"
    BY DEF DiscoveryInv, DiscoveryServer
  <1> QED
    BY <1>1, <1>2, <1>3 DEF D!DiscoveryTells

LEMMA DiscoveryInit == D!Init => DiscoveryInv
  <1> SUFFICES ASSUME D!Init PROVE DiscoveryInv
    OBVIOUS
  <1>1. DiscoveryTypes
    <2>1. listings \in [D!Load -> {"none"}] /\ list \in [D!Load -> {{}}] /\ adopts \in [D!Row -> {"none"}]
      BY DEF D!Init
    <2>2. loads = 0 /\ deletes \in [D!Origin -> {"none"}]
      BY DEF D!Init
    <2>3. loads \in 0..MaxLoads
      BY <2>2, LoadNumbers
    <2> QED
      BY <2>1, <2>2, <2>3 DEF D!Init, DiscoveryTypes
  <1>2. DiscoveryServer
    BY DEF D!Init, DiscoveryServer, Busy
  <1>3. DiscoveryLoads
    <2>1. loads = 0 /\ \A l \in D!Load : listings[l] = "none" /\ l \in 1..MaxLoads
      BY LoadNumbers DEF D!Init
    <2>2. \A r \in D!Row : r \notin rows /\ adopts[r] = "none"
      BY DEF D!Init
    <2>3. own = None
      BY DEF D!Init
    <2> QED
      BY <2>1, <2>2, <2>3, LoadNumbers DEF DiscoveryLoads
  <1>4. DiscoveryFresh
    BY DEF D!Init, DiscoveryFresh
  <1> QED
    BY <1>1, <1>2, <1>3, <1>4 DEF DiscoveryInv

\* Some finish() raise: none of those still stops the access point.
LEMMA Raising ==
  ASSUME DiscoveryTypes, NEW S \in SUBSET D!Origin
  PROVE  /\ D!Raise(S) \in [D!Origin -> {"none", "asked", "waiting", "stopping", "answered", "failed"}]
         /\ \A x \in D!Origin : D!Raise(S)[x] = "stopping" => x \notin S
         /\ \A x \in D!Origin : deletes[x] # "stopping" => D!Raise(S)[x] = deletes[x]
  BY DEF DiscoveryTypes, D!Raise, D!Raised, D!Origin

LEMMA DiscoveryTypesStep ==
  ASSUME DiscoveryTypes, [D!Next]_(D!dvars)
  PROVE  DiscoveryTypes'
  <1>1. CASE D!Open
    BY <1>1, LoadNumbers DEF D!Open, D!Show, D!Crossed, DiscoveryTypes, D!devices, D!discovery
  <1>2. CASE D!Refresh
    BY <1>2 DEF D!Refresh, DiscoveryTypes, D!devices, D!Origin
  <1>3. CASE D!Refreshed
    <2>1. loads' \in 0..MaxLoads /\ loads' = loads + 1 /\ listings' = [listings EXCEPT ![loads + 1] = "asked"]
      BY <1>3, LoadNumbers DEF D!Refreshed, D!Show, DiscoveryTypes
    <2>2. own' # None => own' \subseteq 1..loads'
      BY <1>3, <2>1 DEF D!Refreshed, DiscoveryTypes
    <2>3. stale' \in BOOLEAN /\ rows' \in SUBSET D!Row
      BY <1>3 DEF D!Refreshed, D!Crossed, DiscoveryTypes
    <2> QED
      BY <1>3, <2>1, <2>2, <2>3 DEF D!Refreshed, DiscoveryTypes, D!devices
  <1>4. CASE D!RefreshFails
    BY <1>4 DEF D!RefreshFails, DiscoveryTypes, D!devices, D!Origin
  <1>5. CASE D!Tick
    BY <1>5 DEF D!Tick, DiscoveryTypes, D!devices, D!discovery
  <1>6. CASE D!Close
    BY <1>6 DEF D!Close, DiscoveryTypes, D!devices, D!Origin
  <1>7. CASE D!Query
    BY <1>7 DEF D!Query, DiscoveryTypes, D!devices, D!loading, Busy
  <1>8. CASE D!Cancelled
    BY <1>8 DEF D!Cancelled, D!Answers, DiscoveryTypes, D!devices
  <1>9. CASE D!DiscoverFails
    BY <1>9 DEF D!DiscoverFails, D!Answers, DiscoveryTypes, D!devices
  <1>10. CASE D!Restarted
    BY <1>10, Raising DEF D!Restarted, DiscoveryTypes, D!devices, D!loading, Busy
  <1>11. ASSUME NEW l \in D!Load, D!Loaded(l) PROVE DiscoveryTypes'
    <2>1. list[l] \X {l} \in SUBSET D!Row
      BY <1>11 DEF DiscoveryTypes, D!Row
    <2> QED
      BY <1>11, <2>1 DEF D!Loaded, DiscoveryTypes, D!devices, D!discovery
  <1>12. ASSUME NEW l \in D!Load, D!Get(l) PROVE DiscoveryTypes'
    BY <1>12 DEF D!Get, DiscoveryTypes, D!devices, Busy
  <1>13. ASSUME NEW found \in SUBSET near, D!Discovered(found) PROVE DiscoveryTypes'
    BY <1>13 DEF D!Discovered, D!Answers, DiscoveryTypes, D!devices
  <1>14. ASSUME NEW x \in D!Origin, D!Finish(x) PROVE DiscoveryTypes'
    <2>1. deletes' \in [D!Origin -> {"none", "asked", "waiting", "stopping", "answered", "failed"}]
      BY <1>14 DEF D!Finish, D!Ended, DiscoveryTypes
    <2>2. /\ listings' \in [D!Load -> {"none", "asked", "first", "waiting", "answered", "failed", "ended"}]
          /\ list' \in [D!Load -> SUBSET Device]
      BY <1>14 DEF D!Finish, D!Answers, DiscoveryTypes
    <2>3. /\ task' \in Busy \cup {"none", "done", "failed"} /\ timer' \in BOOLEAN /\ stale' \in BOOLEAN
          /\ discovered' \in (SUBSET Device) \cup {None}
      BY <1>14 DEF D!Finish, DiscoveryTypes, Busy
    <2> QED
      BY <1>14, <2>1, <2>2, <2>3 DEF D!Finish, DiscoveryTypes, D!devices
  <1>15. ASSUME NEW x \in D!Origin, D!Stopped(x) PROVE DiscoveryTypes'
    <2>1. deletes' \in [D!Origin -> {"none", "asked", "waiting", "stopping", "answered", "failed"}]
      BY <1>15, Raising DEF D!Stopped, D!Ended
    <2>2. /\ listings' \in [D!Load -> {"none", "asked", "first", "waiting", "answered", "failed", "ended"}]
          /\ list' \in [D!Load -> SUBSET Device]
      BY <1>15 DEF D!Stopped, D!Answers, DiscoveryTypes
    <2> QED
      BY <1>15, <2>1, <2>2 DEF D!Stopped, DiscoveryTypes, D!devices
  <1>16. ASSUME NEW r \in D!Row, D!Adopt(r) \/ D!Configure(r) \/ D!ConfigureFails(r) \/ D!Connected(r)
         PROVE  DiscoveryTypes'
    BY <1>16 DEF D!Adopt, D!Configure, D!ConfigureFails, D!Connected, DiscoveryTypes, D!devices, D!discovery, D!loading
  <1>17. ASSUME NEW r \in D!Row, D!Configured(r) PROVE DiscoveryTypes'
    BY <1>17 DEF D!Configured, DiscoveryTypes, D!loading
  <1>18. ASSUME NEW r \in D!Row, D!AdoptEnds(r) PROVE DiscoveryTypes'
    BY <1>18 DEF D!AdoptEnds, DiscoveryTypes, D!discovery, D!loading
  <1>19. CASE UNCHANGED D!dvars
    BY <1>19 DEF D!dvars, D!devices, D!discovery, D!loading, DiscoveryTypes
  <1> QED
    BY <1>1, <1>2, <1>3, <1>4, <1>5, <1>6, <1>7, <1>8, <1>9, <1>10, <1>11, <1>12, <1>13, <1>14, <1>15, <1>16,
       <1>17, <1>18, <1>19 DEF D!Next

LEMMA DiscoveryServerStep ==
  ASSUME DiscoveryTypes, DiscoveryServer, [D!Next]_(D!dvars)
  PROVE  DiscoveryServer'
  <1>1. CASE UNCHANGED D!discovery
    BY <1>1 DEF D!discovery, DiscoveryServer
  <1>2. CASE D!Open \/ D!Tick
    BY <1>1, <1>2 DEF D!Open, D!Tick
  <1>3. CASE D!Refresh \/ D!Refreshed \/ D!RefreshFails \/ D!Close
    <2>1. UNCHANGED <<task, discovered, timer, ap>>
      BY <1>3 DEF D!Refresh, D!Refreshed, D!RefreshFails, D!Close
    <2>2. \A x \in D!Origin : \/ deletes'[x] = deletes[x]
                              \/ /\ deletes[x] \notin {"waiting", "stopping"} /\ x # "timer"
                                 /\ deletes'[x] \notin {"waiting", "stopping"}
      BY <1>3 DEF D!Refresh, D!Refreshed, D!RefreshFails, D!Close, D!Origin, DiscoveryTypes
    <2> QED
      BY <2>1, <2>2 DEF DiscoveryServer, D!Origin
  <1>4. CASE D!Query
    BY <1>4 DEF D!Query, DiscoveryServer, Busy
  <1>5. CASE D!Cancelled
    BY <1>5 DEF D!Cancelled, DiscoveryServer, DiscoveryTypes, Busy, D!Origin
  <1>6. CASE D!DiscoverFails
    BY <1>6 DEF D!DiscoverFails, DiscoveryServer, DiscoveryTypes, Busy
  <1>7. CASE D!Restarted
    BY <1>7, Raising DEF D!Restarted, DiscoveryServer, DiscoveryTypes, Busy
  <1>8. ASSUME NEW l \in D!Load, D!Loaded(l) PROVE DiscoveryServer'
    BY <1>1, <1>8 DEF D!Loaded
  <1>9. ASSUME NEW l \in D!Load, D!Get(l) PROVE DiscoveryServer'
    BY <1>9 DEF D!Get, DiscoveryServer, DiscoveryTypes, Busy
  <1>10. ASSUME NEW found \in SUBSET near, D!Discovered(found) PROVE DiscoveryServer'
    BY <1>10 DEF D!Discovered, DiscoveryServer, DiscoveryTypes, Busy
  <1>11. ASSUME NEW x \in D!Origin, D!Finish(x) PROVE DiscoveryServer'
    BY <1>11 DEF D!Finish, D!Ended, D!Origin, DiscoveryServer, DiscoveryTypes, Busy
  <1>12. ASSUME NEW x \in D!Origin, D!Stopped(x) PROVE DiscoveryServer'
    <2>1. deletes' = [D!Raise(D!Origin \ {x}) EXCEPT ![x] = D!Ended(x)] /\ ap' = FALSE /\ discovered' = None
      BY <1>12 DEF D!Stopped
    <2>2. \A y \in D!Origin : deletes'[y] # "stopping"
      BY <2>1, Raising DEF D!Ended
    <2>3. task \notin {"scanning", "querying", "cancelled"} /\ task' \notin Busy
      BY <1>12 DEF D!Stopped, DiscoveryServer, DiscoveryTypes, Busy
    <2> QED
      BY <2>1, <2>2, <2>3 DEF DiscoveryServer, Busy
  <1>13. ASSUME NEW r \in D!Row,
                D!Adopt(r) \/ D!Configure(r) \/ D!ConfigureFails(r) \/ D!Connected(r) \/ D!AdoptEnds(r)
         PROVE  DiscoveryServer'
    BY <1>1, <1>13 DEF D!Adopt, D!Configure, D!ConfigureFails, D!Connected, D!AdoptEnds
  <1>14. ASSUME NEW r \in D!Row, D!Configured(r) PROVE DiscoveryServer'
    BY <1>14 DEF D!Configured, DiscoveryServer
  <1>15. CASE UNCHANGED D!dvars
    BY <1>1, <1>15 DEF D!dvars
  <1> QED
    BY <1>2, <1>3, <1>4, <1>5, <1>6, <1>7, <1>8, <1>9, <1>10, <1>11, <1>12, <1>13, <1>14, <1>15 DEF D!Next

LEMMA DiscoveryLoadsStep ==
  ASSUME DiscoveryTypes, DiscoveryLoads, [D!Next]_(D!dvars)
  PROVE  DiscoveryLoads'
  <1>1. CASE UNCHANGED <<own, loads, listings, rows, adopts>> /\ (view' = view \/ view' # "progress")
    BY <1>1 DEF DiscoveryLoads, D!LoadsUnderWay, D!Mine
  \* What is under way stays so.
  <1>2. CASE /\ UNCHANGED <<own, loads, rows, adopts, view>>
             /\ listings' \in [D!Load -> {"none", "asked", "first", "waiting", "answered", "failed", "ended"}]
             /\ \A l \in D!Load : \/ listings'[l] = listings[l]
                                  \/ {listings[l], listings'[l]} \cap {"none", "ended"} = {}
    <2>1. \A l \in D!Load : \A s \in {"none", "ended"} : listings'[l] = s <=> listings[l] = s
      BY <1>2
    <2>2. D!LoadsUnderWay' = D!LoadsUnderWay
      BY <2>1 DEF D!LoadsUnderWay
    <2>3. \A r \in D!Row : r[2] \in D!Load
      BY DEF D!Row
    <2> QED
      BY <1>2, <2>1, <2>2, <2>3 DEF DiscoveryLoads, D!Mine
  \* A row that had been asked for stays so, or was there.
  <1>3. ASSUME UNCHANGED <<own, loads, listings, view>>, rows' \subseteq rows,
               \A r \in D!Row : adopts'[r] # "none" => adopts[r] # "none" \/ r \in rows
        PROVE  DiscoveryLoads'
    BY <1>3 DEF DiscoveryLoads, D!LoadsUnderWay, D!Mine
  \* A load begins.
  <1>4. ASSUME D!Show, adopts' = adopts,
               rows' \subseteq rows, (own' = own /\ view' = view) \/ own' = None \/ loads + 1 \in own'
        PROVE  DiscoveryLoads'
    <2>1. loads + 1 \in D!Load /\ loads \in Nat
      BY <1>4, LoadNumbers DEF D!Show, DiscoveryTypes
    <2>2. \A l \in D!Load : listings'[l] = IF l = loads + 1 THEN "asked" ELSE listings[l]
      BY <1>4 DEF D!Show, DiscoveryTypes
    <2>3. \A l \in D!Load : listings'[l] = "none" <=> l > loads'
      BY <1>4, <2>1, <2>2, LoadNumbers DEF D!Show, DiscoveryLoads
    <2>4. listings[loads + 1] = "none"
      BY <2>1 DEF DiscoveryLoads
    <2>5. ASSUME NEW r \in D!Row, r \in rows' \/ adopts'[r] # "none" PROVE listings'[r[2]] = "ended"
      <3>1. r[2] \in D!Load /\ listings[r[2]] = "ended"
        BY <2>5, <1>4 DEF DiscoveryLoads, D!Row
      <3> QED
        BY <3>1, <2>2, <2>4
    <2>6. ASSUME own' # None, view' = "progress" PROVE \E l \in D!LoadsUnderWay' : D!Mine(l)'
      <3>1. CASE loads + 1 \in own'
        BY <3>1, <2>6, <2>1, <2>2 DEF D!LoadsUnderWay, D!Mine
      <3>2. CASE own' = own /\ view' = view
        <4>1. PICK l \in D!LoadsUnderWay : D!Mine(l)
          BY <3>2, <2>6 DEF DiscoveryLoads
        <4>2. l \in D!LoadsUnderWay'
          BY <2>2, <4>1 DEF D!LoadsUnderWay
        <4> QED
          BY <4>1, <4>2, <3>2 DEF D!Mine
      <3> QED
        BY <1>4, <2>6, <3>1, <3>2
    <2> QED
      BY <2>3, <2>5, <2>6 DEF DiscoveryLoads
  <1>5. CASE D!Open
    BY <1>4, <1>5 DEF D!Open
  <1>6. CASE D!Refreshed
    BY <1>4, <1>6 DEF D!Refreshed
  <1>7. CASE D!Refresh
    BY <1>1, <1>7 DEF D!Refresh
  <1>8. CASE D!RefreshFails
    BY <1>1, <1>8 DEF D!RefreshFails
  <1>9. CASE D!Tick
    BY <1>9 DEF D!Tick, DiscoveryLoads, D!LoadsUnderWay, D!Mine
  <1>10. CASE D!Close
    BY <1>10 DEF D!Close, DiscoveryLoads
  <1>11. CASE D!Query
    BY <1>1, <1>11 DEF D!Query, D!loading
  <1>12. CASE D!Cancelled
    BY <1>2, <1>12 DEF D!Cancelled, D!Answers, DiscoveryTypes
  <1>13. CASE D!DiscoverFails
    BY <1>2, <1>13 DEF D!DiscoverFails, D!Answers, DiscoveryTypes
  <1>14. CASE D!Restarted
    BY <1>1, <1>14 DEF D!Restarted, D!loading
  <1>15. ASSUME NEW l \in D!Load, D!Loaded(l) PROVE DiscoveryLoads'
    <2>1. \A k \in D!Load : listings'[k] = IF k = l THEN "ended" ELSE listings[k]
      BY <1>15 DEF D!Loaded, DiscoveryTypes
    <2>2. \A k \in D!Load : listings'[k] = "none" <=> k > loads'
      <3>1. loads' = loads /\ listings[l] # "none"
        BY <1>15 DEF D!Loaded
      <3> QED
        BY <3>1, <2>1 DEF DiscoveryLoads
    <2>3. \A r \in D!Row : r \in rows' \/ adopts'[r] # "none" => r[2] = l \/ r \in rows \/ adopts[r] # "none"
      <3>1. adopts' = adopts /\ rows' \subseteq rows \cup (list[l] \X {l})
        BY <1>15 DEF D!Loaded
      <3>2. \A r \in list[l] \X {l} : r[2] = l
        OBVIOUS
      <3> QED
        BY <3>1, <3>2
    <2>4. \A r \in D!Row : r \in rows' \/ adopts'[r] # "none" => listings'[r[2]] = "ended"
      BY <2>1, <2>3 DEF DiscoveryLoads, D!Row
    <2>5. ASSUME own' # None, view' = "progress" PROVE \E k \in D!LoadsUnderWay' : D!Mine(k)'
      <3>1. own' = own /\ view = "progress" /\ ~D!Mine(l)
        BY <1>15, <2>5 DEF D!Loaded
      <3>2. PICK k \in D!LoadsUnderWay : D!Mine(k)
        BY <3>1, <2>5 DEF DiscoveryLoads
      <3>3. k \in D!LoadsUnderWay'
        BY <3>1, <3>2, <2>1 DEF D!LoadsUnderWay
      <3> QED
        BY <3>1, <3>2, <3>3 DEF D!Mine
    <2> QED
      BY <2>2, <2>4, <2>5 DEF DiscoveryLoads
  <1>16. ASSUME NEW l \in D!Load, D!Get(l) PROVE DiscoveryLoads'
    <2>1. UNCHANGED <<own, loads, rows, adopts, view>>
      BY <1>16 DEF D!Get
    <2>2. \E s \in {"answered", "first", "failed", "waiting"} : listings' = [listings EXCEPT ![l] = s]
      BY <1>16 DEF D!Get
    <2>3. listings[l] = "asked"
      BY <1>16 DEF D!Get
    <2> QED
      BY <1>2, <2>1, <2>2, <2>3 DEF DiscoveryTypes
  <1>17. ASSUME NEW found \in SUBSET near, D!Discovered(found) PROVE DiscoveryLoads'
    BY <1>2, <1>17 DEF D!Discovered, D!Answers, DiscoveryTypes
  <1>18. ASSUME NEW x \in D!Origin, D!Finish(x) \/ D!Stopped(x) PROVE DiscoveryLoads'
    <2>1. UNCHANGED <<own, loads, rows, adopts, view>>
      BY <1>18 DEF D!Finish, D!Stopped
    <2>2. D!Answers("failed", {}) \/ listings' = listings
      BY <1>18 DEF D!Finish, D!Stopped
    <2> QED
      BY <1>2, <2>1, <2>2 DEF D!Answers, DiscoveryTypes
  <1>19. ASSUME NEW r \in D!Row, D!Adopt(r) PROVE DiscoveryLoads'
    BY <1>3, <1>19 DEF D!Adopt, D!loading, DiscoveryTypes
  <1>20. ASSUME NEW r \in D!Row, D!Configure(r) \/ D!ConfigureFails(r) \/ D!Connected(r)
         PROVE  DiscoveryLoads'
    BY <1>3, <1>20 DEF D!Configure, D!ConfigureFails, D!Connected, D!loading, DiscoveryTypes
  <1>21. ASSUME NEW r \in D!Row, D!Configured(r) \/ D!AdoptEnds(r) PROVE DiscoveryLoads'
    BY <1>3, <1>21 DEF D!Configured, D!AdoptEnds, D!loading, DiscoveryTypes
  <1>22. CASE UNCHANGED D!dvars
    BY <1>1, <1>22 DEF D!dvars, D!loading
  <1> QED
    BY <1>5, <1>6, <1>7, <1>8, <1>9, <1>10, <1>11, <1>12, <1>13, <1>14, <1>15, <1>16, <1>17, <1>18, <1>19, <1>20,
       <1>21, <1>22 DEF D!Next

\* A load that nothing crosses is that of an empty table.
LEMMA Opening ==
  ASSUME DiscoveryTypes, DiscoveryServer, DiscoveryLoads, D!Show, own' # None, loads + 1 \in own', rows' = {},
         adopts' = adopts, UNCHANGED discovered,
         ~D!Crossed(D!Origin \ {"refresh"}), deletes'["refresh"] = "none",
         \A x \in D!Origin \ {"refresh"} : deletes'[x] = deletes[x]
  PROVE  Fresh'
  <1>1. loads' = loads + 1 /\ loads + 1 \in D!Load
    BY LoadNumbers DEF D!Show, DiscoveryTypes
  <1>2. \A l \in D!Load : listings'[l] = IF l = loads + 1 THEN "asked" ELSE listings[l]
    BY DEF D!Show, DiscoveryTypes
  <1>3. D!LoadsUnderWay = {} /\ \A r \in D!Row : adopts[r] \in {"none", "ended"}
    BY DEF D!Crossed
  <1>4. D!LoadsUnderWay' \subseteq {loads'}
    BY <1>1, <1>2, <1>3 DEF D!LoadsUnderWay
  <1>5. \A x \in D!Origin : deletes'[x] = "none"
    BY DEF D!Crossed, D!Origin
  <1> QED
    BY <1>1, <1>2, <1>3, <1>4, <1>5 DEF Fresh

LEMMA DiscoveryFreshStep ==
  ASSUME DiscoveryTypes, DiscoveryServer, DiscoveryLoads, DiscoveryFresh, [D!Next]_(D!dvars)
  PROVE  DiscoveryFresh'
  <1> SUFFICES ASSUME own' # None, ~stale' PROVE Fresh'
    BY DEF DiscoveryFresh
  <1>1. CASE D!Open
    <2>1. ~D!Crossed(D!Origin) /\ deletes' = deletes
      BY <1>1 DEF D!Open, D!discovery
    <2>2. ~D!Crossed(D!Origin \ {"refresh"}) /\ deletes["refresh"] = "none"
      BY <2>1 DEF D!Crossed, D!Origin
    <2> QED
      BY <1>1, <2>1, <2>2, Opening DEF D!Open, D!discovery
  <1>2. CASE D!Refreshed
    <2>1. CASE refreshing
      <3>1. deletes'["refresh"] = "none" /\ \A x \in D!Origin \ {"refresh"} : deletes'[x] = deletes[x]
        BY <1>2 DEF D!Refreshed, DiscoveryTypes, D!Origin
      <3> QED
        BY <1>2, <2>1, <3>1, Opening DEF D!Refreshed
    <2>2. CASE ~refreshing
      BY <1>2, <2>2 DEF D!Refreshed, DiscoveryFresh, Fresh, D!Origin
    <2> QED
      BY <2>1, <2>2
  <1>3. CASE D!Refresh \/ D!Close
    BY <1>3 DEF D!Refresh, D!Close
  <1>4. CASE D!RefreshFails
    BY <1>4 DEF D!RefreshFails, DiscoveryFresh, Fresh, D!Origin
  \* What else happens finds the table fresh.
  <1>5. ASSUME own' = own, stale' = stale
        PROVE  Fresh /\ loads \in D!Load
    BY <1>5, LastLoad DEF DiscoveryFresh, Fresh
  <1>6. CASE UNCHANGED <<discovered, deletes, own, loads, listings, list, rows, adopts, stale, view>>
    BY <1>5, <1>6 DEF Fresh, Filled, D!LoadsUnderWay
  <1>7. CASE D!Tick
    <2>1. Fresh /\ UNCHANGED <<discovered, deletes, own, loads, listings, list, rows, adopts, stale>>
      BY <1>5, <1>7 DEF D!Tick, D!discovery
    <2>2. listings[loads] # "ended"
      BY <1>7, <2>1 DEF D!Tick, Fresh, D!LoadsUnderWay
    <2> QED
      BY <2>1, <2>2 DEF Fresh, D!LoadsUnderWay
  <1>8. CASE D!Query
    BY <1>6, <1>8 DEF D!Query, D!loading
  <1>9. CASE D!Cancelled
    BY <1>5, <1>9 DEF D!Cancelled, Fresh, DiscoveryServer
  <1>10. CASE D!DiscoverFails
    <2>1. Fresh /\ loads \in D!Load /\ UNCHANGED <<discovered, deletes, own, loads, rows, adopts, stale, view>>
      BY <1>5, <1>10 DEF D!DiscoverFails
    <2>2. \A l \in D!Load : IF listings[l] \in {"first", "waiting"} THEN listings'[l] = "failed"
                            ELSE listings'[l] = listings[l] /\ list'[l] = list[l]
      BY <1>10 DEF D!DiscoverFails, D!Answers
    <2>3. D!LoadsUnderWay' \subseteq {loads}
      BY <2>1, <2>2 DEF Fresh, D!LoadsUnderWay
    <2> QED
      BY <2>1, <2>2, <2>3 DEF Fresh, Filled
  <1>11. CASE D!Restarted
    <2>1. Fresh /\ UNCHANGED <<discovered, own, loads, listings, list, rows, adopts, stale, view>>
      BY <1>5, <1>11 DEF D!Restarted, D!loading
    <2>2. \A x \in D!Origin : deletes'[x] = "none"
      BY <1>11, <2>1, Raising DEF D!Restarted, Fresh
    <2> QED
      BY <2>1, <2>2 DEF Fresh, Filled, D!LoadsUnderWay
  <1>12. ASSUME NEW l \in D!Load, D!Loaded(l) PROVE Fresh'
    <2>1. Fresh /\ UNCHANGED <<discovered, deletes, own, loads, list, adopts, stale>>
      BY <1>5, <1>12 DEF D!Loaded, D!discovery
    <2>2. l = loads /\ D!Mine(l) /\ listings[l] # "ended"
      <3>1. listings[l] \in {"answered", "failed"}
        BY <1>12 DEF D!Loaded
      <3>2. l = loads
        BY <2>1, <3>1 DEF Fresh, D!LoadsUnderWay
      <3> QED
        BY <2>1, <3>1, <3>2 DEF Fresh, D!Mine
    <2>3. listings' = [listings EXCEPT ![loads] = "ended"]
      BY <1>12, <2>2 DEF D!Loaded
    <2>4. D!LoadsUnderWay' \subseteq {loads}
      BY <2>1, <2>3 DEF Fresh, D!LoadsUnderWay, DiscoveryTypes
    <2>5. rows = {} /\ \A d \in Device : adopts[<<d, loads>>] = "none"
      <3>1. \A d \in Device : <<d, loads>> \in D!Row /\ <<d, loads>>[2] = loads
        BY <2>2 DEF D!Row
      <3> QED
        BY <2>1, <2>2, <3>1 DEF Fresh, DiscoveryLoads
    <2>6. CASE listings[l] = "failed"
      <3>1. view' = "error" /\ rows' = {}
        BY <1>12, <2>2, <2>5, <2>6 DEF D!Loaded
      <3>2. \A r \in D!Row : adopts[r] \in {"none", "ended"}
        BY <2>1, <2>5 DEF Fresh
      <3> QED
        BY <2>1, <2>2, <2>3, <2>4, <3>1, <3>2 DEF Fresh, DiscoveryTypes
    <2>7. CASE listings[l] = "answered"
      <3>1. rows' = discovered \X {loads} /\ discovered # None /\ discovered \in SUBSET Device
        BY <1>12, <2>1, <2>2, <2>5, <2>7 DEF D!Loaded, Fresh, DiscoveryTypes
      <3>2. \A r \in rows' : r[1] \in discovered /\ r[2] = loads /\ adopts[r] = "none"
        BY <3>1, <2>5
      <3>3. \A d \in discovered : <<d, loads>> \in rows'
        BY <3>1
      <3>4. Filled'
        BY <2>1, <3>1, <3>2, <3>3 DEF Filled
      <3>5. \A r \in D!Row : adopts[r] \in {"none", "ended"}
        BY <2>1, <2>5 DEF Fresh
      <3> QED
        BY <2>1, <2>2, <2>3, <2>4, <3>4, <3>5 DEF Fresh, DiscoveryTypes
    <2> QED
      BY <1>12, <2>6, <2>7 DEF D!Loaded
  <1>13. ASSUME NEW l \in D!Load, D!Get(l) PROVE Fresh'
    <2>1. Fresh /\ UNCHANGED <<discovered, deletes, own, loads, rows, adopts, stale, view>>
      BY <1>5, <1>13 DEF D!Get
    <2>2. l = loads /\ listings[l] = "asked"
      BY <1>13, <2>1 DEF D!Get, Fresh, D!LoadsUnderWay
    <2>3. \/ /\ listings' = [listings EXCEPT ![loads] = "answered"] /\ list'[loads] = discovered
             /\ discovered # None
          \/ \E s \in {"first", "failed", "waiting"} : listings' = [listings EXCEPT ![loads] = s]
      BY <1>13, <2>2 DEF D!Get, DiscoveryTypes
    <2>4. D!LoadsUnderWay' \subseteq {loads}
      BY <2>1, <2>3 DEF Fresh, D!LoadsUnderWay, DiscoveryTypes
    <2> QED
      BY <2>1, <2>2, <2>3, <2>4 DEF Fresh, DiscoveryTypes
  <1>14. ASSUME NEW found \in SUBSET near, D!Discovered(found) PROVE Fresh'
    <2>1. Fresh /\ loads \in D!Load /\ UNCHANGED <<deletes, own, loads, rows, adopts, stale, view>>
      BY <1>5, <1>14 DEF D!Discovered
    <2>2. discovered = None /\ discovered' = found /\ found # None
      BY <1>14, FiniteDevice DEF D!Discovered, DiscoveryServer, Busy, DiscoveryTypes
    <2>3. \A l \in D!Load : IF listings[l] \in {"first", "waiting"} THEN listings'[l] = "answered" /\ list'[l] = found
                            ELSE listings'[l] = listings[l]
      BY <1>14 DEF D!Discovered, D!Answers
    <2>4. D!LoadsUnderWay' \subseteq {loads}
      BY <2>1, <2>3 DEF Fresh, D!LoadsUnderWay
    <2>5. listings[loads] # "answered" /\ (listings[loads] = "ended" => view = "error")
      BY <2>1, <2>2 DEF Fresh, Filled
    <2> QED
      BY <2>1, <2>2, <2>3, <2>4, <2>5 DEF Fresh
  <1>15. ASSUME NEW x \in D!Origin, D!Finish(x) \/ D!Stopped(x) PROVE Fresh'
    BY <1>5, <1>15 DEF D!Finish, D!Stopped, Fresh
  \* An adoption changes what its row is, and what has been discovered by no more than its device.
  <1>16. ASSUME NEW r \in D!Row, r \in rows, UNCHANGED <<deletes, own, loads, listings, list, stale, view>>,
                \/ rows' = rows \ {r} /\ adopts[r] = "configured" /\ discovered' = discovered
                   /\ adopts' = [adopts EXCEPT ![r] = "ended"]
                \/ rows' = rows /\ discovered # None /\ discovered' = discovered \ {r[1]}
                   /\ adopts' = [adopts EXCEPT ![r] = "connecting"]
                \/ rows' = rows /\ discovered' = discovered
                   /\ \E s \in {"asked", "configuring"} :
                        adopts[r] \in {"none", "asked"} /\ adopts' = [adopts EXCEPT ![r] = s]
                \/ rows' = rows /\ discovered' = discovered /\ adopts' = [adopts EXCEPT ![r] = "failed"]
                \/ rows' = rows /\ discovered' = discovered
                   /\ adopts[r] = "connecting" /\ adopts' = [adopts EXCEPT ![r] = "configured"]
         PROVE  Fresh'
    <2>1. Fresh /\ listings[loads] = "ended"
      BY <1>5, <1>16 DEF Fresh
    <2>2. \A q \in D!Row : q # r => adopts'[q] = adopts[q] /\ (q \in rows' <=> q \in rows)
      BY <1>16 DEF DiscoveryTypes
    <2>3. adopts'[r] \notin {"none", "ended"} => r \in rows'
      BY <1>16 DEF DiscoveryTypes
    <2>4. ASSUME Filled PROVE Filled'
      <3>1. \A q \in rows : q \in D!Row /\ q = <<q[1], loads>>
        BY <2>4 DEF Filled, DiscoveryTypes, D!Row
      <3>2. rows' \subseteq rows /\ discovered' # None
        BY <1>16, <2>4, FiniteDevice DEF Filled, DiscoveryTypes
      <3>3. \A q \in rows : q # r => q[1] # r[1]
        BY <3>1, <1>16
      <3>4. \A d \in discovered' : d \in discovered /\ (d = r[1] => r \in rows')
        BY <1>16, <2>4 DEF Filled
      <3>5. \A d \in discovered' : <<d, loads>> \in rows'
        <4> TAKE d \in discovered'
        <4>1. <<d, loads>> \in rows /\ <<d, loads>>[1] = d
          BY <3>4, <2>4 DEF Filled
        <4> QED
          BY <3>1, <3>4, <4>1, <2>2
      <3>6. \A d \in Device : d # r[1] => (d \in discovered' <=> d \in discovered)
        BY <1>16
      <3>7. ASSUME NEW q \in rows', q # r
            PROVE  /\ q[1] \in discovered' \/ adopts'[q] \in {"connecting", "configured", "failed"}
                   /\ adopts'[q] \in {"connecting", "configured"} => q[1] \notin discovered'
        <4>1. q \in rows /\ q \in D!Row /\ q[1] # r[1] /\ q[1] \in Device /\ adopts'[q] = adopts[q]
          BY <3>1, <3>2, <3>3, <3>7, <2>2 DEF D!Row
        <4> QED
          BY <4>1, <3>6, <2>4 DEF Filled
      <3>8. ASSUME r \in rows'
            PROVE  /\ r[1] \in discovered' \/ adopts'[r] \in {"connecting", "configured", "failed"}
                   /\ adopts'[r] \in {"connecting", "configured"} => r[1] \notin discovered'
        BY <3>8, <1>16, <2>4 DEF Filled, DiscoveryTypes
      <3>9. \A q \in rows' : q[2] = loads
        BY <3>2, <2>4 DEF Filled
      <3> QED
        BY <1>16, <3>2, <3>5, <3>7, <3>8, <3>9 DEF Filled
    <2>5. D!LoadsUnderWay' = D!LoadsUnderWay
      BY <1>16 DEF D!LoadsUnderWay
    <2> QED
      BY <1>16, <2>1, <2>2, <2>3, <2>4, <2>5 DEF Fresh
  <1>17. ASSUME NEW r \in D!Row, D!Adopt(r) PROVE Fresh'
    BY <1>16, <1>17 DEF D!Adopt, D!discovery, D!loading
  <1>18. ASSUME NEW r \in D!Row, adopts[r] \notin {"none", "ended"}, own' = own, stale' = stale PROVE r \in rows
    BY <1>5, <1>18 DEF Fresh
  <1>19. ASSUME NEW r \in D!Row, D!Configure(r) PROVE Fresh'
    BY <1>16, <1>18, <1>19 DEF D!Configure, D!discovery, D!loading
  <1>20. ASSUME NEW r \in D!Row, D!ConfigureFails(r) PROVE Fresh'
    BY <1>16, <1>18, <1>20 DEF D!ConfigureFails, D!discovery, D!loading
  <1>21. ASSUME NEW r \in D!Row, D!Connected(r) PROVE Fresh'
    BY <1>16, <1>18, <1>21 DEF D!Connected, D!discovery, D!loading
  <1>22. ASSUME NEW r \in D!Row, D!Configured(r) PROVE Fresh'
    BY <1>16, <1>18, <1>22 DEF D!Configured, D!loading
  <1>23. ASSUME NEW r \in D!Row, D!AdoptEnds(r) PROVE Fresh'
    BY <1>16, <1>18, <1>23 DEF D!AdoptEnds, D!discovery, D!loading
  <1>24. CASE UNCHANGED D!dvars
    BY <1>6, <1>24 DEF D!dvars, D!discovery, D!loading
  <1> QED
    BY <1>1, <1>2, <1>3, <1>4, <1>7, <1>8, <1>9, <1>10, <1>11, <1>12, <1>13, <1>14, <1>15, <1>17, <1>19, <1>20,
       <1>21, <1>22, <1>23, <1>24 DEF D!Next

\* The table of discovered devices lists what can be adopted, shows no progress once its calls have ended, and
\* the access point does not go on for ever, whatever is finished, refreshed, closed and adopted meanwhile
\* (discovered-devices-table.js, apclients.py).
THEOREM DiscoveryCorrect == D!Spec => []DiscoveryTells
  <1>1. D!Init => DiscoveryInv
    BY DiscoveryInit
  <1>2. DiscoveryInv /\ [D!Next]_(D!dvars) => DiscoveryInv'
    BY DiscoveryTypesStep, DiscoveryServerStep, DiscoveryLoadsStep, DiscoveryFreshStep DEF DiscoveryInv
  <1>3. DiscoveryInv => DiscoveryTells
    BY DiscoveryAgrees
  <1> QED
    BY <1>1, <1>2, <1>3, PTL DEF D!Spec

(* ----------------------------- peripherals ------------------------------ *)

Registries == [Id -> Config \cup {None}]

Kinds == {"none", "post", "patch", "light", "delete", "undone"}

CallStages == {"none", "sent", "adding", "removing", "restoring", "add", "ports", "update", "remove",
               "done", "refused"}

CallRecs == [kind : Kinds, id : Id \cup {None}, to : Id \cup {None}, conf : Config \cup {None},
             stage : CallStages, from : Nat]

\* What a call of each kind is about, and the stages it passes.
CallFits(k) ==
    /\ k.stage # "none" => /\ k.id \in Id /\ k.to \in Id
                           /\ k.kind # "delete" => k.conf \in Config
    /\ k.kind \in {"post", "light", "delete", "undone"} => k.to = k.id
    /\ k.stage = "adding" => k.kind \in {"post", "patch"}
    /\ k.stage = "restoring" => k.kind = "patch"
    /\ k.stage = "add" => k.kind = "post"
    /\ k.stage = "ports" => k.kind \in {"post", "patch"}
    /\ k.stage = "update" => k.kind \in {"patch", "light"}
    /\ k.stage = "remove" => k.kind \in {"delete", "undone"}
    /\ k.stage = "removing" => k.kind \in {"patch", "delete"}

EventRecs == [type : {"add", "remove", "update"}, id : Id, conf : Config \cup {None}]

FormRecs == [id : Id, state : {"loading", "ready", "error"}, data : Config \cup {None}, edited : BOOLEAN]

GetRecs == [stage : {"asked", "served", "overtaken"}, answer : Registries \cup {None}]

ServerTypes ==
    /\ registry \in Registries
    /\ call \in [P!Who -> CallRecs]
    /\ \A w \in P!Who : CallFits(call[w]) /\ (call[w].stage = "none" <=> call[w] = P!NoCall)
    /\ events \in Seq(EventRecs)
    /\ \A i \in DOMAIN events : (events[i].type = "remove" <=> events[i].conf = None)

PeripheralListTypes ==
    /\ items \in Registries /\ due \in BOOLEAN /\ untold \in BOOLEAN
    /\ gets \in Seq(GetRecs)
    /\ \A i \in DOMAIN gets : gets[i].stage # "asked" => gets[i].answer \in Registries

\* The open form is the one opened last, and the page's call knows which form sent it.
PeripheralFormTypes ==
    /\ opens \in Nat /\ formUnheard \in BOOLEAN
    /\ formGet = [stage |-> formGet.stage, answer |-> formGet.answer]
    /\ formGet.stage \in {"none", "asked", "answered"}
    /\ formGet.stage = "none" <=> formGet = P!NoGet
    /\ formGet.stage = "answered" => formGet.answer \in Registries
    /\ form # None => form \in FormRecs
    /\ formGet.stage # "none" => form \in FormRecs /\ form.state = "loading"
    /\ form # None /\ form.state = "ready" => form.data \in Config
    /\ call["page"].from <= opens
    /\ formGet.stage # "none" /\ call["page"].from = opens => call["page"].kind \notin {"patch", "light", "delete"}
    /\ P!Own("page") /\ call["page"].kind \in {"patch", "light", "delete"} =>
          form.id = call["page"].id /\ form.state = "ready"

\* What POST, PATCH and DELETE are sent with: those of the page's form, but for POST, are about its
\* peripheral, and have what it shows.
Sends(w) ==
    \E way \in {"post", "patch", "light", "delete"}, id \in Id, to \in Id, c \in Config \cup {None} :
       /\ P!Send(w, way, id, to, c)
       /\ way # "patch" => to = id
       /\ way # "delete" => c \in Config
       /\ w = "page" /\ way # "post" =>
             form # None /\ form.state = "ready" /\ form.id = id /\ (way # "delete" => c = form.data)

LEMMA Whose == P!Who = {"page", "others"} /\ None \notin Id \cup Config
  BY SectionsAssumption DEF P!Who

LEMMA PeripheralsActions ==
  ASSUME ServerTypes, PeripheralFormTypes, P!Next
  PROVE  \/ \E w \in P!Who : \/ Sends(w)
                             \/ P!Begin(w) \/ P!TakeOut(w) \/ P!Register(w) \/ P!Restore(w)
                             \/ P!InitPorts(w) \/ P!InitPortsFails(w) \/ P!Announced(w)
         \/ P!UpdateUI
         \/ \E i \in DOMAIN gets : P!ServeGet(i) \/ P!GotList(i) \/ P!GetFails(i)
         \/ \E id \in Id : P!OpenForm(id)
         \/ P!Answered
         \/ P!ServeFormGet \/ P!Load \/ P!CloseForm
         \/ \E c \in Config : P!Edit(c)
         \/ P!OnServerEvent
  <1>1. ASSUME NEW id \in Id, NEW to \in Id, NEW c \in Config, P!Others(id, to, c)
        PROVE  Sends("others")
    BY <1>1 DEF P!Others, Sends
  <1>2. ASSUME NEW id \in Id, NEW c \in Config, P!Add(id, c)
        PROVE  Sends("page")
    BY <1>2 DEF P!Add, Sends
  <1>3. ASSUME NEW to \in Id, P!Apply(to)
        PROVE  Sends("page")
    <2>1. form.id \in Id /\ form.data \in Config
      BY <1>3 DEF P!Apply, PeripheralFormTypes, FormRecs
    <2> QED
      BY <1>3, <2>1 DEF P!Apply, Sends
  <1>4. ASSUME P!ConfirmRemove
        PROVE  Sends("page")
    <2>1. form.id \in Id
      BY <1>4 DEF P!ConfirmRemove, PeripheralFormTypes, FormRecs
    <2> QED
      BY <1>4, <2>1 DEF P!ConfirmRemove, Sends
  <1> QED
    BY <1>1, <1>2, <1>3, <1>4, Whose DEF P!Next

\* A call that goes on to a stage that is answered or not.
LEMMA Staged ==
  ASSUME ServerTypes, NEW w \in P!Who, NEW st \in CallStages, P!Stage(w, st)
  PROVE  /\ call' \in [P!Who -> CallRecs]
         /\ \A v \in P!Who : v # w => call'[v] = call[v]
         /\ \/ call'[w] = P!NoCall /\ w = "others" /\ st \in {"done", "refused"}
            \/ call'[w] = [kind |-> call[w].kind, id |-> call[w].id, to |-> call[w].to, conf |-> call[w].conf,
                           stage |-> st, from |-> call[w].from]
  <1>1. P!NoCall \in CallRecs
    BY DEF P!NoCall, CallRecs, Kinds, CallStages
  <1>2. call[w] \in CallRecs
    BY DEF ServerTypes
  <1>3. [call[w] EXCEPT !.stage = st]
        = [kind |-> call[w].kind, id |-> call[w].id, to |-> call[w].to, conf |-> call[w].conf,
           stage |-> st, from |-> call[w].from]
    BY <1>2 DEF CallRecs
  <1>4. [call[w] EXCEPT !.stage = st] \in CallRecs
    BY <1>2, <1>3 DEF CallRecs
  <1> QED
    BY <1>1, <1>3, <1>4 DEF P!Stage, ServerTypes

\* So a call that goes on keeps fitting.
LEMMA StagedFits ==
  ASSUME ServerTypes, NEW w \in P!Who, NEW st \in CallStages \ {"none"}, P!Stage(w, st),
         call[w].stage # "none",
         CallFits([kind |-> call[w].kind, id |-> call[w].id, to |-> call[w].to, conf |-> call[w].conf,
                   stage |-> st, from |-> call[w].from])
  PROVE  \A v \in P!Who : CallFits(call'[v]) /\ (call'[v].stage = "none" <=> call'[v] = P!NoCall)
  <1>1. CallFits(P!NoCall) /\ P!NoCall.stage = "none"
    BY DEF P!NoCall, CallFits
  <1>2. \A v \in P!Who : v # w => call'[v] = call[v]
    BY Staged
  <1>3. CallFits(call'[w]) /\ (call'[w].stage = "none" <=> call'[w] = P!NoCall)
    <2>1. CASE call'[w] = P!NoCall
      BY <2>1, <1>1
    <2>2. CASE call'[w] = [kind |-> call[w].kind, id |-> call[w].id, to |-> call[w].to, conf |-> call[w].conf,
                           stage |-> st, from |-> call[w].from]
      <3>1. CallFits(call'[w])
        BY <2>2
      <3>2. call'[w].stage = st
        BY <2>2
      <3> QED
        BY <3>1, <3>2, <1>1
    <2> QED
      BY <2>1, <2>2, Staged
  <1> QED
    BY <1>2, <1>3 DEF ServerTypes

\* A call whose record is replaced by another that fits.
LEMMA ReplacedFits ==
  ASSUME ServerTypes, NEW w \in P!Who, NEW k, k \in CallRecs, CallFits(k), k.stage # "none",
         call' = [call EXCEPT ![w] = k]
  PROVE  /\ call' \in [P!Who -> CallRecs] /\ call'[w] = k
         /\ \A v \in P!Who : v # w => call'[v] = call[v]
         /\ \A v \in P!Who : CallFits(call'[v]) /\ (call'[v].stage = "none" <=> call'[v] = P!NoCall)
  <1>1. P!NoCall.stage = "none"
    BY DEF P!NoCall
  <1> QED
    BY <1>1 DEF ServerTypes

LEMMA ServerTypesStep ==
  ASSUME ServerTypes, PeripheralFormTypes, [P!Next]_(P!pvars)
  PROVE  ServerTypes'
  <1> USE Whose DEF P!server, P!list, P!forms
  <1>0. \A w \in P!Who : call[w] \in CallRecs
    BY DEF ServerTypes
  <1>1. ASSUME NEW w \in P!Who, Sends(w) PROVE ServerTypes'
    <2>1. PICK way \in {"post", "patch", "light", "delete"}, id \in Id, to \in Id, c \in Config \cup {None} :
             /\ P!Send(w, way, id, to, c)
             /\ way # "patch" => to = id
             /\ way # "delete" => c \in Config
      BY <1>1 DEF Sends
    <2> DEFINE k == [kind |-> way, id |-> id, to |-> to, conf |-> c, stage |-> "sent",
                     from |-> IF w = "page" THEN opens ELSE 0]
    <2>2. k \in CallRecs /\ CallFits(k) /\ k.stage # "none"
      BY <2>1 DEF CallRecs, CallFits, PeripheralFormTypes, Kinds, CallStages
    <2>3. call' = [call EXCEPT ![w] = k] /\ UNCHANGED <<registry, events>>
      BY <2>1 DEF P!Send
    <2> HIDE DEF k
    <2> QED
      BY <2>2, <2>3, ReplacedFits DEF ServerTypes
  <1>2. ASSUME NEW w \in P!Who, P!Begin(w) PROVE ServerTypes'
    <2>1. call[w].stage = "sent" /\ UNCHANGED events
      BY <1>2 DEF P!Begin
    <2>2. CASE call[w].kind # "light" \/ ~P!Has(call[w].id)
      <3>1. PICK st \in {"refused", "adding", "removing"} :
              /\ P!Stage(w, st) /\ UNCHANGED registry
              /\ st = "adding" => call[w].kind = "post"
              /\ st = "removing" => call[w].kind \in {"patch", "delete"}
        BY <1>2, <2>2 DEF P!Begin
      <3>2. CallFits(call[w])
        BY DEF ServerTypes
      <3>3. CallFits([kind |-> call[w].kind, id |-> call[w].id, to |-> call[w].to, conf |-> call[w].conf,
                      stage |-> st, from |-> call[w].from])
        BY <2>1, <3>1, <3>2 DEF CallFits
      <3> QED
        BY <2>1, <3>1, <3>3, Staged, StagedFits DEF ServerTypes, CallStages
    <2>3. CASE call[w].kind = "light" /\ P!Has(call[w].id)
      <3> DEFINE Upd(v) == IF v = w THEN [call[w] EXCEPT !.stage = "update"]
                           ELSE IF P!ToldOf(v, call[w].id) THEN [call[v] EXCEPT !.conf = call[w].conf]
                           ELSE call[v]
      <3>1. P!Set(call[w].id, call[w].conf) /\ call' = [v \in P!Who |-> Upd(v)]
        BY <1>2, <2>3 DEF P!Begin
      <3>2. call[w].conf \in Config /\ call[w].id \in Id
        BY <2>1, <2>3 DEF ServerTypes, CallFits
      <3>3. \A v \in P!Who : Upd(v) \in CallRecs /\ CallFits(Upd(v)) /\ (Upd(v).stage = "none" <=> Upd(v) = P!NoCall)
        <4> TAKE v \in P!Who
        <4>1. call[v] \in CallRecs /\ CallFits(call[v]) /\ (call[v].stage = "none" <=> call[v] = P!NoCall)
          BY DEF ServerTypes
        <4>2. CASE v = w
          <5>1. Upd(v) = [kind |-> call[w].kind, id |-> call[w].id, to |-> call[w].to, conf |-> call[w].conf,
                          stage |-> "update", from |-> call[w].from]
            BY <4>1, <4>2 DEF CallRecs
          <5>2. Upd(v) \in CallRecs /\ CallFits(Upd(v))
            BY <4>1, <4>2, <5>1, <2>1, <2>3 DEF CallRecs, CallFits, CallStages
          <5> QED
            BY <5>1, <5>2 DEF P!NoCall
        <4>3. CASE v # w /\ P!ToldOf(v, call[w].id)
          <5>1. Upd(v) = [kind |-> call[v].kind, id |-> call[v].id, to |-> call[v].to, conf |-> call[w].conf,
                          stage |-> call[v].stage, from |-> call[v].from]
            BY <4>1, <4>3 DEF CallRecs
          <5>2. call[v].stage # "none"
            BY <4>3 DEF P!ToldOf
          <5>3. Upd(v) \in CallRecs
            BY <4>1, <5>1, <3>2 DEF CallRecs
          <5>4. CallFits(Upd(v))
            BY <4>1, <5>1, <5>2, <3>2 DEF CallFits
          <5> QED
            BY <5>1, <5>2, <5>3, <5>4 DEF P!NoCall
        <4>4. CASE v # w /\ ~P!ToldOf(v, call[w].id)
          BY <4>1, <4>4
        <4> QED
          BY <4>2, <4>3, <4>4
      <3>4. registry' \in Registries
        BY <3>1, <3>2 DEF P!Set, ServerTypes, Registries
      <3> HIDE DEF Upd
      <3>5. call' \in [P!Who -> CallRecs] /\ \A v \in P!Who : call'[v] = Upd(v)
        BY <3>1, <3>3
      <3> QED
        BY <2>1, <3>3, <3>4, <3>5 DEF ServerTypes
    <2> QED
      BY <2>2, <2>3
  <1>3. ASSUME NEW w \in P!Who, P!TakeOut(w) PROVE ServerTypes'
    <2>1. call[w].stage = "removing" /\ UNCHANGED events /\ CallFits(call[w]) /\ call[w].id \in Id
      BY <1>3 DEF P!TakeOut, ServerTypes, CallFits
    <2>2. ASSUME NEW st \in {"refused", "remove", "adding"}, P!Stage(w, st), registry' \in Registries,
                 st = "remove" => call[w].kind = "delete", st = "adding" => call[w].kind = "patch"
          PROVE  ServerTypes'
      <3>1. CallFits([kind |-> call[w].kind, id |-> call[w].id, to |-> call[w].to, conf |-> call[w].conf,
                      stage |-> st, from |-> call[w].from])
        BY <2>1, <2>2 DEF CallFits
      <3> QED
        BY <2>1, <2>2, <3>1, Staged, StagedFits DEF ServerTypes, CallStages
    <2>3. CASE ~P!Has(call[w].id)
      BY <1>3, <2>2, <2>3 DEF P!TakeOut, ServerTypes
    <2>4. CASE P!Has(call[w].id)
      <3>1. registry' \in Registries
        BY <1>3, <2>4, <2>1 DEF P!TakeOut, P!Set, ServerTypes, Registries
      <3>2. \/ call[w].kind = "delete" /\ P!Stage(w, "remove")
            \/ call[w].kind = "patch" /\ P!Stage(w, "adding")
            \/ call[w].kind = "patch" /\ call' = [call EXCEPT ![w].to = call[w].id, ![w].conf = registry[call[w].id],
                                                             ![w].stage = "restoring"]
        BY <1>3, <2>4 DEF P!TakeOut
      <3>3. CASE call[w].kind = "patch" /\ call' = [call EXCEPT ![w].to = call[w].id, ![w].conf = registry[call[w].id],
                                                             ![w].stage = "restoring"]
        <4> DEFINE k == [kind |-> call[w].kind, id |-> call[w].id, to |-> call[w].id, conf |-> registry[call[w].id],
                         stage |-> "restoring", from |-> call[w].from]
        <4>1. registry[call[w].id] \in Config
          BY <2>1, <2>4 DEF P!Has, ServerTypes, Registries
        <4>2. k \in CallRecs /\ CallFits(k) /\ k.stage # "none"
          BY <2>1, <3>3, <4>1, <1>0 DEF CallRecs, CallFits, CallStages
        <4>3. call' = [call EXCEPT ![w] = k]
          <5>1. /\ call' \in [P!Who -> CallRecs] /\ call'[w] = k
                /\ \A v \in P!Who \ {w} : call'[v] = call[v]
            <6>1. call'[w] = k
              <7>1. w \in DOMAIN call /\ call[w] \in CallRecs
                BY <1>0 DEF ServerTypes
              <7> QED
                BY <7>1, <3>3 DEF CallRecs
            <6>3. DOMAIN call' = P!Who /\ \A v \in P!Who \ {w} : call'[v] = call[v]
              BY <3>3 DEF ServerTypes
            <6>4. call' = [v \in P!Who |-> call'[v]]
              BY <3>3 DEF ServerTypes
            <6> QED
              BY <4>2, <6>1, <6>3, <6>4 DEF ServerTypes
          <5>2. [call EXCEPT ![w] = k] \in [P!Who -> CallRecs]
            BY <4>2 DEF ServerTypes
          <5> QED
            BY <5>1, <5>2 DEF ServerTypes
        <4> HIDE DEF k
        <4> QED
          BY <2>1, <3>1, <4>2, <4>3, ReplacedFits DEF ServerTypes
      <3> QED
        BY <2>2, <3>1, <3>2, <3>3
    <2> QED
      BY <2>3, <2>4
  <1>4. ASSUME NEW w \in P!Who, P!Register(w) PROVE ServerTypes'
    <2>1. call[w].stage = "adding" /\ UNCHANGED events /\ CallFits(call[w]) /\ call[w].to \in Id
          /\ call[w].conf \in Config
      BY <1>4 DEF P!Register, ServerTypes, CallFits
    <2>2. registry' \in Registries
      BY <1>4, <2>1 DEF P!Register, P!Set, ServerTypes, Registries
    <2>3. PICK st \in {"add", "ports"} : P!Stage(w, st) /\ (st = "add" <=> call[w].kind = "post")
      BY <1>4 DEF P!Register
    <2>4. CallFits([kind |-> call[w].kind, id |-> call[w].id, to |-> call[w].to, conf |-> call[w].conf,
                    stage |-> st, from |-> call[w].from])
      BY <2>1, <2>3 DEF CallFits
    <2> QED
      BY <2>1, <2>2, <2>3, <2>4, Staged, StagedFits DEF ServerTypes, CallStages
  <1>5. ASSUME NEW w \in P!Who, P!Restore(w) PROVE ServerTypes'
    <2>1. call[w].stage = "restoring" /\ UNCHANGED events /\ CallFits(call[w]) /\ call[w].to \in Id
          /\ call[w].conf \in Config /\ P!Stage(w, "refused")
      BY <1>5 DEF P!Restore, ServerTypes, CallFits
    <2>2. registry' \in Registries
      BY <1>5, <2>1 DEF P!Restore, P!Set, ServerTypes, Registries
    <2>3. CallFits([kind |-> call[w].kind, id |-> call[w].id, to |-> call[w].to, conf |-> call[w].conf,
                    stage |-> "refused", from |-> call[w].from])
      BY <2>1 DEF CallFits
    <2> QED
      BY <2>1, <2>2, <2>3, Staged, StagedFits DEF ServerTypes, CallStages
  <1>6. ASSUME NEW w \in P!Who, P!InitPorts(w) PROVE ServerTypes'
    <2>1. call[w].stage = "ports" /\ UNCHANGED <<events, registry>> /\ CallFits(call[w])
      BY <1>6 DEF P!InitPorts, ServerTypes
    <2>2. PICK st \in {"done", "update"} : P!Stage(w, st) /\ (st = "done" <=> call[w].kind = "post")
      BY <1>6 DEF P!InitPorts
    <2>3. CallFits([kind |-> call[w].kind, id |-> call[w].id, to |-> call[w].to, conf |-> call[w].conf,
                    stage |-> st, from |-> call[w].from])
      BY <2>1, <2>2 DEF CallFits
    <2> QED
      BY <2>1, <2>2, <2>3, Staged, StagedFits DEF ServerTypes, CallStages
  <1>7. ASSUME NEW w \in P!Who, P!InitPortsFails(w) PROVE ServerTypes'
    <2>1. call[w].stage = "ports" /\ UNCHANGED events /\ CallFits(call[w]) /\ call[w].to \in Id
          /\ call[w].conf \in Config
      BY <1>7 DEF P!InitPortsFails, ServerTypes, CallFits
    <2>2. CASE call[w].kind = "post"
      <3> DEFINE k == [kind |-> "undone", id |-> call[w].to, to |-> call[w].to, conf |-> call[w].conf,
                       stage |-> "remove", from |-> call[w].from]
      <3>1. k \in CallRecs /\ CallFits(k) /\ k.stage # "none"
        BY <2>1, <1>0 DEF CallRecs, CallFits, CallStages, Kinds
      <3>2. call' = [call EXCEPT ![w] = k]
        BY <1>7, <2>2, <1>0 DEF P!InitPortsFails, ServerTypes, CallRecs
      <3>3. registry' \in Registries
        BY <1>7, <2>1, <2>2 DEF P!InitPortsFails, P!Set, ServerTypes, Registries
      <3> HIDE DEF k
      <3> QED
        BY <2>1, <3>1, <3>2, <3>3, ReplacedFits DEF ServerTypes
    <2>3. CASE call[w].kind # "post"
      <3>1. P!Stage(w, "refused") /\ UNCHANGED registry
        BY <1>7, <2>3 DEF P!InitPortsFails
      <3>2. CallFits([kind |-> call[w].kind, id |-> call[w].id, to |-> call[w].to, conf |-> call[w].conf,
                      stage |-> "refused", from |-> call[w].from])
        BY <2>1 DEF CallFits
      <3> QED
        BY <2>1, <3>1, <3>2, Staged, StagedFits DEF ServerTypes, CallStages
    <2> QED
      BY <2>2, <2>3
  <1>8. ASSUME NEW w \in P!Who, P!Announced(w) PROVE ServerTypes'
    <2>1. CallFits(call[w]) /\ UNCHANGED registry /\ call[w].stage \in {"add", "remove", "update"}
      BY <1>8 DEF P!Announced, P!Announce, ServerTypes
    <2>2. PICK st \in {"ports", "refused", "done"} : P!Stage(w, st) /\ (st = "ports" => call[w].stage = "add")
      BY <1>8 DEF P!Announced
    <2>3. CallFits([kind |-> call[w].kind, id |-> call[w].id, to |-> call[w].to, conf |-> call[w].conf,
                    stage |-> st, from |-> call[w].from])
      BY <2>1, <2>2 DEF CallFits
    <2>4. PICK e \in EventRecs : events' = Append(events, e) /\ (e.type = "remove" <=> e.conf = None)
      <3>1. call[w].id \in Id /\ call[w].to \in Id /\ (call[w].stage \in {"add", "update"} => call[w].conf \in Config)
        BY <2>1 DEF CallFits
      <3>2. CASE call[w].stage = "add"
        <4> DEFINE e == [type |-> "add", id |-> call[w].to, conf |-> call[w].conf]
        <4>1. e \in EventRecs /\ e.type # "remove" /\ e.conf # None
          BY <3>1, <3>2 DEF EventRecs
        <4> QED
          BY <4>1, <1>8, <3>2 DEF P!Announced, P!Announce, P!Trigger
      <3>3. CASE call[w].stage = "remove"
        <4> DEFINE e == [type |-> "remove", id |-> call[w].id, conf |-> None]
        <4>1. e \in EventRecs /\ e.type = "remove" /\ e.conf = None
          BY <3>1, <3>3 DEF EventRecs
        <4> QED
          BY <4>1, <1>8, <3>3 DEF P!Announced, P!Announce, P!Trigger
      <3>4. CASE call[w].stage = "update"
        <4> DEFINE e == [type |-> "update", id |-> call[w].to, conf |-> call[w].conf]
        <4>1. e \in EventRecs /\ e.type # "remove" /\ e.conf # None
          BY <3>1, <3>4 DEF EventRecs
        <4> QED
          BY <4>1, <1>8, <3>4 DEF P!Announced, P!Announce, P!Trigger
      <3> QED
        BY <2>1, <3>2, <3>3, <3>4
    <2>5. events' \in Seq(EventRecs) /\ \A i \in DOMAIN events' : (events'[i].type = "remove" <=> events'[i].conf = None)
      BY <2>4 DEF ServerTypes
    <2>6. call' \in [P!Who -> CallRecs] /\ \A v \in P!Who : CallFits(call'[v]) /\ (call'[v].stage = "none" <=> call'[v] = P!NoCall)
      BY <2>1, <2>2, <2>3, Staged, StagedFits DEF CallStages
    <2> QED
      BY <2>1, <2>5, <2>6 DEF ServerTypes
  <1>9. CASE P!Answered
    <2>1. P!NoCall \in CallRecs /\ CallFits(P!NoCall) /\ P!NoCall.stage = "none"
      BY DEF P!NoCall, CallRecs, Kinds, CallStages, CallFits
    <2> QED
      BY <1>9, <2>1 DEF P!Answered, ServerTypes
  <1>10. CASE P!OnServerEvent
    <2>1. events' = Tail(events) /\ events # <<>> /\ UNCHANGED <<registry, call>>
      BY <1>10 DEF P!OnServerEvent
    <2>2. events' \in Seq(EventRecs) /\ \A i \in DOMAIN events' : i + 1 \in DOMAIN events /\ events'[i] = events[i + 1]
      BY <2>1, HeadTailProperties DEF ServerTypes
    <2> QED
      BY <2>1, <2>2 DEF ServerTypes
  <1>11. CASE \/ P!UpdateUI
              \/ \E i \in DOMAIN gets : P!ServeGet(i) \/ P!GotList(i) \/ P!GetFails(i)
              \/ \E id \in Id : P!OpenForm(id)
              \/ P!ServeFormGet \/ P!Load \/ P!CloseForm
              \/ \E c \in Config : P!Edit(c)
              \/ UNCHANGED P!pvars
    <2>1. UNCHANGED <<registry, call, events>>
      BY <1>11 DEF P!UpdateUI, P!ServeGet, P!GotList, P!GetFails, P!OpenForm, P!ServeFormGet, P!Load, P!CloseForm,
           P!Edit, P!pvars
    <2> QED
      BY <2>1 DEF ServerTypes
  <1> QED
    BY <1>1, <1>2, <1>3, <1>4, <1>5, <1>6, <1>7, <1>8, <1>9, <1>10, <1>11, PeripheralsActions

\* A list asked for that is no longer awaited leaves the others in their order.
LEMMA GetRemoved ==
    ASSUME NEW S, NEW s \in Seq(S), NEW i \in 1..Len(s)
    PROVE  /\ P!RemoveAt(s, i) \in Seq(S)
             /\ Len(P!RemoveAt(s, i)) = Len(s) - 1
             /\ \A j \in 1..(Len(s) - 1) :
                   P!RemoveAt(s, i)[j] = IF j < i THEN s[j] ELSE s[j + 1]
  <1> DEFINE u == SubSeq(s, 1, i - 1)
              v == SubSeq(s, i + 1, Len(s))
  <1>1. Len(s) \in Nat /\ \A k \in 1..Len(s) : s[k] \in S
    BY ElementOfSeq, LenProperties
  <1>2. /\ u \in Seq(S)
        /\ Len(u) = i - 1
        /\ \A k \in 1..(i - 1) : u[k] = s[k]
    <2>1. 1 \in Int /\ i - 1 \in Int /\ \A k \in 1..(i - 1) : s[k] \in S
      BY <1>1
    <2>2. /\ u \in Seq(S)
          /\ Len(u) = IF 1 <= i - 1 THEN i - 1 - 1 + 1 ELSE 0
          /\ \A k \in 1..(i - 1 - 1 + 1) : u[k] = s[1 + k - 1]
      BY <2>1, SubSeqProperties
    <2> HIDE DEF u
    <2> QED
      BY <1>1, <2>2
  <1>3. /\ v \in Seq(S)
        /\ Len(v) = Len(s) - i
        /\ \A k \in 1..(Len(s) - i) : v[k] = s[i + k]
    <2>1. i + 1 \in Int /\ Len(s) \in Int /\ \A k \in (i + 1)..Len(s) : s[k] \in S
      BY <1>1
    <2>2. /\ v \in Seq(S)
          /\ Len(v) = IF i + 1 <= Len(s) THEN Len(s) - (i + 1) + 1 ELSE 0
          /\ \A k \in 1..(Len(s) - (i + 1) + 1) : v[k] = s[(i + 1) + k - 1]
      BY <2>1, SubSeqProperties
    <2> HIDE DEF v
    <2>3. /\ Len(s) - (i + 1) + 1 = Len(s) - i
          /\ \A k \in 1..(Len(s) - i) : (i + 1) + k - 1 = i + k
      BY <1>1
    <2>4. Len(v) = Len(s) - i
      <3>1. CASE i + 1 <= Len(s)
        BY <2>2, <2>3, <3>1, Zenon
      <3>2. CASE ~(i + 1 <= Len(s))
        <4>1. Len(s) - i = 0
          BY <1>1, <3>2
        <4> QED
          BY <2>2, <3>2, <4>1, Zenon
      <3> QED
        BY <3>1, <3>2
    <2>5. \A k \in 1..(Len(s) - i) : v[k] = s[i + k]
      BY <2>2, <2>3, Zenon
    <2> QED
      BY <2>2, <2>4, <2>5
  <1> HIDE DEF u, v
  <1>4. /\ u \o v \in Seq(S)
        /\ Len(u \o v) = Len(s) - 1
        /\ \A j \in 1..(Len(s) - 1) :
              (u \o v)[j] = IF j <= i - 1 THEN u[j] ELSE v[j - (i - 1)]
    <2>1. /\ u \o v \in Seq(S)
          /\ Len(u \o v) = Len(u) + Len(v)
          /\ \A j \in 1..(Len(u) + Len(v)) :
                (u \o v)[j] = IF j <= Len(u) THEN u[j] ELSE v[j - Len(u)]
      BY <1>2, <1>3, ConcatProperties
    <2>2. Len(u) + Len(v) = Len(s) - 1
      BY <1>1, <1>2, <1>3
    <2> QED
      BY <1>2, <2>1, <2>2, Zenon
  <1>5. \A j \in 1..(Len(s) - 1) : (u \o v)[j] = IF j < i THEN s[j] ELSE s[j + 1]
    <2> TAKE j \in 1..(Len(s) - 1)
    <2>1. CASE j < i
      BY <1>1, <1>2, <1>4, <2>1
    <2>2. CASE j >= i
      <3>1. j - (i - 1) \in 1..(Len(s) - i) /\ i + (j - (i - 1)) = j + 1
        BY <1>1, <2>2
      <3> QED
        BY <1>1, <1>3, <1>4, <2>2, <3>1
    <2>3. j < i \/ j >= i
      BY <1>1
    <2> QED
      BY <2>1, <2>2, <2>3
  <1> QED
    BY <1>4, <1>5 DEF P!RemoveAt, u, v

\* What will make the list ask again for what the server has by then: an event, or a call that is to trigger one.
Telling(k) ==
    \/ k.stage \in {"restoring", "remove", "add", "update"}
    \/ k.kind = "patch" /\ k.stage \in {"adding", "ports"}

ListDue ==
    \/ due \/ events # <<>>
    \/ \E w \in P!Who : Telling(call[w])
    \/ \E i \in DOMAIN gets : gets[i].stage = "asked"

\* What the list shows after the answers that it waits for, or now if those were overtaken, is `reg'.
Shows(gs, its, reg) ==
    /\ \A i \in DOMAIN gs : gs[i].stage = "served" /\ (\A j \in DOMAIN gs : j > i => gs[j].stage # "served")
                            => gs[i].answer = reg
    /\ (\A i \in DOMAIN gs : gs[i].stage # "served") => its = reg

PeripheralListInv ==
    /\ \A i \in DOMAIN gets : gets[i].stage = "asked" => \A j \in DOMAIN gets : j > i => gets[j].stage = "asked"
    /\ ~untold /\ ~ListDue => Shows(gets, items, registry)

\* No call changes what the server has without telling of it, or being about to.
LEMMA TellingStep ==
  ASSUME ServerTypes, NEW w \in P!Who,
         \/ Sends(w) \/ P!Begin(w) \/ P!TakeOut(w) \/ P!Register(w) \/ P!Restore(w)
         \/ P!InitPorts(w) \/ P!InitPortsFails(w) \/ P!Announced(w)
  PROVE  /\ UNCHANGED <<items, due, gets>>
         /\ UNCHANGED untold \/ untold' = TRUE
         /\ ~untold' /\ ListDue => ListDue'
         /\ registry' = registry \/ ListDue' \/ untold' = TRUE
  <1> USE Whose
  <1>0. \A v \in P!Who : call[v] \in CallRecs /\ CallFits(call[v])
    BY DEF ServerTypes
  <1>1. ASSUME UNCHANGED <<items, due, gets>>,
               \/ untold' = TRUE
               \/ /\ UNCHANGED untold
                  /\ registry' = registry \/ (\E v \in P!Who : Telling(call'[v]))
                  /\ \/ UNCHANGED events /\ (\A v \in P!Who : Telling(call[v]) => Telling(call'[v]))
                     \/ events' # <<>>
        PROVE  /\ UNCHANGED untold \/ untold' = TRUE
               /\ ~untold' /\ ListDue => ListDue'
               /\ registry' = registry \/ ListDue' \/ untold' = TRUE
    BY <1>1 DEF ListDue
  <1>2. CASE Sends(w)
    <2>1. UNCHANGED <<items, due, gets, untold, registry, events>> /\ call[w] = P!NoCall
          /\ \A v \in P!Who : v # w => call'[v] = call[v]
      BY <1>2 DEF Sends, P!Send, P!list, ServerTypes
    <2>2. ~Telling(call[w])
      BY <2>1 DEF P!NoCall, Telling
    <2> QED
      BY <2>1, <2>2, <1>1, Zenon
  <1>3. CASE P!Begin(w)
    <2>1. UNCHANGED <<items, due, gets, untold, events>> /\ call[w].stage = "sent"
      BY <1>3 DEF P!Begin, P!list
    <2>2. ~Telling(call[w])
      BY <2>1 DEF Telling
    <2>3. CASE call[w].kind # "light" \/ ~P!Has(call[w].id)
      <3>1. PICK st \in {"refused", "adding", "removing"} : P!Stage(w, st) /\ UNCHANGED registry
        BY <1>3, <2>3 DEF P!Begin
      <3>2. \A v \in P!Who : v # w => call'[v] = call[v]
        BY <3>1, Staged DEF CallStages
      <3> QED
        BY <2>1, <2>2, <3>1, <3>2, <1>1, Zenon
    <2>4. CASE call[w].kind = "light" /\ P!Has(call[w].id)
      <3>1. call' = [v \in P!Who |-> IF v = w THEN [call[w] EXCEPT !.stage = "update"]
                                     ELSE IF P!ToldOf(v, call[w].id) THEN [call[v] EXCEPT !.conf = call[w].conf]
                                     ELSE call[v]]
        BY <1>3, <2>4 DEF P!Begin
      <3>2. call'[w].stage = "update"
        BY <3>1, <1>0 DEF CallRecs
      <3>3. \A v \in P!Who : v # w => call'[v].stage = call[v].stage /\ call'[v].kind = call[v].kind
        BY <3>1, <1>0 DEF CallRecs
      <3>4. Telling(call'[w]) /\ \A v \in P!Who : Telling(call[v]) => Telling(call'[v])
        BY <2>2, <3>2, <3>3 DEF Telling
      <3> QED
        BY <2>1, <3>4, <1>1, Zenon
    <2> QED
      BY <2>3, <2>4
  <1>4. CASE P!TakeOut(w)
    <2>1. UNCHANGED <<items, due, gets, untold, events>> /\ call[w].stage = "removing"
      BY <1>4 DEF P!TakeOut, P!list
    <2>2. ~Telling(call[w])
      BY <2>1 DEF Telling
    <2>3. \A v \in P!Who : v # w => call'[v] = call[v]
      BY <1>4, Staged DEF P!TakeOut, CallStages, ServerTypes
    <2>4. registry' = registry \/ Telling(call'[w])
      <3>1. ASSUME call[w].kind = "delete", P!Stage(w, "remove") PROVE Telling(call'[w])
        BY <3>1, Staged DEF CallStages, Telling
      <3>2. ASSUME call[w].kind = "patch", P!Stage(w, "adding") PROVE Telling(call'[w])
        BY <3>2, Staged DEF CallStages, Telling
      <3>3. ASSUME call' = [call EXCEPT ![w].to = call[w].id, ![w].conf = registry[call[w].id],
                                        ![w].stage = "restoring"]
            PROVE  Telling(call'[w])
        <4>1. w \in DOMAIN call /\ call[w] \in CallRecs
          BY <1>0 DEF ServerTypes
        <4>2. call'[w].stage = "restoring"
          BY <3>3, <4>1 DEF CallRecs
        <4> QED
          BY <4>2 DEF Telling
      <3> QED
        BY <1>4, <3>1, <3>2, <3>3 DEF P!TakeOut
    <2> QED
      BY <2>1, <2>2, <2>3, <2>4, <1>1, Zenon
  <1>5. CASE P!Register(w)
    <2>1. UNCHANGED <<items, due, gets, untold, events>> /\ call[w].stage = "adding" /\ CallFits(call[w])
      BY <1>5, <1>0 DEF P!Register, P!list
    <2>2. PICK st \in {"add", "ports"} : P!Stage(w, st) /\ (st = "add" <=> call[w].kind = "post")
      BY <1>5 DEF P!Register
    <2>3. call'[w].stage = st /\ call'[w].kind = call[w].kind /\ \A v \in P!Who : v # w => call'[v] = call[v]
      BY <2>2, Staged DEF CallStages
    <2>4. Telling(call'[w])
      BY <2>1, <2>2, <2>3 DEF CallFits, Telling
    <2> QED
      BY <2>1, <2>3, <2>4, <1>1, Zenon
  <1>6. CASE P!Restore(w)
    BY <1>6, <1>1 DEF P!Restore, P!Unannounced, P!ListKept
  <1>7. CASE P!InitPorts(w)
    <2>1. UNCHANGED <<items, due, gets, untold, events, registry>> /\ call[w].stage = "ports" /\ CallFits(call[w])
      BY <1>7, <1>0 DEF P!InitPorts, P!list
    <2>2. PICK st \in {"done", "update"} : P!Stage(w, st) /\ (st = "done" <=> call[w].kind = "post")
      BY <1>7 DEF P!InitPorts
    <2>3. \A v \in P!Who : v # w => call'[v] = call[v]
      BY <2>2, Staged DEF CallStages
    <2>4. Telling(call[w]) => Telling(call'[w])
      BY <2>1, <2>2, Staged DEF CallStages, Telling
    <2> QED
      BY <2>1, <2>3, <2>4, <1>1, Zenon
  <1>8. CASE P!InitPortsFails(w)
    <2>1. UNCHANGED <<items, due, gets, events>> /\ call[w].stage = "ports"
      BY <1>8 DEF P!InitPortsFails, P!ListKept
    <2>2. CASE call[w].kind = "post"
      <3>1. UNCHANGED untold /\ call' = [call EXCEPT ![w].id = call[w].to, ![w].kind = "undone", ![w].stage = "remove"]
        BY <1>8, <2>2 DEF P!InitPortsFails
      <3>2. w \in DOMAIN call /\ call[w] \in CallRecs
        BY <1>0 DEF ServerTypes
      <3>3. call'[w].stage = "remove" /\ \A v \in P!Who : v # w => call'[v] = call[v]
        BY <3>1, <3>2 DEF CallRecs, ServerTypes
      <3>4. Telling(call'[w])
        BY <3>3 DEF Telling
      <3> QED
        BY <2>1, <3>1, <3>3, <3>4, <1>1, Zenon
    <2>3. CASE call[w].kind # "post"
      BY <1>8, <2>1, <2>3, <1>1 DEF P!InitPortsFails, P!Unannounced
    <2> QED
      BY <2>2, <2>3
  <1>9. CASE P!Announced(w)
    <2>1. UNCHANGED <<items, due, gets, untold, registry>>
      BY <1>9 DEF P!Announced, P!list
    <2>2. events' # <<>>
      BY <1>9 DEF P!Announced, P!Announce, P!Trigger, ServerTypes
    <2> QED
      BY <2>1, <2>2, <1>1, Zenon
  <1> QED
    BY <1>2, <1>3, <1>4, <1>5, <1>6, <1>7, <1>8, <1>9

LEMMA PeripheralListStep ==
  ASSUME ServerTypes, PeripheralFormTypes, PeripheralListTypes, PeripheralListInv, [P!Next]_(P!pvars)
  PROVE  PeripheralListTypes' /\ PeripheralListInv'
  <1> USE Whose DEF P!server, P!list, P!forms
  <1>0. \A w \in P!Who : call[w] \in CallRecs /\ CallFits(call[w])
    BY DEF ServerTypes
  \* What leaves the answers alone, and only adds reasons to ask again.
  <1>a. ASSUME UNCHANGED <<items, gets>>, due' \in BOOLEAN, untold' \in BOOLEAN,
               ~untold' => ~untold \/ ListDue', ~untold' /\ ListDue => ListDue',
               registry' = registry \/ ListDue' \/ untold'
        PROVE  PeripheralListTypes' /\ PeripheralListInv'
    <2>1. PeripheralListTypes'
      BY <1>a DEF PeripheralListTypes
    <2>2. ASSUME ~untold', ~ListDue' PROVE Shows(gets, items, registry)'
      BY <1>a, <2>2 DEF PeripheralListInv, Shows
    <2> QED
      BY <1>a, <2>1, <2>2 DEF PeripheralListInv
  <1>1. ASSUME NEW w \in P!Who,
               \/ Sends(w) \/ P!Begin(w) \/ P!TakeOut(w) \/ P!Register(w) \/ P!Restore(w)
               \/ P!InitPorts(w) \/ P!InitPortsFails(w) \/ P!Announced(w)
        PROVE  PeripheralListTypes' /\ PeripheralListInv'
    BY <1>1, <1>a, TellingStep DEF PeripheralListTypes
  <1>2. CASE P!UpdateUI
    <2> DEFINE g == [stage |-> "asked", answer |-> None]
    <2>1. gets' = Append(gets, g) /\ UNCHANGED <<registry, call, events, items, untold>> /\ due' = FALSE
      BY <1>2 DEF P!UpdateUI
    <2>2. g \in GetRecs
      BY DEF GetRecs
    <2>3. g.stage = "asked"
      OBVIOUS
    <2> HIDE DEF g
    <2>4. /\ gets' \in Seq(GetRecs) /\ Len(gets') = Len(gets) + 1 /\ gets'[Len(gets) + 1] = g
          /\ \A i \in DOMAIN gets : gets'[i] = gets[i]
          /\ DOMAIN gets = 1..Len(gets) /\ DOMAIN gets' = 1..(Len(gets) + 1) /\ Len(gets) \in Nat
      BY <2>1, <2>2, AppendProperties, LenProperties DEF PeripheralListTypes
    <2>5. PeripheralListTypes'
      <3>1. ASSUME NEW j \in DOMAIN gets', gets'[j].stage # "asked" PROVE gets'[j].answer \in Registries
        <4>1. j \in DOMAIN gets
          BY <2>3, <2>4, <3>1
        <4> QED
          BY <2>4, <3>1, <4>1 DEF PeripheralListTypes
      <3>2. items' \in Registries /\ due' \in BOOLEAN /\ untold' \in BOOLEAN
        BY <2>1 DEF PeripheralListTypes
      <3> QED
        BY <2>4, <3>1, <3>2 DEF PeripheralListTypes
    <2>6. ListDue'
      BY <2>3, <2>4 DEF ListDue
    <2>7. \A i \in DOMAIN gets' : gets'[i].stage = "asked" => \A j \in DOMAIN gets' : j > i => gets'[j].stage = "asked"
      BY <2>3, <2>4 DEF PeripheralListInv
    <2> QED
      BY <2>5, <2>6, <2>7 DEF PeripheralListInv
  <1>3. ASSUME NEW i \in DOMAIN gets, P!ServeGet(i) PROVE PeripheralListTypes' /\ PeripheralListInv'
    <2> DEFINE g == [stage |-> "served", answer |-> registry]
    <2>1. /\ gets[i].stage = "asked" /\ \A j \in 1..(i - 1) : gets[j].stage # "asked"
          /\ gets' = [gets EXCEPT ![i] = g] /\ UNCHANGED <<registry, call, events, items, due, untold>>
      BY <1>3 DEF P!ServeGet
    <2>2. g \in GetRecs /\ g.stage = "served" /\ g.answer = registry
      BY DEF GetRecs, ServerTypes
    <2> HIDE DEF g
    <2>3. /\ gets' \in Seq(GetRecs) /\ DOMAIN gets' = DOMAIN gets /\ gets'[i] = g
          /\ \A j \in DOMAIN gets : j # i => gets'[j] = gets[j]
          /\ DOMAIN gets = 1..Len(gets) /\ Len(gets) \in Nat
      BY <2>1, <2>2, ExceptSeq, LenProperties DEF PeripheralListTypes
    <2>4. PeripheralListTypes'
      BY <2>1, <2>2, <2>3 DEF PeripheralListTypes, ServerTypes
    <2>5. \A j \in DOMAIN gets : j < i => gets[j].stage # "asked"
      BY <2>1, <2>3
    <2>6. \A j \in DOMAIN gets : j > i => gets'[j].stage = "asked"
      BY <2>1, <2>3 DEF PeripheralListInv
    <2>7. \A m \in DOMAIN gets' : gets'[m].stage = "asked" => \A j \in DOMAIN gets' : j > m => gets'[j].stage = "asked"
      BY <2>2, <2>3, <2>5, <2>6
    <2>8. ASSUME ~ListDue' PROVE Shows(gets', items', registry')
      <3>1. \A j \in DOMAIN gets : ~(j > i)
        BY <2>3, <2>6, <2>8 DEF ListDue
      <3>2. gets'[i].stage = "served" /\ gets'[i].answer = registry'
        BY <2>1, <2>2, <2>3
      <3>3. \A m \in DOMAIN gets' : m = i \/ i > m
        BY <2>3, <3>1
      <3> QED
        BY <2>3, <3>2, <3>3 DEF Shows
    <2> QED
      BY <2>4, <2>7, <2>8 DEF PeripheralListInv
  <1>4. ASSUME NEW i \in DOMAIN gets, P!GotList(i) PROVE PeripheralListTypes' /\ PeripheralListInv'
    <2> DEFINE over == [j \in DOMAIN gets |-> IF j < i THEN [gets[j] EXCEPT !.stage = "overtaken"] ELSE gets[j]]
    <2>1. /\ gets[i].stage # "asked" /\ items' = gets[i].answer /\ UNCHANGED <<registry, call, events, due>>
          /\ untold' = (untold \/ gets[i].stage = "overtaken")
          /\ gets' = P!RemoveAt(over, i)
      BY <1>4 DEF P!GotList
    <2>2. DOMAIN gets = 1..Len(gets) /\ Len(gets) \in Nat /\ \A j \in DOMAIN gets : gets[j] \in GetRecs
      BY LenProperties, ElementOfSeq DEF PeripheralListTypes
    <2>3. /\ over \in Seq(GetRecs) /\ Len(over) = Len(gets)
          /\ \A j \in DOMAIN gets : j < i => over[j] \in GetRecs /\ over[j].stage = "overtaken"
                                             /\ over[j].answer = gets[j].answer
          /\ \A j \in DOMAIN gets : ~(j < i) => over[j] = gets[j]
      <3>1. \A j \in DOMAIN gets : j < i => over[j] \in GetRecs /\ over[j].stage = "overtaken"
                                             /\ over[j].answer = gets[j].answer
        BY <2>2 DEF GetRecs
      <3>2. \A j \in DOMAIN gets : ~(j < i) => over[j] = gets[j]
        OBVIOUS
      <3>3. over \in [1..Len(gets) -> GetRecs]
        BY <2>2, <3>1, <3>2
      <3> HIDE DEF over
      <3> QED
        BY <2>2, <3>1, <3>2, <3>3, SeqDef, LenProperties
    <2> HIDE DEF over
    <2>4. /\ gets' \in Seq(GetRecs) /\ Len(gets') = Len(gets) - 1
          /\ \A j \in 1..(Len(gets) - 1) : gets'[j] = IF j < i THEN over[j] ELSE over[j + 1]
      <3>1. i \in 1..Len(over)
        BY <2>2, <2>3
      <3> QED
        BY <2>1, <2>3, <3>1, GetRemoved
    <2>5. DOMAIN gets' = 1..(Len(gets) - 1)
      BY <2>4, LenProperties
    <2>6. /\ \A j \in DOMAIN gets' : j < i => gets'[j].stage = "overtaken" /\ gets'[j].answer = gets[j].answer
          /\ \A j \in DOMAIN gets' : ~(j < i) => gets'[j] = gets[j + 1] /\ j + 1 \in DOMAIN gets
          /\ \A j \in DOMAIN gets' : j \in DOMAIN gets
      BY <2>2, <2>3, <2>4, <2>5
    <2>7. \A j \in DOMAIN gets : j > i => j - 1 \in DOMAIN gets' /\ gets'[j - 1] = gets[j]
      BY <2>2, <2>4, <2>5, <2>6
    <2>8. \A j \in DOMAIN gets : j < i => gets[j].stage # "asked"
      BY <2>1, <2>2 DEF PeripheralListInv
    <2>9. PeripheralListTypes'
      <3>1. items' \in Registries /\ due' \in BOOLEAN /\ untold' \in BOOLEAN
        BY <2>1 DEF PeripheralListTypes
      <3>2. ASSUME NEW j \in DOMAIN gets', gets'[j].stage # "asked" PROVE gets'[j].answer \in Registries
        BY <3>2, <2>6, <2>8 DEF PeripheralListTypes
      <3> QED
        BY <2>4, <3>1, <3>2 DEF PeripheralListTypes
    <2>10. ASSUME NEW m \in DOMAIN gets', gets'[m].stage = "asked", NEW j \in DOMAIN gets', j > m
           PROVE  gets'[j].stage = "asked"
      <3>1. m \in Int /\ j \in Int /\ i \in Int
        BY <2>2, <2>5
      <3>2. ~(m < i) /\ ~(j < i)
        BY <2>6, <2>10, <3>1
      <3>3. gets[m + 1].stage = "asked" /\ j + 1 > m + 1 /\ m + 1 \in DOMAIN gets /\ j + 1 \in DOMAIN gets
        BY <2>6, <2>10, <3>1, <3>2
      <3>4. gets[j + 1].stage = "asked"
        BY <3>3 DEF PeripheralListInv
      <3> QED
        BY <2>6, <3>2, <3>4
    <2>11. ASSUME ~untold', ~ListDue' PROVE Shows(gets', items', registry')
      <3>1. gets[i].stage = "served" /\ ~untold
        <4>1. gets[i].stage \in {"asked", "served", "overtaken"}
          BY <2>2 DEF GetRecs
        <4> QED
          BY <2>1, <2>11, <4>1
      <3>2. ~ListDue
        <4>1. \A j \in DOMAIN gets : gets[j].stage # "asked"
          BY <2>1, <2>2, <2>7, <2>8, <2>11 DEF ListDue
        <4> QED
          BY <2>1, <2>11, <4>1 DEF ListDue
      <3>3. Shows(gets, items, registry)
        BY <2>1, <2>11, <3>2 DEF PeripheralListInv
      <3>4. ASSUME NEW m \in DOMAIN gets', gets'[m].stage = "served",
                   \A j \in DOMAIN gets' : j > m => gets'[j].stage # "served"
            PROVE  gets'[m].answer = registry'
        <4>1. ~(m < i) /\ m \in Int /\ i \in Int
          BY <2>2, <2>5, <2>6, <3>4
        <4>2. gets'[m] = gets[m + 1] /\ m + 1 \in DOMAIN gets
          BY <2>6, <4>1
        <4>3. ASSUME NEW j \in DOMAIN gets, j > m + 1 PROVE gets[j].stage # "served"
          <5>1. j > i /\ j \in Int
            BY <2>2, <4>1, <4>3
          <5>2. j - 1 \in DOMAIN gets' /\ gets'[j - 1] = gets[j] /\ j - 1 > m
            BY <2>7, <4>1, <4>3, <5>1
          <5> QED
            BY <3>4, <5>2
        <4> QED
          BY <2>1, <3>3, <3>4, <4>2, <4>3 DEF Shows
      <3>5. ASSUME \A m \in DOMAIN gets' : gets'[m].stage # "served" PROVE items' = registry'
        <4>1. \A j \in DOMAIN gets : j > i => gets[j].stage # "served"
          BY <2>7, <3>5
        <4> QED
          BY <2>1, <3>1, <3>3, <4>1 DEF Shows
      <3> QED
        BY <3>4, <3>5, Zenon DEF Shows
    <2> QED
      BY <2>9, <2>10, <2>11 DEF PeripheralListInv
  <1>5. ASSUME NEW i \in DOMAIN gets, P!GetFails(i) PROVE PeripheralListTypes' /\ PeripheralListInv'
    <2>1. untold' = TRUE /\ gets' = P!RemoveAt(gets, i) /\ UNCHANGED <<registry, call, events, items, due>>
      BY <1>5 DEF P!GetFails
    <2>2. DOMAIN gets = 1..Len(gets) /\ Len(gets) \in Nat
      BY LenProperties DEF PeripheralListTypes
    <2>3. /\ gets' \in Seq(GetRecs) /\ Len(gets') = Len(gets) - 1
          /\ \A j \in 1..(Len(gets) - 1) : gets'[j] = IF j < i THEN gets[j] ELSE gets[j + 1]
      BY <2>1, <2>2, GetRemoved DEF PeripheralListTypes
    <2>4. DOMAIN gets' = 1..(Len(gets) - 1)
      BY <2>3, LenProperties
    <2>5. \A j \in DOMAIN gets' : \E m \in DOMAIN gets : gets'[j] = gets[m]
      BY <2>2, <2>3, <2>4
    <2>6. PeripheralListTypes'
      BY <2>1, <2>3, <2>5 DEF PeripheralListTypes
    <2>7. ASSUME NEW m \in DOMAIN gets', gets'[m].stage = "asked", NEW j \in DOMAIN gets', j > m
          PROVE  gets'[j].stage = "asked"
      <3>1. m \in Int /\ j \in Int /\ i \in Int
        BY <2>2, <2>4
      <3>2. PICK a \in DOMAIN gets : gets'[m] = gets[a] /\ a = IF m < i THEN m ELSE m + 1
        BY <2>2, <2>3, <2>4, <3>1
      <3>3. PICK b \in DOMAIN gets : gets'[j] = gets[b] /\ b = IF j < i THEN j ELSE j + 1
        BY <2>2, <2>3, <2>4, <3>1
      <3>4. b > a
        BY <2>7, <3>1, <3>2, <3>3
      <3> QED
        BY <2>7, <3>2, <3>3, <3>4 DEF PeripheralListInv
    <2> QED
      BY <2>1, <2>6, <2>7 DEF PeripheralListInv
  <1>6. CASE P!OnServerEvent
    <2>1. UNCHANGED <<items, gets, registry>> /\ due' = TRUE /\ untold' = FALSE
      BY <1>6 DEF P!OnServerEvent, P!UpdateUIASAP
    <2> QED
      BY <2>1, <1>a DEF ListDue
  <1>7. CASE P!Answered
    <2>1. /\ UNCHANGED <<items, gets, registry, due, untold, events>> /\ call["page"].stage \in {"done", "refused"}
          /\ \A v \in P!Who : v # "page" => call'[v] = call[v]
      BY <1>7 DEF P!Answered, ServerTypes
    <2>2. ~Telling(call["page"])
      BY <2>1 DEF Telling
    <2>3. ListDue => ListDue'
      BY <2>1, <2>2 DEF ListDue
    <2> QED
      BY <2>1, <2>3, <1>a DEF PeripheralListTypes
  <1>8. CASE \/ \E id \in Id : P!OpenForm(id)
             \/ P!ServeFormGet \/ P!Load \/ P!CloseForm
             \/ \E c \in Config : P!Edit(c)
             \/ UNCHANGED P!pvars
    <2>1. UNCHANGED <<items, gets, registry, due, untold, events, call>>
      BY <1>8 DEF P!OpenForm, P!ServeFormGet, P!Load, P!CloseForm, P!Edit, P!pvars
    <2>2. ListDue => ListDue'
      BY <2>1 DEF ListDue
    <2> QED
      BY <2>1, <2>2, <1>a DEF PeripheralListTypes
  <1> QED
    BY <1>1, <1>2, <1>3, <1>4, <1>5, <1>6, <1>7, <1>8, PeripheralsActions

\* The page's call stays the one that the form sent, or not.
LEMMA FormKeeps ==
  ASSUME ServerTypes, PeripheralFormTypes, NEW w \in P!Who,
         \/ P!Begin(w) \/ P!TakeOut(w) \/ P!Register(w) \/ P!Restore(w)
         \/ P!InitPorts(w) \/ P!InitPortsFails(w) \/ P!Announced(w)
  PROVE  /\ UNCHANGED <<form, formGet, opens>> /\ formUnheard' \in BOOLEAN
         /\ \/ /\ call'["page"].from = call["page"].from /\ call'["page"].id = call["page"].id
               /\ call'["page"].kind = call["page"].kind
            \/ call'["page"].kind = "undone" /\ call'["page"].from = call["page"].from
  <1> USE Whose DEF P!forms
  <1>0. \A v \in P!Who : call[v] \in CallRecs /\ CallFits(call[v]) /\ v \in DOMAIN call
    BY DEF ServerTypes
  <1>s. ASSUME NEW st \in CallStages, P!Stage(w, st)
        PROVE  /\ call'["page"].from = call["page"].from /\ call'["page"].id = call["page"].id
               /\ call'["page"].kind = call["page"].kind
    <2>1. CASE w = "page"
      <3>1. call'[w] = [kind |-> call[w].kind, id |-> call[w].id, to |-> call[w].to, conf |-> call[w].conf,
                        stage |-> st, from |-> call[w].from]
        BY <1>s, <2>1, Staged
      <3> QED
        BY <2>1, <3>1
    <2>2. CASE w # "page"
      BY <1>s, <2>2, Staged
    <2> QED
      BY <2>1, <2>2
  <1>1. CASE P!Begin(w)
    <2>1. UNCHANGED <<form, formGet, opens, formUnheard>>
      BY <1>1 DEF P!Begin
    <2>2. CASE call[w].kind # "light" \/ ~P!Has(call[w].id)
      <3>1. PICK st \in {"refused", "adding", "removing"} : P!Stage(w, st)
        BY <1>1, <2>2 DEF P!Begin
      <3> QED
        BY <2>1, <3>1, <1>s DEF CallStages, PeripheralFormTypes
    <2>3. CASE call[w].kind = "light" /\ P!Has(call[w].id)
      <3>1. call' = [v \in P!Who |-> IF v = w THEN [call[w] EXCEPT !.stage = "update"]
                                     ELSE IF P!ToldOf(v, call[w].id) THEN [call[v] EXCEPT !.conf = call[w].conf]
                                     ELSE call[v]]
        BY <1>1, <2>3 DEF P!Begin
      <3>2. /\ call'["page"].from = call["page"].from /\ call'["page"].id = call["page"].id
            /\ call'["page"].kind = call["page"].kind
        BY <3>1, <1>0 DEF CallRecs
      <3> QED
        BY <2>1, <3>2 DEF PeripheralFormTypes
    <2> QED
      BY <2>2, <2>3
  <1>2. CASE P!TakeOut(w)
    <2>1. UNCHANGED <<form, formGet, opens>> /\ formUnheard' \in BOOLEAN
      BY <1>2 DEF P!TakeOut, P!FormKept
    <2>2. ASSUME call' = [call EXCEPT ![w].to = call[w].id, ![w].conf = registry[call[w].id],
                                      ![w].stage = "restoring"]
          PROVE  /\ call'["page"].from = call["page"].from /\ call'["page"].id = call["page"].id
                 /\ call'["page"].kind = call["page"].kind
      BY <2>2, <1>0 DEF CallRecs
    <2>3. \/ \E st \in {"refused", "remove", "adding"} : P!Stage(w, st)
          \/ call' = [call EXCEPT ![w].to = call[w].id, ![w].conf = registry[call[w].id],
                                  ![w].stage = "restoring"]
      BY <1>2 DEF P!TakeOut
    <2> QED
      BY <2>1, <2>2, <2>3, <1>s DEF CallStages
  <1>3. CASE P!Register(w)
    <2>1. UNCHANGED <<form, formGet, opens>> /\ formUnheard' \in BOOLEAN
      BY <1>3 DEF P!Register, P!FormKept
    <2>2. \E st \in {"add", "ports"} : P!Stage(w, st)
      BY <1>3 DEF P!Register
    <2> QED
      BY <2>1, <2>2, <1>s DEF CallStages
  <1>4. CASE P!Restore(w)
    BY <1>4, <1>s DEF CallStages, P!Restore, P!FormKept, P!Unannounced
  <1>5. CASE P!InitPorts(w)
    <2>1. \E st \in {"done", "update"} : P!Stage(w, st)
      BY <1>5 DEF P!InitPorts
    <2> QED
      BY <1>5, <2>1, <1>s DEF CallStages, P!InitPorts, PeripheralFormTypes
  <1>6. CASE P!InitPortsFails(w)
    <2>1. UNCHANGED <<form, formGet, opens>> /\ formUnheard' \in BOOLEAN
      BY <1>6 DEF P!InitPortsFails, P!FormKept, P!Unannounced
    <2>2. CASE call[w].kind = "post"
      <3>1. call' = [call EXCEPT ![w].id = call[w].to, ![w].kind = "undone", ![w].stage = "remove"]
        BY <1>6, <2>2 DEF P!InitPortsFails
      <3>2. /\ w = "page" => call'["page"].kind = "undone" /\ call'["page"].from = call["page"].from
            /\ w # "page" => call'["page"] = call["page"]
        BY <3>1, <1>0 DEF CallRecs
      <3> QED
        BY <2>1, <3>2
    <2>3. CASE call[w].kind # "post"
      <3>1. P!Stage(w, "refused")
        BY <1>6, <2>3 DEF P!InitPortsFails
      <3> QED
        BY <2>1, <3>1, <1>s DEF CallStages
    <2> QED
      BY <2>2, <2>3
  <1>7. CASE P!Announced(w)
    <2>1. \E st \in {"ports", "refused", "done"} : P!Stage(w, st)
      BY <1>7 DEF P!Announced
    <2> QED
      BY <1>7, <2>1, <1>s DEF CallStages, P!Announced, PeripheralFormTypes
  <1> QED
    BY <1>1, <1>2, <1>3, <1>4, <1>5, <1>6, <1>7

LEMMA PeripheralFormTypesStep ==
  ASSUME ServerTypes, PeripheralListTypes, PeripheralFormTypes, [P!Next]_(P!pvars)
  PROVE  PeripheralFormTypes'
  <1> USE Whose DEF P!server, P!list, P!forms
  <1>0. \A v \in P!Who : call[v] \in CallRecs /\ CallFits(call[v]) /\ v \in DOMAIN call
    BY DEF ServerTypes
  <1>p. call["page"].from \in Nat /\ opens \in Nat
    BY <1>0 DEF CallRecs, PeripheralFormTypes
  <1>n. P!NoGet = [stage |-> "none", answer |-> None] /\ P!NoGet.stage = "none" /\ P!NoGet.answer = None
    BY DEF P!NoGet
  <1>1. ASSUME NEW w \in P!Who, Sends(w) PROVE PeripheralFormTypes'
    <2>1. PICK way \in {"post", "patch", "light", "delete"}, id \in Id, to \in Id, c \in Config \cup {None} :
             /\ P!Send(w, way, id, to, c)
             /\ w = "page" /\ way # "post" =>
                   form # None /\ form.state = "ready" /\ form.id = id /\ (way # "delete" => c = form.data)
      BY <1>1 DEF Sends
    <2>2. UNCHANGED <<form, formGet, opens, formUnheard>>
      BY <2>1 DEF P!Send
    <2>3. call' = [call EXCEPT ![w] = [kind |-> way, id |-> id, to |-> to, conf |-> c, stage |-> "sent",
                                       from |-> IF w = "page" THEN opens ELSE 0]]
      BY <2>1 DEF P!Send
    <2>4. CASE w = "page"
      <3>1. call'["page"].from = opens /\ call'["page"].kind = way /\ call'["page"].id = id
        BY <2>3, <2>4, <1>0
      <3> QED
        BY <2>1, <2>2, <2>4, <3>1, <1>p DEF PeripheralFormTypes, P!Own
    <2>5. CASE w # "page"
      <3>1. call'["page"] = call["page"]
        BY <2>3, <2>5
      <3> QED
        BY <2>2, <3>1 DEF PeripheralFormTypes, P!Own
    <2> QED
      BY <2>4, <2>5
  <1>2. ASSUME NEW w \in P!Who,
               \/ P!Begin(w) \/ P!TakeOut(w) \/ P!Register(w) \/ P!Restore(w)
               \/ P!InitPorts(w) \/ P!InitPortsFails(w) \/ P!Announced(w)
        PROVE  PeripheralFormTypes'
    <2>1. /\ UNCHANGED <<form, formGet, opens>> /\ formUnheard' \in BOOLEAN
          /\ \/ /\ call'["page"].from = call["page"].from /\ call'["page"].id = call["page"].id
                /\ call'["page"].kind = call["page"].kind
             \/ call'["page"].kind = "undone" /\ call'["page"].from = call["page"].from
      BY <1>2, FormKeeps
    <2> QED
      BY <2>1 DEF PeripheralFormTypes, P!Own
  <1>3. CASE \/ P!UpdateUI
             \/ \E i \in DOMAIN gets : P!ServeGet(i) \/ P!GotList(i) \/ P!GetFails(i)
             \/ UNCHANGED P!pvars
    <2>1. UNCHANGED <<form, formGet, opens, formUnheard, call>>
      BY <1>3 DEF P!UpdateUI, P!ServeGet, P!GotList, P!GetFails, P!pvars
    <2> QED
      BY <2>1 DEF PeripheralFormTypes, P!Own
  <1>4. ASSUME NEW id \in Id, P!OpenForm(id) PROVE PeripheralFormTypes'
    <2> DEFINE f == [id |-> id, state |-> "loading", data |-> None, edited |-> FALSE]
    <2>1. /\ form' = f /\ opens' = opens + 1 /\ UNCHANGED call
          /\ formUnheard' = (formUnheard /\ ~P!AtRest)
      BY <1>4 DEF P!OpenForm, P!NewForm
    <2>2. formGet' = [stage |-> "asked", answer |-> None]
      BY <1>4, <1>n DEF P!OpenForm
    <2>3. f \in FormRecs /\ f.state = "loading"
      BY DEF FormRecs
    <2>4. call'["page"].from <= opens /\ ~(call'["page"].from = opens')
      BY <2>1, <1>p DEF PeripheralFormTypes
    <2> HIDE DEF f
    <2>5. /\ formGet' = [stage |-> formGet'.stage, answer |-> formGet'.answer] /\ formGet'.stage = "asked"
          /\ formGet' # P!NoGet
      BY <2>2, <1>n
    <2> QED
      BY <2>1, <2>3, <2>4, <2>5, <1>p DEF PeripheralFormTypes, P!Own
  <1>5. CASE P!Answered
    <2>1. /\ call'["page"] = P!NoCall /\ UNCHANGED <<opens, formUnheard>>
          /\ IF call["page"].stage = "done" THEN P!ApplyDone ELSE UNCHANGED form
          /\ formGet' = IF form' = None THEN P!NoGet ELSE formGet
      BY <1>5, <1>0 DEF P!Answered
    <2>2. P!NoCall.from = 0 /\ P!NoCall.kind = "none"
      BY DEF P!NoCall
    <2>3. CASE form' = form
      BY <2>1, <2>2, <2>3, <1>n, <1>p DEF PeripheralFormTypes, P!Own
    <2>4. CASE form' = None
      BY <2>1, <2>2, <2>4, <1>n, <1>p DEF PeripheralFormTypes, P!Own
    <2>5. CASE P!Own("page") /\ call["page"].kind \in {"patch", "light"} /\ call["page"].stage = "done"
      <3>1. form' = [form EXCEPT !.id = call["page"].to, !.edited = FALSE]
        BY <2>1, <2>5 DEF P!ApplyDone
      <3>2. form \in FormRecs /\ form.state = "ready" /\ form.data \in Config /\ call["page"].to \in Id
        BY <2>5, <1>0 DEF PeripheralFormTypes, P!Own, CallFits
      <3>3. form' \in FormRecs /\ form'.state = "ready" /\ form'.data = form.data
        BY <3>1, <3>2 DEF FormRecs
      <3>4. formGet = P!NoGet
        BY <3>2 DEF PeripheralFormTypes
      <3> QED
        BY <2>1, <2>2, <3>2, <3>3, <3>4, <1>n, <1>p DEF PeripheralFormTypes, P!Own
    <2> QED
      BY <2>1, <2>3, <2>4, <2>5 DEF P!ApplyDone
  <1>6. CASE P!ServeFormGet
    <2>1. formGet' = [stage |-> "answered", answer |-> registry] /\ formGet.stage = "asked"
          /\ UNCHANGED <<form, opens, formUnheard, call>>
      BY <1>6 DEF P!ServeFormGet
    <2>2. /\ formGet' = [stage |-> formGet'.stage, answer |-> formGet'.answer] /\ formGet'.stage = "answered"
          /\ formGet' # P!NoGet /\ formGet'.answer \in Registries
      BY <2>1, <1>n DEF ServerTypes
    <2> QED
      BY <2>1, <2>2 DEF PeripheralFormTypes, P!Own
  <1>7. CASE P!Load
    <2>1. formGet' = P!NoGet /\ formGet.stage = "answered" /\ UNCHANGED <<opens, formUnheard, call>>
          /\ form \in FormRecs /\ form.state = "loading" /\ formGet.answer \in Registries
      BY <1>7 DEF P!Load, PeripheralFormTypes
    <2>2. formGet.answer[form.id] \in Config \cup {None}
      BY <2>1 DEF FormRecs, Registries
    <2>3. form' \in FormRecs /\ form'.state \in {"ready", "error"} /\ (form'.state = "ready" => form'.data \in Config)
          /\ form'.id = form.id
      <3>1. CASE formGet.answer[form.id] # None
        <4>1. form' = [form EXCEPT !.state = "ready", !.data = formGet.answer[form.id], !.edited = FALSE]
          BY <1>7, <3>1 DEF P!Load
        <4> QED
          BY <2>1, <2>2, <3>1, <4>1 DEF FormRecs
      <3>2. CASE formGet.answer[form.id] = None
        <4>1. form' = [form EXCEPT !.state = "error"]
          BY <1>7, <3>2 DEF P!Load
        <4> QED
          BY <2>1, <4>1 DEF FormRecs
      <3> QED
        BY <3>1, <3>2
    <2>4. ~(call["page"].from = opens /\ call["page"].kind \in {"patch", "light", "delete"})
      BY <2>1 DEF PeripheralFormTypes
    <2> QED
      BY <2>1, <2>3, <2>4, <1>n DEF PeripheralFormTypes, P!Own
  <1>8. CASE P!CloseForm
    BY <1>8, <1>n DEF P!CloseForm, PeripheralFormTypes, P!Own
  <1>9. ASSUME NEW c \in Config, P!Edit(c) PROVE PeripheralFormTypes'
    <2>1. form' = [form EXCEPT !.data = c, !.edited = TRUE] /\ form # None /\ form.state = "ready"
          /\ UNCHANGED <<formGet, opens, formUnheard, call>>
      BY <1>9 DEF P!Edit
    <2>2. form' \in FormRecs /\ form'.state = "ready" /\ form'.data \in Config /\ form'.id = form.id
      BY <2>1 DEF PeripheralFormTypes, FormRecs
    <2>3. formGet = P!NoGet
      BY <2>1 DEF PeripheralFormTypes
    <2> QED
      BY <2>1, <2>2, <2>3 DEF PeripheralFormTypes, P!Own
  <1>10. CASE P!OnServerEvent
    <2> DEFINE e == Head(events)
    <2>1. /\ P!OnAdd(e) \/ P!OnRemove(e) \/ (e.type = "update" /\ P!OnUpdate(e))
          /\ formGet' = IF form' = None THEN P!NoGet ELSE formGet
          /\ formUnheard' \in BOOLEAN /\ UNCHANGED <<opens, call>>
      BY <1>10 DEF P!OnServerEvent
    <2>2. e \in EventRecs /\ (e.type = "update" => e.conf \in Config)
      <3>1. events \in Seq(EventRecs) /\ events # <<>>
        BY <1>10 DEF P!OnServerEvent, ServerTypes
      <3>2. e = events[1] /\ 1 \in DOMAIN events /\ e \in EventRecs
        BY <3>1, HeadTailProperties
      <3> QED
        BY <3>2 DEF ServerTypes, EventRecs
    <2> HIDE DEF e
    <2>3. CASE form' = form
      BY <2>1, <2>3, <1>n DEF PeripheralFormTypes, P!Own
    <2>4. CASE form' = None
      BY <2>1, <2>4, <1>n DEF PeripheralFormTypes, P!Own
    <2>5. CASE form # None /\ e.type = "update" /\ form' = [form EXCEPT !.data = e.conf, !.edited = FALSE]
      <3>1. form' \in FormRecs /\ form'.state = form.state /\ form'.data \in Config /\ form'.id = form.id
        BY <2>2, <2>5 DEF PeripheralFormTypes, FormRecs
      <3>2. formGet.stage # "none" => form.state = "loading"
        BY DEF PeripheralFormTypes
      <3>3. formGet' = formGet \/ formGet' = P!NoGet
        BY <2>1
      <3> QED
        BY <2>1, <2>5, <3>1, <3>2, <3>3, <1>n DEF PeripheralFormTypes, P!Own
    <2> QED
      BY <2>1, <2>3, <2>4, <2>5 DEF P!OnAdd, P!OnRemove, P!OnUpdate, P!FromPeripheral
  <1> QED
    BY <1>1, <1>2, <1>3, <1>4, <1>5, <1>6, <1>7, <1>8, <1>9, <1>10, PeripheralsActions

\* Call `k' is to trigger an event about `id' that the form minds, or to give it up with nobody told.
ToTell(k, id) ==
    \/ k.stage = "update" /\ k.to = id
    \/ k.stage = "ports" /\ k.kind = "patch" /\ k.to = id
    \/ k.stage = "remove" /\ k.id = id
    \/ k.stage = "adding" /\ k.kind = "patch" /\ k.id = id
    \/ k.stage = "restoring" /\ k.to = id

\* An event about `id' that the form minds.
Tells(e, id) == e.type \in {"update", "remove"} /\ e.id = id

Untelling(id) == \A v \in P!Who : ~ToTell(call[v], id)

QuietAbout(id) == Untelling(id) /\ \A i \in DOMAIN events : ~Tells(events[i], id)

\* The form's PATCH has given its peripheral another id, but is not answered on the server yet, or is.
Leaving ==
    /\ P!Own("page") /\ call["page"].kind = "patch" /\ call["page"].stage \in {"ports", "update"}
    /\ call["page"].to # call["page"].id
ApplyEnded ==
    P!Own("page") /\ call["page"].kind \in {"patch", "light"} /\ call["page"].stage = "done"

\* The peripheral that the form is of once what is answered has come.
Goal == IF ApplyEnded THEN call["page"].to ELSE form.id

CallsHonest == \A v \in P!Who : \A id \in Id : P!ToldOf(v, id) => registry[id] = call[v].conf

\* The last event about a peripheral tells what it is, unless another is to come.
EventsHonest ==
    \A id \in Id : Untelling(id) =>
       \A i \in DOMAIN events :
          events[i].type = "update" /\ events[i].id = id /\ (\A j \in DOMAIN events : j > i => ~Tells(events[j], id))
             => events[i].conf = registry[id]

FormHonest ==
    form # None /\ form.state = "ready" /\ (~form.edited \/ ApplyEnded) /\ QuietAbout(Goal) /\ ~Leaving
       => form.data = registry[Goal]

AnswerHonest ==
    formGet.stage = "answered" /\ QuietAbout(form.id) /\ formGet.answer[form.id] # None
       => formGet.answer[form.id] = registry[form.id]

PeripheralFormInv == ~formUnheard => CallsHonest /\ EventsHonest /\ FormHonest /\ AnswerHonest

\* A call that goes on without triggering an event.
LEMMA UntoldStep ==
  ASSUME ServerTypes, PeripheralFormTypes, PeripheralFormTypes', EventsHonest, FormHonest, AnswerHonest,
         UNCHANGED <<events, form, formGet, opens>>,
         \A id \in Id : \/ registry'[id] = registry[id] \/ registry[id] = None
                        \/ \E v \in P!Who : ToTell(call'[v], id),
         \A id \in Id : \/ Untelling(id)
                        \/ \E v \in P!Who : ToTell(call'[v], id)
                        \/ Leaving' /\ \A i \in DOMAIN events : events[i].id # id,
         Leaving => Leaving',
         ApplyEnded' => ApplyEnded, ApplyEnded => ApplyEnded',
         ApplyEnded => call'["page"].to = call["page"].to
  PROVE  EventsHonest' /\ FormHonest' /\ AnswerHonest'
  <1> USE Whose
  <1>1. ASSUME NEW id \in Id, Untelling(id)' PROVE \A v \in P!Who : ~ToTell(call'[v], id)
    BY <1>1 DEF Untelling
  <1>2. EventsHonest'
    <2> SUFFICES ASSUME NEW id \in Id, Untelling(id)', NEW i \in DOMAIN events, events[i].type = "update",
                        events[i].id = id, \A j \in DOMAIN events : j > i => ~Tells(events[j], id)
                 PROVE  events[i].conf = registry'[id]
      BY DEF EventsHonest
    <2>1. Untelling(id)
      BY <1>1
    <2>2. events[i].conf = registry[id]
      BY <2>1 DEF EventsHonest
    <2>3. registry[id] # None
      BY <2>2 DEF ServerTypes
    <2> QED
      BY <2>2, <2>3, <1>1
  <1>3. FormHonest'
    <2> SUFFICES ASSUME form # None, form.state = "ready", (~form.edited \/ ApplyEnded)', QuietAbout(Goal)', ~Leaving'
                 PROVE  form.data = registry'[Goal']
      BY DEF FormHonest
    <2>1. Goal' = Goal /\ Goal \in Id
      <3>1. CASE ApplyEnded
        <4>1. call["page"].to \in Id
          BY <3>1 DEF ApplyEnded, ServerTypes, CallFits
        <4> QED
          BY <3>1, <4>1 DEF Goal
      <3>2. CASE ~ApplyEnded
        <4>1. form.id \in Id
          BY DEF PeripheralFormTypes, FormRecs
        <4> QED
          BY <3>2, <4>1 DEF Goal
      <3> QED
        BY <3>1, <3>2
    <2>2. PICK g \in Id : g = Goal /\ Goal' = g
      BY <2>1
    <2>3. Untelling(g)' /\ \A i \in DOMAIN events : ~Tells(events[i], g)
      BY <2>2 DEF QuietAbout, Untelling
    <2>4. \A v \in P!Who : ~ToTell(call'[v], g)
      BY <2>3 DEF Untelling
    <2>5. Untelling(g)
      BY <2>2, <2>4
    <2>6. QuietAbout(g) /\ ~Leaving /\ (~form.edited \/ ApplyEnded)
      BY <2>3, <2>5 DEF QuietAbout
    <2>7. form.data = registry[g]
      BY <2>1, <2>2, <2>6 DEF FormHonest
    <2>8. registry[g] # None
      BY <2>7 DEF PeripheralFormTypes
    <2> QED
      BY <2>2, <2>4, <2>7, <2>8
  <1>4. AnswerHonest'
    <2> SUFFICES ASSUME formGet.stage = "answered", QuietAbout(form.id)', formGet.answer[form.id] # None
                 PROVE  formGet.answer[form.id] = registry'[form.id]
      BY DEF AnswerHonest
    <2>1. form.id \in Id
      BY DEF PeripheralFormTypes, FormRecs
    <2>2. Untelling(form.id)' /\ \A i \in DOMAIN events : ~Tells(events[i], form.id)
      BY DEF QuietAbout, Untelling
    <2>3. \A v \in P!Who : ~ToTell(call'[v], form.id)
      BY <2>2 DEF Untelling
    <2>4. ~Leaving'
      BY DEF Leaving, PeripheralFormTypes, P!Own
    <2>5. QuietAbout(form.id)
      BY <2>1, <2>2, <2>3, <2>4 DEF QuietAbout
    <2> QED
      BY <2>1, <2>3, <2>5 DEF AnswerHonest
  <1> QED
    BY <1>2, <1>3, <1>4

\* A call that goes on to stage `st' and triggers nothing.
LEMMA StagedUntold ==
  ASSUME ServerTypes, PeripheralFormTypes, PeripheralFormTypes', PeripheralFormInv,
         UNCHANGED <<events, form, formGet, opens>>, ~formUnheard' => ~formUnheard,
         NEW w \in P!Who, \A v \in P!Who : v # w => call'[v] = call[v],
         call[w].stage # "done", call'[w].stage = "done" => call'[w].kind \notin {"patch", "light"},
         ~formUnheard' =>
            /\ \A id \in Id : \/ registry'[id] = registry[id] \/ registry[id] = None
                              \/ ToTell(call'[w], id)
            /\ \A id \in Id : ToTell(call[w], id) => \/ ToTell(call'[w], id)
                                                     \/ Leaving' /\ \A i \in DOMAIN events : events[i].id # id
            /\ w = "page" /\ Leaving => Leaving'
            /\ CallsHonest'
  PROVE  PeripheralFormInv'
  <1> SUFFICES ASSUME ~formUnheard' PROVE PeripheralFormInv'
    BY DEF PeripheralFormInv
  <1> USE Whose
  <1>1. CallsHonest /\ EventsHonest /\ FormHonest /\ AnswerHonest
    BY DEF PeripheralFormInv
  <1>2. \A id \in Id : \/ registry'[id] = registry[id] \/ registry[id] = None
                       \/ \E v \in P!Who : ToTell(call'[v], id)
    OBVIOUS
  <1>3. \A id \in Id : \/ Untelling(id)
                       \/ \E v \in P!Who : ToTell(call'[v], id)
                       \/ Leaving' /\ \A i \in DOMAIN events : events[i].id # id
    <2> TAKE id \in Id
    <2> SUFFICES ASSUME ~Untelling(id)
                 PROVE  \/ \E v \in P!Who : ToTell(call'[v], id)
                        \/ Leaving' /\ \A i \in DOMAIN events : events[i].id # id
      OBVIOUS
    <2>1. PICK v \in P!Who : ToTell(call[v], id)
      BY DEF Untelling
    <2>2. CASE v = w
      BY <2>1, <2>2
    <2>3. CASE v # w
      BY <2>1, <2>3
    <2> QED
      BY <2>2, <2>3
  <1>4. /\ Leaving => Leaving'
        /\ (ApplyEnded' => ApplyEnded) /\ (ApplyEnded => ApplyEnded')
        /\ ApplyEnded => call'["page"].to = call["page"].to
    <2>1. CASE w = "page"
      BY <2>1 DEF ApplyEnded
    <2>2. CASE w # "page"
      <3>1. call'["page"] = call["page"]
        BY <2>2
      <3> QED
        BY <3>1 DEF ApplyEnded, Leaving, P!Own
    <2> QED
      BY <2>1, <2>2
  <1>5. EventsHonest' /\ FormHonest' /\ AnswerHonest'
    BY <1>1, <1>2, <1>3, <1>4, UntoldStep
  <1> QED
    BY <1>5 DEF PeripheralFormInv

LEMMA CallStagesHonest ==
  ASSUME ServerTypes, PeripheralFormTypes, ServerTypes', PeripheralFormTypes', PeripheralFormInv,
         NEW w \in P!Who,
         Sends(w) \/ P!Begin(w) \/ P!Restore(w) \/ P!InitPorts(w) \/ P!InitPortsFails(w)
  PROVE  PeripheralFormInv'
  <1> USE Whose DEF P!forms
  <1>0. \A v \in P!Who : call[v] \in CallRecs /\ CallFits(call[v]) /\ v \in DOMAIN call
    BY DEF ServerTypes
  <1>n. P!NoCall.stage = "none"
    BY DEF P!NoCall
  <1>1. CASE Sends(w)
    <2>1. PICK way \in {"post", "patch", "light", "delete"}, id \in Id, to \in Id, c \in Config \cup {None} :
             P!Send(w, way, id, to, c)
      BY <1>1 DEF Sends
    <2>2. UNCHANGED <<registry, events, form, formGet, opens, formUnheard>> /\ call[w].stage = "none"
      BY <2>1, <1>n DEF P!Send
    <2>3. call'[w].stage = "sent" /\ \A v \in P!Who : v # w => call'[v] = call[v]
      BY <2>1, <1>0 DEF P!Send
    <2>4. \A id_ \in Id : ~ToTell(call[w], id_)
      BY <2>2 DEF ToTell
    <2>5. ~(w = "page" /\ Leaving)
      BY <2>2 DEF Leaving
    <2>6. ~formUnheard' => CallsHonest'
      BY <2>2, <2>3 DEF PeripheralFormInv, CallsHonest, P!ToldOf
    <2> QED
      BY <2>2, <2>3, <2>4, <2>5, <2>6, StagedUntold
  <1>2. CASE P!Begin(w)
    <2>1. UNCHANGED <<events, form, formGet, opens, formUnheard>> /\ call[w].stage = "sent"
      BY <1>2 DEF P!Begin
    <2>2. (\A id \in Id : ~ToTell(call[w], id)) /\ ~(w = "page" /\ Leaving)
      BY <2>1 DEF ToTell, Leaving
    <2>3. CASE call[w].kind # "light" \/ ~P!Has(call[w].id)
      <3>1. PICK st \in {"refused", "adding", "removing"} : P!Stage(w, st) /\ UNCHANGED registry
        BY <1>2, <2>3 DEF P!Begin
      <3>2. (\A v \in P!Who : v # w => call'[v] = call[v])
            /\ call'[w].stage \in {"none", "refused", "adding", "removing"}
        BY <3>1, <1>n, Staged DEF CallStages
      <3>3. ~formUnheard' => CallsHonest'
        BY <2>1, <3>1, <3>2 DEF PeripheralFormInv, CallsHonest, P!ToldOf
      <3> QED
        BY <2>1, <2>2, <3>1, <3>2, <3>3, StagedUntold
    <2>4. CASE call[w].kind = "light" /\ P!Has(call[w].id)
      <3>1. /\ registry' = [registry EXCEPT ![call[w].id] = call[w].conf]
            /\ call' = [v \in P!Who |-> IF v = w THEN [call[w] EXCEPT !.stage = "update"]
                                        ELSE IF P!ToldOf(v, call[w].id) THEN [call[v] EXCEPT !.conf = call[w].conf]
                                        ELSE call[v]]
        BY <1>2, <2>4 DEF P!Begin, P!Set
      <3>2. call[w].to = call[w].id /\ call[w].id \in Id
        BY <2>1, <2>4, <1>0 DEF CallFits
      <3>3. /\ call'[w].stage = "update" /\ call'[w].to = call[w].to /\ call'[w].conf = call[w].conf
            /\ call'[w].kind = "light" /\ call'[w].id = call[w].id /\ call'[w].from = call[w].from
        BY <2>4, <3>1, <1>0 DEF CallRecs
      <3>4. \A v \in P!Who : v # w =>
               /\ call'[v].stage = call[v].stage /\ call'[v].to = call[v].to /\ call'[v].kind = call[v].kind
               /\ call'[v].id = call[v].id /\ call'[v].from = call[v].from
               /\ call'[v].conf = IF P!ToldOf(v, call[w].id) THEN call[w].conf ELSE call[v].conf
        BY <3>1, <1>0 DEF CallRecs
      <3>5. \A id \in Id : registry'[id] = IF id = call[w].id THEN call[w].conf ELSE registry[id]
        BY <3>1 DEF ServerTypes, Registries
      <3> SUFFICES ASSUME ~formUnheard PROVE PeripheralFormInv'
        BY <2>1 DEF PeripheralFormInv
      <3>6. CallsHonest /\ EventsHonest /\ FormHonest /\ AnswerHonest
        BY DEF PeripheralFormInv
      <3>7. CallsHonest'
        <4> SUFFICES ASSUME NEW v \in P!Who, NEW id \in Id, P!ToldOf(v, id)' PROVE registry'[id] = call'[v].conf
          BY DEF CallsHonest
        <4>1. CASE v = w
          <5>1. id = call[w].id
            BY <4>1, <3>2, <3>3 DEF P!ToldOf
          <5> QED
            BY <4>1, <5>1, <3>3, <3>5
        <4>2. CASE v # w
          <5>1. P!ToldOf(v, id)
            BY <4>2, <3>4 DEF P!ToldOf
          <5>2. CASE id = call[w].id
            BY <4>2, <5>1, <5>2, <3>4, <3>5
          <5>3. CASE id # call[w].id
            <6>1. ~P!ToldOf(v, call[w].id)
              BY <5>1, <5>3 DEF P!ToldOf
            <6> QED
              BY <4>2, <5>1, <5>3, <6>1, <3>4, <3>5, <3>6 DEF CallsHonest
          <5> QED
            BY <5>2, <5>3
        <4> QED
          BY <4>1, <4>2
      <3>8. \A id \in Id : \/ registry'[id] = registry[id] \/ registry[id] = None
                           \/ \E v \in P!Who : ToTell(call'[v], id)
        <4> TAKE id \in Id
        <4>1. CASE id = call[w].id
          <5>1. ToTell(call'[w], id)
            BY <4>1, <3>2, <3>3 DEF ToTell
          <5> QED
            BY <5>1
        <4> QED
          BY <4>1, <3>5
      <3>9. \A id \in Id : Untelling(id) \/ \E v \in P!Who : ToTell(call'[v], id)
        <4> TAKE id \in Id
        <4> SUFFICES ASSUME NEW v \in P!Who, ToTell(call[v], id) PROVE ToTell(call'[v], id)
          BY DEF Untelling
        <4>1. v # w
          BY <2>2
        <4> QED
          BY <4>1, <3>4 DEF ToTell
      <3>10. /\ Leaving => Leaving'
             /\ (ApplyEnded' => ApplyEnded) /\ (ApplyEnded => ApplyEnded')
             /\ ApplyEnded => call'["page"].to = call["page"].to
        <4>1. CASE w = "page"
          BY <4>1, <2>1, <2>2, <3>3 DEF ApplyEnded
        <4>2. CASE w # "page"
          <5>1. /\ call'["page"].stage = call["page"].stage /\ call'["page"].to = call["page"].to
                /\ call'["page"].kind = call["page"].kind /\ call'["page"].id = call["page"].id
                /\ call'["page"].from = call["page"].from
            BY <4>2, <3>4
          <5> QED
            BY <2>1, <5>1 DEF ApplyEnded, Leaving, P!Own
        <4> QED
          BY <4>1, <4>2
      <3>11. EventsHonest' /\ FormHonest' /\ AnswerHonest'
        BY <2>1, <3>6, <3>8, <3>9, <3>10, UntoldStep
      <3> QED
        BY <3>7, <3>11 DEF PeripheralFormInv
    <2> QED
      BY <2>3, <2>4
  <1>3. CASE P!Restore(w)
    BY <1>3 DEF P!Restore, P!Unannounced, PeripheralFormInv
  <1>4. CASE P!InitPorts(w)
    <2>1. UNCHANGED <<registry, events, form, formGet, opens, formUnheard>> /\ call[w].stage = "ports"
      BY <1>4 DEF P!InitPorts
    <2>2. PICK st \in {"done", "update"} : P!Stage(w, st) /\ (st = "done" <=> call[w].kind = "post")
      BY <1>4 DEF P!InitPorts
    <2>3. \A v \in P!Who : v # w => call'[v] = call[v]
      BY <2>2, Staged DEF CallStages
    <2>4. \/ call'[w].stage = "none" /\ st = "done"
          \/ /\ call'[w].stage = st /\ call'[w].kind = call[w].kind /\ call'[w].to = call[w].to
             /\ call'[w].conf = call[w].conf /\ call'[w].id = call[w].id /\ call'[w].from = call[w].from
      <3>1. \/ call'[w] = P!NoCall /\ w = "others" /\ st \in {"done", "refused"}
            \/ call'[w] = [kind |-> call[w].kind, id |-> call[w].id, to |-> call[w].to, conf |-> call[w].conf,
                           stage |-> st, from |-> call[w].from]
        BY <2>2, Staged DEF CallStages
      <3> QED
        BY <3>1, <2>2, <1>n
    <2>5. call'[w].stage = "done" => call'[w].kind \notin {"patch", "light"}
      BY <2>2, <2>4
    <2>6. \A id \in Id : ToTell(call[w], id) => ToTell(call'[w], id)
      BY <2>1, <2>2, <2>4 DEF ToTell
    <2>7. w = "page" /\ Leaving => Leaving'
      BY <2>1, <2>2, <2>4 DEF Leaving, P!Own
    <2>8. \A v \in P!Who, id \in Id : P!ToldOf(v, id)' => P!ToldOf(v, id) /\ call'[v].conf = call[v].conf
      <3> TAKE v \in P!Who, id \in Id
      <3>1. CASE v = w
        BY <3>1, <2>1, <2>4 DEF P!ToldOf
      <3>2. CASE v # w
        BY <3>2, <2>3 DEF P!ToldOf
      <3> QED
        BY <3>1, <3>2
    <2>9. ~formUnheard' => CallsHonest'
      BY <2>1, <2>8 DEF PeripheralFormInv, CallsHonest
    <2> QED
      BY <2>1, <2>3, <2>5, <2>6, <2>7, <2>9, StagedUntold
  <1>5. CASE P!InitPortsFails(w)
    <2>1. UNCHANGED <<events, form, formGet, opens>> /\ call[w].stage = "ports"
      BY <1>5 DEF P!InitPortsFails, P!FormKept
    <2>2. CASE call[w].kind # "post"
      BY <1>5, <2>2 DEF P!InitPortsFails, P!Unannounced, PeripheralFormInv
    <2>3. CASE call[w].kind = "post"
      <3>1. /\ registry' = [registry EXCEPT ![call[w].to] = None]
            /\ call' = [call EXCEPT ![w].id = call[w].to, ![w].kind = "undone", ![w].stage = "remove"]
            /\ formUnheard' = (formUnheard \/ \E v \in P!Who \ {w} : P!ToldOf(v, call[w].to))
        BY <1>5, <2>3 DEF P!InitPortsFails, P!Set
      <3>2. /\ \A v \in P!Who : v # w => call'[v] = call[v]
            /\ call'[w].stage = "remove" /\ call'[w].kind = "undone" /\ call'[w].id = call[w].to
        BY <3>1, <1>0 DEF CallRecs
      <3>3. \A id \in Id : registry'[id] = IF id = call[w].to THEN None ELSE registry[id]
        BY <3>1 DEF ServerTypes, Registries
      <3>4. \A id \in Id : registry'[id] = registry[id] \/ ToTell(call'[w], id)
        BY <3>2, <3>3 DEF ToTell
      <3>5. (\A id \in Id : ~ToTell(call[w], id)) /\ ~(w = "page" /\ Leaving)
        BY <2>1, <2>3 DEF ToTell, Leaving
      <3>6. ~formUnheard' => CallsHonest'
        <4> SUFFICES ASSUME ~formUnheard', NEW v \in P!Who, NEW id \in Id, P!ToldOf(v, id)'
                     PROVE  registry'[id] = call'[v].conf
          BY DEF CallsHonest
        <4>1. v # w
          BY <3>2 DEF P!ToldOf
        <4>2. P!ToldOf(v, id) /\ call'[v].conf = call[v].conf
          BY <4>1, <3>2 DEF P!ToldOf
        <4>3. id # call[w].to
          BY <3>1, <4>1, <4>2
        <4> QED
          BY <3>1, <3>3, <4>2, <4>3 DEF PeripheralFormInv, CallsHonest
      <3> QED
        BY <2>1, <3>1, <3>2, <3>4, <3>5, <3>6, StagedUntold
    <2> QED
      BY <2>2, <2>3
  <1> QED
    BY <1>1, <1>2, <1>3, <1>4, <1>5

LEMMA TakeOutHonest ==
  ASSUME ServerTypes, PeripheralFormTypes, ServerTypes', PeripheralFormTypes', PeripheralFormInv,
         NEW w \in P!Who, P!TakeOut(w)
  PROVE  PeripheralFormInv'
  <1> USE Whose DEF P!forms
  <1>0. \A v \in P!Who : call[v] \in CallRecs /\ CallFits(call[v]) /\ v \in DOMAIN call
    BY DEF ServerTypes
  <1>n. P!NoCall.stage = "none"
    BY DEF P!NoCall
  <1>1. /\ UNCHANGED <<events, form, formGet, opens>> /\ call[w].stage = "removing"
        /\ formUnheard' = (formUnheard \/ \E v \in P!Who : P!ToldOf(v, call[w].id))
    BY DEF P!TakeOut, P!FormKept
  <1>2. (\A id \in Id : ~ToTell(call[w], id)) /\ ~(w = "page" /\ Leaving)
    BY <1>1 DEF ToTell, Leaving
  <1>3. CASE ~P!Has(call[w].id)
    <2>1. P!Stage(w, "refused") /\ UNCHANGED registry
      BY <1>3 DEF P!TakeOut
    <2>2. (\A v \in P!Who : v # w => call'[v] = call[v]) /\ call'[w].stage \in {"none", "refused"}
      BY <2>1, <1>n, Staged DEF CallStages
    <2>3. ASSUME ~formUnheard', NEW v \in P!Who, NEW id \in Id, P!ToldOf(v, id)'
          PROVE  registry'[id] = call'[v].conf
      <3>1. v # w
        BY <2>2, <2>3 DEF P!ToldOf
      <3>2. call'[v] = call[v] /\ registry' = registry
        BY <2>1, <2>2, <3>1
      <3>3. P!ToldOf(v, id)
        BY <2>3, <3>2 DEF P!ToldOf
      <3> QED
        BY <1>1, <2>3, <3>2, <3>3 DEF PeripheralFormInv, CallsHonest
    <2>4. ~formUnheard' => CallsHonest'
      BY <2>3 DEF CallsHonest
    <2> QED
      BY <1>1, <1>2, <2>1, <2>2, <2>4, StagedUntold
  <1>4. CASE P!Has(call[w].id)
    <2>1. registry' = [registry EXCEPT ![call[w].id] = None]
      BY <1>4 DEF P!TakeOut, P!Set
    <2>2. \A id \in Id : registry'[id] = IF id = call[w].id THEN None ELSE registry[id]
      BY <2>1 DEF ServerTypes, Registries
    <2>3. /\ \A v \in P!Who : v # w => call'[v] = call[v]
          /\ call'[w].stage \in {"remove", "adding", "restoring"}
          /\ \A id \in Id : id = call[w].id => ToTell(call'[w], id)
      <3>1. CASE call[w].kind = "delete" /\ P!Stage(w, "remove")
        BY <3>1, Staged DEF CallStages, ToTell
      <3>2. CASE call[w].kind = "patch" /\ P!Stage(w, "adding")
        BY <3>2, Staged DEF CallStages, ToTell
      <3>3. CASE call' = [call EXCEPT ![w].to = call[w].id, ![w].conf = registry[call[w].id],
                                      ![w].stage = "restoring"]
        <4>1. call'[w].stage = "restoring" /\ call'[w].to = call[w].id
          BY <3>3, <1>0 DEF CallRecs
        <4>2. \A v \in P!Who : v # w => call'[v] = call[v]
          BY <3>3 DEF ServerTypes
        <4> QED
          BY <4>1, <4>2 DEF ToTell
      <3> QED
        BY <1>4, <3>1, <3>2, <3>3 DEF P!TakeOut
    <2>4. ~formUnheard' => CallsHonest'
      <3> SUFFICES ASSUME ~formUnheard', NEW v \in P!Who, NEW id \in Id, P!ToldOf(v, id)'
                   PROVE  registry'[id] = call'[v].conf
        BY DEF CallsHonest
      <3>1. v # w
        BY <2>3 DEF P!ToldOf
      <3>2. P!ToldOf(v, id) /\ call'[v].conf = call[v].conf
        BY <2>3, <3>1 DEF P!ToldOf
      <3>3. id # call[w].id
        BY <1>1, <3>2
      <3> QED
        BY <1>1, <2>2, <3>2, <3>3 DEF PeripheralFormInv, CallsHonest
    <2>5. \A id \in Id : registry'[id] = registry[id] \/ ToTell(call'[w], id)
      BY <2>2, <2>3
    <2>6. call'[w].stage # "done"
      BY <2>3
    <2> QED
      BY <1>1, <1>2, <2>3, <2>4, <2>5, <2>6, StagedUntold
  <1> QED
    BY <1>3, <1>4

LEMMA RegisterHonest ==
  ASSUME ServerTypes, PeripheralFormTypes, ServerTypes', PeripheralFormTypes', PeripheralFormInv,
         NEW w \in P!Who, P!Register(w)
  PROVE  PeripheralFormInv'
  <1> USE Whose DEF P!forms
  <1>0. \A v \in P!Who : call[v] \in CallRecs /\ CallFits(call[v]) /\ v \in DOMAIN call
    BY DEF ServerTypes
  <1>1. /\ UNCHANGED <<events, form, formGet, opens>> /\ call[w].stage = "adding"
        /\ registry' = [registry EXCEPT ![call[w].to] = call[w].conf]
        /\ formUnheard' = (formUnheard \/ P!Has(call[w].to)
             \/ (call[w].kind = "patch" /\ call[w].to # call[w].id /\
                   (~P!Own(w) \/ \E i \in DOMAIN events : events[i].id = call[w].id)))
    BY DEF P!Register, P!FormKept, P!Set
  <1>2. PICK st \in {"add", "ports"} : P!Stage(w, st) /\ (st = "add" <=> call[w].kind = "post")
    BY DEF P!Register
  <1>3. /\ \A v \in P!Who : v # w => call'[v] = call[v]
        /\ call'[w].stage = st /\ call'[w].kind = call[w].kind /\ call'[w].to = call[w].to
        /\ call'[w].conf = call[w].conf /\ call'[w].id = call[w].id /\ call'[w].from = call[w].from
    BY <1>2, Staged DEF CallStages
  <1>4. call[w].to \in Id /\ call[w].conf \in Config /\ call[w].kind \in {"post", "patch"}
    BY <1>0, <1>1 DEF CallFits
  <1>5. \A id \in Id : registry'[id] = IF id = call[w].to THEN call[w].conf ELSE registry[id]
    BY <1>1 DEF ServerTypes, Registries
  <1> SUFFICES ASSUME ~formUnheard' PROVE PeripheralFormInv'
    BY DEF PeripheralFormInv
  <1>6. registry[call[w].to] = None /\ ~formUnheard
    BY <1>1 DEF P!Has
  <1>7. \A id \in Id : registry'[id] = registry[id] \/ registry[id] = None \/ ToTell(call'[w], id)
    BY <1>5, <1>6
  <1>8. \A id \in Id : ToTell(call[w], id) => \/ ToTell(call'[w], id)
                                              \/ Leaving' /\ \A i \in DOMAIN events : events[i].id # id
    <2> TAKE id \in Id
    <2> HAVE ToTell(call[w], id)
    <2>1. call[w].kind = "patch" /\ call[w].id = id /\ st = "ports"
      BY <1>1, <1>2 DEF ToTell
    <2>2. CASE call[w].to = id
      BY <2>1, <2>2, <1>3 DEF ToTell
    <2>3. CASE call[w].to # id
      <3>1. P!Own(w) /\ \A i \in DOMAIN events : events[i].id # id
        BY <1>1, <2>1, <2>3
      <3>2. Leaving'
        BY <1>1, <1>3, <2>1, <2>3, <3>1 DEF Leaving, P!Own
      <3> QED
        BY <3>1, <3>2
    <2> QED
      BY <2>2, <2>3
  <1>9. ~(w = "page" /\ Leaving)
    BY <1>1 DEF Leaving
  <1>10. CallsHonest'
    <2> SUFFICES ASSUME NEW v \in P!Who, NEW id \in Id, P!ToldOf(v, id)' PROVE registry'[id] = call'[v].conf
      BY DEF CallsHonest
    <2>1. CASE v = w
      <3>1. id = call[w].to
        BY <2>1, <1>3 DEF P!ToldOf
      <3> QED
        BY <2>1, <3>1, <1>3, <1>5
    <2>2. CASE v # w
      <3>1. P!ToldOf(v, id) /\ call'[v].conf = call[v].conf /\ call[v].stage \in {"add", "ports", "update"}
        BY <2>2, <1>3 DEF P!ToldOf
      <3>2. registry[id] = call[v].conf
        BY <3>1, <1>6 DEF PeripheralFormInv, CallsHonest
      <3>3. call[v].conf \in Config
        BY <3>1, <1>0 DEF CallFits
      <3>4. id # call[w].to
        BY <3>2, <3>3, <1>6
      <3> QED
        BY <3>1, <3>2, <3>4, <1>5
    <2> QED
      BY <2>1, <2>2
  <1>11. call'[w].stage # "done"
    BY <1>3
  <1> QED
    BY <1>1, <1>3, <1>6, <1>7, <1>8, <1>9, <1>10, <1>11, StagedUntold

LEMMA AnnouncedHonest ==
  ASSUME ServerTypes, PeripheralFormTypes, ServerTypes', PeripheralFormTypes', PeripheralFormInv,
         NEW w \in P!Who, P!Announced(w)
  PROVE  PeripheralFormInv'
  <1> USE Whose DEF P!forms
  <1>0. \A v \in P!Who : call[v] \in CallRecs /\ CallFits(call[v]) /\ v \in DOMAIN call
    BY DEF ServerTypes
  <1>n. P!NoCall.stage = "none"
    BY DEF P!NoCall
  <1>1. /\ UNCHANGED <<registry, form, formGet, opens, formUnheard>>
        /\ call[w].stage \in {"add", "remove", "update"}
    BY DEF P!Announced, P!Announce
  <1>2. PICK st \in {"ports", "refused", "done"} :
           P!Stage(w, st) /\ (st = "ports" <=> call[w].stage = "add") /\ (st = "refused" => call[w].kind = "undone")
    <2>1. CASE call[w].stage = "add"
      <3>1. call[w].kind = "post"
        BY <2>1, <1>0 DEF CallFits
      <3> QED
        BY <2>1, <3>1 DEF P!Announced
    <2>2. CASE call[w].stage # "add" /\ call[w].kind = "undone"
      BY <2>2 DEF P!Announced
    <2>3. CASE call[w].stage # "add" /\ call[w].kind # "undone"
      BY <2>3 DEF P!Announced
    <2> QED
      BY <2>1, <2>2, <2>3
  <1>3. \A v \in P!Who : v # w => call'[v] = call[v]
    BY <1>2, Staged DEF CallStages
  <1>4. \/ call'[w].stage = "none" /\ st # "ports" /\ w = "others"
        \/ /\ call'[w].stage = st /\ call'[w].kind = call[w].kind /\ call'[w].to = call[w].to
           /\ call'[w].conf = call[w].conf /\ call'[w].id = call[w].id /\ call'[w].from = call[w].from
    <2>1. \/ call'[w] = P!NoCall /\ w = "others" /\ st \in {"done", "refused"}
          \/ call'[w] = [kind |-> call[w].kind, id |-> call[w].id, to |-> call[w].to, conf |-> call[w].conf,
                         stage |-> st, from |-> call[w].from]
      BY <1>2, Staged DEF CallStages
    <2> QED
      BY <2>1, <1>n
  <1>5. /\ call[w].stage = "add" => call[w].kind = "post"
        /\ call[w].stage = "remove" => call[w].kind \in {"delete", "undone"}
        /\ call[w].stage = "update" => call[w].kind \in {"patch", "light"}
        /\ call[w].kind \in {"light", "undone", "delete"} => call[w].to = call[w].id
    BY <1>0 DEF CallFits
  \* The event, what it is about, and what it tells.
  <1>6. PICK e \in EventRecs :
          /\ events' = Append(events, e)
          /\ call[w].stage = "add" => e.type = "add"
          /\ call[w].stage = "remove" => e.type = "remove" /\ e.id = call[w].id
          /\ call[w].stage = "update" => e.type = "update" /\ e.id = call[w].to /\ e.conf = call[w].conf
    <2>0. call[w].id \in Id /\ call[w].to \in Id /\ call[w].conf \in Config \cup {None}
      BY <1>0, <1>1 DEF CallFits, CallRecs
    <2>1. CASE call[w].stage = "add"
      <3> DEFINE e == [type |-> "add", id |-> call[w].to, conf |-> call[w].conf]
      <3>1. e \in EventRecs /\ e.type = "add" /\ events' = Append(events, e)
        BY <2>0, <2>1 DEF EventRecs, P!Announced, P!Announce, P!Trigger
      <3> QED
        BY <3>1, <2>1
    <2>2. CASE call[w].stage = "remove"
      <3> DEFINE e == [type |-> "remove", id |-> call[w].id, conf |-> None]
      <3>1. e \in EventRecs /\ e.type = "remove" /\ e.id = call[w].id /\ events' = Append(events, e)
        BY <2>0, <2>2 DEF EventRecs, P!Announced, P!Announce, P!Trigger
      <3> QED
        BY <3>1, <2>2
    <2>3. CASE call[w].stage = "update"
      <3> DEFINE e == [type |-> "update", id |-> call[w].to, conf |-> call[w].conf]
      <3>1. e \in EventRecs /\ e.type = "update" /\ e.id = call[w].to /\ e.conf = call[w].conf
            /\ events' = Append(events, e)
        BY <2>0, <2>3 DEF EventRecs, P!Announced, P!Announce, P!Trigger
      <3> QED
        BY <3>1, <2>3
    <2> QED
      BY <1>1, <2>1, <2>2, <2>3
  <1>7. /\ DOMAIN events = 1..Len(events) /\ DOMAIN events' = 1..(Len(events) + 1) /\ Len(events) \in Nat
        /\ events'[Len(events) + 1] = e /\ \A i \in DOMAIN events : events'[i] = events[i]
    BY <1>6, AppendProperties, LenProperties DEF ServerTypes
  <1> SUFFICES ASSUME ~formUnheard PROVE PeripheralFormInv'
    BY <1>1 DEF PeripheralFormInv
  <1>8. CallsHonest /\ EventsHonest /\ FormHonest /\ AnswerHonest
    BY DEF PeripheralFormInv
  <1>9. CallsHonest'
    <2> SUFFICES ASSUME NEW v \in P!Who, NEW id \in Id, P!ToldOf(v, id)' PROVE registry'[id] = call'[v].conf
      BY DEF CallsHonest
    <2>1. P!ToldOf(v, id) /\ call'[v].conf = call[v].conf
      <3>1. CASE v = w
        BY <3>1, <1>1, <1>2, <1>4 DEF P!ToldOf
      <3>2. CASE v # w
        BY <3>2, <1>3 DEF P!ToldOf
      <3> QED
        BY <3>1, <3>2
    <2> QED
      BY <2>1, <1>1, <1>8 DEF CallsHonest
  \* About other peripherals than that of the event nothing changes.
  <1>10. ASSUME NEW id \in Id, ~Tells(e, id), \A v \in P!Who : ~ToTell(call'[v], id)
         PROVE  \A v \in P!Who : ~ToTell(call[v], id)
    <2> TAKE v \in P!Who
    <2>1. CASE v = w
      BY <2>1, <1>1, <1>5, <1>6, <1>10 DEF ToTell, Tells
    <2>2. CASE v # w
      BY <2>2, <1>3, <1>10
    <2> QED
      BY <2>1, <2>2
  <1>11. EventsHonest'
    <2> SUFFICES ASSUME NEW id \in Id, Untelling(id)', NEW i \in DOMAIN events', events'[i].type = "update",
                        events'[i].id = id, \A j \in DOMAIN events' : j > i => ~Tells(events'[j], id)
                 PROVE  events'[i].conf = registry'[id]
      BY DEF EventsHonest
    <2>1. \A v \in P!Who : ~ToTell(call'[v], id)
      BY DEF Untelling
    <2>2. CASE i = Len(events) + 1
      <3>1. call[w].stage = "update" /\ e.id = id /\ call[w].to = id /\ e.conf = call[w].conf
        BY <2>2, <1>1, <1>6, <1>7
      <3>2. P!ToldOf(w, id)
        BY <3>1 DEF P!ToldOf
      <3> QED
        BY <2>2, <3>1, <3>2, <1>1, <1>7, <1>8 DEF CallsHonest
    <2>3. CASE i # Len(events) + 1
      <3>1. i \in DOMAIN events /\ Len(events) + 1 > i /\ Len(events) + 1 \in DOMAIN events'
        BY <2>3, <1>7
      <3>2. ~Tells(e, id)
        BY <3>1, <1>7
      <3>3. Untelling(id)
        BY <2>1, <3>2, <1>10 DEF Untelling
      <3>4. \A j \in DOMAIN events : j > i => ~Tells(events[j], id)
        <4> TAKE j \in DOMAIN events
        <4>1. j \in DOMAIN events' /\ events'[j] = events[j]
          BY <1>7
        <4> QED
          BY <4>1
      <3> QED
        BY <3>1, <3>3, <3>4, <1>1, <1>7, <1>8 DEF EventsHonest
    <2> QED
      BY <2>2, <2>3
  <1>12. ASSUME NEW id \in Id, QuietAbout(id)'
         PROVE  ~Tells(e, id) /\ QuietAbout(id)
    <2>1. (\A v \in P!Who : ~ToTell(call'[v], id)) /\ \A i \in DOMAIN events' : ~Tells(events'[i], id)
      BY <1>12 DEF QuietAbout, Untelling
    <2>2. ~Tells(e, id) /\ \A i \in DOMAIN events : ~Tells(events[i], id)
      <3>1. Len(events) + 1 \in DOMAIN events' /\ \A i \in DOMAIN events : i \in DOMAIN events'
        BY <1>7
      <3> QED
        BY <2>1, <3>1, <1>7
    <2> QED
      BY <2>1, <2>2, <1>10 DEF QuietAbout, Untelling
  <1>13. FormHonest'
    <2> SUFFICES ASSUME form # None, form.state = "ready", (~form.edited \/ ApplyEnded)', QuietAbout(Goal)', ~Leaving'
                 PROVE  form.data = registry[Goal']
      BY <1>1 DEF FormHonest
    <2>1. CASE w = "page" /\ P!Own("page") /\ call[w].stage = "update"
      <3>1. ApplyEnded' /\ call'["page"].to = call["page"].to /\ call["page"].to \in Id
        <4>1. st = "done"
          BY <2>1, <1>2, <1>5
        <4>2. call'["page"].stage = "done" /\ call'["page"].kind = call["page"].kind /\ call'["page"].to = call["page"].to
              /\ call'["page"].from = call["page"].from
          BY <2>1, <4>1, <1>4
        <4> QED
          BY <2>1, <4>2, <1>0, <1>1, <1>5 DEF ApplyEnded, P!Own, CallFits
      <3>2. Goal' = call["page"].to
        BY <3>1 DEF Goal
      <3>3. PICK id \in Id : id = call["page"].to /\ Goal' = id
        BY <3>1, <3>2
      <3>4. QuietAbout(id)'
        BY <3>3 DEF QuietAbout, Untelling
      <3>5. Tells(e, id)
        BY <2>1, <3>3, <1>6 DEF Tells
      <3> QED
        BY <3>4, <3>5, <1>12
    <2>2. CASE ~(w = "page" /\ P!Own("page") /\ call[w].stage = "update")
      <3>1. (ApplyEnded' <=> ApplyEnded) /\ (Leaving' <=> Leaving) /\ (ApplyEnded => call'["page"].to = call["page"].to)
        <4>1. CASE w = "page"
          <5>1. ~ApplyEnded /\ ~Leaving
            BY <4>1, <2>2, <1>1, <1>5 DEF ApplyEnded, Leaving
          <5>2. ~ApplyEnded' /\ ~Leaving'
            BY <4>1, <2>2, <1>1, <1>2, <1>4, <1>5 DEF ApplyEnded, Leaving, P!Own
          <5> QED
            BY <5>1, <5>2
        <4>2. CASE w # "page"
          <5>1. call'["page"] = call["page"]
            BY <4>2, <1>3
          <5> QED
            BY <5>1, <1>1 DEF ApplyEnded, Leaving, P!Own
        <4> QED
          BY <4>1, <4>2
      <3>2. Goal' = Goal /\ Goal \in Id
        <4>1. ApplyEnded => call["page"].to \in Id
          BY <1>0 DEF ApplyEnded, CallFits
        <4>2. form.id \in Id
          BY DEF PeripheralFormTypes, FormRecs
        <4> QED
          BY <3>1, <4>1, <4>2, <1>1 DEF Goal
      <3>3. PICK id \in Id : id = Goal /\ Goal' = id
        BY <3>2
      <3>4. QuietAbout(id)'
        BY <3>3 DEF QuietAbout, Untelling
      <3>5. QuietAbout(id)
        BY <3>4, <1>12
      <3> QED
        BY <3>1, <3>3, <3>5, <1>1, <1>8 DEF FormHonest
    <2> QED
      BY <2>1, <2>2
  <1>14. AnswerHonest'
    <2> SUFFICES ASSUME formGet.stage = "answered", QuietAbout(form.id)', formGet.answer[form.id] # None
                 PROVE  formGet.answer[form.id] = registry[form.id]
      BY <1>1 DEF AnswerHonest
    <2>1. PICK id \in Id : id = form.id /\ form'.id = id
      BY <1>1 DEF PeripheralFormTypes, FormRecs
    <2>2. QuietAbout(id)'
      BY <2>1 DEF QuietAbout, Untelling
    <2>3. QuietAbout(form.id)
      BY <2>1, <2>2, <1>12
    <2> QED
      BY <2>3, <1>8 DEF AnswerHonest
  <1> QED
    BY <1>9, <1>11, <1>13, <1>14 DEF PeripheralFormInv

LEMMA ServerEventHonest ==
  ASSUME ServerTypes, PeripheralFormTypes, ServerTypes', PeripheralFormTypes', PeripheralFormInv,
         P!OnServerEvent
  PROVE  PeripheralFormInv'
  <1> USE Whose
  <1> DEFINE hd == Head(events)
  <1>1. PICK e \in EventRecs :
          /\ e = events[1] /\ events' = Tail(events) /\ 1 \in DOMAIN events
          /\ \/ e.type = "add" /\ P!OnAdd(e)
             \/ e.type = "remove" /\ P!OnRemove(e)
             \/ e.type = "update" /\ P!OnUpdate(e)
          /\ formUnheard' = (formUnheard \/ formGet' # P!NoGet \/ P!Overtaken(e))
    <2>1. hd \in EventRecs /\ hd = events[1] /\ 1 \in DOMAIN events
      BY HeadTailProperties DEF P!OnServerEvent, ServerTypes
    <2> QED
      BY <2>1 DEF P!OnServerEvent
  <1>2. UNCHANGED <<registry, call, opens>>
    BY DEF P!OnServerEvent
  <1>3. /\ \A i \in DOMAIN events' : i + 1 \in DOMAIN events /\ events'[i] = events[i + 1]
        /\ \A i \in DOMAIN events : i # 1 => i - 1 \in DOMAIN events' /\ events'[i - 1] = events[i]
        /\ \A i \in DOMAIN events : i \in Nat
    <2>1. events \in Seq(EventRecs) /\ events # <<>>
      BY DEF P!OnServerEvent, ServerTypes
    <2>2. /\ Len(events) \in Nat /\ DOMAIN events = 1..Len(events)
          /\ Tail(events) \in Seq(EventRecs) /\ Len(Tail(events)) = Len(events) - 1
          /\ \A i \in 1..(Len(events) - 1) : Tail(events)[i] = events[i + 1]
      BY <2>1, HeadTailProperties, LenProperties
    <2>3. DOMAIN Tail(events) = 1..(Len(events) - 1)
      BY <2>2, LenProperties
    <2> QED
      BY <2>2, <2>3, <1>1
  <1> HIDE DEF hd
  <1> SUFFICES ASSUME ~formUnheard' PROVE PeripheralFormInv'
    BY DEF PeripheralFormInv
  <1>4. ~formUnheard /\ formGet' = P!NoGet /\ ~P!Overtaken(e)
    BY <1>1
  <1>5. CallsHonest /\ EventsHonest /\ FormHonest
    BY <1>4 DEF PeripheralFormInv
  <1>6. CallsHonest'
    BY <1>2, <1>5 DEF CallsHonest, P!ToldOf
  <1>7. \A id \in Id : Untelling(id)' => Untelling(id)
    BY <1>2 DEF Untelling
  <1>8. EventsHonest'
    <2> SUFFICES ASSUME NEW id \in Id, Untelling(id)', NEW i \in DOMAIN events', events'[i].type = "update",
                        events'[i].id = id, \A j \in DOMAIN events' : j > i => ~Tells(events'[j], id)
                 PROVE  events'[i].conf = registry[id]
      BY <1>2 DEF EventsHonest
    <2>1. i + 1 \in DOMAIN events /\ events'[i] = events[i + 1] /\ i + 1 \in Nat /\ i + 1 # 1
      <3>1. i + 1 \in DOMAIN events /\ events'[i] = events[i + 1]
        BY <1>3
      <3>2. i \in Nat \ {0}
        BY LenProperties DEF ServerTypes
      <3> QED
        BY <3>1, <3>2
    <2>2. \A j \in DOMAIN events : j > i + 1 => ~Tells(events[j], id)
      <3> TAKE j \in DOMAIN events
      <3> HAVE j > i + 1
      <3>1. i \in Nat /\ j \in Nat
        BY <1>3, LenProperties DEF ServerTypes
      <3>2. j # 1 /\ j - 1 > i
        BY <3>1
      <3> QED
        BY <3>2, <1>3
    <2> QED
      BY <2>1, <2>2, <1>5, <1>7 DEF EventsHonest
  <1>9. AnswerHonest'
    BY <1>4 DEF AnswerHonest, P!NoGet
  <1>10. FormHonest'
    <2> SUFFICES ASSUME form' # None, form'.state = "ready", (~form.edited \/ ApplyEnded)', QuietAbout(Goal)', ~Leaving'
                 PROVE  form'.data = registry[Goal']
      BY <1>2 DEF FormHonest
    <2>1. /\ form # None /\ form.state = "ready" /\ form'.id = form.id
          /\ \/ form' = form
             \/ e.type = "update" /\ e.id = form.id /\ form'.data = e.conf
      <3>1. CASE form' = form
        BY <3>1
      <3>2. CASE form' # form
        <4>1. e.type = "update" /\ form # None /\ form.id = e.id
              /\ form' = [form EXCEPT !.data = e.conf, !.edited = FALSE]
          BY <3>2, <1>1 DEF P!OnAdd, P!OnRemove, P!OnUpdate, P!FromPeripheral
        <4>2. form \in FormRecs
          BY <4>1 DEF PeripheralFormTypes
        <4>3. form'.id = form.id /\ form'.data = e.conf /\ form'.state = form.state
          BY <4>1, <4>2 DEF FormRecs
        <4> QED
          BY <4>1, <4>3
      <3> QED
        BY <3>1, <3>2
    <2>2. /\ form.data \in Config /\ form.id \in Id
          /\ ApplyEnded => call["page"].to \in Id /\ call["page"].id = form.id
          /\ ApplyEnded /\ call["page"].kind = "light" => call["page"].to = call["page"].id
      <3>1. ApplyEnded => call["page"].to \in Id
        BY DEF ApplyEnded, ServerTypes, CallFits
      <3>2. ApplyEnded /\ call["page"].kind = "light" => call["page"].to = call["page"].id
        BY DEF ServerTypes, CallFits
      <3> QED
        BY <2>1, <3>1, <3>2 DEF PeripheralFormTypes, FormRecs, ApplyEnded
    <2>3. (ApplyEnded' <=> ApplyEnded) /\ (Leaving' <=> Leaving)
      BY <2>1, <1>2 DEF ApplyEnded, Leaving, P!Own
    <2>4. PICK g \in Id : g = Goal /\ Goal' = g
      <3>1. Goal' = Goal
        BY <2>1, <2>3, <1>2 DEF Goal
      <3>2. Goal \in Id
        BY <2>2 DEF Goal
      <3> QED
        BY <3>1, <3>2
    <2>5. QuietAbout(g)'
      BY <2>4 DEF QuietAbout, Untelling
    <2>6. Untelling(g) /\ \A i \in DOMAIN events : i # 1 => ~Tells(events[i], g)
      <3>1. Untelling(g)' /\ \A i \in DOMAIN events' : ~Tells(events'[i], g)
        BY <2>5 DEF QuietAbout
      <3> QED
        BY <3>1, <1>3, <1>7
    \* What comes is not overtaken: it tells what the form shows already.
    <2>7. ApplyEnded /\ g # form.id /\ e.id \in {form.id, g} => e.conf = form.data
      <3> SUFFICES ASSUME ApplyEnded, g # form.id, e.id \in {form.id, g} PROVE e.conf = form.data
        OBVIOUS
      <3>1. g = call["page"].to /\ call["page"].id = form.id
        BY <2>2, <2>4 DEF Goal
      <3>2. call["page"].kind = "patch"
        BY <2>2, <3>1 DEF ApplyEnded
      <3> QED
        BY <1>4, <3>1, <3>2 DEF P!Overtaken, ApplyEnded
    <2>8. ASSUME ~Tells(e, g) PROVE form'.data = registry[g]
      <3>1. QuietAbout(g)
        BY <2>6, <2>8, <1>1 DEF QuietAbout
      <3>2. CASE form' = form
        BY <2>1, <2>3, <2>4, <3>1, <3>2, <1>5 DEF FormHonest
      <3>3. CASE e.type = "update" /\ e.id = form.id /\ form'.data = e.conf
        <4>1. g # form.id
          BY <2>8, <3>3 DEF Tells
        <4>2. ApplyEnded
          BY <2>4, <4>1 DEF Goal
        <4>3. e.conf = form.data
          BY <2>7, <3>3, <4>1, <4>2
        <4>4. form.data = registry[g]
          BY <2>1, <2>3, <2>4, <3>1, <4>2, <1>5 DEF FormHonest
        <4> QED
          BY <3>3, <4>3, <4>4
      <3> QED
        BY <2>1, <3>2, <3>3
    <2>9. ASSUME Tells(e, g) PROVE form'.data = registry[g]
      <3>1. e.type # "remove"
        <4> SUFFICES ASSUME e.type = "remove" PROVE FALSE
          OBVIOUS
        <4>1. e.conf = None
          BY <1>1 DEF ServerTypes
        <4>2. CASE g = form.id
          BY <2>1, <2>9, <4>2, <1>1 DEF P!OnRemove, Tells
        <4>3. CASE g # form.id
          <5>1. ApplyEnded
            BY <2>4, <4>3 DEF Goal
          <5>2. e.conf = form.data
            BY <2>7, <2>9, <4>3, <5>1 DEF Tells
          <5> QED
            BY <4>1, <5>2, <2>2
        <4> QED
          BY <4>2, <4>3
      <3>2. e.type = "update" /\ e.id = g
        BY <2>9, <3>1 DEF Tells
      <3>3. e.conf = registry[g]
        <4>1. \A j \in DOMAIN events : j > 1 => ~Tells(events[j], g)
          BY <2>6
        <4> QED
          BY <2>6, <3>2, <4>1, <1>1, <1>5 DEF EventsHonest
      <3>4. CASE g = form.id
        <4>1. form' = [form EXCEPT !.data = e.conf, !.edited = FALSE]
          BY <2>1, <3>2, <3>4, <1>1 DEF P!OnUpdate, P!FromPeripheral
        <4>2. form \in FormRecs
          BY <2>1 DEF PeripheralFormTypes
        <4> QED
          BY <3>3, <4>1, <4>2 DEF FormRecs
      <3>5. CASE g # form.id
        <4>1. form' = form
          BY <2>1, <3>2, <3>5
        <4>2. ApplyEnded
          BY <2>4, <3>5 DEF Goal
        <4> QED
          BY <2>7, <3>2, <3>3, <3>5, <4>1, <4>2
      <3> QED
        BY <3>4, <3>5
    <2> QED
      BY <2>4, <2>8, <2>9
  <1> QED
    BY <1>6, <1>8, <1>9, <1>10 DEF PeripheralFormInv

LEMMA PageHonest ==
  ASSUME ServerTypes, PeripheralFormTypes, ServerTypes', PeripheralFormTypes', PeripheralFormInv,
         \/ P!UpdateUI
         \/ \E i \in DOMAIN gets : P!ServeGet(i) \/ P!GotList(i) \/ P!GetFails(i)
         \/ \E id \in Id : P!OpenForm(id)
         \/ P!Answered
         \/ P!ServeFormGet \/ P!Load \/ P!CloseForm
         \/ \E c \in Config : P!Edit(c)
         \/ UNCHANGED P!pvars
  PROVE  PeripheralFormInv'
  <1> USE Whose DEF P!server, P!list, P!forms
  <1>0. \A v \in P!Who : call[v] \in CallRecs /\ CallFits(call[v]) /\ v \in DOMAIN call
    BY DEF ServerTypes
  <1>n. P!NoCall.stage = "none" /\ P!NoGet.stage = "none"
    BY DEF P!NoCall, P!NoGet
  \* What leaves the server alone leaves what calls and events tell.
  <1>a. ASSUME UNCHANGED <<registry, events, call>>
        PROVE  /\ CallsHonest => CallsHonest'
               /\ EventsHonest => EventsHonest'
               /\ \A id \in Id : QuietAbout(id)' => QuietAbout(id)
    BY <1>a DEF CallsHonest, P!ToldOf, EventsHonest, Untelling, QuietAbout
  <1>1. CASE \/ P!UpdateUI
             \/ \E i \in DOMAIN gets : P!ServeGet(i) \/ P!GotList(i) \/ P!GetFails(i)
             \/ UNCHANGED P!pvars
    <2>1. UNCHANGED <<registry, events, call, form, formGet, opens, formUnheard>>
      BY <1>1 DEF P!UpdateUI, P!ServeGet, P!GotList, P!GetFails, P!pvars
    <2> QED
      BY <2>1 DEF PeripheralFormInv, CallsHonest, EventsHonest, FormHonest, AnswerHonest, QuietAbout, Untelling,
         ApplyEnded, Leaving, Goal, P!Own, P!ToldOf
  <1>2. ASSUME NEW id \in Id, P!OpenForm(id) PROVE PeripheralFormInv'
    <2> DEFINE f == [id |-> id, state |-> "loading", data |-> None, edited |-> FALSE]
    <2>1. /\ form' = f /\ UNCHANGED <<registry, events, call>> /\ formGet'.stage = "asked"
          /\ formUnheard' = (formUnheard /\ ~P!AtRest)
      BY <1>2 DEF P!OpenForm, P!NewForm, P!NoGet
    <2>2. FormHonest' /\ AnswerHonest'
      BY <2>1 DEF FormHonest, AnswerHonest
    <2>3. CASE formUnheard
      <3> SUFFICES ASSUME ~formUnheard' PROVE PeripheralFormInv'
        BY DEF PeripheralFormInv
      <3>1. P!AtRest
        BY <2>1, <2>3
      <3>2. CallsHonest'
        BY <2>1, <3>1, <1>n DEF P!AtRest, CallsHonest, P!ToldOf
      <3>3. EventsHonest'
        BY <2>1, <3>1 DEF P!AtRest, EventsHonest
      <3> QED
        BY <2>2, <3>2, <3>3 DEF PeripheralFormInv
    <2>4. CASE ~formUnheard
      BY <2>1, <2>2, <2>4, <1>a DEF PeripheralFormInv
    <2> QED
      BY <2>3, <2>4
  <1>3. CASE P!Answered
    <2>1. /\ UNCHANGED <<registry, events, opens, formUnheard>> /\ call["page"].stage \in {"done", "refused"}
          /\ call'["page"] = P!NoCall /\ \A v \in P!Who : v # "page" => call'[v] = call[v]
          /\ IF call["page"].stage = "done" THEN P!ApplyDone ELSE UNCHANGED form
          /\ formGet' = IF form' = None THEN P!NoGet ELSE formGet
      BY <1>3 DEF P!Answered, ServerTypes
    <2> SUFFICES ASSUME ~formUnheard PROVE PeripheralFormInv'
      BY <2>1 DEF PeripheralFormInv
    <2>2. CallsHonest /\ EventsHonest /\ FormHonest /\ AnswerHonest
      BY DEF PeripheralFormInv
    <2>3. \A v \in P!Who, id \in Id : ToTell(call'[v], id) <=> ToTell(call[v], id)
      <3> TAKE v \in P!Who, id \in Id
      <3>1. CASE v = "page"
        BY <2>1, <3>1, <1>n DEF ToTell
      <3> QED
        BY <2>1, <3>1
    <2>4. \A id \in Id : (Untelling(id)' <=> Untelling(id)) /\ (QuietAbout(id)' <=> QuietAbout(id))
      BY <2>1, <2>3 DEF Untelling, QuietAbout
    <2>5. CallsHonest'
      <3>1. \A v \in P!Who, id \in Id : P!ToldOf(v, id)' => P!ToldOf(v, id) /\ v # "page"
        BY <2>1, <1>n DEF P!ToldOf
      <3> QED
        BY <2>1, <2>2, <3>1 DEF CallsHonest
    <2>6. EventsHonest'
      BY <2>1, <2>2, <2>4 DEF EventsHonest
    <2>7. ~ApplyEnded' /\ ~Leaving' /\ ~Leaving
      BY <2>1, <1>n DEF ApplyEnded, Leaving
    <2>8. Goal' = form'.id
      BY <2>7 DEF Goal
    <2>9. FormHonest'
      <3> SUFFICES ASSUME form' # None, form'.state = "ready", ~form'.edited \/ ApplyEnded', QuietAbout(Goal)'
                   PROVE  form'.data = registry[Goal']
        BY <2>1 DEF FormHonest
      <3>1. CASE ApplyEnded
        <4>1. form' = [form EXCEPT !.id = call["page"].to, !.edited = FALSE] /\ form # None
          BY <2>1, <3>1 DEF P!ApplyDone, ApplyEnded, P!Own
        <4>2. form \in FormRecs /\ form.state = "ready" /\ call["page"].to \in Id
          BY <3>1, <4>1, <1>0 DEF PeripheralFormTypes, ApplyEnded, CallFits
        <4>3. form'.id = call["page"].to /\ form'.data = form.data
          BY <4>1, <4>2 DEF FormRecs
        <4>4. PICK g \in Id : g = Goal /\ Goal' = g
          BY <2>8, <3>1, <4>2, <4>3 DEF Goal
        <4>5. QuietAbout(g)'
          BY <4>4 DEF QuietAbout, Untelling
        <4>6. QuietAbout(g)
          BY <2>4, <4>5
        <4> QED
          BY <2>2, <2>7, <3>1, <4>1, <4>2, <4>3, <4>4, <4>6 DEF FormHonest
      <3>2. CASE ~ApplyEnded
        <4>1. form' = form
          BY <2>1, <3>2 DEF P!ApplyDone, ApplyEnded
        <4>2. PICK g \in Id : g = Goal /\ Goal' = g
          BY <2>8, <3>2, <4>1 DEF Goal, PeripheralFormTypes, FormRecs
        <4>3. QuietAbout(g)'
          BY <4>2 DEF QuietAbout, Untelling
        <4>4. QuietAbout(g)
          BY <2>4, <4>3
        <4> QED
          BY <2>2, <2>7, <3>2, <4>1, <4>2, <4>4 DEF FormHonest
      <3> QED
        BY <3>1, <3>2
    <2>10. AnswerHonest'
      <3> SUFFICES ASSUME formGet'.stage = "answered", QuietAbout(form.id)', formGet'.answer[form'.id] # None
                   PROVE  formGet'.answer[form'.id] = registry[form'.id]
        BY <2>1 DEF AnswerHonest
      <3>1. formGet' = formGet
        BY <2>1, <1>n
      <3>2. form' # None /\ form.state = "loading" /\ form \in FormRecs
        BY <2>1, <3>1, <1>n DEF PeripheralFormTypes
      <3>3. form' = form
        BY <2>1, <3>2 DEF P!ApplyDone, PeripheralFormTypes
      <3>4. PICK g \in Id : g = form.id /\ form'.id = g
        BY <3>2, <3>3 DEF FormRecs
      <3>5. QuietAbout(g)'
        BY <3>4 DEF QuietAbout, Untelling
      <3>6. QuietAbout(g)
        BY <2>4, <3>5
      <3> QED
        BY <2>2, <3>1, <3>4, <3>6 DEF AnswerHonest
    <2> QED
      BY <2>5, <2>6, <2>9, <2>10 DEF PeripheralFormInv
  <1>4. CASE P!ServeFormGet
    <2>1. /\ UNCHANGED <<registry, events, call, form, opens, formUnheard>>
          /\ formGet' = [stage |-> "answered", answer |-> registry] /\ formGet.stage = "asked"
      BY <1>4 DEF P!ServeFormGet
    <2>2. form.state # "ready"
      BY <2>1 DEF PeripheralFormTypes
    <2>3. FormHonest' /\ AnswerHonest'
      BY <2>1, <2>2 DEF FormHonest, AnswerHonest
    <2> QED
      BY <2>1, <2>3, <1>a DEF PeripheralFormInv
  <1>5. CASE P!Load
    <2>1. /\ UNCHANGED <<registry, events, call, opens, formUnheard>> /\ formGet.stage = "answered"
          /\ formGet'.stage = "none" /\ form \in FormRecs
      BY <1>5, <1>n DEF P!Load, PeripheralFormTypes
    <2>2. form'.state = "ready" => formGet.answer[form.id] # None /\ form'.data = formGet.answer[form.id]
      <3>1. CASE formGet.answer[form.id] # None
        <4>1. form' = [form EXCEPT !.state = "ready", !.data = formGet.answer[form.id], !.edited = FALSE]
          BY <1>5, <3>1 DEF P!Load
        <4> QED
          BY <2>1, <3>1, <4>1 DEF FormRecs
      <3>2. CASE formGet.answer[form.id] = None
        <4>1. form' = [form EXCEPT !.state = "error"]
          BY <1>5, <3>2 DEF P!Load
        <4> QED
          BY <2>1, <4>1 DEF FormRecs
      <3> QED
        BY <3>1, <3>2
    <2>3. form'.id = form.id
      BY <1>5, <2>1 DEF P!Load, FormRecs
    <2>4. ~ApplyEnded'
      BY <2>1 DEF ApplyEnded, P!Own, PeripheralFormTypes
    <2>5. Goal' = form.id
      BY <2>3, <2>4 DEF Goal
    <2>6. AnswerHonest => FormHonest'
      <3> SUFFICES ASSUME AnswerHonest, form'.state = "ready", QuietAbout(Goal)'
                   PROVE  form'.data = registry[Goal']
        BY <2>1 DEF FormHonest
      <3>1. PICK g \in Id : g = form.id /\ Goal' = g
        BY <2>1, <2>5 DEF FormRecs
      <3>2. QuietAbout(g)'
        BY <3>1 DEF QuietAbout, Untelling
      <3>3. QuietAbout(g)
        BY <2>1, <3>2, <1>a
      <3> QED
        BY <2>1, <2>2, <3>1, <3>3 DEF AnswerHonest
    <2>7. AnswerHonest'
      BY <2>1 DEF AnswerHonest
    <2> QED
      BY <2>1, <2>6, <2>7, <1>a DEF PeripheralFormInv
  <1>6. CASE P!CloseForm
    <2>1. UNCHANGED <<registry, events, call, opens, formUnheard>> /\ form' = None /\ formGet'.stage = "none"
      BY <1>6, <1>n DEF P!CloseForm
    <2>2. FormHonest' /\ AnswerHonest'
      BY <2>1 DEF FormHonest, AnswerHonest
    <2> QED
      BY <2>1, <2>2, <1>a DEF PeripheralFormInv
  <1>7. ASSUME NEW c \in Config, P!Edit(c) PROVE PeripheralFormInv'
    <2>1. /\ UNCHANGED <<registry, events, call, formGet, opens, formUnheard>> /\ call["page"] = P!NoCall
          /\ form' = [form EXCEPT !.data = c, !.edited = TRUE] /\ form # None /\ form.state = "ready"
      BY <1>7 DEF P!Edit
    <2>2. form'.edited = TRUE /\ formGet.stage = "none"
      BY <2>1 DEF PeripheralFormTypes, FormRecs
    <2>3. ~ApplyEnded'
      BY <2>1, <1>n DEF ApplyEnded
    <2>4. FormHonest' /\ AnswerHonest'
      BY <2>1, <2>2, <2>3 DEF FormHonest, AnswerHonest
    <2> QED
      BY <2>1, <2>4, <1>a DEF PeripheralFormInv
  <1> QED
    BY <1>1, <1>2, <1>3, <1>4, <1>5, <1>6, <1>7

PeripheralsInv ==
    /\ ServerTypes /\ PeripheralListTypes /\ PeripheralFormTypes
    /\ PeripheralListInv /\ PeripheralFormInv

LEMMA PeripheralsInit == P!Init => PeripheralsInv
  <1> SUFFICES ASSUME P!Init PROVE PeripheralsInv
    OBVIOUS
  <1> USE Whose
  <1>1. /\ P!NoCall \in CallRecs /\ CallFits(P!NoCall) /\ P!NoCall.stage = "none" /\ P!NoCall.kind = "none"
        /\ P!NoCall.from = 0
    BY DEF P!NoCall, CallRecs, Kinds, CallStages, CallFits
  <1>2. P!NoGet = [stage |-> P!NoGet.stage, answer |-> P!NoGet.answer] /\ P!NoGet.stage = "none"
    BY DEF P!NoGet
  <1>3. ServerTypes
    <2>1. \A w \in P!Who : call[w] = P!NoCall
      BY DEF P!Init
    <2>2. call \in [P!Who -> CallRecs]
      BY <1>1 DEF P!Init
    <2>3. events \in Seq(EventRecs) /\ DOMAIN events = {}
      BY DEF P!Init
    <2> QED
      BY <2>1, <2>2, <2>3, <1>1 DEF P!Init, ServerTypes, Registries
  <1>4. PeripheralListTypes
    <2>1. gets \in Seq(GetRecs) /\ DOMAIN gets = {}
      BY DEF P!Init
    <2> QED
      BY <2>1 DEF P!Init, PeripheralListTypes, Registries
  <1>5. PeripheralFormTypes
    <2>1. call["page"] = P!NoCall
      BY DEF P!Init
    <2>2. /\ formGet = P!NoGet /\ form = None /\ opens = 0 /\ formUnheard = FALSE
      BY DEF P!Init
    <2>3. call["page"].from <= opens /\ ~P!Own("page")
      BY <2>1, <2>2, <1>1 DEF P!Own
    <2>4. formGet = [stage |-> formGet.stage, answer |-> formGet.answer] /\ formGet.stage = "none"
      BY <2>2, <1>2
    <2> QED
      BY <2>2, <2>3, <2>4 DEF PeripheralFormTypes
  <1>6. PeripheralListInv
    <2>1. DOMAIN gets = {} /\ items = registry
      BY DEF P!Init
    <2> QED
      BY <2>1 DEF PeripheralListInv, Shows
  <1>7. PeripheralFormInv
    <2>1. CallsHonest
      BY <1>1 DEF P!Init, CallsHonest, P!ToldOf
    <2>2. EventsHonest
      BY DEF P!Init, EventsHonest
    <2>3. FormHonest /\ AnswerHonest
      BY <1>2 DEF P!Init, FormHonest, AnswerHonest
    <2> QED
      BY <2>1, <2>2, <2>3 DEF PeripheralFormInv
  <1> QED
    BY <1>3, <1>4, <1>5, <1>6, <1>7 DEF PeripheralsInv

LEMMA PeripheralsInvStep == PeripheralsInv /\ [P!Next]_(P!pvars) => PeripheralsInv'
  <1> SUFFICES ASSUME PeripheralsInv, [P!Next]_(P!pvars) PROVE PeripheralsInv'
    OBVIOUS
  <1>1. ServerTypes /\ PeripheralListTypes /\ PeripheralFormTypes /\ PeripheralListInv /\ PeripheralFormInv
    BY DEF PeripheralsInv
  <1>2. ServerTypes' /\ PeripheralListTypes' /\ PeripheralListInv' /\ PeripheralFormTypes'
    BY <1>1, ServerTypesStep, PeripheralListStep, PeripheralFormTypesStep
  <1>3. PeripheralFormInv'
    <2>1. ASSUME NEW w \in P!Who,
                 \/ Sends(w) \/ P!Begin(w) \/ P!TakeOut(w) \/ P!Register(w) \/ P!Restore(w)
                 \/ P!InitPorts(w) \/ P!InitPortsFails(w) \/ P!Announced(w)
          PROVE  PeripheralFormInv'
      BY <2>1, <1>1, <1>2, CallStagesHonest, TakeOutHonest, RegisterHonest, AnnouncedHonest
    <2>2. CASE P!OnServerEvent
      BY <2>2, <1>1, <1>2, ServerEventHonest
    <2>3. CASE UNCHANGED P!pvars
      BY <2>3, <1>1, <1>2, PageHonest
    <2> QED
      BY <2>1, <2>2, <2>3, <1>1, <1>2, PeripheralsActions, PageHonest
  <1> QED
    BY <1>2, <1>3 DEF PeripheralsInv

LEMMA PeripheralsAgree == PeripheralsInv => PeripheralsSettle
  <1> SUFFICES ASSUME PeripheralsInv PROVE P!ListSettles /\ P!FormSettles
    BY DEF PeripheralsSettle, P!PeripheralsSettle
  <1> USE Whose
  <1>1. \A id \in Id : P!AtRest => QuietAbout(id)
    BY DEF P!AtRest, P!NoCall, QuietAbout, Untelling, ToTell
  <1>2. P!ListSettles
    <2> SUFFICES ASSUME P!AtRest, ~due, gets = <<>>, ~untold PROVE items = registry
      BY DEF P!ListSettles
    <2>1. ~ListDue
      BY DEF P!AtRest, P!NoCall, ListDue, Telling
    <2>2. Shows(gets, items, registry)
      BY <2>1 DEF PeripheralsInv, PeripheralListInv
    <2> QED
      BY <2>2 DEF Shows
  <1>3. P!FormSettles
    <2> SUFFICES ASSUME P!AtRest, form # None, ~formUnheard, form.state = "ready", ~form.edited
                 PROVE  form.data = registry[form.id]
      BY DEF P!FormSettles
    <2>1. form.id \in Id
      BY DEF PeripheralsInv, PeripheralFormTypes, FormRecs
    <2>2. ~ApplyEnded /\ ~Leaving
      BY DEF P!AtRest, P!NoCall, ApplyEnded, Leaving
    <2>3. Goal = form.id
      BY <2>2 DEF Goal
    <2> QED
      BY <2>1, <2>2, <2>3, <1>1 DEF PeripheralsInv, PeripheralFormInv, FormHonest
  <1> QED
    BY <1>2, <1>3

\* For any peripherals, calls and failures: once calls and events have been handled the list and the
\* form show what the server has (peripherals-list.js, peripheral-form.js, peripherals/api/funcs.py),
\* but for what ListSettles and FormSettles name.
THEOREM PeripheralsCorrect == P!Spec => []PeripheralsSettle
  <1>1. PeripheralsInv => PeripheralsSettle
    BY PeripheralsAgree
  <1> QED
    BY <1>1, PeripheralsInit, PeripheralsInvStep, PTL DEF P!Spec

\* The natural numbers are well ordered.
LEMMA LeastNumber ==
  ASSUME NEW T \in SUBSET Nat, T # {}
  PROVE  \E x \in T : \A y \in T : x <= y
  <1> DEFINE R == {p \in Nat \X Nat : p[1] < p[2]}
  <1>1. IsWellFoundedOn(OpToRel(<, Nat), Nat)
    BY NatLessThanWellFounded
  <1>2. OpToRel(<, Nat) = R
    BY DEF OpToRel
  <1>3. IsWellFoundedOn(R, Nat)
    BY <1>1, <1>2
  <1>4. \E x \in T : \A y \in T : ~ (<<y, x>> \in R)
    <2> HIDE DEF R
    <2> QED
      BY <1>3, WFMin
  <1>5. PICK x \in T : \A y \in T : ~ (<<y, x>> \in R)
    BY <1>4
  <1>6. \A y \in T : y \in Nat /\ x \in Nat /\ ~ (y < x)
    BY <1>5
  <1> QED
    BY <1>6

\* A set of numbers from 0 to n that has 0, and the next of each it has, has them all.
LEMMA Counting ==
  ASSUME NEW n \in Nat, NEW T, 0 \in T, \A i \in 1..n : i - 1 \in T => i \in T
  PROVE  \A i \in 0..n : i \in T
  <1> DEFINE Rest == {i \in 0..n : i \notin T}
  <1>1. CASE Rest = {}
    BY <1>1
  <1>2. CASE Rest # {}
    <2>1. PICK m \in Rest : \A y \in Rest : m <= y
      <3>1. Rest \subseteq Nat
        OBVIOUS
      <3> HIDE DEF Rest
      <3> QED
        BY <1>2, <3>1, LeastNumber
    <2>2. m \in 1..n /\ m - 1 \in 0..n /\ m \notin T
      BY <2>1
    <2>3. m - 1 \in T
      BY <2>1, <2>2
    <2> QED
      BY <2>2, <2>3
  <1> QED
    BY <1>1, <1>2

\* left[i] is what Filtered leaves of the first i entries.
Filters(left, q, S) ==
    /\ Filtered(q, S) = left[Len(q)]
    /\ left[0] = <<>>
    /\ \A i \in 1..Len(q) :
          left[i] = IF q[i] \in S THEN Append(left[i - 1], q[i]) ELSE left[i - 1]

\* The recursion of Filtered defines a function.
LEMMA FilteredDefined ==
  ASSUME NEW E, NEW q \in Seq(E), NEW S
  PROVE  \E left : Filters(left, q, S) /\ \A i \in 0..Len(q) : left[i] \in Seq(E)
  <1> DEFINE n == Len(q)
             More(s, i) == IF q[i] \in S THEN Append(s, q[i]) ELSE s
             Good(g, m) == /\ g \in [0..m -> Seq(E)]
                           /\ g[0] = <<>>
                           /\ \A i \in 1..m : g[i] = More(g[i - 1], i)
             T == {m \in 0..n : \E g : Good(g, m)}
             Grown(g) == [i \in 0..n |-> IF i = 0 THEN <<>> ELSE More(g[i - 1], i)]
  <1>1. n \in Nat
    BY LenProperties
  <1>2. \A s \in Seq(E), i \in 1..n : More(s, i) \in Seq(E)
    BY ElementOfSeq, AppendProperties
  <1>3. Filtered(q, S) = (CHOOSE f : f = Grown(f))[n]
    BY DEF Filtered
  <1> HIDE DEF n, More
  <1>4. 0 \in T
    <2>1. Good([i \in 0..0 |-> <<>>], 0)
      BY EmptySeq
    <2> HIDE DEF Good
    <2> QED
      BY <1>1, <2>1
  <1>5. \A m \in 1..n : m - 1 \in T => m \in T
    <2> SUFFICES ASSUME NEW m \in 1..n, NEW g, Good(g, m - 1) PROVE \E h : Good(h, m)
      <3> HIDE DEF Good
      <3> QED
        BY <1>1
    <2> DEFINE h == [i \in 0..m |-> IF i = m THEN More(g[m - 1], m) ELSE g[i]]
    <2>1. m \in Nat /\ m # 0 /\ m - 1 \in 0..(m - 1) /\ g[m - 1] \in Seq(E)
      BY <1>1
    <2>2. More(g[m - 1], m) \in Seq(E)
      BY <1>2, <2>1
    <2>3. h \in [0..m -> Seq(E)] /\ h[0] = <<>>
      BY <2>1, <2>2
    <2>4. ASSUME NEW i \in 1..m PROVE h[i] = More(h[i - 1], i)
      <3>1. h[i - 1] = g[i - 1]
        BY <2>1
      <3>2. CASE i = m
        BY <3>1, <3>2
      <3>3. CASE i # m
        <4>1. i \in 1..(m - 1) /\ h[i] = g[i]
          BY <2>1, <3>3
        <4>2. g[i] = More(g[i - 1], i)
          BY <4>1
        <4> QED
          BY <3>1, <4>1, <4>2
      <3> QED
        BY <3>2, <3>3
    <2> HIDE DEF h
    <2> QED
      BY <2>3, <2>4
  <1>6. n \in T
    <2> HIDE DEF T
    <2>1. \A i \in 0..n : i \in T
      BY <1>1, <1>4, <1>5, Counting
    <2> QED
      BY <1>1, <2>1
  <1>7. PICK g : Good(g, n)
    BY <1>6
  <1>8. g = Grown(g)
    <2>1. \A i \in 0..n : g[i] = Grown(g)[i]
      BY <1>1, <1>7
    <2>2. g \in [0..n -> Seq(E)]
      BY <1>7
    <2> QED
      BY <2>1, <2>2
  <1> DEFINE left == CHOOSE f : f = Grown(f)
  <1>9. left = Grown(left)
    <2> HIDE DEF Grown
    <2> QED
      BY <1>8
  <1> HIDE DEF left
  <1>10. left[0] = <<>>
    BY <1>1, <1>9
  <1>11. ASSUME NEW i \in 1..n PROVE left[i] = More(left[i - 1], i)
    <2>1. Grown(left)[i] = More(left[i - 1], i)
      BY <1>1
    <2> QED
      BY <1>9, <2>1, Zenon
  <1>12. Filtered(q, S) = left[n]
    BY <1>3 DEF left
  <1> DEFINE U == {i \in 0..n : left[i] \in Seq(E)}
  <1>13. 0 \in U
    <2>1. left[0] \in Seq(E)
      BY <1>10, EmptySeq
    <2> QED
      BY <1>1, <2>1
  <1>14. \A i \in 1..n : i - 1 \in U => i \in U
    BY <1>1, <1>2, <1>11
  <1>15. \A i \in 0..n : left[i] \in Seq(E)
    <2>1. \A i \in 0..n : i \in U
      <3> HIDE DEF U
      <3> QED
        BY <1>1, <1>13, <1>14, Counting
    <2> QED
      BY <2>1
  <1> QED
    BY <1>10, <1>11, <1>12, <1>15 DEF n, More, Filters

\* s has exactly those of the first n entries of q that are in S: its k-th is the one at at[k].
Picks(s, at, q, n, S) ==
    /\ at \in [1..Len(s) -> 1..n]
    /\ \A k \in 1..Len(s) : s[k] = q[at[k]] /\ s[k] \in S
    /\ \A k, l \in 1..Len(s) : k < l => at[k] < at[l]
    /\ \A j \in 1..n : q[j] \in S => \E k \in 1..Len(s) : at[k] = j

\* One more entry.
LEMMA PickOneMore ==
  ASSUME NEW E, NEW q \in Seq(E), NEW S, NEW n \in 1..Len(q), NEW s \in Seq(E),
         NEW at, Picks(s, at, q, n - 1, S)
  PROVE  \E nat : Picks(IF q[n] \in S THEN Append(s, q[n]) ELSE s, nat, q, n, S)
  <1>1. /\ n \in Nat /\ n - 1 \in Nat /\ 1..n = 1..(n - 1) \cup {n} /\ q[n] \in E
        /\ Len(s) \in Nat /\ \A j \in 1..(n - 1) : j \in 1..n /\ j < n
    BY ElementOfSeq, LenProperties
  <1>2. /\ at \in [1..Len(s) -> 1..(n - 1)]
        /\ \A k \in 1..Len(s) : s[k] = q[at[k]] /\ s[k] \in S
        /\ \A k, l \in 1..Len(s) : k < l => at[k] < at[l]
        /\ \A j \in 1..(n - 1) : q[j] \in S => \E k \in 1..Len(s) : at[k] = j
    BY DEF Picks
  <1>3. CASE q[n] \notin S
    <2>1. at \in [1..Len(s) -> 1..n]
      BY <1>1, <1>2
    <2>2. \A j \in 1..n : q[j] \in S => \E k \in 1..Len(s) : at[k] = j
      BY <1>1, <1>2, <1>3
    <2>3. Picks(s, at, q, n, S)
      BY <1>2, <2>1, <2>2 DEF Picks
    <2> QED
      BY <1>3, <2>3
  <1>4. CASE q[n] \in S
    <2> DEFINE t == Append(s, q[n])
               m == Len(s) + 1
               nat == [k \in 1..m |-> IF k = m THEN n ELSE at[k]]
    <2>1. /\ Len(t) = m /\ t[m] = q[n] /\ \A k \in 1..Len(s) : t[k] = s[k]
          /\ 1..m = 1..Len(s) \cup {m} /\ m \in 1..m /\ \A k \in 1..Len(s) : k # m /\ k < m
      BY <1>1, AppendProperties
    <2>2. /\ nat[m] = n /\ \A k \in 1..Len(s) : nat[k] = at[k] /\ at[k] \in 1..(n - 1)
          /\ nat \in [1..m -> 1..n]
      BY <1>1, <1>2, <2>1
    <2> HIDE DEF t, m, nat
    <2>3. \A k \in 1..m : t[k] = q[nat[k]] /\ t[k] \in S
      BY <1>2, <1>4, <2>1, <2>2
    <2>4. \A k, l \in 1..m : k < l => nat[k] < nat[l]
      <3> SUFFICES ASSUME NEW k \in 1..m, NEW l \in 1..m, k < l PROVE nat[k] < nat[l]
        OBVIOUS
      <3>1. k \in 1..Len(s)
        BY <1>1, <2>1
      <3>2. CASE l \in 1..Len(s)
        BY <1>2, <2>2, <3>1, <3>2
      <3>3. CASE l = m
        BY <1>1, <2>2, <3>1, <3>3
      <3> QED
        BY <2>1, <3>2, <3>3
    <2>5. \A j \in 1..n : q[j] \in S => \E k \in 1..m : nat[k] = j
      BY <1>1, <1>2, <2>1, <2>2
    <2>6. Picks(t, nat, q, n, S)
      BY <2>1, <2>2, <2>3, <2>4, <2>5 DEF Picks
    <2> QED
      BY <1>4, <2>6 DEF t
  <1> QED
    BY <1>3, <1>4

\* What Filtered returns: the entries that are in S, in their order.
LEMMA FilteredPicks ==
  ASSUME NEW E, NEW q \in Seq(E), NEW S
  PROVE  /\ Filtered(q, S) \in Seq(E)
         /\ \E at : Picks(Filtered(q, S), at, q, Len(q), S)
  <1>0. PICK left : Filters(left, q, S) /\ \A i \in 0..Len(q) : left[i] \in Seq(E)
    BY FilteredDefined
  <1>1. /\ Filtered(q, S) = left[Len(q)]
        /\ left[0] = <<>>
        /\ \A i \in 1..Len(q) :
              left[i] = IF q[i] \in S THEN Append(left[i - 1], q[i]) ELSE left[i - 1]
    BY <1>0 DEF Filters
  <1> DEFINE n == Len(q)
             T == {i \in 0..n : \E at : Picks(left[i], at, q, i, S)}
  <1>2. n \in Nat /\ n \in 0..n
    BY LenProperties
  <1>3. 0 \in T
    <2>1. Len(<<>>) = 0 /\ 1..0 = {}
      OBVIOUS
    <2>2. Picks(<<>>, [k \in 1..0 |-> 0], q, 0, S)
      BY <2>1 DEF Picks
    <2> QED
      BY <1>1, <1>2, <2>2
  <1>4. ASSUME NEW i \in 1..n, i - 1 \in T PROVE i \in T
    <2>1. PICK at : Picks(left[i - 1], at, q, i - 1, S)
      BY <1>4
    <2>2. i - 1 \in 0..Len(q) /\ left[i - 1] \in Seq(E)
      BY <1>0, <1>2
    <2>3. \E nat : Picks(IF q[i] \in S THEN Append(left[i - 1], q[i]) ELSE left[i - 1], nat, q, i, S)
      BY <2>1, <2>2, PickOneMore
    <2>4. \E nat : Picks(left[i], nat, q, i, S)
      BY <1>1, <2>3
    <2> QED
      BY <1>2, <2>4
  <1>5. \A i \in 0..n : i \in T
    <2> HIDE DEF T, n
    <2> QED
      BY <1>2, <1>3, <1>4, Counting
  <1>6. \E at : Picks(left[n], at, q, n, S)
    BY <1>2, <1>5
  <1> QED
    BY <1>0, <1>1, <1>2, <1>6

(* --------------------------- backup and restore -------------------------- *)

\* The endpoints of S in the form's order, that of their numbers.
LEMMA OrderedIs ==
  ASSUME NEW S \in SUBSET B!Endpoint
  PROVE  /\ B!Ordered(S) \in Seq(B!Endpoint)
         /\ Len(B!Ordered(S)) \in Nat
         /\ \A i \in 1..Len(B!Ordered(S)) : B!Ordered(S)[i] \in S
         /\ \A i, j \in 1..Len(B!Ordered(S)) : i < j => B!Ordered(S)[i] < B!Ordered(S)[j]
         /\ \A e \in S : \E i \in 1..Len(B!Ordered(S)) : B!Ordered(S)[i] = e
  <1> DEFINE q == [e \in B!Endpoint |-> e]
             o == Filtered(q, S)
  <1>1. Endpoints \in Nat /\ B!Endpoint = 1..Endpoints
    BY SectionsAssumption DEF B!Endpoint
  <1>2. /\ q \in Seq(B!Endpoint) /\ Len(q) = Endpoints
        /\ \A e \in B!Endpoint : q[e] = e
    BY <1>1
  <1>3. B!Ordered(S) = o
    BY DEF B!Ordered, B!Filtered, Filtered
  <1> HIDE DEF q, o
  <1>4. o \in Seq(B!Endpoint) /\ \E at : Picks(o, at, q, Endpoints, S)
    BY <1>2, FilteredPicks DEF o
  <1>5. PICK at : Picks(o, at, q, Endpoints, S)
    BY <1>4
  <1>6. /\ at \in [1..Len(o) -> 1..Endpoints]
        /\ \A k \in 1..Len(o) : o[k] = q[at[k]] /\ o[k] \in S
        /\ \A k, l \in 1..Len(o) : k < l => at[k] < at[l]
        /\ \A j \in 1..Endpoints : q[j] \in S => \E k \in 1..Len(o) : at[k] = j
    BY <1>5 DEF Picks
  <1>7. \A k \in 1..Len(o) : o[k] = at[k]
    BY <1>1, <1>2, <1>6
  <1>8. \A e \in S : \E k \in 1..Len(o) : o[k] = e
    BY <1>1, <1>2, <1>6, <1>7
  <1>9. Len(o) \in Nat
    BY <1>4, LenProperties
  <1> QED
    BY <1>3, <1>4, <1>6, <1>7, <1>8, <1>9

Stages == {"idle", "next", "later", "call", "done", "failed"}
FieldMarks == {"none", "progress", "applied", "error", "skipped"}

ChainTypes ==
    /\ kind \in {"backup", "restore"} /\ running \in BOOLEAN /\ swapped \in BOOLEAN
    /\ offered \in SUBSET B!Endpoint /\ chosen \in SUBSET B!Endpoint
    /\ todo \in Seq(B!Endpoint) /\ stage \in Stages
    /\ mark \in [B!Endpoint -> FieldMarks] /\ runs \in Nat

\* A call has its endpoint; a form that is at rest does not run; marks are made by a chain.
ChainPlaces ==
    /\ stage \in {"later", "call"} => todo # <<>>
    /\ stage = "idle" => ~running
    /\ runs = 0 => stage = "idle" /\ mark = B!NoMarks

\* The endpoints of the chain, and how many of them are behind it.
Links == B!Ordered(chosen)
Behind == Len(Links) - Len(todo)

\* What is behind is done, from the file that the restore was started with.
LinksDone ==
    /\ Len(todo) <= Len(Links) /\ \A i \in 1..Len(todo) : todo[i] = Links[Behind + i]
    /\ kind = "backup" => log = <<>> /\ got = {Links[i] : i \in 1..Behind}
    /\ kind = "restore" => /\ got = {} /\ log = [i \in 1..Behind |-> <<Links[i], source>>]
                           /\ content = source
                           /\ stage \in {"later", "call"} => sending = source

\* And marked, and what is ahead is not.
LinksMarked ==
    runs = 1 => \A i \in 1..Len(Links) :
                    /\ mark[Links[i]] = "applied" <=> i <= Behind
                    /\ stage = "done" /\ i > Behind => mark[Links[i]] \in {"error", "skipped"}

BackupInv ==
    /\ ChainTypes /\ ChainPlaces /\ B!CompleteMeansAll
    /\ running /\ ~swapped => LinksDone /\ LinksMarked

\* A sequence of endpoints is what its length and its entries are.
LEMMA LinkFacts ==
  ASSUME ChainTypes
  PROVE  /\ Links \in Seq(B!Endpoint) /\ Len(Links) \in Nat /\ Len(todo) \in Nat
         /\ \A i \in 1..Len(Links) : Links[i] \in chosen /\ Links[i] \in B!Endpoint
         /\ \A i, j \in 1..Len(Links) : i < j => Links[i] < Links[j]
         /\ \A i, j \in 1..Len(Links) : Links[i] = Links[j] => i = j
         /\ \A e \in chosen : \E i \in 1..Len(Links) : Links[i] = e
         /\ B!Endpoint \subseteq Nat
  <1>1. chosen \in SUBSET B!Endpoint /\ todo \in Seq(B!Endpoint)
    BY DEF ChainTypes
  <1>2. B!Endpoint \subseteq Nat
    BY SectionsAssumption DEF B!Endpoint
  <1>3. /\ Links \in Seq(B!Endpoint) /\ Len(Links) \in Nat
        /\ \A i \in 1..Len(Links) : Links[i] \in chosen
        /\ \A i, j \in 1..Len(Links) : i < j => Links[i] < Links[j]
        /\ \A e \in chosen : \E i \in 1..Len(Links) : Links[i] = e
    BY <1>1, OrderedIs DEF Links
  <1>4. Len(todo) \in Nat
    BY <1>1, LenProperties
  <1>5. ASSUME NEW i \in 1..Len(Links), NEW j \in 1..Len(Links), Links[i] = Links[j] PROVE i = j
    <2>1. Links[i] \in Nat /\ Links[j] \in Nat
      BY <1>1, <1>2, <1>3
    <2>2. ~ (i < j) /\ ~ (j < i)
      BY <1>3, <1>5, <2>1
    <2> QED
      BY <1>3, <2>2
  <1> QED
    BY <1>1, <1>2, <1>3, <1>4, <1>5

\* The property, from the invariant.
LEMMA BackupTold == BackupInv => B!BackupTells
  <1> SUFFICES ASSUME BackupInv PROVE B!MarksTell
    BY DEF BackupInv, B!BackupTells
  <1> SUFFICES ASSUME stage = "done", running, ~swapped, runs = 1, NEW e \in chosen
               PROVE  CASE mark[e] = "applied" -> e \in B!Done
                        [] mark[e] \in {"error", "skipped"} ->
                               e \notin B!Done /\ \A d \in chosen : mark[d] = "applied" => d < e
                        [] OTHER -> FALSE
    BY DEF B!MarksTell
  <1>1. ChainTypes /\ LinksDone /\ LinksMarked
    BY DEF BackupInv
  <1> DEFINE n == Len(Links)
  <1>2. /\ n \in Nat /\ Len(todo) \in Nat /\ Len(todo) <= n /\ Behind = n - Len(todo)
        /\ \A i, j \in 1..n : Links[i] = Links[j] => i = j
        /\ \A i, j \in 1..n : i < j => Links[i] < Links[j]
        /\ \A d \in chosen : \E i \in 1..n : Links[i] = d
    BY <1>1, LinkFacts DEF LinksDone, Behind
  <1>3. \A i \in 1..n : /\ mark[Links[i]] = "applied" <=> i <= Behind
                        /\ i > Behind => mark[Links[i]] \in {"error", "skipped"}
    BY <1>1 DEF LinksMarked
  <1>4. B!Done = {Links[i] : i \in 1..Behind}
    <2>1. CASE kind = "backup"
      <3>1. log = <<>> /\ got = {Links[i] : i \in 1..Behind}
        BY <1>1, <2>1 DEF LinksDone
      <3>2. B!ToSet(<<>>) = {}
        BY DEF B!ToSet
      <3> QED
        BY <3>1, <3>2 DEF B!Done
    <2>2. CASE kind = "restore"
      <3>1. got = {} /\ log = [i \in 1..Behind |-> <<Links[i], source>>]
        BY <1>1, <2>2 DEF LinksDone
      <3>2. Behind \in Nat /\ DOMAIN log = 1..Behind
        BY <1>2, <3>1
      <3>3. B!ToSet(log) = {<<Links[i], source>> : i \in 1..Behind}
        BY <3>1, <3>2 DEF B!ToSet
      <3>4. B!Done = {entry[1] : entry \in B!ToSet(log)}
        BY <3>1 DEF B!Done
      <3>5. ASSUME NEW d \in B!Done PROVE d \in {Links[i] : i \in 1..Behind}
        <4>1. PICK entry \in B!ToSet(log) : d = entry[1]
          BY <3>4
        <4>2. PICK i \in 1..Behind : entry = <<Links[i], source>>
          BY <3>3
        <4> QED
          BY <4>1, <4>2
      <3>6. ASSUME NEW i \in 1..Behind PROVE Links[i] \in B!Done
        <4>1. <<Links[i], source>> \in B!ToSet(log) /\ <<Links[i], source>>[1] = Links[i]
          BY <3>3
        <4> QED
          BY <3>4, <4>1
      <3> QED
        BY <3>5, <3>6
    <2> QED
      BY <1>1, <2>1, <2>2 DEF ChainTypes
  <1>5. PICK i \in 1..n : Links[i] = e
    BY <1>2
  <1> HIDE DEF n
  <1>6. CASE i <= Behind
    <2>1. mark[e] = "applied" /\ e \in B!Done
      BY <1>2, <1>3, <1>4, <1>5, <1>6
    <2> QED
      BY <2>1
  <1>7. CASE i > Behind
    <2>1. mark[e] # "applied" /\ mark[e] \in {"error", "skipped"}
      BY <1>2, <1>3, <1>5, <1>7
    <2>2. e \notin B!Done
      BY <1>2, <1>4, <1>5, <1>7
    <2>3. ASSUME NEW d \in chosen, mark[d] = "applied" PROVE d < e
      <3>1. PICK j \in 1..n : Links[j] = d
        BY <1>2
      <3>2. j <= Behind
        BY <1>3, <2>3, <3>1
      <3>3. j < i
        BY <1>2, <1>7, <3>2
      <3> QED
        BY <1>2, <1>5, <3>1, <3>3
    <2> QED
      BY <2>1, <2>2, <2>3
  <1> QED
    BY <1>2, <1>6, <1>7

\* What is left alone when the chain does not move.
LEMMA ChainRests ==
  ASSUME BackupInv, UNCHANGED <<kind, offered, chosen, todo, mark, runs, got, log, source, reports>>,
         running' \in BOOLEAN, swapped' \in BOOLEAN, stage' \in Stages,
         stage' \in {"later", "call"} => todo # <<>>, stage' = "idle" => ~running',
         stage = "idle" => stage' = "idle",
         running' /\ ~swapped' => /\ running /\ ~swapped
                                  /\ UNCHANGED <<content, sending>>
                                  /\ stage' \in {"later", "call"} => stage \in {"later", "call"}
                                  /\ stage' = "done" => stage = "done" \/ todo = <<>>
  PROVE  BackupInv'
  <1>1. ChainTypes' /\ ChainPlaces'
    BY DEF BackupInv, ChainTypes, ChainPlaces
  <1>2. B!CompleteMeansAll'
    BY DEF BackupInv, B!CompleteMeansAll
  <1>3. ASSUME running', ~swapped' PROVE LinksDone' /\ LinksMarked'
    <2>1. LinksDone /\ LinksMarked /\ Links' = Links /\ Behind' = Behind
      BY <1>3 DEF BackupInv, Links, Behind
    <2>2. LinksDone'
      BY <1>3, <2>1 DEF LinksDone
    <2>3. ASSUME NEW i \in 1..Len(Links), todo = <<>> PROVE ~ (i > Behind)
      BY <2>3, LinkFacts DEF Behind, BackupInv
    <2> QED
      BY <1>3, <2>1, <2>2, <2>3 DEF LinksMarked
  <1> QED
    BY <1>1, <1>2, <1>3 DEF BackupInv

\* The first endpoint that remains is the one after those behind.
LEMMA FirstLink ==
  ASSUME ChainTypes, LinksDone, todo # <<>>
  PROVE  /\ Behind + 1 \in 1..Len(Links) /\ Head(todo) = Links[Behind + 1] /\ Behind \in Nat
         /\ Tail(todo) \in Seq(B!Endpoint) /\ Len(Tail(todo)) = Len(todo) - 1
         /\ \A i \in 1..Len(Tail(todo)) : Tail(todo)[i] = todo[i + 1]
         /\ Len(todo) \in Nat \ {0} /\ Head(todo) \in B!Endpoint
  <1>1. /\ todo \in Seq(B!Endpoint) /\ Len(Links) \in Nat /\ Len(todo) \in Nat
        /\ Len(todo) <= Len(Links) /\ \A i \in 1..Len(todo) : todo[i] = Links[Behind + i]
        /\ Behind = Len(Links) - Len(todo)
    BY LinkFacts DEF ChainTypes, LinksDone, Behind
  <1>2. Len(todo) # 0 /\ Head(todo) = todo[1] /\ Head(todo) \in B!Endpoint
    BY <1>1, EmptySeq, HeadTailProperties
  <1>3. /\ Tail(todo) \in Seq(B!Endpoint) /\ Len(Tail(todo)) = Len(todo) - 1
        /\ \A i \in 1..Len(Tail(todo)) : Tail(todo)[i] = todo[i + 1]
    BY <1>1, HeadTailProperties
  <1> QED
    BY <1>1, <1>2, <1>3

LEMMA StartStep ==
  ASSUME BackupInv, NEW S \in SUBSET B!Endpoint, S \subseteq offered, B!Start(S)
  PROVE  BackupInv'
  <1>1. /\ running' = TRUE /\ chosen' = S /\ todo' = B!Ordered(S) /\ stage' = "next"
        /\ got' = {} /\ source' = content /\ log' = <<>> /\ swapped' = FALSE /\ runs' = runs + 1
        /\ UNCHANGED <<kind, offered, content, mark, reports>>
    BY DEF B!Start
  <1>2. ChainTypes /\ ChainPlaces /\ B!CompleteMeansAll
    BY DEF BackupInv
  <1>3. todo' \in Seq(B!Endpoint)
    BY <1>1, OrderedIs
  <1>4. ChainTypes' /\ ChainPlaces'
    <2>1. runs' \in Nat /\ runs' # 0
      BY <1>1, <1>2 DEF ChainTypes
    <2>2. running' \in BOOLEAN /\ swapped' \in BOOLEAN
      BY <1>1
    <2>3. ChainTypes'
      BY <1>1, <1>2, <1>3, <2>1, <2>2 DEF ChainTypes, Stages
    <2> QED
      BY <1>1, <2>1, <2>3 DEF ChainPlaces
  <1>5. B!CompleteMeansAll'
    BY <1>1, <1>2 DEF B!CompleteMeansAll
  <1>6. Links' = todo' /\ Len(todo') \in Nat /\ Behind' = 0
    BY <1>1, <1>3, LenProperties DEF Links, Behind
  <1>7. LinksDone'
    <2>1. <<>> = [i \in 1..0 |-> <<Links'[i], source'>>] /\ {Links'[i] : i \in 1..0} = {}
      OBVIOUS
    <2>2. log' = [i \in 1..Behind' |-> <<Links'[i], source'>>] /\ got' = {Links'[i] : i \in 1..Behind'}
      BY <1>1, <1>6, <2>1
    <2>3. \A i \in 1..Len(todo') : todo'[i] = Links'[Behind' + i]
      BY <1>6
    <2> QED
      BY <1>1, <1>6, <2>2, <2>3 DEF LinksDone
  <1>8. LinksMarked'
    <2> SUFFICES ASSUME runs' = 1, NEW i \in 1..Len(Links') PROVE mark'[Links'[i]] # "applied" /\ ~ (i <= 0)
      BY <1>1, <1>6 DEF LinksMarked
    <2>1. mark' = B!NoMarks
      BY <1>1, <1>2 DEF ChainTypes, ChainPlaces
    <2>2. Links'[i] \in B!Endpoint
      BY <1>3, <1>6, ElementOfSeq
    <2> QED
      BY <1>6, <2>1, <2>2 DEF B!NoMarks
  <1> QED
    BY <1>4, <1>5, <1>7, <1>8 DEF BackupInv

LEMMA NextEndpointStep ==
  ASSUME BackupInv, B!NextEndpoint
  PROVE  BackupInv'
  <1>1. /\ stage = "next" /\ todo # <<>>
        /\ UNCHANGED <<kind, offered, content, running, chosen, got, runs, source, log, swapped, reports>>
    BY DEF B!NextEndpoint, B!form
  <1>2. ChainTypes /\ ChainPlaces /\ B!CompleteMeansAll
    BY DEF BackupInv
  <1>3. runs # 0
    BY <1>1, <1>2 DEF ChainPlaces
  <1>4. CASE ~running
    <2>1. todo' = Tail(todo) /\ UNCHANGED <<stage, mark>>
      BY <1>4 DEF B!NextEndpoint
    <2>2. todo' \in Seq(B!Endpoint)
      BY <1>1, <1>2, <2>1, HeadTailProperties DEF ChainTypes
    <2> QED
      BY <1>1, <1>2, <1>4, <2>1, <2>2 DEF BackupInv, ChainTypes, ChainPlaces, B!CompleteMeansAll, B!NoMarks
  <1>5. CASE running /\ kind = "restore" /\ content = "none"
    <2>1. stage' = "failed" /\ UNCHANGED <<todo, sending, mark>>
      BY <1>5 DEF B!NextEndpoint, B!PerformBackup, B!PerformRestore, B!Fails
    <2> QED
      BY <1>1, <1>2, <1>5, <2>1, ChainRests DEF Stages, ChainTypes
  <1>6. CASE running /\ ~ (kind = "restore" /\ content = "none")
    <2>1. /\ stage' = "later" /\ mark' = [mark EXCEPT ![Head(todo)] = "progress"] /\ todo' = todo
          /\ kind = "restore" => sending' = content
      BY <1>6 DEF B!NextEndpoint, B!PerformBackup, B!PerformRestore, B!Fails
    <2>2. Head(todo) \in B!Endpoint
      BY <1>1, <1>2, HeadTailProperties DEF ChainTypes
    <2>3. ChainTypes'
      <3>1. mark' \in [B!Endpoint -> FieldMarks] /\ stage' \in Stages
        <4> DEFINE h == Head(todo)
        <4>1. mark \in [B!Endpoint -> FieldMarks] /\ h \in B!Endpoint /\ mark' = [mark EXCEPT ![h] = "progress"]
          BY <1>2, <2>1, <2>2 DEF ChainTypes
        <4> HIDE DEF h
        <4> QED
          BY <2>1, <4>1 DEF Stages, FieldMarks
      <3> QED
        BY <1>1, <1>2, <2>1, <3>1 DEF ChainTypes
    <2>4. B!CompleteMeansAll' /\ ChainPlaces'
      BY <1>1, <1>2, <1>3, <2>1 DEF B!CompleteMeansAll, ChainPlaces
    <2>5. ASSUME ~swapped PROVE LinksDone' /\ LinksMarked'
      <3>1. LinksDone /\ LinksMarked /\ Links' = Links /\ Behind' = Behind
        BY <1>1, <1>6, <2>1, <2>5 DEF BackupInv, Links, Behind
      <3>2. /\ Behind + 1 \in 1..Len(Links) /\ Head(todo) = Links[Behind + 1] /\ Behind \in Nat
        BY <1>1, <1>2, <3>1, FirstLink
      <3>3. LinksDone'
        BY <1>1, <2>1, <3>1 DEF LinksDone
      <3>4. ASSUME NEW i \in 1..Len(Links), runs = 1 PROVE mark'[Links[i]] = "applied" <=> i <= Behind
        <4>1. Links[i] \in B!Endpoint /\ (Links[i] = Head(todo) => i = Behind + 1)
          BY <1>2, <3>2, LinkFacts
        <4>2. mark[Links[i]] = "applied" <=> i <= Behind
          BY <3>1, <3>4 DEF LinksMarked
        <4>3. mark'[Links[i]] = IF i = Behind + 1 THEN "progress" ELSE mark[Links[i]]
          BY <1>2, <2>1, <3>2, <4>1 DEF ChainTypes
        <4> QED
          BY <3>2, <4>2, <4>3
      <3>5. LinksMarked'
        BY <1>1, <2>1, <3>1, <3>4 DEF LinksMarked
      <3> QED
        BY <3>3, <3>5
    <2> QED
      BY <1>1, <2>3, <2>4, <2>5 DEF BackupInv
  <1> QED
    BY <1>4, <1>5, <1>6

\* The device's answer moves the first endpoint that remains behind.
LEMMA CallDoneStep ==
  ASSUME BackupInv, B!CallDone
  PROVE  BackupInv'
  <1>1. /\ stage = "call" /\ todo' = Tail(todo) /\ stage' = "next"
        /\ mark' = [mark EXCEPT ![Head(todo)] = "applied"]
        /\ kind = "backup" => got' = got \cup {Head(todo)} /\ log' = log
        /\ kind # "backup" => log' = Append(log, <<Head(todo), sending>>) /\ got' = got
        /\ UNCHANGED <<kind, offered, content, running, chosen, runs, source, swapped, reports>>
    BY DEF B!CallDone, B!BackupDone, B!RestoreDone
  <1>2. /\ ChainTypes /\ ChainPlaces /\ B!CompleteMeansAll /\ todo # <<>> /\ runs # 0
    BY <1>1 DEF BackupInv, ChainPlaces
  <1> DEFINE h == Head(todo)
  <1>3. h \in B!Endpoint /\ Tail(todo) \in Seq(B!Endpoint)
    BY <1>2, HeadTailProperties DEF ChainTypes
  <1>4. ChainTypes'
    <2>1. mark \in [B!Endpoint -> FieldMarks] /\ mark' = [mark EXCEPT ![h] = "applied"]
      BY <1>1, <1>2 DEF ChainTypes
    <2> HIDE DEF h
    <2>2. mark' \in [B!Endpoint -> FieldMarks]
      BY <1>3, <2>1 DEF FieldMarks
    <2> QED
      BY <1>1, <1>2, <1>3, <2>2 DEF ChainTypes, Stages
  <1>5. ChainPlaces' /\ B!CompleteMeansAll'
    BY <1>1, <1>2 DEF ChainPlaces, B!CompleteMeansAll
  <1>6. ASSUME running, ~swapped PROVE LinksDone' /\ LinksMarked'
    <2>1. LinksDone /\ LinksMarked
      BY <1>6 DEF BackupInv
    <2>2. /\ Links' = Links /\ Len(Links) \in Nat /\ Behind \in Nat /\ Behind = Len(Links) - Len(todo)
          /\ Behind + 1 \in 1..Len(Links) /\ h = Links[Behind + 1]
          /\ Len(todo') = Len(todo) - 1 /\ \A i \in 1..Len(todo') : todo'[i] = todo[i + 1]
          /\ Len(todo) \in Nat \ {0}
      BY <1>1, <1>2, <2>1, FirstLink, LinkFacts DEF Links, Behind
    <2>3. Behind' = Behind + 1
      BY <2>2 DEF Behind
    <2> HIDE DEF h
    <2>4. \A i \in 1..Len(todo') : todo'[i] = Links[Behind + 1 + i]
      <3> TAKE i \in 1..Len(todo')
      <3>1. i + 1 \in 1..Len(todo) /\ Behind + (i + 1) = Behind + 1 + i
        BY <2>2
      <3>2. todo[i + 1] = Links[Behind + (i + 1)]
        BY <2>1, <3>1 DEF LinksDone
      <3> QED
        BY <2>2, <3>1, <3>2
    <2>a. Len(todo') <= Len(Links') /\ \A i \in 1..Len(todo') : todo'[i] = Links'[Behind' + i]
      <3>1. Len(todo') <= Len(Links')
        BY <2>2
      <3>2. Links' = Links
        BY <2>2
      <3> QED
        BY <2>3, <2>4, <3>1, <3>2, Zenon
    <2>7. LinksMarked'
      <3> SUFFICES ASSUME runs = 1, NEW i \in 1..Len(Links)
                   PROVE mark'[Links[i]] = "applied" <=> i <= Behind + 1
        BY <1>1, <2>2, <2>3 DEF LinksMarked
      <3>1. Links[i] \in B!Endpoint /\ (Links[i] = h => i = Behind + 1)
        BY <1>2, <2>2, LinkFacts
      <3>2. mark[Links[i]] = "applied" <=> i <= Behind
        BY <2>1 DEF LinksMarked
      <3>3. mark'[Links[i]] = IF i = Behind + 1 THEN "applied" ELSE mark[Links[i]]
        BY <1>1, <1>2, <2>2, <3>1 DEF ChainTypes, h
      <3>4. i \in Nat /\ Behind \in Nat
        BY <2>2
      <3>5. CASE i = Behind + 1
        <4>1. mark'[Links[i]] = "applied"
          BY <3>3, <3>5
        <4> QED
          BY <3>4, <3>5, <4>1
      <3>6. CASE i # Behind + 1
        BY <3>2, <3>3, <3>4, <3>6
      <3> QED
        BY <3>5, <3>6
    <2>5. CASE kind = "backup"
      <3>1. log' = <<>> /\ got = {Links[i] : i \in 1..Behind} /\ got' = got \cup {Links[Behind + 1]}
        BY <1>1, <2>1, <2>2, <2>5 DEF LinksDone, h
      <3>2. got' = {Links[i] : i \in 1..(Behind + 1)}
        BY <2>2, <3>1
      <3>3. Links' = Links /\ Behind' = Behind + 1
        BY <2>2, <2>3
      <3>4. got' = {Links'[i] : i \in 1..Behind'}
        BY <3>2, <3>3, Zenon
      <3>5. kind' = "backup" /\ kind' # "restore"
        BY <1>1, <2>5
      <3> QED
        BY <2>a, <2>7, <3>1, <3>4, <3>5, Zenon DEF LinksDone
    <2>6. CASE kind = "restore"
      <3>1. /\ got = {} /\ log = [i \in 1..Behind |-> <<Links[i], source>>]
            /\ content = source /\ sending = source
        BY <1>1, <2>1, <2>6 DEF LinksDone
      <3>2. log' = Append(log, <<Links[Behind + 1], source>>)
        BY <1>1, <2>2, <2>6, <3>1 DEF h
      <3>3. log' = [i \in 1..(Behind + 1) |-> <<Links[i], source>>]
        <4> DEFINE G(i) == <<Links[i], source>>
        <4>1. log = [i \in 1..Behind |-> G(i)] /\ log' = Append(log, G(Behind + 1))
          BY <3>1, <3>2
        <4> HIDE DEF G
        <4>2. log' = [i \in 1..(Behind + 1) |-> G(i)]
          BY <2>2, <4>1
        <4> QED
          BY <4>2 DEF G
      <3>4. Links' = Links /\ Behind' = Behind + 1 /\ source' = source /\ got' = {}
        BY <1>1, <2>2, <2>3, <2>6, <3>1
      <3>5. log' = [i \in 1..Behind' |-> <<Links'[i], source'>>]
        BY <3>3, <3>4, Zenon
      <3>6. /\ kind' = "restore" /\ kind' # "backup" /\ stage' \notin {"later", "call"}
            /\ content' = source'
        BY <1>1, <2>6, <3>1
      <3> QED
        BY <2>a, <2>7, <3>4, <3>5, <3>6, Zenon DEF LinksDone
    <2> QED
      BY <1>2, <2>5, <2>6, <2>7 DEF ChainTypes
  <1> QED
    BY <1>1, <1>4, <1>5, <1>6 DEF BackupInv

\* Marks change, and none becomes "applied" or was: of those ahead only.
LEMMA MarkStep ==
  ASSUME BackupInv, mark' \in [B!Endpoint -> FieldMarks], stage' \in {"failed", "done"},
         stage \notin {"idle"},
         running /\ ~swapped /\ runs = 1 => \A e \in chosen : mark'[e] = "applied" <=> mark[e] = "applied",
         stage' = "done" => \A e \in chosen : mark'[e] \in {"applied", "error", "skipped"},
         UNCHANGED <<kind, offered, content, running, chosen, todo, got, runs, source, log, swapped, reports>>
  PROVE  BackupInv'
  <1>1. ChainTypes /\ ChainPlaces /\ B!CompleteMeansAll
    BY DEF BackupInv
  <1>2. ChainTypes'
    BY <1>1 DEF ChainTypes, Stages
  <1>3. ChainPlaces' /\ B!CompleteMeansAll'
    BY <1>1 DEF ChainPlaces, B!CompleteMeansAll
  <1>4. ASSUME running, ~swapped PROVE LinksDone' /\ LinksMarked'
    <2>1. LinksDone /\ LinksMarked /\ Links' = Links /\ Behind' = Behind
      BY <1>4 DEF BackupInv, Links, Behind
    <2>2. LinksDone'
      BY <2>1 DEF LinksDone
    <2>3. ASSUME runs = 1, NEW i \in 1..Len(Links)
          PROVE  /\ mark'[Links[i]] = "applied" <=> i <= Behind
                 /\ stage' = "done" /\ i > Behind => mark'[Links[i]] \in {"error", "skipped"}
      <3>1. Links[i] \in chosen /\ Links[i] \in B!Endpoint
        BY <1>1, LinkFacts
      <3>2. mark[Links[i]] = "applied" <=> i <= Behind
        BY <2>1, <2>3 DEF LinksMarked
      <3>3. mark'[Links[i]] = "applied" <=> i <= Behind
        BY <3>1, <3>2, <1>4, <2>3
      <3>4. i > Behind => ~ (i <= Behind)
        BY <1>1, LinkFacts DEF Behind
      <3> QED
        BY <3>1, <3>3, <3>4
    <2> QED
      BY <2>1, <2>2, <2>3 DEF LinksMarked
  <1> QED
    BY <1>2, <1>3, <1>4 DEF BackupInv

LEMMA CallFailsStep ==
  ASSUME BackupInv, B!CallFails
  PROVE  BackupInv'
  <1>1. /\ stage = "call" /\ stage' = "failed" /\ mark' = [mark EXCEPT ![Head(todo)] = "error"]
        /\ UNCHANGED <<kind, offered, content, running, chosen, todo, got, runs, source, log, swapped, reports>>
    BY DEF B!CallFails, B!Fails, B!form
  <1>2. ChainTypes /\ ChainPlaces /\ todo # <<>>
    BY <1>1 DEF BackupInv, ChainPlaces
  <1> DEFINE h == Head(todo)
  <1>3. /\ h \in B!Endpoint /\ mark \in [B!Endpoint -> FieldMarks]
        /\ mark' = [mark EXCEPT ![h] = "error"] /\ chosen \in SUBSET B!Endpoint
    BY <1>1, <1>2, HeadTailProperties DEF ChainTypes
  <1>4. running /\ ~swapped /\ runs = 1 => mark[h] # "applied"
    <2> SUFFICES ASSUME running, ~swapped, runs = 1 PROVE mark[h] # "applied"
      OBVIOUS
    <2>1. LinksDone /\ LinksMarked
      BY DEF BackupInv
    <2>2. Behind + 1 \in 1..Len(Links) /\ h = Links[Behind + 1] /\ Behind \in Nat
      BY <1>2, <2>1, FirstLink
    <2> QED
      BY <2>1, <2>2 DEF LinksMarked
  <1> HIDE DEF h
  <1>5. /\ mark' \in [B!Endpoint -> FieldMarks]
        /\ \A e \in B!Endpoint : mark'[e] = IF e = h THEN "error" ELSE mark[e]
    BY <1>3 DEF FieldMarks
  <1>6. running /\ ~swapped /\ runs = 1 => \A e \in chosen : mark'[e] = "applied" <=> mark[e] = "applied"
    BY <1>3, <1>4, <1>5
  <1> QED
    BY <1>1, <1>5, <1>6, MarkStep

LEMMA SkipStep ==
  ASSUME BackupInv, B!Skip
  PROVE  BackupInv'
  <1>1. /\ stage = "failed" /\ stage' = "done"
        /\ mark' = [e \in B!Endpoint |-> IF e \in chosen /\ mark[e] \notin {"applied", "error"}
                                         THEN "skipped" ELSE mark[e]]
        /\ UNCHANGED <<kind, offered, content, running, chosen, todo, got, runs, source, log, swapped, reports>>
    BY DEF B!Skip, B!form
  <1>2. mark \in [B!Endpoint -> FieldMarks] /\ chosen \in SUBSET B!Endpoint
    BY DEF BackupInv, ChainTypes
  <1>3. mark' \in [B!Endpoint -> FieldMarks]
    BY <1>1, <1>2 DEF FieldMarks
  <1>4. \A e \in chosen : /\ mark'[e] = "applied" <=> mark[e] = "applied"
                          /\ mark'[e] \in {"applied", "error", "skipped"}
    BY <1>1, <1>2
  <1> QED
    BY <1>1, <1>3, <1>4, MarkStep

\* What is reported is all that was asked: nothing remains.
LEMMA CompleteStep ==
  ASSUME BackupInv, NEW reset \in BOOLEAN, B!Complete(reset)
  PROVE  BackupInv'
  <1>1. /\ stage = "next" /\ todo = <<>> /\ stage' = "done" /\ reports' = reports \cup {B!Report}
        /\ UNCHANGED <<kind, offered, content, running, chosen, todo, mark, got, runs, source, log, swapped>>
    BY DEF B!Complete, B!form
  <1>2. ChainTypes /\ ChainPlaces /\ B!CompleteMeansAll
    BY DEF BackupInv
  <1>3. ChainTypes' /\ ChainPlaces'
    BY <1>1, <1>2 DEF ChainTypes, ChainPlaces, Stages
  <1>4. ASSUME running, ~swapped PROVE B!AllDone /\ LinksDone' /\ LinksMarked'
    <2>1. /\ LinksDone /\ LinksMarked /\ Links' = Links /\ Behind' = Behind
      BY <1>1, <1>4 DEF BackupInv, Links, Behind
    <2>2. Len(Links) \in Nat /\ Behind = Len(Links)
      BY <1>1, <1>2, LinkFacts DEF Behind
    <2>3. LinksDone'
      BY <1>1, <2>1 DEF LinksDone
    <2>4. LinksMarked'
      BY <1>1, <2>1, <2>2 DEF LinksMarked
    <2>5. CASE kind = "backup"
      <3>1. got = {Links[i] : i \in 1..Len(Links)}
        BY <2>1, <2>2, <2>5 DEF LinksDone
      <3>2. got = chosen
        BY <1>2, <3>1, LinkFacts
      <3> QED
        BY <2>3, <2>4, <2>5, <3>2 DEF B!AllDone
    <2>6. CASE kind = "restore"
      <3>1. log = [i \in 1..Len(Links) |-> <<Links[i], source>>]
        BY <2>1, <2>2, <2>6 DEF LinksDone
      <3>2. DOMAIN Links = 1..Len(Links)
        BY <1>2, LinkFacts
      <3>3. log = [i \in DOMAIN Links |-> <<Links[i], source>>]
        BY <3>1, <3>2, Zenon
      <3> QED
        BY <2>3, <2>4, <2>6, <3>3 DEF B!AllDone, Links
    <2> QED
      BY <1>2, <2>5, <2>6 DEF ChainTypes
  <1>5. B!CompleteMeansAll'
    <2>1. B!Report.all = B!AllDone /\ B!Report.cut = ~running /\ B!Report.swapped = swapped
      BY DEF B!Report
    <2>2. running \in BOOLEAN /\ swapped \in BOOLEAN
      BY <1>2 DEF ChainTypes
    <2>3. B!Report.all \/ B!Report.cut \/ B!Report.swapped
      BY <1>4, <2>1, <2>2
    <2>4. \A r \in reports : r.all \/ r.cut \/ r.swapped
      BY <1>2 DEF B!CompleteMeansAll
    <2> HIDE DEF B!CompleteMeansAll
    <2>5. \A r \in reports' : r.all \/ r.cut \/ r.swapped
      BY <1>1, <2>3, <2>4, Zenon
    <2> QED
      BY <2>5 DEF B!CompleteMeansAll
  <1>6. running' /\ ~swapped' => LinksDone' /\ LinksMarked'
    BY <1>1, <1>4
  <1> QED
    BY <1>3, <1>5, <1>6 DEF BackupInv

\* The user, and names that get around.
LEMMA AroundStep ==
  ASSUME BackupInv,
         \/ \E f \in B!File \cup {"none"} : B!Select(f)
         \/ \E f \in B!File : B!FileRead(f)
         \/ B!MakeCall \/ B!Ended \/ B!Close \/ B!MasterLearns \/ B!BrowserLearns
         \/ UNCHANGED B!vars
  PROVE  BackupInv'
  <1>0. ChainTypes /\ ChainPlaces /\ B!CompleteMeansAll
    BY DEF BackupInv
  <1>1. ASSUME NEW f, B!Select(f) PROVE BackupInv'
    <2>1. /\ mark' = B!NoMarks /\ swapped' = (swapped \/ running)
          /\ UNCHANGED <<kind, offered, running, chosen, todo, stage, runs, reports>>
      BY <1>1 DEF B!Select, B!chain
    <2>2. B!NoMarks \in [B!Endpoint -> FieldMarks]
      BY DEF B!NoMarks, FieldMarks
    <2>3. running \in BOOLEAN /\ swapped \in BOOLEAN /\ swapped' \in BOOLEAN
      BY <1>0, <2>1 DEF ChainTypes
    <2>4. ChainTypes'
      BY <1>0, <2>1, <2>2, <2>3 DEF ChainTypes
    <2>5. ChainPlaces' /\ B!CompleteMeansAll'
      BY <1>0, <2>1 DEF ChainPlaces, B!CompleteMeansAll, B!NoMarks
    <2> QED
      BY <2>1, <2>3, <2>4, <2>5 DEF BackupInv
  <1>2. ASSUME NEW f, B!FileRead(f) PROVE BackupInv'
    <2>1. /\ swapped' = (swapped \/ running)
          /\ UNCHANGED <<kind, offered, running, chosen, todo, stage, mark, runs, reports>>
      BY <1>2 DEF B!FileRead, B!chain
    <2>2. running \in BOOLEAN /\ swapped \in BOOLEAN /\ swapped' \in BOOLEAN
      BY <1>0, <2>1 DEF ChainTypes
    <2>3. ChainTypes'
      BY <1>0, <2>1, <2>2 DEF ChainTypes
    <2>4. ChainPlaces' /\ B!CompleteMeansAll'
      BY <1>0, <2>1 DEF ChainPlaces, B!CompleteMeansAll, B!NoMarks
    <2> QED
      BY <2>1, <2>2, <2>3, <2>4 DEF BackupInv
  <1>3. CASE B!MakeCall
    <2>1. /\ stage = "later" /\ stage' = "call"
          /\ UNCHANGED <<kind, offered, chosen, todo, mark, runs, got, log, source, reports,
                         running, swapped, content, sending>>
      BY <1>3 DEF B!MakeCall, B!form
    <2> QED
      BY <1>0, <2>1, ChainRests DEF Stages, ChainTypes, ChainPlaces
  <1>4. CASE B!Ended
    <2>1. /\ stage = "done" /\ stage' = "idle" /\ running' = FALSE
          /\ UNCHANGED <<kind, offered, chosen, todo, mark, runs, got, log, source, reports, swapped>>
      BY <1>4 DEF B!Ended
    <2> QED
      BY <1>0, <2>1, ChainRests DEF Stages, ChainTypes, ChainPlaces
  <1>5. CASE B!Close
    <2>1. /\ running' = FALSE
          /\ UNCHANGED <<kind, offered, chosen, todo, mark, runs, got, log, source, reports, swapped, stage>>
      BY <1>5 DEF B!Close
    <2> QED
      BY <1>0, <2>1, ChainRests DEF ChainTypes, ChainPlaces
  <1>6. CASE B!MasterLearns \/ UNCHANGED B!vars
    <2>1. UNCHANGED <<kind, offered, chosen, todo, mark, runs, got, log, source, reports, swapped,
                      stage, running, content, sending>>
      BY <1>6 DEF B!MasterLearns, B!vars, B!form, B!chain
    <2> QED
      BY <1>0, <2>1, ChainRests DEF ChainTypes, ChainPlaces
  <1>7. CASE B!BrowserLearns
    <2>1. /\ running' = (running /\ open')
          /\ UNCHANGED <<kind, offered, chosen, todo, mark, runs, got, log, source, reports, swapped,
                         stage, content, sending>>
      BY <1>7 DEF B!BrowserLearns, B!form
    <2>2. running' \in BOOLEAN /\ (running' => running)
      BY <2>1
    <2> QED
      BY <1>0, <2>1, <2>2, ChainRests DEF ChainTypes, ChainPlaces
  <1> QED
    BY <1>1, <1>2, <1>3, <1>4, <1>5, <1>6, <1>7

LEMMA BackupStarts == B!Init => BackupInv
  <1> SUFFICES ASSUME B!Init PROVE BackupInv
    OBVIOUS
  <1>1. B!NoMarks \in [B!Endpoint -> FieldMarks] /\ <<>> \in Seq(B!Endpoint)
    BY EmptySeq DEF B!NoMarks, FieldMarks
  <1> QED
    BY <1>1 DEF B!Init, B!Loaded, BackupInv, ChainTypes, Stages, ChainPlaces, B!CompleteMeansAll

LEMMA BackupInvStep == BackupInv /\ [B!Next]_B!vars => BackupInv'
  <1> SUFFICES ASSUME BackupInv, [B!Next]_B!vars PROVE BackupInv'
    OBVIOUS
  <1>0. offered \in SUBSET B!Endpoint
    BY DEF BackupInv, ChainTypes
  <1>1. ASSUME NEW S \in SUBSET B!Endpoint, B!StartBackup(S) \/ B!StartRestore(S) PROVE BackupInv'
    <2>1. S \subseteq offered /\ B!Start(S)
      BY <1>1 DEF B!StartBackup, B!StartRestore
    <2> QED
      BY <2>1, StartStep
  <1> QED
    BY <1>1, NextEndpointStep, CallDoneStep, CallFailsStep, SkipStep, CompleteStep, AroundStep
    DEF B!Next, B!ChainStep

\* A backup or a restore that is reported as complete has done all that was asked, from the file
\* that was shown, and the fields tell what became of each endpoint: for any number of endpoints,
\* calls that fail, files selected or read meanwhile and forms closed (backup-form.js,
\* restore-form.js applyData()).
THEOREM BackupCorrect == B!Spec => []BackupTells
  <1>1. BackupInv => BackupTells
    BY BackupTold DEF BackupTells
  <1> QED
    BY <1>1, BackupStarts, BackupInvStep, PTL DEF B!Spec

(* ---------------------------- a port's form ----------------------------- *)

PortNames == F!Attr \cup {"value"}
PortRecs == [PortNames -> Int]
FieldRecs == [shows : Int, orig : Int, focused : BOOLEAN, warned : BOOLEAN]
WireEvents == [kind : {"update", "add"}, port : PortRecs] \cup [kind : {"value"}, value : Int]
                  \cup {F!Remove_}

\* The events that tell of the whole port, and what they tell.
Key == {"update", "add", "remove"}
Told_(e) == IF e.kind = "remove" THEN F!NoPort ELSE e.port

\* Two ports with the same attributes, or none.
Agree(p, r) == IF p = F!NoPort THEN r = F!NoPort
               ELSE r # F!NoPort /\ \A a \in F!Attr : p[a] = r[a]

\* The last of them on the way tells what the port is; with none the cache has it.
LastKey(w, i) == w[i].kind \in Key /\ \A j \in 1..Len(w) : j > i => w[j].kind \notin Key
WireTells ==
    /\ \A i \in 1..Len(wire) : LastKey(wire, i) => Agree(Told_(wire[i]), port)
    /\ (\A i \in 1..Len(wire) : wire[i].kind \notin Key) => Agree(cached, port)

\* The state of a port is not edited here.
PortTypes ==
    /\ port \in PortRecs \cup {F!NoPort} /\ cached \in PortRecs \cup {F!NoPort}
    /\ wire \in Seq(WireEvents)
    /\ opened \in BOOLEAN
    /\ sent \in [DOMAIN sent -> Int] /\ DOMAIN sent \subseteq PortNames \ {"status"}
    /\ write = "sent" => "value" \in DOMAIN sent

\* The form has the fields of the port in the cache, which have its values or are accounted for;
\* what is only shown follows it.
FormKnows ==
    /\ F!Exists(cached) /\ field \in [F!Visible(cached) -> FieldRecs]
    /\ \A a \in F!Attr \cap DOMAIN field :
          field[a].orig = cached[a] \/ field[a].warned \/ a \in missed
    /\ "status" \in DOMAIN field => /\ field["status"].orig = field["status"].shows
                                    /\ ~field["status"].focused /\ ~field["status"].warned

PortFormInv ==
    /\ PortTypes /\ WireTells /\ F!EditsStay
    /\ opened => FormKnows

LEMMA PortFacts ==
  /\ F!NoPort \notin PortRecs
  /\ \A p \in PortRecs : F!Exists(p) /\ F!Visible(p) \subseteq PortNames /\ DOMAIN p = PortNames
  /\ F!Attr = {"enabled", "note", "status"} /\ "enabled" \in F!Attr /\ F!Attr \subseteq PortNames
  /\ \A p, r \in PortRecs \cup {F!NoPort} : Agree(p, r) => Agree(r, p)
  /\ \A p, r, s \in PortRecs \cup {F!NoPort} : Agree(p, r) /\ Agree(r, s) => Agree(p, s)
  /\ \A p \in PortRecs \cup {F!NoPort} : Agree(p, p)
  /\ \A p, r \in PortRecs : Agree(p, r) => F!Visible(p) = F!Visible(r)
  <1>1. F!NoPort \notin PortRecs
    <2>1. DOMAIN F!NoPort = {"gone"}
      BY DEF F!NoPort
    <2>2. \A p \in PortRecs : "value" \in DOMAIN p
      BY DEF PortRecs, PortNames
    <2> QED
      BY <2>1, <2>2
  <1>2. F!Attr = {"enabled", "note", "status"} /\ "enabled" \in F!Attr /\ F!Attr \subseteq PortNames
    BY DEF F!Attr, PortNames
  <1>3. \A p \in PortRecs : F!Exists(p) /\ F!Visible(p) \subseteq PortNames /\ DOMAIN p = PortNames
    BY <1>1, <1>2 DEF F!Exists, F!Visible, PortRecs, PortNames
  <1>4. \A p, r \in PortRecs : Agree(p, r) => F!Visible(p) = F!Visible(r)
    <2> SUFFICES ASSUME NEW p \in PortRecs, NEW r \in PortRecs, Agree(p, r) PROVE F!Visible(p) = F!Visible(r)
      OBVIOUS
    <2>1. p["enabled"] = r["enabled"]
      BY <1>1, <1>2 DEF Agree
    <2> QED
      BY <2>1 DEF F!Visible
  <1>5. /\ \A p, r \in PortRecs \cup {F!NoPort} : Agree(p, r) => Agree(r, p)
        /\ \A p, r, s \in PortRecs \cup {F!NoPort} : Agree(p, r) /\ Agree(r, s) => Agree(p, s)
        /\ \A p \in PortRecs \cup {F!NoPort} : Agree(p, p)
    BY DEF Agree
  <1> QED
    BY <1>1, <1>2, <1>3, <1>4, <1>5

\* What is told of an event's port is a port, or that there is none.
LEMMA EventTells ==
  /\ \A e \in WireEvents : /\ e.kind \in Key \cup {"value"}
                           /\ e.kind \in Key => Told_(e) \in PortRecs \cup {F!NoPort}
                           /\ e.kind \in {"update", "add"} => e.port \in PortRecs /\ Told_(e) = e.port
                           /\ e.kind = "value" => e.value \in Int
                           /\ e.kind = "remove" => Told_(e) = F!NoPort
  /\ \A p \in PortRecs : /\ F!Update(p) \in WireEvents /\ F!Update(p).kind = "update"
                         /\ Told_(F!Update(p)) = p
                         /\ F!Add(p) \in WireEvents /\ F!Add(p).kind = "add" /\ Told_(F!Add(p)) = p
  /\ \A v \in Int : F!ValueChange(v) \in WireEvents /\ F!ValueChange(v).kind = "value"
  /\ F!Remove_ \in WireEvents /\ F!Remove_.kind = "remove" /\ Told_(F!Remove_) = F!NoPort
  BY DEF WireEvents, Key, Told_, F!Update, F!Add, F!ValueChange, F!Remove_

\* An event that is sent comes last, and of what it does not replace the order stays.
LEMMA SentFacts ==
  ASSUME NEW w \in Seq(WireEvents), NEW e \in WireEvents
  PROVE  /\ F!Sent(w, e) \in Seq(WireEvents)
         /\ e.kind \in Key => \A i \in 1..Len(F!Sent(w, e)) :
                /\ LastKey(F!Sent(w, e), i) => F!Sent(w, e)[i] = e
                /\ F!Sent(w, e)[Len(F!Sent(w, e))] = e /\ Len(F!Sent(w, e)) \in 1..Len(F!Sent(w, e))
         /\ e.kind \notin Key =>
                /\ \A i \in 1..Len(F!Sent(w, e)) :
                      LastKey(F!Sent(w, e), i) =>
                          \E j \in 1..Len(w) : LastKey(w, j) /\ F!Sent(w, e)[i] = w[j]
                /\ (\A i \in 1..Len(F!Sent(w, e)) : F!Sent(w, e)[i].kind \notin Key) =>
                      \A i \in 1..Len(w) : w[i].kind \notin Key
         /\ Len(F!Sent(w, e)) \in Nat \ {0}
  <1> DEFINE left == IF e.kind \in {"update", "value"}
                     THEN Filtered(w, {d \in F!ToSet(w) : d.kind # e.kind}) ELSE w
             s == F!Sent(w, e)
  <1>1. s = Append(left, e)
    BY DEF F!Sent, F!Filtered, Filtered
  <1>2. left \in Seq(WireEvents)
    BY FilteredPicks
  <1>3. /\ s \in Seq(WireEvents) /\ Len(left) \in Nat /\ Len(s) = Len(left) + 1
        /\ s[Len(left) + 1] = e /\ \A i \in 1..Len(left) : s[i] = left[i]
    BY <1>1, <1>2, AppendProperties, LenProperties
  <1>4. /\ Len(s) \in 1..Len(s) /\ s[Len(s)] = e
        /\ \A i \in 1..Len(s) : i = Len(s) \/ (i \in 1..Len(left) /\ i < Len(s))
        /\ \A i \in 1..Len(left) : i \in 1..Len(s)
    BY <1>3
  <1>5. e.kind \in Key => \A i \in 1..Len(s) : LastKey(s, i) => s[i] = e
    <2> SUFFICES ASSUME e.kind \in Key, NEW i \in 1..Len(s), LastKey(s, i), i # Len(s) PROVE FALSE
      BY <1>4
    <2>1. Len(s) > i
      BY <1>3, <1>4
    <2> QED
      BY <1>4, <2>1 DEF LastKey
  <1>6. ASSUME e.kind \notin Key
        PROVE  /\ \A i \in 1..Len(s) : LastKey(s, i) => \E j \in 1..Len(w) : LastKey(w, j) /\ s[i] = w[j]
               /\ (\A i \in 1..Len(s) : s[i].kind \notin Key) => \A i \in 1..Len(w) : w[i].kind \notin Key
    <2> DEFINE S == {d \in F!ToSet(w) : d.kind # e.kind}
    <2>1. e.kind = "value" /\ left = Filtered(w, S)
      BY <1>6, EventTells DEF Key
    <2>2. PICK at : Picks(left, at, w, Len(w), S)
      BY <2>1, FilteredPicks
    <2>3. /\ at \in [1..Len(left) -> 1..Len(w)]
          /\ \A k \in 1..Len(left) : left[k] = w[at[k]] /\ left[k] \in S
          /\ \A k, l \in 1..Len(left) : k < l => at[k] < at[l]
          /\ \A j \in 1..Len(w) : w[j] \in S => \E k \in 1..Len(left) : at[k] = j
      BY <2>2 DEF Picks
    <2>4. \A j \in 1..Len(w) : w[j].kind \in Key => w[j] \in S
      BY <1>6 DEF F!ToSet
    <2> HIDE DEF S, left, s
    <2>5. ASSUME NEW i \in 1..Len(s), LastKey(s, i)
          PROVE  \E j \in 1..Len(w) : LastKey(w, j) /\ s[i] = w[j]
      <3>1. s[i].kind \in Key /\ i # Len(s)
        BY <1>4, <1>6, <2>5 DEF LastKey
      <3>2. i \in 1..Len(left) /\ s[i] = left[i] /\ at[i] \in 1..Len(w) /\ s[i] = w[at[i]]
        BY <1>3, <1>4, <2>3, <3>1
      <3>3. ASSUME NEW j \in 1..Len(w), j > at[i], w[j].kind \in Key PROVE FALSE
        <4>1. PICK k \in 1..Len(left) : at[k] = j
          BY <2>3, <2>4, <3>3
        <4>2. k \in 1..Len(s) /\ s[k] = w[j]
          BY <1>3, <1>4, <2>3, <4>1
        <4>3. k \in Nat /\ i \in Nat /\ ~ (k < i) /\ k # i
          BY <1>3, <2>3, <3>2, <3>3, <4>1
        <4>4. k > i
          BY <4>3
        <4> QED
          BY <2>5, <3>3, <4>2, <4>4 DEF LastKey
      <3>4. LastKey(w, at[i])
        BY <3>1, <3>2, <3>3 DEF LastKey
      <3> QED
        BY <3>2, <3>4
    <2>6. ASSUME \A i \in 1..Len(s) : s[i].kind \notin Key, NEW j \in 1..Len(w), w[j].kind \in Key PROVE FALSE
      <3>1. PICK k \in 1..Len(left) : at[k] = j
        BY <2>3, <2>4, <2>6
      <3>2. k \in 1..Len(s) /\ s[k] = w[j]
        BY <1>3, <1>4, <2>3, <3>1
      <3> QED
        BY <2>6, <3>2
    <2> QED
      BY <2>5, <2>6
  <1> HIDE DEF s, left
  <1>7. Len(s) \in Nat \ {0}
    BY <1>3
  <1>8. e.kind \in Key => \A i \in 1..Len(s) : s[Len(s)] = e /\ Len(s) \in 1..Len(s)
    BY <1>4
  <1> QED
    BY <1>3, <1>5, <1>6, <1>7, <1>8 DEF s

\* The server sends what it has made of the port, or only another value of it.
LEMMA SendStep ==
  ASSUME PortTypes, WireTells, NEW e \in WireEvents, wire' = F!Sent(wire, e), cached' = cached,
         port' \in PortRecs \cup {F!NoPort},
         IF e.kind \in Key THEN Agree(Told_(e), port') ELSE Agree(port, port')
  PROVE  wire' \in Seq(WireEvents) /\ WireTells'
  <1>1. wire \in Seq(WireEvents) /\ port \in PortRecs \cup {F!NoPort} /\ cached \in PortRecs \cup {F!NoPort}
    BY DEF PortTypes
  <1>2. wire' \in Seq(WireEvents)
    BY <1>1, SentFacts
  <1>3. CASE e.kind \in Key
    <2>1. /\ \A i \in 1..Len(wire') : LastKey(wire', i) => wire'[i] = e
          /\ Len(wire') \in 1..Len(wire') /\ wire'[Len(wire')] = e
      <3>1. Len(wire') \in Nat \ {0}
        BY <1>1, SentFacts
      <3>2. Len(wire') \in 1..Len(wire')
        BY <3>1
      <3> QED
        BY <1>1, <1>3, <3>2, SentFacts
    <2>2. \A i \in 1..Len(wire') : LastKey(wire', i) => Agree(Told_(wire'[i]), port')
      BY <1>3, <2>1
    <2>3. ~ \A i \in 1..Len(wire') : wire'[i].kind \notin Key
      BY <1>3, <2>1
    <2> QED
      BY <1>2, <2>2, <2>3 DEF WireTells
  <1>4. CASE e.kind \notin Key
    <2>1. /\ \A i \in 1..Len(wire') : LastKey(wire', i) =>
                  \E j \in 1..Len(wire) : LastKey(wire, j) /\ wire'[i] = wire[j]
          /\ (\A i \in 1..Len(wire') : wire'[i].kind \notin Key) =>
                  \A i \in 1..Len(wire) : wire[i].kind \notin Key
      <3> DEFINE w == F!Sent(wire, e)
      <3>1. w = wire'
        OBVIOUS
      <3>2. \A i \in 1..Len(w) : LastKey(w, i) => \E j \in 1..Len(wire) : LastKey(wire, j) /\ w[i] = wire[j]
        BY <1>1, <1>4, SentFacts
      <3>3. (\A i \in 1..Len(w) : w[i].kind \notin Key) => \A i \in 1..Len(wire) : wire[i].kind \notin Key
        BY <1>1, <1>4, SentFacts
      <3> HIDE DEF w
      <3> QED
        BY <3>1, <3>2, <3>3, Zenon
    <2>2. Agree(port, port')
      BY <1>4
    <2>3. ASSUME NEW i \in 1..Len(wire'), LastKey(wire', i) PROVE Agree(Told_(wire'[i]), port')
      <3>1. PICK j \in 1..Len(wire) : LastKey(wire, j) /\ wire'[i] = wire[j]
        BY <2>1, <2>3
      <3>2. wire[j] \in WireEvents /\ wire[j].kind \in Key
        BY <1>1, <3>1, ElementOfSeq DEF LastKey
      <3>3. Told_(wire[j]) \in PortRecs \cup {F!NoPort} /\ Agree(Told_(wire[j]), port)
        BY <3>1, <3>2, EventTells DEF WireTells
      <3>4. Agree(Told_(wire[j]), port')
        BY <1>1, <2>2, <3>3, PortFacts
      <3> QED
        BY <3>1, <3>4
    <2>4. ASSUME \A i \in 1..Len(wire') : wire'[i].kind \notin Key PROVE Agree(cached', port')
      <3>1. Agree(cached, port)
        BY <2>1, <2>4 DEF WireTells
      <3>2. Agree(cached, port')
        BY <1>1, <2>2, <3>1, PortFacts
      <3> QED
        BY <3>2
    <2> QED
      BY <1>2, <2>3, <2>4 DEF WireTells
  <1> QED
    BY <1>3, <1>4

\* The first event is taken: the cache has what it tells.
LEMMA HearStep ==
  ASSUME PortTypes, WireTells, wire # <<>>, wire' = Tail(wire), port' = port,
         cached' \in PortRecs \cup {F!NoPort},
         IF Head(wire).kind \in Key THEN cached' = Told_(Head(wire)) ELSE Agree(cached', cached)
  PROVE  wire' \in Seq(WireEvents) /\ WireTells'
  <1>1. wire \in Seq(WireEvents) /\ port \in PortRecs \cup {F!NoPort} /\ cached \in PortRecs \cup {F!NoPort}
    BY DEF PortTypes
  <1>2. /\ wire' \in Seq(WireEvents) /\ Len(wire') = Len(wire) - 1 /\ Len(wire) \in Nat \ {0}
        /\ \A i \in 1..Len(wire') : wire'[i] = wire[i + 1]
        /\ Head(wire) = wire[1] /\ Head(wire) \in WireEvents
    BY <1>1, HeadTailProperties, EmptySeq, LenProperties
  <1>3. \A j \in 1..Len(wire) : j = 1 \/ (j - 1 \in 1..Len(wire') /\ wire'[j - 1] = wire[j])
    <2> TAKE j \in 1..Len(wire)
    <2> SUFFICES ASSUME j # 1 PROVE j - 1 \in 1..Len(wire') /\ wire'[j - 1] = wire[j]
      OBVIOUS
    <2>1. j - 1 \in 1..Len(wire') /\ (j - 1) + 1 = j
      BY <1>2
    <2>2. wire'[j - 1] = wire[(j - 1) + 1]
      BY <1>2, <2>1
    <2> QED
      BY <2>1, <2>2
  <1>4. ASSUME NEW i \in 1..Len(wire'), LastKey(wire', i) PROVE Agree(Told_(wire'[i]), port')
    <2>1. i + 1 \in 1..Len(wire) /\ wire'[i] = wire[i + 1] /\ i \in Nat
      BY <1>2
    <2>2. ASSUME NEW j \in 1..Len(wire), j > i + 1 PROVE wire[j].kind \notin Key
      <3>1. j - 1 \in 1..Len(wire') /\ wire'[j - 1] = wire[j] /\ j - 1 > i
        BY <1>2, <1>3, <2>1, <2>2
      <3> QED
        BY <1>4, <3>1 DEF LastKey
    <2>3. LastKey(wire, i + 1)
      BY <1>4, <2>1, <2>2 DEF LastKey
    <2> QED
      BY <2>1, <2>3 DEF WireTells
  <1>5. ASSUME \A i \in 1..Len(wire') : wire'[i].kind \notin Key PROVE Agree(cached', port')
    <2>1. \A j \in 1..Len(wire) : j = 1 \/ wire[j].kind \notin Key
      BY <1>3, <1>5
    <2>2. CASE Head(wire).kind \in Key
      <3>1. LastKey(wire, 1) /\ 1 \in 1..Len(wire)
        BY <1>2, <2>1, <2>2 DEF LastKey
      <3> QED
        BY <1>2, <2>2, <3>1 DEF WireTells
    <2>3. CASE Head(wire).kind \notin Key
      <3>1. \A j \in 1..Len(wire) : wire[j].kind \notin Key
        BY <1>2, <2>1, <2>3
      <3>2. Agree(cached, port) /\ Agree(cached', cached)
        BY <2>3, <3>1 DEF WireTells
      <3> QED
        BY <1>1, <3>2, PortFacts
    <2> QED
      BY <2>2, <2>3
  <1> QED
    BY <1>2, <1>4, <1>5 DEF WireTells

\* The fields of a port just opened have its values.
LEMMA FreshFields ==
  ASSUME NEW p \in PortRecs
  PROVE  /\ F!Fields(p) \in [F!Visible(p) -> FieldRecs]
         /\ \A a \in F!Visible(p) : /\ F!Fields(p)[a].orig = p[a] /\ F!Fields(p)[a].shows = p[a]
                                    /\ F!Fields(p)[a].focused = FALSE /\ F!Fields(p)[a].warned = FALSE
  <1>1. \A a \in F!Visible(p) : p[a] \in Int
    BY PortFacts DEF PortRecs
  <1>2. \A v \in Int : /\ F!NewField(v) \in FieldRecs /\ F!NewField(v).orig = v /\ F!NewField(v).shows = v
                       /\ F!NewField(v).focused = FALSE /\ F!NewField(v).warned = FALSE
    BY DEF F!NewField, FieldRecs
  <1> QED
    BY <1>1, <1>2 DEF F!Fields

\* A field that follows its port, is warned, or is left as it is while the user is at it.
LEMMA FollowFacts ==
  ASSUME NEW f \in FieldRecs, NEW v \in Int, NEW warn \in BOOLEAN, NEW modifiable \in BOOLEAN
  PROVE  /\ F!Follows(f, v, warn, modifiable) \in FieldRecs
         /\ F!Edited(f) => F!Follows(f, v, warn, modifiable).shows = f.shows
         /\ modifiable /\ warn => \/ F!Follows(f, v, warn, modifiable).orig = v
                                  \/ F!Follows(f, v, warn, modifiable).warned
         /\ ~modifiable /\ f.orig = f.shows /\ ~f.focused /\ ~f.warned =>
               /\ F!Follows(f, v, warn, modifiable).orig = v
               /\ F!Follows(f, v, warn, modifiable).shows = v
               /\ ~F!Follows(f, v, warn, modifiable).focused
               /\ ~F!Follows(f, v, warn, modifiable).warned
  <1> DEFINE g == F!Follows(f, v, warn, modifiable)
  <1>0. f.shows \in Int /\ f.orig \in Int /\ f.focused \in BOOLEAN /\ f.warned \in BOOLEAN
    BY DEF FieldRecs
  <1>1. CASE f.orig = v
    <2>1. g = f
      BY <1>1 DEF F!Follows
    <2> QED
      BY <1>0, <1>1, <2>1
  <1>2. CASE f.orig # v /\ modifiable /\ warn
    <2>1. g = [f EXCEPT !.warned = TRUE]
      BY <1>2 DEF F!Follows
    <2>2. g \in FieldRecs /\ g.warned /\ g.shows = f.shows
      BY <2>1 DEF FieldRecs
    <2> QED
      BY <1>2, <2>2
  <1>3. CASE f.orig # v /\ ~(modifiable /\ warn) /\ (F!Edited(f) \/ f.focused)
    <2>1. g = f
      BY <1>3 DEF F!Follows
    <2>2. ~ (f.orig = f.shows /\ ~f.focused)
      BY <1>3 DEF F!Edited
    <2> QED
      BY <1>0, <1>3, <2>1, <2>2
  <1>4. CASE f.orig # v /\ ~(modifiable /\ warn) /\ ~(F!Edited(f) \/ f.focused)
    <2>1. g = [f EXCEPT !.shows = v, !.orig = v]
      BY <1>4 DEF F!Follows
    <2>2. g \in FieldRecs /\ g.orig = v /\ g.shows = v /\ g.focused = f.focused /\ g.warned = f.warned
      BY <2>1 DEF FieldRecs
    <2> HIDE DEF g
    <2> QED
      BY <1>4, <2>2, Zenon DEF g
  <1> QED
    BY <1>1, <1>2, <1>3, <1>4

\* Only what the form's fields are changes, or nothing.
LEMMA FormRests ==
  ASSUME PortFormInv, UNCHANGED <<port, wire, cached, editLost>>, opened' \in BOOLEAN,
         sent' \in [DOMAIN sent' -> Int], DOMAIN sent' \subseteq PortNames \ {"status"},
         write' = "sent" => "value" \in DOMAIN sent',
         opened' => FormKnows'
  PROVE  PortFormInv'
  <1>1. PortTypes'
    BY DEF PortFormInv, PortTypes
  <1>2. WireTells'
    BY DEF PortFormInv, WireTells
  <1> QED
    BY <1>1, <1>2 DEF PortFormInv, F!EditsStay

\* An event is taken; what becomes of the form is to be shown.
LEMMA HeardStep ==
  ASSUME PortFormInv, wire # <<>>, wire' = Tail(wire), cached' \in PortRecs \cup {F!NoPort},
         IF Head(wire).kind \in Key THEN cached' = Told_(Head(wire)) ELSE Agree(cached', cached),
         UNCHANGED <<port, sent, write>>, opened' \in BOOLEAN, ~editLost', opened' => FormKnows'
  PROVE  PortFormInv'
  <1>1. PortTypes /\ WireTells
    BY DEF PortFormInv
  <1>2. wire' \in Seq(WireEvents) /\ WireTells'
    BY <1>1, HearStep
  <1>3. PortTypes'
    BY <1>1, <1>2 DEF PortTypes
  <1> QED
    BY <1>2, <1>3 DEF PortFormInv, F!EditsStay

LEMMA HeadFacts ==
  ASSUME PortFormInv, wire # <<>>
  PROVE  Head(wire) \in WireEvents
  BY HeadTailProperties DEF PortFormInv, PortTypes

\* The fields after an update.
LEMMA UpdatedFields ==
  ASSUME FormKnows, NEW p \in PortRecs, NEW warn \in BOOLEAN, field' = F!Updated(p, warn)
  PROVE  /\ field' \in [F!Visible(p) -> FieldRecs]
         /\ \A a \in F!Attr \cap DOMAIN field' :
               \/ field'[a].orig = p[a]
               \/ warn /\ field'[a].warned
               \/ ~warn
         /\ \A a \in F!Attr \cap DOMAIN field :
               F!Edited(field[a]) /\ a \in DOMAIN field' => field'[a].shows = field[a].shows
         /\ "status" \in DOMAIN field' => /\ field'["status"].orig = field'["status"].shows
                                          /\ ~field'["status"].focused /\ ~field'["status"].warned
  <1>1. DOMAIN field = F!Visible(cached) /\ \A a \in DOMAIN field : field[a] \in FieldRecs
    BY DEF FormKnows
  <1>2. F!Visible(p) \subseteq PortNames /\ \A a \in F!Visible(p) : p[a] \in Int
    BY PortFacts DEF PortRecs
  <1>3. /\ DOMAIN field' = F!Visible(p)
        /\ field' = [a \in F!Visible(p) |-> field'[a]]
        /\ \A a \in F!Visible(p) :
              /\ a = "value" \/ a \notin DOMAIN field => field'[a] = F!NewField(p[a])
              /\ a # "value" /\ a \in DOMAIN field =>
                    field'[a] = F!Follows(field[a], p[a], warn, a \in F!Modifiable)
    BY DEF F!Updated
  <1>4. \A v \in Int : /\ F!NewField(v) \in FieldRecs /\ F!NewField(v).orig = v /\ F!NewField(v).shows = v
                       /\ F!NewField(v).focused = FALSE /\ F!NewField(v).warned = FALSE
    BY DEF F!NewField, FieldRecs
  <1>5. "value" \notin F!Attr /\ \A a \in F!Attr : a \in F!Modifiable \/ a = "status"
    BY DEF F!Attr, F!Modifiable
  <1>6. ASSUME NEW a \in F!Visible(p), a # "value", a \in DOMAIN field
        PROVE  /\ field'[a] \in FieldRecs
               /\ F!Edited(field[a]) => field'[a].shows = field[a].shows
               /\ a \in F!Modifiable /\ warn => field'[a].orig = p[a] \/ field'[a].warned
               /\ a \notin F!Modifiable /\ field[a].orig = field[a].shows /\ ~field[a].focused
                     /\ ~field[a].warned =>
                  /\ field'[a].orig = p[a] /\ field'[a].shows = p[a]
                  /\ ~field'[a].focused /\ ~field'[a].warned
    <2> DEFINE m == a \in F!Modifiable
    <2>1. m \in BOOLEAN /\ field[a] \in FieldRecs /\ p[a] \in Int
      BY <1>1, <1>2, <1>6
    <2>2. field'[a] = F!Follows(field[a], p[a], warn, m)
      BY <1>3, <1>6
    <2> HIDE DEF m
    <2>3. /\ field'[a] \in FieldRecs
          /\ F!Edited(field[a]) => field'[a].shows = field[a].shows
          /\ m /\ warn => field'[a].orig = p[a] \/ field'[a].warned
          /\ ~m /\ field[a].orig = field[a].shows /\ ~field[a].focused /\ ~field[a].warned =>
                  /\ field'[a].orig = p[a] /\ field'[a].shows = p[a]
                  /\ ~field'[a].focused /\ ~field'[a].warned
      BY <2>1, <2>2, FollowFacts
    <2> QED
      BY <2>3 DEF m
  <1>7. \A a \in F!Visible(p) : a = "value" \/ a \notin DOMAIN field =>
            /\ field'[a] \in FieldRecs /\ field'[a].orig = p[a] /\ field'[a].shows = p[a]
            /\ field'[a].focused = FALSE /\ field'[a].warned = FALSE
    BY <1>2, <1>3, <1>4
  <1>8. field' \in [F!Visible(p) -> FieldRecs]
    BY <1>3, <1>6, <1>7
  <1>9. "status" \in DOMAIN field => /\ field["status"].orig = field["status"].shows
                                     /\ ~field["status"].focused /\ ~field["status"].warned
    BY DEF FormKnows
  <1>10. "status" \notin F!Modifiable /\ "status" # "value"
    BY DEF F!Modifiable
  <1>11. ASSUME "status" \in DOMAIN field'
         PROVE  /\ field'["status"].orig = p["status"] /\ field'["status"].orig = field'["status"].shows
                /\ ~field'["status"].focused /\ ~field'["status"].warned
    <2>1. CASE "status" \in DOMAIN field
      BY <1>3, <1>6, <1>9, <1>10, <1>11, <2>1
    <2>2. CASE "status" \notin DOMAIN field
      BY <1>3, <1>7, <1>11, <2>2
    <2> QED
      BY <2>1, <2>2
  <1>12. ASSUME NEW a \in F!Attr \cap DOMAIN field'
         PROVE  field'[a].orig = p[a] \/ (warn /\ field'[a].warned) \/ ~warn
    <2>1. CASE a \notin DOMAIN field \/ a = "status"
      BY <1>3, <1>7, <1>11, <2>1
    <2>2. CASE a \in DOMAIN field /\ a # "status"
      BY <1>3, <1>5, <1>6, <2>2
    <2> QED
      BY <2>1, <2>2
  <1>13. \A a \in F!Attr \cap DOMAIN field :
               F!Edited(field[a]) /\ a \in DOMAIN field' => field'[a].shows = field[a].shows
    BY <1>3, <1>5, <1>6
  <1> QED
    BY <1>8, <1>11, <1>12, <1>13

LEMMA PortUpdateStep ==
  ASSUME PortFormInv, F!PortUpdate
  PROVE  PortFormInv'
  <1> DEFINE p == Head(wire).port
             warn == F!Matching(Head(wire)) = {} /\ ~recent
  <1>1. /\ wire # <<>> /\ Head(wire).kind = "update" /\ wire' = Tail(wire) /\ cached' = p
        /\ UNCHANGED <<port, opened, sent, write>>
    BY DEF F!PortUpdate, F!calls
  <1>2. Head(wire) \in WireEvents /\ p \in PortRecs /\ Told_(Head(wire)) = p /\ "update" \in Key
    BY <1>1, HeadFacts, EventTells DEF Key
  <1>3. opened \in BOOLEAN /\ ~editLost
    BY DEF PortFormInv, PortTypes, F!EditsStay
  <1>4. CASE ~opened
    <2>1. ~editLost' /\ ~opened'
      BY <1>1, <1>3, <1>4 DEF F!PortUpdate
    <2> QED
      BY <1>1, <1>2, <1>3, <2>1, HeardStep
  <1>5. CASE opened
    <2>0. warn \in BOOLEAN
      OBVIOUS
    <2>1. /\ field' = F!Updated(p, warn)
          /\ missed' = {a \in missed : a \in DOMAIN field'} \cup
                 IF warn THEN {} ELSE {a \in F!Attr \cap DOMAIN field' : field'[a].orig # cached'[a]}
          /\ editLost' = (editLost \/ \E a \in F!Attr \cap DOMAIN field :
                            /\ F!Edited(field[a]) /\ a \in DOMAIN field'
                            /\ field'[a].shows # field[a].shows)
      BY <1>1, <1>5 DEF F!PortUpdate
    <2>2. FormKnows
      BY <1>5 DEF PortFormInv
    <2> HIDE DEF warn
    <2>3. /\ field' \in [F!Visible(p) -> FieldRecs]
          /\ \A a \in F!Attr \cap DOMAIN field' :
               \/ field'[a].orig = p[a]
               \/ warn /\ field'[a].warned
               \/ ~warn
          /\ \A a \in F!Attr \cap DOMAIN field :
               F!Edited(field[a]) /\ a \in DOMAIN field' => field'[a].shows = field[a].shows
          /\ "status" \in DOMAIN field' => /\ field'["status"].orig = field'["status"].shows
                                           /\ ~field'["status"].focused /\ ~field'["status"].warned
      BY <1>2, <2>0, <2>1, <2>2, UpdatedFields
    <2>4. ~editLost'
      BY <1>3, <2>1, <2>3
    <2>5. \A a \in F!Attr \cap DOMAIN field' :
             field'[a].orig = cached'[a] \/ field'[a].warned \/ a \in missed'
      BY <1>1, <2>1, <2>3
    <2>6. F!Exists(cached')
      BY <1>1, <1>2, PortFacts
    <2>7. FormKnows'
      BY <1>1, <2>3, <2>5, <2>6 DEF FormKnows, F!Exists
    <2> QED
      BY <1>1, <1>2, <1>3, <2>4, <2>7, HeardStep
  <1> QED
    BY <1>3, <1>4, <1>5

LEMMA ValueChangesStep ==
  ASSUME PortFormInv, F!ValueChanges
  PROVE  PortFormInv'
  <1> DEFINE v == Head(wire).value
  <1>1. /\ wire # <<>> /\ Head(wire).kind = "value" /\ wire' = Tail(wire)
        /\ cached' = IF F!Exists(cached) THEN [cached EXCEPT !["value"] = v] ELSE cached
        /\ field' = IF opened /\ "value" \in DOMAIN field /\ field["value"].shows # v
                    THEN [field EXCEPT !["value"].shows = v, !["value"].orig = v] ELSE field
        /\ UNCHANGED <<port, opened, sent, write, missed, editLost>>
    BY DEF F!ValueChanges, F!calls
  <1>2. v \in Int /\ Head(wire).kind \notin Key
    BY <1>1, HeadFacts, EventTells DEF Key
  <1>3. /\ opened \in BOOLEAN /\ ~editLost /\ cached \in PortRecs \cup {F!NoPort}
        /\ opened => FormKnows
    BY DEF PortFormInv, PortTypes, F!EditsStay
  <1> HIDE DEF v
  <1>4. cached' \in PortRecs \cup {F!NoPort} /\ Agree(cached', cached)
    <2>1. CASE cached = F!NoPort
      BY <1>1, <2>1 DEF F!Exists, Agree
    <2>2. CASE cached # F!NoPort
      <3>1. cached \in PortRecs /\ cached' = [cached EXCEPT !["value"] = v]
        BY <1>1, <1>3, <2>2 DEF F!Exists
      <3>2. cached' \in PortRecs /\ \A a \in PortNames \ {"value"} : cached'[a] = cached[a]
        BY <1>2, <3>1 DEF PortRecs
      <3>3. F!Attr \subseteq PortNames \ {"value"}
        BY DEF F!Attr, PortNames
      <3> QED
        BY <2>2, <3>2, <3>3, PortFacts DEF Agree
    <2> QED
      BY <2>1, <2>2
  <1>5. ASSUME opened' PROVE FormKnows'
    <2>1. /\ FormKnows /\ cached \in PortRecs /\ cached' \in PortRecs
          /\ \A a \in F!Attr : cached'[a] = cached[a]
      BY <1>1, <1>3, <1>4, <1>5 DEF FormKnows, F!Exists, Agree
    <2>2. F!Visible(cached') = F!Visible(cached) /\ F!Exists(cached')
      BY <1>4, <2>1, PortFacts
    <2>3. field \in [F!Visible(cached) -> FieldRecs] /\ "value" \notin F!Attr
      BY <2>1 DEF FormKnows, F!Attr
    <2>4. field' \in [F!Visible(cached) -> FieldRecs] /\ \A a \in F!Attr \cap DOMAIN field : field'[a] = field[a]
      <3>1. CASE field' = field
        BY <2>3, <3>1
      <3>2. CASE field' # field
        <4>1. "value" \in DOMAIN field /\ field' = [field EXCEPT !["value"] = [@ EXCEPT !.shows = v, !.orig = v]]
          BY <1>1, <3>2
        <4>2. field["value"] \in FieldRecs
          BY <2>3, <4>1
        <4>3. [field["value"] EXCEPT !.shows = v, !.orig = v] \in FieldRecs
          BY <1>2, <4>2 DEF FieldRecs
        <4> QED
          BY <2>3, <4>1, <4>3
      <3> QED
        BY <3>1, <3>2
    <2>5. "status" \in F!Attr
      BY DEF F!Attr
    <2> QED
      BY <1>1, <2>1, <2>2, <2>3, <2>4, <2>5 DEF FormKnows, F!Exists
  <1> QED
    BY <1>1, <1>2, <1>3, <1>4, <1>5, HeardStep

LEMMA PortAddStep ==
  ASSUME PortFormInv, F!PortAdd
  PROVE  PortFormInv'
  <1> DEFINE p == Head(wire).port
  <1>1. /\ wire # <<>> /\ Head(wire).kind = "add" /\ wire' = Tail(wire) /\ cached' = p
        /\ opened' = (opened \/ (waits /\ F!Matching(Head(wire)) # {}))
        /\ field' = IF opened' THEN F!Fields(cached') ELSE field
        /\ UNCHANGED <<port, sent, write, editLost>>
    BY DEF F!PortAdd, F!calls
  <1>2. Head(wire) \in WireEvents /\ p \in PortRecs /\ Told_(Head(wire)) = p /\ "add" \in Key
    BY <1>1, HeadFacts, EventTells DEF Key
  <1>3. ~editLost' /\ opened' \in BOOLEAN
    BY <1>1 DEF PortFormInv, F!EditsStay
  <1>4. ASSUME opened' PROVE FormKnows'
    <2>1. field' = F!Fields(p)
      BY <1>1, <1>4
    <2> HIDE DEF p
    <2>2. F!Exists(cached')
      BY <1>1, <1>2, PortFacts
    <2>3. /\ field' \in [F!Visible(p) -> FieldRecs]
          /\ \A a \in F!Visible(p) : /\ field'[a].orig = p[a] /\ field'[a].shows = p[a]
                                     /\ field'[a].focused = FALSE /\ field'[a].warned = FALSE
      BY <1>2, <2>1, FreshFields
    <2> QED
      BY <1>1, <2>2, <2>3 DEF FormKnows, F!Exists
  <1> QED
    BY <1>1, <1>2, <1>3, <1>4, HeardStep

LEMMA PortRemoveStep ==
  ASSUME PortFormInv, F!PortRemove
  PROVE  PortFormInv'
  <1>1. /\ wire # <<>> /\ Head(wire).kind = "remove" /\ wire' = Tail(wire) /\ cached' = F!NoPort
        /\ opened' = FALSE /\ UNCHANGED <<port, sent, write, editLost>>
    BY DEF F!PortRemove, F!calls
  <1>2. Told_(Head(wire)) = F!NoPort /\ "remove" \in Key
    BY <1>1, HeadFacts, EventTells DEF Key
  <1>3. ~editLost'
    BY <1>1 DEF PortFormInv, F!EditsStay
  <1> QED
    BY <1>1, <1>2, <1>3, HeardStep

\* What the user does to the form.
LEMMA UserStep ==
  ASSUME PortFormInv,
         \/ F!Open \/ F!Close \/ F!Apply \/ F!AddPort
         \/ \E a \in F!Attr \cup {"value"} : F!Focus(a) \/ \E v \in F!Value(a) : F!Edit(a, v)
  PROVE  PortFormInv'
  <1>0. /\ cached \in PortRecs \cup {F!NoPort} /\ opened \in BOOLEAN
        /\ sent \in [DOMAIN sent -> Int] /\ DOMAIN sent \subseteq PortNames \ {"status"}
        /\ write = "sent" => "value" \in DOMAIN sent
        /\ opened => FormKnows
    BY DEF PortFormInv, PortTypes
  <1>1. CASE F!Open
    <2>1. /\ F!Exists(cached) /\ field' = F!Fields(cached) /\ opened' = TRUE
          /\ UNCHANGED <<port, wire, cached, editLost, sent, write>>
      BY <1>1 DEF F!Open, F!world, F!calls
    <2>2. cached \in PortRecs
      BY <1>0, <2>1 DEF F!Exists
    <2>3. /\ field' \in [F!Visible(cached) -> FieldRecs]
          /\ \A a \in F!Visible(cached) : /\ field'[a].orig = cached[a] /\ field'[a].shows = cached[a]
                                          /\ field'[a].focused = FALSE /\ field'[a].warned = FALSE
      BY <2>1, <2>2, FreshFields
    <2>4. FormKnows'
      BY <2>1, <2>3 DEF FormKnows, F!Exists
    <2> QED
      BY <1>0, <2>1, <2>4, FormRests
  <1>2. CASE F!Close
    <2>1. opened' = FALSE /\ UNCHANGED <<port, wire, cached, editLost, sent, write>>
      BY <1>2 DEF F!Close, F!world, F!calls
    <2> QED
      BY <1>0, <2>1, FormRests
  <1>3. CASE F!AddPort
    <2>1. UNCHANGED <<port, wire, cached, editLost, sent, write, opened, field, missed>>
      BY <1>3 DEF F!AddPort, F!world, F!page
    <2>2. opened' => FormKnows'
      BY <1>0, <2>1 DEF FormKnows
    <2> QED
      BY <1>0, <2>1, <2>2, FormRests
  <1>4. ASSUME NEW a, F!Focus(a) PROVE PortFormInv'
    <2>1. /\ opened /\ a \in F!Modifiable
          /\ field' = [b \in DOMAIN field |-> [field[b] EXCEPT !.focused = b = a /\ ~field[a].focused]]
          /\ UNCHANGED <<port, wire, cached, editLost, sent, write, opened, missed>>
      BY <1>4 DEF F!Focus, F!world, F!calls
    <2>2. FormKnows
      BY <1>0, <2>1
    <2>3. field \in [F!Visible(cached) -> FieldRecs]
      BY <2>2 DEF FormKnows
    <2>4. \A b \in DOMAIN field : /\ field'[b] = [field[b] EXCEPT !.focused = b = a /\ ~field[a].focused]
                                  /\ field[b] \in FieldRecs
      BY <2>1, <2>3
    <2>5. ASSUME NEW b \in DOMAIN field
          PROVE  /\ field'[b] \in FieldRecs /\ field'[b].orig = field[b].orig
                 /\ field'[b].shows = field[b].shows /\ field'[b].warned = field[b].warned
                 /\ b # a => field'[b].focused = FALSE
      <3> DEFINE x == b = a /\ ~field[a].focused
      <3>1. x \in BOOLEAN /\ (b # a => x = FALSE)
        OBVIOUS
      <3>2. field'[b] = [field[b] EXCEPT !.focused = x] /\ field[b] \in FieldRecs
        BY <2>4
      <3> HIDE DEF x
      <3> QED
        BY <3>1, <3>2 DEF FieldRecs
    <2>6. DOMAIN field' = DOMAIN field /\ field' \in [F!Visible(cached) -> FieldRecs]
      BY <2>1, <2>3, <2>5
    <2>7. a # "status"
      BY <2>1 DEF F!Modifiable
    <2>8. \A b \in F!Attr \cap DOMAIN field' : field'[b].orig = cached'[b] \/ field'[b].warned \/ b \in missed'
      BY <2>1, <2>2, <2>5, <2>6 DEF FormKnows
    <2>9. "status" \in DOMAIN field' => /\ field'["status"].orig = field'["status"].shows
                                        /\ ~field'["status"].focused /\ ~field'["status"].warned
      <3> SUFFICES ASSUME "status" \in DOMAIN field' PROVE /\ field'["status"].orig = field'["status"].shows
                                        /\ ~field'["status"].focused /\ ~field'["status"].warned
        OBVIOUS
      <3>1. /\ "status" \in DOMAIN field /\ field["status"].orig = field["status"].shows
            /\ ~field["status"].warned
        BY <2>2, <2>6 DEF FormKnows
      <3>2. /\ field'["status"].orig = field["status"].orig /\ field'["status"].shows = field["status"].shows
            /\ field'["status"].warned = field["status"].warned /\ field'["status"].focused = FALSE
        BY <2>5, <2>7, <3>1
      <3> QED
        BY <3>1, <3>2
    <2>10. FormKnows'
      BY <2>1, <2>2, <2>6, <2>8, <2>9 DEF FormKnows, F!Exists
    <2> QED
      BY <1>0, <2>1, <2>10, FormRests
  <1>5. ASSUME NEW a, NEW v \in F!Value(a), F!Edit(a, v) PROVE PortFormInv'
    <2>1. /\ opened /\ a \in F!Modifiable \cup {"value"} /\ a \in DOMAIN field
          /\ field' = [field EXCEPT ![a] = [@ EXCEPT !.shows = v]]
          /\ UNCHANGED <<port, wire, cached, editLost, sent, write, opened, missed>>
      BY <1>5 DEF F!Edit, F!world, F!calls
    <2>2. FormKnows /\ v \in Int
      BY <1>0, <2>1 DEF F!Value
    <2>3. field \in [F!Visible(cached) -> FieldRecs]
      BY <2>2 DEF FormKnows
    <2>4. [field[a] EXCEPT !.shows = v] \in FieldRecs /\ [field[a] EXCEPT !.shows = v].orig = field[a].orig
          /\ [field[a] EXCEPT !.shows = v].warned = field[a].warned
      BY <2>1, <2>2, <2>3 DEF FieldRecs
    <2>5. /\ field' \in [F!Visible(cached) -> FieldRecs] /\ DOMAIN field' = DOMAIN field
          /\ \A b \in DOMAIN field : /\ field'[b].orig = field[b].orig /\ field'[b].warned = field[b].warned
                                     /\ b # a => field'[b] = field[b]
      BY <2>1, <2>3, <2>4
    <2>6. a # "status"
      BY <2>1 DEF F!Modifiable
    <2>7. FormKnows'
      BY <2>1, <2>2, <2>5, <2>6 DEF FormKnows, F!Exists
    <2> QED
      BY <1>0, <2>1, <2>7, FormRests
  <1>6. CASE F!Apply
    <2> DEFINE changed == {a \in DOMAIN field : F!Edited(field[a])}
               attrs == changed \cap F!Modifiable
    <2>1. /\ opened /\ UNCHANGED <<port, wire, cached, editLost, opened>>
          /\ sent' = [a \in changed |-> field[a].shows]
          /\ write' = IF "value" \in changed THEN "sent" ELSE "none"
          /\ field' = [a \in DOMAIN field |->
                        IF a \in changed THEN [field[a] EXCEPT !.warned = FALSE] ELSE field[a]]
          /\ missed' = missed \cup {a \in attrs : field[a].warned}
      BY <1>6 DEF F!Apply, F!world
    <2>2. /\ FormKnows
          /\ field \in [F!Visible(cached) -> FieldRecs] /\ cached \in PortRecs
      BY <1>0, <2>1 DEF FormKnows, F!Exists
    <2>3. changed \subseteq PortNames \ {"status"} /\ \A a \in changed : field[a].shows \in Int
      <3>1. "status" \notin changed
        BY <2>2 DEF FormKnows, F!Edited
      <3>2. \A a \in changed : a \in F!Visible(cached) /\ field[a] \in FieldRecs
        BY <2>2
      <3>3. F!Visible(cached) \subseteq PortNames
        BY <2>2, PortFacts
      <3> QED
        BY <3>1, <3>2, <3>3 DEF FieldRecs
    <2> HIDE DEF changed
    <2>4. /\ sent' \in [DOMAIN sent' -> Int] /\ DOMAIN sent' \subseteq PortNames \ {"status"}
          /\ write' = "sent" => "value" \in DOMAIN sent'
      BY <2>1, <2>3
    <2>5. \A a \in DOMAIN field :
             /\ a \notin changed => field'[a] = field[a]
             /\ field'[a] \in FieldRecs /\ field'[a].orig = field[a].orig
      <3> TAKE a \in DOMAIN field
      <3>1. field[a] \in FieldRecs
        BY <2>2
      <3>2. [field[a] EXCEPT !.warned = FALSE] \in FieldRecs /\ [field[a] EXCEPT !.warned = FALSE].orig = field[a].orig
        BY <3>1 DEF FieldRecs
      <3> QED
        BY <2>1, <3>1, <3>2
    <2>6. DOMAIN field' = DOMAIN field /\ field' \in [F!Visible(cached) -> FieldRecs]
      BY <2>1, <2>2, <2>5
    <2>7. ASSUME NEW a \in F!Attr \cap DOMAIN field
          PROVE  field'[a].orig = cached[a] \/ field'[a].warned \/ a \in missed'
      <3>1. field[a].orig = cached[a] \/ field[a].warned \/ a \in missed
        BY <2>2 DEF FormKnows
      <3>2. CASE a \notin changed
        BY <2>1, <2>5, <3>1, <3>2
      <3>3. CASE a \in changed
        <4>1. a \in attrs
          BY <2>3, <3>3 DEF F!Attr, F!Modifiable
        <4> QED
          BY <2>1, <2>5, <3>1, <4>1
      <3> QED
        BY <3>2, <3>3
    <2>8. "status" \in DOMAIN field => field'["status"] = field["status"]
      BY <2>3, <2>5
    <2>9. FormKnows'
      BY <2>1, <2>2, <2>6, <2>7, <2>8 DEF FormKnows, F!Exists
    <2> QED
      BY <1>0, <2>1, <2>4, <2>9, FormRests
  <1> QED
    BY <1>1, <1>2, <1>3, <1>4, <1>5, <1>6

\* What the server is made to do, by this form or by others.
LEMMA ServedStep ==
  ASSUME PortFormInv, NEW e \in WireEvents, wire' = F!Sent(wire, e),
         UNCHANGED <<cached, opened, field, missed, sent, editLost>>,
         write' = "sent" => write = "sent",
         port' \in PortRecs \cup {F!NoPort},
         IF e.kind \in Key THEN Agree(Told_(e), port') ELSE Agree(port, port')
  PROVE  PortFormInv'
  <1>1. PortTypes /\ WireTells
    BY DEF PortFormInv
  <1>2. wire' \in Seq(WireEvents) /\ WireTells'
    BY <1>1, SendStep
  <1>3. PortTypes'
    BY <1>1, <1>2 DEF PortTypes
  <1>4. opened' => FormKnows'
    BY DEF PortFormInv, FormKnows
  <1> QED
    BY <1>2, <1>3, <1>4 DEF PortFormInv, F!EditsStay

LEMMA ServerStep ==
  ASSUME PortFormInv, F!PatchServed \/ F!WriteServed \/ F!AddServed
  PROVE  PortFormInv'
  <1>0. /\ port \in PortRecs \cup {F!NoPort} /\ sent \in [DOMAIN sent -> Int]
        /\ write = "sent" => "value" \in DOMAIN sent
    BY DEF PortFormInv, PortTypes
  <1>1. CASE F!PatchServed
    <2>1. /\ F!Exists(port) /\ wire' = F!Sent(wire, F!Update(port'))
          /\ port' = [a \in DOMAIN port |-> IF a \in DOMAIN sent \cap F!Attr THEN sent[a] ELSE port[a]]
          /\ UNCHANGED <<cached, opened, field, missed, sent, editLost, write>>
      BY <1>1 DEF F!PatchServed, F!page
    <2>2. port \in PortRecs
      BY <1>0, <2>1 DEF F!Exists
    <2>3. port' \in PortRecs
      BY <1>0, <2>1, <2>2 DEF PortRecs
    <2>4. /\ F!Update(port') \in WireEvents /\ F!Update(port').kind \in Key
          /\ Agree(Told_(F!Update(port')), port')
      BY <2>3, EventTells, PortFacts DEF Key
    <2> QED
      BY <2>1, <2>3, <2>4, ServedStep
  <1>2. CASE F!WriteServed
    <2>1. /\ write = "sent" /\ F!Exists(port) /\ port' = [port EXCEPT !["value"] = sent["value"]]
          /\ wire' = IF port'.value # port.value THEN F!Sent(wire, F!ValueChange(port'.value)) ELSE wire
          /\ write' = "served"
          /\ UNCHANGED <<cached, opened, field, missed, sent, editLost>>
      BY <1>2 DEF F!WriteServed, F!page
    <2>2. port \in PortRecs /\ sent["value"] \in Int
      BY <1>0, <2>1 DEF F!Exists
    <2>3. port' \in PortRecs /\ \A a \in PortNames \ {"value"} : port'[a] = port[a]
      BY <2>1, <2>2 DEF PortRecs
    <2>4. Agree(port, port') /\ port'.value \in Int
      <3>1. F!Attr \subseteq PortNames \ {"value"} /\ "value" \in PortNames
        BY DEF F!Attr, PortNames
      <3> QED
        BY <2>2, <2>3, <3>1, PortFacts DEF Agree, PortRecs
    <2>5. CASE port'.value # port.value
      <3>1. /\ F!ValueChange(port'.value) \in WireEvents /\ F!ValueChange(port'.value).kind \notin Key
        BY <2>4, EventTells DEF Key
      <3> QED
        BY <2>1, <2>3, <2>4, <2>5, <3>1, ServedStep
    <2>6. CASE port'.value = port.value
      <3>1. port' = port
        <4>1. \A a \in PortNames : port'[a] = port[a]
          BY <2>3, <2>6
        <4> QED
          BY <2>2, <2>3, <4>1 DEF PortRecs
      <3>2. UNCHANGED <<port, wire, cached, editLost, opened, field, missed, sent>> /\ write' # "sent"
        BY <2>1, <2>6, <3>1
      <3>3. opened' => FormKnows'
        BY <3>2 DEF PortFormInv, FormKnows
      <3> QED
        BY <3>2, <3>3, FormRests DEF PortFormInv, PortTypes
    <2> QED
      BY <2>5, <2>6
  <1>3. CASE F!AddServed
    <2>1. /\ port' = [enabled |-> 0, note |-> 0, status |-> 0, value |-> 0]
          /\ wire' = F!Sent(wire, F!Add(port'))
          /\ UNCHANGED <<cached, opened, field, missed, sent, editLost, write>>
      BY <1>3 DEF F!AddServed, F!page
    <2>2. port' \in PortRecs
      BY <2>1 DEF PortRecs, PortNames, F!Attr
    <2>3. /\ F!Add(port') \in WireEvents /\ F!Add(port').kind \in Key
          /\ Agree(Told_(F!Add(port')), port')
      BY <2>2, EventTells, PortFacts DEF Key
    <2> QED
      BY <2>1, <2>2, <2>3, ServedStep
  <1> QED
    BY <1>1, <1>2, <1>3

LEMMA OthersChangeStep ==
  ASSUME PortFormInv, F!OthersChange
  PROVE  PortFormInv'
  <1>0. port \in PortRecs \cup {F!NoPort}
    BY DEF PortFormInv, PortTypes
  <1>a. UNCHANGED <<cached, opened, field, missed, sent, editLost, write>>
    BY DEF F!OthersChange, F!page, F!calls
  <1>1. ASSUME NEW a \in F!Attr, F!Exists(port), port' = [port EXCEPT ![a] = F!Changed(a, @)],
               wire' = F!Sent(wire, F!Update(port'))
        PROVE  PortFormInv'
    <2>1. port \in PortRecs /\ a \in PortNames
      BY <1>0, <1>1, PortFacts DEF F!Exists
    <2>2. F!Changed(a, port[a]) \in Int
      <3>1. port[a] \in Int
        BY <2>1 DEF PortRecs
      <3> QED
        BY <3>1 DEF F!Changed
    <2>3. port' \in PortRecs
      BY <1>1, <2>1, <2>2 DEF PortRecs
    <2>4. /\ F!Update(port') \in WireEvents /\ F!Update(port').kind \in Key
          /\ Agree(Told_(F!Update(port')), port')
      BY <2>3, EventTells, PortFacts DEF Key
    <2> QED
      BY <1>a, <1>1, <2>3, <2>4, ServedStep
  <1>2. ASSUME F!Exists(port), port' = [port EXCEPT !["value"] = 1 - @],
               wire' = F!Sent(wire, F!ValueChange(port'.value))
        PROVE  PortFormInv'
    <2>1. port \in PortRecs
      BY <1>0, <1>2 DEF F!Exists
    <2>2. /\ port' \in PortRecs /\ \A a \in PortNames \ {"value"} : port'[a] = port[a]
          /\ F!Attr \subseteq PortNames \ {"value"} /\ "value" \in PortNames
      BY <1>2, <2>1 DEF PortRecs, PortNames, F!Attr
    <2>3. Agree(port, port') /\ port'.value \in Int
      BY <2>1, <2>2, PortFacts DEF Agree, PortRecs
    <2>4. F!ValueChange(port'.value) \in WireEvents /\ F!ValueChange(port'.value).kind \notin Key
      BY <2>3, EventTells DEF Key
    <2> QED
      BY <1>a, <1>2, <2>2, <2>3, <2>4, ServedStep
  <1>3. ASSUME port' = F!NoPort, wire' = F!Sent(wire, F!Remove_)
        PROVE  PortFormInv'
    <2>1. F!Remove_ \in WireEvents /\ F!Remove_.kind \in Key /\ Agree(Told_(F!Remove_), port')
      BY <1>3, EventTells, PortFacts DEF Key
    <2> QED
      BY <1>a, <1>3, <2>1, ServedStep
  <1>4. ASSUME port' = [enabled |-> 1, note |-> 0, status |-> 0, value |-> 0],
               wire' = F!Sent(wire, F!Add(port'))
        PROVE  PortFormInv'
    <2>2. port' \in PortRecs
      BY <1>4 DEF PortRecs, PortNames, F!Attr
    <2>3. /\ F!Add(port') \in WireEvents /\ F!Add(port').kind \in Key
          /\ Agree(Told_(F!Add(port')), port')
      BY <2>2, EventTells, PortFacts DEF Key
    <2> QED
      BY <1>a, <1>4, <2>2, <2>3, ServedStep
  <1> QED
    BY <1>1, <1>2, <1>3, <1>4 DEF F!OthersChange

\* The answers: what was applied becomes what the form believes.
LEMMA AnswerStep ==
  ASSUME PortFormInv,
         \/ F!Applied \/ F!PatchFails \/ F!WriteFails \/ F!AddAnswered \/ F!ExpectTimeout
         \/ F!RecentEnds \/ UNCHANGED F!vars
  PROVE  PortFormInv'
  <1>0. /\ opened \in BOOLEAN
        /\ sent \in [DOMAIN sent -> Int] /\ DOMAIN sent \subseteq PortNames \ {"status"}
        /\ write = "sent" => "value" \in DOMAIN sent
        /\ opened => FormKnows
    BY DEF PortFormInv, PortTypes
  <1>1. CASE ~F!Applied
    <2>1. /\ UNCHANGED <<port, wire, cached, editLost, opened, field, missed, sent>>
          /\ write' = "sent" => write = "sent"
      BY <1>1 DEF F!PatchFails, F!WriteFails, F!AddAnswered, F!ExpectTimeout, F!RecentEnds, F!vars,
                  F!world, F!page, F!calls
    <2>2. opened' => FormKnows'
      BY <1>0, <2>1 DEF FormKnows
    <2> QED
      BY <1>0, <2>1, <2>2, FormRests
  <1>2. CASE F!Applied
    <2>1. /\ write' = "none" /\ UNCHANGED <<port, wire, cached, editLost, opened, sent>>
      BY <1>2 DEF F!Applied, F!world
    <2>2. ASSUME opened PROVE FormKnows'
      <3> DEFINE mine == DOMAIN sent \cap (F!Attr \cup {"value"})
      <3>1. /\ field' = [a \in DOMAIN field |->
                          IF a \in mine THEN [field[a] EXCEPT !.orig = sent[a]] ELSE field[a]]
            /\ missed' = {a \in DOMAIN field' \cap F!Attr :
                            a \in missed \/ (a \in DOMAIN sent /\ field'[a].orig # cached[a])}
        BY <1>2, <2>2 DEF F!Applied, F!Accepted
      <3>2. FormKnows /\ field \in [F!Visible(cached) -> FieldRecs]
        BY <1>0, <2>2 DEF FormKnows
      <3>3. mine = DOMAIN sent /\ "status" \notin mine
        BY <1>0 DEF PortNames
      <3> HIDE DEF mine
      <3>4. \A a \in DOMAIN field :
               /\ a \notin mine => field'[a] = field[a]
               /\ field'[a] \in FieldRecs
        <4> TAKE a \in DOMAIN field
        <4>1. field[a] \in FieldRecs
          BY <3>2
        <4>2. a \in mine => [field[a] EXCEPT !.orig = sent[a]] \in FieldRecs
          BY <1>0, <3>3, <4>1 DEF FieldRecs
        <4> QED
          BY <3>1, <4>1, <4>2
      <3>5. DOMAIN field' = DOMAIN field /\ field' \in [F!Visible(cached) -> FieldRecs]
        BY <3>1, <3>2, <3>4
      <3>6. ASSUME NEW a \in F!Attr \cap DOMAIN field
            PROVE  field'[a].orig = cached[a] \/ field'[a].warned \/ a \in missed'
        <4>1. CASE a \in mine
          BY <3>1, <3>3, <3>5, <4>1
        <4>2. CASE a \notin mine
          <5>1. field'[a] = field[a]
            BY <3>4, <4>2
          <5>2. field[a].orig = cached[a] \/ field[a].warned \/ a \in missed
            BY <3>2 DEF FormKnows
          <5> QED
            BY <3>1, <3>5, <5>1, <5>2
        <4> QED
          BY <4>1, <4>2
      <3>7. "status" \in DOMAIN field => field'["status"] = field["status"]
        BY <3>3, <3>4
      <3> QED
        BY <2>1, <3>2, <3>5, <3>6, <3>7 DEF FormKnows, F!Exists
    <2> QED
      BY <1>0, <2>1, <2>2, FormRests
  <1> QED
    BY <1>1, <1>2

LEMMA PortFormInit == F!Init => PortFormInv
  <1> SUFFICES ASSUME F!Init PROVE PortFormInv
    OBVIOUS
  <1>1. /\ port \in [F!Attr \cup {"value"} -> {0}] \cup [F!Attr \cup {"value"} -> {1}] \cup {F!NoPort}
        /\ wire = <<>> /\ cached = port /\ opened = FALSE /\ sent = <<>> /\ write = "none"
        /\ editLost = FALSE
    BY DEF F!Init
  <1>2. port \in PortRecs \cup {F!NoPort}
    BY <1>1 DEF PortRecs, PortNames
  <1>3. wire \in Seq(WireEvents) /\ Len(wire) = 0
    BY <1>1, EmptySeq
  <1>4. sent \in [DOMAIN sent -> Int] /\ DOMAIN sent \subseteq PortNames \ {"status"}
    BY <1>1
  <1>5. Agree(cached, port)
    BY <1>1, <1>2, PortFacts
  <1>6. PortTypes
    BY <1>1, <1>2, <1>3, <1>4 DEF PortTypes
  <1>7. WireTells
    BY <1>3, <1>5 DEF WireTells
  <1> QED
    BY <1>1, <1>6, <1>7 DEF PortFormInv, F!EditsStay

LEMMA PortFormInvStep == PortFormInv /\ [F!Next]_F!vars => PortFormInv'
  BY PortUpdateStep, ValueChangesStep, PortAddStep, PortRemoveStep, UserStep, ServerStep,
     OthersChangeStep, AnswerStep
  DEF F!Next

LEMMA PortFormTold == PortFormInv => F!FormTells
  <1> SUFFICES ASSUME PortFormInv PROVE F!FormTells
    OBVIOUS
  <1>1. F!EditsStay
    BY DEF PortFormInv
  <1>2. ASSUME F!Quiet
        PROVE  /\ F!Exists(port) /\ DOMAIN field = F!Visible(port)
               /\ \A a \in F!Attr \cap DOMAIN field :
                     field[a].orig = port[a] \/ field[a].warned \/ a \in missed
    <2>1. opened /\ wire = <<>> /\ FormKnows /\ PortTypes /\ WireTells
      BY <1>2 DEF F!Quiet, PortFormInv
    <2>2. Agree(cached, port)
      BY <2>1 DEF WireTells
    <2>3. F!Exists(cached) /\ cached \in PortRecs /\ port \in PortRecs
      BY <2>1, <2>2 DEF FormKnows, F!Exists, PortTypes, Agree
    <2>4. F!Visible(cached) = F!Visible(port) /\ F!Exists(port) /\ \A a \in F!Attr : cached[a] = port[a]
      BY <2>2, <2>3, PortFacts DEF Agree
    <2> QED
      BY <2>1, <2>4 DEF FormKnows
  <1> QED
    BY <1>1, <1>2 DEF F!FormTells, F!FormOfPort, F!FieldsTell

\* When nothing is on its way a port's form has the fields of the port as it is, with its values, a
\* warning, or a change that was taken for the form's own, and no edit is ever overwritten: for any
\* edits, changes made elsewhere, calls that fail, and events expected (port-form.js updateUI(),
\* attrdef-form-mixin.js fieldsFromAttrdefs()).
THEOREM PortFormCorrect == F!Spec => []FormTells
  <1>1. PortFormInv => FormTells
    BY PortFormTold DEF FormTells
  <1> QED
    BY <1>1, PortFormInit, PortFormInvStep, PTL DEF F!Spec

=============================================================================
