----------------------------- MODULE MCSections -----------------------------
(***************************************************************************)
(* Sections of the web application other than the dashboard, for TLC: the   *)
(* lists of devices and ports (SectionLists), the peripherals               *)
(* (Peripherals), the discovery of devices (Discovery), a port's form       *)
(* (PortForm), a backup or restore form (BackupRestore), and the login with *)
(* the section that is shown after it (Access).  Each is checked on its     *)
(* own: only one of them, `which`, takes steps.                             *)
(***************************************************************************)
EXTENDS SectionLists, Queues, TLC

CONSTANTS
    Id, Config, MaxCalls, MaxGets, MaxForms,
    Device, MaxLoads,
    MaxEdits, MaxChanges, MaxExpected,
    Endpoints, MaxSelections, MaxRuns,
    Password, Empty, Path, Home, Login, MaxTries, MaxReloads, MaxVisits

\* What an answer to a login, or to another call for the level of access, consists of (Access).
Levels == {0, 20, 30}
Credentials == [user : {"admin", "normal"}, password : Password \cup {Empty}]
Requests == [by : {"init", "form", "settings"}, creds : Credentials \cup {None}, timed : BOOLEAN,
             stage : {"asked", "served"}, level : Levels]

ASSUME SectionsAssumption ==
    /\ ListsAssumption
    /\ Id # {} /\ Config # {} /\ None \notin Id \cup Config
    /\ {MaxUses, MaxFails, MaxCalls, MaxGets, MaxForms, MaxLoads, MaxEdits, MaxChanges,
        MaxExpected, MaxSelections, MaxRuns, MaxTries, MaxReloads, MaxVisits} \subseteq Nat
    /\ Endpoints \in Nat \ {0}
    /\ Home \in Path /\ None \notin Path \cup Password /\ Login \notin Path \cup {None}
    /\ Empty \notin Password
    /\ None \notin Levels \cup Requests /\ IsFiniteSet(Device) /\ \A S \in SUBSET Device : S # None

\* Port a is that of the slave s, port b of the main device.
Owners == [a |-> "s", b |-> None]

VARIABLES
    which,
    \* Peripherals
    registry, call, events, items, due, gets, form, formGet, calls, opens, failed, untold,
    formUnheard,
    \* Discovery
    near, configured, added, task, discovered, timer, ap, deletes, own, refreshing, loads,
    listings, list, rows, adopts, view, lost, stale,
    \* PortForm
    port, wire, cached, expected, waits, opened, field, patch, write, sent, recent, portChanges,
    edits, missed, editLost,
    \* BackupRestore
    kind, main, offered, open, renamed, mastered, heard, shown, reading, content, button,
    newName, running, chosen, todo, stage, target, sending, mark, got, runs, picks, source, log,
    swapped, resets, reports,
    \* Access
    passwords, cookie, skewed, creds, known, level, initial, final, request, change, queue,
    loaded, buttons, ready, login, remember, goal, section, nextPath, wentOn, tries, noAnswers,
    newPasswords, pageLoads, visits, accepted, wanted, between

P == INSTANCE Peripherals WITH fails <- failed, unheard <- untold, MaxUses <- MaxForms
D == INSTANCE Discovery WITH slaves <- added, gets <- listings, fails <- lost
F == INSTANCE PortForm WITH known <- cached, changes <- portChanges, lost <- editLost
B == INSTANCE BackupRestore
A == INSTANCE Access WITH patch <- change, form <- login, target <- goal, shown <- section,
                          fails <- noAnswers, changes <- newPasswords, reloads <- pageLoads,
                          crossed <- between

L0 == <<slavesOn, there, stored, slaves, ports, mainName, prefs, saveDue, puts, connected, asked,
        served, devicesList, portsList, portForm, table, fake, changes, reloads, choices, fails,
        unheard, crossed>>
P0 == <<registry, call, events, items, due, gets, form, formGet, calls, opens, failed, untold,
        formUnheard>>
D0 == <<near, configured, added, task, discovered, timer, ap, deletes, own, refreshing, loads,
        listings, list, rows, adopts, view, lost, stale>>
F0 == <<port, wire, cached, expected, waits, opened, field, patch, write, sent, recent,
        portChanges, edits, missed, editLost>>
B0 == <<kind, main, offered, open, renamed, mastered, heard, shown, reading, content, button,
        newName, running, chosen, todo, stage, target, sending, mark, got, runs, picks, source,
        log, swapped, resets, reports>>
A0 == <<passwords, cookie, skewed, creds, known, level, initial, final, request, change, queue,
        loaded, buttons, ready, login, remember, goal, section, nextPath, wentOn, tries,
        noAnswers, newPasswords, pageLoads, visits, accepted, wanted, between>>

AllVars == <<which, L0, P0, D0, F0, B0, A0>>

ListsStep(S) == which = "lists" /\ S /\ UNCHANGED <<which, P0, D0, F0, B0, A0>>
PeripheralsStep(S) == which = "peripherals" /\ S /\ UNCHANGED <<which, L0, D0, F0, B0, A0>>
DiscoveryStep(S) == which = "discovery" /\ S /\ UNCHANGED <<which, L0, P0, F0, B0, A0>>
PortFormStep(S) == which = "port form" /\ S /\ UNCHANGED <<which, L0, P0, D0, B0, A0>>
BackupStep(S) == which = "backup" /\ S /\ UNCHANGED <<which, L0, P0, D0, F0, A0>>
AccessStep(S) == which = "access" /\ S /\ UNCHANGED <<which, L0, P0, D0, F0, B0>>

\* What takes no steps begins in one of its states.  Of the peripherals one exists: with none,
\* or two, the interesting calls begin a step later, or conflict at once.
MCInit ==
    /\ which \in {"lists", "peripherals", "discovery", "port form", "backup", "access"}
    /\ Init
    /\ which # "lists" => /\ ~slavesOn /\ mainName = (CHOOSE n \in Names : TRUE)
                          /\ Cached(there.slaves) = {} /\ Cached(there.ports) = {}
    /\ P!Init
    /\ Cardinality({i \in Id : registry[i] # None}) = IF which = "peripherals" THEN 1 ELSE 0
    /\ D!Init /\ (which # "discovery" => near = {})
    /\ F!Init /\ (which # "port form" => ~F!Exists(port))
    /\ B!Init /\ (which # "backup" => kind = "backup" /\ offered = {} /\ main)
    /\ A!Init
    /\ which # "access" =>
          cookie = None /\ ~skewed /\ wanted = Home /\ passwords["admin"] = Empty

MCNext ==
    \/ ListsStep(Next) \/ PeripheralsStep(P!Next) \/ DiscoveryStep(D!Next)
    \/ PortFormStep(F!Next) \/ BackupStep(B!Next) \/ AccessStep(A!Next)

MCSpec == MCInit /\ [][MCNext]_AllVars

Symmetry == Permutations(Id) \cup Permutations(Config) \cup Permutations(Password)

-----------------------------------------------------------------------------
\* The list of peripherals and their form show what the server has (Peripherals).
PeripheralsSettle == P!PeripheralsSettle
\* The table shows the devices that can be adopted, and the access point is stopped (Discovery).
DiscoveryTells == D!DiscoveryTells
\* A port's form tells what the port is, and keeps what the user has edited (PortForm).
FormTells == F!FormTells
\* A backup or restore has done what it says (BackupRestore, applyData()).
BackupTells == B!BackupTells
\* The device that was restored is the one that is rebooted after it (performRestore()).
ResetsTheRestored == B!ResetsTheRestored
\* Credentials, level and section fit together (Access).
AccessHolds == A!AccessHolds
=============================================================================
