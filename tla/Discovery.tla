------------------------------- MODULE Discovery -------------------------------
(***************************************************************************)
(* Discovering devices and adopting them: the task of the server that waits *)
(* for clients of its access point, those that it has found, the calls that *)
(* use them, and the table of the web application                          *)
(* (slaves/discover/apclients.py, slaves/api/funcs/discovered.py,           *)
(* devices/discovered-devices-table.js).                                    *)
(*                                                                         *)
(* One DELETE of each origin is under way at a time.  How the devices       *)
(* connect, and what is set on them, are left out.                          *)
(***************************************************************************)
EXTENDS Integers, FiniteSets

CONSTANTS
    None,
    Device,
    MaxLoads,       \* bound on the times that the table is filled
    MaxFails        \* bound on what fails

Load == 1..MaxLoads
Row == Device \X Load   \* a device, and the load that it was listed by
Origin == {"refresh", "close", "timer"}

VARIABLES
    \* the server
    near,           \* devices at the access point, which are not configured
    configured, slaves,
    task,           \* _discover_task: "none", "restarting", "scanning", "querying", "cancelled", "done" or "failed"
    discovered,     \* _discovered_devices
    timer,          \* _finish_timer
    ap,             \* the access point runs
    deletes,        \* finish(): "none", "asked", "waiting", "stopping", "answered" or "failed"
    \* the page
    own,            \* the loads of the page that is open, or None
    refreshing,     \* the refresh under way is that of the page that is open
    loads, gets,    \* GET /discovered: "none", "asked", "first", "waiting", "answered", "failed", "ended"
    list,           \* the answer to each
    rows, adopts,   \* "none", "asked", "configuring", "connecting", "configured", "failed" or "ended"
    view,           \* "", "progress" or "error"
    \* bounds and history
    fails,
    stale           \* what the table has is no longer that of the server, or not that of one load

discovery == <<task, discovered, timer, ap, deletes>>
devices == <<near, configured, slaves>>
loading == <<own, refreshing, loads, gets, list, view>>
dvars == <<devices, discovery, loading, rows, adopts, fails, stale>>

LoadsUnderWay == {l \in Load : gets[l] \notin {"none", "ended"}}
\* Other calls that what a new load brings may cross
Crossed(origins) ==
    \/ LoadsUnderWay # {} \/ \E x \in origins : deletes[x] # "none"
    \/ \E r \in Row : adopts[r] \notin {"none", "ended"}
Mine(l) == own # None /\ l \in own

(* --------------------------------- page --------------------------------- *)

\* showDiscoveredDevices()
Show ==
    /\ loads < MaxLoads
    /\ loads' = loads + 1
    /\ gets' = [gets EXCEPT ![loads + 1] = "asked"]

Open ==
    /\ own = None /\ Show
    /\ own' = {loads + 1} /\ rows' = {} /\ view' = "progress"
    /\ stale' = Crossed(Origin)
    /\ UNCHANGED <<devices, discovery, refreshing, list, adopts, fails>>

Refresh ==
    /\ own # None /\ deletes["refresh"] = "none" /\ loads < MaxLoads
    /\ deletes' = [deletes EXCEPT !["refresh"] = "asked"]
    /\ refreshing' = TRUE /\ stale' = TRUE
    /\ UNCHANGED <<devices, task, discovered, timer, ap, own, loads, gets, list, view, rows, adopts, fails>>

\* A page that has been closed meanwhile asks again too, for itself
Refreshed ==
    /\ deletes["refresh"] = "answered" /\ Show
    /\ deletes' = [deletes EXCEPT !["refresh"] = "none"]
    /\ IF ~refreshing THEN UNCHANGED <<own, rows, view, stale>>
       ELSE /\ own' = own \cup {loads + 1} /\ rows' = {} /\ view' = "progress"
            /\ stale' = Crossed(Origin \ {"refresh"})
    /\ refreshing' = FALSE
    /\ UNCHANGED <<devices, task, discovered, timer, ap, list, adopts, fails>>

RefreshFails ==
    /\ deletes["refresh"] = "failed"
    /\ deletes' = [deletes EXCEPT !["refresh"] = "none"]
    /\ view' = IF refreshing THEN "error" ELSE view
    /\ refreshing' = FALSE
    /\ UNCHANGED <<devices, task, discovered, timer, ap, own, loads, gets, list, rows, adopts, fails, stale>>

\* discoverTimer
Tick ==
    /\ \E l \in LoadsUnderWay : Mine(l)
    /\ view' = "progress"
    /\ UNCHANGED <<devices, discovery, own, refreshing, loads, gets, list, rows, adopts, fails, stale>>

\* Rows are added to those there are
Loaded(l) ==
    /\ gets[l] \in {"answered", "failed"}
    /\ gets' = [gets EXCEPT ![l] = "ended"]
    /\ IF ~Mine(l) THEN UNCHANGED <<rows, view>>
       ELSE IF gets[l] = "failed" THEN view' = "error" /\ UNCHANGED rows
       ELSE rows' = rows \cup (list[l] \X {l}) /\ view' = IF view = "progress" THEN "" ELSE view
    /\ UNCHANGED <<devices, discovery, own, refreshing, loads, list, adopts, fails, stale>>

\* onClose()
Close ==
    /\ own # None /\ deletes["close"] = "none"
    /\ own' = None /\ refreshing' = FALSE /\ rows' = {}
    /\ deletes' = [deletes EXCEPT !["close"] = "asked"]
    /\ UNCHANGED <<devices, task, discovered, timer, ap, loads, gets, list, adopts, view, fails, stale>>

(* --------------------------------- server ------------------------------- *)

\* get_discovered(), discover(): the task first stops an access point that still runs
Get(l) ==
    /\ gets[l] = "asked"
    /\ \/ /\ discovered # None
          /\ gets' = [gets EXCEPT ![l] = "answered"] /\ list' = [list EXCEPT ![l] = discovered]
          /\ UNCHANGED <<task, timer, ap>>
       \/ /\ discovered = None /\ task = "none"
          /\ gets' = [gets EXCEPT ![l] = "first"] /\ UNCHANGED list
          /\ task' = IF ap THEN "restarting" ELSE "scanning"
          /\ timer' = TRUE /\ ap' = TRUE
       \/ /\ discovered = None /\ task # "none"
          /\ gets' = [gets EXCEPT ![l] = IF task \in {"done", "failed"} THEN "failed" ELSE "waiting"]
          /\ UNCHANGED <<list, task, timer, ap>>
    /\ UNCHANGED <<devices, discovered, deletes, own, refreshing, loads, view, rows, adopts, fails, stale>>

\* The task answers the call that began it, and those that wait for it.  The first keeps what was found.
Answers(how, found) ==
    /\ gets' = [l \in Load |-> IF gets[l] \in {"first", "waiting"} THEN how ELSE gets[l]]
    /\ list' = [l \in Load |-> IF gets[l] \in {"first", "waiting"} THEN found ELSE list[l]]

Query ==
    /\ task = "scanning"
    /\ task' = "querying"
    /\ UNCHANGED <<devices, discovered, timer, ap, deletes, loading, rows, adopts, fails, stale>>

Discovered(found) ==
    /\ task = "querying"
    /\ IF found = near THEN UNCHANGED fails ELSE fails < MaxFails /\ fails' = fails + 1
    /\ task' = "done" /\ Answers("answered", found) /\ discovered' = found
    /\ UNCHANGED <<devices, timer, ap, deletes, own, refreshing, loads, view, rows, adopts, stale>>

\* A task that is cancelled while it waits for clients ends as if there were none, and each finish() goes on
Cancelled ==
    /\ task = "cancelled"
    /\ task' = "none" /\ Answers("answered", {}) /\ discovered' = {}
    /\ deletes' = [x \in Origin |-> IF deletes[x] = "waiting" THEN "stopping" ELSE deletes[x]]
    /\ UNCHANGED <<devices, timer, ap, own, refreshing, loads, view, rows, adopts, fails, stale>>

\* The access point fails, or a client does
DiscoverFails ==
    /\ task \in {"scanning", "querying"} /\ fails < MaxFails
    /\ fails' = fails + 1
    /\ task' = "failed" /\ Answers("failed", {})
    /\ ap' \in IF task = "querying" THEN {TRUE} ELSE BOOLEAN
    /\ UNCHANGED <<devices, discovered, timer, deletes, own, refreshing, loads, view, rows, adopts, stale>>

\* How the call of finish() ends, for who has made it
Ended(x) == IF x = "refresh" THEN "answered" ELSE "none"
Raised(x) == IF x = "refresh" THEN "failed" ELSE "none"

\* finish(): the task is cancelled, and waited for if it catches that; then the access point is stopped, and
\* waited for if it runs
Finish(x) ==
    /\ IF x = "timer" THEN timer /\ deletes[x] = "none" ELSE deletes[x] = "asked"
    /\ IF x = "timer" THEN stale' = TRUE ELSE UNCHANGED stale
    /\ \/ /\ task \in {"scanning", "cancelled"}
          /\ task' = "cancelled" /\ deletes' = [deletes EXCEPT ![x] = "waiting"]
          /\ timer' = (timer /\ x # "timer") /\ UNCHANGED discovered
       \/ /\ task \notin {"scanning", "cancelled"} /\ ap
          /\ task' = "none" /\ deletes' = [deletes EXCEPT ![x] = "stopping"]
          /\ timer' = (timer /\ x # "timer") /\ UNCHANGED discovered
       \/ /\ task \notin {"scanning", "cancelled"} /\ ~ap
          /\ task' = "none" /\ deletes' = [deletes EXCEPT ![x] = Ended(x)]
          /\ timer' = FALSE /\ discovered' = None
    /\ IF task \in {"restarting", "querying"} THEN Answers("failed", {}) ELSE UNCHANGED <<gets, list>>
    /\ UNCHANGED <<devices, ap, own, refreshing, loads, view, rows, adopts, fails>>

\* Of those that stop the access point at once, one succeeds; its processes are gone for the others, which raise
Raise(S) == [x \in Origin |-> IF x \in S /\ deletes[x] = "stopping" THEN Raised(x) ELSE deletes[x]]

Stopped(x) ==
    /\ deletes[x] = "stopping"
    /\ ap' = FALSE /\ timer' = FALSE /\ discovered' = None
    /\ deletes' = [Raise(Origin \ {x}) EXCEPT ![x] = Ended(x)]
    /\ IF task = "restarting" THEN task' = "failed" /\ Answers("failed", {}) ELSE UNCHANGED <<task, gets, list>>
    /\ UNCHANGED <<devices, own, refreshing, loads, view, rows, adopts, fails, stale>>

Restarted ==
    /\ task = "restarting"
    /\ task' = "scanning" /\ deletes' = Raise(Origin)
    /\ UNCHANGED <<devices, discovered, timer, ap, loading, rows, adopts, fails, stale>>

(* ------------------------------- adopting ------------------------------- *)

Adopt(r) ==
    /\ r \in rows /\ adopts[r] = "none"
    /\ adopts' = [adopts EXCEPT ![r] = "asked"]
    /\ UNCHANGED <<devices, discovery, loading, rows, fails, stale>>

\* patch_discovered_device()
Configure(r) ==
    /\ adopts[r] = "asked"
    /\ adopts' = [adopts EXCEPT ![r] = IF discovered # None /\ r[1] \in discovered THEN "configuring" ELSE "failed"]
    /\ UNCHANGED <<devices, discovery, loading, rows, fails, stale>>

\* Mutant: the device stays among those discovered.
ConfiguredKept(r) ==
    /\ adopts[r] = "configuring" /\ ap /\ r[1] \in near
    /\ near' = near \ {r[1]} /\ configured' = configured \cup {r[1]}
    /\ adopts' = [adopts EXCEPT ![r] = "connecting"]
    /\ UNCHANGED <<slaves, discovery, loading, rows, fails, stale>>

\* configure(): the device is configured, and then removed from those discovered, where it may no longer be
Configured(r) ==
    /\ adopts[r] = "configuring" /\ ap /\ r[1] \in near
    /\ near' = near \ {r[1]} /\ configured' = configured \cup {r[1]}
    /\ IF discovered # None /\ r[1] \in discovered
       THEN /\ discovered' = discovered \ {r[1]}
            /\ adopts' = [adopts EXCEPT ![r] = "connecting"]
       ELSE adopts' = [adopts EXCEPT ![r] = "failed"] /\ UNCHANGED discovered
    /\ UNCHANGED <<slaves, task, timer, ap, deletes, loading, rows, fails, stale>>

ConfigureFails(r) ==
    /\ adopts[r] = "configuring"
    /\ IF ap /\ r[1] \in near THEN fails < MaxFails /\ fails' = fails + 1 ELSE UNCHANGED fails
    /\ adopts' = [adopts EXCEPT ![r] = "failed"]
    /\ UNCHANGED <<devices, discovery, loading, rows, stale>>

\* The device has come to its new network, or it has been waited for too long
Connected(r) ==
    /\ adopts[r] = "connecting"
    /\ adopts' = [adopts EXCEPT ![r] = "configured"]
    /\ UNCHANGED <<devices, discovery, loading, rows, fails, stale>>

\* The row goes, also if something has failed
AdoptEnds(r) ==
    /\ \/ adopts[r] = "configured" /\ slaves' = slaves \cup {r[1]} /\ UNCHANGED <<fails, stale>>
       \/ adopts[r] = "configured" /\ fails < MaxFails /\ fails' = fails + 1 /\ UNCHANGED <<slaves, stale>>
       \/ adopts[r] = "failed" /\ stale' = TRUE /\ UNCHANGED <<slaves, fails>>
    /\ adopts' = [adopts EXCEPT ![r] = "ended"]
    /\ rows' = rows \ {r}
    /\ UNCHANGED <<near, configured, discovery, loading>>

-----------------------------------------------------------------------------
Init ==
    /\ near \in SUBSET Device /\ configured = {} /\ slaves = {}
    /\ task = "none" /\ discovered = None /\ timer = FALSE /\ ap = FALSE
    /\ deletes = [x \in Origin |-> "none"]
    /\ own = None /\ refreshing = FALSE /\ loads = 0
    /\ gets = [l \in Load |-> "none"] /\ list = [l \in Load |-> {}]
    /\ rows = {} /\ adopts = [r \in Row |-> "none"] /\ view = ""
    /\ fails = 0 /\ stale = FALSE

Next ==
    \/ Open \/ Refresh \/ Refreshed \/ RefreshFails \/ Tick \/ Close
    \/ Query \/ Cancelled \/ DiscoverFails \/ Restarted
    \/ \E l \in Load : Loaded(l) \/ Get(l)
    \/ \E found \in SUBSET near : Discovered(found)
    \/ \E x \in Origin : Finish(x) \/ Stopped(x)
    \/ \E r \in Row : Adopt(r) \/ Configure(r) \/ Configured(r) \/ ConfigureFails(r) \/ Connected(r) \/ AdoptEnds(r)

Spec == Init /\ [][Next]_dvars

-----------------------------------------------------------------------------
AtRest ==
    /\ own # None /\ LoadsUnderWay = {}
    /\ \A x \in Origin : deletes[x] = "none"
    /\ \A r \in rows : adopts[r] = "none"

\* Once calls have ended, the table lists exactly the devices that the server can still adopt, each once, and
\* shows no progress; the access point does not run without a timer that will stop it, also when a discovery
\* begins while others are being finished.  Left out: what other calls that crossed, the timer or a failed
\* adoption have made stale (discovered-devices-table.js showDiscoveredDevices, adoptDevice; apclients.py).
DiscoveryTells ==
    /\ AtRest /\ ~stale /\ view = "" =>
            {r[1] : r \in rows} = discovered /\ Cardinality(rows) = Cardinality(discovered)
    /\ own # None /\ LoadsUnderWay = {} => view # "progress"
    /\ ap => timer \/ deletes["timer"] # "none"

(* Statements of the code that do not hold. *)

\* apclients.py:218 "successfully configured": a device that was configured becomes a slave device, unless
\* adding it has failed
ConfiguredIsAdded ==
    \A d \in configured : d \in slaves \/ fails > 0 \/ \E l \in Load : adopts[<<d, l>>] \notin {"none", "ended", "failed"}
=============================================================================
