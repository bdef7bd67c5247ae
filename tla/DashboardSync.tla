---------------------------- MODULE DashboardSync ----------------------------
(***************************************************************************)
(* How the panels of the dashboard that a browser shows, those it knows of  *)
(* and those on the server follow each other (dashboard/dashboard.js,       *)
(* dashboard-section.js, api/dashboard.js over the handlers in              *)
(* frontend/api/funcs.py).                                                  *)
(*                                                                         *)
(* All the panels are put as a whole, two seconds after an edit, and come   *)
(* back as a whole in an event to every session, also to the one that put   *)
(* them.  They are abstracted to the set of the edits that are in them.     *)
(* The queue of the session is that of core/sessions.py, where an event of  *)
(* panels put by a session replaces an earlier one of the same session.     *)
(***************************************************************************)
EXTENDS Integers, Sequences, SequencesExt, Queues

CONSTANTS
    Mine,       \* edits made in this browser
    Theirs,     \* edits made elsewhere
    Old,        \* what the panels hold at the beginning
    MaxReloads, \* bound on the times the panels are asked for again
    MaxLosses   \* bound on the requests that fail and the sessions that are lost

Edit == Mine \cup Theirs \cup {Old}

VARIABLES
    stored,     \* the panels on the server
    known,      \* DashboardSection._panels
    root,       \* the panels of the root group, that are shown
    pending,    \* the debouncer is about to put them
    puts,       \* the panels put whose requests are on their way
    events,     \* events on their way to this session, each with the session it came by
    blocked,    \* a session before this one, that nobody listens to, holds a restore's event
    applying,   \* panels that wait for the open pages to close
    asked,      \* "no", "asked" or "answered": the GET under way
    answer,     \* what it answers
    connected,
    reloads, losses,    \* counted for the bounds
    edits,      \* history: the edits made here and elsewhere
    excused     \* history: a request failed or came late, an event was not told, or panels
                \* from the server crossed others

browser == <<known, root, pending, applying>>
get == <<asked, answer, reloads>>
server == <<stored, events, blocked>>
vars == <<server, browser, puts, get, connected, losses, edits, excused>>

-----------------------------------------------------------------------------
(* The browser saves *)

\* Any edit of a panel or group ends in save(), that is savePanels().
EditHere(e) ==
    /\ e \notin edits
    /\ root' = root \cup {e} /\ pending' = TRUE
    /\ edits' = edits \cup {e}
    /\ UNCHANGED <<server, known, applying, puts, get, connected, losses, excused>>

\* savePanelsDebouncer: the panels as they are now; nobody waits for the answer.
Save ==
    /\ pending
    /\ pending' = FALSE /\ puts' = Append(puts, root)
    /\ UNCHANGED <<server, known, root, applying, get, connected, losses, edits, excused>>

\* is_duplicate() reads the session of an event that has none when the panels were restored:
\* it raises, and this session and those after it are not told.
Raises == blocked \/ \E i \in DOMAIN events : events[i].by = "nobody"

\* Session.push()
Pushed(panels, by) ==
    Append(Filtered(events, {e \in ToSet(events) : e.by # by}), [panels |-> panels, by |-> by])

\* put_panels(): stored, and told to every session.
Stored(i) ==
    /\ i \in DOMAIN puts /\ connected
    /\ stored' = puts[i]
    /\ events' = IF Raises THEN events ELSE Pushed(puts[i], "me")
    /\ puts' = RemoveAt(puts, i)
    /\ excused' = (excused \/ i # 1 \/ Raises)
    /\ UNCHANGED <<blocked, browser, get, connected, losses, edits>>

\* A request that fails is not repeated, and nothing tells the user.
PutFails(i) ==
    /\ i \in DOMAIN puts /\ losses < MaxLosses
    /\ puts' = RemoveAt(puts, i)
    /\ losses' = losses + 1 /\ excused' = TRUE
    /\ UNCHANGED <<server, browser, get, connected, edits>>

\* Another client puts its panels, that may not have the newest edits.
EditElsewhere(e, base) ==
    /\ e \notin edits /\ base \in {stored, {Old}}
    /\ stored' = base \cup {e}
    /\ events' = IF Raises THEN events ELSE Pushed(stored', "other")
    /\ edits' = edits \cup {e} /\ excused' = (excused \/ Raises)
    /\ UNCHANGED <<blocked, browser, puts, get, connected, losses>>

\* put_frontend(): the panels of a backup; its event has no session.
Restore(e) ==
    /\ e \notin edits
    /\ stored' = {e}
    /\ events' = Append(events, [panels |-> stored', by |-> "nobody"])
    /\ blocked' \in {blocked, TRUE}
    /\ edits' = edits \cup {e}
    /\ UNCHANGED <<browser, puts, get, connected, losses, excused>>

\* The session that nobody listens to expires.
Expires ==
    /\ blocked
    /\ blocked' = FALSE
    /\ UNCHANGED <<stored, events, browser, puts, get, connected, losses, edits, excused>>

-----------------------------------------------------------------------------
(* The browser follows *)

\* _handleDashboardUpdate(): panels of others are applied when the pages above the root
\* group have closed, that leave the edit mode.
Update(panels, own) ==
    /\ known' = panels
    /\ applying' = IF own THEN applying ELSE Append(applying, panels)

Event ==
    /\ events # <<>> /\ connected
    /\ Update(Head(events).panels, Head(events).by = "me")
    /\ events' = Tail(events)
    /\ excused' = (excused \/ asked = "answered" \/ applying # <<>>)
    /\ UNCHANGED <<stored, blocked, root, pending, puts, get, connected, losses, edits>>

OnTheirWay == puts # <<>> \/ \E i \in DOMAIN events : events[i].by = "me"

\* rootGroup.fromJSON(): every group and panel is made anew.
Apply ==
    /\ applying # <<>>
    /\ root' = Head(applying) /\ applying' = Tail(applying)
    /\ excused' = (excused \/ OnTheirWay)
    /\ UNCHANGED <<server, known, pending, puts, get, connected, losses, edits>>

\* _reloadPanelConfig(), a second after the window becomes active.
Reload ==
    /\ asked = "no" /\ connected /\ reloads < MaxReloads
    /\ asked' = "asked" /\ reloads' = reloads + 1
    /\ UNCHANGED <<server, browser, puts, answer, connected, losses, edits, excused>>

Answer ==
    /\ asked = "asked" /\ connected
    /\ asked' = "answered" /\ answer' = stored
    /\ UNCHANGED <<server, browser, puts, reloads, connected, losses, edits, excused>>

\* Panels unlike those last known come as an event of the server (fakeServerEvent()).
Answered ==
    /\ asked = "answered"
    /\ asked' = "no" /\ answer' = {}
    /\ IF answer # known THEN Update(answer, FALSE) ELSE UNCHANGED <<known, applying>>
    /\ excused' = (excused \/ OnTheirWay)
    /\ UNCHANGED <<server, root, pending, puts, reloads, connected, losses, edits>>

AnswerFails ==
    /\ asked # "no" /\ losses < MaxLosses
    /\ asked' = "no" /\ answer' = {}
    /\ losses' = losses + 1 /\ excused' = TRUE
    /\ UNCHANGED <<server, browser, puts, reloads, connected, edits>>

\* The session is lost with its events, and the requests under way fail.
Disconnect ==
    /\ connected /\ losses < MaxLosses
    /\ connected' = FALSE /\ losses' = losses + 1
    /\ excused' = (excused \/ OnTheirWay \/ asked # "no")
    /\ puts' = <<>> /\ events' = <<>> /\ asked' = "no" /\ answer' = {}
    /\ UNCHANGED <<stored, blocked, browser, reloads, edits>>

\* Mutant: the panels are not asked for again.
ReconnectOnly ==
    /\ ~connected
    /\ connected' = TRUE
    /\ UNCHANGED <<server, browser, puts, get, losses, edits, excused>>

\* onMainDeviceReconnect()
Reconnect ==
    /\ ~connected
    /\ connected' = TRUE /\ asked' = "asked"
    /\ UNCHANGED <<server, browser, puts, answer, reloads, losses, edits, excused>>

-----------------------------------------------------------------------------
\* The panels come from the local storage, and are asked for (_loadPanels()).
Init ==
    /\ stored = {Old}
    /\ known \in {{}, {Old}} /\ root = known
    /\ pending = FALSE /\ puts = <<>> /\ events = <<>> /\ applying = <<>>
    /\ asked = "asked" /\ answer = {} /\ connected = TRUE
    /\ blocked = FALSE /\ reloads = 0 /\ losses = 0 /\ excused = FALSE
    /\ edits = IF known = stored THEN {} ELSE {Old}     \* Old: an edit made elsewhere before

Next ==
    \/ \E e \in Mine : EditHere(e)
    \/ Save
    \/ \E i \in DOMAIN puts : Stored(i) \/ PutFails(i)
    \/ \E e \in Theirs : \E base \in {stored, {Old}} : EditElsewhere(e, base)
    \/ \E e \in Theirs : Restore(e)
    \/ Expires \/ Event \/ Apply \/ Reload \/ Answer \/ Answered \/ AnswerFails
    \/ Disconnect \/ Reconnect

Spec == Init /\ [][Next]_vars

-----------------------------------------------------------------------------
(* Properties *)

Quiet ==
    /\ ~pending /\ puts = <<>> /\ events = <<>> /\ applying = <<>> /\ asked = "no" /\ connected

\* When nothing is under way, the panels shown are those on the server, unless a request
\* failed or came late or panels crossed each other (_handleDashboardUpdate(), savePanels()).
ShownAsStored == Quiet /\ ~excused => root = stored /\ known = stored

\* What the user edits stays, unless somebody else edits too (_loadPanels(),
\* _reloadPanelConfig()); it may be missing here after panels that crossed each other.
EditsKept ==
    edits \subseteq Mine /\ ~excused => edits \subseteq root

\* Both.
DashboardFollows == ShownAsStored /\ EditsKept

\* The dashboard shown follows the server's, whatever crosses on the way
\* (dashboard-section.js: "see if anything has changed").
ChangesSeen == Quiet /\ losses = 0 => root = stored
=============================================================================
