------------------------------- MODULE Client -------------------------------
(***************************************************************************)
(* A browser that shows the server's ports and devices: the listening      *)
(* mechanism (frontend/js/api/notifications.js), the bulk processing of    *)
(* events (frontend/js/events.js), the cache (frontend/js/cache.js) and    *)
(* what starts and stops them (frontend/js/index.js), composed with one    *)
(* listen session of the server (core/sessions.py).                        *)
(*                                                                         *)
(* wait() sends a listen request and, when it is answered, schedules       *)
(* itself again: a chain of requests.  startListening() begins a chain.    *)
(* The k-th begins at listening time k and is chain k for good; where it   *)
(* stands is chain[k].  The answers' events are gathered and applied to    *)
(* the cache by a task of their own; the cache is also loaded as a whole,  *)
(* by one GET per part, and what a load finds changed is handed on as fake *)
(* events.                                                                 *)
(*                                                                         *)
(* JavaScript runs one task at a time; asap() tasks run in the order they  *)
(* were scheduled, and answers from the network come between any two of    *)
(* them.  A state of an item (a port or slave device) is the number of the *)
(* change that led to it, negated when that change removed the item.  Only *)
(* the contents that an administrator's client loads are followed.         *)
(***************************************************************************)
EXTENDS Integers, Sequences, FiniteSets, SequencesExt, FiniteSetsExt

CONSTANTS
    Item,           \* ports and slave devices
    Part,           \* what is loaded by one GET each
    PartOf,         \* the part an item belongs to
    Upserted,       \* the parts whose update event also adds what is not there
    MaxChanges,     \* bound on the number of changes on the server
    MaxFailures,    \* bound on the number of failed requests
    MaxRestarts     \* bound on the number of full updates and of returns to the window

ASSUME ClientAssumption ==
    /\ IsFiniteSet(Item) /\ IsFiniteSet(Part)
    /\ PartOf \in [Item -> Part] /\ Upserted \subseteq Part
    /\ MaxChanges \in Nat /\ MaxFailures \in Nat /\ MaxRestarts \in Nat

Chain == 1..(1 + MaxRestarts)
Load == 1..(1 + MaxRestarts + MaxFailures)
None == 0
Ghost == 0 - 1

VARIABLES
    \* the server
    server,         \* server[i]: the state of item i
    queue,          \* the events queued in the session
    known,          \* the session exists
    listener,       \* the chain whose request the session answers next, or None or Ghost
    \* listening
    listening,      \* listeningTime, 0 for null
    starts,         \* number of calls of startListening()
    chain,          \* chain[k]: where chain k of requests stands
    asked,          \* asked[k]: requestListeningTime of its last request
    answer,         \* answer[k]: the events in the answer to it
    wire,           \* the chains whose requests are on the way, in the order sent
    tasks,          \* what asap() has scheduled
    \* events and cache
    bulk,           \* eventsBulk
    failed,         \* the last listen answer that events.js was told of was an error
    reloadNeeded,
    ready,          \* whenCacheReady is fulfilled
    loaded,         \* the parts that are not null
    cache,          \* cache[i]: the cached state of item i (one with a removal: not there)
    \* loads
    load,           \* load[l]: how load l stands
    waitsFor,       \* waitsFor[l]: the parts whose promises load l waits for
    get,            \* get[l][p]: how its GET for part p stands
    got,            \* got[l][p]: the answer to it
    \* window
    active,
    started,        \* listening was initially started
    \* history and bounds
    unconfirmed,    \* the parts only ever filled from the local storage
    untold,         \* the items that changed between the first load and the first listening
    crossed,        \* a task or timer scheduled at one listening time has run at another
    seen,           \* seen[i]: the age of the newest state of i that reached the client
    overtaken,      \* the items that an answer has set back: it came behind newer events, or
                    \* among events not yet applied
    log,            \* the changes on the server, as the events that tell of them
    failures, restarts

serverVars == <<server, queue, known, listener>>
listenVars == <<listening, starts, chain, asked, answer, wire>>
cacheVars == <<bulk, failed, reloadNeeded, ready, loaded, cache, unconfirmed, untold, crossed,
               seen, overtaken>>
loadVars == <<load, waitsFor, get, got>>
windowVars == <<active, started>>
bounds == <<log, failures, restarts>>
vars == <<serverVars, listenVars, tasks, cacheVars, loadVars, windowVars, bounds>>

There(v) == v > 0
Same(v, w) == v = w \/ (~There(v) /\ ~There(w))
Age(v) == IF v < 0 THEN 0 - v ELSE v
ItemsOf(p) == {i \in Item : PartOf[i] = p}
NoStates == [i \in Item |-> 0]

Without(s, x) ==
    LET at == {j \in DOMAIN s : s[j] = x}
    IN IF at = {} THEN s ELSE RemoveAt(s, Min(at))

Task(what, k) == [what |-> what, of |-> k]
Sync == Task("sync", listening)
SyncError == Task("syncError", 0)
Bulk == Task("bulk", 0)

-----------------------------------------------------------------------------
(* The copy *)

\* updateFromEvent(): removals and changes (slave-device-update, value-change) of what is
\* not there are ignored; additions and port-update are not.
Takes(c, e) == e.kind = "put" \/ (e.kind # "full" /\ There(c[e.item]))
TakeEvent(c, e) == IF Takes(c, e) THEN [c EXCEPT ![e.item] = e.state] ELSE c

\* The copy after events, one by one.
Updated(c, events) ==
    LET after[j \in 0..Len(events)] == IF j = 0 THEN c ELSE TakeEvent(after[j - 1], events[j])
    IN after[Len(events)]

\* The ages of what events tell of item i.
Ages(events, i) ==
    {Age(events[j].state) : j \in {j \in DOMAIN events : events[j].item = i /\ events[j].kind # "full"}}

-----------------------------------------------------------------------------
(* Loading *)

FreeLoads == {l \in Load : load[l] = "none" /\ \A p \in Part : get[l][p] = "none"}

\* load(): a GET for each part.  What stands in for a null part from the local storage
\* (with useLocalStorage) is not waited for.
BeginLoad(l, fromStorage, states, loads) ==
    /\ loaded' = loaded \cup fromStorage
    /\ unconfirmed' = unconfirmed \cup fromStorage
    /\ cache' = [i \in Item |-> IF PartOf[i] \in fromStorage THEN states[i] ELSE cache[i]]
    /\ waitsFor' = [waitsFor EXCEPT ![l] = Part \ fromStorage]
    /\ load' = [loads EXCEPT ![l] = IF Part = fromStorage THEN "none" ELSE "loading"]
    /\ ready' = (ready \/ Part = fromStorage)
    /\ get' = [get EXCEPT ![l] = [p \in Part |-> "asked"]]
    /\ UNCHANGED got

\* The server answers a GET with what is there now.
ServeGet(l, p) ==
    /\ get[l][p] = "asked"
    /\ get' = [get EXCEPT ![l][p] = "answered"]
    /\ got' = [got EXCEPT ![l][p] = [i \in Item |-> IF PartOf[i] = p THEN server[i] ELSE 0]]
    /\ UNCHANGED <<serverVars, listenVars, tasks, cacheVars, load, waitsFor, windowVars,
                   bounds>>

\* What the answer tells that the cache does not: the fake events of loadPorts() and
\* loadSlaveDevices(), removals first, then additions, then updates.
Event(kind, i, v) == [kind |-> kind, item |-> i, state |-> v]
UpdateKind(p) == IF p \in Upserted THEN "put" ELSE "change"
FakeEvents(p, states) ==
    LET removed == {i \in ItemsOf(p) : There(cache[i]) /\ ~There(states[i])}
        added == {i \in ItemsOf(p) : ~There(cache[i]) /\ There(states[i])}
        updated == {i \in ItemsOf(p) : There(cache[i]) /\ There(states[i])
                                                       /\ cache[i] # states[i]}
        Told(kind, is) == LET list == SetToSeq(is) IN
            [j \in 1..Len(list) |-> Event(kind, list[j], states[list[j]])] IN
    Told("remove", removed) \o Told("put", added) \o Told(UpdateKind(p), updated)

\* events.js: an event joins the bulk; the bulk's task is scheduled anew, unless the cache
\* is not ready.
Gather(events, isReady, ts) ==
    /\ bulk' = bulk \o events
    /\ tasks' = IF events = <<>> THEN ts
                ELSE LET rest == Without(ts, Bulk) IN IF isReady THEN Append(rest, Bulk) ELSE rest

\* The bulk has events of i that have not been applied.
Pending(i) == Ages(bulk, i) # {}

\* The client gets the answer: it fills an empty part, else it is compared with the copy.
\* A load whose last awaited part this was makes the cache ready.
GetAnswered(l, p) ==
    /\ get[l][p] = "answered"
    /\ get' = [get EXCEPT ![l][p] = "none"]
    /\ waitsFor' = [waitsFor EXCEPT ![l] = @ \ {p}]
    /\ LET all == waitsFor[l] = {p} IN
       /\ load' = IF all THEN [load EXCEPT ![l] = "none"] ELSE load
       /\ ready' = (ready \/ all)
    /\ loaded' = loaded \cup {p}
    /\ unconfirmed' = unconfirmed \ {p}
    /\ got' = [got EXCEPT ![l][p] = NoStates]
    /\ IF p \in loaded
       THEN /\ Gather(FakeEvents(p, got[l][p]), ready, tasks)
            /\ UNCHANGED cache
       ELSE /\ cache' = [i \in Item |-> IF PartOf[i] = p THEN got[l][p][i] ELSE cache[i]]
            /\ UNCHANGED <<bulk, tasks>>
    /\ seen' = [i \in Item |-> Max({seen[i], Age(got[l][p][i])})]
    /\ LET Overtaken(i) == Age(got[l][p][i]) < seen[i] \/ Pending(i)
           SetBack(i) == Age(Updated(cache', bulk')[i]) < seen'[i] IN
       overtaken' = (overtaken \ ItemsOf(p)) \cup {i \in ItemsOf(p) : Overtaken(i) /\ SetBack(i)}
    /\ UNCHANGED <<serverVars, listenVars, failed, reloadNeeded, untold, crossed, windowVars, bounds>>

\* Mutant: a load that fails is not tried again.
GetFailsForGood(l, p) ==
    /\ get[l][p] # "none"
    /\ failures < MaxFailures
    /\ failures' = failures + 1
    /\ get' = [get EXCEPT ![l][p] = "none"]
    /\ got' = [got EXCEPT ![l][p] = NoStates]
    /\ IF p \in waitsFor[l]
       THEN /\ load' = [load EXCEPT ![l] = "none"]
            /\ waitsFor' = [waitsFor EXCEPT ![l] = {}]
       ELSE UNCHANGED <<load, waitsFor>>
    /\ UNCHANGED <<serverVars, listenVars, tasks, cacheVars, windowVars, log, restarts>>

\* The request fails or its answer is lost.  A load that waits for it is tried again
\* later; one that has done with the part, or has failed already, is not affected.
GetFails(l, p) ==
    /\ get[l][p] # "none"
    /\ failures < MaxFailures
    /\ failures' = failures + 1
    /\ get' = [get EXCEPT ![l][p] = "none"]
    /\ got' = [got EXCEPT ![l][p] = NoStates]
    /\ IF p \in waitsFor[l]
       THEN /\ load' = [load EXCEPT ![l] = "retry"]
            /\ waitsFor' = [waitsFor EXCEPT ![l] = {}]
       ELSE UNCHANGED <<load, waitsFor>>
    /\ UNCHANGED <<serverVars, listenVars, tasks, cacheVars, windowVars, log, restarts>>

\* SERVER_RETRY_INTERVAL after a failure, load() is called again: a new load.  What the
\* local storage has was taken by the first load.
RetryLoad(l) ==
    /\ load[l] = "retry" /\ FreeLoads # {}
    /\ BeginLoad(Min(FreeLoads), {}, NoStates, [load EXCEPT ![l] = "none"])
    /\ untold' = {}
    /\ UNCHANGED <<serverVars, listenVars, tasks, bulk, failed, reloadNeeded, crossed, seen,
                   overtaken, windowVars, bounds>>

\* handleAccessLevelChange(): the access level is known, and the first load begins, with
\* what an earlier visit left in the local storage.
AccessGranted ==
    /\ load[1] = "start"
    /\ \E fromStorage \in SUBSET Part : \E states \in [Item -> {0, 1}] :
          BeginLoad(1, fromStorage, states, load)
    /\ untold' = {}
    /\ UNCHANGED <<serverVars, listenVars, tasks, bulk, failed, reloadNeeded, crossed, seen,
                   overtaken, windowVars, bounds>>

-----------------------------------------------------------------------------
(* Listening *)

\* wait() for chain k: a request at the present listening time.
Wait(k) ==
    /\ chain' = [chain EXCEPT ![k] = "sent"]
    /\ asked' = [asked EXCEPT ![k] = listening']
    /\ wire' = Append(wire, k)

\* startListening(): the next chain.
StartListening ==
    /\ starts + 1 \in Chain
    /\ starts' = starts + 1
    /\ listening' = starts + 1
    /\ Wait(starts + 1)

\* The request arrives: a request that waits is answered, with the queued events; else
\* those are the answer to this one (reset_and_wait()).
Arrives ==
    /\ wire # <<>>
    /\ wire' = Tail(wire)
    /\ known' = TRUE
    /\ queue' = <<>>
    /\ LET k == Head(wire) IN
       \/ /\ listener \in Chain
          /\ listener' = k
          /\ chain' = [chain EXCEPT ![k] = "waiting", ![listener] = "answered"]
          /\ answer' = [answer EXCEPT ![listener] = queue]
       \/ /\ listener = Ghost \/ (queue = <<>> /\ listener = None)
          /\ listener' = k
          /\ chain' = [chain EXCEPT ![k] = "waiting"]
          /\ UNCHANGED answer
       \/ /\ listener = None /\ queue # <<>>
          /\ chain' = [chain EXCEPT ![k] = "answered"]
          /\ answer' = [answer EXCEPT ![k] = queue]
          /\ UNCHANGED listener
    /\ UNCHANGED <<server, listening, starts, asked, tasks, cacheVars, loadVars, windowVars,
                   bounds>>

\* The server's update() answers the waiting request: with the queued events, or with none
\* when it has waited for its timeout.
Respond ==
    /\ listener # None
    /\ listener' = None
    /\ queue' = <<>>
    /\ IF listener = Ghost THEN UNCHANGED <<chain, answer>>
       ELSE /\ chain' = [chain EXCEPT ![listener] = "answered"]
            /\ answer' = [answer EXCEPT ![listener] = queue]
    /\ UNCHANGED <<server, known, listening, starts, asked, wire, tasks, cacheVars, loadVars,
                   windowVars, bounds>>

\* The client gets the answer: the next request and the listen callbacks are scheduled,
\* the events handed on; unless listening was stopped or started anew since the request.
Receive(k) ==
    /\ chain[k] = "answered"
    /\ answer' = [answer EXCEPT ![k] = <<>>]
    /\ IF asked[k] = listening
       THEN /\ chain' = [chain EXCEPT ![k] = "task"]
            /\ Gather(answer[k], ready, tasks \o <<Task("wait", k), Sync>>)
            /\ seen' = [i \in Item |-> Max({seen[i]} \cup Ages(answer[k], i))]
            /\ UNCHANGED asked
       ELSE /\ chain' = [chain EXCEPT ![k] = "over"]
            /\ asked' = [asked EXCEPT ![k] = 0]
            /\ UNCHANGED <<bulk, tasks, seen>>
    /\ UNCHANGED <<serverVars, listening, starts, wire, failed, reloadNeeded, ready, loaded, cache,
                   unconfirmed, untold, crossed, overtaken, loadVars, windowVars, bounds>>

\* The connection of a request breaks: on its way, while it waits at the server (which
\* does not notice), or on the way back with its events.
Break(k) ==
    /\ chain[k] \in {"sent", "waiting", "answered"}
    /\ failures < MaxFailures
    /\ failures' = failures + 1
    /\ chain' = [chain EXCEPT ![k] = "broken"]
    /\ answer' = [answer EXCEPT ![k] = <<>>]
    /\ listener' = IF listener = k THEN Ghost ELSE listener
    /\ wire' = Without(wire, k)
    /\ UNCHANGED <<server, queue, known, listening, starts, asked, tasks, cacheVars, loadVars,
                   windowVars, log, restarts>>

\* Mutant: after an error the chain is not taken up again.
ErrorEndsChain(k) ==
    /\ chain[k] = "broken"
    /\ chain' = [chain EXCEPT ![k] = "over"]
    /\ tasks' = IF asked[k] = listening THEN Append(tasks, SyncError) ELSE tasks
    /\ UNCHANGED <<serverVars, listening, starts, asked, answer, wire, cacheVars, loadVars,
                   windowVars, bounds>>

\* The client gets the error: the callbacks are told, and the next request is made later.
Error(k) ==
    /\ chain[k] = "broken"
    /\ IF asked[k] = listening
       THEN /\ chain' = [chain EXCEPT ![k] = "timer"]
            /\ tasks' = Append(tasks, SyncError)
            /\ UNCHANGED asked
       ELSE /\ chain' = [chain EXCEPT ![k] = "over"]
            /\ asked' = [asked EXCEPT ![k] = 0]
            /\ UNCHANGED tasks
    /\ UNCHANGED <<serverVars, listening, starts, answer, wire, cacheVars, loadVars,
                   windowVars, bounds>>

\* The timer calls wait(), whatever has happened to listening in the meantime.
TimerFires(k) ==
    /\ chain[k] = "timer"
    /\ listening' = listening
    /\ Wait(k)
    /\ crossed' = (crossed \/ asked[k] # listening)
    /\ UNCHANGED <<serverVars, starts, answer, tasks, bulk, failed, reloadNeeded, ready,
                   loaded, cache, unconfirmed, untold, seen, overtaken, loadVars, windowVars, bounds>>

\* So does the task of asap().
WaitTask ==
    /\ tasks # <<>>
    /\ Head(tasks).what = "wait"
    /\ tasks' = Tail(tasks)
    /\ listening' = listening
    /\ Wait(Head(tasks).of)
    /\ crossed' = (crossed \/ asked[Head(tasks).of] # listening)
    /\ UNCHANGED <<serverVars, starts, answer, bulk, failed, reloadNeeded, ready, loaded,
                   cache, unconfirmed, untold, seen, overtaken, loadVars, windowVars, bounds>>

-----------------------------------------------------------------------------
(* The callbacks of a listen answer, and the events *)

\* Events.init()'s callback, told of an error.
SyncErrorTask ==
    /\ tasks # <<>>
    /\ Head(tasks) = SyncError
    /\ tasks' = Tail(tasks)
    /\ failed' = TRUE
    /\ UNCHANGED <<serverVars, listenVars, bulk, reloadNeeded, ready, loaded, cache,
                   unconfirmed, untold, crossed, seen, overtaken, loadVars, windowVars, bounds>>

\* Mutant: nothing is loaded after a reconnection.
SyncTaskNoReconnect ==
    /\ tasks # <<>>
    /\ Head(tasks).what = "sync"
    /\ tasks' = Tail(tasks)
    /\ failed' = FALSE
    /\ reloadNeeded' = FALSE
    /\ crossed' = (crossed \/ Head(tasks) # Sync)
    /\ IF reloadNeeded
       THEN /\ FreeLoads # {} /\ BeginLoad(Min(FreeLoads), {}, NoStates, load)
            /\ untold' = {}
       ELSE UNCHANGED <<ready, loaded, cache, unconfirmed, untold, loadVars>>
    /\ UNCHANGED <<serverVars, listenVars, bulk, seen, overtaken, windowVars, bounds>>

\* The callbacks of Events.init() and Cache.init(), told of a success: after an error, and
\* when reload() was called, everything is loaded.
SyncTask ==
    /\ tasks # <<>>
    /\ Head(tasks).what = "sync"
    /\ tasks' = Tail(tasks)
    /\ failed' = FALSE
    /\ reloadNeeded' = FALSE
    /\ crossed' = (crossed \/ Head(tasks) # Sync)
    /\ IF reloadNeeded \/ failed
       THEN /\ FreeLoads # {} /\ BeginLoad(Min(FreeLoads), {}, NoStates, load)
            /\ untold' = {}
       ELSE UNCHANGED <<ready, loaded, cache, unconfirmed, untold, loadVars>>
    /\ UNCHANGED <<serverVars, listenVars, bulk, seen, overtaken, windowVars, bounds>>

\* processEventsBulk(); a full-update event makes the client listen anew and load.
BulkTask ==
    /\ tasks # <<>>
    /\ Head(tasks) = Bulk
    /\ tasks' = Tail(tasks)
    /\ bulk' = <<>>
    /\ cache' = Updated(cache, bulk)
    /\ IF \E j \in 1..Len(bulk) : bulk[j].kind = "full"
       THEN /\ reloadNeeded' = TRUE
            /\ StartListening
       ELSE UNCHANGED <<reloadNeeded, listening, starts, chain, asked, wire>>
    /\ UNCHANGED <<serverVars, answer, failed, ready, loaded, unconfirmed, untold, crossed, seen,
                   overtaken, loadVars, windowVars, bounds>>

-----------------------------------------------------------------------------
(* The window *)

\* Access level and service worker are ready: listening starts.
Start ==
    /\ ~started
    /\ load[1] # "start"
    /\ started' = TRUE
    /\ StartListening
    /\ UNCHANGED <<serverVars, answer, tasks, cacheVars, loadVars, active, bounds>>

\* The window is left: stopListening().
Deactivate ==
    /\ active
    /\ active' = FALSE
    /\ listening' = 0
    /\ UNCHANGED <<serverVars, starts, chain, asked, answer, wire, tasks, cacheVars, loadVars,
                   started, bounds>>

\* It comes back: Cache.reload(now), if listening was ever started.
Activate ==
    /\ ~active
    /\ restarts < MaxRestarts
    /\ restarts' = restarts + 1
    /\ active' = TRUE
    /\ IF started
       THEN /\ reloadNeeded' = TRUE
            /\ StartListening
       ELSE UNCHANGED <<reloadNeeded, listening, starts, chain, asked, wire>>
    /\ UNCHANGED <<serverVars, answer, tasks, bulk, failed, ready, loaded, cache, unconfirmed,
                   untold, crossed, seen, overtaken, loadVars, started, log, failures>>

-----------------------------------------------------------------------------
(* The server's items *)

Push(e) ==
    /\ log' = Append(log, e)
    /\ queue' = IF known THEN Append(queue, e) ELSE queue
    /\ untold' = IF starts = 0 \/ (wire = <<1>> /\ ~known /\ ~failed)
                 THEN untold \cup {e.item} ELSE untold
    /\ UNCHANGED <<bulk, failed, reloadNeeded, ready, loaded, cache, unconfirmed, crossed, seen, overtaken>>

NewState == Len(log) + 2

\* An item changes, is removed or added, and the session gets the event.
Change(i) ==
    /\ Len(log) < MaxChanges
    /\ \/ /\ There(server[i])
          /\ server' = [server EXCEPT ![i] = NewState]
          /\ Push(Event(UpdateKind(PartOf[i]), i, NewState))
       \/ /\ There(server[i])
          /\ server' = [server EXCEPT ![i] = 0 - NewState]
          /\ Push(Event("remove", i, 0 - NewState))
       \/ /\ ~There(server[i])
          /\ server' = [server EXCEPT ![i] = NewState]
          /\ Push(Event("put", i, NewState))
    /\ UNCHANGED <<known, listener, listenVars, tasks, loadVars, windowVars,
                   failures, restarts>>

\* A restore changes an item without an event of its own, and ends with a full-update.
FullUpdate(i) ==
    /\ Len(log) < MaxChanges
    /\ restarts < MaxRestarts
    /\ restarts' = restarts + 1
    /\ server' = [server EXCEPT ![i] = NewState]
    /\ Push(Event("full", i, NewState))
    /\ UNCHANGED <<known, listener, listenVars, tasks, loadVars, windowVars,
                   failures>>

\* The session is forgotten while the client pauses: it waits after an error, or does not
\* listen.
Expire ==
    /\ known
    /\ listener = None
    /\ \A k \in Chain : chain[k] \in {"none", "timer", "over"}
    /\ known' = FALSE
    /\ queue' = <<>>
    /\ UNCHANGED <<server, listener, listenVars, tasks, cacheVars, loadVars, windowVars,
                   bounds>>

-----------------------------------------------------------------------------
Init ==
    /\ server = [i \in Item |-> 1]
    /\ queue = <<>> /\ known = FALSE /\ listener = None
    /\ listening = 0 /\ starts = 0
    /\ chain = [k \in Chain |-> "none"]
    /\ asked = [k \in Chain |-> 0]
    /\ answer = [k \in Chain |-> <<>>]
    /\ wire = <<>> /\ tasks = <<>> /\ bulk = <<>>
    /\ failed = FALSE /\ reloadNeeded = FALSE /\ ready = FALSE
    /\ loaded = {} /\ cache = NoStates
    /\ unconfirmed = {} /\ untold = {} /\ crossed = FALSE /\ seen = [i \in Item |-> 0]
    /\ overtaken = {}
    /\ load = [l \in Load |-> IF l = 1 THEN "start" ELSE "none"]
    /\ waitsFor = [l \in Load |-> {}]
    /\ get = [l \in Load |-> [p \in Part |-> "none"]]
    /\ got = [l \in Load |-> [p \in Part |-> NoStates]]
    /\ active = TRUE /\ started = FALSE
    /\ log = <<>> /\ failures = 0 /\ restarts = 0

ClientStep ==
    \/ WaitTask \/ SyncErrorTask \/ SyncTask \/ BulkTask
    \/ AccessGranted \/ Start
    \/ \E k \in Chain : Receive(k) \/ Error(k) \/ TimerFires(k)
    \/ \E l \in Load : RetryLoad(l) \/ \E p \in Part : GetAnswered(l, p)
NetworkStep ==
    \/ Arrives \/ Respond
    \/ \E l \in Load, p \in Part : ServeGet(l, p)
Trouble ==
    \/ \E k \in Chain : Break(k)
    \/ \E l \in Load, p \in Part : GetFails(l, p)
    \/ Expire
World == Deactivate \/ Activate \/ \E i \in Item : Change(i) \/ FullUpdate(i)

Next == ClientStep \/ NetworkStep \/ Trouble \/ World

Spec == Init /\ [][Next]_vars

\* The browser runs what is scheduled; every request is answered, fails or times out.
FairSpec ==
    /\ Spec
    /\ WF_vars(WaitTask) /\ WF_vars(SyncErrorTask) /\ WF_vars(SyncTask) /\ WF_vars(BulkTask)
    /\ WF_vars(AccessGranted) /\ WF_vars(Start)
    /\ \A k \in Chain : WF_vars(Receive(k)) /\ WF_vars(Error(k)) /\ WF_vars(TimerFires(k))
    /\ \A l \in Load : WF_vars(RetryLoad(l))
    /\ \A l \in Load, p \in Part : WF_vars(GetAnswered(l, p)) /\ WF_vars(ServeGet(l, p))
    /\ WF_vars(Arrives) /\ WF_vars(Respond)

-----------------------------------------------------------------------------
TypeOK ==
    /\ server \in [Item -> Int] /\ cache \in [Item -> Int]
    /\ listener \in Chain \cup {None, Ghost}
    /\ listening \in Chain \cup {0} /\ starts \in Chain \cup {0}
    /\ chain \in [Chain -> {"none", "sent", "waiting", "answered", "broken", "task", "timer",
                            "over"}]
    /\ asked \in [Chain -> Chain \cup {0}]
    /\ load \in [Load -> {"start", "none", "loading", "retry"}]
    /\ waitsFor \in [Load -> SUBSET Part]
    /\ get \in [Load -> [Part -> {"none", "asked", "answered"}]]
    /\ {loaded, unconfirmed} \subseteq SUBSET Part
    /\ seen \in [Item -> Nat] /\ overtaken \subseteq Item
    /\ {known, failed, reloadNeeded, ready, active, started} \subseteq BOOLEAN

Goes(k) == chain[k] \notin {"none", "over"}

\* While the client says that it listens, some chain of requests goes on that will not be
\* ignored: with its next request scheduled, or its last one made at this listening time.
ListeningGoesOn ==
    listening # 0 =>
        \E k \in Chain : chain[k] \in {"task", "timer"} \/ (Goes(k) /\ asked[k] = listening)

Loading(l) == load[l] # "none" \/ \E p \in Part : get[l][p] # "none"

\* Nothing is under way that could still change the cache.
Quiet ==
    /\ listening # 0 /\ known
    /\ queue = <<>> /\ bulk = <<>> /\ tasks = <<>>
    /\ ~reloadNeeded /\ ~failed
    /\ \A l \in Load : ~Loading(l)
    /\ \A k \in Chain : chain[k] \notin {"answered", "broken", "timer"}

Agrees(i) ==
    \/ Same(cache[i], server[i])
    \/ i \in overtaken
    \/ i \in untold
    \/ crossed
    \/ PartOf[i] \in unconfirmed

\* When nothing is under way, the cache has what the server has, through lost answers,
\* expired sessions, full updates and pauses; except what an answer has set back that came
\* behind newer events or among events not yet applied, what changed between the first load
\* and the first listen request, and what a failed load left as the local storage had it.
QuietAgrees == Quiet => \A i \in Item : Agrees(i)

\* The client gets there, and stays there once the server's changes end, if the window stays
\* in use; events that came before the cache was ready may wait for the next one.
Converges == <>[](\A i \in Item : Agrees(i)) \/ []<>(listening = 0 \/ bulk # <<>>)

\* Listening has one chain of requests (the comment in wait() on a second, parallel one).
OneChain ==
    Cardinality({k \in Chain : Goes(k) /\ (asked[k] = listening \/ chain[k] = "task")}) <= 1

\* A load is tried until it succeeds (the comment in handleAccessLevelChange).
LoadedIndefinitely == (\A l \in Load : ~Loading(l)) => unconfirmed = {}
=============================================================================
