------------------------------ MODULE Peripherals ------------------------------
(***************************************************************************)
(* The peripherals that the server has (peripherals/__init__.py,            *)
(* peripherals/api/funcs.py) and the section of the web application that    *)
(* lists and edits them (frontend/js/peripherals/).  Unlike ports and       *)
(* devices they are in no cache: each event makes the list ask for them all *)
(* again, and a form asks once.                                             *)
(*                                                                         *)
(* Static peripherals, which nothing changes, the selection of items and    *)
(* the ports of a peripheral are left out.                                  *)
(***************************************************************************)
EXTENDS Integers, Sequences, FiniteSets, SequencesExt

CONSTANTS
    None,
    Id,
    Config,         \* what a peripheral is made of, other than its id
    MaxCalls,       \* bound on the calls that change peripherals
    MaxGets,        \* bound on the lists asked for at a time
    MaxUses         \* bound on the forms opened and what fails, together

Who == {"page", "others"}
NoGet == [stage |-> "none", answer |-> None]
NoCall == [kind |-> "none", id |-> None, to |-> None, conf |-> None, stage |-> "none", from |-> 0]

VARIABLES
    \* the server
    registry,       \* _registered_peripherals
    call,           \* the call of each that the server handles or has answered
    events,         \* announced, not yet at the page
    \* the page
    items,          \* what the list shows
    due,            \* _updateUIDebouncer
    gets,           \* GET /peripherals under way for the list: those served, as served, then the others
    form,           \* the form that is open, or None
    formGet,        \* the GET of its load()
    \* bounds and history
    calls, opens, fails,
    unheard,        \* the list was not told of a change, or could not ask
    formUnheard     \* nor was the form

server == <<registry, call, events>>
list == <<items, due, gets, unheard>>
forms == <<form, formGet, opens, formUnheard>>
pvars == <<server, list, forms, calls, fails>>

Has(id) == registry[id] # None
Set(id, c) == registry' = [registry EXCEPT ![id] = c]

\* The call of `w' goes on; what others are answered does not matter
Stage(w, stage) ==
    call' = [call EXCEPT ![w] = IF w = "others" /\ stage \in {"done", "refused"} THEN NoCall
                                ELSE [@ EXCEPT !.stage = stage]]

Trigger(type, id, c) == events' = Append(events, [type |-> type, id |-> id, conf |-> c])

AtRest == events = <<>> /\ \A w \in Who : call[w] = NoCall

\* A change that no event tells of
Unannounced == unheard' = TRUE /\ formUnheard' = TRUE

ListKept == UNCHANGED <<items, due, gets>>
FormKept == UNCHANGED <<form, formGet, opens>>

Init ==
    /\ registry \in [Id -> Config \cup {None}]
    /\ call = [w \in Who |-> NoCall]
    /\ events = <<>>
    /\ items = registry /\ due = FALSE /\ gets = <<>> /\ unheard = FALSE
    /\ form = None /\ formGet = NoGet /\ opens = 0 /\ formUnheard = FALSE
    /\ calls = 0 /\ fails = 0

(* ------------------------------- the server ----------------------------- *)

\* The event that call `v' is about to trigger is of the peripheral that has this id now
ToldOf(v, id) == call[v].stage \in {"add", "ports", "update"} /\ call[v].to = id

\* The open form sent call `w'
Own(w) == w = "page" /\ form # None /\ call[w].from = opens

\* POST, PATCH or DELETE is sent, by the page from the form opened last; a PATCH of only the display
\* name is "light"
Send(w, kind, id, to, c) ==
    /\ calls < MaxCalls /\ call[w] = NoCall
    /\ calls' = calls + 1
    /\ call' = [call EXCEPT ![w] = [kind |-> kind, id |-> id, to |-> to, conf |-> c, stage |-> "sent",
                                    from |-> IF w = "page" THEN opens ELSE 0]]
    /\ UNCHANGED <<registry, events, list, forms, fails>>

\* Up to the first await: what is asked for is looked up
Begin(w) ==
    LET k == call[w]
    IN /\ k.stage = "sent"
       /\ \/ k.kind = "post" /\ Stage(w, IF Has(k.to) THEN "refused" ELSE "adding") /\ UNCHANGED registry
          \/ k.kind \in {"patch", "delete"} /\ Stage(w, IF Has(k.id) THEN "removing" ELSE "refused")
                /\ UNCHANGED registry
          \/ /\ k.kind = "light" /\ Has(k.id) /\ Set(k.id, k.conf)
             /\ call' = [v \in Who |-> IF v = w THEN [k EXCEPT !.stage = "update"]
                                       ELSE IF ToldOf(v, k.id) THEN [call[v] EXCEPT !.conf = k.conf]
                                       ELSE call[v]]
          \/ k.kind = "light" /\ ~Has(k.id) /\ Stage(w, "refused") /\ UNCHANGED registry
       /\ UNCHANGED <<events, list, forms, calls, fails>>

\* remove(), after the peripheral's ports; a PATCH goes on with add() at once, and if that cannot work
\* with what there was before
TakeOut(w) ==
    LET k == call[w]
    IN /\ k.stage = "removing"
       /\ \/ ~Has(k.id) /\ Stage(w, "refused") /\ UNCHANGED <<registry, fails>>
          \/ /\ Has(k.id) /\ Set(k.id, None)
             /\ \/ k.kind = "delete" /\ Stage(w, "remove") /\ UNCHANGED fails
                \/ /\ k.kind = "patch" /\ (k.to = k.id \/ ~Has(k.to))
                   /\ Stage(w, "adding") /\ UNCHANGED fails
                \/ /\ k.kind = "patch" /\ (opens + fails < MaxUses \/ (k.to # k.id /\ Has(k.to)))
                   /\ call' = [call EXCEPT ![w].to = k.id, ![w].conf = registry[k.id], ![w].stage = "restoring"]
                   /\ fails' = IF k.to # k.id /\ Has(k.to) THEN fails ELSE fails + 1
       \* history: events about it will come out of order
       /\ formUnheard' = (formUnheard \/ \E v \in Who : ToldOf(v, k.id))
       /\ FormKept
       /\ UNCHANGED <<events, list, calls>>

\* add() ends: the check for duplicates was before it waited
Register(w) ==
    LET k == call[w]
    IN /\ k.stage = "adding"
       /\ Set(k.to, k.conf)
       /\ Stage(w, IF k.kind = "post" THEN "add" ELSE "ports")
       \* history: an event of one that it replaces, or no event, or old ones, of the id that it had
       /\ formUnheard' = (formUnheard \/ Has(k.to) \/ (k.kind = "patch" /\ k.to # k.id /\
                                      (~Own(w) \/ \E i \in DOMAIN events : events[i].id = k.id)))
       /\ FormKept
       /\ UNCHANGED <<events, list, calls, fails>>

\* _restore_peripheral: nobody is told
Restore(w) ==
    /\ call[w].stage = "restoring"
    /\ Set(call[w].to, call[w].conf)
    /\ Stage(w, "refused")
    /\ Unannounced /\ ListKept /\ FormKept
    /\ UNCHANGED <<events, calls, fails>>

\* init_ports(): a POST that fails here is undone, a PATCH leaves the peripheral disabled, untold
InitPorts(w) ==
    /\ call[w].stage = "ports"
    /\ Stage(w, IF call[w].kind = "post" THEN "done" ELSE "update")
    /\ UNCHANGED <<registry, events, list, forms, calls, fails>>

InitPortsFails(w) ==
    /\ call[w].stage = "ports" /\ opens + fails < MaxUses
    /\ fails' = fails + 1
    /\ \/ /\ call[w].kind = "post"
          /\ Set(call[w].to, None)
          /\ call' = [call EXCEPT ![w].id = call[w].to, ![w].kind = "undone", ![w].stage = "remove"]
          \* history: as in TakeOut
          /\ formUnheard' = (formUnheard \/ \E v \in Who \ {w} : ToldOf(v, call[w].to))
          /\ UNCHANGED unheard
       \/ /\ call[w].kind = "patch"
          /\ Stage(w, "refused") /\ Unannounced
          /\ UNCHANGED registry
    /\ ListKept /\ FormKept
    /\ UNCHANGED <<events, calls>>

\* trigger_add, trigger_remove and trigger_update; the event holds what the peripheral was made of
Announce(w) ==
    LET k == call[w]
    IN \/ k.stage = "add" /\ Trigger("add", k.to, k.conf)
       \/ k.stage = "remove" /\ Trigger("remove", k.id, None)
       \/ k.stage = "update" /\ Trigger("update", k.to, k.conf)

Announced(w) ==
    /\ Announce(w)
    /\ Stage(w, CASE call[w].stage = "add" -> "ports"
                  [] call[w].kind = "undone" -> "refused"
                  [] OTHER -> "done")
    /\ UNCHANGED <<registry, list, forms, calls, fails>>

(* -------------------------------- the list ------------------------------ *)

\* updateUI: by the debouncer, or when the list becomes the current page
UpdateUI ==
    /\ Len(gets) < MaxGets
    /\ due \/ form = None
    /\ due' = FALSE
    /\ gets' = Append(gets, [stage |-> "asked", answer |-> None])
    /\ UNCHANGED <<server, items, unheard, forms, calls, fails>>

ServeGet(i) ==
    /\ gets[i].stage = "asked" /\ \A j \in 1 .. (i - 1) : gets[j].stage # "asked"
    /\ gets' = [gets EXCEPT ![i] = [stage |-> "served", answer |-> registry]]
    /\ UNCHANGED <<server, items, due, unheard, forms, calls, fails>>

\* Answers are shown as they come; history: those served before one that is shown are overtaken
GotList(i) ==
    /\ gets[i].stage # "asked"
    /\ items' = gets[i].answer
    /\ unheard' = (unheard \/ gets[i].stage = "overtaken")
    /\ gets' = RemoveAt([j \in DOMAIN gets |-> IF j < i THEN [gets[j] EXCEPT !.stage = "overtaken"]
                                              ELSE gets[j]], i)
    /\ UNCHANGED <<server, due, forms, calls, fails>>

GetFails(i) ==
    /\ opens + fails < MaxUses
    /\ fails' = fails + 1
    /\ gets' = RemoveAt(gets, i)
    /\ unheard' = TRUE
    /\ UNCHANGED <<server, items, due, forms, calls>>

(* -------------------------------- the form ------------------------------ *)

NewForm(id) == [id |-> id, state |-> "loading", data |-> None, edited |-> FALSE]

\* An item is chosen: makePeripheralForm, and load()
OpenForm(id) ==
    /\ form = None /\ opens + fails < MaxUses /\ items[id] # None
    /\ opens' = opens + 1
    /\ form' = NewForm(id)
    /\ formGet' = [NoGet EXCEPT !.stage = "asked"]
    /\ formUnheard' = (formUnheard /\ ~AtRest)
    /\ UNCHANGED <<server, list, calls, fails>>

ServeFormGet ==
    /\ formGet.stage = "asked"
    /\ formGet' = [stage |-> "answered", answer |-> registry]
    /\ UNCHANGED <<server, list, form, opens, formUnheard, calls, fails>>

FromPeripheral(c) == form' = [form EXCEPT !.data = c, !.edited = FALSE]

Load ==
    /\ formGet.stage = "answered"
    /\ formGet' = NoGet
    /\ form' = IF formGet.answer[form.id] # None
               THEN [form EXCEPT !.state = "ready", !.data = formGet.answer[form.id], !.edited = FALSE]
               ELSE [form EXCEPT !.state = "error"]
    /\ UNCHANGED <<server, list, opens, formUnheard, calls, fails>>

\* A page that is closed no longer minds what its calls are answered
CloseForm ==
    /\ form # None
    /\ form' = None /\ formGet' = NoGet
    /\ UNCHANGED <<server, list, opens, formUnheard, calls, fails>>

Edit(c) ==
    /\ form # None /\ form.state = "ready" /\ call["page"] = NoCall
    /\ c # form.data
    /\ form' = [form EXCEPT !.data = c, !.edited = TRUE]
    /\ UNCHANGED <<server, list, formGet, opens, formUnheard, calls, fails>>

\* applyData: the form is that of peripheral `form.id', which its name may change
Apply(to) ==
    /\ form # None /\ form.state = "ready" /\ form.data # None
    /\ \E kind \in {"patch", "light"} :
          /\ kind = "light" => to = form.id
          /\ Send("page", kind, form.id, to, form.data)

ConfirmRemove ==
    /\ form # None /\ form.state = "ready"
    /\ Send("page", "delete", form.id, form.id, None)

\* The page's call is answered: a PATCH gives the form that sent it its id, a DELETE closes it
ApplyDone ==
    LET k == call["page"]
    IN form' = IF Own("page") /\ k.kind \in {"patch", "light"} THEN [form EXCEPT !.id = k.to, !.edited = FALSE]
               ELSE IF Own("page") /\ k.kind = "delete" THEN None
               ELSE form

Answered ==
    /\ call["page"].stage \in {"done", "refused"}
    /\ call' = [call EXCEPT !["page"] = NoCall]
    /\ IF call["page"].stage = "done" THEN ApplyDone ELSE UNCHANGED form
    /\ formGet' = IF form' = None THEN NoGet ELSE formGet
    /\ UNCHANGED <<registry, events, list, opens, formUnheard, calls, fails>>

(* --------------------------------- events ------------------------------- *)

OnUpdateIgnored(e) == UNCHANGED form

\* peripheral-update: also overwrites what the user edits
OnUpdate(e) ==
    IF form # None /\ form.id = e.id THEN FromPeripheral(e.conf) ELSE UNCHANGED form

OnRemove(e) == form' = IF form # None /\ form.id = e.id THEN None ELSE form

OnAdd(e) == UNCHANGED form

UpdateUIASAPIfShown == due' = (due \/ form = None)

UpdateUIASAP == due' = TRUE

\* The form is to be given another id: an event of either that tells other than what it shows
Overtaken(e) ==
    LET k == call["page"]
    IN /\ Own("page") /\ k.kind = "patch" /\ k.to # k.id /\ k.stage = "done"
       /\ e.id \in {k.id, k.to} /\ e.conf # form.data

OnServerEvent ==
    /\ events # <<>>
    /\ LET e == Head(events)
       IN /\ UpdateUIASAP
          /\ unheard' = FALSE
          /\ \/ e.type = "add" /\ OnAdd(e)
             \/ e.type = "remove" /\ OnRemove(e)
             \/ e.type = "update" /\ OnUpdate(e)
          /\ formGet' = IF form' = None THEN NoGet ELSE formGet
          \* history: a form that is being loaded is told before what it has asked for comes
          /\ formUnheard' = (formUnheard \/ formGet' # NoGet \/ Overtaken(e))
    /\ events' = Tail(events)
    /\ UNCHANGED <<registry, call, items, gets, opens, calls, fails>>

\* AddPeripheralForm: its answer changes nothing on the page
Add(id, c) == Send("page", "post", id, id, c)

Others(id, to, c) ==
    \/ Send("others", "patch", id, to, c)
    \/ id = to /\ Send("others", "post", id, id, c)
    \/ id = to /\ Send("others", "light", id, id, c)
    \/ id = to /\ Send("others", "delete", id, id, None)

Next ==
    \/ \E id \in Id, to \in Id, c \in Config : Others(id, to, c)
    \/ \E id \in Id, c \in Config : Add(id, c)
    \/ \E w \in Who : \/ Begin(w) \/ TakeOut(w) \/ Register(w) \/ Restore(w)
                      \/ InitPorts(w) \/ InitPortsFails(w) \/ Announced(w)
    \/ UpdateUI
    \/ \E i \in DOMAIN gets : ServeGet(i) \/ GotList(i) \/ GetFails(i)
    \/ \E id \in Id : OpenForm(id) \/ Apply(id)
    \/ Answered
    \/ ServeFormGet \/ Load \/ CloseForm \/ ConfirmRemove
    \/ \E c \in Config : Edit(c)
    \/ OnServerEvent

Spec == Init /\ [][Next]_pvars

(* ------------------------------- properties ----------------------------- *)

\* Once calls and events have been handled the list shows the peripherals that the server has
\* (peripherals-list.js updateUI), unless the last answer shown was older than one before it, a GET
\* failed, or the server changed a peripheral and told nobody (peripherals/api/funcs.py:145, 156).
ListSettles == AtRest /\ ~due /\ gets = <<>> /\ ~unheard => items = registry

\* A form that is loaded and not edited shows its peripheral as the server has it, unless it was told
\* of a change while it was loading or while it was being given another id, a PATCH was refused or gave
\* a peripheral another id elsewhere, or events came after another peripheral had taken the id.
FormSettles ==
    AtRest /\ form # None /\ ~formUnheard =>
        (form.state = "ready" /\ ~form.edited => form.data = registry[form.id])

\* Both.
PeripheralsSettle == ListSettles /\ FormSettles

(* Statements of the code that do not hold. *)

\* peripherals/__init__.py:50: a peripheral that exists is not replaced by another that is added
NoneReplaced ==
    [][\A w \in Who :
           call[w].kind = "post" /\ call[w].stage = "adding" /\ call'[w].stage = "add"
           => ~Has(call[w].to)]_pvars
===============================================================================
