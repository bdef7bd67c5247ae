------------------------------- MODULE PortForm -------------------------------
(***************************************************************************)
(* The form of a port (ports/port-form.js with                              *)
(* common/attrdef-form-mixin.js) in the ports section                       *)
(* (ports/ports-section.js, ports/ports-list.js), and the events that the   *)
(* API functions of api/ports.js expect (api/notifications.js).             *)
(*                                                                         *)
(* A field has the value it shows and the value that the form believes the  *)
(* port to have.  What happens to it when the port changes depends on       *)
(* whether the change is taken for this form's own: an event that was       *)
(* expected, or one that comes soon after an update that was made here.     *)
(***************************************************************************)
EXTENDS Integers, Sequences, SequencesExt, FiniteSetsExt, Queues

CONSTANTS
    MaxEdits,       \* bound on the fields a user edits
    MaxChanges,     \* bound on the changes made by others
    MaxExpected     \* bound on the events expected when a call is made

Attr == {"enabled", "note", "status"}
Modifiable == {"enabled", "note"}
Visible(p) == IF p.enabled = 1 THEN Attr \cup {"value"} ELSE {"enabled"}
NoPort == [gone |-> TRUE]
Exists(p) == p # NoPort
\* A note has three values: one that is shown, one edited, and one set by others.
Value(a) == IF a = "note" THEN 0..2 ELSE 0..1
Changed(a, v) == IF v + 1 \in Value(a) THEN v + 1 ELSE 0

VARIABLES
    port,       \* the port at the server
    wire,       \* the events on the way to the browser
    known,      \* the port in the browser's cache
    expected,   \* the events that are expected
    waits,      \* the form that adds the port waits for it to be added
    opened,     \* the port's form is open
    field,      \* field[a]: the fields of the form, by name
    patch,      \* the attributes of the PATCH of the port under way: "none", "sent", "served"
    write,      \* the PATCH of its value
    sent,       \* what was applied: the fields and their values
    recent,     \* recentPortUpdateTimer is running
    changes, edits,
    \* history
    missed,     \* the fields that did not follow a change taken for the form's own, or whose
                \* warning was cleared when their edited value was applied
    lost        \* edits of attributes that were dropped

world == <<port, wire>>
page == <<opened, field>>
calls == <<patch, write, sent, recent>>
vars == <<world, known, expected, waits, page, calls, changes, edits, missed, lost>>

NewField(v) == [shows |-> v, orig |-> v, focused |-> FALSE, warned |-> FALSE]
Edited(f) == f.shows # f.orig
Fields(p) == [a \in Visible(p) |-> NewField(p[a])]

-----------------------------------------------------------------------------
(* Events *)

Update(p) == [kind |-> "update", port |-> p]
ValueChange(v) == [kind |-> "value", value |-> v]
Add(p) == [kind |-> "add", port |-> p]
Remove_ == [kind |-> "remove"]

\* An update of a port, or a change of its value, takes the place of an older one.
Sent(events, e) ==
    Append(IF e.kind \in {"update", "value"}
           THEN Filtered(events, {d \in ToSet(events) : d.kind # e.kind}) ELSE events, e)

\* lookupExpectedEventHandle(): the oldest expectation that an event matches.
Matches(x, e) == x.kind = e.kind /\ (x.kind = "value" => x.value = e.value)
Matching(e) == {i \in 1..Len(expected) : Matches(expected[i], e)}
Expectation(kind, v) == [kind |-> kind, value |-> v]
\* tryMatchExpectedEvent(): it is expected no longer.
Matched(e) == IF Matching(e) = {} THEN expected ELSE RemoveAt(expected, Min(Matching(e)))
\* unexpectEvent(), for a call that failed.
Unexpected(kind) ==
    LET mine == {i \in 1..Len(expected) : expected[i].kind = kind} IN
    IF mine = {} THEN expected ELSE RemoveAt(expected, Max(mine))

-----------------------------------------------------------------------------
(* The form *)

\* Mutant: a field is updated although the user edits it.
FollowsAlways(f, v, warn, modifiable) ==
    CASE f.orig = v -> f
      [] f.orig # v /\ modifiable /\ warn -> [f EXCEPT !.warned = TRUE]
      [] OTHER -> [f EXCEPT !.shows = v, !.orig = v]

\* fieldsFromAttrdefs(): a field whose port has another value is warned of it, or follows it
\* unless the user edits it.
Follows(f, v, warn, modifiable) ==
    CASE f.orig = v -> f
      [] f.orig # v /\ modifiable /\ warn -> [f EXCEPT !.warned = TRUE]
      [] f.orig # v /\ ~(modifiable /\ warn) /\ (Edited(f) \/ f.focused) -> f
      [] OTHER -> [f EXCEPT !.shows = v, !.orig = v]

\* updateUI(): fields come and go with the port being enabled; the value's is made anew.
Updated(p, warn) ==
    [a \in Visible(p) |->
        IF a = "value" \/ a \notin DOMAIN field THEN NewField(p[a])
        ELSE Follows(field[a], p[a], warn, a \in Modifiable)]

\* Mutant: a change is always taken for the form's own.
PortUpdateNeverWarns ==
    /\ wire # <<>> /\ Head(wire).kind = "update"
    /\ wire' = Tail(wire)
    /\ known' = Head(wire).port
    /\ expected' = Matched(Head(wire))
    /\ IF ~opened THEN UNCHANGED <<field, missed, lost>>
       ELSE /\ field' = Updated(known', FALSE)
            /\ UNCHANGED <<missed, lost>>
    /\ UNCHANGED <<port, waits, opened, calls, changes, edits>>

\* port-update: the cache and then the form are updated.
PortUpdate ==
    /\ wire # <<>> /\ Head(wire).kind = "update"
    /\ wire' = Tail(wire)
    /\ known' = Head(wire).port
    /\ expected' = Matched(Head(wire))
    /\ IF ~opened THEN UNCHANGED <<field, missed, lost>>
       ELSE LET warn == Matching(Head(wire)) = {} /\ ~recent IN
            /\ field' = Updated(known', warn)
            /\ missed' = {a \in missed : a \in DOMAIN field'} \cup
                   IF warn THEN {}
                   ELSE {a \in Attr \cap DOMAIN field' : field'[a].orig # known'[a]}
            /\ lost' = (lost \/ \E a \in Attr \cap DOMAIN field :
                            /\ Edited(field[a]) /\ a \in DOMAIN field'
                            /\ field'[a].shows # field[a].shows)
    /\ UNCHANGED <<port, waits, opened, calls, changes, edits>>

\* value-change: the value field shows it, whether it is edited or not.
ValueChanges ==
    /\ wire # <<>> /\ Head(wire).kind = "value"
    /\ wire' = Tail(wire)
    /\ known' = IF Exists(known) THEN [known EXCEPT !.value = Head(wire).value] ELSE known
    /\ expected' = Matched(Head(wire))
    /\ field' = IF opened /\ "value" \in DOMAIN field /\ field["value"].shows # Head(wire).value
                THEN [field EXCEPT !["value"].shows = Head(wire).value,
                                   !["value"].orig = Head(wire).value]
                ELSE field
    /\ UNCHANGED <<port, waits, opened, calls, changes, edits, missed, lost>>

\* port-add: whoever waits for the port that was added is shown its form.
PortAdd ==
    /\ wire # <<>> /\ Head(wire).kind = "add"
    /\ wire' = Tail(wire)
    /\ known' = Head(wire).port
    /\ expected' = Matched(Head(wire))
    /\ waits' = FALSE
    /\ opened' = (opened \/ (waits /\ Matching(Head(wire)) # {}))
    /\ field' = IF opened' THEN Fields(known') ELSE field
    /\ missed' = {}
    /\ UNCHANGED <<port, calls, changes, edits, lost>>

\* Mutant: the form of a removed port stays open.
PortRemoveShown ==
    /\ wire # <<>> /\ Head(wire).kind = "remove"
    /\ wire' = Tail(wire)
    /\ known' = NoPort
    /\ expected' = Matched(Head(wire))
    /\ UNCHANGED <<opened, port, waits, field, calls, changes, edits, missed, lost>>

\* port-remove: the port's form is closed.
PortRemove ==
    /\ wire # <<>> /\ Head(wire).kind = "remove"
    /\ wire' = Tail(wire)
    /\ known' = NoPort
    /\ expected' = Matched(Head(wire))
    /\ opened' = FALSE /\ field' = <<>> /\ missed' = {}
    /\ UNCHANGED <<port, waits, calls, changes, edits, lost>>

-----------------------------------------------------------------------------
(* The user *)

Idle == patch = "none" /\ write = "none"

Open ==
    /\ ~opened /\ Exists(known) /\ Idle
    /\ opened' = TRUE /\ field' = Fields(known) /\ missed' = {}
    /\ UNCHANGED <<world, known, expected, waits, calls, changes, edits, lost>>

Close ==
    /\ opened /\ Idle
    /\ opened' = FALSE /\ field' = <<>> /\ missed' = {}
    /\ UNCHANGED <<world, known, expected, waits, calls, changes, edits, lost>>

Focus(a) ==
    /\ opened /\ a \in DOMAIN field \cap Modifiable
    /\ field' = [b \in DOMAIN field |-> [field[b] EXCEPT !.focused = b = a /\ ~field[a].focused]]
    /\ UNCHANGED <<world, known, expected, waits, opened, calls, changes, edits, missed, lost>>

Edit(a, v) ==
    /\ opened /\ Idle /\ edits < MaxEdits /\ a \in DOMAIN field \cap (Modifiable \cup {"value"})
    /\ v # field[a].shows
    /\ field' = [field EXCEPT ![a].shows = v]
    /\ edits' = edits + 1
    /\ UNCHANGED <<world, known, expected, waits, opened, calls, changes, missed, lost>>

\* applyData(): the changed attributes in one call and the value in another, at once; each
\* expects its event, the value's only if it is not the one in the cache.
Apply ==
    /\ opened /\ Idle /\ Exists(known) /\ Len(expected) < MaxExpected
    /\ LET changed == {a \in DOMAIN field : Edited(field[a])}
           attrs == changed \cap Modifiable IN
       /\ changed # {}
       /\ sent' = [a \in changed |-> field[a].shows]
       /\ patch' = IF attrs # {} THEN "sent" ELSE "none"
       /\ write' = IF "value" \in changed THEN "sent" ELSE "none"
       /\ expected' = expected \o
              (IF attrs # {} THEN <<Expectation("update", 0)>> ELSE <<>>) \o
              (IF "value" \in changed /\ field["value"].shows # known.value
               THEN <<Expectation("value", field["value"].shows)>> ELSE <<>>)
       /\ field' = [a \in DOMAIN field |->
                        IF a \in changed THEN [field[a] EXCEPT !.warned = FALSE] ELSE field[a]]
       /\ missed' = missed \cup {a \in attrs : field[a].warned}
    /\ UNCHANGED <<world, known, waits, opened, recent, changes, edits, lost>>

\* The form to add a port: the call expects the port, and is then waited for.
AddPort ==
    /\ ~opened /\ Idle /\ ~Exists(known) /\ ~Exists(port) /\ wire = <<>>
    /\ Len(expected) < MaxExpected
    /\ expected' = Append(expected, Expectation("add", 0))
    /\ patch' = "adding"
    /\ UNCHANGED <<world, known, waits, page, write, sent, recent, changes, edits, missed, lost>>

-----------------------------------------------------------------------------
(* The server and its answers *)

PatchServed ==
    /\ patch = "sent" /\ Exists(port)
    /\ port' = [a \in DOMAIN port |-> IF a \in DOMAIN sent \cap Attr THEN sent[a] ELSE port[a]]
    /\ wire' = Sent(wire, Update(port'))
    /\ patch' = "served"
    /\ UNCHANGED <<known, expected, waits, page, write, sent, recent, changes, edits, missed,
                   lost>>

WriteServed ==
    /\ write = "sent" /\ Exists(port)
    /\ port' = [port EXCEPT !.value = sent["value"]]
    /\ wire' = IF port'.value # port.value THEN Sent(wire, ValueChange(port'.value)) ELSE wire
    /\ write' = "served"
    /\ UNCHANGED <<known, expected, waits, page, patch, sent, recent, changes, edits, missed,
                   lost>>

AddServed ==
    /\ patch = "adding" /\ ~Exists(port)
    /\ port' = [enabled |-> 0, note |-> 0, status |-> 0, value |-> 0]
    /\ wire' = Sent(wire, Add(port'))
    /\ patch' = "added"
    /\ UNCHANGED <<known, expected, waits, page, write, sent, recent, changes, edits, missed,
                   lost>>

\* What the form has applied becomes what it believes the port to have.
Accepted(which) ==
    field' = [a \in DOMAIN field |->
                 IF a \in DOMAIN sent \cap which THEN [field[a] EXCEPT !.orig = sent[a]]
                 ELSE field[a]]

\* The patches were answered; the form's fields are as applied.
Applied ==
    /\ patch \in {"none", "served"} /\ write \in {"none", "served"} /\ ~Idle
    /\ patch' = "none" /\ write' = "none"
    /\ recent' = (recent \/ patch = "served")
    /\ IF opened THEN Accepted(Attr \cup {"value"}) ELSE UNCHANGED field
    /\ missed' = IF opened THEN {a \in DOMAIN field' \cap Attr :
                                    a \in missed \/ (a \in DOMAIN sent /\ field'[a].orig # known[a])}
                 ELSE missed
    /\ UNCHANGED <<world, known, expected, waits, opened, sent, changes, edits, lost>>

\* A call fails: its event is expected no longer; the form keeps what was edited.
PatchFails ==
    /\ patch = "sent"
    /\ patch' = "none" /\ write' = "none"
    /\ expected' = Unexpected("update")
    /\ UNCHANGED <<world, known, waits, page, sent, recent, changes, edits, missed, lost>>
WriteFails ==
    /\ write = "sent" /\ patch \in {"none", "served"}
    /\ write' = "none" /\ patch' = "none"
    /\ expected' = Unexpected("value")
    /\ recent' = (recent \/ patch = "served")
    /\ UNCHANGED <<world, known, waits, page, sent, changes, edits, missed, lost>>

\* The port was added: if its event has come already, there is nothing to wait for.
AddAnswered ==
    /\ patch = "added"
    /\ patch' = "none"
    /\ waits' = \E i \in 1..Len(expected) : expected[i].kind = "add"
    /\ UNCHANGED <<world, known, expected, page, write, sent, recent, changes, edits, missed,
                   lost>>

\* What is expected does not come in time; the timer after an update ends.
ExpectTimeout ==
    /\ expected # <<>>
    /\ expected' = Tail(expected)
    /\ waits' = (waits /\ Head(expected).kind # "add")
    /\ UNCHANGED <<world, known, page, calls, changes, edits, missed, lost>>
RecentEnds ==
    /\ recent
    /\ recent' = FALSE
    /\ UNCHANGED <<world, known, expected, waits, page, patch, write, sent, changes, edits,
                   missed, lost>>

\* Others change the port, remove or add it.
OthersChange ==
    /\ changes < MaxChanges
    /\ changes' = changes + 1
    /\ \/ \E a \in Attr : /\ Exists(port)
                          /\ port' = [port EXCEPT ![a] = Changed(a, @)]
                          /\ wire' = Sent(wire, Update(port'))
       \/ /\ Exists(port) /\ port' = [port EXCEPT !.value = 1 - @]
          /\ wire' = Sent(wire, ValueChange(port'.value))
       \/ Exists(port) /\ port' = NoPort /\ wire' = Sent(wire, Remove_)
       \/ /\ ~Exists(port) /\ port' = [enabled |-> 1, note |-> 0, status |-> 0, value |-> 0]
          /\ wire' = Sent(wire, Add(port'))
    /\ UNCHANGED <<known, expected, waits, page, calls, edits, missed, lost>>

-----------------------------------------------------------------------------
Init ==
    /\ port \in [Attr \cup {"value"} -> {0}] \cup [Attr \cup {"value"} -> {1}] \cup {NoPort}
    /\ wire = <<>> /\ known = port /\ expected = <<>> /\ waits = FALSE
    /\ opened = FALSE /\ field = <<>>
    /\ patch = "none" /\ write = "none" /\ sent = <<>> /\ recent = FALSE
    /\ changes = 0 /\ edits = 0 /\ missed = {} /\ lost = FALSE

Next ==
    \/ PortUpdate \/ ValueChanges \/ PortAdd \/ PortRemove
    \/ Open \/ Close \/ Apply \/ AddPort
    \/ \E a \in Attr \cup {"value"} : Focus(a) \/ \E v \in Value(a) : Edit(a, v)
    \/ PatchServed \/ WriteServed \/ AddServed \/ Applied \/ PatchFails \/ WriteFails
    \/ AddAnswered \/ ExpectTimeout \/ RecentEnds \/ OthersChange

Spec == Init /\ [][Next]_vars

-----------------------------------------------------------------------------
Quiet == opened /\ wire = <<>> /\ Idle

\* When nothing is on its way, an attribute's field has the port's value or warns that it has
\* changed, unless the user was at that field when a change came that was taken for the
\* form's own, or has applied it in spite of a warning (fieldsFromAttrdefs()).
FieldsTell ==
    Quiet => \A a \in Attr \cap DOMAIN field :
                 field[a].orig = port[a] \/ field[a].warned \/ a \in missed

\* The form is one of a port that exists and has the fields of that port.
FormOfPort == Quiet => Exists(port) /\ DOMAIN field = Visible(port)

\* What a user has edited in an attribute's field stays there whatever happens to the port,
\* as long as the field does.
EditsStay == ~lost

\* A port's form tells what the port is, and keeps what the user has edited (the three above).
FormTells == FormOfPort /\ FieldsTell /\ EditsStay
=============================================================================
