---------------------------- MODULE WidgetConfig ----------------------------
(***************************************************************************)
(* The configuration forms of widgets that have a list of entries           *)
(* (widget-config-form.js): the buttons of radio buttons, the steps of a    *)
(* sequence, the custom ticks of an analog widget, the custom values of a   *)
(* text, the ports of a pie chart with their labels and colors.  The fields *)
(* of the entries are made as the user asks for more, are hidden when there *)
(* are fewer, and what is valid goes to the widget at once.                 *)
(*                                                                         *)
(* The form (of the qui library) gives a field its value, if the field is   *)
(* there, and passes the data on when what is visible is valid.             *)
(***************************************************************************)
EXTENDS Integers, Sequences, SequencesExt

CONSTANTS
    None,
    Content,    \* what an entry may hold
    MaxEntries,
    MaxSteps    \* bound on the user's actions

Kind == {"Analog", "Radio", "Sequence", "Text", "Pie"}
Toggled == {"Analog", "Text"}       \* customTicks, customValues: the entries may be off
Index == 1..MaxEntries

VARIABLES
    kind,
    entries, repeat,        \* the widget: its entries, and the sequence's _repeatCount
    ticks,                  \* the widget's _ticksCount, kept also without custom ticks
    ptype,                  \* the type of its port
    open,
    made,                   \* the form: how many entries have fields
    entry,                  \* what they hold
    count, on,              \* the number of entries, and the check that puts them on
    repeats, forever, times,    \* the fields of the repetition
    ftype,                  \* of a sequence: the type of port the fields were made for
    visible,                \* the entries whose fields are shown
    meant,                  \* history: what the user was shown or gave, of each entry
    steps

widget == <<entries, repeat, ticks, ptype>>
repetition == <<repeats, forever, times>>
vars == <<kind, widget, open, made, entry, count, on, repetition, ftype, visible, meant, steps>>

-----------------------------------------------------------------------------
Shown(fields, n, checked) == IF kind \in Toggled /\ ~checked THEN {} ELSE 1..n

\* A slice of a pie is a port and its label, that may be empty.
Slice(p, l) == [port |-> p, label |-> l]

\* What the fields of an entry hold when they are added (_addPortFields() of a pie chart).
EmptyEntry(type) ==
    CASE kind = "Sequence" /\ type = "boolean" -> FALSE
      [] kind = "Pie" -> Slice(None, None)
      [] OTHER -> None

\* The entries that have fields when n are needed: those that are there are kept
\* (_updatePortFields() of a pie chart).
FieldsFor(n, before) == IF n > before THEN n ELSE before

\* _updateSeqFields(), _updateButtonFields(), _updateFields(): fields are added when there are
\* too few; a sequence makes all of them anew for a port of another type.
UpdateFields(n, checked, type) ==
    LET anew == kind = "Sequence" /\ type # ftype
        before == IF anew THEN 0 ELSE made
    IN /\ made' = FieldsFor(n, before)
       /\ entry' = [i \in Index |-> IF i <= before THEN entry[i]
                                    ELSE IF i <= made' THEN EmptyEntry(type) ELSE None]
       /\ ftype' = IF anew THEN type ELSE ftype
       /\ visible' = Shown(made', n, checked)

\* fromWidget() of a sequence and _updateRepeatFields()
RepeatsOf(r) == r # 1
ForeverOf(r) == r = 0
AtLeastTwice(rep, ever, t) == IF rep /\ ~ever /\ t < 2 THEN 2 ELSE t

\* toWidget() of a sequence
RepeatCount(rep, ever, t) == IF rep THEN (IF ever THEN 0 ELSE t) ELSE 1

\* fromWidget(): a text's number of values is that of a boolean, and so undefined, which the
\* field may take for its minimum.
Counts ==
    CASE kind = "Analog" -> {ticks} [] kind = "Text" -> {0, 2} [] OTHER -> {Len(entries)}

\* Mutant: the data is given to the form once, before its fields are there.
OpenOnce ==
    /\ ~open /\ open' = TRUE /\ steps < MaxSteps /\ steps' = steps + 1
    /\ count' \in Counts
    /\ on' = (kind \notin Toggled \/ entries # <<>>)
    /\ made' = count' /\ ftype' = (IF kind = "Sequence" THEN ptype ELSE None)
    /\ visible' = Shown(made', count', on')
    /\ entry' = [i \in Index |-> None]
    /\ meant' = [i \in Index |-> IF i \in DOMAIN entries THEN entries[i] ELSE None]
    /\ repeats' = RepeatsOf(repeat) /\ forever' = ForeverOf(repeat)
    /\ times' = AtLeastTwice(repeats', forever', repeat)
    /\ UNCHANGED <<kind, widget>>

\* updateFromWidget(): the data is given to the form, that makes the fields, and again.
Open ==
    /\ ~open /\ open' = TRUE /\ steps < MaxSteps /\ steps' = steps + 1
    /\ count' \in Counts
    /\ on' = (kind \notin Toggled \/ entries # <<>>)
    /\ made' = count' /\ ftype' = (IF kind = "Sequence" THEN ptype ELSE None)
    /\ visible' = Shown(made', count', on')
    /\ entry' = [i \in Index |-> IF i <= made' /\ i \in DOMAIN entries THEN entries[i] ELSE None]
    /\ meant' = [i \in Index |-> IF i \in DOMAIN entries THEN entries[i] ELSE None]
    /\ repeats' = RepeatsOf(repeat) /\ forever' = ForeverOf(repeat)
    /\ times' = AtLeastTwice(repeats', forever', repeat)
    /\ UNCHANGED <<kind, widget>>

Close == open /\ open' = FALSE
         /\ UNCHANGED <<kind, widget, made, entry, count, on, repetition, ftype, visible, meant,
                        steps>>

-----------------------------------------------------------------------------
\* Hidden fields are not looked at.
Filled(e) == e # None /\ (kind = "Pie" => e.port # None)
Valid == \A i \in visible' : Filled(entry'[i])

\* toWidget() of a pie chart, of radio buttons and of others: the entries counted, if they are on.
ToWidget == IF on' THEN [i \in 1..count' |-> entry'[i]] ELSE <<>>

\* onChangeValid(): what is valid goes to the widget.
Save(type) ==
    IF Valid
    THEN /\ entries' = ToWidget
         /\ repeat' = IF kind = "Sequence" THEN RepeatCount(repeats', forever', times')
                      ELSE repeat
         /\ ticks' = IF kind = "Analog" THEN count' ELSE ticks
         /\ ptype' = type
    ELSE UNCHANGED widget

Step == open /\ steps < MaxSteps /\ steps' = steps + 1 /\ UNCHANGED <<kind, open>>

\* The smallest number of entries that the form takes.
Least == IF ~on THEN 0 ELSE IF kind = "Pie" THEN 1 ELSE 2

\* A new number of entries.
SetCount(n) ==
    /\ Step /\ count' = n /\ n >= Least
    /\ UNCHANGED <<on, repetition>>
    /\ UpdateFields(n, on, IF kind = "Sequence" THEN ftype ELSE ptype)
    /\ Save(IF kind = "Sequence" THEN ftype ELSE ptype)
    /\ meant' = [i \in Index |-> IF i <= n /\ i > made THEN entry'[i] ELSE meant[i]]

\* customTicks, customValues
Toggle ==
    /\ Step /\ kind \in Toggled /\ on' = ~on
    /\ UNCHANGED <<count, repetition, meant>>
    /\ UpdateFields(count, on', ptype)
    /\ Save(ptype)

Given(i, e) ==
    /\ Step /\ i \in visible /\ e # entry[i]
    /\ entry' = [entry EXCEPT ![i] = e] /\ meant' = [meant EXCEPT ![i] = e]
    /\ UNCHANGED <<made, count, on, repetition, ftype, visible>>
    /\ Save(IF kind = "Sequence" THEN ftype ELSE ptype)

SetEntry(i, c) == kind # "Pie" /\ Given(i, c)

\* _handlePortSelect(): a label that is empty becomes the port's name.
PickPort(i, p) ==
    /\ kind = "Pie" /\ i \in visible
    /\ Given(i, Slice(p, IF entry[i].label = None THEN p ELSE entry[i].label))

SetLabel(i, l) == kind = "Pie" /\ i \in visible /\ Given(i, Slice(entry[i].port, l))

\* Another port: of a sequence, its type decides what the steps are.
SetPort(type) ==
    /\ Step /\ kind = "Sequence" /\ type # ftype
    /\ UNCHANGED <<count, on, repetition>>
    /\ UpdateFields(count, on, type)
    /\ Save(type)
    /\ meant' = entry'

SetRepeat(rep, ever, t) ==
    /\ Step /\ kind = "Sequence"
    /\ repeats' = rep /\ forever' = ever /\ times' = AtLeastTwice(rep, ever, t)
    /\ UNCHANGED <<made, entry, visible, count, on, ftype, meant>>
    /\ Save(ftype)

-----------------------------------------------------------------------------
Init ==
    /\ kind \in Kind
    /\ entries \in
          IF kind = "Pie" THEN {<<Slice(None, None)>>} \cup [1..2 -> {Slice(c, c) : c \in Content}]
          ELSE UNION {[1..n -> Content] : n \in {0, 2, 3} \cap 0..MaxEntries}
    /\ kind = "Radio" => entries # <<>>
    /\ ticks = Len(entries)
    /\ repeat \in IF kind = "Sequence" THEN {0, 1, 2} ELSE {1}
    /\ ptype = "number" /\ open = FALSE
    /\ made = 0 /\ entry = [i \in Index |-> None] /\ count = 0 /\ on = FALSE
    /\ repeats = FALSE /\ forever = FALSE /\ times = 1 /\ ftype = None /\ visible = {}
    /\ meant = [i \in Index |-> None] /\ steps = 0

Next ==
    \/ Open \/ Close \/ Toggle
    \/ \E n \in 0..MaxEntries : SetCount(n)
    \/ \E i \in Index : \E c \in Content : SetEntry(i, c) \/ PickPort(i, c) \/ SetLabel(i, c)
    \/ \E i \in Index : SetLabel(i, None)
    \/ \E type \in {"boolean", "number"} : SetPort(type)
    \/ \E rep \in BOOLEAN, ever \in BOOLEAN, t \in {1, 3} : SetRepeat(rep, ever, t)

Spec == Init /\ [][Next]_vars

-----------------------------------------------------------------------------
(* Properties *)

\* The form shows what the user gave or the widget has, and the widget has what a valid form
\* shows.
Kept ==
    /\ \A i \in visible : entry[i] = meant[i]
    /\ open /\ (\A i \in visible : Filled(entry[i])) =>
          /\ (entries = <<>>) = (visible = {})
          /\ \A i \in DOMAIN entries : i \in visible /\ entries[i] = meant[i]

\* Entries that are added, taken away and brought back, and forms that are opened again, leave
\* the other entries of the widget as they were (updateFromWidget(), _updateSeqFields(),
\* toWidget()).
EntriesKept == kind # "Text" /\ open => Kept

\* widget-config-form.js: "Adapt widget data to form data", of the custom values of a text.
TextKept == kind = "Text" /\ open => \A i \in DOMAIN entries : i \in visible
=============================================================================
