------------------------------- MODULE Widget -------------------------------
(***************************************************************************)
(* A widget of the dashboard and the port it shows or sets (widget.js and   *)
(* the widgets under all-widgets): what is shown, against the value in the  *)
(* cache, with the user's presses and drags, the requests they send and the *)
(* events of the port.                                                      *)
(*                                                                         *)
(* Positions of an analog widget are quarters of a value, so that there are *)
(* positions between the values and near and far from a tick.               *)
(***************************************************************************)
EXTENDS Integers, Sequences, SequencesExt

CONSTANTS
    None,
    Top,        \* the greatest value; _min is 0
    Places,     \* the positions the handle of an analog widget is dragged to
    MaxEvents   \* bound on the requests and the changes of the port together

Kind == {"IncDec", "Indicator", "OnOff", "Push", "Radio", "Sequence", "Slider", "Text"}
Shows == Kind \ {"IncDec", "Push", "Sequence"}  \* the widgets that show a value
Ticks == <<0, 1, Top>>
Buttons == <<0, Top>>           \* the values of the radio buttons, or of a text's customValues
OnValue == 1 OffValue == 0

VARIABLES
    conf,       \* [kind, boolean, inverted, snap, ticksonly]: its configuration
    value, up,  \* the port at the server: its value, and whether it is enabled and online
    events,     \* its events on their way
    known,      \* its value in the cache
    valid,      \* isValid()
    state,      \* "normal", "progress", "error" or "invalid"
    shown,      \* what the widget shows
    calls,      \* the values of the requests under way, with what became of them
    drag,       \* how far it is dragged, None when it is not
    past,       \* OnOffButton._dragPastThresh
    pressed, timers, handle,    \* PushButton: the handler of pointerup is on; the timers that
                \* run; _timeoutHandle holds the newest
    last,       \* history: the value a push button asked for last
    stray,      \* history: a drag moved the handle, or a value came during it, or the widget was
                \* made anew or a request refused while it was invalid, and it has not shown a
                \* value since
    asks, changes

port == <<value, up>>
gesture == <<drag, past, pressed, timers, handle>>
vars == <<conf, port, events, known, valid, state, shown, calls, gesture, last, stray, asks,
          changes>>

Is(kinds) == conf.kind \in kinds

-----------------------------------------------------------------------------
(* What a value looks like *)

Length == 4 * Top
Distance(p, q) == IF p < q THEN q - p ELSE p - q
Round(p) == (p + 2) \div 4                          \* Math.round()
Clamp(p) == IF p < 0 THEN 0 ELSE IF p > Length THEN Length ELSE p

\* _makeTicks(): equidistant if there is nothing but ticks.
TickPos(i) ==
    IF conf.ticksonly THEN ((i - 1) * Length) \div (Len(Ticks) - 1) ELSE 4 * Ticks[i]

\* _showValue() of an analog widget, of a quarter of a value.
AnalogPos(q) ==
    LET v == Clamp(q) IN
    IF \E i \in DOMAIN Ticks : 4 * Ticks[i] = v
    THEN TickPos(CHOOSE i \in DOMAIN Ticks : 4 * Ticks[i] = v)
    ELSE v

\* _posToValue(), in quarters.
PosToValue(p) == p

Nearest(p) ==
    CHOOSE i \in DOMAIN Ticks : \A j \in DOMAIN Ticks :
        LET a == Distance(TickPos(i), p) b == Distance(TickPos(j), p) IN a < b \/ (a = b /\ i <= j)

Near(p) == Distance(TickPos(Nearest(p)), p) < 2     \* LOOSE_SNAP_DIST

\* _snapPos(): where the handle is drawn, and the value there, in quarters.
DragPos(p) == IF conf.snap # "none" /\ Near(p) THEN TickPos(Nearest(p)) ELSE p
SnapValue(p) ==
    IF conf.snap = "strict" \/ (conf.snap = "loose" /\ Near(p))
    THEN 4 * Ticks[Nearest(p)] ELSE PosToValue(p)

\* A boolean value with its logic; null is false.
Truth(v) == (v \notin {None, 0}) # conf.inverted

\* _showValue() of each widget, that shows `old`.
OnOffShown(v, old) ==
    IF conf.boolean THEN Truth(v)
    ELSE IF v = OnValue THEN TRUE ELSE IF v = OffValue THEN FALSE ELSE old

IndicatorShown(v) ==
    IF conf.boolean THEN
        IF conf.inverted \/ v # None THEN (IF Truth(v) THEN "on" ELSE "off") ELSE "unavailable"
    ELSE IF v = OnValue THEN "on" ELSE IF v = OffValue THEN "off" ELSE "unavailable"

RadioShown(v) == IF v \in {Buttons[i] : i \in DOMAIN Buttons} THEN v ELSE None

\* `inverted` stands for a text with custom values.
TextShown(v) ==
    IF ~conf.boolean /\ conf.inverted THEN IF RadioShown(v) = None THEN Buttons[1] ELSE v
    ELSE v

\* A negative value is the progress towards its opposite (_negativeProgress).
SliderShown(v) ==
    IF v = None THEN [pos |-> 0, progress |-> FALSE]
    ELSE [pos |-> AnalogPos(4 * (IF conf.ticksonly /\ v < 0 THEN -v ELSE v)),
          progress |-> conf.ticksonly /\ v < 0]

Face(v, old) ==
    CASE Is({"OnOff"}) -> OnOffShown(v, old)
      [] Is({"Indicator"}) -> IndicatorShown(v)
      [] Is({"Radio"}) -> RadioShown(v)
      [] Is({"Text"}) -> TextShown(v)
      [] Is({"Slider"}) -> SliderShown(v)
      [] OTHER -> None

\* onPortValueChange(), showCurrentValue(): which widgets leave a null alone.
Changed(v, old) == IF v = None /\ Is({"OnOff"}) THEN old ELSE Face(v, old)
Current(v, old) == IF v = None /\ Is({"OnOff", "Radio", "Slider"}) THEN old ELSE Face(v, old)

\* refreshContent(): made anew, and the value shown again if the widget is valid.
Fresh(v, ok, old) ==
    LET blank == IF Is({"Slider"}) THEN SliderShown(0)
                 ELSE IF Is({"OnOff"}) THEN old ELSE None
    IN IF ok THEN Current(v, blank) ELSE blank

-----------------------------------------------------------------------------
(* The port *)

Tell(v, ok, update) == events' = Append(events, [value |-> v, up |-> ok, update |-> update])

PortChanges(v) ==
    /\ up /\ v # value /\ asks + changes < MaxEvents
    /\ value' = v /\ changes' = changes + 1
    /\ Tell(v, up, FALSE)
    /\ UNCHANGED <<conf, up, known, valid, state, shown, calls, gesture, last, stray, asks>>

\* The port is disabled or goes offline, or comes back.
PortUpdates ==
    /\ asks + changes < MaxEvents
    /\ up' = ~up /\ changes' = changes + 1
    /\ Tell(value, up', TRUE)
    /\ UNCHANGED <<conf, value, known, valid, state, shown, calls, gesture, last, stray, asks>>

\* The request reaches the server; others sent before it may not have.
Patched(i) ==
    /\ i \in DOMAIN calls /\ calls[i].stage = "sent"
    /\ up
    /\ value' = IF Is({"Sequence"}) THEN value ELSE calls[i].value
    /\ IF value' # value THEN Tell(value', up, FALSE) ELSE events' = events
    /\ calls' = [calls EXCEPT ![i].stage = "done"]
    /\ UNCHANGED <<conf, up, known, valid, state, shown, gesture, last, stray, asks, changes>>

-----------------------------------------------------------------------------
(* The widget and what comes from the server *)

ComputeState(ok) == IF ok THEN "normal" ELSE "invalid"

\* handlePortValueChange()
ValueChange ==
    /\ events # <<>> /\ ~Head(events).update
    /\ events' = Tail(events)
    /\ known' = Head(events).value
    /\ IF Is({"Slider"}) /\ drag # None
       THEN shown' = shown /\ stray' = TRUE
       ELSE shown' = Changed(known', shown) /\ stray' = FALSE
    /\ UNCHANGED <<conf, port, valid, state, calls, gesture, last, asks, changes>>

\* updateState(), enterState(): the value is shown when the widget becomes valid; progress and
\* errors stay.
PortUpdate ==
    /\ events # <<>> /\ Head(events).update
    /\ events' = Tail(events)
    /\ known' = Head(events).value /\ valid' = Head(events).up
    /\ state' = IF state \in {"progress", "error"} THEN state ELSE ComputeState(valid')
    /\ IF state = "invalid" /\ state' = "normal"
       THEN shown' = Current(known', shown) /\ stray' = FALSE
       ELSE UNCHANGED <<shown, stray>>
    /\ UNCHANGED <<conf, port, calls, gesture, last, asks, changes>>

\* Mutant: what the user set stays shown when it is refused.
AnswerShown(i) ==
    /\ i \in DOMAIN calls
    /\ calls' = RemoveAt(calls, i)
    /\ state' = IF calls[i].stage # "done" THEN "error"
                ELSE IF state = "progress" THEN ComputeState(valid) ELSE state
    /\ UNCHANGED <<conf, port, events, known, valid, shown, gesture, last, stray, asks, changes>>

\* setPortValue(), setPortSequence(): a request that fails, also one whose answer is lost,
\* brings back what the cache has.
Answer(i) ==
    /\ i \in DOMAIN calls
    /\ calls' = RemoveAt(calls, i)
    /\ IF calls[i].stage = "done"
       THEN /\ state' = IF state = "progress" THEN ComputeState(valid) ELSE state
            /\ UNCHANGED <<shown, stray>>
       ELSE /\ state' = "error"
            /\ IF valid THEN shown' = Current(known, shown) /\ stray' = FALSE
               ELSE stray' = TRUE /\ shown' = shown
    /\ UNCHANGED <<conf, port, events, known, valid, gesture, last, asks, changes>>

Lost(i) ==
    /\ i \in DOMAIN calls /\ calls[i].stage = "done"
    /\ calls' = [calls EXCEPT ![i].stage = "lost"]
    /\ UNCHANGED <<conf, port, events, known, valid, state, shown, gesture, last, stray, asks,
                   changes>>

\* Its size, label or configuration changes.
Refresh ==
    /\ drag = None /\ ~pressed
    /\ shown' = Fresh(known, valid, shown)
    /\ stray' = ~valid
    /\ UNCHANGED <<conf, port, events, known, valid, state, calls, gesture, last, asks, changes>>

-----------------------------------------------------------------------------
(* The user *)

\* setPortValue(), once or twice.
Ask(values) ==
    /\ asks + changes + Len(values) <= MaxEvents
    /\ asks' = asks + Len(values)
    /\ calls' = calls \o [i \in DOMAIN values |-> [value |-> values[i], stage |-> "sent"]]
    /\ IF values = <<>> THEN UNCHANGED <<state, last>>
       ELSE state' = "progress" /\ last' = IF Is({"Push"}) THEN Last(values) ELSE last

AskNone == UNCHANGED <<state, last, calls, asks>>

Idle == UNCHANGED <<conf, port, events, known, valid, changes>>

\* An invalid widget is behind glass (enterState()).
Reachable(kinds) == Is(kinds) /\ state # "invalid" /\ drag = None

\* handleDec(), handleInc(): from the value known; null counts as 0.
IncDec(by) ==
    /\ Reachable({"IncDec"})
    /\ LET v == IF known = None THEN 0 ELSE known
       IN Ask(<<IF v + by \in 0..Top THEN v + by ELSE v>>)
    /\ Idle /\ UNCHANGED <<shown, stray, gesture>>

\* RadioButtons' pointerdown
PressRadio(i) ==
    /\ Reachable({"Radio"})
    /\ shown' = RadioShown(Buttons[i]) /\ stray' = FALSE
    /\ Ask(<<Buttons[i]>>)
    /\ Idle /\ UNCHANGED gesture

\* SequencePushButton.handlePress(), whose handleRelease() does nothing.
PressSequence ==
    /\ Reachable({"Sequence"})
    /\ Ask(<<0>>)
    /\ Idle /\ UNCHANGED <<shown, stray, gesture>>

\* PushButton's pointerdown: a second finger may press again.
Press ==
    /\ Reachable({"Push"}) /\ timers < 2
    /\ Ask(<<IF conf.inverted THEN OffValue ELSE OnValue>>)
    /\ pressed' = TRUE
    \* _timeout is 0 or not: `ticksonly` stands for no automatic release.
    /\ IF conf.ticksonly THEN UNCHANGED <<timers, handle>>
       ELSE timers' = timers + 1 /\ handle' = TRUE
    /\ Idle /\ UNCHANGED <<shown, stray, drag, past>>

Release == Ask(<<IF conf.inverted THEN OnValue ELSE OffValue>>)

\* pointerUp(): only the newest timer is stopped.
PointerUp ==
    /\ Is({"Push"}) /\ pressed
    /\ pressed' = FALSE /\ handle' = FALSE
    /\ timers' = IF handle THEN timers - 1 ELSE timers
    /\ Release
    /\ Idle /\ UNCHANGED <<shown, stray, drag, past>>

\* Mutant: the timer only takes the handler of pointerup away.
TimerQuiet ==
    /\ timers > 0
    /\ timers' = timers - 1 /\ handle' = FALSE /\ pressed' = FALSE
    /\ AskNone
    /\ Idle /\ UNCHANGED <<shown, stray, drag, past>>

\* The timer of a press releases like the pointer, also when the pointer already has.
Timer ==
    /\ timers > 0
    /\ timers' = timers - 1 /\ handle' = FALSE /\ pressed' = FALSE
    /\ Release
    /\ Idle /\ UNCHANGED <<shown, stray, drag, past>>

Begin ==
    /\ Reachable({"OnOff", "Slider"})
    /\ drag' = IF Is({"OnOff"}) THEN 0 ELSE shown.pos
    /\ Idle /\ AskNone /\ UNCHANGED <<shown, stray, past, pressed, timers, handle>>

\* OnOffButton.onDrag(): 1 is less than half of the way, 2 more.
DragOnOff(to) ==
    /\ Is({"OnOff"}) /\ drag # None
    /\ drag' = to
    /\ past' = IF shown THEN to = -2 ELSE to = 2
    /\ Idle /\ AskNone /\ UNCHANGED <<shown, stray, pressed, timers, handle>>

\* What _doSwitch() sends.
OnOffValue(on) == IF on # conf.inverted THEN 1 ELSE 0

\* pointerup switches after a click, onDragEnd() after a drag over more than half, unless an
\* event has switched during it: then it forgets to reset _dragPastThresh.
EndOnOff ==
    /\ Is({"OnOff"}) /\ drag # None
    /\ LET clicked == drag = 0
           on == IF clicked THEN ~shown ELSE shown
           forgets == past /\ (IF on THEN drag > 0 ELSE drag < 0)
           switches == past /\ ~forgets
       IN /\ past' = (past /\ ~switches)
          /\ shown' = IF switches THEN ~on ELSE on
          /\ Ask((IF clicked THEN <<OnOffValue(on)>> ELSE <<>>)
                 \o (IF switches THEN <<OnOffValue(~on)>> ELSE <<>>))
    /\ drag' = None
    /\ Idle /\ UNCHANGED <<stray, pressed, timers, handle>>

\* AnalogWidget.onDrag()
DragSlider(to) ==
    /\ Is({"Slider"}) /\ drag # None
    /\ shown' = [pos |-> DragPos(to), progress |-> FALSE] /\ stray' = TRUE
    /\ Idle /\ AskNone /\ UNCHANGED gesture

\* AnalogWidget.onDragEnd(): the value under the handle is shown and, unless it is that of the
\* port, set; what is set is rounded after that.
EndSlider(moved) ==
    /\ Is({"Slider"}) /\ drag # None
    /\ drag' = None
    /\ shown.pos # drag => moved
    /\ IF ~moved THEN AskNone /\ UNCHANGED <<shown, stray>>
       ELSE LET q == SnapValue(shown.pos) IN
            /\ shown' = [pos |-> AnalogPos(q), progress |-> FALSE] /\ stray' = FALSE
            /\ IF known # None /\ q = 4 * known THEN AskNone ELSE Ask(<<Round(q)>>)
    /\ Idle /\ UNCHANGED <<past, pressed, timers, handle>>

-----------------------------------------------------------------------------
Init ==
    /\ conf \in [kind : Kind, boolean : BOOLEAN, inverted : BOOLEAN,
                 snap : {"none", "loose", "strict"}, ticksonly : BOOLEAN]
    /\ Is({"Slider", "IncDec", "Radio"}) => ~conf.boolean
    /\ Is({"Slider", "IncDec", "Radio", "Sequence"}) => ~conf.inverted
    /\ Is({"OnOff", "Indicator"}) /\ ~conf.boolean => ~conf.inverted
    /\ ~Is({"Slider"}) => conf.snap = "none"
    /\ ~Is({"Slider", "Push"}) => ~conf.ticksonly
    /\ Is({"Slider"}) /\ conf.ticksonly => conf.snap = "strict"
    /\ value \in 0..(IF conf.boolean THEN 1 ELSE Top)
    /\ known \in {None, value}
    /\ events = IF known = None THEN <<[value |-> value, up |-> TRUE, update |-> FALSE]>>
                ELSE <<>>
    /\ up = TRUE /\ valid = TRUE /\ state = "normal"
    /\ shown = Fresh(known, TRUE, FALSE)
    /\ calls = <<>> /\ drag = None /\ past = FALSE
    /\ pressed = FALSE /\ timers = 0 /\ handle = FALSE
    /\ last = None /\ stray = FALSE /\ asks = 0 /\ changes = 0

Next ==
    \/ \E v \in (IF conf.ticksonly THEN -1 ELSE 0)..(IF conf.boolean THEN 1 ELSE Top) :
          PortChanges(v)
    \/ PortUpdates \/ ValueChange \/ PortUpdate \/ Refresh
    \/ \E i \in DOMAIN calls : Patched(i) \/ Answer(i) \/ Lost(i)
    \/ IncDec(-1) \/ IncDec(1) \/ PressSequence
    \/ \E i \in DOMAIN Buttons : PressRadio(i)
    \/ Press \/ PointerUp \/ Timer
    \/ Begin \/ EndOnOff \/ EndSlider(TRUE) \/ EndSlider(FALSE)
    \/ \E to \in -2..2 : DragOnOff(to)
    \/ \E to \in Places : DragSlider(to)

Spec == Init /\ [][Next]_vars

-----------------------------------------------------------------------------
(* Properties *)

AtRest == calls = <<>> /\ events = <<>> /\ drag = None /\ valid

\* What is shown is the value, or what the handle points to rounds to it.
Agrees ==
    \/ known = None
    \/ shown = Changed(known, shown)
    \/ Is({"Slider"}) /\ ~conf.ticksonly /\ Round(shown.pos) = known

\* A widget that nothing happens to shows the value of its port, whatever the user set, was
\* refused or came in the meantime (setPortValue(), enterState(), onPortValueChange()); only a
\* drag that in the end moves nothing, or what happens to it while its port is away, may leave
\* something else.
ShownAtRest == AtRest /\ ~stray /\ Is(Shows) => Agrees

\* A button that is pressed will be released, by the pointer or by a timer, also when fingers
\* and timers overlap (_makeHandleDiv()).
PressIsReleased ==
    Is({"Push"}) /\ last = (IF conf.inverted THEN OffValue ELSE OnValue) =>
        pressed \/ timers > 0

\* A widget tells what its port is, and leaves no button pressed (the two above).
WidgetHolds == ShownAtRest /\ PressIsReleased

\* A request that is refused brings back what the port has, whenever it comes back (widget.js:
\* "This will normally revert to previous value").
RefusedIsReverted == AtRest /\ Is({"OnOff"}) => Agrees

\* analog-widget.js: "Don't set the value unless it changed".
SetsOnlyChanges ==
    [][Is({"Slider"}) /\ asks' > asks => known = None \/ Last(calls').value # known]_vars

\* on-off-button.js: "Don't actually switch unless dragging is above 50%".
OneSwitchPerClick == [][Is({"OnOff"}) => asks' <= asks + 1]_vars
=============================================================================
