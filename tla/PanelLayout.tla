----------------------------- MODULE PanelLayout -----------------------------
(***************************************************************************)
(* Panels of the dashboard and the place of their widgets, as the user      *)
(* edits them (dashboard/panel.js, group.js, panel-group-composite.js,      *)
(* add-panel-group-form.js and, under widgets/, widget.js,                  *)
(* move-widget-form.js and radio-buttons.js).                               *)
(*                                                                         *)
(* A panel is a grid of cells.  Widgets are put, dragged and resized by     *)
(* cells; one that would overlap another one or leave the panel stays as it *)
(* is.  The size of a row of radio buttons follows from its configuration.  *)
(* What a panel would be restored from (_widgetsJSON, `saved`) is kept      *)
(* beside the widgets themselves, which exist only while it is shown.       *)
(*                                                                         *)
(* Group are the groups, the root among them; their own names are left out. *)
(* A name stands for its id (nameToId()).                                   *)
(***************************************************************************)
EXTENDS Integers, FiniteSets, FiniteSetsExt

CONSTANTS
    Panel, Group, Name, None,
    NewSize,        \* width and height of a new panel
    MaxSize,        \* largest width and height that the options of a panel take
    MaxButtons,     \* largest number of radio buttons
    MaxWidgets,     \* bound on the widgets made
    MaxChanges      \* bound on the changes of options

Shape == {"plain", "wide", "radio"}     \* kinds of widget, by what their size depends on

ASSUME LayoutAssumption ==
    /\ None \notin Panel \cup Group /\ Name # {}
    /\ {NewSize, MaxSize, MaxButtons} \subseteq Nat \ {0} /\ NewSize <= MaxSize
    /\ {MaxWidgets, MaxChanges} \subseteq Nat

VARIABLES
    parent,     \* parent[p]: the group that panel p is in, or None
    name,
    width, height,
    saved,      \* saved[p]: the widgets that p is restored from
    live,       \* live[p]: its widgets, when loaded
    loaded,
    options,    \* options[p]: data and limits of its options form
    cur,        \* the panel shown
    edit,       \* it is being edited
    selected,   \* id of its selected widget, or 0
    drag,       \* "none", "begun" or "changed"
    made,       \* number of widgets made
    changed,    \* number of changes of options
    moves       \* history: panels that widgets were told to move to and moved to

tree == <<parent, name>>
content == <<width, height, saved, live, loaded, options>>
mode == <<cur, edit, selected>>
vars == <<tree, content, mode, drag, made, changed, moves>>

-----------------------------------------------------------------------------
(* Cells *)

Max2(a, b) == IF a < b THEN b ELSE a

\* _rectsOverlap()
Overlap(a, b) ==
    /\ a.left < b.left + b.width /\ b.left < a.left + a.width
    /\ a.top < b.top + b.height /\ b.top < a.top + a.height

Within(r, w, h) == r.left >= 0 /\ r.top >= 0 /\ r.left + r.width <= w /\ r.top + r.height <= h

\* verifyWidgetLayout()
Fits(r, w, h, others) == Within(r, w, h) /\ \A o \in others : ~Overlap(r, o)

Bottom(ws) == Max({0} \cup {o.top + o.height : o \in ws})
Right(ws) == Max({0} \cup {o.left + o.width : o \in ws})

\* A rectangle somewhere, for a widget of a given size.
At(x, y, w, h) == [left |-> x, top |-> y, width |-> w, height |-> h]

\* findWidgetPlace(): the first place, row by row, else below all the widgets; the panel
\* grows as needed.
Place(p, w, h, ws) ==
    LET W == Max2(width[p], w)
        free == {y \in 0..height[p] - 1 : \E x \in 0..W - 1 : Fits(At(x, y, w, h), W, height[p], ws)}
    IN IF free # {}
       THEN LET y == Min(free) IN
            [left |-> Min({x \in 0..W - 1 : Fits(At(x, y, w, h), W, height[p], ws)}),
             top |-> y, w |-> W, h |-> height[p]]
       ELSE [left |-> 0, top |-> Bottom(ws), w |-> W, h |-> Max2(height[p], Bottom(ws) + h)]

\* Size of the cells that n radio buttons take (configFromJSON()).
RadioSize(n, vertical) == IF vertical THEN <<1, n>> ELSE <<n, 1>>

\* The size that a widget has when its class makes it, before it is configured.
ClassSize(shape) == IF shape = "wide" THEN <<2, 1>> ELSE <<1, 1>>

-----------------------------------------------------------------------------
(* Groups *)

AnyName == CHOOSE n \in Name : TRUE    \* of a panel that does not exist

Exists(p) == parent[p] # None
Children(g) == {p \in Panel : parent[p] = g}

\* The names are free in the group (validateField()).
Free(n, g) == \A p \in Children(g) : name[p] # n

NewOptions(p) == [width |-> width[p], height |-> height[p], minw |-> 1, minh |-> 1]

\* AddPanelGroupForm.applyData(): the panel is saved and shown.
AddPanel(p, g, n) ==
    /\ cur = None /\ ~Exists(p) /\ Free(n, g)
    /\ parent' = [parent EXCEPT ![p] = g]
    /\ name' = [name EXCEPT ![p] = n]
    /\ width' = [width EXCEPT ![p] = NewSize] /\ height' = [height EXCEPT ![p] = NewSize]
    /\ saved' = [saved EXCEPT ![p] = {}]
    /\ live' = [live EXCEPT ![p] = {}] /\ loaded' = [loaded EXCEPT ![p] = TRUE]
    /\ options' = [options EXCEPT ![p] = [width |-> NewSize, height |-> NewSize,
                                          minw |-> 1, minh |-> 1]]
    /\ cur' = p /\ edit' = TRUE /\ selected' = 0
    /\ UNCHANGED <<drag, made, changed, moves>>

\* The limits of the options follow the widgets (updateSizeLimits()).
Limited(o, ws) == [o EXCEPT !.minw = Max2(1, Right(ws)), !.minh = Max2(1, Bottom(ws))]

\* The widgets of a panel are made when it is shown, or when another widget comes to it.
Widgets(p) == IF loaded[p] THEN live[p] ELSE saved[p]

\* onBecomeCurrent(): a panel without widgets is edited at once.
Show(p) ==
    /\ cur = None /\ Exists(p)
    /\ cur' = p /\ edit' = (Widgets(p) = {}) /\ selected' = 0
    /\ live' = [live EXCEPT ![p] = Widgets(p)] /\ loaded' = [loaded EXCEPT ![p] = TRUE]
    /\ options' = [options EXCEPT ![p] =
           Limited(IF @ = None THEN NewOptions(p) ELSE @, Widgets(p))]
    /\ UNCHANGED <<tree, width, height, saved, drag, made, changed, moves>>

\* onClose()
ClosePanel ==
    /\ cur # None /\ drag = "none"
    /\ live' = [live EXCEPT ![cur] = {}] /\ loaded' = [loaded EXCEPT ![cur] = FALSE]
    /\ cur' = None /\ edit' = FALSE /\ selected' = 0
    /\ UNCHANGED <<tree, width, height, saved, options, drag, made, changed, moves>>

\* makeRemoveForm() of a panel.
RemovePanel ==
    /\ cur # None /\ drag = "none"
    /\ parent' = [parent EXCEPT ![cur] = None]
    /\ name' = [name EXCEPT ![cur] = AnyName]
    /\ width' = [width EXCEPT ![cur] = NewSize] /\ height' = [height EXCEPT ![cur] = NewSize]
    /\ saved' = [saved EXCEPT ![cur] = {}] /\ live' = [live EXCEPT ![cur] = {}]
    /\ loaded' = [loaded EXCEPT ![cur] = FALSE]
    /\ options' = [options EXCEPT ![cur] = None]
    /\ cur' = None /\ edit' = FALSE /\ selected' = 0
    /\ UNCHANGED <<drag, made, changed, moves>>

\* The Edit and Done button of the options form.
ToggleEdit ==
    /\ cur # None /\ drag = "none"
    /\ edit' = ~edit
    /\ UNCHANGED <<tree, content, cur, selected, drag, made, changed, moves>>

\* The data of the options form with one field changed.
OneChanged(n, o) ==
    {<<m, o.width, o.height>> : m \in Name \ {n}}
    \cup {<<n, w, o.height>> : w \in 1..MaxSize \ {o.width}}
    \cup {<<n, o.width, h>> : h \in 1..MaxSize \ {o.height}}

\* Mutant: the size may be made smaller than what the widgets take.
OptionsNoLimits(n, w, h) ==
    /\ cur # None /\ edit /\ drag = "none" /\ changed < MaxChanges
    /\ n = name[cur] \/ Free(n, parent[cur])
    /\ w \in 1..MaxSize /\ h \in 1..MaxSize
    /\ <<n, w, h>> \in OneChanged(name[cur], options[cur])
    /\ name' = [name EXCEPT ![cur] = n]
    /\ width' = [width EXCEPT ![cur] = w] /\ height' = [height EXCEPT ![cur] = h]
    /\ options' = [options EXCEPT ![cur].width = w, ![cur].height = h]
    /\ saved' = [saved EXCEPT ![cur] = live[cur]]
    /\ changed' = changed + 1
    /\ UNCHANGED <<parent, live, loaded, mode, drag, made, moves>>

\* onOptionsChange(): one field is changed and all of them, when valid, are applied, also
\* when the panel has grown since the form was made.
Options(n, w, h) ==
    /\ cur # None /\ edit /\ drag = "none" /\ changed < MaxChanges
    /\ n = name[cur] \/ Free(n, parent[cur])
    /\ w \in options[cur].minw..MaxSize /\ h \in options[cur].minh..MaxSize
    /\ <<n, w, h>> \in OneChanged(name[cur], options[cur])
    /\ name' = [name EXCEPT ![cur] = n]
    /\ width' = [width EXCEPT ![cur] = w] /\ height' = [height EXCEPT ![cur] = h]
    /\ options' = [options EXCEPT ![cur].width = w, ![cur].height = h]
    /\ saved' = [saved EXCEPT ![cur] = live[cur]]
    /\ changed' = changed + 1
    /\ UNCHANGED <<parent, live, loaded, mode, drag, made, moves>>

-----------------------------------------------------------------------------
(* Widgets *)

Radio(w) == w.buttons > 0
Widget(i) == CHOOSE w \in live[cur] : w.id = i
Others(w) == live[cur] \ {w}

\* A widget as its class makes it at a place: radio buttons have two values to begin with
\* and take their size when they are configured.
New(shape, place) ==
    [id |-> made + 1, left |-> place.left, top |-> place.top,
     width |-> ClassSize(shape)[1], height |-> ClassSize(shape)[2],
     buttons |-> IF shape = "radio" THEN 2 ELSE 0, vertical |-> FALSE]

\* A widget comes to panel p, which is saved; the widget is selected and its form shown.
Put(p, place, w, ws) ==
    /\ made' = made + 1
    /\ width' = [width EXCEPT ![p] = place.w] /\ height' = [height EXCEPT ![p] = place.h]
    /\ live' = [live EXCEPT ![p] = ws \cup {w}]
    /\ loaded' = [loaded EXCEPT ![p] = TRUE]
    /\ options' = [options EXCEPT ![p] = Limited(@, ws \cup {w})]
    /\ selected' = w.id

\* makeWidgetPicker() and _onWidgetPicked()
Pick(shape) ==
    /\ cur # None /\ drag = "none" /\ made < MaxWidgets
    /\ LET size == ClassSize(shape)
           place == Place(cur, size[1], size[2], live[cur])
       IN Put(cur, place, New(shape, place), live[cur])
    /\ saved' = [saved EXCEPT ![cur] = live'[cur]]
    /\ edit' = TRUE
    /\ UNCHANGED <<tree, cur, drag, changed, moves>>

\* duplicateWidget() looks for a place of the size in toJSON(), which has none for radio
\* buttons; they take it from the class, and their own again when the widget is made.
SizeToPlace(w) == IF Radio(w) THEN ClassSize("radio") ELSE <<w.width, w.height>>
Restored(w) ==
    IF ~Radio(w) THEN w
    ELSE [w EXCEPT !.width = RadioSize(w.buttons, w.vertical)[1],
                   !.height = RadioSize(w.buttons, w.vertical)[2]]
Copy(w, place) == Restored([w EXCEPT !.id = made + 1, !.left = place.left, !.top = place.top])

\* A widget is copied or removed with its controls, or in its form, in edit mode.
CanEdit(w) == cur # None /\ edit /\ drag = "none" /\ w \in live[cur]

Duplicate(w) ==
    /\ CanEdit(w) /\ made < MaxWidgets
    /\ LET place == Place(cur, SizeToPlace(w)[1], SizeToPlace(w)[2], live[cur])
       IN Put(cur, place, Copy(w, place), live[cur])
    /\ saved' = [saved EXCEPT ![cur] = live'[cur]]
    /\ UNCHANGED <<tree, cur, edit, drag, changed, moves>>

\* makeRemoveForm() of a widget, and removeWidget(); the form closes after it.
RemoveWidget(w) ==
    /\ CanEdit(w)
    /\ live' = [live EXCEPT ![cur] = Others(w)]
    /\ saved' = [saved EXCEPT ![cur] = Others(w)]
    /\ options' = [options EXCEPT ![cur] = Limited(@, Others(w))]
    /\ selected' = IF selected = w.id THEN 0 ELSE selected
    /\ UNCHANGED <<tree, width, height, loaded, cur, edit, drag, made, changed, moves>>

\* Mutant: the panel that the widget has left is not saved.
MoveToUnsaved(w, told, p) ==
    /\ CanEdit(w) /\ made < MaxWidgets
    /\ told # cur /\ Exists(told) /\ name[told] # name[cur]
    /\ Exists(p) /\ name[p] = name[told]
    /\ LET ws == Widgets(p)
           place == Place(p, SizeToPlace(w)[1], SizeToPlace(w)[2], ws)
           copy == Copy(w, place)
       IN /\ made' = made + 1
          /\ width' = [width EXCEPT ![p] = place.w] /\ height' = [height EXCEPT ![p] = place.h]
          /\ live' = [live EXCEPT ![p] = ws \cup {copy}, ![cur] = {}]
          /\ loaded' = [loaded EXCEPT ![p] = TRUE, ![cur] = FALSE]
          /\ saved' = [saved EXCEPT ![p] = ws \cup {copy}]
          /\ options' = [options EXCEPT ![p] = Limited(IF @ = None THEN NewOptions(p) ELSE @,
                                                       ws \cup {copy}),
                                        ![cur] = Limited(@, Others(w))]
          /\ selected' = copy.id
          /\ moves' = moves \cup {[told |-> told, to |-> p, old |-> w.id]}
    /\ cur' = p /\ edit' = TRUE
    /\ UNCHANGED <<tree, drag, changed>>

\* MoveWidgetForm.applyData() and moveToPanel(): the panel that the user chooses is looked
\* up by its id, that panels of different groups may share.  The widget is copied to it and
\* removed here, both panels are saved, and showConfigForm() goes to the other panel.
MoveTo(w, told, p) ==
    /\ CanEdit(w) /\ made < MaxWidgets
    /\ told # cur /\ Exists(told) /\ name[told] # name[cur]
    /\ Exists(p) /\ name[p] = name[told]
    /\ LET ws == Widgets(p)
           place == Place(p, SizeToPlace(w)[1], SizeToPlace(w)[2], ws)
           copy == Copy(w, place)
       IN /\ made' = made + 1
          /\ width' = [width EXCEPT ![p] = place.w] /\ height' = [height EXCEPT ![p] = place.h]
          /\ live' = [live EXCEPT ![p] = ws \cup {copy}, ![cur] = {}]
          /\ loaded' = [loaded EXCEPT ![p] = TRUE, ![cur] = FALSE]
          /\ saved' = [saved EXCEPT ![p] = ws \cup {copy}, ![cur] = Others(w)]
          /\ options' = [options EXCEPT ![p] = Limited(IF @ = None THEN NewOptions(p) ELSE @,
                                                       ws \cup {copy}),
                                        ![cur] = Limited(@, Others(w))]
          /\ selected' = copy.id
          /\ moves' = moves \cup {[told |-> told, to |-> p, old |-> w.id]}
    /\ cur' = p /\ edit' = TRUE
    /\ UNCHANGED <<tree, drag, changed>>

\* The form of radio buttons: their number and direction change, valid or not where they
\* are, and the panel is saved (onChangeValid()).
Configure(w, n, v) ==
    /\ CanEdit(w) /\ Radio(w) /\ n \in 2..MaxButtons
    /\ LET new == Restored([w EXCEPT !.buttons = n, !.vertical = v])
       IN /\ new # w
          /\ live' = [live EXCEPT ![cur] = Others(w) \cup {new}]
          /\ saved' = [saved EXCEPT ![cur] = live'[cur]]
    /\ UNCHANGED <<tree, width, height, loaded, options, mode, drag, made, changed, moves>>

-----------------------------------------------------------------------------
(* Dragging: a widget, or one of its sides, to a column or a row. *)

\* The pointer goes down on the selected widget, or on another one, that is selected then.
DragBegin(w) ==
    /\ CanEdit(w)
    /\ selected' = w.id /\ drag' = "begun"
    /\ UNCHANGED <<tree, content, cur, edit, made, changed, moves>>

\* _makeMoveControl()
Moved(w) ==
    {[w EXCEPT !.left = cell[1], !.top = cell[2]] :
        cell \in (0..Max2(0, width[cur] - w.width)) \X (0..Max2(0, height[cur] - w.height))}

\* _makeResizeTopControl()
TopResized(w) ==
    {[w EXCEPT !.top = y, !.height = w.height + w.top - y] : y \in 0..w.top + w.height - 1}

\* _makeResizeLeftControl()
LeftResized(w) ==
    {[w EXCEPT !.left = x, !.width = w.width + w.left - x] : x \in 0..w.left + w.width - 1}

\* _makeResizeRightControl()
RightResized(w) == {[w EXCEPT !.width = x - w.left] : x \in w.left + 1..width[cur]}

\* _makeResizeBottomControl()
BottomResized(w) == {[w EXCEPT !.height = y - w.top] : y \in w.top + 1..height[cur]}

Resized(w) ==
    IF Radio(w) THEN {} ELSE TopResized(w) \cup LeftResized(w) \cup RightResized(w)
                             \cup BottomResized(w)

\* The widget follows the pointer where it fits, else it stays.
Drag(w) ==
    /\ drag # "none" /\ w.id = selected
    /\ \E new \in (Moved(w) \cup Resized(w)) \ {w} :
          /\ Fits(new, width[cur], height[cur], Others(w))
          /\ live' = [live EXCEPT ![cur] = Others(w) \cup {new}]
    /\ drag' = "changed"
    /\ UNCHANGED <<tree, width, height, saved, loaded, options, mode, made, changed, moves>>

\* Mutant: a widget that was dragged is not saved.
DragEndUnsaved ==
    /\ drag # "none"
    /\ drag' = "none"
    /\ options' = IF drag = "changed" THEN [options EXCEPT ![cur] = Limited(@, live[cur])]
                                      ELSE options
    /\ UNCHANGED <<tree, width, height, saved, live, loaded, mode, made, changed, moves>>

\* handleWidgetMove(), handleWidgetResize()
DragEnd ==
    /\ drag # "none"
    /\ drag' = "none"
    /\ IF drag = "changed"
       THEN /\ saved' = [saved EXCEPT ![cur] = live[cur]]
            /\ options' = [options EXCEPT ![cur] = Limited(@, live[cur])]
       ELSE UNCHANGED <<saved, options>>
    /\ UNCHANGED <<tree, width, height, live, loaded, mode, made, changed, moves>>

-----------------------------------------------------------------------------
Init ==
    /\ parent = [p \in Panel |-> None] /\ name = [p \in Panel |-> AnyName]
    /\ width = [p \in Panel |-> NewSize] /\ height = [p \in Panel |-> NewSize]
    /\ saved = [p \in Panel |-> {}] /\ live = [p \in Panel |-> {}]
    /\ loaded = [p \in Panel |-> FALSE]
    /\ options = [p \in Panel |-> None]
    /\ cur = None /\ edit = FALSE /\ selected = 0
    /\ drag = "none" /\ made = 0 /\ changed = 0 /\ moves = {}

Next ==
    \/ \E p \in Panel, g \in Group, n \in Name : AddPanel(p, g, n)
    \/ \E p \in Panel : Show(p)
    \/ ClosePanel \/ RemovePanel \/ ToggleEdit
    \/ \E n \in Name, w, h \in 1..MaxSize : Options(n, w, h)
    \/ \E shape \in Shape : Pick(shape)
    \/ cur # None /\ \E w \in live[cur] :
          \/ Duplicate(w) \/ RemoveWidget(w) \/ DragBegin(w) \/ Drag(w)
          \/ \E told, p \in Panel : MoveTo(w, told, p)
          \/ \E n \in 2..MaxButtons, v \in BOOLEAN : Configure(w, n, v)
    \/ DragEnd

Spec == Init /\ [][Next]_vars

-----------------------------------------------------------------------------
(* Properties *)

Settled(p) == drag = "none" \/ p # cur

\* No two widgets overlap and none is outside its panel, whatever the user drags, resizes,
\* copies or moves (verifyWidgetLayout()).  Radio buttons are not looked at: their size
\* changes without it.
EachHasItsPlace ==
    \A p \in Panel : \A w \in live[p] :
        ~Radio(w) => /\ Within(w, width[p], height[p])
                     /\ \A o \in live[p] \ {w} : ~Radio(o) => ~Overlap(w, o)

\* The same of all the widgets (panel.js: "has no overlapping widgets").
AllHaveTheirPlace ==
    \A p \in Panel : \A w \in live[p] :
        Within(w, width[p], height[p]) /\ \A o \in live[p] \ {w} : ~Overlap(w, o)

\* A panel that is closed and shown again has the widgets it had (save(), onClose()).
ShownIsSaved == \A p \in Panel : loaded[p] /\ Settled(p) => live[p] = saved[p]

\* A widget is in one panel at a time, and one that was moved has left the panel that it was in
\* (moveToPanel()).
OnePlaceEach ==
    /\ \A p, q \in Panel : p # q => \A w \in saved[p], o \in saved[q] : w.id # o.id
    /\ \A m \in moves : \A p \in Panel : \A w \in saved[p] : w.id # m.old

\* The three of them.
LayoutHolds == EachHasItsPlace /\ ShownIsSaved /\ OnePlaceEach

\* The panel that a widget is moved to is the one chosen (move-widget-form.js: "Select the
\* destination panel.").
MovedWhereTold == \A m \in moves : m.to = m.told
=============================================================================
