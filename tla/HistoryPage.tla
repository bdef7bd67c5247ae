------------------------------ MODULE HistoryPage ------------------------------
(***************************************************************************)
(* The page with the chart of a port's history: the interval of time that   *)
(* the chart is at, moved by hand or by the buttons of time windows, the    *)
(* fetches that this starts, and the data that is drawn                     *)
(* (ports/port-history-chart-page.js, common/chart-page.js).  What a fetch  *)
(* asks the server is modelled by HistoryCache.                             *)
(***************************************************************************)
EXTENDS Integers, Sequences, FiniteSetsExt, SequencesExt

CONSTANTS
    None,
    Windows,        \* TIME_WINDOW_CHOICES
    InitialInterval,
    Opened,         \* when the page is opened
    Marks,          \* where the chart may be moved to by hand
    MaxSteps, MaxFails, MaxUnder   \* bounds: what the user does, failures, fetches under way

PageAssumption ==
    /\ Windows \subseteq Nat \ {0} /\ Windows # {}
    /\ InitialInterval \in Nat \ {0}
    /\ Opened \in Nat /\ Marks \subseteq Nat

VARIABLES
    isBoolean,      \* _isBoolean
    now,
    range,          \* the interval the chart is at, None before load() has ended
    choice,         \* the button of time windows that is on, or None
    under,          \* fetches under way, in the order they began
    data,           \* the interval that _data is of, or None
    smooth,         \* options.smooth
    averaged,       \* what is drawn has gone through the moving average
    view,           \* "", "progress" or "error"
    steps, fails,   \* bounds
    late            \* history: the data is not that of the last fetch that ended

hvars == <<isBoolean, now, range, choice, under, data, smooth, averaged, view, steps, fails, late>>

Interval(from, to) == [min |-> from, max |-> to]

\* A tenth on either side
WithMargin(i) ==
    LET margin == (i.max - i.min) \div 10
    IN Interval(i.min - margin, i.max + margin)

\* The longest that fits
ChartToTimeWindow(i) ==
    LET fitting == {w \in Windows : w <= i.max - i.min}
    IN IF fitting = {} THEN None ELSE Max(fitting)

\* `null * 1000'
Delta == IF choice = None THEN 0 ELSE choice

FetchAndShowHistory(i) ==
    /\ under' = Append(under, [of |-> WithMargin(i), old |-> FALSE])
    /\ view' = "progress"

\* load()
Init ==
    /\ isBoolean \in BOOLEAN
    /\ now = Opened
    /\ under = <<[of |-> WithMargin(Interval(Opened - InitialInterval, Opened)), old |-> FALSE]>>
    /\ range = None /\ choice = None /\ data = None
    /\ smooth \in BOOLEAN /\ averaged = FALSE
    /\ view = "progress"
    /\ steps = 0 /\ fails = 0 /\ late = FALSE

Step == steps < MaxSteps /\ steps' = steps + 1 /\ range # None /\ Len(under) < MaxUnder

Kept == UNCHANGED <<isBoolean, now, data, smooth, averaged, fails, late>>

\* The chart has been moved or zoomed, not beyond the present
HandlePanZoomEnd(from, to) ==
    /\ Step
    /\ from < to /\ to <= now
    /\ range' = Interval(from, to)
    /\ choice' = ChartToTimeWindow(range')
    /\ FetchAndShowHistory(range')
    /\ Kept

TimeWindowToChart(w) ==
    /\ Step
    /\ choice' = w
    /\ range' = Interval(range.max - w, range.max)
    /\ FetchAndShowHistory(range')
    /\ Kept

ShowPrevTimeWindow ==
    /\ Step
    /\ range' = Interval(range.max - 2 * Delta, range.max - Delta)
    /\ FetchAndShowHistory(range')
    /\ UNCHANGED choice /\ Kept

NextWindow ==
    IF range.min + 2 * Delta > now THEN Interval(now - Delta, now)
    ELSE Interval(range.min + Delta, range.min + 2 * Delta)

ShowNextTimeWindow ==
    /\ Step
    /\ range' = NextWindow
    /\ FetchAndShowHistory(range')
    /\ UNCHANGED choice /\ Kept

Tick ==
    /\ steps < MaxSteps
    /\ now' = now + InitialInterval \div 2
    /\ steps' = steps + 1
    /\ UNCHANGED <<isBoolean, range, choice, under, data, smooth, averaged, view, fails, late>>

ProcessData(s) == averaged' = (s /\ ~isBoolean)

\* updateOptions
UpdateOptions ==
    /\ steps < MaxSteps /\ steps' = steps + 1
    /\ smooth' = ~smooth
    /\ ProcessData(smooth')
    /\ UNCHANGED <<isBoolean, now, range, choice, under, data, view, fails, late>>

\* load() goes on when its fetch has ended, however it ended
Loaded ==
    IF range = None
    THEN /\ range' = Interval(Opened - InitialInterval, Opened)
         /\ choice' = ChartToTimeWindow(range')
    ELSE UNCHANGED <<range, choice>>

ClearProgress == view' = IF view = "progress" THEN "" ELSE view

Ended(i) ==
    under' = RemoveAt([j \in DOMAIN under |-> [under[j] EXCEPT !.old = @ \/ j < i]], i)

ShowHistoryRaw(f) == data' = f.of /\ averaged' = FALSE

ShowHistory(f) == data' = f.of /\ ProcessData(smooth)

Answered(i) ==
    /\ ClearProgress
    /\ ShowHistory(under[i])
    /\ Ended(i) /\ Loaded
    /\ late' = under[i].old
    /\ UNCHANGED <<isBoolean, now, smooth, steps, fails>>

\* HistoryDownloadTooManyRequests is told and forgotten, another error is shown
Fails(i) ==
    /\ fails < MaxFails
    /\ fails' = fails + 1
    /\ ClearProgress \/ view' = "error"
    /\ Ended(i) /\ Loaded
    /\ late' = TRUE
    /\ UNCHANGED <<isBoolean, now, data, smooth, averaged, steps>>

Next ==
    \/ \E from, to \in Marks : HandlePanZoomEnd(from, to)
    \/ \E w \in Windows : TimeWindowToChart(w)
    \/ ShowPrevTimeWindow \/ ShowNextTimeWindow
    \/ Tick \/ UpdateOptions
    \/ \E i \in DOMAIN under : Answered(i) \/ Fails(i)

Spec == Init /\ [][Next]_hvars

(* ------------------------------- properties ----------------------------- *)

\* Once fetches have ended, the chart draws the data of all the interval that it is at, averaged if the
\* user wants it smooth, unless the last that ended was an older one, or failed; and the chart is never
\* at the future (port-history-chart-page.js fetchAndShowHistory, showNextTimeWindow).
ChartCovers ==
    /\ under = <<>> /\ ~late => /\ data.min <= range.min /\ range.max <= data.max
                                /\ averaged = (smooth /\ ~isBoolean)
    /\ range # None => range.max <= now

(* Statements of the code that do not hold. *)

\* port-history-chart-page.js:101 and 106: there is progress while a fetch is under way
ProgressTells == under # <<>> => view # ""

\* port-history-chart-page.js:185: there is always an interval of time to show
RangeNotEmpty == range # None => range.min < range.max
===============================================================================
