------------------------------ MODULE ChartData ------------------------------
(***************************************************************************)
(* What charts make of a port's samples: points left out of a long history, *)
(* its moving average (utils.js), and the bars of groups of time            *)
(* (charts/bar-chart.js), and of the values of several ports: the slices of *)
(* a pie (charts/pie-chart.js).  Every history within the bounds is looked  *)
(* at; as a pie, its values are those of so many ports.                     *)
(***************************************************************************)
EXTENDS Integers, Sequences, FiniteSets, SequencesExt, FiniteSetsExt, Functions

CONSTANTS
    MaxLength,  \* bound on the samples of a history
    Values,     \* those of a numeric port
    MaxPoints,  \* MAX_DATA_POINTS_LEN, even
    Span,       \* length of the window of the moving average
    Multipliers,    \* factors for port values
    Tops,           \* maximum values of a pie
    Grain       \* what a pie's values are rounded to (its decimals), in units of value

VARIABLES
    history,    \* the samples: when they were recorded, and their values
    sampled,    \* they are recorded now and then, and not only when the port changes
    result,
    made        \* what of: "nothing", "points", "average", "bars" or "pie"

cvars == <<history, sampled, result, made>>

-----------------------------------------------------------------------------
(* utils.js *)

\* First index, of those in the window, of the least and of the greatest value.
Least(win) == CHOOSE i \in DOMAIN win : /\ \A j \in DOMAIN win : win[i].value <= win[j].value
                                        /\ \A j \in 1..i - 1 : win[j].value # win[i].value
Most(win) == CHOOSE i \in DOMAIN win : /\ \A j \in DOMAIN win : win[i].value >= win[j].value
                                       /\ \A j \in 1..i - 1 : win[j].value # win[i].value

\* analyzeDecimationWindow(), and both of its points in the order of time.
AnalyzeDecimationWindow(win) ==
    LET min == win[Least(win)] max == win[Most(win)]
    IN IF min.at < max.at THEN <<min, max>> ELSE <<max, min>>

\* Points at the time of the one before them are left out.
Distinct(points) ==
    FoldLeft(LAMBDA done, s : IF done # <<>> /\ Last(done).at = s.at THEN done
                              ELSE Append(done, s),
             <<>>, points)

\* Mutant: the windows are rounded down.
DecimateShort(data) ==
    LET size == (2 * Len(data)) \div MaxPoints
        windows == [i \in 1..MaxPoints \div 2 |->
                       SubSeq(data, (i - 1) * size + 1, IF i * size < Len(data) THEN i * size
                                                        ELSE Len(data))]
    IN IF Len(data) <= MaxPoints THEN data
       ELSE Distinct(FlattenSeq([i \in DOMAIN windows |->
                IF windows[i] = <<>> THEN <<>> ELSE AnalyzeDecimationWindow(windows[i])]))

\* decimate()
Decimate(data) ==
    LET size == (2 * Len(data) + MaxPoints - 1) \div MaxPoints
        windows == [i \in 1..MaxPoints \div 2 |->
                       SubSeq(data, (i - 1) * size + 1, IF i * size < Len(data) THEN i * size
                                                        ELSE Len(data))]
    IN IF Len(data) <= MaxPoints THEN data
       ELSE Distinct(FlattenSeq([i \in DOMAIN windows |->
                IF windows[i] = <<>> THEN <<>> ELSE AnalyzeDecimationWindow(windows[i])]))

Total(ss) == FoldLeft(LAMBDA sum, s : sum + s.value, 0, ss)

\* movingAverage(): the sum and the number of the samples whose average is taken.
MovingAverage(data) ==
    [i \in DOMAIN data |->
        LET first == Max({1, i - Span \div 2})
            win == SubSeq(data, first, Min({Len(data), i - Span \div 2 + Span - 1}))
        IN [at |-> data[i].at, sum |-> Total(win), count |-> Len(win)]]

-----------------------------------------------------------------------------
(* Bars *)

\* Whether the value is taken as on (1) or off (0).
On(s) == IF s.value = 0 THEN 0 ELSE 1

\* The samples of the group from `from` to `to` (showHistorySlice()).
Group(data, from, to) == SelectSeq(data, LAMBDA s : from <= s.at /\ s.at < to)

Changes(ss) == Cardinality({i \in 2..Len(ss) : ss[i].value # ss[i - 1].value})

\* Time measured so far, and when the measurement under way began (0: none is), after a sample:
\* one begins anew with every sample of that state.
Measured(m, s, state) ==
    IF On(s) = state THEN [m EXCEPT !.start = s.at]
    ELSE [time |-> m.time + (IF m.start = 0 THEN 0 ELSE s.at - m.start), start |-> 0]

\* Mutant: the time before the first sample is not counted.
StateTimeFromFirst(ss, state, from, to) ==
    LET m == FoldLeft(LAMBDA acc, s : Measured(acc, s, state), [time |-> 0, start |-> 0], ss)
    IN IF ss = <<>> THEN 0 ELSE m.time + (IF m.start = 0 THEN 0 ELSE to - m.start)

\* computeBarValue() of on-time (state 1) and of off-time (0): before the first sample the port
\* is taken to have been in the other state.
StateTime(ss, state, from, to) ==
    LET before == IF On(ss[1]) = state THEN 0 ELSE ss[1].at - from
        m == FoldLeft(LAMBDA acc, s : Measured(acc, s, state), [time |-> before, start |-> 0], ss)
    IN IF ss = <<>> THEN 0 ELSE m.time + (IF m.start = 0 THEN 0 ELSE to - m.start)

\* computeBarValue() of the samples of a group.
Bar(ss, from, to) ==
    [from |-> from, to |-> to, samples |-> Len(ss),
     difference |-> IF ss = <<>> THEN 0 ELSE Last(ss).value - ss[1].value,
     changes |-> Changes(ss),
     on |-> StateTime(ss, 1, from, to), off |-> StateTime(ss, 0, from, to)]

-----------------------------------------------------------------------------
(* Pies *)

Magnitude(v) == IF v < 0 THEN 0 - v ELSE v

\* toFixed(): to the nearest, halves away from zero.
Rounded(v) ==
    LET up == ((2 * Magnitude(v) + Grain) \div (2 * Grain)) * Grain
    IN IF v < 0 THEN 0 - up ELSE up

\* A value within the chart of a single port: negative ones cannot be represented.
Clamped(v, top) == Min({top, Max({0, v})})

\* Mutant: the rest is that of the value before it is rounded.
SinglePieRestFirst(v, top) == <<Rounded(Clamped(v, top)), top - Clamped(v, top)>>

\* The slices of a single port: its value, and the rest of the pie.
SinglePie(v, top) == LET value == Rounded(Clamped(v, top)) IN <<value, top - value>>

\* showCurrentValue(), of values multiplied; one that is missing counts as 0.
Slices(values, top) ==
    IF Len(values) = 1 THEN SinglePie(values[1], top)
    ELSE [i \in DOMAIN values |-> Rounded(values[i])]

\* makeTotalValue(): what is written in the middle.
TotalValue(slices, single) ==
    IF single THEN slices[1] ELSE FoldLeft(LAMBDA sum, v : sum + v, 0, slices)

-----------------------------------------------------------------------------
MakePoints == made' = "points" /\ result' = Decimate(history)
MakeAverage == made' = "average" /\ result' = MovingAverage(history)

\* Two groups, that meet at some time.
MakeBars(t) ==
    /\ made' = "bars"
    /\ result' = <<Bar(Group(history, 1, t), 1, t),
                   Bar(Group(history, t, MaxLength + 2), t, MaxLength + 2)>>

\* The values of as many ports as the history has samples.
MakePie(multiplier, top) ==
    /\ made' = "pie"
    /\ LET values == [i \in DOMAIN history |-> history[i].value * multiplier]
           slices == Slices(values, top)
       IN result' = [values |-> values, top |-> top, slices |-> slices,
                     total |-> TotalValue(slices, Len(values) = 1)]

Init ==
    /\ sampled \in BOOLEAN
    /\ \E at \in {SetToSortSeq(times, <) : times \in SUBSET (1..MaxLength + 1)} :
          /\ Len(at) \in 1..MaxLength
          /\ \E values \in [DOMAIN at -> Values] :
                history = [i \in DOMAIN at |-> [at |-> at[i], value |-> values[i]]]
    /\ sampled \/ \A i \in 2..Len(history) : history[i].value # history[i - 1].value
    /\ result = <<>> /\ made = "nothing"

Next ==
    /\ made = "nothing"
    /\ \/ MakePoints \/ MakeAverage
       \/ \E t \in 2..MaxLength + 1 : MakeBars(t)
       \/ \E multiplier \in Multipliers : \E top \in Tops : MakePie(multiplier, top)
    /\ UNCHANGED <<history, sampled>>

Spec == Init /\ [][Next]_cvars

-----------------------------------------------------------------------------
(* Properties *)

ValuesOf(ss) == {ss[i].value : i \in DOMAIN ss}

\* Of a long history some of its own points are left, in order, no more than can be shown, and
\* among them its extremes (utils.js: "preserving local min/max values").
PointsTell ==
    made = "points" =>
        /\ Len(result) <= MaxPoints
        /\ Range(result) \subseteq Range(history)
        /\ \A i \in 2..Len(result) : result[i - 1].at < result[i].at
        /\ Max(ValuesOf(result)) = Max(ValuesOf(history))
        /\ Min(ValuesOf(result)) = Min(ValuesOf(history))

\* An average is taken at every point, of values around it.
AverageTells ==
    made = "average" =>
        /\ Len(result) = Len(history)
        /\ \A i \in DOMAIN result :
              /\ result[i].count \in 1..Span
              /\ result[i].sum <= result[i].count * Max(ValuesOf(history))
              /\ result[i].sum >= result[i].count * Min(ValuesOf(history))

\* Each sample counts in one bar, and of every group with samples the times on and off make up
\* the whole, if the port is recorded when it changes (bar-chart.js, computeBarValue()).
BarsTell ==
    made = "bars" =>
        /\ result[1].samples + result[2].samples = Len(history)
        /\ \A i \in 1..2 : 
              result[i].samples > 0 /\ ~sampled /\ ValuesOf(history) \subseteq {0, 1} =>
                  result[i].on + result[i].off = result[i].to - result[i].from

Near(a, b) == 2 * Magnitude(a - b) <= Grain

\* The slices of a pie are its ports' values but for rounding, in the order of the ports; those of
\* a single port make up the whole, and none is negative if the maximum is one that rounding
\* leaves alone (pie-chart.js, showCurrentValue()).
PieTells ==
    made = "pie" =>
        IF Len(result.values) > 1
        THEN /\ Len(result.slices) = Len(result.values)
             /\ \A i \in DOMAIN result.slices : Near(result.slices[i], result.values[i])
             /\ 2 * Magnitude(result.total - FoldLeft(LAMBDA sum, v : sum + v, 0, result.values))
                   <= Grain * Len(result.values)
        ELSE /\ result.slices[1] + result.slices[2] = result.top
             /\ result.values[1] \in 0..result.top => Near(result.slices[1], result.values[1])
             /\ Rounded(result.top) = result.top => result.slices[1] \in 0..result.top
             /\ result.total = result.slices[1]

\* The four of them.
ChartTells == PointsTell /\ AverageTells /\ BarsTell /\ PieTells

\* No slice of a single port is negative (pie-chart.js: "Negative values can't be represented on
\* pie chart").
NoneNegative == made = "pie" /\ Len(result.values) = 1 => \A i \in 1..2 : result.slices[i] >= 0

\* They do for every history.
TimesAddUp ==
    made = "bars" =>
        \A i \in 1..2 : result[i].samples > 0 =>
                           result[i].on + result[i].off = result[i].to - result[i].from
=============================================================================
