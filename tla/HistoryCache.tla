---------------------------- MODULE HistoryCache ----------------------------
(***************************************************************************)
(* The history of a port in the browser: intervals of it that have been     *)
(* downloaded, and who asks for more (common/history-download-manager.js,   *)
(* ports/port-history-chart-page.js and, of the widgets,                    *)
(* charts/port-history-chart.js in its slice mode).                         *)
(*                                                                         *)
(* The page asks for any range at any time, also while it waits for another *)
(* one.  The chart asks for the last Window of time, one fetch after the    *)
(* other, and adds the values that come in events itself.                   *)
(*                                                                         *)
(* A sample is `of` the time it was recorded at, and stands `at` a time:    *)
(* that of the browser, when it was added from an event.                    *)
(***************************************************************************)
EXTENDS Integers, Sequences, FiniteSets, SequencesExt, FiniteSetsExt

CONSTANTS
    None,
    End,            \* the last moment of time
    Window,         \* the chart's _timeInterval
    Limit,          \* HISTORY_MAX_LIMIT
    MaxRequests,    \* MAX_FETCH_REQUESTS
    MaxFetches,     \* bound on the fetches
    MaxFails        \* bound on the requests that fail, and on the changes of the port

VARIABLES
    user,       \* "page" or "chart"
    now,
    recorded,   \* the moments that the server has samples of
    told,       \* values whose events are on their way to the browser
    managers,   \* every manager made: its intervals and the requests of its last fetch
    current,    \* which one is in use; 0: none
    fetches,    \* those under way, in the order they were asked for
    promise,    \* _fetchHistoryPromise: the number of a fetch, or 0
    progress,   \* the chart shows that it is fetching
    asked,      \* number of fetches asked for
    fails,
    late,       \* history: samples recorded where the history had been downloaded, and values
    apart,      \* history: the page has begun a fetch during another one, or a value was added
                \* to an interval without samples: samples may stand outside of their interval
    ended       \* history: the last fetch that ended well

hvars == <<user, now, recorded, told, managers, current, fetches, promise, progress, asked, fails,
           late, apart, ended>>

-----------------------------------------------------------------------------
(* Intervals *)

Smaller(a, b) == IF a < b THEN a ELSE b
Greater(a, b) == IF a < b THEN b ELSE a

\* First index of ss, from i on, of a sample that does not come before t.
FirstFrom(ss, i, t) == Min({j \in i..Len(ss) : ss[j].at >= t} \cup {Len(ss) + 1})

\* getSliceSamples()
SliceSamples(iv, from, to) ==
    LET i == FirstFrom(iv.samples, 1, from)
    IN SubSeq(iv.samples, i, FirstFrom(iv.samples, i, to) - 1)

\* getSlice(): the interval itself if it is in the range.
GetSlice(iv, from, to) ==
    IF iv.to <= from \/ iv.from >= to THEN None
    ELSE IF from <= iv.from /\ iv.to <= to THEN iv
    ELSE LET f == Greater(from, iv.from) t == Smaller(to, iv.to)
         IN [from |-> f, to |-> t, samples |-> SliceSamples(iv, f, t)]

\* Two intervals, the second of which ends the union: its samples count where both have some.
Joined(a, b) ==
    [from |-> a.from, to |-> b.to,
     samples |-> IF a.to = b.from THEN a.samples \o b.samples
                 ELSE IF b.samples = <<>> THEN a.samples
                 ELSE SelectSeq(a.samples, LAMBDA s : s.at < b.samples[1].at) \o b.samples]

\* tryMerge()
TryMerge(a, b) ==
    IF a.from < b.to /\ a.to >= b.from THEN Joined(a, b)
    ELSE IF b.from < a.to /\ b.to >= a.from THEN Joined(b, a)
    ELSE None

\* The interval put in place p-1 or p, merged with what is there if it can be; then whether
\* these two touch.
PutMerged(ivs, p, iv) ==
    LET left == IF p > 1 THEN TryMerge(ivs[p - 1], iv) ELSE None
        right == IF p <= Len(ivs) /\ left = None THEN TryMerge(ivs[p], iv) ELSE None
    IN IF left # None THEN [ivs EXCEPT ![p - 1] = left]
       ELSE IF right # None THEN [ivs EXCEPT ![p] = right]
       ELSE InsertAt(ivs, p, iv)

\* _addInterval()
AddInterval(ivs, iv) ==
    LET p == Min({i \in DOMAIN ivs : ivs[i].from >= iv.from} \cup {Len(ivs) + 1})
        new == PutMerged(ivs, p, iv)
        bridge == IF p > 1 /\ p <= Len(ivs) /\ Len(new) = Len(ivs)
                  THEN TryMerge(new[p - 1], new[p]) ELSE None
    IN IF bridge = None THEN new ELSE RemoveAt([new EXCEPT ![p - 1] = bridge], p)

\* _findGaps()
FindGaps(ivs, from, to) ==
    IF ivs = <<>> \/ to <= ivs[1].from \/ from >= Last(ivs).to THEN <<[from |-> from, to |-> to]>>
    ELSE LET start == Min({i \in DOMAIN ivs : ivs[i].from >= from} \cup {Len(ivs) + 1})
             stop == Min({i \in start..Len(ivs) : ivs[i].to >= to} \cup {Len(ivs) + 1})
             between == [i \in 1..Greater(0, stop - 1 - start) |->
                            [from |-> ivs[start + i - 1].to, to |-> ivs[start + i].from]]
         IN IF start > Len(ivs) THEN <<>>
            ELSE (IF from < ivs[start].from
                  THEN <<[from |-> from, to |-> ivs[start].from]>> ELSE <<>>) \o between

\* _getCachedSamples()
CachedSamples(ivs, from, to) ==
    FlattenSeq([i \in DOMAIN ivs |->
        LET slice == GetSlice(ivs[i], from, to) IN IF slice = None THEN <<>> ELSE slice.samples])

\* Interval.addSample(): an interval without samples keeps its ends.
AddToInterval(iv, s) ==
    LET ss == iv.samples
        i == FirstFrom(ss, 1, s.at)
    IN IF ss = <<>> THEN [iv EXCEPT !.samples = <<s>>]
       ELSE IF s.at < ss[1].at THEN [iv EXCEPT !.samples = <<s>> \o ss, !.from = s.at]
       ELSE IF i <= Len(ss) THEN [iv EXCEPT !.samples = InsertAt(ss, i, s)]
       ELSE [iv EXCEPT !.samples = Append(ss, s), !.to = s.at + 1]

\* addSample(), that bridges the gap since the last interval.
AddSample(ivs, s) ==
    IF ivs = <<>> THEN <<[from |-> s.at, to |-> s.at + 1, samples |-> <<s>>]>>
    ELSE IF s.at < ivs[1].from THEN [ivs EXCEPT ![1].samples = <<s>> \o @]
    ELSE LET p == Min({i \in DOMAIN ivs : ivs[i].to >= s.at} \cup {Len(ivs)})
         IN [ivs EXCEPT ![p] = AddToInterval(@, s)]

\* purge() of what comes before `to`.
Purge(ivs, to) ==
    LET kept == SelectSeq(ivs, LAMBDA iv : iv.to > to)
    IN [i \in DOMAIN kept |-> IF kept[i].from < to THEN GetSlice(kept[i], to, kept[i].to)
                                                    ELSE kept[i]]

-----------------------------------------------------------------------------
(* Fetches *)

Fetch(from, to) ==
    [id |-> asked + 1, from |-> from, to |-> to, manager |-> 0, gaps |-> <<>>, at |-> 0,
     got |-> <<>>, stage |-> "waiting", wire |-> <<>>]

\* The manager that a fetch begins with: the one in use, else a new one.
Begun(f) ==
    LET m == IF current = 0 THEN Len(managers) + 1 ELSE current
        gaps == FindGaps(IF current = 0 THEN <<>> ELSE managers[m].intervals, f.from, f.to)
    IN [f EXCEPT !.manager = m, !.gaps = gaps, !.at = IF gaps = <<>> THEN 0 ELSE gaps[1].from,
                 !.stage = IF gaps = <<>> THEN "done" ELSE "asked"]

Managers(f) ==
    LET ms == IF current = 0 THEN Append(managers, [intervals |-> <<>>, count |-> 0])
              ELSE managers
    IN [ms EXCEPT ![f.manager].count = IF f.stage = "asked" THEN 1 ELSE 0]

\* fetchAndShowHistory() of the page, that does not wait for the fetches under way.
PageFetch(from, to) ==
    /\ user = "page" /\ asked < MaxFetches
    /\ LET f == Begun(Fetch(from, to))
       IN managers' = Managers(f) /\ current' = f.manager /\ fetches' = Append(fetches, f)
    /\ asked' = asked + 1 /\ apart' = (apart \/ fetches # <<>>)
    /\ UNCHANGED <<user, now, recorded, told, promise, progress, fails, late, ended>>

\* showCurrentValue(), getHistorySlice(): a fetch comes after those under way.
ShowCurrent(wantProgress) ==
    /\ asked < MaxFetches
    /\ asked' = asked + 1
    /\ fetches' = Append(fetches, Fetch(Greater(0, now - Window), now))
    /\ promise' = asked + 1
    /\ progress' = (progress \/ (wantProgress /\ promise = 0))

\* The panel is shown, the widget becomes valid or is made anew.
Show ==
    /\ user = "chart" /\ now > 0
    /\ ShowCurrent(TRUE)
    /\ UNCHANGED <<user, now, recorded, told, managers, current, fails, late, apart, ended>>

Begin ==
    /\ user = "chart" /\ fetches # <<>> /\ fetches[1].stage = "waiting"
    /\ LET f == Begun(fetches[1])
       IN managers' = Managers(f) /\ current' = f.manager /\ fetches' = [fetches EXCEPT ![1] = f]
    /\ UNCHANGED <<user, now, recorded, told, promise, progress, asked, fails, late, apart, ended>>

\* The server looks up the samples, the oldest first (getPortHistory()).
Served(i) ==
    /\ i \in DOMAIN fetches /\ fetches[i].stage = "asked"
    /\ LET f == fetches[i]
           there == SetToSortSeq({t \in recorded : f.at <= t /\ t < f.gaps[1].to}, <)
       IN fetches' = [fetches EXCEPT ![i].stage = "served",
              ![i].wire = [j \in 1..Smaller(Limit, Len(there)) |->
                              [at |-> there[j], of |-> there[j]]]]
    /\ UNCHANGED <<user, now, recorded, told, managers, current, promise, progress, asked, fails,
                   late, apart, ended>>

\* Mutant: what a full answer leaves out is not asked for.
AnsweredOnce(i) ==
    /\ i \in DOMAIN fetches /\ fetches[i].stage = "served"
    /\ LET f == fetches[i]
           m == f.manager
           got == f.got \o f.wire
           rest == Tail(f.gaps)
       IN /\ managers[m].count < MaxRequests \/ rest = <<>>
          /\ managers' = [managers EXCEPT
                ![m].intervals = AddInterval(@, [from |-> f.gaps[1].from,
                                                 to |-> f.gaps[1].to, samples |-> got]),
                ![m].count = IF rest = <<>> THEN @ ELSE @ + 1]
          /\ fetches' = [fetches EXCEPT ![i] = [f EXCEPT !.gaps = rest, !.got = <<>>,
                 !.wire = <<>>, !.at = IF rest = <<>> THEN 0 ELSE rest[1].from,
                 !.stage = IF rest = <<>> THEN "done" ELSE "asked"]]
    /\ UNCHANGED <<user, now, recorded, told, current, promise, progress, asked, fails, late,
                   apart, ended>>

\* _download() and _downloadAndCache(): after a full answer the rest of the gap is asked for,
\* after any other one the gap is cached and the next one is.
Answered(i) ==
    /\ i \in DOMAIN fetches /\ fetches[i].stage = "served"
    /\ LET f == fetches[i]
           m == f.manager
           got == f.got \o f.wire
           full == Len(f.wire) = Limit
           rest == IF full THEN f.gaps ELSE Tail(f.gaps)
       IN /\ managers[m].count < MaxRequests \/ rest = <<>>
          /\ managers' = [managers EXCEPT
                ![m].intervals = IF full THEN @
                                 ELSE AddInterval(@, [from |-> f.gaps[1].from,
                                                      to |-> f.gaps[1].to, samples |-> got]),
                ![m].count = IF rest = <<>> THEN @ ELSE @ + 1]
          /\ fetches' = [fetches EXCEPT ![i] =
                [f EXCEPT !.gaps = rest, !.got = IF full THEN got ELSE <<>>, !.wire = <<>>,
                          !.at = IF full THEN Last(f.wire).at
                                 ELSE IF rest = <<>> THEN 0 ELSE rest[1].from,
                          !.stage = IF rest = <<>> THEN "done" ELSE "asked"]]
    /\ UNCHANGED <<user, now, recorded, told, current, promise, progress, asked, fails, late,
                   apart, ended>>

\* Of the chart's fetches the ones that wait for it fail with it.
Dropped(i) == IF user = "chart" THEN <<>> ELSE RemoveAt(fetches, i)

\* Too many requests: the last gap that has been answered stays cached.
TooMany(i) ==
    /\ i \in DOMAIN fetches /\ fetches[i].stage = "served"
    /\ LET f == fetches[i]
           full == Len(f.wire) = Limit
       IN /\ managers[f.manager].count >= MaxRequests
          /\ full \/ Len(f.gaps) > 1
          /\ managers' = IF full THEN managers
                         ELSE [managers EXCEPT ![f.manager].intervals =
                                 AddInterval(@, [from |-> f.gaps[1].from, to |-> f.gaps[1].to,
                                                 samples |-> f.got \o f.wire])]
    /\ fetches' = Dropped(i)
    /\ promise' = 0 /\ progress' = FALSE
    /\ UNCHANGED <<user, now, recorded, told, current, asked, fails, late, apart, ended>>

\* Mutant: a fetch that fails is still taken to be under way.
FailsKept(i) ==
    /\ i \in DOMAIN fetches /\ fetches[i].stage \in {"asked", "served"} /\ fails < MaxFails
    /\ fetches' = Dropped(i)
    /\ progress' = FALSE /\ fails' = fails + 1
    /\ UNCHANGED <<user, now, recorded, told, managers, current, promise, asked, late, apart, ended>>

Fails(i) ==
    /\ i \in DOMAIN fetches /\ fetches[i].stage \in {"asked", "served"} /\ fails < MaxFails
    /\ fetches' = Dropped(i)
    /\ promise' = 0 /\ progress' = FALSE /\ fails' = fails + 1
    /\ UNCHANGED <<user, now, recorded, told, managers, current, asked, late, apart, ended>>

\* What is cached of the range is shown.
Ends(i) ==
    /\ i \in DOMAIN fetches /\ fetches[i].stage = "done"
    /\ LET f == fetches[i] IN
       /\ ended' = [from |-> f.from, to |-> f.to, id |-> f.id,
                    samples |-> CachedSamples(managers[f.manager].intervals, f.from, f.to)]
       /\ promise' = IF promise = f.id THEN 0 ELSE promise
    /\ progress' = (progress /\ promise' # 0)
    /\ fetches' = RemoveAt(fetches, i)
    /\ UNCHANGED <<user, now, recorded, told, managers, current, asked, fails, late, apart>>

-----------------------------------------------------------------------------
(* Time and values *)

Intervals == IF current = 0 THEN <<>> ELSE managers[current].intervals
Covers(iv, t) == iv.from <= t /\ t < iv.to

\* Time passes, and the port may have taken a new value, that the server has recorded.
Tick(takes) ==
    /\ now < End
    /\ now' = now + 1
    /\ recorded' = IF takes THEN recorded \cup {now} ELSE recorded
    /\ told' = IF takes /\ user = "chart" THEN Append(told, now) ELSE told
    /\ late' = IF takes /\ (\/ \E i \in DOMAIN Intervals : Covers(Intervals[i], now)
                            \/ \E i \in DOMAIN fetches :
                                  fetches[i].stage = "served" /\ Covers(fetches[i].gaps[1], now))
               THEN late \cup {now} ELSE late
    /\ UNCHANGED <<user, managers, current, fetches, promise, progress, asked, fails, apart, ended>>

\* onPortValueChange(): the value is left out during a fetch.
ValueChange ==
    /\ told # <<>> /\ told' = Tail(told)
    /\ IF promise # 0
       THEN /\ late' = late \cup {Head(told)}
            /\ UNCHANGED <<managers, asked, fetches, promise, progress, apart>>
       ELSE /\ managers' = IF current = 0 THEN managers
                           ELSE [managers EXCEPT ![current].intervals =
                                   AddSample(Purge(@, Greater(0, now - Window)),
                                             [at |-> now, of |-> Head(told)])]
            /\ apart' = (apart \/ \E i \in DOMAIN Intervals : Intervals[i].samples = <<>>)
            /\ late' = late
            /\ ShowCurrent(FALSE)
    /\ UNCHANGED <<user, now, recorded, current, fails, ended>>

\* invalidateCache(), when the port is updated or another panel has been shown.
Invalidate ==
    /\ user = "chart" /\ current # 0 /\ fails < MaxFails
    /\ current' = 0 /\ fails' = fails + 1
    /\ UNCHANGED <<user, now, recorded, told, managers, fetches, promise, progress, asked, late,
                   apart, ended>>

-----------------------------------------------------------------------------
Init ==
    /\ user \in {"page", "chart"}
    /\ now \in {1, End}
    /\ recorded \in SUBSET (0..now - 1)
    /\ told = <<>> /\ managers = <<>> /\ current = 0 /\ fetches = <<>> /\ promise = 0
    /\ progress = FALSE /\ asked = 0 /\ fails = 0 /\ late = {}
    /\ apart = FALSE /\ ended = None

Next ==
    \/ \E from, to \in 0..End + 1 : from < to /\ PageFetch(from, to)
    \/ Show \/ Begin \/ ValueChange \/ Invalidate
    \/ \E i \in DOMAIN fetches : Served(i) \/ Answered(i) \/ TooMany(i) \/ Fails(i) \/ Ends(i)
    \/ Tick(TRUE) \/ Tick(FALSE)

Spec == Init /\ [][Next]_hvars

-----------------------------------------------------------------------------
(* Properties *)

Told(t) == \E i \in DOMAIN told : told[i] = t
Has(ss, t) == \E i \in DOMAIN ss : ss[i].of = t

\* Every sample of an interval taken to be downloaded is there, whatever fetches crossed and
\* failed (history-download-manager.js: "we can be sure we've got all existing samples").
CoveredIsComplete ==
    \A i \in DOMAIN Intervals : \A t \in recorded \ late :
        Covers(Intervals[i], t) /\ ~Told(t) => Has(Intervals[i].samples, t)

\* A chart's samples go forwards (_addInterval(), addSample()), unless the page has asked for
\* a range while it waited for another one, or the first value came where there was none.
GoesForwards ==
    ended # None /\ ~apart =>
        \A i, j \in DOMAIN ended.samples : i < j => ended.samples[i].at <= ended.samples[j].at

\* A chart takes itself to be fetching, and leaves values out, only as long as it does
\* (getHistorySlice()).
FetchingEnds == user = "chart" /\ fetches = <<>> => promise = 0 /\ ~progress

\* The three of them.
CacheHolds == CoveredIsComplete /\ GoesForwards /\ FetchingEnds

\* A fetch that ends has all the samples of its range (history-download-manager.js: "Chain API
\* requests for all missing intervals").
FetchComplete ==
    [][ended' # ended => \A t \in recorded \ late :
          ended'.from <= t /\ t < ended'.to => Has(ended'.samples, t)]_hvars
=============================================================================
