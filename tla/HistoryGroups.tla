---------------------------- MODULE HistoryGroups ----------------------------
(***************************************************************************)
(* A chart of the value that a port had at the ends of the last groups of   *)
(* time (charts/port-history-chart.js in its timestamps mode), and the      *)
(* server's memory of the values it has looked up (core/history.py).        *)
(*                                                                         *)
(* A value is told by its port and the moment it was recorded at.  The two  *)
(* ports are recorded at the same moments.                                  *)
(***************************************************************************)
EXTENDS Integers, Sequences, FiniteSets, SequencesExt, FiniteSetsExt

CONSTANTS
    None,
    Port,           \* the ports that the chart can show
    End,            \* the last moment of time
    Unit,           \* duration of a group
    MinAge,         \* _CACHE_TIMESTAMP_MIN_AGE
    MaxMultiplier,  \* bound on the number of groups
    MaxFetches,     \* bound on the fetches
    MaxFails        \* bound on the failures, and on the changes of what is shown

VARIABLES
    now,
    recorded,       \* the moments of the samples that are persisted
    remembered,     \* _samples_cache: the timestamps of each port
    port,           \* _portId
    multiplier,     \* of _timeGroups
    samples,        \* _cachedSamples
    lastCached,     \* _lastCachedTimestamp
    fetches,        \* those under way, in the order they were asked for
    promise,        \* _fetchHistoryPromise: the number of a fetch, or 0
    asked,          \* number of fetches asked for
    fails,
    shown,          \* what the chart shows
    mixed           \* history: whether the cache was "emptied" during a fetch, and whether an answer
                    \* has come in another "order" than it was asked for

gvars == <<now, recorded, remembered, port, multiplier, samples, lastCached, fetches, promise,
           asked, fails, shown, mixed>>

\* Timestamps are positive: the time of the first state leaves room for all the groups.
Start == Unit * MaxMultiplier + 1

-----------------------------------------------------------------------------
(* The server *)

\* The value of port p at time t, from the sample saved last (get_samples_by_timestamp()).
ValueAt(p, t) ==
    LET before == {s \in recorded : s <= t}
    IN IF before = {} THEN None ELSE <<p, Max(before)>>

Sample(p, t) == IF ValueAt(p, t) = None THEN None ELSE [at |-> t, value |-> ValueAt(p, t)]

\* The values that are remembered come before those that are looked up.
Served ==
    /\ fetches # <<>> /\ fetches[1].stage = "asked"
    /\ LET f == fetches[1]
           known == SelectSeq(f.stamps, LAMBDA t : t \in remembered[f.of])
           missed == SelectSeq(f.stamps, LAMBDA t : t \notin remembered[f.of])
           order == known \o missed
       IN /\ fetches' = [fetches EXCEPT ![1].stage = "served",
                         ![1].wire = [i \in DOMAIN order |-> Sample(f.of, order[i])]]
          /\ remembered' = [remembered EXCEPT
                            ![f.of] = @ \cup {t \in Range(missed) : now - t > MinAge}]
          /\ mixed' = IF order = f.stamps THEN mixed ELSE mixed \cup {"order"}
    /\ UNCHANGED <<now, recorded, port, multiplier, samples, lastCached, promise, asked, fails,
                   shown>>

-----------------------------------------------------------------------------
(* The chart *)

\* The end of the group that is current at time t, and those of the m groups before it
\* (computeGroupsTimestamps()).
GroupsTimestamps(m, t) ==
    LET end == (t \div Unit + 1) * Unit
    IN [i \in 1..m + 1 |-> end - (m + 1 - i) * Unit]

\* getHistoryTimestamps() of port p at time t, when its value is v.
Fetch(p, m, t, v) ==
    /\ asked < MaxFetches
    /\ asked' = asked + 1 /\ promise' = asked + 1
    /\ fetches' = Append(fetches,
          [id |-> asked + 1, port |-> p, groups |-> GroupsTimestamps(m, t), now |-> t,
           current |-> v, of |-> None, stamps |-> <<>>, wire |-> <<>>, stage |-> "waiting"])

\* Mutant: the end of the current group is asked for too.
BeginWithFuture ==
    /\ fetches # <<>> /\ fetches[1].stage = "waiting"
    /\ LET f == fetches[1]
           stamps == SelectSeq(f.groups, LAMBDA t : t > lastCached)
       IN fetches' = [fetches EXCEPT ![1].of = port, ![1].stamps = stamps,
                      ![1].stage = IF stamps = <<>> THEN "served" ELSE "asked"]
    /\ UNCHANGED <<now, recorded, remembered, port, multiplier, samples, lastCached, promise,
                   asked, fails, shown, mixed>>

\* A fetch begins when the one before it has ended: what is past and newer than the cache.
Begin ==
    /\ fetches # <<>> /\ fetches[1].stage = "waiting"
    /\ LET f == fetches[1]
           stamps == SelectSeq(f.groups, LAMBDA t : t > lastCached /\ t < f.now)
       IN fetches' = [fetches EXCEPT ![1].of = port, ![1].stamps = stamps,
                      ![1].stage = IF stamps = <<>> THEN "served" ELSE "asked"]
    /\ UNCHANGED <<now, recorded, remembered, port, multiplier, samples, lastCached, promise,
                   asked, fails, shown, mixed>>

\* The samples of an answer that are newer than the last one of the cache.
Newer(wire) ==
    SelectSeq(wire, LAMBDA s : s # None /\ (samples # <<>> => s.at > Last(samples).at))

\* The sample at a group's end or before it, for each of them from the last one on: those that
\* come after are dropped on the way.
Selected(ss, groups) ==
    LET n == Len(groups)
        top[i \in 0..n] == \* length of what is left of ss after i of the groups
            IF i = 0 THEN Len(ss)
            ELSE Max({k \in 1..top[i - 1] : ss[k].at <= groups[n + 1 - i]} \cup {0})
    IN [i \in 1..n |-> IF top[n + 1 - i] = 0 THEN None ELSE ss[top[n + 1 - i]].value]

Ends ==
    /\ fetches # <<>> /\ fetches[1].stage = "served"
    /\ LET f == fetches[1]
           new == Newer(f.wire)
           all == samples \o new
           current == IF f.current = None THEN <<>> ELSE <<[at |-> f.now, value |-> f.current]>>
       IN /\ samples' = all
          /\ lastCached' = IF new # <<>> THEN Last(f.stamps) ELSE lastCached
          /\ promise' = IF promise = f.id THEN 0 ELSE promise
          /\ shown' = [port |-> f.port, now |-> f.now, groups |-> f.groups, mixed |-> mixed,
                       values |-> IF all = <<>> THEN [i \in DOMAIN f.groups |-> None]
                                  ELSE Selected(all \o current, f.groups)]
    /\ fetches' = Tail(fetches)
    /\ UNCHANGED <<now, recorded, remembered, port, multiplier, asked, fails, mixed>>

\* The fetches that wait for one that fails do so with it.
Fails ==
    /\ fetches # <<>> /\ fetches[1].stage \in {"asked", "served"} /\ fetches[1].stamps # <<>>
    /\ fails < MaxFails
    /\ fails' = fails + 1 /\ promise' = 0 /\ fetches' = <<>>
    /\ UNCHANGED <<now, recorded, remembered, port, multiplier, samples, lastCached, asked, shown,
                   mixed>>

\* invalidateCache()
Emptied ==
    /\ samples' = <<>> /\ lastCached' = 0
    /\ mixed' = IF fetches = <<>> THEN {} ELSE mixed \cup {"emptied"}

\* The panel is shown: the cache is emptied.
Show ==
    /\ Fetch(port, multiplier, now, ValueAt(port, now)) /\ Emptied
    /\ UNCHANGED <<now, recorded, remembered, port, multiplier, fails, shown>>

\* configFromJSON(): another port or other groups; the chart is refreshed.
Configure(p, m) ==
    /\ <<p, m>> # <<port, multiplier>> /\ fails < MaxFails
    /\ port' = p /\ multiplier' = m /\ fails' = fails + 1
    /\ Fetch(p, m, now, ValueAt(p, now)) /\ Emptied
    /\ UNCHANGED <<now, recorded, remembered, shown>>

\* Time passes; the port may take a value that is recorded and that the browser is told of:
\* onPortValueChange() does nothing with it during a fetch.
Tick(takes) ==
    /\ now < End /\ now' = now + 1
    /\ recorded' = IF takes THEN recorded \cup {now'} ELSE recorded
    /\ IF takes /\ promise = 0 THEN Fetch(port, multiplier, now + 1, <<port, now + 1>>)
                               ELSE UNCHANGED <<asked, promise, fetches>>
    /\ UNCHANGED <<remembered, port, multiplier, samples, lastCached, fails, shown, mixed>>

-----------------------------------------------------------------------------
Init ==
    /\ now = Start
    /\ recorded \in SUBSET (1..now)
    /\ remembered = [p \in Port |-> {}]
    /\ port \in Port /\ multiplier \in 1..MaxMultiplier
    /\ samples = <<>> /\ lastCached = 0 /\ fetches = <<>> /\ promise = 0 /\ asked = 0
    /\ fails = 0 /\ shown = None /\ mixed = {}

Next ==
    \/ Served \/ Begin \/ Ends \/ Fails \/ Show
    \/ \E p \in Port, m \in 1..MaxMultiplier : Configure(p, m)
    \/ Tick(TRUE) \/ Tick(FALSE)

Spec == Init /\ [][Next]_gvars

-----------------------------------------------------------------------------
(* Properties *)

\* The last value at every past group's end that the chart shows is that of its port.
Right == shown # None =>
    \A i \in DOMAIN shown.groups :
        shown.groups[i] < shown.now => shown.values[i] = ValueAt(shown.port, shown.groups[i])

\* What the chart shows of a past time is the port's value at that time, however the cache and
\* the answers have grown, unless it was emptied during a fetch or the server has answered in
\* another order (getHistoryTimestamps()).
GroupsAreRight == Right \/ shown.mixed # {}

\* It always is but for the order of an answer, whatever is configured when
\* (configFromJSON(): "Invalidate history if port changed").
OfItsPort == Right \/ "order" \in shown.mixed

\* It always is but for a cache emptied during a fetch (getHistoryTimestamps(): "Ensure
\* requested timestamps are chronologically ordered").
InOrder == Right \/ "emptied" \in shown.mixed
=============================================================================
