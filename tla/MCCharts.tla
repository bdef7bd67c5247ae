------------------------------ MODULE MCCharts ------------------------------
(***************************************************************************)
(* The history of a port, for TLC: the samples that a client keeps of it    *)
(* (HistoryCache), those that the charts of groups keep (HistoryGroups),    *)
(* the history page (HistoryPage) and what is drawn (ChartData).  Each is   *)
(* checked on its own: only one of them, `which`, takes steps.              *)
(***************************************************************************)
EXTENDS HistoryGroups

CONSTANTS CacheEnd, Window, Limit, MaxRequests, CacheFetches, Windows, InitialInterval, Opened,
          Marks, MaxSteps, MaxUnder, MaxLength, Values, MaxPoints, Span, Multipliers, Tops, Grain

VARIABLES
    which,
    \* HistoryCache
    user, time, kept, told, managers, current, requests, chain, progress, fetched, failures,
    late, apart, ended,
    \* HistoryPage
    isBoolean, hour, range, choice, under, data, smooth, averaged, view, steps, misses, old,
    \* ChartData
    history, sampled, result, made

C == INSTANCE HistoryCache WITH End <- CacheEnd, MaxFetches <- CacheFetches, now <- time,
                                recorded <- kept, fetches <- requests, promise <- chain,
                                asked <- fetched, fails <- failures
P == INSTANCE HistoryPage WITH now <- hour, fails <- misses, late <- old
D == INSTANCE ChartData

Factors == {0 - 2, 1, 3}

ASSUME ChartsAssumption ==
    /\ P!PageAssumption
    /\ Port # {} /\ None \notin Port
    /\ {Limit, MaxRequests, Unit, MinAge, MaxMultiplier, MaxLength, MaxPoints, Span, Grain}
           \subseteq Nat \ {0}
    /\ Values \cup Multipliers \subseteq Int /\ Tops \subseteq Nat
    /\ {CacheEnd, Window, End, MaxFails, CacheFetches, MaxFetches, MaxSteps, MaxUnder} \subseteq Nat

G0 == <<now, recorded, remembered, port, multiplier, samples, lastCached, fetches, promise,
        asked, fails, shown, mixed>>
C0 == <<user, time, kept, told, managers, current, requests, chain, progress, fetched, failures,
        late, apart, ended>>
P0 == <<isBoolean, hour, range, choice, under, data, smooth, averaged, view, steps, misses, old>>
D0 == <<history, sampled, result, made>>

AllVars == <<which, G0, C0, P0, D0>>

Groups(A) == which = "groups" /\ A /\ UNCHANGED <<which, C0, P0, D0>>
Cache(A) == which = "cache" /\ A /\ UNCHANGED <<which, G0, P0, D0>>
Page(A) == which = "page" /\ A /\ UNCHANGED <<which, G0, C0, D0>>
Chart(A) == which = "chart" /\ A /\ UNCHANGED <<which, G0, C0, P0>>

\* What takes no steps begins in one of its states.
MCInit ==
    /\ which \in {"groups", "cache", "page", "chart"}
    /\ Init
    /\ which # "groups" => /\ now = Start /\ recorded = {} /\ multiplier = 1
                           /\ port = (CHOOSE p \in Port : TRUE)
    /\ C!Init /\ (which # "cache" => user = "page" /\ time = 1 /\ kept = {})
    /\ P!Init /\ (which # "page" => ~isBoolean /\ ~smooth)
    /\ D!Init
    /\ which # "chart" => /\ ~sampled /\ Len(history) = 1 /\ history[1].at = 1
                          /\ history[1].value = CHOOSE v \in Values : TRUE

MCNext == Groups(Next) \/ Cache(C!Next) \/ Page(P!Next) \/ Chart(D!Next)

MCSpec == MCInit /\ [][MCNext]_AllVars

-----------------------------------------------------------------------------
\* The cached history is complete, and charts do not stop (HistoryCache).
CacheHolds == C!CacheHolds
\* The history page shows its range (HistoryPage).
ChartCovers == P!ChartCovers
\* What is drawn of a history is so (ChartData).
ChartTells == D!ChartTells
=============================================================================
