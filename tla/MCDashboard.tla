----------------------------- MODULE MCDashboard -----------------------------
(***************************************************************************)
(* The dashboard, for TLC: the panels and the place of their widgets        *)
(* (PanelLayout), how the panels follow those of the server                 *)
(* (DashboardSync), a widget and its port (Widget), and a widget's form     *)
(* (WidgetConfig).  Each is checked on its own: only one of them, `which`,  *)
(* takes steps.                                                             *)
(***************************************************************************)
EXTENDS PanelLayout, TLC

CONSTANTS Mine, Theirs, Old, MaxReloads, MaxLosses, Top, Places, MaxEvents, Content,
          MaxEntries, MaxSteps

ASSUME DashboardAssumption ==
    /\ {MaxReloads, MaxLosses, MaxEvents, MaxSteps} \subseteq Nat
    /\ {Top, MaxEntries} \subseteq Nat \ {0, 1} /\ Places \subseteq 0..4 * Top
    /\ Mine \cap (Theirs \cup {Old}) = {} /\ None \notin Int

VARIABLES
    which,
    \* DashboardSync
    stored, known, root, pending, puts, events, blocked, applying, asked, answer, connected,
    reloads, losses, edits, excused,
    \* Widget
    conf, value, up, news, cached, valid, state, shown, calls, held, past, pressed, timers,
    handle, last, stray, asks, changes,
    \* WidgetConfig
    kind, entries, repeat, ticks, ptype, open, fields, entry, count, on, repeats, forever, times,
    ftype, visible, meant, steps

S == INSTANCE DashboardSync
W == INSTANCE Widget WITH events <- news, known <- cached, drag <- held
C == INSTANCE WidgetConfig WITH made <- fields

S0 == <<stored, known, root, pending, puts, events, blocked, applying, asked, answer, connected,
        reloads, losses, edits, excused>>
W0 == <<conf, value, up, news, cached, valid, state, shown, calls, held, past, pressed, timers,
        handle, last, stray, asks, changes>>
C0 == <<kind, entries, repeat, ticks, ptype, open, fields, entry, count, on, repeats, forever,
        times, ftype, visible, meant, steps>>

AllVars == <<which, vars, S0, W0, C0>>

LayoutStep(A) == which = "layout" /\ A /\ UNCHANGED <<which, S0, W0, C0>>
SyncStep(A) == which = "sync" /\ A /\ UNCHANGED <<which, vars, W0, C0>>
WidgetStep(A) == which = "widget" /\ A /\ UNCHANGED <<which, vars, S0, C0>>
ConfigStep(A) == which = "config" /\ A /\ UNCHANGED <<which, vars, S0, W0>>

\* What takes no steps begins in one of its states.
MCInit ==
    /\ which \in {"layout", "sync", "widget", "config"}
    /\ Init
    /\ S!Init /\ (which # "sync" => known = {})
    /\ W!Init
    /\ IF which = "widget" THEN value \in {0, 2}   \* a tick, and a value between two
                          ELSE conf.kind = "IncDec" /\ value = 0 /\ cached = 0
    /\ C!Init /\ (which # "config" => kind = "Analog" /\ entries = <<>>)

MCNext == LayoutStep(Next) \/ SyncStep(S!Next) \/ WidgetStep(W!Next) \/ ConfigStep(C!Next)

MCSpec == MCInit /\ [][MCNext]_AllVars

Symmetry == Permutations(Panel) \cup Permutations(Mine)

-----------------------------------------------------------------------------
\* The panels shown are those on the server, and have what the user edited (DashboardSync).
DashboardFollows == S!DashboardFollows
\* A widget at rest shows the value of its port; a button pressed will be released (Widget).
WidgetHolds == W!WidgetHolds
\* A widget's form leaves the other entries as they were (WidgetConfig).
EntriesKept == C!EntriesKept
=============================================================================
