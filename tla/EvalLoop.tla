------------------------------ MODULE EvalLoop ------------------------------
(***************************************************************************)
(* The update loop (core/main.py) and what schedules an expression for     *)
(* evaluation: the values the loop reads, attribute changes, whose events  *)
(* reach the loop through a debounced task per port (utils/debounced.py)   *)
(* and AttrChangeHandler (utils/main.py), and forced evaluations.          *)
(*                                                                         *)
(* The loop, the API calls and the debounced tasks interleave at their     *)
(* awaits.  A driver's read_value(), attribute getters, handle_enable() and *)
(* handle_disable() may suspend and may raise; the synchronous event       *)
(* handlers do not suspend.                                                *)
(*                                                                         *)
(* An expression is the set of its dependencies, {} being no expression.   *)
(* What an evaluation does with the values it finds is not modelled, only  *)
(* which values it finds; pushing the result is in PortWrite.  Time        *)
(* dependencies, device attributes and ports that come and go are left     *)
(* out, but for the failure of the round that a port's coming or going may *)
(* cause (build_context() iterates over the live dictionary).              *)
(***************************************************************************)
EXTENDS Integers, FiniteSets

CONSTANTS
    Port,
    Values,         \* Values[p]: the values that p's driver reads
    Exprs,          \* Exprs[p]: the expressions that may be set on p
    BackupSupport,  \* settings.core.backup_support
    MaxMoves,       \* bound on the changes of the values drivers read
    MaxCalls,       \* bound on the API calls
    MaxFailures     \* bound on the rounds, enables and disables that fail

Dep == Port \X {"value", "attr"}        \* "$p" and "$p:"
NoPort == "none"

ASSUME EvalAssumption ==
    /\ IsFiniteSet(Port)
    /\ NoPort \notin Port
    /\ Values \in [Port -> (SUBSET Nat) \ {{}}]
    /\ Exprs \in [Port -> SUBSET SUBSET Dep]
    /\ BackupSupport \in BOOLEAN
    /\ MaxMoves \in Nat /\ MaxCalls \in Nat /\ MaxFailures \in Nat

VARIABLES
    \* the ports
    actual,         \* what the driver would read
    read,           \* _last_read_value
    enabled,        \* _enabled
    attr,           \* number of changes made to the port's other attributes
    expr,           \* _expression
    switching,      \* enable() and disable() calls that wait for the driver (bound: one of each)
    \* the update loop
    pc,             \* where read_ports() is
    toRead,         \* ports still to read
    reading,        \* the port being read, if any
    changed,        \* port_changed_values whose events are still to be triggered
    changes,        \* the dependencies that changed
    toEval,         \* ports_to_eval not evaluated yet
    context,        \* attributes in eval_context, per port (Unset: not taken yet)
    depsMap,        \* _deps_map_cache: the expressions it was built from, or {}
    \* what is scheduled
    forced,         \* _force_eval_expression_ports
    full,           \* _force_eval_all_expressions
    pending,        \* AttrChangeHandler._pending
    known,          \* AttrChangeHandler._last_availability
    notifier,       \* where the port's debounced _after_set_attr() is
    snapshot,       \* the "enabled" parameter of the event triggered
    restoring,      \* put_ports()/patch_ports() has paused the loop and disabled events
    \* history
    seen,           \* seen[p][d]: what p's last evaluation found for d
    lost,           \* ports the code gave up an evaluation of
    moves, calls, failures

portVars == <<actual, read, enabled, attr, expr, switching>>
loopVars == <<pc, toRead, reading, changed, changes, toEval, context, depsMap>>
eventVars == <<pending, known, notifier, snapshot, restoring>>
vars == <<portVars, loopVars, forced, full, eventVars, seen, lost, moves, calls, failures>>

Unset == -1
Unavailable == -2
NoMap == [p \in {} |-> {}]
ValueOf(p) == <<p, "value">>
AttrOf(p) == <<p, "attr">>

-----------------------------------------------------------------------------
\* The server is ready: ports are loaded, and everything is to be evaluated once.
Init ==
    /\ actual = [p \in Port |-> CHOOSE v \in Values[p] : TRUE]
    /\ read = actual
    /\ enabled = [p \in Port |-> TRUE]
    /\ attr = [p \in Port |-> 0]
    /\ expr \in {e \in [Port -> UNION {Exprs[p] : p \in Port} \cup {{}}] :
                    \A p \in Port : e[p] \in Exprs[p] \cup {{}}}
    /\ switching = [p \in Port |-> {}]
    /\ pc = "idle"
    /\ toRead = {} /\ reading = NoPort /\ changed = {} /\ changes = {} /\ toEval = {}
    /\ context = [p \in Port |-> Unset]
    /\ depsMap = NoMap
    /\ forced = {} /\ full = TRUE
    /\ pending = {}
    /\ known = [p \in Port |-> TRUE]
    /\ notifier = [p \in Port |-> "idle"]
    /\ snapshot = [p \in Port |-> FALSE]
    /\ restoring = FALSE
    /\ seen = [p \in Port |-> [d \in Dep |-> Unset]]
    /\ lost = {}
    /\ moves = 0 /\ calls = 0 /\ failures = 0

Dependents(ds) == {t \in Port : expr[t] \cap ds # {}}

\* Debounced.call() for port p: a task is started unless there is one.  That one serves
\* the calls made until it has slept; later ones are cleared with the others when it
\* ends, and the changes they were to announce are forgotten.
Notified(p) == IF notifier[p] = "idle" THEN [notifier EXCEPT ![p] = "waiting"] ELSE notifier
Forgotten(p) == IF notifier[p] = "handled" THEN Dependents({AttrOf(p)}) ELSE {}

-----------------------------------------------------------------------------
\* The value behind a port changes.
Move(p) ==
    /\ moves < MaxMoves
    /\ moves' = moves + 1
    /\ \E v \in Values[p] \ {actual[p]} : actual' = [actual EXCEPT ![p] = v]
    /\ UNCHANGED <<read, enabled, attr, expr, switching, loopVars, forced, full,
                   eventVars, seen, lost, calls, failures>>

ApiCall == calls < MaxCalls /\ calls' = calls + 1

\* set_attr() for an attribute other than the expression and enabled.
SetAttr(p) ==
    /\ ApiCall
    /\ attr' = [attr EXCEPT ![p] = @ + 1]
    /\ notifier' = Notified(p)
    /\ lost' = lost \cup Forgotten(p)
    /\ UNCHANGED <<actual, read, enabled, expr, switching, loopVars, forced, full,
                   pending, known, snapshot, restoring, seen, moves, failures>>

\* Mutant: the dependencies map is not invalidated.
MapAfterKept == depsMap

\* invalidate_deps_map().
MapAfter == NoMap

\* set_attr("expression"): an expression that is set is evaluated in the next round.
SetExpr(p, e) ==
    /\ ApiCall
    /\ e # expr[p]
    /\ expr' = [expr EXCEPT ![p] = e]
    /\ depsMap' = MapAfter
    /\ forced' = IF e = {} THEN forced ELSE forced \cup {p}
    /\ seen' = [seen EXCEPT ![p] = [d \in Dep |-> Unset]]
    /\ notifier' = Notified(p)
    /\ lost' = lost \cup Forgotten(p)
    /\ UNCHANGED <<actual, read, enabled, attr, switching, pc, toRead, reading, changed,
                   changes, toEval, context, full, pending, known, snapshot, restoring,
                   moves, failures>>

\* enable(), up to handle_enable().
Enable(p) ==
    /\ ApiCall
    /\ ~enabled[p]
    /\ "enable" \notin switching[p]
    /\ enabled' = [enabled EXCEPT ![p] = TRUE]
    /\ switching' = [switching EXCEPT ![p] = @ \cup {"enable"}]
    /\ forced' = IF expr[p] = {} THEN forced ELSE forced \cup {p}
    /\ UNCHANGED <<actual, read, attr, expr, loopVars, full, eventVars, seen, lost,
                   moves, failures>>

\* disable(), up to handle_disable().
Disable(p) ==
    /\ ApiCall
    /\ enabled[p]
    /\ "disable" \notin switching[p]
    /\ enabled' = [enabled EXCEPT ![p] = FALSE]
    /\ switching' = [switching EXCEPT ![p] = @ \cup {"disable"}]
    /\ UNCHANGED <<actual, read, attr, expr, loopVars, forced, full, eventVars, seen,
                   lost, moves, failures>>

\* handle_enable() or handle_disable() returns: set_attr() announces the change.
Switched(p, op) ==
    /\ op \in switching[p]
    /\ switching' = [switching EXCEPT ![p] = @ \ {op}]
    /\ notifier' = Notified(p)
    /\ lost' = lost \cup Forgotten(p)
    /\ UNCHANGED <<actual, read, enabled, attr, expr, loopVars, forced, full, pending,
                   known, snapshot, restoring, seen, moves, calls, failures>>

\* It raises: the port is put back, and nobody is told of the time in between, when
\* changes may have passed the port as a disabled one.
SwitchFails(p, op) ==
    /\ op \in switching[p]
    /\ failures < MaxFailures
    /\ failures' = failures + 1
    /\ switching' = [switching EXCEPT ![p] = @ \ {op}]
    /\ enabled' = [enabled EXCEPT ![p] = (op = "disable")]
    /\ lost' = IF op = "disable" THEN lost \cup {p} ELSE lost
    /\ UNCHANGED <<actual, read, attr, expr, loopVars, forced, full, eventVars, seen,
                   moves, calls>>

\* put_ports() and patch_ports() pause the loop and disable events while they work; the
\* full-update event at their end means nothing to AttrChangeHandler.
RestoreBegins ==
    /\ BackupSupport
    /\ ApiCall
    /\ ~restoring
    /\ restoring' = TRUE
    /\ UNCHANGED <<portVars, loopVars, forced, full, pending, known, notifier, snapshot,
                   seen, lost, moves, failures>>
RestoreEnds ==
    /\ restoring
    /\ restoring' = FALSE
    /\ UNCHANGED <<portVars, loopVars, forced, full, pending, known, notifier, snapshot,
                   seen, lost, moves, calls, failures>>

-----------------------------------------------------------------------------
\* The debounced task: trigger_update() takes the event's parameters ...
Trigger(p) ==
    /\ notifier[p] = "waiting"
    /\ ~restoring
    /\ notifier' = [notifier EXCEPT ![p] = "triggered"]
    /\ snapshot' = [snapshot EXCEPT ![p] = enabled[p]]
    /\ UNCHANGED <<portVars, loopVars, forced, full, pending, known, restoring, seen,
                   lost, moves, calls, failures>>

\* ... or returns at once when events are disabled, or raises when an attribute getter
\* does (which Debounced logs): no event.
NotTriggered(p) ==
    /\ notifier[p] = "waiting"
    /\ \/ restoring /\ UNCHANGED failures
       \/ ~restoring /\ failures < MaxFailures /\ failures' = failures + 1
    /\ notifier' = [notifier EXCEPT ![p] = "handled"]
    /\ lost' = lost \cup Dependents({AttrOf(p)})
    /\ UNCHANGED <<portVars, loopVars, forced, full, pending, known, snapshot, restoring,
                   seen, moves, calls>>

\* AttrChangeHandler.handle_event().
Handle(p) ==
    /\ notifier[p] = "triggered"
    /\ notifier' = [notifier EXCEPT ![p] = "handled"]
    /\ pending' = pending \cup {AttrOf(p)}
                          \cup (IF snapshot[p] # known[p] THEN {ValueOf(p)} ELSE {})
    /\ known' = [known EXCEPT ![p] = snapshot[p]]
    /\ snapshot' = [snapshot EXCEPT ![p] = FALSE]
    /\ UNCHANGED <<portVars, loopVars, forced, full, restoring, seen, lost,
                   moves, calls, failures>>

\* The port's handle_<attribute>() methods have returned: the queue of calls is cleared.
NotifierEnds(p) ==
    /\ notifier[p] = "handled"
    /\ notifier' = [notifier EXCEPT ![p] = "idle"]
    /\ UNCHANGED <<portVars, loopVars, forced, full, pending, known, snapshot, restoring,
                   seen, lost, moves, calls, failures>>

-----------------------------------------------------------------------------
\* Mutant: a round for which no attribute change is pending is not made.
RoundStartsForChanges ==
    /\ pc = "idle"
    /\ ~restoring
    /\ pc' = IF pending = {} THEN "idle" ELSE "read"
    /\ toRead' = IF pending = {} THEN {} ELSE Port
    /\ changes' = pending
    /\ pending' = {}
    /\ UNCHANGED <<portVars, reading, changed, toEval, context, depsMap, forced, full,
                   known, notifier, snapshot, restoring, seen, lost, moves, calls, failures>>

\* read_ports(): the attribute changes pending are taken.
RoundStarts ==
    /\ pc = "idle"
    /\ ~restoring
    /\ pc' = "read"
    /\ toRead' = Port
    /\ changes' = pending
    /\ pending' = {}
    /\ UNCHANGED <<portVars, reading, changed, toEval, context, depsMap, forced, full,
                   known, notifier, snapshot, restoring, seen, lost, moves, calls, failures>>

\* The next port is looked at; disabled ports are not read.
ReadStarts(p) ==
    /\ pc = "read"
    /\ reading = NoPort
    /\ p \in toRead
    /\ toRead' = toRead \ {p}
    /\ reading' = IF enabled[p] THEN p ELSE NoPort
    /\ UNCHANGED <<portVars, pc, changed, changes, toEval, context, depsMap, forced, full,
                   eventVars, seen, lost, moves, calls, failures>>

\* read_transformed_value() returns, or raises, or is not called for a while after it
\* raised.
ReadEnds ==
    /\ pc = "read"
    /\ reading # NoPort
    /\ reading' = NoPort
    /\ \/ /\ read' = [read EXCEPT ![reading] = actual[reading]]
          /\ changed' = IF actual[reading] # read[reading] THEN changed \cup {reading} ELSE changed
       \/ UNCHANGED <<read, changed>>
    /\ UNCHANGED <<actual, enabled, attr, expr, switching, pc, toRead, changes, toEval,
                   context, depsMap, forced, full, eventVars, seen, lost, moves, calls,
                   failures>>

ReadingDone == pc = "read" /\ toRead = {} /\ reading = NoPort

\* A port's value-change event is triggered.
ValueChange(p) ==
    /\ ReadingDone
    /\ p \in changed
    /\ changed' = changed \ {p}
    /\ changes' = changes \cup {ValueOf(p)}
    /\ UNCHANGED <<portVars, pc, toRead, reading, toEval, context, depsMap, forced, full,
                   eventVars, seen, lost, moves, calls, failures>>

\* The map of the dependencies, built if it was invalidated.
DepsMap == IF depsMap = NoMap THEN expr ELSE depsMap

\* Mutant: what came in during the round is cleared with what the round has taken.
SelectClears ==
    /\ ReadingDone
    /\ changed = {}
    /\ pc' = "eval"
    /\ toEval' = IF full THEN Port
                 ELSE forced \cup {t \in Port : DepsMap[t] \cap changes # {}}
    /\ depsMap' = IF full THEN depsMap ELSE DepsMap
    /\ forced' = {}
    /\ full' = FALSE
    /\ changes' = {}
    /\ context' = [p \in Port |-> Unset]
    /\ pending' = {}
    /\ UNCHANGED <<portVars, toRead, reading, changed, known, notifier, snapshot,
                   restoring, seen, lost, moves, calls, failures>>

\* _eval_changed_expressions(): which ports are to be evaluated.
Select ==
    /\ ReadingDone
    /\ changed = {}
    /\ pc' = "eval"
    /\ toEval' = IF full THEN Port
                 ELSE forced \cup {t \in Port : DepsMap[t] \cap changes # {}}
    /\ depsMap' = IF full THEN depsMap ELSE DepsMap
    /\ forced' = {}
    /\ full' = FALSE
    /\ changes' = {}
    /\ context' = [p \in Port |-> Unset]
    /\ UNCHANGED <<portVars, toRead, reading, changed, eventVars, seen, lost, moves,
                   calls, failures>>

\* The next of them is looked at.
EvalStarts(t) ==
    /\ pc = "eval"
    /\ reading = NoPort
    /\ t \in toEval
    /\ toEval' = toEval \ {t}
    /\ reading' = IF enabled[t] /\ expr[t] # {} THEN t ELSE NoPort
    /\ UNCHANGED <<portVars, pc, toRead, changed, changes, context, depsMap, forced, full,
                   eventVars, seen, lost, moves, calls, failures>>

\* build_context(), for the first port evaluated: the attributes of one port are taken.
Gather(p) ==
    /\ pc = "eval"
    /\ reading # NoPort
    /\ context[p] = Unset
    /\ context' = [context EXCEPT ![p] = attr[p]]
    /\ UNCHANGED <<portVars, pc, toRead, reading, changed, changes, toEval, depsMap,
                   forced, full, eventVars, seen, lost, moves, calls, failures>>

ContextBuilt == \A p \in Port : context[p] # Unset

\* What the evaluation of t finds: values of enabled ports, attributes from the context.
Found(t) ==
    [d \in Dep |-> CASE d \notin expr[t] -> Unset
                     [] d \in expr[t] /\ d[2] = "attr" -> context[d[1]]
                     [] d \in expr[t] /\ d[2] = "value" ->
                            IF enabled[d[1]] THEN read[d[1]] ELSE Unavailable]

\* eval_and_push_write(), with the expression the port has by now.
Eval ==
    /\ pc = "eval"
    /\ reading # NoPort
    /\ ContextBuilt
    /\ seen' = [seen EXCEPT ![reading] = Found(reading)]
    /\ lost' = IF context = attr THEN lost \ {reading} ELSE lost
    /\ reading' = NoPort
    /\ UNCHANGED <<portVars, pc, toRead, changed, changes, toEval, context, depsMap,
                   forced, full, eventVars, moves, calls, failures>>

\* sessions.update() is what is left of the round.
RoundEnds ==
    /\ pc = "eval"
    /\ reading = NoPort
    /\ toEval = {}
    /\ pc' = "idle"
    /\ context' = [p \in Port |-> Unset]
    /\ UNCHANGED <<portVars, toRead, reading, changed, changes, toEval, depsMap,
                   forced, full, eventVars, seen, lost, moves, calls, failures>>

\* The round raises: update_loop() logs it and goes on with the next, and the
\* evaluations of ts are given up.
Aborts(ts) ==
    /\ failures < MaxFailures
    /\ failures' = failures + 1
    /\ pc' = "idle"
    /\ reading' = NoPort
    /\ changed' = {} /\ changes' = {} /\ toEval' = {}
    /\ context' = [p \in Port |-> Unset]
    /\ lost' = lost \cup ts
    /\ UNCHANGED <<portVars, toRead, depsMap, forced, full, eventVars, seen,
                   moves, calls>>

\* is_internal() or the parameters of a value-change event raise.
ValueChangeFails ==
    /\ ReadingDone
    /\ changed # {}
    /\ Aborts(Dependents(changes \cup {ValueOf(p) : p \in changed}))

\* An attribute getter raises, or an attribute is set or a port added or removed while
\* it is suspended: get_attrs() and build_context() do not survive that.
ContextFails ==
    /\ pc = "eval"
    /\ reading # NoPort
    /\ ~ContextBuilt
    /\ Aborts(toEval \cup {reading})

-----------------------------------------------------------------------------
RoundStep ==
    \/ RoundStarts
    \/ \E p \in Port : ReadStarts(p)
    \/ ReadEnds
    \/ \E p \in Port : ValueChange(p)
    \/ Select
    \/ \E p \in Port : EvalStarts(p)
    \/ \E p \in Port : Gather(p)
    \/ Eval
    \/ RoundEnds

NotifierStep(p) ==
    \/ Trigger(p)
    \/ NotTriggered(p)
    \/ Handle(p)
    \/ NotifierEnds(p)

Next ==
    \/ RoundStep
    \/ ValueChangeFails
    \/ ContextFails
    \/ \E p \in Port :
        \/ NotifierStep(p)
        \/ Move(p)
        \/ SetAttr(p)
        \/ \E e \in Exprs[p] \cup {{}} : SetExpr(p, e)
        \/ Enable(p)
        \/ Disable(p)
        \/ \E op \in {"enable", "disable"} : Switched(p, op) \/ SwitchFails(p, op)
    \/ RestoreBegins
    \/ RestoreEnds

Spec == Init /\ [][Next]_vars

\* The loop and the debounced tasks go on, drivers answer and a restore ends.
FairSpec ==
    /\ Spec
    /\ WF_vars(RoundStep)
    /\ WF_vars(RestoreEnds)
    /\ \A p \in Port :
        /\ WF_vars(NotifierStep(p))
        /\ \A op \in {"enable", "disable"} : WF_vars(Switched(p, op))

-----------------------------------------------------------------------------
\* Every variable holds values the code gives it; what belongs to one phase of a round
\* is empty in the others.
TypeOK ==
    /\ actual \in [Port -> Nat] /\ \A p \in Port : actual[p] \in Values[p]
    /\ read \in [Port -> Nat] /\ \A p \in Port : read[p] \in Values[p]
    /\ enabled \in [Port -> BOOLEAN]
    /\ attr \in [Port -> Nat]
    /\ expr \in [Port -> SUBSET Dep]
    /\ switching \in [Port -> SUBSET {"enable", "disable"}]
    /\ pc \in {"idle", "read", "eval"}
    /\ toRead \subseteq Port
    /\ reading \in Port \cup {NoPort}
    /\ changed \subseteq Port
    /\ changes \subseteq Dep
    /\ toEval \subseteq Port
    /\ context \in [Port -> Nat \cup {Unset}]
    /\ depsMap = NoMap \/ depsMap \in [Port -> SUBSET Dep]
    /\ forced \subseteq Port
    /\ full \in BOOLEAN
    /\ pending \subseteq Dep
    /\ known \in [Port -> BOOLEAN]
    /\ notifier \in [Port -> {"idle", "waiting", "triggered", "handled"}]
    /\ snapshot \in [Port -> BOOLEAN]
    /\ restoring \in BOOLEAN
    /\ seen \in [Port -> [Dep -> Nat \cup {Unset, Unavailable}]]
    /\ lost \subseteq Port
    /\ moves \in Nat /\ calls \in Nat /\ failures \in Nat
    /\ pc # "read" => toRead = {} /\ changed = {} /\ changes = {}
    /\ pc # "eval" => toEval = {}
    /\ pc = "idle" => reading = NoPort

\* The last evaluation of t found another value for d, or there was none.
Behind(t, d) ==
    IF d[2] = "value" THEN seen[t][d] \notin {Unavailable, read[d[1]]}
                      ELSE seen[t][d] # attr[d[1]]

\* t is behind in d, and no failure is to blame.
Outdated(t, d) == enabled[t] /\ t \notin lost /\ d \in expr[t] /\ Behind(t, d)

\* The loop is going to evaluate t, in this round or, for sure, in the next.
InRound(t) == pc = "eval" /\ (t \in toEval \/ t = reading)
Forced(t) == full \/ t \in forced

\* What stands for the evaluation of t that a new value or attribute of p calls for.
ValueCovered(t, p) ==
    \/ Forced(t)
    \/ InRound(t)
    \/ p \in changed
    \/ ValueOf(p) \in changes \cup pending
Announced(t, p) ==
    \/ Forced(t)
    \/ notifier[p] \in {"waiting", "triggered"}
    \/ AttrOf(p) \in pending
AttrCovered(t, p) ==
    \/ Announced(t, p)
    \/ InRound(t) /\ context[p] \in {Unset, attr[p]}
    \/ AttrOf(p) \in changes

\* A value that was read and differs from what an expression last found for it leads to
\* an evaluation of the expression, whatever is set, enabled or read meanwhile: the map
\* of dependencies, the changes of the round and the forced evaluations leave no gap.
ValueChangesReach ==
    \A t, p \in Port : Outdated(t, ValueOf(p)) => ValueCovered(t, p)

\* So does an attribute that changed, though its event takes another way: until it has
\* been handled the task is under way, then the change is pending or taken by a round
\* whose context is still to be built or has the new attribute.
AttrChangesReach ==
    \A t, p \in Port : Outdated(t, AttrOf(p)) => AttrCovered(t, p)

\* What makes the two inductive.  The map of dependencies, while there is one, is that
\* of the expressions set; an attribute that changed after a round took it for its
\* context is announced again, or its dependents are evaluated again.
MapInv == depsMap = NoMap \/ depsMap = expr
ContextInv ==
    \A t, p \in Port :
        /\ pc = "eval"
        /\ context[p] \notin {Unset, attr[p]}
        /\ enabled[t] /\ t \notin lost
        /\ AttrOf(p) \in expr[t]
        => Announced(t, p)

\* In the end every expression is evaluated with the present values and attributes,
\* unless a failure made the code give it up.
ExpressionsCatchUp ==
    \A t \in Port : <>[](\A d \in Dep : ~Outdated(t, d))

\* A port whose expression has found a value of p "should be evaluated once nid1's
\* `enabled` transitions to `false`, so that it picks up the port becoming unavailable"
\* (tests/unit/qtoggleserver/core/test_main.py:849-850).  Not so when the disable() ends
\* while the debounced task of another attribute still runs: its call is cleared.  Nor
\* when the transition is undone before its event, when an enable() that had made p
\* available fails, or during a restore.
AvailabilityReaches ==
    \A t, p \in Port :
        /\ enabled[t] /\ t \notin lost
        /\ ValueOf(p) \in expr[t]
        /\ seen[t][ValueOf(p)] \in Values[p]
        /\ ~enabled[p]
        => \/ Forced(t)
           \/ InRound(t)
           \/ switching[p] # {}
           \/ notifier[p] \in {"waiting", "triggered"}
           \/ ValueOf(p) \in changes \cup pending
=============================================================================
