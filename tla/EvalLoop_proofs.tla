--------------------------- MODULE EvalLoop_proofs ---------------------------
(***************************************************************************)
(* Theorems about EvalLoop, for any ports, values and expressions.         *)
(***************************************************************************)
EXTENDS EvalLoop, TLAPS

USE DEF NoPort, Unset, Unavailable

\* The steps, with the quantifiers over ports brought together.
LEMMA NextCases ==
    ASSUME [Next]_vars
    PROVE  \/ UNCHANGED vars
           \/ RoundStarts \/ ReadEnds \/ Select \/ Eval \/ RoundEnds
           \/ ValueChangeFails \/ ContextFails \/ RestoreBegins \/ RestoreEnds
           \/ \E p \in Port :
                \/ ReadStarts(p) \/ ValueChange(p) \/ EvalStarts(p) \/ Gather(p)
                \/ Trigger(p) \/ NotTriggered(p) \/ Handle(p) \/ NotifierEnds(p)
                \/ Move(p) \/ SetAttr(p) \/ Enable(p) \/ Disable(p)
                \/ \E e \in Exprs[p] \cup {{}} : SetExpr(p, e)
                \/ \E op \in {"enable", "disable"} : Switched(p, op) \/ SwitchFails(p, op)
  BY Zenon DEF Next, RoundStep, NotifierStep

\* The server starts well typed (Init).
LEMMA TypeInit == Init => TypeOK
  <1> SUFFICES ASSUME Init PROVE TypeOK
    OBVIOUS
  <1>1. \A p \in Port : (CHOOSE v \in Values[p] : TRUE) \in Values[p]
    <2> TAKE p \in Port
    <2>1. Values[p] # {}
      BY EvalAssumption
    <2> QED
      BY <2>1
  <1>2. \A p \in Port : Values[p] \subseteq Nat
    BY EvalAssumption
  <1>3. /\ actual \in [Port -> Nat] /\ \A p \in Port : actual[p] \in Values[p]
        /\ read = actual
    BY <1>1, <1>2 DEF Init
  <1>4. expr \in [Port -> SUBSET Dep]
    <2>1. \A p \in Port : Exprs[p] \subseteq SUBSET Dep
      BY EvalAssumption
    <2>2. \A p \in Port : expr[p] \in Exprs[p] \cup {{}}
      BY DEF Init
    <2>3. expr = [p \in Port |-> expr[p]]
      BY DEF Init
    <2> QED
      BY <2>1, <2>2, <2>3
  <1> QED
    BY <1>3, <1>4 DEF Init, TypeOK

\* What the actions of a round leave of the types.
LEMMA TypeRound ==
    ASSUME TypeOK,
           \/ RoundStarts \/ ReadEnds \/ Select \/ Eval \/ RoundEnds
           \/ ValueChangeFails \/ ContextFails \/ RestoreBegins \/ RestoreEnds
    PROVE  TypeOK'
  <1> USE EvalAssumption DEF TypeOK, vars, portVars, loopVars, eventVars
  <1>1. CASE RoundStarts
    BY <1>1 DEF RoundStarts
  <1>2. CASE ReadEnds
    BY <1>2 DEF ReadEnds
  <1>3. CASE Select
    BY <1>3 DEF Select, ReadingDone, DepsMap
  <1>4. CASE Eval
    BY <1>4 DEF Eval, Found, ContextBuilt, Dep
  <1>5. CASE RoundEnds
    BY <1>5 DEF RoundEnds
  <1>6. CASE ValueChangeFails
    <2>1. Dependents(changes \cup {ValueOf(p) : p \in changed}) \subseteq Port
      BY Zenon DEF Dependents
    <2>2. \A ts \in SUBSET Port : toRead = {} /\ Aborts(ts) => TypeOK'
      BY DEF Aborts
    <2> QED
      BY <1>6, <2>1, <2>2, Zenon DEF ValueChangeFails, ReadingDone
  <1>7. CASE ContextFails
    BY <1>7 DEF ContextFails, Aborts
  <1>8. CASE RestoreBegins
    BY <1>8 DEF RestoreBegins, ApiCall
  <1>9. CASE RestoreEnds
    BY <1>9 DEF RestoreEnds
  <1> QED
    BY <1>1, <1>2, <1>3, <1>4, <1>5, <1>6, <1>7, <1>8, <1>9

\* What the actions of a port leave of them.
LEMMA TypePort ==
    ASSUME TypeOK, NEW p \in Port,
           \/ ReadStarts(p) \/ ValueChange(p) \/ EvalStarts(p) \/ Gather(p)
           \/ Trigger(p) \/ NotTriggered(p) \/ Handle(p) \/ NotifierEnds(p)
           \/ Move(p) \/ SetAttr(p) \/ Enable(p) \/ Disable(p)
           \/ \E e \in Exprs[p] \cup {{}} : SetExpr(p, e)
           \/ \E op \in {"enable", "disable"} : Switched(p, op) \/ SwitchFails(p, op)
    PROVE  TypeOK'
  <1> USE EvalAssumption DEF TypeOK, vars, portVars, loopVars, eventVars, ValueOf, AttrOf,
                             Notified, Forgotten, Dependents, ApiCall
  <1>1. CASE ReadStarts(p)
    BY <1>1 DEF ReadStarts
  <1>2. CASE ValueChange(p)
    <2>1. ValueOf(p) \in Dep
      BY DEF Dep
    <2> QED
      BY <1>2, <2>1 DEF ValueChange, ReadingDone
  <1>3. CASE EvalStarts(p)
    BY <1>3 DEF EvalStarts
  <1>4. CASE Gather(p)
    BY <1>4 DEF Gather
  <1>5. CASE Trigger(p)
    BY <1>5 DEF Trigger
  <1>6. CASE NotTriggered(p)
    BY <1>6 DEF NotTriggered
  <1>7. CASE Handle(p)
    BY <1>7 DEF Handle, Dep
  <1>8. CASE NotifierEnds(p)
    BY <1>8 DEF NotifierEnds
  <1>9. CASE Move(p)
    BY <1>9 DEF Move
  <1>10. CASE SetAttr(p)
    BY <1>10 DEF SetAttr
  <1>11. CASE Enable(p)
    BY <1>11 DEF Enable
  <1>12. CASE Disable(p)
    BY <1>12 DEF Disable
  <1>13. CASE \E e \in Exprs[p] \cup {{}} : SetExpr(p, e)
    BY <1>13 DEF SetExpr, MapAfter
  <1>14. CASE \E op \in {"enable", "disable"} : Switched(p, op) \/ SwitchFails(p, op)
    <2> PICK op \in {"enable", "disable"} : Switched(p, op) \/ SwitchFails(p, op)
      BY <1>14
    <2>1. CASE Switched(p, op)
      BY <2>1 DEF Switched
    <2>2. CASE SwitchFails(p, op)
      BY <2>2 DEF SwitchFails
    <2> QED
      BY <2>1, <2>2
  <1> QED
    BY <1>1, <1>2, <1>3, <1>4, <1>5, <1>6, <1>7, <1>8, <1>9, <1>10, <1>11, <1>12,
       <1>13, <1>14

\* Every step keeps the types: a step of a round or one of a port.
LEMMA TypeStep == TypeOK /\ [Next]_vars => TypeOK'
  <1> SUFFICES ASSUME TypeOK, [Next]_vars PROVE TypeOK'
    OBVIOUS
  <1>1. CASE UNCHANGED vars
    BY <1>1 DEF TypeOK, vars, portVars, loopVars, eventVars
  <1> QED
    BY <1>1, NextCases, TypeRound, TypePort, Zenon

\* Every variable of the update loop and of what schedules expressions keeps its type,
\* and what belongs to one phase of a round is empty in the others.
THEOREM TypeCorrect == Spec => []TypeOK
  BY TypeInit, TypeStep, PTL DEF Spec

-----------------------------------------------------------------------------
\* The inductive invariant: what schedules an expression that is behind.
Scheduled == TypeOK /\ MapInv /\ ValueChangesReach

\* The map is dropped whenever an expression is set, and built from those set.
LEMMA MapStep == TypeOK /\ MapInv /\ [Next]_vars => MapInv'
  <1> SUFFICES ASSUME TypeOK, MapInv, [Next]_vars PROVE MapInv'
    OBVIOUS
  <1> USE DEF MapInv, vars, portVars, loopVars, eventVars
  <1>1. CASE Select
    BY <1>1 DEF Select, DepsMap
  <1>2. CASE \E p \in Port : \E e \in Exprs[p] \cup {{}} : SetExpr(p, e)
    BY <1>2 DEF SetExpr, MapAfter
  <1>3. CASE UNCHANGED <<expr, depsMap>>
    BY <1>3
  <1> QED
    BY <1>1, <1>2, <1>3, NextCases DEF RoundStarts, ReadEnds, Eval, RoundEnds,
       ValueChangeFails, ContextFails, Aborts, RestoreBegins, RestoreEnds, ReadStarts,
       ValueChange, EvalStarts, Gather, Trigger, NotTriggered, Handle, NotifierEnds, Move,
       SetAttr, Enable, Disable, Switched, SwitchFails

\* What it is to be behind in a value, before and after a step.
LEMMA OutdatedValue ==
    ASSUME NEW t, NEW q
    PROVE  /\ Outdated(t, ValueOf(q)) <=>
                /\ enabled[t] /\ t \notin lost /\ ValueOf(q) \in expr[t]
                /\ seen[t][ValueOf(q)] # Unavailable
                /\ seen[t][ValueOf(q)] # read[q]
           /\ Outdated(t, ValueOf(q))' <=>
                /\ enabled'[t] /\ t \notin lost' /\ ValueOf(q) \in expr'[t]
                /\ seen'[t][ValueOf(q)] # Unavailable
                /\ seen'[t][ValueOf(q)] # read'[q]
  BY DEF Outdated, Behind, ValueOf

\* Every step keeps a port that is behind in a value covered: one case for each action.
LEMMA ValueStep == Scheduled /\ [Next]_vars => ValueChangesReach'
  <1> SUFFICES ASSUME Scheduled, [Next]_vars,
                      NEW t \in Port, NEW q \in Port, Outdated(t, ValueOf(q))'
               PROVE  ValueCovered(t, q)'
    BY DEF ValueChangesReach
  <1>1. Outdated(t, ValueOf(q)) => ValueCovered(t, q)
    BY DEF Scheduled, ValueChangesReach
  <1>2. TypeOK /\ MapInv
    BY DEF Scheduled
  <1> USE DEF ValueCovered, Forced, InRound, vars, portVars, loopVars, eventVars
  \* Steps that neither make t outdated nor touch what covers it.
  <1>3. CASE /\ UNCHANGED <<read, expr, seen, pc, reading, changed, changes, toEval, full>>
             /\ enabled'[t] => enabled[t] \/ t \in forced' \/ expr[t] = {} \/ t \in lost'
             /\ t \notin lost' => t \notin lost
             /\ forced \subseteq forced'
             /\ pending \subseteq pending'
    <2>1. Outdated(t, ValueOf(q)) \/ t \in forced'
      BY <1>3, OutdatedValue
    <2> QED
      BY <2>1, <1>1, <1>3
  <1>4. ASSUME NEW p \in Port,
               \/ Trigger(p) \/ NotTriggered(p) \/ Handle(p) \/ NotifierEnds(p)
               \/ Move(p) \/ SetAttr(p) \/ Enable(p) \/ Disable(p) \/ Gather(p)
               \/ \E op \in {"enable", "disable"} : Switched(p, op) \/ SwitchFails(p, op)
        PROVE  ValueCovered(t, q)'
    <2>1. CASE Trigger(p) \/ NotTriggered(p) \/ Handle(p) \/ NotifierEnds(p)
      BY <2>1, <1>3 DEF Trigger, NotTriggered, Handle, NotifierEnds
    <2>2. CASE Move(p) \/ SetAttr(p) \/ Gather(p)
      BY <2>2, <1>3 DEF Move, SetAttr, Gather
    <2>3. CASE Enable(p) \/ Disable(p)
      BY <2>3, <1>2, <1>3 DEF Enable, Disable, TypeOK
    <2>4. CASE \E op \in {"enable", "disable"} : Switched(p, op) \/ SwitchFails(p, op)
      <3> PICK op \in {"enable", "disable"} : Switched(p, op) \/ SwitchFails(p, op)
        BY <2>4
      <3> QED
        BY <1>2, <1>3 DEF Switched, SwitchFails, TypeOK
    <2> QED
      BY <1>4, <2>1, <2>2, <2>3, <2>4
  <1>5. ASSUME NEW p \in Port, NEW e, SetExpr(p, e)
        PROVE  ValueCovered(t, q)'
    <2>1. CASE p = t
      BY <1>5, <1>2, <2>1, OutdatedValue DEF SetExpr, TypeOK
    <2>2. CASE p # t
      <3>1. Outdated(t, ValueOf(q))
        BY <1>5, <1>2, <2>2, OutdatedValue DEF SetExpr, TypeOK
      <3> QED
        BY <3>1, <1>1, <1>5 DEF SetExpr
    <2> QED
      BY <2>1, <2>2
  <1>6. CASE RestoreBegins \/ RestoreEnds
    BY <1>6, <1>3 DEF RestoreBegins, RestoreEnds
  <1>7. CASE RoundStarts
    BY <1>7, <1>1, <1>2, OutdatedValue DEF RoundStarts, TypeOK
  <1>8. ASSUME NEW p \in Port, ReadStarts(p) \/ ValueChange(p)
        PROVE  ValueCovered(t, q)'
    BY <1>8, <1>1, OutdatedValue DEF ReadStarts, ValueChange, ReadingDone
  <1>9. CASE ReadEnds
    BY <1>9, <1>1, <1>2, OutdatedValue DEF ReadEnds, TypeOK
  <1>10. CASE Select
    <2>1. Outdated(t, ValueOf(q)) /\ ValueOf(q) \in expr[t]
      BY <1>10, OutdatedValue DEF Select
    <2>2. DepsMap = expr
      BY <1>2 DEF MapInv, DepsMap
    <2>3. pc = "read" /\ changed = {}
      BY <1>10 DEF Select, ReadingDone
    <2> QED
      BY <1>10, <1>1, <2>1, <2>2, <2>3 DEF Select
  <1>11. ASSUME NEW p \in Port, EvalStarts(p)
         PROVE  ValueCovered(t, q)'
    <2>1. Outdated(t, ValueOf(q)) /\ enabled[t] /\ expr[t] # {}
      BY <1>11, OutdatedValue DEF EvalStarts
    <2>2. t # reading
      BY <1>11, EvalAssumption DEF EvalStarts
    <2> QED
      BY <1>11, <1>1, <2>1, <2>2 DEF EvalStarts
  <1>12. CASE Eval
    <2>1. CASE t = reading
      <3>1. seen'[t] = Found(t)
        BY <1>12, <1>2, <2>1 DEF Eval, TypeOK
      <3>2. ValueOf(q) \in Dep /\ ValueOf(q)[1] = q /\ ValueOf(q)[2] = "value"
        BY DEF ValueOf, Dep
      <3>3. ValueOf(q) \in expr[t] => Found(t)[ValueOf(q)] \in {Unavailable, read[q]}
        BY <3>2 DEF Found
      <3>4. ~Outdated(t, ValueOf(q))'
        BY <3>1, <3>3, <1>12, OutdatedValue DEF Eval
      <3> QED
        BY <3>4
    <2>2. CASE t # reading
      <3>1. Outdated(t, ValueOf(q))
        BY <1>12, <1>2, <2>2, OutdatedValue DEF Eval, TypeOK
      <3> QED
        BY <3>1, <1>1, <2>2, <1>12, EvalAssumption DEF Eval
    <2> QED
      BY <2>1, <2>2
  <1>13. CASE RoundEnds
    BY <1>13, <1>1, OutdatedValue, EvalAssumption DEF RoundEnds
  <1>14. CASE ValueChangeFails
    <2>1. Outdated(t, ValueOf(q)) /\ ValueOf(q) \in expr[t]
      BY <1>14, OutdatedValue DEF ValueChangeFails, Aborts
    <2>2. t \notin Dependents(changes \cup {ValueOf(x) : x \in changed})
      BY <1>14, OutdatedValue DEF ValueChangeFails, Aborts
    <2>3. q \notin changed /\ ValueOf(q) \notin changes
      BY <2>1, <2>2 DEF Dependents
    <2> QED
      BY <1>14, <1>1, <2>1, <2>3 DEF ValueChangeFails, Aborts, ReadingDone
  <1>15. CASE ContextFails
    BY <1>15, <1>1, <1>2, OutdatedValue DEF ContextFails, Aborts, TypeOK
  <1>16. CASE UNCHANGED vars
    BY <1>16, <1>3
  <1> HIDE DEF ValueCovered
  <1> QED
    BY <1>4, <1>5, <1>6, <1>7, <1>8, <1>9, <1>10, <1>11, <1>12, <1>13, <1>14, <1>15,
       <1>16, NextCases, Zenon

\* A value read that differs from what an expression last found leads to an evaluation
\* of the expression, for any ports and expressions, however API calls, debounced tasks
\* and failures interleave with the rounds.
THEOREM ValuesReach == Spec => []ValueChangesReach
  <1>1. Init => Scheduled
    BY TypeInit DEF Init, Scheduled, MapInv, ValueChangesReach, ValueCovered, Forced
  <1>2. Scheduled /\ [Next]_vars => Scheduled'
    BY TypeStep, MapStep, ValueStep DEF Scheduled
  <1>3. Scheduled => ValueChangesReach
    BY DEF Scheduled
  <1> QED
    BY <1>1, <1>2, <1>3, PTL DEF Spec

-----------------------------------------------------------------------------
\* The same for attributes, whose announcement goes through the debounced tasks.
AttrInv == Scheduled /\ ContextInv /\ AttrChangesReach

\* What it is to be behind in an attribute, before and after a step.
LEMMA OutdatedAttr ==
    ASSUME NEW t, NEW q
    PROVE  /\ Outdated(t, AttrOf(q)) <=>
                /\ enabled[t] /\ t \notin lost /\ AttrOf(q) \in expr[t]
                /\ seen[t][AttrOf(q)] # attr[q]
           /\ Outdated(t, AttrOf(q))' <=>
                /\ enabled'[t] /\ t \notin lost' /\ AttrOf(q) \in expr'[t]
                /\ seen'[t][AttrOf(q)] # attr'[q]
  BY DEF Outdated, Behind, AttrOf

\* An announcement stands until a round takes it.
LEMMA AnnouncedStep ==
    ASSUME TypeOK, [Next]_vars, NEW t \in Port, NEW q \in Port,
           Announced(t, q), t \notin lost', AttrOf(q) \in expr'[t]
    PROVE  Announced(t, q)' \/ RoundStarts \/ Select
  <1> USE DEF Announced, Forced, vars, portVars, loopVars, eventVars
  <1>1. CASE /\ UNCHANGED <<full, notifier>>
             /\ forced \subseteq forced' /\ pending \subseteq pending'
    BY <1>1
  <1>2. ASSUME NEW p \in Port,
               \/ Trigger(p) \/ NotTriggered(p) \/ Handle(p) \/ NotifierEnds(p)
        PROVE  Announced(t, q)'
    <2>1. CASE Trigger(p)
      BY <2>1 DEF Trigger, TypeOK
    <2>2. CASE NotTriggered(p)
      <3>1. p = q => t \in lost'
        BY <2>2 DEF NotTriggered, Dependents
      <3> QED
        BY <2>2, <3>1 DEF NotTriggered, TypeOK
    <2>3. CASE Handle(p)
      BY <2>3 DEF Handle, TypeOK
    <2>4. CASE NotifierEnds(p)
      BY <2>4 DEF NotifierEnds, TypeOK
    <2> QED
      BY <1>2, <2>1, <2>2, <2>3, <2>4
  <1>3. ASSUME NEW p \in Port,
               /\ notifier' = Notified(p) /\ UNCHANGED <<full, pending>>
               /\ forced \subseteq forced'
        PROVE  Announced(t, q)'
    BY <1>3 DEF Notified, TypeOK
  <1>4. ASSUME NEW p \in Port,
               \/ SetAttr(p) \/ \E e \in Exprs[p] \cup {{}} : SetExpr(p, e)
               \/ \E op \in {"enable", "disable"} : Switched(p, op) \/ SwitchFails(p, op)
        PROVE  Announced(t, q)'
    <2>1. CASE SetAttr(p)
      BY <2>1, <1>3 DEF SetAttr
    <2>2. CASE \E e \in Exprs[p] \cup {{}} : SetExpr(p, e)
      BY <2>2, <1>3 DEF SetExpr
    <2>3. CASE \E op \in {"enable", "disable"} : Switched(p, op) \/ SwitchFails(p, op)
      BY <2>3, <1>1, <1>3 DEF Switched, SwitchFails
    <2> QED
      BY <1>4, <2>1, <2>2, <2>3
  <1>5. CASE UNCHANGED vars
    BY <1>5, <1>1
  <1>6. ASSUME NEW p \in Port,
               \/ ReadStarts(p) \/ ValueChange(p) \/ EvalStarts(p) \/ Gather(p)
               \/ Move(p) \/ Enable(p) \/ Disable(p)
        PROVE  Announced(t, q)'
    BY <1>6, <1>1 DEF ReadStarts, ValueChange, EvalStarts, Gather, Move, Enable, Disable
  <1>7. CASE ReadEnds \/ Eval \/ RoundEnds \/ ValueChangeFails \/ ContextFails
             \/ RestoreBegins \/ RestoreEnds
    BY <1>7, <1>1 DEF ReadEnds, Eval, RoundEnds, ValueChangeFails, ContextFails, Aborts,
                      RestoreBegins, RestoreEnds
  <1> HIDE DEF Announced
  <1> QED
    BY <1>2, <1>4, <1>5, <1>6, <1>7, NextCases, Zenon

\* A call that changes an attribute is announced, or its dependents are given up.
LEMMA SetAttrAnnounces ==
    ASSUME TypeOK, NEW p \in Port, SetAttr(p), NEW t \in Port,
           t \notin lost', AttrOf(p) \in expr[t]
    PROVE  Announced(t, p)'
  <1>1. notifier[p] # "handled"
    BY DEF SetAttr, Forgotten, Dependents
  <1> QED
    BY <1>1 DEF SetAttr, Notified, Announced, TypeOK

\* A port that a step enables, or gives an expression, is evaluated or given up.
LEMMA EnabledStep ==
    ASSUME TypeOK, [Next]_vars, NEW t \in Port, NEW d \in Dep,
           enabled'[t], t \notin lost', d \in expr'[t]
    PROVE  (enabled[t] /\ d \in expr[t]) \/ Forced(t)'
  <1> USE DEF Forced, vars, portVars, loopVars, eventVars
  <1>1. CASE UNCHANGED <<enabled, expr>>
    BY <1>1
  <1>2. ASSUME NEW p \in Port, NEW e, SetExpr(p, e)
        PROVE  (enabled[t] /\ d \in expr[t]) \/ Forced(t)'
    BY <1>2 DEF SetExpr, TypeOK
  <1>3. ASSUME NEW p \in Port, Enable(p) \/ Disable(p)
        PROVE  (enabled[t] /\ d \in expr[t]) \/ Forced(t)'
    BY <1>3 DEF Enable, Disable, TypeOK
  <1>4. ASSUME NEW p \in Port, NEW op \in {"enable", "disable"}, SwitchFails(p, op)
        PROVE  (enabled[t] /\ d \in expr[t]) \/ Forced(t)'
    BY <1>4 DEF SwitchFails, TypeOK
  <1>5. ASSUME NEW p \in Port,
               \/ ReadStarts(p) \/ ValueChange(p) \/ EvalStarts(p) \/ Gather(p)
               \/ Trigger(p) \/ NotTriggered(p) \/ Handle(p) \/ NotifierEnds(p)
               \/ Move(p) \/ SetAttr(p)
               \/ \E op \in {"enable", "disable"} : Switched(p, op)
        PROVE  UNCHANGED <<enabled, expr>>
    BY <1>5 DEF ReadStarts, ValueChange, EvalStarts, Gather, Trigger, NotTriggered,
                Handle, NotifierEnds, Move, SetAttr, Switched
  <1>6. CASE \/ RoundStarts \/ ReadEnds \/ Select \/ Eval \/ RoundEnds
             \/ ValueChangeFails \/ ContextFails \/ RestoreBegins \/ RestoreEnds
             \/ UNCHANGED vars
    BY <1>6, <1>1 DEF RoundStarts, ReadEnds, Select, Eval, RoundEnds, ValueChangeFails,
                      ContextFails, Aborts, RestoreBegins, RestoreEnds
  <1> HIDE DEF Forced
  <1> QED
    BY <1>1, <1>2, <1>3, <1>4, <1>5, <1>6, NextCases, Zenon

\* Every step keeps what stands for attributes that changed after they were gathered.
LEMMA ContextStep == AttrInv /\ [Next]_vars => ContextInv'
  <1> SUFFICES ASSUME AttrInv, [Next]_vars, NEW t \in Port, NEW q \in Port,
                      pc' = "eval", context'[q] # Unset, context'[q] # attr'[q],
                      enabled'[t], t \notin lost', AttrOf(q) \in expr'[t]
               PROVE  Announced(t, q)'
    BY DEF ContextInv
  <1>1. TypeOK
    BY DEF AttrInv, Scheduled
  <1>2. AttrOf(q) \in Dep
    BY DEF AttrOf, Dep
  <1>3. (enabled[t] /\ AttrOf(q) \in expr[t]) \/ Announced(t, q)'
    BY <1>1, <1>2, EnabledStep DEF Announced
  <1>4. ~RoundStarts /\ ~Select
    BY <1>1 DEF RoundStarts, Select, TypeOK
  <1>5. Announced(t, q) => Announced(t, q)'
    BY <1>1, <1>4, AnnouncedStep
  <1> USE DEF vars, portVars, loopVars, eventVars
  <1>6. CASE /\ UNCHANGED <<context, attr>> /\ pc = pc'
             /\ t \notin lost
    BY <1>6, <1>3, <1>5 DEF AttrInv, ContextInv
  <1>7. ASSUME NEW p \in Port, SetAttr(p)
        PROVE  Announced(t, q)'
    <2>1. CASE p = q
      BY <1>7, <2>1, <1>1, SetAttrAnnounces DEF SetAttr
    <2>2. CASE p # q
      <3>1. /\ pc = "eval" /\ context[q] # Unset /\ context[q] # attr[q]
            /\ enabled[t] /\ t \notin lost /\ AttrOf(q) \in expr[t]
        BY <1>7, <1>1, <2>2 DEF SetAttr, TypeOK
      <3> QED
        BY <3>1, <1>5 DEF AttrInv, ContextInv
    <2> QED
      BY <2>1, <2>2
  <1>8. ASSUME NEW p \in Port, Gather(p)
        PROVE  Announced(t, q)'
    <2>1. p # q /\ context[q] = context'[q]
      BY <1>8, <1>1 DEF Gather, TypeOK
    <2>2. /\ pc = "eval" /\ context[q] # Unset /\ context[q] # attr[q]
          /\ enabled[t] /\ t \notin lost /\ AttrOf(q) \in expr[t]
      BY <1>8, <2>1 DEF Gather
    <2> QED
      BY <2>2, <1>5 DEF AttrInv, ContextInv
  <1>9. CASE Eval
    <2>1. context # attr /\ t \notin lost
      BY <1>9, <1>1 DEF Eval, TypeOK
    <2> QED
      BY <1>9, <2>1, <1>6 DEF Eval
  <1>10. ASSUME NEW p \in Port,
                \/ ReadStarts(p) \/ ValueChange(p) \/ EvalStarts(p)
                \/ Trigger(p) \/ NotTriggered(p) \/ Handle(p) \/ NotifierEnds(p)
                \/ Move(p) \/ Enable(p) \/ Disable(p)
                \/ \E e \in Exprs[p] \cup {{}} : SetExpr(p, e)
         PROVE  Announced(t, q)'
    BY <1>10, <1>6 DEF ReadStarts, ValueChange, EvalStarts, Trigger, NotTriggered, Handle,
                       NotifierEnds, Move, Enable, Disable, SetExpr
  <1>11. ASSUME NEW p \in Port, NEW op \in {"enable", "disable"},
                Switched(p, op) \/ SwitchFails(p, op)
         PROVE  Announced(t, q)'
    BY <1>11, <1>6 DEF Switched, SwitchFails
  <1>12. CASE ReadEnds \/ RestoreBegins \/ RestoreEnds \/ UNCHANGED vars
    BY <1>12, <1>6 DEF ReadEnds, RestoreBegins, RestoreEnds
  <1>13. ~RoundEnds /\ ~ValueChangeFails /\ ~ContextFails
    BY DEF RoundEnds, ValueChangeFails, ContextFails, Aborts
  <1> QED
    BY <1>4, <1>7, <1>8, <1>9, <1>10, <1>11, <1>12, <1>13, NextCases, Zenon

\* Every step keeps a port that is behind in an attribute covered.
LEMMA AttrStep == AttrInv /\ [Next]_vars => AttrChangesReach'
  <1> SUFFICES ASSUME AttrInv, [Next]_vars,
                      NEW t \in Port, NEW q \in Port, Outdated(t, AttrOf(q))'
               PROVE  AttrCovered(t, q)'
    BY DEF AttrChangesReach
  <1>1. TypeOK /\ MapInv
    BY DEF AttrInv, Scheduled
  <1>2. Outdated(t, AttrOf(q)) => AttrCovered(t, q)
    BY DEF AttrInv, AttrChangesReach
  <1>3. AttrOf(q) \in Dep
    BY DEF AttrOf, Dep
  <1>4. enabled'[t] /\ t \notin lost' /\ AttrOf(q) \in expr'[t]
    BY OutdatedAttr
  <1>5. (enabled[t] /\ AttrOf(q) \in expr[t]) \/ Announced(t, q)'
    BY <1>1, <1>3, <1>4, EnabledStep DEF Announced
  <1>6. Announced(t, q) => Announced(t, q)' \/ RoundStarts \/ Select
    BY <1>1, <1>4, AnnouncedStep
  <1>7. Announced(t, q)' => AttrCovered(t, q)'
    BY DEF AttrCovered
  <1> USE DEF vars, portVars, loopVars, eventVars
  \* Steps that leave what the round has taken.
  <1>8. CASE /\ UNCHANGED <<seen, attr, context, pc, reading, changes, toEval>>
             /\ t \notin lost
    <2>1. CASE Announced(t, q)'
      BY <2>1, <1>7
    <2>2. CASE ~Announced(t, q)'
      <3>1. AttrCovered(t, q)
        BY <2>2, <1>2, <1>5, <1>8, OutdatedAttr
      <3>2. ~RoundStarts /\ ~Select
        BY <1>8 DEF RoundStarts, Select, ReadingDone
      <3> QED
        BY <2>2, <3>1, <3>2, <1>6, <1>8 DEF AttrCovered, InRound
    <2> QED
      BY <2>1, <2>2
  <1>9. ASSUME NEW p \in Port,
               \/ Trigger(p) \/ NotTriggered(p) \/ Handle(p) \/ NotifierEnds(p)
               \/ Move(p) \/ Enable(p) \/ Disable(p)
        PROVE  AttrCovered(t, q)'
    BY <1>9, <1>4, <1>8 DEF Trigger, NotTriggered, Handle, NotifierEnds, Move, Enable, Disable
  <1>10. ASSUME NEW p \in Port, NEW op \in {"enable", "disable"},
                Switched(p, op) \/ SwitchFails(p, op)
         PROVE  AttrCovered(t, q)'
    BY <1>10, <1>4, <1>8 DEF Switched, SwitchFails
  <1>11. CASE RestoreBegins \/ RestoreEnds \/ UNCHANGED vars
    BY <1>11, <1>4, <1>8 DEF RestoreBegins, RestoreEnds
  <1>12. ASSUME NEW p \in Port, SetAttr(p)
         PROVE  AttrCovered(t, q)'
    <2>1. CASE p = q
      BY <1>12, <2>1, <1>1, <1>4, <1>7, SetAttrAnnounces DEF SetAttr
    <2>2. CASE p # q
      <3>1. /\ attr'[q] = attr[q] /\ t \notin lost
            /\ UNCHANGED <<seen, context, pc, reading, changes, toEval>>
        BY <1>12, <1>1, <1>4, <2>2 DEF SetAttr, TypeOK
      <3>2. ~RoundStarts /\ ~Select
        BY <3>1 DEF RoundStarts, Select, ReadingDone
      <3> QED
        BY <3>1, <3>2, <1>2, <1>5, <1>6, <1>7, OutdatedAttr DEF AttrCovered, InRound
    <2> QED
      BY <2>1, <2>2
  <1>13. ASSUME NEW p \in Port, NEW e, SetExpr(p, e)
         PROVE  AttrCovered(t, q)'
    <2>1. CASE p = t
      BY <1>13, <1>1, <1>4, <1>7, <2>1 DEF SetExpr, Announced, Forced, TypeOK
    <2>2. CASE p # t
      <3>1. seen'[t] = seen[t] /\ t \notin lost
        BY <1>13, <1>1, <1>4, <2>2 DEF SetExpr, TypeOK
      <3>2. UNCHANGED <<attr, context, pc, reading, changes, toEval>>
        BY <1>13 DEF SetExpr
      <3>3. ~RoundStarts /\ ~Select
        BY <3>2 DEF RoundStarts, Select, ReadingDone
      <3> QED
        BY <3>1, <3>2, <3>3, <1>2, <1>5, <1>6, <1>7, OutdatedAttr DEF AttrCovered, InRound
    <2> QED
      BY <2>1, <2>2
  <1>14. CASE RoundStarts
    <2>1. AttrCovered(t, q)
      BY <1>14, <1>2, OutdatedAttr DEF RoundStarts
    <2> QED
      BY <1>14, <1>1, <2>1 DEF RoundStarts, AttrCovered, Announced, Forced, InRound, TypeOK
  <1>15. ASSUME NEW p \in Port, ReadStarts(p) \/ ValueChange(p)
         PROVE  AttrCovered(t, q)'
    <2>1. AttrCovered(t, q)
      BY <1>15, <1>2, OutdatedAttr DEF ReadStarts, ValueChange
    <2> QED
      BY <1>15, <2>1 DEF ReadStarts, ValueChange, ReadingDone, AttrCovered, Announced,
                         Forced, InRound
  <1>16. CASE ReadEnds
    <2>1. AttrCovered(t, q)
      BY <1>16, <1>2, OutdatedAttr DEF ReadEnds
    <2> QED
      BY <1>16, <2>1 DEF ReadEnds, AttrCovered, Announced, Forced, InRound
  <1>17. CASE Select
    <2>1. AttrCovered(t, q) /\ AttrOf(q) \in expr[t]
      BY <1>17, <1>2, OutdatedAttr DEF Select
    <2>2. DepsMap = expr
      BY <1>1 DEF MapInv, DepsMap
    <2>3. pc = "read"
      BY <1>17 DEF Select, ReadingDone
    <2> QED
      BY <1>17, <2>1, <2>2, <2>3 DEF Select, AttrCovered, Announced, Forced, InRound
  <1>18. ASSUME NEW p \in Port, EvalStarts(p)
         PROVE  AttrCovered(t, q)'
    <2>1. AttrCovered(t, q) /\ enabled[t] /\ expr[t] # {}
      BY <1>18, <1>2, OutdatedAttr DEF EvalStarts
    <2>2. t # reading
      BY <1>18, EvalAssumption DEF EvalStarts
    <2> QED
      BY <1>18, <2>1, <2>2 DEF EvalStarts, AttrCovered, Announced, Forced, InRound
  <1>19. ASSUME NEW p \in Port, Gather(p)
         PROVE  AttrCovered(t, q)'
    <2>1. AttrCovered(t, q)
      BY <1>19, <1>2, OutdatedAttr DEF Gather
    <2> QED
      BY <1>19, <1>1, <2>1 DEF Gather, AttrCovered, Announced, Forced, InRound, TypeOK
  <1>20. CASE Eval
    <2>1. CASE t = reading
      <3>1. seen'[t] = Found(t)
        BY <1>20, <1>1, <2>1 DEF Eval, TypeOK
      <3>2. AttrOf(q)[1] = q /\ AttrOf(q)[2] = "attr"
        BY DEF AttrOf
      <3>3. AttrOf(q) \in expr[t] => Found(t)[AttrOf(q)] = context[q]
        BY <1>3, <3>2 DEF Found
      <3>4. context[q] # attr[q] /\ context[q] # Unset
        BY <1>20, <3>1, <3>3, OutdatedAttr DEF Eval, ContextBuilt
      <3>5. t \notin lost /\ pc = "eval" /\ enabled[t] /\ AttrOf(q) \in expr[t]
        BY <1>20, <1>4, <3>4 DEF Eval
      <3>6. Announced(t, q)
        BY <3>4, <3>5 DEF AttrInv, ContextInv
      <3> QED
        BY <3>6, <1>7, <1>20 DEF Eval, Announced, Forced
    <2>2. CASE t # reading
      <3>1. seen'[t] = seen[t] /\ t \notin lost
        BY <1>20, <1>1, <1>4, <2>2 DEF Eval, TypeOK
      <3>2. AttrCovered(t, q)
        BY <1>20, <3>1, <1>2, OutdatedAttr DEF Eval
      <3> QED
        BY <1>20, <2>2, <3>2 DEF Eval, AttrCovered, Announced, Forced, InRound
    <2> QED
      BY <2>1, <2>2
  <1>21. CASE RoundEnds
    <2>1. AttrCovered(t, q)
      BY <1>21, <1>2, OutdatedAttr DEF RoundEnds
    <2> QED
      BY <1>21, <2>1, EvalAssumption DEF RoundEnds, AttrCovered, Announced, Forced, InRound
  <1>22. CASE ValueChangeFails
    <2>1. AttrCovered(t, q) /\ AttrOf(q) \in expr[t]
      BY <1>22, <1>2, OutdatedAttr DEF ValueChangeFails, Aborts
    <2>2. t \notin Dependents(changes \cup {ValueOf(x) : x \in changed})
      BY <1>22, <1>4 DEF ValueChangeFails, Aborts
    <2>3. AttrOf(q) \notin changes
      BY <2>1, <2>2 DEF Dependents
    <2> QED
      BY <1>22, <2>1, <2>3 DEF ValueChangeFails, Aborts, ReadingDone, AttrCovered,
                               Announced, Forced, InRound
  <1>23. CASE ContextFails
    <2>1. AttrCovered(t, q)
      BY <1>23, <1>2, OutdatedAttr DEF ContextFails, Aborts
    <2>2. ~InRound(t) /\ changes = {}
      BY <1>23, <1>1, <1>4 DEF ContextFails, Aborts, InRound, TypeOK
    <2> QED
      BY <1>23, <2>1, <2>2 DEF ContextFails, Aborts, AttrCovered, Announced, Forced
  <1> QED
    BY <1>9, <1>10, <1>11, <1>12, <1>13, <1>14, <1>15, <1>16, <1>17, <1>18, <1>19, <1>20,
       <1>21, <1>22, <1>23, NextCases, Zenon

\* A changed attribute leads to an evaluation of the expressions that depend on it, for
\* any ports and expressions, unless the code drops its announcement or fails.
THEOREM AttrsReach == Spec => []AttrChangesReach
  <1>1. Init => AttrInv
    BY TypeInit DEF Init, AttrInv, Scheduled, MapInv, ValueChangesReach, ValueCovered,
                    Forced, ContextInv, AttrChangesReach, AttrCovered, Announced
  <1>2. AttrInv /\ [Next]_vars => AttrInv'
    BY TypeStep, MapStep, ValueStep, ContextStep, AttrStep DEF AttrInv, Scheduled
  <1>3. AttrInv => AttrChangesReach
    BY DEF AttrInv
  <1> QED
    BY <1>1, <1>2, <1>3, PTL DEF Spec
=============================================================================
