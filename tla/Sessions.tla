------------------------------ MODULE Sessions ------------------------------
(***************************************************************************)
(* A listen session (core/sessions.py) and the calls of get_listen         *)
(* (core/api/funcs/various.py) that wait on it.                            *)
(*                                                                         *)
(* Events are pushed to the session's bounded queue whether or not anybody *)
(* listens; a listening call is answered with all queued events, at once,  *)
(* by the next update() of the main loop, when it has waited for its       *)
(* timeout, or when another call takes the session over.  A session nobody *)
(* listens on is forgotten after ExpiryFactor timeouts.                    *)
(*                                                                         *)
(* Sessions share nothing but the events: one is modelled.  An event is    *)
(* the number of its push; the queue has the oldest event first.  Listen   *)
(* calls are cancelled only when the whole server stops, which is left     *)
(* out.  Time counts whole units since the last call (age), up to the      *)
(* point where it makes no difference any more.                            *)
(***************************************************************************)
EXTENDS Integers, Sequences, FiniteSets, SequencesExt, Queues

CONSTANTS
    EventQueueSize,     \* settings.core.event_queue_size
    ExpiryFactor,       \* SESSION_EXPIRY_FACTOR
    Timeouts,           \* the timeouts that calls ask for
    Kind,               \* what events are about: class and port, device or nothing
    Coalesced,          \* the kinds whose is_duplicate() compares (the updates)
    Restricted,         \* the kinds that a viewonly listener must not see
    MaxCalls,           \* bound on the number of listen calls
    MaxEvents           \* bound on the number of events

ASSUME SessionAssumption ==
    /\ EventQueueSize \in Nat \ {0}
    /\ ExpiryFactor \in Nat \ {0}
    /\ Timeouts \subseteq Nat \ {0}
    /\ IsFiniteSet(Timeouts)
    /\ Coalesced \subseteq Kind
    /\ Restricted \subseteq Kind
    /\ MaxCalls \in Nat
    /\ MaxEvents \in Nat

VARIABLES
    known,          \* the session is in _sessions_by_id
    queue,          \* its queue
    listener,       \* the call that waits for its future (0: None)
    age,            \* now - accessed
    timeout,        \* its timeout
    admin,          \* its access level is admin (else viewonly)
    asked,          \* number of listen calls made
    answer,         \* answer[c]: what became of call c
    kinds,          \* history: the kinds of the events pushed to the session, in order
    received,       \* history: the events handed to listeners, in order
    expired         \* history: the events queued in a session that was forgotten

vars == <<known, queue, listener, age, timeout, admin, asked, answer, kinds,
          received, expired>>

Call == 1..MaxCalls
Event == 1..MaxEvents
MaxTimeout == CHOOSE t \in Timeouts \cup {0} : \A u \in Timeouts : u <= t
MaxAge == MaxTimeout * ExpiryFactor + 1

-----------------------------------------------------------------------------
Init ==
    /\ known = FALSE
    /\ queue = <<>>
    /\ listener = 0
    /\ age = 0
    /\ timeout = 0
    /\ admin = FALSE
    /\ asked = 0
    /\ answer = [c \in Call |-> "none"]
    /\ kinds = <<>>
    /\ received = <<>>
    /\ expired = {}

\* Mutant: the queue keeps what was served.
RespondKeeps(c, f) ==
    /\ answer' = [f EXCEPT ![c] = "answered"]
    /\ received' = received \o queue
    /\ UNCHANGED queue
\* respond(): call c, whose future the session has, gets all queued events, oldest
\* first.  f is what the other calls have.
Respond(c, f) ==
    /\ answer' = [f EXCEPT ![c] = "answered"]
    /\ received' = received \o queue
    /\ queue' = <<>>

\* get_listen: sessions.get(), then reset_and_wait().  A call that waits already is
\* answered first; queued events are handed out at once; else the new call waits.
Listen(t, lvl) ==
    LET c == asked + 1
        waits == [answer EXCEPT ![c] = "pending"] IN
    /\ asked < MaxCalls
    /\ asked' = c
    /\ known' = TRUE
    /\ age' = 0
    /\ timeout' = t
    /\ admin' = lvl
    /\ \/ /\ listener # 0
          /\ Respond(listener, waits)
          /\ listener' = c
       \/ /\ listener = 0
          /\ queue # <<>>
          /\ Respond(c, answer)
          /\ UNCHANGED listener
       \/ /\ listener = 0
          /\ queue = <<>>
          /\ answer' = waits
          /\ listener' = c
          /\ UNCHANGED <<queue, received>>
    /\ UNCHANGED <<kinds, expired>>

\* pop() while the queue is full: never more than one is in excess.
Trimmed(q) == IF Len(q) >= EventQueueSize THEN Tail(q) ELSE q

\* Mutant: all events of the kind are duplicates of each other.
DistinctFromAny(q, k) == Filtered(q, {e \in ToSet(q) : kinds[e] # k})

\* The queue without the events that one of kind k makes obsolete.
DistinctFrom(q, k) == Filtered(q, {e \in ToSet(q) : kinds[e] # k \/ k \notin Coalesced})

\* handle_event() for a session whose access level suffices: push().
Push(k) ==
    /\ known
    /\ k \in Restricted => admin
    /\ Len(kinds) < MaxEvents
    /\ kinds' = Append(kinds, k)
    /\ queue' = Append(Trimmed(DistinctFrom(queue, k)), Len(kinds) + 1)
    /\ UNCHANGED <<known, listener, age, timeout, admin, asked, answer, received, expired>>

\* Mutants: a session expires whether or not somebody listens; only sessions with
\* events are served.
MayExpireActive == age > timeout * ExpiryFactor
KeepAliveNot == listener # 0 /\ queue # <<>>

\* update() finds events and a listener, or a listener that has waited long enough.
MustRespond == listener # 0 /\ (queue # <<>> \/ age > timeout)

\* update() finds nobody listening for long.
MayExpire == listener = 0 /\ age > timeout * ExpiryFactor

\* update(), called by the main loop after it has read the ports.
Update ==
    /\ known
    /\ \/ /\ MustRespond
          /\ Respond(listener, answer)
          /\ listener' = 0
          /\ UNCHANGED <<known, expired>>
       \/ /\ MayExpire
          /\ known' = FALSE
          /\ expired' = expired \cup ToSet(queue)
          /\ queue' = <<>>
          /\ UNCHANGED <<listener, answer, received>>
    /\ UNCHANGED <<age, timeout, admin, asked, kinds>>

\* Time passes.
Tick ==
    /\ known
    /\ age < MaxAge
    /\ age' = age + 1
    /\ UNCHANGED <<known, queue, listener, timeout, admin, asked, answer, kinds,
                   received, expired>>

Next ==
    \/ \E t \in Timeouts, lvl \in BOOLEAN : Listen(t, lvl)
    \/ \E k \in Kind : Push(k)
    \/ Update
    \/ Tick

Spec == Init /\ [][Next]_vars

\* The main loop goes on (it is not paused, no port hangs while it is read) and time
\* passes.  Nobody has to listen, and no event has to happen.
FairSpec == Spec /\ WF_vars(Update) /\ WF_vars(Tick)

-----------------------------------------------------------------------------
\* What the listeners have got and what is waiting for them.
Stream == received \o queue

\* Every variable holds values the code gives it; the queue keeps to its size, and
\* that of a forgotten session is empty.
TypeOK ==
    /\ known \in BOOLEAN
    /\ queue \in Seq(Event)
    /\ Len(queue) <= EventQueueSize
    /\ listener \in 0..MaxCalls
    /\ age \in 0..MaxAge
    /\ timeout \in Timeouts \cup {0}
    /\ admin \in BOOLEAN
    /\ asked \in 0..MaxCalls
    /\ answer \in [Call -> {"none", "pending", "answered"}]
    /\ kinds \in Seq(Kind)
    /\ Len(kinds) <= MaxEvents
    /\ received \in Seq(Event)
    /\ expired \subseteq Event
    /\ ~known => queue = <<>>

\* Events reach the listeners in the order they were pushed and each at most once,
\* whoever listens and however calls take over from each other.
InOrderOnce ==
    \A i, j \in DOMAIN Stream : i < j => Stream[i] < Stream[j]

\* e was pushed before f, which says all e said.
Supersedes(f, e) == e < f /\ kinds[f] = kinds[e] /\ kinds[f] \in Coalesced

\* No event is lost without a reason: it was or will be handed to a listener, or a
\* later one of its kind makes it obsolete, or the session was forgotten, or as many
\* later events as the queue holds have pushed it out.
NothingLost ==
    \A e \in DOMAIN kinds :
        \/ e \in ToSet(Stream)
        \/ e \in expired
        \/ \E f \in DOMAIN kinds : Supersedes(f, e)
        \/ Len(kinds) - e >= EventQueueSize

\* Both: what push() takes in is delivered.
DeliveryHolds == InOrderOnce /\ NothingLost

\* A call waits exactly if a session that is not forgotten knows of it: none is left
\* behind when another takes over, events arrive or the session expires.
OneListener ==
    \A c \in Call : answer[c] = "pending" <=> known /\ c = listener

\* Every listen call is answered, be it with no events (keep-alive).
ListenersAnswered ==
    \A c \in Call : (answer[c] = "pending") ~> (answer[c] = "answered")
=============================================================================
