----------------------------- MODULE SlaveCalls -----------------------------
(***************************************************************************)
(* API calls to a slave device: Slave.api_call and _api_call of            *)
(* slaves/devices.py over the workers of ParallelCaller.                   *)
(*                                                                         *)
(* A call is queued; one of a few workers takes it, sends the request and  *)
(* hands the answer to the caller.  A failed request may be retried: the   *)
(* worker sleeps, makes a nested api_call and waits for it, so the retry   *)
(* needs another worker while the first is kept busy.                      *)
(*                                                                         *)
(* Attempt <<c, k>> is the k-th retry of call c, 0 being the call itself:  *)
(* each is an entry of the queue of its own, as each is in the code.       *)
(***************************************************************************)
EXTENDS Integers, Sequences, FiniteSets, SequencesExt

CONSTANTS
    Worker,         \* the ParallelCaller's loop tasks
    MaxQueued,      \* _MAX_QUEUED_API_CALLS
    RetryCount,     \* settings.slaves.retry_count
    MaxCalls        \* bound on the number of calls made by others than retries

ASSUME CallerAssumption ==
    /\ Worker # {}
    /\ MaxQueued \in Nat \ {0}
    /\ RetryCount \in Nat
    /\ MaxCalls \in Nat

VARIABLES
    asked,          \* number of calls made
    retries,        \* retries[c]: how often c may be retried (0: retry_counter None)
    queue,          \* the ParallelCaller's queue
    state,          \* state[a]: what became of attempt a
    work,           \* work[w]: the attempt worker w has taken (None: waiting for one)
    lastRef,        \* the attempt that set _last_api_call_ref
    enabled,        \* the slave's _enabled
    stopped         \* ParallelCaller.stop() was called

vars == <<asked, retries, queue, state, work, lastRef, enabled, stopped>>

Call == 1..MaxCalls
Attempt == Call \X (0..RetryCount)
None == <<0, 0>>
OptAttempt == Attempt \cup {None}

\* "sleeping": before the retry; "waiting": for the retry's answer.
Blocked == {"sleeping", "waiting"}
InWork == {"fetching"} \cup Blocked
Answer == {"ok", "accepted", "error"}
State == {"new", "queued"} \cup InWork \cup Answer

RetryOf(a) == <<a[1], a[2] + 1>>

-----------------------------------------------------------------------------
Init ==
    /\ asked = 0
    /\ retries = [c \in Call |-> 0]
    /\ queue = <<>>
    /\ state = [a \in Attempt |-> "new"]
    /\ work = [w \in Worker |-> None]
    /\ lastRef = None
    /\ enabled = TRUE
    /\ stopped = FALSE

\* put_nowait does not raise QueueFull.
Room == Len(queue) < MaxQueued

\* api_call: put_nowait, then wait; a full queue is the caller's exception.  Calls
\* made for API clients pass retry_counter = None.
ApiCall(retryCounterNone) ==
    LET c == asked + 1 IN
    /\ asked < MaxCalls
    /\ asked' = c
    /\ retries' = [retries EXCEPT ![c] = IF retryCounterNone THEN 0 ELSE RetryCount]
    /\ \/ /\ Room
          /\ queue' = Append(queue, <<c, 0>>)
          /\ state' = [state EXCEPT ![<<c, 0>>] = "queued"]
       \/ /\ ~Room
          /\ state' = [state EXCEPT ![<<c, 0>>] = "error"]
          /\ UNCHANGED queue
    /\ UNCHANGED <<work, lastRef, enabled, stopped>>

\* queue.get() takes the oldest entry.
Rest(q) == Tail(q)

\* A worker takes the oldest entry and calls _api_call, which takes a new reference
\* and sends the request.
Start(w) ==
    /\ ~stopped
    /\ work[w] = None
    /\ queue # <<>>
    /\ queue' = Rest(queue)
    /\ work' = [work EXCEPT ![w] = Head(queue)]
    /\ state' = [state EXCEPT ![Head(queue)] = "fetching"]
    /\ lastRef' = Head(queue)
    /\ UNCHANGED <<asked, retries, enabled, stopped>>

\* Worker w is done with its attempt, whose caller gets the answer.
Finish(w, answer) ==
    /\ state' = [state EXCEPT ![work[w]] = answer]
    /\ work' = [work EXCEPT ![w] = None]

\* Worker w runs and its attempt is in state s.
Runs(w, s) ==
    /\ ~stopped
    /\ work[w] # None
    /\ state[work[w]] = s

\* The device answers: with a result, with "accepted", which is raised to the caller,
\* or with one that intercept_response fails on.
FetchDone(w) ==
    /\ Runs(w, "fetching")
    /\ \E answer \in Answer : Finish(w, answer)
    /\ UNCHANGED <<asked, retries, queue, lastRef, enabled, stopped>>

\* Mutants of the retry's condition: retry in any case; what the comment on the
\* reference says (no retry once a new call was made).
MayRetryAlways(a) == a[2] < retries[a[1]] /\ enabled
MayRetryLatest(a) == a[2] < retries[a[1]] /\ a = lastRef /\ enabled

\* retry_counter < retry_count and ref is not self._last_api_call_ref and _enabled.
MayRetry(a) == a[2] < retries[a[1]] /\ a # lastRef /\ enabled

\* The request failed: retry later, keeping the worker.
RetryLater(w) ==
    /\ Runs(w, "fetching")
    /\ MayRetry(work[w])
    /\ state' = [state EXCEPT ![work[w]] = "sleeping"]
    /\ UNCHANGED <<asked, retries, queue, work, lastRef, enabled, stopped>>

GiveUp(w) ==
    /\ Runs(w, "fetching")
    /\ ~MayRetry(work[w])
    /\ Finish(w, "error")
    /\ UNCHANGED <<asked, retries, queue, lastRef, enabled, stopped>>

\* Mutant: the retry is started in the background and the caller told of the failure.
RetryDetached(w) ==
    LET a == work[w] IN
    /\ Runs(w, "sleeping")
    /\ Room
    /\ queue' = Append(queue, RetryOf(a))
    /\ state' = [state EXCEPT ![a] = "error", ![RetryOf(a)] = "queued"]
    /\ work' = [work EXCEPT ![w] = None]
    /\ UNCHANGED <<asked, retries, lastRef, enabled, stopped>>

\* After the sleep: the nested api_call, which may find the queue full.
Retry(w) ==
    LET a == work[w] IN
    /\ Runs(w, "sleeping")
    /\ \/ /\ Room
          /\ queue' = Append(queue, RetryOf(a))
          /\ state' = [state EXCEPT ![a] = "waiting", ![RetryOf(a)] = "queued"]
          /\ UNCHANGED work
       \/ /\ ~Room
          /\ Finish(w, "error")
          /\ UNCHANGED queue
    /\ UNCHANGED <<asked, retries, lastRef, enabled, stopped>>

\* The nested call's result or exception is the outer call's.
RetryDone(w) ==
    /\ Runs(w, "waiting")
    /\ state[RetryOf(work[w])] \in Answer
    /\ Finish(w, state[RetryOf(work[w])])
    /\ UNCHANGED <<asked, retries, queue, lastRef, enabled, stopped>>

\* enable() and disable(), by the API, a firmware update or a factory reset.
SetEnabled ==
    /\ ~stopped
    /\ enabled' = ~enabled
    /\ UNCHANGED <<asked, retries, queue, state, work, lastRef, stopped>>

\* remove(): the slave is disabled and every worker cancelled, whatever it holds.
RemoveSlave ==
    /\ ~stopped
    /\ stopped' = TRUE
    /\ enabled' = FALSE
    /\ UNCHANGED <<asked, retries, queue, state, work, lastRef>>

WorkerStep(w) ==
    \/ FetchDone(w)
    \/ RetryLater(w)
    \/ GiveUp(w)
    \/ Retry(w)
    \/ RetryDone(w)

Next ==
    \/ \E retryCounterNone \in BOOLEAN : ApiCall(retryCounterNone)
    \/ \E w \in Worker : Start(w) \/ WorkerStep(w)
    \/ SetEnabled
    \/ RemoveSlave

Spec == Init /\ [][Next]_vars

\* Requests end (at the latest by their timeout), sleeps end, and the event loop runs
\* every worker that can go on.
Fairness ==
    /\ WF_vars(\E w \in Worker : Start(w))
    /\ \A w \in Worker : WF_vars(WorkerStep(w))

FairSpec == Spec /\ Fairness

-----------------------------------------------------------------------------
\* Every variable holds values the code gives it; the queue keeps to its size.
TypeOK ==
    /\ asked \in 0..MaxCalls
    /\ retries \in [Call -> {0, RetryCount}]
    /\ queue \in Seq(Attempt)
    /\ Len(queue) <= MaxQueued
    /\ state \in [Attempt -> State]
    /\ work \in [Worker -> OptAttempt]
    /\ lastRef \in OptAttempt
    /\ enabled \in BOOLEAN
    /\ stopped \in BOOLEAN

\* The workers never all sleep before a retry or wait for one, which would leave
\* nobody to take the retries they wait for: everyone waiting on everyone.
SomeWorkerServes ==
    \E w \in Worker : work[w] = None \/ state[work[w]] \notin Blocked

\* Why: whoever took the last reference cannot be the one to retry, and keeps to
\* its attempt until it is free again.
LastServes ==
    /\ \E w \in Worker : work[w] \in {None, lastRef}
    /\ lastRef # None => state[lastRef] \notin Blocked

\* Each attempt is at one place: the queue holds every attempt that waits for a
\* worker, once, and each attempt under way has a worker of its own.
OnePlace ==
    /\ \A i, j \in DOMAIN queue : queue[i] = queue[j] => i = j
    /\ \A a \in Attempt : state[a] = "queued" <=> a \in ToSet(queue)
    /\ \A a \in Attempt : state[a] \in InWork <=> \E w \in Worker : work[w] = a
    /\ \A v, w \in Worker : work[v] = work[w] /\ work[v] # None => v = w

\* Once a caller has its answer no attempt of its call is queued or under way: a
\* retry never reaches the device behind the back of a caller that went on (a port
\* that writes its next value).
NoGhostAttempt ==
    \A c \in Call : state[<<c, 0>>] \in Answer =>
        \A k \in 0..RetryCount : state[<<c, k>>] \in {"new"} \cup Answer

\* A call that was retried is answered as its last attempt was.
RetryDecides ==
    \A c \in Call, k \in 0..RetryCount :
        k < RetryCount /\ state[<<c, k>>] \in Answer =>
            state[<<c, k + 1>>] \in {"new", state[<<c, k>>]}

\* The attempts of a call form a chain: all before an active one wait for it, and no
\* attempt is made before the one it retries has slept.
FreshInv == \A c \in Call, k \in 0..RetryCount : c > asked => state[<<c, k>>] = "new"
RetryInv ==
    \A c \in Call, k \in 0..RetryCount : state[<<c, k>>] \in Blocked => k < retries[c]
ChainInv ==
    \A c \in Call, j, k \in 0..RetryCount :
        j < k /\ state[<<c, k>>] \in {"queued"} \cup InWork => state[<<c, j>>] = "waiting"
RetriedInv ==
    \A c \in Call, k \in 0..RetryCount :
        k < RetryCount /\ state[<<c, k + 1>>] # "new" =>
            state[<<c, k>>] \in {"waiting"} \cup Answer

\* Inductive: what the places and the chains of attempts have in common.
CallsInv ==
    /\ TypeOK
    /\ OnePlace
    /\ FreshInv
    /\ RetryInv
    /\ ChainInv
    /\ RetriedInv
    /\ RetryDecides

\* Every call is answered as long as the slave is not removed, however many of the
\* calls before it fail and are retried.
CallsAnswered ==
    \A c \in Call :
        (state[<<c, 0>>] = "queued") ~> (state[<<c, 0>>] \in Answer \/ stopped)

\* What the comment in _api_call says of the reference ("a new API call, which should
\* prevent any pending retry"): an attempt is not put up for a retry once another
\* call has been started after it.
NewCallPreventsRetry ==
    [][\A a \in Attempt :
          state[a] = "fetching" /\ state'[a] = "sleeping" => a = lastRef]_vars
=============================================================================
