----------------------------- MODULE PortWrite -----------------------------
(***************************************************************************)
(* The write pipeline of one port (BasePort in core/ports.py).             *)
(*                                                                         *)
(* API calls and expressions push values to a bounded queue; the port's    *)
(* write loop takes them from its right end, applies the write transform   *)
(* and hands them to the driver under the write lock.  Setting the `value' *)
(* attribute starts the same transform-and-write in a task of its own,     *)
(* beside the loop.  An API caller waits for the future of its request.    *)
(*                                                                         *)
(* A value is the number of the request that brought it: requests are      *)
(* numbered in the order they are made, so a larger value is a more recent *)
(* one.  All code runs in one event loop: a coroutine is interrupted only  *)
(* where it awaits.  loop = "top" is the one point of the write loop that  *)
(* it reaches without having awaited, so no other task acts there.         *)
(***************************************************************************)
EXTENDS Integers, Sequences, FiniteSets, SequencesExt

CONSTANTS
    WriteQueueSize,     \* BasePort.WRITE_QUEUE_SIZE
    MaxRequests,        \* bound on the number of requests ever made
    Transforms          \* whether transform_write is set: {FALSE}, {TRUE} or
                        \* BOOLEAN for an attribute that is set and cleared

ASSUME SizesAssumption ==
    /\ WriteQueueSize \in Nat \ {0}
    /\ MaxRequests \in Nat
    /\ Transforms \subseteq BOOLEAN

VARIABLES
    submitted,      \* number of requests made so far
    queue,          \* _write_queue, right end last
    fut,            \* fut[r]: the future the caller of request r waits for
    phase,          \* phase[r]: how far transform_and_write_value(r) got
    loop,           \* where the write loop's task is suspended
    cur,            \* the loop's local variable `request' (0: None)
    cancelling,     \* cleanup() has called _write_task.cancel()
    holder,         \* the request whose task holds _write_value_lock (0: free)
    waiters,        \* requests whose tasks wait for _write_value_lock, in order
    writing,        \* _writing_value (0: None)
    lastWritten,    \* _last_written_value (0: None)
    delivered,      \* history: requests whose value reached the hardware
    pendingSave     \* _pending_save

loopVars == <<loop, cur, cancelling>>
lockVars == <<holder, waiters, writing>>
portVars == <<submitted, queue, fut, phase, loop, cur, cancelling, holder,
              waiters, writing, lastWritten, delivered, pendingSave>>

Request == 1..MaxRequests
OptRequest == 0..MaxRequests

\* "none": no request or one without a future; "pending": the caller waits.
Answer == {"result", "error", "cancelled"}
FutState == {"none", "pending"} \cup Answer

\* "skipped": the transform's value was unavailable; "dropped": the task was
\* cancelled halfway; "failed": the transform or the driver raised.
Phase == {"new", "queued", "evicted", "transform", "lock", "write",
          "written", "skipped", "failed", "dropped"}

LoopState == {"top", "sleep", "busy", "backoff", "ended"}

-----------------------------------------------------------------------------
Init ==
    /\ submitted = 0
    /\ queue = <<>>
    /\ fut = [r \in Request |-> "none"]
    /\ phase = [r \in Request |-> "new"]
    /\ loop = "sleep"
    /\ cur = 0
    /\ cancelling = FALSE
    /\ holder = 0
    /\ waiters = <<>>
    /\ writing = 0
    /\ lastWritten = 0
    /\ delivered = {}
    /\ pendingSave = FALSE

\* Another task than the write loop may run: the loop is suspended (or over).
OthersRun == loop # "top"

\* The not-done check of every set_result, set_exception and cancel: the future
\* of each request in rs that is still waited for gets answer a.
Settle(f, rs, a) == [r \in Request |-> IF r \in rs /\ f[r] = "pending" THEN a ELSE f[r]]

\* Mutant: nothing ever asks for a save.
SaveAsapIgnored == UNCHANGED pendingSave

\* save_asap().
SaveAsap == pendingSave' = TRUE

-----------------------------------------------------------------------------
\* Mutants: the request that falls out is forgotten; the newest is told instead of
\* the oldest.
EvictedSilently(q) == {}
EvictedNewest(q) == IF Len(q) >= WriteQueueSize THEN {Last(q)} ELSE {}
\* push_write: with a full queue the leftmost request falls out and its caller
\* is told so.
Evicted(q) == IF Len(q) >= WriteQueueSize THEN {Head(q)} ELSE {}
Enqueued(q, r) == Append(IF Len(q) >= WriteQueueSize THEN Tail(q) ELSE q, r)

\* push_write(value, future); awaited = TRUE is push_write_and_wait.
PushWrite(awaited) ==
    LET r == submitted + 1 IN
    /\ OthersRun
    /\ submitted < MaxRequests
    /\ submitted' = r
    /\ queue' = Enqueued(queue, r)
    /\ fut' = [Settle(fut, Evicted(queue), "cancelled") EXCEPT
                  ![r] = IF awaited THEN "pending" ELSE "none"]
    /\ phase' = [s \in Request |-> IF s = r THEN "queued"
                                   ELSE IF s \in Evicted(queue) THEN "evicted"
                                   ELSE phase[s]]
    /\ SaveAsap
    /\ UNCHANGED <<loopVars, lockVars, lastWritten, delivered>>

\* set_port_attrs with a `value': transform_and_write_value in the background.
\* Phase "transform" is here also that of a task that has not run yet.
DirectWrite ==
    LET r == submitted + 1 IN
    /\ OthersRun
    /\ submitted < MaxRequests
    /\ submitted' = r
    /\ phase' = [phase EXCEPT ![r] = "transform"]
    /\ UNCHANGED <<queue, fut, loopVars, lockVars, lastWritten, delivered, pendingSave>>

-----------------------------------------------------------------------------
\* Mutant: the driver is called without the lock.
AcquireLockNot(r) ==
    /\ phase' = [phase EXCEPT ![r] = "write"]
    /\ holder' = r
    /\ writing' = r
    /\ UNCHANGED waiters

\* asyncio.Lock: taken at once when it is free and nobody waits, else in turn.
AcquireLock(r) ==
    \/ /\ holder = 0
       /\ waiters = <<>>
       /\ holder' = r
       /\ writing' = r
       /\ phase' = [phase EXCEPT ![r] = "write"]
       /\ UNCHANGED waiters
    \/ /\ holder # 0 \/ waiters # <<>>
       /\ waiters' = Append(waiters, r)
       /\ phase' = [phase EXCEPT ![r] = "lock"]
       /\ UNCHANGED <<holder, writing>>

\* The longest waiting task runs again after the lock was released.
LockGranted(r) ==
    /\ OthersRun
    /\ holder = 0
    /\ waiters # <<>>
    /\ r = Head(waiters)
    /\ r = cur => ~cancelling
    /\ waiters' = Tail(waiters)
    /\ holder' = r
    /\ writing' = r
    /\ phase' = [phase EXCEPT ![r] = "write"]
    /\ UNCHANGED <<submitted, queue, fut, loopVars, lastWritten, delivered, pendingSave>>

\* Mutant: an exception is logged and the caller left waiting.
ReturnSilently(r, a) ==
    IF r = cur
    THEN /\ fut' = IF a = "error" THEN fut ELSE Settle(fut, {r}, a)
         /\ loop' = IF a = "error" THEN "backoff" ELSE "top"
         /\ UNCHANGED <<cur, cancelling>>
    ELSE UNCHANGED <<fut, loopVars>>

\* The loop's try block after the call came back: answer and take the next
\* request at once, or back off after an exception.  A background task only ends.
Return(r, a) ==
    IF r = cur
    THEN /\ fut' = Settle(fut, {r}, a)
         /\ loop' = IF a = "error" THEN "backoff" ELSE "top"
         /\ UNCHANGED <<cur, cancelling>>
    ELSE UNCHANGED <<fut, loopVars>>

\* The task of r resumes; the loop's own task, once cancelled, resumes only in
\* CancelLoop.
Resumes(r, p) ==
    /\ OthersRun
    /\ phase[r] = p
    /\ r = cur => ~cancelling

-----------------------------------------------------------------------------
\* The loop's pop() and the part of transform_and_write_value up to its first
\* await: the transform's evaluation, or the lock.
LoopPop(transforms) ==
    /\ loop = "top"
    /\ queue # <<>>
    /\ cur' = Last(queue)
    /\ queue' = Front(queue)
    /\ loop' = "busy"
    /\ \/ /\ transforms
          /\ phase' = [phase EXCEPT ![Last(queue)] = "transform"]
          /\ UNCHANGED lockVars
       \/ /\ ~transforms
          /\ AcquireLock(Last(queue))
    /\ UNCHANGED <<submitted, fut, cancelling, lastWritten, delivered, pendingSave>>

\* pop() raises IndexError: request = None and sleep for a tick.
LoopEmpty ==
    /\ loop = "top"
    /\ queue = <<>>
    /\ cur' = 0
    /\ loop' = "sleep"
    /\ UNCHANGED <<submitted, queue, fut, phase, cancelling, lockVars,
                   lastWritten, delivered, pendingSave>>

\* One of the loop's two asyncio.sleep(tick) ends.
LoopWake ==
    /\ loop \in {"sleep", "backoff"}
    /\ ~cancelling
    /\ queue # <<>> \/ loop = "backoff"
    /\ loop' = "top"
    /\ UNCHANGED <<submitted, queue, fut, phase, cur, cancelling, lockVars,
                   lastWritten, delivered, pendingSave>>

TransformOk(r) ==
    /\ Resumes(r, "transform")
    /\ AcquireLock(r)
    /\ UNCHANGED <<submitted, queue, fut, loopVars, lastWritten, delivered, pendingSave>>

\* ValueUnavailable: return without writing and without save_asap().
TransformUnavailable(r) ==
    /\ Resumes(r, "transform")
    /\ TRUE \in Transforms
    /\ phase' = [phase EXCEPT ![r] = "skipped"]
    /\ Return(r, "result")
    /\ UNCHANGED <<submitted, queue, lockVars, lastWritten, delivered, pendingSave>>

\* Any other exception of the transform is the caller's.
TransformFails(r) ==
    /\ Resumes(r, "transform")
    /\ TRUE \in Transforms
    /\ phase' = [phase EXCEPT ![r] = "failed"]
    /\ Return(r, "error")
    /\ UNCHANGED <<submitted, queue, lockVars, lastWritten, delivered, pendingSave>>

\* Mutant: the lock stays taken.
ReleaseLockKept == writing' = 0 /\ SaveAsap /\ UNCHANGED <<holder, waiters>>

\* _write_value_safe when the driver is done: record, then the finally clause and
\* the release of the lock.
ReleaseLock ==
    /\ holder' = 0
    /\ writing' = 0
    /\ SaveAsap
    /\ UNCHANGED waiters

WriteOk(r) ==
    /\ Resumes(r, "write")
    /\ delivered' = delivered \cup {r}
    /\ lastWritten' = r
    /\ ReleaseLock
    /\ phase' = [phase EXCEPT ![r] = "written"]
    /\ Return(r, "result")
    /\ UNCHANGED <<submitted, queue>>

\* The driver raises, before or after the hardware took the value.
WriteFails(r) ==
    /\ Resumes(r, "write")
    /\ delivered' \in {delivered, delivered \cup {r}}
    /\ ReleaseLock
    /\ phase' = [phase EXCEPT ![r] = "failed"]
    /\ Return(r, "error")
    /\ UNCHANGED <<submitted, queue, lastWritten>>

-----------------------------------------------------------------------------
\* cleanup(): _write_task.cancel(), then wait for the task.
Cleanup ==
    /\ OthersRun
    /\ loop # "ended"
    /\ ~cancelling
    /\ cancelling' = TRUE
    /\ UNCHANGED <<submitted, queue, fut, phase, loop, cur, lockVars,
                   lastWritten, delivered, pendingSave>>

\* Mutant: the requests still in the queue are forgotten.
LoopCallersInHand == {cur}

\* The requests a cancelled loop answers for.
LoopCallers == {cur} \cup ToSet(queue)

\* asyncio.Lock: a cancelled waiter leaves the queue.
LeaveLockQueue(r) ==
    \/ \E i \in DOMAIN waiters : waiters[i] = r /\ waiters' = RemoveAt(waiters, i)
    \/ r \notin ToSet(waiters) /\ UNCHANGED waiters

\* CancelledError reaches the write loop where it is suspended: _write_value_safe
\* unwinds, and no caller the loop knows of is left waiting.
CancelLoop ==
    /\ cancelling
    /\ loop \in {"sleep", "busy", "backoff"}
    /\ loop' = "ended"
    /\ fut' = Settle(fut, LoopCallers, "cancelled")
    /\ IF loop = "busy" THEN phase' = [phase EXCEPT ![cur] = "dropped"]
                        ELSE UNCHANGED phase
    /\ IF loop = "busy" /\ phase[cur] = "write"
       THEN /\ ReleaseLock
            /\ delivered' \in {delivered, delivered \cup {cur}}
       ELSE /\ LeaveLockQueue(cur)
            /\ UNCHANGED <<holder, writing, delivered, pendingSave>>
    /\ UNCHANGED <<submitted, queue, cur, cancelling, lastWritten>>

-----------------------------------------------------------------------------
LoopStep ==
    \/ \E transforms \in Transforms : LoopPop(transforms)
    \/ LoopEmpty
    \/ LoopWake
    \/ CancelLoop

WriteStep(r) ==
    \/ LockGranted(r)
    \/ TransformOk(r)
    \/ TransformUnavailable(r)
    \/ TransformFails(r)
    \/ WriteOk(r)
    \/ WriteFails(r)

Next ==
    \/ \E awaited \in BOOLEAN : PushWrite(awaited)
    \/ DirectWrite
    \/ Cleanup
    \/ LoopStep
    \/ \E r \in Request : WriteStep(r)

Spec == Init /\ [][Next]_portVars

\* The event loop resumes every task whose await is over, transforms evaluate and
\* driver calls return.  Nothing makes anybody push, or remove the port.
Fairness ==
    /\ WF_portVars(LoopStep)
    /\ \A r \in Request : WF_portVars(WriteStep(r))

FairSpec == Spec /\ Fairness

-----------------------------------------------------------------------------
\* get_pending_value().
PendingValue == IF queue # <<>> THEN Last(queue) ELSE writing

\* Every variable holds values the code gives it; the queue never exceeds its size.
TypeOK ==
    /\ submitted \in OptRequest
    /\ queue \in Seq(Request)
    /\ Len(queue) <= WriteQueueSize
    /\ fut \in [Request -> FutState]
    /\ phase \in [Request -> Phase]
    /\ loop \in LoopState
    /\ cur \in OptRequest
    /\ loop = "busy" => cur # 0
    /\ cancelling \in BOOLEAN
    /\ holder \in OptRequest
    /\ waiters \in Seq(Request)
    /\ writing \in OptRequest
    /\ lastWritten \in OptRequest
    /\ delivered \subseteq Request
    /\ pendingSave \in BOOLEAN

\* No caller is orphaned: while the write loop lives, the request of every caller
\* that waits is in the queue or is the one being processed (the comment "Don't
\* leave any awaiter hanging" in _write_loop, and push_write's eviction).
NoOrphanedCaller ==
    loop # "ended" =>
        \A r \in Request : fut[r] = "pending" => r \in ToSet(queue) \/ (r = cur /\ loop = "busy")

\* The driver's write_value is never entered twice at a time, whatever mix of the
\* loop and background writes is under way ("ensuring only one write at a time").
OneWriteAtATime ==
    \A r, s \in Request : phase[r] = "write" /\ phase[s] = "write" => r = s

\* A caller told "written" was written, unless the transform had no value; a caller
\* told "cancelled" while the loop lives (evicted) never reached the hardware.
HonestAnswers ==
    \A r \in Request :
        /\ fut[r] = "result" => r \in delivered \/ phase[r] = "skipped"
        /\ fut[r] = "cancelled" /\ loop # "ended" => r \notin delivered

\* What the phases say of the pipeline's structures; inductive with TypeOK and the
\* three properties above.
QueueInv ==
    \A i, j \in DOMAIN queue :
        phase[queue[i]] = "queued" /\ (queue[i] = queue[j] => i = j)
WaitersInv ==
    \A i, j \in DOMAIN waiters :
        phase[waiters[i]] = "lock" /\ (waiters[i] = waiters[j] => i = j)
HolderInv == \A r \in Request : phase[r] = "write" => r = holder
LoopInv ==
    /\ loop = "busy" => phase[cur] \in {"transform", "lock", "write"}
    /\ loop = "ended" => cancelling
FreshInv == \A r \in Request : r > submitted => phase[r] = "new" /\ fut[r] = "none"
DeliveredInv == \A r \in delivered : phase[r] \in {"written", "failed", "dropped"}
EvictedInv ==
    loop # "ended" => \A r \in Request : fut[r] = "cancelled" => phase[r] = "evicted"

\* Each request is at one place of the pipeline, and the answers agree with it: the
\* queue, the lock's waiters and its holder hold exactly what their phases say, so
\* no request is taken twice or lost between them.
PipelineInv ==
    /\ TypeOK
    /\ QueueInv
    /\ WaitersInv
    /\ HolderInv
    /\ LoopInv
    /\ FreshInv
    /\ DeliveredInv
    /\ EvictedInv
    /\ NoOrphanedCaller
    /\ HonestAnswers

\* A caller gets one answer: once given it never changes, not by a later eviction,
\* cancellation or completion.
AnsweredOnce ==
    [][\A r \in Request : fut[r] \in Answer => fut'[r] = fut[r]]_fut

\* The pipeline implements the service its callers see: the queue's size and the
\* request in hand bound those who wait, and the end of the loop tells them all.
Service == INSTANCE WriteService
               WITH Capacity <- WriteQueueSize + 1, alive <- (loop # "ended")

ImplementsService == Service!Spec

\* Every caller that waits when the loop still lives is answered, provided the
\* requests stop coming (MaxRequests) and the driver returns.
CallersAnswered ==
    \A r \in Request :
        (fut[r] = "pending" /\ loop # "ended") ~> (fut[r] # "pending")

\* A task waiting for the write lock gets its turn or is cancelled, loop and
\* background writes alike.
LockNotStarved ==
    \A r \in Request : (phase[r] = "lock") ~> (phase[r] # "lock")

\* What push_write's docstring says of a future it is given (resolved with the result
\* or the exception, or cancelled if evicted or if the write loop is cancelled
\* first): sooner or later it is done, also when the port is being removed.
EveryFutureDone ==
    \A r \in Request : (fut[r] = "pending") ~> (fut[r] # "pending")

\* What get_pending_value's docstring says ("the most recent value that's about to
\* be written to the port but hasn't been, yet"): nothing the loop is writing is
\* more recent than the value it returns.
PendingIsMostRecent ==
    \A r \in Request : r = cur /\ phase[r] = "write" => PendingValue >= r
=============================================================================
