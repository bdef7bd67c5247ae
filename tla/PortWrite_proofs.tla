-------------------------- MODULE PortWrite_proofs --------------------------
(***************************************************************************)
(* Proofs about the write pipeline of a port, for every queue size, every  *)
(* number of requests and every use of the write transform.                *)
(***************************************************************************)
EXTENDS PortWrite, SequenceTheorems, FiniteSetTheorems, FunctionTheorems, TLAPS

-----------------------------------------------------------------------------
(* The queue operations. *)

\* Front keeps the order and the entries but the last (deque.pop).
LEMMA FrontProperties ==
    ASSUME NEW S, NEW s \in Seq(S), s # <<>>
    PROVE  /\ Front(s) \in Seq(S)
           /\ Len(Front(s)) = Len(s) - 1
           /\ \A i \in 1..(Len(s) - 1) : Front(s)[i] = s[i]
           /\ Last(s) = s[Len(s)]
           /\ Last(s) \in S
           /\ Len(s) \in Nat \ {0}
<1>. DEFINE n == Len(s)
            t == SubSeq(s, 1, n - 1)
<1>1. n \in Nat \ {0}
  BY EmptySeq
<1>2. \A i \in 1..n : s[i] \in S
  BY ElementOfSeq
<1>3. n - 1 \in Int /\ 1 \in Int /\ \A i \in 1..(n - 1) : s[i] \in S
  BY <1>1, <1>2
<1>4. /\ t \in Seq(S)
      /\ Len(t) = IF 1 <= n - 1 THEN n - 1 - 1 + 1 ELSE 0
      /\ \A i \in 1..(n - 1 - 1 + 1) : t[i] = s[1 + i - 1]
  BY <1>3, SubSeqProperties
<1>. HIDE DEF n, t
<1>5. Len(t) = n - 1 /\ \A i \in 1..(n - 1) : t[i] = s[i]
  BY <1>1, <1>4
<1>6. s[n] \in S
  BY <1>1, <1>2
<1>. QED
  BY <1>1, <1>4, <1>5, <1>6 DEF Front, Last, n, t

\* Removing one entry moves the later ones down (a waiter leaves the lock).
LEMMA RemoveAtProperties ==
    ASSUME NEW S, NEW s \in Seq(S), NEW i \in 1..Len(s)
    PROVE  /\ RemoveAt(s, i) \in Seq(S)
           /\ Len(RemoveAt(s, i)) = Len(s) - 1
           /\ \A j \in 1..(Len(s) - 1) :
                 RemoveAt(s, i)[j] = IF j < i THEN s[j] ELSE s[j + 1]
<1>. DEFINE u == SubSeq(s, 1, i - 1)
            v == SubSeq(s, i + 1, Len(s))
<1>1. Len(s) \in Nat /\ \A k \in 1..Len(s) : s[k] \in S
  BY ElementOfSeq, LenProperties
<1>2. /\ u \in Seq(S)
      /\ Len(u) = i - 1
      /\ \A k \in 1..(i - 1) : u[k] = s[k]
  <2>1. 1 \in Int /\ i - 1 \in Int /\ \A k \in 1..(i - 1) : s[k] \in S
    BY <1>1
  <2>2. /\ u \in Seq(S)
        /\ Len(u) = IF 1 <= i - 1 THEN i - 1 - 1 + 1 ELSE 0
        /\ \A k \in 1..(i - 1 - 1 + 1) : u[k] = s[1 + k - 1]
    BY <2>1, SubSeqProperties
  <2>. HIDE DEF u
  <2>. QED
    BY <1>1, <2>2
<1>3. /\ v \in Seq(S)
      /\ Len(v) = Len(s) - i
      /\ \A k \in 1..(Len(s) - i) : v[k] = s[i + k]
  <2>1. i + 1 \in Int /\ Len(s) \in Int /\ \A k \in (i + 1)..Len(s) : s[k] \in S
    BY <1>1
  <2>2. /\ v \in Seq(S)
        /\ Len(v) = IF i + 1 <= Len(s) THEN Len(s) - (i + 1) + 1 ELSE 0
        /\ \A k \in 1..(Len(s) - (i + 1) + 1) : v[k] = s[(i + 1) + k - 1]
    BY <2>1, SubSeqProperties
  <2>. HIDE DEF v
  <2>3. /\ Len(s) - (i + 1) + 1 = Len(s) - i
        /\ \A k \in 1..(Len(s) - i) : (i + 1) + k - 1 = i + k
    BY <1>1
  <2>4. Len(v) = Len(s) - i
    <3>1. CASE i + 1 <= Len(s)
      BY <2>2, <2>3, <3>1, Zenon
    <3>2. CASE ~(i + 1 <= Len(s))
      <4>1. Len(s) - i = 0
        BY <1>1, <3>2
      <4>. QED
        BY <2>2, <3>2, <4>1, Zenon
    <3>. QED
      BY <3>1, <3>2
  <2>5. \A k \in 1..(Len(s) - i) : v[k] = s[i + k]
    BY <2>2, <2>3, Zenon
  <2>. QED
    BY <2>2, <2>4, <2>5
<1>. HIDE DEF u, v
<1>4. /\ u \o v \in Seq(S)
      /\ Len(u \o v) = Len(s) - 1
      /\ \A j \in 1..(Len(s) - 1) :
            (u \o v)[j] = IF j <= i - 1 THEN u[j] ELSE v[j - (i - 1)]
  <2>1. /\ u \o v \in Seq(S)
        /\ Len(u \o v) = Len(u) + Len(v)
        /\ \A j \in 1..(Len(u) + Len(v)) :
              (u \o v)[j] = IF j <= Len(u) THEN u[j] ELSE v[j - Len(u)]
    BY <1>2, <1>3, ConcatProperties
  <2>2. Len(u) + Len(v) = Len(s) - 1
    BY <1>1, <1>2, <1>3
  <2>. QED
    BY <1>2, <2>1, <2>2, Zenon
<1>5. \A j \in 1..(Len(s) - 1) : (u \o v)[j] = IF j < i THEN s[j] ELSE s[j + 1]
  <2>. TAKE j \in 1..(Len(s) - 1)
  <2>1. CASE j < i
    BY <1>1, <1>2, <1>4, <2>1
  <2>2. CASE j >= i
    <3>1. j - (i - 1) \in 1..(Len(s) - i) /\ i + (j - (i - 1)) = j + 1
      BY <1>1, <2>2
    <3>. QED
      BY <1>1, <1>3, <1>4, <2>2, <3>1
  <2>3. j < i \/ j >= i
    BY <1>1
  <2>. QED
    BY <2>1, <2>2, <2>3
<1>. QED
  BY <1>4, <1>5 DEF RemoveAt, u, v

\* A push never makes the queue longer than its size, keeps the entries that do
\* not fall out and puts the new one last.
LEMMA EnqueuedProperties ==
    ASSUME NEW S, NEW q \in Seq(S), NEW r \in S, Len(q) <= WriteQueueSize
    PROVE  /\ Enqueued(q, r) \in Seq(S)
           /\ Len(Enqueued(q, r)) <= WriteQueueSize
           /\ Len(q) < WriteQueueSize =>
                 /\ Evicted(q) = {}
                 /\ Len(Enqueued(q, r)) = Len(q) + 1
                 /\ \A i \in 1..Len(q) : Enqueued(q, r)[i] = q[i]
                 /\ Enqueued(q, r)[Len(q) + 1] = r
           /\ Len(q) = WriteQueueSize =>
                 /\ q # <<>>
                 /\ Evicted(q) = {q[1]}
                 /\ Len(Enqueued(q, r)) = Len(q)
                 /\ \A i \in 1..(Len(q) - 1) : Enqueued(q, r)[i] = q[i + 1]
                 /\ Enqueued(q, r)[Len(q)] = r
<1>1. CASE Len(q) < WriteQueueSize
  BY <1>1, SizesAssumption DEF Enqueued, Evicted
<1>2. CASE Len(q) = WriteQueueSize
  <2>1. q # <<>> /\ Len(q) \in Nat \ {0}
    BY <1>2, SizesAssumption
  <2>2. /\ Tail(q) \in Seq(S)
        /\ Len(Tail(q)) = Len(q) - 1
        /\ \A i \in 1..(Len(q) - 1) : Tail(q)[i] = q[i + 1]
        /\ Head(q) = q[1]
    BY <2>1
  <2>. QED
    BY <1>2, <2>1, <2>2, SizesAssumption DEF Enqueued, Evicted
<1>. QED
  BY <1>1, <1>2, SizesAssumption

-----------------------------------------------------------------------------
(* Type correctness. *)

\* Requests are numbered from 1; 0 stands for "none".
LEMMA RequestFacts ==
    /\ 0 \in OptRequest
    /\ 0 \notin Request
    /\ \A r \in Request : r \in OptRequest /\ r # 0
    /\ \A r \in OptRequest : r # 0 => r \in Request
    /\ \A n \in OptRequest : n < MaxRequests => n + 1 \in Request
BY SizesAssumption DEF Request, OptRequest

\* Answering requests keeps the futures' type.
LEMMA SettleType ==
    ASSUME NEW f \in [Request -> FutState], NEW rs, NEW a \in Answer
    PROVE  Settle(f, rs, a) \in [Request -> FutState]
BY DEF Settle, FutState

\* Asking for the write lock keeps the type of what it touches.
LEMMA AcquireLockType ==
    ASSUME TypeOK, NEW r \in Request, AcquireLock(r)
    PROVE  /\ phase' \in [Request -> Phase]
           /\ holder' \in OptRequest
           /\ waiters' \in Seq(Request)
           /\ writing' \in OptRequest
<1>1. phase' \in [Request -> Phase]
  BY DEF TypeOK, AcquireLock, Phase
<1>2. holder' \in OptRequest /\ writing' \in OptRequest
  BY RequestFacts DEF TypeOK, AcquireLock
<1>3. waiters' \in Seq(Request)
  BY DEF TypeOK, AcquireLock
<1>. QED
  BY <1>1, <1>2, <1>3

\* A task that comes back to the loop keeps the type of what it touches.
LEMMA ReturnType ==
    ASSUME TypeOK, NEW r \in Request, NEW a \in {"result", "error"}, Return(r, a)
    PROVE  /\ fut' \in [Request -> FutState]
           /\ loop' \in LoopState
           /\ cur' \in OptRequest
           /\ loop' = "busy" => cur' # 0
           /\ cancelling' \in BOOLEAN
BY SettleType DEF TypeOK, Return, loopVars, LoopState, Answer

\* A port starts well typed.
LEMMA TypeInit == Init => TypeOK
<1>. SUFFICES ASSUME Init PROVE TypeOK
  OBVIOUS
<1>1. queue \in Seq(Request) /\ waiters \in Seq(Request) /\ Len(queue) <= WriteQueueSize
  BY SizesAssumption DEF Init
<1>2. fut \in [Request -> FutState] /\ phase \in [Request -> Phase]
  BY DEF Init, FutState, Phase
<1>. QED
  BY <1>1, <1>2, RequestFacts DEF Init, TypeOK, LoopState

\* Every step of the pipeline keeps its variables' types, the queue's size included.
LEMMA TypeStep == TypeOK /\ [Next]_portVars => TypeOK'
<1>. SUFFICES ASSUME TypeOK, [Next]_portVars PROVE TypeOK'
  OBVIOUS
<1>1. ASSUME NEW awaited \in BOOLEAN, PushWrite(awaited) PROVE TypeOK'
  <2>. DEFINE r == submitted + 1
  <2>1. r \in Request
    BY <1>1, RequestFacts DEF PushWrite, TypeOK
  <2>2. queue' \in Seq(Request) /\ Len(queue') <= WriteQueueSize
    BY <1>1, <2>1, EnqueuedProperties DEF PushWrite, TypeOK
  <2>3. fut' \in [Request -> FutState]
    <3>1. Settle(fut, Evicted(queue), "cancelled") \in [Request -> FutState]
      BY SettleType DEF TypeOK, Answer
    <3>. QED
      BY <1>1, <3>1 DEF PushWrite, FutState
  <2>4. phase' \in [Request -> Phase]
    BY <1>1 DEF PushWrite, TypeOK, Phase
  <2>. QED
    BY <1>1, <2>1, <2>2, <2>3, <2>4, RequestFacts
    DEF PushWrite, TypeOK, SaveAsap, loopVars, lockVars
<1>2. CASE DirectWrite
  <2>1. submitted' \in OptRequest
    BY <1>2, RequestFacts DEF DirectWrite, TypeOK
  <2>. QED
    BY <1>2, <2>1 DEF DirectWrite, TypeOK, Phase, loopVars, lockVars
<1>3. CASE Cleanup
  BY <1>3 DEF Cleanup, TypeOK, lockVars
<1>4. ASSUME NEW transforms \in Transforms, LoopPop(transforms) PROVE TypeOK'
  <2>1. /\ Last(queue) \in Request
        /\ Front(queue) \in Seq(Request)
        /\ Len(Front(queue)) <= WriteQueueSize
    <3>1. queue \in Seq(Request) /\ queue # <<>> /\ Len(queue) <= WriteQueueSize
      BY <1>4 DEF LoopPop, TypeOK
    <3>2. /\ Last(queue) \in Request
          /\ Front(queue) \in Seq(Request)
          /\ Len(Front(queue)) = Len(queue) - 1
          /\ Len(queue) \in Nat
      BY <3>1, FrontProperties
    <3>. QED
      BY <3>1, <3>2, SizesAssumption
  <2>2. /\ phase' \in [Request -> Phase]
        /\ holder' \in OptRequest
        /\ waiters' \in Seq(Request)
        /\ writing' \in OptRequest
    <3>1. CASE AcquireLock(Last(queue))
      BY <2>1, <3>1, AcquireLockType
    <3>2. CASE /\ phase' = [phase EXCEPT ![Last(queue)] = "transform"]
               /\ UNCHANGED lockVars
      BY <3>2 DEF TypeOK, Phase, lockVars
    <3>. QED
      BY <1>4, <3>1, <3>2 DEF LoopPop
  <2>. QED
    BY <1>4, <2>1, <2>2, RequestFacts DEF LoopPop, TypeOK, LoopState
<1>5. CASE LoopEmpty
  BY <1>5, RequestFacts DEF LoopEmpty, TypeOK, LoopState, lockVars
<1>6. CASE LoopWake
  BY <1>6 DEF LoopWake, TypeOK, LoopState, lockVars
<1>7. CASE CancelLoop
  <2>1. fut' \in [Request -> FutState]
    BY <1>7, SettleType DEF CancelLoop, TypeOK, Answer
  <2>2. phase' \in [Request -> Phase]
    BY <1>7 DEF CancelLoop, TypeOK, Phase
  <2>3. waiters' \in Seq(Request)
    <3>1. CASE UNCHANGED waiters
      BY <3>1 DEF TypeOK
    <3>2. CASE LeaveLockQueue(cur)
      BY <3>2, RemoveAtProperties DEF LeaveLockQueue, TypeOK
    <3>. QED
      BY <1>7, <3>1, <3>2 DEF CancelLoop, ReleaseLock
  <2>4. /\ holder' \in OptRequest
        /\ writing' \in OptRequest
        /\ pendingSave' \in BOOLEAN
        /\ delivered' \subseteq Request
    <3>1. loop = "busy" => cur \in Request
      BY RequestFacts DEF TypeOK
    <3>. QED
      BY <1>7, <3>1, RequestFacts DEF CancelLoop, ReleaseLock, SaveAsap, TypeOK
  <2>. QED
    BY <1>7, <2>1, <2>2, <2>3, <2>4 DEF CancelLoop, TypeOK, LoopState
<1>8. ASSUME NEW r \in Request, WriteStep(r) PROVE TypeOK'
  <2>1. CASE LockGranted(r)
    BY <2>1, RequestFacts DEF LockGranted, TypeOK, Phase, loopVars
  <2>2. CASE TransformOk(r)
    BY <2>2, AcquireLockType DEF TransformOk, TypeOK, loopVars
  <2>3. CASE TransformUnavailable(r)
    BY <2>3, ReturnType DEF TransformUnavailable, TypeOK, Phase, lockVars
  <2>4. CASE TransformFails(r)
    BY <2>4, ReturnType DEF TransformFails, TypeOK, Phase, lockVars
  <2>5. CASE WriteOk(r)
    <3>1. phase' \in [Request -> Phase]
      BY <2>5 DEF WriteOk, TypeOK, Phase
    <3>2. delivered' \subseteq Request /\ lastWritten' \in OptRequest
      BY <2>5, RequestFacts DEF WriteOk, TypeOK
    <3>3. /\ holder' = 0 /\ writing' = 0 /\ pendingSave' = TRUE
          /\ UNCHANGED <<waiters, submitted, queue>>
      BY <2>5 DEF WriteOk, ReleaseLock, SaveAsap
    <3>4. Return(r, "result")
      BY <2>5 DEF WriteOk
    <3>. QED
      BY <3>1, <3>2, <3>3, <3>4, ReturnType, RequestFacts DEF TypeOK
  <2>6. CASE WriteFails(r)
    <3>1. phase' \in [Request -> Phase]
      BY <2>6 DEF WriteFails, TypeOK, Phase
    <3>2. delivered' \subseteq Request
      BY <2>6 DEF WriteFails, TypeOK
    <3>3. /\ holder' = 0 /\ writing' = 0 /\ pendingSave' = TRUE
          /\ UNCHANGED <<waiters, submitted, queue, lastWritten>>
      BY <2>6 DEF WriteFails, ReleaseLock, SaveAsap
    <3>4. Return(r, "error")
      BY <2>6 DEF WriteFails
    <3>. QED
      BY <3>1, <3>2, <3>3, <3>4, ReturnType, RequestFacts DEF TypeOK
  <2>. QED
    BY <1>8, <2>1, <2>2, <2>3, <2>4, <2>5, <2>6 DEF WriteStep
<1>9. CASE UNCHANGED portVars
  BY <1>9 DEF portVars, TypeOK
<1>. QED
  BY <1>1, <1>2, <1>3, <1>4, <1>5, <1>6, <1>7, <1>8, <1>9 DEF Next, LoopStep

\* Every variable keeps to the values the code gives it, and the queue to its size.
THEOREM TypeCorrect == Spec => []TypeOK
BY TypeInit, TypeStep, PTL DEF Spec

-----------------------------------------------------------------------------
(* The pipeline's structures. *)

\* A sequence's entries are those at its positions, and its last is one of them.
LEMMA DomainFacts ==
    ASSUME NEW S, NEW q \in Seq(S)
    PROVE  /\ DOMAIN q = 1..Len(q)
           /\ Len(q) \in Nat
           /\ \A i \in DOMAIN q : q[i] \in S
           /\ \A x : x \in ToSet(q) <=> \E i \in DOMAIN q : q[i] = x
BY LenProperties, ElementOfSeq DEF ToSet

\* A queue that is not below its size is not empty, which push_write relies on.
LEMMA BelowOrFull ==
    ASSUME NEW S, NEW q \in Seq(S), Len(q) <= WriteQueueSize
    PROVE  Len(q) < WriteQueueSize \/ Len(q) = WriteQueueSize
BY SizesAssumption

\* The entries after a push: the new request, and every old one but the evicted;
\* none twice if the old queue had none twice and not the new one.
LEMMA EnqueuedEntries ==
    ASSUME NEW q \in Seq(Request), NEW r \in Request, Len(q) <= WriteQueueSize,
           \A i, j \in DOMAIN q : q[i] = q[j] => i = j,
           \A i \in DOMAIN q : q[i] # r
    PROVE  /\ \A i \in DOMAIN Enqueued(q, r) :
                 \/ Enqueued(q, r)[i] = r
                 \/ \E k \in DOMAIN q : Enqueued(q, r)[i] = q[k] /\ q[k] \notin Evicted(q)
           /\ \A i, j \in DOMAIN Enqueued(q, r) :
                 Enqueued(q, r)[i] = Enqueued(q, r)[j] => i = j
           /\ \A k \in DOMAIN q :
                 q[k] \in Evicted(q) \/ \E i \in DOMAIN Enqueued(q, r) : Enqueued(q, r)[i] = q[k]
           /\ \E i \in DOMAIN Enqueued(q, r) : Enqueued(q, r)[i] = r
           /\ \A e \in Evicted(q) : \E k \in DOMAIN q : e = q[k]
<1>. DEFINE n == Len(q)
            p == Enqueued(q, r)
            E == Evicted(q)
<1>1. n \in Nat /\ DOMAIN q = 1..n
  BY DomainFacts
<1>2. p \in Seq(Request) /\ DOMAIN p = 1..Len(p)
  BY EnqueuedProperties, DomainFacts
<1>3. CASE n < WriteQueueSize
  <2>1. /\ E = {}
        /\ Len(p) = n + 1
        /\ \A i \in 1..n : p[i] = q[i]
        /\ p[n + 1] = r
    <3>1. E = {} /\ p = Append(q, r)
      BY <1>1, <1>3, SizesAssumption DEF Enqueued, Evicted
    <3>2. Len(p) = n + 1 /\ (\A i \in 1..n : p[i] = q[i]) /\ p[n + 1] = r
      BY <3>1, AppendProperties
    <3>. QED
      BY <3>1, <3>2
  <2>. HIDE DEF p, E
  <2>. QED
    BY <1>1, <1>2, <2>1 DEF p, E
<1>4. CASE n = WriteQueueSize
  <2>1. /\ n # 0
        /\ E = {q[1]}
        /\ Len(p) = n
        /\ \A i \in 1..(n - 1) : p[i] = q[i + 1]
        /\ p[n] = r
    BY <1>4, EnqueuedProperties, SizesAssumption
  <2>. HIDE DEF p, E, n
  <2>2. \A i \in 1..n : p[i] = r \/ \E k \in 1..n : p[i] = q[k] /\ q[k] \notin E
    <3>. TAKE i \in 1..n
    <3>1. CASE i = n
      BY <2>1, <3>1
    <3>2. CASE i # n
      <4>1. i \in 1..(n - 1) /\ i + 1 \in 1..n /\ 1 \in 1..n /\ i + 1 # 1
        BY <1>1, <2>1, <3>2
      <4>2. q[i + 1] # q[1]
        BY <1>1, <4>1
      <4>. QED
        BY <2>1, <4>1, <4>2
    <3>. QED
      BY <3>1, <3>2
  <2>3. \A i, j \in 1..n : p[i] = p[j] => i = j
    <3>. TAKE i, j \in 1..n
    <3>1. CASE i # n /\ j # n
      <4>1. /\ i \in 1..(n - 1) /\ i + 1 \in 1..n
            /\ j \in 1..(n - 1) /\ j + 1 \in 1..n
        BY <1>1, <3>1
      <4>2. q[i + 1] = q[j + 1] => i + 1 = j + 1
        BY <1>1, <4>1
      <4>. QED
        BY <1>1, <2>1, <4>1, <4>2
    <3>2. CASE i = n /\ j # n
      <4>1. j \in 1..(n - 1) /\ j + 1 \in 1..n
        BY <1>1, <3>2
      <4>. QED
        BY <1>1, <2>1, <3>2, <4>1
    <3>3. CASE i # n /\ j = n
      <4>1. i \in 1..(n - 1) /\ i + 1 \in 1..n
        BY <1>1, <3>3
      <4>. QED
        BY <1>1, <2>1, <3>3, <4>1
    <3>. QED
      BY <3>1, <3>2, <3>3
  <2>4. \A k \in 1..n : q[k] \in E \/ \E i \in 1..n : p[i] = q[k]
    <3>. TAKE k \in 1..n
    <3>1. CASE k = 1
      BY <2>1, <3>1
    <3>2. CASE k # 1
      <4>1. k - 1 \in 1..(n - 1) /\ k - 1 \in 1..n /\ (k - 1) + 1 = k
        BY <1>1, <3>2
      <4>2. p[k - 1] = q[(k - 1) + 1]
        BY <2>1, <4>1
      <4>. QED
        BY <4>1, <4>2
    <3>. QED
      BY <3>1, <3>2
  <2>5. n \in 1..n /\ 1 \in 1..n
    BY <1>1, <2>1
  <2>. QED
    BY <1>1, <1>2, <2>1, <2>2, <2>3, <2>4, <2>5 DEF p, E, n
<1>5. n < WriteQueueSize \/ n = WriteQueueSize
  BY BelowOrFull
<1>. QED
  BY <1>3, <1>4, <1>5

\* Settle changes a future only from "pending", and only for the requests it names.
LEMMA SettleValues ==
    ASSUME NEW f, NEW rs, NEW a
    PROVE  \A r \in Request :
              Settle(f, rs, a)[r] = IF r \in rs /\ f[r] = "pending" THEN a ELSE f[r]
BY DEF Settle
-----------------------------------------------------------------------------
(* The inductive invariant, action by action. *)

\* An idle port satisfies the pipeline's invariant.
LEMMA PipelineInit == Init => PipelineInv
<1>. SUFFICES ASSUME Init PROVE PipelineInv
  OBVIOUS
<1>1. TypeOK
  BY TypeInit
<1>2. queue = <<>> /\ waiters = <<>> /\ DOMAIN queue = {} /\ DOMAIN waiters = {}
  BY DEF Init
<1>3. QueueInv /\ WaitersInv
  BY <1>2 DEF QueueInv, WaitersInv
<1>. QED
  BY <1>1, <1>3 DEF Init, PipelineInv, HolderInv, LoopInv, FreshInv, DeliveredInv,
                    EvictedInv, NoOrphanedCaller, HonestAnswers

\* A push, with or without an eviction, keeps the invariant.
LEMMA PushWriteInv ==
    ASSUME PipelineInv, TypeOK', NEW awaited \in BOOLEAN, PushWrite(awaited)
    PROVE  PipelineInv'
<1>. DEFINE r == submitted + 1
<1>. USE DEF PipelineInv
<1>1. /\ r \in Request
      /\ r > submitted
      /\ submitted \in Int
      /\ \A s \in Request : s > r => s > submitted
  BY RequestFacts DEF PushWrite, TypeOK, Request, OptRequest
<1>2. phase[r] = "new" /\ fut[r] = "none"
  BY <1>1 DEF FreshInv
<1>3. /\ submitted' = r
      /\ queue' = Enqueued(queue, r)
      /\ UNCHANGED <<loop, cur, cancelling, holder, waiters, delivered>>
  BY DEF PushWrite, loopVars, lockVars
<1>. DEFINE E == Evicted(queue)
<1>4. \A s \in Request :
         phase'[s] = IF s = r THEN "queued" ELSE IF s \in E THEN "evicted" ELSE phase[s]
  BY DEF PushWrite
<1>5. \A s \in Request : s # r =>
         fut'[s] = IF s \in E /\ fut[s] = "pending" THEN "cancelled" ELSE fut[s]
  BY SettleValues DEF PushWrite
<1>6. fut'[r] \in {"none", "pending"}
  BY <1>1 DEF PushWrite, Settle
<1>7. /\ queue \in Seq(Request) /\ Len(queue) <= WriteQueueSize
      /\ \A i, j \in DOMAIN queue : queue[i] = queue[j] => i = j
      /\ \A i \in DOMAIN queue : queue[i] \in Request /\ phase[queue[i]] = "queued"
      /\ \A i \in DOMAIN queue : queue[i] # r
  BY <1>2, DomainFacts DEF TypeOK, QueueInv
<1>8. /\ \A i \in DOMAIN queue' :
            queue'[i] = r \/ \E k \in DOMAIN queue : queue'[i] = queue[k] /\ queue[k] \notin E
      /\ \A i, j \in DOMAIN queue' : queue'[i] = queue'[j] => i = j
      /\ \A k \in DOMAIN queue :
            queue[k] \in E \/ \E i \in DOMAIN queue' : queue'[i] = queue[k]
      /\ \E i \in DOMAIN queue' : queue'[i] = r
      /\ \A e \in E : \E k \in DOMAIN queue : e = queue[k]
  BY <1>1, <1>3, <1>7, EnqueuedEntries
<1>. HIDE DEF r, E
<1>9. \A e \in E : e \in Request /\ phase[e] = "queued" /\ e # r
  BY <1>7, <1>8
<1>10. QueueInv'
  BY <1>1, <1>4, <1>7, <1>8 DEF QueueInv
<1>11. WaitersInv'
  <2>1. \A i \in DOMAIN waiters : waiters[i] \in Request
    BY DomainFacts DEF TypeOK
  <2>. QED
    BY <1>2, <1>3, <1>4, <1>9, <2>1 DEF WaitersInv
<1>12. HolderInv'
  BY <1>3, <1>4 DEF HolderInv
<1>13. LoopInv'
  <2>1. loop = "busy" => cur \in Request
    BY RequestFacts DEF TypeOK
  <2>. QED
    BY <1>2, <1>3, <1>4, <1>9, <2>1 DEF LoopInv
<1>14. FreshInv'
  <2>. SUFFICES ASSUME NEW s \in Request, s > r PROVE phase'[s] = "new" /\ fut'[s] = "none"
    BY <1>3 DEF FreshInv
  <2>1. s > submitted /\ s # r
    BY <1>1 DEF Request
  <2>2. phase[s] = "new" /\ fut[s] = "none"
    BY <2>1 DEF FreshInv
  <2>. QED
    BY <1>4, <1>5, <1>9, <2>1, <2>2
<1>15. DeliveredInv'
  <2>1. delivered \subseteq Request
    BY DEF TypeOK
  <2>. QED
    BY <1>2, <1>3, <1>4, <1>9, <2>1 DEF DeliveredInv
<1>16. EvictedInv'
  BY <1>3, <1>4, <1>5, <1>6, <1>9 DEF EvictedInv
<1>17. NoOrphanedCaller'
  <2>. SUFFICES ASSUME loop # "ended", NEW s \in Request, fut'[s] = "pending"
                PROVE  s \in ToSet(queue)' \/ (s = cur /\ loop = "busy")
    BY <1>3 DEF NoOrphanedCaller
  <2>0. queue' \in Seq(Request)
    BY DEF TypeOK
  <2>1. CASE s = r
    BY <1>8, <2>0, <2>1, DomainFacts
  <2>2. CASE s # r
    <3>1. fut[s] = "pending" /\ s \notin E
      BY <1>5, <2>2
    <3>2. CASE s \in ToSet(queue)
      BY <1>7, <1>8, <2>0, <3>1, <3>2, DomainFacts
    <3>3. CASE s = cur /\ loop = "busy"
      BY <3>3
    <3>. QED
      BY <3>1, <3>2, <3>3 DEF NoOrphanedCaller
  <2>. QED
    BY <2>1, <2>2
<1>18. HonestAnswers'
  <2>. SUFFICES ASSUME NEW s \in Request
                PROVE  /\ fut'[s] = "result" => s \in delivered \/ phase'[s] = "skipped"
                       /\ fut'[s] = "cancelled" /\ loop # "ended" => s \notin delivered
    BY <1>3 DEF HonestAnswers
  <2>1. CASE s = r
    BY <1>6, <2>1
  <2>2. CASE s # r /\ s \in E
    BY <1>5, <1>9, <2>2 DEF HonestAnswers, DeliveredInv
  <2>3. CASE s # r /\ s \notin E
    BY <1>4, <1>5, <2>3 DEF HonestAnswers
  <2>. QED
    BY <2>1, <2>2, <2>3
<1>. QED
  BY <1>10, <1>11, <1>12, <1>13, <1>14, <1>15, <1>16, <1>17, <1>18

\* A step that moves one request r, and answers nobody but r, keeps the parts of the
\* invariant that speak of the other requests.
LEMMA AcquireLockInv ==
    ASSUME PipelineInv, NEW r \in Request, AcquireLock(r),
           phase[r] \in {"queued", "transform"}
    PROVE  /\ WaitersInv'
           /\ HolderInv'
           /\ phase' \in {[phase EXCEPT ![r] = "write"], [phase EXCEPT ![r] = "lock"]}
<1>. USE DEF PipelineInv
<1>0. /\ waiters \in Seq(Request)
      /\ DOMAIN waiters = 1..Len(waiters)
      /\ Len(waiters) \in Nat
      /\ phase \in [Request -> Phase]
      /\ \A i \in DOMAIN waiters : waiters[i] \in Request /\ waiters[i] # r
  BY DomainFacts DEF TypeOK, WaitersInv
<1>1. CASE /\ holder = 0
           /\ holder' = r
           /\ phase' = [phase EXCEPT ![r] = "write"]
           /\ UNCHANGED waiters
  <2>1. \A s \in Request : phase[s] # "write"
    BY <1>1, RequestFacts DEF HolderInv
  <2>. QED
    BY <1>0, <1>1, <2>1 DEF HolderInv, WaitersInv
<1>2. CASE /\ waiters' = Append(waiters, r)
           /\ phase' = [phase EXCEPT ![r] = "lock"]
           /\ UNCHANGED holder
  <2>1. HolderInv'
    BY <1>0, <1>2 DEF HolderInv
  <2>2. /\ waiters' \in Seq(Request)
        /\ Len(waiters') = Len(waiters) + 1
        /\ \A i \in 1..Len(waiters) : waiters'[i] = waiters[i]
        /\ waiters'[Len(waiters) + 1] = r
    BY <1>0, <1>2, AppendProperties
  <2>3. DOMAIN waiters' = 1..(Len(waiters) + 1)
    BY <2>2, DomainFacts
  <2>4. \A i \in 1..(Len(waiters) + 1) : i \in 1..Len(waiters) \/ i = Len(waiters) + 1
    BY <1>0
  <2>5. WaitersInv'
    BY <1>0, <1>2, <2>2, <2>3, <2>4 DEF WaitersInv
  <2>. QED
    BY <1>2, <2>1, <2>5
<1>. QED
  BY <1>1, <1>2 DEF AcquireLock

\* Taking a request from the queue into the loop's hand keeps the invariant.
LEMMA LoopPopInv ==
    ASSUME PipelineInv, TypeOK', NEW transforms \in Transforms, LoopPop(transforms)
    PROVE  PipelineInv'
<1>. USE DEF PipelineInv
<1>. DEFINE r == Last(queue)
<1>1. /\ queue \in Seq(Request) /\ queue # <<>>
      /\ loop = "top" /\ loop' = "busy" /\ cur' = r
      /\ queue' = Front(queue)
      /\ UNCHANGED <<submitted, fut, cancelling, delivered>>
  BY DEF LoopPop, TypeOK
<1>2. /\ Len(queue) \in Nat \ {0}
      /\ DOMAIN queue = 1..Len(queue)
      /\ r = queue[Len(queue)] /\ r \in Request
      /\ DOMAIN queue' = 1..(Len(queue) - 1)
      /\ \A i \in 1..(Len(queue) - 1) : queue'[i] = queue[i]
      /\ \A i \in 1..(Len(queue) - 1) : i \in 1..Len(queue) /\ i # Len(queue)
      /\ \A i \in 1..Len(queue) : i \in 1..(Len(queue) - 1) \/ i = Len(queue)
      /\ Len(queue) \in 1..Len(queue)
  BY <1>1, FrontProperties, DomainFacts
<1>. HIDE DEF r
<1>3. /\ phase[r] = "queued"
      /\ \A i \in DOMAIN queue' : queue'[i] \in Request /\ queue'[i] # r
  <2>1. \A i \in 1..Len(queue) : queue[i] \in Request /\ phase[queue[i]] = "queued"
    BY <1>1, <1>2, DomainFacts DEF QueueInv
  <2>2. \A i \in 1..(Len(queue) - 1) : queue[i] # queue[Len(queue)]
    BY <1>2, Zenon DEF QueueInv
  <2>. QED
    BY <1>2, <2>1, <2>2
<1>4. phase \in [Request -> Phase]
  BY DEF TypeOK
<1>5. \/ /\ phase' = [phase EXCEPT ![r] = "transform"]
         /\ UNCHANGED <<holder, waiters, writing>>
      \/ AcquireLock(r)
  BY DEF LoopPop, lockVars, r
<1>6. /\ phase' \in {[phase EXCEPT ![r] = "transform"], [phase EXCEPT ![r] = "write"],
                     [phase EXCEPT ![r] = "lock"]}
      /\ WaitersInv'
      /\ HolderInv'
  <2>1. CASE AcquireLock(r)
    BY <1>2, <1>3, <2>1, AcquireLockInv
  <2>2. CASE /\ phase' = [phase EXCEPT ![r] = "transform"]
             /\ UNCHANGED <<holder, waiters, writing>>
    BY <1>3, <1>4, <2>2, DomainFacts DEF WaitersInv, HolderInv, TypeOK
  <2>. QED
    BY <1>5, <2>1, <2>2
<1>7. \A s \in Request : s # r => phase'[s] = phase[s]
  BY <1>4, <1>6
<1>8. phase'[r] \in {"transform", "write", "lock"}
  BY <1>2, <1>4, <1>6
<1>9. QueueInv'
  <2>1. \A i \in DOMAIN queue' : i \in DOMAIN queue /\ queue'[i] = queue[i]
    BY <1>2
  <2>. QED
    BY <1>3, <1>7, <2>1 DEF QueueInv
<1>10. LoopInv'
  BY <1>1, <1>8 DEF LoopInv
<1>11. FreshInv'
  BY <1>1, <1>3, <1>7 DEF FreshInv
<1>12. DeliveredInv'
  BY <1>1, <1>3, <1>7 DEF DeliveredInv, TypeOK
<1>13. EvictedInv'
  <2>1. fut[r] # "cancelled"
    BY <1>1, <1>2, <1>3 DEF EvictedInv
  <2>. QED
    BY <1>1, <1>7, <2>1 DEF EvictedInv
<1>14. NoOrphanedCaller'
  <2>. SUFFICES ASSUME NEW s \in Request, fut[s] = "pending"
                PROVE  s \in ToSet(queue)' \/ s = r
    BY <1>1 DEF NoOrphanedCaller
  <2>1. CASE s \in ToSet(queue)
    <3>1. PICK i \in 1..Len(queue) : queue[i] = s
      BY <1>1, <1>2, <2>1, DomainFacts
    <3>2. CASE i = Len(queue)
      BY <1>2, <3>1, <3>2
    <3>3. CASE i # Len(queue)
      <4>1. i \in DOMAIN queue' /\ queue'[i] = s
        BY <1>2, <3>1, <3>3
      <4>. QED
        BY <4>1, DomainFacts DEF TypeOK
    <3>. QED
      BY <3>2, <3>3
  <2>2. s \in ToSet(queue)
    BY <1>1 DEF NoOrphanedCaller
  <2>. QED
    BY <2>1, <2>2
<1>15. HonestAnswers'
  <2>1. fut[r] # "result"
    BY <1>2, <1>3 DEF HonestAnswers, DeliveredInv
  <2>. QED
    BY <1>1, <1>7, <2>1 DEF HonestAnswers
<1>. QED
  BY <1>6, <1>9, <1>10, <1>11, <1>12, <1>13, <1>14, <1>15

\* A request's task finishes (it is skipped, written or has failed) and its caller,
\* if the loop runs it, is answered.
LEMMA FinishInv ==
    ASSUME PipelineInv, TypeOK', NEW r \in Request,
           NEW a \in {"result", "error"}, NEW p \in {"skipped", "failed", "written"},
           phase' = [phase EXCEPT ![r] = p],
           r = cur => ~cancelling,
           Return(r, a),
           UNCHANGED <<submitted, queue, waiters>>,
           \/ phase[r] = "transform" /\ UNCHANGED holder
           \/ phase[r] = "write" /\ holder' = 0,
           delivered' \in {delivered, delivered \cup {r}},
           delivered' # delivered => p \in {"failed", "written"},
           a = "result" => r \in delivered' \/ p = "skipped"
    PROVE  PipelineInv'
<1>. USE DEF PipelineInv
<1>1. /\ phase \in [Request -> Phase]
      /\ phase'[r] = p
      /\ \A s \in Request : s # r => phase'[s] = phase[s]
      /\ phase[r] \in {"transform", "write"}
  BY DEF TypeOK
<1>2. /\ \A s \in Request : s # r => fut'[s] = fut[s]
      /\ fut'[r] = fut[r] \/ fut'[r] = a
      /\ r = cur => fut'[r] # "pending"
  BY SettleValues DEF Return
<1>3. /\ loop' = "ended" <=> loop = "ended"
      /\ loop' = "busy" => loop = "busy" /\ r # cur
      /\ r # cur => loop' = loop
      /\ cur' = cur /\ cancelling' = cancelling
  BY DEF Return, loopVars, LoopInv
<1>4. QueueInv'
  <2>1. \A i \in DOMAIN queue : queue[i] \in Request /\ queue[i] # r
    BY <1>1, DomainFacts DEF TypeOK, QueueInv
  <2>. QED
    BY <1>1, <2>1 DEF QueueInv
<1>5. WaitersInv'
  <2>1. \A i \in DOMAIN waiters : waiters[i] \in Request /\ waiters[i] # r
    BY <1>1, DomainFacts DEF TypeOK, WaitersInv
  <2>. QED
    BY <1>1, <2>1 DEF WaitersInv
<1>6. HolderInv'
  BY <1>1 DEF HolderInv
<1>7. LoopInv'
  <2>1. loop' = "busy" => cur \in Request
    BY <1>3, RequestFacts DEF TypeOK
  <2>. QED
    BY <1>1, <1>3, <2>1 DEF LoopInv
<1>8. FreshInv'
  BY <1>1, <1>2 DEF FreshInv
<1>9. DeliveredInv'
  BY <1>1 DEF DeliveredInv, TypeOK
<1>10. EvictedInv'
  BY <1>1, <1>2, <1>3 DEF EvictedInv
<1>11. NoOrphanedCaller'
  BY <1>2, <1>3 DEF NoOrphanedCaller
<1>12. HonestAnswers'
  <2>. SUFFICES ASSUME NEW s \in Request
                PROVE  /\ fut'[s] = "result" => s \in delivered' \/ phase'[s] = "skipped"
                       /\ fut'[s] = "cancelled" /\ loop # "ended" => s \notin delivered'
    BY <1>3 DEF HonestAnswers
  <2>1. CASE s = r
    <3>1. fut[r] # "result"
      BY <1>1 DEF HonestAnswers, DeliveredInv
    <3>2. loop # "ended" => fut[r] # "cancelled"
      BY <1>1 DEF EvictedInv
    <3>. QED
      BY <1>1, <1>2, <2>1, <3>1, <3>2
  <2>2. CASE s # r
    BY <1>1, <1>2, <2>2 DEF HonestAnswers
  <2>. QED
    BY <2>1, <2>2
<1>. QED
  BY <1>4, <1>5, <1>6, <1>7, <1>8, <1>9, <1>10, <1>11, <1>12

\* Every step of transform_and_write_value keeps the invariant.
LEMMA WriteStepInv ==
    ASSUME PipelineInv, TypeOK', NEW r \in Request, WriteStep(r)
    PROVE  PipelineInv'
<1>1. CASE TransformUnavailable(r)
  BY <1>1, FinishInv DEF TransformUnavailable, Resumes, lockVars
<1>2. CASE TransformFails(r)
  BY <1>2, FinishInv DEF TransformFails, Resumes, lockVars
<1>3. CASE WriteOk(r)
  BY <1>3, FinishInv DEF WriteOk, Resumes, ReleaseLock
<1>4. CASE WriteFails(r)
  BY <1>4, FinishInv DEF WriteFails, Resumes, ReleaseLock
<1>. USE DEF PipelineInv
<1>5. ASSUME phase[r] \in {"transform", "lock"},
             phase' \in {[phase EXCEPT ![r] = "write"], [phase EXCEPT ![r] = "lock"]},
             WaitersInv', HolderInv',
             UNCHANGED <<submitted, queue, fut, loop, cur, cancelling, delivered>>
      PROVE  PipelineInv'
  <2>1. /\ phase \in [Request -> Phase]
        /\ phase'[r] \in {"write", "lock"}
        /\ \A s \in Request : s # r => phase'[s] = phase[s]
    BY <1>5 DEF TypeOK
  <2>2. QueueInv'
    <3>1. \A i \in DOMAIN queue : queue[i] \in Request /\ queue[i] # r
      BY <1>5, DomainFacts DEF TypeOK, QueueInv
    <3>. QED
      BY <1>5, <2>1, <3>1 DEF QueueInv
  <2>3. LoopInv'
    <3>1. loop = "busy" => cur \in Request
      BY RequestFacts DEF TypeOK
    <3>. QED
      BY <1>5, <2>1, <3>1 DEF LoopInv
  <2>4. FreshInv'
    BY <1>5, <2>1 DEF FreshInv
  <2>5. DeliveredInv'
    BY <1>5, <2>1 DEF DeliveredInv, TypeOK
  <2>6. EvictedInv'
    BY <1>5, <2>1 DEF EvictedInv
  <2>7. NoOrphanedCaller'
    BY <1>5 DEF NoOrphanedCaller
  <2>8. HonestAnswers'
    <3>1. phase[r] # "skipped"
      BY <1>5
    <3>. QED
      BY <1>5, <2>1, <3>1 DEF HonestAnswers
  <2>. QED
    BY <1>5, <2>2, <2>3, <2>4, <2>5, <2>6, <2>7, <2>8
<1>6. CASE TransformOk(r)
  <2>1. AcquireLock(r) /\ phase[r] = "transform"
    BY <1>6 DEF TransformOk, Resumes
  <2>2. /\ WaitersInv' /\ HolderInv'
        /\ phase' \in {[phase EXCEPT ![r] = "write"], [phase EXCEPT ![r] = "lock"]}
    BY <2>1, AcquireLockInv
  <2>. QED
    BY <1>5, <1>6, <2>1, <2>2 DEF TransformOk, loopVars
<1>7. CASE LockGranted(r)
  <2>1. /\ waiters \in Seq(Request) /\ waiters # <<>>
        /\ r = Head(waiters) /\ waiters' = Tail(waiters)
        /\ holder = 0 /\ holder' = r
        /\ phase' = [phase EXCEPT ![r] = "write"]
        /\ phase \in [Request -> Phase]
    BY <1>7 DEF LockGranted, TypeOK
  <2>2. /\ Len(waiters) \in Nat \ {0}
        /\ DOMAIN waiters = 1..Len(waiters)
        /\ DOMAIN waiters' = 1..(Len(waiters) - 1)
        /\ \A i \in DOMAIN waiters' :
              waiters'[i] = waiters[i + 1] /\ i + 1 \in DOMAIN waiters /\ i + 1 # 1
        /\ r = waiters[1] /\ 1 \in DOMAIN waiters
    BY <2>1, HeadTailProperties, EmptySeq, DomainFacts
  <2>3. phase[r] = "lock"
    BY <2>2 DEF WaitersInv
  <2>4. WaitersInv'
    <3>1. \A i \in DOMAIN waiters' : waiters'[i] \in Request /\ waiters'[i] # r
      BY <2>1, <2>2, DomainFacts DEF WaitersInv
    <3>2. \A i \in DOMAIN waiters' : phase'[waiters'[i]] = "lock"
      BY <2>1, <2>2, <3>1 DEF WaitersInv
    <3>3. \A i, j \in DOMAIN waiters' : waiters'[i] = waiters'[j] => i = j
      <4>. TAKE i, j \in DOMAIN waiters'
      <4>1. i \in Int /\ j \in Int
        BY <2>2
      <4>2. waiters[i + 1] = waiters[j + 1] => i + 1 = j + 1
        BY <2>2 DEF WaitersInv
      <4>. QED
        BY <2>2, <4>1, <4>2
    <3>. QED
      BY <3>2, <3>3 DEF WaitersInv
  <2>5. HolderInv'
    <3>1. \A s \in Request : phase[s] # "write"
      BY <2>1, RequestFacts DEF HolderInv
    <3>. QED
      BY <2>1, <3>1 DEF HolderInv
  <2>. QED
    BY <1>5, <1>7, <2>1, <2>3, <2>4, <2>5 DEF LockGranted, loopVars
<1>. QED
  BY <1>1, <1>2, <1>3, <1>4, <1>6, <1>7 DEF WriteStep

\* The end of the loop keeps the invariant, wherever it was suspended.
LEMMA CancelLoopInv ==
    ASSUME PipelineInv, TypeOK', CancelLoop
    PROVE  PipelineInv'
<1>. USE DEF PipelineInv
<1>1. /\ cancelling /\ loop # "ended" /\ loop' = "ended"
      /\ UNCHANGED <<submitted, queue, cur, cancelling>>
  BY DEF CancelLoop
<1>2. \A s \in Request : fut'[s] = fut[s] \/ (fut'[s] = "cancelled" /\ fut[s] = "pending")
  BY SettleValues DEF CancelLoop
<1>3. loop = "busy" => cur \in Request /\ phase[cur] \in {"transform", "lock", "write"}
  BY RequestFacts DEF TypeOK, LoopInv
<1>4. /\ \A s \in Request : s # cur \/ loop # "busy" => phase'[s] = phase[s]
      /\ loop = "busy" => phase'[cur] = "dropped"
  BY <1>3 DEF CancelLoop, TypeOK
<1>5. QueueInv'
  <2>1. \A i \in DOMAIN queue :
           queue[i] \in Request /\ (loop = "busy" => queue[i] # cur)
    BY <1>3, DomainFacts DEF TypeOK, QueueInv
  <2>. QED
    BY <1>1, <1>4, <2>1 DEF QueueInv
<1>6. WaitersInv'
  <2>0. waiters \in Seq(Request) /\ \A i \in DOMAIN waiters : waiters[i] \in Request
    BY DomainFacts DEF TypeOK
  <2>1. CASE loop = "busy" /\ phase[cur] = "write"
    <3>1. waiters' = waiters /\ \A i \in DOMAIN waiters : waiters[i] # cur
      BY <2>1 DEF CancelLoop, ReleaseLock, WaitersInv
    <3>. QED
      BY <1>4, <2>0, <3>1 DEF WaitersInv
  <2>2. CASE cur \notin ToSet(waiters) /\ waiters' = waiters
    <3>1. \A i \in DOMAIN waiters : waiters[i] # cur
      BY <2>0, <2>2, DomainFacts
    <3>. QED
      BY <1>4, <2>0, <2>2, <3>1 DEF WaitersInv
  <2>3. ASSUME NEW k \in DOMAIN waiters,
               waiters[k] = cur, waiters' = RemoveAt(waiters, k)
        PROVE  WaitersInv'
    <3>. DEFINE m(i) == IF i < k THEN i ELSE i + 1
    <3>1. DOMAIN waiters = 1..Len(waiters) /\ Len(waiters) \in Nat
      BY <2>0, DomainFacts
    <3>2. /\ waiters' \in Seq(Request)
          /\ Len(waiters') = Len(waiters) - 1
          /\ \A i \in 1..(Len(waiters) - 1) :
                waiters'[i] = IF i < k THEN waiters[i] ELSE waiters[i + 1]
      BY <2>0, <2>3, <3>1, RemoveAtProperties
    <3>3. DOMAIN waiters' = 1..(Len(waiters) - 1)
      BY <3>2, DomainFacts
    <3>4. \A i \in DOMAIN waiters' :
             waiters'[i] = waiters[m(i)] /\ m(i) \in DOMAIN waiters /\ m(i) # k
      BY <3>1, <3>2, <3>3
    <3>5. \A i, j \in DOMAIN waiters' : m(i) = m(j) => i = j
      BY <3>1, <3>3
    <3>. HIDE DEF m
    <3>6. \A i \in DOMAIN waiters' : waiters'[i] # cur /\ waiters'[i] \in Request
      BY <2>0, <2>3, <3>4 DEF WaitersInv
    <3>7. \A i \in DOMAIN waiters' : phase'[waiters'[i]] = "lock"
      BY <1>4, <3>4, <3>6 DEF WaitersInv
    <3>8. \A i, j \in DOMAIN waiters' : waiters'[i] = waiters'[j] => i = j
      BY <3>4, <3>5 DEF WaitersInv
    <3>. QED
      BY <3>7, <3>8 DEF WaitersInv
  <2>. QED
    BY <2>1, <2>2, <2>3 DEF CancelLoop, LeaveLockQueue
<1>7. HolderInv'
  <2>1. CASE loop = "busy" /\ phase[cur] = "write"
    <3>1. \A s \in Request : s # cur => phase[s] # "write"
      BY <1>3, <2>1 DEF HolderInv
    <3>. QED
      BY <1>4, <2>1, <3>1 DEF HolderInv
  <2>2. CASE ~(loop = "busy" /\ phase[cur] = "write")
    BY <1>4, <2>2 DEF HolderInv, CancelLoop
  <2>. QED
    BY <2>1, <2>2
<1>8. LoopInv'
  BY <1>1 DEF LoopInv
<1>9. FreshInv'
  BY <1>1, <1>2, <1>3, <1>4 DEF FreshInv
<1>10. /\ delivered' \in {delivered, delivered \cup {cur}}
       /\ delivered' # delivered => loop = "busy"
  BY DEF CancelLoop
<1>11. DeliveredInv'
  BY <1>3, <1>4, <1>10 DEF DeliveredInv, TypeOK
<1>12. EvictedInv' /\ NoOrphanedCaller'
  BY <1>1 DEF EvictedInv, NoOrphanedCaller
<1>13. HonestAnswers'
  <2>. SUFFICES ASSUME NEW s \in Request, fut'[s] = "result"
                PROVE  s \in delivered' \/ phase'[s] = "skipped"
    BY <1>1 DEF HonestAnswers
  <2>1. s \in delivered \/ phase[s] = "skipped"
    BY <1>2 DEF HonestAnswers
  <2>. QED
    BY <1>3, <1>4, <1>10, <2>1
<1>. QED
  BY <1>5, <1>6, <1>7, <1>8, <1>9, <1>11, <1>12, <1>13

\* The invariant is inductive: one case for each action of the pipeline.
LEMMA PipelineStep == PipelineInv /\ [Next]_portVars => PipelineInv'
<1>. SUFFICES ASSUME PipelineInv, [Next]_portVars PROVE PipelineInv'
  OBVIOUS
<1>0. TypeOK'
  BY TypeStep DEF PipelineInv
<1>1. ASSUME NEW awaited \in BOOLEAN, PushWrite(awaited) PROVE PipelineInv'
  BY <1>0, <1>1, PushWriteInv
<1>2. CASE DirectWrite
  <2>. DEFINE r == submitted + 1
  <2>. USE DEF PipelineInv
  <2>1. /\ r \in Request /\ r > submitted
        /\ \A s \in Request : s > r => s > submitted /\ s # r
    BY <1>2, RequestFacts DEF DirectWrite, TypeOK, Request, OptRequest
  <2>2. /\ submitted' = r /\ phase' = [phase EXCEPT ![r] = "transform"]
        /\ phase \in [Request -> Phase]
        /\ UNCHANGED <<queue, fut, loop, cur, cancelling, holder, waiters, delivered>>
    BY <1>2 DEF DirectWrite, TypeOK, loopVars, lockVars
  <2>. HIDE DEF r
  <2>3. phase[r] = "new" /\ fut[r] = "none"
    BY <2>1 DEF FreshInv
  <2>4. \A s \in Request : s # r => phase'[s] = phase[s]
    BY <2>2
  <2>5. phase'[r] = "transform"
    BY <2>1, <2>2
  <2>6. /\ \A i \in DOMAIN queue : queue[i] \in Request /\ queue[i] # r
        /\ \A i \in DOMAIN waiters : waiters[i] \in Request /\ waiters[i] # r
    BY <2>3, DomainFacts DEF TypeOK, QueueInv, WaitersInv
  <2>7. QueueInv' /\ WaitersInv'
    BY <2>2, <2>4, <2>6 DEF QueueInv, WaitersInv
  <2>8. HolderInv'
    BY <2>2, <2>4, <2>5 DEF HolderInv
  <2>9. LoopInv'
    <3>1. loop = "busy" => cur \in Request
      BY RequestFacts DEF TypeOK
    <3>. QED
      BY <2>2, <2>4, <2>5, <3>1 DEF LoopInv
  <2>10. FreshInv'
    BY <2>1, <2>2, <2>4 DEF FreshInv
  <2>11. DeliveredInv'
    BY <2>2, <2>3, <2>4 DEF DeliveredInv, TypeOK
  <2>12. EvictedInv' /\ NoOrphanedCaller' /\ HonestAnswers'
    BY <2>2, <2>3, <2>4 DEF EvictedInv, NoOrphanedCaller, HonestAnswers
  <2>. QED
    BY <1>0, <2>7, <2>8, <2>9, <2>10, <2>11, <2>12
<1>3. CASE \/ Cleanup \/ LoopEmpty \/ LoopWake
  <2>. USE DEF PipelineInv
  <2>1. /\ UNCHANGED <<submitted, queue, fut, phase, holder, waiters, delivered>>
        /\ loop' \in {"top", "sleep", loop} /\ loop # "ended" /\ loop' # "ended"
        /\ loop' # loop => loop # "busy"
        /\ cur' = cur \/ loop' # "busy"
        /\ cancelling' = cancelling \/ cancelling'
    BY <1>3 DEF Cleanup, LoopEmpty, LoopWake, lockVars
  <2>2. LoopInv' /\ QueueInv' /\ WaitersInv' /\ HolderInv' /\ FreshInv' /\ DeliveredInv'
    BY <2>1 DEF LoopInv, QueueInv, WaitersInv, HolderInv, FreshInv, DeliveredInv
  <2>3. EvictedInv' /\ HonestAnswers'
    BY <2>1 DEF EvictedInv, HonestAnswers
  <2>4. NoOrphanedCaller'
    BY <1>3, <2>1 DEF NoOrphanedCaller, Cleanup, LoopEmpty, LoopWake
  <2>. QED
    BY <1>0, <2>2, <2>3, <2>4
<1>4. ASSUME NEW transforms \in Transforms, LoopPop(transforms) PROVE PipelineInv'
  BY <1>0, <1>4, LoopPopInv
<1>5. CASE CancelLoop
  BY <1>0, <1>5, CancelLoopInv
<1>6. ASSUME NEW r \in Request, WriteStep(r) PROVE PipelineInv'
  BY <1>0, <1>6, WriteStepInv
<1>7. CASE UNCHANGED portVars
  BY <1>0, <1>7 DEF portVars, PipelineInv, QueueInv, WaitersInv, HolderInv, LoopInv,
     FreshInv, DeliveredInv, EvictedInv, NoOrphanedCaller, HonestAnswers
<1>. QED
  BY <1>1, <1>2, <1>3, <1>4, <1>5, <1>6, <1>7 DEF Next, LoopStep

\* Each request is at one place of the pipeline and the answers agree with it.
THEOREM PipelineCorrect == Spec => []PipelineInv
BY PipelineInit, PipelineStep, PTL DEF Spec

\* While the write loop lives no caller waits for a request the loop does not hold.
THEOREM NoCallerOrphaned == Spec => []NoOrphanedCaller
<1>1. PipelineInv => NoOrphanedCaller
  BY DEF PipelineInv
<1>. QED
  BY <1>1, PipelineCorrect, PTL

\* The driver is never entered twice at a time.
THEOREM WritesExclusive == Spec => []OneWriteAtATime
<1>1. PipelineInv => OneWriteAtATime
  BY DEF PipelineInv, HolderInv, OneWriteAtATime
<1>. QED
  BY <1>1, PipelineCorrect, PTL

\* A caller told that its value was written can rely on it; one that was evicted was
\* not written.
THEOREM AnswersHonest == Spec => []HonestAnswers
<1>1. PipelineInv => HonestAnswers
  BY DEF PipelineInv
<1>. QED
  BY <1>1, PipelineCorrect, PTL

\* No step changes an answer: every action settles pending futures only, and a new
\* request's future was "none".
LEMMA AnswerKept ==
    PipelineInv /\ [Next]_portVars =>
        [\A r \in Request : fut[r] \in Answer => fut'[r] = fut[r]]_fut
<1>. SUFFICES ASSUME PipelineInv, [Next]_portVars, NEW r \in Request, fut[r] \in Answer
              PROVE  fut'[r] = fut[r]
  OBVIOUS
<1>0. fut[r] # "pending" /\ fut[r] # "none"
  BY DEF Answer
<1>1. ASSUME NEW awaited \in BOOLEAN, PushWrite(awaited) PROVE fut'[r] = fut[r]
  <2>1. submitted + 1 > submitted
    BY RequestFacts DEF PipelineInv, TypeOK, OptRequest
  <2>2. r # submitted + 1
    BY <1>0, <2>1 DEF PipelineInv, FreshInv
  <2>. QED
    BY <1>0, <1>1, <2>2, SettleValues DEF PushWrite
<1>2. CASE CancelLoop
  BY <1>0, <1>2, SettleValues DEF CancelLoop
<1>3. ASSUME NEW s \in Request, WriteStep(s) PROVE fut'[r] = fut[r]
  <2>1. ASSUME NEW a \in {"result", "error"}, Return(s, a) PROVE fut'[r] = fut[r]
    BY <1>0, <2>1, SettleValues DEF Return
  <2>. QED
    BY <1>3, <2>1 DEF WriteStep, LockGranted, TransformOk, TransformUnavailable,
                      TransformFails, WriteOk, WriteFails
<1>4. CASE DirectWrite \/ Cleanup \/ LoopEmpty \/ LoopWake \/ UNCHANGED portVars
  BY <1>4 DEF DirectWrite, Cleanup, LoopEmpty, LoopWake, portVars
<1>5. ASSUME NEW transforms \in Transforms, LoopPop(transforms) PROVE fut'[r] = fut[r]
  BY <1>5 DEF LoopPop
<1>. QED
  BY <1>1, <1>2, <1>3, <1>4, <1>5 DEF Next, LoopStep

\* A caller gets one answer.
THEOREM OneAnswer == Spec => AnsweredOnce
BY PipelineCorrect, AnswerKept, PTL DEF Spec, AnsweredOnce

-----------------------------------------------------------------------------
(* The refinement of the service the callers see. *)

\* A queue holds at most as many requests as it is long, and one more is in hand.
LEMMA HeldBound ==
    ASSUME NEW q \in Seq(Request), Len(q) <= WriteQueueSize, NEW c,
           NEW W \in SUBSET (ToSet(q) \cup {c})
    PROVE  Cardinality(W) <= WriteQueueSize + 1
<1>1. Len(q) \in Nat /\ q \in [1..Len(q) -> ToSet(q)]
  <2>1. q \in [1..Len(q) -> Request]
    BY DomainFacts, LenProperties
  <2>. QED
    BY <2>1, DomainFacts
<1>2. q \in Surjection(1..Len(q), ToSet(q))
  BY <1>1, DomainFacts, Fun_IsSurj
<1>3. IsFiniteSet(1..Len(q)) /\ Cardinality(1..Len(q)) = Len(q)
  BY <1>1, FS_Interval
<1>4. /\ IsFiniteSet(ToSet(q))
      /\ Cardinality(ToSet(q)) \in Nat
      /\ Cardinality(ToSet(q)) <= Len(q)
  BY <1>2, <1>3, FS_Surjection, FS_CardinalityType
<1>5. /\ IsFiniteSet(ToSet(q) \cup {c})
      /\ Cardinality(ToSet(q) \cup {c}) \in Nat
      /\ Cardinality(ToSet(q) \cup {c}) <= Cardinality(ToSet(q)) + 1
  <2>. DEFINE T == ToSet(q)
  <2>. HIDE DEF T
  <2>1. IsFiniteSet(T \cup {c}) /\ Cardinality(T \cup {c}) =
            IF c \in T THEN Cardinality(T) ELSE Cardinality(T) + 1
    BY <1>4, FS_AddElement DEF T
  <2>2. Cardinality(T) \in Nat
    BY <1>4 DEF T
  <2>. QED
    BY <2>1, <2>2 DEF T
<1>6. Cardinality(W) <= Cardinality(ToSet(q) \cup {c}) /\ Cardinality(W) \in Nat
  BY <1>5, FS_Subset, FS_CardinalityType
<1>. QED
  BY <1>1, <1>4, <1>5, <1>6, SizesAssumption

\* The service counts as the pipeline does.
LEMMA SameCount == \A S : Service!Cardinality(S) = Cardinality(S)
BY DEF Service!Cardinality, Cardinality

\* What settling futures is to the service: those of rs that wait are answered.
LEMMA SettleIsAnswering ==
    ASSUME fut \in [Request -> FutState], NEW rs, NEW a \in Answer
    PROVE  Settle(fut, rs, a) = Service!AnsweredWith({r \in rs : r \in Request /\ fut[r] = "pending"}, a)
BY DEF Settle, Service!AnsweredWith

\* While the loop lives, those who wait are in its hands.
LEMMA WaitingAreHeld ==
    PipelineInv /\ loop # "ended" => Service!Waiting(fut) \subseteq ToSet(queue) \cup {cur}
BY DEF PipelineInv, NoOrphanedCaller, Service!Waiting

\* A new port is a new service.
LEMMA ServiceInit == Init => Service!Init
BY DEF Init, Service!Init

\* A request with a future is an Ask; without one it at most turns a waiting caller away.
LEMMA PushIsServed ==
    ASSUME PipelineInv, PipelineInv', NEW awaited \in BOOLEAN, PushWrite(awaited)
    PROVE  [Service!Next]_Service!serviceVars
<1>. DEFINE r == submitted + 1
            turned == {s \in Evicted(queue) : s \in Request /\ fut[s] = "pending"}
<1>1. /\ r \in Request /\ fut[r] = "none"
      /\ fut \in [Request -> FutState] /\ loop' = loop /\ cur' = cur
  BY RequestFacts DEF PushWrite, PipelineInv, TypeOK, FreshInv, OptRequest, Request, loopVars
<1>2. turned \in {{}} \cup {{s} : s \in Service!Waiting(fut)}
  <2>1. Evicted(queue) = {} \/ \E e : Evicted(queue) = {e}
    BY DEF Evicted
  <2>. QED
    BY <2>1 DEF Service!Waiting
<1>3. Settle(fut, Evicted(queue), "cancelled") = Service!AnsweredWith(turned, "cancelled")
  BY <1>1, SettleIsAnswering DEF Answer
<1>4. CASE awaited
  <2>1. fut' = [Service!AnsweredWith(turned, "cancelled") EXCEPT ![r] = "pending"]
    BY <1>3, <1>4 DEF PushWrite
  <2>2. loop # "ended" => Cardinality(Service!Waiting(fut')) <= WriteQueueSize + 1
    <3>1. loop # "ended" => Service!Waiting(fut') \subseteq ToSet(queue') \cup {cur'}
      BY <1>1 DEF PipelineInv, NoOrphanedCaller, Service!Waiting
    <3>. QED
      BY <3>1, HeldBound DEF PipelineInv, TypeOK
  <2>. QED
    BY <1>1, <1>2, <2>1, <2>2, SameCount DEF Service!Next, Service!Ask
<1>5. CASE ~awaited
  <2>1. r \notin turned
    BY <1>1
  <2>2. fut' = Service!AnsweredWith(turned, "cancelled")
    BY <1>1, <1>3, <1>5, <2>1 DEF PushWrite, Service!AnsweredWith
  <2>3. CASE turned = {}
    <3>1. fut' = fut
      BY <1>1, <2>2, <2>3 DEF Service!AnsweredWith
    <3>. QED
      BY <1>1, <3>1 DEF Service!serviceVars
  <2>4. CASE \E s \in Service!Waiting(fut) : turned = {s}
    BY <1>1, <2>2, <2>4 DEF Service!Next, Service!TurnAway
  <2>. QED
    BY <1>2, <2>3, <2>4
<1>. QED
  BY <1>4, <1>5

\* A task that comes back answers the loop's caller, or nobody.
LEMMA ReturnIsServed ==
    ASSUME PipelineInv, NEW r \in Request, NEW a \in {"result", "error"},
           r = cur => ~cancelling, Return(r, a)
    PROVE  [Service!Next]_Service!serviceVars
<1>1. fut \in [Request -> FutState] /\ a \in Answer
  BY DEF PipelineInv, TypeOK, Answer
<1>2. CASE r = cur
  <2>1. loop # "ended" /\ loop' # "ended"
    BY <1>2 DEF PipelineInv, LoopInv, Return
  <2>2. CASE fut[r] = "pending"
    <3>1. fut' = Service!AnsweredWith({r}, a)
      BY <1>1, <1>2, <2>2 DEF Return, Settle, Service!AnsweredWith
    <3>. QED
      BY <2>1, <2>2, <3>1 DEF Service!Next, Service!Reply, Service!Waiting
  <2>3. CASE fut[r] # "pending"
    <3>1. fut' = fut
      BY <1>1, <1>2, <2>3 DEF Return, Settle
    <3>. QED
      BY <2>1, <3>1 DEF Service!serviceVars
  <2>. QED
    BY <2>2, <2>3
<1>3. CASE r # cur
  BY <1>3 DEF Return, loopVars, Service!serviceVars
<1>. QED
  BY <1>2, <1>3

\* The end of the loop is the end of the service: everybody who waits is in the loop's
\* hands, so everybody is told.
LEMMA CancelIsServed ==
    ASSUME PipelineInv, CancelLoop
    PROVE  [Service!Next]_Service!serviceVars
<1>1. /\ fut \in [Request -> FutState] /\ loop # "ended" /\ loop' = "ended"
      /\ fut' = Settle(fut, LoopCallers, "cancelled")
  BY DEF CancelLoop, PipelineInv, TypeOK
<1>2. {r \in LoopCallers : r \in Request /\ fut[r] = "pending"} = Service!Waiting(fut)
  BY <1>1, WaitingAreHeld DEF LoopCallers, Service!Waiting
<1>3. fut' = Service!AnsweredWith(Service!Waiting(fut), "cancelled")
  BY <1>1, <1>2, SettleIsAnswering DEF Answer
<1>. QED
  BY <1>1, <1>3 DEF Service!Next, Service!Stop

\* Every step of the pipeline is a step of the service or none.
LEMMA ServiceStep ==
    PipelineInv /\ PipelineInv' /\ [Next]_portVars => [Service!Next]_Service!serviceVars
<1>. SUFFICES ASSUME PipelineInv, PipelineInv', [Next]_portVars
              PROVE  [Service!Next]_Service!serviceVars
  OBVIOUS
<1>1. ASSUME NEW awaited \in BOOLEAN, PushWrite(awaited)
      PROVE  [Service!Next]_Service!serviceVars
  BY <1>1, PushIsServed
<1>2. CASE CancelLoop
  BY <1>2, CancelIsServed
<1>3. ASSUME NEW r \in Request, WriteStep(r) PROVE [Service!Next]_Service!serviceVars
  <2>1. CASE LockGranted(r) \/ TransformOk(r)
    BY <2>1 DEF LockGranted, TransformOk, loopVars, Service!serviceVars
  <2>2. CASE TransformUnavailable(r)
    BY <2>2, ReturnIsServed DEF TransformUnavailable, Resumes
  <2>3. CASE TransformFails(r)
    BY <2>3, ReturnIsServed DEF TransformFails, Resumes
  <2>4. CASE WriteOk(r)
    BY <2>4, ReturnIsServed DEF WriteOk, Resumes
  <2>5. CASE WriteFails(r)
    BY <2>5, ReturnIsServed DEF WriteFails, Resumes
  <2>. QED
    BY <1>3, <2>1, <2>2, <2>3, <2>4, <2>5 DEF WriteStep
<1>4. ASSUME NEW transforms \in Transforms, LoopPop(transforms)
      PROVE  [Service!Next]_Service!serviceVars
  BY <1>4 DEF LoopPop, Service!serviceVars
<1>5. CASE DirectWrite \/ Cleanup \/ LoopEmpty \/ LoopWake \/ UNCHANGED portVars
  BY <1>5 DEF DirectWrite, Cleanup, LoopEmpty, LoopWake, portVars, loopVars,
              Service!serviceVars
<1>. QED
  BY <1>1, <1>2, <1>3, <1>4, <1>5 DEF Next, LoopStep

\* The pipeline implements the service: whatever the queue, the lock and the transforms
\* do, its callers see no more than Ask, Reply, TurnAway and Stop.
THEOREM PipelineImplementsService == Spec => ImplementsService
BY ServiceInit, ServiceStep, PipelineCorrect, PTL DEF Spec, ImplementsService, Service!Spec

=============================================================================
