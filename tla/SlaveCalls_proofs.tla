-------------------------- MODULE SlaveCalls_proofs --------------------------
(***************************************************************************)
(* Proofs about the API calls to a slave, for every set of workers, queue  *)
(* size and number of retries.                                             *)
(***************************************************************************)
EXTENDS SlaveCalls, SequenceTheorems, TLAPS

-----------------------------------------------------------------------------
(* Attempts and the queue. *)

\* Attempts are pairs of a call and a number of retries; None is none of them.
LEMMA AttemptFacts ==
    /\ \A c \in Call, k \in 0..RetryCount : <<c, k>> \in Attempt
    /\ \A a \in Attempt : a[1] \in Call /\ a[2] \in 0..RetryCount /\ a = <<a[1], a[2]>>
    /\ None \notin Attempt
    /\ None \in OptAttempt
    /\ \A a \in Attempt : a \in OptAttempt /\ a # None
    /\ \A a \in OptAttempt : a # None => a \in Attempt
BY CallerAssumption DEF Attempt, Call, None, OptAttempt

\* The retry of an attempt that may be retried is an attempt of the same call.
LEMMA RetryOfFacts ==
    ASSUME NEW a \in Attempt, a[2] < RetryCount
    PROVE  /\ RetryOf(a) \in Attempt
           /\ RetryOf(a) = <<a[1], a[2] + 1>>
           /\ RetryOf(a) # a
  <1>1. a[1] \in Call /\ a[2] \in 0..RetryCount /\ a = <<a[1], a[2]>>
    BY AttemptFacts
  <1>2. a[2] + 1 \in 0..RetryCount /\ a[2] + 1 # a[2]
    BY <1>1, CallerAssumption
  <1>. QED
    BY <1>1, <1>2, AttemptFacts DEF RetryOf

\* The queue after put_nowait: the entries before, and the new one at the end.
LEMMA PutFacts ==
    ASSUME NEW S, NEW q \in Seq(S), NEW e \in S
    PROVE  /\ Append(q, e) \in Seq(S)
           /\ Len(Append(q, e)) = Len(q) + 1
           /\ DOMAIN Append(q, e) = 1..(Len(q) + 1)
           /\ DOMAIN q = 1..Len(q)
           /\ Len(q) \in Nat
           /\ \A i \in 1..Len(q) : Append(q, e)[i] = q[i]
           /\ Append(q, e)[Len(q) + 1] = e
           /\ ToSet(Append(q, e)) = ToSet(q) \cup {e}
  <1>1. /\ Append(q, e) \in Seq(S)
        /\ Len(Append(q, e)) = Len(q) + 1
        /\ DOMAIN Append(q, e) = 1..(Len(q) + 1)
        /\ DOMAIN q = 1..Len(q)
        /\ Len(q) \in Nat
        /\ \A i \in 1..Len(q) : Append(q, e)[i] = q[i]
        /\ Append(q, e)[Len(q) + 1] = e
    BY AppendProperties, LenProperties
  <1>2. ToSet(Append(q, e)) = ToSet(q) \cup {e}
    <2>1. ASSUME NEW x \in ToSet(Append(q, e)) PROVE x \in ToSet(q) \cup {e}
      BY <1>1, <2>1 DEF ToSet
    <2>2. ASSUME NEW x \in ToSet(q) PROVE x \in ToSet(Append(q, e))
      BY <1>1, <2>2 DEF ToSet
    <2>3. e \in ToSet(Append(q, e))
      BY <1>1 DEF ToSet
    <2>. QED
      BY <2>1, <2>2, <2>3
  <1>. QED
    BY <1>1, <1>2

\* The queue after get: the head is gone and, if no entry is there twice, only it.
LEMMA GetFacts ==
    ASSUME NEW S, NEW q \in Seq(S), q # <<>>
    PROVE  /\ Tail(q) \in Seq(S)
           /\ Head(q) \in S
           /\ Head(q) = q[1]
           /\ Head(q) \in ToSet(q)
           /\ Len(q) \in Nat \ {0}
           /\ Len(Tail(q)) = Len(q) - 1
           /\ DOMAIN q = 1..Len(q)
           /\ DOMAIN Tail(q) = 1..(Len(q) - 1)
           /\ \A i \in 1..(Len(q) - 1) : Tail(q)[i] = q[i + 1]
           /\ (\A i, j \in DOMAIN q : q[i] = q[j] => i = j)
                 => ToSet(Tail(q)) = ToSet(q) \ {Head(q)}
  <1>1. /\ Tail(q) \in Seq(S)
        /\ Head(q) \in S
        /\ Head(q) = q[1]
        /\ Len(q) \in Nat \ {0}
        /\ Len(Tail(q)) = Len(q) - 1
        /\ DOMAIN q = 1..Len(q)
        /\ \A i \in 1..(Len(q) - 1) : Tail(q)[i] = q[i + 1]
    BY HeadTailProperties, LenProperties, EmptySeq
  <1>2. DOMAIN Tail(q) = 1..(Len(q) - 1)
    BY <1>1, LenProperties
  <1>3. Head(q) \in ToSet(q)
    BY <1>1 DEF ToSet
  <1>4. ASSUME \A i, j \in DOMAIN q : q[i] = q[j] => i = j
        PROVE  ToSet(Tail(q)) = ToSet(q) \ {Head(q)}
    <2>1. ASSUME NEW i \in 1..(Len(q) - 1)
          PROVE  q[i + 1] \in ToSet(q) /\ q[i + 1] # q[1]
      <3>1. i + 1 \in DOMAIN q /\ 1 \in DOMAIN q /\ i + 1 # 1
        BY <1>1
      <3>. QED
        BY <3>1, <1>4 DEF ToSet
    <2>2. ASSUME NEW i \in 1..Len(q), q[i] # q[1]
          PROVE  \E j \in 1..(Len(q) - 1) : Tail(q)[j] = q[i]
      <3>1. i - 1 \in 1..(Len(q) - 1) /\ (i - 1) + 1 = i
        BY <1>1, <2>2
      <3>. QED
        BY <3>1, <1>1
    <2>3. ToSet(q) = {q[i] : i \in 1..Len(q)} /\ ToSet(Tail(q)) = {Tail(q)[i] : i \in 1..(Len(q) - 1)}
      BY <1>1, <1>2 DEF ToSet
    <2>4. ASSUME NEW x \in ToSet(Tail(q)) PROVE x \in ToSet(q) \ {Head(q)}
      BY <1>1, <2>1, <2>3
    <2>5. ASSUME NEW x \in ToSet(q) \ {Head(q)} PROVE x \in ToSet(Tail(q))
      BY <1>1, <2>2, <2>3
    <2>. QED
      BY <2>4, <2>5
  <1>. QED
    BY <1>1, <1>2, <1>3, <1>4

-----------------------------------------------------------------------------
(* Type correctness. *)

\* A new slave's caller is well typed.
LEMMA TypeInit == Init => TypeOK
<1>. SUFFICES ASSUME Init PROVE TypeOK
  OBVIOUS
<1>1. queue \in Seq(Attempt) /\ Len(queue) = 0
  BY EmptySeq DEF Init
<1>2. asked \in 0..MaxCalls /\ Len(queue) <= MaxQueued
  BY <1>1, CallerAssumption DEF Init
<1>. QED
  BY <1>1, <1>2, AttemptFacts DEF Init, TypeOK, State

\* A worker that is done leaves well-typed variables.
LEMMA FinishType ==
    ASSUME TypeOK, NEW w \in Worker, work[w] # None, NEW answer \in Answer, Finish(w, answer)
    PROVE  state' \in [Attempt -> State] /\ work' \in [Worker -> OptAttempt]
BY AttemptFacts DEF TypeOK, Finish, State

\* A worker sleeps or waits only over an attempt that has a retry.
LEMMA SleepFacts ==
    ASSUME TypeOK, RetryInv, NEW a \in Attempt, state[a] \in Blocked
    PROVE  /\ a[2] < RetryCount
           /\ RetryOf(a) \in Attempt
           /\ RetryOf(a) # a
  <1>1. a[1] \in Call /\ a[2] \in 0..RetryCount /\ a = <<a[1], a[2]>>
    BY AttemptFacts
  <1>2. a[2] < retries[a[1]]
    BY <1>1 DEF RetryInv
  <1>3. retries[a[1]] \in {0, RetryCount}
    BY <1>1 DEF TypeOK
  <1>4. a[2] < RetryCount
    BY <1>1, <1>2, <1>3, CallerAssumption
  <1>. QED
    BY <1>4, RetryOfFacts

\* Every step keeps the variables' types and the queue's size.
LEMMA TypeStep == TypeOK /\ RetryInv /\ [Next]_vars => TypeOK'
<1>. SUFFICES ASSUME TypeOK, RetryInv, [Next]_vars PROVE TypeOK'
  OBVIOUS
<1>. USE DEF TypeOK
<1>1. ASSUME NEW n \in BOOLEAN, ApiCall(n) PROVE TypeOK'
  <2>. DEFINE c == asked + 1
  <2>1. c \in Call /\ c \in 0..MaxCalls /\ <<c, 0>> \in Attempt
    BY <1>1, CallerAssumption, AttemptFacts DEF ApiCall, Call
  <2>. HIDE DEF c
  <2>2. asked' = c /\ retries' = [retries EXCEPT ![c] = IF n THEN 0 ELSE RetryCount]
    BY <1>1 DEF ApiCall, c
  <2>3. retries' \in [Call -> {0, RetryCount}]
    BY <2>1, <2>2
  <2>4. UNCHANGED <<work, lastRef, enabled, stopped>>
    BY <1>1 DEF ApiCall
  <2>5. CASE Room /\ queue' = Append(queue, <<c, 0>>)
             /\ state' = [state EXCEPT ![<<c, 0>>] = "queued"]
    <3>1. queue' \in Seq(Attempt) /\ Len(queue') = Len(queue) + 1 /\ Len(queue) \in Nat
      BY <2>1, <2>5, PutFacts
    <3>2. Len(queue') <= MaxQueued
      BY <3>1, <2>5, CallerAssumption DEF Room
    <3>3. state' \in [Attempt -> State]
      BY <2>1, <2>5 DEF State
    <3>. QED
      BY <2>1, <2>2, <2>3, <2>4, <3>1, <3>2, <3>3
  <2>6. CASE ~Room /\ state' = [state EXCEPT ![<<c, 0>>] = "error"] /\ UNCHANGED queue
    <3>1. state' \in [Attempt -> State]
      BY <2>1, <2>6 DEF State, Answer
    <3>. QED
      BY <2>1, <2>2, <2>3, <2>4, <2>6, <3>1
  <2>. QED
    BY <1>1, <2>5, <2>6 DEF ApiCall, c
<1>2. ASSUME NEW w \in Worker, Start(w) PROVE TypeOK'
  <2>1. /\ Tail(queue) \in Seq(Attempt)
        /\ Head(queue) \in Attempt
        /\ Len(Tail(queue)) = Len(queue) - 1
        /\ Len(queue) \in Nat
    BY <1>2, GetFacts DEF Start
  <2>2. Len(queue') <= MaxQueued /\ queue' \in Seq(Attempt)
    BY <1>2, <2>1, CallerAssumption DEF Start, Rest
  <2>3. state' \in [Attempt -> State] /\ work' \in [Worker -> OptAttempt]
    BY <1>2, <2>1, AttemptFacts DEF Start, State, InWork
  <2>. QED
    BY <1>2, <2>1, <2>2, <2>3, AttemptFacts DEF Start
<1>3. ASSUME NEW w \in Worker, FetchDone(w) PROVE TypeOK'
  BY <1>3, FinishType DEF FetchDone, Runs
<1>4. ASSUME NEW w \in Worker, RetryLater(w) PROVE TypeOK'
  <2>1. state' \in [Attempt -> State]
    BY <1>4, AttemptFacts DEF RetryLater, Runs, State, InWork, Blocked
  <2>. QED
    BY <1>4, <2>1 DEF RetryLater
<1>5. ASSUME NEW w \in Worker, GiveUp(w) PROVE TypeOK'
  BY <1>5, FinishType DEF GiveUp, Runs, Answer
<1>6. ASSUME NEW w \in Worker, Retry(w) PROVE TypeOK'
  <2>. DEFINE a == work[w]
  <2>1. a \in Attempt /\ state[a] = "sleeping"
    BY <1>6, AttemptFacts DEF Retry, Runs
  <2>2. RetryOf(a) \in Attempt
    BY <2>1, SleepFacts DEF Blocked
  <2>3. CASE Room /\ queue' = Append(queue, RetryOf(a)) /\ UNCHANGED work
             /\ state' = [state EXCEPT ![a] = "waiting", ![RetryOf(a)] = "queued"]
    <3>1. queue' \in Seq(Attempt) /\ Len(queue') = Len(queue) + 1 /\ Len(queue) \in Nat
      BY <2>2, <2>3, PutFacts
    <3>2. Len(queue') <= MaxQueued
      BY <3>1, <2>3, CallerAssumption DEF Room
    <3>3. state' \in [Attempt -> State]
      BY <2>1, <2>2, <2>3 DEF State, InWork, Blocked
    <3>. QED
      BY <1>6, <2>3, <3>1, <3>2, <3>3 DEF Retry
  <2>4. CASE Finish(w, "error") /\ UNCHANGED queue
    BY <1>6, <2>4, FinishType DEF Retry, Runs, Answer
  <2>. QED
    BY <1>6, <2>3, <2>4 DEF Retry
<1>7. ASSUME NEW w \in Worker, RetryDone(w) PROVE TypeOK'
  BY <1>7, FinishType DEF RetryDone, Runs
<1>8. ASSUME SetEnabled PROVE TypeOK'
  BY <1>8 DEF SetEnabled
<1>9. ASSUME RemoveSlave PROVE TypeOK'
  BY <1>9 DEF RemoveSlave
<1>10. ASSUME UNCHANGED vars PROVE TypeOK'
  BY <1>10 DEF vars
<1>. QED
  BY <1>1, <1>2, <1>3, <1>4, <1>5, <1>6, <1>7, <1>8, <1>9, <1>10 DEF Next, WorkerStep

-----------------------------------------------------------------------------
(* The inductive invariant, action by action. *)

\* What CallsInv says of the attempts of a call besides their places.
Chains == FreshInv /\ RetryInv /\ ChainInv /\ RetriedInv /\ RetryDecides

\* Before the first call no attempt exists.
LEMMA CallsInit == Init => CallsInv
<1>. SUFFICES ASSUME Init PROVE CallsInv
  OBVIOUS
<1>1. TypeOK
  BY TypeInit
<1>2. \A a \in Attempt : state[a] = "new"
  BY DEF Init
<1>3. OnePlace
  <2>1. queue = <<>> /\ DOMAIN queue = {} /\ ToSet(queue) = {}
    BY DEF Init, ToSet
  <2>2. \A w \in Worker : work[w] = None
    BY DEF Init
  <2>. QED
    BY <1>2, <2>1, <2>2, AttemptFacts DEF OnePlace, InWork, Blocked
<1>4. \A c \in Call, k \in 0..RetryCount : state[<<c, k>>] = "new"
  BY <1>2, AttemptFacts
<1>5. FreshInv /\ RetryInv /\ ChainInv
  BY <1>4 DEF FreshInv, RetryInv, ChainInv, InWork, Blocked
<1>6. RetriedInv /\ RetryDecides
  <2>1. ASSUME NEW k \in 0..RetryCount, k < RetryCount PROVE k + 1 \in 0..RetryCount
    BY <2>1, CallerAssumption
  <2>. QED
    BY <1>4, <2>1 DEF RetriedInv, RetryDecides, Answer
<1>. QED
  BY <1>1, <1>3, <1>5, <1>6 DEF CallsInv

\* A new call, queued or refused, keeps the invariant: its attempts are fresh.
LEMMA ApiCallInv ==
    ASSUME CallsInv, NEW n \in BOOLEAN, ApiCall(n)
    PROVE  OnePlace' /\ Chains'
<1>. DEFINE c == asked + 1
            e == <<c, 0>>
<1>. USE DEF CallsInv
<1>1. c \in Call /\ c > asked /\ e \in Attempt /\ asked \in Nat
  BY CallerAssumption, AttemptFacts DEF ApiCall, Call, TypeOK
<1>2. /\ asked' = c
      /\ \A d \in Call : d # c => retries'[d] = retries[d]
      /\ work' = work
  BY <1>1 DEF ApiCall, TypeOK
<1>3. \A k \in 0..RetryCount : state[<<c, k>>] = "new"
  BY <1>1 DEF FreshInv
<1>4. \/ /\ Room /\ queue' = Append(queue, e)
         /\ state' = [state EXCEPT ![e] = "queued"]
      \/ /\ queue' = queue
         /\ state' = [state EXCEPT ![e] = "error"]
  BY DEF ApiCall
<1>. HIDE DEF c
<1>5. /\ state'[e] \in {"queued", "error"}
      /\ \A a \in Attempt : a # e => state'[a] = state[a]
  BY <1>1, <1>4 DEF TypeOK
<1>6. state[e] = "new"
  BY <1>3, CallerAssumption
<1>. HIDE DEF e
<1>7. OnePlace'
  <2>1. CASE queue' = Append(queue, e) /\ state' = [state EXCEPT ![e] = "queued"]
    <3>1. e \notin ToSet(queue)
      BY <1>1, <1>6 DEF OnePlace
    <3>2. \A i \in DOMAIN queue : queue[i] # e
      BY <3>1 DEF ToSet
    <3>3. \A i, j \in DOMAIN queue' : queue'[i] = queue'[j] => i = j
      <4>1. /\ DOMAIN queue' = 1..(Len(queue) + 1)
            /\ DOMAIN queue = 1..Len(queue)
            /\ Len(queue) \in Nat
            /\ \A i \in 1..Len(queue) : queue'[i] = queue[i]
            /\ queue'[Len(queue) + 1] = e
        BY <1>1, <2>1, PutFacts DEF TypeOK
      <4>. QED
        BY <3>2, <4>1 DEF OnePlace
    <3>4. ToSet(queue') = ToSet(queue) \cup {e}
      BY <1>1, <2>1, PutFacts DEF TypeOK
    <3>5. state'[e] = "queued"
      BY <1>1, <2>1 DEF TypeOK
    <3>6. \A a \in Attempt : state'[a] = "queued" <=> a \in ToSet(queue')
      BY <1>5, <3>4, <3>5 DEF OnePlace
    <3>7. \A a \in Attempt : state'[a] \in InWork <=> \E w \in Worker : work'[w] = a
      BY <1>2, <1>5, <1>6, <3>5 DEF OnePlace, InWork, Blocked
    <3>. QED
      BY <1>2, <3>3, <3>6, <3>7 DEF OnePlace
  <2>2. CASE queue' = queue /\ state' = [state EXCEPT ![e] = "error"]
    <3>1. state'[e] = "error"
      BY <1>1, <2>2 DEF TypeOK
    <3>2. \A a \in Attempt : state'[a] = "queued" <=> state[a] = "queued"
      BY <1>5, <1>6, <3>1
    <3>3. \A a \in Attempt : state'[a] \in InWork <=> state[a] \in InWork
      BY <1>5, <1>6, <3>1 DEF InWork, Blocked
    <3>. QED
      BY <1>2, <2>2, <3>2, <3>3 DEF OnePlace
  <2>. QED
    BY <1>4, <2>1, <2>2
<1>8. \A d \in Call, k \in 0..RetryCount :
        /\ d # c \/ k # 0 => state'[<<d, k>>] = state[<<d, k>>]
        /\ d = c /\ k # 0 => state'[<<d, k>>] = "new"
        /\ d = c /\ k = 0 => state'[<<d, k>>] \in {"queued", "error"}
  <2>. TAKE d \in Call, k \in 0..RetryCount
  <2>1. <<d, k>> \in Attempt
    BY AttemptFacts
  <2>2. (d # c \/ k # 0) <=> <<d, k>> # e
    BY DEF e
  <2>. QED
    BY <1>3, <1>5, <2>1, <2>2
<1>9. FreshInv'
  BY <1>1, <1>2, <1>8 DEF FreshInv, Call
<1>10. RetryInv'
  BY <1>2, <1>8 DEF RetryInv, Blocked
<1>11. ChainInv'
  <2>. SUFFICES ASSUME NEW d \in Call, NEW j \in 0..RetryCount, NEW k \in 0..RetryCount,
                       j < k, state'[<<d, k>>] \in {"queued"} \cup InWork
                PROVE  state'[<<d, j>>] = "waiting"
    BY DEF ChainInv
  <2>1. d # c /\ k # 0
    BY <1>8 DEF InWork, Blocked
  <2>. QED
    BY <1>8, <2>1 DEF ChainInv
<1>12. ASSUME NEW d \in Call, NEW k \in 0..RetryCount, k < RetryCount
       PROVE  /\ k + 1 \in 0..RetryCount
              /\ k + 1 # 0
              /\ d = c => state'[<<d, k + 1>>] = "new"
              /\ state'[<<d, k + 1>>] = state[<<d, k + 1>>]
  BY <1>8, <1>12, CallerAssumption
<1>13. RetriedInv'
  BY <1>8, <1>12 DEF RetriedInv
<1>14. RetryDecides'
  BY <1>8, <1>12 DEF RetryDecides
<1>. QED
  BY <1>7, <1>9, <1>10, <1>11, <1>13, <1>14 DEF Chains

\* A worker that takes the oldest entry keeps the invariant.
LEMMA StartInv ==
    ASSUME CallsInv, NEW w \in Worker, Start(w)
    PROVE  OnePlace' /\ Chains'
<1>. DEFINE h == Head(queue)
<1>. USE DEF CallsInv
<1>1. /\ h \in Attempt
      /\ state[h] = "queued"
      /\ Len(queue) \in Nat \ {0}
      /\ DOMAIN queue = 1..Len(queue)
      /\ DOMAIN queue' = 1..(Len(queue) - 1)
      /\ \A i \in 1..(Len(queue) - 1) : queue'[i] = queue[i + 1]
      /\ ToSet(queue') = ToSet(queue) \ {h}
  BY GetFacts DEF Start, Rest, TypeOK, OnePlace
<1>2. /\ asked' = asked /\ retries' = retries
      /\ state'[h] = "fetching"
      /\ \A a \in Attempt : a # h => state'[a] = state[a]
      /\ work[w] = None /\ work'[w] = h
      /\ \A v \in Worker : v # w => work'[v] = work[v]
  BY <1>1 DEF Start, TypeOK
<1>. HIDE DEF h
<1>3. \A v \in Worker : work[v] # h
  BY <1>1 DEF OnePlace, InWork, Blocked
<1>4. OnePlace'
  <2>1. \A i, j \in DOMAIN queue' : queue'[i] = queue'[j] => i = j
    <3>1. \A i \in 1..(Len(queue) - 1) : i + 1 \in DOMAIN queue
      BY <1>1
    <3>. QED
      BY <1>1, <3>1 DEF OnePlace
  <2>2. \A a \in Attempt : state'[a] = "queued" <=> a \in ToSet(queue')
    BY <1>1, <1>2 DEF OnePlace
  <2>3. \A a \in Attempt : state'[a] \in InWork <=> \E v \in Worker : work'[v] = a
    <3>. TAKE a \in Attempt
    <3>1. CASE a = h
      BY <1>2, <3>1 DEF InWork
    <3>2. CASE a # h
      BY <1>2, <3>2, AttemptFacts DEF OnePlace
    <3>. QED
      BY <3>1, <3>2
  <2>4. \A u, v \in Worker : work'[u] = work'[v] /\ work'[u] # None => u = v
    BY <1>2, <1>3 DEF OnePlace
  <2>. QED
    BY <2>1, <2>2, <2>3, <2>4 DEF OnePlace
<1>5. \A d \in Call, k \in 0..RetryCount :
        \/ state'[<<d, k>>] = state[<<d, k>>]
        \/ state[<<d, k>>] = "queued" /\ state'[<<d, k>>] = "fetching"
  BY <1>1, <1>2, AttemptFacts
<1>6. FreshInv'
  BY <1>2, <1>5 DEF FreshInv
<1>7. RetryInv'
  BY <1>2, <1>5 DEF RetryInv, Blocked
<1>8. ChainInv'
  <2>. SUFFICES ASSUME NEW d \in Call, NEW j \in 0..RetryCount, NEW k \in 0..RetryCount,
                       j < k, state'[<<d, k>>] \in {"queued"} \cup InWork
                PROVE  state'[<<d, j>>] = "waiting"
    BY DEF ChainInv
  <2>1. state[<<d, k>>] \in {"queued"} \cup InWork
    BY <1>5
  <2>2. state[<<d, j>>] = "waiting"
    BY <2>1 DEF ChainInv
  <2>. QED
    BY <1>5, <2>2
<1>9. ASSUME NEW k \in 0..RetryCount, k < RetryCount PROVE k + 1 \in 0..RetryCount
  BY <1>9, CallerAssumption
<1>10. RetriedInv'
  BY <1>5, <1>9 DEF RetriedInv, Answer
<1>11. RetryDecides'
  <2>. SUFFICES ASSUME NEW d \in Call, NEW k \in 0..RetryCount, k < RetryCount,
                       state'[<<d, k>>] \in Answer
                PROVE  state'[<<d, k + 1>>] \in {"new", state'[<<d, k>>]}
    BY DEF RetryDecides
  <2>1. state'[<<d, k>>] = state[<<d, k>>]
    BY <1>5 DEF Answer
  <2>2. state[<<d, k + 1>>] \in {"new", state[<<d, k>>]}
    BY <2>1 DEF RetryDecides
  <2>3. state[<<d, k + 1>>] # "queued"
    BY <2>1, <2>2 DEF Answer
  <2>. QED
    BY <1>5, <1>9, <2>1, <2>2, <2>3
<1>. QED
  BY <1>4, <1>6, <1>7, <1>8, <1>10, <1>11 DEF Chains

\* The end of an attempt under way keeps the invariant if the attempt has no retry, or
\* one that was answered in the same way.
LEMMA FinishInv ==
    ASSUME CallsInv, NEW w \in Worker, work[w] # None, state[work[w]] \in InWork,
           NEW answer \in Answer, Finish(w, answer),
           UNCHANGED <<asked, retries, queue>>,
           work[w][2] < RetryCount => state[RetryOf(work[w])] \in {"new", answer}
    PROVE  OnePlace' /\ Chains'
<1>. DEFINE a == work[w]
            c == a[1]
            m == a[2]
<1>. USE DEF CallsInv
<1>1. /\ a \in Attempt
      /\ c \in Call
      /\ m \in 0..RetryCount
      /\ a = <<c, m>>
  BY AttemptFacts DEF TypeOK
<1>2. /\ asked' = asked /\ retries' = retries /\ queue' = queue
      /\ state'[a] = answer
      /\ \A b \in Attempt : b # a => state'[b] = state[b]
      /\ work'[w] = None
      /\ \A v \in Worker : v # w => work'[v] = work[v]
  BY <1>1 DEF Finish, TypeOK
<1>3. state[a] \in InWork /\ a # None
  OBVIOUS
<1>4. ASSUME m < RetryCount PROVE state[<<c, m + 1>>] \in {"new", answer}
  BY <1>4 DEF RetryOf
<1>5. work[w] = a
  OBVIOUS
<1>. HIDE DEF a, c, m
<1>6. OnePlace'
  <2>1. \A b \in Attempt : state'[b] = "queued" <=> state[b] = "queued"
    BY <1>2, <1>3 DEF InWork, Blocked, Answer
  <2>2. \A b \in Attempt : state'[b] \in InWork <=> \E v \in Worker : work'[v] = b
    <3>. TAKE b \in Attempt
    <3>1. CASE b = a
      <4>1. state'[b] \notin InWork
        BY <1>2, <3>1 DEF Answer, InWork, Blocked
      <4>2. \A v \in Worker : v # w => work[v] # a
        BY <1>3, <1>5 DEF OnePlace
      <4>. QED
        BY <1>2, <1>3, <3>1, <4>1, <4>2
    <3>2. CASE b # a
      <4>1. b # None
        BY AttemptFacts
      <4>. QED
        BY <1>2, <1>5, <3>2, <4>1 DEF OnePlace
    <3>. QED
      BY <3>1, <3>2
  <2>3. \A u, v \in Worker : work'[u] = work'[v] /\ work'[u] # None => u = v
    BY <1>2 DEF OnePlace
  <2>. QED
    BY <1>2, <2>1, <2>2, <2>3 DEF OnePlace
<1>7. \A d \in Call, k \in 0..RetryCount :
        /\ d # c \/ k # m => state'[<<d, k>>] = state[<<d, k>>]
        /\ d = c /\ k = m => state'[<<d, k>>] = answer /\ state[<<d, k>>] \in InWork
  <2>. TAKE d \in Call, k \in 0..RetryCount
  <2>1. <<d, k>> \in Attempt
    BY AttemptFacts
  <2>2. (d # c \/ k # m) <=> <<d, k>> # a
    BY <1>1
  <2>. QED
    BY <1>1, <1>2, <1>3, <2>1, <2>2
<1>8. FreshInv'
  BY <1>2, <1>7 DEF FreshInv, InWork, Blocked
<1>9. RetryInv'
  BY <1>2, <1>7 DEF RetryInv, Answer, Blocked
<1>10. ChainInv'
  <2>. SUFFICES ASSUME NEW d \in Call, NEW j \in 0..RetryCount, NEW k \in 0..RetryCount,
                       j < k, state'[<<d, k>>] \in {"queued"} \cup InWork
                PROVE  state'[<<d, j>>] = "waiting"
    BY DEF ChainInv
  <2>1. d # c \/ k # m
    BY <1>7 DEF Answer, InWork, Blocked
  <2>2. state[<<d, k>>] \in {"queued"} \cup InWork
    BY <1>7, <2>1
  <2>3. state[<<d, j>>] = "waiting"
    BY <2>2 DEF ChainInv
  <2>4. ASSUME d = c, j = m PROVE FALSE
    <3>1. m < RetryCount /\ m + 1 \in 0..RetryCount /\ (k = m + 1 \/ m + 1 < k)
      BY <2>4, CallerAssumption
    <3>2. state[<<c, m + 1>>] \in {"new", answer}
      BY <1>4, <3>1
    <3>3. state[<<c, m + 1>>] \notin {"queued", "waiting"} \cup InWork
      BY <3>2 DEF Answer, InWork, Blocked
    <3>4. CASE k = m + 1
      BY <2>2, <2>4, <3>3, <3>4
    <3>5. CASE m + 1 < k
      BY <2>2, <2>4, <3>1, <3>3, <3>5 DEF ChainInv
    <3>. QED
      BY <3>1, <3>4, <3>5
  <2>. QED
    BY <1>7, <2>3, <2>4
<1>11. ASSUME NEW k \in 0..RetryCount, k < RetryCount
       PROVE  k + 1 \in 0..RetryCount /\ k + 1 # k
  BY <1>11, CallerAssumption
<1>12. RetriedInv'
  <2>. SUFFICES ASSUME NEW d \in Call, NEW k \in 0..RetryCount, k < RetryCount,
                       state'[<<d, k + 1>>] # "new"
                PROVE  state'[<<d, k>>] \in {"waiting"} \cup Answer
    BY DEF RetriedInv
  <2>1. CASE d = c /\ k = m
    BY <1>7, <2>1
  <2>2. CASE ~(d = c /\ k = m)
    <3>1. state[<<d, k + 1>>] # "new"
      BY <1>7, <1>11 DEF InWork, Blocked
    <3>. QED
      BY <1>7, <2>2, <3>1 DEF RetriedInv
  <2>. QED
    BY <2>1, <2>2
<1>13. RetryDecides'
  <2>. SUFFICES ASSUME NEW d \in Call, NEW k \in 0..RetryCount, k < RetryCount,
                       state'[<<d, k>>] \in Answer
                PROVE  state'[<<d, k + 1>>] \in {"new", state'[<<d, k>>]}
    BY DEF RetryDecides
  <2>1. CASE d = c /\ k = m
    <3>1. state'[<<d, k + 1>>] = state[<<d, k + 1>>]
      BY <1>7, <1>11, <2>1
    <3>. QED
      BY <1>4, <1>7, <2>1, <3>1
  <2>2. CASE ~(d = c /\ k = m)
    <3>1. state'[<<d, k>>] = state[<<d, k>>]
      BY <1>7, <2>2
    <3>2. state[<<d, k + 1>>] \in {"new", state[<<d, k>>]}
      BY <3>1 DEF RetryDecides
    <3>3. state[<<d, k + 1>>] \notin InWork
      BY <3>1, <3>2 DEF Answer, InWork, Blocked
    <3>. QED
      BY <1>7, <1>11, <3>1, <3>2, <3>3
  <2>. QED
    BY <2>1, <2>2
<1>. QED
  BY <1>6, <1>8, <1>9, <1>10, <1>12, <1>13 DEF Chains

\* A worker that goes to sleep over a failed attempt keeps the invariant.
LEMMA RetryLaterInv ==
    ASSUME CallsInv, NEW w \in Worker, RetryLater(w)
    PROVE  OnePlace' /\ Chains'
<1>. DEFINE a == work[w]
            c == a[1]
            m == a[2]
<1>. USE DEF CallsInv
<1>1. /\ a \in Attempt
      /\ c \in Call
      /\ m \in 0..RetryCount
      /\ a = <<c, m>>
      /\ m < retries[c]
      /\ state[a] = "fetching"
  BY AttemptFacts DEF TypeOK, RetryLater, Runs, MayRetry
<1>2. /\ asked' = asked /\ retries' = retries /\ queue' = queue /\ work' = work
      /\ state'[a] = "sleeping"
      /\ \A b \in Attempt : b # a => state'[b] = state[b]
  BY <1>1 DEF RetryLater, TypeOK
<1>. HIDE DEF a, c, m
<1>3. OnePlace'
  <2>1. \A b \in Attempt : state'[b] = "queued" <=> state[b] = "queued"
    BY <1>1, <1>2
  <2>2. \A b \in Attempt : state'[b] \in InWork <=> state[b] \in InWork
    BY <1>1, <1>2 DEF InWork, Blocked
  <2>. QED
    BY <1>2, <2>1, <2>2 DEF OnePlace
<1>4. \A d \in Call, k \in 0..RetryCount :
        /\ d # c \/ k # m => state'[<<d, k>>] = state[<<d, k>>]
        /\ d = c /\ k = m => state'[<<d, k>>] = "sleeping" /\ state[<<d, k>>] = "fetching"
  <2>. TAKE d \in Call, k \in 0..RetryCount
  <2>1. <<d, k>> \in Attempt
    BY AttemptFacts
  <2>2. (d # c \/ k # m) <=> <<d, k>> # a
    BY <1>1
  <2>. QED
    BY <1>1, <1>2, <2>1, <2>2
<1>5. FreshInv'
  BY <1>2, <1>4 DEF FreshInv
<1>6. RetryInv'
  BY <1>1, <1>2, <1>4 DEF RetryInv
<1>7. ChainInv'
  <2>. SUFFICES ASSUME NEW d \in Call, NEW j \in 0..RetryCount, NEW k \in 0..RetryCount,
                       j < k, state'[<<d, k>>] \in {"queued"} \cup InWork
                PROVE  state'[<<d, j>>] = "waiting"
    BY DEF ChainInv
  <2>1. state[<<d, k>>] \in {"queued"} \cup InWork
    BY <1>4 DEF InWork
  <2>2. state[<<d, j>>] = "waiting"
    BY <2>1 DEF ChainInv
  <2>. QED
    BY <1>4, <2>2
<1>8. ASSUME NEW k \in 0..RetryCount, k < RetryCount
      PROVE  k + 1 \in 0..RetryCount
  BY <1>8, CallerAssumption
<1>9. RetriedInv'
  <2>. SUFFICES ASSUME NEW d \in Call, NEW k \in 0..RetryCount, k < RetryCount,
                       state'[<<d, k + 1>>] # "new"
                PROVE  state'[<<d, k>>] \in {"waiting"} \cup Answer
    BY DEF RetriedInv
  <2>1. state[<<d, k + 1>>] # "new"
    BY <1>4, <1>8
  <2>2. state[<<d, k>>] \in {"waiting"} \cup Answer
    BY <2>1 DEF RetriedInv
  <2>. QED
    BY <1>4, <2>2 DEF Answer
<1>10. RetryDecides'
  <2>. SUFFICES ASSUME NEW d \in Call, NEW k \in 0..RetryCount, k < RetryCount,
                       state'[<<d, k>>] \in Answer
                PROVE  state'[<<d, k + 1>>] \in {"new", state'[<<d, k>>]}
    BY DEF RetryDecides
  <2>1. state'[<<d, k>>] = state[<<d, k>>]
    BY <1>4 DEF Answer
  <2>2. state[<<d, k + 1>>] \in {"new", state[<<d, k>>]}
    BY <2>1 DEF RetryDecides
  <2>3. state[<<d, k + 1>>] # "fetching"
    BY <2>1, <2>2 DEF Answer
  <2>. QED
    BY <1>4, <1>8, <2>1, <2>2, <2>3
<1>. QED
  BY <1>3, <1>5, <1>6, <1>7, <1>9, <1>10 DEF Chains

\* The nested call keeps the invariant: the attempt it makes was fresh, and the one
\* that waits for it is the last of its chain.
LEMMA RetryQueuedInv ==
    ASSUME CallsInv, NEW w \in Worker, Runs(w, "sleeping"),
           queue' = Append(queue, RetryOf(work[w])),
           state' = [state EXCEPT ![work[w]] = "waiting", ![RetryOf(work[w])] = "queued"],
           UNCHANGED <<asked, retries, work>>
    PROVE  OnePlace' /\ Chains'
<1>. DEFINE a == work[w]
            b == RetryOf(a)
            c == a[1]
            m == a[2]
<1>. USE DEF CallsInv
<1>1. /\ a \in Attempt
      /\ c \in Call
      /\ m \in 0..RetryCount
      /\ a = <<c, m>>
      /\ state[a] = "sleeping"
  BY AttemptFacts DEF TypeOK, Runs
<1>2. m < RetryCount /\ b \in Attempt /\ b # a /\ b = <<c, m + 1>>
  BY <1>1, SleepFacts DEF Blocked, RetryOf
<1>3. /\ asked' = asked /\ retries' = retries /\ work' = work
      /\ queue' = Append(queue, b)
      /\ state'[a] = "waiting"
      /\ state'[b] = "queued"
      /\ \A x \in Attempt : x # a /\ x # b => state'[x] = state[x]
  BY <1>1, <1>2 DEF TypeOK
<1>4. m < retries[c]
  BY <1>1 DEF RetryInv, Blocked
<1>5. state[b] = "new"
  BY <1>1, <1>2 DEF RetriedInv, Answer
<1>. HIDE DEF a, b, c, m
<1>6. OnePlace'
  <2>1. b \notin ToSet(queue)
    BY <1>2, <1>5 DEF OnePlace
  <2>2. \A i \in DOMAIN queue : queue[i] # b
    BY <2>1 DEF ToSet
  <2>3. /\ DOMAIN queue' = 1..(Len(queue) + 1)
        /\ DOMAIN queue = 1..Len(queue)
        /\ Len(queue) \in Nat
        /\ \A i \in 1..Len(queue) : queue'[i] = queue[i]
        /\ queue'[Len(queue) + 1] = b
        /\ ToSet(queue') = ToSet(queue) \cup {b}
    <3>1. queue \in Seq(Attempt)
      BY DEF TypeOK
    <3>2. /\ DOMAIN Append(queue, b) = 1..(Len(queue) + 1)
          /\ DOMAIN queue = 1..Len(queue)
          /\ Len(queue) \in Nat
          /\ \A i \in 1..Len(queue) : Append(queue, b)[i] = queue[i]
          /\ Append(queue, b)[Len(queue) + 1] = b
          /\ ToSet(Append(queue, b)) = ToSet(queue) \cup {b}
      BY <1>2, <3>1, PutFacts
    <3>3. queue' = Append(queue, b)
      BY <1>3
    <3>. QED
      BY <3>2, <3>3, Zenon
  <2>4. \A i, j \in DOMAIN queue' : queue'[i] = queue'[j] => i = j
    BY <2>2, <2>3 DEF OnePlace
  <2>5. \A x \in Attempt : state'[x] = "queued" <=> x \in ToSet(queue')
    BY <1>1, <1>2, <1>3, <2>3 DEF OnePlace
  <2>6. \A x \in Attempt : state'[x] \in InWork <=> state[x] \in InWork
    BY <1>1, <1>2, <1>3, <1>5 DEF InWork, Blocked
  <2>7. \A x \in Attempt : state'[x] \in InWork <=> \E v \in Worker : work'[v] = x
    BY <1>3, <2>6 DEF OnePlace
  <2>8. \A u, v \in Worker : work'[u] = work'[v] /\ work'[u] # None => u = v
    BY <1>3 DEF OnePlace
  <2>. QED
    BY <2>4, <2>5, <2>7, <2>8 DEF OnePlace
<1>7. \A d \in Call, k \in 0..RetryCount :
        /\ d # c \/ (k # m /\ k # m + 1) => state'[<<d, k>>] = state[<<d, k>>]
        /\ d = c /\ k = m => state'[<<d, k>>] = "waiting" /\ state[<<d, k>>] = "sleeping"
        /\ d = c /\ k = m + 1 => state'[<<d, k>>] = "queued" /\ state[<<d, k>>] = "new"
  <2>. TAKE d \in Call, k \in 0..RetryCount
  <2>1. <<d, k>> \in Attempt
    BY AttemptFacts
  <2>2. (d # c \/ k # m) <=> <<d, k>> # a
    BY <1>1
  <2>3. (d # c \/ k # m + 1) <=> <<d, k>> # b
    BY <1>2
  <2>. QED
    BY <1>1, <1>2, <1>3, <1>5, <2>1, <2>2, <2>3
<1>8. ~(c > asked)
  BY <1>1 DEF FreshInv
<1>9. FreshInv'
  BY <1>3, <1>7, <1>8 DEF FreshInv
<1>10. RetryInv'
  BY <1>3, <1>4, <1>7 DEF RetryInv, Blocked
<1>11. ChainInv'
  <2>. SUFFICES ASSUME NEW d \in Call, NEW j \in 0..RetryCount, NEW k \in 0..RetryCount,
                       j < k, state'[<<d, k>>] \in {"queued"} \cup InWork
                PROVE  state'[<<d, j>>] = "waiting"
    BY DEF ChainInv
  <2>1. CASE d = c /\ k = m + 1
    <3>1. j = m \/ j < m
      BY <1>1, <2>1
    <3>2. CASE j = m
      BY <1>7, <2>1, <3>2
    <3>3. CASE j < m
      <4>1. state[<<c, m>>] \in {"queued"} \cup InWork
        BY <1>1 DEF InWork, Blocked
      <4>2. state[<<d, j>>] = "waiting"
        BY <1>1, <2>1, <3>3, <4>1 DEF ChainInv
      <4>3. j # m /\ j # m + 1
        BY <1>1, <3>3
      <4>. QED
        BY <1>7, <4>2, <4>3
    <3>. QED
      BY <3>1, <3>2, <3>3
  <2>2. CASE ~(d = c /\ k = m + 1)
    <3>1. state[<<d, k>>] \in {"queued"} \cup InWork
      BY <1>7, <2>2 DEF InWork, Blocked
    <3>2. state[<<d, j>>] = "waiting"
      BY <3>1 DEF ChainInv
    <3>. QED
      BY <1>7, <3>2
  <2>. QED
    BY <2>1, <2>2
<1>12. ASSUME NEW k \in 0..RetryCount, k < RetryCount
       PROVE  k + 1 \in 0..RetryCount /\ k + 1 # k /\ (k + 1 = m + 1 => k = m)
  BY <1>1, <1>12, CallerAssumption
<1>13. RetriedInv'
  <2>. SUFFICES ASSUME NEW d \in Call, NEW k \in 0..RetryCount, k < RetryCount,
                       state'[<<d, k + 1>>] # "new"
                PROVE  state'[<<d, k>>] \in {"waiting"} \cup Answer
    BY DEF RetriedInv
  <2>1. CASE d = c /\ k = m
    BY <1>7, <2>1
  <2>2. CASE ~(d = c /\ k = m)
    <3>1. state[<<d, k + 1>>] # "new"
      BY <1>7, <1>12, <2>2
    <3>2. state[<<d, k>>] \in {"waiting"} \cup Answer
      BY <3>1 DEF RetriedInv
    <3>. QED
      BY <1>7, <3>2 DEF Answer
  <2>. QED
    BY <2>1, <2>2
<1>14. RetryDecides'
  <2>. SUFFICES ASSUME NEW d \in Call, NEW k \in 0..RetryCount, k < RetryCount,
                       state'[<<d, k>>] \in Answer
                PROVE  state'[<<d, k + 1>>] \in {"new", state'[<<d, k>>]}
    BY DEF RetryDecides
  <2>1. ~(d = c /\ k = m) /\ ~(d = c /\ k = m + 1)
    BY <1>7 DEF Answer
  <2>2. state'[<<d, k>>] = state[<<d, k>>]
    BY <1>7, <2>1
  <2>3. state[<<d, k + 1>>] \in {"new", state[<<d, k>>]}
    BY <2>2 DEF RetryDecides
  <2>4. ~(d = c /\ k + 1 = m)
    <3>1. state[<<d, k + 1>>] # "sleeping"
      BY <2>2, <2>3 DEF Answer
    <3>. QED
      BY <1>7, <1>12, <3>1
  <2>. QED
    BY <1>7, <1>12, <2>1, <2>2, <2>3, <2>4
<1>. QED
  BY <1>6, <1>9, <1>10, <1>11, <1>13, <1>14 DEF Chains

\* The invariant is inductive: one case for each action of the callers and workers.
LEMMA CallsStep == CallsInv /\ [Next]_vars => CallsInv'
<1>. SUFFICES ASSUME CallsInv, [Next]_vars PROVE CallsInv'
  OBVIOUS
<1>1. TypeOK'
  BY TypeStep DEF CallsInv
<1>2. OnePlace' /\ Chains'
  <2>1. ASSUME NEW n \in BOOLEAN, ApiCall(n) PROVE OnePlace' /\ Chains'
    BY <2>1, ApiCallInv
  <2>2. ASSUME NEW w \in Worker, Start(w) PROVE OnePlace' /\ Chains'
    BY <2>2, StartInv
  <2>3. ASSUME NEW w \in Worker, work[w] # None, state[work[w]] \in {"fetching", "sleeping"}
        PROVE  work[w][2] < RetryCount => state[RetryOf(work[w])] = "new"
    <3>. DEFINE a == work[w]
    <3>1. a \in Attempt /\ a[1] \in Call /\ a[2] \in 0..RetryCount /\ a = <<a[1], a[2]>>
      BY <2>3, AttemptFacts DEF CallsInv, TypeOK
    <3>2. state[a] \notin {"waiting"} \cup Answer
      BY <2>3 DEF Answer
    <3>. QED
      BY <3>1, <3>2 DEF CallsInv, RetriedInv, RetryOf
  <2>4. ASSUME NEW w \in Worker, FetchDone(w) PROVE OnePlace' /\ Chains'
    <3>1. PICK answer \in Answer : Finish(w, answer)
      BY <2>4 DEF FetchDone
    <3>2. /\ work[w] # None /\ state[work[w]] = "fetching"
          /\ UNCHANGED <<asked, retries, queue>>
      BY <2>4 DEF FetchDone, Runs
    <3>3. work[w][2] < RetryCount => state[RetryOf(work[w])] = "new"
      BY <2>3, <3>2
    <3>. QED
      BY <3>1, <3>2, <3>3, FinishInv DEF InWork
  <2>5. ASSUME NEW w \in Worker, RetryLater(w) PROVE OnePlace' /\ Chains'
    BY <2>5, RetryLaterInv
  <2>6. ASSUME NEW w \in Worker, GiveUp(w) PROVE OnePlace' /\ Chains'
    <3>1. /\ work[w] # None /\ state[work[w]] = "fetching" /\ Finish(w, "error")
          /\ UNCHANGED <<asked, retries, queue>>
      BY <2>6 DEF GiveUp, Runs
    <3>2. work[w][2] < RetryCount => state[RetryOf(work[w])] = "new"
      BY <2>3, <3>1
    <3>. QED
      BY <3>1, <3>2, FinishInv DEF InWork, Answer
  <2>7. ASSUME NEW w \in Worker, Retry(w) PROVE OnePlace' /\ Chains'
    <3>1. /\ Runs(w, "sleeping") /\ work[w] # None /\ state[work[w]] = "sleeping"
          /\ UNCHANGED <<asked, retries>>
      BY <2>7 DEF Retry, Runs
    <3>2. CASE /\ queue' = Append(queue, RetryOf(work[w]))
               /\ state' = [state EXCEPT ![work[w]] = "waiting", ![RetryOf(work[w])] = "queued"]
               /\ UNCHANGED work
      BY <3>1, <3>2, RetryQueuedInv
    <3>3. CASE Finish(w, "error") /\ UNCHANGED queue
      <4>1. work[w][2] < RetryCount => state[RetryOf(work[w])] = "new"
        BY <2>3, <3>1
      <4>. QED
        BY <3>1, <3>3, <4>1, FinishInv DEF InWork, Blocked, Answer
    <3>. QED
      BY <2>7, <3>2, <3>3 DEF Retry
  <2>8. ASSUME NEW w \in Worker, RetryDone(w) PROVE OnePlace' /\ Chains'
    <3>1. /\ work[w] # None /\ state[work[w]] = "waiting"
          /\ state[RetryOf(work[w])] \in Answer
          /\ Finish(w, state[RetryOf(work[w])])
          /\ UNCHANGED <<asked, retries, queue>>
      BY <2>8 DEF RetryDone, Runs
    <3>. QED
      BY <3>1, FinishInv DEF InWork, Blocked
  <2>9. ASSUME UNCHANGED <<asked, retries, queue, state, work>> PROVE OnePlace' /\ Chains'
    BY <2>9 DEF CallsInv, Chains, OnePlace, FreshInv, RetryInv, ChainInv, RetriedInv, RetryDecides
  <2>10. ASSUME SetEnabled \/ RemoveSlave \/ UNCHANGED vars
         PROVE  UNCHANGED <<asked, retries, queue, state, work>>
    BY <2>10 DEF SetEnabled, RemoveSlave, vars
  <2>. QED
    BY <2>1, <2>2, <2>4, <2>5, <2>6, <2>7, <2>8, <2>9, <2>10 DEF Next, WorkerStep
<1>. QED
  BY <1>1, <1>2 DEF CallsInv, Chains

\* The invariant holds throughout.
THEOREM CallsCorrect == Spec => []CallsInv
BY CallsInit, CallsStep, PTL DEF Spec

\* Every variable keeps to the values the code gives it, and the queue to its size.
THEOREM TypeCorrect == Spec => []TypeOK
<1>1. CallsInv => TypeOK
  BY DEF CallsInv
<1>. QED
  BY <1>1, CallsCorrect, PTL

\* Each attempt is at one place: in the queue, or with a worker of its own.
THEOREM OnePlaceEach == Spec => []OnePlace
<1>1. CallsInv => OnePlace
  BY DEF CallsInv
<1>. QED
  BY <1>1, CallsCorrect, PTL

\* A call that was retried is answered as its last attempt was.
THEOREM LastAttemptDecides == Spec => []RetryDecides
<1>1. CallsInv => RetryDecides
  BY DEF CallsInv
<1>. QED
  BY <1>1, CallsCorrect, PTL

\* Nothing of an answered call is still queued or under way.
THEOREM NoGhosts == Spec => []NoGhostAttempt
<1>1. CallsInv => NoGhostAttempt
  <2>. SUFFICES ASSUME CallsInv, NEW c \in Call, NEW k \in 0..RetryCount,
                       state[<<c, 0>>] \in Answer
                PROVE  state[<<c, k>>] \in {"new"} \cup Answer
    BY DEF NoGhostAttempt
  <2>1. 0 \in 0..RetryCount /\ (k = 0 \/ 0 < k)
    BY CallerAssumption
  <2>2. ASSUME 0 < k, state[<<c, k>>] \in {"queued"} \cup InWork PROVE FALSE
    <3>1. state[<<c, 0>>] = "waiting"
      BY <2>1, <2>2 DEF CallsInv, ChainInv
    <3>. QED
      BY <3>1 DEF Answer
  <2>3. state[<<c, k>>] \in State
    BY AttemptFacts DEF CallsInv, TypeOK
  <2>. QED
    BY <2>1, <2>2, <2>3 DEF State
<1>. QED
  BY <1>1, CallsCorrect, PTL

-----------------------------------------------------------------------------
(* Why the retries, which keep their workers, cannot occupy them all. *)

\* The invariant of LastServes: it needs the types only.
LEMMA LastServesStep == TypeOK /\ LastServes /\ [Next]_vars => LastServes'
<1>. SUFFICES ASSUME TypeOK, LastServes, [Next]_vars PROVE LastServes'
  OBVIOUS
<1>. USE DEF TypeOK
<1>1. PICK s \in Worker : work[s] \in {None, lastRef}
  BY DEF LastServes
<1>2. lastRef # None => lastRef \in Attempt /\ state[lastRef] \notin Blocked
  BY AttemptFacts DEF LastServes
<1>3. ASSUME NEW n \in BOOLEAN, ApiCall(n) PROVE LastServes'
  <2>1. work' = work /\ lastRef' = lastRef
    BY <1>3 DEF ApiCall
  <2>2. \A a \in Attempt : state'[a] \in {state[a], "queued", "error"}
    BY <1>3 DEF ApiCall
  <2>. QED
    BY <1>1, <1>2, <2>1, <2>2 DEF LastServes, Blocked
<1>4. ASSUME NEW w \in Worker, Start(w) PROVE LastServes'
  <2>1. Head(queue) \in Attempt
    BY <1>4, GetFacts DEF Start
  <2>2. work'[w] = lastRef' /\ state'[lastRef'] = "fetching"
    BY <1>4, <2>1 DEF Start
  <2>. QED
    BY <2>2 DEF LastServes, Blocked
<1>5. ASSUME NEW w \in Worker, NEW answer \in Answer, Finish(w, answer), UNCHANGED lastRef
      PROVE  LastServes'
  <2>1. \A v \in Worker : work'[v] \in {work[v], None}
    BY <1>5 DEF Finish
  <2>2. \A a \in Attempt : state'[a] \in {state[a], answer}
    BY <1>5 DEF Finish
  <2>. QED
    BY <1>1, <1>2, <1>5, <2>1, <2>2 DEF LastServes, Blocked, Answer
<1>6. ASSUME NEW w \in Worker, RetryLater(w) PROVE LastServes'
  <2>1. work' = work /\ lastRef' = lastRef /\ work[w] # lastRef
    BY <1>6 DEF RetryLater, MayRetry
  <2>2. \A a \in Attempt : a # work[w] => state'[a] = state[a]
    BY <1>6 DEF RetryLater
  <2>. QED
    BY <1>1, <1>2, <2>1, <2>2 DEF LastServes
<1>7. ASSUME NEW w \in Worker, Retry(w) PROVE LastServes'
  <2>1. CASE Finish(w, "error")
    BY <1>5, <1>7, <2>1 DEF Retry, Answer
  <2>2. CASE /\ state' = [state EXCEPT ![work[w]] = "waiting", ![RetryOf(work[w])] = "queued"]
             /\ UNCHANGED work
    <3>1. work[w] # lastRef \/ lastRef = None
      BY <1>2, <1>7 DEF Retry, Runs, Blocked
    <3>2. \A a \in Attempt : a # work[w] => state'[a] \in {state[a], "queued"}
      BY <2>2
    <3>3. lastRef' = lastRef
      BY <1>7 DEF Retry
    <3>. QED
      BY <1>1, <1>2, <2>2, <3>1, <3>2, <3>3 DEF LastServes, Blocked
  <2>. QED
    BY <1>7, <2>1, <2>2 DEF Retry
<1>8. ASSUME NEW w \in Worker, FetchDone(w) PROVE LastServes'
  BY <1>5, <1>8 DEF FetchDone
<1>9. ASSUME NEW w \in Worker, GiveUp(w) PROVE LastServes'
  BY <1>5, <1>9 DEF GiveUp, Answer
<1>10. ASSUME NEW w \in Worker, RetryDone(w) PROVE LastServes'
  BY <1>5, <1>10 DEF RetryDone
<1>11. ASSUME SetEnabled \/ RemoveSlave \/ UNCHANGED vars PROVE LastServes'
  <2>1. work' = work /\ lastRef' = lastRef /\ state' = state
    BY <1>11 DEF SetEnabled, RemoveSlave, vars
  <2>. QED
    BY <1>1, <1>2, <2>1 DEF LastServes
<1>. QED
  BY <1>3, <1>4, <1>6, <1>7, <1>8, <1>9, <1>10, <1>11 DEF Next, WorkerStep

\* For any number of workers and retries, some worker is never kept by a retry.
THEOREM NeverAllRetrying == Spec => []SomeWorkerServes
<1>1. Init => LastServes
  BY CallerAssumption DEF Init, LastServes
<1>2. LastServes => SomeWorkerServes
  BY DEF LastServes, SomeWorkerServes
<1>. QED
  BY <1>1, <1>2, LastServesStep, TypeCorrect, PTL DEF Spec
=============================================================================
