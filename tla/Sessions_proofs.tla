--------------------------- MODULE Sessions_proofs ---------------------------
(***************************************************************************)
(* Proofs about Sessions, for any number of calls and events and any sizes: *)
(* no listen call is left behind, and no event is lost, repeated or handed  *)
(* out of order.                                                           *)
(***************************************************************************)
EXTENDS Sessions, SequenceTheorems, WellFoundedInduction, TLAPS

\* The part of the state the listen calls depend on: types, calls that were not made
\* yet, and that a forgotten session has no listener.
ListenType ==
    /\ known \in BOOLEAN
    /\ listener \in 0..asked
    /\ asked \in 0..MaxCalls
    /\ answer \in [Call -> {"none", "pending", "answered"}]
    /\ \A c \in Call : c > asked => answer[c] = "none"
    /\ ~known => listener = 0

\* Calls are numbered from 1; a natural bound makes the numbers integers.
LEMMA CallFacts ==
    /\ MaxCalls \in Nat
    /\ \A c \in Call : c \in Nat /\ c # 0 /\ c <= MaxCalls
    /\ \A n \in 0..MaxCalls : n < MaxCalls => n + 1 \in Call /\ n + 1 \in 0..MaxCalls
    /\ \A n \in 0..MaxCalls : n # 0 => n \in Call
  BY SessionAssumption DEF Call

\* The initial state: no call, no session (Init).
LEMMA ListenInit == Init => ListenType /\ OneListener
  <1> SUFFICES ASSUME Init PROVE ListenType /\ OneListener
    OBVIOUS
  <1>1. /\ known = FALSE
        /\ listener = 0
        /\ asked = 0
        /\ answer = [c \in Call |-> "none"]
    BY DEF Init
  <1>2. 0 \in 0..asked /\ 0 \in 0..MaxCalls
    BY <1>1, CallFacts
  <1>3. answer \in [Call -> {"none", "pending", "answered"}]
    BY <1>1
  <1>4. \A c \in Call : answer[c] = "none"
    BY <1>1
  <1> QED
    BY <1>1, <1>2, <1>3, <1>4, Zenon DEF ListenType, OneListener

\* A listen call keeps it, whichever way it goes (get_listen, reset_and_wait).
LEMMA ListenStep ==
  ASSUME ListenType, OneListener, NEW t \in Timeouts, NEW lvl \in BOOLEAN, Listen(t, lvl)
  PROVE  ListenType' /\ OneListener'
  <1> DEFINE c == asked + 1
  <1>1. /\ c \in Call
        /\ c \in 0..MaxCalls
        /\ asked' = c
        /\ known' = TRUE
        /\ answer[c] = "none"
    BY CallFacts DEF Listen, ListenType
  <1>2. CASE listener # 0
    <2>1. /\ listener \in Call
          /\ listener # c
          /\ answer' = [[answer EXCEPT ![c] = "pending"] EXCEPT ![listener] = "answered"]
          /\ listener' = c
      BY <1>1, <1>2, CallFacts DEF Listen, Respond, ListenType
    <2> QED
      BY <1>1, <2>1, CallFacts DEF ListenType, OneListener
  <1>3. CASE listener = 0 /\ queue # <<>>
    <2>1. answer' = [answer EXCEPT ![c] = "answered"] /\ listener' = listener
      BY <1>3 DEF Listen, Respond
    <2> QED
      BY <1>1, <1>3, <2>1, CallFacts DEF ListenType, OneListener
  <1>4. CASE listener = 0 /\ queue = <<>>
    <2>1. answer' = [answer EXCEPT ![c] = "pending"] /\ listener' = c
      BY <1>4 DEF Listen
    <2> QED
      BY <1>1, <1>4, <2>1, CallFacts DEF ListenType, OneListener
  <1> QED
    BY <1>2, <1>3, <1>4

\* update() keeps it: it answers the listener or forgets a session without one.
LEMMA UpdateStep ==
  ASSUME ListenType, OneListener, Update
  PROVE  ListenType' /\ OneListener'
  <1>1. CASE MustRespond /\ Respond(listener, answer) /\ listener' = 0 /\ known' = known
    <2>1. /\ listener \in Call
          /\ answer' = [answer EXCEPT ![listener] = "answered"]
          /\ asked' = asked
      BY <1>1, CallFacts DEF Update, MustRespond, Respond, ListenType
    <2> QED
      BY <1>1, <2>1, CallFacts DEF ListenType, OneListener
  <1>2. CASE MayExpire /\ known' = FALSE /\ UNCHANGED <<listener, answer>>
    <2>1. listener = 0 /\ asked' = asked
      BY <1>2 DEF Update, MayExpire
    <2> QED
      BY <1>2, <2>1, CallFacts DEF ListenType, OneListener
  <1> QED
    BY <1>1, <1>2 DEF Update

\* Every step keeps it (Next).
LEMMA OneListenerStep ==
    ListenType /\ OneListener /\ [Next]_vars => ListenType' /\ OneListener'
  <1> SUFFICES ASSUME ListenType, OneListener, [Next]_vars
               PROVE  ListenType' /\ OneListener'
    OBVIOUS
  <1>1. ASSUME NEW t \in Timeouts, NEW lvl \in BOOLEAN, Listen(t, lvl)
        PROVE  ListenType' /\ OneListener'
    BY <1>1, ListenStep
  <1>2. ASSUME NEW k \in Kind, Push(k) PROVE ListenType' /\ OneListener'
    BY <1>2 DEF Push, ListenType, OneListener
  <1>3. CASE Update
    BY <1>3, UpdateStep
  <1>4. CASE Tick
    BY <1>4 DEF Tick, ListenType, OneListener
  <1>5. CASE UNCHANGED vars
    BY <1>5 DEF vars, ListenType, OneListener
  <1> QED
    BY <1>1, <1>2, <1>3, <1>4, <1>5 DEF Next

\* A call waits exactly if a session that is not forgotten knows of it: takeovers,
\* keep-alives and expiry leave no call behind (core/sessions.py).
THEOREM NoCallLeftBehind == Spec => []OneListener
  BY ListenInit, OneListenerStep, PTL DEF Spec

-----------------------------------------------------------------------------
(* Induction, in the form the provers can use: a set of numbers has a least one. *)

\* The natural numbers are well ordered.
LEMMA LeastNumber ==
  ASSUME NEW T \in SUBSET Nat, T # {}
  PROVE  \E x \in T : \A y \in T : x <= y
  <1> DEFINE R == {p \in Nat \X Nat : p[1] < p[2]}
  <1>1. IsWellFoundedOn(OpToRel(<, Nat), Nat)
    BY NatLessThanWellFounded
  <1>2. OpToRel(<, Nat) = R
    BY DEF OpToRel
  <1>3. IsWellFoundedOn(R, Nat)
    BY <1>1, <1>2
  <1>4. \E x \in T : \A y \in T : ~ (<<y, x>> \in R)
    <2> HIDE DEF R
    <2> QED
      BY <1>3, WFMin
  <1>5. PICK x \in T : \A y \in T : ~ (<<y, x>> \in R)
    BY <1>4
  <1>6. \A y \in T : y \in Nat /\ x \in Nat /\ ~ (y < x)
    BY <1>5
  <1> QED
    BY <1>6

\* A set of numbers from 0 to n that has 0, and the next of each it has, has them all.
LEMMA Counting ==
  ASSUME NEW n \in Nat, NEW T, 0 \in T, \A i \in 1..n : i - 1 \in T => i \in T
  PROVE  \A i \in 0..n : i \in T
  <1> DEFINE B == {i \in 0..n : i \notin T}
  <1>1. CASE B = {}
    BY <1>1
  <1>2. CASE B # {}
    <2>1. PICK m \in B : \A y \in B : m <= y
      <3>1. B \subseteq Nat
        OBVIOUS
      <3> HIDE DEF B
      <3> QED
        BY <1>2, <3>1, LeastNumber
    <2>2. m \in 1..n /\ m - 1 \in 0..n /\ m \notin T
      BY <2>1
    <2>3. m - 1 \in T
      BY <2>1, <2>2
    <2> QED
      BY <2>2, <2>3
  <1> QED
    BY <1>1, <1>2

-----------------------------------------------------------------------------
(* The operations on the queue. *)

Increasing(s) == \A i, j \in DOMAIN s : i < j => s[i] < s[j]

\* left[i] is what Filtered leaves of the first i entries.
Filters(left, q, S) ==
    /\ Filtered(q, S) = left[Len(q)]
    /\ left[0] = <<>>
    /\ \A i \in 1..Len(q) :
          left[i] = IF q[i] \in S THEN Append(left[i - 1], q[i]) ELSE left[i - 1]

\* The recursion of Filtered defines a function.
LEMMA FilteredDefined ==
  ASSUME NEW q \in Seq(Nat), NEW S
  PROVE  \E left : Filters(left, q, S)
  <1> DEFINE n == Len(q)
             More(s, i) == IF q[i] \in S THEN Append(s, q[i]) ELSE s
             Good(g, m) == /\ g \in [0..m -> Seq(Nat)]
                           /\ g[0] = <<>>
                           /\ \A i \in 1..m : g[i] = More(g[i - 1], i)
             T == {m \in 0..n : \E g : Good(g, m)}
             F(g) == [i \in 0..n |-> IF i = 0 THEN <<>> ELSE More(g[i - 1], i)]
  <1>1. n \in Nat
    BY LenProperties
  <1>2. \A s \in Seq(Nat), i \in 1..n : More(s, i) \in Seq(Nat)
    BY ElementOfSeq, AppendProperties
  <1>3. Filtered(q, S) = (CHOOSE f : f = F(f))[n]
    BY DEF Filtered
  <1> HIDE DEF n, More
  <1>4. 0 \in T
    <2>1. Good([i \in 0..0 |-> <<>>], 0)
      BY EmptySeq
    <2> HIDE DEF Good
    <2> QED
      BY <1>1, <2>1
  <1>5. \A m \in 1..n : m - 1 \in T => m \in T
    <2> SUFFICES ASSUME NEW m \in 1..n, NEW g, Good(g, m - 1) PROVE \E h : Good(h, m)
      <3> HIDE DEF Good
      <3> QED
        BY <1>1
    <2> DEFINE h == [i \in 0..m |-> IF i = m THEN More(g[m - 1], m) ELSE g[i]]
    <2>1. m \in Nat /\ m # 0 /\ m - 1 \in 0..(m - 1) /\ g[m - 1] \in Seq(Nat)
      BY <1>1
    <2>2. More(g[m - 1], m) \in Seq(Nat)
      BY <1>2, <2>1
    <2>3. h \in [0..m -> Seq(Nat)] /\ h[0] = <<>>
      BY <2>1, <2>2
    <2>4. ASSUME NEW i \in 1..m PROVE h[i] = More(h[i - 1], i)
      <3>1. h[i - 1] = g[i - 1]
        BY <2>1
      <3>2. CASE i = m
        BY <3>1, <3>2
      <3>3. CASE i # m
        <4>1. i \in 1..(m - 1) /\ h[i] = g[i]
          BY <2>1, <3>3
        <4>2. g[i] = More(g[i - 1], i)
          BY <4>1
        <4> QED
          BY <3>1, <4>1, <4>2
      <3> QED
        BY <3>2, <3>3
    <2> HIDE DEF h
    <2> QED
      BY <2>3, <2>4
  <1>6. n \in T
    <2> HIDE DEF T
    <2>1. \A i \in 0..n : i \in T
      BY <1>1, <1>4, <1>5, Counting
    <2> QED
      BY <1>1, <2>1
  <1>7. PICK g : Good(g, n)
    BY <1>6
  <1>8. g = F(g)
    <2>1. \A i \in 0..n : g[i] = F(g)[i]
      BY <1>1, <1>7
    <2>2. g \in [0..n -> Seq(Nat)]
      BY <1>7
    <2> QED
      BY <2>1, <2>2
  <1> DEFINE left == CHOOSE f : f = F(f)
  <1>9. left = F(left)
    <2> HIDE DEF F
    <2> QED
      BY <1>8
  <1> HIDE DEF left
  <1>10. left[0] = <<>>
    BY <1>1, <1>9
  <1>11. ASSUME NEW i \in 1..n PROVE left[i] = More(left[i - 1], i)
    <2>1. F(left)[i] = More(left[i - 1], i)
      BY <1>1
    <2> QED
      BY <1>9, <2>1, Zenon
  <1>12. Filtered(q, S) = left[n]
    BY <1>3 DEF left
  <1> QED
    BY <1>10, <1>11, <1>12 DEF n, More, Filters

\* s is what is left of the first n entries of q.
IsLeft(s, q, n, S) ==
    /\ s \in Seq(Nat)
    /\ Len(s) <= n
    /\ Increasing(s)
    /\ \A j \in 1..Len(s) : \E k \in 1..n : s[j] = q[k] /\ q[k] \in S
    /\ \A k \in 1..n : q[k] \in S => \E j \in 1..Len(s) : s[j] = q[k]

\* One more entry: it is larger than all before it.
LEMMA FilterOneMore ==
  ASSUME NEW q \in Seq(Nat), NEW S, Increasing(q), NEW n \in 1..Len(q), NEW s,
         IsLeft(s, q, n - 1, S)
  PROVE  IsLeft(IF q[n] \in S THEN Append(s, q[n]) ELSE s, q, n, S)
  <1>1. /\ n \in Nat /\ n - 1 \in Nat /\ 1..n = 1..(n - 1) \cup {n}
        /\ q[n] \in Nat /\ DOMAIN q = 1..Len(q)
        /\ \A k \in 1..(n - 1) : k \in 1..Len(q) /\ k < n
        /\ s \in Seq(Nat) /\ Len(s) \in Nat /\ Len(s) <= n - 1 /\ DOMAIN s = 1..Len(s)
    BY ElementOfSeq, LenProperties DEF IsLeft
  <1>2. CASE q[n] \notin S
    <2>1. Len(s) <= n
      BY <1>1
    <2> QED
      BY <1>1, <1>2, <2>1 DEF IsLeft
  <1>3. CASE q[n] \in S
    <2> DEFINE t == Append(s, q[n])
               l == Len(s)
    <2>1. /\ t \in Seq(Nat) /\ Len(t) = l + 1 /\ DOMAIN t = 1..(l + 1)
          /\ \A j \in 1..l : t[j] = s[j]
          /\ t[l + 1] = q[n]
      BY <1>1, AppendProperties
    <2> HIDE DEF t
    <2>2. l \in Nat /\ l + 1 <= n /\ 1..(l + 1) = 1..l \cup {l + 1}
      BY <1>1
    <2>3. \A j \in 1..l : s[j] < q[n]
      <3> TAKE j \in 1..l
      <3>1. PICK k \in 1..(n - 1) : s[j] = q[k]
        BY DEF IsLeft
      <3>2. q[k] < q[n]
        BY <1>1 DEF Increasing
      <3> QED
        BY <3>1, <3>2
    <2>4. Increasing(t)
      <3> SUFFICES ASSUME NEW i \in 1..(l + 1), NEW j \in 1..(l + 1), i < j PROVE t[i] < t[j]
        BY <2>1 DEF Increasing
      <3>1. i \in 1..l
        BY <2>2
      <3>2. CASE j \in 1..l
        BY <1>1, <2>1, <3>1, <3>2 DEF IsLeft, Increasing
      <3>3. CASE j = l + 1
        BY <2>1, <2>3, <3>1, <3>3
      <3> QED
        BY <2>2, <3>2, <3>3
    <2>5. ASSUME NEW j \in 1..Len(t) PROVE \E k \in 1..n : t[j] = q[k] /\ q[k] \in S
      <3>1. CASE j \in 1..l
        <4>1. PICK k \in 1..(n - 1) : s[j] = q[k] /\ q[k] \in S
          BY <3>1 DEF IsLeft
        <4> QED
          BY <1>1, <2>1, <3>1, <4>1
      <3>2. CASE j = l + 1
        BY <1>1, <1>3, <2>1, <3>2
      <3> QED
        BY <2>1, <2>2, <3>1, <3>2
    <2>6. ASSUME NEW k \in 1..n, q[k] \in S PROVE \E j \in 1..Len(t) : t[j] = q[k]
      <3>1. CASE k \in 1..(n - 1)
        <4>1. PICK j \in 1..l : s[j] = q[k]
          BY <2>6, <3>1 DEF IsLeft
        <4> QED
          BY <2>1, <2>2, <4>1
      <3>2. CASE k = n
        <4>1. l + 1 \in 1..Len(t)
          BY <2>1, <2>2
        <4> QED
          BY <2>1, <3>2, <4>1
      <3> QED
        BY <1>1, <3>1, <3>2
    <2>7. Len(t) <= n
      BY <2>1, <2>2
    <2> QED
      BY <1>3, <2>1, <2>4, <2>5, <2>6, <2>7 DEF IsLeft, t
  <1> QED
    BY <1>2, <1>3

\* What Filtered returns of a queue whose events are in order: the wanted ones, in order.
LEMMA FilteredProperties ==
  ASSUME NEW q \in Seq(Nat), NEW S, Increasing(q)
  PROVE  IsLeft(Filtered(q, S), q, Len(q), S)
  <1>0. PICK left : Filters(left, q, S)
    BY FilteredDefined
  <1>1. /\ Filtered(q, S) = left[Len(q)]
        /\ left[0] = <<>>
        /\ \A i \in 1..Len(q) :
              left[i] = IF q[i] \in S THEN Append(left[i - 1], q[i]) ELSE left[i - 1]
    BY <1>0 DEF Filters
  <1> DEFINE n == Len(q)
             T == {i \in 0..n : IsLeft(left[i], q, i, S)}
  <1>2. n \in Nat
    BY LenProperties
  <1>3. 0 \in T
    <2>1. <<>> \in Seq(Nat) /\ Len(<<>>) = 0
      OBVIOUS
    <2>2. IsLeft(<<>>, q, 0, S)
      BY <2>1 DEF IsLeft, Increasing
    <2> QED
      BY <1>1, <1>2, <2>2
  <1>4. ASSUME NEW i \in 1..n, i - 1 \in T PROVE i \in T
    <2>1. IsLeft(left[i - 1], q, i - 1, S)
      BY <1>4
    <2>2. IsLeft(IF q[i] \in S THEN Append(left[i - 1], q[i]) ELSE left[i - 1], q, i, S)
      BY <2>1, FilterOneMore
    <2>3. IsLeft(left[i], q, i, S)
      BY <1>1, <2>2
    <2> QED
      BY <1>2, <2>3
  <1>5. \A i \in 0..n : i \in T
    <2> HIDE DEF T, n
    <2> QED
      BY <1>2, <1>3, <1>4, Counting
  <1>6. n \in 0..n
    BY <1>2
  <1>7. IsLeft(left[n], q, n, S)
    BY <1>5, <1>6
  <1> QED
    BY <1>1, <1>7

\* In a queue whose events are in order, the last is ahead of the first by its length.
LEMMA IncreasingSpread ==
  ASSUME NEW q \in Seq(Nat), Increasing(q), q # <<>>
  PROVE  q[Len(q)] >= q[1] + Len(q) - 1
  <1> DEFINE n == Len(q)
             T == {i \in 0..n : i = 0 \/ q[i] >= q[1] + i - 1}
  <1>1. n \in Nat \ {0} /\ DOMAIN q = 1..n /\ \A i \in 1..n : q[i] \in Nat
    BY ElementOfSeq, LenProperties, EmptySeq
  <1> HIDE DEF n
  <1>2. 0 \in T
    BY <1>1
  <1>3. ASSUME NEW i \in 1..n, i - 1 \in T PROVE i \in T
    <2>1. CASE i = 1
      BY <1>1, <2>1
    <2>2. CASE i # 1
      <3>1. i - 1 \in 1..n /\ q[i - 1] >= q[1] + (i - 1) - 1
        BY <1>1, <1>3, <2>2
      <3>2. q[i - 1] < q[i]
        BY <1>1, <3>1 DEF Increasing
      <3>3. q[i] \in Nat /\ q[1] \in Nat /\ q[i - 1] \in Nat
        BY <1>1, <3>1
      <3> QED
        BY <1>1, <3>1, <3>2, <3>3
    <2> QED
      BY <2>1, <2>2
  <1>4. \A i \in 0..n : i \in T
    <2> HIDE DEF T
    <2> QED
      BY <1>1, <1>2, <1>3, Counting
  <1>5. n \in 0..n /\ n # 0
    BY <1>1
  <1> QED
    BY <1>4, <1>5 DEF n

\* An event pushed: the queue keeps its size and order, and what falls out is as many
\* events behind as the queue holds.
LEMMA PushedProperties ==
  ASSUME NEW d \in Seq(Nat), NEW n \in Nat, Increasing(d), Len(d) <= EventQueueSize,
         \A i \in 1..Len(d) : d[i] \in 1..n
  PROVE  LET p == Append(Trimmed(d), n + 1) IN
         /\ p \in Seq(Nat)
         /\ Len(p) <= EventQueueSize
         /\ Increasing(p)
         /\ \A i \in 1..Len(p) : p[i] = n + 1 \/ \E j \in 1..Len(d) : p[i] = d[j]
         /\ \E i \in 1..Len(p) : p[i] = n + 1
         /\ \A j \in 1..Len(d) : \/ \E i \in 1..Len(p) : p[i] = d[j]
                                 \/ n + 1 - d[j] >= EventQueueSize
  <1> DEFINE p == Append(Trimmed(d), n + 1)
             m == Len(d)
  <1>1. m \in Nat /\ DOMAIN d = 1..m /\ EventQueueSize \in Nat \ {0} /\ n + 1 \in Nat
    BY LenProperties, SessionAssumption
  <1>2. CASE m < EventQueueSize
    <2>1. p = Append(d, n + 1)
      BY <1>1, <1>2 DEF Trimmed
    <2> HIDE DEF p
    <2>2. /\ p \in Seq(Nat) /\ Len(p) = m + 1 /\ DOMAIN p = 1..(m + 1)
          /\ \A j \in 1..m : p[j] = d[j]
          /\ p[m + 1] = n + 1
      BY <1>1, <2>1, AppendProperties, LenProperties
    <2> HIDE DEF m
    <2>3. 1..(m + 1) = 1..m \cup {m + 1} /\ m + 1 <= EventQueueSize
      BY <1>1, <1>2
    <2>4. Increasing(p)
      <3> SUFFICES ASSUME NEW i \in 1..(m + 1), NEW j \in 1..(m + 1), i < j PROVE p[i] < p[j]
        BY <2>2 DEF Increasing
      <3>1. i \in 1..m
        BY <1>1
      <3>2. CASE j \in 1..m
        BY <1>1, <2>2, <3>1, <3>2 DEF Increasing
      <3>3. CASE j = m + 1
        <4>1. d[i] \in 1..n
          BY <3>1 DEF m
        <4> QED
          BY <2>2, <3>1, <3>3, <4>1
      <3> QED
        BY <2>3, <3>2, <3>3
    <2>5. \A i \in 1..Len(p) : p[i] = n + 1 \/ \E j \in 1..m : p[i] = d[j]
      BY <2>2, <2>3
    <2>6. m + 1 \in 1..Len(p) /\ \A j \in 1..m : j \in 1..Len(p)
      BY <1>1, <2>2
    <2> QED
      BY <2>2, <2>3, <2>4, <2>5, <2>6 DEF m, p
  <1>3. CASE m = EventQueueSize
    <2> DEFINE t == Tail(d)
    <2>0. d # <<>>
      BY <1>1, <1>3
    <2>1. p = Append(t, n + 1)
      BY <1>1, <1>3 DEF Trimmed
    <2>2. /\ t \in Seq(Nat) /\ Len(t) = m - 1
          /\ \A j \in 1..(m - 1) : t[j] = d[j + 1]
      BY <1>1, <2>0, HeadTailProperties
    <2> HIDE DEF t, p
    <2>3. /\ p \in Seq(Nat) /\ Len(p) = m /\ DOMAIN p = 1..m
          /\ \A j \in 1..(m - 1) : p[j] = d[j + 1]
          /\ p[m] = n + 1
      <3>1. p \in Seq(Nat) /\ Len(p) = Len(t) + 1 /\ p[Len(t) + 1] = n + 1
            /\ \A j \in 1..Len(t) : p[j] = t[j]
        <4>1. n + 1 \in Nat
          BY <1>1
        <4>2. /\ Append(t, n + 1) \in Seq(Nat) /\ Len(Append(t, n + 1)) = Len(t) + 1
              /\ Append(t, n + 1)[Len(t) + 1] = n + 1
              /\ \A j \in 1..Len(t) : Append(t, n + 1)[j] = t[j]
          BY <2>2, <4>1, AppendProperties
        <4> QED
          BY <2>1, <4>2
      <3>2. Len(t) = m - 1 /\ Len(t) + 1 = m
        BY <1>1, <2>2
      <3>3. DOMAIN p = 1..Len(p)
        BY <3>1, LenProperties
      <3> QED
        BY <2>2, <3>1, <3>2, <3>3
    <2>4. d[m] >= d[1] + m - 1
      BY <2>0, IncreasingSpread
    <2> HIDE DEF m
    <2>5. Increasing(p)
      <3> SUFFICES ASSUME NEW i \in 1..m, NEW j \in 1..m, i < j PROVE p[i] < p[j]
        BY <2>3 DEF Increasing
      <3>1. i \in 1..(m - 1) /\ i + 1 \in 1..m /\ p[i] = d[i + 1]
        BY <1>1, <2>3
      <3>2. CASE j \in 1..(m - 1)
        <4>1. j + 1 \in 1..m /\ i + 1 < j + 1 /\ p[j] = d[j + 1]
          BY <1>1, <2>3, <3>2
        <4> QED
          BY <1>1, <3>1, <4>1 DEF Increasing
      <3>3. CASE j = m
        <4>1. d[i + 1] \in 1..n
          BY <3>1 DEF m
        <4> QED
          BY <2>3, <3>1, <3>3, <4>1
      <3> QED
        BY <1>1, <3>2, <3>3
    <2>6. ASSUME NEW i \in 1..m PROVE p[i] = n + 1 \/ \E j \in 1..m : p[i] = d[j]
      <3>1. CASE i = m
        BY <2>3, <3>1
      <3>2. CASE i # m
        <4>1. i \in 1..(m - 1) /\ i + 1 \in 1..m
          BY <1>1, <3>2
        <4> QED
          BY <2>3, <4>1
      <3> QED
        BY <3>1, <3>2
    <2>7. ASSUME NEW j \in 1..m
          PROVE  (\E i \in 1..m : p[i] = d[j]) \/ n + 1 - d[j] >= EventQueueSize
      <3>1. CASE j = 1
        <4>1. d[1] \in 1..n /\ d[m] \in 1..n
          <5>1. 1 \in 1..m /\ m \in 1..m
            BY <1>1, <1>3
          <5> QED
            BY <5>1 DEF m
        <4> QED
          BY <1>1, <1>3, <2>4, <3>1, <4>1
      <3>2. CASE j # 1
        <4>1. j - 1 \in 1..(m - 1) /\ j - 1 \in 1..m /\ (j - 1) + 1 = j
          BY <1>1, <3>2
        <4>2. p[j - 1] = d[(j - 1) + 1]
          BY <2>3, <4>1
        <4> QED
          BY <4>1, <4>2
      <3> QED
        BY <3>1, <3>2
    <2>8. m \in 1..m
      BY <1>1, <1>3
    <2>9. Len(p) <= EventQueueSize
      BY <1>1, <1>3, <2>3
    <2> QED
      BY <2>3, <2>5, <2>6, <2>7, <2>8, <2>9 DEF m, p
  <1>4. m < EventQueueSize \/ m = EventQueueSize
    <2>1. m <= EventQueueSize
      OBVIOUS
    <2> HIDE DEF m, p
    <2> QED
      BY <1>1, <2>1
  <1> QED
    BY <1>2, <1>3, <1>4, Zenon

\* Two queues one after the other, all of the first before the second.
LEMMA ConcatIncreasing ==
  ASSUME NEW p \in Seq(Nat), NEW q \in Seq(Nat), Increasing(p), Increasing(q),
         \A i \in 1..Len(p), j \in 1..Len(q) : p[i] < q[j]
  PROVE  /\ p \o q \in Seq(Nat)
         /\ Increasing(p \o q)
         /\ ToSet(p \o q) = ToSet(p) \cup ToSet(q)
  <1> DEFINE m == Len(p)
             n == Len(q)
             s == p \o q
  <1>1. /\ m \in Nat /\ n \in Nat /\ DOMAIN p = 1..m /\ DOMAIN q = 1..n
        /\ s \in Seq(Nat) /\ DOMAIN s = 1..(m + n)
        /\ \A i \in 1..(m + n) : s[i] = IF i <= m THEN p[i] ELSE q[i - m]
    BY ConcatProperties, LenProperties
  <1> HIDE DEF m, n, s
  <1>2. \A i \in 1..(m + n) : i <= m => i \in 1..m /\ s[i] = p[i]
    BY <1>1
  <1>3. \A i \in 1..(m + n) : ~(i <= m) => i - m \in 1..n /\ s[i] = q[i - m]
    BY <1>1
  <1>4. Increasing(s)
    <2> SUFFICES ASSUME NEW i \in 1..(m + n), NEW j \in 1..(m + n), i < j PROVE s[i] < s[j]
      BY <1>1 DEF Increasing
    <2>1. CASE j <= m
      <3>1. i <= m
        BY <1>1, <2>1
      <3> QED
        BY <1>1, <1>2, <2>1, <3>1 DEF Increasing
    <2>2. CASE ~(j <= m) /\ i <= m
      BY <1>2, <1>3, <2>2 DEF m, n
    <2>3. CASE ~(j <= m) /\ ~(i <= m)
      <3>1. i - m \in 1..n /\ j - m \in 1..n /\ i - m < j - m
        BY <1>1, <1>3, <2>3
      <3> QED
        BY <1>1, <1>3, <2>3, <3>1 DEF Increasing
    <2> QED
      BY <2>1, <2>2, <2>3
  <1>5. \A x : x \in ToSet(s) <=> x \in ToSet(p) \cup ToSet(q)
    <2> TAKE x
    <2>1. ASSUME NEW i \in 1..(m + n), s[i] = x PROVE x \in ToSet(p) \cup ToSet(q)
      BY <1>1, <1>2, <1>3, <2>1 DEF ToSet
    <2>2. ASSUME NEW i \in 1..m, p[i] = x PROVE x \in ToSet(s)
      <3>1. i \in 1..(m + n) /\ i <= m
        BY <1>1
      <3> QED
        BY <1>1, <2>2, <3>1 DEF ToSet
    <2>3. ASSUME NEW i \in 1..n, q[i] = x PROVE x \in ToSet(s)
      <3>1. m + i \in 1..(m + n) /\ ~(m + i <= m) /\ (m + i) - m = i
        BY <1>1
      <3> QED
        BY <1>1, <2>3, <3>1 DEF ToSet
    <2> QED
      BY <1>1, <2>1, <2>2, <2>3 DEF ToSet
  <1> QED
    BY <1>1, <1>4, <1>5 DEF s

-----------------------------------------------------------------------------
(* The deliveries. *)

\* The events handed out and those queued are in order, the former before the latter; and
\* every event pushed is accounted for.
QueueInv ==
    /\ kinds \in Seq(Kind)
    /\ queue \in Seq(Nat)
    /\ Len(queue) <= EventQueueSize
    /\ received \in Seq(Nat)
    /\ Increasing(queue)
    /\ Increasing(received)
    /\ \A i \in 1..Len(queue) : queue[i] \in 1..Len(kinds)
    /\ \A i \in 1..Len(received) : received[i] \in 1..Len(kinds)
    /\ \A i \in 1..Len(received), j \in 1..Len(queue) : received[i] < queue[j]

AccountedFor(e) ==
    \/ e \in ToSet(received)
    \/ e \in ToSet(queue)
    \/ e \in expired
    \/ \E f \in DOMAIN kinds : Supersedes(f, e)
    \/ Len(kinds) - e >= EventQueueSize

DeliveryInv == QueueInv /\ \A e \in 1..Len(kinds) : AccountedFor(e)

\* The entries of a sequence are those at its positions.
LEMMA EntriesOf ==
  ASSUME NEW S, NEW s \in Seq(S)
  PROVE  /\ DOMAIN s = 1..Len(s) /\ Len(s) \in Nat
         /\ \A x : x \in ToSet(s) <=> \E i \in 1..Len(s) : s[i] = x
  BY LenProperties DEF ToSet

\* The invariant says what was promised of the stream of events.
LEMMA InvDelivers == DeliveryInv => DeliveryHolds
  <1> SUFFICES ASSUME DeliveryInv PROVE DeliveryHolds
    OBVIOUS
  <1>1. /\ Stream \in Seq(Nat) /\ Increasing(Stream)
        /\ ToSet(Stream) = ToSet(received) \cup ToSet(queue)
    BY ConcatIncreasing DEF DeliveryInv, QueueInv, Stream
  <1>2. InOrderOnce
    BY <1>1 DEF InOrderOnce, Increasing
  <1>3. DOMAIN kinds = 1..Len(kinds)
    BY LenProperties DEF DeliveryInv, QueueInv
  <1>4. NothingLost
    BY <1>1, <1>3 DEF NothingLost, DeliveryInv, AccountedFor
  <1> QED
    BY <1>2, <1>4 DEF DeliveryHolds

\* Nothing was pushed yet.
LEMMA DeliveryInit == Init => DeliveryInv
  <1> SUFFICES ASSUME Init PROVE DeliveryInv
    OBVIOUS
  <1>1. kinds = <<>> /\ queue = <<>> /\ received = <<>>
    BY DEF Init
  <1>2. Len(<<>>) = 0 /\ <<>> \in Seq(Kind) /\ <<>> \in Seq(Nat) /\ DOMAIN <<>> = {}
    OBVIOUS
  <1>3. 0 <= EventQueueSize /\ 1..0 = {}
    BY SessionAssumption
  <1> QED
    BY <1>1, <1>2, <1>3 DEF DeliveryInv, QueueInv, Increasing

\* A response hands out the whole queue, which comes after all that was handed out before.
LEMMA RespondDelivers ==
  ASSUME DeliveryInv, received' = received \o queue, queue' = <<>>, UNCHANGED <<kinds, expired>>
  PROVE  DeliveryInv'
  <1>1. /\ received' \in Seq(Nat) /\ Increasing(received')
        /\ ToSet(received') = ToSet(received) \cup ToSet(queue)
    BY ConcatIncreasing DEF DeliveryInv, QueueInv
  <1>2. Len(<<>>) = 0 /\ <<>> \in Seq(Nat) /\ DOMAIN <<>> = {} /\ 1..0 = {} /\ 0 <= EventQueueSize
    BY SessionAssumption
  <1>3. \A i \in 1..Len(received') : received'[i] \in 1..Len(kinds)
    <2> TAKE i \in 1..Len(received')
    <2>1. received'[i] \in ToSet(received) \cup ToSet(queue)
      BY <1>1, EntriesOf
    <2>2. \/ \E j \in 1..Len(received) : received[j] = received'[i]
          \/ \E j \in 1..Len(queue) : queue[j] = received'[i]
      BY <2>1, EntriesOf DEF DeliveryInv, QueueInv
    <2> QED
      BY <2>2 DEF DeliveryInv, QueueInv
  <1>4. QueueInv'
    BY <1>1, <1>2, <1>3 DEF DeliveryInv, QueueInv, Increasing
  <1>5. ASSUME NEW e \in 1..Len(kinds) PROVE AccountedFor(e)'
    BY <1>1, <1>5 DEF DeliveryInv, AccountedFor, Supersedes
  <1> QED
    BY <1>4, <1>5 DEF DeliveryInv

\* An event pushed: those it makes obsolete go, the oldest falls out of a full queue, and all
\* others stay where they are.
LEMMA PushDelivers ==
  ASSUME DeliveryInv, NEW k \in Kind, Push(k)
  PROVE  DeliveryInv'
  <1> DEFINE n == Len(kinds)
             S == {e \in ToSet(queue) : kinds[e] # k \/ k \notin Coalesced}
             d == Filtered(queue, S)
  <1>1. /\ kinds \in Seq(Kind) /\ n \in Nat /\ DOMAIN kinds = 1..n
        /\ kinds' = Append(kinds, k) /\ queue' = Append(Trimmed(d), n + 1)
        /\ UNCHANGED <<received, expired>>
    BY LenProperties DEF DeliveryInv, QueueInv, Push, DistinctFrom
  <1>2. /\ kinds' \in Seq(Kind) /\ Len(kinds') = n + 1 /\ DOMAIN kinds' = 1..(n + 1)
        /\ \A e \in 1..n : kinds'[e] = kinds[e]
        /\ kinds'[n + 1] = k
    BY <1>1, AppendProperties, LenProperties
  <1>3. IsLeft(d, queue, Len(queue), S)
    BY FilteredProperties DEF DeliveryInv, QueueInv
  <1> HIDE DEF d, S, n
  <1>4. /\ d \in Seq(Nat) /\ Len(d) \in Nat /\ Len(d) <= EventQueueSize /\ Increasing(d)
        /\ \A i \in 1..Len(d) : d[i] \in 1..n
    <2>1. Len(queue) \in Nat /\ Len(d) \in Nat /\ EventQueueSize \in Nat
      BY <1>3, LenProperties, SessionAssumption DEF DeliveryInv, QueueInv, IsLeft
    <2>2. Len(d) <= Len(queue) /\ Len(queue) <= EventQueueSize
      BY <1>3 DEF IsLeft, DeliveryInv, QueueInv
    <2>3. Len(d) <= EventQueueSize
      BY <2>1, <2>2
    <2>4. ASSUME NEW i \in 1..Len(d) PROVE d[i] \in 1..n
      <3>1. PICK l \in 1..Len(queue) : d[i] = queue[l]
        BY <1>3 DEF IsLeft
      <3> QED
        BY <3>1 DEF DeliveryInv, QueueInv, n
    <2> QED
      BY <1>3, <2>1, <2>3, <2>4 DEF IsLeft
  <1>5. /\ queue' \in Seq(Nat)
        /\ Len(queue') <= EventQueueSize
        /\ Increasing(queue')
        /\ \A i \in 1..Len(queue') : queue'[i] = n + 1 \/ \E j \in 1..Len(d) : queue'[i] = d[j]
        /\ \E i \in 1..Len(queue') : queue'[i] = n + 1
        /\ \A j \in 1..Len(d) : \/ \E i \in 1..Len(queue') : queue'[i] = d[j]
                                \/ n + 1 - d[j] >= EventQueueSize
    BY <1>1, <1>4, PushedProperties
  <1>6. QueueInv'
    <2>1. ASSUME NEW i \in 1..Len(queue') PROVE queue'[i] \in 1..(n + 1)
      <3>1. CASE queue'[i] = n + 1
        BY <1>1, <3>1
      <3>2. ASSUME NEW j \in 1..Len(d), queue'[i] = d[j] PROVE queue'[i] \in 1..(n + 1)
        <4>1. d[j] \in 1..n
          BY <1>4
        <4> QED
          BY <1>1, <3>2, <4>1
      <3> QED
        BY <1>5, <3>1, <3>2
    <2>2. \A i \in 1..Len(received) : received[i] \in 1..n /\ received[i] \in 1..(n + 1)
      BY <1>1 DEF DeliveryInv, QueueInv, n
    <2>3. ASSUME NEW i \in 1..Len(received), NEW j \in 1..Len(queue')
          PROVE  received[i] < queue'[j]
      <3>1. CASE queue'[j] = n + 1
        BY <1>1, <2>2, <3>1
      <3>2. ASSUME NEW h \in 1..Len(d), queue'[j] = d[h] PROVE received[i] < queue'[j]
        <4>1. PICK l \in 1..Len(queue) : d[h] = queue[l]
          BY <1>3 DEF IsLeft
        <4> QED
          BY <3>2, <4>1 DEF DeliveryInv, QueueInv
      <3> QED
        BY <1>5, <3>1, <3>2
    <2> QED
      BY <1>1, <1>2, <1>5, <2>1, <2>2, <2>3 DEF DeliveryInv, QueueInv
  <1>7. ASSUME NEW e \in 1..(n + 1) PROVE AccountedFor(e)'
    <2>1. CASE e = n + 1
      <3>1. e \in ToSet(queue')
        BY <1>5, <2>1, EntriesOf
      <3> QED
        BY <3>1 DEF AccountedFor
    <2>2. CASE e \in 1..n
      <3>0. AccountedFor(e)
        BY <2>2 DEF DeliveryInv, n
      <3>1. CASE e \in ToSet(queue)
        <4>1. PICK l \in 1..Len(queue) : queue[l] = e
          BY <3>1, EntriesOf DEF DeliveryInv, QueueInv
        <4>2. CASE e \in S
          <5>1. PICK j \in 1..Len(d) : d[j] = e
            BY <1>3, <4>1, <4>2 DEF IsLeft
          <5>2. (\E i \in 1..Len(queue') : queue'[i] = e) \/ n + 1 - e >= EventQueueSize
            BY <1>5, <5>1
          <5>3. e \in ToSet(queue') \/ Len(kinds') - e >= EventQueueSize
            <6>1. queue' \in Seq(Nat) /\ Len(kinds') = n + 1
              BY <1>2, <1>5
            <6>2. CASE \E i \in 1..Len(queue') : queue'[i] = e
              BY <6>1, <6>2, EntriesOf
            <6>3. CASE n + 1 - e >= EventQueueSize
              <7>1. Len(kinds') = n + 1 /\ n \in Nat /\ e \in Nat
                BY <1>1, <1>2, <2>2
              <7>2. Len(kinds') - e = n + 1 - e
                BY <7>1
              <7> QED
                BY <7>2, <6>3
            <6> QED
              BY <5>2, <6>2, <6>3
          <5> QED
            BY <5>3 DEF AccountedFor
        <4>3. CASE e \notin S
          <5>1. kinds[e] = k /\ k \in Coalesced
            BY <3>1, <4>3 DEF S
          <5>2. e < n + 1 /\ n + 1 \in DOMAIN kinds'
            <6>1. n + 1 \in 1..(n + 1) /\ e < n + 1
              BY <1>1, <2>2
            <6> QED
              BY <1>2, <6>1
          <5>3. \E f \in DOMAIN kinds' :
                   e < f /\ kinds'[f] = kinds'[e] /\ kinds'[f] \in Coalesced
            <6>1. kinds'[e] = k /\ kinds'[n + 1] = k
              BY <1>2, <2>2, <5>1
            <6> QED
              BY <5>1, <5>2, <6>1
          <5> QED
            BY <5>3 DEF AccountedFor, Supersedes
        <4> QED
          BY <4>2, <4>3
      <3>2. CASE e \in ToSet(received) \/ e \in expired
        BY <1>1, <3>2 DEF AccountedFor
      <3>3. ASSUME NEW f \in DOMAIN kinds, Supersedes(f, e) PROVE AccountedFor(e)'
        <4>1. Supersedes(f, e)' /\ f \in DOMAIN kinds'
          BY <1>1, <1>2, <2>2, <3>3 DEF Supersedes
        <4> QED
          BY <4>1 DEF AccountedFor
      <3>4. CASE Len(kinds) - e >= EventQueueSize
        <4>1. Len(kinds') - e >= EventQueueSize
          BY <1>1, <1>2, <3>4, SessionAssumption DEF n
        <4> QED
          BY <4>1 DEF AccountedFor
      <3> QED
        BY <3>0, <3>1, <3>2, <3>3, <3>4 DEF AccountedFor
    <2> QED
      BY <1>1, <2>1, <2>2
  <1> QED
    BY <1>2, <1>6, <1>7 DEF DeliveryInv

\* Every step keeps it (Next).
LEMMA DeliveryStep == DeliveryInv /\ [Next]_vars => DeliveryInv'
  <1> SUFFICES ASSUME DeliveryInv, [Next]_vars PROVE DeliveryInv'
    OBVIOUS
  <1>1. CASE UNCHANGED <<queue, kinds, received, expired>>
    BY <1>1 DEF DeliveryInv, QueueInv, AccountedFor, Supersedes
  <1>2. ASSUME NEW t \in Timeouts, NEW lvl \in BOOLEAN, Listen(t, lvl) PROVE DeliveryInv'
    BY <1>1, <1>2, RespondDelivers DEF Listen, Respond
  <1>3. ASSUME NEW k \in Kind, Push(k) PROVE DeliveryInv'
    BY <1>3, PushDelivers
  <1>4. CASE Update
    <2>1. CASE MustRespond /\ Respond(listener, answer) /\ UNCHANGED <<kinds, expired>>
      BY <2>1, RespondDelivers DEF Respond
    <2>2. CASE /\ expired' = expired \cup ToSet(queue) /\ queue' = <<>>
               /\ UNCHANGED <<kinds, received>>
      <3>1. Len(<<>>) = 0 /\ <<>> \in Seq(Nat) /\ DOMAIN <<>> = {} /\ 1..0 = {}
            /\ 0 <= EventQueueSize
        BY SessionAssumption
      <3>2. QueueInv'
        BY <2>2, <3>1 DEF DeliveryInv, QueueInv, Increasing
      <3>3. ASSUME NEW e \in 1..Len(kinds) PROVE AccountedFor(e)'
        BY <2>2, <3>3 DEF DeliveryInv, AccountedFor, Supersedes
      <3> QED
        BY <2>2, <3>2, <3>3 DEF DeliveryInv
    <2> QED
      BY <1>4, <2>1, <2>2 DEF Update
  <1>5. CASE Tick \/ UNCHANGED vars
    BY <1>1, <1>5 DEF Tick, vars
  <1> QED
    BY <1>2, <1>3, <1>4, <1>5 DEF Next

\* Events reach the listeners in order and once, and none is lost without a reason, for any
\* size of the queue, any events and however the listeners come and go.
THEOREM EventsDelivered == Spec => []DeliveryHolds
  BY DeliveryInit, DeliveryStep, InvDelivers, PTL DEF Spec
=============================================================================
