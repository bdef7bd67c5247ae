----------------------------- MODULE Client_proofs -----------------------------
(***************************************************************************)
(* Proofs about the client that listens (Client): that its listening goes  *)
(* on, and that its copy agrees with the server when nothing is under way. *)
(***************************************************************************)
EXTENDS Client, SequenceTheorems, FiniteSetTheorems, WellFoundedInduction, TLAPS

(* -------------------------- numbers and sets ---------------------------- *)

\* The natural numbers are well ordered.
LEMMA LeastNumber ==
  ASSUME NEW T \in SUBSET Nat, T # {}
  PROVE  \E x \in T : \A y \in T : x <= y
<1> DEFINE R == {p \in Nat \X Nat : p[1] < p[2]}
<1>1. IsWellFoundedOn(OpToRel(<, Nat), Nat)
  BY NatLessThanWellFounded
<1>2. OpToRel(<, Nat) = R
  BY DEF OpToRel
<1>3. IsWellFoundedOn(R, Nat)
  BY <1>1, <1>2
<1>4. \E x \in T : \A y \in T : ~ (<<y, x>> \in R)
  <2> HIDE DEF R
  <2> QED
    BY <1>3, WFMin
<1>5. PICK x \in T : \A y \in T : ~ (<<y, x>> \in R)
  BY <1>4
<1>6. \A y \in T : y \in Nat /\ x \in Nat /\ ~ (y < x)
  BY <1>5
<1> QED
  BY <1>6

\* What is the greatest of a set's numbers.
Greatest(m, T) == m \in T /\ \A y \in T : y <= m

\* A finite set of numbers has a greatest one: of those without it, one of the smallest has an
\* element less.
LEMMA GreatestNumber ==
  ASSUME NEW T \in SUBSET Nat, IsFiniteSet(T), T # {}
  PROVE  \E m : Greatest(m, T)
<1> DEFINE B == {X \in SUBSET Nat : IsFiniteSet(X) /\ X # {} /\ ~\E m : Greatest(m, X)}
           N == {Cardinality(X) : X \in B}
<1>1. SUFFICES B = {}
  OBVIOUS
<1>2. SUFFICES ASSUME B # {} PROVE FALSE
  OBVIOUS
<1>3. N \in SUBSET Nat /\ N # {}
  BY <1>2, FS_CardinalityType
<1>4. PICK c \in N : \A y \in N : c <= y
  <2> HIDE DEF N
  <2> QED
    BY <1>3, LeastNumber
<1>5. PICK X \in B : Cardinality(X) = c
  BY <1>4
<1>6. PICK x \in X : TRUE
  BY <1>5
<1>7. /\ IsFiniteSet(X \ {x}) /\ Cardinality(X \ {x}) = c - 1 /\ c \in Nat
      /\ X \ {x} \in SUBSET Nat
  BY <1>3, <1>4, <1>5, <1>6, FS_RemoveElement
<1>8. X \ {x} \notin B
  <2>1. ASSUME X \ {x} \in B PROVE c - 1 \in N
    BY <2>1, <1>7
  <2> QED
    <3> HIDE DEF N
    <3> QED
      BY <2>1, <1>4, <1>7
<1>9. CASE X \ {x} = {}
  <2>1. Greatest(x, X)
    BY <1>9, <1>5, <1>6 DEF Greatest
  <2> QED
    BY <2>1, <1>5
<1>10. CASE X \ {x} # {}
  <2>1. PICK m : Greatest(m, X \ {x})
    BY <1>7, <1>8, <1>10
  <2>2. x \in Nat /\ m \in Nat
    BY <2>1, <1>5, <1>6 DEF Greatest
  <2>3. Greatest(IF m <= x THEN x ELSE m, X)
    BY <2>1, <2>2, <1>5, <1>6 DEF Greatest
  <2> QED
    BY <2>3, <1>5
<1> QED
  BY <1>9, <1>10

\* What Max takes of a finite set of numbers.
LEMMA MaxFacts ==
  ASSUME NEW T \in SUBSET Nat, IsFiniteSet(T), T # {}
  PROVE  Max(T) \in T /\ \A y \in T : y <= Max(T)
<1>1. PICK m : Greatest(m, T)
  BY GreatestNumber
<1>2. m \in T /\ \A y \in T : m >= y
  BY <1>1 DEF Greatest
<1>3. Max(T) \in T /\ \A y \in T : Max(T) >= y
  BY <1>2 DEF Max
<1> QED
  BY <1>3

\* What Min takes of a set of numbers.
LEMMA MinFacts ==
  ASSUME NEW T \in SUBSET Nat, T # {}
  PROVE  Min(T) \in T
<1>1. PICK m \in T : \A y \in T : m <= y
  BY LeastNumber
<1> QED
  BY <1>1 DEF Min

\* A set of numbers from 0 to n that has 0, and the next of each it has, has them all.
LEMMA Counting ==
  ASSUME NEW n \in Nat, NEW T, 0 \in T, \A i \in 1..n : i - 1 \in T => i \in T
  PROVE  \A i \in 0..n : i \in T
  <1> DEFINE B == {i \in 0..n : i \notin T}
  <1>1. CASE B = {}
    BY <1>1
  <1>2. CASE B # {}
    <2>1. PICK m \in B : \A y \in B : m <= y
      <3>1. B \subseteq Nat
        OBVIOUS
      <3> HIDE DEF B
      <3> QED
        BY <1>2, <3>1, LeastNumber
    <2>2. m \in 1..n /\ m - 1 \in 0..n /\ m \notin T
      BY <2>1
    <2>3. m - 1 \in T
      BY <2>1, <2>2
    <2> QED
      BY <2>2, <2>3
  <1> QED
    BY <1>1, <1>2
(* ------------------------------ sequences ------------------------------- *)

In(s, x) == \E j \in 1..Len(s) : s[j] = x

LEMMA InAppend ==
  ASSUME NEW T, NEW s \in Seq(T), NEW e \in T
  PROVE  \A x : In(Append(s, e), x) <=> In(s, x) \/ x = e
<1>1. /\ Len(s) \in Nat /\ Len(Append(s, e)) = Len(s) + 1 /\ Append(s, e)[Len(s) + 1] = e
      /\ \A j \in 1..Len(s) : Append(s, e)[j] = s[j]
  BY AppendProperties, LenProperties
<1> QED
  BY <1>1 DEF In

LEMMA InTail ==
  ASSUME NEW T, NEW s \in Seq(T), s # <<>>
  PROVE  \A x : In(s, x) <=> In(Tail(s), x) \/ x = Head(s)
<1>1. /\ Len(s) \in Nat \ {0} /\ Len(Tail(s)) = Len(s) - 1
      /\ \A j \in 1..Len(s) - 1 : Tail(s)[j] = s[j + 1]
  BY HeadTailProperties, LenProperties, EmptySeq
<1>2. Head(s) = s[1]
  BY <1>1
<1>3. ASSUME NEW x, In(s, x) PROVE In(Tail(s), x) \/ x = Head(s)
  <2>1. PICK j \in 1..Len(s) : s[j] = x
    BY <1>3 DEF In
  <2>2. CASE j = 1
    BY <2>1, <2>2, <1>2
  <2>3. CASE j # 1
    <3>1. j - 1 \in 1..Len(s) - 1 /\ Tail(s)[j - 1] = x
      BY <1>1, <2>1, <2>3
    <3> QED
      BY <3>1, <1>1 DEF In
  <2> QED
    BY <2>2, <2>3
<1>4. ASSUME NEW x, In(Tail(s), x) \/ x = Head(s) PROVE In(s, x)
  BY <1>1, <1>2, <1>4 DEF In
<1> QED
  BY <1>3, <1>4

LEMMA InConcat ==
  ASSUME NEW T, NEW s \in Seq(T), NEW t \in Seq(T)
  PROVE  \A x : In(s \o t, x) <=> In(s, x) \/ In(t, x)
<1>1. /\ Len(s) \in Nat /\ Len(t) \in Nat /\ Len(s \o t) = Len(s) + Len(t)
      /\ \A j \in 1..Len(s) + Len(t) :
            (s \o t)[j] = IF j <= Len(s) THEN s[j] ELSE t[j - Len(s)]
  BY ConcatProperties, LenProperties
<1>2. ASSUME NEW x, In(s \o t, x) PROVE In(s, x) \/ In(t, x)
  <2>1. PICK j \in 1..Len(s) + Len(t) : (s \o t)[j] = x
    BY <1>1, <1>2 DEF In
  <2>2. CASE j <= Len(s)
    BY <1>1, <2>1, <2>2 DEF In
  <2>3. CASE ~(j <= Len(s))
    <3>1. j - Len(s) \in 1..Len(t) /\ t[j - Len(s)] = x
      BY <1>1, <2>1, <2>3
    <3> QED
      BY <3>1 DEF In
  <2> QED
    BY <2>2, <2>3
<1>3. ASSUME NEW x, In(s, x) PROVE In(s \o t, x)
  BY <1>1, <1>3 DEF In
<1>4. ASSUME NEW x, In(t, x) PROVE In(s \o t, x)
  <2>1. PICK j \in 1..Len(t) : t[j] = x
    BY <1>4 DEF In
  <2>2. j + Len(s) \in 1..Len(s) + Len(t) /\ (s \o t)[j + Len(s)] = x
    BY <1>1, <2>1
  <2> QED
    BY <1>1, <2>2 DEF In
<1> QED
  BY <1>2, <1>3, <1>4

LEMMA InType ==
  ASSUME NEW T, NEW s \in Seq(T)
  PROVE  /\ \A x : In(s, x) => x \in T
         /\ (s = <<>>) <=> \A x : ~In(s, x)
         /\ s # <<>> => In(s, Head(s))
  BY ElementOfSeq, LenProperties, EmptySeq DEF In

\* r is what Without leaves of s.
Drops(s, x, r) ==
    \/ r = s /\ ~In(s, x)
    \/ \E a \in 1..Len(s) :
          /\ s[a] = x
          /\ Len(r) = Len(s) - 1
          /\ \A j \in 1..Len(s) - 1 : r[j] = IF j < a THEN s[j] ELSE s[j + 1]

LEMMA WithoutFacts ==
  ASSUME NEW T, NEW s \in Seq(T), NEW x
  PROVE  Without(s, x) \in Seq(T) /\ Drops(s, x, Without(s, x))
<1> DEFINE at == {j \in DOMAIN s : s[j] = x}
<1>1. Len(s) \in Nat /\ DOMAIN s = 1..Len(s) /\ \A j \in 1..Len(s) : s[j] \in T
  BY LenProperties, ElementOfSeq
<1>2. CASE at = {}
  BY <1>1, <1>2 DEF Without, Drops, In
<1>3. CASE at # {}
  <2>1. at \in SUBSET Nat
    BY <1>1
  <2>2. PICK a \in at : a = Min(at)
    BY <1>3, <2>1, MinFacts
  <2>3. Without(s, x) = RemoveAt(s, a)
    BY <1>3, <2>2 DEF Without
  <2>4. a \in 1..Len(s) /\ s[a] = x
    BY <1>1
  <2> DEFINE b == SubSeq(s, 1, a - 1)
             c == SubSeq(s, a + 1, Len(s))
  <2>5. /\ b \in Seq(T) /\ Len(b) = a - 1 /\ \A j \in 1..a - 1 : b[j] = s[j]
    <3>1. /\ b \in Seq(T)
          /\ Len(b) = IF 1 <= a - 1 THEN a - 1 - 1 + 1 ELSE 0
          /\ \A j \in 1..a - 1 - 1 + 1 : b[j] = s[1 + j - 1]
      <4>1. \A j \in 1..a - 1 : s[j] \in T
        BY <1>1, <2>4
      <4> QED
        BY <4>1, <2>4, SubSeqProperties
    <3> QED
      BY <3>1, <2>4
  <2>6. /\ c \in Seq(T) /\ Len(c) = Len(s) - a
        /\ \A j \in 1..Len(s) - a : c[j] = s[a + j]
    <3>1. /\ c \in Seq(T)
          /\ Len(c) = IF a + 1 <= Len(s) THEN Len(s) - (a + 1) + 1 ELSE 0
          /\ \A j \in 1..Len(s) - (a + 1) + 1 : c[j] = s[a + 1 + j - 1]
      <4>1. \A j \in a + 1..Len(s) : s[j] \in T
        BY <1>1, <2>4
      <4> QED
        BY <4>1, <1>1, <2>4, SubSeqProperties
    <3> QED
      BY <3>1, <1>1, <2>4
  <2> HIDE DEF b, c
  <2>7. RemoveAt(s, a) = b \o c
    BY DEF RemoveAt, b, c
  <2>8. /\ b \o c \in Seq(T) /\ Len(b \o c) = Len(b) + Len(c)
        /\ \A j \in 1..Len(b) + Len(c) :
              (b \o c)[j] = IF j <= Len(b) THEN b[j] ELSE c[j - Len(b)]
    BY <2>5, <2>6, ConcatProperties
  <2>9. Len(b \o c) = Len(s) - 1
    BY <1>1, <2>4, <2>5, <2>6, <2>8
  <2>10. \A j \in 1..Len(s) - 1 : (b \o c)[j] = IF j < a THEN s[j] ELSE s[j + 1]
    <3> TAKE j \in 1..Len(s) - 1
    <3>1. j \in 1..Len(b) + Len(c) /\ j \in Nat
      BY <1>1, <2>4, <2>5, <2>6
    <3>2. CASE j < a
      <4>1. j <= Len(b) /\ j \in 1..a - 1
        BY <1>1, <2>4, <2>5, <3>1, <3>2
      <4> QED
        BY <4>1, <2>5, <2>8, <3>1, <3>2
    <3>3. CASE ~(j < a)
      <4>1. ~(j <= Len(b)) /\ j - Len(b) \in 1..Len(s) - a /\ a + (j - Len(b)) = j + 1
        BY <1>1, <2>4, <2>5, <3>1, <3>3
      <4> QED
        BY <4>1, <2>6, <2>8, <3>1, <3>3
    <3> QED
      BY <3>2, <3>3
  <2> QED
    BY <2>3, <2>4, <2>7, <2>8, <2>9, <2>10 DEF Drops
<1> QED
  BY <1>2, <1>3

LEMMA InDrops ==
  ASSUME NEW T, NEW s \in Seq(T), NEW x, NEW r, Drops(s, x, r)
  PROVE  \A y : y # x => (In(r, y) <=> In(s, y))
<1>1. Len(s) \in Nat
  BY LenProperties
<1>2. SUFFICES ASSUME NEW a \in 1..Len(s), s[a] = x, Len(r) = Len(s) - 1,
                      \A j \in 1..Len(s) - 1 : r[j] = IF j < a THEN s[j] ELSE s[j + 1]
               PROVE  \A y : y # x => (In(r, y) <=> In(s, y))
  BY DEF Drops
<1>3. ASSUME NEW y, In(r, y) PROVE In(s, y)
  BY <1>1, <1>2, <1>3 DEF In
<1>4. ASSUME NEW y, y # x, In(s, y) PROVE In(r, y)
  <2>1. PICK j \in 1..Len(s) : s[j] = y
    BY <1>4 DEF In
  <2>2. CASE j < a
    BY <1>1, <1>2, <2>1, <2>2 DEF In
  <2>3. CASE a < j
    <3>1. j - 1 \in 1..Len(s) - 1 /\ r[j - 1] = y
      BY <1>1, <1>2, <2>1, <2>3
    <3> QED
      BY <3>1, <1>2 DEF In
  <2> QED
    BY <1>2, <1>4, <2>1, <2>2, <2>3
<1> QED
  BY <1>3, <1>4

\* No entry of s is there twice.
Distinct(s) == \A m, n \in 1..Len(s) : s[m] = s[n] => m = n

LEMMA DistinctAppend ==
  ASSUME NEW T, NEW s \in Seq(T), NEW e \in T, Distinct(s), ~In(s, e)
  PROVE  Distinct(Append(s, e))
<1>1. /\ Len(s) \in Nat /\ Len(Append(s, e)) = Len(s) + 1 /\ Append(s, e)[Len(s) + 1] = e
      /\ \A j \in 1..Len(s) : Append(s, e)[j] = s[j]
  BY AppendProperties, LenProperties
<1>2. \A j \in 1..Len(s) : s[j] # e
  BY DEF In
<1> SUFFICES ASSUME NEW m \in 1..Len(s) + 1, NEW n \in 1..Len(s) + 1,
                    Append(s, e)[m] = Append(s, e)[n]
             PROVE  m = n
  BY <1>1 DEF Distinct
<1>3. CASE m \in 1..Len(s) /\ n \in 1..Len(s)
  BY <1>1, <1>3 DEF Distinct
<1>4. CASE m = Len(s) + 1 \/ n = Len(s) + 1
  BY <1>1, <1>2, <1>4
<1> QED
  BY <1>1, <1>3, <1>4

LEMMA DistinctTail ==
  ASSUME NEW T, NEW s \in Seq(T), s # <<>>, Distinct(s)
  PROVE  Distinct(Tail(s)) /\ ~In(Tail(s), Head(s))
<1>1. /\ Len(s) \in Nat \ {0} /\ Len(Tail(s)) = Len(s) - 1
      /\ \A j \in 1..Len(s) - 1 : Tail(s)[j] = s[j + 1]
  BY HeadTailProperties, LenProperties, EmptySeq
<1>2. Head(s) = s[1]
  BY <1>1
<1>3. \A m, n \in 1..Len(s) - 1 : m + 1 \in 1..Len(s) /\ (m + 1 = n + 1 => m = n)
  BY <1>1
<1>4. Distinct(Tail(s))
  BY <1>1, <1>3 DEF Distinct
<1>5. \A m \in 1..Len(s) - 1 : m + 1 # 1 /\ 1 \in 1..Len(s)
  BY <1>1
<1> QED
  BY <1>1, <1>2, <1>3, <1>4, <1>5 DEF Distinct, In

LEMMA DistinctDrops ==
  ASSUME NEW T, NEW s \in Seq(T), NEW x, NEW r, Drops(s, x, r), Distinct(s)
  PROVE  Distinct(r) /\ ~In(r, x)
<1>1. Len(s) \in Nat
  BY LenProperties
<1>2. CASE r = s /\ ~In(s, x)
  BY <1>2
<1>3. CASE \E a \in 1..Len(s) : /\ s[a] = x /\ Len(r) = Len(s) - 1
                                /\ \A j \in 1..Len(s) - 1 : r[j] = IF j < a THEN s[j] ELSE s[j + 1]
  <2>1. PICK a \in 1..Len(s) :
              /\ s[a] = x /\ Len(r) = Len(s) - 1
              /\ \A j \in 1..Len(s) - 1 : r[j] = IF j < a THEN s[j] ELSE s[j + 1]
    BY <1>3
  <2> DEFINE at(j) == IF j < a THEN j ELSE j + 1
  <2>2. \A j \in 1..Len(s) - 1 : at(j) \in 1..Len(s) /\ r[j] = s[at(j)] /\ at(j) # a
    BY <1>1, <2>1
  <2>3. \A m, n \in 1..Len(s) - 1 : at(m) = at(n) => m = n
    BY <1>1
  <2> HIDE DEF at
  <2>4. Distinct(r)
    BY <2>1, <2>2, <2>3 DEF Distinct
  <2>5. ~In(r, x)
    BY <2>1, <2>2 DEF Distinct, In
  <2> QED
    BY <2>4, <2>5
<1> QED
  BY <1>2, <1>3 DEF Drops

\* Where x is in s, it is the last one.
LastOf(s, x) == \A j \in 1..Len(s) : s[j] = x => j = Len(s)

LEMMA LastAppend ==
  ASSUME NEW T, NEW s \in Seq(T), NEW e \in T, ~In(s, e)
  PROVE  LastOf(Append(s, e), e)
<1>1. /\ Len(s) \in Nat /\ Len(Append(s, e)) = Len(s) + 1
      /\ \A j \in 1..Len(s) : Append(s, e)[j] = s[j]
  BY AppendProperties, LenProperties
<1> QED
  BY <1>1 DEF LastOf, In

LEMMA LastTail ==
  ASSUME NEW T, NEW s \in Seq(T), s # <<>>, NEW x, LastOf(s, x)
  PROVE  LastOf(Tail(s), x) /\ (Head(s) = x => Tail(s) = <<>>)
<1>1. /\ Len(s) \in Nat \ {0} /\ Len(Tail(s)) = Len(s) - 1 /\ Tail(s) \in Seq(T)
      /\ \A j \in 1..Len(s) - 1 : Tail(s)[j] = s[j + 1]
  BY HeadTailProperties, LenProperties, EmptySeq
<1>2. Head(s) = s[1] /\ Len(s) \in Nat /\ 1 <= Len(s) /\ 1 \in 1..Len(s)
  BY <1>1
<1>3. \A j \in 1..Len(s) - 1 : j + 1 \in 1..Len(s) /\ (j + 1 = Len(s) => j = Len(s) - 1)
  BY <1>2
<1>4. LastOf(Tail(s), x)
  BY <1>1, <1>3 DEF LastOf
<1>5. ASSUME Head(s) = x PROVE Tail(s) = <<>>
  <2>1. 1 = Len(s)
    BY <1>2, <1>5 DEF LastOf
  <2> QED
    BY <2>1, <1>1, EmptySeq
<1> QED
  BY <1>4, <1>5

LEMMA LastDrops ==
  ASSUME NEW T, NEW s \in Seq(T), NEW x, NEW r, Drops(s, x, r), NEW y, y # x, LastOf(s, y)
  PROVE  LastOf(r, y)
<1>1. Len(s) \in Nat
  BY LenProperties
<1>2. CASE r = s
  BY <1>2
<1>3. CASE \E a \in 1..Len(s) : /\ s[a] = x /\ Len(r) = Len(s) - 1
                                /\ \A j \in 1..Len(s) - 1 : r[j] = IF j < a THEN s[j] ELSE s[j + 1]
  <2>1. PICK a \in 1..Len(s) :
              /\ s[a] = x /\ Len(r) = Len(s) - 1
              /\ \A j \in 1..Len(s) - 1 : r[j] = IF j < a THEN s[j] ELSE s[j + 1]
    BY <1>3
  <2>2. ASSUME NEW j \in 1..Len(s) - 1, r[j] = y PROVE j = Len(s) - 1
    <3>1. CASE j < a
      BY <1>1, <2>1, <2>2, <3>1 DEF LastOf
    <3>2. CASE ~(j < a)
      <4>1. j + 1 \in 1..Len(s) /\ s[j + 1] = y
        BY <1>1, <2>1, <2>2, <3>2
      <4> QED
        BY <4>1, <1>1 DEF LastOf
    <3> QED
      BY <3>1, <3>2
  <2> QED
    BY <2>1, <2>2 DEF LastOf
<1> QED
  BY <1>2, <1>3 DEF Drops

(* ------------------------------- the copy -------------------------------- *)

EventType == [kind : {"put", "change", "remove", "full"}, item : Item, state : Int]
States == [Item -> Int]

LEMMA TakeEventType ==
  ASSUME NEW c \in States, NEW e \in EventType
  PROVE  TakeEvent(c, e) \in States
BY DEF States, EventType, TakeEvent

\* What a state of item i is after an event.
After(v, e, i) == IF e.item = i /\ (e.kind = "put" \/ (e.kind # "full" /\ There(v)))
                  THEN e.state ELSE v

LEMMA TakeEventAt ==
  ASSUME NEW c \in States, NEW e \in EventType, NEW i \in Item
  PROVE  TakeEvent(c, e)[i] = After(c[i], e, i)
BY DEF States, EventType, TakeEvent, Takes, After

\* after[j] is the copy c after the first j events.
Applies(after, c, s) ==
    /\ Updated(c, s) = after[Len(s)]
    /\ after \in [0..Len(s) -> States]
    /\ after[0] = c
    /\ \A j \in 1..Len(s) : after[j] = TakeEvent(after[j - 1], s[j])

\* The recursion of Updated defines a function.
LEMMA UpdatedDefined ==
  ASSUME NEW c \in States, NEW s \in Seq(EventType)
  PROVE  \E after : Applies(after, c, s)
<1> DEFINE n == Len(s)
           Good(g, m) == /\ g \in [0..m -> States]
                         /\ g[0] = c
                         /\ \A j \in 1..m : g[j] = TakeEvent(g[j - 1], s[j])
           T == {m \in 0..n : \E g : Good(g, m)}
           F(g) == [j \in 0..n |-> IF j = 0 THEN c ELSE TakeEvent(g[j - 1], s[j])]
<1>1. n \in Nat
  BY LenProperties
<1>2. \A d \in States, j \in 1..n : TakeEvent(d, s[j]) \in States
  BY ElementOfSeq, TakeEventType
<1>3. Updated(c, s) = (CHOOSE f : f = F(f))[n]
  BY DEF Updated
<1> HIDE DEF n
<1>4. 0 \in T
  <2>1. Good([j \in 0..0 |-> c], 0)
    OBVIOUS
  <2> HIDE DEF Good
  <2> QED
    BY <1>1, <2>1
<1>5. \A m \in 1..n : m - 1 \in T => m \in T
  <2> SUFFICES ASSUME NEW m \in 1..n, NEW g, Good(g, m - 1) PROVE \E h : Good(h, m)
    <3> HIDE DEF Good
    <3> QED
      BY <1>1
  <2> DEFINE w == TakeEvent(g[m - 1], s[m])
             h == [j \in 0..m |-> IF j = m THEN w ELSE g[j]]
  <2>1. m \in Nat /\ m # 0 /\ m - 1 \in 0..(m - 1) /\ g[m - 1] \in States
    BY <1>1
  <2>2. w \in States
    BY <1>2, <2>1
  <2> HIDE DEF w
  <2>3. h \in [0..m -> States] /\ h[0] = c
    BY <2>1, <2>2
  <2>4. ASSUME NEW j \in 1..m PROVE h[j] = TakeEvent(h[j - 1], s[j])
    <3>1. h[j - 1] = g[j - 1]
      BY <2>1
    <3>2. CASE j = m
      BY <3>1, <3>2 DEF w
    <3>3. CASE j # m
      <4>1. j \in 1..(m - 1) /\ h[j] = g[j]
        BY <2>1, <3>3
      <4>2. g[j] = TakeEvent(g[j - 1], s[j])
        BY <4>1
      <4> QED
        BY <3>1, <4>1, <4>2
    <3> QED
      BY <3>2, <3>3
  <2> HIDE DEF h
  <2> QED
    BY <2>3, <2>4
<1>6. n \in T
  <2> HIDE DEF T
  <2>1. \A j \in 0..n : j \in T
    BY <1>1, <1>4, <1>5, Counting
  <2> QED
    BY <1>1, <2>1
<1>7. PICK g : Good(g, n)
  BY <1>6
<1>8. g = F(g)
  <2>1. \A j \in 0..n : g[j] = F(g)[j]
    BY <1>1, <1>7
  <2>2. g \in [0..n -> States]
    BY <1>7
  <2> QED
    BY <2>1, <2>2
<1> DEFINE after == CHOOSE f : f = F(f)
<1>9. after = F(after)
  <2> HIDE DEF F
  <2> QED
    BY <1>8
<1> HIDE DEF after
<1>10. after[0] = c
  BY <1>1, <1>9
<1>11. ASSUME NEW j \in 1..n PROVE after[j] = TakeEvent(after[j - 1], s[j])
  <2>1. F(after)[j] = TakeEvent(after[j - 1], s[j])
    BY <1>1
  <2> QED
    BY <1>9, <2>1, Zenon
<1>12. DOMAIN after = 0..n /\ after = [j \in 0..n |-> after[j]]
  <2>1. \E f : f = F(f)
    BY <1>8
  <2>2. DOMAIN F(after) = 0..n /\ F(after) = [j \in 0..n |-> F(after)[j]]
    OBVIOUS
  <2> HIDE DEF F
  <2> QED
    BY <1>9, <2>2
<1>13. \A j \in 0..n : after[j] \in States
  <2> DEFINE D == {j \in 0..n : after[j] \in States}
  <2>1. 0 \in D
    BY <1>1, <1>10
  <2>2. \A j \in 1..n : j - 1 \in D => j \in D
    BY <1>1, <1>2, <1>11
  <2>3. \A j \in 0..n : j \in D
    <3> HIDE DEF D
    <3> QED
      BY <1>1, <2>1, <2>2, Counting
  <2> QED
    BY <2>3
<1>14. after \in [0..n -> States]
  BY <1>12, <1>13
<1>15. Updated(c, s) = after[n]
  BY <1>3 DEF after
<1> QED
  BY <1>10, <1>11, <1>14, <1>15 DEF n, Applies

\* What holds of an item's state before the events and is kept by each holds after them.
LEMMA UpdatedRuns ==
  ASSUME NEW c \in States, NEW s \in Seq(EventType), NEW i \in Item, NEW R,
         <<0, c[i]>> \in R,
         \A j \in 1..Len(s), v \in Int : <<j - 1, v>> \in R => <<j, After(v, s[j], i)>> \in R
  PROVE  /\ Updated(c, s) \in States
         /\ <<Len(s), Updated(c, s)[i]>> \in R
<1>1. PICK after : Applies(after, c, s)
  BY UpdatedDefined
<1> DEFINE T == {j \in 0..Len(s) : <<j, after[j][i]>> \in R}
<1>2. Len(s) \in Nat
  BY LenProperties
<1>3. 0 \in T
  BY <1>1, <1>2 DEF Applies
<1>4. ASSUME NEW j \in 1..Len(s), j - 1 \in T PROVE j \in T
  <2>1. after[j - 1] \in States /\ s[j] \in EventType
    BY <1>1, <1>2, ElementOfSeq DEF Applies
  <2>2. after[j][i] = After(after[j - 1][i], s[j], i)
    BY <1>1, <2>1, TakeEventAt DEF Applies
  <2>3. after[j - 1][i] \in Int
    BY <2>1 DEF States
  <2> QED
    BY <1>2, <1>4, <2>2, <2>3
<1>5. \A j \in 0..Len(s) : j \in T
  <2> HIDE DEF T
  <2> QED
    BY <1>2, <1>3, <1>4, Counting
<1> QED
  BY <1>1, <1>2, <1>5 DEF Applies

LEMMA UpdatedType ==
  ASSUME NEW c \in States, NEW s \in Seq(EventType)
  PROVE  Updated(c, s) \in States
<1>1. PICK after : Applies(after, c, s)
  BY UpdatedDefined
<1> QED
  BY <1>1, LenProperties DEF Applies

LEMMA UpdatedByNone ==
  ASSUME NEW c \in States
  PROVE  Updated(c, <<>>) = c
<1>1. <<>> \in Seq(EventType) /\ Len(<<>>) = 0
  BY EmptySeq
<1>2. PICK after : Applies(after, c, <<>>)
  BY <1>1, UpdatedDefined
<1> QED
  BY <1>1, <1>2 DEF Applies

\* Events are applied one after the other.
LEMMA UpdatedJoin ==
  ASSUME NEW c \in States, NEW s \in Seq(EventType), NEW t \in Seq(EventType)
  PROVE  Updated(c, s \o t) = Updated(Updated(c, s), t)
<1>1. /\ s \o t \in Seq(EventType) /\ Len(s) \in Nat /\ Len(t) \in Nat
      /\ Len(s \o t) = Len(s) + Len(t)
      /\ \A j \in 1..Len(s) + Len(t) :
            (s \o t)[j] = IF j <= Len(s) THEN s[j] ELSE t[j - Len(s)]
  BY ConcatProperties, LenProperties
<1>2. PICK a : Applies(a, c, s)
  BY UpdatedDefined
<1>3. PICK b : Applies(b, Updated(c, s), t)
  BY UpdatedType, UpdatedDefined
<1>4. PICK d : Applies(d, c, s \o t)
  BY <1>1, UpdatedDefined
<1> DEFINE A == {j \in 0..Len(s) : d[j] = a[j]}
           B == {j \in 0..Len(t) : d[Len(s) + j] = b[j]}
<1>5. \A j \in 0..Len(s) : j \in A
  <2>1. 0 \in A
    BY <1>1, <1>2, <1>4 DEF Applies
  <2>2. \A j \in 1..Len(s) : j - 1 \in A => j \in A
    BY <1>1, <1>2, <1>4 DEF Applies
  <2> HIDE DEF A
  <2> QED
    BY <1>1, <2>1, <2>2, Counting
<1>6. \A j \in 0..Len(t) : j \in B
  <2>1. 0 \in B
    <3>1. d[Len(s)] = a[Len(s)]
      BY <1>1, <1>5
    <3>2. Len(s) + 0 = Len(s) /\ 0 \in 0..Len(t)
      BY <1>1
    <3> QED
      BY <1>1, <1>2, <1>3, <3>1, <3>2 DEF Applies
  <2>2. ASSUME NEW j \in 1..Len(t), j - 1 \in B PROVE j \in B
    <3>1. /\ Len(s) + j \in 1..Len(s) + Len(t) /\ ~(Len(s) + j <= Len(s))
          /\ Len(s) + j - Len(s) = j /\ Len(s) + j - 1 = Len(s) + (j - 1)
      BY <1>1
    <3>2. (s \o t)[Len(s) + j] = t[j]
      BY <1>1, <3>1
    <3>3. d[Len(s) + j] = TakeEvent(d[Len(s) + (j - 1)], t[j])
      BY <1>1, <1>4, <3>1, <3>2 DEF Applies
    <3> QED
      BY <1>3, <2>2, <3>3 DEF Applies
  <2> HIDE DEF B
  <2> QED
    BY <1>1, <2>1, <2>2, Counting
<1>7. d[Len(s) + Len(t)] = b[Len(t)]
  BY <1>1, <1>6
<1> QED
  BY <1>1, <1>3, <1>4, <1>7 DEF Applies

\* What becomes of an item depends on no other.
LEMMA UpdatedAlike ==
  ASSUME NEW c \in States, NEW d \in States, NEW s \in Seq(EventType), NEW i \in Item, c[i] = d[i]
  PROVE  Updated(c, s)[i] = Updated(d, s)[i]
<1>1. PICK after : Applies(after, d, s)
  BY UpdatedDefined
<1> DEFINE R == {<<j, after[j][i]>> : j \in 0..Len(s)}
<1>2. Len(s) \in Nat
  BY LenProperties
<1>3. <<0, c[i]>> \in R
  BY <1>1, <1>2 DEF Applies
<1>4. ASSUME NEW j \in 1..Len(s), NEW v \in Int, <<j - 1, v>> \in R
      PROVE  <<j, After(v, s[j], i)>> \in R
  <2>1. after[j - 1] \in States /\ s[j] \in EventType
    BY <1>1, <1>2, ElementOfSeq DEF Applies
  <2>2. after[j][i] = After(after[j - 1][i], s[j], i)
    BY <1>1, <2>1, TakeEventAt DEF Applies
  <2>3. v = after[j - 1][i]
    BY <1>2, <1>4
  <2> QED
    BY <1>2, <2>2, <2>3
<1>5. <<Len(s), Updated(c, s)[i]>> \in R
  <2> HIDE DEF R
  <2> QED
    BY <1>3, <1>4, UpdatedRuns
<1> QED
  BY <1>1, <1>2, <1>5 DEF Applies

\* An item's state after the events is the one before or that of an event of it.
LEMMA UpdatedSource ==
  ASSUME NEW c \in States, NEW s \in Seq(EventType), NEW i \in Item
  PROVE  \/ Updated(c, s)[i] = c[i]
         \/ \E j \in 1..Len(s) : s[j].item = i /\ s[j].kind # "full" /\ Updated(c, s)[i] = s[j].state
<1> DEFINE Told == {s[h].state : h \in {h \in 1..Len(s) : s[h].item = i /\ s[h].kind # "full"}}
           R == (0..Len(s)) \X ({c[i]} \cup Told)
<1>1. Len(s) \in Nat
  BY LenProperties
<1>2. <<0, c[i]>> \in R
  BY <1>1
<1>3. ASSUME NEW j \in 1..Len(s), NEW v \in Int, <<j - 1, v>> \in R
      PROVE  <<j, After(v, s[j], i)>> \in R
  BY <1>1, <1>3 DEF After
<1>4. <<Len(s), Updated(c, s)[i]>> \in R
  <2> HIDE DEF R
  <2> QED
    BY <1>2, <1>3, UpdatedRuns
<1> QED
  BY <1>4

\* Events that all tell the same of an item, one of them taken, leave it as they tell.
LEMMA UpdatedTold ==
  ASSUME NEW c \in States, NEW s \in Seq(EventType), NEW i \in Item, NEW w \in Int,
         \A j \in 1..Len(s) : s[j].item = i =>
            /\ s[j].state = w /\ s[j].kind # "full"
            /\ s[j].kind = "put" \/ There(c[i]),
         \E j \in 1..Len(s) : s[j].item = i
  PROVE  Updated(c, s)[i] = w
<1> DEFINE R == {p \in (0..Len(s)) \X Int :
                    p[2] = IF \E h \in 1..p[1] : s[h].item = i THEN w ELSE c[i]}
<1>1. Len(s) \in Nat
  BY LenProperties
<1>2. <<0, c[i]>> \in R
  BY <1>1 DEF States
<1>3. ASSUME NEW j \in 1..Len(s), NEW v \in Int, <<j - 1, v>> \in R
      PROVE  <<j, After(v, s[j], i)>> \in R
  <2>1. v = IF \E h \in 1..(j - 1) : s[h].item = i THEN w ELSE c[i]
    BY <1>3
  <2>2. CASE s[j].item = i
    <3>1. \E h \in 1..j : s[h].item = i
      BY <2>2
    <3>2. After(v, s[j], i) = w
      BY <2>1, <2>2 DEF After
    <3> QED
      BY <1>1, <3>1, <3>2
  <2>3. CASE s[j].item # i
    <3>1. (\E h \in 1..j : s[h].item = i) <=> (\E h \in 1..(j - 1) : s[h].item = i)
      BY <2>3
    <3>2. After(v, s[j], i) = v
      BY <2>3 DEF After
    <3> QED
      BY <1>1, <2>1, <3>1, <3>2
  <2> QED
    BY <2>2, <2>3
<1>4. <<Len(s), Updated(c, s)[i]>> \in R
  <2> HIDE DEF R
  <2> QED
    BY <1>2, <1>3, UpdatedRuns
<1> QED
  BY <1>4

(* ----------------------- the changes on the server ----------------------- *)

\* The state of item i after the first n changes of s.
StateIn(s, i, n) ==
    LET past == {j \in 1..n : s[j].item = i}
    IN IF past = {} THEN 1 ELSE s[Max(past)].state

\* The last of the first n changes of s that is one of item i, if any, is the j-th.
LastChange(s, i, n, j) ==
    /\ j \in 0..n
    /\ j # 0 => s[j].item = i
    /\ \A h \in j + 1..n : s[h].item # i

\* A history of changes: the ages go up by one, and what there is not is neither changed
\* nor removed.
History(s) ==
    \A j \in 1..Len(s) :
        /\ Age(s[j].state) = j + 1
        /\ There(s[j].state) <=> s[j].kind # "remove"
        /\ s[j].kind \in {"change", "remove"} => There(StateIn(s, s[j].item, j - 1))

LEMMA LastChangeIs ==
  ASSUME NEW s, NEW i, NEW n \in Nat
  PROVE  /\ \E j : LastChange(s, i, n, j)
         /\ \A j : LastChange(s, i, n, j) => StateIn(s, i, n) = IF j = 0 THEN 1 ELSE s[j].state
<1> DEFINE past == {j \in 1..n : s[j].item = i}
<1>1. past \in SUBSET Nat /\ IsFiniteSet(past)
  <2>1. IsFiniteSet(1..n) /\ past \in SUBSET (1..n)
    BY FS_Interval
  <2>2. IsFiniteSet(past)
    <3> HIDE DEF past
    <3> QED
      BY <2>1, FS_Subset
  <2> QED
    BY <2>2
<1>2. CASE past = {}
  <2>1. LastChange(s, i, n, 0)
    BY <1>2 DEF LastChange
  <2>2. StateIn(s, i, n) = 1
    BY <1>2 DEF StateIn
  <2>3. \A j : LastChange(s, i, n, j) => j = 0
    BY <1>2 DEF LastChange
  <2> QED
    BY <2>1, <2>2, <2>3
<1>3. CASE past # {}
  <2>1. Max(past) \in past /\ \A y \in past : y <= Max(past)
    <3> HIDE DEF past
    <3> QED
      BY <1>1, <1>3, MaxFacts
  <2>2. StateIn(s, i, n) = s[Max(past)].state
    BY <1>3 DEF StateIn
  <2> DEFINE m == Max(past)
  <2> HIDE DEF m
  <2>3. m \in 1..n /\ s[m].item = i /\ \A y \in 1..n : s[y].item = i => y <= m
    BY <2>1 DEF m
  <2>4. LastChange(s, i, n, m)
    BY <2>3 DEF LastChange
  <2>5. \A j : LastChange(s, i, n, j) => j = m /\ j # 0
    BY <2>3 DEF LastChange
  <2>6. StateIn(s, i, n) = s[m].state
    BY <2>2 DEF m
  <2> QED
    BY <2>4, <2>5, <2>6
<1> QED
  BY <1>2, <1>3

LEMMA StateInType ==
  ASSUME NEW s \in Seq(EventType), NEW i, NEW n \in 0..Len(s)
  PROVE  StateIn(s, i, n) \in Int
<1>1. Len(s) \in Nat /\ n \in Nat
  BY LenProperties
<1>2. PICK j : LastChange(s, i, n, j)
  BY <1>1, LastChangeIs
<1>3. StateIn(s, i, n) = IF j = 0 THEN 1 ELSE s[j].state
  BY <1>1, <1>2, LastChangeIs
<1>4. j # 0 => s[j] \in EventType
  BY <1>1, <1>2, ElementOfSeq DEF LastChange
<1> QED
  BY <1>3, <1>4 DEF EventType

\* The first state of an item, and what each change makes of it.
LEMMA StateInStep ==
  ASSUME NEW s, NEW i
  PROVE  /\ StateIn(s, i, 0) = 1
         /\ \A n \in Nat \ {0} :
               StateIn(s, i, n) = IF s[n].item = i THEN s[n].state ELSE StateIn(s, i, n - 1)
<1>1. LastChange(s, i, 0, 0)
  BY DEF LastChange
<1>2. ASSUME NEW n \in Nat \ {0}, s[n].item = i PROVE StateIn(s, i, n) = s[n].state
  <2>1. LastChange(s, i, n, n)
    BY <1>2 DEF LastChange
  <2> QED
    BY <2>1, LastChangeIs
<1>3. ASSUME NEW n \in Nat \ {0}, s[n].item # i PROVE StateIn(s, i, n) = StateIn(s, i, n - 1)
  <2>0. n - 1 \in Nat
    OBVIOUS
  <2>1. PICK j : LastChange(s, i, n - 1, j)
    BY <2>0, LastChangeIs
  <2>2. LastChange(s, i, n, j)
    BY <1>3, <2>1 DEF LastChange
  <2>3. /\ StateIn(s, i, n) = IF j = 0 THEN 1 ELSE s[j].state
        /\ StateIn(s, i, n - 1) = IF j = 0 THEN 1 ELSE s[j].state
    BY <2>0, <2>1, <2>2, LastChangeIs
  <2> QED
    BY <2>3
<1> QED
  BY <1>1, <1>2, <1>3, LastChangeIs

\* Between changes of an item its state stays, and it is younger after one.
LEMMA StateMono ==
  ASSUME NEW s \in Seq(EventType), History(s), NEW i, NEW m \in 0..Len(s), NEW n \in m..Len(s)
  PROVE  /\ \/ StateIn(s, i, m) = StateIn(s, i, n)
            \/ Age(StateIn(s, i, m)) < Age(StateIn(s, i, n))
         /\ (\A h \in m + 1..n : s[h].item # i) => StateIn(s, i, m) = StateIn(s, i, n)
         /\ (\E h \in m + 1..n : s[h].item = i) =>
               \E h \in m + 1..n : s[h].item = i /\ StateIn(s, i, n) = s[h].state
<1>1. Len(s) \in Nat /\ m \in Nat /\ n \in Nat
  BY LenProperties
<1>2. PICK a : LastChange(s, i, m, a)
  BY <1>1, LastChangeIs
<1>3. PICK b : LastChange(s, i, n, b)
  BY <1>1, LastChangeIs
<1>4. /\ StateIn(s, i, m) = IF a = 0 THEN 1 ELSE s[a].state
      /\ StateIn(s, i, n) = IF b = 0 THEN 1 ELSE s[b].state
  BY <1>1, <1>2, <1>3, LastChangeIs
<1>5. /\ a \in 0..m /\ b \in 0..n
      /\ a # 0 => Age(s[a].state) = a + 1
      /\ b # 0 => Age(s[b].state) = b + 1
  BY <1>1, <1>2, <1>3 DEF LastChange, History
<1>6. Age(1) = 1
  BY DEF Age
<1>7. CASE b <= m
  <2>1. LastChange(s, i, m, b)
    BY <1>1, <1>3, <1>7 DEF LastChange
  <2>2. StateIn(s, i, m) = StateIn(s, i, n)
    BY <1>1, <1>4, <2>1, LastChangeIs
  <2>3. \A h \in m + 1..n : s[h].item # i
    BY <1>1, <1>3, <1>7 DEF LastChange
  <2> QED
    BY <2>2, <2>3
<1>8. CASE ~(b <= m)
  <2>1. b # 0 /\ b \in m + 1..n /\ s[b].item = i /\ a < b
    BY <1>1, <1>3, <1>5, <1>8 DEF LastChange
  <2>2. Age(StateIn(s, i, m)) < Age(StateIn(s, i, n))
    BY <1>4, <1>5, <1>6, <2>1
  <2> QED
    BY <1>4, <2>1, <2>2
<1> QED
  BY <1>7, <1>8

\* A longer history has the same beginning.
LEMMA StateInPrefix ==
  ASSUME NEW s, NEW t, NEW i, NEW n \in Nat, \A j \in 1..n : s[j] = t[j]
  PROVE  StateIn(s, i, n) = StateIn(t, i, n)
<1>1. PICK j : LastChange(s, i, n, j)
  BY LastChangeIs
<1>2. LastChange(t, i, n, j)
  BY <1>1 DEF LastChange
<1>3. j # 0 => s[j] = t[j]
  BY <1>1 DEF LastChange
<1>4. /\ StateIn(s, i, n) = IF j = 0 THEN 1 ELSE s[j].state
      /\ StateIn(t, i, n) = IF j = 0 THEN 1 ELSE t[j].state
  BY <1>1, <1>2, LastChangeIs
<1> QED
  BY <1>3, <1>4

LEMMA HistoryAppend ==
  ASSUME NEW s \in Seq(EventType), NEW e \in EventType
  PROVE  /\ \A i, n : n \in 0..Len(s) => StateIn(Append(s, e), i, n) = StateIn(s, i, n)
         /\ \A i : StateIn(Append(s, e), i, Len(s) + 1)
                      = IF e.item = i THEN e.state ELSE StateIn(s, i, Len(s))
         /\ (/\ History(s)
             /\ Age(e.state) = Len(s) + 2
             /\ There(e.state) <=> e.kind # "remove"
             /\ e.kind \in {"change", "remove"} => There(StateIn(s, e.item, Len(s))))
            => History(Append(s, e))
<1> DEFINE t == Append(s, e)
<1>1. /\ Len(s) \in Nat /\ Len(t) = Len(s) + 1 /\ t[Len(s) + 1] = e
      /\ \A j \in 1..Len(s) : t[j] = s[j]
  BY AppendProperties, LenProperties
<1> HIDE DEF t
<1>2. ASSUME NEW i, NEW n \in 0..Len(s) PROVE StateIn(t, i, n) = StateIn(s, i, n)
  <2>1. n \in Nat /\ \A j \in 1..n : s[j] = t[j]
    BY <1>1
  <2> QED
    BY <2>1, StateInPrefix
<1>3. \A i : StateIn(t, i, Len(s) + 1) = IF e.item = i THEN e.state ELSE StateIn(s, i, Len(s))
  <2> TAKE i
  <2> DEFINE n == Len(s) + 1
  <2>1. /\ n \in Nat \ {0} /\ n - 1 = Len(s) /\ t[n] = e
        /\ StateIn(t, i, n - 1) = StateIn(s, i, Len(s))
    BY <1>1, <1>2
  <2> HIDE DEF n
  <2>2. StateIn(t, i, n) = IF t[n].item = i THEN t[n].state ELSE StateIn(t, i, n - 1)
    BY <2>1, StateInStep
  <2>3. StateIn(t, i, n) = IF e.item = i THEN e.state ELSE StateIn(s, i, Len(s))
    BY <2>1, <2>2
  <2> QED
    BY <2>3 DEF n
<1>4. ASSUME /\ History(s)
             /\ Age(e.state) = Len(s) + 2
             /\ There(e.state) <=> e.kind # "remove"
             /\ e.kind \in {"change", "remove"} => There(StateIn(s, e.item, Len(s)))
      PROVE  History(t)
  <2> SUFFICES ASSUME NEW j \in 1..Len(s) + 1
               PROVE  /\ Age(t[j].state) = j + 1
                      /\ There(t[j].state) <=> t[j].kind # "remove"
                      /\ t[j].kind \in {"change", "remove"} => There(StateIn(t, t[j].item, j - 1))
    BY <1>1 DEF History
  <2>1. StateIn(t, t[j].item, j - 1) = StateIn(s, t[j].item, j - 1)
    BY <1>1, <1>2
  <2>2. CASE j = Len(s) + 1
    <3>1. t[j] = e /\ j - 1 = Len(s) /\ j + 1 = Len(s) + 2
      BY <1>1, <2>2
    <3> QED
      BY <1>4, <2>1, <3>1
  <2>3. CASE j # Len(s) + 1
    <3>1. j \in 1..Len(s) /\ t[j] = s[j]
      BY <1>1, <2>3
    <3> QED
      BY <1>4, <2>1, <3>1 DEF History
  <2> QED
    BY <2>2, <2>3
<1> QED
  BY <1>2, <1>3, <1>4 DEF t

\* v is the state of item i after at least the first f changes of s; two absences are the same.
CurrentIn(s, f, v, i) == \E n \in f..Len(s) : Same(v, StateIn(s, i, n))

\* A state that has been, and is no older than that after the first f changes, is one after
\* at least those.
LEMMA CurrentByAge ==
  ASSUME NEW s \in Seq(EventType), History(s), NEW i, NEW f \in 0..Len(s), NEW n \in 0..Len(s),
         Age(StateIn(s, i, f)) <= Age(StateIn(s, i, n))
  PROVE  CurrentIn(s, f, StateIn(s, i, n), i)
<1>1. Len(s) \in Nat
  BY LenProperties
<1>2. CASE f <= n
  <2>1. n \in f..Len(s)
    BY <1>1, <1>2
  <2> QED
    BY <2>1 DEF CurrentIn, Same
<1>3. CASE n < f
  <2>1. n \in 0..Len(s) /\ f \in n..Len(s)
    BY <1>1, <1>3
  <2>2. \/ StateIn(s, i, n) = StateIn(s, i, f)
        \/ Age(StateIn(s, i, n)) < Age(StateIn(s, i, f))
    BY <2>1, StateMono
  <2>3. Age(StateIn(s, i, n)) \in Int /\ Age(StateIn(s, i, f)) \in Int
    BY StateInType DEF Age
  <2>4. StateIn(s, i, n) = StateIn(s, i, f) /\ f \in f..Len(s)
    BY <1>1, <2>2, <2>3
  <2> QED
    BY <2>4 DEF CurrentIn, Same
<1> QED
  BY <1>1, <1>2, <1>3

\* A current state is no older than the one after the first f changes, if it is there.
LEMMA CurrentAge ==
  ASSUME NEW s \in Seq(EventType), History(s), NEW i, NEW f \in 0..Len(s),
         NEW n \in f..Len(s)
  PROVE  Age(StateIn(s, i, f)) <= Age(StateIn(s, i, n))
<1>1. Len(s) \in Nat /\ n \in 0..Len(s)
  BY LenProperties
<1>2. Age(StateIn(s, i, n)) \in Int /\ Age(StateIn(s, i, f)) \in Int
  BY <1>1, StateInType DEF Age
<1> QED
  BY <1>2, StateMono

\* A current copy to which the next changes are applied is current after them.
LEMMA CatchUp ==
  ASSUME NEW s \in Seq(EventType), History(s), NEW i \in Item, NEW f \in 0..Len(s),
         NEW c \in States, CurrentIn(s, f, c[i], i),
         NEW t \in Seq(EventType), f + Len(t) <= Len(s),
         \A j \in 1..Len(t) : t[j] = s[f + j] /\ t[j].kind # "full"
  PROVE  CurrentIn(s, f + Len(t), Updated(c, t)[i], i)
<1> DEFINE R == {p \in (0..Len(t)) \X Int : CurrentIn(s, f + p[1], p[2], i)}
<1>1. Len(s) \in Nat /\ Len(t) \in Nat /\ f \in Nat
  BY LenProperties
<1>2. <<0, c[i]>> \in R
  BY <1>1 DEF States
<1>3. ASSUME NEW j \in 1..Len(t), NEW v \in Int, <<j - 1, v>> \in R
      PROVE  <<j, After(v, t[j], i)>> \in R
  <2>1. PICK n \in f + (j - 1)..Len(s) : Same(v, StateIn(s, i, n))
    BY <1>3 DEF CurrentIn
  <2>2. /\ f + j \in 1..Len(s) /\ f + j \in Nat \ {0} /\ f + j - 1 = f + (j - 1)
        /\ t[j] = s[f + j] /\ t[j].kind # "full" /\ t[j] \in EventType
    BY <1>1, ElementOfSeq
  <2>3. StateIn(s, i, f + j) = IF t[j].item = i THEN t[j].state ELSE StateIn(s, i, f + (j - 1))
    <3> DEFINE m == f + j
    <3>1. m \in Nat \ {0} /\ s[m] = t[j] /\ m - 1 = f + (j - 1)
      BY <2>2
    <3> HIDE DEF m
    <3>2. StateIn(s, i, m) = IF s[m].item = i THEN s[m].state ELSE StateIn(s, i, m - 1)
      <4>1. \A k \in Nat \ {0} :
               StateIn(s, i, k) = IF s[k].item = i THEN s[k].state ELSE StateIn(s, i, k - 1)
        BY StateInStep, Zenon
      <4> QED
        BY <3>1, <4>1
    <3>3. StateIn(s, i, m) = IF t[j].item = i THEN t[j].state ELSE StateIn(s, i, f + (j - 1))
      BY <3>1, <3>2
    <3> QED
      BY <3>3 DEF m
  <2>4. After(v, t[j], i) \in Int
    BY <2>2 DEF After, EventType
  <2>5. f + j \in f + j..Len(s)
    BY <1>1, <2>2
  <2>6. CASE After(v, t[j], i) = v /\ n # f + (j - 1)
    <3>1. n \in f + j..Len(s)
      <4>1. n \in Int /\ f + (j - 1) <= n /\ n <= Len(s) /\ n # f + (j - 1) /\ j \in Int
        BY <1>1, <2>6
      <4> QED
        BY <1>1, <4>1
    <3>2. CurrentIn(s, f + j, v, i)
      BY <2>1, <3>1 DEF CurrentIn
    <3> QED
      BY <2>4, <2>6, <3>2
  <2>7. CASE After(v, t[j], i) = v /\ n = f + (j - 1) /\ t[j].item # i
    <3>1. Same(v, StateIn(s, i, f + j))
      BY <2>1, <2>3, <2>7
    <3>2. CurrentIn(s, f + j, v, i)
      BY <2>5, <3>1 DEF CurrentIn
    <3> QED
      BY <2>4, <2>7, <3>2
  <2>8. CASE After(v, t[j], i) = t[j].state /\ t[j].item = i
    <3>1. Same(t[j].state, StateIn(s, i, f + j))
      BY <2>3, <2>8 DEF Same
    <3>2. CurrentIn(s, f + j, t[j].state, i)
      BY <2>5, <3>1 DEF CurrentIn
    <3> QED
      BY <2>4, <2>8, <3>2
  <2>9. CASE t[j].item = i /\ n = f + (j - 1) /\ t[j].kind # "put" /\ ~There(v)
    <3>1. t[j].kind \in {"change", "remove"}
      BY <2>2, <2>9 DEF EventType
    <3>2. There(StateIn(s, s[f + j].item, f + j - 1))
      BY <2>2, <3>1 DEF History
    <3> QED
      BY <2>1, <2>2, <2>9, <3>2 DEF Same
  <2> QED
    BY <2>2, <2>6, <2>7, <2>8, <2>9 DEF After
<1>4. <<Len(t), Updated(c, t)[i]>> \in R
  <2> HIDE DEF R
  <2> QED
    BY <1>2, <1>3, UpdatedRuns
<1> QED
  BY <1>4

(* --------------------------- types of the state -------------------------- *)

TaskType ==
    [what : {"wait"}, of : Chain] \cup [what : {"sync"}, of : Chain \cup {0}]
        \cup {SyncError, Bulk}
ChainStates == {"none", "sent", "waiting", "answered", "broken", "task", "timer", "over"}
LoadStates == {"start", "none", "loading", "retry"}

ServerTypes ==
    /\ server \in States /\ queue \in Seq(EventType) /\ known \in BOOLEAN
    /\ listener \in Chain \cup {None, Ghost} /\ log \in Seq(EventType)
ListenTypes ==
    /\ listening \in Chain \cup {0} /\ starts \in Chain \cup {0}
    /\ chain \in [Chain -> ChainStates] /\ asked \in [Chain -> Chain \cup {0}]
    /\ answer \in [Chain -> Seq(EventType)] /\ wire \in Seq(Chain)
    /\ tasks \in Seq(TaskType)
CopyTypes ==
    /\ bulk \in Seq(EventType) /\ cache \in States /\ seen \in [Item -> Nat]
    /\ failed \in BOOLEAN /\ reloadNeeded \in BOOLEAN /\ ready \in BOOLEAN
    /\ loaded \in SUBSET Part /\ unconfirmed \in SUBSET Part
    /\ overtaken \in SUBSET Item /\ untold \in SUBSET Item /\ crossed \in BOOLEAN
LoadTypes ==
    /\ load \in [Load -> LoadStates] /\ waitsFor \in [Load -> SUBSET Part]
    /\ get \in [Load -> [Part -> {"none", "asked", "answered"}]]
    /\ got \in [Load -> [Part -> States]]
OtherTypes ==
    /\ active \in BOOLEAN /\ started \in BOOLEAN /\ failures \in Nat /\ restarts \in Nat

Types == ServerTypes /\ ListenTypes /\ CopyTypes /\ LoadTypes /\ OtherTypes

LEMMA Bounds ==
  /\ Chain \subseteq Nat \ {0} /\ 1 \in Chain /\ Chain = 1..(1 + MaxRestarts)
  /\ Load \subseteq Nat \ {0} /\ 1 \in Load
  /\ IsFiniteSet(Item) /\ PartOf \in [Item -> Part]
  /\ None \notin Chain /\ Ghost \notin Chain /\ None # Ghost
  /\ None = 0 /\ NoStates \in States
BY ClientAssumption DEF Chain, Load, None, Ghost, NoStates, States

LEMMA SetToSeqFacts ==
  ASSUME NEW S, IsFiniteSet(S)
  PROVE  /\ SetToSeq(S) \in Seq(S)
         /\ \A x \in S : \E j \in 1..Len(SetToSeq(S)) : SetToSeq(S)[j] = x
<1> DEFINE n == Cardinality(S)
           f == SetToSeq(S)
<1>1. n \in Nat /\ ExistsBijection(1..n, S)
  BY FS_CardinalityType
<1>2. \E g \in [1..n -> S] : IsInjective(g)
  BY <1>1 DEF ExistsBijection, Bijection, Injection
<1>3. f \in [1..n -> S] /\ IsInjective(f)
  BY <1>2 DEF SetToSeq
<1>4. f \in Injection(1..n, S) /\ IsFiniteSet(1..n) /\ Cardinality(1..n) = n
  BY <1>1, <1>3, FS_Interval DEF Injection
<1>5. f \in Surjection(1..n, S)
  BY <1>4, FS_Injection
<1>6. \A x \in S : \E j \in 1..n : f[j] = x
  BY <1>5 DEF Surjection
<1>7. f \in Seq(S) /\ Len(f) = n
  BY <1>1, <1>3, SeqDef, LenProperties
<1> QED
  BY <1>6, <1>7

\* The events that tell of the items of a set.
Tells(kind, is, g) ==
    LET list == SetToSeq(is) IN [j \in 1..Len(list) |-> Event(kind, list[j], g[list[j]])]

LEMMA TellsFacts ==
  ASSUME NEW kind \in {"put", "change", "remove"}, NEW is \in SUBSET Item, NEW g \in States
  PROVE  /\ Tells(kind, is, g) \in Seq(EventType)
         /\ \A e : In(Tells(kind, is, g), e) <=> \E i \in is : e = Event(kind, i, g[i])
<1> DEFINE list == SetToSeq(is)
           t == Tells(kind, is, g)
<1>1. IsFiniteSet(is)
  BY Bounds, FS_Subset
<1>2. list \in Seq(is) /\ \A x \in is : \E j \in 1..Len(list) : list[j] = x
  BY <1>1, SetToSeqFacts
<1> HIDE DEF list
<1>3. Len(list) \in Nat /\ \A j \in 1..Len(list) : list[j] \in is
  BY <1>2, LenProperties, ElementOfSeq
<1>4. t = [j \in 1..Len(list) |-> Event(kind, list[j], g[list[j]])]
  BY DEF Tells, list
<1>5. \A i \in is : Event(kind, i, g[i]) \in EventType
  BY DEF Event, EventType, States
<1>6. t \in [1..Len(list) -> EventType]
  BY <1>3, <1>4, <1>5
<1> HIDE DEF t
<1>7. t \in Seq(EventType) /\ Len(t) = Len(list)
  BY <1>3, <1>6, SeqDef, LenProperties
<1>8. \A e : In(t, e) <=> \E i \in is : e = Event(kind, i, g[i])
  BY <1>2, <1>3, <1>4, <1>7 DEF In
<1> QED
  BY <1>7, <1>8 DEF t

\* The fake events tell the answer's states of items of its part, and tell of every item
\* whose state is another in the copy.
LEMMA FakeEventsFacts ==
  ASSUME NEW p \in Part, NEW g \in States, cache \in States
  PROVE  /\ FakeEvents(p, g) \in Seq(EventType)
         /\ \A e : In(FakeEvents(p, g), e) =>
               /\ e.item \in ItemsOf(p) /\ e.state = g[e.item] /\ e.kind # "full"
               /\ e.kind = "put" \/ There(cache[e.item])
         /\ \A i \in ItemsOf(p) : Same(cache[i], g[i]) \/ \E e : In(FakeEvents(p, g), e) /\ e.item = i
<1> DEFINE removed == {i \in ItemsOf(p) : There(cache[i]) /\ ~There(g[i])}
           added == {i \in ItemsOf(p) : ~There(cache[i]) /\ There(g[i])}
           updated == {i \in ItemsOf(p) : There(cache[i]) /\ There(g[i]) /\ cache[i] # g[i]}
           r == Tells("remove", removed, g)
           a == Tells("put", added, g)
           u == Tells(UpdateKind(p), updated, g)
<1>1. removed \in SUBSET Item /\ added \in SUBSET Item /\ updated \in SUBSET Item
  BY DEF ItemsOf
<1>2. UpdateKind(p) \in {"put", "change"}
  BY DEF UpdateKind
<1>3. FakeEvents(p, g) = r \o a \o u
  BY DEF FakeEvents, Tells
<1>4. /\ r \in Seq(EventType)
      /\ \A e : In(r, e) <=> \E i \in removed : e = Event("remove", i, g[i])
  <2> HIDE DEF removed
  <2> QED
    BY <1>1, TellsFacts
<1>5. /\ a \in Seq(EventType)
      /\ \A e : In(a, e) <=> \E i \in added : e = Event("put", i, g[i])
  <2> HIDE DEF added
  <2> QED
    BY <1>1, TellsFacts
<1>6. /\ u \in Seq(EventType)
      /\ \A e : In(u, e) <=> \E i \in updated : e = Event(UpdateKind(p), i, g[i])
  <2> DEFINE k == UpdateKind(p)
  <2>1. k \in {"put", "change", "remove"}
    BY <1>2
  <2> HIDE DEF updated, k
  <2>2. /\ Tells(k, updated, g) \in Seq(EventType)
        /\ \A e : In(Tells(k, updated, g), e) <=> \E i \in updated : e = Event(k, i, g[i])
    BY <1>1, <2>1, TellsFacts
  <2> QED
    BY <2>2 DEF k
<1> HIDE DEF r, a, u
<1>7. r \o a \in Seq(EventType) /\ r \o a \o u \in Seq(EventType)
  BY <1>4, <1>5, <1>6, ConcatProperties
<1>8. \A e : In(r \o a \o u, e) <=> In(r, e) \/ In(a, e) \/ In(u, e)
  <2>1. \A e : In(r \o a, e) <=> In(r, e) \/ In(a, e)
    BY <1>4, <1>5, InConcat
  <2>2. \A e : In(r \o a \o u, e) <=> In(r \o a, e) \/ In(u, e)
    BY <1>6, <1>7, InConcat
  <2> QED
    BY <2>1, <2>2
<1>9. ASSUME NEW e, In(FakeEvents(p, g), e)
      PROVE  /\ e.item \in ItemsOf(p) /\ e.state = g[e.item] /\ e.kind # "full"
             /\ e.kind = "put" \/ There(cache[e.item])
  <2>1. CASE In(r, e)
    <3>1. PICK i \in removed : e = Event("remove", i, g[i])
      BY <1>4, <2>1
    <3> QED
      BY <3>1 DEF Event
  <2>2. CASE In(a, e)
    <3>1. PICK i \in added : e = Event("put", i, g[i])
      BY <1>5, <2>2
    <3> QED
      BY <3>1 DEF Event
  <2>3. CASE In(u, e)
    <3>1. PICK i \in updated : e = Event(UpdateKind(p), i, g[i])
      BY <1>6, <2>3
    <3> QED
      BY <1>2, <3>1 DEF Event
  <2> QED
    BY <1>3, <1>8, <1>9, <2>1, <2>2, <2>3
<1>10. ASSUME NEW i \in ItemsOf(p)
       PROVE  Same(cache[i], g[i]) \/ \E e : In(FakeEvents(p, g), e) /\ e.item = i
  <2>1. CASE i \in removed
    <3>1. In(r, Event("remove", i, g[i])) /\ Event("remove", i, g[i]).item = i
      BY <1>4, <2>1 DEF Event
    <3> QED
      BY <1>3, <1>8, <3>1
  <2>2. CASE i \in added
    <3>1. In(a, Event("put", i, g[i])) /\ Event("put", i, g[i]).item = i
      BY <1>5, <2>2 DEF Event
    <3> QED
      BY <1>3, <1>8, <3>1
  <2>3. CASE i \in updated
    <3>1. In(u, Event(UpdateKind(p), i, g[i])) /\ Event(UpdateKind(p), i, g[i]).item = i
      BY <1>6, <2>3 DEF Event
    <3> QED
      BY <1>3, <1>8, <3>1
  <2>4. CASE i \notin removed /\ i \notin added /\ i \notin updated
    BY <2>4 DEF Same
  <2> QED
    BY <2>1, <2>2, <2>3, <2>4
<1> QED
  BY <1>3, <1>7, <1>9, <1>10

LEMMA AgesFacts ==
  ASSUME NEW s \in Seq(EventType), NEW i
  PROVE  /\ Ages(s, i) \in SUBSET Nat /\ IsFiniteSet(Ages(s, i))
         /\ \A e : In(s, e) /\ e.item = i /\ e.kind # "full" => Age(e.state) \in Ages(s, i)
         /\ \A a \in Ages(s, i) : \E e : In(s, e) /\ e.item = i /\ e.kind # "full" /\ a = Age(e.state)
<1> DEFINE D == {j \in DOMAIN s : s[j].item = i /\ s[j].kind # "full"}
<1>1. Len(s) \in Nat /\ DOMAIN s = 1..Len(s)
  BY LenProperties
<1>2. IsFiniteSet(D)
  <2>1. IsFiniteSet(1..Len(s)) /\ D \in SUBSET (1..Len(s))
    BY <1>1, FS_Interval
  <2> HIDE DEF D
  <2> QED
    BY <2>1, FS_Subset
<1>3. Ages(s, i) = {Age(s[j].state) : j \in D}
  BY DEF Ages
<1>4. \A j \in D : s[j] \in EventType
  BY <1>1, ElementOfSeq
<1>5. Ages(s, i) \in SUBSET Nat
  BY <1>3, <1>4 DEF Age, EventType
<1>6. IsFiniteSet(Ages(s, i))
  <2> HIDE DEF D
  <2> DEFINE g == [j \in D |-> Age(s[j].state)]
  <2>1. g \in Surjection(D, {Age(s[j].state) : j \in D})
    BY DEF Surjection
  <2> HIDE DEF g
  <2> QED
    BY <1>2, <1>3, <2>1, FS_Surjection
<1> QED
  BY <1>1, <1>3, <1>5, <1>6 DEF In

LEMMA BeginLoadTypes ==
  ASSUME CopyTypes, LoadTypes, NEW l \in Load, NEW fromStorage \in SUBSET Part,
         NEW states \in States, NEW loads \in [Load -> LoadStates],
         BeginLoad(l, fromStorage, states, loads)
  PROVE  /\ loaded' \in SUBSET Part /\ unconfirmed' \in SUBSET Part /\ cache' \in States
         /\ ready' \in BOOLEAN /\ LoadTypes'
<1>1. /\ loaded' \in SUBSET Part /\ unconfirmed' \in SUBSET Part
      /\ ready' \in BOOLEAN
  BY DEF BeginLoad, CopyTypes
<1>2. cache' \in States
  BY DEF BeginLoad, CopyTypes, States
<1>3. LoadTypes'
  BY DEF BeginLoad, LoadTypes, LoadStates
<1> QED
  BY <1>1, <1>2, <1>3

LEMMA GatherTypes ==
  ASSUME CopyTypes, NEW events \in Seq(EventType), NEW isReady, NEW ts \in Seq(TaskType),
         Gather(events, isReady, ts)
  PROVE  bulk' \in Seq(EventType) /\ tasks' \in Seq(TaskType)
<1>1. bulk' \in Seq(EventType)
  BY ConcatProperties DEF Gather, CopyTypes
<1>2. Without(ts, Bulk) \in Seq(TaskType)
  BY WithoutFacts
<1>3. Append(Without(ts, Bulk), Bulk) \in Seq(TaskType)
  BY <1>2, AppendProperties DEF TaskType
<1> QED
  BY <1>1, <1>2, <1>3 DEF Gather

LEMMA WaitTypes ==
  ASSUME ListenTypes, NEW k \in Chain, listening' \in Chain \cup {0}, Wait(k)
  PROVE  /\ chain' \in [Chain -> ChainStates] /\ asked' \in [Chain -> Chain \cup {0}]
         /\ wire' \in Seq(Chain)
BY AppendProperties DEF ListenTypes, Wait, ChainStates

LEMMA StartTypes ==
  ASSUME ListenTypes, StartListening
  PROVE  /\ listening' \in Chain \cup {0} /\ starts' \in Chain \cup {0}
         /\ chain' \in [Chain -> ChainStates] /\ asked' \in [Chain -> Chain \cup {0}]
         /\ wire' \in Seq(Chain)
BY WaitTypes DEF StartListening

LEMMA MinFree ==
  ASSUME FreeLoads # {}
  PROVE  /\ Min(FreeLoads) \in Load /\ load[Min(FreeLoads)] = "none"
         /\ \A p \in Part : get[Min(FreeLoads)][p] = "none"
<1>1. FreeLoads \in SUBSET Nat
  BY Bounds DEF FreeLoads
<1>2. Min(FreeLoads) \in FreeLoads
  BY <1>1, MinFacts
<1> QED
  BY <1>2 DEF FreeLoads

LEMMA HeadTask ==
  ASSUME ListenTypes, tasks # <<>>
  PROVE  Head(tasks) \in TaskType /\ Tail(tasks) \in Seq(TaskType)
BY HeadTailProperties DEF ListenTypes

\* The tasks are what their names say.
LEMMA TaskKinds ==
  ASSUME NEW t \in TaskType
  PROVE  /\ t.what = "wait" => t.of \in Chain /\ t = Task("wait", t.of)
         /\ t.what = "sync" => t.of \in Chain \cup {0} /\ t = Task("sync", t.of)
         /\ t = SyncError => t.what = "syncError"
         /\ t = Bulk => t.what = "bulk"
BY DEF TaskType, Task, SyncError, Bulk

LEMMA InitTypes == Init => Types
<1> SUFFICES ASSUME Init PROVE Types
  OBVIOUS
<1>1. \A i \in Item : server[i] \in Int /\ cache[i] \in Int
  BY DEF Init, NoStates
<1>2. server \in States /\ cache \in States /\ NoStates \in States
  BY DEF Init, States, NoStates
<1>3. <<>> \in Seq(EventType) /\ <<>> \in Seq(Chain) /\ <<>> \in Seq(TaskType)
  BY EmptySeq
<1>4. ServerTypes
  BY <1>2, <1>3 DEF Init, ServerTypes
<1>5. ListenTypes
  BY <1>3 DEF Init, ListenTypes, ChainStates
<1>6. CopyTypes
  BY <1>2, <1>3 DEF Init, CopyTypes
<1>7. LoadTypes
  BY <1>2 DEF Init, LoadTypes, LoadStates
<1> QED
  BY <1>4, <1>5, <1>6, <1>7 DEF Init, Types, OtherTypes

LEMMA PushTypes ==
  ASSUME ServerTypes, CopyTypes, NEW e \in EventType, Push(e)
  PROVE  log' \in Seq(EventType) /\ queue' \in Seq(EventType) /\ CopyTypes'
<1>1. log' \in Seq(EventType) /\ queue' \in Seq(EventType)
  BY AppendProperties DEF Push, ServerTypes
<1>2. untold' \in SUBSET Item
  BY DEF Push, CopyTypes, EventType
<1> QED
  BY <1>1, <1>2 DEF Push, CopyTypes

LEMMA TypesStep ==
  ASSUME Types, [Next]_vars
  PROVE  Types'
<1> USE Bounds
<1>a. ServerTypes /\ ListenTypes /\ CopyTypes /\ LoadTypes /\ OtherTypes
  BY DEF Types
<1>b. \A k \in Chain : answer[k] \in Seq(EventType)
  BY <1>a DEF ListenTypes
<1>c. <<>> \in Seq(EventType)
  BY EmptySeq
<1>1. CASE WaitTask
  <2>1. Head(tasks) \in TaskType /\ Tail(tasks) \in Seq(TaskType) /\ Head(tasks).of \in Chain
    BY <1>a, <1>1, HeadTask, TaskKinds DEF WaitTask
  <2>2. /\ chain' \in [Chain -> ChainStates] /\ asked' \in [Chain -> Chain \cup {0}]
        /\ wire' \in Seq(Chain)
    BY <1>a, <1>1, <2>1, WaitTypes DEF WaitTask, ListenTypes
  <2>3. ListenTypes' /\ crossed' \in BOOLEAN
    BY <1>a, <1>1, <2>1, <2>2 DEF WaitTask, ListenTypes, CopyTypes
  <2> QED
    BY <1>a, <1>1, <2>3 DEF WaitTask, Types, ServerTypes, CopyTypes, LoadTypes, OtherTypes, serverVars, loadVars, windowVars, bounds
<1>2. CASE SyncErrorTask
  <2>1. Tail(tasks) \in Seq(TaskType)
    BY <1>a, <1>2, HeadTask DEF SyncErrorTask
  <2> QED
    BY <1>a, <1>2, <2>1 DEF SyncErrorTask, Types, ServerTypes, ListenTypes, CopyTypes, LoadTypes, OtherTypes, serverVars, listenVars, loadVars, windowVars, bounds
<1>3. CASE SyncTask
  <2>1. Tail(tasks) \in Seq(TaskType)
    BY <1>a, <1>3, HeadTask DEF SyncTask
  <2>2. /\ loaded' \in SUBSET Part /\ unconfirmed' \in SUBSET Part /\ cache' \in States
        /\ ready' \in BOOLEAN /\ LoadTypes' /\ untold' \in SUBSET Item
    <3>1. CASE reloadNeeded \/ failed
      <4>1. Min(FreeLoads) \in Load /\ load \in [Load -> LoadStates] /\ {} \in SUBSET Part
        BY <1>a, <1>3, <3>1, MinFree DEF SyncTask, LoadTypes
      <4>2. BeginLoad(Min(FreeLoads), {}, NoStates, load) /\ untold' = {}
        BY <1>3, <3>1 DEF SyncTask
      <4> QED
        BY <1>a, <4>1, <4>2, BeginLoadTypes
    <3>2. CASE ~(reloadNeeded \/ failed)
      BY <1>a, <1>3, <3>2 DEF SyncTask, CopyTypes, LoadTypes, loadVars
    <3> QED
      BY <3>1, <3>2
  <2>3. CopyTypes'
    BY <1>a, <1>3, <2>2 DEF SyncTask, CopyTypes
  <2> QED
    BY <1>a, <1>3, <2>1, <2>2, <2>3 DEF SyncTask, Types, ServerTypes, ListenTypes, OtherTypes, serverVars, listenVars, windowVars, bounds
<1>4. CASE BulkTask
  <2>1. Tail(tasks) \in Seq(TaskType)
    BY <1>a, <1>4, HeadTask DEF BulkTask
  <2>2. cache' \in States
    BY <1>a, <1>4, UpdatedType DEF BulkTask, CopyTypes
  <2>3. /\ listening' \in Chain \cup {0} /\ starts' \in Chain \cup {0}
        /\ chain' \in [Chain -> ChainStates] /\ asked' \in [Chain -> Chain \cup {0}]
        /\ wire' \in Seq(Chain) /\ reloadNeeded' \in BOOLEAN
    BY <1>a, <1>4, StartTypes DEF BulkTask, ListenTypes, CopyTypes
  <2>4. CopyTypes'
    BY <1>a, <1>c, <1>4, <2>2, <2>3 DEF BulkTask, CopyTypes
  <2> QED
    BY <1>a, <1>4, <2>1, <2>3, <2>4 DEF BulkTask, Types, ServerTypes, ListenTypes, LoadTypes, OtherTypes, serverVars, loadVars, windowVars, bounds
<1>5. CASE AccessGranted
  <2>1. PICK fromStorage \in SUBSET Part, states \in [Item -> {0, 1}] :
               BeginLoad(1, fromStorage, states, load)
    BY <1>5 DEF AccessGranted
  <2>2. states \in States /\ load \in [Load -> LoadStates]
    BY <1>a DEF States, LoadTypes
  <2>3. /\ loaded' \in SUBSET Part /\ unconfirmed' \in SUBSET Part /\ cache' \in States
        /\ ready' \in BOOLEAN /\ LoadTypes'
    BY <1>a, <2>1, <2>2, BeginLoadTypes
  <2>4. CopyTypes'
    BY <1>a, <1>5, <2>3 DEF AccessGranted, CopyTypes
  <2> QED
    BY <1>a, <1>5, <2>3, <2>4 DEF AccessGranted, Types, ServerTypes, ListenTypes, OtherTypes, serverVars, listenVars, windowVars, bounds
<1>6. CASE Start
  <2>1. ListenTypes'
    BY <1>a, <1>6, StartTypes DEF Start, ListenTypes
  <2> QED
    BY <1>a, <1>6, <2>1 DEF Start, Types, ServerTypes, CopyTypes, LoadTypes, OtherTypes, serverVars, cacheVars, loadVars, bounds
<1>7. ASSUME NEW k \in Chain, Receive(k) PROVE Types'
  <2>1. answer' \in [Chain -> Seq(EventType)] /\ asked' \in [Chain -> Chain \cup {0}]
        /\ chain' \in [Chain -> ChainStates]
    BY <1>a, <1>c, <1>7 DEF Receive, ListenTypes, ChainStates
  <2>2. bulk' \in Seq(EventType) /\ tasks' \in Seq(TaskType) /\ seen' \in [Item -> Nat]
    <3>1. CASE asked[k] = listening
      <4> DEFINE ts == tasks \o <<Task("wait", k), Sync>>
      <4>1. Task("wait", k) \in TaskType /\ Sync \in TaskType
        BY <1>a DEF Task, Sync, TaskType, ListenTypes
      <4>2. ts \in Seq(TaskType)
        <5>1. <<Task("wait", k), Sync>> \in Seq(TaskType)
          BY <4>1
        <5> QED
          BY <1>a, <5>1, ConcatProperties DEF ListenTypes
      <4>3. Gather(answer[k], ready, ts)
        BY <1>7, <3>1 DEF Receive
      <4>4. bulk' \in Seq(EventType) /\ tasks' \in Seq(TaskType)
        <5> HIDE DEF ts
        <5> QED
          BY <1>a, <1>b, <4>2, <4>3, GatherTypes
      <4>5. ASSUME NEW i \in Item PROVE Max({seen[i]} \cup Ages(answer[k], i)) \in Nat
        <5>1. Ages(answer[k], i) \in SUBSET Nat /\ IsFiniteSet(Ages(answer[k], i))
          BY <1>b, AgesFacts
        <5>2. seen[i] \in Nat
          BY <1>a DEF CopyTypes
        <5>3. IsFiniteSet({seen[i]} \cup Ages(answer[k], i))
          <6>1. IsFiniteSet(Ages(answer[k], i) \cup {seen[i]})
            BY <5>1, FS_AddElement
          <6>2. Ages(answer[k], i) \cup {seen[i]} = {seen[i]} \cup Ages(answer[k], i)
            OBVIOUS
          <6> QED
            BY <6>1, <6>2
        <5> QED
          BY <5>1, <5>2, <5>3, MaxFacts
      <4>6. seen' = [i \in Item |-> Max({seen[i]} \cup Ages(answer[k], i))]
        BY <1>7, <3>1 DEF Receive
      <4> QED
        BY <4>4, <4>5, <4>6
    <3>2. CASE asked[k] # listening
      BY <1>a, <1>7, <3>2 DEF Receive, CopyTypes, ListenTypes
    <3> QED
      BY <3>1, <3>2
  <2>3. CopyTypes'
    BY <1>a, <1>7, <2>2 DEF Receive, CopyTypes
  <2>4. ListenTypes'
    BY <1>a, <1>7, <2>1, <2>2 DEF Receive, ListenTypes
  <2> QED
    BY <1>a, <1>7, <2>3, <2>4 DEF Receive, Types, ServerTypes, LoadTypes, OtherTypes, serverVars, loadVars, windowVars, bounds
<1>8. ASSUME NEW k \in Chain, Error(k) PROVE Types'
  <2>1. Append(tasks, SyncError) \in Seq(TaskType)
    BY <1>a, AppendProperties DEF ListenTypes, TaskType
  <2>2. ListenTypes'
    BY <1>a, <1>8, <2>1 DEF Error, ListenTypes, ChainStates
  <2> QED
    BY <1>a, <1>8, <2>2 DEF Error, Types, ServerTypes, CopyTypes, LoadTypes, OtherTypes, serverVars, cacheVars, loadVars, windowVars, bounds
<1>9. ASSUME NEW k \in Chain, TimerFires(k) PROVE Types'
  <2>1. ListenTypes'
    BY <1>a, <1>9, WaitTypes DEF TimerFires, ListenTypes
  <2>2. crossed' \in BOOLEAN
    BY <1>a, <1>9 DEF TimerFires, CopyTypes
  <2> QED
    BY <1>a, <1>9, <2>1, <2>2 DEF TimerFires, Types, ServerTypes, CopyTypes, LoadTypes, OtherTypes, serverVars, loadVars, windowVars, bounds
<1>10. ASSUME NEW l \in Load, RetryLoad(l) PROVE Types'
  <2>1. /\ Min(FreeLoads) \in Load /\ [load EXCEPT ![l] = "none"] \in [Load -> LoadStates]
        /\ {} \in SUBSET Part
    BY <1>a, <1>10, MinFree DEF RetryLoad, LoadTypes, LoadStates
  <2>2. /\ loaded' \in SUBSET Part /\ unconfirmed' \in SUBSET Part /\ cache' \in States
        /\ ready' \in BOOLEAN /\ LoadTypes'
    BY <1>a, <1>10, <2>1, BeginLoadTypes DEF RetryLoad
  <2>3. CopyTypes'
    BY <1>a, <1>10, <2>2 DEF RetryLoad, CopyTypes
  <2> QED
    BY <1>a, <1>10, <2>2, <2>3 DEF RetryLoad, Types, ServerTypes, ListenTypes, OtherTypes, serverVars, listenVars, windowVars, bounds
<1>11. ASSUME NEW l \in Load, NEW p \in Part, GetAnswered(l, p) PROVE Types'
  <2>1. got[l][p] \in States /\ \A i \in Item : Age(got[l][p][i]) \in Nat
    BY <1>a DEF LoadTypes, States, Age
  <2>2. bulk' \in Seq(EventType) /\ tasks' \in Seq(TaskType) /\ cache' \in States
    <3>1. CASE p \in loaded
      <4>1. FakeEvents(p, got[l][p]) \in Seq(EventType)
        BY <1>a, <2>1, FakeEventsFacts DEF CopyTypes
      <4>2. Gather(FakeEvents(p, got[l][p]), ready, tasks) /\ cache' = cache
        BY <1>11, <3>1 DEF GetAnswered
      <4>3. tasks \in Seq(TaskType)
        BY <1>a DEF ListenTypes
      <4>4. bulk' \in Seq(EventType) /\ tasks' \in Seq(TaskType)
        BY <1>a, <4>1, <4>2, <4>3, GatherTypes
      <4> QED
        BY <1>a, <4>2, <4>4 DEF CopyTypes
    <3>2. CASE p \notin loaded
      BY <1>a, <1>11, <2>1, <3>2 DEF GetAnswered, CopyTypes, ListenTypes, States
    <3> QED
      BY <3>1, <3>2
  <2>3. seen' \in [Item -> Nat]
    <3>1. ASSUME NEW i \in Item PROVE Max({seen[i], Age(got[l][p][i])}) \in Nat
      <4>1. {seen[i], Age(got[l][p][i])} \in SUBSET Nat
        BY <1>a, <2>1 DEF CopyTypes
      <4>2. IsFiniteSet({seen[i]} \cup {Age(got[l][p][i])})
        <5>1. IsFiniteSet({seen[i]})
          BY FS_Singleton
        <5> QED
          BY <5>1, FS_AddElement
      <4>3. {seen[i]} \cup {Age(got[l][p][i])} = {seen[i], Age(got[l][p][i])}
        OBVIOUS
      <4> QED
        BY <4>1, <4>2, <4>3, MaxFacts
    <3>2. seen' = [i \in Item |-> Max({seen[i], Age(got[l][p][i])})]
      BY <1>11 DEF GetAnswered
    <3> QED
      BY <3>1, <3>2
  <2>4. overtaken' \in SUBSET Item
    BY <1>a, <1>11 DEF GetAnswered, CopyTypes, ItemsOf
  <2>5. CopyTypes'
    BY <1>a, <1>11, <2>2, <2>3, <2>4 DEF GetAnswered, CopyTypes
  <2>6. LoadTypes'
    <3>1. load' \in [Load -> LoadStates] /\ waitsFor' \in [Load -> SUBSET Part]
      BY <1>a, <1>11 DEF GetAnswered, LoadTypes, LoadStates
    <3>2. get' \in [Load -> [Part -> {"none", "asked", "answered"}]]
      BY <1>a, <1>11 DEF GetAnswered, LoadTypes
    <3>3. got' \in [Load -> [Part -> States]]
      BY <1>a, <1>11 DEF GetAnswered, LoadTypes
    <3> QED
      BY <3>1, <3>2, <3>3 DEF LoadTypes
  <2> QED
    BY <1>a, <1>11, <2>2, <2>5, <2>6 DEF GetAnswered, Types, ServerTypes, ListenTypes, OtherTypes, serverVars, listenVars, windowVars, bounds
<1>12. CASE Arrives
  <2>1. Head(wire) \in Chain /\ Tail(wire) \in Seq(Chain)
    BY <1>a, <1>12, HeadTailProperties DEF Arrives, ListenTypes
  <2> DEFINE k == Head(wire)
  <2>2. /\ listener' \in Chain \cup {None, Ghost}
        /\ chain' \in [Chain -> ChainStates] /\ answer' \in [Chain -> Seq(EventType)]
    <3>1. CASE /\ listener \in Chain /\ listener' = k
               /\ chain' = [chain EXCEPT ![k] = "waiting", ![listener] = "answered"]
               /\ answer' = [answer EXCEPT ![listener] = queue]
      BY <1>a, <2>1, <3>1 DEF ListenTypes, ServerTypes, ChainStates
    <3>2. CASE /\ listener' = k /\ chain' = [chain EXCEPT ![k] = "waiting"] /\ answer' = answer
      BY <1>a, <2>1, <3>2 DEF ListenTypes, ServerTypes, ChainStates
    <3>3. CASE /\ chain' = [chain EXCEPT ![k] = "answered"]
               /\ answer' = [answer EXCEPT ![k] = queue] /\ listener' = listener
      BY <1>a, <2>1, <3>3 DEF ListenTypes, ServerTypes, ChainStates
    <3> QED
      BY <1>12, <3>1, <3>2, <3>3 DEF Arrives
  <2>3. ListenTypes'
    BY <1>a, <1>12, <2>1, <2>2 DEF Arrives, ListenTypes
  <2> QED
    BY <1>a, <1>c, <1>12, <2>2, <2>3 DEF Arrives, Types, ServerTypes, CopyTypes, LoadTypes, OtherTypes, cacheVars, loadVars, windowVars, bounds
<1>13. CASE Respond
  <2>1. ListenTypes'
    BY <1>a, <1>13 DEF Respond, ListenTypes, ServerTypes, ChainStates
  <2> QED
    BY <1>a, <1>c, <1>13, <2>1 DEF Respond, Types, ServerTypes, CopyTypes, LoadTypes, OtherTypes, cacheVars, loadVars, windowVars, bounds
<1>14. ASSUME NEW l \in Load, NEW p \in Part, ServeGet(l, p) PROVE Types'
  <2>1. [i \in Item |-> IF PartOf[i] = p THEN server[i] ELSE 0] \in States
    BY <1>a DEF ServerTypes, States
  <2>2. LoadTypes'
    <3>1. get' \in [Load -> [Part -> {"none", "asked", "answered"}]]
      BY <1>a, <1>14 DEF ServeGet, LoadTypes
    <3>2. got' \in [Load -> [Part -> States]]
      BY <1>a, <1>14, <2>1 DEF ServeGet, LoadTypes
    <3> QED
      BY <1>a, <1>14, <3>1, <3>2 DEF ServeGet, LoadTypes
  <2> QED
    BY <1>a, <1>14, <2>2 DEF ServeGet, Types, ServerTypes, ListenTypes, CopyTypes, OtherTypes, serverVars, listenVars, cacheVars, windowVars, bounds
<1>15. ASSUME NEW k \in Chain, Break(k) PROVE Types'
  <2>1. Without(wire, k) \in Seq(Chain)
    BY <1>a, WithoutFacts DEF ListenTypes
  <2>2. ListenTypes' /\ listener' \in Chain \cup {None, Ghost}
    BY <1>a, <1>c, <1>15, <2>1 DEF Break, ListenTypes, ServerTypes, ChainStates
  <2>3. failures' \in Nat
    BY <1>a, <1>15 DEF Break, OtherTypes
  <2> QED
    BY <1>a, <1>15, <2>2, <2>3 DEF Break, Types, ServerTypes, CopyTypes, LoadTypes, OtherTypes, cacheVars, loadVars, windowVars
<1>16. ASSUME NEW l \in Load, NEW p \in Part, GetFails(l, p) PROVE Types'
  <2>1. LoadTypes'
    <3>1. load' \in [Load -> LoadStates] /\ waitsFor' \in [Load -> SUBSET Part]
      BY <1>a, <1>16 DEF GetFails, LoadTypes, LoadStates
    <3>2. get' \in [Load -> [Part -> {"none", "asked", "answered"}]]
      BY <1>a, <1>16 DEF GetFails, LoadTypes
    <3>3. got' \in [Load -> [Part -> States]]
      BY <1>a, <1>16 DEF GetFails, LoadTypes
    <3> QED
      BY <3>1, <3>2, <3>3 DEF LoadTypes
  <2>2. failures' \in Nat
    BY <1>a, <1>16 DEF GetFails, OtherTypes
  <2> QED
    BY <1>a, <1>16, <2>1, <2>2 DEF GetFails, Types, ServerTypes, ListenTypes, CopyTypes, OtherTypes, serverVars, listenVars, cacheVars, windowVars
<1>17. CASE Expire
  BY <1>a, <1>c, <1>17 DEF Expire, Types, ServerTypes, ListenTypes, CopyTypes, LoadTypes, OtherTypes, listenVars, cacheVars, loadVars, windowVars, bounds
<1>18. CASE Deactivate
  BY <1>a, <1>18 DEF Deactivate, Types, ServerTypes, ListenTypes, CopyTypes, LoadTypes, OtherTypes, serverVars, cacheVars, loadVars, bounds
<1>19. CASE Activate
  <2>1. ListenTypes' /\ reloadNeeded' \in BOOLEAN
    BY <1>a, <1>19, StartTypes DEF Activate, ListenTypes, CopyTypes
  <2>2. restarts' \in Nat
    BY <1>a, <1>19 DEF Activate, OtherTypes
  <2> QED
    BY <1>a, <1>19, <2>1, <2>2 DEF Activate, Types, ServerTypes, CopyTypes, LoadTypes, OtherTypes, serverVars, loadVars
<1>20. ASSUME NEW i \in Item, Change(i) PROVE Types'
  <2>1. NewState \in Int /\ 0 - NewState \in Int
    BY <1>a, LenProperties DEF NewState, ServerTypes
  <2>2. PICK kind \in {"put", "change", "remove"}, v \in Int :
              server' = [server EXCEPT ![i] = v] /\ Push(Event(kind, i, v))
    BY <1>20, <2>1 DEF Change, UpdateKind
  <2>3. Event(kind, i, v) \in EventType
    BY DEF Event, EventType
  <2>4. log' \in Seq(EventType) /\ queue' \in Seq(EventType) /\ CopyTypes'
    BY <1>a, <2>2, <2>3, PushTypes
  <2>5. server' \in States
    BY <1>a, <2>2 DEF ServerTypes, States
  <2> QED
    BY <1>a, <1>20, <2>4, <2>5 DEF Change, Types, ServerTypes, ListenTypes, LoadTypes, OtherTypes, listenVars, loadVars, windowVars
<1>21. ASSUME NEW i \in Item, FullUpdate(i) PROVE Types'
  <2>1. NewState \in Int
    BY <1>a, LenProperties DEF NewState, ServerTypes
  <2>2. Event("full", i, NewState) \in EventType
    BY <2>1 DEF Event, EventType
  <2>3. log' \in Seq(EventType) /\ queue' \in Seq(EventType) /\ CopyTypes'
    BY <1>a, <1>21, <2>2, PushTypes DEF FullUpdate
  <2>4. server' \in States /\ restarts' \in Nat
    BY <1>a, <1>21, <2>1 DEF FullUpdate, ServerTypes, States, OtherTypes
  <2> QED
    BY <1>a, <1>21, <2>3, <2>4 DEF FullUpdate, Types, ServerTypes, ListenTypes, LoadTypes, OtherTypes, listenVars, loadVars, windowVars
<1>22. CASE UNCHANGED vars
  BY <1>a, <1>22 DEF Types, ServerTypes, ListenTypes, CopyTypes, LoadTypes, OtherTypes, vars, serverVars, listenVars, cacheVars, loadVars, windowVars, bounds
<1> QED
  BY <1>1, <1>2, <1>3, <1>4, <1>5, <1>6, <1>7, <1>8, <1>9, <1>10, <1>11, <1>12, <1>13, <1>14,
     <1>15, <1>16, <1>17, <1>18, <1>19, <1>20, <1>21, <1>22
  DEF Next, ClientStep, NetworkStep, Trouble, World

THEOREM TypeCorrect == Spec => []TypeOK
<1>1. Types => TypeOK
  BY DEF Types, TypeOK, ServerTypes, ListenTypes, CopyTypes, LoadTypes, OtherTypes, States,
         ChainStates, LoadStates
<1>2. Types /\ [Next]_vars => Types'
  BY TypesStep
<1> QED
  BY <1>1, <1>2, InitTypes, PTL DEF Spec

(* ------------------------------- the tasks ------------------------------- *)

\* No task of a next request is scheduled twice.
Once(ts) == \A m, n \in 1..Len(ts) : ts[m] = ts[n] /\ ts[m].what = "wait" => m = n

\* The next sync task loads: something to load for is there already (is), or is told before.
LoadsNext(ts, is) ==
    \E m \in 0..Len(ts) :
        /\ IF m = 0 THEN is ELSE ts[m] = SyncError
        /\ \A n \in m + 1..Len(ts) : ts[n].what # "sync"

LEMMA ConcatTwo ==
  ASSUME NEW T, NEW s \in Seq(T), NEW a \in T, NEW b \in T
  PROVE  s \o <<a, b>> = Append(Append(s, a), b)
<1>1. <<a, b>> \in Seq(T) /\ Len(<<a, b>>) = 2 /\ <<a, b>>[1] = a /\ <<a, b>>[2] = b
  OBVIOUS
<1>2. /\ Len(s) \in Nat
      /\ Append(s, a) \in Seq(T) /\ Len(Append(s, a)) = Len(s) + 1
      /\ \A j \in 1..Len(s) : Append(s, a)[j] = s[j]
      /\ Append(s, a)[Len(s) + 1] = a
  BY AppendProperties, LenProperties
<1> DEFINE u == Append(s, a)
           w == Append(u, b)
<1> HIDE DEF u
<1>3. /\ w \in Seq(T) /\ Len(w) = Len(u) + 1
      /\ \A j \in 1..Len(u) : w[j] = u[j]
      /\ w[Len(u) + 1] = b
  BY <1>2, AppendProperties DEF u
<1>4. /\ s \o <<a, b>> \in Seq(T) /\ Len(s \o <<a, b>>) = Len(s) + 2
      /\ \A j \in 1..Len(s) + 2 :
            (s \o <<a, b>>)[j] = IF j <= Len(s) THEN s[j] ELSE <<a, b>>[j - Len(s)]
  BY <1>1, ConcatProperties
<1> HIDE DEF w
<1>5. ASSUME NEW j \in 1..Len(s) + 2 PROVE (s \o <<a, b>>)[j] = w[j]
  <2>1. CASE j \in 1..Len(s)
    BY <1>2, <1>3, <1>4, <2>1 DEF u
  <2>2. CASE j = Len(s) + 1
    <3>1. (s \o <<a, b>>)[j] = <<a, b>>[1]
      BY <1>2, <1>4, <2>2
    <3>2. w[j] = a
      BY <1>2, <1>3, <2>2 DEF u
    <3> QED
      BY <1>1, <3>1, <3>2
  <2>3. CASE j = Len(s) + 2
    <3>1. (s \o <<a, b>>)[j] = <<a, b>>[2]
      BY <1>2, <1>4, <2>3
    <3>2. w[j] = b
      BY <1>2, <1>3, <2>3 DEF u
    <3> QED
      BY <1>1, <3>1, <3>2
  <2> QED
    BY <1>2, <2>1, <2>2, <2>3
<1>6. Len(w) = Len(s) + 2
  BY <1>2, <1>3 DEF u
<1>7. s \o <<a, b>> = w
  BY <1>3, <1>4, <1>5, <1>6, SeqEqual
<1> QED
  BY <1>7 DEF w, u

LEMMA TasksAppend ==
  ASSUME NEW ts \in Seq(TaskType), NEW t \in TaskType
  PROVE  /\ Once(ts) /\ (t.what = "wait" => ~In(ts, t)) => Once(Append(ts, t))
         /\ \A is : LoadsNext(ts, is) /\ t.what # "sync" => LoadsNext(Append(ts, t), is)
         /\ \A is : t = SyncError => LoadsNext(Append(ts, t), is)
<1> DEFINE u == Append(ts, t)
<1>1. /\ Len(ts) \in Nat /\ Len(u) = Len(ts) + 1 /\ u[Len(ts) + 1] = t
      /\ \A j \in 1..Len(ts) : u[j] = ts[j]
  BY AppendProperties, LenProperties
<1> HIDE DEF u
<1>2. ASSUME Once(ts), t.what = "wait" => ~In(ts, t) PROVE Once(u)
  <2> SUFFICES ASSUME NEW m \in 1..Len(ts) + 1, NEW n \in 1..Len(ts) + 1, u[m] = u[n], u[m].what = "wait"
               PROVE  m = n
    BY <1>1 DEF Once
  <2>1. CASE m \in 1..Len(ts) /\ n \in 1..Len(ts)
    BY <1>1, <1>2, <2>1 DEF Once
  <2>2. CASE m = Len(ts) + 1 \/ n = Len(ts) + 1
    <3>1. t.what = "wait" /\ \A j \in 1..Len(ts) : ts[j] # t
      BY <1>1, <1>2, <2>2 DEF In
    <3> QED
      BY <1>1, <2>2, <3>1
  <2> QED
    BY <1>1, <2>1, <2>2
<1>3. ASSUME NEW is, LoadsNext(ts, is), t.what # "sync" PROVE LoadsNext(u, is)
  <2>1. PICK m \in 0..Len(ts) : /\ IF m = 0 THEN is ELSE ts[m] = SyncError
                                /\ \A n \in m + 1..Len(ts) : ts[n].what # "sync"
    BY <1>3 DEF LoadsNext
  <2>2. m \in 0..Len(ts) + 1 /\ (m # 0 => u[m] = ts[m])
    BY <1>1
  <2>3. \A n \in m + 1..Len(ts) + 1 : u[n].what # "sync"
    <3> TAKE n \in m + 1..Len(ts) + 1
    <3>1. n = Len(ts) + 1 \/ (n \in 1..Len(ts) /\ n \in m + 1..Len(ts))
      BY <1>1
    <3> QED
      BY <1>1, <1>3, <2>1, <3>1
  <2> QED
    BY <1>1, <2>1, <2>2, <2>3 DEF LoadsNext
<1>4. ASSUME NEW is, t = SyncError PROVE LoadsNext(u, is)
  <2>1. Len(u) \in 0..Len(u) /\ Len(u) # 0 /\ u[Len(u)] = SyncError /\ Len(u) + 1..Len(u) = {}
    BY <1>1, <1>4
  <2> QED
    BY <2>1 DEF LoadsNext
<1> QED
  BY <1>2, <1>3, <1>4 DEF u

LEMMA TasksTail ==
  ASSUME NEW ts \in Seq(TaskType), ts # <<>>
  PROVE  /\ Once(ts) => Once(Tail(ts)) /\ (Head(ts).what = "wait" => ~In(Tail(ts), Head(ts)))
         /\ \A is : LoadsNext(ts, is) => LoadsNext(Tail(ts), is \/ Head(ts) = SyncError)
         /\ \A is : LoadsNext(ts, is) /\ Head(ts).what = "sync" => LoadsNext(Tail(ts), FALSE)
<1> DEFINE u == Tail(ts)
<1>1. /\ Len(ts) \in Nat /\ 1 <= Len(ts) /\ Len(u) = Len(ts) - 1
      /\ \A j \in 1..Len(ts) - 1 : u[j] = ts[j + 1]
  BY HeadTailProperties, LenProperties, EmptySeq
<1>2. Head(ts) = ts[1]
  BY <1>1
<1> HIDE DEF u
<1>3. ASSUME Once(ts) PROVE Once(u) /\ (Head(ts).what = "wait" => ~In(u, Head(ts)))
  <2>1. \A m, n \in 1..Len(ts) - 1 : m + 1 \in 1..Len(ts) /\ n + 1 \in 1..Len(ts) /\ (m + 1 = n + 1 => m = n) /\ m + 1 # 1
    BY <1>1
  <2>2. 1 \in 1..Len(ts)
    BY <1>1
  <2>3. Once(u)
    BY <1>1, <1>3, <2>1 DEF Once
  <2>4. Head(ts).what = "wait" => ~In(u, Head(ts))
    BY <1>1, <1>2, <1>3, <2>1, <2>2 DEF Once, In
  <2> QED
    BY <2>3, <2>4
<1>4. ASSUME NEW is, NEW m \in 0..Len(ts), IF m = 0 THEN is ELSE ts[m] = SyncError,
             \A n \in m + 1..Len(ts) : ts[n].what # "sync", NEW ld,
             m = 0 => ld, m = 1 => ld
      PROVE  LoadsNext(u, ld)
  <2> DEFINE h == IF m = 0 THEN 0 ELSE m - 1
  <2>1. h \in 0..Len(ts) - 1
    BY <1>1
  <2>2. IF h = 0 THEN ld ELSE u[h] = SyncError
    <3>1. CASE m = 0 \/ m = 1
      BY <1>4, <3>1
    <3>2. CASE ~(m = 0 \/ m = 1)
      <4>1. h = m - 1 /\ h # 0 /\ h \in 1..Len(ts) - 1 /\ h + 1 = m
        BY <1>1, <3>2
      <4> QED
        BY <1>1, <1>4, <3>2, <4>1
    <3> QED
      BY <3>1, <3>2
  <2>3. \A n \in h + 1..Len(ts) - 1 : u[n].what # "sync"
    <3> TAKE n \in h + 1..Len(ts) - 1
    <3>1. n \in 1..Len(ts) - 1 /\ n + 1 \in m + 1..Len(ts)
      BY <1>1
    <3> QED
      BY <1>1, <1>4, <3>1
  <2> HIDE DEF h
  <2> QED
    BY <1>1, <2>1, <2>2, <2>3 DEF LoadsNext
<1>5. ASSUME NEW is, LoadsNext(ts, is) PROVE LoadsNext(u, is \/ Head(ts) = SyncError)
  <2>1. PICK m \in 0..Len(ts) : /\ IF m = 0 THEN is ELSE ts[m] = SyncError
                                /\ \A n \in m + 1..Len(ts) : ts[n].what # "sync"
    BY <1>5 DEF LoadsNext
  <2>2. (m = 0 => is) /\ (m = 1 => Head(ts) = SyncError)
    BY <1>2, <2>1
  <2> DEFINE ld == is \/ Head(ts) = SyncError
  <2>3. (m = 0 => ld) /\ (m = 1 => ld)
    BY <2>2
  <2> HIDE DEF ld
  <2>4. LoadsNext(u, ld)
    BY <1>4, <2>1, <2>3
  <2> QED
    BY <2>4 DEF ld
<1>6. ASSUME NEW is, LoadsNext(ts, is), Head(ts).what = "sync" PROVE LoadsNext(u, FALSE)
  <2>1. PICK m \in 0..Len(ts) : /\ IF m = 0 THEN is ELSE ts[m] = SyncError
                                /\ \A n \in m + 1..Len(ts) : ts[n].what # "sync"
    BY <1>6 DEF LoadsNext
  <2>2. m # 0
    BY <1>1, <1>2, <1>6, <2>1
  <2>3. m # 1
    BY <1>2, <1>6, <2>1 DEF SyncError, Task
  <2> QED
    BY <1>4, <2>1, <2>2, <2>3
<1> QED
  BY <1>3, <1>5, <1>6 DEF u

LEMMA TasksDrops ==
  ASSUME NEW ts \in Seq(TaskType), NEW us, Drops(ts, Bulk, us)
  PROVE  /\ Once(ts) => Once(us)
         /\ \A is : LoadsNext(ts, is) => LoadsNext(us, is)
<1>1. Len(ts) \in Nat
  BY LenProperties
<1>2. CASE us = ts
  BY <1>2
<1>3. CASE \E a \in 1..Len(ts) : /\ ts[a] = Bulk /\ Len(us) = Len(ts) - 1
                                 /\ \A j \in 1..Len(ts) - 1 : us[j] = IF j < a THEN ts[j] ELSE ts[j + 1]
  <2>1. PICK a \in 1..Len(ts) :
              /\ ts[a] = Bulk /\ Len(us) = Len(ts) - 1
              /\ \A j \in 1..Len(ts) - 1 : us[j] = IF j < a THEN ts[j] ELSE ts[j + 1]
    BY <1>3
  <2> DEFINE at(j) == IF j < a THEN j ELSE j + 1
  <2>2. \A j \in 1..Len(ts) - 1 : at(j) \in 1..Len(ts) /\ us[j] = ts[at(j)] /\ at(j) # a
    BY <1>1, <2>1
  <2>3. \A m, n \in 1..Len(ts) - 1 : at(m) = at(n) => m = n
    BY <1>1
  <2>4. ASSUME Once(ts) PROVE Once(us)
    <3> HIDE DEF at
    <3> QED
      BY <2>1, <2>2, <2>3, <2>4 DEF Once
  <2>5. ASSUME NEW is, LoadsNext(ts, is) PROVE LoadsNext(us, is)
    <3>1. PICK m \in 0..Len(ts) : /\ IF m = 0 THEN is ELSE ts[m] = SyncError
                                  /\ \A n \in m + 1..Len(ts) : ts[n].what # "sync"
      BY <2>5 DEF LoadsNext
    <3>2. m # a
      BY <2>1, <3>1 DEF SyncError, Bulk, Task
    <3> DEFINE h == IF m < a THEN m ELSE m - 1
    <3>3. h \in 0..Len(ts) - 1
      BY <1>1, <3>2
    <3>4. IF h = 0 THEN is ELSE us[h] = SyncError
      <4>1. CASE m = 0
        BY <1>1, <3>1, <4>1
      <4>2. CASE m # 0
        <5>1. h # 0 /\ h \in 1..Len(ts) - 1 /\ at(h) = m
          BY <1>1, <3>2, <4>2
        <5>2. us[h] = ts[m]
          BY <2>2, <5>1
        <5> QED
          BY <3>1, <4>2, <5>1, <5>2
      <4> QED
        BY <4>1, <4>2
    <3>5. \A n \in h + 1..Len(ts) - 1 : us[n].what # "sync"
      <4> TAKE n \in h + 1..Len(ts) - 1
      <4>1. n \in 1..Len(ts) - 1 /\ at(n) \in m + 1..Len(ts)
        BY <1>1, <3>2
      <4> QED
        BY <2>2, <3>1, <4>1
    <3> HIDE DEF h
    <3> QED
      BY <2>1, <3>3, <3>4, <3>5 DEF LoadsNext
  <2> QED
    BY <2>4, <2>5
<1> QED
  BY <1>2, <1>3 DEF Drops

\* Gathering events touches no task but that of the bulk.
LEMMA GatherTasks ==
  ASSUME NEW events, NEW isReady, NEW ts \in Seq(TaskType), Gather(events, isReady, ts)
  PROVE  /\ \A t : t # Bulk => (In(tasks', t) <=> In(ts, t))
         /\ Once(ts) => Once(tasks')
         /\ \A is : LoadsNext(ts, is) => LoadsNext(tasks', is)
<1> DEFINE us == Without(ts, Bulk)
<1>1. us \in Seq(TaskType) /\ Drops(ts, Bulk, us)
  BY WithoutFacts
<1> HIDE DEF us
<1>2. /\ \A t : t # Bulk => (In(us, t) <=> In(ts, t))
      /\ Once(ts) => Once(us)
      /\ \A is : LoadsNext(ts, is) => LoadsNext(us, is)
  BY <1>1, InDrops, TasksDrops
<1>3. Bulk \in TaskType /\ Bulk.what = "bulk"
  BY DEF TaskType, Bulk, Task
<1>4. /\ \A t : t # Bulk => (In(Append(us, Bulk), t) <=> In(us, t))
      /\ Once(us) => Once(Append(us, Bulk))
      /\ \A is : LoadsNext(us, is) => LoadsNext(Append(us, Bulk), is)
  BY <1>1, <1>3, InAppend, TasksAppend
<1>5. tasks' = ts \/ tasks' = us \/ tasks' = Append(us, Bulk)
  BY DEF Gather, us
<1>6. CASE tasks' = ts
  BY <1>6
<1>7. CASE tasks' = us
  BY <1>2, <1>7
<1>8. CASE tasks' = Append(us, Bulk)
  BY <1>2, <1>4, <1>8
<1> QED
  BY <1>5, <1>6, <1>7, <1>8

(* ------------------------- requests and their chains --------------------- *)

\* Listening is on at the time of the latest start, or off; the chains begun have numbers up
\* to it.
Numbers ==
    /\ listening \in {0, starts}
    /\ started <=> starts # 0
    /\ starts = 0 => ~known /\ listener = None
    /\ \A k \in Chain : chain[k] = "none" <=> k > starts
    /\ \A k \in Chain : asked[k] <= starts

\* A request is on the wire, waits at the server or has an answer, as its chain says.
Requests ==
    /\ Distinct(wire)
    /\ \A k \in Chain : chain[k] = "sent" <=> In(wire, k)
    /\ \A k \in Chain : chain[k] = "waiting" <=> listener = k
    /\ \A k \in Chain : answer[k] # <<>> => chain[k] = "answered"
    /\ ~known => queue = <<>>

\* A chain that waits for its next request's task has one.
Scheduled ==
    /\ Once(tasks)
    /\ \A k \in Chain : chain[k] = "task" <=> In(tasks, Task("wait", k))
    /\ \A k \in Chain : In(tasks, Task("sync", k)) => k <= starts

\* Until a task or timer crosses over to another listening time, each chain asks at its own.
Own ==
    ~crossed => /\ \A k \in Chain : Goes(k) => asked[k] = k
                /\ ~In(tasks, Task("sync", 0))

Listens == Numbers /\ Requests /\ Scheduled /\ Own

\* A full update is told only once there was listening.
Begun == (\E e : In(bulk, e) /\ e.kind = "full") => starts # 0

LEMMA TaskFacts ==
  /\ \A k \in Chain : Task("wait", k) \in TaskType /\ Task("wait", k).what = "wait"
  /\ \A k \in Chain \cup {0} : Task("sync", k) \in TaskType /\ Task("sync", k).what = "sync"
  /\ \A k, n : Task("wait", k) # Task("sync", n) /\ Task("wait", k) # Bulk
               /\ Task("wait", k) # SyncError /\ Task("sync", k) # Bulk /\ Task("sync", k) # SyncError
  /\ \A k, n : (Task("wait", k) = Task("wait", n) => k = n) /\ (Task("sync", k) = Task("sync", n) => k = n)
  /\ SyncError \in TaskType /\ SyncError.what = "syncError"
  /\ Bulk \in TaskType /\ Bulk.what = "bulk" /\ SyncError # Bulk
  /\ Sync = Task("sync", listening)
BY DEF TaskType, Task, Sync, SyncError, Bulk

\* What startListening() does to the requests.
LEMMA StartRequests ==
  ASSUME Types, Listens, StartListening, answer' = answer, listener' = listener, queue' = queue,
         known' = known
  PROVE  /\ starts + 1 \in Chain /\ starts' = starts + 1 /\ listening' = starts + 1
         /\ chain[starts + 1] = "none"
         /\ chain' = [chain EXCEPT ![starts + 1] = "sent"]
         /\ asked' = [asked EXCEPT ![starts + 1] = starts + 1]
         /\ wire' = Append(wire, starts + 1) /\ ~In(wire, starts + 1)
         /\ Requests'
<1> DEFINE n == starts + 1
<1>1. /\ n \in Chain /\ starts' = n /\ listening' = n
      /\ chain' = [chain EXCEPT ![n] = "sent"] /\ asked' = [asked EXCEPT ![n] = n]
      /\ wire' = Append(wire, n)
  BY DEF StartListening, Wait
<1>2. chain[n] = "none"
  BY <1>1, Bounds DEF Listens, Numbers, Types, ListenTypes
<1>3. ~In(wire, n)
  BY <1>1, <1>2 DEF Listens, Requests
<1> HIDE DEF n
<1>4. wire \in Seq(Chain) /\ chain \in [Chain -> ChainStates]
  BY DEF Types, ListenTypes
<1>5. Distinct(wire') /\ \A k \in Chain : In(wire', k) <=> In(wire, k) \/ k = n
  BY <1>1, <1>3, <1>4, DistinctAppend, InAppend DEF Listens, Requests
<1>6. Requests'
  BY <1>1, <1>2, <1>4, <1>5 DEF Listens, Requests
<1> QED
  BY <1>1, <1>2, <1>3, <1>6 DEF n

\* So it does to the numbers.
LEMMA StartNumbers ==
  ASSUME Types, Listens, StartListening, answer' = answer, listener' = listener, queue' = queue,
         known' = known, started', tasks' = tasks \/ (Head(tasks) = Bulk /\ tasks # <<>> /\ tasks' = Tail(tasks)),
         crossed' = crossed
  PROVE  Listens'
<1> DEFINE n == starts + 1
<1>1. /\ n \in Chain /\ starts' = n /\ listening' = n /\ chain[n] = "none"
      /\ chain' = [chain EXCEPT ![n] = "sent"] /\ asked' = [asked EXCEPT ![n] = n]
      /\ Requests'
  BY StartRequests
<1>2. /\ starts \in Nat /\ n = starts + 1 /\ n # 0 /\ n \in Nat
      /\ chain \in [Chain -> ChainStates] /\ asked \in [Chain -> Chain \cup {0}]
      /\ tasks \in Seq(TaskType)
  BY <1>1, Bounds DEF Types, ListenTypes
<1>3. \A k \in Chain : k \in Nat /\ asked[k] \in Nat
  BY <1>2, Bounds
<1>4. /\ \A t : t # Bulk => (In(tasks', t) <=> In(tasks, t))
      /\ Once(tasks')
  <2>1. CASE tasks' = tasks
    BY <2>1 DEF Listens, Scheduled
  <2>2. CASE Head(tasks) = Bulk /\ tasks # <<>> /\ tasks' = Tail(tasks)
    BY <1>2, <2>2, InTail, TasksTail DEF Listens, Scheduled
  <2> QED
    BY <2>1, <2>2
<1>5. n # 0 /\ started'
  BY <1>2
<1> HIDE DEF n
<1>6. Numbers'
  <2>1. \A k \in Chain : chain'[k] = "none" <=> k > starts'
    BY <1>1, <1>2, <1>3 DEF Listens, Numbers
  <2>2. \A k \in Chain : asked'[k] <= starts'
    BY <1>1, <1>2, <1>3 DEF Listens, Numbers
  <2> QED
    BY <1>1, <1>5, <2>1, <2>2 DEF Numbers
<1>7. Scheduled'
  <2>1. \A k \in Chain : chain'[k] = "task" <=> In(tasks', Task("wait", k))
    BY <1>1, <1>2, <1>4, TaskFacts DEF Listens, Scheduled
  <2>2. \A k \in Chain : In(tasks', Task("sync", k)) => k <= starts'
    BY <1>1, <1>2, <1>3, <1>4, TaskFacts DEF Listens, Scheduled
  <2> QED
    BY <1>4, <2>1, <2>2 DEF Scheduled
<1>8. Own'
  <2>1. ~In(tasks, Task("sync", 0)) => ~In(tasks', Task("sync", 0))
    BY <1>4, TaskFacts
  <2>2. ASSUME \A k \in Chain : Goes(k) => asked[k] = k, NEW k \in Chain, Goes(k)' PROVE asked'[k] = k
    BY <1>1, <1>2, <2>2 DEF Goes
  <2> QED
    BY <2>1, <2>2 DEF Listens, Own
<1> QED
  BY <1>1, <1>6, <1>7, <1>8 DEF Listens

\* What wait() does when a chain's task or timer calls it.
LEMMA WaitListens ==
  ASSUME Types, Listens, NEW k \in Chain, Wait(k), listening' = listening, starts' = starts,
         UNCHANGED <<answer, serverVars, started>>,
         \/ chain[k] = "timer" /\ tasks' = tasks
         \/ tasks # <<>> /\ Head(tasks) = Task("wait", k) /\ tasks' = Tail(tasks),
         crossed' = (crossed \/ asked[k] # listening)
  PROVE  /\ ~In(wire, k) /\ Listens'
         /\ wire' = Append(wire, k)
         /\ chain' = [chain EXCEPT ![k] = "sent"] /\ asked' = [asked EXCEPT ![k] = listening]
         /\ chain[k] \in {"task", "timer"}
<1>1. /\ chain' = [chain EXCEPT ![k] = "sent"] /\ asked' = [asked EXCEPT ![k] = listening]
      /\ wire' = Append(wire, k)
  BY DEF Wait
<1>0. /\ chain \in [Chain -> ChainStates] /\ asked \in [Chain -> Chain \cup {0}]
      /\ tasks \in Seq(TaskType) /\ wire \in Seq(Chain) /\ starts \in Chain \cup {0}
  BY DEF Types, ListenTypes
<1>2. /\ chain \in [Chain -> ChainStates] /\ asked \in [Chain -> Chain \cup {0}]
      /\ tasks \in Seq(TaskType) /\ wire \in Seq(Chain) /\ starts \in Nat
      /\ \A n \in Chain : n \in Nat /\ asked[n] \in Nat
  BY <1>0, Bounds
<1>3. /\ chain[k] \in {"task", "timer"} /\ Once(tasks') /\ ~In(tasks', Task("wait", k))
      /\ \A t : t # Task("wait", k) => (In(tasks', t) <=> In(tasks, t))
  <2>1. CASE chain[k] = "timer" /\ tasks' = tasks
    BY <2>1 DEF Listens, Scheduled
  <2>2. CASE tasks # <<>> /\ Head(tasks) = Task("wait", k) /\ tasks' = Tail(tasks)
    <3>1. \A t : In(tasks, t) <=> In(tasks', t) \/ t = Task("wait", k)
      BY <1>2, <2>2, InTail
    <3>2. Once(tasks') /\ ~In(tasks', Task("wait", k))
      BY <1>2, <2>2, TasksTail, TaskFacts DEF Listens, Scheduled
    <3> QED
      BY <3>1, <3>2 DEF Listens, Scheduled
  <2> QED
    BY <2>1, <2>2
<1>4. ~In(wire, k)
  BY <1>3 DEF Listens, Requests
<1>5. Distinct(wire') /\ \A n \in Chain : In(wire', n) <=> In(wire, n) \/ n = k
  BY <1>1, <1>2, <1>4, DistinctAppend, InAppend DEF Listens, Requests
<1>6. Requests'
  BY <1>1, <1>2, <1>3, <1>5 DEF Listens, Requests, serverVars
<1>7. Numbers'
  <2>1. \A n \in Chain : chain'[n] = "none" <=> n > starts
    BY <1>1, <1>2, <1>3 DEF Listens, Numbers
  <2>2. \A n \in Chain : asked'[n] <= starts
    BY <1>1, <1>2 DEF Listens, Numbers
  <2> QED
    BY <2>1, <2>2 DEF Listens, Numbers, serverVars
<1>8. Scheduled'
  <2>1. \A n \in Chain : chain'[n] = "task" <=> In(tasks', Task("wait", n))
    BY <1>1, <1>2, <1>3, TaskFacts DEF Listens, Scheduled
  <2>2. \A n \in Chain : In(tasks', Task("sync", n)) => n <= starts'
    BY <1>3, TaskFacts DEF Listens, Scheduled
  <2> QED
    BY <1>3, <2>1, <2>2 DEF Scheduled
<1>9. Own'
  <2>1. ~In(tasks, Task("sync", 0)) => ~In(tasks', Task("sync", 0))
    BY <1>3, TaskFacts
  <2>2. ASSUME ~crossed', NEW n \in Chain, Goes(n)' PROVE asked'[n] = n
    <3>1. ~crossed /\ asked[k] = listening /\ Goes(k)
      BY <1>3, <2>2 DEF Goes
    <3> QED
      BY <1>1, <1>2, <2>2, <3>1 DEF Listens, Own, Goes
  <2>3. ~crossed' => ~crossed
    OBVIOUS
  <2> QED
    BY <2>1, <2>2, <2>3 DEF Listens, Own
<1> QED
  BY <1>1, <1>3, <1>4, <1>6, <1>7, <1>8, <1>9 DEF Listens

LEMMA InitListens == Init => Listens
<1> SUFFICES ASSUME Init PROVE Listens
  OBVIOUS
<1>1. /\ listening = 0 /\ starts = 0 /\ started = FALSE /\ known = FALSE /\ listener = None
      /\ wire = <<>> /\ tasks = <<>> /\ queue = <<>>
      /\ \A k \in Chain : chain[k] = "none" /\ asked[k] = 0 /\ answer[k] = <<>>
  BY DEF Init
<1>2. /\ Len(<<>>) = 0 /\ \A x : ~In(<<>>, x)
  BY DEF In
<1>3. Distinct(<<>>) /\ Once(<<>>)
  BY DEF Distinct, Once
<1>4. \A k \in Chain : k > 0 /\ k # None
  BY Bounds
<1>5. \A k \in Chain : ~Goes(k)
  BY <1>1 DEF Goes
<1> QED
  BY <1>1, <1>2, <1>3, <1>4, <1>5 DEF Listens, Numbers, Requests, Scheduled, Own

LEMMA BegunStep ==
  ASSUME Types, Listens, Begun, [Next]_vars
  PROVE  Begun'
<1>a. /\ starts \in Nat /\ bulk \in Seq(EventType) /\ Numbers
      /\ chain \in [Chain -> ChainStates] /\ answer \in [Chain -> Seq(EventType)]
  BY Bounds DEF Types, ListenTypes, CopyTypes, Listens
<1>b. ASSUME bulk' = bulk \/ bulk' = <<>>, starts' = starts \/ starts' = starts + 1
      PROVE  Begun'
  <2>1. starts # 0 => starts' # 0
    BY <1>a, <1>b
  <2>2. \A e : In(bulk', e) => In(bulk, e)
    BY <1>b DEF In
  <2> QED
    BY <2>1, <2>2 DEF Begun
<1>1. ASSUME NEW k \in Chain, Receive(k) PROVE Begun'
  <2>1. starts # 0 /\ starts' = starts
    BY <1>1, <1>a, Bounds DEF Receive, Numbers
  <2> QED
    BY <2>1 DEF Begun
<1>2. ASSUME NEW l \in Load, NEW p \in Part, GetAnswered(l, p) PROVE Begun'
  <2>1. starts' = starts
    BY <1>2 DEF GetAnswered, listenVars
  <2>2. CASE p \in loaded
    <3>1. bulk' = bulk \o FakeEvents(p, got[l][p])
      BY <1>2, <2>2 DEF GetAnswered, Gather
    <3>2. got[l][p] \in States /\ cache \in States
      BY DEF Types, LoadTypes, CopyTypes
    <3>3. /\ FakeEvents(p, got[l][p]) \in Seq(EventType)
          /\ \A e : In(FakeEvents(p, got[l][p]), e) => e.kind # "full"
      BY <3>2, FakeEventsFacts
    <3>4. \A e : In(bulk', e) => In(bulk, e) \/ e.kind # "full"
      BY <1>a, <3>1, <3>3, InConcat
    <3> QED
      BY <2>1, <3>4 DEF Begun
  <2>3. CASE p \notin loaded
    BY <1>2, <1>b, <2>1, <2>3 DEF GetAnswered
  <2> QED
    BY <2>2, <2>3
<1>3. CASE WaitTask
  BY <1>3, <1>b DEF WaitTask
<1>4. CASE SyncErrorTask \/ SyncTask
  BY <1>4, <1>b DEF SyncErrorTask, SyncTask, listenVars
<1>5. CASE BulkTask
  BY <1>5, <1>b DEF BulkTask, StartListening
<1>6. CASE AccessGranted \/ Start
  BY <1>6, <1>b DEF AccessGranted, Start, StartListening, listenVars, cacheVars
<1>7. ASSUME NEW k \in Chain, Error(k) \/ TimerFires(k) \/ Break(k) PROVE Begun'
  BY <1>7, <1>b DEF Error, TimerFires, Break, cacheVars
<1>8. ASSUME NEW l \in Load, NEW p \in Part, ServeGet(l, p) \/ GetFails(l, p) PROVE Begun'
  BY <1>8, <1>b DEF ServeGet, GetFails, listenVars, cacheVars
<1>9. ASSUME NEW l \in Load, RetryLoad(l) PROVE Begun'
  BY <1>9, <1>b DEF RetryLoad, listenVars
<1>10. CASE Arrives \/ Respond \/ Expire
  BY <1>10, <1>b DEF Arrives, Respond, Expire, listenVars, cacheVars
<1>11. CASE Deactivate \/ Activate
  BY <1>11, <1>b DEF Deactivate, Activate, StartListening, cacheVars
<1>12. ASSUME NEW i \in Item, Change(i) \/ FullUpdate(i) PROVE Begun'
  BY <1>12, <1>b DEF Change, FullUpdate, Push, listenVars
<1>13. CASE UNCHANGED vars
  BY <1>13, <1>b DEF vars, listenVars, cacheVars
<1> QED
  BY <1>1, <1>2, <1>3, <1>4, <1>5, <1>6, <1>7, <1>8, <1>9, <1>10, <1>11, <1>12, <1>13
  DEF Next, ClientStep, NetworkStep, Trouble, World

LEMMA ListensStep ==
  ASSUME Types, Listens, Begun, [Next]_vars
  PROVE  Listens'
<1>a. /\ chain \in [Chain -> ChainStates] /\ asked \in [Chain -> Chain \cup {0}]
      /\ answer \in [Chain -> Seq(EventType)] /\ tasks \in Seq(TaskType) /\ wire \in Seq(Chain)
      /\ listening \in Chain \cup {0} /\ starts \in Chain \cup {0}
  BY DEF Types, ListenTypes
<1>b. /\ \A k \in Chain : k \in Nat /\ k # 0 /\ k # None /\ k # Ghost
      /\ starts \in Nat /\ listening \in Nat
  BY <1>a, Bounds
<1>c. Numbers /\ Requests /\ Scheduled /\ Own
  BY DEF Listens
<1>d. ASSUME tasks # <<>>, tasks' = Tail(tasks), Head(tasks).what \notin {"wait"}, crossed => crossed',
             UNCHANGED <<serverVars, listening, starts, chain, asked, answer, wire, started>>
      PROVE  Listens'
  <2>1. /\ Once(tasks')
        /\ \A t : In(tasks, t) <=> In(tasks', t) \/ t = Head(tasks)
    BY <1>a, <1>c, <1>d, InTail, TasksTail DEF Scheduled
  <2>2. \A k \in Chain : Head(tasks) # Task("wait", k)
    BY <1>d DEF Task
  <2>3. Scheduled'
    BY <1>c, <1>d, <2>1, <2>2 DEF Scheduled
  <2> QED
    BY <1>c, <1>d, <2>1, <2>3 DEF Listens, Numbers, Requests, Own, Goes, serverVars
<1>e. ASSUME UNCHANGED <<serverVars, listening, starts, chain, asked, answer, wire, started, tasks>>,
             crossed' = crossed
      PROVE  Listens'
  BY <1>c, <1>e DEF Listens, Numbers, Requests, Scheduled, Own, Goes, serverVars
<1>1. CASE WaitTask
  <2>1. Head(tasks) \in TaskType /\ Head(tasks).what = "wait"
    BY <1>1, HeadTask DEF Types, WaitTask
  <2>2. Head(tasks).of \in Chain /\ Head(tasks) = Task("wait", Head(tasks).of)
    BY <2>1, TaskKinds
  <2> QED
    BY <1>1, <2>2, WaitListens DEF WaitTask, serverVars, windowVars
<1>2. CASE SyncErrorTask
  <2>1. Head(tasks).what # "wait"
    BY <1>2, TaskFacts DEF SyncErrorTask
  <2> QED
    BY <1>2, <1>d, <2>1 DEF SyncErrorTask, listenVars, windowVars
<1>3. CASE SyncTask
  BY <1>3, <1>d DEF SyncTask, listenVars, windowVars
<1>4. CASE BulkTask
  <2>1. Head(tasks).what # "wait"
    BY <1>4, TaskFacts DEF BulkTask
  <2>2. CASE \E j \in 1..Len(bulk) : bulk[j].kind = "full"
    <3>1. started'
      BY <1>4, <1>c, <2>2 DEF BulkTask, windowVars, Begun, In, Numbers
    <3> QED
      BY <1>4, <2>2, <3>1, StartNumbers DEF BulkTask, serverVars
  <2>3. CASE ~\E j \in 1..Len(bulk) : bulk[j].kind = "full"
    BY <1>4, <1>d, <2>1, <2>3 DEF BulkTask, windowVars
  <2> QED
    BY <2>2, <2>3
<1>5. CASE AccessGranted
  BY <1>5, <1>e DEF AccessGranted, listenVars, windowVars
<1>6. CASE Start
  BY <1>6, StartNumbers DEF Start, serverVars, cacheVars
<1>7. ASSUME NEW k \in Chain, Receive(k) PROVE Listens'
  <2>1. /\ chain[k] = "answered" /\ answer' = [answer EXCEPT ![k] = <<>>]
        /\ UNCHANGED <<serverVars, listening, starts, wire, started, crossed>>
    BY <1>7 DEF Receive, windowVars
  <2>2. CASE asked[k] = listening
    <3> DEFINE w == Task("wait", k)
               ts == Append(Append(tasks, w), Sync)
    <3>1. w \in TaskType /\ Sync \in TaskType /\ w.what = "wait" /\ Sync.what = "sync"
      BY <1>a, TaskFacts
    <3>2. ts \in Seq(TaskType) /\ tasks \o <<w, Sync>> = ts
      BY <1>a, <3>1, ConcatTwo, AppendProperties
    <3>3. chain' = [chain EXCEPT ![k] = "task"] /\ asked' = asked /\ Gather(answer[k], ready, ts)
      BY <1>7, <2>2, <3>2 DEF Receive
    <3>4. \A t : In(ts, t) <=> In(tasks, t) \/ t = w \/ t = Sync
      <4>1. Append(tasks, w) \in Seq(TaskType)
        BY <1>a, <3>1, AppendProperties
      <4>2. \A t : In(Append(tasks, w), t) <=> In(tasks, t) \/ t = w
        BY <1>a, <3>1, InAppend
      <4>3. \A t : In(ts, t) <=> In(Append(tasks, w), t) \/ t = Sync
        <5> DEFINE u == Append(tasks, w)
        <5> HIDE DEF u
        <5>1. \A t : In(Append(u, Sync), t) <=> In(u, t) \/ t = Sync
          <6>1. u \in Seq(TaskType)
            BY <4>1 DEF u
          <6> QED
            BY <3>1, <6>1, InAppend
        <5> QED
          BY <5>1 DEF u
      <4> QED
        BY <4>2, <4>3
    <3>5. ~In(tasks, w)
      BY <1>c, <2>1 DEF Scheduled
    <3>6. Once(ts)
      <4>1. Append(tasks, w) \in Seq(TaskType)
        BY <1>a, <3>1, AppendProperties
      <4>2. Once(Append(tasks, w))
        BY <1>a, <1>c, <3>1, <3>5, TasksAppend DEF Scheduled
      <4> QED
        BY <3>1, <4>1, <4>2, TasksAppend
    <3> HIDE DEF ts
    <3>7. Once(tasks') /\ \A t : t # Bulk => (In(tasks', t) <=> In(tasks, t) \/ t = w \/ t = Sync)
      BY <3>2, <3>3, <3>4, <3>6, GatherTasks
    <3>8. Numbers'
      <4>1. \A n \in Chain : chain'[n] = "none" <=> n > starts
        BY <1>a, <1>c, <2>1, <3>3 DEF Numbers
      <4> QED
        BY <1>c, <2>1, <3>3, <4>1 DEF Numbers, serverVars
    <3>9. Requests'
      BY <1>a, <1>c, <2>1, <3>3 DEF Requests, serverVars
    <3>10. Scheduled'
      <4>1. \A n \in Chain : chain'[n] = "task" <=> In(tasks', Task("wait", n))
        BY <1>a, <1>c, <3>3, <3>7, TaskFacts DEF Scheduled
      <4>2. ASSUME NEW n \in Chain, In(tasks', Task("sync", n)) PROVE n <= starts
        <5>1. In(tasks, Task("sync", n)) \/ n = listening
          BY <3>7, <4>2, TaskFacts
        <5> QED
          BY <1>b, <1>c, <5>1 DEF Scheduled, Numbers
      <4> QED
        BY <2>1, <3>7, <4>1, <4>2 DEF Scheduled
    <3>11. Own'
      <4>1. ASSUME ~crossed PROVE ~In(tasks', Task("sync", 0)) /\ \A n \in Chain : Goes(n)' => asked'[n] = n
        <5>1. Goes(k) /\ listening = k
          BY <1>c, <2>1, <2>2, <4>1 DEF Own, Goes
        <5>2. ~In(tasks', Task("sync", 0))
          BY <1>b, <1>c, <3>7, <4>1, <5>1, TaskFacts DEF Own
        <5> QED
          BY <1>a, <1>c, <3>3, <4>1, <5>1, <5>2 DEF Own, Goes
      <4> QED
        BY <2>1, <4>1 DEF Own
    <3> QED
      BY <3>8, <3>9, <3>10, <3>11 DEF Listens
  <2>3. CASE asked[k] # listening
    <3>1. /\ chain' = [chain EXCEPT ![k] = "over"] /\ asked' = [asked EXCEPT ![k] = 0] /\ tasks' = tasks
      BY <1>7, <2>3 DEF Receive
    <3>2. \A n \in Chain : asked'[n] <= starts
      BY <1>a, <1>b, <1>c, <3>1 DEF Numbers
    <3>3. Numbers'
      BY <1>a, <1>c, <2>1, <3>1, <3>2 DEF Numbers, serverVars
    <3>4. Requests'
      BY <1>a, <1>c, <2>1, <3>1 DEF Requests, serverVars
    <3>5. Scheduled'
      BY <1>a, <1>c, <2>1, <3>1 DEF Scheduled
    <3>6. Own'
      BY <1>a, <1>c, <2>1, <3>1 DEF Own, Goes
    <3> QED
      BY <3>3, <3>4, <3>5, <3>6 DEF Listens
  <2> QED
    BY <2>2, <2>3
<1>8. ASSUME NEW k \in Chain, Error(k) PROVE Listens'
  <2>1. /\ chain[k] = "broken"
        /\ UNCHANGED <<serverVars, listening, starts, wire, answer, started, crossed>>
    BY <1>8 DEF Error, windowVars, cacheVars
  <2>2. CASE asked[k] = listening
    <3>1. chain' = [chain EXCEPT ![k] = "timer"] /\ asked' = asked /\ tasks' = Append(tasks, SyncError)
      BY <1>8, <2>2 DEF Error
    <3>2. Once(tasks') /\ \A t : In(tasks', t) <=> In(tasks, t) \/ t = SyncError
      BY <1>a, <1>c, <3>1, TasksAppend, InAppend, TaskFacts DEF Scheduled
    <3>3. Numbers'
      BY <1>a, <1>c, <2>1, <3>1 DEF Numbers, serverVars
    <3>4. Requests'
      BY <1>a, <1>c, <2>1, <3>1 DEF Requests, serverVars
    <3>5. Scheduled'
      BY <1>a, <1>c, <2>1, <3>1, <3>2, TaskFacts DEF Scheduled
    <3>6. Own'
      BY <1>a, <1>c, <2>1, <3>1, <3>2, TaskFacts DEF Own, Goes
    <3> QED
      BY <3>3, <3>4, <3>5, <3>6 DEF Listens
  <2>3. CASE asked[k] # listening
    <3>1. /\ chain' = [chain EXCEPT ![k] = "over"] /\ asked' = [asked EXCEPT ![k] = 0] /\ tasks' = tasks
      BY <1>8, <2>3 DEF Error
    <3>2. \A n \in Chain : asked'[n] <= starts
      BY <1>a, <1>b, <1>c, <3>1 DEF Numbers
    <3>3. Numbers'
      BY <1>a, <1>c, <2>1, <3>1, <3>2 DEF Numbers, serverVars
    <3>4. Requests'
      BY <1>a, <1>c, <2>1, <3>1 DEF Requests, serverVars
    <3>5. Scheduled'
      BY <1>a, <1>c, <2>1, <3>1 DEF Scheduled
    <3>6. Own'
      BY <1>a, <1>c, <2>1, <3>1 DEF Own, Goes
    <3> QED
      BY <3>3, <3>4, <3>5, <3>6 DEF Listens
  <2> QED
    BY <2>2, <2>3
<1>9. ASSUME NEW k \in Chain, TimerFires(k) PROVE Listens'
  BY <1>9, WaitListens DEF TimerFires, serverVars, windowVars
<1>10. ASSUME NEW l \in Load, RetryLoad(l) PROVE Listens'
  BY <1>10, <1>e DEF RetryLoad, listenVars, windowVars
<1>11. ASSUME NEW l \in Load, NEW p \in Part, GetAnswered(l, p) PROVE Listens'
  <2>1. UNCHANGED <<serverVars, listening, starts, chain, asked, answer, wire, started, crossed>>
    BY <1>11 DEF GetAnswered, listenVars, windowVars
  <2>2. CASE p \in loaded
    <3>1. Gather(FakeEvents(p, got[l][p]), ready, tasks)
      BY <1>11, <2>2 DEF GetAnswered
    <3>2. Once(tasks') /\ \A t : t # Bulk => (In(tasks', t) <=> In(tasks, t))
      BY <1>a, <1>c, <3>1, GatherTasks DEF Scheduled
    <3> QED
      BY <1>c, <2>1, <3>2, TaskFacts DEF Listens, Numbers, Requests, Scheduled, Own, Goes, serverVars
  <2>3. CASE p \notin loaded
    BY <1>11, <1>e, <2>1, <2>3 DEF GetAnswered
  <2> QED
    BY <2>2, <2>3
<1>12. CASE Arrives
  <2> DEFINE k == Head(wire)
  <2>1. k \in Chain /\ wire # <<>> /\ wire' = Tail(wire) /\ queue' = <<>> /\ known' = TRUE
    BY <1>a, <1>12, HeadTailProperties DEF Arrives
  <2>2. Distinct(wire') /\ \A n : In(wire', n) <=> In(wire, n) /\ n # k
    BY <1>a, <1>c, <2>1, DistinctTail, InTail DEF Requests
  <2>3. chain[k] = "sent"
    BY <1>a, <1>c, <2>1, InType DEF Requests
  <2> HIDE DEF k
  <2>4. UNCHANGED <<listening, starts, asked, tasks, started, crossed>>
    BY <1>12 DEF Arrives, cacheVars, windowVars
  <2>5. starts # 0
    BY <1>b, <1>c, <2>1, <2>3 DEF Numbers
  <2>6. CASE /\ listener \in Chain /\ listener' = k
             /\ chain' = [chain EXCEPT ![k] = "waiting", ![listener] = "answered"]
             /\ answer' = [answer EXCEPT ![listener] = queue]
    <3>1. chain[listener] = "waiting" /\ listener # k
      BY <1>c, <2>3, <2>6 DEF Requests
    <3>2. \A n \in Chain : chain'[n] = IF n = k THEN "waiting" ELSE IF n = listener THEN "answered" ELSE chain[n]
      BY <1>a, <2>1, <2>6, <3>1
    <3>3. \A n \in Chain : answer'[n] = IF n = listener THEN queue ELSE answer[n]
      BY <1>a, <2>6
    <3>4. Numbers'
      BY <1>c, <2>3, <2>4, <2>5, <3>1, <3>2 DEF Numbers
    <3>5. Requests'
      <4>1. \A n \in Chain : chain'[n] = "sent" <=> In(wire', n)
        BY <1>c, <2>2, <2>3, <3>1, <3>2 DEF Requests
      <4>2. \A n \in Chain : chain'[n] = "waiting" <=> listener' = n
        <5>1. \A n \in Chain \ {listener} : chain[n] # "waiting"
          BY <1>c, <2>6 DEF Requests
        <5> TAKE n \in Chain
        <5>2. CASE n = k
          BY <2>6, <3>2, <5>2
        <5>3. CASE n = listener
          <6>1. n # k
            BY <3>1, <5>3
          <6>2. chain'[n] = "answered"
            BY <3>2, <5>3, <6>1
          <6>3. listener' # n
            BY <2>6, <6>1
          <6> QED
            BY <6>2, <6>3
        <5>4. CASE n # k /\ n # listener
          <6>1. chain'[n] = chain[n]
            BY <3>2, <5>4
          <6> QED
            BY <2>6, <5>1, <5>4, <6>1
        <5> QED
          BY <5>2, <5>3, <5>4
      <4>3. \A n \in Chain : answer'[n] # <<>> => chain'[n] = "answered"
        BY <1>c, <2>3, <3>1, <3>2, <3>3 DEF Requests
      <4> QED
        BY <2>1, <2>2, <4>1, <4>2, <4>3 DEF Requests
    <3>6. Scheduled'
      BY <1>c, <2>3, <2>4, <3>1, <3>2 DEF Scheduled
    <3>7. Own'
      BY <1>c, <2>3, <2>4, <3>1, <3>2 DEF Own, Goes
    <3> QED
      BY <3>4, <3>5, <3>6, <3>7 DEF Listens
  <2>7. CASE /\ listener = Ghost \/ (queue = <<>> /\ listener = None)
             /\ listener' = k
             /\ chain' = [chain EXCEPT ![k] = "waiting"]
             /\ answer' = answer
    <3>1. \A n \in Chain : chain[n] # "waiting"
      BY <1>b, <1>c, <2>7 DEF Requests
    <3>2. \A n \in Chain : chain'[n] = IF n = k THEN "waiting" ELSE chain[n]
      BY <1>a, <2>1, <2>7
    <3>4. Numbers'
      BY <1>c, <2>3, <2>4, <2>5, <3>1, <3>2 DEF Numbers
    <3>5. Requests'
      BY <1>c, <2>1, <2>2, <2>3, <2>7, <3>1, <3>2 DEF Requests
    <3>6. Scheduled'
      BY <1>c, <2>3, <2>4, <3>1, <3>2 DEF Scheduled
    <3>7. Own'
      BY <1>c, <2>3, <2>4, <3>1, <3>2 DEF Own, Goes
    <3> QED
      BY <3>4, <3>5, <3>6, <3>7 DEF Listens
  <2>8. CASE /\ listener = None /\ queue # <<>>
             /\ chain' = [chain EXCEPT ![k] = "answered"]
             /\ answer' = [answer EXCEPT ![k] = queue] /\ listener' = listener
    <3>2. \A n \in Chain : chain'[n] = IF n = k THEN "answered" ELSE chain[n]
      BY <1>a, <2>1, <2>8
    <3>3. \A n \in Chain : answer'[n] = IF n = k THEN queue ELSE answer[n]
      BY <1>a, <2>1, <2>8
    <3>4. Numbers'
      BY <1>c, <2>3, <2>4, <2>5, <3>2 DEF Numbers
    <3>5. Requests'
      BY <1>b, <1>c, <2>1, <2>2, <2>3, <2>8, <3>2, <3>3 DEF Requests
    <3>6. Scheduled'
      BY <1>c, <2>3, <2>4, <3>2 DEF Scheduled
    <3>7. Own'
      BY <1>c, <2>3, <2>4, <3>2 DEF Own, Goes
    <3> QED
      BY <3>4, <3>5, <3>6, <3>7 DEF Listens
  <2> QED
    BY <1>12, <2>6, <2>7, <2>8 DEF Arrives, k
<1>13. CASE Respond
  <2>1. /\ listener # None /\ listener' = None /\ queue' = <<>> /\ known' = known
        /\ UNCHANGED <<listening, starts, asked, wire, tasks, started, crossed>>
    BY <1>13 DEF Respond, cacheVars, windowVars
  <2>2. listener \in Chain \cup {None, Ghost}
    BY DEF Types, ServerTypes
  <2>3. CASE listener = Ghost
    <3>1. chain' = chain /\ answer' = answer
      BY <1>13, <2>3 DEF Respond
    <3> QED
      BY <1>b, <1>c, <2>1, <2>3, <3>1 DEF Listens, Numbers, Requests, Scheduled, Own, Goes
  <2>4. CASE listener \in Chain
    <3>1. /\ chain' = [chain EXCEPT ![listener] = "answered"]
          /\ answer' = [answer EXCEPT ![listener] = queue]
      BY <1>13, <1>b, <2>4 DEF Respond
    <3>2. chain[listener] = "waiting"
      BY <1>c, <2>4 DEF Requests
    <3>3. Numbers'
      BY <1>a, <1>c, <2>1, <2>4, <3>1, <3>2 DEF Numbers
    <3>4. Requests'
      BY <1>a, <1>b, <1>c, <2>1, <2>4, <3>1, <3>2 DEF Requests
    <3>5. Scheduled' /\ Own'
      BY <1>a, <1>c, <2>1, <2>4, <3>1, <3>2 DEF Scheduled, Own, Goes
    <3> QED
      BY <3>3, <3>4, <3>5 DEF Listens
  <2> QED
    BY <2>1, <2>2, <2>3, <2>4
<1>14. ASSUME NEW l \in Load, NEW p \in Part, ServeGet(l, p) PROVE Listens'
  BY <1>14, <1>e DEF ServeGet, listenVars, windowVars, cacheVars
<1>15. ASSUME NEW k \in Chain, Break(k) PROVE Listens'
  <2>1. /\ chain[k] \in {"sent", "waiting", "answered"}
        /\ chain' = [chain EXCEPT ![k] = "broken"] /\ answer' = [answer EXCEPT ![k] = <<>>]
        /\ listener' = (IF listener = k THEN Ghost ELSE listener) /\ wire' = Without(wire, k)
        /\ UNCHANGED <<queue, known, listening, starts, asked, tasks, started, crossed>>
    BY <1>15 DEF Break, cacheVars, windowVars
  <2>2. Distinct(wire') /\ \A n : In(wire', n) <=> In(wire, n) /\ n # k
    BY <1>a, <1>c, <2>1, WithoutFacts, InDrops, DistinctDrops DEF Requests
  <2>3. starts # 0
    BY <1>b, <1>c, <2>1 DEF Numbers
  <2>4. Numbers'
    BY <1>a, <1>c, <2>1, <2>3 DEF Numbers
  <2>5. Requests'
    BY <1>a, <1>b, <1>c, <2>1, <2>2 DEF Requests
  <2>6. Scheduled'
    BY <1>a, <1>c, <2>1 DEF Scheduled
  <2>7. Own'
    BY <1>a, <1>c, <2>1 DEF Own, Goes
  <2> QED
    BY <2>4, <2>5, <2>6, <2>7 DEF Listens
<1>16. ASSUME NEW l \in Load, NEW p \in Part, GetFails(l, p) PROVE Listens'
  BY <1>16, <1>e DEF GetFails, listenVars, windowVars, cacheVars
<1>17. CASE Expire
  BY <1>c, <1>17 DEF Expire, Listens, Numbers, Requests, Scheduled, Own, Goes, listenVars, cacheVars, windowVars
<1>18. CASE Deactivate
  BY <1>c, <1>18 DEF Deactivate, Listens, Numbers, Requests, Scheduled, Own, Goes, serverVars, cacheVars
<1>19. CASE Activate
  <2>1. CASE started
    BY <1>19, <2>1, StartNumbers DEF Activate, serverVars
  <2>2. CASE ~started
    BY <1>19, <1>e, <2>2 DEF Activate
  <2> QED
    BY <2>1, <2>2
<1>20. ASSUME NEW i \in Item, Change(i) PROVE Listens'
  <2>1. /\ UNCHANGED <<known, listener, listening, starts, chain, asked, answer, wire, tasks, started, crossed>>
        /\ known' = FALSE => queue' = queue
    BY <1>20 DEF Change, Push, listenVars, windowVars
  <2> QED
    BY <1>c, <2>1 DEF Listens, Numbers, Requests, Scheduled, Own, Goes
<1>21. ASSUME NEW i \in Item, FullUpdate(i) PROVE Listens'
  <2>1. /\ UNCHANGED <<known, listener, listening, starts, chain, asked, answer, wire, tasks, started, crossed>>
        /\ known' = FALSE => queue' = queue
    BY <1>21 DEF FullUpdate, Push, listenVars, windowVars
  <2> QED
    BY <1>c, <2>1 DEF Listens, Numbers, Requests, Scheduled, Own, Goes
<1>22. CASE UNCHANGED vars
  BY <1>22, <1>e DEF vars, listenVars, windowVars, cacheVars
<1> QED
  BY <1>1, <1>2, <1>3, <1>4, <1>5, <1>6, <1>7, <1>8, <1>9, <1>10, <1>11, <1>12, <1>13, <1>14,
     <1>15, <1>16, <1>17, <1>18, <1>19, <1>20, <1>21, <1>22
  DEF Next, ClientStep, NetworkStep, Trouble, World

\* Chain k will ask at the present listening time, or has.
Holds(k) == chain[k] \in {"task", "timer"} \/ (Goes(k) /\ asked[k] = listening)

LEMMA GoesOnStep ==
  ASSUME Types, Listens, ListeningGoesOn, [Next]_vars
  PROVE  ListeningGoesOn'
<1>a. /\ chain \in [Chain -> ChainStates] /\ asked \in [Chain -> Chain \cup {0}]
      /\ tasks \in Seq(TaskType) /\ wire \in Seq(Chain)
      /\ \A k \in Chain : chain[k] = "sent" <=> In(wire, k)
      /\ \A k \in Chain : chain[k] = "waiting" <=> listener = k
  BY DEF Types, ListenTypes, Listens, Requests
<1> SUFFICES ASSUME listening' # 0 PROVE \E k \in Chain : Holds(k)'
  BY DEF ListeningGoesOn, Holds
<1>b. listening # 0 => \E k \in Chain : Holds(k)
  BY DEF ListeningGoesOn, Holds
\* Where the chains stay as they are, or one that holds goes on to hold.
<1>c. ASSUME UNCHANGED <<listening, chain, asked>> PROVE \E k \in Chain : Holds(k)'
  BY <1>b, <1>c DEF Holds, Goes
<1>d. ASSUME NEW k \in Chain, Wait(k), listening' = listening PROVE \E n \in Chain : Holds(n)'
  <2>1. chain'[k] = "sent" /\ asked'[k] = listening'
    BY <1>a, <1>d DEF Wait
  <2> QED
    BY <2>1 DEF Holds, Goes
<1>e. ASSUME StartListening PROVE \E n \in Chain : Holds(n)'
  <2>1. starts + 1 \in Chain /\ chain'[starts + 1] = "sent" /\ asked'[starts + 1] = listening'
    BY <1>a, <1>e DEF StartListening, Wait
  <2> QED
    BY <2>1 DEF Holds, Goes
<1>1. CASE WaitTask
  <2>1. Head(tasks).of \in Chain
    BY <1>1, HeadTask, TaskKinds DEF Types, WaitTask
  <2> QED
    BY <1>1, <1>d, <2>1 DEF WaitTask
<1>2. CASE SyncErrorTask \/ SyncTask
  BY <1>2, <1>c DEF SyncErrorTask, SyncTask, listenVars
<1>3. CASE BulkTask
  BY <1>3, <1>c, <1>e DEF BulkTask
<1>4. CASE AccessGranted
  BY <1>4, <1>c DEF AccessGranted, listenVars
<1>5. CASE Start
  BY <1>5, <1>e DEF Start
<1>6. ASSUME NEW k \in Chain, Receive(k) PROVE \E n \in Chain : Holds(n)'
  <2>1. chain[k] = "answered" /\ listening' = listening
    BY <1>6 DEF Receive
  <2>2. CASE asked[k] = listening
    <3>1. chain'[k] = "task"
      BY <1>a, <1>6, <2>2 DEF Receive
    <3> QED
      BY <3>1 DEF Holds
  <2>3. CASE asked[k] # listening
    <3>1. PICK n \in Chain : Holds(n)
      BY <1>b, <2>1
    <3>2. n # k
      BY <2>1, <2>3, <3>1 DEF Holds
    <3>3. chain'[n] = chain[n] /\ asked'[n] = asked[n]
      BY <1>a, <1>6, <2>3, <3>2 DEF Receive
    <3> QED
      BY <2>1, <3>1, <3>3 DEF Holds, Goes
  <2> QED
    BY <2>2, <2>3
<1>7. ASSUME NEW k \in Chain, Error(k) PROVE \E n \in Chain : Holds(n)'
  <2>1. chain[k] = "broken" /\ listening' = listening
    BY <1>7 DEF Error
  <2>2. CASE asked[k] = listening
    <3>1. chain'[k] = "timer"
      BY <1>a, <1>7, <2>2 DEF Error
    <3> QED
      BY <3>1 DEF Holds
  <2>3. CASE asked[k] # listening
    <3>1. PICK n \in Chain : Holds(n)
      BY <1>b, <2>1
    <3>2. n # k
      BY <2>1, <2>3, <3>1 DEF Holds
    <3>3. chain'[n] = chain[n] /\ asked'[n] = asked[n]
      BY <1>a, <1>7, <2>3, <3>2 DEF Error
    <3> QED
      BY <2>1, <3>1, <3>3 DEF Holds, Goes
  <2> QED
    BY <2>2, <2>3
<1>8. ASSUME NEW k \in Chain, TimerFires(k) PROVE \E n \in Chain : Holds(n)'
  BY <1>8, <1>d DEF TimerFires
<1>9. ASSUME NEW l \in Load, RetryLoad(l) PROVE \E n \in Chain : Holds(n)'
  BY <1>9, <1>c DEF RetryLoad, listenVars
<1>10. ASSUME NEW l \in Load, NEW p \in Part, GetAnswered(l, p) \/ ServeGet(l, p) \/ GetFails(l, p)
       PROVE  \E n \in Chain : Holds(n)'
  BY <1>10, <1>c DEF GetAnswered, ServeGet, GetFails, listenVars
\* The chains whose requests are answered, broken or waiting go on asking as they did.
<1>f. ASSUME UNCHANGED <<listening, asked>>,
             \A n \in Chain : chain'[n] = chain[n]
                \/ (chain[n] \notin {"task", "timer"} /\ (Goes(n) => Goes(n)'))
      PROVE  \E k \in Chain : Holds(k)'
  <2>1. PICK n \in Chain : Holds(n)
    BY <1>b, <1>f
  <2> QED
    BY <1>f, <2>1 DEF Holds, Goes
<1>11. CASE Arrives
  <2>1. Head(wire) \in Chain /\ chain[Head(wire)] = "sent"
    BY <1>a, <1>11, HeadTailProperties, InType DEF Arrives
  <2>2. \A n \in Chain : chain'[n] = chain[n]
           \/ (chain[n] \in {"sent", "waiting"} /\ chain'[n] \in {"waiting", "answered"})
    <3> DEFINE k == Head(wire)
    <3>1. CASE listener \in Chain /\ chain' = [chain EXCEPT ![k] = "waiting", ![listener] = "answered"]
      BY <1>a, <2>1, <3>1
    <3>2. CASE chain' = [chain EXCEPT ![k] = "waiting"] \/ chain' = [chain EXCEPT ![k] = "answered"]
      BY <1>a, <2>1, <3>2
    <3> QED
      BY <1>11, <3>1, <3>2 DEF Arrives
  <2> QED
    BY <1>11, <1>f, <2>2 DEF Arrives, Goes
<1>12. CASE Respond
  <2>1. listener \in Chain \cup {None, Ghost}
    BY DEF Types, ServerTypes
  <2>2. \A n \in Chain : chain'[n] = chain[n] \/ (chain[n] = "waiting" /\ chain'[n] = "answered")
    BY <1>a, <1>12, <2>1 DEF Respond
  <2> QED
    BY <1>12, <1>f, <2>2 DEF Respond, Goes
<1>13. ASSUME NEW k \in Chain, Break(k) PROVE \E n \in Chain : Holds(n)'
  <2>1. \A n \in Chain : chain'[n] = chain[n]
           \/ (chain[n] \in {"sent", "waiting", "answered"} /\ chain'[n] = "broken")
    BY <1>a, <1>13 DEF Break
  <2> QED
    BY <1>13, <1>f, <2>1 DEF Break, Goes
<1>14. CASE Expire
  BY <1>14, <1>c DEF Expire, listenVars
<1>15. CASE Deactivate
  BY <1>15 DEF Deactivate
<1>16. CASE Activate
  BY <1>16, <1>c, <1>e DEF Activate
<1>17. ASSUME NEW i \in Item, Change(i) \/ FullUpdate(i) PROVE \E n \in Chain : Holds(n)'
  BY <1>17, <1>c DEF Change, FullUpdate, listenVars
<1>18. CASE UNCHANGED vars
  BY <1>18, <1>c DEF vars, listenVars
<1> QED
  BY <1>1, <1>2, <1>3, <1>4, <1>5, <1>6, <1>7, <1>8, <1>9, <1>10, <1>11, <1>12, <1>13, <1>14,
     <1>15, <1>16, <1>17, <1>18
  DEF Next, ClientStep, NetworkStep, Trouble, World

THEOREM ListeningCorrect == Spec => []ListeningGoesOn
<1> DEFINE I == Types /\ Listens /\ Begun /\ ListeningGoesOn
<1>1. Init => I
  <2> SUFFICES ASSUME Init PROVE Begun /\ ListeningGoesOn
    BY InitTypes, InitListens
  <2> QED
    BY DEF Init, Begun, ListeningGoesOn, In
<1>2. I /\ [Next]_vars => I'
  BY TypesStep, ListensStep, BegunStep, GoesOnStep
<1>3. I => ListeningGoesOn
  OBVIOUS
<1> QED
  BY <1>1, <1>2, <1>3, PTL DEF Spec

(* --------------------- the session and what is to come ------------------- *)

\* The events that are still to be received.
Coming == (IF listening # 0 THEN answer[listening] ELSE <<>>) \o queue

\* s is the end of the history l.
EndsIn(l, s) == Len(s) <= Len(l) /\ \A j \in 1..Len(s) : s[j] = l[Len(l) - Len(s) + j]

\* Something scheduled at one listening time is about to run at another.
Stale ==
    \/ \E k \in Chain : chain[k] \in {"task", "timer"} /\ asked[k] # listening
    \/ \E k \in Chain : k # listening /\ In(tasks, Task("sync", k))
Steady == ~crossed /\ ~Stale

\* When the next request of the chain is answered, everything is loaded.
NextLoads == LoadsNext(tasks, reloadNeeded \/ failed)
Unsure == chain[listening] = "broken" \/ (chain[listening] \in {"timer", "sent"} /\ NextLoads)

\* No request but the chain's own is on the way or waits at the server.
Pure == (\A k \in Chain : In(wire, k) => k = listening) /\ listener \in {listening, None}
First == listening = 1 /\ starts = 1 /\ wire = <<1>>

\* What is to come is the end of the history, unless the client will load: when another
\* request could be given the events, or when there is no session to keep them.
Session ==
    /\ EndsIn(log, Coming)
    /\ listening # 0 =>
          /\ Goes(listening) /\ LastOf(wire, listening)
          /\ chain[listening] = "timer" => NextLoads
          /\ ~Pure => Unsure
          /\ ~known => Unsure \/ First

LEMMA EndsFacts ==
  ASSUME NEW l \in Seq(EventType), NEW s \in Seq(EventType), NEW t \in Seq(EventType)
  PROVE  /\ EndsIn(l, <<>>)
         /\ EndsIn(l, s \o t) => EndsIn(l, t)
         /\ \A e \in EventType : EndsIn(l, s) => EndsIn(Append(l, e), Append(s, e))
         /\ <<>> \o t = t /\ t \o <<>> = t
         /\ \A e \in EventType : s \o Append(t, e) = Append(s \o t, e)
<1>1. Len(l) \in Nat /\ Len(s) \in Nat /\ Len(t) \in Nat
  BY LenProperties
<1>2. /\ s \o t \in Seq(EventType) /\ Len(s \o t) = Len(s) + Len(t)
      /\ \A j \in 1..Len(s) + Len(t) :
            (s \o t)[j] = IF j <= Len(s) THEN s[j] ELSE t[j - Len(s)]
  BY ConcatProperties
<1>3. EndsIn(l, <<>>)
  BY <1>1 DEF EndsIn
<1>4. ASSUME EndsIn(l, s \o t) PROVE EndsIn(l, t)
  <2>1. Len(t) <= Len(l)
    BY <1>1, <1>2, <1>4 DEF EndsIn
  <2>2. ASSUME NEW j \in 1..Len(t) PROVE t[j] = l[Len(l) - Len(t) + j]
    <3>1. /\ Len(s) + j \in 1..Len(s) + Len(t) /\ ~(Len(s) + j <= Len(s))
          /\ Len(s) + j - Len(s) = j
          /\ Len(l) - (Len(s) + Len(t)) + (Len(s) + j) = Len(l) - Len(t) + j
      BY <1>1
    <3>2. (s \o t)[Len(s) + j] = t[j]
      BY <1>2, <3>1
    <3>3. (s \o t)[Len(s) + j] = l[Len(l) - Len(t) + j]
      BY <1>2, <1>4, <3>1 DEF EndsIn
    <3> QED
      BY <3>2, <3>3
  <2> QED
    BY <2>1, <2>2 DEF EndsIn
<1>5. ASSUME NEW e \in EventType, EndsIn(l, s) PROVE EndsIn(Append(l, e), Append(s, e))
  <2>1. /\ Len(Append(l, e)) = Len(l) + 1 /\ Append(l, e)[Len(l) + 1] = e
        /\ \A j \in 1..Len(l) : Append(l, e)[j] = l[j]
        /\ Len(Append(s, e)) = Len(s) + 1 /\ Append(s, e)[Len(s) + 1] = e
        /\ \A j \in 1..Len(s) : Append(s, e)[j] = s[j]
    BY AppendProperties
  <2>2. ASSUME NEW j \in 1..Len(s) + 1
        PROVE  Append(s, e)[j] = Append(l, e)[Len(l) + 1 - (Len(s) + 1) + j]
    <3>0. Len(s) <= Len(l) /\ Len(l) + 1 - (Len(s) + 1) + j = Len(l) - Len(s) + j
      BY <1>1, <1>5 DEF EndsIn
    <3>1. CASE j = Len(s) + 1
      <4>1. Len(l) - Len(s) + j = Len(l) + 1
        BY <1>1, <3>1
      <4> QED
        BY <2>1, <3>0, <3>1, <4>1
    <3>2. CASE j # Len(s) + 1
      <4>1. j \in 1..Len(s) /\ Len(l) - Len(s) + j \in 1..Len(l)
        BY <1>1, <3>0, <3>2
      <4>2. s[j] = l[Len(l) - Len(s) + j]
        BY <1>5, <4>1 DEF EndsIn
      <4> QED
        BY <2>1, <3>0, <4>1, <4>2
    <3> QED
      BY <3>1, <3>2
  <2>3. Len(s) + 1 <= Len(l) + 1
    BY <1>1, <1>5 DEF EndsIn
  <2> QED
    BY <2>1, <2>2, <2>3 DEF EndsIn
<1>6. <<>> \o t = t /\ t \o <<>> = t
  BY ConcatEmptySeq
<1>7. ASSUME NEW e \in EventType PROVE s \o Append(t, e) = Append(s \o t, e)
  <2> DEFINE u == Append(t, e)
             v == s \o t
             w == Append(v, e)
             z == s \o u
  <2>1. /\ u \in Seq(EventType) /\ Len(u) = Len(t) + 1 /\ u[Len(t) + 1] = e
        /\ \A j \in 1..Len(t) : u[j] = t[j]
    BY AppendProperties
  <2> HIDE DEF u, v
  <2>2. /\ z \in Seq(EventType) /\ Len(z) = Len(s) + Len(u)
        /\ \A j \in 1..Len(s) + Len(u) : z[j] = IF j <= Len(s) THEN s[j] ELSE u[j - Len(s)]
    BY <2>1, ConcatProperties
  <2>3. /\ w \in Seq(EventType) /\ Len(w) = Len(v) + 1 /\ w[Len(v) + 1] = e
        /\ \A j \in 1..Len(v) : w[j] = v[j]
    BY <1>2, AppendProperties DEF v
  <2> HIDE DEF w, z
  <2>4. Len(v) = Len(s) + Len(t) /\ Len(w) = Len(s) + Len(t) + 1 /\ Len(z) = Len(s) + Len(t) + 1
    BY <1>1, <1>2, <2>1, <2>2, <2>3 DEF v
  <2>5. ASSUME NEW j \in 1..Len(z) PROVE z[j] = w[j]
    <3>1. CASE j <= Len(s)
      <4>1. z[j] = s[j] /\ j \in 1..Len(v)
        BY <1>1, <2>1, <2>2, <2>4, <3>1
      <4>2. v[j] = s[j]
        BY <1>1, <1>2, <2>4, <3>1, <4>1 DEF v
      <4> QED
        BY <2>3, <4>1, <4>2
    <3>2. CASE ~(j <= Len(s)) /\ j <= Len(s) + Len(t)
      <4>0. j - Len(s) \in 1..Len(t) /\ j \in 1..Len(v) /\ j \in 1..Len(s) + Len(u)
        BY <1>1, <2>1, <2>2, <2>4, <3>2
      <4>1. z[j] = u[j - Len(s)] /\ u[j - Len(s)] = t[j - Len(s)]
        BY <2>1, <2>2, <3>2, <4>0
      <4>2. v[j] = t[j - Len(s)]
        BY <1>1, <1>2, <2>4, <3>2, <4>0 DEF v
      <4> QED
        BY <2>3, <4>0, <4>1, <4>2
    <3>3. CASE j = Len(s) + Len(t) + 1
      <4>1. ~(j <= Len(s)) /\ j - Len(s) = Len(t) + 1 /\ j \in 1..Len(s) + Len(u)
        BY <1>1, <2>1, <3>3
      <4>2. z[j] = e
        BY <2>1, <2>2, <4>1
      <4> QED
        BY <2>3, <2>4, <3>3, <4>2
    <3> QED
      BY <1>1, <2>4, <3>1, <3>2, <3>3
  <2>6. z = w
    BY <2>2, <2>3, <2>4, <2>5, SeqEqual
  <2> QED
    BY <2>6 DEF u, v, w, z
<1> QED
  BY <1>3, <1>4, <1>5, <1>6, <1>7

\* While nothing crosses over, all that is scheduled is at the present listening time.
LEMMA SteadyFacts ==
  ASSUME Types, Listens, Steady
  PROVE  /\ \A k \in Chain : Goes(k) => asked[k] = k
         /\ \A k \in Chain : chain[k] \in {"task", "timer"} => k = listening
         /\ \A k \in Chain : In(tasks, Task("sync", k)) => k = listening
         /\ ~In(tasks, Task("sync", 0))
BY DEF Listens, Own, Steady, Stale, Goes

\* What is about to cross over does.
LEMMA SteadyBack ==
  ASSUME Types, Listens, Begun, [Next]_vars, Steady'
  PROVE  Steady
<1>a. /\ chain \in [Chain -> ChainStates] /\ asked \in [Chain -> Chain \cup {0}]
      /\ tasks \in Seq(TaskType) /\ wire \in Seq(Chain)
      /\ Numbers /\ Requests /\ Scheduled /\ Own
      /\ starts \in Nat /\ \A k \in Chain : k \in Nat /\ k # 0
  BY Bounds DEF Types, ListenTypes, Listens
<1>b. ~crossed' /\ ~Stale'
  BY DEF Steady
<1>c. ASSUME crossed => crossed',
             listening' \in {listening, 0, starts + 1},
             \A k \in Chain : chain[k] \in {"task", "timer"} /\ asked[k] # listening =>
                chain'[k] = chain[k] /\ asked'[k] = asked[k],
             \A k \in Chain : k # listening /\ In(tasks, Task("sync", k)) => In(tasks', Task("sync", k))
      PROVE  Steady
  <2>1. ~crossed /\ \A k \in Chain : Goes(k) => asked[k] = k
    BY <1>a, <1>b, <1>c DEF Own
  <2>2. ASSUME NEW k \in Chain, chain[k] \in {"task", "timer"}, asked[k] # listening PROVE FALSE
    <3>1. asked[k] = k /\ k <= starts
      BY <1>a, <2>1, <2>2 DEF Goes, Numbers
    <3>2. k # listening'
      BY <1>a, <1>c, <2>2, <3>1
    <3> QED
      BY <1>b, <1>c, <2>2, <3>1, <3>2 DEF Stale
  <2>3. ASSUME NEW k \in Chain, k # listening, In(tasks, Task("sync", k)) PROVE FALSE
    <3>1. k <= starts
      BY <1>a, <2>3 DEF Scheduled
    <3>2. k # listening'
      BY <1>a, <1>c, <2>3, <3>1
    <3> QED
      BY <1>b, <1>c, <2>3, <3>2 DEF Stale
  <2> QED
    BY <2>1, <2>2, <2>3 DEF Steady, Stale
<1>e. \A k \in Chain : Task("sync", k) # SyncError /\ Task("sync", k) # Bulk
  BY TaskFacts
<1>f. ASSUME tasks # <<>>, tasks' = Tail(tasks)
      PROVE  \A t : t # Head(tasks) => (In(tasks, t) => In(tasks', t))
  BY <1>a, <1>f, InTail
<1>1. CASE WaitTask
  <2> DEFINE k == Head(tasks).of
  <2>1. k \in Chain /\ Head(tasks) = Task("wait", k)
    BY <1>1, HeadTask, TaskKinds DEF Types, WaitTask
  <2> HIDE DEF k
  <2>2. /\ chain' = [chain EXCEPT ![k] = "sent"] /\ asked' = [asked EXCEPT ![k] = listening']
        /\ listening' = listening /\ crossed' = (crossed \/ asked[k] # listening)
    BY <1>1 DEF WaitTask, Wait, k
  <2>3. \A n \in Chain : In(tasks, Task("sync", n)) => In(tasks', Task("sync", n))
    BY <1>1, <1>f, <2>1, TaskFacts DEF WaitTask
  <2>4. asked[k] = listening
    BY <1>b, <2>2
  <2>5. \A n \in Chain : asked[n] # listening => chain'[n] = chain[n] /\ asked'[n] = asked[n]
    BY <1>a, <2>1, <2>2, <2>4
  <2> QED
    BY <1>c, <2>2, <2>3, <2>5
<1>2. CASE SyncErrorTask
  BY <1>2, <1>c, <1>e, <1>f DEF SyncErrorTask, listenVars
<1>3. CASE SyncTask
  <2>1. crossed' = (crossed \/ Head(tasks) # Sync) /\ tasks # <<>> /\ tasks' = Tail(tasks)
        /\ UNCHANGED <<listening, chain, asked>>
    BY <1>3 DEF SyncTask, listenVars
  <2>2. Head(tasks) = Task("sync", listening)
    BY <1>b, <2>1, TaskFacts
  <2>3. \A n \in Chain : n # listening => Task("sync", n) # Head(tasks)
    BY <2>2, TaskFacts
  <2> QED
    BY <1>c, <1>f, <2>1, <2>3
<1>4. CASE BulkTask
  <2>1. \A n \in Chain : In(tasks, Task("sync", n)) => In(tasks', Task("sync", n))
    BY <1>4, <1>e, <1>f DEF BulkTask
  <2>2. CASE StartListening
    <3>1. /\ starts + 1 \in Chain /\ listening' = starts + 1 /\ chain[starts + 1] = "none"
          /\ chain' = [chain EXCEPT ![starts + 1] = "sent"]
          /\ asked' = [asked EXCEPT ![starts + 1] = starts + 1]
      BY <1>4, <2>2, StartRequests DEF BulkTask, serverVars
    <3>2. \A n \in Chain : chain[n] # "none" => chain'[n] = chain[n] /\ asked'[n] = asked[n]
      BY <1>a, <3>1
    <3>3. crossed' = crossed
      BY <1>4 DEF BulkTask
    <3> QED
      BY <1>c, <2>1, <3>1, <3>2, <3>3
  <2>3. CASE UNCHANGED <<listening, chain, asked>>
    BY <1>4, <1>c, <2>1, <2>3 DEF BulkTask
  <2> QED
    BY <1>4, <2>2, <2>3 DEF BulkTask
<1>5. CASE AccessGranted
  BY <1>5, <1>c DEF AccessGranted, listenVars
<1>6. CASE Start
  <2>1. /\ starts + 1 \in Chain /\ listening' = starts + 1 /\ chain[starts + 1] = "none"
        /\ chain' = [chain EXCEPT ![starts + 1] = "sent"]
        /\ asked' = [asked EXCEPT ![starts + 1] = starts + 1]
    BY <1>6, StartRequests DEF Start, serverVars
  <2>2. \A n \in Chain : chain[n] # "none" => chain'[n] = chain[n] /\ asked'[n] = asked[n]
    BY <1>a, <2>1
  <2> QED
    BY <1>6, <1>c, <2>1, <2>2 DEF Start, cacheVars
<1>7. ASSUME NEW k \in Chain, Receive(k) PROVE Steady
  <2>1. /\ chain[k] = "answered" /\ listening' = listening /\ crossed' = crossed
        /\ \A n \in Chain : n # k => chain'[n] = chain[n] /\ asked'[n] = asked[n]
    BY <1>a, <1>7 DEF Receive
  <2>2. \A t : t # Bulk => (In(tasks, t) => In(tasks', t))
    <3>1. CASE asked[k] = listening
      <4> DEFINE s == <<Task("wait", k), Sync>>
                 ts == tasks \o s
      <4>1. s \in Seq(TaskType)
        <5>1. Task("wait", k) \in TaskType /\ Sync \in TaskType
          BY TaskFacts DEF Types, ListenTypes
        <5> QED
          BY <5>1
      <4> HIDE DEF s
      <4>2. ts \in Seq(TaskType) /\ \A t : In(tasks, t) => In(ts, t)
        BY <1>a, <4>1, ConcatProperties, InConcat
      <4>3. Gather(answer[k], ready, ts)
        BY <1>7, <3>1 DEF Receive, s
      <4> HIDE DEF ts
      <4> QED
        BY <4>2, <4>3, GatherTasks
    <3>2. CASE asked[k] # listening
      BY <1>7, <3>2 DEF Receive
    <3> QED
      BY <3>1, <3>2
  <2> QED
    BY <1>c, <1>e, <2>1, <2>2
<1>8. ASSUME NEW k \in Chain, Error(k) PROVE Steady
  <2>1. /\ chain[k] = "broken" /\ listening' = listening /\ crossed' = crossed
        /\ \A n \in Chain : n # k => chain'[n] = chain[n] /\ asked'[n] = asked[n]
    BY <1>a, <1>8 DEF Error, cacheVars
  <2>2. \A t : In(tasks, t) => In(tasks', t)
    <3>1. CASE asked[k] = listening
      <4>1. tasks' = Append(tasks, SyncError) /\ SyncError \in TaskType
        BY <1>8, <3>1, TaskFacts DEF Error
      <4> QED
        BY <1>a, <4>1, InAppend
    <3>2. CASE asked[k] # listening
      BY <1>8, <3>2 DEF Error
    <3> QED
      BY <3>1, <3>2
  <2> QED
    BY <1>c, <2>1, <2>2
<1>9. ASSUME NEW k \in Chain, TimerFires(k) PROVE Steady
  <2>1. /\ chain' = [chain EXCEPT ![k] = "sent"] /\ asked' = [asked EXCEPT ![k] = listening']
        /\ listening' = listening /\ crossed' = (crossed \/ asked[k] # listening) /\ tasks' = tasks
    BY <1>9 DEF TimerFires, Wait
  <2>2. asked[k] = listening
    BY <1>b, <2>1
  <2>3. \A n \in Chain : asked[n] # listening => chain'[n] = chain[n] /\ asked'[n] = asked[n]
    BY <1>a, <2>1, <2>2
  <2> QED
    BY <1>c, <2>1, <2>3
<1>10. ASSUME NEW l \in Load, RetryLoad(l) PROVE Steady
  BY <1>10, <1>c DEF RetryLoad, listenVars
<1>11. ASSUME NEW l \in Load, NEW p \in Part, GetAnswered(l, p) PROVE Steady
  <2>1. \A t : t # Bulk => (In(tasks, t) => In(tasks', t))
    <3>1. CASE p \in loaded
      <4>1. Gather(FakeEvents(p, got[l][p]), ready, tasks)
        BY <1>11, <3>1 DEF GetAnswered
      <4> QED
        BY <1>a, <4>1, GatherTasks
    <3>2. CASE p \notin loaded
      BY <1>11, <3>2 DEF GetAnswered
    <3> QED
      BY <3>1, <3>2
  <2> QED
    BY <1>11, <1>c, <1>e, <2>1 DEF GetAnswered, listenVars
<1>12. ASSUME NEW l \in Load, NEW p \in Part, ServeGet(l, p) \/ GetFails(l, p) PROVE Steady
  BY <1>12, <1>c DEF ServeGet, GetFails, listenVars, cacheVars
<1>13. CASE Arrives
  <2>1. Head(wire) \in Chain /\ chain[Head(wire)] = "sent"
    BY <1>a, <1>13, HeadTailProperties, InType DEF Arrives, Requests
  <2>2. \A n \in Chain : chain[n] \in {"task", "timer"} => chain'[n] = chain[n]
    <3> DEFINE k == Head(wire)
    <3>1. CASE listener \in Chain /\ chain' = [chain EXCEPT ![k] = "waiting", ![listener] = "answered"]
      BY <1>a, <2>1, <3>1 DEF Requests
    <3>2. CASE chain' = [chain EXCEPT ![k] = "waiting"] \/ chain' = [chain EXCEPT ![k] = "answered"]
      BY <1>a, <2>1, <3>2
    <3> QED
      BY <1>13, <3>1, <3>2 DEF Arrives
  <2> QED
    BY <1>13, <1>c, <2>2 DEF Arrives, cacheVars
<1>14. CASE Respond
  <2>1. listener \in Chain \cup {None, Ghost}
    BY DEF Types, ServerTypes
  <2>2. \A n \in Chain : chain[n] \in {"task", "timer"} => chain'[n] = chain[n]
    BY <1>a, <1>14, <2>1 DEF Respond, Requests
  <2> QED
    BY <1>14, <1>c, <2>2 DEF Respond, cacheVars
<1>15. ASSUME NEW k \in Chain, Break(k) PROVE Steady
  <2>1. \A n \in Chain : chain[n] \in {"task", "timer"} => chain'[n] = chain[n]
    BY <1>a, <1>15 DEF Break
  <2> QED
    BY <1>15, <1>c, <2>1 DEF Break, cacheVars
<1>16. CASE Expire
  BY <1>16, <1>c DEF Expire, listenVars, cacheVars
<1>17. CASE Deactivate
  BY <1>17, <1>c DEF Deactivate, cacheVars
<1>18. CASE Activate
  <2>1. CASE StartListening
    <3>1. /\ starts + 1 \in Chain /\ listening' = starts + 1 /\ chain[starts + 1] = "none"
          /\ chain' = [chain EXCEPT ![starts + 1] = "sent"]
          /\ asked' = [asked EXCEPT ![starts + 1] = starts + 1]
      BY <1>18, <2>1, StartRequests DEF Activate, serverVars
    <3>2. \A n \in Chain : chain[n] # "none" => chain'[n] = chain[n] /\ asked'[n] = asked[n]
      BY <1>a, <3>1
    <3>3. crossed' = crossed /\ tasks' = tasks
      BY <1>18 DEF Activate
    <3> QED
      BY <1>c, <3>1, <3>2, <3>3
  <2>2. CASE UNCHANGED <<listening, chain, asked>>
    BY <1>18, <1>c, <2>2 DEF Activate
  <2> QED
    BY <1>18, <2>1, <2>2 DEF Activate
<1>19. ASSUME NEW i \in Item, Change(i) \/ FullUpdate(i) PROVE Steady
  BY <1>19, <1>c DEF Change, FullUpdate, Push, listenVars
<1>20. CASE UNCHANGED vars
  BY <1>20, <1>c DEF vars, listenVars, cacheVars
<1> QED
  BY <1>1, <1>2, <1>3, <1>4, <1>5, <1>6, <1>7, <1>8, <1>9, <1>10, <1>11, <1>12, <1>13, <1>14,
     <1>15, <1>16, <1>17, <1>18, <1>19, <1>20
  DEF Next, ClientStep, NetworkStep, Trouble, World


LEMMA LoadsAlike ==
  ASSUME NEW ts, NEW is, NEW js, is => js, LoadsNext(ts, is)
  PROVE  LoadsNext(ts, js)
BY DEF LoadsNext

LEMMA ComingType ==
  ASSUME Types
  PROVE  /\ Coming \in Seq(EventType)
         /\ Coming = (IF listening # 0 THEN answer[listening] ELSE <<>>) \o queue
         /\ queue \in Seq(EventType)
         /\ (IF listening # 0 THEN answer[listening] ELSE <<>>) \in Seq(EventType)
<1>1. queue \in Seq(EventType) /\ (IF listening # 0 THEN answer[listening] ELSE <<>>) \in Seq(EventType)
  BY DEF Types, ServerTypes, ListenTypes
<1> QED
  BY <1>1, ConcatProperties DEF Coming

LEMMA QueueEnds ==
  ASSUME Types, Session
  PROVE  EndsIn(log, queue) /\ EndsIn(log, <<>>)
<1> DEFINE s == IF listening # 0 THEN answer[listening] ELSE <<>>
<1>1. log \in Seq(EventType) /\ s \in Seq(EventType) /\ queue \in Seq(EventType)
      /\ EndsIn(log, s \o queue)
  BY ComingType DEF Types, ServerTypes, Session
<1> HIDE DEF s
<1> QED
  BY <1>1, EndsFacts

\* A step that leaves the session and the chain listened to alone.
LEMMA SessionKept ==
  ASSUME Session, UNCHANGED <<log, queue, listening, starts, known, wire, listener>>,
         listening # 0 => chain'[listening] = chain[listening] /\ answer'[listening] = answer[listening],
         NextLoads => NextLoads'
  PROVE  Session'
<1>1. Coming' = Coming
  BY DEF Coming
<1>2. CASE listening = 0
  BY <1>1, <1>2 DEF Session
<1>3. CASE listening # 0
  <2>1. /\ Unsure => Unsure'
        /\ Pure' <=> Pure
        /\ First' <=> First
        /\ Goes(listening)' <=> Goes(listening)
    BY <1>3 DEF Unsure, Pure, First, Goes
  <2> QED
    BY <1>1, <1>3, <2>1 DEF Session
<1> QED
  BY <1>2, <1>3

\* The request is sent: if nothing else is on the way, or everything will be loaded.
LEMMA WaitSession ==
  ASSUME Types, Listens, Session, NEW k \in Chain, k = listening,
         listening' = listening, UNCHANGED <<log, queue, answer, starts, known, listener>>,
         chain' = [chain EXCEPT ![k] = "sent"], wire' = Append(wire, k), ~In(wire, k),
         \/ chain[k] = "task"
         \/ chain[k] = "timer" /\ (NextLoads => NextLoads')
  PROVE  Session'
<1>1. /\ chain \in [Chain -> ChainStates] /\ wire \in Seq(Chain) /\ listening # 0
      /\ Requests
  BY Bounds DEF Types, ListenTypes, Listens
<1>2. Coming' = Coming
  BY DEF Coming
<1>3. chain'[listening] = "sent" /\ LastOf(wire', listening)
  BY <1>1, LastAppend
<1>4. (~Pure => Unsure) /\ (~known => Unsure \/ First) /\ (chain[listening] = "timer" => NextLoads)
      /\ EndsIn(log, Coming)
  BY <1>1 DEF Session
<1>5. CASE chain[k] = "task"
  <2>1. Pure /\ known
    <3>1. ~Unsure
      BY <1>5 DEF Unsure
    <3>2. ~First
      <4>1. ASSUME First PROVE FALSE
        <5>1. In(wire, 1) /\ listening = 1
          BY <4>1 DEF First, In
        <5> QED
          BY <1>5, <5>1, <1>1, Bounds DEF Requests
      <4> QED
        BY <4>1
    <3> QED
      BY <1>4, <3>1, <3>2
  <2>2. Pure'
    <3>1. \A n \in Chain : In(wire', n) => In(wire, n) \/ n = k
      BY <1>1, InAppend
    <3> QED
      BY <2>1, <3>1 DEF Pure
  <2> QED
    BY <1>2, <1>3, <1>4, <2>1, <2>2 DEF Session, Goes
<1>6. CASE chain[k] = "timer" /\ (NextLoads => NextLoads')
  <2>1. Unsure'
    BY <1>3, <1>4, <1>6 DEF Unsure
  <2> QED
    BY <1>2, <1>3, <1>4, <2>1 DEF Session, Goes
<1> QED
  BY <1>5, <1>6

\* Listening starts anew, and everything will be loaded.
LEMMA StartSession ==
  ASSUME Types, Listens, Session, StartListening, Steady', Types', Listens',
         UNCHANGED <<log, queue, answer, known, listener>>, reloadNeeded',
         \A t : In(tasks', t) => In(tasks, t)
  PROVE  Session'
<1> DEFINE n == starts + 1
<1>1. /\ n \in Chain /\ listening' = n /\ chain[n] = "none"
      /\ chain' = [chain EXCEPT ![n] = "sent"] /\ wire' = Append(wire, n) /\ ~In(wire, n)
  BY StartRequests
<1>2. /\ chain \in [Chain -> ChainStates] /\ wire \in Seq(Chain) /\ n # 0 /\ ~(n <= starts)
      /\ answer[n] = <<>>
  BY <1>1, Bounds DEF Types, ListenTypes, Listens, Requests
<1> HIDE DEF n
<1>3. chain'[n] = "sent" /\ LastOf(wire', n)
  BY <1>1, <1>2, LastAppend
<1>4. Coming' = queue
  <2>1. Coming' = <<>> \o queue
    BY <1>1, <1>2 DEF Coming
  <2>2. queue \in Seq(EventType)
    BY ComingType
  <2> QED
    BY <2>1, <2>2, ConcatEmptySeq
<1>5. NextLoads'
  <2>1. ASSUME NEW j \in 1..Len(tasks'), tasks'[j].what = "sync" PROVE FALSE
    <3>1. In(tasks', tasks'[j]) /\ tasks'[j] \in TaskType
      BY ElementOfSeq DEF In, Types, ListenTypes
    <3>2. /\ tasks'[j].of \in Chain \cup {0}
          /\ In(tasks', Task("sync", tasks'[j].of)) /\ In(tasks, Task("sync", tasks'[j].of))
      BY <2>1, <3>1, TaskKinds
    <3>3. tasks'[j].of # 0
      BY <3>2 DEF Steady, Listens, Own
    <3>4. tasks'[j].of = n
      BY <1>1, <3>2, <3>3 DEF Steady, Stale
    <3>5. tasks'[j].of <= starts
      BY <3>2, <3>3 DEF Listens, Scheduled
    <3> QED
      BY <1>2, <3>4, <3>5
  <2>2. 0 \in 0..Len(tasks') /\ \A j \in 0 + 1..Len(tasks') : tasks'[j].what # "sync"
    BY <2>1, LenProperties DEF Types, ListenTypes
  <2> QED
    BY <2>2 DEF NextLoads, LoadsNext
<1>6. Unsure'
  BY <1>1, <1>3, <1>5 DEF Unsure
<1> QED
  BY <1>1, <1>3, <1>4, <1>6, QueueEnds DEF Session, Goes

LEMMA SessionStep ==
  ASSUME Types, Types', Listens, Listens', Steady, Steady', Session, [Next]_vars
  PROVE  Session'
<1>a. /\ chain \in [Chain -> ChainStates] /\ asked \in [Chain -> Chain \cup {0}]
      /\ answer \in [Chain -> Seq(EventType)] /\ tasks \in Seq(TaskType) /\ wire \in Seq(Chain)
      /\ listening \in Chain \cup {0} /\ queue \in Seq(EventType)
      /\ listener \in Chain \cup {None, Ghost}
      /\ Numbers /\ Requests /\ Scheduled
      /\ \A k \in Chain : k # 0
  BY Bounds DEF Types, ListenTypes, ServerTypes, Listens
<1>b. /\ \A k \in Chain : Goes(k) => asked[k] = k
      /\ \A k \in Chain : chain[k] \in {"task", "timer"} => k = listening
  BY SteadyFacts
<1>c. listening # 0 =>
         /\ listening \in Chain /\ Goes(listening) /\ LastOf(wire, listening)
         /\ chain[listening] = "timer" => NextLoads
         /\ ~Pure => Unsure
         /\ ~known => Unsure \/ First
  BY <1>a DEF Session
<1>d. First => chain[1] = "sent" /\ listening = 1
  <2>1. First => In(wire, 1) /\ listening = 1
    BY DEF First, In
  <2> QED
    BY <2>1, <1>a, Bounds DEF Requests
<1>e. EndsIn(log, Coming) /\ EndsIn(log, queue) /\ EndsIn(log, <<>>)
  BY QueueEnds DEF Session
<1>f. <<>> \o queue = queue /\ queue \o <<>> = queue /\ <<>> \o <<>> = <<>>
  BY <1>a, ConcatEmptySeq
<1>g. Unsure => chain[listening] \in {"broken", "timer", "sent"}
  BY DEF Unsure
<1>1. CASE WaitTask
  <2> DEFINE k == Head(tasks).of
  <2>1. k \in Chain /\ Head(tasks) = Task("wait", k) /\ In(tasks, Task("wait", k))
    BY <1>1, HeadTask, TaskKinds, InType DEF Types, WaitTask, ListenTypes
  <2>2. listening' = listening /\ Wait(k)
    BY <1>1 DEF WaitTask
  <2>3. UNCHANGED <<log, queue, answer, starts, known, listener>>
    BY <1>1 DEF WaitTask, serverVars, bounds
  <2> HIDE DEF k
  <2>4. chain[k] = "task" /\ k = listening
    BY <1>a, <1>b, <2>1 DEF Scheduled
  <2>5. ~In(wire, k)
    BY <1>a, <2>1, <2>4 DEF Requests
  <2>6. chain' = [chain EXCEPT ![k] = "sent"] /\ wire' = Append(wire, k)
    BY <2>2 DEF Wait
  <2> QED
    BY <2>1, <2>2, <2>3, <2>4, <2>5, <2>6, WaitSession
<1>2. CASE SyncErrorTask
  <2>1. UNCHANGED <<log, queue, listening, starts, known, wire, listener, chain, answer, reloadNeeded>>
        /\ tasks # <<>> /\ tasks' = Tail(tasks) /\ failed'
    BY <1>2 DEF SyncErrorTask, serverVars, listenVars, bounds
  <2>2. NextLoads => NextLoads'
    BY <1>a, <2>1, TasksTail, LoadsAlike DEF NextLoads
  <2> QED
    BY <2>1, <2>2, SessionKept
<1>3. CASE SyncTask
  <2>1. UNCHANGED <<log, queue, listening, starts, known, wire, listener, chain, answer>>
        /\ tasks # <<>> /\ tasks' = Tail(tasks) /\ Head(tasks).what = "sync"
    BY <1>3 DEF SyncTask, serverVars, listenVars, bounds
  <2>2. NextLoads => NextLoads'
    BY <1>a, <2>1, TasksTail, LoadsAlike DEF NextLoads
  <2> QED
    BY <2>1, <2>2, SessionKept
<1>4. CASE BulkTask
  <2>1. tasks # <<>> /\ tasks' = Tail(tasks) /\ Head(tasks) = Bulk
        /\ UNCHANGED <<log, queue, known, listener, answer, failed>>
    BY <1>4 DEF BulkTask, serverVars, bounds
  <2>2. CASE StartListening /\ reloadNeeded' = TRUE
    <3>1. \A t : In(tasks', t) => In(tasks, t)
      BY <1>a, <2>1, InTail
    <3> QED
      BY <2>1, <2>2, <3>1, StartSession
  <2>3. CASE UNCHANGED <<reloadNeeded, listening, starts, chain, asked, wire>>
    <3>1. Head(tasks) # SyncError
      BY <2>1, TaskFacts
    <3>2. NextLoads => NextLoads'
      BY <1>a, <2>1, <2>3, <3>1, TasksTail, LoadsAlike DEF NextLoads
    <3> QED
      BY <2>1, <2>3, <3>2, SessionKept
  <2> QED
    BY <1>4, <2>2, <2>3 DEF BulkTask
<1>5. CASE AccessGranted
  BY <1>5, SessionKept DEF AccessGranted, serverVars, listenVars, bounds, NextLoads
<1>6. CASE Start
  <2> DEFINE n == starts + 1
  <2>1. UNCHANGED <<log, queue, answer, known, listener, tasks, reloadNeeded, failed>> /\ ~started
        /\ StartListening
    BY <1>6 DEF Start, serverVars, cacheVars, bounds
  <2>2. /\ starts' = n /\ listening' = n /\ chain' = [chain EXCEPT ![n] = "sent"]
        /\ wire' = Append(wire, n) /\ n \in Chain
    BY <2>1, StartRequests
  <2>3. starts = 0 /\ n = 1 /\ ~known /\ listener = None /\ queue = <<>>
    BY <1>a, <2>1 DEF Numbers, Requests
  <2>4. \A k \in Chain : k > starts
    BY <2>3, Bounds
  <2>5. wire = <<>> /\ answer[1] = <<>>
    <3>1. \A k \in Chain : chain[k] = "none"
      BY <1>a, <2>4 DEF Numbers
    <3>2. \A k \in Chain : ~In(wire, k) /\ answer[k] = <<>>
      BY <1>a, <3>1 DEF Requests
    <3>3. \A k : ~In(wire, k)
      BY <1>a, <3>2, InType
    <3>4. wire = <<>>
      BY <1>a, <3>3, InType
    <3> QED
      BY <3>2, <3>4, Bounds
  <2>6. wire' = <<1>> /\ chain'[1] = "sent"
    BY <1>a, <2>2, <2>3, <2>5, Bounds
  <2>7. First'
    BY <2>2, <2>3, <2>6 DEF First
  <2>8. Pure' /\ LastOf(wire', 1)
    <3>1. \A k : In(<<1>>, k) => k = 1
      BY DEF In
    <3>2. LastOf(<<1>>, 1)
      BY DEF LastOf
    <3>3. Pure'
      BY <2>1, <2>2, <2>3, <2>6, <3>1 DEF Pure
    <3> QED
      BY <2>6, <3>2, <3>3
  <2>9. Coming' = <<>>
    BY <1>f, <2>1, <2>2, <2>3, <2>5 DEF Coming
  <2> QED
    BY <1>e, <2>1, <2>2, <2>3, <2>6, <2>7, <2>8, <2>9 DEF Session, Goes
<1>7. ASSUME NEW k \in Chain, Receive(k) PROVE Session'
  <2>1. chain[k] = "answered" /\ asked[k] = k /\ answer' = [answer EXCEPT ![k] = <<>>]
        /\ UNCHANGED <<log, queue, listening, starts, known, wire, listener, reloadNeeded, failed>>
    BY <1>7, <1>b DEF Receive, Goes, serverVars, bounds
  <2>2. CASE asked[k] # listening
    <3>1. chain' = [chain EXCEPT ![k] = "over"] /\ tasks' = tasks /\ k # listening
      BY <1>7, <2>1, <2>2 DEF Receive
    <3>2. listening # 0 => chain'[listening] = chain[listening] /\ answer'[listening] = answer[listening]
      BY <1>a, <2>1, <3>1
    <3> QED
      BY <2>1, <3>1, <3>2, SessionKept DEF NextLoads
  <2>3. CASE asked[k] = listening
    <3>1. chain' = [chain EXCEPT ![k] = "task"] /\ k = listening
      BY <1>7, <2>1, <2>3 DEF Receive
    <3>2. ~Unsure /\ ~First /\ Pure /\ known
      BY <1>c, <1>d, <1>g, <2>1, <3>1, <1>a
    <3>3. Pure' /\ chain'[listening] = "task" /\ Coming' = queue
      BY <1>a, <1>f, <2>1, <3>1, <3>2 DEF Pure, Coming
    <3> QED
      BY <1>a, <1>c, <1>e, <2>1, <3>1, <3>2, <3>3 DEF Session, Goes
  <2> QED
    BY <2>2, <2>3
<1>8. ASSUME NEW k \in Chain, Error(k) PROVE Session'
  <2>1. chain[k] = "broken" /\ asked[k] = k
        /\ UNCHANGED <<log, queue, listening, starts, known, wire, listener, reloadNeeded, failed, answer>>
    BY <1>8, <1>b DEF Error, Goes, serverVars, cacheVars, bounds
  <2>2. CASE asked[k] # listening
    <3>1. chain' = [chain EXCEPT ![k] = "over"] /\ tasks' = tasks /\ k # listening
      BY <1>8, <2>1, <2>2 DEF Error
    <3>2. listening # 0 => chain'[listening] = chain[listening] /\ answer'[listening] = answer[listening]
      BY <1>a, <2>1, <3>1
    <3> QED
      BY <2>1, <3>1, <3>2, SessionKept DEF NextLoads
  <2>3. CASE asked[k] = listening
    <3>1. chain' = [chain EXCEPT ![k] = "timer"] /\ tasks' = Append(tasks, SyncError) /\ k = listening
      BY <1>8, <2>1, <2>3 DEF Error
    <3>2. NextLoads'
      BY <1>a, <3>1, TaskFacts, TasksAppend DEF NextLoads
    <3>3. Unsure' /\ Coming' = Coming /\ chain'[listening] = "timer"
      BY <1>a, <2>1, <3>1, <3>2 DEF Unsure, Coming
    <3> QED
      BY <1>a, <1>c, <1>e, <2>1, <3>1, <3>2, <3>3 DEF Session, Goes
  <2> QED
    BY <2>2, <2>3
<1>9. ASSUME NEW k \in Chain, TimerFires(k) PROVE Session'
  <2>1. chain[k] = "timer" /\ listening' = listening /\ Wait(k) /\ k = listening
        /\ UNCHANGED <<log, queue, answer, starts, known, listener, tasks, failed, reloadNeeded>>
    BY <1>9, <1>b DEF TimerFires, serverVars, bounds
  <2>2. ~In(wire, k) /\ chain' = [chain EXCEPT ![k] = "sent"] /\ wire' = Append(wire, k)
        /\ (NextLoads => NextLoads')
    BY <1>a, <2>1 DEF Requests, Wait, NextLoads
  <2> QED
    BY <2>1, <2>2, WaitSession
<1>10. ASSUME NEW l \in Load, RetryLoad(l) PROVE Session'
  BY <1>10, SessionKept DEF RetryLoad, serverVars, listenVars, bounds, NextLoads
<1>11. ASSUME NEW l \in Load, NEW p \in Part, GetAnswered(l, p) PROVE Session'
  <2>1. NextLoads => NextLoads'
    <3>1. failed' = failed /\ reloadNeeded' = reloadNeeded
      BY <1>11 DEF GetAnswered
    <3>2. CASE p \in loaded
      <4>1. Gather(FakeEvents(p, got[l][p]), ready, tasks)
        BY <1>11, <3>2 DEF GetAnswered
      <4> QED
        BY <1>a, <3>1, <4>1, GatherTasks DEF NextLoads
    <3>3. CASE p \notin loaded
      BY <1>11, <3>1, <3>3 DEF GetAnswered, NextLoads
    <3> QED
      BY <3>2, <3>3
  <2> QED
    BY <1>11, <2>1, SessionKept DEF GetAnswered, serverVars, listenVars, bounds
<1>12. ASSUME NEW l \in Load, NEW p \in Part, ServeGet(l, p) \/ GetFails(l, p) PROVE Session'
  <2>1. UNCHANGED <<log, queue, listening, starts, known, wire, listener, chain, answer, tasks,
                    reloadNeeded, failed>>
    BY <1>12 DEF ServeGet, GetFails, serverVars, listenVars, cacheVars, bounds
  <2> QED
    BY <2>1, SessionKept DEF NextLoads
<1>13. CASE Arrives
  <2> DEFINE k == Head(wire)
             n == listening
  <2>1. /\ k \in Chain /\ chain[k] = "sent" /\ In(wire, k) /\ wire # <<>> /\ wire' = Tail(wire)
        /\ known' /\ queue' = <<>>
        /\ UNCHANGED <<log, listening, starts, tasks, reloadNeeded, failed>>
    BY <1>a, <1>13, HeadTailProperties, InType DEF Arrives, Requests, bounds, cacheVars
  <2>2. \/ /\ listener \in Chain /\ listener' = k
           /\ chain' = [chain EXCEPT ![k] = "waiting", ![listener] = "answered"]
           /\ answer' = [answer EXCEPT ![listener] = queue]
        \/ /\ listener = Ghost \/ listener = None
           /\ listener' = k
           /\ chain' = [chain EXCEPT ![k] = "waiting"]
           /\ UNCHANGED answer
        \/ /\ listener = None /\ listener' = None
           /\ chain' = [chain EXCEPT ![k] = "answered"]
           /\ answer' = [answer EXCEPT ![k] = queue]
    BY <1>13 DEF Arrives
  <2> HIDE DEF k
  <2>3. CASE n = 0
    BY <1>e, <1>f, <2>1, <2>3 DEF Session, Coming
  <2>4. CASE n # 0 /\ k = n
    <3>1. wire' = <<>>
      BY <1>a, <1>c, <2>1, <2>4, LastTail DEF k
    <3>2. LastOf(wire', n) /\ Pure'
      <4>1. \A j : ~In(<<>>, j)
        BY DEF In
      <4>2. listener' \in {n, None}
        BY <2>2, <2>4
      <4>3. Pure'
        BY <2>1, <3>1, <4>1, <4>2 DEF Pure
      <4>4. LastOf(<<>>, n)
        BY DEF LastOf
      <4> QED
        BY <3>1, <4>3, <4>4
    <3>3. answer[n] = <<>> /\ listener # k
      BY <1>a, <1>c, <2>1, <2>4 DEF Requests
    <3>4. chain'[n] \in {"waiting", "answered"} /\ (answer'[n] = <<>> \/ answer'[n] = queue)
      BY <1>a, <2>1, <2>2, <2>4, <3>3
    <3>5. Coming' = <<>> \/ Coming' = queue
      BY <1>f, <2>1, <2>4, <3>4 DEF Coming
    <3> QED
      BY <1>e, <2>1, <2>4, <3>2, <3>4, <3>5 DEF Session, Goes
  <2>5. CASE n # 0 /\ k # n
    <3>1. ~Pure
      BY <2>1, <2>5 DEF Pure
    <3>2. Unsure /\ n \in Chain /\ chain[n] \in {"broken", "timer", "sent"}
      BY <1>c, <1>g, <2>5, <3>1
    <3>3. answer[n] = <<>> /\ listener # n
      BY <1>a, <3>2 DEF Requests
    <3>4. chain'[n] = chain[n] /\ answer'[n] = <<>>
      BY <1>a, <2>1, <2>2, <2>5, <3>2, <3>3
    <3>5. Unsure' /\ Coming' = <<>> /\ (NextLoads => NextLoads')
      BY <1>f, <2>1, <2>5, <3>2, <3>4 DEF Unsure, Coming, NextLoads
    <3>6. LastOf(wire', n)
      BY <1>a, <1>c, <2>1, <2>5, LastTail
    <3> QED
      BY <1>c, <1>e, <2>1, <2>5, <3>4, <3>5, <3>6 DEF Session, Goes
  <2> QED
    BY <2>3, <2>4, <2>5
<1>14. CASE Respond
  <2> DEFINE n == listening
  <2>1. /\ listener # None /\ listener' = None /\ queue' = <<>>
        /\ UNCHANGED <<log, listening, starts, known, wire, tasks, reloadNeeded, failed>>
        /\ IF listener = Ghost THEN UNCHANGED <<chain, answer>>
           ELSE /\ chain' = [chain EXCEPT ![listener] = "answered"]
                /\ answer' = [answer EXCEPT ![listener] = queue]
    BY <1>14 DEF Respond, bounds, cacheVars
  <2>2. CASE n = 0
    BY <1>e, <1>f, <2>1, <2>2 DEF Session, Coming
  <2>3. CASE n # 0 /\ listener = n
    <3>1. chain[n] = "waiting" /\ listener # Ghost /\ n \in Chain
      BY <1>a, <2>3, Bounds DEF Requests
    <3>2. ~Unsure /\ ~First /\ Pure /\ known
      BY <1>c, <1>d, <1>g, <2>3, <3>1
    <3>3. chain'[n] = "answered" /\ answer'[n] = queue
      BY <1>a, <2>1, <2>3, <3>1
    <3>4. Coming' = queue /\ Pure'
      BY <1>f, <2>1, <2>3, <3>2, <3>3 DEF Coming, Pure
    <3> QED
      BY <1>c, <1>e, <2>1, <2>3, <3>2, <3>3, <3>4 DEF Session, Goes
  <2>4. CASE n # 0 /\ listener # n
    <3>1. ~Pure
      BY <2>1, <2>4 DEF Pure
    <3>2. Unsure /\ n \in Chain /\ chain[n] \in {"broken", "timer", "sent"}
      BY <1>c, <1>g, <2>4, <3>1
    <3>3. answer[n] = <<>>
      BY <1>a, <3>2 DEF Requests
    <3>4. chain'[n] = chain[n] /\ answer'[n] = <<>>
      BY <1>a, <2>1, <2>4, <3>2, <3>3
    <3>5. Unsure' /\ Coming' = <<>> /\ (NextLoads => NextLoads')
      BY <1>f, <2>1, <2>4, <3>2, <3>4 DEF Unsure, Coming, NextLoads
    <3> QED
      BY <1>c, <1>e, <2>1, <2>4, <3>4, <3>5 DEF Session, Goes
  <2> QED
    BY <2>2, <2>3, <2>4
<1>15. ASSUME NEW k \in Chain, Break(k) PROVE Session'
  <2> DEFINE n == listening
  <2>1. /\ chain' = [chain EXCEPT ![k] = "broken"] /\ answer' = [answer EXCEPT ![k] = <<>>]
        /\ listener' = IF listener = k THEN Ghost ELSE listener
        /\ wire' = Without(wire, k)
        /\ UNCHANGED <<log, queue, known, listening, starts, tasks, reloadNeeded, failed>>
    BY <1>15 DEF Break, cacheVars
  <2>2. Drops(wire, k, wire')
    BY <1>a, <2>1, WithoutFacts
  <2>3. \A j : j # k => (In(wire', j) <=> In(wire, j))
    BY <1>a, <2>2, InDrops
  <2>4. ~In(wire', k)
    BY <1>a, <2>2, DistinctDrops DEF Requests
  <2>5. CASE n = 0
    BY <1>e, <2>1, <2>5 DEF Session, Coming
  <2>6. CASE n = k
    <3>1. chain'[n] = "broken" /\ Unsure' /\ Coming' = queue
      BY <1>a, <1>f, <2>1, <2>6 DEF Unsure, Coming
    <3>2. LastOf(wire', n)
      BY <2>4, <2>6 DEF LastOf, In
    <3> QED
      BY <1>a, <1>e, <2>1, <2>6, <3>1, <3>2 DEF Session, Goes
  <2>7. CASE n # 0 /\ n # k
    <3>1. chain'[n] = chain[n] /\ answer'[n] = answer[n] /\ n \in Chain
      BY <1>a, <1>c, <2>1, <2>7
    <3>2. Coming' = Coming
      BY <2>1, <2>7, <3>1 DEF Coming
    <3>3. LastOf(wire', n)
      BY <1>a, <1>c, <2>2, <2>7, LastDrops
    <3>4. Unsure => Unsure'
      BY <2>1, <3>1 DEF Unsure, NextLoads
    <3>5. Pure => Pure'
      <4>1. Pure => listener' = listener
        BY <1>a, <2>1, <2>7, Bounds DEF Pure
      <4> QED
        BY <2>1, <2>3, <2>4, <4>1 DEF Pure
    <3>6. First => First'
      <4>1. First => ~In(wire, k)
        <5>1. \A j : In(<<1>>, j) => j = 1
          BY DEF In
        <5> QED
          BY <2>7, <5>1 DEF First
      <4>2. ~In(wire, k) => wire' = wire
        BY <2>2 DEF Drops, In
      <4> QED
        BY <2>1, <4>1, <4>2 DEF First
    <3>7. NextLoads => NextLoads'
      BY <2>1 DEF NextLoads
    <3> QED
      BY <1>c, <1>e, <2>1, <2>7, <3>1, <3>2, <3>3, <3>4, <3>5, <3>6, <3>7 DEF Session, Goes
  <2> QED
    BY <2>5, <2>6, <2>7
<1>16. CASE Expire
  <2>1. /\ \A k \in Chain : chain[k] \in {"none", "timer", "over"}
        /\ queue' = <<>>
        /\ UNCHANGED <<log, listener, listening, starts, chain, answer, wire, tasks, reloadNeeded, failed>>
    BY <1>16 DEF Expire, listenVars, cacheVars, bounds
  <2>2. CASE listening = 0
    BY <1>e, <1>f, <2>1, <2>2 DEF Session, Coming
  <2>3. CASE listening # 0
    <3>1. chain[listening] = "timer"
      BY <1>c, <2>1, <2>3 DEF Goes
    <3>2. answer[listening] = <<>>
      BY <1>a, <1>c, <2>3, <3>1 DEF Requests
    <3>3. NextLoads /\ NextLoads'
      BY <1>c, <2>1, <2>3, <3>1 DEF NextLoads
    <3>4. Unsure' /\ Coming' = <<>>
      BY <1>f, <2>1, <2>3, <3>1, <3>2, <3>3 DEF Unsure, Coming
    <3> QED
      BY <1>c, <1>e, <2>1, <2>3, <3>1, <3>3, <3>4 DEF Session, Goes
  <2> QED
    BY <2>2, <2>3
<1>17. CASE Deactivate
  <2>1. listening' = 0 /\ Coming' = queue /\ log' = log
    BY <1>17, <1>f DEF Deactivate, Coming, serverVars, bounds
  <2> QED
    BY <1>e, <2>1 DEF Session
<1>18. CASE Activate
  <2>1. UNCHANGED <<log, queue, answer, known, listener, tasks, failed>>
    BY <1>18 DEF Activate, serverVars
  <2>2. CASE StartListening /\ reloadNeeded' = TRUE
    BY <2>1, <2>2, StartSession
  <2>3. CASE UNCHANGED <<reloadNeeded, listening, starts, chain, asked, wire>>
    BY <2>1, <2>3, SessionKept DEF NextLoads
  <2> QED
    BY <1>18, <2>2, <2>3 DEF Activate
<1>19. ASSUME NEW i \in Item, Change(i) \/ FullUpdate(i) PROVE Session'
  <2>1. /\ UNCHANGED <<listening, starts, chain, answer, wire, known, listener, tasks, reloadNeeded, failed>>
        /\ \E e : Push(e)
    BY <1>19 DEF Change, FullUpdate, Push, listenVars
  <2>2. PICK e : Push(e)
    BY <2>1
  <2>3. log' = Append(log, e) /\ queue' = IF known THEN Append(queue, e) ELSE queue
    BY <2>2 DEF Push
  <2>4. e \in EventType
    <3>1. /\ Len(Append(log, e)) \in Nat /\ Len(log) \in Nat /\ Append(log, e) \in Seq(EventType)
      BY <2>3, LenProperties DEF Types, ServerTypes
    <3> QED
      BY <3>1, <2>3 DEF Types, ServerTypes
  <2>5. EndsIn(log', Coming')
    <3> DEFINE s == IF listening # 0 THEN answer[listening] ELSE <<>>
    <3>1. s \in Seq(EventType) /\ Coming = s \o queue /\ Coming \in Seq(EventType) /\ log \in Seq(EventType)
      BY ComingType DEF Types, ServerTypes
    <3>2. CASE known
      <4>1. Coming' = s \o Append(queue, e)
        BY <2>1, <2>3, <3>2 DEF Coming
      <4> HIDE DEF s
      <4>2. s \o Append(queue, e) = Append(Coming, e)
        BY <1>a, <2>4, <3>1, EndsFacts
      <4>3. EndsIn(Append(log, e), Append(Coming, e))
        BY <1>e, <2>4, <3>1, EndsFacts
      <4> QED
        BY <2>3, <4>1, <4>2, <4>3
    <3>3. CASE ~known
      <4>1. queue = <<>> /\ queue' = <<>>
        BY <1>a, <2>3, <3>3 DEF Requests
      <4>2. listening # 0 => answer[listening] = <<>>
        <5>1. listening # 0 => chain[listening] \in {"broken", "timer", "sent"} /\ listening \in Chain
          BY <1>c, <1>d, <1>g, <3>3
        <5> QED
          BY <1>a, <5>1 DEF Requests
      <4>3. Coming' = <<>>
        BY <1>f, <2>1, <4>1, <4>2 DEF Coming
      <4>4. log' \in Seq(EventType)
        BY DEF Types, ServerTypes
      <4> QED
        BY <4>3, <4>4, LenProperties DEF EndsIn
    <3> QED
      BY <3>2, <3>3
  <2>6. listening # 0 => /\ Unsure => Unsure'
                         /\ Pure => Pure'
                         /\ First => First'
                         /\ NextLoads => NextLoads'
    BY <2>1 DEF Unsure, Pure, First, NextLoads
  <2> QED
    BY <1>c, <2>1, <2>5, <2>6 DEF Session, Goes
<1>20. CASE UNCHANGED vars
  BY <1>20, SessionKept DEF vars, serverVars, listenVars, cacheVars, bounds, NextLoads
<1> QED
  BY <1>1, <1>2, <1>3, <1>4, <1>5, <1>6, <1>7, <1>8, <1>9, <1>10, <1>11, <1>12, <1>13, <1>14,
     <1>15, <1>16, <1>17, <1>18, <1>19, <1>20
  DEF Next, ClientStep, NetworkStep, Trouble, World

(* ------------------------ the history and the loads ---------------------- *)

\* The server is as the last changes left it.
Logged ==
    /\ History(log)
    /\ \A i \in Item : server[i] = StateIn(log, i, Len(log))

\* Before the first load nothing is loaded, and nothing has been scheduled.
FirstLoad ==
    load[1] = "start" =>
        /\ starts = 0 /\ tasks = <<>>
        /\ \A l \in Load : l # 1 => load[l] = "none"
        /\ \A l \in Load, p \in Part : get[l][p] = "none"

\* A change of the server is told by an event.
LEMMA ChangeFacts ==
  ASSUME Types, NEW i \in Item, Change(i) \/ FullUpdate(i)
  PROVE  /\ UNCHANGED <<known, listener, listenVars, tasks, loadVars, windowVars>>
         /\ \E e \in EventType :
              /\ e.item = i /\ Push(e) /\ log' = Append(log, e)
              /\ server' = [server EXCEPT ![i] = e.state]
              /\ Age(e.state) = Len(log) + 2
              /\ There(e.state) <=> e.kind # "remove"
              /\ e.kind \in {"change", "remove"} => There(server[i])
<1>1. Len(log) \in Nat /\ NewState \in Int /\ NewState = Len(log) + 2 /\ 0 - NewState \in Int
      /\ NewState > 0 /\ Len(log) + 2 > 0
  BY LenProperties DEF Types, ServerTypes, NewState
<1>2. /\ Age(NewState) = Len(log) + 2 /\ Age(0 - NewState) = Len(log) + 2
      /\ There(NewState) /\ ~There(0 - NewState)
  BY <1>1 DEF Age, There
<1>3. PartOf[i] \in Part /\ UpdateKind(PartOf[i]) \in {"put", "change"}
  BY Bounds DEF UpdateKind
<1>4. CASE Change(i)
  <2>1. UNCHANGED <<known, listener, listenVars, tasks, loadVars, windowVars>>
    BY <1>4 DEF Change
  <2>2. CASE /\ There(server[i]) /\ server' = [server EXCEPT ![i] = NewState]
             /\ Push(Event(UpdateKind(PartOf[i]), i, NewState))
    <3> DEFINE e == Event(UpdateKind(PartOf[i]), i, NewState)
    <3>1. e \in EventType /\ e.item = i /\ e.state = NewState /\ e.kind \in {"put", "change"}
      BY <1>1, <1>3 DEF EventType, Event
    <3>2. Push(e) /\ log' = Append(log, e)
      BY <2>2 DEF Push
    <3> HIDE DEF e
    <3> QED
      BY <1>1, <1>2, <2>1, <2>2, <3>1, <3>2
  <2>3. CASE /\ There(server[i]) /\ server' = [server EXCEPT ![i] = 0 - NewState]
             /\ Push(Event("remove", i, 0 - NewState))
    <3> DEFINE e == Event("remove", i, 0 - NewState)
    <3>1. e \in EventType /\ e.item = i /\ e.state = 0 - NewState /\ e.kind = "remove"
      BY <1>1 DEF EventType, Event
    <3>2. Push(e) /\ log' = Append(log, e)
      BY <2>3 DEF Push
    <3> HIDE DEF e
    <3> QED
      BY <1>1, <1>2, <2>1, <2>3, <3>1, <3>2
  <2>4. CASE /\ server' = [server EXCEPT ![i] = NewState]
             /\ Push(Event("put", i, NewState))
    <3> DEFINE e == Event("put", i, NewState)
    <3>1. e \in EventType /\ e.item = i /\ e.state = NewState /\ e.kind = "put"
      BY <1>1 DEF EventType, Event
    <3>2. Push(e) /\ log' = Append(log, e)
      BY <2>4 DEF Push
    <3> HIDE DEF e
    <3> QED
      BY <1>1, <1>2, <2>1, <2>4, <3>1, <3>2
  <2> QED
    BY <1>4, <2>2, <2>3, <2>4 DEF Change
<1>5. CASE FullUpdate(i)
  <2> DEFINE e == Event("full", i, NewState)
  <2>1. e \in EventType /\ e.item = i /\ e.state = NewState /\ e.kind = "full"
    BY <1>1 DEF EventType, Event
  <2>2. Push(e) /\ log' = Append(log, e) /\ server' = [server EXCEPT ![i] = NewState]
        /\ UNCHANGED <<known, listener, listenVars, tasks, loadVars, windowVars>>
    BY <1>5 DEF Push, FullUpdate
  <2> HIDE DEF e
  <2> QED
    BY <1>1, <1>2, <2>1, <2>2
<1> QED
  BY <1>4, <1>5

LEMMA LoggedStep ==
  ASSUME Types, Logged, [Next]_vars
  PROVE  Logged'
<1>1. CASE UNCHANGED <<server, log>>
  BY <1>1 DEF Logged
<1>2. ASSUME NEW i \in Item, Change(i) \/ FullUpdate(i) PROVE Logged'
  <2>1. PICK e \in EventType :
              /\ e.item = i /\ Push(e) /\ log' = Append(log, e)
              /\ server' = [server EXCEPT ![i] = e.state]
              /\ Age(e.state) = Len(log) + 2
              /\ There(e.state) <=> e.kind # "remove"
              /\ e.kind \in {"change", "remove"} => There(server[i])
    BY <1>2, ChangeFacts
  <2>2. log \in Seq(EventType) /\ server \in States /\ Len(log) \in Nat /\ Len(log') = Len(log) + 1
    BY <2>1, LenProperties, AppendProperties DEF Types, ServerTypes
  <2>3. History(log')
    BY <2>1, <2>2, HistoryAppend DEF Logged
  <2>4. ASSUME NEW n \in Item PROVE server'[n] = StateIn(log', n, Len(log'))
    <3>1. StateIn(Append(log, e), n, Len(log) + 1) = IF e.item = n THEN e.state ELSE StateIn(log, n, Len(log))
      BY <2>2, HistoryAppend
    <3>2. server'[n] = IF i = n THEN e.state ELSE server[n]
      BY <2>1, <2>2 DEF States
    <3> QED
      BY <2>1, <2>2, <3>1, <3>2 DEF Logged
  <2> QED
    BY <2>3, <2>4 DEF Logged
<1>3. \/ UNCHANGED <<server, log>>
      \/ \E i \in Item : Change(i) \/ FullUpdate(i)
  BY DEF Next, ClientStep, NetworkStep, Trouble, World, vars, serverVars, bounds, WaitTask, SyncErrorTask,
     SyncTask, BulkTask, AccessGranted, Start, Receive, Error, TimerFires, RetryLoad, GetAnswered, Arrives,
     Respond, ServeGet, Break, GetFails, Expire, Deactivate, Activate
<1> QED
  BY <1>1, <1>2, <1>3

LEMMA FirstLoadStep ==
  ASSUME Types, Listens, FirstLoad, [Next]_vars
  PROVE  FirstLoad'
<1>a. load \in [Load -> LoadStates] /\ 1 \in Load
  BY Bounds DEF Types, LoadTypes
<1>1. CASE load[1] # "start"
  <2>1. load'[1] # "start"
    <3>1. CASE load' = load
      BY <1>1, <3>1
    <3>2. ASSUME NEW l \in Load, NEW f, NEW states, NEW loads, BeginLoad(l, f, states, loads),
                 loads = load \/ \E n \in Load : loads = [load EXCEPT ![n] = "none"]
          PROVE load'[1] # "start"
      BY <1>1, <1>a, <3>2 DEF BeginLoad
    <3>3. CASE SyncTask \/ AccessGranted
      BY <1>1, <1>a, <3>2, <3>3, MinFree DEF SyncTask, AccessGranted, loadVars
    <3>4. ASSUME NEW l \in Load, RetryLoad(l) PROVE load'[1] # "start"
      <4>1. FreeLoads # {} /\ BeginLoad(Min(FreeLoads), {}, NoStates, [load EXCEPT ![l] = "none"])
        BY <3>4 DEF RetryLoad
      <4> QED
        BY <3>2, <4>1, MinFree
    <3>5. ASSUME NEW l \in Load, NEW p \in Part, GetAnswered(l, p) \/ GetFails(l, p) PROVE load'[1] # "start"
      BY <1>1, <1>a, <3>5 DEF GetAnswered, GetFails
    <3>6. \/ load' = load
          \/ SyncTask \/ AccessGranted
          \/ \E l \in Load : RetryLoad(l) \/ \E p \in Part : GetAnswered(l, p) \/ GetFails(l, p)
      BY DEF Next, ClientStep, NetworkStep, Trouble, World, vars, loadVars, WaitTask, SyncErrorTask,
         BulkTask, Start, Receive, Error, TimerFires, Arrives, Respond, ServeGet, Break, Expire, Deactivate,
         Activate, Change, FullUpdate
    <3> QED
      BY <3>1, <3>3, <3>4, <3>5, <3>6
  <2> QED
    BY <2>1 DEF FirstLoad
<1>2. CASE load[1] = "start"
  <2>1. /\ starts = 0 /\ tasks = <<>>
        /\ \A l \in Load : l # 1 => load[l] = "none"
        /\ \A l \in Load, p \in Part : get[l][p] = "none"
    BY <1>2 DEF FirstLoad
  <2>2. ~started /\ \A k \in Chain : chain[k] = "none"
    BY <2>1, Bounds DEF Listens, Numbers
  <2>3. ~WaitTask /\ ~SyncErrorTask /\ ~SyncTask /\ ~BulkTask /\ ~Start
    BY <1>2, <2>1 DEF WaitTask, SyncErrorTask, SyncTask, BulkTask, Start
  <2>4. \A k \in Chain : ~Receive(k) /\ ~Error(k) /\ ~TimerFires(k) /\ ~Break(k)
    BY <2>2 DEF Receive, Error, TimerFires, Break
  <2>5. \A l \in Load : ~RetryLoad(l) /\ \A p \in Part : ~GetAnswered(l, p) /\ ~ServeGet(l, p) /\ ~GetFails(l, p)
    BY <1>2, <2>1 DEF RetryLoad, GetAnswered, ServeGet, GetFails
  <2>6. CASE AccessGranted
    <3>1. load'[1] # "start"
      BY <1>a, <2>6 DEF AccessGranted, BeginLoad
    <3> QED
      BY <3>1 DEF FirstLoad
  <2>7. CASE UNCHANGED <<load, get, starts, tasks>>
    BY <2>1, <2>7 DEF FirstLoad
  <2>8. AccessGranted \/ UNCHANGED <<load, get, starts, tasks>>
    BY <2>2, <2>3, <2>4, <2>5 DEF Next, ClientStep, NetworkStep, Trouble, World, vars, loadVars, listenVars,
       Arrives, Respond, Expire, Deactivate, Activate, Change, FullUpdate
  <2> QED
    BY <2>6, <2>7, <2>8
<1> QED
  BY <1>1, <1>2

(* ---------------------- what the client has is of the past --------------- *)

\* v was once the state of item i, in the history s.
InPast(s, v, i) == \E n \in 0..Len(s) : v = StateIn(s, i, n)

\* What is cached, to be applied or answered was once so on the server.
PastOnly ==
    \A i \in Item :
        /\ cache[i] = 0 \/ InPast(log, cache[i], i)
        /\ \A e : In(bulk, e) /\ e.item = i /\ e.kind # "full" => InPast(log, e.state, i)
        /\ \A l \in Load : get[l][PartOf[i]] = "answered" => InPast(log, got[l][PartOf[i]][i], i)

LEMMA PastGrows ==
  ASSUME NEW s \in Seq(EventType), NEW e \in EventType, NEW v, NEW i, InPast(s, v, i)
  PROVE  InPast(Append(s, e), v, i)
<1>1. PICK n \in 0..Len(s) : v = StateIn(s, i, n)
  BY DEF InPast
<1>2. StateIn(Append(s, e), i, n) = StateIn(s, i, n) /\ n \in 0..Len(Append(s, e))
  BY HistoryAppend, AppendProperties, LenProperties
<1> QED
  BY <1>1, <1>2 DEF InPast

LEMMA ComingLogged ==
  ASSUME Types, Session
  PROVE  /\ \A e : In(Coming, e) => \E j \in 1..Len(log) : e = log[j]
         /\ \A e : In(queue, e) => In(Coming, e)
         /\ listening # 0 => \A e : In(answer[listening], e) => In(Coming, e)
<1>1. /\ Coming \in Seq(EventType) /\ queue \in Seq(EventType) /\ log \in Seq(EventType)
      /\ (IF listening # 0 THEN answer[listening] ELSE <<>>) \in Seq(EventType)
      /\ Coming = (IF listening # 0 THEN answer[listening] ELSE <<>>) \o queue
  BY ComingType DEF Types, ServerTypes
<1>2. ASSUME NEW e, In(Coming, e) PROVE \E j \in 1..Len(log) : e = log[j]
  <2>1. PICK n \in 1..Len(Coming) : Coming[n] = e
    BY <1>2 DEF In
  <2>2. Len(Coming) <= Len(log) /\ e = log[Len(log) - Len(Coming) + n]
    BY <2>1 DEF Session, EndsIn
  <2>3. Len(log) - Len(Coming) + n \in 1..Len(log)
    BY <1>1, <2>1, <2>2, LenProperties
  <2> QED
    BY <2>2, <2>3
<1>3. \A e : In(queue, e) \/ In(IF listening # 0 THEN answer[listening] ELSE <<>>, e) => In(Coming, e)
  <2> DEFINE s == IF listening # 0 THEN answer[listening] ELSE <<>>
  <2>1. s \in Seq(EventType) /\ Coming = s \o queue
    BY <1>1
  <2> HIDE DEF s
  <2>2. \A e : In(s \o queue, e) <=> In(s, e) \/ In(queue, e)
    BY <1>1, <2>1, InConcat
  <2>3. \A e : In(queue, e) \/ In(s, e) => In(Coming, e)
    BY <2>1, <2>2
  <2> QED
    BY <2>3 DEF s
<1>4. ASSUME listening # 0, NEW e, In(answer[listening], e) PROVE In(Coming, e)
  BY <1>3, <1>4
<1> QED
  BY <1>2, <1>3, <1>4

LEMMA LoggedPast ==
  ASSUME Types, NEW j \in 1..Len(log)
  PROVE  InPast(log, log[j].state, log[j].item)
<1>1. j \in Nat \ {0} /\ j \in 0..Len(log)
  BY LenProperties DEF Types, ServerTypes
<1>2. StateIn(log, log[j].item, j) = log[j].state
  BY <1>1, StateInStep
<1> QED
  BY <1>1, <1>2 DEF InPast

LEMMA BeginLoadPast ==
  ASSUME Types, PastOnly, NEW l \in Load, NEW f, NEW states, NEW loads, BeginLoad(l, f, states, loads),
         \A i \in Item : PartOf[i] \in f => states[i] \in {0, 1}, UNCHANGED <<bulk, log>>
  PROVE  PastOnly'
<1>1. /\ get' = [get EXCEPT ![l] = [p \in Part |-> "asked"]] /\ got' = got
      /\ get \in [Load -> [Part -> {"none", "asked", "answered"}]]
      /\ cache' = [i \in Item |-> IF PartOf[i] \in f THEN states[i] ELSE cache[i]]
  BY DEF BeginLoad, Types, LoadTypes
<1>2. ASSUME NEW i \in Item PROVE cache'[i] = 0 \/ InPast(log, cache'[i], i)
  <2>1. InPast(log, 1, i)
    BY StateInStep, LenProperties DEF InPast, Types, ServerTypes
  <2> QED
    BY <1>1, <2>1 DEF PastOnly
<1>3. ASSUME NEW i \in Item, NEW n \in Load, get'[n][PartOf[i]] = "answered"
      PROVE  get[n][PartOf[i]] = "answered"
  BY <1>1, <1>3, Bounds
<1> QED
  BY <1>1, <1>2, <1>3 DEF PastOnly

LEMMA PastStep ==
  ASSUME Types, Types', Logged, Listens, Steady, Session, PastOnly, [Next]_vars
  PROVE  PastOnly'
<1>a. /\ log \in Seq(EventType) /\ bulk \in Seq(EventType) /\ cache \in States
      /\ get \in [Load -> [Part -> {"none", "asked", "answered"}]]
      /\ got \in [Load -> [Part -> States]] /\ answer \in [Chain -> Seq(EventType)]
      /\ \A i \in Item : PartOf[i] \in Part
  BY Bounds DEF Types, ServerTypes, CopyTypes, LoadTypes, ListenTypes
<1>1. CASE UNCHANGED <<log, cache, bulk, get, got>>
  BY <1>1 DEF PastOnly
<1>2. CASE SyncTask \/ AccessGranted \/ \E l \in Load : RetryLoad(l)
  <2>1. UNCHANGED <<bulk, log>>
    BY <1>2 DEF SyncTask, AccessGranted, RetryLoad, bounds
  <2>2. CASE \E l \in Load : \E f, loads : BeginLoad(l, f, NoStates, loads)
    BY <2>1, <2>2, BeginLoadPast DEF NoStates
  <2>3. CASE \E l \in Load, states \in [Item -> {0, 1}] : \E f, loads : BeginLoad(l, f, states, loads)
    <3>1. PICK l \in Load, states \in [Item -> {0, 1}] : \E f, loads : BeginLoad(l, f, states, loads)
      BY <2>3
    <3>2. \A i \in Item : states[i] \in {0, 1}
      OBVIOUS
    <3> QED
      BY <2>1, <3>1, <3>2, BeginLoadPast
  <2>4. CASE UNCHANGED <<cache, get, got>>
    BY <1>1, <2>1, <2>4
  <2>5. CASE SyncTask
    BY <2>2, <2>4, <2>5, MinFree DEF SyncTask, loadVars
  <2>6. CASE AccessGranted
    BY <2>3, <2>6, Bounds DEF AccessGranted
  <2>7. CASE \E l \in Load : RetryLoad(l)
    BY <2>2, <2>7, MinFree DEF RetryLoad
  <2> QED
    BY <1>2, <2>5, <2>6, <2>7
<1>3. CASE BulkTask
  <2>1. bulk' = <<>> /\ cache' = Updated(cache, bulk) /\ UNCHANGED <<log, get, got>>
    BY <1>3 DEF BulkTask, loadVars, bounds
  <2>2. ASSUME NEW i \in Item PROVE cache'[i] = 0 \/ InPast(log, cache'[i], i)
    <3>1. CASE Updated(cache, bulk)[i] = cache[i]
      BY <2>1, <3>1 DEF PastOnly
    <3>2. ASSUME NEW j \in 1..Len(bulk), bulk[j].item = i, bulk[j].kind # "full",
                 Updated(cache, bulk)[i] = bulk[j].state
          PROVE  InPast(log, cache'[i], i)
      <4>1. In(bulk, bulk[j])
        BY DEF In
      <4> QED
        BY <2>1, <3>2, <4>1 DEF PastOnly
    <3> QED
      BY <1>a, <3>1, <3>2, UpdatedSource
  <2>3. \A e : ~In(<<>>, e)
    BY DEF In
  <2> QED
    BY <2>1, <2>2, <2>3 DEF PastOnly
<1>4. ASSUME NEW k \in Chain, Receive(k) PROVE PastOnly'
  <2>1. UNCHANGED <<log, cache, get, got>> /\ chain[k] = "answered"
    BY <1>4 DEF Receive, loadVars, bounds
  <2>2. CASE asked[k] = listening
    <3>1. bulk' = bulk \o answer[k] /\ answer[k] \in Seq(EventType)
      BY <1>a, <1>4, <2>2 DEF Receive, Gather
    <3>2. k = listening /\ listening # 0
      BY <2>1, <2>2, SteadyFacts, Bounds DEF Goes
    <3>3. ASSUME NEW e, In(answer[k], e) PROVE InPast(log, e.state, e.item)
      BY <3>2, <3>3, ComingLogged, LoggedPast
    <3>4. \A e : In(bulk', e) => In(bulk, e) \/ In(answer[k], e)
      BY <1>a, <3>1, InConcat
    <3> QED
      BY <2>1, <3>3, <3>4 DEF PastOnly
  <2>3. CASE asked[k] # listening
    BY <1>1, <1>4, <2>1, <2>3 DEF Receive
  <2> QED
    BY <2>2, <2>3
<1>5. ASSUME NEW l \in Load, NEW p \in Part, GetAnswered(l, p) PROVE PastOnly'
  <2>1. /\ get[l][p] = "answered" /\ get' = [get EXCEPT ![l][p] = "none"]
        /\ got' = [got EXCEPT ![l][p] = NoStates] /\ log' = log
    BY <1>5 DEF GetAnswered, bounds
  <2>2. \A i \in ItemsOf(p) : InPast(log, got[l][p][i], i) /\ i \in Item /\ PartOf[i] = p
    BY <2>1 DEF PastOnly, ItemsOf
  <2>3. ASSUME NEW i \in Item, NEW n \in Load, get'[n][PartOf[i]] = "answered"
        PROVE  InPast(log, got'[n][PartOf[i]][i], i)
    <3>1. ~(n = l /\ PartOf[i] = p)
      BY <1>a, <2>1, <2>3
    <3>2. get[n][PartOf[i]] = "answered" /\ got'[n][PartOf[i]] = got[n][PartOf[i]]
      BY <1>a, <2>1, <2>3, <3>1
    <3> QED
      BY <3>2 DEF PastOnly
  <2>4. CASE p \in loaded
    <3>1. bulk' = bulk \o FakeEvents(p, got[l][p]) /\ cache' = cache /\ got[l][p] \in States
      BY <1>a, <1>5, <2>4 DEF GetAnswered, Gather
    <3>2. /\ FakeEvents(p, got[l][p]) \in Seq(EventType)
          /\ \A e : In(FakeEvents(p, got[l][p]), e) => e.item \in ItemsOf(p) /\ e.state = got[l][p][e.item]
      BY <1>a, <3>1, FakeEventsFacts
    <3>3. \A e : In(bulk', e) => In(bulk, e) \/ In(FakeEvents(p, got[l][p]), e)
      BY <1>a, <3>1, <3>2, InConcat
    <3>4. \A e : In(FakeEvents(p, got[l][p]), e) => InPast(log, e.state, e.item)
      BY <2>2, <3>2
    <3> QED
      BY <2>1, <2>3, <3>1, <3>3, <3>4 DEF PastOnly
  <2>5. CASE p \notin loaded
    <3>1. bulk' = bulk /\ cache' = [i \in Item |-> IF PartOf[i] = p THEN got[l][p][i] ELSE cache[i]]
      BY <1>5, <2>5 DEF GetAnswered
    <3>2. \A i \in Item : cache'[i] = 0 \/ InPast(log, cache'[i], i)
      BY <2>2, <3>1 DEF PastOnly, ItemsOf
    <3> QED
      BY <2>1, <2>3, <3>1, <3>2 DEF PastOnly
  <2> QED
    BY <2>4, <2>5
<1>6. ASSUME NEW l \in Load, NEW p \in Part, ServeGet(l, p) PROVE PastOnly'
  <2>1. /\ get' = [get EXCEPT ![l][p] = "answered"] /\ UNCHANGED <<log, cache, bulk>>
        /\ got' = [got EXCEPT ![l][p] = [i \in Item |-> IF PartOf[i] = p THEN server[i] ELSE 0]]
    BY <1>6 DEF ServeGet, cacheVars, bounds
  <2>2. \A i \in Item : InPast(log, server[i], i)
    BY <1>a, LenProperties DEF Logged, InPast
  <2>3. ASSUME NEW i \in Item, NEW n \in Load, get'[n][PartOf[i]] = "answered"
        PROVE  InPast(log, got'[n][PartOf[i]][i], i)
    <3>1. CASE n = l /\ PartOf[i] = p
      BY <1>a, <2>1, <2>2, <3>1
    <3>2. CASE ~(n = l /\ PartOf[i] = p)
      <4>1. get[n][PartOf[i]] = "answered" /\ got'[n][PartOf[i]] = got[n][PartOf[i]]
        BY <1>a, <2>1, <2>3, <3>2
      <4> QED
        BY <4>1 DEF PastOnly
    <3> QED
      BY <3>1, <3>2
  <2> QED
    BY <2>1, <2>3 DEF PastOnly
<1>7. ASSUME NEW l \in Load, NEW p \in Part, GetFails(l, p) PROVE PastOnly'
  <2>1. /\ get' = [get EXCEPT ![l][p] = "none"] /\ UNCHANGED <<log, cache, bulk>>
        /\ got' = [got EXCEPT ![l][p] = NoStates]
    BY <1>7 DEF GetFails, cacheVars
  <2>2. ASSUME NEW i \in Item, NEW n \in Load, get'[n][PartOf[i]] = "answered"
        PROVE  InPast(log, got'[n][PartOf[i]][i], i)
    <3>1. ~(n = l /\ PartOf[i] = p)
      BY <1>a, <2>1, <2>2
    <3>2. get[n][PartOf[i]] = "answered" /\ got'[n][PartOf[i]] = got[n][PartOf[i]]
      BY <1>a, <2>1, <2>2, <3>1
    <3> QED
      BY <3>2 DEF PastOnly
  <2> QED
    BY <2>1, <2>2 DEF PastOnly
<1>8. ASSUME NEW i \in Item, Change(i) \/ FullUpdate(i) PROVE PastOnly'
  <2>1. PICK e \in EventType : Push(e) /\ log' = Append(log, e)
    BY <1>8, ChangeFacts
  <2>2. UNCHANGED <<cache, bulk, get, got>>
    BY <1>8, <2>1, ChangeFacts DEF Push, loadVars
  <2>3. \A v, n : InPast(log, v, n) => InPast(log', v, n)
    BY <1>a, <2>1, PastGrows
  <2> QED
    BY <2>2, <2>3 DEF PastOnly
<1>9. \/ UNCHANGED <<log, cache, bulk, get, got>>
      \/ SyncTask \/ AccessGranted \/ BulkTask
      \/ \E k \in Chain : Receive(k)
      \/ \E l \in Load : RetryLoad(l) \/ \E p \in Part : GetAnswered(l, p) \/ ServeGet(l, p) \/ GetFails(l, p)
      \/ \E i \in Item : Change(i) \/ FullUpdate(i)
  BY DEF Next, ClientStep, NetworkStep, Trouble, World, vars, serverVars, listenVars, cacheVars, loadVars,
     bounds, WaitTask, SyncErrorTask, Start, Error, TimerFires, Arrives, Respond, Break, Expire, Deactivate,
     Activate
<1> QED
  BY <1>1, <1>2, <1>3, <1>4, <1>5, <1>6, <1>7, <1>8, <1>9

(* --------------------------- following the server ------------------------ *)

\* What the client has received goes up to here in the history.
From == Len(log) - Len(Coming)

\* The copy when the events gathered are applied to it.
Copy == Updated(cache, bulk)

\* What reached the client of item i is not older than what it has received.
Informed(i) == Age(StateIn(log, i, From)) <= seen[i]

\* v is a state of item i since then.
Fresh(v, i) == \E n \in From..Len(log) : v = StateIn(log, i, n)

\* Everything will be loaded before the client is quiet again.
Due ==
    \/ listening = 0 /\ starts # 0
    \/ \E l \in Load : load[l] \in {"start", "retry"}
    \/ reloadNeeded \/ failed \/ In(tasks, SyncError)
    \/ listening # 0 /\ chain[listening] = "broken"
    \/ \E e : e.kind = "full" /\ (In(bulk, e) \/ In(Coming, e))

\* The GET of load l for the part of item i has not been served, or its answer will do.
Helpful(l, i) ==
    \/ get[l][PartOf[i]] = "asked"
    \/ get[l][PartOf[i]] = "answered" /\ (Fresh(got[l][PartOf[i]][i], i) \/ Informed(i))

\* A load will tell of item i, or else it stays as the local storage had it.
Loads(i) ==
    \/ \E l \in Load : PartOf[i] \in waitsFor[l] /\ Helpful(l, i)
    \/ PartOf[i] \in unconfirmed /\ \A l \in Load : get[l][PartOf[i]] = "none" \/ Helpful(l, i)

\* The copy is as the server was at some time since what the client has received.
Agreeing(i) == Informed(i) /\ (i \in overtaken \/ CurrentIn(log, From, Copy[i], i))

Follows(i) == Due \/ i \in untold \/ Loads(i) \/ Agreeing(i)

LEMMA NextLoadsDue ==
  ASSUME NextLoads, UNCHANGED <<tasks, reloadNeeded, failed>>
  PROVE  Due'
<1>1. reloadNeeded \/ failed \/ In(tasks, SyncError)
  <2>1. PICK m \in 0..Len(tasks) : IF m = 0 THEN reloadNeeded \/ failed ELSE tasks[m] = SyncError
    BY DEF NextLoads, LoadsNext
  <2>2. CASE m = 0
    BY <2>1, <2>2
  <2>3. CASE m # 0
    <3>1. m \in 1..Len(tasks) /\ tasks[m] = SyncError
      BY <2>1, <2>3
    <3> QED
      BY <3>1 DEF In
  <2> QED
    BY <2>2, <2>3
<1>2. reloadNeeded' \/ failed' \/ In(tasks', SyncError)
  BY <1>1
<1>3. SyncError' = SyncError
  BY DEF SyncError, Task
<1> QED
  BY <1>2, <1>3 DEF Due

LEMMA UnsureDue ==
  ASSUME listening # 0, Unsure, chain'[listening] = chain[listening],
         UNCHANGED <<listening, tasks, reloadNeeded, failed>>
  PROVE  Due'
<1>1. CASE chain[listening] = "broken"
  BY <1>1 DEF Due
<1>2. CASE NextLoads
  BY <1>2, NextLoadsDue
<1> QED
  BY <1>1, <1>2 DEF Unsure

\* What is to come stays, but for what is received and what happens on the server; or else
\* everything will be loaded.
LEMMA ComingKept ==
  ASSUME Types, Listens, Steady, Session,
         \/ UNCHANGED <<listening, answer, queue, log>>
         \/ BulkTask \/ Activate \/ Start \/ Arrives \/ Respond \/ Expire \/ Deactivate
         \/ \E k \in Chain : Break(k)
  PROVE  log' = log /\ (Coming' = Coming \/ Due')
<1>a. /\ chain \in [Chain -> ChainStates] /\ wire \in Seq(Chain)
      /\ answer \in [Chain -> Seq(EventType)]
      /\ listening \in Chain \cup {0} /\ queue \in Seq(EventType)
      /\ listener \in Chain \cup {None, Ghost}
      /\ Numbers /\ Requests
      /\ starts \in Nat /\ \A k \in Chain : k # 0 /\ k \in Nat
  BY Bounds DEF Types, ListenTypes, ServerTypes, Listens
<1>c. listening # 0 =>
         /\ listening \in Chain /\ Goes(listening)
         /\ chain[listening] = "timer" => NextLoads
         /\ ~Pure => Unsure
         /\ ~known => Unsure \/ First
  BY <1>a DEF Session
<1>f. <<>> \o queue = queue /\ queue \o <<>> = queue /\ <<>> \o <<>> = <<>>
  BY <1>a, ConcatEmptySeq
<1>1. CASE UNCHANGED <<listening, answer, queue, log>>
  BY <1>1 DEF Coming
<1>2. CASE BulkTask \/ Activate
  <2>1. UNCHANGED <<answer, queue, log>>
    BY <1>2 DEF BulkTask, Activate, serverVars, bounds
  <2>2. reloadNeeded' \/ UNCHANGED listening
    BY <1>2 DEF BulkTask, Activate
  <2> QED
    BY <1>1, <2>1, <2>2 DEF Due
<1>3. CASE Start
  <2>1. UNCHANGED <<log, queue, answer, known, listener>> /\ ~started /\ StartListening
    BY <1>3 DEF Start, serverVars, bounds
  <2>2. starts + 1 \in Chain /\ listening' = starts + 1 /\ chain[starts + 1] = "none"
    BY <2>1, StartRequests
  <2>3. listening = 0 /\ queue = <<>> /\ answer[starts + 1] = <<>> /\ starts + 1 # 0
    BY <1>a, <2>1, <2>2 DEF Numbers, Requests
  <2> QED
    BY <2>1, <2>2, <2>3 DEF Coming
<1>4. CASE Arrives
  <2> DEFINE k == Head(wire)
             n == listening
  <2>1. /\ k \in Chain /\ chain[k] = "sent" /\ In(wire, k) /\ queue' = <<>>
        /\ UNCHANGED <<log, listening, starts, tasks, reloadNeeded, failed>>
    BY <1>a, <1>4, HeadTailProperties, InType DEF Arrives, Requests, bounds, cacheVars
  <2>2. \/ /\ listener \in Chain
           /\ chain' = [chain EXCEPT ![k] = "waiting", ![listener] = "answered"]
           /\ answer' = [answer EXCEPT ![listener] = queue]
        \/ /\ listener = Ghost \/ (queue = <<>> /\ listener = None)
           /\ chain' = [chain EXCEPT ![k] = "waiting"]
           /\ UNCHANGED answer
        \/ /\ listener = None
           /\ chain' = [chain EXCEPT ![k] = "answered"]
           /\ answer' = [answer EXCEPT ![k] = queue]
    BY <1>4 DEF Arrives
  <2> HIDE DEF k
  <2>3. CASE n = 0
    <3>1. starts # 0
      BY <1>a, <2>1 DEF Numbers
    <3> QED
      BY <2>1, <2>3, <3>1 DEF Due
  <2>4. CASE n # 0 /\ k = n
    <3>1. answer[n] = <<>> /\ listener # n
      BY <1>a, <2>1, <2>4 DEF Requests
    <3>2. CASE listener # None
      <4>1. Unsure
        BY <1>c, <2>4, <3>1, <3>2 DEF Pure
      <4>2. NextLoads
        BY <2>1, <2>4, <4>1 DEF Unsure
      <4> QED
        BY <2>1, <4>2, NextLoadsDue
    <3>3. CASE listener = None /\ queue = <<>> /\ UNCHANGED answer
      BY <2>1, <3>3 DEF Coming
    <3>4. CASE answer' = [answer EXCEPT ![k] = queue]
      <4>1. answer'[n] = queue
        BY <1>a, <2>1, <2>4, <3>4
      <4> QED
        BY <1>f, <2>1, <2>4, <3>1, <4>1 DEF Coming
    <3> QED
      BY <2>2, <3>2, <3>3, <3>4, Bounds
  <2>5. CASE n # 0 /\ k # n
    <3>1. Unsure /\ n \in Chain /\ chain[n] \in {"broken", "timer", "sent"}
      BY <1>c, <2>1, <2>5 DEF Pure, Unsure
    <3>2. listener # n
      BY <1>a, <3>1 DEF Requests
    <3>3. chain'[n] = chain[n]
      BY <1>a, <2>1, <2>2, <2>5, <3>1, <3>2
    <3> QED
      BY <2>1, <2>5, <3>1, <3>3, UnsureDue
  <2> QED
    BY <2>1, <2>3, <2>4, <2>5
<1>5. CASE Respond
  <2> DEFINE n == listening
  <2>1. /\ listener # None /\ queue' = <<>>
        /\ UNCHANGED <<log, listening, starts, tasks, reloadNeeded, failed>>
        /\ IF listener = Ghost THEN UNCHANGED <<chain, answer>>
           ELSE /\ chain' = [chain EXCEPT ![listener] = "answered"]
                /\ answer' = [answer EXCEPT ![listener] = queue]
    BY <1>5 DEF Respond, bounds, cacheVars
  <2>2. CASE n = 0
    BY <1>a, <2>1, <2>2 DEF Numbers, Due
  <2>3. CASE n # 0 /\ listener = n
    <3>1. answer[n] = <<>> /\ answer'[n] = queue
      BY <1>a, <2>1, <2>3, Bounds DEF Requests
    <3> QED
      BY <1>f, <2>1, <2>3, <3>1 DEF Coming
  <2>4. CASE n # 0 /\ listener # n
    <3>1. Unsure /\ n \in Chain
      BY <1>c, <2>1, <2>4 DEF Pure
    <3>2. chain'[n] = chain[n]
      BY <1>a, <2>1, <2>4, <3>1
    <3> QED
      BY <2>1, <2>4, <3>1, <3>2, UnsureDue
  <2> QED
    BY <2>1, <2>2, <2>3, <2>4
<1>6. ASSUME NEW k \in Chain, Break(k) PROVE log' = log /\ (Coming' = Coming \/ Due')
  <2>1. /\ chain' = [chain EXCEPT ![k] = "broken"] /\ answer' = [answer EXCEPT ![k] = <<>>]
        /\ UNCHANGED <<log, queue, listening>>
    BY <1>6 DEF Break
  <2>2. CASE k = listening
    BY <1>a, <2>1, <2>2 DEF Due
  <2>3. CASE k # listening
    <3>1. listening # 0 => answer'[listening] = answer[listening]
      BY <1>a, <2>1, <2>3
    <3> QED
      BY <2>1, <3>1 DEF Coming
  <2> QED
    BY <2>1, <2>2, <2>3
<1>7. CASE Expire
  <2>1. /\ known
        /\ \A k \in Chain : chain[k] \in {"none", "timer", "over"}
        /\ UNCHANGED <<log, listening, starts, tasks, reloadNeeded, failed>>
    BY <1>7 DEF Expire, listenVars, cacheVars, bounds
  <2>2. CASE listening = 0
    <3>1. starts # 0
      BY <1>a, <2>1 DEF Numbers
    <3> QED
      BY <2>1, <2>2, <3>1 DEF Due
  <2>3. CASE listening # 0
    <3>1. NextLoads
      BY <1>c, <2>1, <2>3 DEF Goes
    <3> QED
      BY <2>1, <3>1, NextLoadsDue
  <2> QED
    BY <2>1, <2>2, <2>3
<1>8. CASE Deactivate
  <2>1. listening' = 0 /\ UNCHANGED <<log, queue, answer, starts>>
    BY <1>8 DEF Deactivate, serverVars, bounds
  <2>2. CASE starts # 0
    BY <2>1, <2>2 DEF Due
  <2>3. CASE starts = 0
    BY <1>a, <1>1, <2>1, <2>3 DEF Numbers
  <2> QED
    BY <2>1, <2>2, <2>3
<1> QED
  BY <1>1, <1>2, <1>3, <1>4, <1>5, <1>6, <1>7, <1>8

\* A load that waits for parts is under way.
Awaited == \A l \in Load : waitsFor[l] # {} => load[l] = "loading"

LEMMA BeginLoadAwaits ==
  ASSUME Types, Awaited, NEW l \in Load, NEW f, NEW states, NEW loads \in [Load -> LoadStates],
         BeginLoad(l, f, states, loads), \A n \in Load : waitsFor[n] # {} => loads[n] = load[n]
  PROVE  Awaited'
<1>1. /\ waitsFor' = [waitsFor EXCEPT ![l] = Part \ f]
      /\ load' = [loads EXCEPT ![l] = IF Part = f THEN "none" ELSE "loading"]
      /\ waitsFor \in [Load -> SUBSET Part]
  BY DEF BeginLoad, Types, LoadTypes
<1>2. ASSUME NEW n \in Load, waitsFor'[n] # {} PROVE load'[n] = "loading"
  <2>1. CASE n = l
    <3>1. Part # f
      BY <1>1, <1>2, <2>1
    <3> QED
      BY <1>1, <2>1, <3>1
  <2>2. CASE n # l
    BY <1>1, <1>2, <2>2 DEF Awaited
  <2> QED
    BY <2>1, <2>2
<1> QED
  BY <1>2 DEF Awaited

LEMMA AwaitedStep ==
  ASSUME Types, Awaited, [Next]_vars
  PROVE  Awaited'
<1>a. load \in [Load -> LoadStates] /\ waitsFor \in [Load -> SUBSET Part]
  BY DEF Types, LoadTypes
<1>1. CASE UNCHANGED <<load, waitsFor>>
  BY <1>1 DEF Awaited
<1>2. CASE SyncTask
  BY <1>a, <1>1, <1>2, BeginLoadAwaits, MinFree DEF SyncTask, loadVars
<1>3. CASE AccessGranted
  BY <1>a, <1>3, BeginLoadAwaits, Bounds DEF AccessGranted
<1>4. ASSUME NEW l \in Load, RetryLoad(l) PROVE Awaited'
  <2> DEFINE loads == [load EXCEPT ![l] = "none"]
  <2>1. /\ load[l] = "retry" /\ Min(FreeLoads) \in Load
        /\ BeginLoad(Min(FreeLoads), {}, NoStates, loads)
    BY <1>4, MinFree DEF RetryLoad
  <2>2. loads \in [Load -> LoadStates] /\ \A n \in Load : n # l => loads[n] = load[n]
    BY <1>a DEF LoadStates
  <2>3. waitsFor[l] = {}
    BY <2>1 DEF Awaited
  <2> HIDE DEF loads
  <2>4. \A n \in Load : waitsFor[n] # {} => loads[n] = load[n]
    BY <2>2, <2>3
  <2> QED
    BY <2>1, <2>2, <2>4, BeginLoadAwaits
<1>5. ASSUME NEW l \in Load, NEW p \in Part, GetAnswered(l, p) PROVE Awaited'
  <2>1. /\ waitsFor' = [waitsFor EXCEPT ![l] = @ \ {p}]
        /\ load' = IF waitsFor[l] = {p} THEN [load EXCEPT ![l] = "none"] ELSE load
    BY <1>5 DEF GetAnswered
  <2>2. ASSUME NEW n \in Load, waitsFor'[n] # {} PROVE load'[n] = "loading"
    <3>1. waitsFor[n] # {} /\ (n = l => waitsFor[l] # {p})
      BY <1>a, <2>1, <2>2
    <3> QED
      BY <1>a, <2>1, <3>1 DEF Awaited
  <2> QED
    BY <2>2 DEF Awaited
<1>6. ASSUME NEW l \in Load, NEW p \in Part, GetFails(l, p) PROVE Awaited'
  <2>1. \/ load' = [load EXCEPT ![l] = "retry"] /\ waitsFor' = [waitsFor EXCEPT ![l] = {}]
        \/ UNCHANGED <<load, waitsFor>>
    BY <1>6 DEF GetFails
  <2>2. ASSUME NEW n \in Load, waitsFor'[n] # {} PROVE load'[n] = "loading"
    BY <1>a, <2>1, <2>2 DEF Awaited
  <2> QED
    BY <2>2 DEF Awaited
<1>7. \/ UNCHANGED <<load, waitsFor>>
      \/ SyncTask \/ AccessGranted
      \/ \E l \in Load : RetryLoad(l) \/ \E p \in Part : GetAnswered(l, p) \/ GetFails(l, p)
  BY DEF Next, ClientStep, NetworkStep, Trouble, World, vars, loadVars, WaitTask, SyncErrorTask,
     BulkTask, Start, Receive, Error, TimerFires, Arrives, Respond, ServeGet, Break, Expire, Deactivate,
     Activate, Change, FullUpdate
<1> QED
  BY <1>1, <1>2, <1>3, <1>4, <1>5, <1>6, <1>7

\* A load that begins tells of every item.
LEMMA LoadsBegin ==
  ASSUME Types, NEW l \in Load, NEW f \in SUBSET Part, NEW states, NEW loads,
         BeginLoad(l, f, states, loads),
         f = {} \/ \A n \in Load, p \in Part : get[n][p] = "none",
         NEW i \in Item
  PROVE  Loads(i)'
<1> DEFINE p == PartOf[i]
<1>1. /\ get' = [get EXCEPT ![l] = [q \in Part |-> "asked"]]
      /\ waitsFor' = [waitsFor EXCEPT ![l] = Part \ f] /\ unconfirmed' = unconfirmed \cup f
      /\ get \in [Load -> [Part -> {"none", "asked", "answered"}]]
      /\ waitsFor \in [Load -> SUBSET Part] /\ p \in Part
  BY Bounds DEF BeginLoad, Types, LoadTypes
<1> HIDE DEF p
<1>2. get'[l][p] = "asked" /\ waitsFor'[l] = Part \ f
  BY <1>1
<1>3. Helpful(l, i)'
  BY <1>2 DEF Helpful, p
<1>4. CASE p \notin f
  <2>1. PartOf[i] \in waitsFor'[l]
    BY <1>1, <1>2, <1>4 DEF p
  <2> QED
    BY <1>3, <2>1 DEF Loads
<1>5. CASE p \in f
  <2>1. \A n \in Load : n # l => get'[n][p] = "none"
    BY <1>1, <1>5
  <2>2. \A n \in Load : get'[n][PartOf[i]] = "none" \/ Helpful(n, i)'
    BY <1>3, <2>1 DEF p
  <2>3. PartOf[i] \in unconfirmed'
    BY <1>1, <1>5 DEF p
  <2> QED
    BY <2>2, <2>3 DEF Loads
<1> QED
  BY <1>4, <1>5

\* What makes everything be loaded stays.
LEMMA DueKept ==
  ASSUME Due,
         listening = 0 /\ starts # 0 => listening' = 0 /\ starts' # 0,
         \A l \in Load : load[l] \in {"start", "retry"} => load'[l] = load[l],
         reloadNeeded => reloadNeeded', failed => failed',
         In(tasks, SyncError) => In(tasks', SyncError),
         listening # 0 /\ chain[listening] = "broken" => listening' # 0 /\ chain'[listening'] = "broken",
         \A e : e.kind = "full" /\ (In(bulk, e) \/ In(Coming, e)) => In(bulk', e) \/ In(Coming', e)
  PROVE  Due'
<1>1. SyncError' = SyncError
  BY DEF SyncError, Task
<1> QED
  BY <1>1 DEF Due

\* Everything will be loaded until it is.
LEMMA DueStays ==
  ASSUME Types, Listens, Steady, Session, FirstLoad, Awaited, Due, [Next]_vars
  PROVE  Due' \/ \A i \in Item : Loads(i)'
<1>a. /\ chain \in [Chain -> ChainStates] /\ tasks \in Seq(TaskType) /\ wire \in Seq(Chain)
      /\ answer \in [Chain -> Seq(EventType)] /\ bulk \in Seq(EventType)
      /\ queue \in Seq(EventType) /\ load \in [Load -> LoadStates]
      /\ listening \in Chain \cup {0} /\ starts \in Nat
      /\ listener \in Chain \cup {None, Ghost}
      /\ Numbers /\ Requests /\ Scheduled
      /\ \A k \in Chain : k # 0 /\ k \in Nat
  BY Bounds DEF Types, ListenTypes, ServerTypes, CopyTypes, LoadTypes, Listens
<1>b. \A k \in Chain : Goes(k) => asked[k] = k
  BY SteadyFacts

<1>d. ASSUME UNCHANGED <<listening, answer, queue>> PROVE Coming' = Coming
  BY <1>d DEF Coming
<1>1. CASE WaitTask
  <2> DEFINE k == Head(tasks).of
  <2>1. k \in Chain /\ Head(tasks) = Task("wait", k) /\ In(tasks, Task("wait", k)) /\ tasks # <<>>
        /\ tasks' = Tail(tasks)
    BY <1>1, HeadTask, TaskKinds, InType DEF Types, WaitTask, ListenTypes
  <2>2. chain' = [chain EXCEPT ![k] = "sent"]
        /\ UNCHANGED <<listening, answer, queue, starts, load, reloadNeeded, failed, bulk>>
    BY <1>1 DEF WaitTask, Wait, serverVars, loadVars
  <2> HIDE DEF k
  <2>3. chain[k] = "task"
    BY <1>a, <2>1 DEF Scheduled
  <2>4. In(tasks, SyncError) => In(tasks', SyncError)
    BY <1>a, <2>1, TaskFacts, InTail
  <2>5. listening # 0 /\ chain[listening] = "broken" => chain'[listening] = "broken"
    BY <1>a, <2>1, <2>2, <2>3
  <2> QED
    BY <1>d, <2>2, <2>4, <2>5, DueKept
<1>2. CASE SyncErrorTask
  BY <1>2 DEF SyncErrorTask, Due
<1>3. CASE SyncTask
  <2>1. tasks # <<>> /\ tasks' = Tail(tasks) /\ Head(tasks).what = "sync"
        /\ UNCHANGED <<listening, answer, queue, starts, chain, bulk>>
    BY <1>3 DEF SyncTask, serverVars, listenVars
  <2>2. CASE reloadNeeded \/ failed
    <3>1. Min(FreeLoads) \in Load /\ BeginLoad(Min(FreeLoads), {}, NoStates, load)
      BY <1>3, <2>2, MinFree DEF SyncTask
    <3> QED
      BY <3>1, LoadsBegin
  <2>3. CASE ~(reloadNeeded \/ failed)
    <3>1. load' = load
      BY <1>3, <2>3 DEF SyncTask, loadVars
    <3>2. In(tasks, SyncError) => In(tasks', SyncError)
      BY <1>a, <2>1, TaskFacts, InTail
    <3> QED
      BY <1>d, <2>1, <2>3, <3>1, <3>2, DueKept
  <2> QED
    BY <2>2, <2>3
<1>4. CASE BulkTask
  <2>1. tasks # <<>> /\ tasks' = Tail(tasks) /\ Head(tasks) = Bulk
        /\ UNCHANGED <<answer, queue, load, failed>>
    BY <1>4 DEF BulkTask, serverVars, loadVars
  <2>2. CASE \E j \in 1..Len(bulk) : bulk[j].kind = "full"
    BY <1>4, <2>2 DEF BulkTask, Due
  <2>3. CASE ~\E j \in 1..Len(bulk) : bulk[j].kind = "full"
    <3>1. UNCHANGED <<reloadNeeded, listening, starts, chain>>
      BY <1>4, <2>3 DEF BulkTask
    <3>2. In(tasks, SyncError) => In(tasks', SyncError)
      BY <1>a, <2>1, TaskFacts, InTail
    <3>3. \A e : e.kind = "full" => ~In(bulk, e)
      BY <2>3 DEF In
    <3> QED
      BY <1>d, <2>1, <3>1, <3>2, <3>3, DueKept
  <2> QED
    BY <2>2, <2>3
<1>5. CASE AccessGranted
  <2>1. PICK f \in SUBSET Part, states \in [Item -> {0, 1}] : BeginLoad(1, f, states, load)
    BY <1>5 DEF AccessGranted
  <2>2. \A n \in Load, p \in Part : get[n][p] = "none"
    BY <1>5 DEF AccessGranted, FirstLoad
  <2>3. \A i \in Item : Loads(i)'
    BY <2>1, <2>2, LoadsBegin, Bounds
  <2> QED
    BY <2>3
<1>6. CASE Start
  <2>1. UNCHANGED <<log, queue, answer, known, listener, tasks, load, bulk, failed, reloadNeeded>>
        /\ ~started /\ StartListening
    BY <1>6 DEF Start, serverVars, bounds, loadVars, cacheVars
  <2>2. starts = 0 /\ listening = 0
    BY <1>a, <2>1 DEF Numbers
  <2>3. Coming' = Coming \/ Due'
    BY <1>6, ComingKept
  <2> QED
    BY <2>1, <2>2, <2>3, DueKept
<1>7. ASSUME NEW k \in Chain, Receive(k) PROVE Due'
  <2>1. chain[k] = "answered" /\ asked[k] = k /\ answer' = [answer EXCEPT ![k] = <<>>]
        /\ UNCHANGED <<queue, listening, starts, reloadNeeded, failed, load>>
    BY <1>7, <1>b DEF Receive, Goes, serverVars, loadVars
  <2>2. CASE asked[k] # listening
    <3>1. chain' = [chain EXCEPT ![k] = "over"] /\ UNCHANGED <<tasks, bulk>> /\ k # listening
      BY <1>7, <2>1, <2>2 DEF Receive
    <3>2. listening # 0 => chain'[listening] = chain[listening] /\ answer'[listening] = answer[listening]
      BY <1>a, <2>1, <3>1
    <3>3. Coming' = Coming
      BY <2>1, <3>2 DEF Coming
    <3> QED
      BY <2>1, <3>1, <3>2, <3>3, DueKept
  <2>3. CASE asked[k] = listening
    <3> DEFINE s == <<Task("wait", k), Sync>>
               ts == tasks \o s
    <3>1. s \in Seq(TaskType)
      <4>1. Task("wait", k) \in TaskType /\ Sync \in TaskType
        BY TaskFacts DEF Types, ListenTypes
      <4> QED
        BY <4>1
    <3> HIDE DEF s
    <3>2. ts \in Seq(TaskType) /\ \A t : In(tasks, t) => In(ts, t)
      BY <1>a, <3>1, ConcatProperties, InConcat
    <3>3. Gather(answer[k], ready, ts) /\ k = listening /\ listening # 0
      BY <1>7, <1>a, <2>1, <2>3 DEF Receive, s
    <3> HIDE DEF ts
    <3>4. In(tasks, SyncError) => In(tasks', SyncError)
      BY <3>2, <3>3, GatherTasks, TaskFacts
    <3>5. bulk' = bulk \o answer[k] /\ answer[k] \in Seq(EventType)
      BY <1>a, <3>3 DEF Gather
    <3>6. \A e : In(bulk', e) <=> In(bulk, e) \/ In(answer[k], e)
      BY <1>a, <3>5, InConcat
    <3>7. Coming = answer[k] \o queue /\ Coming' = <<>> \o queue
      BY <1>a, <2>1, <3>3 DEF Coming
    <3>8. Coming' = queue
      BY <1>a, <3>7, ConcatEmptySeq
    <3>9. \A e : In(Coming, e) => In(answer[k], e) \/ In(queue, e)
      BY <1>a, <3>5, <3>7, InConcat
    <3> QED
      BY <2>1, <3>3, <3>4, <3>6, <3>8, <3>9, DueKept
  <2> QED
    BY <2>2, <2>3
<1>8. ASSUME NEW k \in Chain, Error(k) PROVE Due'
  <2>1. chain[k] = "broken" /\ asked[k] = k
        /\ UNCHANGED <<queue, listening, starts, reloadNeeded, failed, answer, bulk, load>>
    BY <1>8, <1>b DEF Error, Goes, serverVars, cacheVars, loadVars
  <2>2. CASE asked[k] # listening
    <3>1. chain' = [chain EXCEPT ![k] = "over"] /\ tasks' = tasks /\ k # listening
      BY <1>8, <2>1, <2>2 DEF Error
    <3>2. listening # 0 => chain'[listening] = chain[listening]
      BY <1>a, <2>1, <3>1
    <3> QED
      BY <1>d, <2>1, <3>1, <3>2, DueKept
  <2>3. CASE asked[k] = listening
    <3>1. tasks' = Append(tasks, SyncError) /\ SyncError' = SyncError
      BY <1>8, <2>1, <2>3 DEF Error, SyncError, Task
    <3>2. In(tasks', SyncError)
      BY <1>a, <3>1, TaskFacts, InAppend
    <3> QED
      BY <3>1, <3>2 DEF Due
  <2> QED
    BY <2>2, <2>3
<1>9. ASSUME NEW k \in Chain, TimerFires(k) PROVE Due'
  <2>1. chain[k] = "timer" /\ chain' = [chain EXCEPT ![k] = "sent"]
        /\ UNCHANGED <<queue, listening, starts, reloadNeeded, failed, answer, bulk, load, tasks>>
    BY <1>9 DEF TimerFires, Wait, serverVars, loadVars
  <2>2. listening # 0 /\ chain[listening] = "broken" => chain'[listening] = "broken"
    BY <1>a, <2>1
  <2> QED
    BY <1>d, <2>1, <2>2, DueKept
<1>10. ASSUME NEW l \in Load, RetryLoad(l) PROVE \A i \in Item : Loads(i)'
  <2>1. Min(FreeLoads) \in Load /\ BeginLoad(Min(FreeLoads), {}, NoStates, [load EXCEPT ![l] = "none"])
    BY <1>10, MinFree DEF RetryLoad
  <2> QED
    BY <2>1, LoadsBegin
<1>11. ASSUME NEW l \in Load, NEW p \in Part, GetAnswered(l, p) PROVE Due'
  <2>1. UNCHANGED <<queue, listening, starts, reloadNeeded, failed, answer, chain>>
        /\ load' = IF waitsFor[l] = {p} THEN [load EXCEPT ![l] = "none"] ELSE load
    BY <1>11 DEF GetAnswered, serverVars, listenVars
  <2>2. \A n \in Load : load[n] \in {"start", "retry"} => load'[n] = load[n]
    BY <1>a, <2>1 DEF Awaited
  <2>3. (In(tasks, SyncError) => In(tasks', SyncError)) /\ \A e : In(bulk, e) => In(bulk', e)
    <3>1. CASE p \in loaded
      <4>1. Gather(FakeEvents(p, got[l][p]), ready, tasks) /\ got[l][p] \in States /\ cache \in States
        BY <1>11, <3>1 DEF GetAnswered, Types, LoadTypes, CopyTypes
      <4>2. FakeEvents(p, got[l][p]) \in Seq(EventType)
        BY <4>1, FakeEventsFacts
      <4>3. bulk' = bulk \o FakeEvents(p, got[l][p])
        BY <4>1 DEF Gather
      <4> QED
        BY <1>a, <4>1, <4>2, <4>3, GatherTasks, TaskFacts, InConcat
    <3>2. CASE p \notin loaded
      BY <1>11, <3>2 DEF GetAnswered
    <3> QED
      BY <3>1, <3>2
  <2> QED
    BY <1>d, <2>1, <2>2, <2>3, DueKept
<1>12. ASSUME NEW l \in Load, NEW p \in Part, ServeGet(l, p) \/ GetFails(l, p) PROVE Due'
  <2>1. UNCHANGED <<queue, listening, starts, chain, answer, tasks, bulk, reloadNeeded, failed>>
    BY <1>12 DEF ServeGet, GetFails, serverVars, listenVars, cacheVars
  <2>2. load' = load \/ load' = [load EXCEPT ![l] = "retry"]
    BY <1>12 DEF ServeGet, GetFails
  <2>3. CASE load' = load
    BY <1>d, <2>1, <2>3, DueKept
  <2>4. CASE load' = [load EXCEPT ![l] = "retry"]
    BY <1>a, <2>4 DEF Due
  <2> QED
    BY <2>2, <2>3, <2>4
<1>13. CASE Arrives \/ Respond \/ Expire \/ \E k \in Chain : Break(k)
  <2>1. UNCHANGED <<listening, starts, reloadNeeded, failed, tasks, bulk, load>>
    BY <1>13 DEF Arrives, Respond, Expire, Break, cacheVars, loadVars, listenVars
  <2>2. Coming' = Coming \/ Due'
    BY <1>13, ComingKept
  <2>3. listening # 0 /\ chain[listening] = "broken" => chain'[listening] = "broken"
    <3>1. CASE Arrives
      <4> DEFINE k == Head(wire)
      <4>1. chain[k] = "sent" /\ k \in Chain
        BY <1>a, <3>1, HeadTailProperties, InType DEF Arrives, Requests
      <4>2. \/ listener \in Chain /\ chain' = [chain EXCEPT ![k] = "waiting", ![listener] = "answered"]
            \/ chain' = [chain EXCEPT ![k] = "waiting"]
            \/ chain' = [chain EXCEPT ![k] = "answered"]
        BY <3>1 DEF Arrives
      <4>3. listener \in Chain => chain[listener] = "waiting"
        BY <1>a DEF Requests
      <4> HIDE DEF k
      <4> QED
        BY <1>a, <4>1, <4>2, <4>3
    <3>2. CASE Respond
      BY <1>a, <3>2 DEF Respond, Requests
    <3>3. CASE Expire
      BY <3>3 DEF Expire, listenVars
    <3>4. ASSUME NEW k \in Chain, Break(k) PROVE listening # 0 /\ chain[listening] = "broken" => chain'[listening] = "broken"
      BY <1>a, <3>4 DEF Break
    <3> QED
      BY <1>13, <3>1, <3>2, <3>3, <3>4
  <2> QED
    BY <2>1, <2>2, <2>3, DueKept
<1>14. CASE Deactivate
  <2>1. listening' = 0 /\ UNCHANGED <<starts, reloadNeeded, failed, tasks, bulk, load, chain>>
    BY <1>14 DEF Deactivate, cacheVars, loadVars
  <2>2. CASE starts # 0
    BY <2>1, <2>2 DEF Due
  <2>3. CASE starts = 0
    <3>1. listening = 0 /\ (Coming' = Coming \/ Due')
      BY <1>a, <1>14, <2>3, ComingKept DEF Numbers
    <3> QED
      BY <2>1, <2>3, <3>1, DueKept
  <2> QED
    BY <2>2, <2>3
<1>15. CASE Activate
  <2>1. UNCHANGED <<answer, queue, failed, tasks, bulk, load>>
    BY <1>15 DEF Activate, serverVars, loadVars
  <2>2. CASE reloadNeeded'
    BY <2>2 DEF Due
  <2>3. CASE UNCHANGED <<reloadNeeded, listening, starts, chain>>
    BY <1>d, <2>1, <2>3, DueKept
  <2> QED
    BY <1>15, <2>2, <2>3 DEF Activate
<1>16. ASSUME NEW i \in Item, Change(i) \/ FullUpdate(i) PROVE Due'
  <2>1. PICK e \in EventType : Push(e)
    BY <1>16, ChangeFacts
  <2>2. UNCHANGED <<listening, starts, answer, chain, failed, reloadNeeded, tasks, bulk, load>>
        /\ (queue' = Append(queue, e) \/ queue' = queue)
    BY <1>16, <2>1, ChangeFacts DEF listenVars, loadVars, Push
  <2>3. \A x : In(Coming, x) => In(Coming', x)
    <3> DEFINE s == IF listening # 0 THEN answer[listening] ELSE <<>>
    <3>1. s \in Seq(EventType) /\ Coming = s \o queue
      BY ComingType
    <3>2. Coming' = s \o queue'
      BY <2>2 DEF Coming
    <3> HIDE DEF s
    <3>3. CASE queue' = queue
      BY <3>1, <3>2, <3>3
    <3>4. CASE queue' = Append(queue, e)
      <4>1. queue' \in Seq(EventType) /\ \A x : In(queue, x) => In(queue', x)
        BY <1>a, <3>4, AppendProperties, InAppend
      <4>2. \A x : In(s \o queue, x) <=> In(s, x) \/ In(queue, x)
        BY <1>a, <3>1, InConcat
      <4>3. \A x : In(s \o queue', x) <=> In(s, x) \/ In(queue', x)
        BY <3>1, <4>1, InConcat
      <4> QED
        BY <3>1, <3>2, <4>1, <4>2, <4>3
    <3> QED
      BY <2>2, <3>3, <3>4
  <2> QED
    BY <2>2, <2>3, DueKept
<1>17. CASE UNCHANGED vars
  <2>1. UNCHANGED <<listening, answer, queue, starts, load, reloadNeeded, failed, tasks, chain, bulk>>
    BY <1>17 DEF vars, serverVars, listenVars, cacheVars, loadVars
  <2> QED
    BY <1>d, <2>1, DueKept
<1> QED
  BY <1>1, <1>2, <1>3, <1>4, <1>5, <1>6, <1>7, <1>8, <1>9, <1>10, <1>11, <1>12, <1>13, <1>14,
     <1>15, <1>16, <1>17
  DEF Next, ClientStep, NetworkStep, Trouble, World

LEMMA FromRange ==
  ASSUME Types, Session
  PROVE  From \in 0..Len(log) /\ Len(log) \in Nat /\ Len(Coming) \in Nat /\ log \in Seq(EventType)
<1>1. log \in Seq(EventType) /\ Len(log) \in Nat /\ Len(Coming) \in Nat
  BY ComingType, LenProperties DEF Types, ServerTypes
<1>2. Len(Coming) <= Len(log)
  BY DEF Session, EndsIn
<1> QED
  BY <1>1, <1>2 DEF From

\* A step that leaves alone what the client has, and what is to come.
LEMMA FollowsKept ==
  ASSUME NEW i \in Item, Follows(i), log' = log, Coming' = Coming \/ Due',
         UNCHANGED <<get, got, waitsFor, unconfirmed, seen, overtaken, untold>>, Copy' = Copy \/ Due',
         Due => Due' \/ Loads(i)'
  PROVE  Follows(i)'
<1>1. CASE Due \/ Due'
  BY <1>1 DEF Follows
<1>2. CASE ~Due /\ ~Due'
  <2>1. From' = From /\ Copy' = Copy
    BY <1>2 DEF From
  <2>2. CASE i \in untold
    BY <2>2 DEF Follows
  <2>3. CASE Loads(i)
    <3>1. \A l \in Load : Helpful(l, i) => Helpful(l, i)'
      BY <2>1 DEF Helpful, Fresh, Informed
    <3>2. Loads(i)'
      BY <2>3, <3>1 DEF Loads
    <3> QED
      BY <3>2 DEF Follows
  <2>4. CASE Agreeing(i)
    <3>1. Agreeing(i)'
      BY <2>1, <2>4 DEF Agreeing, Informed
    <3> QED
      BY <3>1 DEF Follows
  <2> QED
    BY <1>2, <2>2, <2>3, <2>4 DEF Follows
<1> QED
  BY <1>1, <1>2

\* A GET is served with what is there.
LEMMA ServeFollows ==
  ASSUME Types, Logged, Session, NEW l \in Load, NEW p \in Part, ServeGet(l, p), NEW i \in Item,
         Follows(i), Due => Due' \/ Loads(i)'
  PROVE  Follows(i)'
<1>1. /\ get[l][p] = "asked" /\ get' = [get EXCEPT ![l][p] = "answered"]
      /\ got' = [got EXCEPT ![l][p] = [n \in Item |-> IF PartOf[n] = p THEN server[n] ELSE 0]]
      /\ UNCHANGED <<log, queue, listening, answer, waitsFor, unconfirmed, untold, seen, overtaken, cache, bulk>>
  BY DEF ServeGet, serverVars, listenVars, cacheVars, bounds
<1>2. /\ get \in [Load -> [Part -> {"none", "asked", "answered"}]] /\ PartOf[i] \in Part
      /\ got \in [Load -> [Part -> States]]
  BY Bounds DEF Types, LoadTypes
<1>3. From' = From /\ Copy' = Copy
  BY <1>1 DEF From, Coming, Copy
<1>4. ASSUME NEW n \in Load, Helpful(n, i) PROVE Helpful(n, i)'
  <2>1. CASE n = l /\ PartOf[i] = p
    <3>1. get'[n][PartOf[i]] = "answered" /\ got'[n][PartOf[i]][i] = server[i]
      BY <1>1, <1>2, <2>1
    <3>2. server[i] = StateIn(log, i, Len(log)) /\ Len(log) \in From..Len(log)
      BY FromRange DEF Logged
    <3>3. \E m \in From'..Len(log') : got'[n][PartOf[i]][i] = StateIn(log', i, m)
      BY <1>1, <1>3, <3>1, <3>2
    <3> QED
      BY <3>1, <3>3 DEF Helpful, Fresh
  <2>2. CASE ~(n = l /\ PartOf[i] = p)
    <3>1. get'[n][PartOf[i]] = get[n][PartOf[i]] /\ got'[n][PartOf[i]] = got[n][PartOf[i]]
      BY <1>1, <1>2, <2>2
    <3> QED
      BY <1>1, <1>3, <1>4, <3>1 DEF Helpful, Fresh, Informed
  <2> QED
    BY <2>1, <2>2
<1>5. ASSUME NEW n \in Load, get[n][PartOf[i]] = "none" PROVE get'[n][PartOf[i]] = "none"
  BY <1>1, <1>2, <1>5
<1>6. Loads(i) => Loads(i)'
  BY <1>1, <1>4, <1>5 DEF Loads
<1>7. Agreeing(i) => Agreeing(i)'
  BY <1>1, <1>3 DEF Agreeing, Informed
<1> QED
  BY <1>1, <1>6, <1>7 DEF Follows

\* A GET fails: a load that waited for it is tried again.
LEMMA FailFollows ==
  ASSUME Types, Session, NEW l \in Load, NEW p \in Part, GetFails(l, p), NEW i \in Item,
         Follows(i), Due => Due' \/ Loads(i)'
  PROVE  Follows(i)'
<1>1. /\ get' = [get EXCEPT ![l][p] = "none"] /\ got' = [got EXCEPT ![l][p] = NoStates]
      /\ UNCHANGED <<log, queue, listening, answer, unconfirmed, untold, seen, overtaken, cache, bulk>>
  BY DEF GetFails, serverVars, listenVars, cacheVars
<1>2. /\ get \in [Load -> [Part -> {"none", "asked", "answered"}]] /\ PartOf[i] \in Part
      /\ got \in [Load -> [Part -> States]] /\ load \in [Load -> LoadStates]
  BY Bounds DEF Types, LoadTypes
<1>3. From' = From /\ Copy' = Copy
  BY <1>1 DEF From, Coming, Copy
<1>4. CASE p \in waitsFor[l]
  <2>1. load' = [load EXCEPT ![l] = "retry"]
    BY <1>4 DEF GetFails
  <2>2. Due'
    BY <1>2, <2>1 DEF Due
  <2> QED
    BY <2>2 DEF Follows
<1>5. CASE p \notin waitsFor[l]
  <2>1. waitsFor' = waitsFor
    BY <1>5 DEF GetFails
  <2>2. ASSUME NEW n \in Load, Helpful(n, i), ~(n = l /\ PartOf[i] = p) PROVE Helpful(n, i)'
    <3>1. get'[n][PartOf[i]] = get[n][PartOf[i]] /\ got'[n][PartOf[i]] = got[n][PartOf[i]]
      BY <1>1, <1>2, <2>2
    <3> QED
      BY <1>1, <1>3, <2>2, <3>1 DEF Helpful, Fresh, Informed
  <2>3. ASSUME NEW n \in Load, get[n][PartOf[i]] = "none" \/ (n = l /\ PartOf[i] = p)
        PROVE  get'[n][PartOf[i]] = "none"
    BY <1>1, <1>2, <2>3
  <2>4. Loads(i) => Loads(i)'
    <3>1. ASSUME NEW n \in Load, PartOf[i] \in waitsFor[n], Helpful(n, i) PROVE Loads(i)'
      <4>1. Helpful(n, i)'
        BY <1>5, <2>2, <3>1
      <4> QED
        BY <2>1, <3>1, <4>1 DEF Loads
    <3>2. ASSUME PartOf[i] \in unconfirmed, \A n \in Load : get[n][PartOf[i]] = "none" \/ Helpful(n, i)
          PROVE Loads(i)'
      BY <1>1, <2>2, <2>3, <3>2 DEF Loads
    <3> QED
      BY <3>1, <3>2 DEF Loads
  <2>5. Agreeing(i) => Agreeing(i)'
    BY <1>1, <1>3 DEF Agreeing, Informed
  <2> QED
    BY <1>1, <2>4, <2>5 DEF Follows
<1> QED
  BY <1>4, <1>5

\* The server changes: the session keeps the event, or the client will load, or the change
\* is untold.
LEMMA ChangeFollows ==
  ASSUME Types, Types', Logged, Listens, Session, Session', NEW j \in Item, Change(j) \/ FullUpdate(j),
         NEW i \in Item, Follows(i), Due => Due' \/ Loads(i)'
  PROVE  Follows(i)'
<1>1. PICK e \in EventType : e.item = j /\ Push(e) /\ log' = Append(log, e)
  BY ChangeFacts
<1>2. /\ UNCHANGED <<known, listening, answer, starts, chain, tasks, reloadNeeded, failed, get, got, waitsFor,
                     unconfirmed, seen, overtaken, cache, bulk>>
      /\ queue' = IF known THEN Append(queue, e) ELSE queue
      /\ untold' = IF starts = 0 \/ (wire = <<1>> /\ ~known /\ ~failed)
                   THEN untold \cup {j} ELSE untold
  BY <1>1, ChangeFacts DEF listenVars, loadVars, Push
<1>3. /\ From \in 0..Len(log) /\ Len(log) \in Nat /\ log \in Seq(EventType) /\ queue \in Seq(EventType)
      /\ Len(log') = Len(log) + 1 /\ Copy' = Copy
  BY <1>1, <1>2, FromRange, AppendProperties, ComingType DEF Copy
<1>4. /\ \A n \in 0..Len(log) : StateIn(log', i, n) = StateIn(log, i, n)
      /\ StateIn(log', i, Len(log) + 1) = IF j = i THEN e.state ELSE StateIn(log, i, Len(log))
  <2>1. \A n \in 0..Len(log) : StateIn(Append(log, e), i, n) = StateIn(log, i, n)
    BY <1>3, HistoryAppend
  <2>2. StateIn(Append(log, e), i, Len(log) + 1) = IF e.item = i THEN e.state ELSE StateIn(log, i, Len(log))
    BY <1>3, HistoryAppend
  <2> QED
    BY <1>1, <2>1, <2>2
<1>5. CASE Due
  BY <1>5 DEF Follows
<1>6. CASE ~Due
  <2>1. CASE known
    <3>1. From' = From
      <4> DEFINE s == IF listening # 0 THEN answer[listening] ELSE <<>>
      <4>1. s \in Seq(EventType) /\ Coming = s \o queue
        BY ComingType
      <4>2. Coming' = s \o Append(queue, e)
        BY <1>2, <2>1 DEF Coming
      <4> HIDE DEF s
      <4>3. Append(queue, e) \in Seq(EventType) /\ Len(Append(queue, e)) = Len(queue) + 1
        BY <1>3, AppendProperties
      <4>4. Len(Coming) = Len(s) + Len(queue) /\ Len(Coming') = Len(s) + (Len(queue) + 1)
        BY <1>3, <4>1, <4>2, <4>3, ConcatProperties
      <4>5. Len(s) \in Nat /\ Len(queue) \in Nat
        BY <1>3, <4>1, LenProperties
      <4> QED
        BY <1>3, <4>4, <4>5 DEF From
    <3>2. Informed(i)' <=> Informed(i)
      BY <1>2, <1>3, <1>4, <3>1 DEF Informed
    <3>3. ASSUME NEW v, Fresh(v, i) PROVE \E n \in From'..Len(log') : v = StateIn(log', i, n)
      <4>1. PICK n \in From..Len(log) : v = StateIn(log, i, n)
        BY <3>3 DEF Fresh
      <4>2. n \in 0..Len(log) /\ n \in From'..Len(log')
        BY <1>3, <3>1
      <4> QED
        BY <1>4, <4>1, <4>2
    <3>4. \A l \in Load : Helpful(l, i) => Helpful(l, i)'
      <4>1. ASSUME NEW l \in Load, Helpful(l, i) PROVE Helpful(l, i)'
        BY <1>2, <3>2, <3>3, <4>1 DEF Helpful, Fresh
      <4> QED
        BY <4>1
    <3>5. Loads(i) => Loads(i)'
      BY <1>2, <3>4 DEF Loads
    <3>6. Agreeing(i) => Agreeing(i)'
      <4>1. ASSUME CurrentIn(log, From, Copy[i], i) PROVE CurrentIn(log', From', Copy'[i], i)
        <5>1. PICK n \in From..Len(log) : Same(Copy[i], StateIn(log, i, n))
          BY <4>1 DEF CurrentIn
        <5>2. n \in 0..Len(log) /\ n \in From'..Len(log')
          BY <1>3, <3>1
        <5>3. Same(Copy'[i], StateIn(log', i, n))
          BY <1>3, <1>4, <5>1, <5>2
        <5> QED
          BY <5>2, <5>3 DEF CurrentIn
      <4> QED
        BY <1>2, <3>2, <4>1 DEF Agreeing
    <3> QED
      BY <1>2, <1>6, <3>5, <3>6 DEF Follows
  <2>2. CASE ~known
    <3>1. queue = <<>>
      BY <2>2 DEF Listens, Requests
    <3>2. CASE listening # 0 /\ Unsure
      BY <1>2, <3>2, UnsureDue DEF Follows
    <3>3. CASE (listening # 0 /\ First) \/ listening = 0
      <4>1. Coming = <<>>
        <5>1. listening # 0 => answer[listening] = <<>>
          <6>1. First => In(wire, 1)
            BY DEF First, In
          <6>2. First => chain[1] = "sent"
            BY <6>1, Bounds DEF Listens, Requests
          <6>3. First => answer[1] = <<>>
            BY <6>2, Bounds DEF Listens, Requests
          <6> QED
            BY <3>3, <6>3 DEF First
        <5> QED
          BY <3>1, <5>1, <1>3, ConcatEmptySeq DEF Coming
      <4>2. Coming' = Coming
        BY <1>2, <2>2 DEF Coming
      <4>3. From = Len(log) /\ From' = Len(log) + 1
        BY <1>3, <4>1, <4>2 DEF From
      <4>4. j \in untold' \/ Due'
        <5>1. listening = 0 => starts = 0 \/ Due'
          BY <1>2 DEF Due
        <5>2. First => wire = <<1>>
          BY DEF First
        <5>3. failed => Due'
          BY <1>2 DEF Due
        <5> QED
          BY <1>2, <2>2, <3>3, <5>1, <5>2, <5>3
      <4>5. CASE i = j
        BY <4>4, <4>5 DEF Follows
      <4>6. CASE i # j
        <5>1. StateIn(log', i, From') = StateIn(log, i, From)
          BY <1>4, <4>3, <4>6
        <5>2. Informed(i)' <=> Informed(i)
          BY <1>2, <5>1 DEF Informed
        <5>3. \A n \in From..Len(log) : StateIn(log, i, n) = StateIn(log', i, From')
          BY <1>3, <4>3, <5>1
        <5>4. From' \in From'..Len(log')
          BY <1>3, <4>3
        <5>5. \A v : Fresh(v, i) => \E n \in From'..Len(log') : v = StateIn(log', i, n)
          BY <5>3, <5>4 DEF Fresh
        <5>6. \A l \in Load : Helpful(l, i) => Helpful(l, i)'
          BY <1>2, <5>2, <5>5 DEF Helpful, Fresh
        <5>7. Loads(i) => Loads(i)'
          BY <1>2, <5>6 DEF Loads
        <5>8. CurrentIn(log, From, Copy[i], i) => CurrentIn(log', From', Copy'[i], i)
          BY <1>3, <5>3, <5>4 DEF CurrentIn
        <5>9. Agreeing(i) => Agreeing(i)'
          BY <1>2, <5>2, <5>8 DEF Agreeing
        <5> QED
          BY <1>2, <1>6, <5>7, <5>9 DEF Follows
      <4> QED
        BY <4>5, <4>6
    <3> QED
      BY <2>2, <3>2, <3>3 DEF Session
  <2> QED
    BY <2>1, <2>2
<1> QED
  BY <1>5, <1>6

\* An answer is received: what it tells is applied to the copy, and nothing that was in use
\* is older than it.
LEMMA ReceiveFollows ==
  ASSUME Types, Types', Logged, Listens, Steady, Session, Session', NEW k \in Chain, Receive(k),
         NEW i \in Item, Follows(i), Due => Due' \/ Loads(i)'
  PROVE  Follows(i)'
<1>1. /\ chain[k] = "answered" /\ asked[k] = k /\ answer' = [answer EXCEPT ![k] = <<>>]
      /\ UNCHANGED <<log, queue, listening, get, got, waitsFor, unconfirmed, overtaken, untold, cache>>
  BY SteadyFacts DEF Receive, Goes, serverVars, loadVars, bounds
<1>a. /\ answer \in [Chain -> Seq(EventType)] /\ bulk \in Seq(EventType) /\ cache \in States
      /\ queue \in Seq(EventType) /\ seen \in [Item -> Nat] /\ k # 0
  BY Bounds DEF Types, ListenTypes, ServerTypes, CopyTypes
<1>2. CASE asked[k] # listening
  <2>1. UNCHANGED <<bulk, seen>> /\ k # listening
    BY <1>1, <1>2 DEF Receive
  <2>2. listening # 0 => answer'[listening] = answer[listening]
    BY <1>a, <1>1, <2>1 DEF Types, ListenTypes
  <2>3. Coming' = Coming /\ Copy' = Copy
    BY <1>1, <2>1, <2>2 DEF Coming, Copy
  <2> QED
    BY <1>1, <2>1, <2>3, FollowsKept
<1>3. CASE asked[k] = listening
  <2> DEFINE s == answer[k]
  <2>1. /\ bulk' = bulk \o s /\ s \in Seq(EventType) /\ k = listening
        /\ seen'[i] = Max({seen[i]} \cup Ages(s, i))
    BY <1>a, <1>1, <1>3 DEF Receive, Gather
  <2>2. Coming = s \o queue /\ Coming' = <<>> \o queue
    BY <1>a, <1>1, <2>1 DEF Coming
  <2> HIDE DEF s
  <2>3. Coming' = queue
    BY <1>a, <2>2, ConcatEmptySeq
  <2>4. /\ Len(Coming) = Len(s) + Len(queue) /\ Len(s) \in Nat /\ Len(queue) \in Nat
        /\ \A j \in 1..Len(s) : Coming[j] = s[j]
    BY <1>a, <2>1, <2>2, ConcatProperties, LenProperties
  <2>5. /\ From \in 0..Len(log) /\ Len(log) \in Nat /\ log \in Seq(EventType)
        /\ From' = From + Len(s) /\ From' \in From..Len(log)
        /\ From = Len(log) - Len(Coming)
    <3>1. /\ From \in 0..Len(log) /\ Len(log) \in Nat /\ log \in Seq(EventType) /\ Len(Coming) \in Nat
          /\ From = Len(log) - Len(Coming)
      BY FromRange DEF From
    <3>2. From' = Len(log) - Len(queue)
      BY <1>1, <2>3 DEF From
    <3> QED
      BY <2>4, <3>1, <3>2
  <2>6. \A j \in 1..Len(s) : s[j] = log[From + j] /\ In(s, s[j])
    <3>1. \A j \in 1..Len(Coming) : Coming[j] = log[Len(log) - Len(Coming) + j]
      BY DEF Session, EndsIn
    <3>2. \A j \in 1..Len(s) : j \in 1..Len(Coming)
      BY <2>4
    <3> QED
      BY <2>4, <2>5, <3>1, <3>2 DEF In
  <2>7. seen'[i] \in Nat /\ seen[i] <= seen'[i] /\ \A a \in Ages(s, i) : a <= seen'[i]
    <3> DEFINE A == {seen[i]} \cup Ages(s, i)
    <3>1. Ages(s, i) \in SUBSET Nat /\ IsFiniteSet(Ages(s, i)) /\ seen[i] \in Nat
      BY <1>a, <2>1, AgesFacts
    <3>2. IsFiniteSet(Ages(s, i) \cup {seen[i]}) /\ Ages(s, i) \cup {seen[i]} = A
      BY <3>1, FS_AddElement
    <3>3. A \in SUBSET Nat /\ IsFiniteSet(A) /\ A # {}
      BY <3>1, <3>2
    <3>4. seen[i] \in A /\ \A a \in Ages(s, i) : a \in A
      OBVIOUS
    <3> HIDE DEF A
    <3>5. Max(A) \in A /\ \A a \in A : a <= Max(A)
      BY <3>3, MaxFacts
    <3>6. seen'[i] = Max(A)
      BY <2>1 DEF A
    <3> QED
      BY <3>3, <3>4, <3>5, <3>6
  <2>8. CASE \E j \in 1..Len(s) : s[j].kind = "full"
    <3>1. PICK j \in 1..Len(s) : s[j].kind = "full"
      BY <2>8
    <3>2. In(bulk', s[j])
      BY <1>a, <2>1, <2>6, InConcat
    <3> QED
      BY <3>1, <3>2 DEF Due, Follows
  <2>9. CASE \A j \in 1..Len(s) : s[j].kind # "full"
    <3>1. \/ \A h \in From + 1..From' : log[h].item # i
          \/ Informed(i)'
      <4>1. ASSUME \E h \in From + 1..From' : log[h].item = i PROVE Informed(i)'
        <5>0. History(log)
          BY DEF Logged
        <5>a. (\E h \in From + 1..From' : log[h].item = i) =>
                 \E h \in From + 1..From' : log[h].item = i /\ StateIn(log, i, From') = log[h].state
          BY <2>5, <5>0, StateMono
        <5>1. PICK h \in From + 1..From' : log[h].item = i /\ StateIn(log, i, From') = log[h].state
          BY <4>1, <5>a
        <5>2. h - From \in 1..Len(s) /\ From + (h - From) = h
          BY <2>4, <2>5, <5>1
        <5>3. In(s, log[h]) /\ log[h].kind # "full"
          BY <2>6, <2>9, <5>2
        <5>4. Age(log[h].state) \in Ages(s, i)
          BY <2>1, <5>1, <5>3, AgesFacts
        <5> QED
          BY <1>1, <2>7, <5>1, <5>4 DEF Informed
      <4> QED
        BY <4>1
    <3>2. ASSUME \A h \in From + 1..From' : log[h].item # i
          PROVE  StateIn(log, i, From) = StateIn(log, i, From')
      BY <2>5, <3>2, StateMono DEF Logged
    <3>3. Informed(i) => Informed(i)'
      <4>1. ASSUME Informed(i), \A h \in From + 1..From' : log[h].item # i PROVE Informed(i)'
        <5>1. Age(StateIn(log, i, From')) <= seen[i]
          BY <3>2, <4>1 DEF Informed
        <5>2. Age(StateIn(log, i, From')) \in Int
          <6>1. StateIn(log, i, From') \in Int
            BY <2>5, StateInType
          <6> QED
            BY <6>1 DEF Age
        <5>3. Age(StateIn(log, i, From')) <= seen'[i]
          BY <1>a, <2>7, <5>1, <5>2
        <5> QED
          BY <1>1, <5>3 DEF Informed
      <4> QED
        BY <3>1, <4>1
    <3>4. ASSUME NEW v, Fresh(v, i), ~Informed(i)' PROVE \E n \in From'..Len(log') : v = StateIn(log', i, n)
      <4>1. PICK n \in From..Len(log) : v = StateIn(log, i, n)
        BY <3>4 DEF Fresh
      <4>2. CASE n >= From'
        BY <1>1, <2>5, <4>1, <4>2
      <4>3. CASE ~(n >= From')
        <5>1. n \in 0..Len(log) /\ From' \in n..Len(log) /\ \A h \in n + 1..From' : h \in From + 1..From'
          BY <2>5, <4>3
        <5>2. \A h \in n + 1..From' : log[h].item # i
          BY <3>1, <3>4, <5>1
        <5>3. StateIn(log, i, n) = StateIn(log, i, From')
          BY <2>5, <5>1, <5>2, StateMono DEF Logged
        <5> QED
          BY <1>1, <2>5, <4>1, <5>3
      <4> QED
        BY <4>2, <4>3
    <3>5. ASSUME NEW l \in Load, Helpful(l, i) PROVE Helpful(l, i)'
      BY <1>1, <3>3, <3>4, <3>5 DEF Helpful, Fresh
    <3>6. Loads(i) => Loads(i)'
      BY <1>1, <3>5 DEF Loads
    <3>7. Agreeing(i) => Agreeing(i)'
      <4>1. ASSUME CurrentIn(log, From, Copy[i], i) PROVE CurrentIn(log', From', Copy'[i], i)
        <5>1. Copy \in States
          BY <1>a, UpdatedType DEF Copy
        <5>2. Copy' = Updated(Copy, s)
          BY <1>a, <1>1, <2>1, UpdatedJoin DEF Copy
        <5>3. CurrentIn(log, From + Len(s), Updated(Copy, s)[i], i)
          <6>1. History(log) /\ From + Len(s) <= Len(log)
            BY <2>4, <2>5 DEF Logged
          <6>2. \A j \in 1..Len(s) : s[j] = log[From + j] /\ s[j].kind # "full"
            BY <2>6, <2>9
          <6> QED
            BY <2>1, <2>5, <4>1, <5>1, <6>1, <6>2, CatchUp
        <5> QED
          BY <1>1, <2>5, <5>2, <5>3
      <4> QED
        BY <1>1, <3>3, <4>1 DEF Agreeing
    <3> QED
      BY <1>1, <3>6, <3>7 DEF Follows
  <2> QED
    BY <2>8, <2>9
<1> QED
  BY <1>2, <1>3

LEMMA StateAge ==
  ASSUME NEW s \in Seq(EventType), History(s), NEW i, NEW n \in 0..Len(s)
  PROVE  StateIn(s, i, n) \in Int /\ Age(StateIn(s, i, n)) \in Nat /\ Age(StateIn(s, i, n)) >= 1
<1>1. Len(s) \in Nat /\ 0 \in 0..Len(s)
  BY LenProperties
<1>2. StateIn(s, i, n) \in Int
  BY StateInType
<1>3. StateIn(s, i, 0) = 1 /\ Age(1) = 1
  BY StateInStep DEF Age
<1>4. StateIn(s, i, 0) = StateIn(s, i, n) \/ Age(StateIn(s, i, 0)) < Age(StateIn(s, i, n))
  BY <1>1, StateMono
<1>5. Age(StateIn(s, i, n)) \in Nat
  BY <1>2 DEF Age
<1> QED
  BY <1>2, <1>3, <1>4, <1>5

LEMMA CurrentAlike ==
  ASSUME NEW s, NEW f, NEW v, NEW w, NEW i, Same(v, w), CurrentIn(s, f, w, i)
  PROVE  CurrentIn(s, f, v, i)
BY DEF CurrentIn, Same

\* What an answer does to the copy: nothing to the items of other parts; the items of its
\* part are as it tells, unless events of theirs have not been applied.
LEMMA AnswerCopy ==
  ASSUME Types, NEW l \in Load, NEW p \in Part, GetAnswered(l, p), NEW i \in Item
  PROVE  /\ PartOf[i] # p => Copy'[i] = Copy[i]
         /\ PartOf[i] = p /\ ~Pending(i) => Same(Copy'[i], got[l][p][i])
<1> DEFINE g == got[l][p]
           F == FakeEvents(p, g)
<1>1. /\ bulk \in Seq(EventType) /\ cache \in States /\ g \in States
      /\ PartOf[i] \in Part /\ Copy \in States
  BY Bounds, UpdatedType DEF Types, CopyTypes, LoadTypes, Copy
<1>2. ASSUME ~Pending(i) PROVE Copy[i] = cache[i]
  <2>1. CASE Updated(cache, bulk)[i] = cache[i]
    BY <2>1 DEF Copy
  <2>2. ASSUME NEW j \in 1..Len(bulk), bulk[j].item = i, bulk[j].kind # "full" PROVE FALSE
    <3>1. In(bulk, bulk[j])
      BY DEF In
    <3>2. Age(bulk[j].state) \in Ages(bulk, i)
      BY <1>1, <2>2, <3>1, AgesFacts
    <3> QED
      BY <1>2, <3>2 DEF Pending
  <2> QED
    BY <1>1, <2>1, <2>2, UpdatedSource
<1>3. CASE p \in loaded
  <2>1. bulk' = bulk \o F /\ cache' = cache
    BY <1>3 DEF GetAnswered, Gather
  <2>2. /\ F \in Seq(EventType)
        /\ \A e : In(F, e) => /\ e.item \in ItemsOf(p) /\ e.state = g[e.item] /\ e.kind # "full"
                              /\ e.kind = "put" \/ There(cache[e.item])
        /\ i \in ItemsOf(p) => Same(cache[i], g[i]) \/ \E e : In(F, e) /\ e.item = i
    BY <1>1, FakeEventsFacts
  <2> HIDE DEF F, g
  <2>3. Copy' = Updated(Copy, F)
    BY <1>1, <2>1, <2>2, UpdatedJoin DEF Copy
  <2>4. \A j \in 1..Len(F) : In(F, F[j])
    BY DEF In
  <2>5. \/ Updated(Copy, F)[i] = Copy[i]
        \/ \E j \in 1..Len(F) : F[j].item = i /\ F[j].kind # "full" /\ Updated(Copy, F)[i] = F[j].state
    BY <1>1, <2>2, UpdatedSource
  <2>6. ASSUME PartOf[i] # p PROVE Copy'[i] = Copy[i]
    <3>1. i \notin ItemsOf(p)
      BY <2>6 DEF ItemsOf
    <3> QED
      BY <2>2, <2>3, <2>4, <2>5, <3>1
  <2>7. ASSUME PartOf[i] = p, ~Pending(i) PROVE Same(Copy'[i], g[i])
    <3>1. i \in ItemsOf(p) /\ Copy[i] = cache[i]
      BY <1>2, <2>7 DEF ItemsOf
    <3>2. CASE \E e : In(F, e) /\ e.item = i
      <4>1. \E j \in 1..Len(F) : F[j].item = i
        BY <3>2 DEF In
      <4>2. \A j \in 1..Len(F) : F[j].item = i =>
               /\ F[j].state = g[i] /\ F[j].kind # "full"
               /\ F[j].kind = "put" \/ There(Copy[i])
        BY <2>2, <2>4, <3>1
      <4>3. g[i] \in Int
        BY <1>1 DEF States
      <4>4. Updated(Copy, F)[i] = g[i]
        BY <1>1, <2>2, <4>1, <4>2, <4>3, UpdatedTold
      <4> QED
        BY <2>3, <4>4 DEF Same
    <3>3. CASE ~\E e : In(F, e) /\ e.item = i
      <4>1. Copy'[i] = cache[i]
        BY <2>3, <2>4, <2>5, <3>1, <3>3
      <4> QED
        BY <2>2, <3>1, <3>3, <4>1
    <3> QED
      BY <3>2, <3>3
  <2> QED
    BY <2>6, <2>7 DEF g
<1>4. CASE p \notin loaded
  <2>1. bulk' = bulk /\ cache' = [n \in Item |-> IF PartOf[n] = p THEN g[n] ELSE cache[n]]
    BY <1>4 DEF GetAnswered
  <2>2. cache' \in States
    BY <1>1, <2>1 DEF States
  <2>3. ASSUME PartOf[i] # p PROVE Copy'[i] = Copy[i]
    <3>1. cache'[i] = cache[i]
      BY <2>1, <2>3
    <3> QED
      BY <1>1, <2>1, <2>2, <3>1, UpdatedAlike DEF Copy
  <2>4. ASSUME PartOf[i] = p, ~Pending(i) PROVE Copy'[i] = g[i]
    <3>1. cache'[i] = g[i]
      BY <2>1, <2>4
    <3>2. Copy'[i] = Updated(cache', bulk)[i]
      BY <2>1 DEF Copy
    <3>3. ASSUME NEW j \in 1..Len(bulk), bulk[j].item = i, bulk[j].kind # "full" PROVE FALSE
      <4>1. In(bulk, bulk[j])
        BY DEF In
      <4>2. Age(bulk[j].state) \in Ages(bulk, i)
        BY <1>1, <3>3, <4>1, AgesFacts
      <4> QED
        BY <2>4, <4>2 DEF Pending
    <3>4. Updated(cache', bulk)[i] = cache'[i]
      BY <1>1, <2>2, <3>3, UpdatedSource
    <3> QED
      BY <3>1, <3>2, <3>4
  <2> QED
    BY <2>3, <2>4 DEF Same
<1> QED
  BY <1>3, <1>4

\* An answer of use is taken.
LEMMA AnswerFollows ==
  ASSUME Types, Types', Logged, Session, PastOnly, PastOnly', NEW l \in Load, NEW p \in Part,
         GetAnswered(l, p), NEW i \in Item, Follows(i), Due => Due' \/ Loads(i)'
  PROVE  Follows(i)'
<1> DEFINE v == got[l][p][i]
<1>1. /\ get[l][p] = "answered" /\ get' = [get EXCEPT ![l][p] = "none"]
      /\ got' = [got EXCEPT ![l][p] = NoStates]
      /\ waitsFor' = [waitsFor EXCEPT ![l] = @ \ {p}] /\ unconfirmed' = unconfirmed \ {p}
      /\ UNCHANGED <<log, queue, listening, answer, untold>>
  BY DEF GetAnswered, serverVars, listenVars, bounds
<1>2. /\ get \in [Load -> [Part -> {"none", "asked", "answered"}]] /\ PartOf[i] \in Part
      /\ got \in [Load -> [Part -> States]] /\ waitsFor \in [Load -> SUBSET Part]
      /\ seen \in [Item -> Nat]
  BY Bounds DEF Types, LoadTypes, CopyTypes
<1>3. From' = From /\ log' = log
  BY <1>1 DEF From, Coming
<1>4. v \in Int /\ Age(v) \in Nat /\ seen[i] \in Nat /\ got[l][p] \in States
  BY <1>2 DEF States, Age
<1>5. /\ seen'[i] \in Nat /\ seen[i] <= seen'[i] /\ Age(v) <= seen'[i]
      /\ seen'[i] \in {seen[i], Age(v)}
  <2> DEFINE A == {seen[i], Age(v)}
  <2>1. seen' = [n \in Item |-> Max({seen[n], Age(got[l][p][n])})]
    BY DEF GetAnswered
  <2>2. seen'[i] = Max(A)
    BY <2>1
  <2>3. A \in SUBSET Nat /\ A # {} /\ IsFiniteSet(A)
    <3>0. IsFiniteSet({seen[i]})
      BY FS_Singleton
    <3>1. IsFiniteSet({seen[i]} \cup {Age(v)})
      BY <3>0, FS_AddElement
    <3>2. {seen[i]} \cup {Age(v)} = A
      OBVIOUS
    <3> QED
      BY <1>4, <3>1, <3>2
  <2>4. seen[i] \in A /\ Age(v) \in A /\ \A a \in A : a = seen[i] \/ a = Age(v)
    OBVIOUS
  <2> HIDE DEF A
  <2>5. Max(A) \in A /\ \A a \in A : a <= Max(A)
    BY <2>3, MaxFacts
  <2> QED
    BY <2>2, <2>3, <2>4, <2>5
<1> HIDE DEF v
<1>6. /\ From \in 0..Len(log) /\ log \in Seq(EventType) /\ History(log) /\ Len(log) \in Nat
  BY FromRange DEF Logged
<1>7. Informed(i) => Informed(i)'
  <2>1. Age(StateIn(log, i, From)) \in Nat
    BY <1>6, StateAge
  <2> QED
    BY <1>1, <1>3, <1>4, <1>5, <2>1 DEF Informed
<1>8. ASSUME NEW n \in Load, Helpful(n, i), ~(n = l /\ PartOf[i] = p) PROVE Helpful(n, i)'
  <2>1. get'[n][PartOf[i]] = get[n][PartOf[i]] /\ got'[n][PartOf[i]] = got[n][PartOf[i]]
    BY <1>1, <1>2, <1>8
  <2> QED
    BY <1>3, <1>7, <1>8, <2>1 DEF Helpful, Fresh
<1>9. ASSUME NEW n \in Load, PartOf[i] \in waitsFor[n], Helpful(n, i), ~(n = l /\ PartOf[i] = p)
      PROVE  Loads(i)'
  <2>1. PartOf[i] \in waitsFor'[n]
    BY <1>1, <1>2, <1>9
  <2> QED
    BY <1>8, <1>9, <2>1 DEF Loads
<1>10. CASE PartOf[i] # p
  <2>1. Copy'[i] = Copy[i]
    BY <1>10, AnswerCopy
  <2>2. i \in overtaken' <=> i \in overtaken
    BY <1>10 DEF GetAnswered, ItemsOf
  <2>3. Agreeing(i) => Agreeing(i)'
    BY <1>3, <1>7, <2>1, <2>2 DEF Agreeing
  <2>4. Loads(i) => Loads(i)'
    <3>1. ASSUME PartOf[i] \in unconfirmed, \A n \in Load : get[n][PartOf[i]] = "none" \/ Helpful(n, i)
          PROVE  Loads(i)'
      <4>1. \A n \in Load : get'[n][PartOf[i]] = get[n][PartOf[i]]
        BY <1>1, <1>2, <1>10
      <4>2. \A n \in Load : get'[n][PartOf[i]] = "none" \/ Helpful(n, i)'
        BY <1>8, <1>10, <3>1, <4>1
      <4>3. PartOf[i] \in unconfirmed'
        BY <1>1, <1>10, <3>1
      <4> QED
        BY <4>2, <4>3 DEF Loads
    <3> QED
      BY <1>9, <1>10, <3>1 DEF Loads
  <2> QED
    BY <1>1, <2>3, <2>4 DEF Follows
<1>11. CASE PartOf[i] = p
  <2>1. InPast(log, v, i)
    BY <1>1, <1>11 DEF PastOnly, v
  <2>2. ASSUME Helpful(l, i) PROVE Agreeing(i)'
    <3>1. Informed(i)'
      <4>1. CASE Informed(i)
        BY <1>7, <4>1
      <4>2. CASE Fresh(v, i)
        <5>1. PICK n \in From..Len(log) : v = StateIn(log, i, n)
          BY <4>2 DEF Fresh
        <5>2. Age(StateIn(log, i, From)) <= Age(v)
          BY <1>6, <5>1, CurrentAge
        <5>3. Age(StateIn(log, i, From)) \in Nat
          BY <1>6, StateAge
        <5>4. Age(StateIn(log, i, From)) <= seen'[i]
          BY <1>4, <1>5, <5>2, <5>3
        <5> QED
          BY <1>3, <5>4 DEF Informed
      <4> QED
        BY <1>1, <1>11, <2>2, <4>1, <4>2 DEF Helpful, v
    <3>2. Age(StateIn(log, i, From)) <= seen'[i] /\ Age(StateIn(log, i, From)) \in Nat
          /\ Age(StateIn(log, i, From)) >= 1
      BY <1>3, <1>6, <3>1, StateAge DEF Informed
    <3>3. ASSUME i \notin overtaken' PROVE CurrentIn(log, From, Copy'[i], i)
      <4>1. ~((Age(v) < seen[i] \/ Pending(i)) /\ Age(Copy'[i]) < seen'[i])
        BY <1>11, <3>3 DEF GetAnswered, ItemsOf, Copy, v
      <4>2. CASE ~(Age(Copy'[i]) < seen'[i])
        <5>1. Copy' \in States
          BY UpdatedType DEF Types, CopyTypes, Copy
        <5>2. Copy'[i] \in Int /\ Age(Copy'[i]) \in Nat
          BY <5>1 DEF States, Age
        <5>3. Age(StateIn(log, i, From)) <= Age(Copy'[i])
          BY <1>5, <3>2, <4>2, <5>2
        <5>4. Copy'[i] = 0 \/ InPast(log, Copy'[i], i)
          <6>1. bulk' \in Seq(EventType) /\ cache' \in States
            BY DEF Types, CopyTypes
          <6>2. CASE Copy'[i] = cache'[i]
            BY <1>3, <6>2 DEF PastOnly
          <6>3. ASSUME NEW j \in 1..Len(bulk'), bulk'[j].item = i, bulk'[j].kind # "full",
                       Copy'[i] = bulk'[j].state
                PROVE  InPast(log, Copy'[i], i)
            <7>1. In(bulk', bulk'[j])
              BY DEF In
            <7> QED
              BY <1>3, <6>3, <7>1 DEF PastOnly
          <6> QED
            BY <6>1, <6>2, <6>3, UpdatedSource DEF Copy
        <5>5. Copy'[i] # 0
          BY <3>2, <5>3 DEF Age
        <5>6. PICK n \in 0..Len(log) : Copy'[i] = StateIn(log, i, n)
          BY <5>4, <5>5 DEF InPast
        <5> QED
          BY <1>6, <5>3, <5>6, CurrentByAge
      <4>3. CASE ~(Age(v) < seen[i] \/ Pending(i))
        <5>1. Same(Copy'[i], v)
          BY <1>11, <4>3, AnswerCopy DEF v
        <5>2. seen'[i] = Age(v)
          BY <1>4, <1>5, <4>3
        <5>3. PICK n \in 0..Len(log) : v = StateIn(log, i, n)
          BY <2>1 DEF InPast
        <5>4. CurrentIn(log, From, v, i)
          BY <1>6, <3>2, <5>2, <5>3, CurrentByAge
        <5> QED
          BY <5>1, <5>4, CurrentAlike
      <4> QED
        BY <4>1, <4>2, <4>3
    <3> QED
      BY <1>3, <3>1, <3>3 DEF Agreeing
  <2>3. CASE Loads(i)
    <3>1. CASE Helpful(l, i)
      BY <2>2, <3>1 DEF Follows
    <3>2. CASE ~Helpful(l, i)
      <4>1. ASSUME NEW n \in Load, PartOf[i] \in waitsFor[n], Helpful(n, i) PROVE Loads(i)'
        BY <1>9, <3>2, <4>1
      <4>2. get[l][PartOf[i]] # "none"
        BY <1>1, <1>11
      <4> QED
        BY <2>3, <3>2, <4>1, <4>2 DEF Loads, Follows
    <3> QED
      BY <3>1, <3>2
  <2>4. CASE Agreeing(i)
    <3>1. Helpful(l, i)
      BY <1>1, <1>11, <2>4 DEF Agreeing, Helpful
    <3> QED
      BY <2>2, <3>1 DEF Follows
  <2> QED
    BY <1>1, <2>3, <2>4 DEF Follows
<1> QED
  BY <1>10, <1>11

LEMMA FollowsStep ==
  ASSUME Types, Types', Logged, Listens, Steady, Session, Session', PastOnly, PastOnly', FirstLoad, Awaited,
         [Next]_vars, NEW i \in Item, Follows(i)
  PROVE  Follows(i)'
<1>a. Due => Due' \/ Loads(i)'
  BY DueStays
<1>b. ASSUME Loads(i)' PROVE Follows(i)'
  BY <1>b DEF Follows
<1>1. CASE UNCHANGED <<listening, answer, queue, log, get, got, waitsFor, unconfirmed, seen, overtaken, untold,
                       cache, bulk>>
  BY <1>1, <1>a, ComingKept, FollowsKept DEF Copy
<1>2. CASE AccessGranted
  <2>1. PICK f \in SUBSET Part, states \in [Item -> {0, 1}] : BeginLoad(1, f, states, load)
    BY <1>2 DEF AccessGranted
  <2>2. \A n \in Load, p \in Part : get[n][p] = "none"
    BY <1>2 DEF AccessGranted, FirstLoad
  <2> QED
    BY <1>b, <2>1, <2>2, LoadsBegin, Bounds
<1>3. CASE SyncTask
  <2>1. CASE reloadNeeded \/ failed
    <3>1. Min(FreeLoads) \in Load /\ BeginLoad(Min(FreeLoads), {}, NoStates, load)
      BY <1>3, <2>1, MinFree DEF SyncTask
    <3> QED
      BY <1>b, <3>1, LoadsBegin
  <2>2. CASE ~(reloadNeeded \/ failed)
    BY <1>1, <1>3, <2>2 DEF SyncTask, serverVars, listenVars, loadVars, bounds
  <2> QED
    BY <2>1, <2>2
<1>4. ASSUME NEW l \in Load, RetryLoad(l) PROVE Follows(i)'
  <2>1. Min(FreeLoads) \in Load /\ BeginLoad(Min(FreeLoads), {}, NoStates, [load EXCEPT ![l] = "none"])
    BY <1>4, MinFree DEF RetryLoad
  <2> QED
    BY <1>b, <2>1, LoadsBegin
<1>5. CASE BulkTask
  <2>1. /\ bulk' = <<>> /\ cache' = Updated(cache, bulk)
        /\ UNCHANGED <<get, got, waitsFor, unconfirmed, seen, overtaken, untold>>
    BY <1>5 DEF BulkTask, loadVars
  <2>2. log' = log /\ (Coming' = Coming \/ Due')
    BY <1>5, ComingKept
  <2>3. Copy' = Copy
    <3>1. cache \in States /\ bulk \in Seq(EventType)
      BY DEF Types, CopyTypes
    <3>2. Updated(cache, bulk) \in States
      BY <3>1, UpdatedType
    <3> QED
      BY <2>1, <3>2, UpdatedByNone DEF Copy
  <2> QED
    BY <1>a, <2>1, <2>2, <2>3, FollowsKept
<1>6. CASE Start \/ Arrives \/ Respond \/ Expire \/ Deactivate \/ Activate \/ \E k \in Chain : Break(k)
  <2>1. UNCHANGED <<get, got, waitsFor, unconfirmed, seen, overtaken, untold, cache, bulk>>
    BY <1>6 DEF Start, Arrives, Respond, Expire, Deactivate, Activate, Break, cacheVars, loadVars
  <2>2. log' = log /\ (Coming' = Coming \/ Due')
    BY <1>6, ComingKept
  <2> QED
    BY <1>a, <2>1, <2>2, FollowsKept DEF Copy
<1>7. ASSUME NEW k \in Chain, Receive(k) PROVE Follows(i)'
  BY <1>7, <1>a, ReceiveFollows
<1>8. ASSUME NEW l \in Load, NEW p \in Part, GetAnswered(l, p) PROVE Follows(i)'
  BY <1>8, <1>a, AnswerFollows
<1>9. ASSUME NEW l \in Load, NEW p \in Part, ServeGet(l, p) PROVE Follows(i)'
  BY <1>9, <1>a, ServeFollows
<1>10. ASSUME NEW l \in Load, NEW p \in Part, GetFails(l, p) PROVE Follows(i)'
  BY <1>10, <1>a, FailFollows
<1>11. ASSUME NEW j \in Item, Change(j) \/ FullUpdate(j) PROVE Follows(i)'
  BY <1>11, <1>a, ChangeFollows
<1>12. CASE WaitTask \/ SyncErrorTask \/ \E k \in Chain : Error(k) \/ TimerFires(k)
  BY <1>1, <1>12 DEF WaitTask, SyncErrorTask, Error, TimerFires, Wait, serverVars, listenVars, cacheVars, loadVars,
     bounds
<1>13. CASE UNCHANGED vars
  BY <1>1, <1>13 DEF vars, serverVars, listenVars, cacheVars, loadVars, bounds
<1> QED
  BY <1>2, <1>3, <1>4, <1>5, <1>6, <1>7, <1>8, <1>9, <1>10, <1>11, <1>12, <1>13
  DEF Next, ClientStep, NetworkStep, Trouble, World

\* While nothing has crossed over or will, what is to come and what the client has add up.
AgreesInv ==
    /\ Types /\ Listens /\ Begun /\ Logged /\ FirstLoad /\ Awaited
    /\ Steady => Session /\ PastOnly /\ \A i \in Item : Follows(i)

LEMMA InitAgrees == Init => AgreesInv
<1> SUFFICES ASSUME Init PROVE AgreesInv
  OBVIOUS
<1>1. Types /\ Listens
  BY InitTypes, InitListens
<1>2. /\ log = <<>> /\ queue = <<>> /\ bulk = <<>> /\ listening = 0 /\ cache = NoStates
      /\ server = [i \in Item |-> 1] /\ load = [l \in Load |-> IF l = 1 THEN "start" ELSE "none"]
      /\ get = [l \in Load |-> [p \in Part |-> "none"]] /\ waitsFor = [l \in Load |-> {}]
      /\ starts = 0 /\ tasks = <<>>
  BY DEF Init
<1>3. Begun
  BY <1>2 DEF Begun, In
<1>4. Logged
  BY <1>2, StateInStep DEF Logged, History
<1>5. FirstLoad /\ Awaited
  BY <1>2 DEF FirstLoad, Awaited
<1>6. Session
  <2>1. Coming = <<>>
    BY <1>2, ConcatEmptySeq DEF Coming
  <2> QED
    BY <1>2, <2>1 DEF Session, EndsIn
<1>7. PastOnly
  <2>1. \A i \in Item : cache[i] = 0 /\ PartOf[i] \in Part
    BY <1>2, Bounds DEF NoStates
  <2> QED
    BY <1>2, <2>1 DEF PastOnly, In
<1>8. \A i \in Item : Follows(i)
  <2>1. load[1] = "start" /\ 1 \in Load
    BY <1>2, Bounds
  <2> QED
    BY <2>1 DEF Follows, Due
<1> QED
  BY <1>1, <1>3, <1>4, <1>5, <1>6, <1>7, <1>8 DEF AgreesInv

LEMMA AgreesStep ==
  ASSUME AgreesInv, [Next]_vars
  PROVE  AgreesInv'
<1>1. Types /\ Listens /\ Begun /\ Logged /\ FirstLoad /\ Awaited
  BY DEF AgreesInv
<1>2. Types' /\ Listens' /\ Begun' /\ Logged' /\ FirstLoad' /\ Awaited'
  BY <1>1, TypesStep, ListensStep, BegunStep, LoggedStep, FirstLoadStep, AwaitedStep
<1>3. ASSUME Steady' PROVE Session' /\ PastOnly' /\ \A i \in Item : Follows(i)'
  <2>1. Steady
    BY <1>1, <1>3, SteadyBack
  <2>2. Session /\ PastOnly /\ \A i \in Item : Follows(i)
    BY <2>1 DEF AgreesInv
  <2>3. Session'
    BY <1>1, <1>2, <1>3, <2>1, <2>2, SessionStep
  <2>4. PastOnly'
    BY <1>1, <1>2, <2>1, <2>2, PastStep
  <2> QED
    BY <1>1, <1>2, <2>1, <2>2, <2>3, <2>4, FollowsStep
<1> QED
  BY <1>2, <1>3 DEF AgreesInv

LEMMA AgreesWhenQuiet ==
  ASSUME AgreesInv, Quiet, NEW i \in Item
  PROVE  Agrees(i)
<1>1. Types /\ Listens /\ Logged
  BY DEF AgreesInv
<1>2. /\ listening # 0 /\ queue = <<>> /\ bulk = <<>> /\ tasks = <<>>
      /\ ~reloadNeeded /\ ~failed
      /\ \A l \in Load : load[l] = "none" /\ \A p \in Part : get[l][p] = "none"
      /\ \A k \in Chain : chain[k] \notin {"answered", "broken", "timer"}
  BY DEF Quiet, Loading
<1>3. CASE crossed
  BY <1>3 DEF Agrees
<1>4. CASE ~crossed
  <2>1. \A t : ~In(tasks, t)
    BY <1>2 DEF In
  <2>2. Steady
    BY <1>1, <1>2, <1>4, <2>1 DEF Steady, Stale, Listens, Scheduled
  <2>3. Session /\ Follows(i)
    BY <2>2 DEF AgreesInv
  <2>4. listening \in Chain /\ answer[listening] = <<>> /\ chain[listening] # "broken"
    BY <1>1, <1>2 DEF Types, ListenTypes, Listens, Requests
  <2>5. Coming = <<>> /\ From = Len(log)
    <3>1. Coming = <<>>
      BY <1>2, <2>4, ConcatEmptySeq DEF Coming
    <3> QED
      BY <1>1, <2>3, <3>1, FromRange DEF From
  <2>6. ~Due
    BY <1>2, <2>1, <2>4, <2>5 DEF Due, In
  <2>7. CASE i \in untold
    BY <2>7 DEF Agrees
  <2>8. CASE Loads(i)
    <3>1. \A l \in Load : get[l][PartOf[i]] = "none"
      BY <1>2, Bounds
    <3>2. \A l \in Load : ~Helpful(l, i)
      BY <3>1 DEF Helpful
    <3> QED
      BY <2>8, <3>2 DEF Loads, Agrees
  <2>9. CASE Agreeing(i)
    <3>1. CASE i \in overtaken
      BY <3>1 DEF Agrees
    <3>2. CASE CurrentIn(log, From, Copy[i], i)
      <4>1. Copy = cache
        BY <1>1, <1>2, UpdatedByNone DEF Copy, Types, CopyTypes
      <4>2. Len(log) \in Nat
        BY <1>1, LenProperties DEF Types, ServerTypes
      <4>3. Same(cache[i], StateIn(log, i, Len(log)))
        BY <2>5, <3>2, <4>1, <4>2 DEF CurrentIn
      <4>4. server[i] = StateIn(log, i, Len(log))
        BY <1>1 DEF Logged
      <4> QED
        BY <4>3, <4>4 DEF Agrees
    <3> QED
      BY <2>9, <3>1, <3>2 DEF Agreeing
  <2> QED
    BY <2>3, <2>6, <2>7, <2>8, <2>9 DEF Follows
<1> QED
  BY <1>3, <1>4

\* When nothing is under way the cache has what the server has, whatever was lost, failed,
\* expired or was paused before, but for what QuietAgrees excepts.
THEOREM QuietCorrect == Spec => []QuietAgrees
<1>1. Init => AgreesInv
  BY InitAgrees
<1>2. AgreesInv /\ [Next]_vars => AgreesInv'
  BY AgreesStep
<1>3. AgreesInv => QuietAgrees
  BY AgreesWhenQuiet DEF QuietAgrees
<1> QED
  BY <1>1, <1>2, <1>3, PTL DEF Spec
=============================================================================
