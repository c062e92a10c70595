------------------------------- MODULE DataFacts -------------------------------
(* What the proofs need of sequences that are used as queues, of sets of       *)
(* numbers: the least, the greatest, and that a finite one has one, and of     *)
(* functions and sums that are computed over a finite set, element by element. *)
EXTENDS Integers, Sequences, FiniteSets, SequenceTheorems, FiniteSetTheorems,
        WellFoundedInduction, TLAPS

-----------------------------------------------------------------------------
(* Queues                                                                      *)

(* Two adjacent pieces of a queue, taken off its front one after the other.   *)
LEMMA SplitQueue ==
  ASSUME NEW S, NEW s \in Seq(S), NEW n \in 0..Len(s)
  PROVE  /\ SubSeq(s, 1, n) \in Seq(S)
         /\ SubSeq(s, n + 1, Len(s)) \in Seq(S)
         /\ Len(SubSeq(s, 1, n)) = n
         /\ Len(SubSeq(s, n + 1, Len(s))) = Len(s) - n
         /\ SubSeq(s, 1, n) \o SubSeq(s, n + 1, Len(s)) = s
<1>1. Len(s) \in Nat /\ \A i \in 1..Len(s) : s[i] \in S
  BY LenProperties, ElementOfSeq
<1>2. SubSeq(s, 1, n) \in Seq(S) /\ Len(SubSeq(s, 1, n)) = n
  <2>1. \A i \in 1..n : s[i] \in S
    BY <1>1
  <2>2. QED
    BY <1>1, <2>1, SubSeqProperties
<1>3. SubSeq(s, n + 1, Len(s)) \in Seq(S) /\ Len(SubSeq(s, n + 1, Len(s))) = Len(s) - n
  <2>1. n + 1 \in Int /\ Len(s) \in Int /\ \A i \in n + 1 .. Len(s) : s[i] \in S
    BY <1>1
  <2>2. /\ SubSeq(s, n + 1, Len(s)) \in Seq(S)
        /\ Len(SubSeq(s, n + 1, Len(s))) = IF n + 1 <= Len(s) THEN Len(s) - (n + 1) + 1 ELSE 0
    BY <2>1, SubSeqProperties
  <2>3. QED
    BY <1>1, <2>2
<1>4. SubSeq(s, 1, n) \o SubSeq(s, n + 1, Len(s)) = SubSeq(s, 1, Len(s))
  <2>1. 1 \in 1 .. Len(s) + 1 /\ n \in 1 - 1 .. Len(s) /\ Len(s) \in n .. Len(s)
    BY <1>1
  <2>2. QED
    BY <2>1, ConcatAdjacentSubSeq
<1>5. QED
  BY <1>2, <1>3, <1>4, SubSeqFull

(* Taking the head of a queue.                                                *)
LEMMA HeadOfQueue ==
  ASSUME NEW S, NEW s \in Seq(S), s # <<>>
  PROVE  /\ <<Head(s)>> \in Seq(S)
         /\ Tail(s) \in Seq(S)
         /\ Len(Tail(s)) = Len(s) - 1
         /\ <<Head(s)>> \o Tail(s) = s
<1>1. Len(s) \in Nat /\ Len(s) > 0
  BY EmptySeq, LenProperties
<1>2. Head(s) \in S /\ Head(s) = s[1]
  BY HeadTailProperties
<1>3. Tail(s) \in Seq(S) /\ Len(Tail(s)) = Len(s) - 1
  BY HeadTailProperties
<1>4. SubSeq(s, 1, Len(s)) = <<s[1]>> \o SubSeq(s, 1 + 1, Len(s))
  BY <1>1, SubSeqRecursiveFirst
<1>5. <<Head(s)>> \o Tail(s) = s
  BY <1>2, <1>4, SubSeqFull, TailIsSubSeq
<1>6. <<Head(s)>> \in Seq(S)
  BY <1>2
<1>7. QED
  BY <1>3, <1>5, <1>6

(* What follows a prefix of a queue.                                          *)
LEMMA RestOfConcat ==
  ASSUME NEW S, NEW a \in Seq(S), NEW p \in Seq(S)
  PROVE  SubSeq(a \o p, Len(a) + 1, Len(a) + Len(p)) = p
<1>1. Len(a) \in Nat /\ Len(p) \in Nat
  BY LenProperties
<1>2. CASE Len(p) = 0
  <2>1. p = <<>>
    BY <1>2, EmptySeq
  <2>2. Len(a) + 1 \in Int /\ Len(a) + Len(p) \in Int /\ Len(a) + Len(p) < Len(a) + 1
    BY <1>1, <1>2
  <2>3. QED
    BY <2>1, <2>2, SubSeqEmpty
<1>3. CASE Len(p) # 0
  <2>1. Len(a) + 1 \in Len(a) + 1 .. Len(a) + Len(p) /\ Len(a) + Len(p) \in Len(a) + 1 .. Len(a) + Len(p)
    BY <1>1, <1>3
  <2>2. SubSeq(a \o p, Len(a) + 1, Len(a) + Len(p))
          = SubSeq(p, Len(a) + 1 - Len(a), Len(a) + Len(p) - Len(a))
    BY <2>1, SubSeqOfConcat2
  <2>3. Len(a) + 1 - Len(a) = 1 /\ Len(a) + Len(p) - Len(a) = Len(p)
    BY <1>1
  <2>4. QED
    BY <2>2, <2>3, SubSeqFull
<1>4. QED
  BY <1>2, <1>3

(* What is left of s after its first n elements.                              *)
Rest(s, n) == SubSeq(s, n + 1, Len(s))

(* Once a part c of what is left of a history is over, what comes after it is *)
(* left.                                                                      *)
LEMMA DropFromRest ==
  \A S : \A s, c, p \in Seq(S) : \A n \in 0..Len(s) :
    c \o p = Rest(s, n) => p = Rest(s, n + Len(c))
<1> TAKE S
<1> TAKE s, c, p \in Seq(S)
<1> TAKE n \in 0..Len(s)
<1> DEFINE over == SubSeq(s, 1, n)
           left == Rest(s, n)
<1>1. Len(s) \in Nat /\ Len(c) \in Nat /\ Len(p) \in Nat /\ n \in Nat
  BY LenProperties
<1>2. over \in Seq(S) /\ Len(over) = n /\ over \o left = s /\ Len(left) = Len(s) - n
  BY SplitQueue DEF Rest
<1> HIDE DEF over, left
<1>3. (over \o c) \o p = over \o (c \o p)
  BY <1>2, SMTT(30)
<1>4. over \o c \in Seq(S) /\ Len(over \o c) = n + Len(c) /\ Len(c \o p) = Len(c) + Len(p)
  BY <1>2, ConcatProperties
<1>5. SubSeq((over \o c) \o p, Len(over \o c) + 1, Len(over \o c) + Len(p)) = p
  BY <1>4, RestOfConcat
<1>6. HAVE c \o p = Rest(s, n)
<1>7. (over \o c) \o p = s
  BY <1>2, <1>3, <1>6, Zenon DEF left
<1>8. n + Len(c) + Len(p) = Len(s)
  <2>1. Len(c) + Len(p) = Len(s) - n
    BY <1>2, <1>4, <1>6, Zenon DEF left
  <2>2. QED
    BY <1>1, <2>1
<1>9. QED
  <2>1. SubSeq(s, n + Len(c) + 1, n + Len(c) + Len(p)) = p
    BY <1>4, <1>5, <1>7, Zenon
  <2>2. QED
    BY <1>8, <2>1, Zenon DEF Rest

(* A message appended to a history is appended to what is left of it.         *)
LEMMA AppendToRest ==
  ASSUME NEW S, NEW s \in Seq(S), NEW n \in 0..Len(s), NEW m \in S
  PROVE  SubSeq(Append(s, m), n + 1, Len(s) + 1) = Append(SubSeq(s, n + 1, Len(s)), m)
<1> DEFINE over == SubSeq(s, 1, n)
           left == SubSeq(s, n + 1, Len(s))
<1>1. over \in Seq(S) /\ left \in Seq(S) /\ Len(over) = n /\ Len(left) = Len(s) - n
  BY SplitQueue
<1>2. over \o left = s /\ Append(s, m) = s \o <<m>> /\ Append(left, m) = left \o <<m>>
  BY <1>1, SplitQueue, AppendIsConcat
<1> HIDE DEF over, left
<1>3. left \o <<m>> \in Seq(S) /\ Append(s, m) = over \o (left \o <<m>>)
  <2>1. <<m>> \in Seq(S) /\ left \o <<m>> \in Seq(S)
    BY <1>1, ConcatProperties
  <2>2. (over \o left) \o <<m>> = over \o (left \o <<m>>)
    BY <1>1, <2>1, SMTT(30)
  <2>3. QED
    BY <1>2, <2>1, <2>2, Zenon
<1>4. Len(left \o <<m>>) = Len(s) - n + 1
  BY <1>1, <1>2, AppendProperties
<1>5. n + Len(left \o <<m>>) = Len(s) + 1
  BY <1>4, LenProperties
<1>6. SubSeq(over \o (left \o <<m>>), Len(over) + 1, Len(over) + Len(left \o <<m>>)) = left \o <<m>>
  BY <1>1, <1>3, RestOfConcat
<1>7. QED
  BY <1>1, <1>2, <1>3, <1>5, <1>6 DEF left
(* A message appended behind a part of a queue comes after the whole queue.   *)
LEMMA AppendBehind ==
  ASSUME NEW S, NEW a \in Seq(S), NEW b \in Seq(S), NEW m \in S
  PROVE  a \o Append(b, m) = Append(a \o b, m)
<1>1. <<m>> \in Seq(S) /\ Append(b, m) = b \o <<m>>
  BY AppendIsConcat
<1>2. a \o b \in Seq(S)
  BY ConcatProperties
<1>3. Append(a \o b, m) = (a \o b) \o <<m>>
  BY <1>2, AppendIsConcat
<1>4. ASSUME NEW d \in Seq(S)
      PROVE  (a \o b) \o d = a \o (b \o d)
  OBVIOUS
<1>5. QED
  BY <1>1, <1>3, <1>4

-----------------------------------------------------------------------------
(* The first of a queue in two parts.                                         *)
LEMMA HeadOfConcat ==
  ASSUME NEW S, NEW h \in Seq(S), NEW c \in Seq(S), h # <<>>
  PROVE  h \o c # <<>> /\ Head(h \o c) = Head(h) /\ Tail(h \o c) = Tail(h) \o c
  OBVIOUS

(* Moving the first n of what waits to what is being handled.                 *)
LEMMA JoinFirst ==
  ASSUME NEW S, NEW a \in Seq(S), NEW q \in Seq(S), NEW n \in 0..Len(q)
  PROVE  (a \o SubSeq(q, 1, n)) \o SubSeq(q, n + 1, Len(q)) = a \o q
<1> DEFINE front == SubSeq(q, 1, n)
           back == SubSeq(q, n + 1, Len(q))
<1>1. front \in Seq(S) /\ back \in Seq(S) /\ front \o back = q
  BY SplitQueue
<1> HIDE DEF front, back
<1>2. ASSUME NEW b \in Seq(S), NEW d \in Seq(S)
      PROVE  (a \o b) \o d = a \o (b \o d)
  BY SMTT(30)
<1>3. (a \o front) \o back = a \o (front \o back)
  BY <1>1, <1>2, Zenon
<1>4. QED
  BY <1>1, <1>3, Zenon DEF front, back

(* Where each one is then.                                                    *)
Moved(S, a, q, n) ==
  /\ a \o SubSeq(q, 1, n) \in Seq(S) /\ SubSeq(q, n + 1, Len(q)) \in Seq(S)
  /\ Len(a \o SubSeq(q, 1, n)) = Len(a) + n
  /\ \A k \in 1..Len(a) : (a \o SubSeq(q, 1, n))[k] = a[k]
  /\ \A k \in DOMAIN (a \o SubSeq(q, 1, n)) :
       k \in 1..Len(a) \/ \E j \in 1..n : (a \o SubSeq(q, 1, n))[k] = q[j]
  /\ \A j \in 1..n : (a \o SubSeq(q, 1, n))[Len(a) + j] = q[j]
  /\ \A k \in DOMAIN SubSeq(q, n + 1, Len(q)) :
       \E j \in DOMAIN q : SubSeq(q, n + 1, Len(q))[k] = q[j]

LEMMA MovedAre ==
  ASSUME NEW S, NEW a \in Seq(S), NEW q \in Seq(S), NEW n \in 0..Len(q)
  PROVE  Moved(S, a, q, n)
<1> DEFINE front == SubSeq(q, 1, n)
           back == SubSeq(q, n + 1, Len(q))
<1>1. Len(q) \in Nat /\ Len(a) \in Nat /\ DOMAIN q = 1..Len(q) /\ \A i \in 1..Len(q) : q[i] \in S
  BY LenProperties, ElementOfSeq
<1>2. front \in Seq(S) /\ back \in Seq(S) /\ Len(front) = n /\ Len(back) = Len(q) - n
  BY SplitQueue
<1>3. \A i \in 1..n : front[i] = q[i]
  <2>1. \A i \in 1..n : q[i] \in S
    BY <1>1
  <2>2. \A i \in 1 .. n - 1 + 1 : front[i] = q[1 + i - 1]
    BY <1>1, <2>1, SubSeqProperties
  <2>3. QED
    BY <1>1, <2>2
<1>4. \A i \in 1..(Len(q) - n) : back[i] = q[n + i]
  <2>1. n + 1 \in Int /\ Len(q) \in Int /\ \A i \in n + 1 .. Len(q) : q[i] \in S
    BY <1>1
  <2>2. \A i \in 1 .. Len(q) - (n + 1) + 1 : back[i] = q[(n + 1) + i - 1]
    BY <2>1, SubSeqProperties
  <2>3. QED
    BY <1>1, <2>2
<1> HIDE DEF front, back
<1>5. /\ a \o front \in Seq(S) /\ Len(a \o front) = Len(a) + n
      /\ \A i \in 1 .. Len(a) + n :
           (a \o front)[i] = IF i <= Len(a) THEN a[i] ELSE front[i - Len(a)]
  <2>1. /\ a \o front \in Seq(S) /\ Len(a \o front) = Len(a) + Len(front)
        /\ \A i \in 1 .. Len(a) + Len(front) :
             (a \o front)[i] = IF i <= Len(a) THEN a[i] ELSE front[i - Len(a)]
    BY <1>2, ConcatProperties
  <2>2. QED
    BY <1>2, <2>1
<1>6. DOMAIN (a \o front) = 1 .. Len(a) + n /\ DOMAIN back = 1..(Len(q) - n)
  BY <1>2, <1>5, LenProperties
<1>7. \A k \in 1..Len(a) : (a \o front)[k] = a[k]
  BY <1>1, <1>5
<1>8. ASSUME NEW k \in DOMAIN (a \o front), k \notin 1..Len(a)
      PROVE  \E j \in 1..n : (a \o front)[k] = q[j]
  <2>1. k \in 1 .. Len(a) + n /\ ~(k <= Len(a)) /\ k - Len(a) \in 1..n
    BY <1>1, <1>6, <1>8
  <2>2. (a \o front)[k] = q[k - Len(a)]
    BY <1>3, <1>5, <2>1
  <2>3. QED
    BY <2>1, <2>2
<1>9. ASSUME NEW k \in DOMAIN back
      PROVE  \E j \in DOMAIN q : back[k] = q[j]
  <2>1. k \in 1..(Len(q) - n) /\ n + k \in DOMAIN q
    BY <1>1, <1>6, <1>9
  <2>2. QED
    BY <1>4, <2>1
<1>10. ASSUME NEW j \in 1..n
       PROVE  (a \o front)[Len(a) + j] = q[j]
  <2>1. Len(a) + j \in 1 .. Len(a) + n /\ ~(Len(a) + j <= Len(a)) /\ (Len(a) + j) - Len(a) = j
    BY <1>1
  <2>2. QED
    BY <1>3, <1>5, <2>1
<1>11. QED
  BY <1>2, <1>5, <1>7, <1>8, <1>9, <1>10 DEF front, back, Moved

(* Where each one of what is left of a history is in it. *)
InHistory(a, c, q, s) ==
  /\ s + Len(c) + Len(q) = Len(a)
  /\ \A k \in 1..Len(c) : s + k \in 1..Len(a) /\ c[k] = a[s + k]
  /\ \A k \in 1..Len(q) : s + Len(c) + k \in 1..Len(a) /\ q[k] = a[s + Len(c) + k]

LEMMA PlacesInHistory ==
  ASSUME NEW S, NEW a \in Seq(S), NEW c \in Seq(S), NEW q \in Seq(S), NEW s \in 0..Len(a),
         c \o q = SubSeq(a, s + 1, Len(a))
  PROVE  InHistory(a, c, q, s)
<1>1. Len(a) \in Nat /\ Len(c) \in Nat /\ Len(q) \in Nat /\ s \in Nat /\ s <= Len(a)
  OBVIOUS
<1>2. /\ Len(c \o q) = Len(c) + Len(q)
      /\ \A k \in 1..(Len(c) + Len(q)) : (c \o q)[k] = IF k <= Len(c) THEN c[k] ELSE q[k - Len(c)]
  BY ConcatProperties
<1>3. /\ Len(SubSeq(a, s + 1, Len(a))) = Len(a) - s
      /\ \A k \in 1..(Len(a) - s) : SubSeq(a, s + 1, Len(a))[k] = a[s + k]
  <2>1. CASE s = Len(a)
    <3>1. SubSeq(a, s + 1, Len(a)) = <<>>
      BY <1>1, <2>1
    <3>2. QED
      BY <1>1, <2>1, <3>1
  <2>2. CASE s < Len(a)
    <3>1. s + 1 \in 1..Len(a) + 1 /\ Len(a) \in s..Len(a)
      BY <1>1, <2>2
    <3>2. /\ Len(SubSeq(a, s + 1, Len(a))) = Len(a) - (s + 1) + 1
          /\ \A k \in 1..(Len(a) - (s + 1) + 1) : SubSeq(a, s + 1, Len(a))[k] = a[(s + 1) + k - 1]
      BY <1>1, <2>2
    <3>3. Len(a) - (s + 1) + 1 = Len(a) - s /\ \A k \in 1..(Len(a) - s) : (s + 1) + k - 1 = s + k
      BY <1>1
    <3>4. QED
      BY <3>2, <3>3
  <2>3. QED
    BY <1>1, <2>1, <2>2
<1>4. s + Len(c) + Len(q) = Len(a)
  BY <1>1, <1>2, <1>3
<1>5. ASSUME NEW k \in 1..Len(c)
      PROVE  s + k \in 1..Len(a) /\ c[k] = a[s + k]
  <2>1. k \in 1..(Len(c) + Len(q)) /\ k <= Len(c) /\ k \in 1..(Len(a) - s) /\ s + k \in 1..Len(a)
    BY <1>1, <1>4
  <2>2. QED
    BY <1>2, <1>3, <2>1
<1>6. ASSUME NEW k \in 1..Len(q)
      PROVE  s + Len(c) + k \in 1..Len(a) /\ q[k] = a[s + Len(c) + k]
  <2>1. /\ Len(c) + k \in 1..(Len(c) + Len(q)) /\ ~(Len(c) + k <= Len(c)) /\ (Len(c) + k) - Len(c) = k
        /\ Len(c) + k \in 1..(Len(a) - s) /\ s + Len(c) + k \in 1..Len(a)
        /\ s + (Len(c) + k) = s + Len(c) + k
    BY <1>1, <1>4
  <2>2. (c \o q)[Len(c) + k] = q[k]
    BY <1>2, <2>1
  <2>3. SubSeq(a, s + 1, Len(a))[Len(c) + k] = a[s + (Len(c) + k)]
    BY <1>3, <2>1
  <2>4. QED
    BY <2>1, <2>2, <2>3
<1>7. QED
  BY <1>4, <1>5, <1>6 DEF InHistory

-----------------------------------------------------------------------------
(* Numbers                                                                     *)

LEMMA LeastOfNat ==
  ASSUME NEW S \in SUBSET Nat, S # {}
  PROVE  \E x \in S : \A y \in S : x <= y
<1> DEFINE Less == OpToRel(<, Nat)
<1>1. IsWellFoundedOn(Less, Nat)
  BY NatLessThanWellFounded
<1>2. \A x, y \in Nat : x < y => <<x, y>> \in Less
  BY DEF OpToRel
<1> HIDE DEF Less
<1>3. PICK x \in S : \A y \in S : ~(<<y, x>> \in Less)
  BY <1>1, WFMin
<1>4. ASSUME NEW y \in S
      PROVE  x <= y
  <2>1. ~(y < x)
    BY <1>2, <1>3
  <2>2. QED
    BY <2>1
<1>5. QED
  BY <1>4

LEMMA GreatestBelow ==
  ASSUME NEW bound \in Nat, NEW S \in SUBSET (0..bound), S # {}
  PROVE  \E x \in S : \A y \in S : x >= y
<1> DEFINE T == {n \in Nat : bound - n \in S}
<1>1. \A x \in S : bound - x \in T
  OBVIOUS
<1>2. T \in SUBSET Nat /\ T # {}
  BY <1>1
<1>3. PICK n \in T : \A m \in T : n <= m
  BY <1>2, LeastOfNat
<1>4. ASSUME NEW y \in S
      PROVE  bound - n >= y
  <2>1. n <= bound - y /\ n \in Nat /\ y \in 0..bound
    BY <1>1, <1>3
  <2>2. QED
    BY <2>1
<1>5. QED
  BY <1>3, <1>4

Bounded(S) == \E bound \in Nat : \A n \in S : n <= bound

(* Of the finite sets that are not bounded there would be a smallest, and one  *)
(* without its first element would be bounded.                                 *)
LEMMA FiniteIsBounded ==
  ASSUME NEW S \in SUBSET Nat, IsFiniteSet(S)
  PROVE  Bounded(S)
<1> DEFINE Unbounded(A) == A \in SUBSET Nat /\ IsFiniteSet(A) /\ ~Bounded(A)
           Sizes == {n \in Nat : \E A \in SUBSET Nat : Unbounded(A) /\ Cardinality(A) = n}
<1>1. SUFFICES ASSUME ~Bounded(S)
               PROVE  FALSE
  OBVIOUS
<1>2. Cardinality(S) \in Sizes
  BY <1>1, FS_CardinalityType
<1>3. PICK n \in Sizes : \A m \in Sizes : n <= m
  <2>1. Sizes \in SUBSET Nat /\ Sizes # {}
    BY <1>2
  <2> HIDE DEF Sizes
  <2>2. QED
    BY <2>1, LeastOfNat
<1>4. PICK A \in SUBSET Nat : Unbounded(A) /\ Cardinality(A) = n
  BY <1>3
<1>5. PICK a \in A : TRUE
  <2>1. A # {}
    BY <1>4 DEF Bounded
  <2>2. QED
    BY <2>1
<1>6. IsFiniteSet(A \ {a}) /\ Cardinality(A \ {a}) = n - 1 /\ n \in Nat /\ Cardinality(A \ {a}) \in Nat
  BY <1>3, <1>4, <1>5, FS_RemoveElement, FS_CardinalityType
<1>7. Bounded(A \ {a})
  <2>1. CASE ~Bounded(A \ {a})
    <3>1. Unbounded(A \ {a})
      BY <1>6, <2>1
    <3>2. n - 1 \in Sizes
      BY <1>6, <3>1
    <3>3. n <= n - 1
      BY <1>3, <3>2
    <3>4. QED
      BY <1>6, <3>3
  <2>2. QED
    BY <2>1
<1>8. PICK bound \in Nat : \A m \in A \ {a} : m <= bound
  BY <1>7 DEF Bounded
<1>9. a \in Nat /\ \A m \in A : m <= bound + a
  <2>1. a \in Nat /\ A \subseteq Nat
    BY <1>4, <1>5
  <2>2. ASSUME NEW m \in A
        PROVE  m <= bound + a
    <3>1. m \in Nat /\ (m = a \/ m <= bound)
      BY <1>8, <2>1
    <3>2. QED
      BY <2>1, <3>1
  <2>3. QED
    BY <2>1, <2>2
<1>10. Bounded(A)
  BY <1>9 DEF Bounded
<1>11. QED
  BY <1>4, <1>10

LEMMA GreatestOfFinite ==
  ASSUME NEW S \in SUBSET Nat, IsFiniteSet(S), S # {}
  PROVE  \E x \in S : \A y \in S : x >= y
<1>1. PICK bound \in Nat : \A n \in S : n <= bound
  BY FiniteIsBounded DEF Bounded
<1>2. S \in SUBSET (0..bound)
  BY <1>1
<1>3. QED
  BY <1>2, GreatestBelow
-----------------------------------------------------------------------------
(* Folds                                                                       *)

(* If subsets of a finite set have a fault, one of them has none smaller.      *)
LEMMA SmallestSubset ==
  ASSUME NEW S, IsFiniteSet(S), NEW Bad \in SUBSET (SUBSET S), Bad # {}
  PROVE  \E T \in Bad : \A x \in T : T \ {x} \notin Bad
<1> DEFINE Sizes == {n \in Nat : \E T \in Bad : Cardinality(T) = n}
<1>1. \A T \in SUBSET S : IsFiniteSet(T) /\ Cardinality(T) \in Nat
  BY FS_Subset, FS_CardinalityType
<1>2. Sizes \in SUBSET Nat /\ Sizes # {}
  <2>1. PICK T \in Bad : TRUE
    OBVIOUS
  <2>2. Cardinality(T) \in Sizes
    BY <1>1
  <2>3. QED
    BY <2>2
<1>3. PICK n \in Sizes : \A m \in Sizes : n <= m
  <2> HIDE DEF Sizes
  <2>1. QED
    BY <1>2, LeastOfNat
<1>4. PICK T \in Bad : Cardinality(T) = n /\ n \in Nat
  BY <1>3
<1>5. ASSUME NEW x \in T, T \ {x} \in Bad
      PROVE  FALSE
  <2>1. Cardinality(T \ {x}) = n - 1 /\ Cardinality(T \ {x}) \in Nat
    BY <1>1, <1>4, FS_RemoveElement
  <2>2. n - 1 \in Sizes
    BY <1>5, <2>1
  <2>3. n <= n - 1
    BY <1>3, <2>2
  <2>4. QED
    BY <1>4, <2>3
<1>6. QED
  BY <1>4, <1>5

(* There is a function that takes the elements of each set one after the       *)
(* other, in the order of pick: there is one for the empty set, and one for    *)
(* sets up to a size extends to those one larger.                              *)
Recurses(g, Sets, base, pick, step) ==
  \A T \in Sets : g[T] = IF T = {} THEN base ELSE step[<<pick[T], g[T \ {pick[T]}]>>]

LEMMA RecursionOnSubsets ==
  ASSUME NEW S, IsFiniteSet(S), NEW D, NEW base \in D, NEW step \in [S \X D -> D],
         NEW pick, \A T \in SUBSET S : T # {} => pick[T] \in T
  PROVE  \E g \in [SUBSET S -> D] : Recurses(g, SUBSET S, base, pick, step)
<1> DEFINE UpTo(n) == {T \in SUBSET S : Cardinality(T) <= n}
           Has(n) == \E g \in [UpTo(n) -> D] : Recurses(g, UpTo(n), base, pick, step)
           Lacking == {n \in Nat : ~Has(n)}
<1>1. \A T \in SUBSET S : IsFiniteSet(T) /\ Cardinality(T) \in Nat /\ Cardinality(T) <= Cardinality(S)
  BY FS_Subset, FS_CardinalityType
<1>2. ASSUME NEW n \in Nat, NEW T \in UpTo(n), T # {}
      PROVE  T \ {pick[T]} \in SUBSET S /\ pick[T] \in S /\ Cardinality(T \ {pick[T]}) <= n - 1
  <2>1. pick[T] \in T /\ T \in SUBSET S /\ IsFiniteSet(T) /\ Cardinality(T) \in Nat /\ Cardinality(T) <= n
    BY <1>1, <1>2
  <2>2. Cardinality(T \ {pick[T]}) = Cardinality(T) - 1
    BY <2>1, FS_RemoveElement
  <2>3. QED
    BY <2>1, <2>2
<1>3. Has(0)
  <2> DEFINE g == [T \in UpTo(0) |-> base]
  <2>1. \A T \in UpTo(0) : T = {}
    BY <1>1, FS_EmptySet
  <2>2. g \in [UpTo(0) -> D] /\ \A T \in UpTo(0) : T = {} /\ g[T] = base
    BY <2>1
  <2> HIDE DEF g
  <2>3. QED
    BY <2>2 DEF Recurses
<1>4. ASSUME NEW n \in Nat, Has(n)
      PROVE  Has(n + 1)
  <2>1. PICK g \in [UpTo(n) -> D] : Recurses(g, UpTo(n), base, pick, step)
    BY <1>4
  <2> DEFINE more == [T \in UpTo(n + 1) |->
                        IF T \in UpTo(n) THEN g[T] ELSE step[<<pick[T], g[T \ {pick[T]}]>>]]
  <2>2. ASSUME NEW T \in UpTo(n + 1), T # {}
        PROVE  T \ {pick[T]} \in UpTo(n) /\ T \ {pick[T]} \in UpTo(n + 1) /\ pick[T] \in S
    <3>1. T \ {pick[T]} \in SUBSET S /\ pick[T] \in S /\ Cardinality(T \ {pick[T]}) <= (n + 1) - 1
      BY <1>2, <2>2
    <3>2. Cardinality(T \ {pick[T]}) \in Nat
      BY <1>1, <3>1
    <3>3. QED
      BY <3>1, <3>2
  <2>3. \A T \in UpTo(n + 1) : T \notin UpTo(n) => T # {}
    BY <1>1, FS_EmptySet
  <2>4. UpTo(n) \subseteq UpTo(n + 1)
    BY <1>1
  <2> HIDE DEF UpTo
  <2>5. \A T \in UpTo(n + 1) :
          (IF T \in UpTo(n) THEN g[T] ELSE step[<<pick[T], g[T \ {pick[T]}]>>]) \in D
    BY <2>2, <2>3
  <2>6. more \in [UpTo(n + 1) -> D]
    BY <2>5
  <2>7. \A T \in UpTo(n) : more[T] = g[T]
    BY <2>4
  <2>8. ASSUME NEW T \in UpTo(n + 1)
        PROVE  more[T] = IF T = {} THEN base ELSE step[<<pick[T], more[T \ {pick[T]}]>>]
    <3>1. CASE T \in UpTo(n)
      <4>1. more[T] = g[T] /\ g[T] = IF T = {} THEN base ELSE step[<<pick[T], g[T \ {pick[T]}]>>]
        BY <2>1, <2>7, <3>1 DEF Recurses
      <4>2. T # {} => more[T \ {pick[T]}] = g[T \ {pick[T]}]
        BY <2>2, <2>7
      <4> HIDE DEF more
      <4>3. QED
        BY <4>1, <4>2
    <3>2. CASE T \notin UpTo(n)
      <4>1. T # {} /\ more[T] = step[<<pick[T], g[T \ {pick[T]}]>>]
        BY <2>3, <3>2
      <4>2. more[T \ {pick[T]}] = g[T \ {pick[T]}]
        BY <2>2, <2>7, <4>1
      <4> HIDE DEF more
      <4>3. QED
        BY <4>1, <4>2
    <3>3. QED
      BY <3>1, <3>2
  <2> HIDE DEF more
  <2>9. QED
    BY <2>6, <2>8 DEF Recurses
<1> HIDE DEF Has
<1>5. Lacking = {}
  <2>1. SUFFICES ASSUME Lacking # {}
                 PROVE  FALSE
    OBVIOUS
  <2>2. PICK n \in Lacking : \A m \in Lacking : n <= m
    BY <2>1, LeastOfNat
  <2>3. n \in Nat /\ n # 0 /\ ~Has(n)
    BY <1>3, <2>2
  <2>4. n - 1 \in Nat /\ n - 1 \notin Lacking
    BY <2>2, <2>3
  <2>5. Has((n - 1) + 1)
    BY <1>4, <2>4
  <2>6. (n - 1) + 1 = n
    BY <2>3
  <2>7. QED
    BY <2>3, <2>5, <2>6
<1>6. Has(Cardinality(S))
  BY <1>1, <1>5
<1>7. UpTo(Cardinality(S)) = SUBSET S
  BY <1>1
<1> HIDE DEF UpTo
<1>8. QED
  BY <1>6, <1>7 DEF Has

(* The last of some numbers. *)
Top(T) == CHOOSE x \in T : \A y \in T : x >= y

LEMMA TopIs ==
  ASSUME NEW n \in Nat, NEW T \in SUBSET (1..n), T # {}
  PROVE  Top(T) \in T /\ \A y \in T : Top(T) >= y
<1>1. T \in SUBSET (0..n)
  OBVIOUS
<1>2. \E x \in T : \A y \in T : x >= y
  BY <1>1, GreatestBelow
<1>3. QED
  BY <1>2 DEF Top

(* A fold over a sequence takes its elements from the first to the last.       *)
FoldsUp(g, n, base, step) ==
  \A T \in SUBSET (1..n) : g[T] = IF T = {} THEN base ELSE step[<<Top(T), g[T \ {Top(T)}]>>]

LEMMA FoldExists ==
  ASSUME NEW n \in Nat, NEW D, NEW base \in D, NEW step \in [(1..n) \X D -> D]
  PROVE  \E g \in [SUBSET (1..n) -> D] : FoldsUp(g, n, base, step)
<1> DEFINE pick == [T \in SUBSET (1..n) |-> Top(T)]
<1>1. \A T \in SUBSET (1..n) : pick[T] = Top(T) /\ (T # {} => pick[T] \in T)
  BY TopIs
<1>2. IsFiniteSet(1..n)
  BY FS_Interval
<1> HIDE DEF pick
<1>3. PICK g \in [SUBSET (1..n) -> D] : Recurses(g, SUBSET (1..n), base, pick, step)
  BY <1>1, <1>2, RecursionOnSubsets
<1>4. ASSUME NEW T \in SUBSET (1..n)
      PROVE  g[T] = IF T = {} THEN base ELSE step[<<Top(T), g[T \ {Top(T)}]>>]
  <2>1. g[T] = IF T = {} THEN base ELSE step[<<pick[T], g[T \ {pick[T]}]>>]
    BY <1>3 DEF Recurses
  <2>2. pick[T] = Top(T)
    BY <1>1
  <2>3. QED
    BY <2>1, <2>2
<1>5. QED
  BY <1>4 DEF FoldsUp

(* What iter is where it is of the type it should be. *)
StepsIn(iter, n, D, base, step) ==
  /\ iter[{}] = base
  /\ \A T \in SUBSET (1..n) : T # {} /\ iter[T \ {Top(T)}] \in D =>
       iter[T] = step[<<Top(T), iter[T \ {Top(T)}]>>]

(* What was made of the elements so far. *)
Climbs(h, n, base, step) ==
  h[0] = base /\ \A i \in 1..n : h[i] = step[<<i, h[i - 1]>>]

RunsTo(n, D, base, step, result) ==
  \E h \in [0..n -> D] : Climbs(h, n, base, step) /\ h[n] = result

LEMMA FoldInOrder ==
  ASSUME NEW n \in Nat, NEW D, NEW base \in D, NEW step \in [(1..n) \X D -> D],
         NEW iter, StepsIn(iter, n, D, base, step)
  PROVE  RunsTo(n, D, base, step, iter[1..n])
<1>1. ASSUME NEW k \in 1..n
      PROVE  1..k \in SUBSET (1..n) /\ 1..k # {} /\ Top(1..k) = k /\ (1..k) \ {k} = 1..(k - 1)
  <2>1. 1..k \in SUBSET (1..n) /\ k \in 1..k /\ (1..k) \ {k} = 1..(k - 1)
    OBVIOUS
  <2>2. PICK T \in SUBSET (1..n) : T = 1..k
    BY <2>1
  <2>3. Top(T) \in T /\ \A y \in T : Top(T) >= y
    BY <2>1, <2>2, TopIs
  <2>4. Top(T) = k
    BY <2>1, <2>2, <2>3
  <2>5. QED
    BY <2>1, <2>2, <2>4
<1>2. ASSUME NEW k \in 1..n, iter[1..(k - 1)] \in D
      PROVE  iter[1..k] = step[<<k, iter[1..(k - 1)]>>]
  BY <1>1, <1>2 DEF StepsIn
<1> DEFINE Bad == {k \in 0..n : iter[1..k] \notin D}
<1>3. iter[1..0] = base
  <2>1. 1..0 = {}
    OBVIOUS
  <2>2. QED
    BY <2>1 DEF StepsIn
<1>4. Bad = {}
  <2>1. SUFFICES ASSUME Bad # {}
                 PROVE  FALSE
    OBVIOUS
  <2>2. PICK k \in Bad : \A l \in Bad : k <= l
    <3>1. Bad \in SUBSET Nat
      OBVIOUS
    <3> HIDE DEF Bad
    <3>2. QED
      BY <2>1, <3>1, LeastOfNat
  <2>3. k \in 1..n /\ iter[1..k] \notin D
    BY <1>3, <2>2
  <2>4. k - 1 \in 0..n /\ k - 1 \notin Bad
    BY <2>2, <2>3
  <2>5. iter[1..(k - 1)] \in D
    BY <2>4
  <2>6. iter[1..k] = step[<<k, iter[1..(k - 1)]>>]
    BY <1>2, <2>3, <2>5
  <2>7. QED
    BY <2>3, <2>5, <2>6
<1> DEFINE h == [k \in 0..n |-> iter[1..k]]
<1>5. h \in [0..n -> D] /\ \A k \in 0..n : h[k] = iter[1..k]
  BY <1>4
<1>6. \A k \in 1..n : h[k] = step[<<k, h[k - 1]>>]
  <2>1. TAKE k \in 1..n
  <2>2. k - 1 \in 0..n /\ k \in 0..n
    OBVIOUS
  <2>3. QED
    BY <1>2, <1>5, <2>2
<1> HIDE DEF h
<1>7. h[0] = base /\ h[n] = iter[1..n]
  BY <1>3, <1>5
<1>8. QED
  BY <1>5, <1>6, <1>7 DEF Climbs, RunsTo

(* What holds of none of them, and with each of one more, holds of all.        *)
LEMMA OneByOne ==
  ASSUME NEW n \in Nat, NEW Good \in SUBSET (0..n), 0 \in Good,
         \A i \in 1..n : i - 1 \in Good => i \in Good
  PROVE  Good = 0..n
<1> DEFINE Bad == (0..n) \ Good
<1>1. SUFFICES ASSUME Bad # {}
               PROVE  FALSE
  OBVIOUS
<1>2. PICK i \in Bad : \A k \in Bad : i <= k
  <2>1. Bad \in SUBSET Nat
    OBVIOUS
  <2> HIDE DEF Bad
  <2>2. QED
    BY <1>1, <2>1, LeastOfNat
<1>3. i \in 1..n /\ i \notin Good
  BY <1>2
<1>4. i - 1 \in 0..n /\ i - 1 \notin Bad
  BY <1>2, <1>3
<1>5. QED
  BY <1>3, <1>4

-----------------------------------------------------------------------------
(* Orders                                                                      *)

(* Of any two elements one comes before the other. *)
Linear(R, S) ==
  /\ \A x \in S : <<x, x>> \notin R
  /\ \A x, y, z \in S : <<x, y>> \in R /\ <<y, z>> \in R => <<x, z>> \in R
  /\ \A x, y \in S : x # y => <<x, y>> \in R \/ <<y, x>> \in R

LEMMA LinearPart ==
  ASSUME NEW S, NEW R, Linear(R, S), NEW T \in SUBSET S
  PROVE  Linear(R, T)
  BY DEF Linear

LEMMA LinearHasLast ==
  ASSUME NEW S, IsFiniteSet(S), NEW R, Linear(R, S), NEW U \in SUBSET S, U # {}
  PROVE  \E x \in U : \A y \in U : y # x => <<y, x>> \in R
<1> DEFINE Last(T) == \E x \in T : \A y \in T : y # x => <<y, x>> \in R
           Bad == {T \in SUBSET S : T # {} /\ ~Last(T)}
<1>1. SUFFICES ASSUME Bad # {}
               PROVE  FALSE
  OBVIOUS
<1>2. PICK T \in Bad : \A x \in T : T \ {x} \notin Bad
  <2>1. Bad \in SUBSET (SUBSET S)
    OBVIOUS
  <2> HIDE DEF Bad
  <2>2. QED
    BY <1>1, <2>1, SmallestSubset
<1>3. T \in SUBSET S /\ T # {} /\ ~Last(T)
  BY <1>2
<1>4. PICK a \in T : TRUE
  BY <1>3
<1>5. CASE T \ {a} = {}
  BY <1>3, <1>4, <1>5
<1>6. CASE T \ {a} # {}
  <2>1. PICK b \in T \ {a} : \A y \in T \ {a} : y # b => <<y, b>> \in R
    BY <1>2, <1>3, <1>6
  <2>2. a \in S /\ b \in S /\ a # b
    BY <1>3, <2>1
  <2>3. CASE <<a, b>> \in R
    BY <1>3, <2>1, <2>3
  <2>4. CASE <<b, a>> \in R
    <3>1. \A y \in T : y # a => <<y, a>> \in R
      BY <1>3, <2>1, <2>2, <2>4 DEF Linear
    <3>2. QED
      BY <1>3, <3>1
  <2>5. QED
    BY <2>2, <2>3, <2>4 DEF Linear
<1>7. QED
  BY <1>5, <1>6

(* The elements of S, in order. *)
Ordered(seq, R, S) ==
  /\ seq \in [1..Cardinality(S) -> S]
  /\ \A i, j \in 1..Cardinality(S) : i < j => <<seq[i], seq[j]>> \in R

LEMMA OrderExists ==
  ASSUME NEW S, IsFiniteSet(S), NEW R, Linear(R, S)
  PROVE  \E seq : Ordered(seq, R, S)
<1> DEFINE Bad == {T \in SUBSET S : ~\E seq : Ordered(seq, R, T)}
<1>1. SUFFICES ASSUME Bad # {}
               PROVE  FALSE
  OBVIOUS
<1>2. PICK T \in Bad : \A x \in T : T \ {x} \notin Bad
  <2>1. Bad \in SUBSET (SUBSET S)
    OBVIOUS
  <2> HIDE DEF Bad
  <2>2. QED
    BY <1>1, <2>1, SmallestSubset
<1>3. T \in SUBSET S /\ ~\E seq : Ordered(seq, R, T)
  BY <1>2
<1>4. IsFiniteSet(T) /\ Linear(R, T)
  BY <1>3, FS_Subset, LinearPart
<1>5. T # {}
  <2>1. ASSUME T = {}
        PROVE  Ordered(<<>>, R, T)
    <3>1. Cardinality(T) = 0
      BY <2>1, FS_EmptySet
    <3>2. <<>> \in [1..0 -> T] /\ 1..0 = {}
      BY <2>1
    <3>3. QED
      BY <3>1, <3>2 DEF Ordered
  <2>2. QED
    BY <1>3, <2>1
<1>6. PICK x \in T : \A y \in T : y # x => <<y, x>> \in R
  BY <1>3, <1>5, LinearHasLast
<1>7. PICK seq : Ordered(seq, R, T \ {x})
  <2>1. T \ {x} \in SUBSET S
    BY <1>3
  <2>2. QED
    BY <1>2, <2>1
<1> DEFINE n == Cardinality(T)
           more == [i \in 1..n |-> IF i = n THEN x ELSE seq[i]]
<1>8. n \in Nat \ {0} /\ Cardinality(T \ {x}) = n - 1
  <2>1. Cardinality(T) \in Nat /\ Cardinality(T \ {x}) = Cardinality(T) - 1
    BY <1>4, FS_CardinalityType, FS_RemoveElement
  <2>2. Cardinality(T \ {x}) \in Nat
    BY <1>4, FS_RemoveElement, FS_CardinalityType
  <2>3. QED
    BY <2>1, <2>2
<1> HIDE DEF n
<1>9. seq \in [1..(n - 1) -> T \ {x}] /\ \A i, j \in 1..(n - 1) : i < j => <<seq[i], seq[j]>> \in R
  BY <1>7, <1>8 DEF Ordered
<1>10. \A i \in 1..n : i # n => i \in 1..(n - 1)
  BY <1>8
<1>11. more \in [1..n -> T]
  BY <1>9, <1>10
<1>12. ASSUME NEW i \in 1..n, NEW j \in 1..n, i < j
       PROVE  <<more[i], more[j]>> \in R
  <2>1. i # n /\ i \in 1..(n - 1)
    BY <1>8, <1>12
  <2>2. more[i] = seq[i] /\ seq[i] \in T \ {x}
    BY <1>9, <2>1
  <2>3. CASE j = n
    BY <1>6, <2>2, <2>3
  <2>4. CASE j # n
    <3>1. j \in 1..(n - 1) /\ more[j] = seq[j]
      BY <1>10, <2>4
    <3>2. QED
      BY <1>9, <1>12, <2>1, <2>2, <3>1
  <2>5. QED
    BY <2>3, <2>4
<1> HIDE DEF more
<1>13. Ordered(more, R, T)
  BY <1>11, <1>12 DEF Ordered, n
<1>14. QED
  BY <1>3, <1>13

(* Each is somewhere, and only there. *)
LEMMA OrderedOnto ==
  ASSUME NEW S, IsFiniteSet(S), NEW R, Linear(R, S), NEW seq, Ordered(seq, R, S)
  PROVE  \A x \in S : \E i \in 1..Cardinality(S) : seq[i] = x
<1> DEFINE n == Cardinality(S)
<1>1. n \in Nat
  BY FS_CardinalityType
<1>2. IsFiniteSet(1..n) /\ Cardinality(1..n) = n
  BY <1>1, FS_Interval
<1>3. seq \in [1..n -> S] /\ \A i, j \in 1..n : i < j => <<seq[i], seq[j]>> \in R
  BY DEF Ordered
<1>4. ASSUME NEW i \in 1..n, NEW j \in 1..n, i < j
      PROVE  seq[i] # seq[j]
  BY <1>3, <1>4 DEF Linear
<1>5. \A i, j \in 1..n : seq[i] = seq[j] => i = j
  BY <1>1, <1>4
<1>6. seq \in Injection(1..n, S)
  BY <1>3, <1>5 DEF Injection, IsInjective
<1>7. seq \in Surjection(1..n, S)
  <2>1. Cardinality(1..n) = Cardinality(S)
    BY <1>2
  <2> HIDE DEF n
  <2>2. QED
    BY <1>6, <2>1, FS_Injection
<1>8. QED
  BY <1>7 DEF Surjection

LEMMA OrderedOnce ==
  ASSUME NEW S, IsFiniteSet(S), NEW R, Linear(R, S), NEW seq, Ordered(seq, R, S),
         NEW k \in 0..Cardinality(S)
  PROVE  Cardinality({seq[i] : i \in 1..k}) = k
<1> DEFINE n == Cardinality(S)
           some == {seq[i] : i \in 1..k}
           f == [i \in 1..k |-> seq[i]]
<1>1. n \in Nat /\ k \in Nat /\ \A i \in 1..k : i \in 1..n
  BY FS_CardinalityType
<1>2. seq \in [1..n -> S] /\ \A i, j \in 1..n : i < j => <<seq[i], seq[j]>> \in R
  BY DEF Ordered
<1>3. \A i, j \in 1..n : i < j => seq[i] # seq[j]
  BY <1>2 DEF Linear
<1>4. \A i, j \in 1..k : seq[i] = seq[j] => i = j
  BY <1>1, <1>3
<1> HIDE DEF n
<1>5. f \in [1..k -> some] /\ \A i \in 1..k : f[i] = seq[i]
  OBVIOUS
<1> HIDE DEF f
<1>6. f \in Bijection(1..k, some)
  <2>1. f \in Injection(1..k, some)
    BY <1>4, <1>5 DEF Injection, IsInjective
  <2>2. f \in Surjection(1..k, some)
    BY <1>5 DEF Surjection
  <2>3. QED
    BY <2>1, <2>2 DEF Bijection
<1> HIDE DEF some
<1>7. IsFiniteSet(1..k) /\ Cardinality(1..k) = k
  BY <1>1, FS_Interval
<1>8. ExistsBijection(1..k, some)
  BY <1>6 DEF ExistsBijection
<1>9. Cardinality(some) = k
  BY <1>7, <1>8, FS_Bijection
<1>10. QED
  BY <1>9 DEF some

Ahead(R, S, x) == {y \in S : <<y, x>> \in R}

(* The first of them: if any are left out, there are as many as there may be,  *)
(* and each comes before each that is left out.                                *)
LEMMA FirstOf ==
  ASSUME NEW S, IsFiniteSet(S), NEW R, Linear(R, S), NEW limit \in Nat,
         NEW x \in S, ~(Cardinality(Ahead(R, S, x)) < limit)
  PROVE  LET first == {y \in S : Cardinality(Ahead(R, S, y)) < limit}
         IN Cardinality(first) = limit /\ \A y \in first : <<y, x>> \in R
<1> DEFINE n == Cardinality(S)
           first == {y \in S : Cardinality(Ahead(R, S, y)) < limit}
<1>1. PICK seq : Ordered(seq, R, S)
  BY OrderExists
<1>2. n \in Nat /\ seq \in [1..n -> S] /\ \A i, j \in 1..n : i < j => <<seq[i], seq[j]>> \in R
  BY <1>1, FS_CardinalityType DEF Ordered
<1>3. \A y \in S : \E i \in 1..n : seq[i] = y
  BY <1>1, OrderedOnto
<1>4. \A k \in 0..n : Cardinality({seq[i] : i \in 1..k}) = k
  BY <1>1, OrderedOnce
<1> HIDE DEF n
<1>5. ASSUME NEW k \in 1..n
      PROVE  Cardinality(Ahead(R, S, seq[k])) = k - 1
  <2>1. ASSUME NEW i \in 1..n
        PROVE  <<seq[i], seq[k]>> \in R <=> i \in 1..(k - 1)
    <3>1. CASE i < k
      BY <1>2, <3>1
    <3>2. CASE i = k
      BY <1>2, <3>2 DEF Linear
    <3>3. CASE i > k
      <4>1. <<seq[k], seq[i]>> \in R /\ seq[i] \in S /\ seq[k] \in S
        BY <1>2, <3>3
      <4>2. <<seq[i], seq[k]>> \notin R
        BY <4>1 DEF Linear
      <4>3. QED
        BY <1>2, <3>3, <4>2
    <3>4. QED
      BY <1>2, <3>1, <3>2, <3>3
  <2>2. \A i \in 1..(k - 1) : i \in 1..n
    BY <1>2
  <2>3. Ahead(R, S, seq[k]) = {seq[i] : i \in 1..(k - 1)}
    BY <1>2, <1>3, <2>1, <2>2 DEF Ahead
  <2>4. k - 1 \in 0..n
    BY <1>2
  <2>5. QED
    BY <1>4, <2>3, <2>4
<1>6. PICK k \in 1..n : seq[k] = x
  BY <1>3
<1>7. limit < k /\ limit \in 0..n
  BY <1>2, <1>5, <1>6
<1>8. \A i \in 1..n : seq[i] \in first <=> i \in 1..limit
  BY <1>2, <1>5
<1>9. first = {seq[i] : i \in 1..limit}
  <2>1. \A i \in 1..limit : i \in 1..n
    BY <1>2, <1>7
  <2>2. first \subseteq S
    OBVIOUS
  <2> HIDE DEF first
  <2>3. QED
    BY <1>3, <1>8, <2>1, <2>2
<1> HIDE DEF first
<1>10. Cardinality(first) = limit
  BY <1>4, <1>7, <1>9
<1>11. ASSUME NEW y \in first
       PROVE  <<y, x>> \in R
  <2>1. PICK i \in 1..limit : y = seq[i]
    BY <1>9
  <2>2. i \in 1..n /\ i < k
    BY <1>2, <1>7, <2>1
  <2>3. QED
    BY <1>2, <1>6, <2>1, <2>2
<1>12. QED
  BY <1>10, <1>11 DEF first

-----------------------------------------------------------------------------
(* Sums                                                                        *)

(* As the community modules compute it: one element after the other. *)
Sums(sum, f, S) ==
  sum = [T \in SUBSET S |->
           IF T = {} THEN 0 ELSE LET x == CHOOSE x \in T : TRUE IN f[x] + sum[T \ {x}]]

LEMMA SumExists ==
  ASSUME NEW S, IsFiniteSet(S), NEW f \in [S -> Nat]
  PROVE  \E sum : Sums(sum, f, S)
<1> DEFINE pick == [T \in SUBSET S |-> CHOOSE x \in T : TRUE]
           step == [p \in S \X Nat |-> f[p[1]] + p[2]]
<1>1. \A T \in SUBSET S : T # {} => pick[T] \in T
  OBVIOUS
<1>2. step \in [S \X Nat -> Nat] /\ \A x \in S, n \in Nat : step[<<x, n>>] = f[x] + n
  OBVIOUS
<1>3. \A T \in SUBSET S : pick[T] = CHOOSE x \in T : TRUE
  OBVIOUS
<1> HIDE DEF pick, step
<1>4. PICK g \in [SUBSET S -> Nat] : Recurses(g, SUBSET S, 0, pick, step)
  BY <1>1, <1>2, RecursionOnSubsets
<1>5. ASSUME NEW T \in SUBSET S
      PROVE  g[T] = IF T = {} THEN 0 ELSE LET x == CHOOSE x \in T : TRUE IN f[x] + g[T \ {x}]
  <2>1. g[T] = IF T = {} THEN 0 ELSE step[<<pick[T], g[T \ {pick[T]}]>>]
    BY <1>4 DEF Recurses
  <2>2. T # {} => pick[T] \in S /\ g[T \ {pick[T]}] \in Nat
    BY <1>1
  <2>3. T # {} => step[<<pick[T], g[T \ {pick[T]}]>>] = f[pick[T]] + g[T \ {pick[T]}]
    BY <1>2, <2>2
  <2>4. QED
    BY <1>3, <2>1, <2>3
<1>6. QED
  BY <1>5 DEF Sums

LEMMA SumTakes ==
  ASSUME NEW S, NEW f, NEW sum, Sums(sum, f, S), NEW T \in SUBSET S, T # {}
  PROVE  \E x \in T : sum[T] = f[x] + sum[T \ {x}]
  BY DEF Sums

LEMMA SumTypes ==
  ASSUME NEW S, IsFiniteSet(S), NEW f \in [S -> Nat], NEW sum, Sums(sum, f, S)
  PROVE  sum[{}] = 0 /\ \A T \in SUBSET S : sum[T] \in Nat
<1> DEFINE Bad == {T \in SUBSET S : sum[T] \notin Nat}
<1>1. sum[{}] = 0
  BY DEF Sums
<1>2. SUFFICES ASSUME Bad # {}
               PROVE  FALSE
  BY <1>1
<1>3. PICK T \in Bad : \A x \in T : T \ {x} \notin Bad
  BY <1>2, SmallestSubset
<1>4. T \in SUBSET S /\ sum[T] \notin Nat
  BY <1>3
<1>5. PICK x \in T : sum[T] = f[x] + sum[T \ {x}]
  <2>1. sum[T] # 0
    BY <1>4
  <2>2. T # {}
    BY <1>1, <2>1
  <2>3. QED
    BY <1>4, <2>2, SumTakes
<1>6. sum[T \ {x}] \in Nat /\ f[x] \in Nat
  BY <1>3, <1>4, <1>5
<1>7. QED
  BY <1>4, <1>5, <1>6

(* It does not matter which comes first. *)
LEMMA SumSplits ==
  ASSUME NEW S, IsFiniteSet(S), NEW f \in [S -> Nat], NEW sum, Sums(sum, f, S)
  PROVE  \A T \in SUBSET S : \A x \in T : sum[T] = f[x] + sum[T \ {x}]
<1> DEFINE Right(T) == \A x \in T : sum[T] = f[x] + sum[T \ {x}]
           Bad == {T \in SUBSET S : ~Right(T)}
<1>1. SUFFICES ASSUME Bad # {}
               PROVE  FALSE
  OBVIOUS
<1>2. PICK T \in Bad : \A x \in T : T \ {x} \notin Bad
  BY <1>1, SmallestSubset
<1>3. T \in SUBSET S /\ \A x \in T : T \ {x} \in SUBSET S /\ Right(T \ {x})
  BY <1>2
<1>4. PICK x \in T : sum[T] # f[x] + sum[T \ {x}]
  BY <1>2
<1> HIDE DEF Bad
<1>5. PICK y \in T : sum[T] = f[y] + sum[T \ {y}]
  <2>1. T \in SUBSET S /\ T # {}
    BY <1>3, <1>4
  <2>2. QED
    BY <2>1, SumTakes
<1>6. x # y
  BY <1>4, <1>5
<1>7. sum[T \ {y}] = f[x] + sum[(T \ {y}) \ {x}] /\ sum[T \ {x}] = f[y] + sum[(T \ {x}) \ {y}]
  BY <1>3, <1>6
<1>8. (T \ {y}) \ {x} = (T \ {x}) \ {y} /\ (T \ {x}) \ {y} \in SUBSET S
  BY <1>3
<1>9. sum[(T \ {x}) \ {y}] \in Nat /\ f[x] \in Nat /\ f[y] \in Nat
  BY <1>3, <1>8, SumTypes
<1>10. sum[T] = f[y] + (f[x] + sum[(T \ {x}) \ {y}])
  BY <1>5, <1>7, <1>8
<1>11. sum[T] # f[x] + (f[y] + sum[(T \ {x}) \ {y}])
  BY <1>4, <1>7
<1>12. QED
  BY <1>9, <1>10, <1>11

LEMMA SumBelow ==
  ASSUME NEW S, IsFiniteSet(S), NEW f \in [S -> Nat], NEW sum, Sums(sum, f, S),
         NEW b \in Nat, \A x \in S : f[x] <= b
  PROVE  sum[S] <= b * Cardinality(S)
<1> DEFINE Bad == {T \in SUBSET S : ~(sum[T] <= b * Cardinality(T))}
<1>1. \A T \in SUBSET S : IsFiniteSet(T) /\ Cardinality(T) \in Nat
  BY FS_Subset, FS_CardinalityType
<1>2. SUFFICES ASSUME Bad # {}
               PROVE  FALSE
  OBVIOUS
<1>3. PICK T \in Bad : \A x \in T : T \ {x} \notin Bad
  BY <1>2, SmallestSubset
<1>4. T \in SUBSET S /\ ~(sum[T] <= b * Cardinality(T))
  BY <1>3
<1>5. T # {}
  <2>1. sum[{}] = 0 /\ Cardinality({}) = 0
    BY SumTypes, FS_EmptySet
  <2>2. sum[{}] <= b * Cardinality({})
    BY <2>1
  <2>3. QED
    BY <1>4, <2>2
<1>6. PICK x \in T : TRUE
  BY <1>5
<1>7. T \ {x} \in SUBSET S /\ sum[T \ {x}] <= b * Cardinality(T \ {x})
  BY <1>3, <1>4
<1>8. sum[T] = f[x] + sum[T \ {x}] /\ sum[T \ {x}] \in Nat /\ f[x] \in Nat /\ f[x] <= b
  <2>1. sum[T] = f[x] + sum[T \ {x}]
    BY <1>4, SumSplits
  <2>2. sum[T \ {x}] \in Nat
    BY <1>7, SumTypes
  <2>3. QED
    BY <1>4, <2>1, <2>2
<1>9. Cardinality(T \ {x}) = Cardinality(T) - 1 /\ Cardinality(T) \in Nat
  BY <1>1, <1>4, FS_RemoveElement
<1>10. b * (Cardinality(T) - 1) = b * Cardinality(T) - b /\ b * Cardinality(T) \in Nat
  BY <1>9
<1>11. QED
  BY <1>4, <1>7, <1>8, <1>9, <1>10

(* What is the same is the same in sum. *)
LEMMA SumSame ==
  ASSUME NEW S, IsFiniteSet(S), NEW f \in [S -> Nat], NEW sum, Sums(sum, f, S),
         NEW g \in [S -> Nat], NEW other, Sums(other, g, S),
         NEW U \in SUBSET S, \A x \in U : f[x] = g[x]
  PROVE  sum[U] = other[U]
<1> DEFINE Bad == {T \in SUBSET S : T \subseteq U /\ sum[T] # other[T]}
<1>1. SUFFICES ASSUME Bad # {}
               PROVE  FALSE
  OBVIOUS
<1>2. PICK T \in Bad : \A x \in T : T \ {x} \notin Bad
  BY <1>1, SmallestSubset
<1>3. T \in SUBSET S /\ T \subseteq U /\ sum[T] # other[T]
  BY <1>2
<1>4. T # {}
  BY <1>3, SumTypes
<1>5. PICK x \in T : TRUE
  BY <1>4
<1>6. sum[T \ {x}] = other[T \ {x}]
  BY <1>2, <1>3
<1>7. sum[T] = f[x] + sum[T \ {x}] /\ other[T] = g[x] + other[T \ {x}]
  BY <1>3, SumSplits
<1>8. QED
  BY <1>3, <1>6, <1>7

LEMMA SumSplitsOff ==
  ASSUME NEW S, IsFiniteSet(S), NEW f \in [S -> Nat], NEW sum, Sums(sum, f, S), NEW x \in S
  PROVE  sum[S] = f[x] + sum[S \ {x}]
<1>1. PICK T \in SUBSET S : T = S
  OBVIOUS
<1>2. sum[T] = f[x] + sum[T \ {x}]
  BY <1>1, SumSplits
<1>3. QED
  BY <1>1, <1>2

(* A change of one. *)
LEMMA SumChanges ==
  ASSUME NEW S, IsFiniteSet(S), NEW f \in [S -> Nat], NEW sum, Sums(sum, f, S),
         NEW g \in [S -> Nat], NEW other, Sums(other, g, S),
         NEW x \in S
  PROVE  (\A y \in S \ {x} : f[y] = g[y]) =>
         other[S] - g[x] = sum[S] - f[x] /\ other[S] \in Nat /\ sum[S] \in Nat
<1>1. sum[S] = f[x] + sum[S \ {x}] /\ other[S] = g[x] + other[S \ {x}]
  BY SumSplitsOff
<1>2. sum[S \ {x}] \in Nat /\ other[S] \in Nat /\ sum[S] \in Nat /\ f[x] \in Nat /\ g[x] \in Nat
  BY SumTypes
<1>3. HAVE \A y \in S \ {x} : f[y] = g[y]
<1>4. sum[S \ {x}] = other[S \ {x}]
  BY <1>3, SumSame
<1>5. QED
  BY <1>1, <1>2, <1>4
================================================================================
