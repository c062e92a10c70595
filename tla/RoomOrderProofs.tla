--------------------------- MODULE RoomOrderProofs ----------------------------
(* RoomOrder keeps its promise for any rooms and messages. What implements     *)
(* RoomOrder inherits it.                                                      *)
EXTENDS RoomOrder, DataFacts, TLAPS

(* No more messages are over than arrived.                                     *)
SettledBound == \A r \in Rooms : settled[r] \in 0..Len(arrived[r])

(* The inductive invariant: InOrder needs the bound, because a SubSeq that     *)
(* starts after the end of arrived is empty as well.                           *)
IInv == TypeOK /\ SettledBound /\ InOrder /\ LostIsOver

LEMMA InitIInv == Init => IInv
<1> SUFFICES ASSUME Init PROVE IInv
  OBVIOUS
<1>1. TypeOK /\ SettledBound /\ LostIsOver
  BY EmptySeq DEF Init, TypeOK, SettledBound, LostIsOver
<1>2. ASSUME NEW r \in Rooms
      PROVE  Line(r) = Unsettled(r)
  <2>1. SubSeq(<<>>, 0 + 1, Len(<<>>)) = <<>>
    BY EmptySeq, SubSeqEmpty
  <2>2. QED
    BY <2>1 DEF Init, Line, Unsettled
<1>3. QED
  BY <1>1, <1>2 DEF IInv, InOrder

(* What InOrder says of one room, as the lemmas on sequences need it.          *)
LEMMA RoomFacts ==
  ASSUME IInv, NEW r \in Rooms
  PROVE  /\ arrived[r] \in Seq(Items) /\ pending[r] \in Seq(Items) /\ current[r] \in Seq(Items)
         /\ Line(r) \in Seq(Items) /\ Len(Line(r)) \in Nat
         /\ Len(Line(r)) = Len(current[r]) + Len(pending[r])
         /\ Len(current[r]) \in Nat /\ Len(pending[r]) \in Nat
         /\ Len(arrived[r]) \in Nat /\ settled[r] \in 0..Len(arrived[r]) /\ settled[r] \in Nat
         /\ settled[r] + Len(Line(r)) = Len(arrived[r])
<1>1. /\ arrived[r] \in Seq(Items) /\ pending[r] \in Seq(Items) /\ current[r] \in Seq(Items)
      /\ settled[r] \in 0..Len(arrived[r])
  BY DEF IInv, TypeOK, SettledBound
<1>2. Line(r) \in Seq(Items) /\ Len(Line(r)) = Len(current[r]) + Len(pending[r])
  BY <1>1, ConcatProperties DEF Line
<1>3. Line(r) = SubSeq(arrived[r], settled[r] + 1, Len(arrived[r]))
  BY DEF IInv, InOrder, Unsettled
<1>4. Len(Line(r)) = Len(arrived[r]) - settled[r]
  BY <1>1, <1>3, SplitQueue, Zenon
<1>5. Len(arrived[r]) \in Nat /\ Len(Line(r)) \in Nat
  BY <1>1, <1>2, LenProperties
<1>6. settled[r] + Len(Line(r)) = Len(arrived[r]) /\ settled[r] \in Nat
  BY <1>1, <1>4, <1>5
<1>7. Len(current[r]) \in Nat /\ Len(pending[r]) \in Nat
  BY <1>1, LenProperties
<1>8. QED
  BY <1>1, <1>2, <1>5, <1>6, <1>7

LEMMA ArriveIInv ==
  ASSUME IInv, NEW r \in Rooms, NEW m \in Items, Arrive(r, m)
  PROVE  IInv'
<1>1. /\ arrived' = [arrived EXCEPT ![r] = Append(arrived[r], m)]
      /\ pending' = [pending EXCEPT ![r] = Append(pending[r], m)]
      /\ UNCHANGED <<current, settled, lostAt>>
  BY DEF Arrive, IInv, TypeOK
<1>2. Append(arrived[r], m) \in Seq(Items) /\ Len(Append(arrived[r], m)) = Len(arrived[r]) + 1
  <2>1. arrived[r] \in Seq(Items)
    BY RoomFacts
  <2>2. QED
    BY <2>1, AppendProperties, SMTT(30)
<1>3. TypeOK' /\ LostIsOver'
  BY <1>1 DEF IInv, TypeOK, LostIsOver
<1>4. SettledBound'
  BY <1>1, <1>2, RoomFacts DEF IInv, TypeOK, SettledBound
<1>5. ASSUME NEW q \in Rooms
      PROVE  (Line(q) = Unsettled(q))'
  <2>1. CASE q # r
    BY <2>1, <1>1 DEF IInv, TypeOK, InOrder, Line, Unsettled
  <2>2. CASE q = r
    <3>1. Line(r)' = current[r] \o Append(pending[r], m)
      BY <1>1 DEF Line, IInv, TypeOK
    <3>2. current[r] \o Append(pending[r], m) = Append(Line(r), m)
      <4>1. current[r] \o Append(pending[r], m) = Append(current[r] \o pending[r], m)
        <5>1. current[r] \in Seq(Items) /\ pending[r] \in Seq(Items)
          BY RoomFacts
        <5>2. \A s, t \in Seq(Items) : s \o Append(t, m) = Append(s \o t, m)
          BY AppendBehind
        <5>3. QED
          BY <5>1, <5>2, Zenon
      <4>2. QED
        BY <4>1 DEF Line
    <3>3. Unsettled(r)' = SubSeq(Append(arrived[r], m), settled[r] + 1, Len(arrived[r]) + 1)
      BY <1>1, <1>2 DEF Unsettled, IInv, TypeOK
    <3>4. SubSeq(Append(arrived[r], m), settled[r] + 1, Len(arrived[r]) + 1) = Append(Unsettled(r), m)
      BY RoomFacts, AppendToRest DEF Unsettled
    <3>5. Line(r) = Unsettled(r)
      BY DEF IInv, InOrder
    <3>6. QED
      BY <2>2, <3>1, <3>2, <3>3, <3>4, <3>5
  <2>3. QED
    BY <2>1, <2>2
<1>6. QED
  BY <1>3, <1>4, <1>5 DEF IInv, InOrder

LEMMA BeginIInv ==
  ASSUME IInv, NEW r \in Rooms, Begin(r)
  PROVE  IInv'
<1>1. /\ current' = [current EXCEPT ![r] = <<Head(pending[r])>>]
      /\ pending' = [pending EXCEPT ![r] = Tail(pending[r])]
      /\ UNCHANGED <<arrived, settled, lostAt>>
      /\ current[r] = <<>> /\ pending[r] # <<>>
  BY DEF Begin, IInv, TypeOK
<1>2. /\ <<Head(pending[r])>> \in Seq(Items) /\ Tail(pending[r]) \in Seq(Items)
      /\ <<Head(pending[r])>> \o Tail(pending[r]) = pending[r]
  BY <1>1, RoomFacts, HeadOfQueue
<1>3. /\ Line(r)' = <<Head(pending[r])>> \o Tail(pending[r])
      /\ \A q \in Rooms \ {r} : Line(q)' = Line(q)
  BY <1>1 DEF Line, IInv, TypeOK
<1>4. Line(r) = pending[r]
  BY <1>1, RoomFacts, ConcatEmptySeq DEF Line
<1>5. \A q \in Rooms : Line(q)' = Unsettled(q)'
  BY <1>1, <1>2, <1>3, <1>4 DEF IInv, InOrder, Unsettled
<1> DEFINE h == <<Head(pending[r])>>
           t == Tail(pending[r])
<1>6. h \in Seq(Items) /\ t \in Seq(Items)
  BY <1>2
<1>7. current' = [current EXCEPT ![r] = h] /\ pending' = [pending EXCEPT ![r] = t]
  BY <1>1
<1> HIDE DEF h, t
<1>8. TypeOK'
  BY <1>1, <1>6, <1>7 DEF IInv, TypeOK
<1>9. SettledBound' /\ LostIsOver'
  BY <1>1 DEF IInv, SettledBound, LostIsOver
<1>10. QED
  BY <1>5, <1>8, <1>9 DEF IInv, InOrder

LEMMA JoinIInv ==
  ASSUME IInv, NEW r \in Rooms, NEW n \in 1..Len(pending[r]), Join(r, n)
  PROVE  IInv'
<1> DEFINE first == SubSeq(pending[r], 1, n)
           rest == SubSeq(pending[r], n + 1, Len(pending[r]))
<1>1. n \in 0..Len(pending[r])
  BY RoomFacts
<1>2. first \in Seq(Items) /\ rest \in Seq(Items)
  BY <1>1, RoomFacts, SplitQueue
<1>3. /\ current' = [current EXCEPT ![r] = current[r] \o first]
      /\ pending' = [pending EXCEPT ![r] = rest]
      /\ UNCHANGED <<arrived, settled, lostAt>>
  BY DEF Join, IInv, TypeOK
<1>4. (current[r] \o first) \o rest = Line(r)
  BY <1>1, RoomFacts, JoinFirst DEF Line
<1> HIDE DEF first, rest
<1>5. current[r] \o first \in Seq(Items)
  BY <1>2, RoomFacts, ConcatProperties
<1>6. /\ Line(r)' = (current[r] \o first) \o rest
      /\ \A q \in Rooms \ {r} : Line(q)' = Line(q)
  BY <1>3 DEF Line, IInv, TypeOK
<1>7. \A q \in Rooms : Line(q)' = Unsettled(q)'
  BY <1>3, <1>4, <1>6 DEF IInv, InOrder, Unsettled
<1>8. TypeOK'
  BY <1>2, <1>3, <1>5 DEF IInv, TypeOK
<1>9. SettledBound' /\ LostIsOver'
  BY <1>3 DEF IInv, SettledBound, LostIsOver
<1>10. QED
  BY <1>7, <1>8, <1>9 DEF IInv, InOrder

LEMMA FinishIInv ==
  ASSUME IInv, NEW r \in Rooms, Finish(r)
  PROVE  IInv'
<1> DEFINE over == settled[r] + Len(current[r])
<1>1. /\ settled' = [settled EXCEPT ![r] = over]
      /\ current' = [current EXCEPT ![r] = <<>>]
      /\ UNCHANGED <<arrived, pending, lostAt>>
  BY DEF Finish, IInv, TypeOK
<1>2. current[r] \o pending[r] = Rest(arrived[r], settled[r])
  BY DEF IInv, InOrder, Line, Unsettled, Rest
<1>3. pending[r] = Rest(arrived[r], over)
  <2>1. /\ arrived[r] \in Seq(Items) /\ settled[r] \in 0..Len(arrived[r])
        /\ current[r] \in Seq(Items) /\ pending[r] \in Seq(Items)
    BY RoomFacts
  <2>2. QED
    BY <1>2, <2>1, DropFromRest, Zenon
<1>4. over \in 0..Len(arrived[r]) /\ over \in Nat /\ settled[r] <= over
  <2>1. /\ settled[r] \in Nat /\ Len(current[r]) \in Nat /\ Len(pending[r]) \in Nat
        /\ Len(arrived[r]) \in Nat
        /\ settled[r] + (Len(current[r]) + Len(pending[r])) = Len(arrived[r])
    BY RoomFacts, Zenon
  <2>2. ASSUME NEW a \in Nat, NEW b \in Nat, NEW c \in Nat, NEW d \in Nat, a + (b + c) = d
        PROVE  a + b \in 0..d /\ a + b \in Nat /\ a <= a + b
    BY <2>2
  <2>3. QED
    BY <2>1, <2>2, Zenon
<1> HIDE DEF over
<1>5. /\ Line(r)' = <<>> \o pending[r]
      /\ \A q \in Rooms \ {r} : Line(q)' = Line(q)
  BY <1>1 DEF Line, IInv, TypeOK
<1>6. <<>> \o pending[r] = pending[r]
  BY RoomFacts, ConcatEmptySeq
<1>7. /\ Unsettled(r)' = Rest(arrived[r], over)
      /\ \A q \in Rooms \ {r} : Unsettled(q)' = Unsettled(q)
  BY <1>1 DEF Unsettled, Rest, IInv, TypeOK
<1>8. \A q \in Rooms : Line(q)' = Unsettled(q)'
  BY <1>3, <1>5, <1>6, <1>7 DEF IInv, InOrder
<1>9. TypeOK'
  BY <1>1, <1>4, EmptySeq DEF IInv, TypeOK
<1>10. SettledBound'
  BY <1>1, <1>4 DEF IInv, TypeOK, SettledBound
<1>11. LostIsOver'
  BY <1>1, <1>4 DEF IInv, TypeOK, LostIsOver
<1>12. QED
  BY <1>8, <1>9, <1>10, <1>11 DEF IInv, InOrder

LEMMA DropIInv ==
  ASSUME IInv, NEW R \in SUBSET Rooms, Drop(R)
  PROVE  IInv'
<1>1. \A r \in Rooms : settled[r] + Len(Line(r)) = Len(arrived[r]) /\ settled[r] \in Nat
                       /\ Len(arrived[r]) \in Nat /\ Len(Line(r)) \in Nat
  <2> TAKE r \in Rooms
  <2>1. /\ settled[r] + Len(Line(r)) = Len(arrived[r]) /\ settled[r] \in 0..Len(arrived[r])
        /\ Len(arrived[r]) \in Nat /\ Len(Line(r)) \in Nat
    BY RoomFacts
  <2>2. QED
    BY <2>1
<1>2. \A r \in R : /\ settled'[r] = Len(arrived[r]) /\ current'[r] = <<>> /\ pending'[r] = <<>>
                   /\ lostAt'[r] = lostAt[r] \union (settled[r] + 1 .. Len(arrived[r]))
                   /\ arrived'[r] = arrived[r]
  BY <1>1 DEF Drop
<1>3. \A r \in Rooms \ R : /\ settled'[r] = settled[r] /\ current'[r] = current[r]
                           /\ pending'[r] = pending[r] /\ lostAt'[r] = lostAt[r]
                           /\ arrived'[r] = arrived[r]
  BY DEF Drop
<1>4. TypeOK'
  <2>1. \A r \in Rooms : settled[r] + Len(Line(r)) \in Nat
    BY <1>1
  <2>2. \A r \in Rooms : lostAt[r] \union (settled[r] + 1 .. settled[r] + Len(Line(r))) \in SUBSET Nat
    <3>1. ASSUME NEW a \in Nat, NEW b \in Nat, NEW L \in SUBSET Nat
          PROVE  L \union (a + 1 .. a + b) \in SUBSET Nat
      OBVIOUS
    <3>2. \A r \in Rooms : lostAt[r] \in SUBSET Nat
      BY DEF IInv, TypeOK
    <3>3. QED
      BY <1>1, <3>1, <3>2, Zenon
  <2>3. arrived' \in [Rooms -> Seq(Items)] /\ settled' \in [Rooms -> Nat]
    BY <2>1 DEF Drop, IInv, TypeOK
  <2>4. current' \in [Rooms -> Seq(Items)] /\ pending' \in [Rooms -> Seq(Items)]
    BY EmptySeq DEF Drop, IInv, TypeOK
  <2>5. lostAt' \in [Rooms -> SUBSET Nat]
    BY <2>2 DEF Drop, IInv, TypeOK
  <2>6. QED
    BY <2>3, <2>4, <2>5 DEF TypeOK
<1>5. SettledBound'
  BY <1>1, <1>2, <1>3 DEF IInv, TypeOK, SettledBound
<1>6. LostIsOver'
  <2> SUFFICES ASSUME NEW r \in Rooms PROVE lostAt'[r] \subseteq 1..settled'[r]
    BY DEF LostIsOver
  <2>1. /\ lostAt[r] \subseteq 1..settled[r] /\ settled[r] \in Nat
        /\ settled[r] <= Len(arrived[r]) /\ Len(arrived[r]) \in Nat
    BY <1>1 DEF IInv, LostIsOver
  <2>2. CASE r \in R
    BY <2>1, <2>2, <1>2
  <2>3. CASE r \notin R
    BY <2>1, <2>3, <1>3
  <2>4. QED
    BY <2>2, <2>3
<1>7. ASSUME NEW r \in Rooms
      PROVE  (Line(r) = Unsettled(r))'
  <2>1. CASE r \in R
    <3>1. Line(r)' = <<>> \o <<>> /\ Unsettled(r)' = SubSeq(arrived[r], Len(arrived[r]) + 1, Len(arrived[r]))
      BY <2>1, <1>2 DEF Line, Unsettled
    <3>2. SubSeq(arrived[r], Len(arrived[r]) + 1, Len(arrived[r])) = <<>>
      BY <1>1, SubSeqEmpty
    <3>3. <<>> \o <<>> = <<>>
      BY EmptySeq, ConcatEmptySeq
    <3>4. QED
      BY <3>1, <3>2, <3>3
  <2>2. CASE r \notin R
    BY <2>2, <1>3 DEF IInv, InOrder, Line, Unsettled
  <2>3. QED
    BY <2>1, <2>2
<1>8. QED
  BY <1>4, <1>5, <1>6, <1>7 DEF IInv, InOrder

LEMMA NextIInv == IInv /\ [Next]_vars => IInv'
<1> SUFFICES ASSUME IInv, [Next]_vars
             PROVE  IInv'
  OBVIOUS
<1>1. ASSUME NEW r \in Rooms, NEW m \in Items, Arrive(r, m)
      PROVE  IInv'
  BY <1>1, ArriveIInv
<1>2. ASSUME NEW r \in Rooms, Begin(r)
      PROVE  IInv'
  BY <1>2, BeginIInv
<1>3. ASSUME NEW r \in Rooms, NEW n \in 1..Len(pending[r]), Join(r, n)
      PROVE  IInv'
  BY <1>3, JoinIInv
<1>4. ASSUME NEW r \in Rooms, Finish(r)
      PROVE  IInv'
  BY <1>4, FinishIInv
<1>5. ASSUME NEW R \in SUBSET Rooms, Drop(R)
      PROVE  IInv'
  BY <1>5, DropIInv
<1>6. CASE UNCHANGED vars
  BY <1>6 DEF IInv, TypeOK, SettledBound, InOrder, LostIsOver, Line, Unsettled, vars
<1>7. QED
  BY <1>1, <1>2, <1>3, <1>4, <1>5, <1>6 DEF Next

(* Messages are handled in the order they arrived, none skipped or repeated,   *)
(* and only what is over counts as lost.                                       *)
THEOREM OrderKept == Spec => [](TypeOK /\ InOrder /\ LostIsOver)
<1>1. IInv => TypeOK /\ InOrder /\ LostIsOver
  BY DEF IInv
<1>2. QED
  BY <1>1, InitIInv, NextIInv, PTL DEF Spec
=============================================================================
