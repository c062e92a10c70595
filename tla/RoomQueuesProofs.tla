--------------------------- MODULE RoomQueuesProofs ---------------------------
(* For any rooms, messages, bursts and number of inboxes: RoomQueues keeps one *)
(* worker per room and every room's messages in order, and implements          *)
(* RoomOrder.                                                                  *)
EXTENDS RoomQueues, DataFacts, TLAPS

(* The map only knows inboxes created for the room they are mapped to.         *)
SenderServes ==
  \A r \in Rooms : sender[r] # None =>
    serves[sender[r]] = r /\ status[sender[r]] # "unused"

Structure == TypeOK /\ OneWorker /\ SenderServes

-----------------------------------------------------------------------------
(* Who owns what                                                              *)

LEMMA InitStructure == Init => Structure
  BY RoomQueuesAssumption, EmptySeq
  DEF Init, Structure, TypeOK, OneWorker, SenderServes, Live, Statuses

LEMMA SendStructure ==
  ASSUME Structure, NEW r \in Rooms, NEW m \in Items, Send(r, m), UNCHANGED <<settled, lostAt>>,
         arrived' = [arrived EXCEPT ![r] = Append(@, m)]
  PROVE  Structure'
<1> USE DEF Structure, HasWorker
<1>1. sender[r] \in Inboxes /\ Live(sender[r])
  BY DEF Send, TypeOK
<1>2. TypeOK'
  BY <1>1, SMTT(30) DEF Send, TypeOK, Live, Statuses
<1>3. OneWorker' /\ SenderServes'
  BY DEF Send, TypeOK, OneWorker, SenderServes, Live
<1>4. QED
  BY <1>2, <1>3

LEMMA SpawnStructure ==
  ASSUME Structure, NEW r \in Rooms, NEW m \in Items, NEW i \in Inboxes, Spawn(r, m, i),
         UNCHANGED <<settled, lostAt>>, arrived' = [arrived EXCEPT ![r] = Append(@, m)]
  PROVE  Structure'
<1> USE DEF Structure
<1>1. /\ status[i] = "unused" /\ ~Live(i) /\ i # None
      /\ held[i] = <<>> /\ channel[i] = <<>> /\ active[i] = <<>>
  BY RoomQueuesAssumption DEF Spawn, TypeOK, Live
<1>2. TypeOK'
  <2>1. <<m>> \in Seq(Items)
    OBVIOUS
  <2>2. QED
    BY <1>1, <2>1 DEF Spawn, TypeOK, Live, Statuses
<1>3. SenderServes'
  BY <1>1 DEF Spawn, TypeOK, SenderServes
<1>4. OneWorker'
  <2> SUFFICES ASSUME NEW j \in Inboxes, Live(j)'
               PROVE  sender'[serves'[j]] = j
    BY DEF OneWorker
  <2>1. CASE j = i
    BY <1>1, <2>1 DEF Spawn, TypeOK
  <2>2. CASE j # i
    <3>1. Live(j) /\ serves'[j] = serves[j] /\ serves[j] \in Rooms /\ sender[serves[j]] = j
      BY <2>2 DEF Spawn, TypeOK, OneWorker, Live
    <3>2. serves[j] # r
      BY <3>1, RoomQueuesAssumption DEF Spawn, HasWorker
    <3>3. QED
      BY <3>1, <3>2 DEF Spawn, TypeOK
  <2>3. QED
    BY <2>1, <2>2
<1>5. QED
  BY <1>2, <1>3, <1>4

LEMMA TakeNextStructure ==
  ASSUME Structure, NEW i \in Inboxes, TakeNext(i)
  PROVE  Structure'
<1> USE DEF Structure
<1> DEFINE Taken(s) == <<Head(s)>> \in Seq(Items) /\ Tail(s) \in Seq(Items) /\ <<Head(s)>> # <<>>
<1>1. ASSUME NEW s \in Seq(Items), s # <<>>
      PROVE  Taken(s)
  BY <1>1, HeadOfQueue
<1>2. /\ active' \in [Inboxes -> Seq(Items)] /\ active'[i] # <<>>
      /\ \A j \in Inboxes \ {i} : active'[j] = active[j]
      /\ held' \in [Inboxes -> Seq(Items)] /\ channel' \in [Inboxes -> Seq(Items)]
      /\ \A j \in Inboxes \ {i} : held'[j] = held[j] /\ channel'[j] = channel[j]
  <2>1. /\ held \in [Inboxes -> Seq(Items)] /\ channel \in [Inboxes -> Seq(Items)]
        /\ active \in [Inboxes -> Seq(Items)]
    BY DEF TypeOK
  <2>2. CASE held[i] # <<>>
    <3>1. Taken(held[i])
      BY <1>1, <2>1, <2>2
    <3>2. /\ active' = [active EXCEPT ![i] = <<Head(held[i])>>]
          /\ held' = [held EXCEPT ![i] = Tail(held[i])]
          /\ channel' = channel
      BY <2>1, <2>2 DEF TakeNext
    <3> DEFINE h == <<Head(held[i])>>
               t == Tail(held[i])
    <3>3. h \in Seq(Items) /\ t \in Seq(Items) /\ h # <<>>
      BY <3>1
    <3> HIDE DEF h, t
    <3>4. active' = [active EXCEPT ![i] = h] /\ held' = [held EXCEPT ![i] = t]
      BY <3>2 DEF h, t
    <3>5. QED
      BY <2>1, <3>2, <3>3, <3>4
  <2>3. CASE held[i] = <<>>
    <3>1. channel[i] # <<>>
      BY <2>3 DEF TakeNext
    <3>2. Taken(channel[i])
      BY <1>1, <2>1, <3>1
    <3>3. /\ active' = [active EXCEPT ![i] = <<Head(channel[i])>>]
          /\ channel' = [channel EXCEPT ![i] = Tail(channel[i])]
          /\ held' = held
      BY <2>1, <2>3 DEF TakeNext
    <3> DEFINE h == <<Head(channel[i])>>
               t == Tail(channel[i])
    <3>4. h \in Seq(Items) /\ t \in Seq(Items) /\ h # <<>>
      BY <3>2
    <3> HIDE DEF h, t
    <3>5. active' = [active EXCEPT ![i] = h] /\ channel' = [channel EXCEPT ![i] = t]
      BY <3>3 DEF h, t
    <3>6. QED
      BY <2>1, <3>3, <3>4, <3>5
  <2>4. QED
    BY <2>2, <2>3
<1>4. /\ status' \in [Inboxes -> Statuses] /\ status[i] = "waiting" /\ status'[i] = "handling"
      /\ \A j \in Inboxes \ {i} : status'[j] = status[j]
      /\ UNCHANGED <<sender, serves, arrived, settled, lostAt>>
  BY DEF TakeNext, TypeOK, Statuses, history
<1>5. TypeOK'
  BY <1>2, <1>4 DEF TypeOK, Live
<1>6. OneWorker' /\ SenderServes'
  BY <1>4 DEF TypeOK, OneWorker, SenderServes, Live
<1>7. QED
  BY <1>5, <1>6

LEMMA TakeBurstStructure ==
  ASSUME Structure, NEW i \in Inboxes, TakeBurst(i)
  PROVE  Structure'
<1> USE DEF Structure
<1> DEFINE queue == held[i] \o channel[i]
<1>1. PICK n \in 0..Len(queue) :
        /\ active' = [active EXCEPT ![i] = @ \o SubSeq(queue, 1, n)]
        /\ held' = [held EXCEPT ![i] = SubSeq(queue, n + 1, Len(queue))]
  BY DEF TakeBurst
<1>2. queue \in Seq(Items) /\ active[i] \in Seq(Items) /\ active[i] # <<>>
  BY ConcatProperties DEF TakeBurst, TypeOK
<1> HIDE DEF queue
<1> DEFINE first == SubSeq(queue, 1, n)
           rest == SubSeq(queue, n + 1, Len(queue))
<1>3. first \in Seq(Items) /\ rest \in Seq(Items)
  BY <1>2, SplitQueue
<1> HIDE DEF first, rest
<1>4. active[i] \o first \in Seq(Items) /\ active[i] \o first # <<>>
  BY <1>2, <1>3, ConcatProperties, ConcatEqualIffEmpty
<1>5. /\ active' \in [Inboxes -> Seq(Items)] /\ active'[i] # <<>>
      /\ \A j \in Inboxes \ {i} : active'[j] = active[j]
  BY <1>1, <1>4 DEF TypeOK, first
<1>6. /\ held' \in [Inboxes -> Seq(Items)] /\ channel' \in [Inboxes -> Seq(Items)]
      /\ \A j \in Inboxes \ {i} : held'[j] = held[j] /\ channel'[j] = channel[j]
  BY <1>1, <1>3, EmptySeq DEF TakeBurst, TypeOK, rest
<1>7. /\ status' \in [Inboxes -> Statuses] /\ status[i] = "handling" /\ status'[i] = "answering"
      /\ \A j \in Inboxes \ {i} : status'[j] = status[j]
      /\ UNCHANGED <<sender, serves, arrived, settled, lostAt>>
  BY DEF TakeBurst, TypeOK, Statuses, history
<1>8. TypeOK'
  BY <1>5, <1>6, <1>7 DEF TypeOK, Live
<1>9. OneWorker' /\ SenderServes'
  BY <1>7, SMTT(30) DEF TypeOK, OneWorker, SenderServes, Live
<1>10. QED
  BY <1>8, <1>9

LEMMA FinishStructure ==
  ASSUME Structure, NEW i \in Inboxes, Finish(i)
  PROVE  Structure'
<1> USE DEF Structure
<1>1. serves[i] \in Rooms /\ Len(active[i]) \in Nat
  BY LenProperties DEF Finish, TypeOK, Live
<1>2. TypeOK'
  BY <1>1, EmptySeq DEF Finish, TypeOK, Live, Statuses
<1>3. OneWorker' /\ SenderServes'
  BY DEF Finish, TypeOK, OneWorker, SenderServes, Live
<1>4. QED
  BY <1>2, <1>3

(* Positions after settled[r] are natural numbers.                             *)
LEMMA LosePositionsType ==
  ASSUME TypeOK, NEW r \in Rooms, NEW k \in Nat
  PROVE  LosePositions(r, k) \in SUBSET Nat
  BY DEF TypeOK, LosePositions

LEMMA ContentsType ==
  ASSUME TypeOK, NEW i \in Inboxes
  PROVE  Contents(i) \in Seq(Items) /\ Len(Contents(i)) \in Nat
<1>1. Contents(i) \in Seq(Items)
  BY ConcatProperties DEF TypeOK, Contents
<1>2. QED
  BY <1>1, LenProperties

LEMMA DieStructure ==
  ASSUME Structure, NEW i \in Inboxes, Die(i)
  PROVE  Structure'
<1> USE DEF Structure
<1>1. serves[i] \in Rooms /\ Len(Contents(i)) \in Nat
  BY ContentsType DEF Die, TypeOK, Live
<1>2. TypeOK'
  BY <1>1, LosePositionsType, EmptySeq, SMTT(30) DEF Die, TypeOK, Live, Statuses
<1>3. OneWorker' /\ SenderServes'
  BY DEF Die, TypeOK, OneWorker, SenderServes, Live
<1>4. QED
  BY <1>2, <1>3

LEMMA LineType ==
  ASSUME TypeOK, NEW r \in Rooms
  PROVE  Line(r) \in Seq(Items) /\ Backlog(r) \in Nat
<1>1. Line(r) \in Seq(Items)
  BY ContentsType, EmptySeq DEF Line, HasWorker, TypeOK
<1>2. QED
  BY <1>1, LenProperties DEF Backlog

LEMMA RestartStructure ==
  ASSUME Structure, Restart
  PROVE  Structure'
<1> USE DEF Structure
<1>1. \A r \in Rooms : Backlog(r) \in Nat /\ LosePositions(r, Backlog(r)) \in SUBSET Nat
  BY LineType, LosePositionsType
<1>2. TypeOK'
  BY <1>1, EmptySeq DEF Restart, TypeOK, Live, Statuses
<1>3. OneWorker' /\ SenderServes'
  BY DEF Restart, TypeOK, OneWorker, SenderServes, Live
<1>4. QED
  BY <1>2, <1>3

LEMMA NextStructure == Structure /\ [Next]_vars => Structure'
<1> SUFFICES ASSUME Structure, [Next]_vars
             PROVE  Structure'
  OBVIOUS
<1>1. ASSUME NEW r \in Rooms, NEW m \in Items, Enqueue(r, m)
      PROVE  Structure'
  BY <1>1, SendStructure, SpawnStructure DEF Enqueue
<1>2. ASSUME NEW i \in Inboxes, TakeNext(i) \/ TakeBurst(i) \/ Finish(i) \/ Die(i)
      PROVE  Structure'
  BY <1>2, TakeNextStructure, TakeBurstStructure, FinishStructure, DieStructure
<1>3. CASE Restart
  BY <1>3, RestartStructure
<1>4. CASE UNCHANGED vars
  BY <1>4 DEF Structure, TypeOK, OneWorker, SenderServes, Live, vars, inboxVars, history
<1>5. QED
  BY <1>1, <1>2, <1>3, <1>4 DEF Next

(* Every variable keeps its type, an inbox has something active exactly while  *)
(* its task handles it, and one that nobody owns is empty.                     *)
THEOREM TypeCorrect == Spec => []TypeOK
<1>1. Structure => TypeOK
  BY DEF Structure
<1>2. QED
  BY <1>1, InitStructure, NextStructure, PTL DEF Spec

(* At no time do two tasks handle messages of one room, and the task that      *)
(* lives is the one enqueue sends to.                                          *)
THEOREM SingleWorker == Spec => []OneWorker
<1>1. Structure => OneWorker
  BY DEF Structure
<1>2. QED
  BY <1>1, InitStructure, NextStructure, PTL DEF Spec

-----------------------------------------------------------------------------
(* Every step is a step of RoomOrder, or none                                  *)

pend == [r \in Rooms |-> Pending(r)]
cur == [r \in Rooms |-> Current(r)]

(* The inbox of a live task is the one its room maps to, and no other room.    *)
LEMMA OwnRoom ==
  ASSUME Structure, NEW i \in Inboxes, Live(i)
  PROVE  /\ serves[i] \in Rooms /\ sender[serves[i]] = i /\ HasWorker(serves[i])
         /\ Pending(serves[i]) = held[i] \o channel[i]
         /\ Current(serves[i]) = active[i]
         /\ \A r \in Rooms \ {serves[i]} : sender[r] # i
<1>1. serves[i] \in Rooms /\ sender[serves[i]] = i /\ i # None
  BY RoomQueuesAssumption DEF Structure, TypeOK, OneWorker
<1>2. HasWorker(serves[i])
  BY <1>1 DEF HasWorker
<1>3. \A r \in Rooms \ {serves[i]} : sender[r] # i
  BY <1>1 DEF Structure, SenderServes
<1>4. QED
  BY <1>1, <1>2, <1>3 DEF Pending, Current

(* A step that leaves the other inboxes alone leaves the other rooms' lines    *)
(* alone.                                                                      *)
LEMMA OtherRooms ==
  ASSUME Structure, NEW i, NEW q \in Rooms, \A r \in Rooms \ {q} : sender[r] # i,
         \A r \in Rooms \ {q} : sender'[r] = sender[r],
         \A j \in Inboxes \ {i} : /\ status'[j] = status[j] /\ held'[j] = held[j]
                                  /\ channel'[j] = channel[j] /\ active'[j] = active[j]
  PROVE  \A r \in Rooms \ {q} : Pending(r)' = Pending(r) /\ Current(r)' = Current(r)
<1> TAKE r \in Rooms \ {q}
<1>1. CASE sender[r] = None
  BY <1>1 DEF Pending, Current, HasWorker
<1>2. CASE sender[r] # None
  <2>1. sender[r] \in Inboxes \ {i} /\ sender'[r] = sender[r]
    BY <1>2 DEF Structure, TypeOK
  <2>2. HasWorker(r)' = HasWorker(r)
    BY <2>1 DEF HasWorker, Live
  <2>3. QED
    BY <2>1, <2>2 DEF Pending, Current
<1>3. QED
  BY <1>1, <1>2

LEMMA SendArrives ==
  ASSUME Structure, NEW r \in Rooms, NEW m \in Items, Send(r, m), UNCHANGED <<settled, lostAt>>,
         arrived' = [arrived EXCEPT ![r] = Append(@, m)]
  PROVE  Order!Arrive(r, m)
<1> DEFINE i == sender[r]
<1>1. i \in Inboxes /\ i # None /\ Live(i) /\ HasWorker(r)
  BY DEF Send, HasWorker, Structure, TypeOK
<1>2. \A q \in Rooms \ {r} : sender[q] # i
  BY <1>1 DEF Structure, SenderServes
<1>3. /\ channel' = [channel EXCEPT ![i] = Append(channel[i], m)]
      /\ UNCHANGED <<sender, status, serves, held, active>>
      /\ held[i] \in Seq(Items) /\ channel[i] \in Seq(Items)
  BY <1>1 DEF Send, Structure, TypeOK
<1> HIDE DEF i
<1>4. channel'[i] = Append(channel[i], m) /\ \A j \in Inboxes \ {i} : channel'[j] = channel[j]
  BY <1>1, <1>3 DEF Structure, TypeOK
<1>5. \A q \in Rooms \ {r} : Pending(q)' = Pending(q) /\ Current(q)' = Current(q)
  BY <1>1, <1>2, <1>3, <1>4, OtherRooms
<1>6. HasWorker(r)'
  BY <1>1, <1>3 DEF HasWorker, Live
<1>7. Pending(r) = held[i] \o channel[i] /\ Pending(r)' = held[i] \o Append(channel[i], m)
  BY <1>1, <1>3, <1>4, <1>6 DEF Pending, i
<1>8. Current(r)' = Current(r)
  BY <1>1, <1>3, <1>6 DEF Current
<1>9. Pending(r)' = Append(Pending(r), m)
  <2>1. held[i] \in Seq(Items) /\ channel[i] \in Seq(Items)
    BY <1>3
  <2>2. \A s, t \in Seq(Items) : s \o Append(t, m) = Append(s \o t, m)
    BY AppendBehind
  <2>3. QED
    BY <1>7, <2>1, <2>2, Zenon
<1>10. pend' = [pend EXCEPT ![r] = Append(pend[r], m)] /\ cur' = cur
  BY <1>5, <1>8, <1>9 DEF pend, cur
<1>11. QED
  BY <1>10 DEF Order!Arrive, pend, cur

LEMMA SpawnArrives ==
  ASSUME Structure, NEW r \in Rooms, NEW m \in Items, NEW i \in Inboxes, Spawn(r, m, i),
         UNCHANGED <<settled, lostAt>>, arrived' = [arrived EXCEPT ![r] = Append(@, m)]
  PROVE  Order!Arrive(r, m)
<1>1. /\ status[i] = "unused" /\ i # None /\ ~HasWorker(r)
      /\ held[i] = <<>> /\ active[i] = <<>>
  BY RoomQueuesAssumption DEF Spawn, Structure, TypeOK, Live
<1>2. \A q \in Rooms : sender[q] # i
  BY <1>1 DEF Structure, SenderServes
<1>3. /\ sender'[r] = i /\ status'[i] = "waiting" /\ channel'[i] = <<m>>
      /\ \A q \in Rooms \ {r} : sender'[q] = sender[q]
      /\ \A j \in Inboxes \ {i} : /\ status'[j] = status[j] /\ held'[j] = held[j]
                                  /\ channel'[j] = channel[j] /\ active'[j] = active[j]
      /\ held' = held /\ active' = active
  BY DEF Spawn, Structure, TypeOK
<1>4. \A q \in Rooms \ {r} : Pending(q)' = Pending(q) /\ Current(q)' = Current(q)
  BY <1>2, <1>3, OtherRooms, ZenonT(60)
<1>5. HasWorker(r)'
  BY <1>1, <1>3 DEF HasWorker, Live
<1>6. Current(r)' = Current(r)
  BY <1>1, <1>3, <1>5 DEF Current
<1>7. Pending(r) = <<>> /\ Pending(r)' = <<>> \o <<m>>
  BY <1>1, <1>3, <1>5 DEF Pending
<1>8. <<>> \o <<m>> = Append(<<>>, m)
  BY EmptySeq, AppendIsConcat
<1>9. pend' = [pend EXCEPT ![r] = Append(pend[r], m)] /\ cur' = cur
  BY <1>4, <1>6, <1>7, <1>8 DEF pend, cur
<1>10. QED
  BY <1>9 DEF Order!Arrive, pend, cur

LEMMA TakeNextBegins ==
  ASSUME Structure, NEW i \in Inboxes, NEW q \in Rooms, q = serves[i], TakeNext(i)
  PROVE  Order!Begin(q)
<1> DEFINE line == held[i] \o channel[i]
<1>1. /\ Live(i) /\ active[i] = <<>> /\ UNCHANGED <<sender, serves, arrived, settled, lostAt>>
      /\ held[i] \in Seq(Items) /\ channel[i] \in Seq(Items)
  BY DEF TakeNext, Structure, TypeOK, Live, history
<1>2. /\ q \in Rooms /\ sender[q] = i /\ HasWorker(q) /\ Pending(q) = line /\ Current(q) = <<>>
      /\ \A r \in Rooms \ {q} : sender[r] # i
  BY <1>1, OwnRoom
<1>3. line # <<>> /\ active'[i] = <<Head(line)>> /\ held'[i] \o channel'[i] = Tail(line)
  <2>1. CASE held[i] # <<>>
    <3>1. active'[i] = <<Head(held[i])>> /\ held'[i] = Tail(held[i]) /\ channel'[i] = channel[i]
      BY <2>1 DEF TakeNext, Structure, TypeOK
    <3>2. QED
      <4>1. line # <<>> /\ Head(line) = Head(held[i]) /\ Tail(line) = Tail(held[i]) \o channel[i]
        BY <1>1, <2>1, HeadOfConcat
      <4>2. QED
        BY <3>1, <4>1
  <2>2. CASE held[i] = <<>>
    <3>1. /\ channel[i] # <<>> /\ active'[i] = <<Head(channel[i])>>
          /\ held'[i] = <<>> /\ channel'[i] = Tail(channel[i])
      BY <2>2 DEF TakeNext, Structure, TypeOK
    <3>2. line = channel[i] /\ <<>> \o Tail(channel[i]) = Tail(channel[i])
      BY <1>1, <2>2, <3>1, ConcatEmptySeq, HeadOfQueue
    <3>3. QED
      BY <3>1, <3>2
  <2>3. QED
    BY <2>1, <2>2
<1>4. \A r \in Rooms \ {q} : Pending(r)' = Pending(r) /\ Current(r)' = Current(r)
  <2>1. \A j \in Inboxes \ {i} : /\ status'[j] = status[j] /\ held'[j] = held[j]
                                 /\ channel'[j] = channel[j] /\ active'[j] = active[j]
    BY DEF TakeNext, Structure, TypeOK
  <2>2. QED
    BY <1>1, <1>2, <2>1, OtherRooms, ZenonT(60)
<1>5. HasWorker(q)'
  BY <1>1, <1>2 DEF TakeNext, HasWorker, Live, Structure, TypeOK
<1>6. Current(q)' = active'[i] /\ Pending(q)' = held'[i] \o channel'[i]
  BY <1>1, <1>2, <1>5 DEF Current, Pending
<1> HIDE DEF line
<1>7. cur' = [cur EXCEPT ![q] = <<Head(pend[q])>>] /\ pend' = [pend EXCEPT ![q] = Tail(pend[q])]
  <2> DEFINE h == <<Head(line)>>
             t == Tail(line)
  <2>1. pend[q] = line /\ Current(q)' = h /\ Pending(q)' = t
    BY <1>2, <1>3, <1>6 DEF pend
  <2> HIDE DEF h, t
  <2>2. cur' = [cur EXCEPT ![q] = h] /\ pend' = [pend EXCEPT ![q] = t]
    BY <1>2, <1>4, <2>1 DEF pend, cur
  <2>3. QED
    BY <2>1, <2>2 DEF h, t
<1>8. cur[q] = <<>> /\ pend[q] # <<>>
  BY <1>2, <1>3 DEF pend, cur
<1>9. QED
  BY <1>1, <1>7, <1>8 DEF Order!Begin, pend, cur

(* A burst that nobody joins only moves what the channel held to held.         *)
LEMMA TakeBurstJoins ==
  ASSUME Structure, NEW i \in Inboxes, NEW q \in Rooms, q = serves[i], TakeBurst(i)
  PROVE  (\E n \in 1..Len(pend[q]) : Order!Join(q, n)) \/ UNCHANGED Order!vars
<1> DEFINE line == held[i] \o channel[i]
<1>1. /\ Live(i) /\ UNCHANGED <<sender, serves, arrived, settled, lostAt>>
      /\ active[i] \in Seq(Items) /\ active[i] # <<>> /\ channel'[i] = <<>>
      /\ line \in Seq(Items)
  BY ConcatProperties DEF TakeBurst, Structure, TypeOK, Live, history
<1>2. /\ q \in Rooms /\ sender[q] = i /\ HasWorker(q) /\ Pending(q) = line /\ Current(q) = active[i]
      /\ \A r \in Rooms \ {q} : sender[r] # i
  BY <1>1, OwnRoom
<1>3. \A r \in Rooms \ {q} : Pending(r)' = Pending(r) /\ Current(r)' = Current(r)
  <2>1. \A j \in Inboxes \ {i} : /\ status'[j] = status[j] /\ held'[j] = held[j]
                                 /\ channel'[j] = channel[j] /\ active'[j] = active[j]
    BY DEF TakeBurst, Structure, TypeOK
  <2>2. \A r \in Rooms \ {q} : sender[r] # i /\ sender'[r] = sender[r]
    BY <1>1, <1>2
  <2>3. QED
    BY <2>1, <2>2, OtherRooms, SMTT(30)
<1>4. PICK n \in 0..Len(line) :
        /\ active' = [active EXCEPT ![i] = @ \o SubSeq(line, 1, n)]
        /\ held' = [held EXCEPT ![i] = SubSeq(line, n + 1, Len(line))]
  BY DEF TakeBurst
<1>5. HasWorker(q)'
  BY <1>1, <1>2 DEF TakeBurst, HasWorker, Live, Structure, TypeOK
<1>6. Current(q)' = active'[i] /\ Pending(q)' = held'[i] \o channel'[i]
  BY <1>1, <1>2, <1>5 DEF Current, Pending
<1> DEFINE a == active[i] \o SubSeq(line, 1, n)
           rest == SubSeq(line, n + 1, Len(line))
<1> HIDE DEF line
<1>7. rest \in Seq(Items) /\ rest \o <<>> = rest
  <2>1. rest \in Seq(Items)
    BY <1>1, SplitQueue
  <2>2. QED
    BY <2>1, ConcatEmptySeq
<1>8. active'[i] = a /\ held'[i] = rest
  BY <1>4 DEF Structure, TypeOK
<1> HIDE DEF a, rest
<1>9. Current(q)' = a /\ Pending(q)' = rest
  BY <1>1, <1>6, <1>7, <1>8
<1>10. cur' = [cur EXCEPT ![q] = a] /\ pend' = [pend EXCEPT ![q] = rest]
  BY <1>2, <1>3, <1>9 DEF pend, cur
<1>11. CASE n = 0
  <2>1. SubSeq(line, 1, 0) = <<>> /\ SubSeq(line, 0 + 1, Len(line)) = line
    BY <1>1, SubSeqEmpty, SubSeqFull
  <2>2. active[i] \o <<>> = active[i]
    BY <1>1, ConcatEmptySeq
  <2>3. a = active[i] /\ rest = line
    BY <1>11, <2>1, <2>2 DEF a, rest
  <2>4. \A r \in Rooms : Pending(r)' = Pending(r) /\ Current(r)' = Current(r)
    BY <1>2, <1>3, <1>9, <2>3
  <2>5. pend' = pend /\ cur' = cur
    BY <2>4 DEF pend, cur
  <2>6. QED
    BY <1>1, <2>5 DEF Order!vars, pend, cur
<1>12. CASE n # 0
  <2>1. n \in 1..Len(line)
    BY <1>1, <1>12, LenProperties
  <2>2. pend[q] = line /\ cur[q] = active[i]
    BY <1>2 DEF pend, cur
  <2>3. /\ cur[q] # <<>> /\ n \in 1..Len(pend[q])
        /\ cur' = [cur EXCEPT ![q] = cur[q] \o SubSeq(pend[q], 1, n)]
        /\ pend' = [pend EXCEPT ![q] = SubSeq(pend[q], n + 1, Len(pend[q]))]
    BY <1>1, <1>10, <2>1, <2>2, Zenon DEF a, rest
  <2>4. Order!Join(q, n)
    BY <1>1, <2>3 DEF Order!Join, pend, cur
  <2>5. QED
    BY <2>3, <2>4
<1>13. QED
  BY <1>11, <1>12

LEMMA FinishFinishes ==
  ASSUME Structure, NEW i \in Inboxes, NEW q \in Rooms, q = serves[i], Finish(i)
  PROVE  Order!Finish(q)
<1>1. /\ Live(i) /\ active[i] # <<>> /\ UNCHANGED <<sender, serves, channel, held, arrived, lostAt>>
      /\ active'[i] = <<>> /\ status'[i] = "waiting"
      /\ settled' = [settled EXCEPT ![q] = @ + Len(active[i])]
  BY DEF Finish, Structure, TypeOK, Live
<1>2. /\ q \in Rooms /\ sender[q] = i /\ HasWorker(q) /\ Current(q) = active[i]
      /\ \A r \in Rooms \ {q} : sender[r] # i
  BY <1>1, OwnRoom
<1>3. \A r \in Rooms \ {q} : Pending(r)' = Pending(r) /\ Current(r)' = Current(r)
  <2>1. \A j \in Inboxes \ {i} : /\ status'[j] = status[j] /\ held'[j] = held[j]
                                 /\ channel'[j] = channel[j] /\ active'[j] = active[j]
    BY DEF Finish, Structure, TypeOK
  <2>2. QED
    BY <1>1, <1>2, <2>1, OtherRooms, ZenonT(60)
<1>4. HasWorker(q)'
  BY <1>1, <1>2 DEF HasWorker, Live
<1>5. Current(q)' = <<>> /\ Pending(q)' = Pending(q)
  BY <1>1, <1>2, <1>4 DEF Current, Pending
<1>6. cur' = [cur EXCEPT ![q] = <<>>] /\ pend' = pend
  BY <1>2, <1>3, <1>5 DEF pend, cur
<1>7. cur[q] = active[i]
  BY <1>2 DEF cur
<1>8. cur[q] # <<>> /\ settled' = [settled EXCEPT ![q] = @ + Len(cur[q])]
  BY <1>1, <1>7, Zenon
<1>9. QED
  BY <1>1, <1>6, <1>8 DEF Order!Finish, pend, cur

(* The messages of room r are the contents of its inbox.                       *)
LEMMA LineIsContents ==
  ASSUME Structure, NEW r \in Rooms
  PROVE  /\ Line(r) = Current(r) \o Pending(r)
         /\ Line(r) = Order!Line(r)
<1>1. <<>> \o <<>> = <<>>
  BY EmptySeq, ConcatEmptySeq
<1>2. Line(r) = Current(r) \o Pending(r)
  BY <1>1 DEF Line, Current, Pending, Contents
<1>3. QED
  BY <1>2 DEF Order!Line

LEMMA DieDrops ==
  ASSUME Structure, NEW i \in Inboxes, NEW q \in Rooms, q = serves[i], Die(i)
  PROVE  Order!Drop({q})
<1>1. /\ Live(i) /\ active[i] # <<>> /\ UNCHANGED <<sender, serves, arrived>> /\ status'[i] = "dead"
      /\ active[i] \in Seq(Items) /\ held[i] \o channel[i] \in Seq(Items)
  BY ConcatProperties DEF Die, Structure, TypeOK, Live
<1>2. /\ q \in Rooms /\ sender[q] = i /\ HasWorker(q)
      /\ \A r \in Rooms \ {q} : sender[r] # i
  BY <1>1, OwnRoom
<1>3. Line(q) = Contents(i) /\ Order!Line(q) = Contents(i)
  BY <1>2, LineIsContents DEF Line
<1>4. Contents(i) # <<>>
  BY <1>1, ConcatEqualIffEmpty DEF Contents
<1>5. \A r \in Rooms \ {q} : Pending(r)' = Pending(r) /\ Current(r)' = Current(r)
  <2>1. \A j \in Inboxes \ {i} : /\ status'[j] = status[j] /\ held'[j] = held[j]
                                 /\ channel'[j] = channel[j] /\ active'[j] = active[j]
    BY DEF Die, Structure, TypeOK
  <2>2. \A r \in Rooms \ {q} : sender[r] # i /\ sender'[r] = sender[r]
    BY <1>1, <1>2
  <2>3. QED
    BY <2>1, <2>2, OtherRooms, SMTT(30)
<1>6. Current(q)' = <<>> /\ Pending(q)' = <<>>
  BY <1>1, <1>2 DEF Current, Pending, HasWorker, Live
<1>7. /\ lostAt' = [lostAt EXCEPT ![q] = lostAt[q] \union (settled[q] + 1 .. settled[q] + Len(Order!Line(q)))]
      /\ settled' = [settled EXCEPT ![q] = settled[q] + Len(Order!Line(q))]
  BY <1>2, <1>3 DEF Die, LosePositions, Structure, TypeOK
<1>8. /\ lostAt' = [r \in Rooms |-> IF r \in {q}
                      THEN lostAt[r] \union (settled[r] + 1 .. settled[r] + Len(Order!Line(r)))
                      ELSE lostAt[r]]
      /\ settled' = [r \in Rooms |-> IF r \in {q} THEN settled[r] + Len(Order!Line(r)) ELSE settled[r]]
  BY <1>7 DEF Structure, TypeOK
<1>9. /\ cur' = [r \in Rooms |-> IF r \in {q} THEN <<>> ELSE cur[r]]
      /\ pend' = [r \in Rooms |-> IF r \in {q} THEN <<>> ELSE pend[r]]
  BY <1>5, <1>6 DEF pend, cur
<1>10. \E r \in {q} : Order!Line(r) # <<>>
  BY <1>3, <1>4
<1>11. QED
  BY <1>1, <1>8, <1>9, <1>10 DEF Order!Drop, pend, cur

(* A restart drops every line, unless nothing waits anywhere.                  *)
LEMMA RestartDrops ==
  ASSUME Structure, Restart
  PROVE  Order!Drop(Rooms) \/ UNCHANGED Order!vars
<1>1. \A r \in Rooms : Pending(r)' = <<>> /\ Current(r)' = <<>>
  BY DEF Restart, Pending, Current, HasWorker
<1>2. /\ lostAt' = [r \in Rooms |-> lostAt[r] \union (settled[r] + 1 .. settled[r] + Len(Order!Line(r)))]
      /\ settled' = [r \in Rooms |-> settled[r] + Len(Order!Line(r))]
      /\ arrived' = arrived
  BY LineIsContents DEF Restart, Backlog, LosePositions
<1>3. CASE \E r \in Rooms : Order!Line(r) # <<>>
  <2>1. /\ cur' = [r \in Rooms |-> IF r \in Rooms THEN <<>> ELSE cur[r]]
        /\ pend' = [r \in Rooms |-> IF r \in Rooms THEN <<>> ELSE pend[r]]
    BY <1>1 DEF pend, cur
  <2>2. /\ lostAt' = [r \in Rooms |-> IF r \in Rooms
                        THEN lostAt[r] \union (settled[r] + 1 .. settled[r] + Len(Order!Line(r)))
                        ELSE lostAt[r]]
        /\ settled' = [r \in Rooms |-> IF r \in Rooms THEN settled[r] + Len(Order!Line(r)) ELSE settled[r]]
    BY <1>2
  <2>3. QED
    BY <1>2, <1>3, <2>1, <2>2 DEF Order!Drop, pend, cur
<1>4. CASE \A r \in Rooms : Order!Line(r) = <<>>
  <2>1. \A r \in Rooms : Current(r) = <<>> /\ Pending(r) = <<>>
    <3> TAKE r \in Rooms
    <3>1. Current(r) \in Seq(Items) /\ Pending(r) \in Seq(Items)
      BY EmptySeq, ConcatProperties DEF Current, Pending, HasWorker, Structure, TypeOK
    <3>2. Current(r) \o Pending(r) = <<>>
      BY <1>4, LineIsContents
    <3>3. QED
      BY <3>1, <3>2, ConcatEqualIffEmpty
  <2>2. pend' = pend /\ cur' = cur
    BY <1>1, <2>1 DEF pend, cur
  <2>3. \A r \in Rooms : /\ settled[r] + Len(Order!Line(r)) = settled[r]
                         /\ (settled[r] + 1 .. settled[r] + Len(Order!Line(r))) = {}
    <3> TAKE r \in Rooms
    <3>1. Len(Order!Line(r)) = 0
      BY <1>4, EmptySeq
    <3>2. settled[r] \in Nat
      BY DEF Structure, TypeOK
    <3>3. QED
      BY <3>1, <3>2
  <2>4. settled' = settled /\ lostAt' = lostAt
    BY <1>2, <2>3 DEF Structure, TypeOK
  <2>5. QED
    BY <1>2, <2>2, <2>4 DEF Order!vars, pend, cur
<1>5. QED
  BY <1>3, <1>4

LEMMA InitRefines == Init => Order!Init
<1> SUFFICES ASSUME Init PROVE Order!Init
  OBVIOUS
<1>1. \A r \in Rooms : Pending(r) = <<>> /\ Current(r) = <<>>
  BY DEF Init, Pending, Current, HasWorker
<1>2. QED
  BY <1>1 DEF Init, Order!Init

LEMMA NextRefines == Structure /\ [Next]_vars => [Order!Next]_(Order!vars)
<1> SUFFICES ASSUME Structure, [Next]_vars
             PROVE  Order!Next \/ UNCHANGED Order!vars
  OBVIOUS
<1>1. ASSUME NEW r \in Rooms, NEW m \in Items, Enqueue(r, m)
      PROVE  Order!Next
  <2>1. Order!Arrive(r, m)
    BY <1>1, SendArrives, SpawnArrives DEF Enqueue
  <2>2. QED
    BY <2>1 DEF Order!Next
<1>2. ASSUME NEW i \in Inboxes, TakeNext(i) \/ TakeBurst(i) \/ Finish(i) \/ Die(i)
      PROVE  Order!Next \/ UNCHANGED Order!vars
  <2>1. Live(i)
    BY <1>2 DEF TakeNext, TakeBurst, Finish, Die, Live
  <2>2. PICK q \in Rooms : q = serves[i]
    BY <2>1, OwnRoom
  <2>3. CASE TakeNext(i)
    <3>1. Order!Begin(q)
      BY <2>2, <2>3, TakeNextBegins
    <3>2. QED
      BY <3>1 DEF Order!Next
  <2>4. CASE TakeBurst(i)
    <3>1. (\E n \in 1..Len(pend[q]) : Order!Join(q, n)) \/ UNCHANGED Order!vars
      BY <2>2, <2>4, TakeBurstJoins
    <3>2. QED
      BY <3>1 DEF Order!Next, pend
  <2>5. CASE Finish(i)
    <3>1. Order!Finish(q)
      BY <2>2, <2>5, FinishFinishes
    <3>2. QED
      BY <3>1 DEF Order!Next
  <2>6. CASE Die(i)
    <3>1. Order!Drop({q}) /\ {q} \in SUBSET Rooms
      BY <2>2, <2>6, DieDrops
    <3>2. QED
      BY <3>1 DEF Order!Next
  <2>7. QED
    BY <1>2, <2>3, <2>4, <2>5, <2>6
<1>3. CASE Restart
  <2>1. Order!Drop(Rooms) \/ UNCHANGED Order!vars
    BY <1>3, RestartDrops
  <2>2. QED
    BY <2>1 DEF Order!Next
<1>4. CASE UNCHANGED vars
  <2>1. \A r \in Rooms : Pending(r)' = Pending(r) /\ Current(r)' = Current(r)
    BY <1>4 DEF vars, inboxVars, Pending, Current, HasWorker, Live
  <2>2. pend' = pend /\ cur' = cur
    BY <2>1 DEF pend, cur
  <2>3. QED
    BY <1>4, <2>2 DEF vars, history, Order!vars, pend, cur
<1>5. QED
  BY <1>1, <1>2, <1>3, <1>4 DEF Next

(* The queues keep one ordered line per room: every step of RoomQueues is one  *)
(* of RoomOrder, where a message can neither be skipped nor overtake another.  *)
THEOREM QueuesImplementOrder == Spec => ImplementsOrder
<1>1. Spec => []Structure /\ [][Next]_vars
  BY InitStructure, NextStructure, PTL DEF Spec
<1>2. QED
  BY <1>1, InitRefines, NextRefines, PTL DEF Spec, ImplementsOrder, Order!Spec

-----------------------------------------------------------------------------
(* What RoomOrder is proved to keep, RoomQueues keeps                          *)

Proved == INSTANCE RoomOrderProofs
            WITH pending <- [r \in Rooms |-> Pending(r)],
                 current <- [r \in Rooms |-> Current(r)]

LEMMA SameOrder == Order!Spec => Proved!Spec
<1>1. Order!Init => Proved!Init
  BY DEF Order!Init, Proved!Init
<1>2. Order!Next => Proved!Next
  BY DEF Order!Next, Proved!Next, Order!Arrive, Proved!Arrive, Order!Begin, Proved!Begin,
         Order!Join, Proved!Join, Order!Finish, Proved!Finish, Order!Drop, Proved!Drop,
         Order!Line, Proved!Line
<1>3. [Order!Next]_(Order!vars) => [Proved!Next]_(Proved!vars)
  BY <1>2 DEF Order!vars, Proved!vars
<1>4. QED
  BY <1>1, <1>3, PTL DEF Order!Spec, Proved!Spec

(* The messages of a room that are not over are exactly what its live inbox    *)
(* holds, in the order they arrived.                                           *)
THEOREM MessagesInOrder == Spec => []InOrder
<1>1. Structure /\ Proved!InOrder => InOrder
  <2> SUFFICES ASSUME Structure, Proved!InOrder, NEW r \in Rooms
               PROVE  Line(r) = SubSeq(arrived[r], settled[r] + 1, Len(arrived[r]))
    BY DEF InOrder
  <2>1. Proved!Line(r) = Order!Line(r)
    BY DEF Proved!Line, Order!Line
  <2>2. QED
    BY <2>1, LineIsContents DEF Proved!InOrder, Proved!Unsettled
<1>2. Spec => []Structure
  BY InitStructure, NextStructure, PTL DEF Spec
<1>3. Spec => []Proved!InOrder
  BY QueuesImplementOrder, SameOrder, Proved!OrderKept, PTL DEF ImplementsOrder
<1>4. QED
  BY <1>1, <1>2, <1>3, PTL

(* Messages are lost only in a step that ends the worker of their room.        *)
THEOREM LossEndsWorker == Spec => LostOnlyWithWorker
<1> DEFINE Loss == \A r \in Rooms : lostAt'[r] # lostAt[r] => HasWorker(r) /\ ~HasWorker(r)'
<1>1. ASSUME Structure, Next, NEW r \in Rooms, lostAt'[r] # lostAt[r]
      PROVE  HasWorker(r) /\ ~HasWorker(r)'
  <2>1. CASE \E q \in Rooms, m \in Items : Enqueue(q, m)
    BY <1>1, <2>1 DEF Enqueue
  <2>2. CASE \E i \in Inboxes : TakeNext(i) \/ TakeBurst(i) \/ Finish(i)
    BY <1>1, <2>2 DEF TakeNext, TakeBurst, Finish, history
  <2>3. ASSUME NEW i \in Inboxes, Die(i)
        PROVE  HasWorker(r) /\ ~HasWorker(r)'
    <3>1. Live(i) /\ status'[i] = "dead" /\ sender' = sender
      BY <1>1, <2>3 DEF Die, Live, Structure, TypeOK
    <3>2. r = serves[i]
      BY <1>1, <2>3 DEF Die, Structure, TypeOK
    <3>3. sender[r] = i /\ HasWorker(r)
      BY <1>1, <3>1, <3>2, OwnRoom
    <3>4. QED
      BY <3>1, <3>3 DEF HasWorker, Live
  <2>4. CASE Restart
    <3>1. ~HasWorker(r)'
      BY <2>4 DEF Restart, HasWorker
    <3>2. HasWorker(r)
      <4> SUFFICES ASSUME ~HasWorker(r) PROVE FALSE
        OBVIOUS
      <4>1. Backlog(r) = 0
        BY EmptySeq DEF Backlog, Line
      <4>2. settled[r] \in Nat
        BY <1>1 DEF Structure, TypeOK
      <4>3. LosePositions(r, 0) = lostAt[r]
        BY <4>2 DEF LosePositions
      <4>4. QED
        BY <1>1, <2>4, <4>1, <4>3 DEF Restart
    <3>3. QED
      BY <3>1, <3>2
  <2>5. QED
    BY <1>1, <2>1, <2>2, <2>3, <2>4 DEF Next
<1>2. Structure /\ [Next]_vars => [Loss]_vars
  BY <1>1
<1>3. Spec => []Structure /\ [][Next]_vars
  BY InitStructure, NextStructure, PTL DEF Spec
<1>4. QED
  BY <1>2, <1>3, PTL DEF LostOnlyWithWorker
=============================================================================
