----------------------------- MODULE RepliesProofs -----------------------------
(* For any rooms, links, renders and restarts of the browser: types, a dead    *)
(* connection costs no more pages than are rendered at once, and the           *)
(* documentation is only out of date if fetching it just failed.               *)
EXTENDS Replies, FiniteSetTheorems, TLAPS

(* The readers that have a slot, and those that are about to use connection c  *)
(* or have found it dead.                                                      *)
Holders == {t \in Readers : HasSlot(t)}
Opening(c) == {t \in Readers : reader[t].at = "opening" /\ reader[t].conn = c}
Resetting(c) == {t \in Readers : reader[t].at = "resetting" /\ reader[t].conn = c}

-----------------------------------------------------------------------------
(* Cardinalities *)

LEMMA Finite == ASSUME NEW S \in SUBSET Readers
                PROVE  IsFiniteSet(S) /\ Cardinality(S) \in Nat
  BY PagesAssumption, FS_Subset, FS_CardinalityType

LEMMA Grows == ASSUME NEW S \in SUBSET Readers, NEW T \in SUBSET Readers, S \subseteq T
               PROVE  Cardinality(S) <= Cardinality(T)
  BY Finite, FS_Subset

(* Two sets with nothing in common, in a third. *)
LEMMA Apart == ASSUME NEW S \in SUBSET Readers, NEW T \in SUBSET Readers, NEW U \in SUBSET Readers,
                      S \union T \subseteq U, S \intersect T = {}
               PROVE  Cardinality(S) + Cardinality(T) <= Cardinality(U)
<1>1. /\ IsFiniteSet(S) /\ Cardinality(S) \in Nat
      /\ IsFiniteSet(T) /\ Cardinality(T) \in Nat
  BY Finite
<1>2. Cardinality(S \intersect T) = 0
  BY FS_EmptySet
<1>3. Cardinality(S \union T) = Cardinality(S) + Cardinality(T) - Cardinality(S \intersect T)
  BY <1>1, FS_Union
<1>4. Cardinality(S \union T) <= Cardinality(U)
  BY Grows
<1>5. QED
  BY <1>1, <1>2, <1>3, <1>4

LEMMA OneMore == ASSUME NEW S \in SUBSET Readers, NEW t \in Readers \ S
                 PROVE  Cardinality(S \union {t}) = Cardinality(S) + 1
  BY Finite, FS_AddElement

LEMMA OneLess == ASSUME NEW S \in SUBSET Readers, NEW t \in S
                 PROVE  Cardinality(S \ {t}) = Cardinality(S) - 1
  BY Finite, FS_RemoveElement

-----------------------------------------------------------------------------
(* The connection to the browser                                               *)

Conns == 1..(MaxReads + 1)

(* What opens, and what a reply may have left when it is not waiting.          *)
Placed ==
  /\ reader \in [Readers -> [at : Steps, conn : Nat]]
  /\ browser \in Nat /\ opened \in Nat /\ browser <= opened
  /\ failed \in [Conns -> Nat]
  /\ \A t \in Readers : reader[t].conn <= opened
  /\ Cardinality(Holders) <= MaxRenders

(* As long as it is in the slot, each that failed on it has yet to reset it,   *)
(* and so still has its place among the renders; after that nobody gets it.    *)
Counted(c) ==
  /\ failed[c] + Cardinality(Opening(c)) <= MaxRenders
  /\ browser = c => failed[c] <= Cardinality(Resetting(c))
  /\ c > opened => failed[c] = 0

(* A reader only begins when it has nothing to do. *)
Waited ==
  /\ reply \in [Rooms -> [phase : {"idle", "gathering", "completing"}, pages : Nat, docs : Nat]]
  /\ \A r \in Rooms : InPhase(r, "idle") => LinksRead(r)
  /\ \A r \in Rooms : InPhase(r, "completing") => \A t \in Tasks(r) : t # <<r, 1>> => Does(t, "idle")

ConnectionInv == Placed /\ Waited /\ \A c \in Conns : Counted(c)

(* A step that opens, fails and resets nothing. *)
LEMMA OthersStay ==
  ASSUME ConnectionInv, Placed', UNCHANGED <<browser, opened, failed>>,
         \A c \in Conns : Opening(c)' \subseteq Opening(c) /\ Resetting(c) \subseteq Resetting(c)'
  PROVE  \A c \in Conns : Counted(c)'
<1> SUFFICES ASSUME NEW c \in Conns PROVE Counted(c)'
  BY DEF Conns
<1>1. Cardinality(Opening(c)') <= Cardinality(Opening(c))
  BY Grows DEF Opening
<1>2. Cardinality(Resetting(c)) <= Cardinality(Resetting(c)')
  BY Grows DEF Resetting
<1>3. failed[c] \in Nat /\ Cardinality(Opening(c)) \in Nat /\ Cardinality(Opening(c)') \in Nat
  BY Finite DEF Opening, ConnectionInv, Placed, Conns
<1>4. Cardinality(Resetting(c)) \in Nat /\ Cardinality(Resetting(c)') \in Nat
  BY Finite DEF Resetting
<1> QED
  BY <1>1, <1>2, <1>3, <1>4, PagesAssumption DEF Counted, ConnectionInv

(* A step of a reader that does not hold a slot, keeps the one it has, or      *)
(* gives it back.                                                              *)
LEMMA HoldersStay ==
  ASSUME Placed, Holders' \subseteq Holders
  PROVE  Cardinality(Holders)' <= MaxRenders
<1>1. Cardinality(Holders') <= Cardinality(Holders)
  BY Grows DEF Holders
<1>2. Cardinality(Holders') \in Nat /\ Cardinality(Holders) \in Nat
  BY Finite DEF Holders
<1> QED
  BY <1>1, <1>2, PagesAssumption DEF Placed

LEMMA ReadAllPlaced ==
  ASSUME ConnectionInv, NEW tasks \in SUBSET Readers, ReadAll(tasks),
         \A t \in tasks : Does(t, "idle")
  PROVE  Placed' /\ \A c \in Conns : Counted(c)'
<1> USE DEF ConnectionInv, ReadAll, connection, Does
<1>1. /\ reader' \in [Readers -> [at : Steps, conn : Nat]]
      /\ \A t \in Readers : reader'[t].conn <= opened
      /\ \A t \in Readers : t \in tasks => reader'[t].at = "fetching"
      /\ \A t \in Readers \ tasks : reader'[t] = reader[t]
  BY DEF Placed, Resting, Steps
<1>2. Holders' \subseteq Holders
  BY <1>1 DEF Holders, HasSlot, Holding
<1>3. Placed'
  BY <1>1, <1>2, HoldersStay DEF Placed
<1>4. \A c \in Conns : Opening(c)' \subseteq Opening(c) /\ Resetting(c) \subseteq Resetting(c)'
  BY <1>1 DEF Opening, Resetting
<1>5. QED
  BY <1>3, <1>4, OthersStay

(* What a step of one reader leaves of the others. *)
Only(t) ==
  /\ reader' \in [Readers -> [at : Steps, conn : Nat]]
  /\ \A u \in Readers \ {t} : reader'[u] = reader[u]

LEMMA ReaderMoves ==
  ASSUME Placed, NEW t \in Readers, NEW step \in Steps, Moves(t, step)
  PROVE  Only(t) /\ reader'[t].at = step /\ reader'[t].conn = reader[t].conn
<1>1. reader[t] \in [at : Steps, conn : Nat] /\ reader \in [Readers -> [at : Steps, conn : Nat]]
  BY DEF Placed
<1> DEFINE new == [reader[t] EXCEPT !.at = step]
<1>2. new \in [at : Steps, conn : Nat] /\ new.at = step /\ new.conn = reader[t].conn
  BY <1>1
<1>3. reader' = [reader EXCEPT ![t] = new]
  BY DEF Moves
<1> HIDE DEF new
<1>4. QED
  BY <1>1, <1>2, <1>3 DEF Only

LEMMA ReaderRests ==
  ASSUME Placed, NEW t \in Readers, Rests(t)
  PROVE  Only(t) /\ reader'[t].at = "idle" /\ reader'[t].conn = 0
<1>1. Resting \in [at : Steps, conn : Nat] /\ Resting.at = "idle" /\ Resting.conn = 0
  BY DEF Resting, Steps
<1>2. QED
  BY <1>1 DEF Only, Placed, Rests

(* A step of one reader, that leaves the connection alone and neither opens on *)
(* it nor is through with resetting it.                                        *)
LEMMA QuietStep ==
  ASSUME ConnectionInv, NEW t \in Readers, Only(t), UNCHANGED <<browser, opened, failed>>,
         reader[t].at # "resetting", reader'[t].at \notin {"opening", "resetting"},
         reader'[t].conn <= opened, HasSlot(t)' => HasSlot(t) 
  PROVE  Placed' /\ \A c \in Conns : Counted(c)'
<1> USE DEF ConnectionInv
<1>1. Holders' \subseteq Holders
  BY DEF Holders, HasSlot, Only
<1>2. Placed'
  BY <1>1, HoldersStay DEF Placed, Only
<1>3. \A c \in Conns : Opening(c)' \subseteq Opening(c) /\ Resetting(c) \subseteq Resetting(c)'
  BY DEF Opening, Resetting, Only
<1>4. QED
  BY <1>2, <1>3, OthersStay

LEMMA FetchPlainPlaced ==
  ASSUME ConnectionInv, NEW t \in Readers, FetchPlain(t)
  PROVE  Placed' /\ \A c \in Conns : Counted(c)'
<1> USE DEF ConnectionInv, FetchPlain, Does
<1>1. Only(t) /\ reader'[t].at \in {"idle", "slot"} /\ reader'[t].conn <= opened
  <2>1. CASE Rests(t)
    BY <2>1, ReaderRests DEF Placed
  <2>2. CASE Moves(t, "slot")
    BY <2>2, ReaderMoves DEF Placed, Steps
  <2>3. QED
    BY <2>1, <2>2
<1>2. ~HasSlot(t)'
  BY <1>1 DEF HasSlot, Holding
<1>3. UNCHANGED <<browser, opened, failed>>
  BY DEF connection
<1>4. QED
  BY <1>1, <1>2, <1>3, QuietStep

LEMMA RenderPlaced ==
  ASSUME ConnectionInv, NEW t \in Readers, Render(t) \/ Dispose(t)
  PROVE  Placed' /\ \A c \in Conns : Counted(c)'
<1> USE DEF ConnectionInv, Render, Dispose, Does
<1>1. Only(t) /\ reader'[t].at \in {"idle", "disposing"} /\ reader'[t].conn <= opened
  <2>1. CASE Rests(t)
    BY <2>1, ReaderRests DEF Placed
  <2>2. CASE Moves(t, "disposing")
    BY <2>2, ReaderMoves DEF Placed, Steps, Holding
  <2>3. QED
    BY <2>1, <2>2
<1>2. HasSlot(t)
  BY DEF HasSlot, Holding
<1>3. UNCHANGED <<browser, opened, failed>> /\ reader[t].at # "resetting"
  BY DEF connection
<1>4. QED
  BY <1>1, <1>2, <1>3, QuietStep

(* The slot that is taken was free. *)
LEMMA TakeSlotPlaced ==
  ASSUME ConnectionInv, NEW t \in Readers, TakeSlot(t)
  PROVE  Placed' /\ \A c \in Conns : Counted(c)'
<1> USE DEF ConnectionInv, TakeSlot, Does
<1>1. Only(t) /\ reader'[t].at = "locking" /\ reader'[t].conn = reader[t].conn
  BY ReaderMoves DEF Steps, Holding
<1>2. UNCHANGED <<browser, opened, failed>>
  BY DEF connection
<1>3. Holders' \subseteq Holders \union {t} /\ t \notin Holders
  BY <1>1 DEF Holders, HasSlot, Only, Holding
<1>4. Cardinality(Holders') <= Cardinality(Holders) + 1
  <2>1. Cardinality(Holders \union {t}) = Cardinality(Holders) + 1
    BY <1>3, OneMore DEF Holders
  <2>2. Holders \union {t} \in SUBSET Readers /\ Holders' \in SUBSET Readers
    BY DEF Holders
  <2>3. QED
    BY <1>3, <2>1, <2>2, Grows
<1>5. Cardinality(Holders) < MaxRenders
  BY DEF Holders
<1>6. Cardinality(Holders') \in Nat /\ Cardinality(Holders) \in Nat
  BY Finite DEF Holders
<1>7. Placed'
  BY <1>1, <1>2, <1>4, <1>5, <1>6, PagesAssumption DEF Placed, Only
<1>8. \A c \in Conns : Opening(c)' \subseteq Opening(c) /\ Resetting(c) \subseteq Resetting(c)'
  BY <1>1 DEF Opening, Resetting, Only
<1>9. QED
  BY <1>2, <1>7, <1>8, OthersStay

(* Whoever is given the connection opens on it, and counts for it with those   *)
(* that have yet to reset it: all of them have slots.                          *)
LEMMA OpensOn ==
  ASSUME ConnectionInv, Placed', UNCHANGED failed, NEW t \in Readers, Only(t),
         reader[t].at \notin {"opening", "resetting"}, reader'[t].at = "opening",
         reader'[t].conn = browser', opened <= opened',
         browser' = browser \/ browser' > opened
  PROVE  \A c \in Conns : Counted(c)'
<1> USE DEF ConnectionInv
<1> SUFFICES ASSUME NEW c \in Conns PROVE Counted(c)'
  BY DEF Conns
<1>1. /\ failed[c] \in Nat /\ c \in Nat
      /\ Cardinality(Opening(c)) \in Nat /\ Cardinality(Opening(c)') \in Nat
      /\ Cardinality(Resetting(c)) \in Nat /\ Cardinality(Resetting(c)') \in Nat
  BY Finite, PagesAssumption DEF Opening, Resetting, Placed, Conns
<1>2. Resetting(c)' = Resetting(c)
  BY DEF Resetting, Only
<1>3. browser' \in Nat /\ browser \in Nat /\ opened \in Nat /\ opened' \in Nat
  BY DEF Placed
<1>4. CASE c = browser'
  <2>1. failed[c] <= Cardinality(Resetting(c))
    BY <1>1, <1>3, <1>4 DEF Counted
  <2>2. Cardinality(Opening(c)') + Cardinality(Resetting(c)') <= Cardinality(Holders')
    BY Apart DEF Opening, Resetting, Holders, HasSlot, Holding
  <2>3. Cardinality(Holders') <= MaxRenders /\ Cardinality(Holders') \in Nat
    BY Finite DEF Placed, Holders
  <2>4. c > opened' => failed[c] = 0
    BY <1>1, <1>3 DEF Counted
  <2>5. QED
    BY <1>1, <1>2, <2>1, <2>2, <2>3, <2>4, PagesAssumption DEF Counted
<1>5. CASE c # browser'
  <2>1. Opening(c)' = Opening(c)
    BY <1>5 DEF Opening, Only
  <2>2. QED
    BY <1>1, <1>3, <1>5, <2>1 DEF Counted
<1>6. QED
  BY <1>4, <1>5

LEMMA LockBrowserPlaced ==
  ASSUME ConnectionInv, NEW t \in Readers, LockBrowser(t)
  PROVE  Placed' /\ \A c \in Conns : Counted(c)'
<1> USE DEF ConnectionInv, LockBrowser, Does
<1>1. UNCHANGED <<browser, opened, failed>> /\ HasSlot(t)
  BY DEF HasSlot, Holding
<1>2. CASE browser # 0
  <2> DEFINE new == [at |-> "opening", conn |-> browser]
  <2>1. reader' = [reader EXCEPT ![t] = new] /\ new \in [at : Steps, conn : Nat]
    BY <1>2 DEF Placed, Steps, Holding
  <2>2. Only(t) /\ reader'[t].at = "opening" /\ reader'[t].conn = browser
    BY <2>1 DEF Only, Placed
  <2>3. Holders' \subseteq Holders
    BY <1>1, <2>2 DEF Holders, HasSlot, Only
  <2>4. Placed'
    BY <1>1, <2>2, <2>3, HoldersStay DEF Placed, Only
  <2>5. QED
    BY <1>1, <2>2, <2>4, OpensOn DEF Placed
<1>3. CASE browser = 0
  <2>1. Only(t) /\ reader'[t].at = "connecting" /\ reader'[t].conn = reader[t].conn
    BY <1>3, ReaderMoves DEF Steps, Holding
  <2>2. QED
    BY <1>1, <2>1, QuietStep DEF Placed
<1>4. QED
  BY <1>2, <1>3

LEMMA ConnectPlaced ==
  ASSUME ConnectionInv, NEW t \in Readers, Connect(t)
  PROVE  Placed' /\ \A c \in Conns : Counted(c)'
<1> USE DEF ConnectionInv, Connect, Does
<1>1. UNCHANGED failed /\ HasSlot(t) /\ opened \in Nat
  BY DEF HasSlot, Holding, Placed
<1>2. CASE browser' = opened + 1 /\ opened' = opened + 1 /\
           reader' = [reader EXCEPT ![t].at = "opening", ![t].conn = opened + 1]
  <2> DEFINE new == [at |-> "opening", conn |-> opened + 1]
  <2>1. reader' = [reader EXCEPT ![t] = new] /\ new \in [at : Steps, conn : Nat]
    BY <1>1, <1>2 DEF Placed, Steps, Holding
  <2>2. Only(t) /\ reader'[t].at = "opening" /\ reader'[t].conn = opened + 1
    BY <2>1 DEF Only, Placed
  <2>3. Holders' \subseteq Holders
    BY <1>1, <2>2 DEF Holders, HasSlot, Only
  <2>4. \A u \in Readers : reader'[u].conn <= opened'
    BY <1>1, <1>2, <2>2 DEF Placed, Only
  <2>5. Placed'
    BY <1>1, <1>2, <2>2, <2>3, <2>4, HoldersStay DEF Placed, Only
  <2>6. opened <= opened' /\ browser' > opened /\ reader'[t].conn = browser'
    BY <1>1, <1>2, <2>2
  <2>7. QED
    BY <1>1, <2>2, <2>5, <2>6, OpensOn
<1>3. CASE Rests(t) /\ UNCHANGED <<browser, opened>>
  BY <1>1, <1>3, ReaderRests, QuietStep DEF Placed
<1>4. QED
  BY <1>2, <1>3

LEMMA FailsOnce ==
  ASSUME failed \in [Conns -> Nat], NEW conn, failed' = [failed EXCEPT ![conn] = @ + 1]
  PROVE  /\ failed' \in [Conns -> Nat]
         /\ \A c \in Conns : failed'[c] = IF c = conn THEN failed[c] + 1 ELSE failed[c]
<1>1. failed' = [c \in Conns |-> IF c = conn THEN failed[c] + 1 ELSE failed[c]]
  OBVIOUS
<1>2. \A c \in Conns : failed[c] \in Nat
  OBVIOUS
<1>3. \A c \in Conns : (IF c = conn THEN failed[c] + 1 ELSE failed[c]) \in Nat
  BY <1>2
<1>4. QED
  BY <1>1, <1>3

(* One that fails has to reset the connection and counts as having failed. *)
LEMMA OpenContextPlaced ==
  ASSUME ConnectionInv, NEW t \in Readers, OpenContext(t)
  PROVE  Placed' /\ \A c \in Conns : Counted(c)'
<1> USE DEF ConnectionInv, OpenContext, Does
<1>1. UNCHANGED <<browser, opened>> /\ HasSlot(t) /\ reader[t].conn \in Nat
  BY DEF HasSlot, Holding, Placed
<1>2. CASE Works(t)
  <2>1. Only(t) /\ reader'[t].at = "rendering" /\ reader'[t].conn = reader[t].conn
    BY <1>2, ReaderMoves DEF Steps, Holding
  <2>2. QED
    BY <1>1, <1>2, <2>1, QuietStep DEF Placed
<1>3. CASE ~Works(t)
  <2> DEFINE conn == reader[t].conn
  <2>1. Only(t) /\ reader'[t].at = "resetting" /\ reader'[t].conn = conn
    BY <1>3, ReaderMoves DEF Steps, Holding
  <2>2. failed' = [failed EXCEPT ![conn] = @ + 1]
    BY <1>3
  <2>3. Holders' \subseteq Holders
    BY <1>1, <2>1 DEF Holders, HasSlot, Only
  <2>4. /\ failed' \in [Conns -> Nat]
        /\ \A c \in Conns : failed'[c] = IF c = conn THEN failed[c] + 1 ELSE failed[c]
    BY <2>2, FailsOnce DEF Placed
  <2>5. Placed'
    BY <1>1, <2>1, <2>3, <2>4, HoldersStay DEF Placed, Only
  <2> SUFFICES ASSUME NEW c \in Conns PROVE Counted(c)'
    BY <2>4, <2>5
  <2>6. /\ failed[c] \in Nat /\ c \in Nat /\ opened \in Nat /\ conn <= opened
        /\ Cardinality(Opening(c)) \in Nat /\ Cardinality(Opening(c)') \in Nat
        /\ Cardinality(Resetting(c)) \in Nat /\ Cardinality(Resetting(c)') \in Nat
    BY Finite, PagesAssumption DEF Opening, Resetting, Placed, Conns
  <2>7. CASE c = conn
    <3>1. failed'[c] = failed[c] + 1
      BY <2>4, <2>7
    <3>2. t \in Opening(c) /\ Opening(c)' = Opening(c) \ {t}
      BY <2>1, <2>7 DEF Opening, Only
    <3>3. t \notin Resetting(c) /\ Resetting(c)' = Resetting(c) \union {t}
      BY <2>1, <2>7 DEF Resetting, Only
    <3>4. Cardinality(Opening(c)') = Cardinality(Opening(c)) - 1
      BY <3>2, OneLess DEF Opening
    <3>5. Cardinality(Resetting(c)') = Cardinality(Resetting(c)) + 1
      BY <3>3, OneMore DEF Resetting
    <3>6. QED
      BY <1>1, <2>6, <2>7, <3>1, <3>4, <3>5, PagesAssumption DEF Counted
  <2>8. CASE c # conn
    <3>1. Opening(c)' = Opening(c) /\ Resetting(c)' = Resetting(c)
      BY <2>1, <2>8 DEF Opening, Resetting, Only
    <3>2. failed'[c] = failed[c]
      BY <2>4, <2>8
    <3>3. QED
      BY <1>1, <3>1, <3>2 DEF Counted
  <2>9. QED
    BY <2>7, <2>8
<1>4. QED
  BY <1>2, <1>3

(* Then it is nobody's. *)
LEMMA ResetBrowserPlaced ==
  ASSUME ConnectionInv, NEW t \in Readers, ResetBrowser(t)
  PROVE  Placed' /\ \A c \in Conns : Counted(c)'
<1> USE DEF ConnectionInv, ResetBrowser, Does
<1>1. UNCHANGED <<opened, failed>> /\ HasSlot(t) /\ browser' = 0 /\ opened \in Nat
  BY DEF HasSlot, Holding, Placed
<1>2. Only(t) /\ reader'[t].at = "idle" /\ reader'[t].conn = 0
  BY ReaderRests
<1>3. Holders' \subseteq Holders
  BY <1>1, <1>2 DEF Holders, HasSlot, Only
<1>4. Placed'
  <2>1. \A u \in Readers : reader'[u].conn <= opened'
    BY <1>1, <1>2 DEF Placed, Only
  <2>2. Cardinality(Holders)' <= MaxRenders
    BY <1>3, HoldersStay
  <2>3. QED
    BY <1>1, <1>2, <2>1, <2>2 DEF Placed, Only
<1> SUFFICES ASSUME NEW c \in Conns PROVE Counted(c)'
  BY <1>1, <1>4 DEF Conns
<1>5. c # 0
  BY PagesAssumption DEF Conns, Placed
<1>6. Opening(c)' = Opening(c)
  BY <1>2 DEF Opening, Only
<1>7. QED
  BY <1>1, <1>5, <1>6 DEF Counted

LEMMA InitConnection == Init => ConnectionInv
<1> SUFFICES ASSUME Init PROVE ConnectionInv
  OBVIOUS
<1> USE DEF Init, PagesInit, Resting
<1>1. \A t \in Readers : reader[t] = Resting
  OBVIOUS
<1>2. Holders = {} /\ \A c \in Conns : Opening(c) = {}
  BY DEF Holders, Opening, HasSlot, Holding
<1>3. Cardinality({}) = 0
  BY FS_EmptySet
<1>4. Placed
  BY <1>2, <1>3, PagesAssumption DEF Placed, Steps, Conns
<1>5. \A c \in Conns : Counted(c)
  <2> SUFFICES ASSUME NEW c \in Conns PROVE Counted(c)
    OBVIOUS
  <2>1. failed[c] = 0 /\ c # 0 /\ browser = 0
    BY PagesAssumption DEF Conns
  <2>2. Cardinality(Opening(c)) = 0
    BY <1>2, <1>3
  <2>3. QED
    BY <2>1, <2>2, PagesAssumption DEF Counted
<1>6. Waited
  <2>1. /\ reply \in [Rooms -> [phase : {"idle", "gathering", "completing"}, pages : Nat, docs : Nat]]
        /\ \A r \in Rooms : reply[r].phase = "idle"
    BY DEF NoReply
  <2>2. \A t \in Readers : Does(t, "idle")
    BY <1>1 DEF Does
  <2>3. QED
    BY <2>1, <2>2 DEF Waited, InPhase, LinksRead, Tasks
<1>7. QED
  BY <1>4, <1>5, <1>6 DEF ConnectionInv

(* Only a reader that moves is no longer idle, and it was not. *)
LEMMA ReadOnWaits ==
  ASSUME ConnectionInv, NEW t \in Readers, ReadOn(t), UNCHANGED reply
  PROVE  Waited'
<1> USE DEF ConnectionInv
<1>1. ~Does(t, "idle")
  BY DEF ReadOn, FetchPlain, TakeSlot, LockBrowser, Connect, OpenContext, ResetBrowser, Render,
         Dispose, Does
<1>2. \A u \in Readers \ {t} : reader'[u] = reader[u]
  BY DEF ReadOn, FetchPlain, TakeSlot, LockBrowser, Connect, OpenContext, ResetBrowser, Render,
         Dispose, Moves, Rests, Placed
<1>3. \A u \in Readers : Does(u, "idle") => Does(u, "idle")'
  BY <1>1, <1>2 DEF Does
<1>4. QED
  BY <1>3 DEF Waited, InPhase, LinksRead, Tasks

LEMMA ReadOnPlaced ==
  ASSUME ConnectionInv, NEW t \in Readers, ReadOn(t)
  PROVE  Placed' /\ \A c \in Conns : Counted(c)'
  BY FetchPlainPlaced, TakeSlotPlaced, LockBrowserPlaced, ConnectPlaced, OpenContextPlaced,
     ResetBrowserPlaced, RenderPlaced DEF ReadOn

(* Steps that leave readers and connection alone. *)
LEMMA NothingRead ==
  ASSUME ConnectionInv, UNCHANGED <<reader, browser, opened, failed>>
  PROVE  Placed' /\ \A c \in Conns : Counted(c)'
  BY DEF ConnectionInv, Placed, Conns, Counted, Opening, Resetting, Holders, HasSlot

-----------------------------------------------------------------------------
(* The replies                                                                 *)

(* A step of the reply of room r, of which nothing but its phase matters. *)
RepliesOf(r) ==
  /\ reply' \in [Rooms -> [phase : {"idle", "gathering", "completing"}, pages : Nat, docs : Nat]]
  /\ \A q \in Rooms \ {r} : reply'[q].phase = reply[q].phase

LEMMA ReplyGoes ==
  ASSUME Waited, NEW r \in Rooms, NEW phase \in {"idle", "gathering", "completing"},
         \/ reply' = [reply EXCEPT ![r].phase = phase]
         \/ reply' = [reply EXCEPT ![r].pages = @ + 1] /\ phase = reply[r].phase
         \/ reply' = [reply EXCEPT ![r].docs = @ + 1] /\ phase = reply[r].phase
         \/ reply' = [reply EXCEPT ![r] = NoReply] /\ phase = "idle"
  PROVE  RepliesOf(r) /\ reply'[r].phase = phase
<1> DEFINE Replied == [phase : {"idle", "gathering", "completing"}, pages : Nat, docs : Nat]
<1>1. reply \in [Rooms -> Replied] /\ reply[r] \in Replied
  BY DEF Waited
<1>2. \E new \in Replied : reply' = [reply EXCEPT ![r] = new] /\ new.phase = phase
  <2>1. CASE reply' = [reply EXCEPT ![r].phase = phase]
    <3>1. [reply[r] EXCEPT !.phase = phase] \in Replied
      BY <1>1
    <3>2. QED
      BY <1>1, <2>1, <3>1
  <2>2. CASE reply' = [reply EXCEPT ![r].pages = @ + 1] /\ phase = reply[r].phase
    <3>1. [reply[r] EXCEPT !.pages = @ + 1] \in Replied
      BY <1>1
    <3>2. QED
      BY <1>1, <2>2, <3>1
  <2>3. CASE reply' = [reply EXCEPT ![r].docs = @ + 1] /\ phase = reply[r].phase
    <3>1. [reply[r] EXCEPT !.docs = @ + 1] \in Replied
      BY <1>1
    <3>2. QED
      BY <1>1, <2>3, <3>1
  <2>4. CASE reply' = [reply EXCEPT ![r] = NoReply] /\ phase = "idle"
    <3>1. NoReply \in Replied /\ NoReply.phase = "idle"
      BY DEF NoReply
    <3>2. QED
      BY <2>4, <3>1
  <2>5. QED
    BY <2>1, <2>2, <2>3, <2>4
<1> HIDE DEF Replied
<1>3. reply' \in [Rooms -> Replied] /\ reply'[r].phase = phase /\ \A q \in Rooms \ {r} : reply'[q] = reply[q]
  BY <1>1, <1>2
<1>4. QED
  BY <1>3 DEF RepliesOf, Replied

(* It is waiting for a reader only where it says so. *)
LEMMA StillWaits ==
  ASSUME Waited, NEW r \in Rooms, RepliesOf(r),
         \A t \in Readers : t[1] # r => reader'[t] = reader[t],
         InPhase(r, "idle")' => LinksRead(r)',
         InPhase(r, "completing")' => \A t \in Tasks(r) : t # <<r, 1>> => Does(t, "idle")'
  PROVE  Waited'
<1>1. \A q \in Rooms \ {r} : \A t \in Tasks(q) : reader'[t] = reader[t]
  BY DEF Tasks
<1>2. \A q \in Rooms \ {r} : InPhase(q, "idle")' => LinksRead(q)'
  BY <1>1 DEF Waited, RepliesOf, InPhase, LinksRead, Does, Tasks
<1>3. \A q \in Rooms \ {r} :
        InPhase(q, "completing")' => \A t \in Tasks(q) : t # <<q, 1>> => Does(t, "idle")'
  BY <1>1 DEF Waited, RepliesOf, InPhase, Does, Tasks
<1>4. QED
  BY <1>2, <1>3 DEF Waited, RepliesOf, Tasks

LEMMA ReadAllKeeps ==
  ASSUME NEW tasks \in SUBSET Readers, ReadAll(tasks)
  PROVE  \A t \in Readers \ tasks : reader'[t] = reader[t]
  BY DEF ReadAll

LEMMA BeginReplyKeeps ==
  ASSUME ConnectionInv, NEW r \in Rooms, BeginReply(r)
  PROVE  ConnectionInv'
<1> PICK n \in 0..MaxLinks : ReadAll({t \in Tasks(r) : t[2] <= n})
  BY DEF BeginReply
<1> DEFINE tasks == {t \in Tasks(r) : t[2] <= n}
<1>1. tasks \in SUBSET Readers /\ \A t \in tasks : t[1] = r /\ Does(t, "idle")
  BY DEF BeginReply, ConnectionInv, Waited, LinksRead, Tasks
<1>2. Placed' /\ \A c \in Conns : Counted(c)'
  BY <1>1, ReadAllPlaced
<1>3. RepliesOf(r) /\ reply'[r].phase = "gathering"
  BY ReplyGoes DEF BeginReply, ConnectionInv
<1>4. \A t \in Readers : t[1] # r => reader'[t] = reader[t]
  BY <1>1, ReadAllKeeps
<1>5. Waited'
  BY <1>3, <1>4, StillWaits DEF ConnectionInv, InPhase
<1>6. QED
  BY <1>2, <1>5 DEF ConnectionInv

LEMMA ReadPageKeeps ==
  ASSUME ConnectionInv, NEW r \in Rooms, ReadPage(r)
  PROVE  ConnectionInv'
<1>1. {<<r, 1>>} \in SUBSET Readers /\ Does(<<r, 1>>, "idle") /\ ReadAll({<<r, 1>>})
  BY RepliesAssumption DEF ReadPage, CallDone
<1>2. Placed' /\ \A c \in Conns : Counted(c)'
  BY <1>1, ReadAllPlaced
<1>3. reply[r].phase = "completing" /\ RepliesOf(r) /\ reply'[r].phase = "completing"
  BY ReplyGoes DEF ReadPage, ConnectionInv, InPhase
<1>4. \A t \in Readers : t # <<r, 1>> => reader'[t] = reader[t]
  BY <1>1, ReadAllKeeps
<1>5. \A t \in Readers : t[1] # r => t # <<r, 1>>
  OBVIOUS
<1>6. \A t \in Tasks(r) : t # <<r, 1>> => Does(t, "idle")'
  BY <1>3, <1>4 DEF ConnectionInv, Waited, InPhase, Does, Tasks
<1>7. Waited'
  BY <1>3, <1>4, <1>5, <1>6, StillWaits DEF ConnectionInv, InPhase
<1>8. QED
  BY <1>2, <1>7 DEF ConnectionInv

(* The other steps of a reply leave the readers alone. *)
LEMMA ReplyKeeps ==
  ASSUME ConnectionInv, NEW r \in Rooms, Gathered(r) \/ ReadDocs(r) \/ EndReply(r)
  PROVE  ConnectionInv'
<1>1. UNCHANGED <<reader, browser, opened, failed>>
  BY DEF Gathered, ReadDocs, EndReply, pagesVars
<1>2. Placed' /\ \A c \in Conns : Counted(c)'
  BY <1>1, NothingRead
<1>3. CASE Gathered(r)
  <2>1. RepliesOf(r) /\ reply'[r].phase = "completing"
    BY <1>3, ReplyGoes DEF Gathered, ConnectionInv
  <2>2. \A t \in Tasks(r) : Does(t, "idle")'
    BY <1>1, <1>3 DEF Gathered, LinksRead, Does
  <2>3. QED
    BY <1>1, <1>2, <2>1, <2>2, StillWaits DEF ConnectionInv, InPhase
<1>4. CASE ReadDocs(r)
  <2>1. reply[r].phase = "completing" /\ RepliesOf(r) /\ reply'[r].phase = "completing"
    BY <1>4, ReplyGoes DEF ReadDocs, ConnectionInv, InPhase
  <2>2. \A t \in Tasks(r) : t # <<r, 1>> => Does(t, "idle")'
    BY <1>1, <2>1 DEF ConnectionInv, Waited, InPhase, Does
  <2>3. QED
    BY <1>1, <1>2, <2>1, <2>2, StillWaits DEF ConnectionInv, InPhase
<1>5. CASE EndReply(r)
  <2>1. RepliesOf(r) /\ reply'[r].phase = "idle"
    BY <1>5, ReplyGoes DEF EndReply, ConnectionInv
  <2>2. LinksRead(r)'
    BY <1>1, <1>5 DEF EndReply, CallDone, LinksRead, ConnectionInv, Waited, Does, Tasks
  <2>3. QED
    BY <1>1, <1>2, <2>1, <2>2, StillWaits DEF ConnectionInv, InPhase
<1>6. QED
  BY <1>3, <1>4, <1>5

LEMMA ConnectionKept ==
  ASSUME ConnectionInv, [Next]_vars
  PROVE  ConnectionInv'
<1>1. ASSUME UNCHANGED <<reader, browser, opened, failed, reply>>
      PROVE  ConnectionInv'
  <2>1. Waited'
    BY <1>1 DEF ConnectionInv, Waited, InPhase, LinksRead, Does, Tasks
  <2>2. QED
    BY <1>1, <2>1, NothingRead DEF ConnectionInv
<1>2. ASSUME NEW t \in Readers, GoOn(t)
      PROVE  ConnectionInv'
  BY <1>2, ReadOnPlaced, ReadOnWaits DEF GoOn, ConnectionInv
<1>3. ASSUME NEW r \in Rooms, AskAround(r)
      PROVE  ConnectionInv'
  BY <1>1, <1>3 DEF AskAround, pagesVars
<1>4. CASE World
  BY <1>1, <1>4 DEF World, RestartBrowser, Expire, pagesVars
<1>5. CASE UNCHANGED vars
  BY <1>1, <1>5 DEF vars, pagesVars
<1>6. QED
  BY <1>2, <1>3, <1>4, <1>5, BeginReplyKeeps, ReadPageKeeps, ReplyKeeps DEF Next

(* When the browser restarts, its connection costs no more pages than are      *)
(* rendered at once, whoever drops it first (src/src/browser.rs:83-87).        *)
THEOREM DeadConnectionsCostLittle == Spec => []DeadConnectionCosts
<1>1. ConnectionInv => DeadConnectionCosts
  <2> SUFFICES ASSUME ConnectionInv, NEW c \in Conns PROVE failed[c] <= MaxRenders
    BY DEF DeadConnectionCosts, ConnectionInv, Placed
  <2>1. failed[c] + Cardinality(Opening(c)) <= MaxRenders
    BY DEF ConnectionInv, Counted
  <2>2. failed[c] \in Nat /\ Cardinality(Opening(c)) \in Nat
    BY Finite DEF ConnectionInv, Placed, Opening
  <2>3. QED
    BY <2>1, <2>2, PagesAssumption
<1>2. QED
  BY <1>1, InitConnection, ConnectionKept, PTL DEF Spec

-----------------------------------------------------------------------------
(* The documentation                                                           *)

(* What is taken to be good is not out of date, and a copy that is none is not *)
(* given out.                                                                  *)
DocsInv ==
  /\ copy \in {"none", "good", "expired"}
  /\ copy = "good" => ~stale
  /\ DocsAsNewAsCanBe

LEMMA InitDocs == Init => DocsInv
  BY DEF Init, DocsInit, DocsInv, DocsAsNewAsCanBe

LEMMA DocsKept ==
  ASSUME DocsInv, [Next]_vars
  PROVE  DocsInv'
<1> USE DEF DocsInv, DocsAsNewAsCanBe
<1>1. ASSUME UNCHANGED <<copy, stale, answer>>
      PROVE  DocsInv'
  BY <1>1
<1>2. ASSUME NEW r \in Rooms, BeginReply(r) \/ Gathered(r) \/ ReadPage(r) \/ ReadDocs(r) \/ EndReply(r)
      PROVE  DocsInv'
  BY <1>1, <1>2 DEF BeginReply, Gathered, ReadPage, ReadDocs, EndReply, Ask, docsVars
<1>3. ASSUME NEW r \in Rooms, AskAround(r)
      PROVE  DocsInv'
  <2>1. CASE LockDocs(r)
    BY <2>1 DEF LockDocs, Answer, FromCopy
  <2>2. CASE FetchDocs(r)
    BY <2>2 DEF FetchDocs, Answer, FromCopy
  <2>3. QED
    BY <1>3, <2>1, <2>2 DEF AskAround, AskOn
<1>4. ASSUME NEW t \in Readers, GoOn(t)
      PROVE  DocsInv'
  BY <1>1, <1>4 DEF GoOn, docsVars
<1>5. CASE World
  BY <1>1, <1>5 DEF World, Expire, docsVars
<1>6. CASE UNCHANGED vars
  BY <1>1, <1>6 DEF vars, docsVars
<1>7. QED
  BY <1>2, <1>3, <1>4, <1>5, <1>6 DEF Next

(* Whoever gets old documentation, or none, is the one for whom fetching it    *)
(* failed, however many waited for it (src/src/bot_docs.rs:24-26, 78-79).      *)
THEOREM DocsAreNew == Spec => []DocsAsNewAsCanBe
<1>1. DocsInv => DocsAsNewAsCanBe
  BY DEF DocsInv
<1>2. QED
  BY <1>1, InitDocs, DocsKept, PTL DEF Spec

-----------------------------------------------------------------------------
(* The types                                                                   *)

(* One holds the mutex at most, and it is taken only while nobody does. *)
OneConnects == \A t, u \in Readers : Does(t, "connecting") /\ Does(u, "connecting") => t = u

(* Documentation is asked for by a reply that Claude is at, and waited for.    *)
AskInv ==
  /\ asker \in [Rooms -> {"idle", "waiting", "fetching"}]
  /\ \A r \in Rooms : ~InPhase(r, "completing") => Asks(r, "idle")

TypesInv == ConnectionInv /\ DocsInv /\ OneConnects /\ AskInv

LEMMA InitTypes == Init => TypesInv
<1> SUFFICES ASSUME Init PROVE TypesInv
  OBVIOUS
<1>1. OneConnects
  BY DEF Init, PagesInit, Resting, OneConnects, Does
<1>2. AskInv
  BY RepliesAssumption DEF Init, DocsInit, AskInv, Asks
<1>3. QED
  BY <1>1, <1>2, InitConnection, InitDocs DEF TypesInv

(* Whoever is to connect was before, or nobody was. *)
LEMMA OneStillConnects ==
  ASSUME OneConnects,
         \/ \A t \in Readers : Does(t, "connecting")' => Does(t, "connecting")
         \/ /\ Unlocked
            /\ \E v \in Readers : \A t \in Readers \ {v} : reader'[t] = reader[t]
  PROVE  OneConnects'
  BY DEF OneConnects, Unlocked, Does

LEMMA ReadersConnect ==
  ASSUME ConnectionInv, OneConnects, NEW t \in Readers, ReadOn(t)
  PROVE  OneConnects'
<1> USE DEF ConnectionInv
<1>1. CASE LockBrowser(t)
  <2>1. Unlocked /\ \A u \in Readers \ {t} : reader'[u] = reader[u]
    BY <1>1 DEF LockBrowser, Moves, Placed
  <2>2. QED
    BY <2>1, OneStillConnects
<1>2. CASE ~LockBrowser(t)
  <2>1. Only(t) /\ reader'[t].at # "connecting"
    <3>1. CASE \E step \in {"slot", "locking", "rendering", "resetting", "disposing"} : Moves(t, step)
      BY <3>1, ReaderMoves DEF Steps, Holding
    <3>2. CASE Rests(t)
      BY <3>2, ReaderRests
    <3>3. CASE reader' = [reader EXCEPT ![t].at = "opening", ![t].conn = opened + 1]
      <4>1. [at |-> "opening", conn |-> opened + 1] \in [at : Steps, conn : Nat]
        BY DEF Placed, Steps, Holding
      <4>2. QED
        BY <3>3, <4>1 DEF Only, Placed
    <3>4. QED
      BY <1>2, <3>1, <3>2, <3>3 DEF ReadOn, FetchPlain, TakeSlot, Connect, OpenContext, ResetBrowser,
         Render, Dispose
  <2>2. \A u \in Readers : Does(u, "connecting")' => Does(u, "connecting")
    BY <2>1 DEF Only, Does
  <2>3. QED
    BY <2>2, OneStillConnects
<1>3. QED
  BY <1>1, <1>2

LEMMA ReadAllConnects ==
  ASSUME OneConnects, NEW tasks, ReadAll(tasks)
  PROVE  OneConnects'
<1>1. \A u \in Readers : Does(u, "connecting")' => Does(u, "connecting")
  BY DEF ReadAll, Resting, Does
<1>2. QED
  BY <1>1, OneStillConnects

LEMMA ConnectingKept ==
  ASSUME ConnectionInv, OneConnects, [Next]_vars
  PROVE  OneConnects'
<1>1. ASSUME UNCHANGED reader
      PROVE  OneConnects'
  BY <1>1 DEF OneConnects, Does
<1>2. ASSUME NEW r \in Rooms, BeginReply(r) \/ ReadPage(r)
      PROVE  OneConnects'
  BY <1>2, ReadAllConnects DEF BeginReply, ReadPage
<1>3. ASSUME NEW r \in Rooms, Gathered(r) \/ ReadDocs(r) \/ EndReply(r) \/ AskAround(r)
      PROVE  OneConnects'
  BY <1>1, <1>3 DEF Gathered, ReadDocs, EndReply, AskAround, pagesVars
<1>4. ASSUME NEW t \in Readers, GoOn(t)
      PROVE  OneConnects'
  BY <1>4, ReadersConnect DEF GoOn
<1>5. CASE World
  BY <1>1, <1>5 DEF World, RestartBrowser, pagesVars
<1>6. CASE UNCHANGED vars
  BY <1>1, <1>6 DEF vars, pagesVars
<1>7. QED
  BY <1>2, <1>3, <1>4, <1>5, <1>6 DEF Next

(* A step of the reply of room r that leaves the documentation alone. *)
LEMMA NothingAsked ==
  ASSUME AskInv, NEW r \in Rooms, RepliesOf(r), UNCHANGED asker,
         ~InPhase(r, "completing")' => Asks(r, "idle")
  PROVE  AskInv'
<1>1. \A q \in Rooms \ {r} : ~InPhase(q, "completing")' => Asks(q, "idle")
  BY DEF AskInv, RepliesOf, InPhase
<1>2. \A q \in Rooms : ~InPhase(q, "completing")' => Asks(q, "idle")
  BY <1>1
<1>3. QED
  BY <1>2 DEF AskInv, Asks

LEMMA AskingKept ==
  ASSUME Waited, AskInv, [Next]_vars
  PROVE  AskInv'
<1>1. ASSUME UNCHANGED <<asker, reply>>
      PROVE  AskInv'
  BY <1>1 DEF AskInv, InPhase, Asks
<1>2. ASSUME NEW r \in Rooms, BeginReply(r)
      PROVE  AskInv'
  <2>1. RepliesOf(r) /\ UNCHANGED asker /\ Asks(r, "idle")
    BY <1>2, ReplyGoes DEF BeginReply, docsVars, AskInv, InPhase
  <2>2. QED
    BY <2>1, NothingAsked
<1>3. ASSUME NEW r \in Rooms, Gathered(r)
      PROVE  AskInv'
  <2>1. RepliesOf(r) /\ UNCHANGED asker /\ Asks(r, "idle")
    BY <1>3, ReplyGoes DEF Gathered, docsVars, AskInv, InPhase
  <2>2. QED
    BY <2>1, NothingAsked
<1>4. ASSUME NEW r \in Rooms, EndReply(r)
      PROVE  AskInv'
  <2>1. RepliesOf(r) /\ UNCHANGED asker /\ Asks(r, "idle")
    BY <1>4, ReplyGoes DEF EndReply, docsVars, CallDone
  <2>2. QED
    BY <2>1, NothingAsked
<1>5. ASSUME NEW r \in Rooms, ReadPage(r)
      PROVE  AskInv'
  <2>1. RepliesOf(r) /\ UNCHANGED asker /\ Asks(r, "idle")
    BY <1>5, ReplyGoes DEF ReadPage, docsVars, InPhase, CallDone
  <2>2. QED
    BY <2>1, NothingAsked
<1>6. ASSUME NEW r \in Rooms, ReadDocs(r)
      PROVE  AskInv'
  <2>1. RepliesOf(r) /\ reply'[r].phase = "completing" /\ asker' = [asker EXCEPT ![r] = "waiting"]
    BY <1>6, ReplyGoes DEF ReadDocs, InPhase, Ask, AskerGoes
  <2>2. \A q \in Rooms \ {r} : asker'[q] = asker[q] /\ reply'[q].phase = reply[q].phase
    BY <2>1 DEF AskInv, RepliesOf
  <2>3. QED
    BY <2>1, <2>2 DEF AskInv, InPhase, Asks
<1>7. ASSUME NEW r \in Rooms, AskAround(r)
      PROVE  AskInv'
  <2>1. UNCHANGED reply /\ ~Asks(r, "idle")
    BY <1>7 DEF AskAround, AskOn, LockDocs, FetchDocs, Asks
  <2>2. \/ UNCHANGED asker
        \/ \E step \in {"idle", "fetching"} : asker' = [asker EXCEPT ![r] = step]
    BY <1>7 DEF AskAround, AskOn, LockDocs, FetchDocs, AskerGoes
  <2>3. asker' \in [Rooms -> {"idle", "waiting", "fetching"}]
    BY <2>2 DEF AskInv
  <2>4. \A q \in Rooms \ {r} : asker'[q] = asker[q]
    BY <2>2 DEF AskInv
  <2>5. QED
    BY <2>1, <2>3, <2>4 DEF AskInv, InPhase, Asks
<1>8. ASSUME NEW t \in Readers, GoOn(t)
      PROVE  AskInv'
  BY <1>1, <1>8 DEF GoOn, docsVars
<1>9. CASE World
  BY <1>1, <1>9 DEF World, Expire, docsVars
<1>10. CASE UNCHANGED vars
  BY <1>1, <1>10 DEF vars, docsVars
<1>11. QED
  BY <1>2, <1>3, <1>4, <1>5, <1>6, <1>7, <1>8, <1>9, <1>10 DEF Next

(* What tasks, connections and the copy are, that one at most connects and no  *)
(* more render than may, and that a reply that is over reads nothing.          *)
THEOREM RepliesAreTyped == Spec => []TypeOK
<1>1. TypesInv => TypeOK
  <2> SUFFICES ASSUME TypesInv PROVE TypeOK
    OBVIOUS
  <2> USE DEF TypesInv, ConnectionInv
  <2>1. Cardinality({t \in Readers : Does(t, "connecting")}) <= 1
    <3> DEFINE C == {t \in Readers : Does(t, "connecting")}
    <3>1. C = {} \/ \E t \in Readers : C = {t}
      BY DEF OneConnects
    <3>2. QED
      BY <3>1, FS_EmptySet, FS_Singleton
  <2>2. Cardinality({t \in Readers : HasSlot(t)}) <= MaxRenders
    BY DEF Placed, Holders
  <2>3. PagesOK
    BY <2>1, <2>2 DEF PagesOK, Placed
  <2>4. DocsOK
    BY RepliesAssumption DEF DocsOK, DocsInv, AskInv
  <2>5. \A r \in Rooms : reply[r].phase \in {"idle", "gathering", "completing"}
    BY DEF Waited
  <2>6. ASSUME NEW r \in Rooms, InPhase(r, "idle")
        PROVE  LinksRead(r) /\ CallDone(r)
    <3>1. LinksRead(r) /\ Asks(r, "idle")
      BY <2>6 DEF Waited, AskInv, InPhase
    <3>2. <<r, 1>> \in Tasks(r)
      BY RepliesAssumption DEF Tasks
    <3>3. QED
      BY <3>1, <3>2 DEF LinksRead, CallDone
  <2>7. QED
    BY <2>3, <2>4, <2>5, <2>6 DEF TypeOK
<1>2. TypesInv /\ [Next]_vars => TypesInv'
  BY ConnectionKept, DocsKept, ConnectingKept, AskingKept DEF TypesInv, ConnectionInv
<1>3. QED
  BY <1>1, <1>2, InitTypes, PTL DEF Spec
=============================================================================
