--------------------------- MODULE ClaudeCallsProofs ---------------------------
(* For any number of rooms, responses, prices, shares and limits: types, a     *)
(* pause that is never cut short, failure alerts that pair up, spend alerts    *)
(* that tell what was spent, and how far the limit can be overrun.             *)
EXTENDS ClaudeCalls, DataFacts

-----------------------------------------------------------------------------
(* Numbers *)

LEMMA GreatestShare ==
  ASSUME NEW S \in SUBSET (1..100), S # {}
  PROVE  \E x \in S : \A y \in S : y <= x
<1>1. S \in SUBSET (0..100)
  OBVIOUS
<1>2. PICK x \in S : \A y \in S : x >= y
  BY <1>1, GreatestBelow
<1>3. QED
  BY <1>1, <1>2

LEMMA SmallerShare ==
  ASSUME NEW p \in Nat, NEW q \in Nat, NEW n \in Nat, p * n < q * n
  PROVE  p < q
<1>1. q <= p => q * n <= p * n
  OBVIOUS
<1>2. p * n \in Nat /\ q * n \in Nat
  OBVIOUS
<1>3. QED
  BY <1>1, <1>2

LEMMA CostsAreNatural == Costs \subseteq Nat
<1> SUFFICES ASSUME NEW response \in Responses
             PROVE  Cost(response) \in Nat
  BY DEF Costs
<1>1. response.tokens \in Nat /\ response.searches \in Nat
  BY ClaudeCallsAssumption
<1>2. ASSUME NEW a \in Nat, NEW b \in Nat
      PROVE  a * b \in Nat
  BY <1>2
<1>3. response.searches * SearchPrice \in Nat
  BY <1>1, <1>2, ClaudeCallsAssumption
<1>4. TokenCost(response) \in Nat
  BY <1>1, <1>2, ClaudeCallsAssumption DEF TokenCost
<1>5. QED
  BY <1>3, <1>4 DEF Cost

-----------------------------------------------------------------------------
(* What a call becomes                                                         *)

LEMMA NoCallIsCall == NoCall \in Calls
  BY ClaudeCallsAssumption DEF NoCall, Calls, Steps, Sites

LEMMA CallFields ==
  ASSUME NEW c \in Calls
  PROVE  /\ c.at \in Steps /\ c.site \in Sites /\ c.summary \in BOOLEAN
         /\ c.attempt \in 0..MaxContinuations /\ c.cost \in Costs \union {0}
         /\ c.deadline \in 0..(MaxTime + Backoff)
  BY DEF Calls

(* One field at a time. *)
LEMMA SetStep ==
  ASSUME NEW c \in Calls, NEW step \in Steps
  PROVE  [c EXCEPT !.at = step] \in Calls /\ [c EXCEPT !.at = step].at = step
  BY DEF Calls

LEMMA SetSite ==
  ASSUME NEW c \in Calls, NEW site \in Sites
  PROVE  [c EXCEPT !.site = site] \in Calls /\ [c EXCEPT !.site = site].at = c.at
  BY DEF Calls

LEMMA SetSummary ==
  ASSUME NEW c \in Calls, NEW summary \in BOOLEAN
  PROVE  [c EXCEPT !.summary = summary] \in Calls /\ [c EXCEPT !.summary = summary].at = c.at
  BY DEF Calls

LEMMA SetAttempt ==
  ASSUME NEW c \in Calls, NEW attempt \in 0..MaxContinuations
  PROVE  [c EXCEPT !.attempt = attempt] \in Calls /\ [c EXCEPT !.attempt = attempt].at = c.at
  BY DEF Calls

LEMMA SetCost ==
  ASSUME NEW c \in Calls, NEW cost \in Costs \union {0}
  PROVE  [c EXCEPT !.cost = cost] \in Calls /\ [c EXCEPT !.cost = cost].at = c.at
  BY DEF Calls

LEMMA SetDeadline ==
  ASSUME NEW c \in Calls, NEW deadline \in 0..(MaxTime + Backoff)
  PROVE  [c EXCEPT !.deadline = deadline] \in Calls /\ [c EXCEPT !.deadline = deadline].at = c.at
  BY DEF Calls

(* Those that the actions set together. *)
LEMMA StartedIsCall ==
  ASSUME NEW site \in Sites
  PROVE  LET d == [NoCall EXCEPT !.at = "starting", !.site = site]
         IN d \in Calls /\ d.at = "starting"
<1> DEFINE d1 == [NoCall EXCEPT !.at = "starting"]
           d2 == [d1 EXCEPT !.site = site]
<1>1. d1 \in Calls /\ d1.at = "starting"
  BY NoCallIsCall, SetStep DEF Steps
<1> HIDE DEF d1
<1>2. d2 \in Calls /\ d2.at = "starting"
  BY <1>1, SetSite
<1>3. d2 = [NoCall EXCEPT !.at = "starting", !.site = site]
  BY DEF d1
<1>4. QED
  BY <1>2, <1>3

LEMMA RequestedIsCall ==
  ASSUME NEW c \in Calls, NEW refresh \in BOOLEAN
  PROVE  LET d == [c EXCEPT !.at = "waiting", !.summary = refresh]
         IN d \in Calls /\ d.at = "waiting"
<1> DEFINE d1 == [c EXCEPT !.at = "waiting"]
           d2 == [d1 EXCEPT !.summary = refresh]
<1>1. d1 \in Calls /\ d1.at = "waiting"
  BY SetStep DEF Steps
<1> HIDE DEF d1
<1>2. d2 \in Calls /\ d2.at = "waiting"
  BY <1>1, SetSummary
<1>3. d2 = [c EXCEPT !.at = "waiting", !.summary = refresh]
  BY DEF d1
<1>4. QED
  BY <1>2, <1>3

LEMMA LimitedIsCall ==
  ASSUME NEW c \in Calls, NEW deadline \in 0..(MaxTime + Backoff)
  PROVE  LET d == [c EXCEPT !.at = "limited", !.deadline = deadline]
         IN d \in Calls /\ d.at = "limited"
<1> DEFINE d1 == [c EXCEPT !.at = "limited"]
           d2 == [d1 EXCEPT !.deadline = deadline]
<1>1. d1 \in Calls /\ d1.at = "limited"
  BY SetStep DEF Steps
<1> HIDE DEF d1
<1>2. d2 \in Calls /\ d2.at = "limited"
  BY <1>1, SetDeadline
<1>3. d2 = [c EXCEPT !.at = "limited", !.deadline = deadline]
  BY DEF d1
<1>4. QED
  BY <1>2, <1>3

LEMMA SucceededIsCall ==
  ASSUME NEW c \in Calls, NEW step \in Steps, NEW cost \in Costs
  PROVE  LET d == [c EXCEPT !.at = step, !.cost = cost]
         IN d \in Calls /\ d.at = step
<1> DEFINE d1 == [c EXCEPT !.at = step]
           d2 == [d1 EXCEPT !.cost = cost]
<1>1. d1 \in Calls /\ d1.at = step
  BY SetStep
<1> HIDE DEF d1
<1>2. d2 \in Calls /\ d2.at = step
  BY <1>1, SetCost
<1>3. d2 = [c EXCEPT !.at = step, !.cost = cost]
  BY DEF d1
<1>4. QED
  BY <1>2, <1>3

LEMMA AfterRequestIsCall ==
  ASSUME call \in [Tasks -> Calls], NEW t \in Tasks
  PROVE  AfterRequest(t) \in Calls /\ AfterRequest(t).at \in {"waiting", "idle"}
<1>1. CASE call[t].summary
  <2> DEFINE d1 == [call[t] EXCEPT !.at = "waiting"]
             d2 == [d1 EXCEPT !.summary = FALSE]
             d3 == [d2 EXCEPT !.attempt = 0]
             d4 == [d3 EXCEPT !.cost = 0]
             d5 == [d4 EXCEPT !.deadline = 0]
  <2>1. d1 \in Calls /\ d1.at = "waiting"
    BY SetStep DEF Steps
  <2>2. d2 \in Calls /\ d2.at = "waiting"
    <3> HIDE DEF d1
    <3> QED  BY <2>1, SetSummary
  <2>3. d3 \in Calls /\ d3.at = "waiting"
    <3> HIDE DEF d2
    <3> QED  BY <2>2, SetAttempt, ClaudeCallsAssumption
  <2>4. d4 \in Calls /\ d4.at = "waiting"
    <3> HIDE DEF d3
    <3> QED  BY <2>3, SetCost
  <2>5. d5 \in Calls /\ d5.at = "waiting"
    <3> HIDE DEF d4
    <3> QED  BY <2>4, SetDeadline, ClaudeCallsAssumption
  <2>6. AfterRequest(t) = d5
    BY <1>1 DEF AfterRequest
  <2>7. QED
    BY <2>5, <2>6
<1>2. CASE ~call[t].summary
  BY <1>2, NoCallIsCall DEF AfterRequest, NoCall
<1>3. QED
  BY <1>1, <1>2

LEMMA ContinuedIsCall ==
  ASSUME call \in [Tasks -> Calls], NEW t \in Tasks, MayContinue(t)
  PROVE  Continued(t) \in Calls /\ Continued(t).at = "waiting"
<1> DEFINE d1 == [call[t] EXCEPT !.at = "waiting"]
           d2 == [d1 EXCEPT !.attempt = call[t].attempt + 1]
           d3 == [d2 EXCEPT !.cost = 0]
<1>1. d1 \in Calls /\ d1.at = "waiting"
  BY SetStep DEF Steps
<1>2. call[t].attempt + 1 \in 0..MaxContinuations
  <2>1. call[t].attempt \in 0..MaxContinuations
    BY CallFields
  <2>2. QED
    BY <2>1, ClaudeCallsAssumption DEF MayContinue
<1>3. d2 \in Calls /\ d2.at = "waiting"
  <2> HIDE DEF d1
  <2> QED  BY <1>1, <1>2, SetAttempt
<1>4. d3 \in Calls /\ d3.at = "waiting"
  <2> HIDE DEF d2
  <2> QED  BY <1>3, SetCost
<1>5. Continued(t) = d3
  BY DEF Continued
<1>6. QED
  BY <1>4, <1>5

-----------------------------------------------------------------------------
(* Where each step leaves its task; the others are where they were.            *)

GoesTo(t, steps) ==
  /\ call' \in [Tasks -> Calls] /\ call'[t].at \in steps
  /\ \A u \in Tasks \ {t} : call'[u] = call[u]

LEMMA GoesIsStep ==
  ASSUME call \in [Tasks -> Calls], NEW t \in Tasks, NEW c \in Calls, Goes(t, c), NEW steps, c.at \in steps
  PROVE  GoesTo(t, steps)
  BY DEF Goes, GoesTo

LEMMA MovesIsStep ==
  ASSUME call \in [Tasks -> Calls], NEW t \in Tasks, NEW step \in Steps, Moves(t, step),
         NEW steps, step \in steps
  PROVE  GoesTo(t, steps)
<1> DEFINE c == [call[t] EXCEPT !.at = step]
<1>1. c \in Calls /\ c.at \in steps
  BY SetStep
<1>2. Goes(t, c)
  BY DEF Moves
<1> HIDE DEF c
<1>3. QED
  BY <1>1, <1>2, GoesIsStep

LEMMA StartGoes ==
  ASSUME TypeOK, NEW t \in Tasks, NEW site \in Sites, Start(t, site)
  PROVE  GoesTo(t, {"starting"})
<1> DEFINE c == [NoCall EXCEPT !.at = "starting", !.site = site]
<1>1. c \in Calls /\ c.at \in {"starting"}
  BY StartedIsCall
<1>2. Goes(t, c) /\ call \in [Tasks -> Calls]
  BY DEF Start, TypeOK
<1> HIDE DEF c
<1>3. QED
  BY <1>1, <1>2, GoesIsStep

LEMMA CheckCostGoes ==
  ASSUME TypeOK, NEW t \in Tasks, CheckCost(t)
  PROVE  GoesTo(t, {"idle", "costChecked"})
<1>1. NoCall \in Calls /\ NoCall.at \in {"idle", "costChecked"} /\ call \in [Tasks -> Calls]
  BY NoCallIsCall DEF NoCall, TypeOK
<1>2. Goes(t, NoCall) \/ Moves(t, "costChecked")
  BY DEF CheckCost
<1>3. QED
  BY <1>1, <1>2, GoesIsStep, MovesIsStep DEF Steps

LEMMA CheckThrottleGoes ==
  ASSUME TypeOK, NEW t \in Tasks, CheckThrottle(t)
  PROVE  GoesTo(t, {"idle", "waiting"})
<1>1. NoCall \in Calls /\ NoCall.at \in {"idle", "waiting"} /\ call \in [Tasks -> Calls]
  BY NoCallIsCall DEF NoCall, TypeOK
<1>2. CASE Goes(t, NoCall)
  BY <1>1, <1>2, GoesIsStep
<1>3. ASSUME NEW refresh \in BOOLEAN, Goes(t, [call[t] EXCEPT !.at = "waiting", !.summary = refresh])
      PROVE  GoesTo(t, {"idle", "waiting"})
  <2> DEFINE c == [call[t] EXCEPT !.at = "waiting", !.summary = refresh]
  <2>1. c \in Calls /\ c.at \in {"idle", "waiting"}
    <3>1. call[t] \in Calls
      BY <1>1
    <3>2. QED
      BY <3>1, RequestedIsCall
  <2>2. Goes(t, c)
    BY <1>3
  <2> HIDE DEF c
  <2>3. QED
    BY <1>1, <2>1, <2>2, GoesIsStep
<1>4. QED
  BY <1>2, <1>3 DEF CheckThrottle

LEMMA FailLimitedGoes ==
  ASSUME TypeOK, NEW t \in Tasks, FailLimited(t)
  PROVE  GoesTo(t, {"limited"})
<1> DEFINE c == [call[t] EXCEPT !.at = "limited", !.deadline = now + Backoff]
<1>1. call \in [Tasks -> Calls] /\ now + Backoff \in 0..(MaxTime + Backoff)
  BY ClaudeCallsAssumption DEF TypeOK
<1>2. c \in Calls /\ c.at \in {"limited"}
  BY <1>1, LimitedIsCall
<1>3. Goes(t, c)
  BY DEF FailLimited
<1> HIDE DEF c
<1>4. QED
  BY <1>1, <1>2, <1>3, GoesIsStep

LEMMA AfterRequestGoes ==
  ASSUME TypeOK, NEW t \in Tasks, Goes(t, AfterRequest(t))
  PROVE  GoesTo(t, {"waiting", "idle"})
<1>1. call \in [Tasks -> Calls]
  BY DEF TypeOK
<1>2. QED
  BY <1>1, AfterRequestIsCall, GoesIsStep

LEMMA SucceedGoes ==
  ASSUME TypeOK, NEW t \in Tasks, NEW cost \in Costs, Succeed(t, cost)
  PROVE  GoesTo(t, IF failures.alerted THEN {"recovered"} ELSE {"adding"})
<1> DEFINE step == IF failures.alerted THEN "recovered" ELSE "adding"
           c == [call[t] EXCEPT !.at = step, !.cost = cost]
<1>1. call \in [Tasks -> Calls] /\ step \in Steps
  BY DEF TypeOK, Steps
<1>2. c \in Calls /\ c.at = step
  <2> HIDE DEF step
  <2> QED  BY <1>1, SucceededIsCall
<1>3. Goes(t, c)
  BY DEF Succeed
<1>4. step \in (IF failures.alerted THEN {"recovered"} ELSE {"adding"})
  OBVIOUS
<1> HIDE DEF c, step
<1>5. QED
  BY <1>1, <1>2, <1>3, <1>4, GoesIsStep

LEMMA AddGoes ==
  ASSUME TypeOK, NEW t \in Tasks, NEW persists \in BOOLEAN, Add(t, persists)
  PROVE  GoesTo(t, {"waiting", "idle"})
<1>1. CASE Goes(t, AfterRequest(t))
  BY <1>1, AfterRequestGoes
<1>2. CASE MayContinue(t) /\ Goes(t, Continued(t))
  <2>1. call \in [Tasks -> Calls]
    BY DEF TypeOK
  <2>2. Continued(t) \in Calls /\ Continued(t).at \in {"waiting", "idle"}
    BY <1>2, <2>1, ContinuedIsCall
  <2>3. QED
    BY <1>2, <2>1, <2>2, GoesIsStep
<1>3. QED
  BY <1>1, <1>2 DEF Add

(* The steps that only move on. *)
LEMMA OthersGo ==
  ASSUME TypeOK, NEW t \in Tasks
  PROVE  /\ NoteRateLimited(t) => GoesTo(t, {"failing"})
         /\ FailOtherwise(t) => GoesTo(t, {"failing"})
         /\ RecordFailure(t) => GoesTo(t, {"waiting", "idle"})
         /\ Garbled(t) => GoesTo(t, {"waiting", "idle"})
         /\ RaiseRecovered(t) => GoesTo(t, {"adding"})
<1>1. call \in [Tasks -> Calls] /\ "failing" \in Steps /\ "adding" \in Steps
  BY DEF TypeOK, Steps
<1>2. NoteRateLimited(t) => GoesTo(t, {"failing"})
  BY <1>1, MovesIsStep DEF NoteRateLimited
<1>3. FailOtherwise(t) => GoesTo(t, {"failing"})
  BY <1>1, MovesIsStep DEF FailOtherwise
<1>4. RecordFailure(t) => GoesTo(t, {"waiting", "idle"})
  BY AfterRequestGoes DEF RecordFailure
<1>5. Garbled(t) => GoesTo(t, {"waiting", "idle"})
  BY AfterRequestGoes DEF Garbled
<1>6. RaiseRecovered(t) => GoesTo(t, {"adding"})
  BY <1>1, MovesIsStep DEF RaiseRecovered
<1>7. QED
  BY <1>2, <1>3, <1>4, <1>5, <1>6

-----------------------------------------------------------------------------
(* What is announced                                                           *)

LEMMA BalanceSet ==
  ASSUME announced \in [spend : Seq(Shares), balance : Int], NEW n \in Int
  PROVE  LET d == [announced EXCEPT !.balance = n]
         IN d \in [spend : Seq(Shares), balance : Int] /\ d.spend = announced.spend /\ d.balance = n
  OBVIOUS

LEMMA SpendSet ==
  ASSUME announced \in [spend : Seq(Shares), balance : Int], NEW told \in Seq(Shares)
  PROVE  LET d == [announced EXCEPT !.spend = told]
         IN d \in [spend : Seq(Shares), balance : Int] /\ d.spend = told /\ d.balance = announced.balance
  OBVIOUS

(* The spend alerts after record has added a cost. *)
Told(before, after) ==
  IF Crossing(before, after) = {} THEN announced.spend
  ELSE Append(announced.spend, CHOOSE p \in Crossing(before, after) : TRUE)

LEMMA AddTells ==
  ASSUME TypeOK, NEW t \in Tasks, NEW persists \in BOOLEAN, Add(t, persists)
  PROVE  /\ Told(spent, spent') \in Seq(Shares)
         /\ announced' \in [spend : Seq(Shares), balance : Int]
         /\ announced'.spend = Told(spent, spent') /\ announced'.balance = announced.balance
<1>1. announced \in [spend : Seq(Shares), balance : Int] /\ announced.spend \in Seq(Shares)
  BY DEF TypeOK
<1>2. Told(spent, spent') \in Seq(Shares)
  <2>1. CASE Crossing(spent, spent') = {}
    BY <1>1, <2>1 DEF Told
  <2>2. CASE Crossing(spent, spent') # {}
    <3>1. (CHOOSE p \in Crossing(spent, spent') : TRUE) \in Shares
      BY <2>2 DEF Crossing
    <3>2. QED
      BY <1>1, <2>2, <3>1 DEF Told
  <2>3. QED
    BY <2>1, <2>2
<1>3. announced' = [announced EXCEPT !.spend = Told(spent, spent')]
  BY DEF Add, Told
<1>4. QED
  BY <1>1, <1>2, <1>3, SpendSet

LEMMA AddSpends ==
  ASSUME TypeOK, NEW t \in Tasks, NEW persists \in BOOLEAN, Add(t, persists)
  PROVE  spent' \in Nat /\ spent <= spent'
<1>1. call[t].cost \in Nat
  <2>1. call[t] \in Calls
    BY DEF TypeOK
  <2>2. call[t].cost \in Costs \union {0}
    BY <2>1, CallFields
  <2>3. \A cost \in Costs \union {0} : cost \in Nat
    BY CostsAreNatural
  <2>4. QED
    BY <2>2, <2>3
<1>2. QED
  BY <1>1 DEF TypeOK, Add

(* record_failure alerts at most once, and not again while it is alerted.      *)
LEMMA FailureCounts ==
  ASSUME TypeOK, NEW t \in Tasks, RecordFailure(t)
  PROVE  /\ failures' \in [inARow : 0..FailuresBeforeAlert, alerted : BOOLEAN]
         /\ announced' \in [spend : Seq(Shares), balance : Int]
         /\ announced'.spend = announced.spend
         /\ announced'.balance - announced.balance =
              (IF failures'.alerted THEN 1 ELSE 0) - (IF failures.alerted THEN 1 ELSE 0)
<1> DEFINE count == IF failures.inARow < FailuresBeforeAlert THEN failures.inARow + 1 ELSE failures.inARow
           alert == count >= FailuresBeforeAlert /\ ~failures.alerted
<1>1. /\ failures.inARow \in 0..FailuresBeforeAlert /\ failures.alerted \in BOOLEAN
      /\ announced \in [spend : Seq(Shares), balance : Int] /\ announced.balance \in Int
  BY DEF TypeOK
<1>2. count \in 0..FailuresBeforeAlert /\ alert \in BOOLEAN
  BY <1>1, ClaudeCallsAssumption
<1>3. /\ failures' = [inARow |-> count, alerted |-> failures.alerted \/ alert]
      /\ announced' = IF alert THEN [announced EXCEPT !.balance = @ + 1] ELSE announced
  BY DEF RecordFailure
<1>4. alert => ~failures.alerted
  OBVIOUS
<1> HIDE DEF count, alert
<1>5. CASE alert
  <2>1. failures' = [inARow |-> count, alerted |-> TRUE]
    BY <1>3, <1>5
  <2>2. announced.balance + 1 \in Int /\ announced' = [announced EXCEPT !.balance = announced.balance + 1]
    BY <1>1, <1>3, <1>5
  <2>3. /\ announced' \in [spend : Seq(Shares), balance : Int]
        /\ announced'.spend = announced.spend /\ announced'.balance = announced.balance + 1
    BY <1>1, <2>2, BalanceSet
  <2>4. QED
    BY <1>1, <1>2, <1>4, <1>5, <2>1, <2>3
<1>6. CASE ~alert
  BY <1>1, <1>2, <1>3, <1>6
<1>7. QED
  BY <1>2, <1>5, <1>6

-----------------------------------------------------------------------------
(* Types *)

LEMMA InitialTypes == Init => TypeOK
<1> SUFFICES ASSUME Init
             PROVE  TypeOK
  OBVIOUS
<1>1. announced \in [spend : Seq(Shares), balance : Int]
  BY DEF Init, Quiet
<1>2. call \in [Tasks -> Calls]
  BY NoCallIsCall DEF Init
<1>3. QED
  BY <1>1, <1>2, ClaudeCallsAssumption DEF Init, TypeOK

LEMMA ProceedTypes ==
  ASSUME TypeOK, NEW t \in Tasks, Proceed(t)
  PROVE  TypeOK'
<1>1. CASE CheckCost(t)
  BY <1>1, CheckCostGoes DEF GoesTo, CheckCost, tracker, throttle, TypeOK
<1>2. CASE CheckThrottle(t)
  BY <1>2, CheckThrottleGoes DEF GoesTo, CheckThrottle, tracker, throttle, TypeOK
<1>3. CASE FailLimited(t)
  BY <1>3, FailLimitedGoes DEF GoesTo, FailLimited, tracker, throttle, TypeOK
<1>4. CASE NoteRateLimited(t)
  <2>1. call[t].deadline \in 0..(MaxTime + Backoff)
    <3>1. call[t] \in Calls
      BY DEF TypeOK
    <3>2. QED
      BY <3>1, CallFields
  <2>2. until' \in 0..(MaxTime + Backoff)
    BY <1>4, <2>1 DEF NoteRateLimited, TypeOK
  <2>3. QED
    BY <1>4, <2>2, OthersGo DEF GoesTo, NoteRateLimited, tracker, TypeOK
<1>5. CASE FailOtherwise(t)
  BY <1>5, OthersGo DEF GoesTo, FailOtherwise, tracker, throttle, TypeOK
<1>6. CASE RecordFailure(t)
  <2>1. call' \in [Tasks -> Calls] /\ UNCHANGED <<tracker, throttle>>
    BY <1>6, OthersGo DEF GoesTo, RecordFailure
  <2>2. QED
    BY <1>6, <2>1, FailureCounts DEF tracker, throttle, TypeOK
<1>7. CASE Garbled(t)
  BY <1>7, OthersGo DEF GoesTo, Garbled, tracker, throttle, TypeOK
<1>8. ASSUME NEW cost \in Costs, Succeed(t, cost)
      PROVE  TypeOK'
  <2>1. failures' \in [inARow : 0..FailuresBeforeAlert, alerted : BOOLEAN]
    BY <1>8, ClaudeCallsAssumption DEF Succeed
  <2>2. call' \in [Tasks -> Calls] /\ UNCHANGED <<tracker, throttle, announced>>
    BY <1>8, SucceedGoes DEF GoesTo, Succeed
  <2>3. QED
    BY <2>1, <2>2 DEF tracker, throttle, TypeOK
<1>9. CASE RaiseRecovered(t)
  <2>1. announced' = [announced EXCEPT !.balance = announced.balance - 1] /\ announced.balance - 1 \in Int
    BY <1>9 DEF RaiseRecovered, TypeOK
  <2>2. announced' \in [spend : Seq(Shares), balance : Int]
    BY <2>1, BalanceSet DEF TypeOK
  <2>3. QED
    BY <1>9, <2>2, OthersGo DEF GoesTo, RaiseRecovered, tracker, throttle, TypeOK
<1>10. ASSUME NEW persists \in BOOLEAN, Add(t, persists)
       PROVE  TypeOK'
  <2>1. saved' = spent' \/ saved' = saved
    BY <1>10 DEF Add, SaveTotals
  <2>2. UNCHANGED <<throttle, failures, opened>>
    BY <1>10 DEF Add
  <2>3. call' \in [Tasks -> Calls]
    BY <1>10, AddGoes DEF GoesTo
  <2>4. spent' \in Nat /\ spent <= spent'
    BY <1>10, AddSpends
  <2>5. announced' \in [spend : Seq(Shares), balance : Int]
    BY <1>10, AddTells
  <2>6. QED
    BY <2>1, <2>2, <2>3, <2>4, <2>5 DEF throttle, TypeOK
<1>11. QED
  BY <1>1, <1>2, <1>3, <1>4, <1>5, <1>6, <1>7, <1>8, <1>9, <1>10 DEF Proceed

LEMMA StepTypes == TypeOK /\ [Next]_vars => TypeOK'
<1> SUFFICES ASSUME TypeOK, [Next]_vars
             PROVE  TypeOK'
  OBVIOUS
<1>1. ASSUME NEW t \in Tasks, NEW site \in Sites, Start(t, site)
      PROVE  TypeOK'
  BY <1>1, StartGoes DEF GoesTo, Start, tracker, throttle, TypeOK
<1>2. ASSUME NEW t \in Tasks, Proceed(t)
      PROVE  TypeOK'
  BY <1>2, ProceedTypes
<1>3. CASE Tick
  BY <1>3, ClaudeCallsAssumption DEF Tick, tracker, TypeOK
<1>4. CASE Restart
  <2>1. announced' \in [spend : Seq(Shares), balance : Int]
    BY <1>4 DEF Restart, Quiet
  <2>2. call' \in [Tasks -> Calls]
    BY <1>4, NoCallIsCall DEF Restart
  <2>3. QED
    BY <1>4, <2>1, <2>2, ClaudeCallsAssumption DEF Restart, LoadTotals, TypeOK
<1>5. CASE UNCHANGED vars
  BY <1>5 DEF vars, TypeOK
<1>6. QED
  BY <1>1, <1>2, <1>3, <1>4, <1>5 DEF Next

(* What was spent is never less than what the database has, nor than when the  *)
(* process started, whatever fails and however the rooms interleave.           *)
THEOREM TypesHold == Spec => []TypeOK
<1>1. QED
  BY InitialTypes, StepTypes, PTL DEF Spec

-----------------------------------------------------------------------------
(* The pause *)

(* However the tasks that note a rate limit interleave, the pause only grows   *)
(* while the process runs.                                                     *)
THEOREM PauseIsKept == Spec => PauseNeverShortened
<1>1. ASSUME TypeOK, [Next]_vars
      PROVE  [until' >= until \/ Restart]_vars
  <2>1. until \in Nat
    BY <1>1, ClaudeCallsAssumption DEF TypeOK
  <2>2. ASSUME NEW t \in Tasks, NEW site \in Sites, Start(t, site)
        PROVE  until' >= until
    BY <2>1, <2>2 DEF Start, throttle
  <2>3. ASSUME NEW t \in Tasks, Proceed(t)
        PROVE  until' >= until
    <3>1. CASE NoteRateLimited(t)
      <4>1. call[t].deadline \in Nat
        <5>1. call[t] \in Calls
          BY <1>1 DEF TypeOK
        <5>2. QED
          BY <5>1, CallFields
      <4>2. QED
        BY <2>1, <3>1, <4>1 DEF NoteRateLimited
    <3>2. CASE until' = until
      BY <2>1, <3>2
    <3>3. NoteRateLimited(t) \/ until' = until
      BY <2>3 DEF Proceed, CheckCost, CheckThrottle, FailLimited, FailOtherwise, RecordFailure,
                  Garbled, Succeed, RaiseRecovered, Add, throttle
    <3>4. QED
      BY <3>1, <3>2, <3>3
  <2>4. CASE Tick
    BY <2>1, <2>4 DEF Tick
  <2>5. QED
    BY <1>1, <2>2, <2>3, <2>4 DEF Next
<1>2. QED
  BY <1>1, TypesHold, PTL DEF Spec, PauseNeverShortened

-----------------------------------------------------------------------------
(* The failure alerts *)

(* The tasks that saw a call work and have not said so yet. *)
Recovering == {t \in Tasks : At(t, "recovered")}

LEMMA RecoveringFinite == IsFiniteSet(Recovering) /\ Cardinality(Recovering) \in Nat
<1>1. Recovering \in SUBSET Tasks
  BY DEF Recovering
<1>2. IsFiniteSet(Recovering)
  BY <1>1, FS_Subset, ClaudeCallsAssumption
<1>3. QED
  BY <1>2, FS_CardinalityType

LEMMA RecoveringKept ==
  ASSUME NEW t \in Tasks, NEW steps, GoesTo(t, steps), "recovered" \notin steps, ~At(t, "recovered")
  PROVE  Recovering' = Recovering
  BY DEF Recovering, GoesTo, At

LEMMA RecoveringGrows ==
  ASSUME NEW t \in Tasks, GoesTo(t, {"recovered"}), ~At(t, "recovered")
  PROVE  Cardinality(Recovering') = Cardinality(Recovering) + 1
<1>1. Recovering' = Recovering \union {t} /\ t \notin Recovering
  BY DEF Recovering, GoesTo, At
<1>2. Cardinality(Recovering \union {t}) = Cardinality(Recovering) + 1
  BY <1>1, RecoveringFinite, FS_AddElement
<1>3. QED
  BY <1>1, <1>2

LEMMA RecoveringShrinks ==
  ASSUME NEW t \in Tasks, GoesTo(t, {"adding"}), At(t, "recovered")
  PROVE  Cardinality(Recovering') = Cardinality(Recovering) - 1
<1>1. Recovering' = Recovering \ {t} /\ t \in Recovering
  BY DEF Recovering, GoesTo, At
<1>2. Cardinality(Recovering \ {t}) = Cardinality(Recovering) - 1
  BY <1>1, RecoveringFinite, FS_RemoveElement
<1>3. QED
  BY <1>1, <1>2

(* The balance of the alerts, said of Recovering. *)
Balanced == announced.balance = (IF failures.alerted THEN 1 ELSE 0) + Cardinality(Recovering)

LEMMA BalancedIsPaired == Balanced <=> FailureAlertsPaired
  BY DEF Balanced, FailureAlertsPaired, Recovering

LEMMA ProceedPairs ==
  ASSUME TypeOK, Balanced, NEW t \in Tasks, Proceed(t)
  PROVE  Balanced'
<1>1. CASE CheckCost(t)
  <2>1. Recovering' = Recovering
    BY <1>1, CheckCostGoes, RecoveringKept DEF CheckCost, At
  <2>2. QED
    BY <1>1, <2>1 DEF CheckCost, Balanced
<1>2. CASE CheckThrottle(t)
  <2>1. Recovering' = Recovering
    BY <1>2, CheckThrottleGoes, RecoveringKept DEF CheckThrottle, At
  <2>2. QED
    BY <1>2, <2>1 DEF CheckThrottle, Balanced
<1>3. CASE FailLimited(t)
  <2>1. Recovering' = Recovering
    BY <1>3, FailLimitedGoes, RecoveringKept DEF FailLimited, At
  <2>2. QED
    BY <1>3, <2>1 DEF FailLimited, Balanced
<1>4. CASE NoteRateLimited(t)
  <2>1. Recovering' = Recovering
    BY <1>4, OthersGo, RecoveringKept DEF NoteRateLimited, At
  <2>2. QED
    BY <1>4, <2>1 DEF NoteRateLimited, Balanced
<1>5. CASE FailOtherwise(t)
  <2>1. Recovering' = Recovering
    BY <1>5, OthersGo, RecoveringKept DEF FailOtherwise, At
  <2>2. QED
    BY <1>5, <2>1 DEF FailOtherwise, Balanced
<1>6. CASE RecordFailure(t)
  <2>1. Recovering' = Recovering
    BY <1>6, OthersGo, RecoveringKept DEF RecordFailure, At
  <2>2. announced'.balance - announced.balance =
          (IF failures'.alerted THEN 1 ELSE 0) - (IF failures.alerted THEN 1 ELSE 0)
    BY <1>6, FailureCounts
  <2>3. announced.balance \in Int /\ announced'.balance \in Int
    BY <1>6, FailureCounts DEF TypeOK
  <2>4. QED
    BY <2>1, <2>2, <2>3, RecoveringFinite DEF Balanced
<1>7. CASE Garbled(t)
  <2>1. Recovering' = Recovering
    BY <1>7, OthersGo, RecoveringKept DEF Garbled, At
  <2>2. QED
    BY <1>7, <2>1 DEF Garbled, Balanced
<1>8. ASSUME NEW cost \in Costs, Succeed(t, cost)
      PROVE  Balanced'
  <2>1. At(t, "waiting") /\ failures'.alerted = FALSE /\ announced' = announced
    BY <1>8 DEF Succeed
  <2>2. ~At(t, "recovered")
    BY <2>1 DEF At
  <2>3. CASE failures.alerted
    <3>1. Cardinality(Recovering') = Cardinality(Recovering) + 1
      BY <1>8, <2>2, <2>3, SucceedGoes, RecoveringGrows
    <3>2. QED
      BY <2>1, <2>3, <3>1, RecoveringFinite DEF Balanced
  <2>4. CASE ~failures.alerted
    <3>1. Recovering' = Recovering
      BY <1>8, <2>2, <2>4, SucceedGoes, RecoveringKept
    <3>2. QED
      BY <2>1, <2>4, <3>1, RecoveringFinite DEF Balanced
  <2>5. QED
    BY <2>3, <2>4
<1>9. CASE RaiseRecovered(t)
  <2>1. announced' = [announced EXCEPT !.balance = announced.balance - 1] /\ announced.balance - 1 \in Int
    BY <1>9 DEF RaiseRecovered, TypeOK
  <2>2. announced'.balance = announced.balance - 1
    BY <2>1, BalanceSet DEF TypeOK
  <2>3. Cardinality(Recovering') = Cardinality(Recovering) - 1
    BY <1>9, OthersGo, RecoveringShrinks DEF RaiseRecovered
  <2>4. failures' = failures
    BY <1>9 DEF RaiseRecovered
  <2>5. QED
    BY <2>2, <2>3, <2>4, RecoveringFinite DEF Balanced
<1>10. ASSUME NEW persists \in BOOLEAN, Add(t, persists)
       PROVE  Balanced'
  <2>1. Recovering' = Recovering
    BY <1>10, AddGoes, RecoveringKept DEF Add, At
  <2>2. announced'.balance = announced.balance
    BY <1>10, AddTells
  <2>3. QED
    BY <1>10, <2>1, <2>2 DEF Add, Balanced
<1>11. QED
  BY <1>1, <1>2, <1>3, <1>4, <1>5, <1>6, <1>7, <1>8, <1>9, <1>10 DEF Proceed

(* An alert that calls fail, and one that they work again, never without each  *)
(* other, for any number of rooms that fail and succeed at the same time.      *)
THEOREM AlertsArePaired == Spec => []FailureAlertsPaired
<1>1. Init => Balanced
  <2> SUFFICES ASSUME Init
               PROVE  Balanced
    OBVIOUS
  <2>1. Recovering = {}
    BY DEF Init, Recovering, At, NoCall
  <2>2. Cardinality(Recovering) = 0
    BY <2>1, FS_EmptySet
  <2>3. QED
    BY <2>2 DEF Init, Quiet, Balanced
<1>2. TypeOK /\ Balanced /\ [Next]_vars => Balanced'
  <2> SUFFICES ASSUME TypeOK, Balanced, [Next]_vars
               PROVE  Balanced'
    OBVIOUS
  <2>1. ASSUME NEW t \in Tasks, NEW site \in Sites, Start(t, site)
        PROVE  Balanced'
    <3>1. Recovering' = Recovering
      BY <2>1, StartGoes, RecoveringKept DEF Start, At
    <3>2. QED
      BY <2>1, <3>1 DEF Start, Balanced
  <2>2. ASSUME NEW t \in Tasks, Proceed(t)
        PROVE  Balanced'
    BY <2>2, ProceedPairs
  <2>3. CASE Tick
    BY <2>3 DEF Tick, Balanced, Recovering, At
  <2>4. CASE Restart
    <3>1. Recovering' = {}
      BY <2>4 DEF Restart, Recovering, At, NoCall
    <3>2. Cardinality(Recovering') = 0
      BY <3>1, FS_EmptySet
    <3>3. QED
      BY <2>4, <3>2 DEF Restart, Quiet, Balanced
  <2>5. CASE UNCHANGED vars
    BY <2>5 DEF vars, Balanced, Recovering, At
  <2>6. QED
    BY <2>1, <2>2, <2>3, <2>4, <2>5 DEF Next
<1>3. QED
  BY <1>1, <1>2, TypesHold, BalancedIsPaired, PTL DEF Spec

-----------------------------------------------------------------------------
(* The spend alerts *)

Passed(before, after) == {p \in Shares : 100 * before < p * Limit /\ 100 * after >= p * Limit}

(* The parts of SpendAlertsTell. *)
OnlyPassed(told, passed) == \A i \in DOMAIN told : told[i] \in passed
Rising(told) == \A i, j \in DOMAIN told : i < j => told[i] < told[j]
AllPassed(told, passed) == \A p \in passed : \E i \in DOMAIN told : told[i] >= p

Tells(told, passed) == OnlyPassed(told, passed) /\ Rising(told) /\ AllPassed(told, passed)

LEMMA TellsIsSpendAlertsTell == SpendAlertsTell <=> Tells(announced.spend, Passed(opened, spent))
  BY DEF SpendAlertsTell, Tells, OnlyPassed, Rising, AllPassed, Passed

LEMMA ShareProducts ==
  /\ Limit \in Nat /\ Shares \subseteq Nat
  /\ \A p \in Shares : p * Limit \in Nat
<1>1. Limit \in Nat /\ Shares \subseteq Nat
  BY ClaudeCallsAssumption
<1>2. QED
  BY <1>1

(* If any share was crossed, one was, and it is above all others. *)
LEMMA SomeCrossing ==
  ASSUME NEW before, NEW after, Passed(before, after) # {}
  PROVE  /\ Crossing(before, after) # {}
         /\ (CHOOSE p \in Crossing(before, after) : TRUE) \in Passed(before, after)
         /\ \A q \in Passed(before, after) : q <= (CHOOSE p \in Crossing(before, after) : TRUE)
<1>1. Passed(before, after) \in SUBSET (1..100)
  BY ClaudeCallsAssumption DEF Passed
<1>2. PICK p \in Passed(before, after) : \A q \in Passed(before, after) : q <= p
  BY <1>1, GreatestShare
<1>3. Crossing(before, after) = {r \in Passed(before, after) : \A q \in Passed(before, after) : q <= r}
  BY DEF Crossing, Passed
<1>4. Crossing(before, after) # {}
  BY <1>2, <1>3
<1>5. (CHOOSE r \in Crossing(before, after) : TRUE) \in Crossing(before, after)
  BY <1>4
<1>6. QED
  BY <1>3, <1>4, <1>5

LEMMA NoCrossing ==
  ASSUME NEW before, NEW after, Passed(before, after) = {}
  PROVE  Crossing(before, after) = {}
  BY DEF Crossing, Passed

(* What was passed before stays passed, and the rest was passed just now. *)
LEMMA PassedGrows ==
  ASSUME NEW from \in Nat, NEW before \in Nat, NEW after \in Nat, from <= before, before <= after
  PROVE  Passed(from, after) = Passed(from, before) \union Passed(before, after)
<1>1. ASSUME NEW p \in Shares
      PROVE  p \in Passed(from, after) <=> p \in Passed(from, before) \/ p \in Passed(before, after)
  <2>1. p * Limit \in Nat
    BY ShareProducts
  <2> DEFINE n == p * Limit
  <2>2. /\ p \in Passed(from, after) <=> 100 * from < n /\ 100 * after >= n
        /\ p \in Passed(from, before) <=> 100 * from < n /\ 100 * before >= n
        /\ p \in Passed(before, after) <=> 100 * before < n /\ 100 * after >= n
    BY DEF Passed
  <2> HIDE DEF n
  <2>3. n \in Nat
    BY <2>1 DEF n
  <2>4. QED
    BY <2>2, <2>3
<1>2. QED
  BY <1>1 DEF Passed

(* A share passed just now is above all that were passed before. *)
LEMMA PassedAbove ==
  ASSUME NEW from \in Nat, NEW before \in Nat, NEW after \in Nat,
         NEW p \in Passed(from, before), NEW q \in Passed(before, after)
  PROVE  p < q
<1>1. p \in Nat /\ q \in Nat /\ Limit \in Nat /\ p * Limit \in Nat /\ q * Limit \in Nat
  BY ShareProducts DEF Passed
<1>2. 100 * before >= p * Limit /\ 100 * before < q * Limit
  BY DEF Passed
<1>3. p * Limit < q * Limit
  BY <1>1, <1>2
<1>4. QED
  BY <1>1, <1>3, SmallerShare

(* One more alert, for a share above those told. *)
LEMMA TellOneMore ==
  ASSUME NEW told \in Seq(Shares), NEW before, NEW crossed, NEW p \in Shares,
         Tells(told, before), p \in crossed, before \subseteq Shares, crossed \subseteq Shares,
         \A q \in before : q < p, \A q \in crossed : q <= p
  PROVE  Tells(Append(told, p), before \union crossed)
<1> DEFINE more == Append(told, p)
<1>1. /\ Len(told) \in Nat /\ DOMAIN told = 1..Len(told) /\ DOMAIN more = 1..(Len(told) + 1)
      /\ \A i \in DOMAIN told : more[i] = told[i] /\ told[i] \in Shares
      /\ more[Len(told) + 1] = p
  OBVIOUS
<1>2. Shares \subseteq Nat
  BY ShareProducts
<1> HIDE DEF more
<1>3. \A i \in DOMAIN more : i \in DOMAIN told \/ i = Len(told) + 1
  BY <1>1
<1>4. OnlyPassed(more, before \union crossed)
  BY <1>1, <1>3 DEF OnlyPassed, Tells
<1>5. Rising(more)
  <2> SUFFICES ASSUME NEW i \in DOMAIN more, NEW j \in DOMAIN more, i < j
               PROVE  more[i] < more[j]
    BY DEF Rising
  <2>1. i \in DOMAIN told
    BY <1>1
  <2>2. more[i] = told[i] /\ told[i] \in before
    BY <1>1, <2>1 DEF Tells, OnlyPassed
  <2>3. CASE j \in DOMAIN told
    BY <1>1, <2>1, <2>3 DEF Tells, Rising
  <2>4. CASE j = Len(told) + 1
    BY <1>1, <2>2, <2>4
  <2>5. QED
    BY <1>3, <2>3, <2>4
<1>6. AllPassed(more, before \union crossed)
  <2>1. ASSUME NEW q \in before
        PROVE  \E i \in DOMAIN more : more[i] >= q
    <3>1. PICK i \in DOMAIN told : told[i] >= q
      BY DEF Tells, AllPassed
    <3>2. i \in DOMAIN more /\ more[i] >= q
      BY <1>1, <3>1
    <3>3. QED
      BY <3>2
  <2>2. ASSUME NEW q \in crossed
        PROVE  \E i \in DOMAIN more : more[i] >= q
    <3>1. Len(told) + 1 \in DOMAIN more /\ p >= q
      BY <1>1, <1>2
    <3>2. QED
      BY <1>1, <3>1
  <2>3. QED
    BY <2>1, <2>2 DEF AllPassed
<1>7. QED
  BY <1>4, <1>5, <1>6 DEF Tells, more

LEMMA AddTellsRight ==
  ASSUME TypeOK, SpendAlertsTell, NEW t \in Tasks, NEW persists \in BOOLEAN, Add(t, persists)
  PROVE  SpendAlertsTell'
<1> DEFINE before == Passed(opened, spent)
           crossed == Passed(spent, spent')
           p == CHOOSE q \in Crossing(spent, spent') : TRUE
<1>1. /\ opened \in Nat /\ spent \in Nat /\ opened <= spent /\ announced.spend \in Seq(Shares)
      /\ spent' \in Nat /\ spent <= spent'
  BY AddSpends DEF TypeOK
<1>2. opened' = opened /\ announced'.spend = Told(spent, spent')
  BY AddTells DEF Add
<1>3. Tells(announced.spend, before)
  BY TellsIsSpendAlertsTell
<1>4. Passed(opened, spent') = before \union crossed
  BY <1>1, PassedGrows
<1>5. Tells(Told(spent, spent'), before \union crossed)
  <2>1. CASE crossed = {}
    <3>1. Told(spent, spent') = announced.spend
      BY <2>1, NoCrossing DEF Told
    <3>2. before \union crossed = before
      BY <2>1
    <3>3. QED
      BY <1>3, <3>1, <3>2
  <2>2. CASE crossed # {}
    <3>1. Crossing(spent, spent') # {} /\ p \in crossed /\ \A q \in crossed : q <= p
      BY <2>2, SomeCrossing
    <3>2. \A q \in before : q < p
      BY <1>1, <3>1, PassedAbove
    <3>3. before \subseteq Shares /\ crossed \subseteq Shares
      BY DEF Passed
    <3>4. Told(spent, spent') = Append(announced.spend, p)
      BY <3>1 DEF Told
    <3> HIDE DEF before, crossed, p
    <3>5. Tells(Append(announced.spend, p), before \union crossed)
      BY <1>1, <1>3, <3>1, <3>2, <3>3, TellOneMore
    <3>6. QED
      BY <3>4, <3>5
  <2>3. QED
    BY <2>1, <2>2
<1>6. Tells(announced'.spend, Passed(opened', spent'))
  BY <1>2, <1>4, <1>5
<1>7. QED
  BY <1>6 DEF SpendAlertsTell, Tells, OnlyPassed, Rising, AllPassed, Passed

(* Nothing spent since the process started, and nothing told of it. *)
LEMMA NothingToTell ==
  ASSUME NEW n \in Nat
  PROVE  Tells(<<>>, Passed(n, n))
<1>1. Passed(n, n) = {}
  <2>1. \A p \in Shares : ~(100 * n < p * Limit /\ 100 * n >= p * Limit)
    BY ShareProducts
  <2>2. QED
    BY <2>1 DEF Passed
<1>2. QED
  BY <1>1 DEF Tells, OnlyPassed, Rising, AllPassed

(* Every share that is passed is announced, in rising order and once, for any  *)
(* shares, limit and prices and however the responses of the rooms interleave. *)
THEOREM SpendingIsTold == Spec => []SpendAlertsTell
<1>1. Init => SpendAlertsTell
  BY NothingToTell, TellsIsSpendAlertsTell DEF Init, Quiet
<1>2. TypeOK /\ SpendAlertsTell /\ [Next]_vars => SpendAlertsTell'
  <2> SUFFICES ASSUME TypeOK, SpendAlertsTell, [Next]_vars
               PROVE  SpendAlertsTell'
    OBVIOUS
  <2>1. CASE announced'.spend = announced.spend /\ spent' = spent /\ opened' = opened
    BY <2>1 DEF SpendAlertsTell
  <2>2. ASSUME NEW t \in Tasks, NEW persists \in BOOLEAN, Add(t, persists)
        PROVE  SpendAlertsTell'
    BY <2>2, AddTellsRight
  <2>3. ASSUME NEW t \in Tasks, Proceed(t),
               ~(\E persists \in BOOLEAN : Add(t, persists))
        PROVE  announced'.spend = announced.spend /\ spent' = spent /\ opened' = opened
    <3>1. CASE RecordFailure(t)
      BY <3>1, FailureCounts DEF RecordFailure, tracker
    <3>2. CASE RaiseRecovered(t)
      <4>1. announced' = [announced EXCEPT !.balance = announced.balance - 1] /\ announced.balance - 1 \in Int
        BY <3>2 DEF RaiseRecovered, TypeOK
      <4>2. announced'.spend = announced.spend
        BY <4>1, BalanceSet DEF TypeOK
      <4>3. QED
        BY <3>2, <4>2 DEF RaiseRecovered, tracker
    <3>3. CASE UNCHANGED <<announced, spent, opened>>
      BY <3>3
    <3>4. RecordFailure(t) \/ RaiseRecovered(t) \/ UNCHANGED <<announced, spent, opened>>
      BY <2>3 DEF Proceed, CheckCost, CheckThrottle, FailLimited, NoteRateLimited, FailOtherwise,
                  Garbled, Succeed, tracker
    <3>5. QED
      BY <3>1, <3>2, <3>3, <3>4
  <2>4. ASSUME NEW t \in Tasks, NEW site \in Sites, Start(t, site)
        PROVE  announced'.spend = announced.spend /\ spent' = spent /\ opened' = opened
    BY <2>4 DEF Start, tracker
  <2>5. CASE Tick
    BY <2>1, <2>5 DEF Tick, tracker
  <2>6. CASE Restart
    <3>1. announced'.spend = <<>> /\ spent' = saved /\ opened' = saved /\ saved \in Nat
      BY <2>6 DEF Restart, LoadTotals, Quiet, TypeOK
    <3>2. Tells(announced'.spend, Passed(opened', spent'))
      BY <3>1, NothingToTell
    <3>3. QED
      BY <3>2 DEF SpendAlertsTell, Tells, OnlyPassed, Rising, AllPassed, Passed
  <2>7. CASE UNCHANGED vars
    BY <2>1, <2>7 DEF vars
  <2>8. QED
    BY <2>1, <2>2, <2>3, <2>4, <2>5, <2>6, <2>7 DEF Next
<1>3. QED
  BY <1>1, <1>2, TypesHold, PTL DEF Spec
-----------------------------------------------------------------------------
(* How far the limit is overrun                                                *)

(* What Outstanding says of a task, said of what it is doing. *)
Due(c) ==
  LET round == MaxContinuations + 1
      left == round - c.attempt
      later == IF c.summary THEN round ELSE 0
  IN CASE c.at = "costChecked" -> 2 * round
       [] c.at \in {"waiting", "recovered", "adding"} ->
            (IF c.site = "classify" THEN 1 ELSE left + later)
       [] c.at \in {"limited", "failing"} -> later
       [] OTHER -> 0

Dues(calls) == [t \in Tasks |-> Due(calls[t])]

Total(calls) ==
  LET iter[T \in SUBSET Tasks] ==
        IF T = {} THEN 0 ELSE LET t == CHOOSE t \in T : TRUE IN Due(calls[t]) + iter[T \ {t}]
  IN iter[Tasks]

LEMMA TotalIsOutstanding == TotalOutstanding = Total(call) /\ TotalOutstanding' = Total(call')
  BY DEF TotalOutstanding, MapThenSumSet, MapThenFoldSet, Outstanding, At, Total, Due

(* No request is worth more than two completions. *)
MostDue == 2 * (MaxContinuations + 1)

LEMMA DueBetween ==
  ASSUME NEW c \in Calls
  PROVE  Due(c) \in Nat /\ Due(c) <= MostDue
<1>1. MaxContinuations \in Nat /\ c.attempt \in 0..MaxContinuations /\ c.summary \in BOOLEAN
  BY CallFields, ClaudeCallsAssumption
<1> DEFINE round == MaxContinuations + 1
           later == IF c.summary THEN round ELSE 0
<1>2. round \in Nat /\ 1 <= round /\ later \in {0, round} /\ round - c.attempt \in 1..round
  BY <1>1
<1>3. Due(c) \in {0, 1, later, (round - c.attempt) + later, 2 * round}
  BY DEF Due
<1>4. MostDue = 2 * round
  BY DEF MostDue
<1> HIDE DEF round, later
<1>5. QED
  BY <1>2, <1>3, <1>4

LEMMA DuesAreNatural ==
  ASSUME NEW calls \in [Tasks -> Calls]
  PROVE  Dues(calls) \in [Tasks -> Nat] /\ \A t \in Tasks : Dues(calls)[t] = Due(calls[t])
<1>1. \A t \in Tasks : calls[t] \in Calls
  OBVIOUS
<1>2. \A t \in Tasks : Due(calls[t]) \in Nat
  BY <1>1, DueBetween
<1>3. QED
  BY <1>2 DEF Dues

LEMMA TotalIsSum ==
  ASSUME NEW calls \in [Tasks -> Calls]
  PROVE  \E sum : Sums(sum, Dues(calls), Tasks) /\ Total(calls) = sum[Tasks]
<1> DEFINE Iterates(sum) ==
             sum = [T \in SUBSET Tasks |->
                      IF T = {} THEN 0
                      ELSE LET t == CHOOSE t \in T : TRUE IN Due(calls[t]) + sum[T \ {t}]]
<1>1. ASSUME NEW sum
      PROVE  Iterates(sum) <=> Sums(sum, Dues(calls), Tasks)
  <2>1. ASSUME NEW T \in SUBSET Tasks, T # {}
        PROVE  Dues(calls)[CHOOSE t \in T : TRUE] = Due(calls[CHOOSE t \in T : TRUE])
    BY <2>1, DuesAreNatural
  <2>2. [T \in SUBSET Tasks |->
           IF T = {} THEN 0 ELSE LET t == CHOOSE t \in T : TRUE IN Due(calls[t]) + sum[T \ {t}]]
        = [T \in SUBSET Tasks |->
             IF T = {} THEN 0 ELSE LET t == CHOOSE t \in T : TRUE IN Dues(calls)[t] + sum[T \ {t}]]
    BY <2>1
  <2>3. QED
    BY <2>2 DEF Sums
<1>2. PICK tally : Sums(tally, Dues(calls), Tasks)
  BY DuesAreNatural, SumExists, ClaudeCallsAssumption
<1>3. Iterates(tally)
  BY <1>1, <1>2
<1>4. Iterates(CHOOSE sum : Iterates(sum))
  BY <1>3
<1>5. Total(calls) = (CHOOSE sum : Iterates(sum))[Tasks]
  BY DEF Total
<1> HIDE DEF Iterates
<1>6. QED
  BY <1>1, <1>4, <1>5

LEMMA TotalBelow ==
  ASSUME NEW calls \in [Tasks -> Calls], NEW b \in Nat, \A t \in Tasks : Due(calls[t]) <= b
  PROVE  Total(calls) \in Nat /\ Total(calls) <= b * Cardinality(Tasks)
<1>1. PICK sum : Sums(sum, Dues(calls), Tasks) /\ Total(calls) = sum[Tasks]
  BY TotalIsSum
<1>2. Dues(calls) \in [Tasks -> Nat] /\ IsFiniteSet(Tasks)
  BY DuesAreNatural, ClaudeCallsAssumption
<1>3. \A t \in Tasks : Dues(calls)[t] <= b
  BY DuesAreNatural
<1>4. sum[Tasks] <= b * Cardinality(Tasks)
  BY <1>1, <1>2, <1>3, SumBelow
<1>5. PICK T \in SUBSET Tasks : T = Tasks
  OBVIOUS
<1>6. sum[T] \in Nat
  BY <1>1, <1>2, SumTypes
<1>7. QED
  BY <1>1, <1>4, <1>5, <1>6

LEMMA TotalChanges ==
  ASSUME NEW calls \in [Tasks -> Calls], NEW others \in [Tasks -> Calls], NEW t \in Tasks,
         \A u \in Tasks \ {t} : others[u] = calls[u]
  PROVE  /\ Total(calls) \in Nat /\ Total(others) \in Nat
         /\ Total(others) - Due(others[t]) = Total(calls) - Due(calls[t])
<1>1. PICK sum : Sums(sum, Dues(calls), Tasks) /\ Total(calls) = sum[Tasks]
  BY TotalIsSum
<1>2. PICK other : Sums(other, Dues(others), Tasks) /\ Total(others) = other[Tasks]
  BY TotalIsSum
<1>3. Dues(calls) \in [Tasks -> Nat] /\ Dues(others) \in [Tasks -> Nat] /\ IsFiniteSet(Tasks)
  BY DuesAreNatural, ClaudeCallsAssumption
<1>4. \A u \in Tasks \ {t} : Dues(calls)[u] = Dues(others)[u]
  BY DuesAreNatural
<1>5. Dues(calls)[t] = Due(calls[t]) /\ Dues(others)[t] = Due(others[t])
  BY DuesAreNatural
<1>6. /\ other[Tasks] - Dues(others)[t] = sum[Tasks] - Dues(calls)[t]
      /\ other[Tasks] \in Nat /\ sum[Tasks] \in Nat
  BY <1>1, <1>2, <1>3, <1>4, SumChanges
<1>7. QED
  BY <1>1, <1>2, <1>5, <1>6


(* The greatest cost of a response. *)
LEMMA GreatestCost == Max(Costs) \in Nat /\ \A cost \in Costs \union {0} : cost <= Max(Costs)
<1>1. IsFiniteSet(Costs)
  <2>1. PICK n \in Nat : ExistsSurjection(1..n, Responses)
    BY FS_NatSurjection, ClaudeCallsAssumption
  <2>2. PICK f \in Surjection(1..n, Responses) : TRUE
    BY <2>1 DEF ExistsSurjection
  <2>3. f \in [1..n -> Responses] /\ \A response \in Responses : \E i \in 1..n : f[i] = response
    BY <2>2 DEF Surjection
  <2> DEFINE g == [i \in 1..n |-> Cost(f[i])]
  <2>4. g \in Surjection(1..n, Costs)
    <3>1. g \in [1..n -> Costs]
      BY <2>3 DEF Costs
    <3>2. ASSUME NEW cost \in Costs
          PROVE  \E i \in 1..n : g[i] = cost
      <4>1. PICK response \in Responses : cost = Cost(response)
        BY DEF Costs
      <4>2. PICK i \in 1..n : f[i] = response
        BY <2>3
      <4>3. QED
        BY <4>1, <4>2
    <3>3. QED
      BY <3>1, <3>2 DEF Surjection
  <2>5. QED
    BY <2>4, FS_NatSurjection DEF ExistsSurjection
<1>2. Costs \in SUBSET Nat /\ Costs # {}
  BY CostsAreNatural, ClaudeCallsAssumption DEF Costs
<1>3. PICK most \in Costs : \A cost \in Costs : most >= cost
  BY <1>1, <1>2, GreatestOfFinite
<1>4. Max(Costs) \in Costs /\ \A cost \in Costs : Max(Costs) >= cost
  BY <1>3 DEF Max
<1>5. PICK top \in Nat : top = Max(Costs)
  BY <1>2, <1>4
<1>6. \A cost \in Costs \union {0} : cost <= top
  BY <1>2, <1>4, <1>5
<1>7. QED
  BY <1>5, <1>6

(* A summary is only asked for by a reply. *)
RepliesSummarize(c) == c.site = "classify" => ~c.summary

OnlyRepliesSummarize == \A t \in Tasks : RepliesSummarize(call[t])

(* A step of one task that leaves it with c, and what it owes less by paid. *)
Pays(t, c, paid) == c \in Calls /\ Goes(t, c) /\ RepliesSummarize(c) /\ Due(c) + paid <= Due(call[t])

LEMMA NothingDue == NoCall \in Calls /\ RepliesSummarize(NoCall) /\ Due(NoCall) = 0
  BY NoCallIsCall DEF NoCall, RepliesSummarize, Due

LEMMA AfterRequestPays ==
  ASSUME call \in [Tasks -> Calls], NEW t \in Tasks, RepliesSummarize(call[t]),
         NEW paid \in {0, 1}, Goes(t, AfterRequest(t)),
         \/ call[t].at \in {"waiting", "adding"}
         \/ call[t].at \in {"limited", "failing"} /\ paid = 0
  PROVE  Pays(t, AfterRequest(t), paid)
<1>1. AfterRequest(t) \in Calls
  BY AfterRequestIsCall
<1>2. PICK c \in Calls : c = call[t]
  OBVIOUS
<1>3. /\ MaxContinuations \in Nat /\ c.attempt \in 0..MaxContinuations /\ c.summary \in BOOLEAN
      /\ c.site \in Sites /\ Due(c) \in Nat
  BY CallFields, DueBetween, ClaudeCallsAssumption
<1>4. CASE c.summary
  <2>1. PICK d : d = AfterRequest(t)
    OBVIOUS
  <2>2. d.at = "waiting" /\ d.site = c.site /\ d.summary = FALSE /\ d.attempt = 0
    BY <1>2, <1>4, <2>1 DEF AfterRequest, Calls
  <2>3. c.site # "classify"
    BY <1>2, <1>4 DEF RepliesSummarize
  <2>4. Due(d) = MaxContinuations + 1
    BY <1>3, <2>2, <2>3 DEF Due
  <2>5. Due(c) >= MaxContinuations + 1 + paid
    <3>1. CASE c.at \in {"waiting", "adding"}
      <4>1. Due(c) = (MaxContinuations + 1 - c.attempt) + (MaxContinuations + 1)
        BY <1>3, <1>4, <2>3, <3>1 DEF Due
      <4>2. QED
        BY <1>3, <4>1
    <3>2. CASE c.at \in {"limited", "failing"} /\ paid = 0
      BY <1>3, <1>4, <3>2 DEF Due
    <3>3. QED
      BY <1>2, <3>1, <3>2
  <2>6. Due(d) + paid <= Due(c) /\ RepliesSummarize(d)
    BY <1>3, <2>2, <2>4, <2>5 DEF RepliesSummarize
  <2>7. QED
    BY <1>1, <1>2, <2>1, <2>6 DEF Pays
<1>5. CASE ~c.summary
  <2>1. AfterRequest(t) = NoCall
    BY <1>2, <1>5 DEF AfterRequest
  <2>2. c.at \in {"waiting", "adding"} => Due(c) >= 1
    BY <1>3, <1>5 DEF Due
  <2>3. paid <= Due(c)
    BY <1>2, <1>3, <2>2
  <2>4. QED
    BY <1>1, <1>2, <2>1, <2>3, NothingDue DEF Pays
<1>6. QED
  BY <1>3, <1>4, <1>5

(* OverrunBounded, said of Total. *)
Allowance == Limit + Max(Costs) * (MostDue * Cardinality(Tasks))

Overrun == spent + Max(Costs) * Total(call) < Allowance

LEMMA TasksCounted == Cardinality(Tasks) \in Nat /\ MostDue \in Nat /\ Allowance \in Nat
<1>1. Cardinality(Tasks) \in Nat /\ MostDue \in Nat
  BY FS_CardinalityType, ClaudeCallsAssumption DEF MostDue
<1>2. ASSUME NEW a \in Nat, NEW b \in Nat
      PROVE  a * b \in Nat
  BY <1>2
<1>3. Max(Costs) * (MostDue * Cardinality(Tasks)) \in Nat
  BY <1>1, <1>2, GreatestCost
<1>4. QED
  BY <1>1, <1>3, ClaudeCallsAssumption DEF Allowance

LEMMA OverrunIsBounded == (Overrun <=> OverrunBounded) /\ (Overrun <=> OverrunBounded)'
<1>1. ASSUME NEW a \in Nat, NEW b \in Nat, NEW c \in Nat
      PROVE  a * 2 * b * c = a * ((2 * b) * c)
  <2>1. a * 2 * b * c = (a * (2 * b)) * c
    BY <1>1
  <2>2. (a * (2 * b)) * c = a * ((2 * b) * c)
    BY <1>1
  <2>3. QED
    BY <2>1, <2>2
<1>2. Max(Costs) * 2 * (MaxContinuations + 1) * Cardinality(Tasks) = Max(Costs) * (MostDue * Cardinality(Tasks))
  <2>1. MaxContinuations + 1 \in Nat
    BY ClaudeCallsAssumption
  <2>2. QED
    BY <1>1, <2>1, GreatestCost, TasksCounted DEF MostDue
<1>3. QED
  BY <1>2, TotalIsOutstanding DEF Overrun, OverrunBounded, Allowance

LEMMA PaidWithin ==
  ASSUME TypeOK, OnlyRepliesSummarize, Overrun, NEW t \in Tasks, NEW c, NEW paid \in {0, 1},
         Pays(t, c, paid), spent' \in Nat, spent' <= spent + Max(Costs) * paid
  PROVE  OnlyRepliesSummarize' /\ Overrun'
<1>1. call \in [Tasks -> Calls] /\ spent \in Nat
  BY DEF TypeOK
<1>2. c \in Calls /\ call' = [call EXCEPT ![t] = c] /\ RepliesSummarize(c) /\ Due(c) + paid <= Due(call[t])
  BY DEF Pays, Goes
<1>3. call' \in [Tasks -> Calls] /\ call'[t] = c /\ \A u \in Tasks \ {t} : call'[u] = call[u]
  BY <1>1, <1>2
<1>4. OnlyRepliesSummarize'
  BY <1>2, <1>3 DEF OnlyRepliesSummarize, RepliesSummarize
<1>5. PICK total \in Nat : total = Total(call)
  BY <1>1, <1>3, TotalChanges
<1>6. PICK next \in Nat : next = Total(call') /\ next - Due(c) = total - Due(call[t])
  BY <1>1, <1>3, <1>5, TotalChanges
<1>7. next + paid <= total
  <2>1. call[t] \in Calls
    BY <1>1
  <2>2. Due(c) \in Nat /\ Due(call[t]) \in Nat
    BY <1>2, <2>1, DueBetween
  <2>3. QED
    BY <1>2, <1>6, <2>2
<1>8. PICK most \in Nat : most = Max(Costs)
  BY GreatestCost
<1>9. most * next + most * paid <= most * total
  <2>1. PICK rest \in Nat : total = next + paid + rest
    BY <1>7
  <2>2. most * (next + paid + rest) = most * next + most * paid + most * rest
    BY <1>7
  <2>3. most * rest \in Nat /\ most * next \in Nat /\ most * paid \in Nat
    BY <1>7
  <2>4. QED
    BY <2>1, <2>2, <2>3
<1>10. most * next \in Nat /\ most * paid \in Nat /\ most * total \in Nat
  OBVIOUS
<1>11. spent + most * total < Allowance /\ Allowance \in Nat
  BY <1>5, <1>8, TasksCounted DEF Overrun
<1>12. spent' + most * next < Allowance
  BY <1>1, <1>8, <1>9, <1>10, <1>11
<1>13. QED
  BY <1>4, <1>6, <1>8, <1>12 DEF Overrun

(* Every step of a task but the two that add something: the check, which lets  *)
(* it spend, and what a response cost. *)
LEMMA StartPays ==
  ASSUME TypeOK, NEW t \in Tasks, NEW site \in Sites, Start(t, site)
  PROVE  \E c : Pays(t, c, 0)
<1> DEFINE c == [NoCall EXCEPT !.at = "starting", !.site = site]
<1>1. c \in Calls /\ c.at = "starting"
  BY StartedIsCall
<1>2. Goes(t, c) /\ c.summary = FALSE
  BY DEF Start, NoCall
<1>3. call[t] \in Calls
  BY DEF TypeOK
<1> HIDE DEF c
<1>4. Due(c) = 0 /\ RepliesSummarize(c) /\ Due(call[t]) \in Nat
  BY <1>1, <1>2, <1>3, DueBetween DEF Due, RepliesSummarize
<1>5. QED
  BY <1>1, <1>2, <1>4 DEF Pays

LEMMA StopPays ==
  ASSUME TypeOK, NEW t \in Tasks, Goes(t, NoCall)
  PROVE  Pays(t, NoCall, 0)
<1>1. call[t] \in Calls
  BY DEF TypeOK
<1>2. QED
  BY <1>1, NothingDue, DueBetween DEF Pays

(* A step that changes only where the task is. *)
LEMMA MovePays ==
  ASSUME TypeOK, OnlyRepliesSummarize, NEW t \in Tasks, NEW step \in Steps, Moves(t, step),
         \/ call[t].at = "limited" /\ step = "failing"
         \/ call[t].at = "waiting" /\ step = "failing"
         \/ call[t].at = "recovered" /\ step = "adding"
  PROVE  \E c : Pays(t, c, 0)
<1>1. PICK b \in Calls : b = call[t]
  BY DEF TypeOK
<1>2. PICK c : c = [b EXCEPT !.at = step]
  OBVIOUS
<1>3. c \in Calls /\ c.at = step
  BY <1>2, SetStep
<1>4. c.site = b.site /\ c.summary = b.summary /\ c.attempt = b.attempt
  BY <1>2 DEF Calls
<1>5. Goes(t, c) /\ RepliesSummarize(b)
  BY <1>1, <1>2 DEF Moves, OnlyRepliesSummarize
<1>6. RepliesSummarize(c)
  BY <1>4, <1>5 DEF RepliesSummarize
<1>7. /\ MaxContinuations \in Nat /\ b.attempt \in 0..MaxContinuations /\ b.summary \in BOOLEAN
  BY CallFields, ClaudeCallsAssumption
<1>8. Due(c) <= Due(b)
  <2>1. CASE b.at = "recovered" /\ step = "adding"
    <3>1. Due(c) = Due(b)
      BY <1>3, <1>4, <2>1 DEF Due
    <3>2. QED
      BY <3>1, DueBetween
  <2>2. CASE b.at = "limited" /\ step = "failing"
    <3>1. Due(c) = Due(b)
      BY <1>3, <1>4, <2>2 DEF Due
    <3>2. QED
      BY <3>1, DueBetween
  <2>3. CASE b.at = "waiting" /\ step = "failing"
    BY <1>3, <1>4, <1>5, <1>7, <2>3 DEF Due, RepliesSummarize
  <2>4. QED
    BY <1>1, <2>1, <2>2, <2>3
<1>9. Due(c) \in Nat
  BY <1>3, DueBetween
<1>10. QED
  BY <1>1, <1>3, <1>5, <1>6, <1>8, <1>9 DEF Pays

LEMMA RequestPays ==
  ASSUME TypeOK, NEW t \in Tasks, CheckThrottle(t)
  PROVE  \E c : Pays(t, c, 0)
<1>1. PICK b \in Calls : b = call[t] /\ b.at = "costChecked"
  BY DEF TypeOK, CheckThrottle, At
<1>2. CASE Goes(t, NoCall)
  BY <1>2, StopPays
<1>3. ASSUME NEW refresh \in BOOLEAN, refresh => b.site = "reply",
             Goes(t, [b EXCEPT !.at = "waiting", !.summary = refresh])
      PROVE  \E c : Pays(t, c, 0)
  <2>1. PICK c : c = [b EXCEPT !.at = "waiting", !.summary = refresh]
    OBVIOUS
  <2>2. c \in Calls /\ c.at = "waiting"
    BY <2>1, RequestedIsCall
  <2>3. c.site = b.site /\ c.summary = refresh
    BY <2>1 DEF Calls
  <2>4. Due(b) = MostDue
    BY <1>1 DEF Due, MostDue
  <2>5. Due(c) \in Nat /\ Due(c) <= Due(b)
    BY <2>2, <2>4, DueBetween
  <2>6. RepliesSummarize(c)
    BY <1>3, <2>3 DEF RepliesSummarize
  <2>7. QED
    BY <1>1, <1>3, <2>1, <2>2, <2>5, <2>6 DEF Pays
<1>4. QED
  BY <1>1, <1>2, <1>3 DEF CheckThrottle

LEMMA LimitedPays ==
  ASSUME TypeOK, OnlyRepliesSummarize, NEW t \in Tasks, FailLimited(t)
  PROVE  \E c : Pays(t, c, 0)
<1>1. PICK b \in Calls : b = call[t] /\ b.at = "waiting" /\ RepliesSummarize(b)
  BY DEF TypeOK, FailLimited, At, OnlyRepliesSummarize
<1>2. PICK c : c = [b EXCEPT !.at = "limited", !.deadline = now + Backoff]
  OBVIOUS
<1>3. c \in Calls /\ c.at = "limited"
  <2>1. now + Backoff \in 0..(MaxTime + Backoff)
    BY ClaudeCallsAssumption DEF TypeOK
  <2>2. QED
    BY <1>2, <2>1, LimitedIsCall
<1>4. c.site = b.site /\ c.summary = b.summary
  BY <1>2 DEF Calls
<1>5. MaxContinuations \in Nat /\ b.attempt \in 0..MaxContinuations /\ b.summary \in BOOLEAN
  BY CallFields, ClaudeCallsAssumption
<1>6. Due(c) <= Due(b) /\ Due(c) \in Nat
  BY <1>1, <1>3, <1>4, <1>5, DueBetween DEF Due, RepliesSummarize
<1>7. RepliesSummarize(c) /\ Goes(t, c)
  BY <1>1, <1>2, <1>4 DEF RepliesSummarize, FailLimited
<1>8. QED
  BY <1>1, <1>3, <1>6, <1>7 DEF Pays

LEMMA SucceedPays ==
  ASSUME TypeOK, OnlyRepliesSummarize, NEW t \in Tasks, NEW cost \in Costs, Succeed(t, cost)
  PROVE  \E c : Pays(t, c, 0)
<1>1. PICK b \in Calls : b = call[t] /\ b.at = "waiting" /\ RepliesSummarize(b)
  BY DEF TypeOK, Succeed, At, OnlyRepliesSummarize
<1>2. PICK step \in {"recovered", "adding"} : step = IF failures.alerted THEN "recovered" ELSE "adding"
  OBVIOUS
<1>3. PICK c : c = [b EXCEPT !.at = step, !.cost = cost]
  OBVIOUS
<1>4. c \in Calls /\ c.at = step
  <2>1. step \in Steps
    BY <1>2 DEF Steps
  <2>2. QED
    BY <1>3, <2>1, SucceededIsCall
<1>5. c.site = b.site /\ c.summary = b.summary /\ c.attempt = b.attempt
  BY <1>3 DEF Calls
<1>6. Due(c) = Due(b) /\ Due(b) \in Nat
  BY <1>1, <1>2, <1>4, <1>5, DueBetween DEF Due
<1>7. RepliesSummarize(c) /\ Goes(t, c)
  BY <1>1, <1>2, <1>3, <1>5 DEF RepliesSummarize, Succeed
<1>8. QED
  BY <1>1, <1>4, <1>6, <1>7 DEF Pays

(* A response costs no more than the greatest, and is one request less. *)
LEMMA AddPays ==
  ASSUME TypeOK, OnlyRepliesSummarize, NEW t \in Tasks, NEW persists \in BOOLEAN, Add(t, persists)
  PROVE  \E c : Pays(t, c, 1)
<1>1. PICK b \in Calls : b = call[t] /\ b.at = "adding" /\ RepliesSummarize(b)
  BY DEF TypeOK, Add, At, OnlyRepliesSummarize
<1>2. CASE Goes(t, AfterRequest(t))
  <2>1. call \in [Tasks -> Calls]
    BY DEF TypeOK
  <2>2. Pays(t, AfterRequest(t), 1)
    BY <1>1, <1>2, <2>1, AfterRequestPays
  <2>3. QED
    BY <2>2
<1>3. CASE MayContinue(t) /\ Goes(t, Continued(t))
  <2>1. call \in [Tasks -> Calls]
    BY DEF TypeOK
  <2>2. PICK c : c = Continued(t)
    OBVIOUS
  <2>3. c \in Calls /\ c.at = "waiting"
    BY <1>3, <2>1, <2>2, ContinuedIsCall
  <2>4. c.site = b.site /\ c.summary = b.summary /\ c.attempt = b.attempt + 1
    BY <1>1, <2>2 DEF Continued, Calls
  <2>5. b.site # "classify"
    BY <1>1, <1>3 DEF MayContinue
  <2>6. MaxContinuations \in Nat /\ b.attempt \in 0..MaxContinuations /\ b.summary \in BOOLEAN
    BY CallFields, ClaudeCallsAssumption
  <2>7. Due(c) + 1 <= Due(b)
    BY <1>1, <2>3, <2>4, <2>5, <2>6 DEF Due
  <2>8. RepliesSummarize(c)
    BY <2>4, <2>5 DEF RepliesSummarize
  <2>9. QED
    BY <1>1, <1>3, <2>2, <2>3, <2>7, <2>8 DEF Pays
<1>4. QED
  BY <1>2, <1>3 DEF Add

LEMMA AddCosts ==
  ASSUME TypeOK, NEW t \in Tasks, NEW persists \in BOOLEAN, Add(t, persists)
  PROVE  spent' \in Nat /\ spent' <= spent + Max(Costs) * 1
<1>1. PICK b \in Calls : b = call[t]
  BY DEF TypeOK
<1>2. b.cost \in Costs \union {0}
  BY CallFields
<1>3. b.cost \in Nat /\ b.cost <= Max(Costs)
  <2>1. \A cost \in Costs \union {0} : cost \in Nat
    BY CostsAreNatural
  <2>2. \A cost \in Costs \union {0} : cost <= Max(Costs)
    BY GreatestCost
  <2>3. QED
    BY <1>2, <2>1, <2>2
<1>4. spent' = spent + b.cost /\ spent \in Nat
  BY <1>1 DEF Add, TypeOK
<1>5. QED
  BY <1>3, <1>4, GreatestCost

(* While the limit is not reached, everyone may have passed the check. *)
LEMMA AnyMaySpend ==
  ASSUME spent \in Nat, spent < Limit, call' \in [Tasks -> Calls], spent' = spent
  PROVE  Overrun'
<1>1. \A t \in Tasks : Due(call'[t]) <= MostDue
  BY DueBetween
<1>2. Total(call') \in Nat /\ Total(call') <= MostDue * Cardinality(Tasks)
  BY <1>1, TotalBelow, TasksCounted
<1>3. PICK total \in Nat : total = Total(call')
  BY <1>2
<1>4. PICK most \in Nat : most = Max(Costs)
  BY GreatestCost
<1>5. PICK all \in Nat : all = MostDue * Cardinality(Tasks)
  BY TasksCounted
<1>6. total <= all
  BY <1>2, <1>3, <1>5
<1>7. PICK rest \in Nat : all = total + rest
  <2>1. all - total \in Nat /\ all = total + (all - total)
    BY <1>6
  <2>2. QED
    BY <2>1
<1>8. most * all = most * total + most * rest /\ most * total \in Nat /\ most * rest \in Nat
  BY <1>7
<1>9. spent + most * total < Limit + most * all
  BY <1>8, ClaudeCallsAssumption
<1>10. QED
  BY <1>3, <1>4, <1>5, <1>9 DEF Overrun, Allowance

LEMMA CheckedWithin ==
  ASSUME TypeOK, OnlyRepliesSummarize, Overrun, NEW t \in Tasks, CheckCost(t)
  PROVE  OnlyRepliesSummarize' /\ Overrun'
<1>1. spent' = spent /\ spent \in Nat
  BY DEF CheckCost, tracker, TypeOK
<1>2. CASE Goes(t, NoCall)
  BY <1>1, <1>2, StopPays, PaidWithin, GreatestCost
<1>3. CASE Moves(t, "costChecked") /\ spent < Limit
  <2>1. call' \in [Tasks -> Calls] /\ call \in [Tasks -> Calls]
    BY CheckCostGoes DEF GoesTo, TypeOK
  <2>2. PICK b \in Calls : b = call[t]
    BY DEF TypeOK
  <2>3. call' = [call EXCEPT ![t] = [b EXCEPT !.at = "costChecked"]]
    BY <1>3, <2>2 DEF Moves, Goes
  <2>4. PICK c : c = [b EXCEPT !.at = "costChecked"]
    OBVIOUS
  <2>5. c.site = b.site /\ c.summary = b.summary
    BY <2>4 DEF Calls
  <2>6. call'[t] = c /\ \A u \in Tasks \ {t} : call'[u] = call[u]
    BY <2>1, <2>3, <2>4
  <2>7. OnlyRepliesSummarize'
    BY <2>2, <2>5, <2>6 DEF OnlyRepliesSummarize, RepliesSummarize
  <2>8. QED
    BY <1>1, <1>3, <2>1, <2>7, AnyMaySpend
<1>4. QED
  BY <1>1, <1>2, <1>3, ClaudeCallsAssumption DEF CheckCost, OverCostLimit

LEMMA ProceedWithin ==
  ASSUME TypeOK, OnlyRepliesSummarize, Overrun, NEW t \in Tasks, Proceed(t)
  PROVE  OnlyRepliesSummarize' /\ Overrun'
<1>1. ASSUME spent' = spent, NEW c, Pays(t, c, 0)
      PROVE  OnlyRepliesSummarize' /\ Overrun'
  <2>1. spent' \in Nat /\ spent' <= spent + Max(Costs) * 0
    BY <1>1, GreatestCost DEF TypeOK
  <2>2. QED
    BY <1>1, <2>1, PaidWithin
<1>2. call \in [Tasks -> Calls] /\ RepliesSummarize(call[t])
  BY DEF TypeOK, OnlyRepliesSummarize
<1>3. CASE CheckCost(t)
  BY <1>3, CheckedWithin
<1>4. CASE CheckThrottle(t)
  BY <1>1, <1>4, RequestPays DEF CheckThrottle, tracker
<1>5. CASE FailLimited(t)
  BY <1>1, <1>5, LimitedPays DEF FailLimited, tracker
<1>6. CASE NoteRateLimited(t)
  <2>1. \E c : Pays(t, c, 0)
    BY <1>6, MovePays DEF NoteRateLimited, At, Steps
  <2>2. QED
    BY <1>1, <1>6, <2>1 DEF NoteRateLimited, tracker
<1>7. CASE FailOtherwise(t)
  <2>1. \E c : Pays(t, c, 0)
    BY <1>7, MovePays DEF FailOtherwise, At, Steps
  <2>2. QED
    BY <1>1, <1>7, <2>1 DEF FailOtherwise, tracker
<1>8. CASE RecordFailure(t)
  <2>1. Pays(t, AfterRequest(t), 0)
    BY <1>2, <1>8, AfterRequestPays DEF RecordFailure, At
  <2>2. QED
    BY <1>1, <1>8, <2>1 DEF RecordFailure, tracker
<1>9. CASE Garbled(t)
  <2>1. Pays(t, AfterRequest(t), 0)
    BY <1>2, <1>9, AfterRequestPays DEF Garbled, At
  <2>2. QED
    BY <1>1, <1>9, <2>1 DEF Garbled, tracker
<1>10. ASSUME NEW cost \in Costs, Succeed(t, cost)
       PROVE  OnlyRepliesSummarize' /\ Overrun'
  BY <1>1, <1>10, SucceedPays DEF Succeed, tracker
<1>11. CASE RaiseRecovered(t)
  <2>1. \E c : Pays(t, c, 0)
    BY <1>11, MovePays DEF RaiseRecovered, At, Steps
  <2>2. QED
    BY <1>1, <1>11, <2>1 DEF RaiseRecovered, tracker
<1>12. ASSUME NEW persists \in BOOLEAN, Add(t, persists)
       PROVE  OnlyRepliesSummarize' /\ Overrun'
  <2>1. PICK c : Pays(t, c, 1)
    BY <1>12, AddPays
  <2>2. spent' \in Nat /\ spent' <= spent + Max(Costs) * 1
    BY <1>12, AddCosts
  <2>3. QED
    BY <2>1, <2>2, PaidWithin
<1>13. QED
  BY <1>3, <1>4, <1>5, <1>6, <1>7, <1>8, <1>9, <1>10, <1>11, <1>12 DEF Proceed

(* A process that just started owes nothing. *)
LEMMA NothingOwed ==
  ASSUME NEW calls, calls = [t \in Tasks |-> NoCall]
  PROVE  calls \in [Tasks -> Calls] /\ Total(calls) = 0 /\ \A t \in Tasks : RepliesSummarize(calls[t])
<1>1. calls \in [Tasks -> Calls] /\ \A t \in Tasks : calls[t] = NoCall
  BY NoCallIsCall
<1>2. \A t \in Tasks : Due(calls[t]) <= 0
  BY <1>1, NothingDue
<1>3. Total(calls) \in Nat /\ Total(calls) <= 0 * Cardinality(Tasks)
  BY <1>1, <1>2, TotalBelow
<1>4. Total(calls) = 0
  BY <1>3, TasksCounted
<1>5. QED
  BY <1>1, <1>4, NothingDue

(* The limit is overrun by no more than what those who passed the check before *)
(* it was reached still do, for any number of rooms, prices, limit and         *)
(* continuations, whatever fails and however the rooms interleave.             *)
THEOREM OverrunIsLimited == Spec => []OverrunBounded
<1>1. Init => OnlyRepliesSummarize /\ Overrun
  <2> SUFFICES ASSUME Init
               PROVE  OnlyRepliesSummarize /\ Overrun
    OBVIOUS
  <2>1. call = [t \in Tasks |-> NoCall] /\ spent = 0
    BY DEF Init
  <2>2. Total(call) = 0 /\ OnlyRepliesSummarize
    BY <2>1, NothingOwed DEF OnlyRepliesSummarize
  <2>3. Max(Costs) * (MostDue * Cardinality(Tasks)) \in Nat
    <3>1. ASSUME NEW a \in Nat, NEW b \in Nat
          PROVE  a * b \in Nat
      BY <3>1
    <3>2. QED
      BY <3>1, GreatestCost, TasksCounted
  <2>4. Max(Costs) * 0 = 0
    BY GreatestCost
  <2>5. QED
    BY <2>1, <2>2, <2>3, <2>4, ClaudeCallsAssumption DEF Overrun, Allowance
<1>2. TypeOK /\ OnlyRepliesSummarize /\ Overrun /\ [Next]_vars => OnlyRepliesSummarize' /\ Overrun'
  <2> SUFFICES ASSUME TypeOK, OnlyRepliesSummarize, Overrun, [Next]_vars
               PROVE  OnlyRepliesSummarize' /\ Overrun'
    OBVIOUS
  <2>1. CASE spent' = spent /\ call' = call
    BY <2>1 DEF OnlyRepliesSummarize, Overrun, Total
  <2>2. ASSUME NEW t \in Tasks, NEW site \in Sites, Start(t, site)
        PROVE  OnlyRepliesSummarize' /\ Overrun'
    <3>1. PICK c : Pays(t, c, 0)
      BY <2>2, StartPays
    <3>2. spent' \in Nat /\ spent' <= spent + Max(Costs) * 0
      BY <2>2, GreatestCost DEF Start, tracker, TypeOK
    <3>3. QED
      BY <3>1, <3>2, PaidWithin
  <2>3. ASSUME NEW t \in Tasks, Proceed(t)
        PROVE  OnlyRepliesSummarize' /\ Overrun'
    BY <2>3, ProceedWithin
  <2>4. CASE Tick
    BY <2>1, <2>4 DEF Tick, tracker
  <2>5. CASE Restart
    <3>1. call' = [t \in Tasks |-> NoCall] /\ spent' = saved /\ saved \in Nat /\ saved <= spent /\ spent \in Nat
      BY <2>5 DEF Restart, LoadTotals, TypeOK
    <3>2. Total(call') = 0 /\ OnlyRepliesSummarize'
      BY <3>1, NothingOwed DEF OnlyRepliesSummarize
    <3>3. PICK owed \in Nat : owed = Max(Costs) * Total(call)
      <4>1. call \in [Tasks -> Calls] /\ \A t \in Tasks : Due(call[t]) <= MostDue
        BY DueBetween DEF TypeOK
      <4>2. Total(call) \in Nat
        BY <4>1, TotalBelow, TasksCounted
      <4>3. ASSUME NEW a \in Nat, NEW b \in Nat
            PROVE  a * b \in Nat
        BY <4>3
      <4>4. QED
        BY <4>2, <4>3, GreatestCost
    <3>4. spent + owed < Allowance /\ Allowance \in Nat
      BY <3>3, TasksCounted DEF Overrun
    <3>5. Max(Costs) * 0 = 0
      BY GreatestCost
    <3>6. saved + Max(Costs) * Total(call') < Allowance
      BY <3>1, <3>2, <3>3, <3>4, <3>5
    <3>7. QED
      BY <3>1, <3>2, <3>6 DEF Overrun
  <2>6. CASE UNCHANGED vars
    BY <2>1, <2>6 DEF vars
  <2>7. QED
    BY <2>2, <2>3, <2>4, <2>5, <2>6 DEF Next
<1>3. QED
  BY <1>1, <1>2, TypesHold, OverrunIsBounded, PTL DEF Spec
=============================================================================
