------------------------------ MODULE ClaudeCalls ------------------------------
(****************************************************************************)
(* The calls to Claude and what keeps them in bounds: UsageTracker           *)
(* (src/usage.rs) with the cost limit and the alerts, Throttle               *)
(* (src/throttle.rs), and the call sites with llm::send and llm::complete    *)
(* (src/llm.rs). Every room's worker is a task of its own, and the tracker   *)
(* and the throttle are shared by all: each takes its mutex for one step at  *)
(* a time, so a check is old news by the time of the call it allowed.        *)
(****************************************************************************)
EXTENDS Integers, FiniteSets, FiniteSetsExt, Sequences

CONSTANTS
  Tasks,            \* the workers of the rooms
  Limit,            \* cost_limit_usd, in some small unit
  Shares,           \* SPEND_ALERT_PERCENTS
  Responses,        \* what a response may have used: [model, tokens, searches]
  TokenPrice,       \* [models with a price -> price]
  SearchPrice,      \* WEB_SEARCH_PRICE_PER_REQUEST
  MaxContinuations, \* MAX_CONTINUATIONS
  FailuresBeforeAlert,
  Backoff,          \* Throttle.default_backoff
  MaxTime           \* bound: the clock stops here

ASSUME ClaudeCallsAssumption ==
  /\ IsFiniteSet(Tasks)
  /\ Limit \in Nat \ {0}
  /\ Shares \subseteq 1..100 /\ 100 \in Shares
  /\ Responses \subseteq [model : STRING, tokens : Nat, searches : Nat]
  /\ IsFiniteSet(Responses) /\ Responses # {}
  /\ \A model \in DOMAIN TokenPrice : TokenPrice[model] \in Nat
  /\ SearchPrice \in Nat
  /\ MaxContinuations \in Nat
  /\ FailuresBeforeAlert \in Nat \ {0}
  /\ Backoff \in Nat \ {0}
  /\ MaxTime \in Nat

(* estimate_cost_usd: tokens of every kind count as one here. A model that   *)
(* has no price costs nothing.                                               *)
TokenCost(response) ==
  IF response.model \in DOMAIN TokenPrice THEN response.tokens * TokenPrice[response.model] ELSE 0

(* UsageTotals::add, of what the limit is about. *)
Cost(response) == TokenCost(response) + response.searches * SearchPrice

Costs == {Cost(response) : response \in Responses}

VARIABLES
  spent,     \* Inner.overall.estimated_cost_usd
  saved,     \* the same in the database
  failures,  \* Failures: [inARow, alerted]; inARow counts no further than it matters
  until,     \* Throttle.until, 0 for none
  now,       \* the clock
  call,      \* what each task is doing, [Tasks -> Calls]
  (* history, since the process started: *)
  opened,    \* what was spent when it did
  announced  \* the alerts queued: the shares of the limit, in order, and how
             \* many more say that calls fail than that they work

vars == <<spent, saved, failures, until, now, call, opened, announced>>

(* The call sites: classify_message, which sends one request, and replies,   *)
(* greetings and skills, which complete one. Chat replies and unprompted     *)
(* comments may refresh the room's summary first.                            *)
Sites == {"classify", "reply"}

(* starting, costChecked: the two checks at the top of a call site. waiting: *)
(* a request is out. limited, failing: what send does with an error.         *)
(* recovered, adding: what record does.                                      *)
Steps == {"idle", "starting", "costChecked", "waiting",
          "limited", "failing", "recovered", "adding"}

Calls == [at : Steps, site : Sites, summary : BOOLEAN, attempt : 0..MaxContinuations,
          cost : Costs \union {0}, deadline : 0..(MaxTime + Backoff)]

NoCall == [at |-> "idle", site |-> "classify", summary |-> FALSE, attempt |-> 0,
           cost |-> 0, deadline |-> 0]

Quiet == [spend |-> <<>>, balance |-> 0]

Init ==
  /\ spent = 0 /\ saved = 0 /\ opened = 0
  /\ failures = [inARow |-> 0, alerted |-> FALSE]
  /\ until = 0 /\ now = 0
  /\ call = [t \in Tasks |-> NoCall]
  /\ announced = Quiet

At(t, step) == call[t].at = step
Goes(t, c) == call' = [call EXCEPT ![t] = c]
Moves(t, step) == Goes(t, [call[t] EXCEPT !.at = step])

tracker == <<spent, saved, opened>>
throttle == <<until, now>>

-----------------------------------------------------------------------------
(* A call site *)

Start(t, site) ==
  /\ At(t, "idle")
  /\ Goes(t, [NoCall EXCEPT !.at = "starting", !.site = site])
  /\ UNCHANGED <<tracker, throttle, failures, announced>>

OverCostLimit == spent >= Limit
Remaining == until > now

(* Mutant: only the classifier minds the limit. *)
CheckCostOfClassify(t) ==
  /\ At(t, "starting")
  /\ IF OverCostLimit /\ call[t].site = "classify" THEN Goes(t, NoCall) ELSE Moves(t, "costChecked")
  /\ UNCHANGED <<tracker, throttle, failures, announced>>

(* over_cost_limit, then remaining: the site answers without Claude if       *)
(* either says so.                                                           *)
CheckCost(t) ==
  /\ At(t, "starting")
  /\ IF OverCostLimit THEN Goes(t, NoCall) ELSE Moves(t, "costChecked")
  /\ UNCHANGED <<tracker, throttle, failures, announced>>

(* Not every reply asks for the summary, and few summaries need a refresh:   *)
(* summary_of completes a request of its own, and checks nothing.            *)
CheckThrottle(t) ==
  /\ At(t, "costChecked")
  /\ IF Remaining THEN Goes(t, NoCall)
     ELSE \E refresh \in BOOLEAN :
            /\ refresh => call[t].site = "reply"
            /\ Goes(t, [call[t] EXCEPT !.at = "waiting", !.summary = refresh])
  /\ UNCHANGED <<tracker, throttle, failures, announced>>

(* A request of the site is over: after the summary's, finished or failed,   *)
(* the reply itself is requested.                                            *)
AfterRequest(t) ==
  IF call[t].summary
  THEN [call[t] EXCEPT !.at = "waiting", !.summary = FALSE, !.attempt = 0, !.cost = 0, !.deadline = 0]
  ELSE NoCall

(* Mutant: the count of continuations never gets anywhere. *)
ContinuedForever(t) == [call[t] EXCEPT !.at = "waiting", !.cost = 0]

(* complete resends the conversation, for pause_turn or its own tools. *)
Continued(t) == [call[t] EXCEPT !.at = "waiting", !.attempt = @ + 1, !.cost = 0]

MayContinue(t) == call[t].site # "classify" /\ call[t].attempt < MaxContinuations

-----------------------------------------------------------------------------
(* An error comes back *)

(* note_rate_limited takes its deadline from the clock before it has the lock. *)
FailLimited(t) ==
  /\ At(t, "waiting")
  /\ Goes(t, [call[t] EXCEPT !.at = "limited", !.deadline = now + Backoff])
  /\ UNCHANGED <<tracker, throttle, failures, announced>>

(* Mutant: the last to get the lock wins. *)
NoteAnyway(t) ==
  /\ At(t, "limited")
  /\ until' = call[t].deadline
  /\ Moves(t, "failing")
  /\ UNCHANGED <<tracker, now, failures, announced>>

NoteRateLimited(t) ==
  /\ At(t, "limited")
  /\ until' = IF call[t].deadline > until THEN call[t].deadline ELSE until
  /\ Moves(t, "failing")
  /\ UNCHANGED <<tracker, now, failures, announced>>

FailOtherwise(t) ==
  /\ At(t, "waiting")
  /\ Moves(t, "failing")
  /\ UNCHANGED <<tracker, throttle, failures, announced>>

(* Mutant: every failure past the fifth alerts. *)
RecordFailureEachTime(t) ==
  /\ At(t, "failing")
  /\ LET count == IF failures.inARow < FailuresBeforeAlert THEN failures.inARow + 1 ELSE failures.inARow
         alert == count >= FailuresBeforeAlert
     IN /\ failures' = [inARow |-> count, alerted |-> failures.alerted \/ alert]
        /\ announced' = IF alert THEN [announced EXCEPT !.balance = @ + 1] ELSE announced
  /\ Goes(t, AfterRequest(t))
  /\ UNCHANGED <<tracker, throttle>>

(* record_failure: under the lock, alert included. *)
RecordFailure(t) ==
  /\ At(t, "failing")
  /\ LET count == IF failures.inARow < FailuresBeforeAlert THEN failures.inARow + 1 ELSE failures.inARow
         alert == count >= FailuresBeforeAlert /\ ~failures.alerted
     IN /\ failures' = [inARow |-> count, alerted |-> failures.alerted \/ alert]
        /\ announced' = IF alert THEN [announced EXCEPT !.balance = @ + 1] ELSE announced
  /\ Goes(t, AfterRequest(t))
  /\ UNCHANGED <<tracker, throttle>>

(* A response whose usage cannot be read is an error nobody records. *)
Garbled(t) ==
  /\ At(t, "waiting")
  /\ Goes(t, AfterRequest(t))
  /\ UNCHANGED <<tracker, throttle, failures, announced>>

-----------------------------------------------------------------------------
(* A response comes back: record *)

(* First the failures, under their lock. *)
Succeed(t, cost) ==
  /\ At(t, "waiting")
  /\ failures' = [inARow |-> 0, alerted |-> FALSE]
  /\ Goes(t, [call[t] EXCEPT !.at = IF failures.alerted THEN "recovered" ELSE "adding", !.cost = cost])
  /\ UNCHANGED <<tracker, throttle, announced>>

(* Then, with no lock held, the good news. *)
RaiseRecovered(t) ==
  /\ At(t, "recovered")
  /\ announced' = [announced EXCEPT !.balance = @ - 1]
  /\ Moves(t, "adding")
  /\ UNCHANGED <<tracker, throttle, failures>>

(* Mutant: the lowest share passed is announced. *)
CrossingLowest(before, after) ==
  LET passed == {p \in Shares : 100 * before < p * Limit /\ 100 * after >= p * Limit}
  IN {p \in passed : \A q \in passed : p <= q}

(* spend_crossing: the highest share passed, as a set of at most one. *)
Crossing(before, after) ==
  LET passed == {p \in Shares : 100 * before < p * Limit /\ 100 * after >= p * Limit}
  IN {p \in passed : \A q \in passed : q <= p}

(* save_totals, in a transaction that may fail. *)
SaveTotals(persists) == saved' = IF persists THEN spent' ELSE saved

(* What was spent, its alert and its row, under the tracker's lock; writing  *)
(* the row may fail, and later ones make up for it.                          *)
Add(t, persists) ==
  /\ At(t, "adding")
  /\ spent' = spent + call[t].cost
  /\ SaveTotals(persists)
  /\ announced' = [announced EXCEPT !.spend =
                     IF Crossing(spent, spent') = {} THEN @
                     ELSE Append(@, CHOOSE p \in Crossing(spent, spent') : TRUE)]
  /\ \/ Goes(t, AfterRequest(t))
     \/ MayContinue(t) /\ Goes(t, Continued(t))
  /\ UNCHANGED <<throttle, failures, opened>>

-----------------------------------------------------------------------------
Tick ==
  /\ now < MaxTime
  /\ now' = now + 1
  /\ UNCHANGED <<tracker, until, failures, call, announced>>

(* Mutant: the totals start from zero. *)
RestartFromZero ==
  /\ spent' = 0 /\ opened' = 0
  /\ failures' = [inARow |-> 0, alerted |-> FALSE]
  /\ until' = 0
  /\ call' = [t \in Tasks |-> NoCall]
  /\ announced' = Quiet
  /\ UNCHANGED <<saved, now>>

(* load_totals: what was saved is what was spent. *)
LoadTotals == spent' = saved /\ opened' = saved

(* UsageTracker::open, and the rest starts new. *)
Restart ==
  /\ LoadTotals
  /\ failures' = [inARow |-> 0, alerted |-> FALSE]
  /\ until' = 0
  /\ call' = [t \in Tasks |-> NoCall]
  /\ announced' = Quiet
  /\ UNCHANGED <<saved, now>>

Proceed(t) ==
  \/ CheckCost(t) \/ CheckThrottle(t)
  \/ FailLimited(t) \/ NoteRateLimited(t) \/ FailOtherwise(t) \/ RecordFailure(t) \/ Garbled(t)
  \/ \E cost \in Costs : Succeed(t, cost)
  \/ RaiseRecovered(t)
  \/ \E persists \in BOOLEAN : Add(t, persists)

Next ==
  \/ \E t \in Tasks, site \in Sites : Start(t, site)
  \/ \E t \in Tasks : Proceed(t)
  \/ Tick \/ Restart

Spec == Init /\ [][Next]_vars

(* A request ends within REQUEST_TIMEOUT, and a task that can run is polled. *)
FairSpec == Spec /\ \A t \in Tasks : WF_vars(Proceed(t))

-----------------------------------------------------------------------------
(* The types; what was spent is never less than when the process started,    *)
(* and no less than the database has.                                        *)
TypeOK ==
  /\ spent \in Nat /\ saved \in Nat /\ opened \in Nat
  /\ opened <= spent /\ saved <= spent
  /\ failures \in [inARow : 0..FailuresBeforeAlert, alerted : BOOLEAN]
  /\ until \in 0..(MaxTime + Backoff) /\ now \in 0..MaxTime
  /\ call \in [Tasks -> Calls]
  /\ announced \in [spend : Seq(Shares), balance : Int]

(* The requests a task that passed the check may still be charged for.       *)
Outstanding(t) ==
  LET round == MaxContinuations + 1
      left == round - call[t].attempt
      later == IF call[t].summary THEN round ELSE 0
  IN CASE At(t, "costChecked") -> 2 * round
       [] call[t].at \in {"waiting", "recovered", "adding"} ->
            (IF call[t].site = "classify" THEN 1 ELSE left + later)
       [] call[t].at \in {"limited", "failing"} -> later
       [] OTHER -> 0

TotalOutstanding == MapThenSumSet(Outstanding, Tasks)

(* The limit may be overrun, but not by more than what the tasks that passed *)
(* the check before it was reached still do: two completions each, of        *)
(* MaxContinuations + 1 requests. Nobody adds to that afterwards             *)
(* (src/usage.rs:207-211).                                                   *)
OverrunBounded ==
  spent + Max(Costs) * TotalOutstanding
    < Limit + Max(Costs) * 2 * (MaxContinuations + 1) * Cardinality(Tasks)

(* The spend alerts of a process: each share it passes is announced, by its  *)
(* own alert or one for a higher share, in rising order and so never twice,  *)
(* however the records of different rooms interleave (src/usage.rs:340-353). *)
SpendAlertsTell ==
  LET told == announced.spend
      passed == {p \in Shares : 100 * opened < p * Limit /\ 100 * spent >= p * Limit}
  IN /\ \A i \in DOMAIN told : told[i] \in passed
     /\ \A i, j \in DOMAIN told : i < j => told[i] < told[j]
     /\ \A p \in passed : \E i \in DOMAIN told : told[i] >= p

(* Every alert that calls fail is taken back by exactly one that they work   *)
(* again, as soon as the task that saw it work gets to it, and no alert is   *)
(* raised twice in between (src/usage.rs:263-276, 296-305).                  *)
FailureAlertsPaired ==
  announced.balance =
    (IF failures.alerted THEN 1 ELSE 0) + Cardinality({t \in Tasks : At(t, "recovered")})

(* A pause, once noted, is never cut short while the process runs, although  *)
(* two tasks may note theirs in the wrong order (src/throttle.rs:44-53).     *)
PauseNeverShortened == [][until' >= until \/ Restart]_vars

(* Every call comes to its end, even if the model never stops pausing or     *)
(* using its tools (src/llm.rs:30-32).                                       *)
CallsEnd == \A t \in Tasks : call[t].at # "idle" ~> call[t].at = "idle"

-----------------------------------------------------------------------------
(* What the documentation says and the code does not do. *)

(* Task t sends the first request of a completion. *)
Requests(t) == call'[t] # call[t] /\ call'[t].at = "waiting" /\ call'[t].attempt = 0

(* "once over_cost_limit reports true, every Claude call site checks in via  *)
(* it and stops making API calls entirely, the same way they check Throttle  *)
(* for an active rate-limit cooldown" (src/usage.rs:209). Not so for a reply *)
(* whose summary's own request reached the limit or was rate-limited: the    *)
(* reply is requested all the same, with no other task involved. A           *)
(* continuation of the same completion is not counted as a call here.        *)
CallSitesCheckIn ==
  [][\A t \in Tasks : Requests(t) => ~OverCostLimit' /\ ~Remaining']_vars
=============================================================================
